SPECIFICATION ProfilesSpec
CONSTANTS
  Default = Default
  work = work
  play = play
  State = State
  Absent = Absent
  Torn = Torn
  NoMaps = NoMaps
  Profiles = {Default, work, play}
  MaxEdits = 2
INVARIANTS
  ProfilesTypeOK
  ProfilesAreKept
  CurrentHasFile
PROPERTIES
  ExitLeavesAll
