SPECIFICATION ControlSpec
CONSTANTS
  a = a
  b = b
  c = c
  home = home
  alt = alt
  m1 = m1
  m2 = m2
  wheel = wheel
  NULL = NULL
  Dangling = Dangling
  NoKey = NoKey
  NotYet = NotYet
  Keys = {a, b}
  Rels = {}
  Maps = {home, alt}
  MacroNames = {m1, m2}
  BaseMappings <- TwoMaps
  BaseBinds <- ClientBinds
  BaseMacros <- NoMacros
  StartMaps = {home}
  StopKeys = {b}
  RecordingInit = {NULL}
  MaxGap = 0
  MaxRecord = 2
  MaxBase = 0
  MaxTimers = 1
  MaxLate = 0
  Commands = {"newmap", "copymap", "switchmap", "delmap", "switchprofile", "copyactions"}
  Careful = TRUE
  ClientActions = {}
  ClientSteps = {}
  Profiles <- TwoProfiles
  MaxActions = 2
INVARIANTS
  ControlTypeOK
  CurrentMapExists
  DownIsTracked
  NoUndefined
