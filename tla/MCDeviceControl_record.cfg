SPECIFICATION ControlSpec
CONSTANTS
  a = a
  b = b
  c = c
  home = home
  alt = alt
  m1 = m1
  m2 = m2
  wheel = wheel
  NULL = NULL
  Dangling = Dangling
  NoKey = NoKey
  NotYet = NotYet
  Keys = {a, b}
  Rels = {}
  Maps = {home, alt}
  MacroNames = {m1, m2}
  BaseMappings <- TwoMaps
  BaseBinds <- RecordBinds
  BaseMacros <- OneMacro
  StartMaps = {home}
  StopKeys = {b}
  RecordingInit = {NULL, Dangling}
  MaxGap = 0
  MaxRecord = 3
  MaxBase = 0
  MaxTimers = 1
  MaxLate = 0
  Commands = {"switchprofile", "delmacro", "recordmacro"}
  Careful = FALSE
  ClientActions = {}
  ClientSteps = {}
  Profiles <- AltProfile
  MaxActions = 2
INVARIANTS
  RecordMatchesKeys
CHECK_DEADLOCK FALSE
