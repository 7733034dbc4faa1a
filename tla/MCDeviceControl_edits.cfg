SPECIFICATION ControlSpec
CONSTANTS
  a = a
  b = b
  c = c
  home = home
  alt = alt
  m1 = m1
  m2 = m2
  wheel = wheel
  NULL = NULL
  Dangling = Dangling
  NoKey = NoKey
  NotYet = NotYet
  Keys = {a}
  Rels = {}
  Maps = {home}
  MacroNames = {m1, m2}
  BaseMappings <- OneMap
  BaseBinds <- EditBinds
  BaseMacros <- TwoMacros
  StartMaps = {home}
  StopKeys = {a}
  RecordingInit = {NULL}
  MaxGap = 0
  MaxRecord = 2
  MaxBase = 0
  MaxTimers = 1
  MaxLate = 0
  Commands = {"addaction", "delaction", "clearactions", "newmacro", "copymacro", "insmacroact", "delmacroact", "clearmacro", "delmacro", "recordmacro", "whichkey"}
  Careful = TRUE
  ClientActions <- OneBind
  ClientSteps <- OneStep
  Profiles = {}
  MaxActions = 2
INVARIANTS
  NoUndefined
