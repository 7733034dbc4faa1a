SPECIFICATION Spec
CONSTANTS
  a = a
  b = b
  c = c
  x = x
  home = home
  alt = alt
  base = base
  upper = upper
  timed = timed
  m1 = m1
  wheel = wheel
  NULL = NULL
  Dangling = Dangling
  NoKey = NoKey
  NotYet = NotYet
  Keys = {a, b, c}
  Rels = {wheel}
  Maps = {home, alt}
  MacroNames = {m1}
  BaseMappings <- TwoMaps
  BaseBinds <- OnlyShiftBinds
  BaseMacros <- NoMacros
  StartMaps = {home}
  StopKeys = {}
  RecordingInit = {NULL}
  MaxGap = 0
  MaxRecord = 0
  MaxBase = 0
  MaxTimers = 1
  MaxLate = 0
INVARIANTS
  ReleasedKeysUnshift
