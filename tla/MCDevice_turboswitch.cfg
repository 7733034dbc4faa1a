SPECIFICATION Spec
CONSTANTS
  a = a
  b = b
  c = c
  x = x
  home = home
  alt = alt
  base = base
  upper = upper
  timed = timed
  m1 = m1
  wheel = wheel
  NULL = NULL
  Dangling = Dangling
  NoKey = NoKey
  NotYet = NotYet
  Keys = {a, b, x}
  Rels = {wheel}
  Maps = {home, alt}
  MacroNames = {m1}
  BaseMappings <- TwoMaps
  BaseBinds <- TurboSwitchBinds
  BaseMacros <- NoMacros
  StartMaps = {home}
  StopKeys = {}
  RecordingInit = {NULL}
  MaxGap = 0
  MaxRecord = 0
  MaxBase = 0
  MaxTimers = 2
  MaxLate = 0
INVARIANTS
  TurbosEnd
