SPECIFICATION FairSpec
CONSTANTS
  a = a
  b = b
  c = c
  x = x
  home = home
  alt = alt
  base = base
  upper = upper
  timed = timed
  m1 = m1
  wheel = wheel
  NULL = NULL
  Dangling = Dangling
  NoKey = NoKey
  NotYet = NotYet
  Keys = {a, b, c}
  Rels = {wheel}
  Maps = {home, alt, base, upper, timed}
  MacroNames = {m1}
  BaseMappings <- AllMaps
  BaseBinds <- KeyBinds
  BaseMacros <- TapMacro
  StartMaps = {home, alt, base, timed, NULL}
  StopKeys = {}
  RecordingInit = {NULL}
  MaxGap = 0
  MaxRecord = 0
  MaxBase = 0
  MaxTimers = 3
  MaxLate = 0
INVARIANTS
  TypeOK
  DownIsTracked
  NoStuckKeys
  ReleasedKeysUnshift
  MapStackBounded
  TimerTargetExists
  TurboOnlyWhileHeld
  RelConstOnlyWhileHeld
PROPERTIES
  ThreadReturns
  MacroFinishes
  TurboToggles
