SPECIFICATION TimeSpecification
CONSTANTS
  Digits = 2
  Giga = 100
  MaxTime = 2
  Texts <- SomeTexts
  Lapses <- SomeLapses
INVARIANTS
  TimesAreNormal
  PeriodsReadBack
PROPERTIES
  SleepsAreExact
