SPECIFICATION FairLifeSpec
CONSTANTS
  event0 = event0
  event1 = event1
  event2 = event2
  keyboard = keyboard
  mouse = mouse
  Nodes = {event0, event1, event2}
  NameOf <- BaseNames
  Burst = 1
  Careful = TRUE
  MaxEvents = 4
INVARIANTS
  LifeTypeOK
  JoinedOnce
  KnownArePlugged
  EnabledAreRemapped
  StoppedReleases
PROPERTIES
  PlugsAreNoticed
CHECK_DEADLOCK FALSE
