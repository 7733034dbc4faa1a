SPECIFICATION LifeSpec
CONSTANTS
  event0 = event0
  event1 = event1
  event2 = event2
  keyboard = keyboard
  mouse = mouse
  Nodes = {event0, event1}
  NameOf <- BaseNames
  Burst = 2
  Careful = TRUE
  MaxEvents = 3
INVARIANTS
  KnownArePlugged
CHECK_DEADLOCK FALSE
