SPECIFICATION LifeSpec
CONSTANTS
  event0 = event0
  event1 = event1
  event2 = event2
  keyboard = keyboard
  mouse = mouse
  Nodes = {event0, event1}
  NameOf <- BaseNames
  Burst = 1
  Careful = FALSE
  MaxEvents = 3
INVARIANTS
  RefusedAreEnabled
CHECK_DEADLOCK FALSE
