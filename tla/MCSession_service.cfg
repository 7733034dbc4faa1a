SPECIFICATION SessionSpec
CONSTANTS
  d1 = d1
  d2 = d2
  waits = waits
  types = types
  newmap = newmap
  delmap = delmap
  NULL = NULL
  Stale = Stale
  Garbled = Garbled
  Daemons = {d1, d2}
  Mortal = {"serving"}
  Patient = {waits}
  Eager = {types}
  Commands = {newmap, delmap}
  MaxText = 2
  Cap = 3
  MaxTyped = 2
  MaxClients = 1
INVARIANTS
  SessionTypeOK
  SomeoneAnswers
  ReadyIsHonest
PROPERTIES
  StartEnds
  PatientClientsCall
  AnswerArrives
