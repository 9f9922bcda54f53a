SPECIFICATION PromptSpec
CONSTANTS
  c1 = c1
  c2 = c2
  c3 = c3
  Conns = {c1, c2, c3}
  Slots = 2
  Nobody = Nobody
INVARIANTS
  TypeOK
  SlotsConserved
PROPERTIES
  NoWorkAfterJoin
  ImplementsSerialChat
  RequestsServed
  ShutdownCompletes
CHECK_DEADLOCK FALSE
