SPECIFICATION Spec
CONSTANTS
  Conns = {c1}
  Users = {u1}
  User <- OneUser
  Keys = {k}
  Capacity = 4
  Reserve = 1
  SynthSize = 2
  MaxInputs = 2
  MaxTrouble = 1
INVARIANTS ViewsAgree ClosedHoldsNothing SourceHoldsEnd RevokedHoldsNothing
CHECK_DEADLOCK FALSE
