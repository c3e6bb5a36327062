SPECIFICATION FairSpec
CONSTANTS
  Conns = {c1}
  Users = {u1, u2}
  User <- OneUser
  Keys = {k}
  Capacity = 3
  Reserve = 1
  SynthSize = 3
  MaxInputs = 1
  MaxTrouble = 1
INVARIANT NothingForeign
PROPERTY HoldsReleased
CHECK_DEADLOCK FALSE
