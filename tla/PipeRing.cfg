SPECIFICATION FairSpec
CONSTANTS
  Producer = {p1, p2}
  Item = {a, b}
  Capacity = 3
  Reserve <- Reserves
  PipeSize = 2
  ReadSize = 1
  MaxCalls = 5
INVARIANT NoMissedWake
PROPERTIES ImplementsFifo Delivered
