SPECIFICATION Spec
CONSTANTS
  Clients = {c1}
  MaxEvents = 1
  MaxSends = 2
  Members = 2
  MaxDepth = 2
  CommandSize = 2
  MaxTrouble = 1
  MaxStrikes = 3
  Verdicts = {"pass", "modify"}
INVARIANT SendWhole
PROPERTY StreamsKept
