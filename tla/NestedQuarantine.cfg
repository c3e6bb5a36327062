SPECIFICATION Spec
CONSTANTS
  Clients = {c1}
  MaxEvents = 2
  MaxSends = 1
  Members = 1
  MaxDepth = 1
  CommandSize = 2
  MaxTrouble = 0
  MaxStrikes = 3
  Verdicts = {"pass"}
PROPERTY QuarantinedSkipped
