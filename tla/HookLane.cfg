SPECIFICATION FairSpec
CONSTANTS
  Clients = {c1}
  MaxEvents = 3
  QueueSize = 2
  Reserve = 1
  CommandSize = 1
  MaxTrouble = 1
  MaxStrikes = 2
  Kinds = {"key", "motion"}
  Verdicts = {"pass", "block", "modify"}
PROPERTIES Attributed LateOnlyWhenBehind TransitionOrder EventsFinish
