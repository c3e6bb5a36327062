SPECIFICATION Spec
CONSTANTS
  Sources = {"plain", "combined"}
  SourceKeys <- Plugged
  Keyboards = {"plain", "combined"}
  SinkKeys = {"a"}
  Plain = {"a"}
  Slots = 2
  Capacity = 2
  Reserve = 1
  MaxInputs = 4
  MaxFaults = 1
INVARIANTS OutputsAgree NoStuckKey ReportsEnd
PROPERTY OwnSlotOnly
CHECK_DEADLOCK FALSE
