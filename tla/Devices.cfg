SPECIFICATION Spec
CONSTANTS
  Sources = {"combo"}
  Caps <- Plugged
  Keys = {"a"}
  Contacts = {}
  Demands <- HookOrBlock
  Queue = 1
  MaxInputs = 3
  MaxFaults = 1
INVARIANTS NothingLeftPressed HandledAsArrived FailsOpen NotForgotten
CHECK_DEADLOCK FALSE
