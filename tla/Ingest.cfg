SPECIFICATION Spec
CONSTANTS
  Kinds <- Sources
  KeyboardKeys = {"a"}
  Buttons = {"left"}
  OtherKeys = {"stylus", "touch"}
  Contacts = {"touch"}
  Reports <- Sent1
  MaxReports = 3
  MaxQueue = 6
  MaxDrops = 1
  MaxChanges = 3
INVARIANTS LanesGetTheirEnd InOrder RawHoldsEnd
CHECK_DEADLOCK FALSE
