SPECIFICATION FairSpec
CONSTANTS
  Lanes = {kbd, mouse}
  MaxEvents = 3
  MaxDepth = 2
INVARIANTS Serialised NoLostWakeup
PROPERTIES ResumeOnTop EndPumpReturns
