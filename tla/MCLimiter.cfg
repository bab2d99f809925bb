SPECIFICATION Spec
CONSTANTS
  Callers = {c1, c2, c3}
  Tools <- TwoTools
  NamespaceOf <- Together
  PerNamespace = TRUE
  PerTool = TRUE
  Strategies = {"sliding_window", "token_bucket", "fixed_window"}
  PerMinute = 2
  PerHour = 3
  Burst = 3
  MaxConcurrent = 2
  Minute = 2
  Hour = 4
  MaxTime = 8
  MaxResets = 1
SYMMETRY Symmetry
INVARIANTS
  PeekAgreesWithAcquire
  RateBounded
  SlotsCounted
PROPERTIES
  KeepsQuota
CHECK_DEADLOCK FALSE
