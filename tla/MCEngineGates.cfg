SPECIFICATION FairSpec
CONSTANTS
  Calls = {c1, c2}
  Tools <- AllTools
  Keys = {"k1", "k2"}
  KeyOf <- KeyTable
  Registered = {"plain", "flagged", "matched", "agent", "bare"}
  WithHandler = {"plain", "flagged", "matched"}
  Remote = {"agent"}
  FlagGated = {"flagged"}
  PatternGated = {"matched"}
  Requests <- GateRequests
  MaxConcurrent = 1
  MaxCalls = 2
  MaxRequests = 2
  Threshold = 1
  MaxRetries = 0
  TelemetryMayFail = FALSE
INVARIANTS
  PendingCostsNothing
  OneChargePerCall
  PendingIsWorthApproving
  EventsMatchAnswers
PROPERTIES
  NoGateBypassed
  EveryCallAnswered
CHECK_DEADLOCK FALSE
