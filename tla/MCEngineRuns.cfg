SPECIFICATION Spec
CONSTANTS
  Calls = {c1, c2, c3}
  Tools <- RunTools
  Keys = {"k1"}
  KeyOf <- RunKeyTable
  Registered = {"plain"}
  WithHandler = {"plain"}
  Remote = {}
  FlagGated = {}
  PatternGated = {}
  Requests <- RunRequests
  MaxConcurrent = 2
  MaxCalls = 4
  MaxRequests = 3
  Threshold = 2
  MaxRetries = 1
  TelemetryMayFail = TRUE
SYMMETRY Symmetry
INVARIANTS
  SlotsMatchHolders
  ConcurrencyCapped
  HealthMatchesHistory
CHECK_DEADLOCK FALSE
