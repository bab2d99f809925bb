\* Two calls through the middleware and the engine, each with its own policy.
SPECIFICATION ReplaySpec
CONSTANTS
  c1 = c1
  c2 = c2
  Calls <- TwoCalls
  Wrapped = {"delete_user", "drop_table", "write_note", "get_weather"}
  Capable = {"write_note"}
  Flagged = {}
  Policies = {"mw", "own"}
  Guard = {"mw"}
  Own = "own"
  Patterns <- MCPatterns
  Quota <- MCQuota
  Unaware = {}
  MaxAsks = 2
SYMMETRY Symmetry
INVARIANT ApprovedCallsRun
CHECK_DEADLOCK FALSE
