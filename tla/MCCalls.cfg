\* Live providers: two overlapping runs of one agent, in every framework, over
\* a registry in which one name stands for two tools.
SPECIFICATION Spec
CONSTANTS
  r1 = r1
  r2 = r2
  Runs <- TwoRuns
  Tools <- SomeTools
  Default = "default"
  MaxVersion = 1
  Limit = 2
  Required <- OneRequired
  AlwaysInclude <- OneAlways
  MaxTurns = 3
  MaxChanges = 1
SYMMETRY Symmetry
INVARIANTS
  CallsReachWhatWasShown
  RequiredIsShown
  NothingStaleStays
CHECK_DEADLOCK FALSE
