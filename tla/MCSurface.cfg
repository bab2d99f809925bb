CONSTANTS
  r1 = r1
  r2 = r2
  Runs <- TwoRuns
  Tools <- SomeTools
  Default = "default"
  MaxVersion = 1
  TopK = 1
  Natives <- SomeNatives
  Static <- OneStatic
  Pins <- SomePins
  Required <- OneRequired
  MaxHistory = 2
  MaxRounds = 2
  MaxChanges = 1
SPECIFICATION Spec
SYMMETRY Symmetry
INVARIANTS
  IndexIsSearch
  HistoryIsOneRuns
PROPERTIES
  RoundReplacesSelection
CHECK_DEADLOCK FALSE
