SPECIFICATION Spec
CONSTANTS
  Items <- MCItems
  Sheet <- MCSheet
  Near <- MCNear
  OverFetch = 2
  ListLimit = 3
  Widening = 2
  MostTools = 5
  BridgeThreshold <- MCBridgeThreshold
  Tasks = {t1, t2}
  NoTask = NoTask
  NoItem = NoItem
  Backends = {"memory", "lance", "qdrant", "chroma", "pg"}
  Embedders = {e1, e2}
  Requests <- MCRequests
  Former <- MCFormer
  MaxRequests <- MCMaxRequests
  MaxCrashes = 1
SYMMETRY Alike
INVARIANTS
  
  AnswersAreBest
  
\* every task is idle once MaxRequests have been asked
CHECK_DEADLOCK FALSE
