CONSTANTS
  p1 = p1
  p2 = p2
  c1 = c1
  c2 = c2
  c3 = c3
  Tasks <- TwoTasks
  Clients <- ThreeClients
  Servers = {s1}
  Configs = {k1, k2}
  Tools = {t1, t2}
  MaxOps = 5
SPECIFICATION Spec
SYMMETRY Symmetry
INVARIANTS
  ConnectionsInReach
  
  
CHECK_DEADLOCK FALSE
