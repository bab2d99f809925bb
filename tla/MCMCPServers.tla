----------------------------- MODULE MCMCPServers -----------------------------
EXTENDS MCPServers, TLC

CONSTANTS p1, p2, c1, c2, c3

TwoTasks == {p1, p2}
ThreeClients == {c1, c2, c3}
Symmetry == Permutations(TwoTasks) \cup Permutations(ThreeClients)
=============================================================================
