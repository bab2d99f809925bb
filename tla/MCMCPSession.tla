----------------------------- MODULE MCMCPSession -----------------------------
(* Instances of MCPSession for TLC.                                        *)
EXTENDS MCPSession, TLC

Symmetry == Permutations(Callers) \cup Permutations(Owners)
===============================================================================
