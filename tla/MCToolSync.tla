------------------------------ MODULE MCToolSync ------------------------------
(* Instances of ToolSync for TLC.                                          *)
EXTENDS ToolSync, TLC

Symmetry == Permutations(Tasks) \cup Permutations(Tools) \cup Permutations(Embedders)
===============================================================================
