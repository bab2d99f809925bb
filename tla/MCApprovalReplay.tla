--------------------------- MODULE MCApprovalReplay ---------------------------
(* The quickstart of integrations/README.md: a gantry with its default      *)
(* policy, and a middleware with a policy that names some of the same tools. *)
EXTENDS ApprovalReplay, TLC

CONSTANTS c1, c2

TwoCalls == {c1, c2}
MCPatterns == [mw |-> {"delete_user"}, own |-> {"delete_user", "drop_table"}]
MCQuota == [mw |-> 2, own |-> 2]
Symmetry == Permutations(TwoCalls)
=============================================================================
