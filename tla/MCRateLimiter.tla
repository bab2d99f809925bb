---------------------------- MODULE MCRateLimiter ----------------------------
(* Instances of RateLimiter for TLC.                                       *)
EXTENDS RateLimiter, TLC

TwoTools == {"search", "send"}

(* Two tools of one namespace, or of one each.                             *)
Together == [tool \in TwoTools |-> "default"]
Apart == [tool \in TwoTools |-> IF tool = "search" THEN "web" ELSE "mail"]

Symmetry == Permutations(Callers)
=============================================================================
