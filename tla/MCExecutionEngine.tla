-------------------------- MODULE MCExecutionEngine --------------------------
(* Instances of ExecutionEngine for TLC.                                   *)
EXTENDS ExecutionEngine, TLC

(* Five tools under two rate-limit keys: a plain one, one with             *)
(* requires_confirmation, one the policy's patterns match, an A2A tool,    *)
(* one without a handler, and a name nobody registered.                    *)
AllTools == {"plain", "flagged", "matched", "agent", "bare", "unknown"}

KeyTable == [t \in AllTools |-> IF t \in {"plain", "bare"} THEN "k1" ELSE "k2"]

Ask(tool, approval, arguments, allowed, retries) ==
  [tool |-> tool, approval |-> approval, arguments |-> arguments,
   allowed |-> allowed, retries |-> retries]

(* Every way through the gates for the two gated tools, whose replays are  *)
(* the approved requests, and one request of each other kind.              *)
GateRequests ==
  {Ask(t, "unset", g, d, 0) : t \in {"flagged", "matched"},
                              g \in {"good", "malformed"}, d \in BOOLEAN}
  \cup {Ask("matched", "approved", "malformed", FALSE, 0),
        Ask("plain", "ask", "good", TRUE, 1), Ask("plain", "unset", "unbuildable", TRUE, 0),
        Ask("agent", "unset", "good", TRUE, 0), Ask("bare", "unset", "good", FALSE, 0),
        Ask("bare", "unset", "good", TRUE, 0), Ask("unknown", "unset", "good", TRUE, 0)}

(* Valid calls of one tool, with the engine's retries or the caller's own. *)
RunTools == {"plain"}
RunKeyTable == [t \in RunTools |-> "k1"]
RunRequests == {Ask("plain", "unset", "good", TRUE, 0)}

Symmetry == Permutations(Calls)
=============================================================================
