---------------------------- MODULE ApprovalReplay ----------------------------
(***************************************************************************)
(* A human's approval on its way through the Microsoft Agent Framework: the *)
(* framework calls a tool the bridge has wrapped, GantryApprovalMiddleware  *)
(* puts the call to a SecurityPolicy of its own, asks for approval, and the *)
(* approved call is replayed; the wrapper then has the engine execute it,   *)
(* under the policy of the gantry.  The two policies may be one object.     *)
(*                                                                         *)
(* Here the engine is the gates of one call, in the order ExecutionEngine   *)
(* has them, without its rate limiter and retries.  Approval by the         *)
(* framework itself, for tools of a capability that demands it, and the     *)
(* replay are external.                                                     *)
(***************************************************************************)
EXTENDS Integers, FiniteSets

CONSTANTS
  Calls,
  Wrapped,      \* the tools the bridge has wrapped
  Capable,      \* tools with a capability that demands approval
  Flagged,      \* tools registered with requires_confirmation=True
  Policies,     \* SecurityPolicy objects
  Guard,        \* the middleware's policy, none or one: a set
  Own,          \* the gantry's policy
  Patterns,     \* [Policies -> SUBSET Wrapped]: the tools require_confirmation matches
  Quota,        \* [Policies -> Nat]: max_requests_per_minute, 0 for no limit
  Unaware,      \* policies whose check_permission knows no confirmation_approved
  MaxAsks       \* bound on how often a human is asked about one call

(* What the theorems assume of the constants.                               *)
ApprovalAssumption ==
  /\ Capable \subseteq Wrapped /\ Flagged \subseteq Wrapped
  /\ Own \in Policies
  /\ Guard = {} \/ \E p \in Policies : Guard = {p}
  /\ Patterns \in [Policies -> SUBSET Wrapped]
  /\ Quota \in [Policies -> Nat]
  /\ Unaware \subseteq Policies
  /\ MaxAsks \in Nat

(* A call: its tool, the policies whose allowed_domains its arguments leave, *)
(* and whether they fit the tool's schema.                                  *)
Requests == [tool : Wrapped, barred : SUBSET Policies, valid : BOOLEAN]

VARIABLES
  request,  \* what each call asks for
  stage,    \* where each call is
  human,    \* the latest answer of the human asked about it
  asked,    \* how often one was asked
  result,   \* what the framework's model is told in the end
  window    \* the requests each policy counts in its minute

replayVars == <<request, stage, human, asked, result, window>>

Places == {"called", "asked", "invoked", "passed", "done"}
Answers == {"none", "approved", "rejected"}
Results == {"none", "ran", "pending", "denied", "rejected", "invalid"}

ReplayInit ==
  /\ request \in [Calls -> Requests]
  /\ stage = [c \in Calls |-> "called"]
  /\ human = [c \in Calls |-> "none"]
  /\ asked = [c \in Calls |-> 0]
  /\ result = [c \in Calls |-> "none"]
  /\ window = [p \in Policies |-> 0]

Goes(c, place) == stage' = [stage EXCEPT ![c] = place]
Ends(c, r) == Goes(c, "done") /\ result' = [result EXCEPT ![c] = r]
-----------------------------------------------------------------------------
(* SecurityPolicy.check_permission                                         *)

OverQuota(p) == Quota[p] > 0 /\ window[p] >= Quota[p]

(* The pattern gate, which an approval the policy is told of clears.        *)
Confirms(p, c, approved) == ~ approved /\ request[c].tool \in Patterns[p]

Verdict(p, c, approved) ==
  IF OverQuota(p) THEN "denied"
  ELSE IF Confirms(p, c, approved) THEN "asks"
  ELSE IF p \in request[c].barred THEN "denied"
  ELSE "granted"

(* A call is counted when its outcome is settled: once it is past the       *)
(* pattern gate, save for one that waits at the engine's gate, and at that  *)
(* gate when its arguments are no good.                                    *)
Counts(p, c, approved, pending, valid) ==
  /\ Quota[p] > 0 /\ ~ OverQuota(p)
  /\ IF Confirms(p, c, approved) THEN ~ valid ELSE p \in request[c].barred \/ ~ pending

Charged(p, c, approved, pending, valid) ==
  window' = IF Counts(p, c, approved, pending, valid)
              THEN [window EXCEPT ![p] = @ + 1] ELSE window

(* The minute moves on.                                                     *)
Elapse(p) ==
  /\ \E n \in 0 .. window[p] - 1 : window' = [window EXCEPT ![p] = n]
  /\ UNCHANGED <<request, stage, human, asked, result>>
-----------------------------------------------------------------------------
(* The framework                                                            *)

(* The wrapper's approval_mode makes the framework ask before it invokes.   *)
_tool_approval_mode(t) == IF t \in Capable THEN "always_require" ELSE "never_require"

AsksHuman(c) ==
  /\ asked[c] < MaxAsks /\ asked' = [asked EXCEPT ![c] = @ + 1]
  /\ Goes(c, "asked")

Call(c) ==
  /\ stage[c] = "called"
  /\ IF _tool_approval_mode(request[c].tool) = "always_require"
       THEN AsksHuman(c)
       ELSE Goes(c, "invoked") /\ UNCHANGED asked
  /\ UNCHANGED <<request, human, result, window>>

(* The replay, with the human's response in its metadata; without the       *)
(* middleware the framework answers a rejected call itself.                  *)
Replay(c) ==
  /\ stage[c] = "asked"
  /\ \E answer \in {"approved", "rejected"} :
       /\ human' = [human EXCEPT ![c] = answer]
       /\ IF answer = "rejected" /\ Guard = {} THEN Ends(c, "rejected")
          ELSE Goes(c, "invoked") /\ UNCHANGED result
  /\ UNCHANGED <<request, asked, window>>
-----------------------------------------------------------------------------
(* GantryApprovalMiddleware.process                                         *)

(* A policy that does not know the keyword is not told of the approval.     *)
Told(p, c) == human[c] = "approved" /\ p \notin Unaware

NoMiddleware(c) ==
  /\ stage[c] = "invoked" /\ Guard = {}
  /\ Goes(c, "passed")
  /\ UNCHANGED <<request, human, asked, result, window>>

HonoursRejection(c) ==
  /\ stage[c] = "invoked" /\ Guard # {} /\ human[c] = "rejected"
  /\ Ends(c, "rejected")
  /\ UNCHANGED <<request, human, asked, window>>

(* The three ends of the middleware's check: asking, also once more where   *)
(* the approval did not convince the policy, refusing, and the call.        *)
RequestsApproval(p, c) ==
  /\ Verdict(p, c, Told(p, c)) = "asks"
  /\ AsksHuman(c)
  /\ UNCHANGED result

Denies(p, c) ==
  /\ Verdict(p, c, Told(p, c)) = "denied"
  /\ Ends(c, "denied")
  /\ UNCHANGED asked

Passes(p, c) ==
  /\ Verdict(p, c, Told(p, c)) = "granted"
  /\ Goes(c, "passed")
  /\ UNCHANGED <<asked, result>>

Process(c) ==
  /\ stage[c] = "invoked" /\ human[c] # "rejected"
  /\ \E p \in Guard :
       /\ RequestsApproval(p, c) \/ Denies(p, c) \/ Passes(p, c)
       /\ Charged(p, c, Told(p, c), FALSE, TRUE)
  /\ UNCHANGED <<request, human>>
-----------------------------------------------------------------------------
(* The wrapper's _execute: a ToolCall of the tool, its namespace and its     *)
(* arguments, whose require_confirmation is left unset.                      *)
ToolCall_approved == FALSE

_needs_confirmation(c) == request[c].tool \in Flagged

EngineVerdict(c) == Verdict(Own, c, ToolCall_approved)

(* The policy of the gantry refuses, before anything is said of arguments.  *)
EngineDenies(c) ==
  /\ EngineVerdict(c) = "denied"
  /\ Ends(c, "denied")

(* Malformed arguments end a call at either confirmation gate.              *)
EngineRejects(c) ==
  /\ EngineVerdict(c) # "denied" /\ ~ request[c].valid
  /\ Ends(c, "invalid")

EngineStops(c) ==
  /\ request[c].valid
  /\ EngineVerdict(c) = "asks" \/ (EngineVerdict(c) = "granted" /\ _needs_confirmation(c))
  /\ Ends(c, "pending")

EngineRuns(c) ==
  /\ request[c].valid /\ EngineVerdict(c) = "granted" /\ ~ _needs_confirmation(c)
  /\ Ends(c, "ran")

Execute(c) ==
  /\ stage[c] = "passed"
  /\ EngineDenies(c) \/ EngineRejects(c) \/ EngineStops(c) \/ EngineRuns(c)
  /\ Charged(Own, c, ToolCall_approved,
             request[c].valid /\ _needs_confirmation(c), request[c].valid)
  /\ UNCHANGED <<request, human, asked>>
-----------------------------------------------------------------------------
ReplayNext ==
  \/ \E c \in Calls :
       \/ Call(c) \/ Replay(c)
       \/ NoMiddleware(c) \/ HonoursRejection(c) \/ Process(c)
       \/ Execute(c)
  \/ \E p \in Policies : Elapse(p)

ReplaySpec == ReplayInit /\ [][ReplayNext]_replayVars
-----------------------------------------------------------------------------
TypeOK ==
  /\ request \in [Calls -> Requests]
  /\ stage \in [Calls -> Places]
  /\ human \in [Calls -> Answers]
  /\ asked \in [Calls -> 0 .. MaxAsks]
  /\ result \in [Calls -> Results]
  /\ window \in [Policies -> Nat]

(* A call that a human has approved runs, unless a policy denies it or its  *)
(* arguments are malformed: "that replay is how a confirmation-gated tool   *)
(* actually runs" (agent_framework_middleware.py:159).                      *)
ApprovedCallsRun ==
  \A c \in Calls :
    stage[c] = "done" /\ human[c] = "approved" => result[c] \in {"ran", "denied", "invalid"}

(* What no tool does without a human's word: run, when it is one of those   *)
(* the framework or the middleware asks about.                              *)
Guarded(t) == t \in Capable \/ \E p \in Guard : t \in Patterns[p]

(* A tool that the framework or the middleware asks about runs only with a  *)
(* human's approval, and one that the engine itself would ask about does    *)
(* not run at all on this way: whatever the quotas, the other calls and the *)
(* number of questions.                                                     *)
NoUnapprovedRun ==
  \A c \in Calls : result[c] = "ran" =>
    /\ Guarded(request[c].tool) => human[c] = "approved"
    /\ request[c].tool \notin Flagged \cup Patterns[Own]

(* An approval lifts no denial: a call whose arguments leave the allowed    *)
(* domains of either policy runs neither at first nor replayed.             *)
ApprovalLiftsNoDenial ==
  \A c \in Calls : result[c] = "ran" => request[c].barred \cap (Guard \cup {Own}) = {}
=============================================================================
