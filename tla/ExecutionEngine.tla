--------------------------- MODULE ExecutionEngine ---------------------------
(***************************************************************************)
(* The execution engine of agent_gantry/core/executor.py: every tool call  *)
(* goes through circuit breaker, admission peek, argument validation,      *)
(* security policy, rate limiter, confirmation gate, and then the handler  *)
(* with its retries.                                                       *)
(*                                                                         *)
(* The engine is an asyncio program.  Between two awaits that really       *)
(* suspend (a handler, a back-off sleep, a telemetry adapter, a remote     *)
(* agent) a call runs alone, so one action below is the whole segment of   *)
(* `execute` between two such awaits.  In particular everything from the   *)
(* resolution of the tool to the first attempt of the handler is one       *)
(* segment: the validator, the policy and the limiter are `async` in form  *)
(* only, and the limiter's lock is never held across a suspension.  This   *)
(* is why a call that passed the admission peek cannot be refused by       *)
(* `acquire` later in the same segment (RateLimiter.tla checks that the    *)
(* peek and `acquire` agree).                                              *)
(*                                                                         *)
(* Time appears only as what it enables: entries leave the policy's and    *)
(* the limiter's window, and a breaker's recovery time elapses.            *)
(***************************************************************************)
EXTENDS Integers, Sequences, FiniteSets

CONSTANTS
  Calls,          \* logical calls: a first `execute` and, for a pending one, its replay
  Tools,          \* names a caller may use
  Keys,           \* rate-limit keys (RateLimiter._get_key)
  KeyOf,          \* the key of each tool
  Registered,     \* tools the registry resolves
  WithHandler,    \* tools whose handler is registered
  Remote,         \* tools whose source is an A2A agent
  FlagGated,      \* tools declared with requires_confirmation=True
  PatternGated,   \* tools whose name matches SecurityPolicy.require_confirmation
  Requests,       \* the requests a caller may issue
  MaxConcurrent,  \* RateLimitConfig.max_concurrent
  MaxCalls,       \* calls the limiter admits per window and key
  MaxRequests,    \* SecurityPolicy.max_requests_per_minute
  Threshold,      \* circuit_breaker_threshold
  MaxRetries,     \* ExecutionConfig.max_retries
  TelemetryMayFail \* whether a telemetry adapter may raise

Approvals == {"unset", "ask", "approved"}   \* require_confirmation None, True, False
Arguments == {"good", "malformed", "unbuildable"}

(* A ToolCall, reduced to what `execute` tells apart: `arguments` fail the *)
(* JSON schema ("malformed") or only the handler's own types               *)
(* ("unbuildable"), and name a domain the policy allows or not.            *)
Request == [tool : Tools, approval : Approvals, arguments : Arguments,
            allowed : BOOLEAN, retries : 0..5]

ASSUME EngineAssumption ==
  /\ IsFiniteSet(Calls)
  /\ KeyOf \in [Tools -> Keys]
  /\ Requests \subseteq Request
  /\ MaxConcurrent \in Nat \ {0}
  /\ MaxCalls \in Nat \ {0}
  /\ MaxRequests \in Nat \ {0}
  /\ Threshold \in Nat \ {0}
  /\ MaxRetries \in Nat
  /\ TelemetryMayFail \in BOOLEAN
-----------------------------------------------------------------------------
VARIABLES
  pc,            \* where the current `execute` of each call is suspended
  req,           \* the request it serves
  result,        \* the status it returns, once known
  attempt,       \* attempts of the handler in this `execute`
  holds,         \* the calls that must release a concurrency slot
  concurrent,    \* RateLimiter._concurrent
  window,        \* calls the limiter counts in its current window, per key
  policyWindow,  \* SecurityPolicy._request_timestamps within the last minute
  health,        \* ToolDefinition.health
  ledger,        \* history: what each logical call cost so far
  history        \* history: outcomes recorded on each tool's health

vars == <<pc, req, result, attempt, holds, concurrent, window, policyWindow,
          health, ledger, history>>

Suspended == {"handler", "committing", "backoff", "remote", "recording"}

Statuses == {"none", "success", "failure", "timeout", "denied", "circuit_open",
             "pending", "rate_limited", "invalid", "not_found", "no_handler",
             "raised", "cancelled"}

NoRequest == [tool |-> "none", approval |-> "unset", arguments |-> "good",
              allowed |-> TRUE, retries |-> 0]

FreshHealth == [failures |-> 0, open |-> FALSE, cooled |-> TRUE, calls |-> 0]

Blank == [starts |-> 0, limited |-> 0, charged |-> 0, validations |-> 0,
          events |-> <<>>]

Init ==
  /\ pc = [c \in Calls |-> "idle"]
  /\ req = [c \in Calls |-> NoRequest]
  /\ result = [c \in Calls |-> "none"]
  /\ attempt = [c \in Calls |-> 0]
  /\ holds = {}
  /\ concurrent = [k \in Keys |-> 0]
  /\ window = [k \in Keys |-> 0]
  /\ policyWindow = 0
  /\ health = [t \in Registered |-> FreshHealth]
  /\ ledger = [c \in Calls |-> Blank]
  /\ history = [t \in Registered |-> <<>>]
-----------------------------------------------------------------------------
(* The questions `execute` asks before it suspends for the first time.     *)

(* ToolCall.require_confirmation overrides the tool's own flag.            *)
NeedsConfirmation(r) ==
  \/ r.approval = "ask"
  \/ (r.approval = "unset" /\ r.tool \in FlagGated)

(* The policy's pattern gate, which an approval switches off.              *)
PatternStops(r) == r.approval # "approved" /\ r.tool \in PatternGated

BreakerRefuses(t) == health[t].open /\ ~health[t].cooled

PolicyFull == policyWindow >= MaxRequests

(* Slip: the concurrency test is off by one.                               *)
LimiterFullLate(t) ==
  \/ concurrent[KeyOf[t]] > MaxConcurrent
  \/ window[KeyOf[t]] >= MaxCalls

LimiterFull(t) ==
  \/ concurrent[KeyOf[t]] >= MaxConcurrent
  \/ window[KeyOf[t]] >= MaxCalls

(* A call that will stop at the executor's own gate.                       *)
WillPend(r) == r.arguments # "malformed" /\ NeedsConfirmation(r)

(* SecurityPolicy.check_permission once its window has room: the pattern   *)
(* gate comes before the domain check, and the call is recorded unless an  *)
(* approved replay of it is still to come.                                 *)
Verdict(r) ==
  IF PatternStops(r) THEN "confirm" ELSE IF r.allowed THEN "pass" ELSE "deny"

(* Slips: recording the call before the gates; not being told that the     *)
(* executor's own gate will stop it.                                       *)
PolicyChargeFirst(r, pending, valid) == 1

PolicyChargeUnaware(r, pending, valid) ==
  IF Verdict(r) = "confirm" /\ valid THEN 0 ELSE 1

PolicyCharge(r, pending, valid) ==
  LET counts == IF Verdict(r) = "confirm"
                  THEN ~valid
                  ELSE Verdict(r) = "deny" \/ ~pending
  IN  IF counts THEN 1 ELSE 0

(* A first request, or the replay of a pending one that a human approved.  *)
Issues(c, r) ==
  \/ /\ pc[c] = "idle"
     /\ r \in Requests
  \/ /\ pc[c] = "done"
     /\ result[c] = "pending"
     /\ r = [req[c] EXCEPT !.approval = "approved"]

(* Slip: the breaker is not asked.                                         *)
AdmissibleWhileOpen(c, r) == Issues(c, r) /\ r.tool \in Registered

Admissible(c, r) ==
  /\ Issues(c, r)
  /\ r.tool \in Registered
  /\ ~BreakerRefuses(r.tool)
-----------------------------------------------------------------------------
(* What this `execute` adds to the account of its logical call; it has     *)
(* recorded no event yet.                                                  *)
Bill(l, starts, limited, charged, validations) ==
  [starts |-> l.starts + starts, limited |-> l.limited + limited,
   charged |-> l.charged + charged, validations |-> l.validations + validations,
   events |-> <<>>]

(* What a call that never gets a slot changes: its answer is known and its *)
(* event is being recorded.                                                *)
Refuse(c, r, status, charge, validations) ==
  /\ pc' = [pc EXCEPT ![c] = "recording"]
  /\ req' = [req EXCEPT ![c] = r]
  /\ result' = [result EXCEPT ![c] = status]
  /\ attempt' = [attempt EXCEPT ![c] = 0]
  /\ policyWindow' = policyWindow + charge
  /\ ledger' = [ledger EXCEPT ![c] = Bill(@, 0, 0, charge, validations)]
  /\ UNCHANGED <<holds, concurrent, window, health, history>>

(* No such tool: answered at once, without an event.                       *)
ResolveFails(c, r) ==
  /\ Issues(c, r)
  /\ r.tool \notin Registered
  /\ pc' = [pc EXCEPT ![c] = "done"]
  /\ req' = [req EXCEPT ![c] = r]
  /\ result' = [result EXCEPT ![c] = "not_found"]
  /\ ledger' = [ledger EXCEPT ![c] = Bill(@, 0, 0, 0, 0)]
  /\ UNCHANGED <<attempt, holds, concurrent, window, policyWindow, health, history>>

CircuitRefuses(c, r) ==
  /\ Issues(c, r)
  /\ r.tool \in Registered
  /\ BreakerRefuses(r.tool)
  /\ Refuse(c, r, "circuit_open", 0, 0)

(* The admission peek: already over quota, so refused before validation.   *)
(* The policy's window refuses every call, the limiter's only the calls    *)
(* that no confirmation gate will stop anyway.                             *)
PolicyPeekRefuses(c, r) ==
  /\ Admissible(c, r)
  /\ PolicyFull
  /\ Refuse(c, r, "denied", 0, 0)

LimiterPeekRefuses(c, r) ==
  /\ Admissible(c, r)
  /\ ~PolicyFull
  /\ LimiterFull(r.tool)
  /\ ~NeedsConfirmation(r)
  /\ Refuse(c, r, "rate_limited", 0, 0)

(* Slip: the gate answers an over-quota call without asking the policy.    *)
GateOverQuotaUnasked(c, r) ==
  /\ Admissible(c, r)
  /\ ~PolicyFull
  /\ LimiterFull(r.tool)
  /\ NeedsConfirmation(r)
  /\ Refuse(c, r, "pending", 0, 0)

(* Over the limiter's quota but gated: the policy is consulted as for a    *)
(* valid pending call, and otherwise the gate is the answer.               *)
GateOverQuota(c, r) ==
  /\ Admissible(c, r)
  /\ ~PolicyFull
  /\ LimiterFull(r.tool)
  /\ NeedsConfirmation(r)
  /\ Refuse(c, r, IF Verdict(r) = "deny" THEN "denied" ELSE "pending",
            PolicyCharge(r, TRUE, TRUE), 0)

(* Within both quotas the arguments are validated and the policy decides.  *)
WithinQuota(c, r) ==
  /\ Admissible(c, r)
  /\ ~PolicyFull
  /\ ~LimiterFull(r.tool)

ChargeOf(r) == PolicyCharge(r, WillPend(r), r.arguments # "malformed")

(* Slip: the validation result is recorded where it is built.              *)
PolicyDeniesTwiceTold(c, r) ==
  /\ WithinQuota(c, r)
  /\ Verdict(r) = "deny"
  /\ pc' = [pc EXCEPT ![c] = "recording"]
  /\ req' = [req EXCEPT ![c] = r]
  /\ result' = [result EXCEPT ![c] = "denied"]
  /\ attempt' = [attempt EXCEPT ![c] = 0]
  /\ policyWindow' = policyWindow + ChargeOf(r)
  /\ ledger' = [ledger EXCEPT ![c] =
       [Bill(@, 0, 0, ChargeOf(r), 1) EXCEPT !.events =
          IF r.arguments = "malformed" THEN <<"invalid">> ELSE <<>>]]
  /\ UNCHANGED <<holds, concurrent, window, health, history>>

PolicyDenies(c, r) ==
  /\ WithinQuota(c, r)
  /\ Verdict(r) = "deny"
  /\ Refuse(c, r, "denied", ChargeOf(r), 1)

(* Either gate stops a call with valid arguments, before any slot.         *)
GateStops(c, r) ==
  /\ WithinQuota(c, r)
  /\ r.arguments # "malformed"
  /\ \/ Verdict(r) = "confirm"
     \/ Verdict(r) = "pass" /\ NeedsConfirmation(r)
  /\ Refuse(c, r, "pending", ChargeOf(r), 1)

(* Past policy and gates: the call takes a slot.  A malformed call whose   *)
(* policy answer was only "confirm" falls through to here as well.         *)
PastGates(c, r) ==
  /\ WithinQuota(c, r)
  /\ IF r.arguments = "malformed" THEN Verdict(r) # "deny"
                                  ELSE Verdict(r) = "pass" /\ ~NeedsConfirmation(r)

Acquire(c, r) ==
  LET k == KeyOf[r.tool] IN
  /\ PastGates(c, r)
  /\ window' = [window EXCEPT ![k] = @ + 1]
  /\ concurrent' = [concurrent EXCEPT ![k] = @ + 1]
  /\ holds' = holds \cup {c}
  /\ policyWindow' = policyWindow + ChargeOf(r)
  /\ req' = [req EXCEPT ![c] = r]

Spend(c, r, starts) ==
  ledger' = [ledger EXCEPT ![c] = Bill(@, starts, 1, ChargeOf(r), 1)]

Dispatches(r) ==
  /\ r.arguments # "malformed"
  /\ r.tool \in WithHandler \ Remote

(* The handler starts.  Arguments its own types refuse are answered before *)
(* it runs, and so are arguments that failed the schema.                   *)
StartHandler(c, r) ==
  /\ Acquire(c, r)
  /\ Dispatches(r)
  /\ r.arguments = "good"
  /\ Spend(c, r, 1)
  /\ pc' = [pc EXCEPT ![c] = "handler"]
  /\ attempt' = [attempt EXCEPT ![c] = 1]
  /\ result' = [result EXCEPT ![c] = "none"]
  /\ UNCHANGED <<health, history>>

RejectArguments(c, r) ==
  /\ Acquire(c, r)
  /\ \/ r.arguments = "malformed"
     \/ Dispatches(r) /\ r.arguments = "unbuildable"
  /\ Spend(c, r, 0)
  /\ pc' = [pc EXCEPT ![c] = "recording"]
  /\ attempt' = [attempt EXCEPT ![c] = 0]
  /\ result' = [result EXCEPT ![c] = "invalid"]
  /\ UNCHANGED <<health, history>>

(* A remote A2A agent: no handler, no retries, no health, no event.        *)
SendRemote(c, r) ==
  /\ Acquire(c, r)
  /\ r.arguments # "malformed"
  /\ r.tool \in Remote
  /\ Spend(c, r, 1)
  /\ pc' = [pc EXCEPT ![c] = "remote"]
  /\ attempt' = [attempt EXCEPT ![c] = 1]
  /\ result' = [result EXCEPT ![c] = "none"]
  /\ UNCHANGED <<health, history>>

(* No handler: the slot is taken and given back in the same segment.       *)
HandlerMissing(c, r) ==
  /\ PastGates(c, r)
  /\ r.arguments # "malformed"
  /\ r.tool \notin WithHandler \cup Remote
  /\ window' = [window EXCEPT ![KeyOf[r.tool]] = @ + 1]
  /\ policyWindow' = policyWindow + ChargeOf(r)
  /\ Spend(c, r, 0)
  /\ pc' = [pc EXCEPT ![c] = "done"]
  /\ req' = [req EXCEPT ![c] = r]
  /\ attempt' = [attempt EXCEPT ![c] = 0]
  /\ result' = [result EXCEPT ![c] = "no_handler"]
  /\ UNCHANGED <<holds, concurrent, health, history>>
-----------------------------------------------------------------------------
(* The handler and its retries.                                            *)

(* `call.retry_count or max_retries`: zero falls back to the engine's own. *)
MaxAttempts(r) == 1 + (IF r.retries = 0 THEN MaxRetries ELSE r.retries)

RecordSuccess(t) ==
  /\ health' = [health EXCEPT ![t] = [failures |-> 0, open |-> FALSE,
                                      cooled |-> @.cooled, calls |-> @.calls + 1]]
  /\ history' = [history EXCEPT ![t] = Append(@, TRUE)]

(* Slip: the breaker opens one failure too late.                           *)
RecordFailureLate(t) ==
  /\ health' = [health EXCEPT ![t] =
       [failures |-> @.failures + 1, open |-> @.open \/ @.failures >= Threshold,
        cooled |-> FALSE, calls |-> @.calls + 1]]
  /\ history' = [history EXCEPT ![t] = Append(@, FALSE)]

RecordFailure(t) ==
  /\ health' = [health EXCEPT ![t] =
       [failures |-> @.failures + 1, open |-> @.open \/ @.failures + 1 >= Threshold,
        cooled |-> FALSE, calls |-> @.calls + 1]]
  /\ history' = [history EXCEPT ![t] = Append(@, FALSE)]

(* The handler returned: health is updated, then telemetry is awaited      *)
(* while the success is still inside the attempt's own try block.          *)
HandlerSucceeds(c) ==
  /\ pc[c] = "handler"
  /\ pc' = [pc EXCEPT ![c] = "committing"]
  /\ result' = [result EXCEPT ![c] = "success"]
  /\ RecordSuccess(req[c].tool)
  /\ UNCHANGED <<req, attempt, holds, concurrent, window, policyWindow, ledger>>

(* An attempt that failed or timed out sleeps and tries again, or gives up *)
(* with one failure for the whole call.                                    *)
AttemptFails(c, status) ==
  \/ /\ attempt[c] < MaxAttempts(req[c])
     /\ pc' = [pc EXCEPT ![c] = "backoff"]
     /\ result' = [result EXCEPT ![c] = "none"]
     /\ UNCHANGED <<health, history>>
  \/ /\ attempt[c] = MaxAttempts(req[c])
     /\ pc' = [pc EXCEPT ![c] = "recording"]
     /\ result' = [result EXCEPT ![c] = status]
     /\ RecordFailure(req[c].tool)

HandlerFails(c) ==
  /\ pc[c] = "handler"
  /\ \E status \in {"failure", "timeout"} : AttemptFails(c, status)
  /\ UNCHANGED <<req, attempt, holds, concurrent, window, policyWindow, ledger>>

(* Telemetry raised after the handler had succeeded: caught as a failure   *)
(* of the attempt.                                                         *)
CommitRaises(c) ==
  /\ TelemetryMayFail
  /\ pc[c] = "committing"
  /\ \E status \in {"failure", "timeout"} : AttemptFails(c, status)
  /\ UNCHANGED <<req, attempt, holds, concurrent, window, policyWindow, ledger>>

(* The handler raised PermissionDeniedError: a failure, never retried.     *)
HandlerDenies(c) ==
  /\ pc[c] = "handler"
  /\ pc' = [pc EXCEPT ![c] = "recording"]
  /\ result' = [result EXCEPT ![c] = "denied"]
  /\ RecordFailure(req[c].tool)
  /\ UNCHANGED <<req, attempt, holds, concurrent, window, policyWindow, ledger>>

(* Slip: the attempt is not counted.                                       *)
RetryUncounted(c) ==
  /\ pc[c] = "backoff"
  /\ pc' = [pc EXCEPT ![c] = "handler"]
  /\ UNCHANGED <<req, result, attempt, holds, concurrent, window, policyWindow,
                 health, ledger, history>>

Retry(c) ==
  /\ pc[c] = "backoff"
  /\ pc' = [pc EXCEPT ![c] = "handler"]
  /\ attempt' = [attempt EXCEPT ![c] = @ + 1]
  /\ ledger' = [ledger EXCEPT ![c] = Bill(@, 1, 0, 0, 0)]
  /\ UNCHANGED <<req, result, holds, concurrent, window, policyWindow, health, history>>
-----------------------------------------------------------------------------
(* Returning.                                                              *)

(* The `finally` block releases the slot of a call that took one, on every *)
(* path out: return, exception and cancellation.                           *)
Release(c) ==
  /\ concurrent' = IF c \in holds
                     THEN [concurrent EXCEPT ![KeyOf[req[c].tool]] = IF @ > 0 THEN @ - 1 ELSE 0]
                     ELSE concurrent
  /\ holds' = holds \ {c}

Return(c, status) ==
  /\ pc' = [pc EXCEPT ![c] = "done"]
  /\ result' = [result EXCEPT ![c] = status]
  /\ Release(c)
  /\ UNCHANGED <<req, attempt, window, policyWindow, health, history>>

(* telemetry.record_execution completes and the result is returned.        *)
Recorded(c) ==
  /\ pc[c] \in {"recording", "committing"}
  /\ Return(c, result[c])
  /\ ledger' = [ledger EXCEPT ![c].events = Append(@, result[c])]

RecordingRaises(c) ==
  /\ TelemetryMayFail
  /\ pc[c] = "recording"
  /\ Return(c, "raised")
  /\ UNCHANGED ledger

(* A2AExecutor.execute: every exception becomes a FAILURE result.          *)
RemoteAnswers(c) ==
  /\ pc[c] = "remote"
  /\ \E status \in {"success", "failure"} : Return(c, status)
  /\ UNCHANGED ledger

(* Slip: the slot is released on return only, not on cancellation.         *)
CancelKeepsSlot(c) ==
  /\ pc[c] \in Suspended
  /\ pc' = [pc EXCEPT ![c] = "done"]
  /\ result' = [result EXCEPT ![c] = "cancelled"]
  /\ UNCHANGED <<req, attempt, holds, concurrent, window, policyWindow, health,
                 ledger, history>>

(* The caller's task is cancelled at whatever it awaits.                   *)
Cancel(c) ==
  /\ pc[c] \in Suspended
  /\ Return(c, "cancelled")
  /\ UNCHANGED ledger
-----------------------------------------------------------------------------
(* Time.                                                                   *)
PolicyWindowSlides ==
  /\ policyWindow > 0
  /\ policyWindow' = policyWindow - 1
  /\ UNCHANGED <<pc, req, result, attempt, holds, concurrent, window, health,
                 ledger, history>>

WindowSlides(k) ==
  /\ window[k] > 0
  /\ window' = [window EXCEPT ![k] = @ - 1]
  /\ UNCHANGED <<pc, req, result, attempt, holds, concurrent, policyWindow,
                 health, ledger, history>>

(* circuit_breaker_timeout_s has passed since the tool's last failure.     *)
CoolDown(t) ==
  /\ ~health[t].cooled
  /\ health' = [health EXCEPT ![t].cooled = TRUE]
  /\ UNCHANGED <<pc, req, result, attempt, holds, concurrent, window,
                 policyWindow, ledger, history>>
-----------------------------------------------------------------------------
Begin(c, r) ==
  \/ ResolveFails(c, r)
  \/ CircuitRefuses(c, r)
  \/ PolicyPeekRefuses(c, r)
  \/ LimiterPeekRefuses(c, r)
  \/ GateOverQuota(c, r)
  \/ PolicyDenies(c, r)
  \/ GateStops(c, r)
  \/ StartHandler(c, r)
  \/ RejectArguments(c, r)
  \/ SendRemote(c, r)
  \/ HandlerMissing(c, r)

(* The steps of a call under way that nobody outside has to cause.         *)
Resume(c) ==
  \/ HandlerSucceeds(c)
  \/ HandlerFails(c)
  \/ HandlerDenies(c)
  \/ CommitRaises(c)
  \/ Retry(c)
  \/ Recorded(c)
  \/ RecordingRaises(c)
  \/ RemoteAnswers(c)

Replays(c) == {[req[c] EXCEPT !.approval = "approved"]}

Next ==
  \/ \E c \in Calls : \E r \in Requests \cup Replays(c) : Begin(c, r)
  \/ \E c \in Calls : Resume(c)
  \/ \E c \in Calls : Cancel(c)
  \/ PolicyWindowSlides
  \/ \E k \in Keys : WindowSlides(k)
  \/ \E t \in Registered : CoolDown(t)

Spec == Init /\ [][Next]_vars

(* A handler ends or is timed out by wait_for, a back-off ends, telemetry  *)
(* answers or raises and an A2A request has an HTTP timeout: a call under  *)
(* way is resumed.  Nothing obliges a caller to issue, cancel or approve.  *)
FairSpec == Spec /\ \A c \in Calls : WF_vars(Resume(c))
-----------------------------------------------------------------------------
(* Properties.                                                             *)

Holders(k) == {c \in holds : KeyOf[req[c].tool] = k}

HealthRecord == [failures : Nat, open : BOOLEAN, cooled : BOOLEAN, calls : Nat]

LedgerRecord == [starts : Nat, limited : Nat, charged : Nat, validations : Nat,
                 events : Seq(Statuses)]

(* Every variable has the shape the engine gives it.                       *)
TypeOK ==
  /\ pc \in [Calls -> {"idle", "done"} \cup Suspended]
  /\ req \in [Calls -> Request \cup {NoRequest}]
  /\ result \in [Calls -> Statuses]
  /\ attempt \in [Calls -> Nat]
  /\ holds \subseteq Calls
  /\ concurrent \in [Keys -> Nat]
  /\ window \in [Keys -> Nat]
  /\ policyWindow \in Nat
  /\ health \in [Registered -> HealthRecord]
  /\ ledger \in [Calls -> LedgerRecord]
  /\ history \in [Registered -> Seq(BOOLEAN)]

(* No slot leaks and none is given back twice: the limiter's counter is    *)
(* the number of calls that still owe it a release, whatever way the       *)
(* others left `execute`, and only a call under way owes one.              *)
SlotsMatchHolders ==
  /\ \A k \in Keys : concurrent[k] = Cardinality(Holders(k))
  /\ \A c \in holds : pc[c] \in Suspended

(* Calls of one key holding a slot never exceed max_concurrent.            *)
ConcurrencyCapped == \A k \in Keys : Cardinality(Holders(k)) <= MaxConcurrent

(* A call answered "pending confirmation" ran nothing, and neither the     *)
(* limiter nor the policy charged it.                                      *)
PendingCostsNothing ==
  \A c \in Calls :
    result[c] = "pending" =>
      /\ ledger[c].starts = 0
      /\ ledger[c].limited = 0
      /\ ledger[c].charged = 0

(* A probe and its approved replay are one logical call: together they are *)
(* charged at most once by the limiter and at most once by the policy.     *)
OneChargePerCall ==
  \A c \in Calls : ledger[c].limited <= 1 /\ ledger[c].charged <= 1

(* What a human is asked to approve: never arguments known to be           *)
(* malformed, and, unless the policy's own pattern gate asked, never a     *)
(* call whose domain the policy would refuse on replay.                    *)
PendingIsWorthApproving ==
  \A c \in Calls :
    result[c] = "pending" =>
      /\ ledger[c].validations > 0 => req[c].arguments # "malformed"
      /\ PatternStops(req[c]) \/ req[c].allowed

(* Telemetry never reports a status the caller did not get, nor one call   *)
(* twice.                                                                  *)
EventsMatchAnswers ==
  \A c \in Calls :
    /\ pc[c] = "done" => ledger[c].events \in {<<>>, <<result[c]>>}
    /\ pc[c] # "done" => ledger[c].events = <<>>

(* The trailing failures of a tool's recorded outcomes.                    *)
FailureRun(s) == Cardinality({i \in DOMAIN s : \A j \in i .. Len(s) : ~s[j]})

(* With calls finishing in any order, a tool's health is what its recorded *)
(* outcomes say: every outcome counted once, and the breaker open exactly  *)
(* when the last Threshold of them were failures.                          *)
HealthMatchesHistory ==
  \A t \in Registered :
    /\ health[t].calls = Len(history[t])
    /\ health[t].failures = FailureRun(history[t])
    /\ health[t].open <=> FailureRun(history[t]) >= Threshold

(* No path through the gates goes round another: no step validates         *)
(* arguments while the policy's window or the limiter of that tool is full,*)
(* gated or not, and while a breaker refuses, its handler is started only  *)
(* as a retry of a call that was admitted before.                          *)
NoGateBypassed ==
  [][\A c \in Calls :
       /\ ledger'[c].validations > ledger[c].validations =>
            ~PolicyFull /\ ~LimiterFull(req'[c].tool)
       /\ ledger'[c].starts > ledger[c].starts /\ pc[c] # "backoff" =>
            ~BreakerRefuses(req'[c].tool)]_vars

(* Every call under way is answered, and its slot comes back.              *)
EveryCallAnswered ==
  \A c \in Calls : pc[c] \in Suspended ~> (pc[c] = "done" /\ c \notin holds)
=============================================================================
