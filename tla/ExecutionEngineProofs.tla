------------------------ MODULE ExecutionEngineProofs ------------------------
(***************************************************************************)
(* What ExecutionEngine guarantees for every set of calls, tools, requests *)
(* and limits.                                                             *)
(*                                                                         *)
(* The arguments.  Slots: only a suspended call owes a slot, so that the   *)
(* caller that takes one is a new holder and one that returns was one; the *)
(* cap is the counter's own.  Accounts: a probe and its approved replays   *)
(* share one.  The replay may be charged because the probe was not, so the *)
(* invariant carries an empty account through every state in which a call  *)
(* may still issue.  Answers: an approved request passes both gates, so    *)
(* only a first request, with nothing validated yet, is answered           *)
(* "pending".  Health: one failure lengthens the run of failures by one,   *)
(* one success ends it.                                                    *)
(***************************************************************************)
EXTENDS ExecutionEngine, FiniteSetTheorems, TLAPS

(* A suspended call knows its request, and the requests a caller replays   *)
(* are requests again.                                                     *)
PcInv ==
  \A c \in Calls : pc[c] # "idle" => req[c] \in Request

(* The handler and its retries only ever run registered tools.             *)
ToolInv ==
  \A c \in Calls :
    pc[c] \in {"handler", "committing", "backoff"} => req[c].tool \in Registered

TypeInv == TypeOK /\ PcInv /\ ToolInv

-----------------------------------------------------------------------------
(* A request that may be issued is well formed.                            *)
LEMMA IssuedRequest ==
  ASSUME TypeInv, NEW c \in Calls, NEW r, Issues(c, r)
  PROVE  r \in Request
<1>1. CASE pc[c] = "idle" /\ r \in Requests
  BY <1>1, EngineAssumption
<1>2. CASE /\ pc[c] = "done"
           /\ result[c] = "pending"
           /\ r = [req[c] EXCEPT !.approval = "approved"]
  <2>1. req[c] \in Request
    BY <1>2 DEF TypeInv, PcInv
  <2>2. QED
    BY <1>2, <2>1 DEF Request, Approvals
<1>3. QED
  BY <1>1, <1>2 DEF Issues

(* Every way to begin starts from a request the caller issues.             *)
LEMMA BeginIssues ==
  ASSUME NEW c, NEW r, Begin(c, r)
  PROVE  Issues(c, r)
BY DEF Begin, ResolveFails, CircuitRefuses, PolicyPeekRefuses, LimiterPeekRefuses,
       GateOverQuota, PolicyDenies, GateStops, StartHandler, RejectArguments,
       SendRemote, HandlerMissing, Acquire, PastGates, WithinQuota, Admissible

(* What the policy charges a call is nothing or one.                       *)
LEMMA ChargeOfRange == ASSUME NEW r PROVE ChargeOf(r) \in {0, 1}
BY DEF ChargeOf, PolicyCharge

-----------------------------------------------------------------------------
(* The type invariant, action by action.                                   *)

(* An account is still an account when something is added to it.           *)
LEMMA TypeBill ==
  ASSUME NEW l \in LedgerRecord, NEW starts \in Nat, NEW limited \in Nat,
         NEW charged \in Nat, NEW validations \in Nat
  PROVE  Bill(l, starts, limited, charged, validations) \in LedgerRecord
<1>1. <<>> \in Seq(Statuses)
  OBVIOUS
<1>2. l.starts \in Nat /\ l.limited \in Nat /\ l.charged \in Nat /\ l.validations \in Nat
  BY Zenon DEF LedgerRecord
<1>3. /\ l.starts + starts \in Nat /\ l.limited + limited \in Nat
      /\ l.charged + charged \in Nat /\ l.validations + validations \in Nat
  BY <1>2
<1>4. QED
  BY <1>1, <1>3, Zenon DEF Bill, LedgerRecord

LEMMA TypeInit == Init => TypeInv
<1> USE DEF Init, TypeInv, TypeOK, PcInv, ToolInv
<1>1. Blank \in LedgerRecord /\ FreshHealth \in HealthRecord
  BY DEF Blank, LedgerRecord, FreshHealth, HealthRecord, Statuses
<1>2. QED
  BY <1>1 DEF Statuses, Suspended

LEMMA TypeRefuse ==
  ASSUME TypeInv, NEW c \in Calls, NEW r \in Request, NEW status \in Statuses,
         NEW charge \in Nat, NEW n \in Nat, Refuse(c, r, status, charge, n)
  PROVE  TypeInv'
<1> USE DEF TypeInv
<1>1. TypeOK'
  <2>1. ledger' \in [Calls -> LedgerRecord]
    BY TypeBill DEF TypeOK, Refuse
  <2>2. QED
    BY <2>1 DEF TypeOK, Refuse, Suspended
<1>2. PcInv' /\ ToolInv'
  BY DEF TypeOK, PcInv, ToolInv, Refuse
<1>3. QED
  BY <1>1, <1>2

LEMMA TypeAcquire ==
  ASSUME TypeInv, NEW c \in Calls, NEW r \in Request, PastGates(c, r),
         NEW n \in Nat, Spend(c, r, n),
         window' = [window EXCEPT ![KeyOf[r.tool]] = @ + 1],
         policyWindow' = policyWindow + ChargeOf(r)
  PROVE  /\ ledger' \in [Calls -> LedgerRecord]
         /\ window' \in [Keys -> Nat]
         /\ policyWindow' \in Nat
         /\ KeyOf[r.tool] \in Keys
         /\ r.tool \in Registered
<1>1. ChargeOf(r) \in Nat
  BY ChargeOfRange
<1>2. KeyOf[r.tool] \in Keys
  BY EngineAssumption DEF Request
<1>3. r.tool \in Registered
  BY DEF PastGates, WithinQuota, Admissible
<1>4. ledger' \in [Calls -> LedgerRecord]
  BY <1>1, TypeBill DEF Spend, TypeInv, TypeOK
<1>5. window' \in [Keys -> Nat]
  BY <1>2 DEF TypeInv, TypeOK
<1>6. policyWindow' \in Nat
  BY <1>1 DEF TypeInv, TypeOK
<1>7. QED
  BY <1>2, <1>3, <1>4, <1>5, <1>6

LEMMA TypeBegin ==
  ASSUME TypeInv, NEW c \in Calls, NEW r, Begin(c, r)
  PROVE  TypeInv'
<1>1. Issues(c, r)
  BY BeginIssues
<1>2. r \in Request
  BY <1>1, IssuedRequest
<1>3. CASE ResolveFails(c, r)
  <2>1. ledger' \in [Calls -> LedgerRecord]
    BY <1>3, TypeBill DEF ResolveFails, TypeInv, TypeOK
  <2>2. QED
    BY <1>2, <1>3, <2>1 DEF ResolveFails, TypeInv, TypeOK, PcInv, ToolInv, Statuses
<1>4. CASE \/ CircuitRefuses(c, r)
           \/ PolicyPeekRefuses(c, r)
           \/ LimiterPeekRefuses(c, r)
           \/ GateOverQuota(c, r)
           \/ PolicyDenies(c, r)
           \/ GateStops(c, r)
  <2>1. /\ ChargeOf(r) \in Nat
        /\ PolicyCharge(r, TRUE, TRUE) \in Nat
    BY ChargeOfRange DEF PolicyCharge
  <2>2. \E status \in Statuses, charge \in Nat, n \in Nat : Refuse(c, r, status, charge, n)
    BY <1>4, <2>1 DEF CircuitRefuses, PolicyPeekRefuses, LimiterPeekRefuses,
       GateOverQuota, PolicyDenies, GateStops, Statuses
  <2>3. QED
    BY <1>2, <2>2, TypeRefuse
<1>5. CASE StartHandler(c, r)
  <2>1. /\ ledger' \in [Calls -> LedgerRecord]
        /\ window' \in [Keys -> Nat]
        /\ policyWindow' \in Nat
        /\ KeyOf[r.tool] \in Keys
        /\ r.tool \in Registered
    BY <1>2, <1>5, TypeAcquire DEF StartHandler, Acquire
  <2>2. concurrent' \in [Keys -> Nat] /\ holds' \subseteq Calls
    BY <1>5, <2>1 DEF StartHandler, Acquire, TypeInv, TypeOK
  <2>3. /\ pc' \in [Calls -> {"idle", "done"} \cup Suspended]
        /\ result' \in [Calls -> Statuses]
    BY <1>5 DEF StartHandler, TypeInv, TypeOK, Suspended, Statuses
  <2>4. req' \in [Calls -> Request \cup {NoRequest}] /\ attempt' \in [Calls -> Nat]
    BY <1>2, <1>5 DEF StartHandler, Acquire, TypeInv, TypeOK
  <2>5. TypeOK'
    BY <1>5, <2>1, <2>2, <2>3, <2>4 DEF StartHandler, TypeInv, TypeOK
  <2>6. PcInv' /\ ToolInv'
    BY <1>2, <1>5, <2>1 DEF StartHandler, Acquire, TypeInv, TypeOK, PcInv, ToolInv
  <2>7. QED
    BY <2>5, <2>6 DEF TypeInv
<1>6. CASE RejectArguments(c, r)
  <2>1. /\ ledger' \in [Calls -> LedgerRecord]
        /\ window' \in [Keys -> Nat]
        /\ policyWindow' \in Nat
        /\ KeyOf[r.tool] \in Keys
        /\ r.tool \in Registered
    BY <1>2, <1>6, TypeAcquire DEF RejectArguments, Acquire
  <2>2. concurrent' \in [Keys -> Nat] /\ holds' \subseteq Calls
    BY <1>6, <2>1 DEF RejectArguments, Acquire, TypeInv, TypeOK
  <2>3. /\ pc' \in [Calls -> {"idle", "done"} \cup Suspended]
        /\ result' \in [Calls -> Statuses]
    BY <1>6 DEF RejectArguments, TypeInv, TypeOK, Suspended, Statuses
  <2>4. req' \in [Calls -> Request \cup {NoRequest}] /\ attempt' \in [Calls -> Nat]
    BY <1>2, <1>6 DEF RejectArguments, Acquire, TypeInv, TypeOK
  <2>5. TypeOK'
    BY <1>6, <2>1, <2>2, <2>3, <2>4 DEF RejectArguments, TypeInv, TypeOK
  <2>6. PcInv' /\ ToolInv'
    BY <1>2, <1>6, <2>1 DEF RejectArguments, Acquire, TypeInv, TypeOK, PcInv, ToolInv
  <2>7. QED
    BY <2>5, <2>6 DEF TypeInv
<1>7. CASE SendRemote(c, r)
  <2>1. /\ ledger' \in [Calls -> LedgerRecord]
        /\ window' \in [Keys -> Nat]
        /\ policyWindow' \in Nat
        /\ KeyOf[r.tool] \in Keys
        /\ r.tool \in Registered
    BY <1>2, <1>7, TypeAcquire DEF SendRemote, Acquire
  <2>2. concurrent' \in [Keys -> Nat] /\ holds' \subseteq Calls
    BY <1>7, <2>1 DEF SendRemote, Acquire, TypeInv, TypeOK
  <2>3. /\ pc' \in [Calls -> {"idle", "done"} \cup Suspended]
        /\ result' \in [Calls -> Statuses]
    BY <1>7 DEF SendRemote, TypeInv, TypeOK, Suspended, Statuses
  <2>4. req' \in [Calls -> Request \cup {NoRequest}] /\ attempt' \in [Calls -> Nat]
    BY <1>2, <1>7 DEF SendRemote, Acquire, TypeInv, TypeOK
  <2>5. TypeOK'
    BY <1>7, <2>1, <2>2, <2>3, <2>4 DEF SendRemote, TypeInv, TypeOK
  <2>6. PcInv' /\ ToolInv'
    BY <1>2, <1>7, <2>1 DEF SendRemote, Acquire, TypeInv, TypeOK, PcInv, ToolInv
  <2>7. QED
    BY <2>5, <2>6 DEF TypeInv
<1>8. CASE HandlerMissing(c, r)
  <2>1. TypeOK'
    BY <1>2, <1>8, TypeAcquire DEF HandlerMissing, TypeInv, TypeOK, Statuses
  <2>2. PcInv' /\ ToolInv'
    BY <1>2, <1>8 DEF HandlerMissing, TypeInv, TypeOK, PcInv, ToolInv
  <2>3. QED
    BY <2>1, <2>2 DEF TypeInv
<1>9. QED
  BY <1>3, <1>4, <1>5, <1>6, <1>7, <1>8 DEF Begin

LEMMA TypeRecordSuccess ==
  ASSUME TypeOK, NEW t \in Registered, RecordSuccess(t)
  PROVE  health' \in [Registered -> HealthRecord] /\ history' \in [Registered -> Seq(BOOLEAN)]
BY DEF TypeOK, RecordSuccess, HealthRecord

LEMMA TypeRecordFailure ==
  ASSUME TypeOK, NEW t \in Registered, RecordFailure(t)
  PROVE  health' \in [Registered -> HealthRecord] /\ history' \in [Registered -> Seq(BOOLEAN)]
<1>1. (health[t].open \/ health[t].failures + 1 >= Threshold) \in BOOLEAN
  OBVIOUS
<1>2. health[t].failures + 1 \in Nat /\ health[t].calls + 1 \in Nat
  BY DEF TypeOK, HealthRecord
<1>3. QED
  BY <1>1, <1>2 DEF TypeOK, RecordFailure, HealthRecord

LEMMA TypeReturn ==
  ASSUME TypeInv, NEW c \in Calls, pc[c] # "idle", NEW status \in Statuses,
         Return(c, status), ledger' \in [Calls -> LedgerRecord]
  PROVE  TypeInv'
<1>1. KeyOf[req[c].tool] \in Keys
  BY EngineAssumption DEF TypeInv, PcInv, Request
<1>2. concurrent' \in [Keys -> Nat] /\ holds' \subseteq Calls
  BY <1>1 DEF TypeInv, TypeOK, Return, Release
<1>3. TypeOK'
  BY <1>2 DEF TypeInv, TypeOK, Return
<1>4. PcInv' /\ ToolInv'
  BY DEF TypeInv, TypeOK, PcInv, ToolInv, Return
<1>5. QED
  BY <1>3, <1>4 DEF TypeInv

LEMMA TypeResume ==
  ASSUME TypeInv, NEW c \in Calls, Resume(c)
  PROVE  TypeInv'
<1> USE DEF TypeInv
<1>1. CASE HandlerSucceeds(c)
  <2>1. req[c].tool \in Registered
    BY <1>1 DEF HandlerSucceeds, ToolInv
  <2>2. TypeOK'
    BY <1>1, <2>1, TypeRecordSuccess DEF HandlerSucceeds, TypeOK, Suspended, Statuses
  <2>3. PcInv' /\ ToolInv'
    BY <1>1, <2>1 DEF HandlerSucceeds, TypeOK, PcInv, ToolInv
  <2>4. QED
    BY <2>2, <2>3
<1>2. ASSUME NEW status \in Statuses, AttemptFails(c, status),
             pc[c] \in {"handler", "committing"},
             UNCHANGED <<req, attempt, holds, concurrent, window, policyWindow, ledger>>
      PROVE  TypeInv'
  <2>1. req[c].tool \in Registered
    BY <1>2 DEF ToolInv
  <2>2. health' \in [Registered -> HealthRecord] /\ history' \in [Registered -> Seq(BOOLEAN)]
    BY <1>2, <2>1, TypeRecordFailure DEF AttemptFails, TypeOK
  <2>3. /\ pc' \in [Calls -> {"idle", "done"} \cup Suspended]
        /\ result' \in [Calls -> Statuses]
    <3>1. CASE pc' = [pc EXCEPT ![c] = "backoff"] /\ result' = [result EXCEPT ![c] = "none"]
      BY <3>1 DEF TypeOK, Suspended, Statuses
    <3>2. CASE pc' = [pc EXCEPT ![c] = "recording"] /\ result' = [result EXCEPT ![c] = status]
      BY <1>2, <3>2 DEF TypeOK, Suspended, Statuses
    <3>3. QED
      BY <1>2, <3>1, <3>2 DEF AttemptFails
  <2>4. TypeOK'
    BY <1>2, <2>2, <2>3 DEF TypeOK
  <2>5. PcInv' /\ ToolInv'
    BY <1>2, <2>1 DEF AttemptFails, TypeOK, PcInv, ToolInv
  <2>6. QED
    BY <2>4, <2>5
<1>3. CASE HandlerFails(c)
  <2>1. {"failure", "timeout"} \subseteq Statuses
    BY DEF Statuses
  <2>2. QED
    BY <1>2, <1>3, <2>1 DEF HandlerFails
<1>4. CASE CommitRaises(c)
  <2>1. {"failure", "timeout"} \subseteq Statuses
    BY DEF Statuses
  <2>2. QED
    BY <1>2, <1>4, <2>1 DEF CommitRaises
<1>5. CASE HandlerDenies(c)
  <2>1. req[c].tool \in Registered
    BY <1>5 DEF HandlerDenies, ToolInv
  <2>2. TypeOK'
    BY <1>5, <2>1, TypeRecordFailure DEF HandlerDenies, TypeOK, Suspended, Statuses
  <2>3. PcInv' /\ ToolInv'
    BY <1>5, <2>1 DEF HandlerDenies, TypeOK, PcInv, ToolInv
  <2>4. QED
    BY <2>2, <2>3
<1>6. CASE Retry(c)
  <2>1. ledger' \in [Calls -> LedgerRecord]
    BY <1>6, TypeBill DEF Retry, TypeOK
  <2>2. TypeOK'
    BY <1>6, <2>1 DEF Retry, TypeOK, Suspended
  <2>3. PcInv' /\ ToolInv'
    BY <1>6 DEF Retry, TypeOK, PcInv, ToolInv
  <2>4. QED
    BY <2>2, <2>3
<1>7. CASE Recorded(c)
  <2>1. ledger' \in [Calls -> LedgerRecord]
    <3>1. Append(ledger[c].events, result[c]) \in Seq(Statuses)
      BY DEF TypeOK, LedgerRecord
    <3>2. QED
      BY <1>7, <3>1 DEF Recorded, TypeOK, LedgerRecord
  <2>2. QED
    BY <1>7, <2>1, TypeReturn DEF Recorded, TypeOK
<1>8. CASE RecordingRaises(c)
  BY <1>8, TypeReturn DEF RecordingRaises, TypeOK, Statuses
<1>9. CASE RemoteAnswers(c)
  BY <1>9, TypeReturn DEF RemoteAnswers, TypeOK, Statuses
<1>10. QED
  BY <1>1, <1>3, <1>4, <1>5, <1>6, <1>7, <1>8, <1>9 DEF Resume

LEMMA TypeNext == TypeInv /\ [Next]_vars => TypeInv'
<1> SUFFICES ASSUME TypeInv, [Next]_vars PROVE TypeInv'
  OBVIOUS
<1>1. ASSUME NEW c \in Calls, NEW r, Begin(c, r) PROVE TypeInv'
  BY <1>1, TypeBegin
<1>2. ASSUME NEW c \in Calls, Resume(c) PROVE TypeInv'
  BY <1>2, TypeResume
<1>3. ASSUME NEW c \in Calls, Cancel(c) PROVE TypeInv'
  BY <1>3, TypeReturn DEF Cancel, Suspended, Statuses, TypeInv, TypeOK
<1>4. CASE PolicyWindowSlides
  BY <1>4 DEF PolicyWindowSlides, TypeInv, TypeOK, PcInv, ToolInv
<1>5. ASSUME NEW k \in Keys, WindowSlides(k) PROVE TypeInv'
  BY <1>5 DEF WindowSlides, TypeInv, TypeOK, PcInv, ToolInv
<1>6. ASSUME NEW t \in Registered, CoolDown(t) PROVE TypeInv'
  BY <1>6 DEF CoolDown, TypeInv, TypeOK, PcInv, ToolInv, HealthRecord
<1>7. CASE UNCHANGED vars
  BY <1>7 DEF vars, TypeInv, TypeOK, PcInv, ToolInv
<1>8. QED
  BY <1>1, <1>2, <1>3, <1>4, <1>5, <1>6, <1>7 DEF Next

(* Every variable keeps its type.                                          *)
THEOREM TypeCorrect == Spec => []TypeOK
<1>1. Spec => []TypeInv
  BY TypeInit, TypeNext, PTL DEF Spec
<1>2. TypeInv => TypeOK
  BY DEF TypeInv
<1>3. QED
  BY <1>1, <1>2, PTL

-----------------------------------------------------------------------------
(* Slots                                                                   *)

SlotsInv ==
  /\ TypeInv
  /\ SlotsMatchHolders
  /\ \A k \in Keys : concurrent[k] <= MaxConcurrent

(* The holders of a key are finitely many.                                 *)
LEMMA HoldersFinite ==
  ASSUME TypeInv, NEW k
  PROVE  IsFiniteSet(Holders(k)) /\ Cardinality(Holders(k)) \in Nat
<1>1. Holders(k) \subseteq Calls
  BY DEF Holders, TypeInv, TypeOK
<1>2. QED
  BY <1>1, FS_Subset, FS_CardinalityType, EngineAssumption

(* A call that issues a request owes no slot.                              *)
LEMMA IssuerHoldsNothing ==
  ASSUME SlotsInv, NEW c \in Calls, NEW r, Issues(c, r)
  PROVE  c \notin holds /\ pc[c] \notin Suspended
BY DEF SlotsInv, SlotsMatchHolders, Issues, Suspended

(* Steps that change neither the counters nor who holds a slot.            *)
LEMMA SlotsKept ==
  ASSUME SlotsInv, TypeInv', UNCHANGED <<concurrent, holds>>,
         \A d \in holds : req'[d] = req[d] /\ pc'[d] \in Suspended
  PROVE  SlotsInv'
<1>1. ASSUME NEW k \in Keys PROVE Holders(k)' = Holders(k)
  BY DEF Holders
<1>2. QED
  BY <1>1 DEF SlotsInv, SlotsMatchHolders

(* One more holder of one key.                                             *)
LEMMA SlotTaken ==
  ASSUME SlotsInv, TypeInv', NEW c \in Calls, NEW r \in Request, c \notin holds,
         pc' = [pc EXCEPT ![c] = pc'[c]], pc'[c] \in Suspended,
         req' = [req EXCEPT ![c] = r],
         holds' = holds \cup {c},
         concurrent' = [concurrent EXCEPT ![KeyOf[r.tool]] = @ + 1],
         concurrent[KeyOf[r.tool]] < MaxConcurrent
  PROVE  SlotsInv'
<1> DEFINE key == KeyOf[r.tool]
<1>1. key \in Keys
  BY EngineAssumption DEF Request
<1>2. \A d \in Calls : req'[d] = IF d = c THEN r ELSE req[d]
  BY DEF SlotsInv, TypeInv, TypeOK
<1>3. \A k \in Keys : concurrent'[k] = IF k = key THEN concurrent[k] + 1 ELSE concurrent[k]
  BY DEF SlotsInv, TypeInv, TypeOK
<1>4. ASSUME NEW k \in Keys
      PROVE  concurrent'[k] = Cardinality(Holders(k)')
  <2>1. c \notin Holders(k) /\ IsFiniteSet(Holders(k))
    BY HoldersFinite DEF Holders, SlotsInv
  <2>2. concurrent[k] = Cardinality(Holders(k))
    BY DEF SlotsInv, SlotsMatchHolders
  <2>3. CASE k = key
    <3>1. Holders(k)' = Holders(k) \cup {c}
      BY <1>2, <2>3 DEF Holders, SlotsInv, TypeInv, TypeOK
    <3>2. Cardinality(Holders(k) \cup {c}) = Cardinality(Holders(k)) + 1
      BY <2>1, FS_AddElement
    <3>3. concurrent'[k] = concurrent[k] + 1
      BY <1>3, <2>3
    <3>4. QED
      BY <2>2, <3>1, <3>2, <3>3
  <2>4. CASE k # key
    <3>1. Holders(k)' = Holders(k)
      BY <1>2, <2>4 DEF Holders, SlotsInv, TypeInv, TypeOK
    <3>2. QED
      BY <1>3, <2>2, <2>4, <3>1
  <2>5. QED
    BY <2>3, <2>4
<1>5. \A d \in holds' : pc'[d] \in Suspended
  BY DEF SlotsInv, SlotsMatchHolders, TypeInv, TypeOK
<1>6. \A k \in Keys : concurrent'[k] <= MaxConcurrent
  BY <1>1, <1>3, EngineAssumption DEF SlotsInv, TypeInv, TypeOK
<1>7. QED
  BY <1>4, <1>5, <1>6 DEF SlotsInv, SlotsMatchHolders

(* A call returns, and gives back the slot it owes, if any.                *)
LEMMA SlotReturned ==
  ASSUME SlotsInv, TypeInv', NEW c \in Calls, pc[c] # "idle", NEW status,
         Return(c, status)
  PROVE  SlotsInv'
<1> DEFINE key == KeyOf[req[c].tool]
<1>1. key \in Keys
  BY EngineAssumption DEF SlotsInv, TypeInv, PcInv, Request
<1>2. holds' = holds \ {c} /\ req' = req
  BY DEF Return, Release
<1>3. \A d \in holds' : pc'[d] \in Suspended
  BY <1>2 DEF Return, SlotsInv, SlotsMatchHolders, TypeInv, TypeOK
<1>4. CASE c \in holds
  <2>1. \A k \in Keys : concurrent'[k] =
          IF k = key THEN (IF concurrent[k] > 0 THEN concurrent[k] - 1 ELSE 0)
                     ELSE concurrent[k]
    BY <1>4 DEF Return, Release, SlotsInv, TypeInv, TypeOK
  <2>2. ASSUME NEW k \in Keys
        PROVE  concurrent'[k] = Cardinality(Holders(k)') /\ concurrent'[k] <= concurrent[k]
    <3>1. IsFiniteSet(Holders(k)) /\ Cardinality(Holders(k)) \in Nat
      BY HoldersFinite DEF SlotsInv
    <3>2. concurrent[k] = Cardinality(Holders(k))
      BY DEF SlotsInv, SlotsMatchHolders
    <3>3. CASE k = key
      <4>1. c \in Holders(k)
        BY <1>4, <3>3 DEF Holders
      <4>2. Holders(k)' = Holders(k) \ {c}
        BY <1>2 DEF Holders
      <4>3. Cardinality(Holders(k)') = Cardinality(Holders(k)) - 1
        BY <3>1, <4>1, <4>2, FS_RemoveElement
      <4>4. Cardinality(Holders(k)) > 0
        BY <3>1, <4>1, FS_EmptySet
      <4>5. QED
        BY <2>1, <3>1, <3>2, <3>3, <4>3, <4>4
    <3>4. CASE k # key
      <4>1. Holders(k)' = Holders(k)
        BY <1>2, <3>4 DEF Holders
      <4>2. QED
        BY <2>1, <3>1, <3>2, <3>4, <4>1
    <3>5. QED
      BY <3>3, <3>4
  <2>3. \A k \in Keys : concurrent'[k] <= MaxConcurrent
    <3>1. \A k \in Keys : concurrent[k] \in Nat /\ concurrent'[k] \in Nat
      BY DEF SlotsInv, TypeInv, TypeOK
    <3>2. QED
      BY <2>2, <3>1, EngineAssumption DEF SlotsInv
  <2>4. QED
    BY <1>3, <2>2, <2>3 DEF SlotsInv, SlotsMatchHolders
<1>5. CASE c \notin holds
  <2>1. UNCHANGED <<concurrent, holds>>
    BY <1>2, <1>5 DEF Return, Release
  <2>2. QED
    BY <1>2, <1>3, <2>1, SlotsKept
<1>6. QED
  BY <1>4, <1>5

LEMMA SlotsInit == Init => SlotsInv
<1> SUFFICES ASSUME Init PROVE SlotsInv
  OBVIOUS
<1>1. TypeInv
  BY TypeInit
<1>2. \A k \in Keys : Holders(k) = {} /\ concurrent[k] = 0
  BY DEF Init, Holders
<1>3. Cardinality({}) = 0
  BY FS_EmptySet
<1>4. ASSUME NEW k \in Keys
      PROVE  concurrent[k] = Cardinality(Holders(k)) /\ concurrent[k] <= MaxConcurrent
  BY <1>2, <1>3, EngineAssumption
<1>5. holds = {}
  BY DEF Init
<1>6. QED
  BY <1>1, <1>4, <1>5 DEF SlotsInv, SlotsMatchHolders

LEMMA SlotsBegin ==
  ASSUME SlotsInv, TypeInv', NEW c \in Calls, NEW r, Begin(c, r)
  PROVE  SlotsInv'
<1>1. Issues(c, r)
  BY BeginIssues
<1>2. r \in Request /\ c \notin holds
  BY <1>1, IssuedRequest, IssuerHoldsNothing DEF SlotsInv
<1>3. CASE \/ ResolveFails(c, r)
           \/ HandlerMissing(c, r)
           \/ \E status, charge, n : Refuse(c, r, status, charge, n)
  <2>1. /\ UNCHANGED <<concurrent, holds>>
        /\ \A d \in holds : req'[d] = req[d] /\ pc'[d] = pc[d]
    BY <1>2, <1>3 DEF ResolveFails, HandlerMissing, Refuse, SlotsInv, TypeInv, TypeOK
  <2>2. QED
    BY <2>1, SlotsKept DEF SlotsInv, SlotsMatchHolders
<1>4. CASE StartHandler(c, r) \/ RejectArguments(c, r) \/ SendRemote(c, r)
  <2>1. Acquire(c, r)
    BY <1>4 DEF StartHandler, RejectArguments, SendRemote
  <2>2. KeyOf[r.tool] \in Keys
    BY <1>2, EngineAssumption DEF Request
  <2>3. concurrent[KeyOf[r.tool]] < MaxConcurrent
    BY <2>1, <2>2, EngineAssumption
       DEF Acquire, PastGates, WithinQuota, LimiterFull, SlotsInv, TypeInv, TypeOK
  <2>4. pc' = [pc EXCEPT ![c] = pc'[c]] /\ pc'[c] \in Suspended
    BY <1>4 DEF StartHandler, RejectArguments, SendRemote, Suspended, SlotsInv, TypeInv, TypeOK
  <2>5. QED
    BY <1>2, <2>1, <2>3, <2>4, SlotTaken DEF Acquire
<1>5. QED
  BY <1>3, <1>4 DEF Begin, CircuitRefuses, PolicyPeekRefuses, LimiterPeekRefuses,
     GateOverQuota, PolicyDenies, GateStops

LEMMA SlotsResume ==
  ASSUME SlotsInv, TypeInv', NEW c \in Calls, Resume(c)
  PROVE  SlotsInv'
<1>1. CASE HandlerSucceeds(c) \/ HandlerFails(c) \/ HandlerDenies(c) \/ CommitRaises(c) \/ Retry(c)
  <2>1. UNCHANGED <<req, concurrent, holds>>
    BY <1>1 DEF HandlerSucceeds, HandlerFails, HandlerDenies, CommitRaises, Retry
  <2>2. \A d \in Calls : pc'[d] = pc[d] \/ pc'[d] \in Suspended
    BY <1>1 DEF HandlerSucceeds, HandlerFails, HandlerDenies, CommitRaises, Retry,
       AttemptFails, Suspended, SlotsInv, TypeInv, TypeOK
  <2>3. QED
    BY <2>1, <2>2, SlotsKept DEF SlotsInv, SlotsMatchHolders, TypeInv, TypeOK
<1>2. CASE Recorded(c) \/ RecordingRaises(c) \/ RemoteAnswers(c)
  BY <1>2, SlotReturned DEF Recorded, RecordingRaises, RemoteAnswers
<1>3. QED
  BY <1>1, <1>2 DEF Resume

LEMMA SlotsNext == SlotsInv /\ [Next]_vars => SlotsInv'
<1> SUFFICES ASSUME SlotsInv, [Next]_vars PROVE SlotsInv'
  OBVIOUS
<1>1. TypeInv'
  BY TypeNext DEF SlotsInv
<1>2. ASSUME NEW c \in Calls, NEW r, Begin(c, r) PROVE SlotsInv'
  BY <1>1, <1>2, SlotsBegin
<1>3. ASSUME NEW c \in Calls, Resume(c) PROVE SlotsInv'
  BY <1>1, <1>3, SlotsResume
<1>4. ASSUME NEW c \in Calls, Cancel(c) PROVE SlotsInv'
  BY <1>1, <1>4, SlotReturned DEF Cancel, Suspended
<1>5. CASE \/ PolicyWindowSlides
           \/ \E k \in Keys : WindowSlides(k)
           \/ \E t \in Registered : CoolDown(t)
           \/ UNCHANGED vars
  <2>1. UNCHANGED <<pc, req, concurrent, holds>>
    BY <1>5 DEF PolicyWindowSlides, WindowSlides, CoolDown, vars
  <2>2. QED
    BY <1>1, <2>1, SlotsKept DEF SlotsInv, SlotsMatchHolders
<1>6. QED
  BY <1>2, <1>3, <1>4, <1>5 DEF Next

(* The limiter's counter is always the number of calls under way that      *)
(* still owe it a release: no path out of `execute` leaks a slot, and none *)
(* gives one back twice.                                                   *)
THEOREM SlotsNeverLeak == Spec => []SlotsMatchHolders
<1>1. SlotsInv => SlotsMatchHolders
  BY DEF SlotsInv
<1>2. QED
  BY <1>1, SlotsInit, SlotsNext, PTL DEF Spec

(* Calls of one key never hold more than max_concurrent slots.             *)
THEOREM ConcurrencyIsCapped == Spec => []ConcurrencyCapped
<1>1. SlotsInv => ConcurrencyCapped
  BY DEF SlotsInv, SlotsMatchHolders, ConcurrencyCapped
<1>2. QED
  BY <1>1, SlotsInit, SlotsNext, PTL DEF Spec

-----------------------------------------------------------------------------
(* Accounts                                                                *)

Unspent(l) == l.starts = 0 /\ l.limited = 0 /\ l.charged = 0

(* An account from which nothing was taken, while a call may still issue;  *)
(* "pending" only ever answers such an account.                            *)
AccountInv ==
  \A c \in Calls :
    /\ pc[c] = "idle" => Unspent(ledger[c])
    /\ result[c] = "pending" => pc[c] \in {"recording", "done"} /\ Unspent(ledger[c])
    /\ ledger[c].limited <= 1 /\ ledger[c].charged <= 1

ChargeInv == TypeInv /\ AccountInv

(* A call the gates stop with valid arguments is not charged.              *)
LEMMA GateUncharged ==
  ASSUME NEW r, r.arguments # "malformed",
         Verdict(r) = "confirm" \/ (Verdict(r) = "pass" /\ NeedsConfirmation(r))
  PROVE  ChargeOf(r) = 0
BY DEF ChargeOf, PolicyCharge, WillPend

LEMMA OverQuotaUncharged ==
  ASSUME NEW r, Verdict(r) # "deny"
  PROVE  PolicyCharge(r, TRUE, TRUE) = 0
BY DEF PolicyCharge

(* What `Bill` adds up to.                                                 *)
LEMMA BillAdds ==
  ASSUME NEW l \in LedgerRecord, NEW starts, NEW limited, NEW charged, NEW validations
  PROVE  LET b == Bill(l, starts, limited, charged, validations)
         IN  /\ b.starts = l.starts + starts
             /\ b.limited = l.limited + limited
             /\ b.charged = l.charged + charged
             /\ b.validations = l.validations + validations
             /\ b.events = <<>>
BY DEF Bill

(* A caller that issues a request has an account to spend from.            *)
LEMMA IssuerUnspent ==
  ASSUME ChargeInv, NEW c \in Calls, NEW r, Issues(c, r)
  PROVE  Unspent(ledger[c])
BY DEF ChargeInv, AccountInv, Issues

(* Beginning: one call's account is billed at most once.                   *)
LEMMA AccountBilled ==
  ASSUME ChargeInv, TypeInv', NEW c \in Calls, Unspent(ledger[c]),
         NEW starts \in Nat, NEW limited \in {0, 1}, NEW charged \in {0, 1},
         NEW validations \in Nat, NEW status, NEW where,
         ledger' = [ledger EXCEPT ![c] = Bill(@, starts, limited, charged, validations)],
         result' = [result EXCEPT ![c] = status],
         pc' = [pc EXCEPT ![c] = where], where # "idle",
         status = "pending" =>
           where \in {"recording", "done"} /\ starts = 0 /\ limited = 0 /\ charged = 0
  PROVE  AccountInv'
<1>1. /\ ledger'[c].starts = starts
      /\ ledger'[c].limited = limited
      /\ ledger'[c].charged = charged
  <2>1. ledger[c] \in LedgerRecord
    BY DEF ChargeInv, TypeInv, TypeOK
  <2>2. ledger'[c] = Bill(ledger[c], starts, limited, charged, validations)
    BY DEF ChargeInv, TypeInv, TypeOK
  <2>3. QED
    BY <2>1, <2>2, BillAdds DEF Unspent
<1>2. pc'[c] = where /\ result'[c] = status
  BY DEF ChargeInv, TypeInv, TypeOK
<1>3. ASSUME NEW d \in Calls, d # c
      PROVE  ledger'[d] = ledger[d] /\ pc'[d] = pc[d] /\ result'[d] = result[d]
  BY <1>3 DEF ChargeInv, TypeInv, TypeOK
<1>4. ASSUME NEW d \in Calls
      PROVE  /\ pc'[d] = "idle" => Unspent(ledger'[d])
             /\ result'[d] = "pending" =>
                  pc'[d] \in {"recording", "done"} /\ Unspent(ledger'[d])
             /\ ledger'[d].limited <= 1 /\ ledger'[d].charged <= 1
  <2>1. CASE d = c
    BY <1>1, <1>2, <2>1 DEF Unspent
  <2>2. CASE d # c
    BY <1>3, <2>2 DEF ChargeInv, AccountInv
  <2>3. QED
    BY <2>1, <2>2
<1>5. QED
  BY <1>4 DEF AccountInv, Unspent

(* A refusal costs at most one charge, and none if it answers "pending".   *)
LEMMA AccountRefused ==
  ASSUME ChargeInv, TypeInv', NEW c \in Calls, Unspent(ledger[c]), NEW r, NEW status,
         NEW charge \in {0, 1}, NEW n \in {0, 1}, Refuse(c, r, status, charge, n),
         status = "pending" => charge = 0
  PROVE  AccountInv'
BY AccountBilled DEF Refuse

(* Steps of a call under way leave what its account was charged alone, and *)
(* answer "pending" only where that was the answer already.                *)
LEMMA AccountKept ==
  ASSUME ChargeInv,
         \A d \in Calls :
           /\ ledger'[d].limited = ledger[d].limited
           /\ ledger'[d].charged = ledger[d].charged
           /\ ledger'[d].starts = ledger[d].starts \/ result'[d] # "pending"
           /\ pc'[d] = "idle" => pc[d] = "idle" /\ ledger'[d].starts = ledger[d].starts
           /\ result'[d] = "pending" =>
                result[d] = "pending" /\ (pc'[d] = pc[d] \/ pc'[d] = "done")
  PROVE  AccountInv'
BY DEF ChargeInv, AccountInv, Unspent

LEMMA ChargeInit == Init => ChargeInv
BY TypeInit DEF Init, ChargeInv, AccountInv, Unspent, Blank

LEMMA ChargeBegin ==
  ASSUME ChargeInv, TypeInv', NEW c \in Calls, NEW r, Begin(c, r)
  PROVE  AccountInv'
<1>1. Unspent(ledger[c])
  BY BeginIssues, IssuerUnspent
<1>2. ChargeOf(r) \in {0, 1}
  BY ChargeOfRange
<1>3. CASE CircuitRefuses(c, r) \/ PolicyPeekRefuses(c, r) \/ LimiterPeekRefuses(c, r)
  <2>1. PICK status \in {"circuit_open", "denied", "rate_limited"} : Refuse(c, r, status, 0, 0)
    BY <1>3 DEF CircuitRefuses, PolicyPeekRefuses, LimiterPeekRefuses
  <2>2. QED
    BY <1>1, <2>1, AccountRefused
<1>4. CASE GateOverQuota(c, r)
  <2> DEFINE status == IF Verdict(r) = "deny" THEN "denied" ELSE "pending"
             charge == PolicyCharge(r, TRUE, TRUE)
  <2>1. Refuse(c, r, status, charge, 0)
    BY <1>4 DEF GateOverQuota
  <2>2. charge \in {0, 1}
    BY DEF PolicyCharge
  <2>3. status = "pending" => charge = 0
    BY OverQuotaUncharged
  <2> HIDE DEF status, charge
  <2>4. QED
    BY <1>1, <2>1, <2>2, <2>3, AccountRefused
<1>5. CASE PolicyDenies(c, r)
  BY <1>1, <1>2, <1>5, AccountRefused DEF PolicyDenies
<1>6. CASE GateStops(c, r)
  BY <1>1, <1>2, <1>6, GateUncharged, AccountRefused DEF GateStops
<1>7. CASE ResolveFails(c, r)
  BY <1>1, <1>7, AccountBilled DEF ResolveFails
<1>8. CASE StartHandler(c, r)
  BY <1>1, <1>2, <1>8, AccountBilled DEF StartHandler, Spend
<1>9. CASE RejectArguments(c, r)
  BY <1>1, <1>2, <1>9, AccountBilled DEF RejectArguments, Spend
<1>10. CASE SendRemote(c, r)
  BY <1>1, <1>2, <1>10, AccountBilled DEF SendRemote, Spend
<1>11. CASE HandlerMissing(c, r)
  BY <1>1, <1>2, <1>11, AccountBilled DEF HandlerMissing, Spend
<1>12. QED
  BY <1>3, <1>7, <1>8, <1>9, <1>10, <1>11, <1>4, <1>5, <1>6 DEF Begin

LEMMA ChargeReturn ==
  ASSUME ChargeInv, NEW c \in Calls, NEW status, Return(c, status),
         status = "pending" => result[c] = "pending",
         \A d \in Calls : /\ ledger'[d].limited = ledger[d].limited
                          /\ ledger'[d].charged = ledger[d].charged
                          /\ ledger'[d].starts = ledger[d].starts
  PROVE  AccountInv'
<1>1. \A d \in Calls : /\ pc'[d] = IF d = c THEN "done" ELSE pc[d]
                       /\ result'[d] = IF d = c THEN status ELSE result[d]
  BY DEF Return, ChargeInv, TypeInv, TypeOK
<1>2. QED
  BY <1>1, AccountKept

LEMMA ChargeResume ==
  ASSUME ChargeInv, NEW c \in Calls, Resume(c)
  PROVE  AccountInv'
<1>1. CASE HandlerSucceeds(c) \/ HandlerFails(c) \/ HandlerDenies(c) \/ CommitRaises(c)
  <2>1. ledger' = ledger
    BY <1>1 DEF HandlerSucceeds, HandlerFails, HandlerDenies, CommitRaises
  <2>2. \A d \in Calls : d # c => pc'[d] = pc[d] /\ result'[d] = result[d]
    BY <1>1 DEF HandlerSucceeds, HandlerFails, HandlerDenies, CommitRaises, AttemptFails,
       ChargeInv, TypeInv, TypeOK
  <2>3. pc'[c] # "idle" /\ result'[c] # "pending"
    BY <1>1 DEF HandlerSucceeds, HandlerFails, HandlerDenies, CommitRaises, AttemptFails,
       ChargeInv, TypeInv, TypeOK
  <2>4. QED
    BY <2>1, <2>2, <2>3, AccountKept
<1>2. CASE Retry(c)
  <2>1. \A d \in Calls : /\ ledger'[d].limited = ledger[d].limited
                         /\ ledger'[d].charged = ledger[d].charged
                         /\ d # c => ledger'[d] = ledger[d]
    <3>1. ledger[c] \in LedgerRecord
      BY DEF ChargeInv, TypeInv, TypeOK
    <3>2. \A d \in Calls : ledger'[d] = IF d = c THEN Bill(ledger[c], 1, 0, 0, 0) ELSE ledger[d]
      BY <1>2 DEF Retry, ChargeInv, TypeInv, TypeOK
    <3>3. QED
      BY <3>1, <3>2 DEF Bill, LedgerRecord
  <2>2. result[c] # "pending"
    BY <1>2 DEF Retry, ChargeInv, AccountInv
  <2>3. result' = result /\ \A d \in Calls : pc'[d] = IF d = c THEN "handler" ELSE pc[d]
    BY <1>2 DEF Retry, ChargeInv, TypeInv, TypeOK
  <2>4. QED
    BY <2>1, <2>2, <2>3, AccountKept
<1>3. CASE Recorded(c)
  <2>1. \A d \in Calls : /\ ledger'[d].limited = ledger[d].limited
                         /\ ledger'[d].charged = ledger[d].charged
                         /\ ledger'[d].starts = ledger[d].starts
    BY <1>3 DEF Recorded, ChargeInv, TypeInv, TypeOK, LedgerRecord
  <2>2. QED
    BY <1>3, <2>1, ChargeReturn DEF Recorded
<1>4. CASE RecordingRaises(c)
  BY <1>4, ChargeReturn DEF RecordingRaises
<1>5. CASE RemoteAnswers(c)
  BY <1>5, ChargeReturn DEF RemoteAnswers
<1>6. QED
  BY <1>1, <1>2, <1>3, <1>4, <1>5 DEF Resume

LEMMA ChargeNext == ChargeInv /\ [Next]_vars => ChargeInv'
<1> SUFFICES ASSUME ChargeInv, [Next]_vars PROVE ChargeInv'
  OBVIOUS
<1>1. TypeInv'
  BY TypeNext DEF ChargeInv
<1>2. ASSUME NEW c \in Calls, NEW r, Begin(c, r) PROVE AccountInv'
  BY <1>1, <1>2, ChargeBegin
<1>3. ASSUME NEW c \in Calls, Resume(c) PROVE AccountInv'
  BY <1>3, ChargeResume
<1>4. ASSUME NEW c \in Calls, Cancel(c) PROVE AccountInv'
  BY <1>4, ChargeReturn DEF Cancel
<1>5. CASE \/ PolicyWindowSlides
           \/ \E k \in Keys : WindowSlides(k)
           \/ \E t \in Registered : CoolDown(t)
           \/ UNCHANGED vars
  <2>1. UNCHANGED <<pc, result, ledger>>
    BY <1>5 DEF PolicyWindowSlides, WindowSlides, CoolDown, vars
  <2>2. AccountInv'
    BY <2>1 DEF ChargeInv, AccountInv, Unspent
  <2>3. QED
    BY <1>1, <2>2 DEF ChargeInv
<1>6. QED
  BY <1>1, <1>2, <1>3, <1>4, <1>5 DEF Next, ChargeInv

(* A call answered "pending confirmation" ran nothing and cost nothing.    *)
THEOREM PendingIsFree == Spec => []PendingCostsNothing
<1>1. ChargeInv => PendingCostsNothing
  BY DEF ChargeInv, AccountInv, Unspent, PendingCostsNothing
<1>2. QED
  BY <1>1, ChargeInit, ChargeNext, PTL DEF Spec

(* A probe and its approved replay are charged at most once by the limiter *)
(* and at most once by the policy, however their steps interleave.         *)
THEOREM ChargedOnce == Spec => []OneChargePerCall
<1>1. ChargeInv => OneChargePerCall
  BY DEF ChargeInv, AccountInv, OneChargePerCall
<1>2. QED
  BY <1>1, ChargeInit, ChargeNext, PTL DEF Spec

-----------------------------------------------------------------------------
(* What a human is asked, and what telemetry is told                       *)

(* Nothing was validated for a call that has not begun.  A replay is never *)
(* answered "pending" again, so that a pending answer's account has just   *)
(* the one validation of its probe, or none.                               *)
AskedInv ==
  \A c \in Calls :
    /\ pc[c] = "idle" => ledger[c].validations = 0
    /\ result[c] = "pending" =>
         /\ ledger[c].validations > 0 => req[c].arguments # "malformed"
         /\ PatternStops(req[c]) \/ req[c].allowed

AnswerInv == ChargeInv /\ AskedInv /\ EventsMatchAnswers

LEMMA AnswerInit == Init => AnswerInv
BY ChargeInit DEF Init, AnswerInv, AskedInv, EventsMatchAnswers, Blank

(* An approved request passes both gates, and so only a call's first       *)
(* request is answered "pending".                                          *)
LEMMA OnlyProbesPend ==
  ASSUME AnswerInv, NEW c \in Calls, NEW r, Issues(c, r),
         Verdict(r) = "confirm" \/ NeedsConfirmation(r)
  PROVE  ledger[c].validations = 0
<1>1. CASE pc[c] = "idle"
  BY <1>1 DEF AnswerInv, AskedInv
<1>2. CASE pc[c] = "done" /\ r = [req[c] EXCEPT !.approval = "approved"]
  <2>1. req[c] \in Request
    BY <1>2 DEF AnswerInv, ChargeInv, TypeInv, PcInv
  <2>2. r.approval = "approved"
    BY <1>2, <2>1 DEF Request
  <2>3. QED
    BY <2>2 DEF Verdict, PatternStops, NeedsConfirmation
<1>3. QED
  BY <1>1, <1>2 DEF Issues

(* Beginning: a new request, an account with no event yet, and "pending"   *)
(* for a request that is worth a human's time.                             *)
LEMMA AnswerBegun ==
  ASSUME AnswerInv, NEW c \in Calls, NEW r \in Request,
         NEW starts \in Nat, NEW limited \in Nat, NEW charged \in Nat,
         NEW validations \in Nat, NEW status, NEW where,
         req' = [req EXCEPT ![c] = r],
         ledger' = [ledger EXCEPT ![c] = Bill(@, starts, limited, charged, validations)],
         result' = [result EXCEPT ![c] = status],
         pc' = [pc EXCEPT ![c] = where], where # "idle",
         status = "pending" =>
           /\ validations > 0 => r.arguments # "malformed"
           /\ ledger[c].validations = 0
           /\ PatternStops(r) \/ r.allowed
  PROVE  AskedInv' /\ EventsMatchAnswers'
<1>1. /\ ledger \in [Calls -> LedgerRecord] /\ req \in [Calls -> Request \cup {NoRequest}]
      /\ pc \in [Calls -> {"idle", "done"} \cup Suspended] /\ result \in [Calls -> Statuses]
  BY DEF AnswerInv, ChargeInv, TypeInv, TypeOK
<1>2. ledger[c] \in LedgerRecord
  BY <1>1
<1>3. /\ ledger'[c].validations = ledger[c].validations + validations
      /\ ledger'[c].events = <<>>
      /\ ledger[c].validations \in Nat
  BY <1>1, <1>2, BillAdds DEF LedgerRecord
<1>4. req'[c] = r /\ result'[c] = status /\ pc'[c] = where
  BY <1>1
<1>5. ASSUME NEW d \in Calls, d # c
      PROVE  ledger'[d] = ledger[d] /\ req'[d] = req[d] /\ pc'[d] = pc[d] /\ result'[d] = result[d]
  BY <1>1, <1>5
<1>6. ASSUME NEW d \in Calls
      PROVE  /\ pc'[d] = "idle" => ledger'[d].validations = 0
             /\ result'[d] = "pending" =>
                  /\ ledger'[d].validations > 0 => req'[d].arguments # "malformed"
                  /\ PatternStops(req'[d]) \/ req'[d].allowed
  <2>1. CASE d = c
    <3>1. status = "pending" => ledger'[c].validations = validations
      BY <1>3
    <3>2. QED
      BY <1>4, <2>1, <3>1
  <2>2. CASE d # c
    BY <1>5, <2>2 DEF AnswerInv, AskedInv
  <2>3. QED
    BY <2>1, <2>2
<1>7. ASSUME NEW d \in Calls
      PROVE  /\ pc'[d] = "done" => ledger'[d].events \in {<<>>, <<result'[d]>>}
             /\ pc'[d] # "done" => ledger'[d].events = <<>>
  <2>1. CASE d = c
    BY <1>3, <2>1
  <2>2. CASE d # c
    BY <1>5, <2>2 DEF AnswerInv, EventsMatchAnswers
  <2>3. QED
    BY <2>1, <2>2
<1>8. AskedInv'
  BY <1>6 DEF AskedInv, PatternStops
<1>9. QED
  BY <1>7, <1>8 DEF EventsMatchAnswers

LEMMA AnswerRefused ==
  ASSUME AnswerInv, NEW c \in Calls, NEW r \in Request, NEW status,
         NEW charge \in Nat, NEW n \in Nat, Refuse(c, r, status, charge, n),
         status = "pending" =>
           /\ n > 0 => r.arguments # "malformed"
           /\ ledger[c].validations = 0
           /\ PatternStops(r) \/ r.allowed
  PROVE  AskedInv' /\ EventsMatchAnswers'
BY AnswerBegun DEF Refuse

LEMMA AnswerBegin ==
  ASSUME AnswerInv, NEW c \in Calls, NEW r, Begin(c, r)
  PROVE  AskedInv' /\ EventsMatchAnswers'
<1>1. Issues(c, r) /\ r \in Request
  BY BeginIssues, IssuedRequest DEF AnswerInv, ChargeInv
<1>2. ChargeOf(r) \in Nat
  BY ChargeOfRange
<1>3. CASE CircuitRefuses(c, r) \/ PolicyPeekRefuses(c, r) \/ LimiterPeekRefuses(c, r)
  <2>1. PICK status \in {"circuit_open", "denied", "rate_limited"} : Refuse(c, r, status, 0, 0)
    BY <1>3 DEF CircuitRefuses, PolicyPeekRefuses, LimiterPeekRefuses
  <2>2. QED
    BY <1>1, <2>1, AnswerRefused
<1>4. CASE GateOverQuota(c, r)
  <2> DEFINE status == IF Verdict(r) = "deny" THEN "denied" ELSE "pending"
             charge == PolicyCharge(r, TRUE, TRUE)
  <2>1. Refuse(c, r, status, charge, 0) /\ NeedsConfirmation(r)
    BY <1>4 DEF GateOverQuota
  <2>2. charge \in Nat
    BY DEF PolicyCharge
  <2>3. status = "pending" => PatternStops(r) \/ r.allowed
    BY DEF Verdict
  <2>4. ledger[c].validations = 0
    BY <1>1, <2>1, OnlyProbesPend
  <2> HIDE DEF status, charge
  <2>5. QED
    BY <1>1, <2>1, <2>2, <2>3, <2>4, AnswerRefused
<1>5. CASE PolicyDenies(c, r)
  BY <1>1, <1>2, <1>5, AnswerRefused DEF PolicyDenies
<1>6. CASE GateStops(c, r)
  <2>1. PatternStops(r) \/ r.allowed
    BY <1>6 DEF GateStops, Verdict
  <2>2. Verdict(r) = "confirm" \/ NeedsConfirmation(r)
    BY <1>6 DEF GateStops
  <2>3. ledger[c].validations = 0
    BY <1>1, <2>2, OnlyProbesPend
  <2>4. Refuse(c, r, "pending", ChargeOf(r), 1) /\ r.arguments # "malformed"
    BY <1>6 DEF GateStops
  <2>5. QED
    BY <1>1, <1>2, <2>1, <2>3, <2>4, AnswerRefused
<1>7. CASE ResolveFails(c, r)
  BY <1>1, <1>7, AnswerBegun DEF ResolveFails
<1>8. CASE StartHandler(c, r)
  BY <1>1, <1>2, <1>8, AnswerBegun DEF StartHandler, Spend, Acquire
<1>9. CASE RejectArguments(c, r)
  BY <1>1, <1>2, <1>9, AnswerBegun DEF RejectArguments, Spend, Acquire
<1>10. CASE SendRemote(c, r)
  BY <1>1, <1>2, <1>10, AnswerBegun DEF SendRemote, Spend, Acquire
<1>11. CASE HandlerMissing(c, r)
  BY <1>1, <1>2, <1>11, AnswerBegun DEF HandlerMissing, Spend
<1>12. QED
  BY <1>3, <1>7, <1>8, <1>9, <1>10, <1>11, <1>4, <1>5, <1>6 DEF Begin

(* Steps of a call under way neither validate nor answer "pending", unless *)
(* that was the answer, and leave its request alone.                       *)
LEMMA AskedKept ==
  ASSUME AnswerInv, req' = req,
         \A d \in Calls :
           /\ ledger'[d].validations = ledger[d].validations
           /\ pc'[d] = "idle" => pc[d] = "idle"
           /\ result'[d] = "pending" => result[d] = "pending"
  PROVE  AskedInv'
BY DEF AnswerInv, AskedInv, PatternStops

(* Returning, with or without the one event that says what was returned.   *)
LEMMA AnswerReturned ==
  ASSUME AnswerInv, NEW c \in Calls, pc[c] \in Suspended, NEW status, Return(c, status),
         status = "pending" => result[c] = "pending",
         \/ ledger' = ledger
         \/ ledger' = [ledger EXCEPT ![c].events = Append(@, status)]
  PROVE  AskedInv' /\ EventsMatchAnswers'
<1>1. /\ ledger \in [Calls -> LedgerRecord]
      /\ pc \in [Calls -> {"idle", "done"} \cup Suspended] /\ result \in [Calls -> Statuses]
  BY DEF AnswerInv, ChargeInv, TypeInv, TypeOK
<1>2. \A d \in Calls : /\ pc'[d] = IF d = c THEN "done" ELSE pc[d]
                       /\ result'[d] = IF d = c THEN status ELSE result[d]
  BY <1>1 DEF Return
<1>3. ledger[c].events = <<>>
  BY DEF AnswerInv, EventsMatchAnswers, Suspended
<1>4. ASSUME NEW d \in Calls
      PROVE  /\ ledger'[d].validations = ledger[d].validations
             /\ d # c => ledger'[d] = ledger[d]
             /\ ledger'[c].events \in {<<>>, <<status>>}
  <2>1. ledger[d] \in LedgerRecord /\ ledger[c] \in LedgerRecord
    BY <1>1
  <2>2. Append(<<>>, status) = <<status>>
    OBVIOUS
  <2>3. QED
    BY <1>1, <1>3, <2>1, <2>2 DEF LedgerRecord
<1>5. AskedInv'
  BY <1>2, <1>4, AskedKept DEF Return
<1>6. EventsMatchAnswers'
  BY <1>2, <1>4 DEF AnswerInv, EventsMatchAnswers
<1>7. QED
  BY <1>5, <1>6

LEMMA AnswerResume ==
  ASSUME AnswerInv, NEW c \in Calls, Resume(c)
  PROVE  AskedInv' /\ EventsMatchAnswers'
<1>1. /\ ledger \in [Calls -> LedgerRecord]
      /\ pc \in [Calls -> {"idle", "done"} \cup Suspended] /\ result \in [Calls -> Statuses]
  BY DEF AnswerInv, ChargeInv, TypeInv, TypeOK
<1>2. CASE HandlerSucceeds(c) \/ HandlerFails(c) \/ HandlerDenies(c) \/ CommitRaises(c)
  <2>1. ledger' = ledger /\ req' = req
    BY <1>2 DEF HandlerSucceeds, HandlerFails, HandlerDenies, CommitRaises
  <2>2. \A d \in Calls : d # c => pc'[d] = pc[d] /\ result'[d] = result[d]
    BY <1>1, <1>2 DEF HandlerSucceeds, HandlerFails, HandlerDenies, CommitRaises, AttemptFails
  <2>3. /\ pc[c] \in {"handler", "committing"}
        /\ pc'[c] \in {"committing", "backoff", "recording"} /\ result'[c] # "pending"
    BY <1>1, <1>2 DEF HandlerSucceeds, HandlerFails, HandlerDenies, CommitRaises, AttemptFails
  <2>4. AskedInv'
    BY <2>1, <2>2, <2>3, AskedKept
  <2>5. EventsMatchAnswers'
    BY <2>1, <2>2, <2>3 DEF AnswerInv, EventsMatchAnswers
  <2>6. QED
    BY <2>4, <2>5
<1>3. CASE Retry(c)
  <2>1. /\ ledger' = [ledger EXCEPT ![c] = Bill(@, 1, 0, 0, 0)]
        /\ req' = req /\ result' = result /\ pc' = [pc EXCEPT ![c] = "handler"]
    BY <1>3 DEF Retry
  <2>2. ledger[c] \in LedgerRecord /\ ledger[c].validations \in Nat
    BY <1>1 DEF LedgerRecord
  <2>3. /\ ledger'[c].validations = ledger[c].validations + 0
        /\ ledger'[c].events = <<>>
        /\ \A d \in Calls : d # c => ledger'[d] = ledger[d] /\ pc'[d] = pc[d]
        /\ pc'[c] = "handler"
    BY <1>1, <2>1, <2>2, BillAdds
  <2>4. ledger'[c].validations = ledger[c].validations
    BY <2>2, <2>3
  <2>5. AskedInv'
    BY <2>1, <2>3, <2>4, AskedKept
  <2>6. EventsMatchAnswers'
    BY <2>1, <2>3 DEF AnswerInv, EventsMatchAnswers
  <2>7. QED
    BY <2>5, <2>6
<1>4. CASE Recorded(c)
  BY <1>4, AnswerReturned DEF Recorded, Suspended
<1>5. CASE RecordingRaises(c)
  BY <1>5, AnswerReturned DEF RecordingRaises, Suspended
<1>6. CASE RemoteAnswers(c)
  BY <1>6, AnswerReturned DEF RemoteAnswers, Suspended
<1>7. QED
  BY <1>2, <1>3, <1>4, <1>5, <1>6 DEF Resume

LEMMA AnswerNext == AnswerInv /\ [Next]_vars => AnswerInv'
<1> SUFFICES ASSUME AnswerInv, [Next]_vars PROVE AnswerInv'
  OBVIOUS
<1>1. ChargeInv'
  BY ChargeNext DEF AnswerInv
<1>2. ASSUME NEW c \in Calls, NEW r, Begin(c, r) PROVE AskedInv' /\ EventsMatchAnswers'
  BY <1>2, AnswerBegin
<1>3. ASSUME NEW c \in Calls, Resume(c) PROVE AskedInv' /\ EventsMatchAnswers'
  BY <1>3, AnswerResume
<1>4. ASSUME NEW c \in Calls, Cancel(c) PROVE AskedInv' /\ EventsMatchAnswers'
  BY <1>4, AnswerReturned DEF Cancel
<1>5. CASE \/ PolicyWindowSlides
           \/ \E k \in Keys : WindowSlides(k)
           \/ \E t \in Registered : CoolDown(t)
           \/ UNCHANGED vars
  <2>1. UNCHANGED <<pc, req, result, ledger>>
    BY <1>5 DEF PolicyWindowSlides, WindowSlides, CoolDown, vars
  <2>2. AskedInv'
    BY <2>1, AskedKept
  <2>3. EventsMatchAnswers'
    BY <2>1 DEF AnswerInv, EventsMatchAnswers
  <2>4. QED
    BY <1>1, <2>2, <2>3 DEF AnswerInv
<1>6. QED
  BY <1>1, <1>2, <1>3, <1>4, <1>5 DEF Next, AnswerInv

(* Whatever the calls, tools and limits, no human is asked to approve      *)
(* arguments known to be malformed or, but for the policy's own patterns,  *)
(* a call that its replay's domain check would deny.                       *)
THEOREM PendingStaysWorthApproving == Spec => []PendingIsWorthApproving
<1>1. AnswerInv => PendingIsWorthApproving
  BY DEF AnswerInv, AskedInv, PendingIsWorthApproving
<1>2. QED
  BY <1>1, AnswerInit, AnswerNext, PTL DEF Spec

(* However calls return, raise or are cancelled, telemetry has at most one *)
(* event of each, and that is the answer its caller got.                   *)
THEOREM EventsStayTrue == Spec => []EventsMatchAnswers
<1>1. AnswerInv => EventsMatchAnswers
  BY DEF AnswerInv
<1>2. QED
  BY <1>1, AnswerInit, AnswerNext, PTL DEF Spec

-----------------------------------------------------------------------------
(* Gates                                                                   *)

(* A step that begins a call bills only what its gates let through.        *)
LEMMA BeginGated ==
  ASSUME TypeInv, NEW c \in Calls, NEW r, Begin(c, r)
  PROVE  /\ req'[c] = r
         /\ ledger'[c].validations > ledger[c].validations => WithinQuota(c, r)
         /\ ledger'[c].starts > ledger[c].starts => Admissible(c, r)
         /\ \A d \in Calls : d # c => ledger'[d] = ledger[d]
<1>1. /\ req \in [Calls -> Request \cup {NoRequest}] /\ ledger \in [Calls -> LedgerRecord]
  BY DEF TypeInv, TypeOK
<1>2. ledger[c] \in LedgerRecord /\ ledger[c].validations \in Nat /\ ledger[c].starts \in Nat
  BY <1>1 DEF LedgerRecord
<1>3. ASSUME NEW starts \in Nat, NEW limited, NEW charged, NEW validations \in Nat,
             req' = [req EXCEPT ![c] = r],
             ledger' = [ledger EXCEPT ![c] = Bill(@, starts, limited, charged, validations)],
             validations > 0 => WithinQuota(c, r), starts > 0 => Admissible(c, r)
      PROVE  /\ req'[c] = r
             /\ ledger'[c].validations > ledger[c].validations => WithinQuota(c, r)
             /\ ledger'[c].starts > ledger[c].starts => Admissible(c, r)
             /\ \A d \in Calls : d # c => ledger'[d] = ledger[d]
  <2>1. ledger'[c] = Bill(ledger[c], starts, limited, charged, validations)
    BY <1>1, <1>3
  <2>2. /\ ledger'[c].validations = ledger[c].validations + validations
        /\ ledger'[c].starts = ledger[c].starts + starts
    BY <1>2, <2>1, BillAdds
  <2>3. ledger'[c].validations > ledger[c].validations => validations > 0
    BY <1>2, <2>2
  <2>4. ledger'[c].starts > ledger[c].starts => starts > 0
    BY <1>2, <2>2
  <2>5. QED
    BY <1>1, <1>3, <2>3, <2>4
<1>none. /\ 0 \in Nat /\ 1 \in Nat
         /\ 0 > 0 => WithinQuota(c, r)
         /\ 0 > 0 => Admissible(c, r)
  OBVIOUS
<1>4. CASE \/ CircuitRefuses(c, r) \/ PolicyPeekRefuses(c, r) \/ LimiterPeekRefuses(c, r)
           \/ GateOverQuota(c, r)
  <2>1. PICK status, charge : Refuse(c, r, status, charge, 0)
    BY <1>4 DEF CircuitRefuses, PolicyPeekRefuses, LimiterPeekRefuses, GateOverQuota
  <2>2. /\ req' = [req EXCEPT ![c] = r]
        /\ ledger' = [ledger EXCEPT ![c] = Bill(@, 0, 0, charge, 0)]
    BY <2>1 DEF Refuse
  <2>3. QED
    BY <1>none, <1>3, <2>2, Zenon
<1>5. CASE PolicyDenies(c, r) \/ GateStops(c, r)
  <2>1. WithinQuota(c, r)
    BY <1>5 DEF PolicyDenies, GateStops
  <2>2. PICK status, charge : Refuse(c, r, status, charge, 1)
    BY <1>5 DEF PolicyDenies, GateStops
  <2>3. /\ req' = [req EXCEPT ![c] = r]
        /\ ledger' = [ledger EXCEPT ![c] = Bill(@, 0, 0, charge, 1)]
    BY <2>2 DEF Refuse
  <2>4. QED
    BY <1>none, <1>3, <2>1, <2>3, Zenon
<1>6. CASE ResolveFails(c, r)
  <2>1. /\ req' = [req EXCEPT ![c] = r]
        /\ ledger' = [ledger EXCEPT ![c] = Bill(@, 0, 0, 0, 0)]
    BY <1>6 DEF ResolveFails
  <2>2. QED
    BY <1>none, <1>3, <2>1, Zenon
<1>7. CASE StartHandler(c, r) \/ RejectArguments(c, r) \/ SendRemote(c, r) \/ HandlerMissing(c, r)
  <2>1. /\ PastGates(c, r) /\ req' = [req EXCEPT ![c] = r]
        /\ Spend(c, r, 0) \/ Spend(c, r, 1)
    BY <1>7 DEF StartHandler, RejectArguments, SendRemote, HandlerMissing, Acquire
  <2>2. WithinQuota(c, r) /\ Admissible(c, r)
    BY <2>1 DEF PastGates, WithinQuota
  <2>3. QED
    BY <1>3, <2>1, <2>2 DEF Spend
<1>8. QED
  BY <1>4, <1>5, <1>6, <1>7 DEF Begin

(* A call under way is validated no more, and starts its handler again     *)
(* only as a retry.                                                        *)
LEMMA ResumeGated ==
  ASSUME TypeInv, NEW c \in Calls, Resume(c) \/ Cancel(c)
  PROVE  \A d \in Calls :
           /\ ~ (ledger'[d].validations > ledger[d].validations)
           /\ ledger'[d].starts > ledger[d].starts => pc[d] = "backoff"
<1>1. \A d \in Calls : /\ ledger[d] \in LedgerRecord
                       /\ ledger[d].validations \in Nat /\ ledger[d].starts \in Nat
  BY DEF TypeInv, TypeOK, LedgerRecord
<1>2. DOMAIN ledger = Calls
  BY DEF TypeInv, TypeOK
<1>3. CASE Retry(c)
  <2>1. /\ pc[c] = "backoff"
        /\ ledger'[c] = Bill(ledger[c], 1, 0, 0, 0)
        /\ \A d \in Calls : d # c => ledger'[d] = ledger[d]
    BY <1>2, <1>3 DEF Retry
  <2>2. ledger'[c].validations = ledger[c].validations + 0
    BY <1>1, <2>1, BillAdds
  <2>3. QED
    BY <1>1, <2>1, <2>2
<1>4. CASE Recorded(c)
  <2>1. ledger' = [ledger EXCEPT ![c].events = Append(@, result[c])]
    BY <1>4 DEF Recorded
  <2>2. \A d \in Calls : /\ ledger'[d].validations = ledger[d].validations
                         /\ ledger'[d].starts = ledger[d].starts
    BY <1>1, <1>2, <2>1 DEF LedgerRecord
  <2>3. QED
    BY <1>1, <2>2
<1>5. CASE \/ HandlerSucceeds(c) \/ HandlerFails(c) \/ HandlerDenies(c) \/ CommitRaises(c)
           \/ RecordingRaises(c) \/ RemoteAnswers(c) \/ Cancel(c)
  <2>1. ledger' = ledger
    BY <1>5 DEF HandlerSucceeds, HandlerFails, HandlerDenies, CommitRaises, RecordingRaises,
       RemoteAnswers, Cancel
  <2>2. QED
    BY <1>1, <2>1
<1>6. QED
  BY <1>3, <1>4, <1>5 DEF Resume

(* For any calls, tools and limits no step goes round a gate: arguments    *)
(* are validated only within both quotas, and a handler is started only    *)
(* past its breaker, or again as a retry.                                  *)
THEOREM GatesHold == Spec => NoGateBypassed
<1> DEFINE Gated ==
      \A c \in Calls :
        /\ ledger'[c].validations > ledger[c].validations =>
             ~PolicyFull /\ ~LimiterFull(req'[c].tool)
        /\ ledger'[c].starts > ledger[c].starts /\ pc[c] # "backoff" =>
             ~BreakerRefuses(req'[c].tool)
<1>1. TypeInv /\ [Next]_vars => [Gated]_vars
  <2> SUFFICES ASSUME TypeInv, Next, NEW d \in Calls
               PROVE  /\ ledger'[d].validations > ledger[d].validations =>
                           ~PolicyFull /\ ~LimiterFull(req'[d].tool)
                      /\ ledger'[d].starts > ledger[d].starts /\ pc[d] # "backoff" =>
                           ~BreakerRefuses(req'[d].tool)
    OBVIOUS
  <2>1. ledger[d].validations \in Nat /\ ledger[d].starts \in Nat
    BY DEF TypeInv, TypeOK, LedgerRecord
  <2>2. ASSUME NEW c \in Calls, NEW r, Begin(c, r)
        PROVE  /\ ledger'[d].validations > ledger[d].validations =>
                    ~PolicyFull /\ ~LimiterFull(req'[d].tool)
               /\ ledger'[d].starts > ledger[d].starts /\ pc[d] # "backoff" =>
                    ~BreakerRefuses(req'[d].tool)
    BY <2>1, <2>2, BeginGated DEF WithinQuota, Admissible
  <2>3. ASSUME NEW c \in Calls, Resume(c) \/ Cancel(c)
        PROVE  /\ ~ (ledger'[d].validations > ledger[d].validations)
               /\ ledger'[d].starts > ledger[d].starts => pc[d] = "backoff"
    BY <2>3, ResumeGated
  <2>4. CASE \/ PolicyWindowSlides
             \/ \E k \in Keys : WindowSlides(k)
             \/ \E t \in Registered : CoolDown(t)
    <3>1. ledger' = ledger
      BY <2>4 DEF PolicyWindowSlides, WindowSlides, CoolDown
    <3>2. QED
      BY <2>1, <3>1
  <2>5. QED
    BY <2>2, <2>3, <2>4 DEF Next
<1>2. QED
  BY <1>1, TypeInit, TypeNext, PTL DEF Spec, NoGateBypassed

-----------------------------------------------------------------------------
(* Health                                                                  *)

HealthInv == TypeInv /\ HealthMatchesHistory

LEMMA FailureRunType ==
  ASSUME NEW s \in Seq(BOOLEAN)
  PROVE  FailureRun(s) \in Nat
<1>1. Len(s) \in Nat /\ DOMAIN s = 1 .. Len(s)
  OBVIOUS
<1>2. IsFiniteSet(1 .. Len(s))
  BY <1>1, FS_Interval
<1>3. {i \in DOMAIN s : \A j \in i .. Len(s) : ~s[j]} \subseteq 1 .. Len(s)
  BY <1>1
<1>4. QED
  BY <1>2, <1>3, FS_Subset, FS_CardinalityType DEF FailureRun

LEMMA FailureRunOfNone == FailureRun(<<>>) = 0
<1>1. {i \in DOMAIN <<>> : \A j \in i .. Len(<<>>) : ~ <<>>[j]} = {}
  OBVIOUS
<1>2. QED
  BY <1>1, FS_EmptySet DEF FailureRun

(* A failure lengthens the run of failures by one, a success ends it.      *)
LEMMA FailureRunAppend ==
  ASSUME NEW s \in Seq(BOOLEAN)
  PROVE  /\ FailureRun(Append(s, TRUE)) = 0
         /\ FailureRun(Append(s, FALSE)) = FailureRun(s) + 1
<1> DEFINE run == {i \in DOMAIN s : \A j \in i .. Len(s) : ~s[j]}
           last == Len(s) + 1
<1>1. /\ Len(s) \in Nat /\ DOMAIN s = 1 .. Len(s)
      /\ IsFiniteSet(1 .. Len(s))
  <2>1. Len(s) \in Nat /\ DOMAIN s = 1 .. Len(s)
    OBVIOUS
  <2>2. QED
    BY <2>1, FS_Interval
<1>2. FailureRun(Append(s, TRUE)) = 0
  <2> DEFINE g == Append(s, TRUE)
  <2>1. DOMAIN g = 1 .. last /\ Len(g) = last /\ g[last] = TRUE
    BY <1>1
  <2> HIDE DEF g
  <2>2. {i \in DOMAIN g : \A j \in i .. Len(g) : ~g[j]} = {}
    <3>1. ASSUME NEW i \in DOMAIN g PROVE ~ \A j \in i .. Len(g) : ~g[j]
      <4>1. last \in i .. Len(g)
        BY <1>1, <2>1
      <4>2. QED
        BY <2>1, <4>1
    <3>2. QED
      BY <3>1
  <2>3. QED
    BY <2>2, FS_EmptySet DEF FailureRun, g
<1>3. FailureRun(Append(s, FALSE)) = FailureRun(s) + 1
  <2> DEFINE g == Append(s, FALSE)
  <2>1. /\ DOMAIN g = 1 .. last /\ Len(g) = last /\ g[last] = FALSE
        /\ \A i \in 1 .. Len(s) : g[i] = s[i]
    BY <1>1
  <2> HIDE DEF g
  <2>2. {i \in DOMAIN g : \A j \in i .. Len(g) : ~g[j]} = run \cup {last}
    <3>1. ASSUME NEW i \in 1 .. Len(s)
          PROVE  (\A j \in i .. Len(g) : ~g[j]) <=> \A j \in i .. Len(s) : ~s[j]
      <4>1. i .. Len(g) = (i .. Len(s)) \cup {last}
        BY <1>1, <2>1
      <4>2. \A j \in i .. Len(s) : j \in 1 .. Len(s)
        BY <1>1
      <4>3. QED
        BY <2>1, <4>1, <4>2
    <3>2. last .. Len(g) = {last}
      BY <1>1, <2>1
    <3>3. 1 .. last = (1 .. Len(s)) \cup {last}
      BY <1>1
    <3>4. QED
      BY <1>1, <2>1, <3>1, <3>2, <3>3
  <2>3. last \notin run /\ run \subseteq 1 .. Len(s)
    BY <1>1
  <2>4. IsFiniteSet(run)
    BY <1>1, <2>3, FS_Subset
  <2> HIDE DEF run
  <2>5. Cardinality(run \cup {last}) = Cardinality(run) + 1
    BY <2>3, <2>4, FS_AddElement
  <2>6. QED
    BY <2>2, <2>5 DEF FailureRun, g, run
<1>4. QED
  BY <1>2, <1>3

LEMMA HealthSucceeded ==
  ASSUME HealthInv, NEW t \in Registered, RecordSuccess(t)
  PROVE  HealthMatchesHistory'
<1>1. /\ health \in [Registered -> HealthRecord] /\ history \in [Registered -> Seq(BOOLEAN)]
      /\ Threshold \in Nat \ {0}
  BY EngineAssumption DEF HealthInv, TypeInv, TypeOK
<1>2. /\ \A u \in Registered : u # t => health'[u] = health[u] /\ history'[u] = history[u]
      /\ history'[t] = Append(history[t], TRUE)
      /\ health'[t].failures = 0 /\ health'[t].open = FALSE
      /\ health'[t].calls = health[t].calls + 1
  BY <1>1 DEF RecordSuccess
<1>3. FailureRun(history'[t]) = 0 /\ Len(history'[t]) = Len(history[t]) + 1
  <2>1. history[t] \in Seq(BOOLEAN)
    BY <1>1
  <2>2. Len(Append(history[t], TRUE)) = Len(history[t]) + 1
    BY <2>1
  <2>3. QED
    BY <1>2, <2>1, <2>2, FailureRunAppend
<1>4. ASSUME NEW u \in Registered
      PROVE  /\ health'[u].calls = Len(history'[u])
             /\ health'[u].failures = FailureRun(history'[u])
             /\ health'[u].open <=> FailureRun(history'[u]) >= Threshold
  <2>1. CASE u = t
    <3>1. health[t].calls = Len(history[t])
      BY DEF HealthInv, HealthMatchesHistory
    <3>2. ~ health'[t].open /\ ~ (0 >= Threshold)
      BY <1>1, <1>2
    <3>3. health'[t].calls = Len(history'[t]) /\ health'[t].failures = FailureRun(history'[t])
      BY <1>2, <1>3, <3>1
    <3>4. QED
      BY <1>3, <2>1, <3>2, <3>3
  <2>2. CASE u # t
    BY <1>2, <2>2 DEF HealthInv, HealthMatchesHistory
  <2>3. QED
    BY <2>1, <2>2
<1>5. QED
  BY <1>4 DEF HealthMatchesHistory, FailureRun

LEMMA HealthFailed ==
  ASSUME HealthInv, NEW t \in Registered, RecordFailure(t)
  PROVE  HealthMatchesHistory'
<1>1. /\ health \in [Registered -> HealthRecord] /\ history \in [Registered -> Seq(BOOLEAN)]
      /\ Threshold \in Nat \ {0}
  BY EngineAssumption DEF HealthInv, TypeInv, TypeOK
<1>2. /\ \A u \in Registered : u # t => health'[u] = health[u] /\ history'[u] = history[u]
      /\ history'[t] = Append(history[t], FALSE)
      /\ health'[t].failures = health[t].failures + 1
      /\ health'[t].open = (health[t].open \/ health[t].failures + 1 >= Threshold)
      /\ health'[t].calls = health[t].calls + 1
  BY <1>1 DEF RecordFailure
<1>3. FailureRun(history'[t]) = FailureRun(history[t]) + 1 /\ FailureRun(history[t]) \in Nat
      /\ Len(history'[t]) = Len(history[t]) + 1
  <2>1. history[t] \in Seq(BOOLEAN)
    BY <1>1
  <2>2. Len(Append(history[t], FALSE)) = Len(history[t]) + 1
    BY <2>1
  <2>3. QED
    BY <1>2, <2>1, <2>2, FailureRunAppend, FailureRunType
<1>4. /\ health[t].failures = FailureRun(history[t]) /\ health[t].calls = Len(history[t])
      /\ health[t].open <=> FailureRun(history[t]) >= Threshold
  BY DEF HealthInv, HealthMatchesHistory
<1>5. (health[t].open \/ health[t].failures + 1 >= Threshold)
        <=> FailureRun(history[t]) + 1 >= Threshold
  BY <1>1, <1>3, <1>4
<1>6. health'[t].open <=> FailureRun(history'[t]) >= Threshold
  BY <1>2, <1>3, <1>5
<1>7. health'[t].calls = Len(history'[t]) /\ health'[t].failures = FailureRun(history'[t])
  BY <1>2, <1>3, <1>4
<1>8. QED
  BY <1>2, <1>6, <1>7 DEF HealthInv, HealthMatchesHistory

LEMMA HealthInit == Init => HealthInv
<1> SUFFICES ASSUME Init PROVE HealthMatchesHistory
  BY TypeInit DEF HealthInv
<1>1. ASSUME NEW t \in Registered
      PROVE  /\ health[t] = FreshHealth /\ history[t] = <<>>
  BY DEF Init
<1>2. Threshold \in Nat \ {0} /\ Len(<<>>) = 0
  BY EngineAssumption
<1>3. QED
  BY <1>1, <1>2, FailureRunOfNone DEF HealthMatchesHistory, FreshHealth

LEMMA HealthNext == HealthInv /\ [Next]_vars => HealthInv'
<1> SUFFICES ASSUME HealthInv, [Next]_vars PROVE HealthMatchesHistory'
  BY TypeNext DEF HealthInv
<1>1. ASSUME UNCHANGED <<health, history>> PROVE HealthMatchesHistory'
  BY <1>1 DEF HealthInv, HealthMatchesHistory
<1>2. \A c \in Calls : pc[c] \in {"handler", "committing"} => req[c].tool \in Registered
  BY DEF HealthInv, TypeInv, ToolInv
<1>3. ASSUME NEW c \in Calls, NEW r, Begin(c, r) PROVE UNCHANGED <<health, history>>
  BY <1>3 DEF Begin, ResolveFails, CircuitRefuses, PolicyPeekRefuses, LimiterPeekRefuses,
     GateOverQuota, PolicyDenies, GateStops, StartHandler, RejectArguments, SendRemote,
     HandlerMissing, Refuse
<1>4. ASSUME NEW c \in Calls, Resume(c)
      PROVE  \/ UNCHANGED <<health, history>>
             \/ \E t \in Registered : RecordSuccess(t) \/ RecordFailure(t)
  BY <1>2, <1>4 DEF Resume, HandlerSucceeds, HandlerFails, HandlerDenies, CommitRaises,
     AttemptFails, Retry, Recorded, RecordingRaises, RemoteAnswers, Return
<1>5. ASSUME NEW c \in Calls, Cancel(c) PROVE UNCHANGED <<health, history>>
  BY <1>5 DEF Cancel, Return
<1>6. ASSUME NEW t \in Registered, CoolDown(t) PROVE HealthMatchesHistory'
  <2>1. health \in [Registered -> HealthRecord]
    BY DEF HealthInv, TypeInv, TypeOK
  <2>2. history' = history /\ health' = [health EXCEPT ![t].cooled = TRUE]
    BY <1>6 DEF CoolDown
  <2>3. \A u \in Registered : /\ health'[u].calls = health[u].calls
                              /\ health'[u].failures = health[u].failures
                              /\ health'[u].open = health[u].open
    BY <2>1, <2>2 DEF HealthRecord
  <2>4. QED
    BY <2>2, <2>3 DEF HealthInv, HealthMatchesHistory
<1>7. CASE PolicyWindowSlides \/ (\E k \in Keys : WindowSlides(k)) \/ UNCHANGED vars
  BY <1>1, <1>7 DEF PolicyWindowSlides, WindowSlides, vars
<1>8. QED
  BY <1>1, <1>3, <1>4, <1>5, <1>6, <1>7, HealthSucceeded, HealthFailed DEF Next

(* For any calls, tools and threshold, with calls finishing in any order,  *)
(* a tool's health is what its recorded outcomes say, and its breaker is   *)
(* open exactly after Threshold failures in a row.                         *)
THEOREM HealthStaysTrue == Spec => []HealthMatchesHistory
<1>1. HealthInv => HealthMatchesHistory
  BY DEF HealthInv
<1>2. QED
  BY <1>1, HealthInit, HealthNext, PTL DEF Spec
=============================================================================
