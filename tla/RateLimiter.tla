----------------------------- MODULE RateLimiter -----------------------------
(***************************************************************************)
(* RateLimiter of agent_gantry/core/rate_limiter.py: the peek, `acquire`,  *)
(* `release` and `reset` under each of the three strategies.               *)
(*                                                                         *)
(* Each operation is one action: the lock is never held across an await    *)
(* that suspends, so nothing interleaves with the body of an operation.    *)
(* The clock counts ticks, a minute and an hour being Minute and Hour of   *)
(* them, and tokens are counted in grains, Minute grains to a token, so    *)
(* that a tick refills PerMinute grains and the arithmetic stays exact.    *)
(***************************************************************************)
EXTENDS Integers, Sequences, FiniteSets

CONSTANTS
  Callers,       \* calls that may hold a slot
  Tools,         \* tools they execute
  NamespaceOf,   \* the namespace of each tool
  PerNamespace,  \* RateLimitConfig.per_namespace
  PerTool,       \* RateLimitConfig.per_tool
  Strategies,    \* the strategies to start from
  PerMinute,     \* max_calls_per_minute
  PerHour,       \* max_calls_per_hour
  Burst,         \* burst_size, 0 when it is not set
  MaxConcurrent, \* max_concurrent
  Minute, Hour,  \* ticks in a minute and in an hour
  MaxTime,       \* bound on the clock
  MaxResets      \* bound on the resets of a behaviour

ASSUME LimiterAssumption ==
  /\ IsFiniteSet(Callers)
  /\ PerNamespace \in BOOLEAN /\ PerTool \in BOOLEAN
  /\ Strategies \subseteq {"sliding_window", "token_bucket", "fixed_window"}
  /\ {PerMinute, PerHour, MaxConcurrent, Minute, Hour} \subseteq Nat \ {0}
  /\ {Burst, MaxTime, MaxResets} \subseteq Nat
  /\ Minute <= Hour

(* _get_key: per_namespace has the last word over per_tool.                *)
KeyOf(tool) ==
  CASE PerNamespace -> NamespaceOf[tool]
    [] ~PerNamespace /\ PerTool -> tool
    [] OTHER -> "global"

Keys == {KeyOf(tool) : tool \in Tools}

VARIABLES
  strategy,     \* RateLimitConfig.strategy
  now,          \* time.time()
  callHistory,  \* _call_history: stamps of recorded calls
  tokens,       \* _tokens, in grains
  lastRefill,   \* _last_refill, Never until the key is first looked at
  windowCalls,  \* _window_calls
  windowStart,  \* _window_start, Never until the key is first looked at
  concurrent,   \* _concurrent
  slotOf,       \* the key each caller still has to release, or NoKey
  grants,       \* history: when the last hour's calls were let through
  resets,       \* resets so far
  disturbed     \* history: keys reset while a caller held a slot

windows == <<callHistory, tokens, lastRefill, windowCalls, windowStart>>

vars == <<strategy, now, windows, concurrent, slotOf, grants, resets, disturbed>>

Never == -1
NoKey == "no key"

ASSUME KeyAssumption == NoKey \notin Keys

Init ==
  /\ strategy \in Strategies
  /\ now = 0
  /\ callHistory = [k \in Keys |-> <<>>]
  /\ tokens = [k \in Keys |-> PerMinute * Minute]
  /\ lastRefill = [k \in Keys |-> Never]
  /\ windowCalls = [k \in Keys |-> 0]
  /\ windowStart = [k \in Keys |-> Never]
  /\ concurrent = [k \in Keys |-> 0]
  /\ slotOf = [c \in Callers |-> NoKey]
  /\ grants = [k \in Keys |-> <<>>]
  /\ resets = 0
  /\ disturbed = {}
-----------------------------------------------------------------------------
Least(m, n) == IF m < n THEN m ELSE n

(* A defaultdict stamps a key when it is first looked at.                  *)
Stamp(at) == IF at = Never THEN now ELSE at

Capacity == IF Burst = 0 THEN PerMinute ELSE Burst

Refilled(k) ==
  Least(Capacity * Minute, tokens[k] + (now - Stamp(lastRefill[k])) * PerMinute)

WindowDue(k) == now - Stamp(windowStart[k]) >= Minute

SlotsFull(k) == concurrent[k] >= MaxConcurrent

(* would_exceed counts stamps wherever they are and stores nothing.        *)
StampsSince(k, t) == Cardinality({i \in DOMAIN callHistory[k] : callHistory[k][i] >= t})

WouldExceed(k) ==
  \/ SlotsFull(k)
  \/ /\ strategy = "sliding_window"
     /\ \/ StampsSince(k, now - Hour) >= PerHour
        \/ StampsSince(k, now - Minute) >= PerMinute
  \/ strategy = "token_bucket" /\ Refilled(k) < Minute
  \/ strategy = "fixed_window" /\ ~WindowDue(k) /\ windowCalls[k] >= PerMinute

(* What is left when stale stamps are dropped from the front.              *)
Since(h, t) ==
  LET stale == {i \in DOMAIN h : \A j \in 1 .. i : h[j] < t}
  IN  SubSeq(h, Cardinality(stale) + 1, Len(h))

(* Slip: stamps are dropped after a minute.                                *)
PrunedByMinute(h) == Since(h, now - Minute)

(* acquire drops stale stamps, then counts from the back up to the first   *)
(* stamp that is not recent.                                               *)
Pruned(h) == Since(h, now - Hour)

(* Slips: the hour's limit is compared with the minute's stamps; one stamp *)
(* more is let through.                                                    *)
RecentOfLastHour(h) == Len(h)

Recent(h) ==
  Cardinality({i \in DOMAIN h : \A j \in i .. Len(h) : h[j] >= now - Minute})

SlidingFullLate(k) ==
  \/ Len(Pruned(callHistory[k])) > PerHour
  \/ Recent(Pruned(callHistory[k])) > PerMinute

SlidingFull(k) ==
  \/ Len(Pruned(callHistory[k])) >= PerHour
  \/ Recent(Pruned(callHistory[k])) >= PerMinute

FixedCalls(k) == IF WindowDue(k) THEN 0 ELSE windowCalls[k]

Refuses(k) ==
  \/ SlotsFull(k)
  \/ strategy = "sliding_window" /\ SlidingFull(k)
  \/ strategy = "token_bucket" /\ Refilled(k) < Minute
  \/ strategy = "fixed_window" /\ FixedCalls(k) >= PerMinute
-----------------------------------------------------------------------------
(* would_exceed: it records no call, but looking at a key the strategy has *)
(* not seen yet starts that key's refill or window.                        *)
Peek(tool) ==
  LET k == KeyOf(tool) IN
  /\ ~SlotsFull(k)
  /\ \/ /\ strategy = "token_bucket"
        /\ lastRefill' = [lastRefill EXCEPT ![k] = Stamp(@)]
        /\ UNCHANGED windowStart
     \/ /\ strategy = "fixed_window"
        /\ windowStart' = [windowStart EXCEPT ![k] = Stamp(@)]
        /\ UNCHANGED lastRefill
  /\ UNCHANGED <<strategy, now, callHistory, tokens, windowCalls, concurrent,
                 slotOf, grants, resets, disturbed>>

(* What the strategy's check stores; `granted` says whether the call is    *)
(* recorded as well.                                                       *)
Check(k, granted) ==
  \/ /\ strategy = "sliding_window"
     /\ callHistory' = [callHistory EXCEPT ![k] =
          IF granted THEN Append(Pruned(@), now) ELSE Pruned(@)]
     /\ UNCHANGED <<tokens, lastRefill, windowCalls, windowStart>>
  \/ /\ strategy = "token_bucket"
     /\ tokens' = [tokens EXCEPT ![k] = Refilled(k) - (IF granted THEN Minute ELSE 0)]
     /\ lastRefill' = [lastRefill EXCEPT ![k] = now]
     /\ UNCHANGED <<callHistory, windowCalls, windowStart>>
  \/ /\ strategy = "fixed_window"
     /\ windowCalls' = [windowCalls EXCEPT ![k] = FixedCalls(k) + (IF granted THEN 1 ELSE 0)]
     /\ windowStart' = [windowStart EXCEPT ![k] = IF WindowDue(k) THEN now ELSE Stamp(@)]
     /\ UNCHANGED <<callHistory, tokens, lastRefill>>

Acquire(c, tool) ==
  LET k == KeyOf(tool) IN
  /\ slotOf[c] = NoKey
  /\ ~Refuses(k)
  /\ Check(k, TRUE)
  /\ concurrent' = [concurrent EXCEPT ![k] = @ + 1]
  /\ slotOf' = [slotOf EXCEPT ![c] = k]
  /\ grants' = [grants EXCEPT ![k] = Append(@, now)]
  /\ UNCHANGED <<strategy, now, resets, disturbed>>

(* RateLimitExceeded: no slot, though what the check stored stays.         *)
AcquireRefused(c, tool) ==
  LET k == KeyOf(tool) IN
  /\ slotOf[c] = NoKey
  /\ Refuses(k)
  /\ IF SlotsFull(k) THEN UNCHANGED windows ELSE Check(k, FALSE)
  /\ UNCHANGED <<strategy, now, concurrent, slotOf, grants, resets, disturbed>>

(* Slip: the last slot is kept.                                            *)
GiveBackButOne(n) == IF n > 1 THEN n - 1 ELSE n

GiveBack(n) == IF n > 0 THEN n - 1 ELSE 0

Release(c) ==
  /\ slotOf[c] # NoKey
  /\ concurrent' = [concurrent EXCEPT ![slotOf[c]] = GiveBack(@)]
  /\ slotOf' = [slotOf EXCEPT ![c] = NoKey]
  /\ UNCHANGED <<strategy, now, windows, grants, resets, disturbed>>

Holders(k) == {c \in Callers : slotOf[c] = k}

(* reset: of one tool's key, whose clocks start now, or of every key,      *)
(* whose clocks start when they are next looked at.                        *)
Reset(cleared, start) ==
  /\ resets < MaxResets
  /\ callHistory' = [k \in Keys |-> IF k \in cleared THEN <<>> ELSE callHistory[k]]
  /\ tokens' = [k \in Keys |-> IF k \in cleared THEN PerMinute * Minute ELSE tokens[k]]
  /\ lastRefill' = [k \in Keys |-> IF k \in cleared THEN start ELSE lastRefill[k]]
  /\ windowCalls' = [k \in Keys |-> IF k \in cleared THEN 0 ELSE windowCalls[k]]
  /\ windowStart' = [k \in Keys |-> IF k \in cleared THEN start ELSE windowStart[k]]
  /\ concurrent' = [k \in Keys |-> IF k \in cleared THEN 0 ELSE concurrent[k]]
  /\ grants' = [k \in Keys |-> IF k \in cleared THEN <<>> ELSE grants[k]]
  /\ resets' = resets + 1
  /\ disturbed' = disturbed \cup {k \in cleared : Holders(k) # {}}
  /\ UNCHANGED <<strategy, now, slotOf>>

ResetTool(tool) == Reset({KeyOf(tool)}, now)
ResetAll == Reset(Keys, Never)

(* Time passes; stamps older than the hour leave the history variable.     *)
Tick ==
  /\ now < MaxTime
  /\ now' = now + 1
  /\ grants' = [k \in Keys |-> Since(grants[k], now' - Hour)]
  /\ UNCHANGED <<strategy, windows, concurrent, slotOf, resets, disturbed>>

Next ==
  \/ \E tool \in Tools : Peek(tool)
  \/ \E c \in Callers, tool \in Tools : Acquire(c, tool)
  \/ \E c \in Callers, tool \in Tools : AcquireRefused(c, tool)
  \/ \E c \in Callers : Release(c)
  \/ \E tool \in Tools : ResetTool(tool)
  \/ ResetAll
  \/ Tick

Spec == Init /\ [][Next]_vars
-----------------------------------------------------------------------------
(* Properties.                                                             *)

(* Every variable has the shape the limiter gives it.                      *)
TypeOK ==
  /\ strategy \in Strategies
  /\ now \in Nat
  /\ callHistory \in [Keys -> Seq(Nat)]
  /\ tokens \in [Keys -> Nat]
  /\ lastRefill \in [Keys -> Nat \cup {Never}]
  /\ windowCalls \in [Keys -> Nat]
  /\ windowStart \in [Keys -> Nat \cup {Never}]
  /\ concurrent \in [Keys -> Nat]
  /\ slotOf \in [Callers -> Keys \cup {NoKey}]
  /\ grants \in [Keys -> Seq(Nat)]
  /\ resets \in Nat
  /\ disturbed \subseteq Keys

(* The peek answers what `acquire` would, though they count differently:   *)
(* the executor relies on it both ways, to refuse before validating and    *)
(* never to refuse a call that it has validated.                           *)
PeekAgreesWithAcquire == \A k \in Keys : WouldExceed(k) <=> Refuses(k)

(* A full bucket, or the larger allowance it may start with.               *)
Room == IF Burst > PerMinute THEN Burst ELSE PerMinute

GrantsSince(k, t) == Cardinality({i \in DOMAIN grants[k] : grants[k][i] >= t})

(* How many calls of a key the strategies really let through: the sliding  *)
(* window no more than its limits in any minute and hour, the fixed window *)
(* at most two windows' worth in a minute, the bucket a full bucket and a  *)
(* minute's refill.                                                        *)
RateBounded ==
  \A k \in Keys :
    LET minute == GrantsSince(k, now - Minute)
    IN  CASE strategy = "sliding_window" ->
               minute <= PerMinute /\ GrantsSince(k, now - Hour) <= PerHour
          [] strategy = "fixed_window" -> minute <= 2 * PerMinute
          [] strategy = "token_bucket" -> minute <= Room + PerMinute

(* The counter never says more than the slots callers hold, so no reset    *)
(* and no late release can shut a key for good, and it says exactly that   *)
(* many unless the key was reset under its callers.                        *)
SlotsCounted ==
  \A k \in Keys :
    /\ concurrent[k] <= Cardinality(Holders(k))
    /\ k \notin disturbed => concurrent[k] = Cardinality(Holders(k))

(* How many more calls each strategy would let through at this moment.     *)
Free(k) ==
  CASE strategy = "sliding_window" ->
         LET h == Pruned(callHistory[k])
         IN  Least(PerHour - Len(h), PerMinute - Recent(h))
    [] strategy = "fixed_window" -> PerMinute - FixedCalls(k)
    [] strategy = "token_bucket" -> Refilled(k) \div Minute

Promise == INSTANCE Quota WITH
  MaxCalls <- Room,
  used <- [k \in Keys |-> Room - Free(k)],
  slots <- concurrent

(* Every strategy keeps the promise of a quota.                            *)
KeepsQuota == Promise!Spec
=============================================================================
