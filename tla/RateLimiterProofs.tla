-------------------------- MODULE RateLimiterProofs ---------------------------
(***************************************************************************)
(* RateLimiter for any callers, tools, keys, limits and clock: the slots   *)
(* counted, the calls let through, the peek and the quota.                 *)
(*                                                                         *)
(* The arguments.  Slots: a reset puts a counter below the number of its   *)
(* holders, and from then on each step moves both by one, except that the  *)
(* counter stays at zero while late holders give their slots back.  Until  *)
(* a reset under a holder the two are equal.                               *)
(*                                                                         *)
(* Rates: everything is counted as stamps since some time.  Recorded       *)
(* stamps are in order, so that dropping from the front and counting from  *)
(* the back find just the stamps since a time.  A sliding window records   *)
(* every grant it still counts.  A fixed window counts its own grants, and *)
(* no more than another window's were let through in the minute before it. *)
(* A bucket trades grants for tokens: what was let through since any time, *)
(* with what is left, is at most a full bucket and the refill since then.  *)
(***************************************************************************)
EXTENDS RateLimiter, FiniteSetTheorems, SequenceTheorems, WellFoundedInduction, TLAPS

-----------------------------------------------------------------------------
(* Stamps since a time                                                     *)

Count(h, t) == Cardinality({i \in DOMAIN h : h[i] >= t})

Ordered(h) == \A i, j \in DOMAIN h : i <= j => h[i] <= h[j]

LEMMA LeastNatural ==
  ASSUME NEW T \in SUBSET Nat, T # {}
  PROVE  \E n \in T : \A m \in T : n <= m
<1> DEFINE R == {p \in Nat \X Nat : p[1] < p[2]}
<1>1. IsWellFoundedOn(R, Nat)
  BY NatLessThanWellFounded DEF OpToRel
<1>2. \A m, n \in Nat : <<m, n>> \in R <=> m < n
  OBVIOUS
<1> HIDE DEF R
<1>3. \E n \in T : \A m \in T : ~ (<<m, n>> \in R)
  BY <1>1, WFMin
<1>4. PICK n \in T : \A m \in T : ~ (<<m, n>> \in R)
  BY <1>3
<1>5. ASSUME NEW m \in T PROVE n <= m
  <2>1. ~ (m < n)
    BY <1>2, <1>4
  <2>2. QED
    BY <2>1
<1>6. QED
  BY <1>5

LEMMA IntervalSize ==
  ASSUME NEW n \in Nat
  PROVE  IsFiniteSet(1 .. n) /\ Cardinality(1 .. n) = n
BY FS_Interval

LEMMA CountType ==
  ASSUME NEW h \in Seq(Nat), NEW t \in Int
  PROVE  /\ IsFiniteSet({i \in DOMAIN h : h[i] >= t})
         /\ Count(h, t) \in Nat
         /\ Count(h, t) <= Len(h)
<1>1. Len(h) \in Nat /\ DOMAIN h = 1 .. Len(h)
  OBVIOUS
<1>2. IsFiniteSet(1 .. Len(h)) /\ Cardinality(1 .. Len(h)) = Len(h)
  BY <1>1, IntervalSize
<1>3. {i \in DOMAIN h : h[i] >= t} \subseteq 1 .. Len(h)
  BY <1>1
<1>4. QED
  BY <1>2, <1>3, FS_Subset, FS_CardinalityType DEF Count

LEMMA CountMonotone ==
  ASSUME NEW h \in Seq(Nat), NEW t \in Int, NEW u \in Int, t <= u
  PROVE  Count(h, u) <= Count(h, t)
<1>1. {i \in DOMAIN h : h[i] >= u} \subseteq {i \in DOMAIN h : h[i] >= t}
  OBVIOUS
<1>2. QED
  BY <1>1, CountType, FS_Subset DEF Count

LEMMA CountOfNone ==
  ASSUME NEW h \in Seq(Nat), NEW t \in Int, \A i \in DOMAIN h : h[i] < t
  PROVE  Count(h, t) = 0
<1>1. {i \in DOMAIN h : h[i] >= t} = {}
  OBVIOUS
<1>2. QED
  BY <1>1, FS_EmptySet DEF Count

LEMMA CountAppend ==
  ASSUME NEW h \in Seq(Nat), NEW x \in Nat, NEW t \in Int
  PROVE  Count(Append(h, x), t) = Count(h, t) + (IF x >= t THEN 1 ELSE 0)
<1> DEFINE old == {i \in DOMAIN h : h[i] >= t}
           new == {i \in DOMAIN Append(h, x) : Append(h, x)[i] >= t}
           last == Len(h) + 1
<1>1. last \notin old
  OBVIOUS
<1>2. new = IF x >= t THEN old \cup {last} ELSE old
  OBVIOUS
<1>3. IsFiniteSet(old) /\ Cardinality(old) \in Nat
  BY CountType DEF Count
<1>4. Cardinality(old \cup {last}) = Cardinality(old) + 1
  BY <1>1, <1>3, FS_AddElement
<1>5. /\ x >= t => Cardinality(new) = Cardinality(old) + 1
      /\ ~ (x >= t) => new = old
  BY <1>2, <1>4
<1>6. Count(Append(h, x), t) = Cardinality(new) /\ Count(h, t) = Cardinality(old)
  BY DEF Count
<1> HIDE DEF old, new
<1>7. QED
  BY <1>3, <1>5, <1>6

(* What Since leaves is a suffix, and nothing since t is lost.             *)
LEMMA SinceIsSuffix ==
  ASSUME NEW h \in Seq(Nat), NEW t \in Int
  PROVE  \E m \in 0 .. Len(h) :
           /\ \A i \in 1 .. m : h[i] < t
           /\ m < Len(h) => h[m + 1] >= t
           /\ Since(h, t) \in Seq(Nat)
           /\ Len(Since(h, t)) = Len(h) - m
           /\ DOMAIN Since(h, t) = 1 .. Len(h) - m
           /\ \A i \in 1 .. Len(h) - m : Since(h, t)[i] = h[m + i]
<1> DEFINE stale == {i \in DOMAIN h : \A j \in 1 .. i : h[j] < t}
           stops == {i \in 1 .. Len(h) + 1 : i = Len(h) + 1 \/ h[i] >= t}
<1>0. Len(h) \in Nat /\ Len(h) + 1 \in stops
  OBVIOUS
<1>1. stops \in SUBSET Nat /\ stops # {}
  BY <1>0
<1>2. PICK x \in stops : \A y \in stops : x <= y
  BY <1>1, LeastNatural
<1>3. \A i \in 1 .. x - 1 : h[i] < t
  BY <1>2
<1>4. stale = 1 .. x - 1
  <2>1. ASSUME NEW i \in 1 .. x - 1 PROVE i \in stale
    BY <1>3
  <2>2. ASSUME NEW i \in stale PROVE i \in 1 .. x - 1
    <3>1. CASE x = Len(h) + 1
      BY <3>1
    <3>2. CASE x # Len(h) + 1
      <4>1. h[x] >= t /\ x \in Nat /\ i \in Nat /\ h[x] \in Nat
        BY <1>2, <3>2
      <4>2. ~ (x <= i)
        BY <1>2, <4>1
      <4>3. QED
        BY <4>1, <4>2
    <3>3. QED
      BY <3>1, <3>2
  <2>3. QED
    BY <2>1, <2>2
<1>5. Cardinality(stale) = x - 1
  <2>1. x - 1 \in Nat
    BY <1>0, <1>2
  <2>2. Cardinality(1 .. x - 1) = x - 1
    BY <2>1, FS_Interval
  <2>3. QED
    BY <1>4, <2>2
<1>6. Since(h, t) = SubSeq(h, x, Len(h))
  <2>1. Since(h, t) = SubSeq(h, Cardinality(stale) + 1, Len(h))
    BY DEF Since
  <2>2. Cardinality(stale) + 1 = x
    BY <1>0, <1>2, <1>5
  <2>3. QED
    BY <2>1, <2>2
<1>7. /\ SubSeq(h, x, Len(h)) \in Seq(Nat)
      /\ Len(SubSeq(h, x, Len(h))) = IF x <= Len(h) THEN Len(h) - x + 1 ELSE 0
      /\ \A i \in 1 .. Len(h) - x + 1 : SubSeq(h, x, Len(h))[i] = h[x + i - 1]
  BY <1>2, SubSeqProperties
<1>8. x - 1 \in 0 .. Len(h)
  BY <1>0, <1>2
<1>9. /\ x - 1 < Len(h) => h[x - 1 + 1] >= t
      /\ Since(h, t) \in Seq(Nat)
      /\ Len(Since(h, t)) = Len(h) - (x - 1)
      /\ \A i \in 1 .. Len(h) - (x - 1) : Since(h, t)[i] = h[x - 1 + i]
  BY <1>0, <1>2, <1>6, <1>7
<1>10. DOMAIN Since(h, t) = 1 .. Len(h) - (x - 1)
  BY <1>9, LenProperties
<1>11. QED
  BY <1>3, <1>8, <1>9, <1>10

LEMMA SinceType ==
  ASSUME NEW h \in Seq(Nat), NEW t \in Int
  PROVE  Since(h, t) \in Seq(Nat)
BY SinceIsSuffix

LEMMA CountSince ==
  ASSUME NEW h \in Seq(Nat), NEW t \in Int, NEW u \in Int
  PROVE  /\ Count(Since(h, u), t) <= Count(h, t)
         /\ u <= t => Count(Since(h, u), t) = Count(h, t)
<1> DEFINE g == Since(h, u)
           left == {i \in DOMAIN g : g[i] >= t}
           all == {i \in DOMAIN h : h[i] >= t}
<1>1. PICK m \in 0 .. Len(h) :
        /\ \A i \in 1 .. m : h[i] < u
        /\ g \in Seq(Nat)
        /\ Len(g) = Len(h) - m
        /\ DOMAIN g = 1 .. Len(h) - m
        /\ \A i \in 1 .. Len(h) - m : g[i] = h[m + i]
  BY SinceIsSuffix
<1> HIDE DEF g
<1> DEFINE shift == [i \in left |-> m + i]
<1>2. \A i \in left : m + i \in all
  <2>1. ASSUME NEW i \in left PROVE m + i \in all
    <3>1. i \in 1 .. Len(h) - m /\ g[i] >= t
      BY <1>1
    <3>2. Len(h) \in Nat
      OBVIOUS
    <3>3. g[i] = h[m + i]
      BY <1>1, <3>1
    <3>4. m + i \in 1 .. Len(h)
      BY <3>1, <3>2
    <3>5. QED
      BY <3>1, <3>3, <3>4
  <2>2. QED
    BY <2>1
<1>3. shift \in Injection(left, all)
  <2>1. shift \in [left -> all]
    BY <1>2
  <2>2. \A i, j \in left : shift[i] = shift[j] => i = j
    BY <1>1
  <2>3. QED
    BY <2>1, <2>2 DEF Injection, IsInjective
<1>4. IsFiniteSet(all)
  BY CountType
<1>5. /\ Cardinality(left) <= Cardinality(all)
      /\ Cardinality(left) = Cardinality(all) <=> shift \in Surjection(left, all)
  <2> HIDE DEF shift, left, all
  <2>1. QED
    BY <1>3, <1>4, FS_Injection
<1>6. ASSUME u <= t PROVE shift \in Surjection(left, all)
  <2>1. ASSUME NEW i \in all PROVE \E j \in left : shift[j] = i
    <3>1. i \in 1 .. Len(h) /\ h[i] >= t /\ h[i] \in Nat
      OBVIOUS
    <3>2. i > m
      BY <1>1, <1>6, <3>1
    <3>3. i - m \in 1 .. Len(h) - m /\ m + (i - m) = i
      BY <3>1, <3>2
    <3>4. g[i - m] = h[i] /\ i - m \in 1 .. Len(g)
      BY <1>1, <3>3
    <3>5. i - m \in left
      BY <1>1, <3>1, <3>4
    <3>6. QED
      BY <3>3, <3>5
  <2>2. shift \in [left -> all]
    BY <1>2
  <2>3. QED
    BY <2>1, <2>2 DEF Surjection
<1>7. QED
  BY <1>5, <1>6 DEF Count, g

(* Dropping stale stamps leaves ordered ones ordered, all of them recent.  *)
LEMMA SinceOrdered ==
  ASSUME NEW h \in Seq(Nat), NEW t \in Int, Ordered(h)
  PROVE  /\ Ordered(Since(h, t))
         /\ \A i \in DOMAIN Since(h, t) : \E j \in DOMAIN h : Since(h, t)[i] = h[j]
         /\ Len(Since(h, t)) = Count(h, t)
<1> DEFINE g == Since(h, t)
<1>1. PICK m \in 0 .. Len(h) :
        /\ \A i \in 1 .. m : h[i] < t
        /\ m < Len(h) => h[m + 1] >= t
        /\ g \in Seq(Nat)
        /\ Len(g) = Len(h) - m
        /\ DOMAIN g = 1 .. Len(h) - m
        /\ \A i \in 1 .. Len(h) - m : g[i] = h[m + i]
  BY SinceIsSuffix
<1> HIDE DEF g
<1>2. ASSUME NEW i \in DOMAIN g PROVE m + i \in DOMAIN h /\ g[i] = h[m + i]
  <2>1. i \in 1 .. Len(h) - m
    BY <1>1
  <2>2. m + i \in 1 .. Len(h) /\ DOMAIN h = 1 .. Len(h)
    BY <2>1
  <2>3. QED
    BY <1>1, <2>1, <2>2
<1>3. Ordered(g)
  BY <1>1, <1>2 DEF Ordered
<1>4. ASSUME NEW i \in DOMAIN g PROVE g[i] >= t
  <2>1. i \in 1 .. Len(h) - m /\ m < Len(h)
    BY <1>1
  <2>2. /\ h[m + 1] >= t /\ m + 1 \in DOMAIN h /\ m + 1 <= m + i
        /\ m + i \in DOMAIN h
    BY <1>1, <1>2, <2>1
  <2>3. h[m + 1] <= h[m + i] /\ h[m + 1] \in Nat /\ h[m + i] \in Nat
    BY <2>2 DEF Ordered
  <2>4. QED
    BY <1>2, <2>2, <2>3
<1>5. {i \in DOMAIN g : g[i] >= t} = 1 .. Len(g)
  BY <1>1, <1>4
<1>6. Count(g, t) = Len(g)
  <2>1. Len(g) \in Nat
    BY <1>1
  <2>2. Cardinality(1 .. Len(g)) = Len(g)
    BY <2>1, IntervalSize
  <2>3. QED
    BY <1>5, <2>2 DEF Count
<1>7. Count(g, t) = Count(h, t)
  BY CountSince DEF g
<1>8. QED
  BY <1>2, <1>3, <1>6, <1>7 DEF g

-----------------------------------------------------------------------------
(* The invariant                                                           *)

(* Recorded stamps are in order, and no clock is ahead of the time.        *)
Recorded ==
  \A k \in Keys :
    /\ Ordered(callHistory[k])
    /\ \A i \in DOMAIN callHistory[k] : callHistory[k][i] <= now
    /\ lastRefill[k] <= now
    /\ windowStart[k] <= now

SlidingKept(k) ==
  /\ Count(callHistory[k], now - Hour) <= PerHour
  /\ Count(callHistory[k], now - Minute) <= PerMinute
  /\ \A t \in Int : t >= now - Hour => Count(grants[k], t) <= Count(callHistory[k], t)

FixedKept(k) ==
  /\ windowCalls[k] <= PerMinute
  /\ IF windowStart[k] = Never THEN grants[k] = <<>>
     ELSE /\ Count(grants[k], windowStart[k] + Minute) = 0
          /\ Count(grants[k], windowStart[k]) <= windowCalls[k]
          /\ Count(grants[k], windowStart[k] - Minute) <= windowCalls[k] + PerMinute

(* What was let through since t and is left, in grains.                    *)
Spent(k, t) == Minute * Count(grants[k], t) + tokens[k]

BucketKept(k) ==
  IF lastRefill[k] = Never THEN grants[k] = <<>> /\ tokens[k] <= Room * Minute
  ELSE \A t \in Int :
         IF t > lastRefill[k] THEN Count(grants[k], t) = 0
         ELSE Spent(k, t) <= Room * Minute + (lastRefill[k] - t) * PerMinute

WindowKept(k) ==
  /\ strategy = "sliding_window" => SlidingKept(k)
  /\ strategy = "fixed_window" => FixedKept(k)
  /\ strategy = "token_bucket" => BucketKept(k)

RateInv == TypeOK /\ Recorded /\ \A k \in Keys : WindowKept(k)

LEMMA Parameters ==
  /\ PerMinute \in Nat \ {0} /\ PerHour \in Nat \ {0} /\ MaxConcurrent \in Nat \ {0}
  /\ Minute \in Nat \ {0} /\ Hour \in Nat \ {0} /\ Minute <= Hour
  /\ Burst \in Nat /\ Room \in Nat \ {0} /\ Capacity \in Nat \ {0}
  /\ PerMinute <= Room /\ Capacity <= Room
  /\ strategy \in Strategies =>
       strategy \in {"sliding_window", "token_bucket", "fixed_window"}
<1>1. /\ PerMinute \in Nat \ {0} /\ PerHour \in Nat \ {0} /\ MaxConcurrent \in Nat \ {0}
      /\ Minute \in Nat \ {0} /\ Hour \in Nat \ {0} /\ Minute <= Hour
      /\ Burst \in Nat
  BY LimiterAssumption
<1>2. /\ Room \in Nat \ {0} /\ Capacity \in Nat \ {0}
      /\ PerMinute <= Room /\ Capacity <= Room
  BY <1>1 DEF Room, Capacity
<1>3. QED
  BY <1>1, <1>2, LimiterAssumption

LEMMA CountOfEmpty ==
  ASSUME NEW t \in Int
  PROVE  Count(<<>>, t) = 0
<1>1. <<>> \in Seq(Nat) /\ \A i \in DOMAIN <<>> : <<>>[i] < t
  OBVIOUS
<1>2. QED
  BY <1>1, CountOfNone

LEMMA StampType ==
  ASSUME TypeOK, Recorded, NEW k \in Keys
  PROVE  /\ Stamp(lastRefill[k]) \in 0 .. now
         /\ Stamp(windowStart[k]) \in 0 .. now
BY DEF TypeOK, Recorded, Stamp, Never

(* Refilling a bucket adds the ticks since the last time and never more    *)
(* than the bucket holds.                                                  *)
LEMMA RefilledBounds ==
  ASSUME TypeOK, Recorded, NEW k \in Keys
  PROVE  /\ Refilled(k) \in Nat
         /\ Refilled(k) <= Capacity * Minute
         /\ Refilled(k) <= tokens[k] + (now - Stamp(lastRefill[k])) * PerMinute
<1>1. now - Stamp(lastRefill[k]) \in Nat
  BY StampType DEF TypeOK
<1>2. (now - Stamp(lastRefill[k])) * PerMinute \in Nat /\ Capacity * Minute \in Nat
  BY <1>1, Parameters
<1>3. tokens[k] \in Nat
  BY DEF TypeOK
<1>4. QED
  BY <1>2, <1>3 DEF Refilled, Least

LEMMA FixedCallsType ==
  ASSUME TypeOK, NEW k \in Keys
  PROVE  FixedCalls(k) \in Nat
BY DEF TypeOK, FixedCalls

(* For ordered stamps the peek's count, acquire's pruning and acquire's    *)
(* count from the back are the same.                                       *)
LEMMA SameCounts ==
  ASSUME TypeOK, Recorded, NEW k \in Keys
  PROVE  /\ StampsSince(k, now - Hour) = Count(callHistory[k], now - Hour)
         /\ StampsSince(k, now - Minute) = Count(callHistory[k], now - Minute)
         /\ Len(Pruned(callHistory[k])) = Count(callHistory[k], now - Hour)
         /\ Recent(Pruned(callHistory[k])) = Count(callHistory[k], now - Minute)
<1> DEFINE h == callHistory[k]
           g == Since(h, now - Hour)
<1>1. h \in Seq(Nat) /\ Ordered(h) /\ now \in Nat
  BY DEF TypeOK, Recorded
<1>2. now - Hour \in Int /\ now - Minute \in Int /\ now - Hour <= now - Minute
  BY <1>1, Parameters
<1> HIDE DEF h
<1>3. g \in Seq(Nat) /\ Ordered(g) /\ Len(g) = Count(h, now - Hour)
  BY <1>1, <1>2, SinceType, SinceOrdered
<1>4. Count(g, now - Minute) = Count(h, now - Minute)
  BY <1>1, <1>2, CountSince
<1> HIDE DEF g
<1>5. {i \in DOMAIN g : \A j \in i .. Len(g) : g[j] >= now - Minute}
        = {i \in DOMAIN g : g[i] >= now - Minute}
  <2>1. ASSUME NEW i \in DOMAIN g, g[i] >= now - Minute, NEW j \in i .. Len(g)
        PROVE  g[j] >= now - Minute
    <3>1. j \in DOMAIN g /\ i <= j /\ g[i] \in Nat /\ g[j] \in Nat
      BY <1>3, <2>1
    <3>2. g[i] <= g[j]
      BY <1>3, <3>1 DEF Ordered
    <3>3. QED
      BY <1>2, <2>1, <3>1, <3>2
  <2>2. ASSUME NEW i \in DOMAIN g, \A j \in i .. Len(g) : g[j] >= now - Minute
        PROVE  g[i] >= now - Minute
    <3>1. i \in i .. Len(g)
      BY <1>3
    <3>2. QED
      BY <2>2, <3>1
  <2>3. QED
    BY <2>1, <2>2
<1>6. Recent(g) = Count(g, now - Minute)
  BY <1>5 DEF Recent, Count
<1>7. Pruned(h) = g
  BY DEF Pruned, g
<1>8. QED
  BY <1>3, <1>4, <1>6, <1>7 DEF StampsSince, Count, h

(* A call is refused for want of room, in the same terms.                  *)
LEMMA RefusedMeans ==
  ASSUME TypeOK, Recorded, NEW k \in Keys
  PROVE  /\ SlidingFull(k) <=> \/ Count(callHistory[k], now - Hour) >= PerHour
                               \/ Count(callHistory[k], now - Minute) >= PerMinute
         /\ FixedCalls(k) >= PerMinute <=> ~ WindowDue(k) /\ windowCalls[k] >= PerMinute
<1>1. SlidingFull(k) <=> \/ Count(callHistory[k], now - Hour) >= PerHour
                         \/ Count(callHistory[k], now - Minute) >= PerMinute
  BY SameCounts DEF SlidingFull
<1>2. FixedCalls(k) >= PerMinute <=> ~ WindowDue(k) /\ windowCalls[k] >= PerMinute
  BY Parameters DEF FixedCalls
<1>3. QED
  BY <1>1, <1>2

LEMMA PeekAgrees == TypeOK /\ Recorded => PeekAgreesWithAcquire
<1> SUFFICES ASSUME TypeOK, Recorded, NEW k \in Keys
             PROVE  WouldExceed(k) <=> Refuses(k)
  BY DEF PeekAgreesWithAcquire
<1>1. SlidingFull(k) <=> \/ StampsSince(k, now - Hour) >= PerHour
                         \/ StampsSince(k, now - Minute) >= PerMinute
  BY RefusedMeans, SameCounts
<1>2. QED
  BY <1>1, RefusedMeans DEF WouldExceed, Refuses

-----------------------------------------------------------------------------
(* Its preservation                                                        *)

LEMMA SinceOfEmpty ==
  ASSUME NEW t \in Int
  PROVE  Since(<<>>, t) = <<>>
<1>1. <<>> \in Seq(Nat) /\ Len(<<>>) = 0
  OBVIOUS
<1>2. PICK m \in 0 .. Len(<<>>) : /\ Since(<<>>, t) \in Seq(Nat)
                                 /\ Len(Since(<<>>, t)) = Len(<<>>) - m
  BY <1>1, SinceIsSuffix
<1>3. Len(Since(<<>>, t)) = 0
  BY <1>1, <1>2
<1>4. QED
  BY <1>2, <1>3, EmptySeq

LEMMA OrderedAppend ==
  ASSUME NEW h \in Seq(Nat), NEW x \in Nat, Ordered(h), \A i \in DOMAIN h : h[i] <= x
  PROVE  /\ Ordered(Append(h, x))
         /\ \A i \in DOMAIN Append(h, x) : Append(h, x)[i] <= x
<1> DEFINE g == Append(h, x)
<1>1. /\ DOMAIN g = 1 .. Len(h) + 1
      /\ \A i \in 1 .. Len(h) : i \in DOMAIN h /\ g[i] = h[i] /\ h[i] \in Nat
      /\ g[Len(h) + 1] = x
  OBVIOUS
<1> HIDE DEF g
<1>2. \A i \in DOMAIN g : g[i] <= x
  BY <1>1
<1>3. ASSUME NEW i \in DOMAIN g, NEW j \in DOMAIN g, i <= j PROVE g[i] <= g[j]
  <2>1. CASE j = Len(h) + 1
    BY <1>1, <1>2, <2>1
  <2>2. CASE j # Len(h) + 1
    <3>1. i \in 1 .. Len(h) /\ j \in 1 .. Len(h)
      BY <1>1, <1>3, <2>2
    <3>2. QED
      BY <1>1, <1>3, <3>1 DEF Ordered
  <2>3. QED
    BY <2>1, <2>2
<1>4. QED
  BY <1>2, <1>3 DEF Ordered, g

(* A key whose windows and grants stay as they were.                       *)
LEMMA KeyUnmoved ==
  ASSUME NEW k \in Keys, WindowKept(k), strategy' = strategy, now' = now,
         callHistory'[k] = callHistory[k], tokens'[k] = tokens[k],
         lastRefill'[k] = lastRefill[k], windowCalls'[k] = windowCalls[k],
         windowStart'[k] = windowStart[k], grants'[k] = grants[k]
  PROVE  WindowKept(k)'
BY DEF WindowKept, SlidingKept, FixedKept, BucketKept, Spent

Granted(k, granted) ==
  grants'[k] = IF granted THEN Append(grants[k], now) ELSE grants[k]

LEMMA CountGranted ==
  ASSUME TypeOK, NEW k \in Keys, NEW granted \in BOOLEAN, Granted(k, granted), NEW t \in Int
  PROVE  /\ Count(grants[k], t) \in Nat
         /\ Count(grants'[k], t) =
              Count(grants[k], t) + (IF granted /\ now >= t THEN 1 ELSE 0)
<1>1. grants[k] \in Seq(Nat) /\ now \in Nat
  BY DEF TypeOK
<1>2. Count(grants[k], t) \in Nat
  BY <1>1, CountType
<1>3. CASE granted
  BY <1>1, <1>2, <1>3, CountAppend DEF Granted
<1>4. CASE ~ granted
  BY <1>2, <1>4 DEF Granted
<1>5. QED
  BY <1>2, <1>3, <1>4

LEMMA SlidingChecked ==
  ASSUME TypeOK, Recorded, NEW k \in Keys, SlidingKept(k), NEW granted \in BOOLEAN,
         granted => ~ SlidingFull(k), Granted(k, granted), now' = now,
         callHistory'[k] = IF granted THEN Append(Pruned(callHistory[k]), now)
                           ELSE Pruned(callHistory[k])
  PROVE  /\ callHistory'[k] \in Seq(Nat) /\ Ordered(callHistory'[k])
         /\ \A i \in DOMAIN callHistory'[k] : callHistory'[k][i] <= now
         /\ SlidingKept(k)'
<1> DEFINE h == callHistory[k]
           g == Pruned(h)
           one == IF granted THEN 1 ELSE 0
<1>1. h \in Seq(Nat) /\ now \in Nat /\ now - Hour \in Int /\ now - Minute \in Int
      /\ now - Hour <= now - Minute /\ now - Minute <= now
  BY Parameters DEF TypeOK
<1>2. Ordered(h) /\ \A i \in DOMAIN h : h[i] <= now
  BY DEF Recorded
<1>3. g \in Seq(Nat) /\ Ordered(g)
  BY <1>1, <1>2, SinceType, SinceOrdered DEF Pruned
<1>4. \A i \in DOMAIN g : g[i] <= now
  BY <1>1, <1>2, SinceOrdered DEF Pruned
<1>5. ASSUME NEW t \in Int, t >= now - Hour PROVE Count(g, t) = Count(h, t)
  BY <1>1, <1>5, CountSince DEF Pruned
<1>6. ASSUME NEW t \in Int, t >= now - Hour
      PROVE  Count(callHistory'[k], t) = Count(h, t) + (IF granted /\ now >= t THEN 1 ELSE 0)
  <2>1. Count(h, t) \in Nat
    BY <1>1, CountType
  <2>2. CASE granted
    BY <1>1, <1>3, <1>5, <1>6, <2>2, CountAppend
  <2>3. CASE ~ granted
    BY <1>5, <1>6, <2>1, <2>3
  <2>4. QED
    BY <2>2, <2>3
<1>7. /\ Count(h, now - Hour) <= PerHour /\ Count(h, now - Minute) <= PerMinute
      /\ granted => Count(h, now - Hour) < PerHour /\ Count(h, now - Minute) < PerMinute
  <2>1. /\ Count(h, now - Hour) \in Nat /\ Count(h, now - Minute) \in Nat
        /\ PerHour \in Nat /\ PerMinute \in Nat
    BY <1>1, CountType, Parameters
  <2>2. QED
    BY <2>1, RefusedMeans DEF SlidingKept
<1>8. Count(callHistory'[k], now - Hour) <= PerHour
      /\ Count(callHistory'[k], now - Minute) <= PerMinute
  <2>1. /\ Count(h, now - Hour) \in Nat /\ Count(h, now - Minute) \in Nat
        /\ PerHour \in Nat /\ PerMinute \in Nat
    BY <1>1, CountType, Parameters
  <2>2. /\ Count(callHistory'[k], now - Hour) = Count(h, now - Hour) + one
        /\ Count(callHistory'[k], now - Minute) = Count(h, now - Minute) + one
    BY <1>1, <1>6
  <2>3. QED
    BY <1>7, <2>1, <2>2
<1>9. ASSUME NEW t \in Int, t >= now - Hour
      PROVE  Count(grants'[k], t) <= Count(callHistory'[k], t)
  <2>1. Count(h, t) \in Nat /\ Count(grants[k], t) \in Nat
    BY <1>1, CountType, CountGranted
  <2>2. Count(grants[k], t) <= Count(h, t)
    BY <1>9 DEF SlidingKept
  <2>3. QED
    BY <1>6, <1>9, <2>1, <2>2, CountGranted
<1>10. callHistory'[k] \in Seq(Nat) /\ Ordered(callHistory'[k])
       /\ \A i \in DOMAIN callHistory'[k] : callHistory'[k][i] <= now
  BY <1>1, <1>3, <1>4, OrderedAppend
<1>11. QED
  BY <1>8, <1>9, <1>10 DEF SlidingKept

LEMMA FixedChecked ==
  ASSUME TypeOK, Recorded, NEW k \in Keys, FixedKept(k), NEW granted \in BOOLEAN,
         granted <=> FixedCalls(k) < PerMinute, Granted(k, granted), now' = now,
         windowCalls'[k] = FixedCalls(k) + (IF granted THEN 1 ELSE 0),
         windowStart'[k] = IF WindowDue(k) THEN now ELSE Stamp(windowStart[k])
  PROVE  FixedKept(k)'
<1> DEFINE start == windowStart[k]
           C(t) == Count(grants[k], t)
           one == IF granted THEN 1 ELSE 0
<1>1. /\ now \in Nat /\ Minute \in Nat \ {0} /\ PerMinute \in Nat \ {0}
      /\ windowCalls[k] \in Nat /\ windowCalls[k] <= PerMinute
      /\ FixedCalls(k) \in Nat /\ start \in Nat \cup {Never} /\ start <= now
      /\ grants[k] \in Seq(Nat)
  BY Parameters, FixedCallsType DEF TypeOK, Recorded, FixedKept
<1>2. windowCalls'[k] <= PerMinute /\ windowCalls'[k] >= one /\ windowStart'[k] \in 0 .. now
  BY <1>1, StampType, RefusedMeans DEF FixedCalls
<1>0. now \in Int /\ Minute \in Int /\ (start # Never => start \in Int)
  BY <1>1
<1>3. \A t \in Int : C(t) \in Nat
  BY CountGranted
<1>4. \A t \in Int : Count(grants'[k], t) = C(t) + (IF granted /\ now >= t THEN 1 ELSE 0)
  BY CountGranted
<1>5. \A t, u \in Int : t <= u => C(u) <= C(t)
  BY <1>1, CountMonotone
<1>6. CASE start = Never
  <2>1. windowStart'[k] = now
    BY <1>1, <1>6 DEF WindowDue, Stamp
  <2>2. \A t \in Int : C(t) = 0
    BY <1>6, CountOfEmpty DEF FixedKept
  <2>3. /\ Count(grants'[k], now + Minute) = 0
        /\ Count(grants'[k], now) = one
        /\ Count(grants'[k], now - Minute) = one
    BY <1>1, <1>4, <2>2
  <2>4. /\ windowStart'[k] # Never /\ one <= windowCalls'[k] /\ one <= windowCalls'[k] + PerMinute
        /\ windowCalls'[k] <= PerMinute
    BY <1>1, <1>2, <2>1 DEF Never
  <2>5. QED
    BY <2>1, <2>3, <2>4 DEF FixedKept
<1>7. CASE start # Never /\ WindowDue(k)
  <2>1. windowStart'[k] = now /\ windowCalls'[k] = one /\ start + Minute <= now /\ start \in Nat
    BY <1>1, <1>7 DEF FixedCalls, WindowDue, Stamp
  <2>2. C(start + Minute) = 0 /\ C(start) <= windowCalls[k]
    BY <1>7 DEF FixedKept
  <2>3. C(now + Minute) = 0 /\ C(now) = 0 /\ C(now - Minute) <= PerMinute
    <3>1. C(now + Minute) <= C(start + Minute) /\ C(now) <= C(start + Minute)
          /\ C(now - Minute) <= C(start)
      BY <1>1, <1>5, <2>1
    <3>2. /\ C(now + Minute) \in Nat /\ C(now) \in Nat /\ C(now - Minute) \in Nat
          /\ C(start) \in Nat
      BY <1>0, <1>3, <1>7
    <3>3. QED
      BY <1>1, <2>2, <3>1, <3>2
  <2>4. C(now - Minute) \in Nat
    BY <1>0, <1>3
  <2>5. /\ Count(grants'[k], now + Minute) = 0
        /\ Count(grants'[k], now) = one
        /\ Count(grants'[k], now - Minute) <= PerMinute + one
    BY <1>1, <1>4, <2>3, <2>4
  <2>6. /\ windowStart'[k] # Never /\ windowStart'[k] \in Nat
        /\ windowCalls'[k] <= PerMinute
    BY <1>1, <1>2, <2>1 DEF Never
  <2>7. /\ Count(grants'[k], windowStart'[k] + Minute) = 0
        /\ Count(grants'[k], windowStart'[k]) <= windowCalls'[k]
        /\ Count(grants'[k], windowStart'[k] - Minute) <= windowCalls'[k] + PerMinute
    <3> HIDE DEF one
    <3>1. one \in Nat
      BY DEF one
    <3>2. PerMinute + one = windowCalls'[k] + PerMinute /\ one <= windowCalls'[k]
      BY <1>1, <2>1, <3>1
    <3>3. QED
      BY <2>1, <2>5, <3>2
  <2>8. QED
    BY <2>6, <2>7 DEF FixedKept
<1>8. CASE start # Never /\ ~ WindowDue(k)
  <2>1. /\ windowStart'[k] = start /\ windowCalls'[k] = windowCalls[k] + one
        /\ now < start + Minute /\ start \in Nat
    BY <1>1, <1>8 DEF FixedCalls, WindowDue, Stamp
  <2>2. /\ C(start + Minute) = 0 /\ C(start) <= windowCalls[k]
        /\ C(start - Minute) <= windowCalls[k] + PerMinute
    BY <1>8 DEF FixedKept
  <2>3. C(start) \in Nat /\ C(start - Minute) \in Nat
    BY <1>0, <1>3, <1>8
  <2>4. /\ Count(grants'[k], start + Minute) = 0
        /\ Count(grants'[k], start) = C(start) + one
        /\ Count(grants'[k], start - Minute) = C(start - Minute) + one
    <3>1. ~ (now >= start + Minute) /\ now >= start /\ now >= start - Minute
      BY <1>1, <2>1
    <3>2. start + Minute \in Int /\ start - Minute \in Int /\ start \in Int
      BY <1>0, <1>8
    <3>3. QED
      BY <1>4, <2>2, <3>1, <3>2
  <2>5. /\ windowStart'[k] # Never /\ windowCalls'[k] <= PerMinute
        /\ C(start) + one <= windowCalls'[k]
        /\ C(start - Minute) + one <= windowCalls'[k] + PerMinute
    BY <1>1, <1>2, <1>8, <2>1, <2>2, <2>3
  <2>6. QED
    BY <2>1, <2>4, <2>5 DEF FixedKept
<1>9. QED
  BY <1>6, <1>7, <1>8

LEMMA BucketChecked ==
  ASSUME TypeOK, Recorded, NEW k \in Keys, BucketKept(k), NEW granted \in BOOLEAN,
         Granted(k, granted), now' = now,
         tokens'[k] = Refilled(k) - (IF granted THEN Minute ELSE 0),
         lastRefill'[k] = now
  PROVE  BucketKept(k)'
<1> DEFINE last == lastRefill[k]
           C(t) == Count(grants[k], t)
           one == IF granted THEN 1 ELSE 0
           full == Room * Minute
<1>1. /\ now \in Nat /\ Minute \in Nat \ {0} /\ PerMinute \in Nat \ {0}
      /\ tokens[k] \in Nat /\ Refilled(k) \in Nat /\ last \in Nat \cup {Never} /\ last <= now
  BY Parameters, RefilledBounds DEF TypeOK, Recorded
<1>2. full \in Nat /\ Refilled(k) <= full
  <2>1. Capacity * Minute <= full /\ full \in Nat
    BY Parameters
  <2>2. QED
    BY <1>1, <2>1, RefilledBounds, Parameters
<1>3. ASSUME NEW t \in Int
      PROVE  /\ C(t) \in Nat
             /\ Count(grants'[k], t) = C(t) + (IF granted /\ now >= t THEN 1 ELSE 0)
  BY CountGranted
<1>4. \A t \in Int : t > now => Count(grants'[k], t) = 0
  <2>1. ASSUME NEW t \in Int, t > now PROVE C(t) = 0
    <3>1. CASE last = Never
      BY <3>1, CountOfEmpty DEF BucketKept
    <3>2. CASE last # Never
      BY <1>1, <2>1, <3>2 DEF BucketKept
    <3>3. QED
      BY <3>1, <3>2
  <2>2. QED
    BY <1>1, <1>3, <2>1
<1>5. ASSUME NEW t \in Int, t <= now
      PROVE  Minute * C(t) + Refilled(k) <= full + (now - t) * PerMinute
  <2>1. (now - t) * PerMinute \in Nat
    BY <1>1, <1>5
  <2>2. CASE C(t) = 0
    BY <1>1, <1>2, <2>1, <2>2
  <2>3. CASE C(t) # 0
    <3>1. last # Never
      BY <2>3, CountOfEmpty DEF BucketKept
    <3>2. t <= last /\ Spent(k, t) <= full + (last - t) * PerMinute
      BY <1>1, <2>3, <3>1 DEF BucketKept
    <3>3. Refilled(k) <= tokens[k] + (now - last) * PerMinute
      BY <3>1, RefilledBounds DEF Stamp
    <3>4. (now - last) * PerMinute + (last - t) * PerMinute = (now - t) * PerMinute
      BY <1>1, <3>1
    <3>5. /\ Minute * C(t) \in Int /\ (now - last) * PerMinute \in Int
          /\ (last - t) * PerMinute \in Int
      BY <1>1, <1>3, <3>1
    <3>6. QED
      BY <1>1, <1>2, <2>1, <3>2, <3>3, <3>4, <3>5 DEF Spent
  <2>4. QED
    BY <2>2, <2>3
<1>6. ASSUME NEW t \in Int, t <= now
      PROVE  Minute * Count(grants'[k], t) + tokens'[k] = Minute * C(t) + Refilled(k)
  <2>1. Count(grants'[k], t) = C(t) + one /\ C(t) \in Nat
    BY <1>1, <1>3, <1>6
  <2>2. Minute * (C(t) + one) = Minute * C(t) + (IF granted THEN Minute ELSE 0)
    BY <1>1, <2>1
  <2>3. Minute * C(t) \in Int
    BY <1>1, <2>1
  <2>4. QED
    BY <1>1, <2>1, <2>2, <2>3
<1>7. ASSUME NEW t \in Int, t <= now
      PROVE  Minute * Count(grants'[k], t) + tokens'[k] <= full + (now - t) * PerMinute
  BY <1>5, <1>6, <1>7
<1>8. now # Never
  BY <1>1 DEF Never
<1>9. \A t \in Int : IF t > now THEN Count(grants'[k], t) = 0
        ELSE Minute * Count(grants'[k], t) + tokens'[k] <= full + (now - t) * PerMinute
  BY <1>1, <1>4, <1>7
<1>10. Room' = Room
  BY DEF Room
<1>11. QED
  BY <1>8, <1>9, <1>10 DEF BucketKept, Spent

LEMMA RateInit == Init => RateInv
<1> SUFFICES ASSUME Init PROVE RateInv
  OBVIOUS
<1>1. TypeOK
  <2>1. PerMinute * Minute \in Nat
    BY Parameters
  <2>2. QED
    BY <2>1 DEF Init, TypeOK
<1>2. Recorded
  BY DEF Init, Recorded, Ordered, Never
<1>3. ASSUME NEW k \in Keys PROVE WindowKept(k)
  <2>1. \A t \in Int : Count(<<>>, t) = 0
    BY CountOfEmpty
  <2>2. callHistory[k] = <<>> /\ grants[k] = <<>> /\ now = 0
    BY <1>3 DEF Init
  <2>3. SlidingKept(k)
    <3>1. now - Hour \in Int /\ now - Minute \in Int /\ 0 <= PerHour /\ 0 <= PerMinute
      BY <2>2, Parameters
    <3>2. QED
      BY <2>1, <2>2, <3>1 DEF SlidingKept
  <2>4. FixedKept(k)
    BY Parameters, <2>2 DEF Init, FixedKept
  <2>5. BucketKept(k)
    <3>1. PerMinute * Minute <= Room * Minute
      BY Parameters
    <3>2. QED
      BY <2>2, <3>1 DEF Init, BucketKept
  <2>6. QED
    BY <2>3, <2>4, <2>5 DEF WindowKept
<1>4. QED
  BY <1>1, <1>2, <1>3 DEF RateInv

LEMMA RatePeek ==
  ASSUME RateInv, NEW tool \in Tools, Peek(tool)
  PROVE  RateInv'
<1> DEFINE key == KeyOf(tool)
<1>1. key \in Keys /\ TypeOK /\ Recorded /\ \A k \in Keys : WindowKept(k)
  BY DEF Keys, RateInv
<1>2. Stamp(lastRefill[key]) \in 0 .. now /\ Stamp(windowStart[key]) \in 0 .. now
      /\ now \in Nat
  BY <1>1, StampType DEF TypeOK
<1>3. /\ UNCHANGED <<strategy, now, callHistory, tokens, windowCalls, concurrent,
                     slotOf, grants, resets, disturbed>>
      /\ \/ /\ strategy = "token_bucket"
            /\ lastRefill' = [lastRefill EXCEPT ![key] = Stamp(@)]
            /\ windowStart' = windowStart
         \/ /\ strategy = "fixed_window"
            /\ windowStart' = [windowStart EXCEPT ![key] = Stamp(@)]
            /\ lastRefill' = lastRefill
  BY DEF Peek
<1>4. /\ lastRefill \in [Keys -> Nat \cup {Never}] /\ windowStart \in [Keys -> Nat \cup {Never}]
      /\ \A k \in Keys : lastRefill[k] <= now /\ windowStart[k] <= now
  BY <1>1 DEF TypeOK, Recorded
<1>5. /\ lastRefill' \in [Keys -> Nat \cup {Never}] /\ windowStart' \in [Keys -> Nat \cup {Never}]
      /\ \A k \in Keys : lastRefill'[k] <= now /\ windowStart'[k] <= now
  BY <1>1, <1>2, <1>3, <1>4
<1>6. TypeOK' /\ Recorded'
  BY <1>1, <1>3, <1>5 DEF TypeOK, Recorded
<1>7. ASSUME NEW k \in Keys PROVE WindowKept(k)'
  <2>1. CASE lastRefill'[k] = lastRefill[k] /\ windowStart'[k] = windowStart[k]
    BY <1>1, <1>3, <2>1, KeyUnmoved
  <2>2. CASE strategy = "token_bucket" /\ lastRefill'[k] # lastRefill[k]
    <3>1. k = key /\ lastRefill[k] = Never /\ lastRefill'[k] = now
      BY <1>1, <1>3, <1>4, <2>2 DEF Stamp
    <3>2. grants[k] = <<>> /\ tokens[k] <= Room * Minute /\ tokens[k] \in Nat
      BY <1>1, <2>2, <3>1 DEF WindowKept, BucketKept, TypeOK
    <3>3. ASSUME NEW t \in Int
          PROVE  /\ Count(grants[k], t) = 0
                 /\ t <= now => tokens[k] <= Room * Minute + (now - t) * PerMinute
      <4>1. t <= now => (now - t) * PerMinute \in Nat
        BY <1>2, Parameters
      <4>2. Room * Minute \in Nat
        BY Parameters
      <4>3. QED
        BY <3>2, <4>1, <4>2, CountOfEmpty
    <3>4. now # Never /\ \A t \in Int : t > now \/ t <= now
      BY <1>2 DEF Never
    <3>5. \A t \in Int : Spent(k, t)' = tokens[k]
      BY <1>2, <1>3, <3>2, <3>3, Parameters DEF Spent
    <3>6. Room' = Room
      BY DEF Room
    <3>7. BucketKept(k)'
      BY <1>3, <3>1, <3>3, <3>4, <3>5, <3>6 DEF BucketKept
    <3>8. QED
      BY <1>3, <2>2, <3>7 DEF WindowKept
  <2>3. CASE strategy = "fixed_window" /\ windowStart'[k] # windowStart[k]
    <3>1. k = key /\ windowStart[k] = Never /\ windowStart'[k] = now
      BY <1>1, <1>3, <1>4, <2>3 DEF Stamp
    <3>2. grants[k] = <<>> /\ windowCalls[k] <= PerMinute /\ windowCalls[k] \in Nat
      BY <1>1, <2>3, <3>1 DEF WindowKept, FixedKept, TypeOK
    <3>3. now + Minute \in Int /\ now - Minute \in Int /\ now \in Int
      BY <1>2, Parameters
    <3>4. Count(grants[k], now + Minute) = 0 /\ Count(grants[k], now) = 0
          /\ Count(grants[k], now - Minute) = 0
      BY <3>2, <3>3, CountOfEmpty
    <3>5. now # Never /\ 0 <= windowCalls[k] /\ 0 <= windowCalls[k] + PerMinute
      BY <1>2, <3>2, Parameters DEF Never
    <3>6. FixedKept(k)'
      BY <1>3, <3>1, <3>2, <3>4, <3>5 DEF FixedKept
    <3>7. QED
      BY <1>3, <2>3, <3>6 DEF WindowKept
  <2>4. QED
    BY <1>3, <2>1, <2>2, <2>3
<1>8. QED
  BY <1>6, <1>7 DEF RateInv

(* acquire, whether it lets the call through or stores only what its check *)
(* does: the same for all strategies.                                      *)
LEMMA RateCheck ==
  ASSUME RateInv, NEW key \in Keys, NEW granted \in BOOLEAN, Check(key, granted),
         ~ SlotsFull(key), granted <=> ~ Refuses(key),
         UNCHANGED <<strategy, now, resets, disturbed>>,
         grants' = IF granted THEN [grants EXCEPT ![key] = Append(@, now)] ELSE grants,
         concurrent' \in [Keys -> Nat], slotOf' \in [Callers -> Keys \cup {NoKey}]
  PROVE  RateInv'
<1>1. TypeOK /\ Recorded /\ \A k \in Keys : WindowKept(k)
  BY DEF RateInv
<1>2. now \in Nat /\ grants \in [Keys -> Seq(Nat)]
  BY <1>1 DEF TypeOK
<1>3. Granted(key, granted)
  BY <1>2 DEF Granted
<1>4. /\ grants' \in [Keys -> Seq(Nat)]
      /\ \A k \in Keys \ {key} : grants'[k] = grants[k]
  BY <1>2
<1>5. CASE strategy = "sliding_window"
  <2>1. /\ callHistory' = [callHistory EXCEPT ![key] =
             IF granted THEN Append(Pruned(@), now) ELSE Pruned(@)]
        /\ UNCHANGED <<tokens, lastRefill, windowCalls, windowStart>>
    BY <1>5 DEF Check
  <2>2. /\ callHistory'[key] \in Seq(Nat) /\ Ordered(callHistory'[key])
        /\ \A i \in DOMAIN callHistory'[key] : callHistory'[key][i] <= now
        /\ SlidingKept(key)'
    <3>1. SlidingKept(key)
      BY <1>1, <1>5 DEF WindowKept
    <3>2. granted => ~ SlidingFull(key)
      BY <1>5 DEF Refuses
    <3>3. callHistory'[key] = IF granted THEN Append(Pruned(callHistory[key]), now)
                              ELSE Pruned(callHistory[key])
      BY <1>1, <2>1 DEF TypeOK
    <3>4. QED
      BY <1>1, <1>3, <3>1, <3>2, <3>3, SlidingChecked
  <2>3. /\ callHistory' \in [Keys -> Seq(Nat)]
        /\ \A k \in Keys \ {key} : callHistory'[k] = callHistory[k]
    BY <1>1, <2>1, <2>2 DEF TypeOK
  <2>4. TypeOK'
    BY <1>1, <1>4, <2>1, <2>3 DEF TypeOK
  <2>5. Recorded'
    BY <1>1, <2>1, <2>2, <2>3 DEF Recorded
  <2>6. ASSUME NEW k \in Keys PROVE WindowKept(k)'
    <3>1. CASE k = key
      BY <1>5, <2>2, <3>1 DEF WindowKept
    <3>2. CASE k # key
      BY <1>1, <1>4, <2>1, <2>3, <3>2, KeyUnmoved
    <3>3. QED
      BY <3>1, <3>2
  <2>7. QED
    BY <2>4, <2>5, <2>6 DEF RateInv
<1>6. CASE strategy = "token_bucket"
  <2>1. /\ tokens' = [tokens EXCEPT ![key] = Refilled(key) - (IF granted THEN Minute ELSE 0)]
        /\ lastRefill' = [lastRefill EXCEPT ![key] = now]
        /\ UNCHANGED <<callHistory, windowCalls, windowStart>>
    BY <1>6 DEF Check
  <2>2. BucketKept(key)'
    <3>1. BucketKept(key)
      BY <1>1, <1>6 DEF WindowKept
    <3>2. /\ tokens'[key] = Refilled(key) - (IF granted THEN Minute ELSE 0)
          /\ lastRefill'[key] = now
      BY <1>1, <2>1 DEF TypeOK
    <3>3. QED
      BY <1>1, <1>3, <3>1, <3>2, BucketChecked
  <2>3. /\ \A k \in Keys \ {key} : tokens'[k] = tokens[k] /\ lastRefill'[k] = lastRefill[k]
        /\ \A k \in Keys : lastRefill'[k] <= now
        /\ lastRefill' \in [Keys -> Nat \cup {Never}]
    BY <1>1, <1>2, <2>1 DEF TypeOK, Recorded
  <2>4. tokens' \in [Keys -> Nat]
    <3>1. Refilled(key) \in Nat /\ Minute \in Nat
      BY <1>1, RefilledBounds, Parameters
    <3>2. granted => Refilled(key) >= Minute
      BY <1>6, <3>1 DEF Refuses
    <3>3. Refilled(key) - (IF granted THEN Minute ELSE 0) \in Nat
      BY <3>1, <3>2
    <3>4. QED
      BY <1>1, <2>1, <3>3 DEF TypeOK
  <2>5. TypeOK'
    BY <1>1, <1>4, <2>1, <2>3, <2>4 DEF TypeOK
  <2>6. Recorded'
    BY <1>1, <2>1, <2>3 DEF Recorded
  <2>7. ASSUME NEW k \in Keys PROVE WindowKept(k)'
    <3>1. CASE k = key
      BY <1>6, <2>2, <3>1 DEF WindowKept
    <3>2. CASE k # key
      BY <1>1, <1>4, <2>1, <2>3, <3>2, KeyUnmoved
    <3>3. QED
      BY <3>1, <3>2
  <2>8. QED
    BY <2>5, <2>6, <2>7 DEF RateInv
<1>7. CASE strategy = "fixed_window"
  <2>1. /\ windowCalls' = [windowCalls EXCEPT ![key] = FixedCalls(key) + (IF granted THEN 1 ELSE 0)]
        /\ windowStart' = [windowStart EXCEPT ![key] =
             IF WindowDue(key) THEN now ELSE Stamp(windowStart[key])]
        /\ UNCHANGED <<callHistory, tokens, lastRefill>>
    BY <1>7 DEF Check
  <2>2. FixedKept(key)'
    <3>1. FixedKept(key)
      BY <1>1, <1>7 DEF WindowKept
    <3>2. /\ windowCalls'[key] = FixedCalls(key) + (IF granted THEN 1 ELSE 0)
          /\ windowStart'[key] = IF WindowDue(key) THEN now ELSE Stamp(windowStart[key])
      BY <1>1, <2>1 DEF TypeOK
    <3>3. FixedCalls(key) \in Nat /\ PerMinute \in Nat
      BY <1>1, FixedCallsType, Parameters
    <3>4. granted <=> FixedCalls(key) < PerMinute
      BY <1>7, <3>3 DEF Refuses
    <3>5. QED
      BY <1>1, <1>3, <3>1, <3>2, <3>4, FixedChecked
  <2>3. /\ Stamp(windowStart[key]) \in 0 .. now /\ FixedCalls(key) + (IF granted THEN 1 ELSE 0) \in Nat
    BY <1>1, StampType, FixedCallsType
  <2>4. /\ \A k \in Keys \ {key} : windowCalls'[k] = windowCalls[k] /\ windowStart'[k] = windowStart[k]
        /\ \A k \in Keys : windowStart'[k] <= now
        /\ windowStart' \in [Keys -> Nat \cup {Never}]
        /\ windowCalls' \in [Keys -> Nat]
    BY <1>1, <1>2, <2>1, <2>3 DEF TypeOK, Recorded
  <2>5. TypeOK'
    BY <1>1, <1>4, <2>1, <2>4 DEF TypeOK
  <2>6. Recorded'
    BY <1>1, <2>1, <2>4 DEF Recorded
  <2>7. ASSUME NEW k \in Keys PROVE WindowKept(k)'
    <3>1. CASE k = key
      BY <1>7, <2>2, <3>1 DEF WindowKept
    <3>2. CASE k # key
      BY <1>1, <1>4, <2>1, <2>4, <3>2, KeyUnmoved
    <3>3. QED
      BY <3>1, <3>2
  <2>8. QED
    BY <2>5, <2>6, <2>7 DEF RateInv
<1>8. QED
  BY <1>5, <1>6, <1>7 DEF Check

LEMMA RateAcquire ==
  ASSUME RateInv, NEW c \in Callers, NEW tool \in Tools, Acquire(c, tool)
  PROVE  RateInv'
<1> DEFINE key == KeyOf(tool)
<1>1. key \in Keys /\ TypeOK
  BY DEF Keys, RateInv
<1>2. /\ ~ Refuses(key) /\ ~ SlotsFull(key) /\ Check(key, TRUE)
      /\ UNCHANGED <<strategy, now, resets, disturbed>>
      /\ grants' = [grants EXCEPT ![key] = Append(@, now)]
      /\ concurrent' = [concurrent EXCEPT ![key] = @ + 1]
      /\ slotOf' = [slotOf EXCEPT ![c] = key]
  BY DEF Acquire, Refuses
<1>3. concurrent' \in [Keys -> Nat] /\ slotOf' \in [Callers -> Keys \cup {NoKey}]
  BY <1>1, <1>2 DEF TypeOK
<1> HIDE DEF key
<1>4. QED
  BY <1>1, <1>2, <1>3, RateCheck

(* Steps that leave every window and grant alone.                          *)
LEMMA RateKept ==
  ASSUME RateInv, UNCHANGED <<strategy, now, windows, grants>>, TypeOK'
  PROVE  RateInv'
<1>1. UNCHANGED <<callHistory, tokens, lastRefill, windowCalls, windowStart>>
  BY DEF windows
<1>2. Recorded'
  BY <1>1 DEF RateInv, Recorded
<1>3. ASSUME NEW k \in Keys PROVE WindowKept(k)'
  BY <1>1, KeyUnmoved DEF RateInv
<1>4. QED
  BY <1>2, <1>3 DEF RateInv

LEMMA RateRefused ==
  ASSUME RateInv, NEW c \in Callers, NEW tool \in Tools, AcquireRefused(c, tool)
  PROVE  RateInv'
<1> DEFINE key == KeyOf(tool)
<1>1. key \in Keys /\ TypeOK
  BY DEF Keys, RateInv
<1>2. /\ Refuses(key)
      /\ IF SlotsFull(key) THEN UNCHANGED windows ELSE Check(key, FALSE)
      /\ UNCHANGED <<strategy, now, concurrent, slotOf, grants, resets, disturbed>>
  BY DEF AcquireRefused
<1>3. CASE SlotsFull(key)
  <2>1. TypeOK'
    BY <1>1, <1>2, <1>3 DEF TypeOK, windows
  <2>2. QED
    BY <1>2, <1>3, <2>1, RateKept
<1>4. CASE ~ SlotsFull(key)
  <2>1. concurrent' \in [Keys -> Nat] /\ slotOf' \in [Callers -> Keys \cup {NoKey}]
    BY <1>1, <1>2 DEF TypeOK
  <2> HIDE DEF key
  <2>2. QED
    BY <1>1, <1>2, <1>4, <2>1, RateCheck
<1>5. QED
  BY <1>3, <1>4

LEMMA RateRelease ==
  ASSUME RateInv, NEW c \in Callers, Release(c)
  PROVE  RateInv'
<1>1. /\ slotOf[c] # NoKey
      /\ concurrent' = [concurrent EXCEPT ![slotOf[c]] = GiveBack(@)]
      /\ slotOf' = [slotOf EXCEPT ![c] = NoKey]
      /\ UNCHANGED <<strategy, now, windows, grants, resets, disturbed>>
  BY DEF Release
<1>2. concurrent \in [Keys -> Nat] /\ slotOf \in [Callers -> Keys \cup {NoKey}]
  BY DEF RateInv, TypeOK
<1>3. \A n \in Nat : GiveBack(n) \in Nat
  BY DEF GiveBack
<1>4. concurrent' \in [Keys -> Nat] /\ slotOf' \in [Callers -> Keys \cup {NoKey}]
  BY <1>1, <1>2, <1>3
<1>5. TypeOK'
  BY <1>1, <1>4 DEF RateInv, TypeOK, windows
<1>6. QED
  BY <1>1, <1>5, RateKept

(* A cleared key is as at the start, its clocks at most started.           *)
LEMMA RateReset ==
  ASSUME RateInv, NEW cleared \in SUBSET Keys, NEW start \in {now, Never}, Reset(cleared, start)
  PROVE  RateInv'
<1>1. TypeOK /\ Recorded /\ now \in Nat /\ \A k \in Keys : WindowKept(k)
  BY DEF RateInv, TypeOK
<1>2. PerMinute * Minute \in Nat /\ PerMinute * Minute <= Room * Minute /\ Room * Minute \in Nat
      /\ PerMinute \in Nat
  BY Parameters
<1>3. /\ callHistory' = [k \in Keys |-> IF k \in cleared THEN <<>> ELSE callHistory[k]]
      /\ tokens' = [k \in Keys |-> IF k \in cleared THEN PerMinute * Minute ELSE tokens[k]]
      /\ lastRefill' = [k \in Keys |-> IF k \in cleared THEN start ELSE lastRefill[k]]
      /\ windowCalls' = [k \in Keys |-> IF k \in cleared THEN 0 ELSE windowCalls[k]]
      /\ windowStart' = [k \in Keys |-> IF k \in cleared THEN start ELSE windowStart[k]]
      /\ concurrent' = [k \in Keys |-> IF k \in cleared THEN 0 ELSE concurrent[k]]
      /\ grants' = [k \in Keys |-> IF k \in cleared THEN <<>> ELSE grants[k]]
      /\ resets' = resets + 1
      /\ disturbed' = disturbed \cup {k \in cleared : Holders(k) # {}}
      /\ UNCHANGED <<strategy, now, slotOf>>
  BY DEF Reset
<1>4. TypeOK'
  BY <1>1, <1>2, <1>3 DEF TypeOK
<1>5. Recorded'
  BY <1>1, <1>3 DEF Recorded, Ordered, Never
<1>6. ASSUME NEW k \in Keys PROVE WindowKept(k)'
  <2>1. CASE k \notin cleared
    BY <1>1, <1>3, <2>1, KeyUnmoved
  <2>2. CASE k \in cleared
    <3>1. /\ callHistory'[k] = <<>> /\ tokens'[k] = PerMinute * Minute /\ lastRefill'[k] = start
          /\ windowCalls'[k] = 0 /\ windowStart'[k] = start /\ grants'[k] = <<>>
      BY <1>3, <2>2
    <3>2. \A t \in Int : Count(<<>>, t) = 0
      BY CountOfEmpty
    <3>3. SlidingKept(k)'
      <4>1. now - Hour \in Int /\ now - Minute \in Int /\ 0 <= PerHour /\ 0 <= PerMinute
        BY <1>1, Parameters
      <4>2. QED
        BY <1>3, <3>1, <3>2, <4>1 DEF SlidingKept
    <3>4. FixedKept(k)'
      <4>1. CASE start = Never
        BY <1>2, <3>1, <4>1 DEF FixedKept
      <4>2. CASE start # Never
        <5>1. start \in Int /\ start + Minute \in Int /\ start - Minute \in Int
          BY <1>1, <4>2, Parameters
        <5>2. QED
          BY <1>2, <3>1, <3>2, <4>2, <5>1 DEF FixedKept
      <4>3. QED
        BY <4>1, <4>2
    <3>5. BucketKept(k)'
      <4>1. Room' = Room
        BY DEF Room
      <4>2. CASE start = Never
        BY <1>2, <3>1, <4>1, <4>2 DEF BucketKept
      <4>3. CASE start # Never
        <5>1. ASSUME NEW t \in Int, ~ (t > start)
              PROVE  PerMinute * Minute <= Room * Minute + (start - t) * PerMinute
          <6>1. (start - t) * PerMinute \in Nat
            BY <1>1, <4>3, <5>1, Parameters
          <6>2. QED
            BY <1>2, <6>1
        <5>2. \A t \in Int : Spent(k, t)' = PerMinute * Minute
          BY <1>2, <3>1, <3>2, Parameters DEF Spent
        <5>3. QED
          BY <3>1, <3>2, <4>1, <4>3, <5>1, <5>2 DEF BucketKept
      <4>4. QED
        BY <4>2, <4>3
    <3>6. QED
      BY <3>3, <3>4, <3>5 DEF WindowKept
  <2>3. QED
    BY <2>1, <2>2
<1>7. QED
  BY <1>4, <1>5, <1>6 DEF RateInv

LEMMA RateTick ==
  ASSUME RateInv, Tick
  PROVE  RateInv'
<1>1. TypeOK /\ Recorded /\ now \in Nat /\ grants \in [Keys -> Seq(Nat)]
      /\ callHistory \in [Keys -> Seq(Nat)]
      /\ \A k \in Keys : WindowKept(k)
  BY DEF RateInv, TypeOK
<1>2. /\ now' = now + 1 /\ now' \in Nat
      /\ grants' = [k \in Keys |-> Since(grants[k], now' - Hour)]
      /\ UNCHANGED <<strategy, callHistory, tokens, lastRefill, windowCalls, windowStart,
                     concurrent, slotOf, resets, disturbed>>
  BY <1>1 DEF Tick, windows
<1>3. now' - Hour \in Int /\ now - Hour \in Int /\ now - Minute \in Int /\ now' - Minute \in Int
      /\ now - Hour <= now' - Hour /\ now - Minute <= now' - Minute
  BY <1>1, <1>2, Parameters
<1>4. ASSUME NEW k \in Keys
      PROVE  /\ grants'[k] \in Seq(Nat)
             /\ \A t \in Int : Count(grants'[k], t) \in Nat /\ Count(grants[k], t) \in Nat
             /\ \A t \in Int : Count(grants'[k], t) <= Count(grants[k], t)
             /\ grants[k] = <<>> => grants'[k] = <<>>
  <2>1. grants[k] \in Seq(Nat) /\ grants'[k] = Since(grants[k], now' - Hour)
    BY <1>1, <1>2
  <2>2. grants'[k] \in Seq(Nat)
    BY <1>3, <2>1, SinceType
  <2>3. \A t \in Int : Count(grants'[k], t) <= Count(grants[k], t)
    BY <1>3, <2>1, CountSince
  <2>4. QED
    BY <1>3, <2>1, <2>2, <2>3, CountType, SinceOfEmpty
<1>5. TypeOK'
  BY <1>1, <1>2, <1>4 DEF TypeOK
<1>6. Recorded'
  <2>1. ASSUME NEW k \in Keys
        PROVE  /\ \A i \in DOMAIN callHistory[k] : callHistory[k][i] <= now'
               /\ lastRefill[k] <= now' /\ windowStart[k] <= now'
    <3>1. /\ \A i \in DOMAIN callHistory[k] : callHistory[k][i] \in Nat
          /\ lastRefill[k] \in Int /\ windowStart[k] \in Int
      BY <1>1 DEF TypeOK, Never
    <3>2. QED
      BY <1>1, <1>2, <3>1 DEF Recorded
  <2>2. QED
    BY <1>1, <1>2, <2>1 DEF Recorded
<1>7. ASSUME NEW k \in Keys PROVE WindowKept(k)'
  <2>1. CASE strategy = "sliding_window"
    <3>1. SlidingKept(k)
      BY <1>1, <2>1 DEF WindowKept
    <3>2. \A t \in Int : Count(callHistory[k], t) \in Nat
      BY <1>1, CountType
    <3>3. /\ Count(callHistory[k], now' - Hour) <= Count(callHistory[k], now - Hour)
          /\ Count(callHistory[k], now' - Minute) <= Count(callHistory[k], now - Minute)
      BY <1>1, <1>3, CountMonotone
    <3>4. /\ Count(callHistory[k], now' - Hour) <= PerHour
          /\ Count(callHistory[k], now' - Minute) <= PerMinute
      BY <1>3, <3>1, <3>2, <3>3, Parameters DEF SlidingKept
    <3>5. ASSUME NEW t \in Int, t >= now' - Hour
          PROVE  Count(grants'[k], t) <= Count(callHistory[k], t)
      <4>1. Count(grants[k], t) <= Count(callHistory[k], t)
        BY <1>3, <3>1, <3>5 DEF SlidingKept
      <4>2. QED
        BY <1>4, <3>2, <4>1
    <3>6. SlidingKept(k)'
      BY <1>2, <3>4, <3>5 DEF SlidingKept
    <3>7. QED
      BY <1>2, <2>1, <3>6 DEF WindowKept
  <2>2. CASE strategy = "fixed_window"
    <3>1. FixedKept(k)
      BY <1>1, <2>2 DEF WindowKept
    <3>2. CASE windowStart[k] = Never
      <4>1. FixedKept(k)'
        BY <1>2, <1>4, <3>1, <3>2 DEF FixedKept
      <4>2. QED
        BY <1>2, <2>2, <4>1 DEF WindowKept
    <3>3. CASE windowStart[k] # Never
      <4>1. /\ windowStart[k] \in Int /\ windowStart[k] + Minute \in Int
            /\ windowStart[k] - Minute \in Int /\ windowCalls[k] \in Nat /\ PerMinute \in Nat
        BY <1>1, <3>3, Parameters DEF TypeOK
      <4>2. /\ windowCalls[k] <= PerMinute
            /\ Count(grants[k], windowStart[k] + Minute) = 0
            /\ Count(grants[k], windowStart[k]) <= windowCalls[k]
            /\ Count(grants[k], windowStart[k] - Minute) <= windowCalls[k] + PerMinute
        BY <3>1, <3>3 DEF FixedKept
      <4> DEFINE old(t) == Count(grants[k], t)
                 new(t) == Count(grants'[k], t)
      <4>0. \A t \in Int : new(t) \in Nat /\ old(t) \in Nat /\ new(t) <= old(t)
        BY <1>4
      <4> HIDE DEF old, new
      <4>3. new(windowStart[k] + Minute) = 0
        <5>1. old(windowStart[k] + Minute) = 0
          BY <4>2 DEF old
        <5>2. QED
          BY <4>0, <4>1, <5>1
      <4>4. new(windowStart[k]) <= windowCalls[k]
        <5>1. old(windowStart[k]) <= windowCalls[k]
          BY <4>2 DEF old
        <5>2. QED
          BY <4>0, <4>1, <5>1
      <4>5. new(windowStart[k] - Minute) <= windowCalls[k] + PerMinute
        <5>1. old(windowStart[k] - Minute) <= windowCalls[k] + PerMinute
          BY <4>2 DEF old
        <5>2. QED
          BY <4>0, <4>1, <5>1
      <4>6. FixedKept(k)'
        BY <1>2, <3>3, <4>2, <4>3, <4>4, <4>5 DEF FixedKept, new
      <4>7. QED
        BY <1>2, <2>2, <4>6 DEF WindowKept
    <3>4. QED
      BY <3>2, <3>3
  <2>3. CASE strategy = "token_bucket"
    <3>1. BucketKept(k) /\ Room' = Room
      BY <1>1, <2>3 DEF WindowKept, Room
    <3>2. CASE lastRefill[k] = Never
      <4>1. BucketKept(k)'
        BY <1>2, <1>4, <3>1, <3>2 DEF BucketKept
      <4>2. QED
        BY <1>2, <2>3, <4>1 DEF WindowKept
    <3>3. CASE lastRefill[k] # Never
      <4>1. lastRefill[k] \in Nat /\ tokens[k] \in Nat
        BY <1>1, <3>3 DEF TypeOK
      <4>2. ASSUME NEW t \in Int, t > lastRefill[k] PROVE Count(grants'[k], t) = 0
        <5>1. Count(grants[k], t) = 0
          BY <3>1, <3>3, <4>2 DEF BucketKept
        <5>2. QED
          BY <1>4, <5>1
      <4>3. ASSUME NEW t \in Int, ~ (t > lastRefill[k])
            PROVE  Minute * Count(grants'[k], t) + tokens[k]
                     <= Room * Minute + (lastRefill[k] - t) * PerMinute
        <5>1. Minute * Count(grants[k], t) + tokens[k]
                <= Room * Minute + (lastRefill[k] - t) * PerMinute
          BY <3>1, <3>3, <4>3 DEF BucketKept, Spent
        <5>0. /\ Count(grants'[k], t) \in Nat /\ Count(grants[k], t) \in Nat
              /\ Count(grants'[k], t) <= Count(grants[k], t)
          BY <1>4
        <5>2. Minute * Count(grants'[k], t) <= Minute * Count(grants[k], t)
          BY <5>0, Parameters
        <5>3. /\ Minute * Count(grants'[k], t) \in Int /\ Minute * Count(grants[k], t) \in Int
              /\ Room * Minute + (lastRefill[k] - t) * PerMinute \in Int
          BY <4>1, <5>0, Parameters
        <5>4. QED
          BY <4>1, <5>1, <5>2, <5>3
      <4>4. BucketKept(k)'
        BY <1>2, <3>1, <3>3, <4>2, <4>3 DEF BucketKept, Spent
      <4>5. QED
        BY <1>2, <2>3, <4>4 DEF WindowKept
    <3>4. QED
      BY <3>2, <3>3
  <2>4. QED
    BY <1>1, <2>1, <2>2, <2>3, Parameters DEF TypeOK
<1>8. QED
  BY <1>5, <1>6, <1>7 DEF RateInv

LEMMA RateNext == RateInv /\ [Next]_vars => RateInv'
<1> SUFFICES ASSUME RateInv, [Next]_vars PROVE RateInv'
  OBVIOUS
<1>1. ASSUME NEW tool \in Tools, Peek(tool) PROVE RateInv'
  BY <1>1, RatePeek
<1>2. ASSUME NEW c \in Callers, NEW tool \in Tools, Acquire(c, tool) PROVE RateInv'
  BY <1>2, RateAcquire
<1>3. ASSUME NEW c \in Callers, NEW tool \in Tools, AcquireRefused(c, tool) PROVE RateInv'
  BY <1>3, RateRefused
<1>4. ASSUME NEW c \in Callers, Release(c) PROVE RateInv'
  BY <1>4, RateRelease
<1>5. ASSUME NEW tool \in Tools, ResetTool(tool) PROVE RateInv'
  <2>1. {KeyOf(tool)} \in SUBSET Keys
    BY DEF Keys
  <2>2. QED
    BY <1>5, <2>1, RateReset DEF ResetTool
<1>6. CASE ResetAll
  BY <1>6, RateReset DEF ResetAll
<1>7. CASE Tick
  BY <1>7, RateTick
<1>8. CASE UNCHANGED vars
  <2>1. TypeOK'
    BY <1>8 DEF RateInv, TypeOK, vars, windows
  <2>2. QED
    BY <1>8, <2>1, RateKept DEF vars
<1>9. QED
  BY <1>1, <1>2, <1>3, <1>4, <1>5, <1>6, <1>7, <1>8 DEF Next

(* The bounds, from what each window keeps.                                *)
LEMMA RateBounds == RateInv => RateBounded
<1> SUFFICES ASSUME RateInv, NEW k \in Keys
             PROVE  LET minute == GrantsSince(k, now - Minute)
                    IN  CASE strategy = "sliding_window" ->
                               minute <= PerMinute /\ GrantsSince(k, now - Hour) <= PerHour
                          [] strategy = "fixed_window" -> minute <= 2 * PerMinute
                          [] strategy = "token_bucket" -> minute <= Room + PerMinute
  BY DEF RateBounded
<1>1. TypeOK /\ Recorded /\ WindowKept(k) /\ now \in Nat
      /\ grants[k] \in Seq(Nat) /\ callHistory[k] \in Seq(Nat)
  BY DEF RateInv, TypeOK
<1>2. \A t : GrantsSince(k, t) = Count(grants[k], t)
  BY DEF GrantsSince, Count
<1>3. \A t \in Int : Count(grants[k], t) \in Nat /\ Count(callHistory[k], t) \in Nat
  BY <1>1, CountType
<1>4. now - Minute \in Int /\ now - Hour \in Int /\ now - Minute >= now - Hour
  BY <1>1, Parameters
<1>5. CASE strategy = "sliding_window"
  <2>1. SlidingKept(k)
    BY <1>1, <1>5 DEF WindowKept
  <2>2. /\ Count(grants[k], now - Minute) <= Count(callHistory[k], now - Minute)
        /\ Count(grants[k], now - Hour) <= Count(callHistory[k], now - Hour)
    BY <1>4, <2>1 DEF SlidingKept
  <2>3. /\ Count(grants[k], now - Minute) <= PerMinute
        /\ Count(grants[k], now - Hour) <= PerHour
    BY <1>3, <1>4, <2>1, <2>2, Parameters DEF SlidingKept
  <2>4. QED
    BY <1>2, <1>5, <2>3
<1>6. CASE strategy = "fixed_window"
  <2>1. FixedKept(k)
    BY <1>1, <1>6 DEF WindowKept
  <2>2. Count(grants[k], now - Minute) <= 2 * PerMinute
    <3>1. CASE windowStart[k] = Never
      BY <1>4, <2>1, <3>1, CountOfEmpty, Parameters DEF FixedKept
    <3>2. CASE windowStart[k] # Never
      <4>1. windowStart[k] - Minute \in Int /\ windowStart[k] - Minute <= now - Minute
            /\ windowCalls[k] \in Nat /\ PerMinute \in Nat
        BY <1>1, <3>2, Parameters DEF TypeOK, Recorded
      <4>2. Count(grants[k], now - Minute) <= Count(grants[k], windowStart[k] - Minute)
        BY <1>1, <1>4, <4>1, CountMonotone
      <4>3. QED
        BY <1>3, <1>4, <2>1, <3>2, <4>1, <4>2 DEF FixedKept
    <3>3. QED
      BY <3>1, <3>2
  <2>3. QED
    BY <1>2, <1>6, <2>2
<1>7. CASE strategy = "token_bucket"
  <2>1. BucketKept(k)
    BY <1>1, <1>7 DEF WindowKept
  <2> DEFINE C == Count(grants[k], now - Minute)
  <2>2. C \in Nat /\ Room \in Nat /\ PerMinute \in Nat /\ Minute \in Nat \ {0}
    BY <1>3, <1>4, Parameters
  <2>3. C <= Room + PerMinute
    <3>1. CASE C = 0
      BY <2>2, <3>1
    <3>2. CASE C # 0
      <4>1. lastRefill[k] # Never
        BY <1>4, <2>1, <3>2, CountOfEmpty DEF BucketKept
      <4>2. lastRefill[k] \in Nat /\ lastRefill[k] <= now /\ tokens[k] \in Nat
        BY <1>1, <4>1 DEF TypeOK, Recorded
      <4>3. now - Minute <= lastRefill[k]
        BY <1>4, <2>1, <3>2, <4>1, <4>2 DEF BucketKept
      <4>4. Minute * C + tokens[k] <= Room * Minute + (lastRefill[k] - (now - Minute)) * PerMinute
        BY <1>4, <2>1, <4>1, <4>2, <4>3 DEF BucketKept, Spent
      <4>5. (lastRefill[k] - (now - Minute)) * PerMinute <= Minute * PerMinute
        <5>1. lastRefill[k] - (now - Minute) \in Nat /\ lastRefill[k] - (now - Minute) <= Minute
          BY <1>1, <2>2, <4>2, <4>3
        <5> DEFINE gap == lastRefill[k] - (now - Minute)
        <5> HIDE DEF gap
        <5>2. gap * PerMinute <= Minute * PerMinute
          BY <2>2, <5>1 DEF gap
        <5>3. QED
          BY <5>2 DEF gap
      <4> HIDE DEF C
      <4>6. Minute * C <= Minute * (Room + PerMinute)
        <5>1. Minute * (Room + PerMinute) = Room * Minute + Minute * PerMinute
          BY <2>2
        <5>2. /\ (lastRefill[k] - (now - Minute)) * PerMinute \in Int /\ Minute * C \in Int
              /\ Room * Minute \in Int /\ Minute * PerMinute \in Int
          BY <1>1, <2>2, <4>2
        <5>3. QED
          BY <4>2, <4>4, <4>5, <5>1, <5>2
      <4>7. QED
        BY <2>2, <4>6
    <3>3. QED
      BY <3>1, <3>2
  <2>4. QED
    BY <1>2, <1>7, <2>3
<1>8. QED
  BY <1>1, <1>5, <1>6, <1>7, Parameters DEF TypeOK

-----------------------------------------------------------------------------
(* What the runs check, for every value of the constants                   *)

(* Every variable keeps the shape the limiter gives it, under each of the  *)
(* strategies.                                                             *)
THEOREM LimiterTypeOK == Spec => []TypeOK
<1>1. RateInv => TypeOK
  BY DEF RateInv
<1>2. QED
  BY <1>1, RateInit, RateNext, PTL DEF Spec

(* The peek that the executor makes before validating a call answers, in   *)
(* every reachable state, just what `acquire` would.                       *)
THEOREM PeekAlwaysAgrees == Spec => []PeekAgreesWithAcquire
<1>1. RateInv => PeekAgreesWithAcquire
  BY PeekAgrees DEF RateInv
<1>2. QED
  BY <1>1, RateInit, RateNext, PTL DEF Spec

(* However callers, peeks, refusals, resets and time interleave, no minute *)
(* and no hour lets through more than its strategy allows.                 *)
THEOREM RatesStayBounded == Spec => []RateBounded
<1>1. QED
  BY RateBounds, RateInit, RateNext, PTL DEF Spec

-----------------------------------------------------------------------------
(* Each strategy keeps the promise of a quota                              *)

LEMMA DivFacts ==
  ASSUME NEW d \in Nat \ {0}
  PROVE  /\ \A n \in Nat : n \div d \in Nat /\ (n >= d => (n - d) \div d = (n \div d) - 1)
         /\ \A m, n \in Nat : m <= n => m \div d <= n \div d
         /\ \A m, n \in Nat : n <= m * d => n \div d <= m
         /\ \A n \in Nat : n >= d => n \div d >= 1
<1>1. \A n \in Nat : n \div d \in Nat /\ (n >= d => (n - d) \div d = (n \div d) - 1)
  OBVIOUS
<1>2. \A m, n \in Nat : m <= n => m \div d <= n \div d
  OBVIOUS
<1>3. \A m, n \in Nat : n <= m * d => n \div d <= m
  OBVIOUS
<1>4. \A n \in Nat : n >= d => n \div d >= 1
  OBVIOUS
<1>5. QED
  BY <1>1, <1>2, <1>3, <1>4

(* How much room a key has, told from the stamps since a time.             *)
FreeIs(k, free) ==
  /\ strategy = "sliding_window" =>
       free = Least(PerHour - Count(callHistory[k], now - Hour),
                    PerMinute - Count(callHistory[k], now - Minute))
  /\ strategy = "fixed_window" => free = PerMinute - FixedCalls(k)
  /\ strategy = "token_bucket" => free = Refilled(k) \div Minute

LEMMA FreeMeans ==
  TypeOK /\ Recorded => \A k \in Keys : FreeIs(k, Free(k))
<1> SUFFICES ASSUME TypeOK, Recorded, NEW k \in Keys
             PROVE  FreeIs(k, Free(k))
  OBVIOUS
<1>1. strategy = "sliding_window" =>
        Free(k) = Least(PerHour - Count(callHistory[k], now - Hour),
                        PerMinute - Count(callHistory[k], now - Minute))
  BY SameCounts DEF Free
<1>2. strategy = "fixed_window" => Free(k) = PerMinute - FixedCalls(k)
  BY DEF Free
<1>3. strategy = "token_bucket" => Free(k) = Refilled(k) \div Minute
  BY DEF Free
<1>4. QED
  BY <1>1, <1>2, <1>3 DEF FreeIs

LEMMA FreeMeansNext ==
  ASSUME RateInv'
  PROVE  \A k \in Keys : FreeIs(k, Free(k))'
<1>1. (TypeOK /\ Recorded => \A k \in Keys : FreeIs(k, Free(k)))'
  BY FreeMeans, PTL
<1>2. QED
  BY <1>1 DEF RateInv

(* No key has less room than none, or more than the quota's.               *)
LEMMA FreeBounds == RateInv => \A k \in Keys : Free(k) \in 0 .. Room
<1> SUFFICES ASSUME RateInv, NEW k \in Keys
             PROVE  Free(k) \in 0 .. Room
  OBVIOUS
<1>1. TypeOK /\ Recorded /\ WindowKept(k) /\ FreeIs(k, Free(k)) /\ now \in Nat
      /\ callHistory[k] \in Seq(Nat)
  BY FreeMeans DEF RateInv, TypeOK
<1>2. /\ PerMinute \in Nat \ {0} /\ PerHour \in Nat \ {0} /\ Room \in Nat \ {0}
      /\ Minute \in Nat \ {0} /\ PerMinute <= Room /\ Capacity <= Room /\ Capacity \in Nat
  BY Parameters
<1>3. CASE strategy = "sliding_window"
  <2>1. now - Hour \in Int /\ now - Minute \in Int
    BY <1>1, Parameters
  <2>2. Count(callHistory[k], now - Hour) \in Nat /\ Count(callHistory[k], now - Minute) \in Nat
    BY <1>1, <2>1, CountType
  <2>3. /\ Count(callHistory[k], now - Hour) <= PerHour
        /\ Count(callHistory[k], now - Minute) <= PerMinute
    BY <1>1, <1>3 DEF WindowKept, SlidingKept
  <2>4. QED
    BY <1>1, <1>2, <1>3, <2>2, <2>3 DEF FreeIs, Least
<1>4. CASE strategy = "fixed_window"
  <2>1. windowCalls[k] <= PerMinute /\ windowCalls[k] \in Nat
    BY <1>1, <1>4 DEF WindowKept, FixedKept, TypeOK
  <2>2. QED
    BY <1>1, <1>2, <1>4, <2>1 DEF FreeIs, FixedCalls
<1>5. CASE strategy = "token_bucket"
  <2>1. Refilled(k) \in Nat /\ Refilled(k) <= Capacity * Minute
    BY <1>1, RefilledBounds
  <2>2. Refilled(k) \div Minute \in Nat /\ Refilled(k) \div Minute <= Capacity
    BY <1>2, <2>1, DivFacts
  <2>3. QED
    BY <1>1, <1>2, <1>5, <2>2 DEF FreeIs
<1>6. QED
  BY <1>1, <1>3, <1>4, <1>5, Parameters DEF TypeOK

LEMMA FreeUnmoved ==
  ASSUME NEW k \in Keys, strategy' = strategy, now' = now,
         callHistory'[k] = callHistory[k], tokens'[k] = tokens[k],
         Stamp(lastRefill[k])' = Stamp(lastRefill[k]), windowCalls'[k] = windowCalls[k],
         Stamp(windowStart[k])' = Stamp(windowStart[k])
  PROVE  Free(k)' = Free(k)
<1>1. Refilled(k)' = Refilled(k)
  BY DEF Refilled, Capacity
<1>2. FixedCalls(k)' = FixedCalls(k)
  BY DEF FixedCalls, WindowDue
<1>3. /\ Pruned(callHistory[k])' = Pruned(callHistory[k])
      /\ Recent(Pruned(callHistory[k]))' = Recent(Pruned(callHistory[k]))
  BY DEF Pruned, Recent
<1>4. QED
  BY <1>1, <1>2, <1>3 DEF Free

(* A check takes the room of one call if it lets one through, and none if  *)
(* it does not.                                                            *)
LEMMA FreeChecked ==
  ASSUME RateInv, RateInv', NEW key \in Keys, NEW granted \in BOOLEAN, Check(key, granted),
         ~ SlotsFull(key), granted <=> ~ Refuses(key), strategy' = strategy, now' = now
  PROVE  /\ Free(key)' = Free(key) - (IF granted THEN 1 ELSE 0)
         /\ granted => Free(key) >= 1
<1> DEFINE one == IF granted THEN 1 ELSE 0
<1>1. /\ TypeOK /\ Recorded /\ WindowKept(key) /\ now \in Nat
      /\ FreeIs(key, Free(key)) /\ FreeIs(key, Free(key))'
  BY FreeMeans, FreeMeansNext DEF RateInv, TypeOK
<1>2. /\ PerMinute \in Nat \ {0} /\ PerHour \in Nat \ {0} /\ Minute \in Nat \ {0}
      /\ Hour \in Nat \ {0} /\ Minute <= Hour
  BY Parameters
<1>3. CASE strategy = "sliding_window"
  <2> DEFINE h == callHistory[key]
             inHour == Count(h, now - Hour)
             inMinute == Count(h, now - Minute)
  <2>1. h \in Seq(Nat) /\ now - Hour \in Int /\ now - Minute \in Int
        /\ now - Hour <= now - Minute /\ now >= now - Hour /\ now >= now - Minute
    BY <1>1, <1>2 DEF TypeOK
  <2>2. inHour \in Nat /\ inMinute \in Nat
    BY <2>1, CountType
  <2>3. Pruned(h) \in Seq(Nat) /\ Count(Pruned(h), now - Hour) = inHour
        /\ Count(Pruned(h), now - Minute) = inMinute
    <3>1. Pruned(h) \in Seq(Nat)
      BY <2>1, SinceType DEF Pruned
    <3>2. Count(Pruned(h), now - Hour) = inHour
      BY <2>1, CountSince DEF Pruned
    <3>3. Count(Pruned(h), now - Minute) = inMinute
      BY <2>1, CountSince DEF Pruned
    <3>4. QED
      BY <3>1, <3>2, <3>3
  <2>4. callHistory'[key] = IF granted THEN Append(Pruned(h), now) ELSE Pruned(h)
    BY <1>1, <1>3 DEF Check, TypeOK
  <2>5. /\ Count(callHistory'[key], now - Hour) = inHour + one
        /\ Count(callHistory'[key], now - Minute) = inMinute + one
    <3>1. CASE granted
      BY <1>1, <2>1, <2>3, <2>4, <3>1, CountAppend
    <3>2. CASE ~ granted
      BY <2>2, <2>3, <2>4, <3>2
    <3>3. QED
      BY <3>1, <3>2
  <2>6. granted => inHour < PerHour /\ inMinute < PerMinute
    <3>1. granted => ~ SlidingFull(key)
      BY <1>3 DEF Refuses
    <3>2. QED
      BY <1>1, <1>2, <2>2, <3>1, RefusedMeans
  <2>7. /\ Free(key) = Least(PerHour - inHour, PerMinute - inMinute)
        /\ Free(key)' = Least(PerHour - (inHour + one), PerMinute - (inMinute + one))
    BY <1>1, <1>3, <2>5 DEF FreeIs, Least
  <2> HIDE DEF inHour, inMinute
  <2>8. QED
    BY <1>2, <2>2, <2>6, <2>7 DEF Least
<1>4. CASE strategy = "fixed_window"
  <2>1. FixedCalls(key) \in Nat
    BY <1>1, FixedCallsType
  <2>2. /\ windowCalls'[key] = FixedCalls(key) + one
        /\ windowStart'[key] = IF WindowDue(key) THEN now ELSE Stamp(windowStart[key])
    BY <1>1, <1>4 DEF Check, TypeOK
  <2>3. /\ windowStart[key] \in Nat \cup {Never} /\ windowCalls[key] \in Nat
        /\ Stamp(windowStart[key]) \in 0 .. now
    BY <1>1, StampType DEF TypeOK
  <2>4. Stamp(windowStart[key])' = windowStart'[key]
    BY <1>1, <2>2, <2>3 DEF Stamp, Never
  <2>5. ~ WindowDue(key)'
    BY <1>1, <1>2, <2>2, <2>3, <2>4 DEF WindowDue
  <2>6. FixedCalls(key)' = FixedCalls(key) + one
    BY <2>2, <2>5 DEF FixedCalls
  <2>7. granted => FixedCalls(key) < PerMinute
    BY <1>2, <1>4, <2>1 DEF Refuses
  <2>8. Free(key) = PerMinute - FixedCalls(key) /\ Free(key)' = PerMinute - (FixedCalls(key) + one)
    BY <1>1, <1>4, <2>6 DEF FreeIs
  <2>9. QED
    BY <1>2, <2>1, <2>7, <2>8
<1>5. CASE strategy = "token_bucket"
  <2>1. Refilled(key) \in Nat /\ Refilled(key) <= Capacity * Minute /\ Capacity * Minute \in Nat
    BY <1>1, RefilledBounds, Parameters
  <2>2. granted => Refilled(key) >= Minute
    BY <1>2, <1>5, <2>1 DEF Refuses
  <2>3. /\ tokens'[key] = Refilled(key) - (IF granted THEN Minute ELSE 0)
        /\ lastRefill'[key] = now
    BY <1>1, <1>5 DEF Check, TypeOK
  <2>4. Stamp(lastRefill[key])' = now /\ Capacity' = Capacity
    BY <1>1, <2>3 DEF Stamp, Never, Capacity
  <2>5. Refilled(key)' = Refilled(key) - (IF granted THEN Minute ELSE 0)
    <3>1. (now - now) * PerMinute = 0
      BY <1>1, <1>2
    <3>2. Refilled(key)' = Least(Capacity * Minute, tokens'[key] + 0)
      BY <2>4, <3>1 DEF Refilled, Least
    <3>3. QED
      BY <1>2, <2>1, <2>2, <2>3, <3>2 DEF Least
  <2>6. Free(key) = Refilled(key) \div Minute /\ Free(key)' = Refilled(key)' \div Minute
    BY <1>1, <1>5 DEF FreeIs
  <2>7. CASE granted
    BY <1>2, <2>1, <2>2, <2>5, <2>6, <2>7, DivFacts
  <2>8. CASE ~ granted
    BY <1>2, <2>1, <2>5, <2>6, <2>8, DivFacts
  <2>9. QED
    BY <2>7, <2>8
<1>6. QED
  BY <1>3, <1>4, <1>5 DEF Check

(* Room only comes back with time.                                         *)
LEMMA FreeTick ==
  ASSUME RateInv, RateInv', Tick, NEW k \in Keys
  PROVE  Free(k) <= Free(k)'
<1>1. /\ TypeOK /\ Recorded /\ WindowKept(k) /\ now \in Nat
      /\ FreeIs(k, Free(k)) /\ FreeIs(k, Free(k))'
      /\ callHistory[k] \in Seq(Nat)
  BY FreeMeans, FreeMeansNext DEF RateInv, TypeOK
<1>2. /\ PerMinute \in Nat \ {0} /\ PerHour \in Nat \ {0} /\ Minute \in Nat \ {0}
      /\ Hour \in Nat \ {0}
  BY Parameters
<1>3. /\ now' = now + 1 /\ strategy' = strategy
      /\ callHistory' = callHistory /\ tokens' = tokens /\ lastRefill' = lastRefill
      /\ windowCalls' = windowCalls /\ windowStart' = windowStart
  BY DEF Tick, windows
<1>4. CASE strategy = "sliding_window"
  <2>1. /\ now - Hour \in Int /\ now' - Hour \in Int /\ now - Hour <= now' - Hour
        /\ now - Minute \in Int /\ now' - Minute \in Int /\ now - Minute <= now' - Minute
    BY <1>1, <1>2, <1>3
  <2>2. /\ Count(callHistory[k], now' - Hour) <= Count(callHistory[k], now - Hour)
        /\ Count(callHistory[k], now' - Minute) <= Count(callHistory[k], now - Minute)
    BY <1>1, <2>1, CountMonotone
  <2>3. \A t \in Int : Count(callHistory[k], t) \in Nat
    BY <1>1, CountType
  <2>4. /\ Count(callHistory[k], now - Hour) \in Nat /\ Count(callHistory[k], now - Minute) \in Nat
        /\ Count(callHistory[k], now' - Hour) \in Nat
        /\ Count(callHistory[k], now' - Minute) \in Nat
    BY <2>1, <2>3
  <2>5. /\ Free(k) = Least(PerHour - Count(callHistory[k], now - Hour),
                           PerMinute - Count(callHistory[k], now - Minute))
        /\ Free(k)' = Least(PerHour - Count(callHistory[k], now' - Hour),
                            PerMinute - Count(callHistory[k], now' - Minute))
    BY <1>1, <1>3, <1>4 DEF FreeIs, Least
  <2>6. QED
    BY <1>2, <2>2, <2>4, <2>5 DEF Least
<1>5. CASE strategy = "fixed_window"
  <2>1. windowStart[k] \in Nat \cup {Never} /\ windowCalls[k] \in Nat
    BY <1>1 DEF TypeOK
  <2>2. WindowDue(k) => WindowDue(k)'
    BY <1>1, <1>2, <1>3, <2>1 DEF WindowDue, Stamp, Never
  <2>3. FixedCalls(k)' <= FixedCalls(k) /\ FixedCalls(k) \in Nat /\ FixedCalls(k)' \in Nat
    BY <1>3, <2>1, <2>2 DEF FixedCalls
  <2>4. Free(k) = PerMinute - FixedCalls(k) /\ Free(k)' = PerMinute - FixedCalls(k)'
    BY <1>1, <1>3, <1>5 DEF FreeIs
  <2>5. QED
    BY <1>2, <2>3, <2>4
<1>6. CASE strategy = "token_bucket"
  <2>1. lastRefill[k] \in Nat \cup {Never} /\ tokens[k] \in Nat /\ lastRefill[k] <= now
        /\ Capacity * Minute \in Nat /\ Capacity' = Capacity
    BY <1>1, Parameters DEF TypeOK, Recorded, Capacity
  <2>2. Refilled(k) \in Nat
    BY <1>1, RefilledBounds
  <2>3. Refilled(k) <= Refilled(k)' /\ Refilled(k)' \in Nat
    <3>1. CASE lastRefill[k] = Never
      <4>1. Stamp(lastRefill[k]) = now /\ Stamp(lastRefill[k])' = now'
        BY <1>3, <3>1 DEF Stamp
      <4>2. (now - now) * PerMinute = 0 /\ (now' - now') * PerMinute = 0
        BY <1>1, <1>2, <1>3
      <4>3. /\ Refilled(k) = Least(Capacity * Minute, tokens[k] + 0)
            /\ Refilled(k)' = Least(Capacity * Minute, tokens[k] + 0)
        BY <1>3, <2>1, <4>1, <4>2 DEF Refilled, Least
      <4>4. QED
        BY <2>2, <4>3
    <3>2. CASE lastRefill[k] # Never
      <4>1. Stamp(lastRefill[k]) = lastRefill[k] /\ Stamp(lastRefill[k])' = lastRefill[k]
        BY <1>3, <3>2 DEF Stamp
      <4>2. lastRefill[k] \in Nat
        BY <2>1, <3>2
      <4>3. /\ (now' - lastRefill[k]) * PerMinute = (now - lastRefill[k]) * PerMinute + PerMinute
            /\ (now - lastRefill[k]) * PerMinute \in Nat
        <5> DEFINE gap == now - lastRefill[k]
        <5>1. gap \in Nat /\ now' - lastRefill[k] = gap + 1
          BY <1>1, <1>3, <2>1, <4>2
        <5> HIDE DEF gap
        <5>2. (gap + 1) * PerMinute = gap * PerMinute + PerMinute /\ gap * PerMinute \in Nat
          BY <1>2, <5>1
        <5>3. QED
          BY <5>1, <5>2 DEF gap
      <4>4. /\ Refilled(k) = Least(Capacity * Minute, tokens[k] + (now - lastRefill[k]) * PerMinute)
            /\ Refilled(k)' = Least(Capacity * Minute,
                                    tokens[k] + ((now - lastRefill[k]) * PerMinute + PerMinute))
        BY <1>3, <2>1, <4>1, <4>3 DEF Refilled, Least
      <4>5. QED
        BY <1>2, <2>1, <4>3, <4>4 DEF Least
    <3>3. QED
      BY <3>1, <3>2
  <2>4. Free(k) = Refilled(k) \div Minute /\ Free(k)' = Refilled(k)' \div Minute
    BY <1>1, <1>3, <1>6 DEF FreeIs
  <2> DEFINE before == Refilled(k)
             after == Refilled(k)'
  <2>5. before \in Nat /\ after \in Nat /\ before <= after
    BY <2>2, <2>3
  <2> HIDE DEF before, after
  <2>6. before \div Minute <= after \div Minute
    BY <1>2, <2>5, DivFacts
  <2>7. QED
    BY <2>4, <2>6 DEF before, after
<1>7. QED
  BY <1>1, <1>4, <1>5, <1>6, Parameters DEF TypeOK

LEMMA PromiseInit == Init => Promise!Init
<1> SUFFICES ASSUME Init PROVE Promise!Init
  OBVIOUS
<1>1. \A k \in Keys : Free(k) \in 0 .. Room
  BY RateInit, FreeBounds
<1>2. \A k \in Keys : Room - Free(k) \in 0 .. Room
  BY <1>1, Parameters
<1>3. concurrent = [k \in Keys |-> 0]
  BY DEF Init
<1>4. QED
  BY <1>2, <1>3 DEF Promise!Init

(* Each step of the limiter is a step of the quota or changes nothing it   *)
(* tells.                                                                  *)
LEMMA PromiseNext ==
  RateInv /\ RateInv' /\ [Next]_vars => [Promise!Next]_(Promise!quota)
<1> SUFFICES ASSUME RateInv, RateInv', [Next]_vars
             PROVE  Promise!Next \/ UNCHANGED Promise!quota
  BY DEF Promise!quota
<1> DEFINE used == [k \in Keys |-> Room - Free(k)]
<1>1. \A k \in Keys : Free(k) \in 0 .. Room /\ Free(k)' \in 0 .. Room
  <2>1. (RateInv => \A k \in Keys : Free(k) \in 0 .. Room)'
    BY FreeBounds, PTL
  <2>2. QED
    BY <2>1, FreeBounds DEF Room
<1>2. /\ used \in [Keys -> 0 .. Room] /\ used' \in [Keys -> 0 .. Room]
      /\ \A k \in Keys : used[k] = Room - Free(k) /\ used'[k] = Room - Free(k)'
  BY <1>1, Parameters DEF Room
<1>3. /\ TypeOK /\ Recorded /\ TypeOK' /\ now \in Nat /\ concurrent \in [Keys -> Nat]
      /\ slotOf \in [Callers -> Keys \cup {NoKey}]
      /\ lastRefill \in [Keys -> Nat \cup {Never}] /\ windowStart \in [Keys -> Nat \cup {Never}]
  BY DEF RateInv, TypeOK
<1>4. ASSUME \A k \in Keys : Free(k)' = Free(k)
      PROVE  used' = used
  BY <1>4 DEF Room
<1>5. ASSUME NEW k \in Keys, strategy' = strategy, now' = now,
             callHistory'[k] = callHistory[k], tokens'[k] = tokens[k],
             lastRefill'[k] = lastRefill[k], windowCalls'[k] = windowCalls[k],
             windowStart'[k] = windowStart[k]
      PROVE  Free(k)' = Free(k)
  <2>1. Stamp(lastRefill[k])' = Stamp(lastRefill[k]) /\ Stamp(windowStart[k])' = Stamp(windowStart[k])
    BY <1>5 DEF Stamp
  <2>2. QED
    BY <1>5, <2>1, FreeUnmoved
<1>6. ASSUME UNCHANGED <<strategy, now, windows>>
      PROVE  used' = used
  <2>1. \A k \in Keys : Free(k)' = Free(k)
    BY <1>5, <1>6 DEF windows
  <2>2. QED
    BY <1>4, <2>1
<1> HIDE DEF used
<1>7. ASSUME NEW tool \in Tools, Peek(tool)
      PROVE  UNCHANGED <<used, concurrent>>
  <2>1. /\ UNCHANGED <<strategy, now, callHistory, tokens, windowCalls, concurrent>>
        /\ \/ /\ lastRefill' = [lastRefill EXCEPT ![KeyOf(tool)] = Stamp(@)]
              /\ windowStart' = windowStart
           \/ /\ windowStart' = [windowStart EXCEPT ![KeyOf(tool)] = Stamp(@)]
              /\ lastRefill' = lastRefill
    BY <1>7 DEF Peek
  <2>2. ASSUME NEW k \in Keys PROVE Free(k)' = Free(k)
    <3>1. /\ lastRefill'[k] \in {lastRefill[k], Stamp(lastRefill[k])}
          /\ windowStart'[k] \in {windowStart[k], Stamp(windowStart[k])}
      BY <1>3, <2>1
    <3>2. /\ Stamp(lastRefill[k])' = Stamp(lastRefill[k])
          /\ Stamp(windowStart[k])' = Stamp(windowStart[k])
      BY <1>3, <2>1, <3>1 DEF Stamp
    <3>3. QED
      BY <2>1, <3>2, FreeUnmoved
  <2>3. QED
    BY <1>4, <2>1, <2>2 DEF used
<1>8. ASSUME NEW key \in Keys, NEW granted \in BOOLEAN, Check(key, granted),
             ~ SlotsFull(key), granted <=> ~ Refuses(key), strategy' = strategy, now' = now
      PROVE  /\ used' = IF granted THEN [used EXCEPT ![key] = @ + 1] ELSE used
             /\ granted => used[key] < Room
  <2>1. /\ Free(key)' = Free(key) - (IF granted THEN 1 ELSE 0)
        /\ granted => Free(key) >= 1
    BY <1>8, FreeChecked
  <2>2. ASSUME NEW k \in Keys, k # key PROVE Free(k)' = Free(k)
    <3>1. /\ callHistory'[k] = callHistory[k] /\ tokens'[k] = tokens[k]
          /\ lastRefill'[k] = lastRefill[k] /\ windowCalls'[k] = windowCalls[k]
          /\ windowStart'[k] = windowStart[k]
      BY <1>3, <1>8, <2>2 DEF Check, TypeOK
    <3>2. QED
      BY <1>5, <1>8, <3>1
  <2>3. Room \in Nat /\ Free(key) \in 0 .. Room
    BY <1>1, Parameters
  <2>4. granted => used[key] < Room
    BY <1>2, <2>1, <2>3
  <2>5. \A k \in Keys : used'[k] = IF granted /\ k = key THEN used[k] + 1 ELSE used[k]
    BY <1>2, <2>1, <2>2, <2>3
  <2>6. used' = IF granted THEN [used EXCEPT ![key] = @ + 1] ELSE used
    BY <1>2, <2>5
  <2>7. QED
    BY <2>4, <2>6
<1>9. ASSUME NEW c \in Callers, NEW tool \in Tools, Acquire(c, tool)
      PROVE  \E k \in Keys : Promise!Take(k)
  <2> DEFINE key == KeyOf(tool)
  <2>1. key \in Keys /\ ~ Refuses(key) /\ ~ SlotsFull(key) /\ Check(key, TRUE)
        /\ strategy' = strategy /\ now' = now
        /\ concurrent' = [concurrent EXCEPT ![key] = @ + 1]
    BY <1>9 DEF Acquire, Refuses, Keys
  <2> HIDE DEF key
  <2>2. used' = [used EXCEPT ![key] = @ + 1] /\ used[key] < Room
    BY <1>8, <2>1
  <2>3. concurrent[key] < MaxConcurrent
    BY <1>3, <2>1, Parameters DEF SlotsFull
  <2>4. Promise!Take(key)
    BY <2>1, <2>2, <2>3 DEF Promise!Take, used, Room
  <2>5. QED
    BY <2>1, <2>4
<1>10. ASSUME NEW c \in Callers, NEW tool \in Tools, AcquireRefused(c, tool)
       PROVE  UNCHANGED <<used, concurrent>>
  <2> DEFINE key == KeyOf(tool)
  <2>1. key \in Keys /\ Refuses(key) /\ UNCHANGED <<strategy, now, concurrent>>
        /\ IF SlotsFull(key) THEN UNCHANGED windows ELSE Check(key, FALSE)
    BY <1>10 DEF AcquireRefused, Keys
  <2> HIDE DEF key
  <2>2. CASE SlotsFull(key)
    BY <1>6, <2>1, <2>2
  <2>3. CASE ~ SlotsFull(key)
    BY <1>8, <2>1, <2>3
  <2>4. QED
    BY <2>2, <2>3
<1>11. ASSUME NEW c \in Callers, Release(c)
       PROVE  \E k \in Keys : Promise!Give(k)
  <2>1. /\ slotOf[c] \in Keys /\ UNCHANGED <<strategy, now, windows>>
        /\ concurrent' = [concurrent EXCEPT ![slotOf[c]] = IF @ > 0 THEN @ - 1 ELSE 0]
    BY <1>3, <1>11 DEF Release, GiveBack
  <2>2. used' = used
    BY <1>6, <2>1
  <2>3. Promise!Give(slotOf[c])
    BY <2>1, <2>2 DEF Promise!Give, used
  <2>4. QED
    BY <2>1, <2>3
<1>12. ASSUME NEW cleared \in SUBSET Keys, NEW start, Reset(cleared, start)
       PROVE  Promise!Clear
  <2>1. /\ callHistory' = [k \in Keys |-> IF k \in cleared THEN <<>> ELSE callHistory[k]]
        /\ tokens' = [k \in Keys |-> IF k \in cleared THEN PerMinute * Minute ELSE tokens[k]]
        /\ lastRefill' = [k \in Keys |-> IF k \in cleared THEN start ELSE lastRefill[k]]
        /\ windowCalls' = [k \in Keys |-> IF k \in cleared THEN 0 ELSE windowCalls[k]]
        /\ windowStart' = [k \in Keys |-> IF k \in cleared THEN start ELSE windowStart[k]]
        /\ concurrent' = [k \in Keys |-> IF k \in cleared THEN 0 ELSE concurrent[k]]
        /\ strategy' = strategy /\ now' = now
    BY <1>12 DEF Reset
  <2>2. ASSUME NEW k \in Keys \ cleared PROVE Free(k)' = Free(k)
    BY <1>5, <2>1, <2>2
  <2>3. \A k \in Keys \ cleared : used'[k] = used[k]
    BY <1>2, <2>2
  <2>4. QED
    BY <1>2, <2>1, <2>3 DEF Promise!Clear, used, Room
<1>13. ASSUME Tick
       PROVE  Promise!Slide
  <2>1. concurrent' = concurrent
    BY <1>13 DEF Tick
  <2>2. ASSUME NEW k \in Keys PROVE used'[k] <= used[k]
    <3>1. Free(k) <= Free(k)'
      BY <1>13, FreeTick
    <3>2. Room \in Nat /\ Free(k) \in 0 .. Room /\ Free(k)' \in 0 .. Room
      BY <1>1, Parameters
    <3>3. QED
      BY <1>2, <3>1, <3>2
  <2>3. QED
    BY <1>2, <2>1, <2>2 DEF Promise!Slide, used, Room
<1>14. CASE UNCHANGED vars
  BY <1>6, <1>14 DEF vars, Promise!quota, used
<1>15. ASSUME UNCHANGED <<used, concurrent>> PROVE UNCHANGED Promise!quota
  BY <1>15 DEF Promise!quota, used
<1>16. ASSUME NEW tool \in Tools, ResetTool(tool) PROVE Promise!Clear
  <2>1. {KeyOf(tool)} \in SUBSET Keys
    BY DEF Keys
  <2>2. QED
    BY <1>12, <1>16, <2>1 DEF ResetTool
<1>17. ASSUME ResetAll PROVE Promise!Clear
  BY <1>12, <1>17 DEF ResetAll
<1>18. QED
  BY <1>7, <1>9, <1>10, <1>11, <1>13, <1>14, <1>15, <1>16, <1>17 DEF Next, Promise!Next

(* Whatever its strategy, the limiter implements a quota: a call is let    *)
(* through only while its key has a slot and room, which it takes; only    *)
(* time and an operator's reset give room back.                            *)
THEOREM LimiterKeepsQuota == Spec => KeepsQuota
<1>1. Init => Promise!Init
  BY PromiseInit
<1>2. RateInv /\ RateInv' /\ [Next]_vars => [Promise!Next]_(Promise!quota)
  BY PromiseNext
<1>3. QED
  BY <1>1, <1>2, RateInit, RateNext, PTL DEF Spec, KeepsQuota, Promise!Spec

-----------------------------------------------------------------------------
(* The slots counted, for any interleaving of callers and resets           *)

SlotsType ==
  /\ concurrent \in [Keys -> Nat]
  /\ slotOf \in [Callers -> Keys \cup {NoKey}]

SlotsInv == SlotsType /\ SlotsCounted

LEMMA HoldersFinite ==
  ASSUME NEW k
  PROVE  IsFiniteSet(Holders(k)) /\ Cardinality(Holders(k)) \in Nat
<1>1. Holders(k) \subseteq Callers
  BY DEF Holders
<1>2. QED
  BY <1>1, FS_Subset, FS_CardinalityType, LimiterAssumption

LEMMA SlotsInit == Init => SlotsInv
<1> SUFFICES ASSUME Init PROVE SlotsInv
  OBVIOUS
<1>1. \A k \in Keys : Holders(k) = {} /\ concurrent[k] = 0
  BY KeyAssumption DEF Init, Holders
<1>2. Cardinality({}) = 0
  BY FS_EmptySet
<1>3. SlotsCounted
  BY <1>1, <1>2 DEF SlotsCounted
<1>4. QED
  BY <1>3 DEF Init, SlotsInv, SlotsType

(* Steps that change neither the counters nor who holds a slot.            *)
LEMMA SlotsKept ==
  ASSUME SlotsInv, UNCHANGED <<concurrent, slotOf, disturbed>>
  PROVE  SlotsInv'
BY DEF SlotsInv, SlotsType, SlotsCounted, Holders

LEMMA SlotsAcquire ==
  ASSUME SlotsInv, NEW c \in Callers, NEW tool \in Tools, Acquire(c, tool)
  PROVE  SlotsInv'
<1> DEFINE key == KeyOf(tool)
<1>1. key \in Keys
  BY DEF Keys
<1>2. /\ slotOf[c] = NoKey
      /\ concurrent' = [concurrent EXCEPT ![key] = @ + 1]
      /\ slotOf' = [slotOf EXCEPT ![c] = key]
      /\ disturbed' = disturbed
  BY DEF Acquire
<1>3. SlotsType'
  BY <1>1, <1>2 DEF SlotsInv, SlotsType
<1>4. ASSUME NEW k \in Keys
      PROVE  \/ concurrent'[k] = concurrent[k] /\ Holders(k)' = Holders(k)
             \/ /\ concurrent'[k] = concurrent[k] + 1
                /\ Cardinality(Holders(k)') = Cardinality(Holders(k)) + 1
  <2>1. CASE k = key
    <3>1. c \notin Holders(k)
      BY <1>2, KeyAssumption DEF Holders
    <3>2. Holders(k)' = Holders(k) \cup {c}
      BY <1>2, <2>1 DEF Holders, SlotsInv, SlotsType
    <3>3. Cardinality(Holders(k)') = Cardinality(Holders(k)) + 1
      BY <3>1, <3>2, HoldersFinite, FS_AddElement
    <3>4. concurrent'[k] = concurrent[k] + 1
      BY <1>2, <2>1 DEF SlotsInv, SlotsType
    <3>5. QED
      BY <3>3, <3>4
  <2>2. CASE k # key
    <3>1. Holders(k)' = Holders(k)
      BY <1>2, <2>2, KeyAssumption DEF Holders, SlotsInv, SlotsType
    <3>2. concurrent'[k] = concurrent[k]
      BY <1>2, <2>2 DEF SlotsInv, SlotsType
    <3>3. QED
      BY <3>1, <3>2
  <2>3. QED
    BY <2>1, <2>2
<1>5. ASSUME NEW k \in Keys
      PROVE  /\ concurrent'[k] <= Cardinality(Holders(k)')
             /\ k \notin disturbed' => concurrent'[k] = Cardinality(Holders(k)')
  <2>1. /\ concurrent[k] \in Nat /\ Cardinality(Holders(k)) \in Nat
        /\ concurrent[k] <= Cardinality(Holders(k))
        /\ k \notin disturbed => concurrent[k] = Cardinality(Holders(k))
    BY HoldersFinite DEF SlotsInv, SlotsType, SlotsCounted
  <2>2. QED
    BY <1>2, <1>4, <2>1
<1>6. QED
  BY <1>3, <1>5 DEF SlotsInv, SlotsCounted

LEMMA SlotsRelease ==
  ASSUME SlotsInv, NEW c \in Callers, Release(c)
  PROVE  SlotsInv'
<1> DEFINE key == slotOf[c]
<1>1. key \in Keys
  BY DEF Release, SlotsInv, SlotsType
<1>2. /\ slotOf' = [slotOf EXCEPT ![c] = NoKey]
      /\ disturbed' = disturbed
  BY DEF Release
<1>3. \A k \in Keys : concurrent'[k] =
        IF k = key /\ concurrent[k] > 0 THEN concurrent[k] - 1 ELSE concurrent[k]
  BY <1>1 DEF Release, GiveBack, SlotsInv, SlotsType
<1>4. SlotsType'
  <2>1. DOMAIN concurrent' = Keys /\ concurrent' = [k \in Keys |-> concurrent'[k]]
    BY DEF Release, SlotsInv, SlotsType
  <2>2. \A k \in Keys : concurrent'[k] \in Nat
    BY <1>3 DEF SlotsInv, SlotsType
  <2>3. QED
    BY <1>2, <2>1, <2>2 DEF SlotsInv, SlotsType
<1>5. ASSUME NEW k \in Keys
      PROVE  /\ concurrent'[k] <= Cardinality(Holders(k)')
             /\ k \notin disturbed' => concurrent'[k] = Cardinality(Holders(k)')
  <2>1. /\ concurrent[k] \in Nat /\ Cardinality(Holders(k)) \in Nat
        /\ concurrent[k] <= Cardinality(Holders(k))
        /\ k \notin disturbed => concurrent[k] = Cardinality(Holders(k))
    BY HoldersFinite DEF SlotsInv, SlotsType, SlotsCounted
  <2>2. CASE k = key
    <3>1. c \in Holders(k)
      BY <2>2 DEF Holders
    <3>2. Holders(k)' = Holders(k) \ {c}
      BY <1>2, <2>2, KeyAssumption DEF Holders, SlotsInv, SlotsType
    <3>3. Cardinality(Holders(k)') = Cardinality(Holders(k)) - 1
      BY <3>1, <3>2, HoldersFinite, FS_RemoveElement
    <3>4. Cardinality(Holders(k)) > 0
      BY <2>1, <3>1, HoldersFinite, FS_EmptySet
    <3>5. concurrent'[k] = IF concurrent[k] > 0 THEN concurrent[k] - 1 ELSE concurrent[k]
      BY <1>3, <2>2
    <3>6. QED
      BY <1>2, <2>1, <3>3, <3>4, <3>5
  <2>3. CASE k # key
    <3>1. Holders(k)' = Holders(k)
      BY <1>2, <2>3, KeyAssumption DEF Holders, SlotsInv, SlotsType
    <3>2. QED
      BY <1>2, <1>3, <2>1, <2>3, <3>1
  <2>4. QED
    BY <2>2, <2>3
<1>6. QED
  BY <1>4, <1>5 DEF SlotsInv, SlotsCounted

(* A cleared key counts nothing, which is its holders' number only if it   *)
(* has none.                                                               *)
LEMMA SlotsReset ==
  ASSUME SlotsInv, NEW cleared, NEW start, Reset(cleared, start)
  PROVE  SlotsInv'
<1>1. /\ concurrent' = [k \in Keys |-> IF k \in cleared THEN 0 ELSE concurrent[k]]
      /\ slotOf' = slotOf
      /\ disturbed' = disturbed \cup {k \in cleared : Holders(k) # {}}
  BY DEF Reset
<1>2. SlotsType'
  BY <1>1 DEF SlotsInv, SlotsType
<1>3. ASSUME NEW k \in Keys
      PROVE  /\ concurrent'[k] <= Cardinality(Holders(k)')
             /\ k \notin disturbed' => concurrent'[k] = Cardinality(Holders(k)')
  <2>1. Holders(k)' = Holders(k) /\ Cardinality(Holders(k)) \in Nat
    BY <1>1, HoldersFinite DEF Holders
  <2>2. CASE k \in cleared
    <3>1. concurrent'[k] = 0
      BY <1>1, <2>2
    <3>2. k \notin disturbed' => Cardinality(Holders(k)) = 0
      BY <1>1, <2>2, FS_EmptySet
    <3>3. QED
      BY <2>1, <3>1, <3>2
  <2>3. CASE k \notin cleared
    BY <1>1, <2>1, <2>3 DEF SlotsInv, SlotsCounted
  <2>4. QED
    BY <2>2, <2>3
<1>4. QED
  BY <1>2, <1>3 DEF SlotsInv, SlotsCounted

LEMMA SlotsNext == SlotsInv /\ [Next]_vars => SlotsInv'
<1> SUFFICES ASSUME SlotsInv, [Next]_vars PROVE SlotsInv'
  OBVIOUS
<1>1. ASSUME NEW c \in Callers, NEW tool \in Tools, Acquire(c, tool)
      PROVE  SlotsInv'
  BY <1>1, SlotsAcquire
<1>2. ASSUME NEW c \in Callers, Release(c)
      PROVE  SlotsInv'
  BY <1>2, SlotsRelease
<1>3. CASE ResetAll \/ \E tool \in Tools : ResetTool(tool)
  BY <1>3, SlotsReset DEF ResetAll, ResetTool
<1>4. CASE \/ \E tool \in Tools : Peek(tool)
           \/ \E c \in Callers, tool \in Tools : AcquireRefused(c, tool)
           \/ Tick
           \/ UNCHANGED vars
  <2>1. UNCHANGED <<concurrent, slotOf, disturbed>>
    BY <1>4 DEF Peek, AcquireRefused, Tick, vars
  <2>2. QED
    BY <2>1, SlotsKept
<1>5. QED
  BY <1>1, <1>2, <1>3, <1>4 DEF Next

(* The limiter's counter of a key never exceeds the slots callers hold,    *)
(* and is exactly their number unless the key was reset under a holder: no *)
(* reset and no late release can shut a key for good.                      *)
THEOREM SlotsStayCounted == Spec => []SlotsCounted
<1>1. SlotsInv => SlotsCounted
  BY DEF SlotsInv
<1>2. QED
  BY <1>1, SlotsInit, SlotsNext, PTL DEF Spec
=============================================================================
