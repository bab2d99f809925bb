---------------------------- MODULE RetrievalProofs ----------------------------
(***************************************************************************)
(* Retrieval for any tasks, items, embedders, requests and bounds.  A      *)
(* search of the skills that answers has compared the query with vectors   *)
(* of this process's embedder only, but for those a migration made whose   *)
(* marker was never set; the tables of tools and skills hold, and tell of, *)
(* just what was written; and an answer is the best there is of what its   *)
(* request allows.                                                         *)
(*                                                                         *)
(* The embedder.  The marker names the embedder of the whole table, save   *)
(* the exceptions, as long as nobody is between writing the new vectors    *)
(* and setting the marker.  The lock lets one task migrate, and the flag   *)
(* of the process, which every other user of the skills waits for, is up   *)
(* only when nobody migrates and the marker names this process's embedder; *)
(* so what is added, then, agrees with the marker.  A deletion may come at *)
(* any time, but takes rows away only.  The task that migrates has listed  *)
(* every row there is: what it deletes empties the table, and what it puts *)
(* back is by this embedder, with ids that it listed.  If it ends there,   *)
(* in a failure or a crash, these ids become exceptions to the marker.     *)
(*                                                                         *)
(* The tables.  Three things write in two steps, all of them LanceDB's:    *)
(* its upsert, the migration of the skills, and the opening of a table of  *)
(* an old schema.  Between the steps the ids in question have no rows      *)
(* (BrokenInv), and whoever deleted them holds what will be put back: a    *)
(* batch, or what was listed, which is right but for what others have      *)
(* deleted since (ClaimInv).  An id that nobody has deleted has what it    *)
(* should (MainInv).  Excepted are the marred ids: two tasks at one id     *)
(* disturb it, and an end half way tears or disturbs what is missing.  A   *)
(* step of one task concerns the ids it writes only, and another at work   *)
(* on one of those makes it marred (SettledStep); no writer of skills is   *)
(* at work during a migration, but a deletion may be.  A crash leaves      *)
(* nobody at work and every id right or marred (AllSettled).  What is read *)
(* of a table of which every id is right follows by counting: its rows and *)
(* what was written are one to one (Holds).                                *)
(*                                                                         *)
(* The answers.  Memory's caches hold the tables as they are (CacheInv),   *)
(* and what a task has found fits what it asked for (FoundInv): in every   *)
(* store the search gives the best of what fits the query, wherever it     *)
(* filters, cuts and compares with the threshold (SearchIsBest).  Scored   *)
(* and filtered, these are offers, all of them unless the store cut some   *)
(* (ScoredIs); the router's choice among offers is, place by place, worth  *)
(* the most after those before it, which for the diverse ones takes the    *)
(* running maximum of their nearness (PickedWell); and the bridge's        *)
(* threshold keeps a first part of it (PlainReply).  Sorts are insertions  *)
(* folded over the hits: they keep elements and differences, and cutting   *)
(* what they leave takes the best (TopIsBest).                             *)
(*                                                                         *)
(* The rows a fold or a filter leaves are shown to be the table's or the   *)
(* batch's: FlattenSeq and FoldLeft are defined with a CHOOSE of a         *)
(* recursive function, which exists because it does on every initial part. *)
(***************************************************************************)
EXTENDS Retrieval, SequenceTheorems, FiniteSetTheorems, WellFoundedInduction, TLAPS

-----------------------------------------------------------------------------
(* Sequences                                                               *)

(* A set of natural numbers has a least one.                               *)
LEMMA LeastNatural ==
  ASSUME NEW T \in SUBSET Nat, T # {}
  PROVE  \E n \in T : \A m \in T : n <= m
<1> DEFINE R == {p \in Nat \X Nat : p[1] < p[2]}
<1>1. IsWellFoundedOn(R, Nat)
  BY NatLessThanWellFounded DEF OpToRel
<1>2. \A m, n \in Nat : <<m, n>> \in R <=> m < n
  OBVIOUS
<1> HIDE DEF R
<1>3. \E n \in T : \A m \in T : ~ (<<m, n>> \in R)
  BY <1>1, WFMin
<1>4. PICK n \in T : \A m \in T : ~ (<<m, n>> \in R)
  BY <1>3
<1>5. ASSUME NEW m \in T PROVE n <= m
  <2>1. ~ (m < n)
    BY <1>2, <1>4
  <2>2. QED
    BY <2>1
<1>6. QED
  BY <1>5

(* A property of the numbers up to a bound that holds of 0 and passes from *)
(* a number to the next holds of all: T is the set of those that have it.  *)
LEMMA UpTo ==
  ASSUME NEW n \in Nat, NEW T, 0 \in T,
         \A k \in 0 .. n : k # 0 /\ k - 1 \in T => k \in T
  PROVE  \A k \in 0 .. n : k \in T
<1> DEFINE Bad == {k \in 0 .. n : k \notin T}
<1>1. SUFFICES ASSUME Bad # {} PROVE FALSE
  OBVIOUS
<1>2. Bad \in SUBSET Nat
  OBVIOUS
<1>3. PICK k \in Bad : \A m \in Bad : k <= m
  <2> HIDE DEF Bad
  <2>1. QED
    BY <1>1, <1>2, LeastNatural
<1>4. k \in 0 .. n /\ k # 0
  OBVIOUS
<1>5. k - 1 \in 0 .. n /\ ~ (k <= k - 1)
  BY <1>4
<1>6. k - 1 \in T
  BY <1>3, <1>5
<1>7. QED
  BY <1>4, <1>6

(* What FlattenSeq computes on the first m sequences.                      *)
Flattens(f, ss, m) ==
  f = [i \in 1 .. m |-> IF i = 1 THEN ss[i] ELSE f[i - 1] \o ss[i]]

(* The folds of every number of sequences exist, one built on the other.   *)
LEMMA FlattenExists ==
  ASSUME NEW ss, NEW n \in Nat
  PROVE  \E f : Flattens(f, ss, n)
<1> DEFINE T == {m \in Nat : \E f : Flattens(f, ss, m)}
<1>1. 0 \in T
  <2> DEFINE f == [i \in 1 .. 0 |-> ss]
  <2>1. 1 .. 0 = {}
    OBVIOUS
  <2>2. f = [i \in 1 .. 0 |-> IF i = 1 THEN ss[i] ELSE f[i - 1] \o ss[i]]
    BY <2>1
  <2>3. QED
    BY <2>2 DEF Flattens
<1>2. ASSUME NEW k \in 0 .. n, k # 0, k - 1 \in T
      PROVE  k \in T
  <2>1. PICK f : Flattens(f, ss, k - 1)
    BY <1>2
  <2> DEFINE g == [i \in 1 .. k |-> IF i = 1 THEN ss[i]
                                    ELSE IF i = k THEN f[k - 1] \o ss[k] ELSE f[i]]
  <2>2. \A i \in 1 .. k - 1 : f[i] = IF i = 1 THEN ss[i] ELSE f[i - 1] \o ss[i]
    BY <2>1 DEF Flattens
  <2>3. \A i \in 1 .. k : i # 1 => i - 1 \in 1 .. k /\ (i # k => i \in 1 .. k - 1)
    BY <1>2
  <2>4. \A i \in 1 .. k - 1 : i \in 1 .. k /\ i # k
    BY <1>2
  <2>5. \A i \in 1 .. k - 1 : g[i] = f[i]
    BY <2>2, <2>4
  <2>6. ASSUME NEW i \in 1 .. k
        PROVE  g[i] = IF i = 1 THEN ss[i] ELSE g[i - 1] \o ss[i]
    <3>1. CASE i = 1
      BY <3>1
    <3>2. CASE i # 1
      <4>1. i - 1 \in 1 .. k - 1
        BY <1>2, <3>2
      <4>2. g[i - 1] = f[i - 1]
        BY <2>5, <4>1
      <4>3. CASE i = k
        BY <3>2, <4>2, <4>3
      <4>4. CASE i # k
        BY <2>2, <2>3, <3>2, <4>2, <4>4
      <4>5. QED
        BY <4>3, <4>4
    <3>3. QED
      BY <3>1, <3>2
  <2>7. g = [i \in 1 .. k |-> g[i]]
    OBVIOUS
  <2> HIDE DEF g
  <2>8. Flattens(g, ss, k)
    BY <2>6, <2>7 DEF Flattens
  <2>9. k \in Nat
    OBVIOUS
  <2>10. QED
    BY <2>8, <2>9
<1> HIDE DEF T
<1>3. n \in T
  BY <1>1, <1>2, UpTo
<1>4. QED
  BY <1>3 DEF T

(* Flattening takes one sequence after the other.                          *)
LEMMA FlattenSteps ==
  ASSUME NEW S, NEW ss \in Seq(Seq(S))
  PROVE  \E K \in [0 .. Len(ss) -> Seq(S)] :
           /\ K[0] = <<>>
           /\ \A k \in 1 .. Len(ss) : K[k] = K[k - 1] \o ss[k]
           /\ FlattenSeq(ss) = K[Len(ss)]
<1> DEFINE n == Len(ss)
           F == CHOOSE f : Flattens(f, ss, n)
           K == [k \in 0 .. n |-> IF k = 0 THEN <<>> ELSE F[k]]
<1>1. n \in Nat /\ DOMAIN ss = 1 .. n /\ \A i \in 1 .. n : ss[i] \in Seq(S)
  OBVIOUS
<1>2. Flattens(F, ss, n)
  BY <1>1, FlattenExists
<1>3. FlattenSeq(ss) = IF n = 0 THEN ss ELSE F[n]
  BY DEF FlattenSeq, Flattens
<1> HIDE DEF n, F
<1>4. \A i \in 1 .. n : F[i] = IF i = 1 THEN ss[i] ELSE F[i - 1] \o ss[i]
  BY <1>2 DEF Flattens
<1>5. K[0] = <<>>
  BY <1>1
<1>6. ASSUME NEW k \in 1 .. n
      PROVE  K[k] = K[k - 1] \o ss[k]
  <2>1. k \in 0 .. n /\ k - 1 \in 0 .. n /\ k # 0 /\ ss[k] \in Seq(S)
    BY <1>1
  <2>2. CASE k = 1
    <3>1. K[k] = ss[k] /\ K[k - 1] = <<>>
      BY <1>4, <2>1, <2>2
    <3> HIDE DEF K
    <3>2. QED
      BY <2>1, <3>1
  <2>3. CASE k # 1
    <3>1. k - 1 # 0 /\ K[k] = F[k] /\ K[k - 1] = F[k - 1]
      BY <2>1, <2>3
    <3> HIDE DEF K
    <3>2. QED
      BY <1>4, <2>3, <3>1
  <2>4. QED
    BY <2>2, <2>3
<1>7. FlattenSeq(ss) = K[n]
  <2>1. n \in 0 .. n
    BY <1>1
  <2>2. n = 0 => ss = <<>>
    BY DEF n
  <2>3. QED
    BY <1>3, <2>1, <2>2
<1>8. K \in [0 .. n -> Seq(S)]
  <2> DEFINE T == {k \in 0 .. n : K[k] \in Seq(S)}
  <2>1. 0 \in T
    BY <1>1, <1>5
  <2>2. ASSUME NEW k \in 0 .. n, k # 0, k - 1 \in T
        PROVE  k \in T
    <3>1. k \in 1 .. n /\ K[k - 1] \in Seq(S) /\ ss[k] \in Seq(S)
      BY <1>1, <2>2
    <3>2. K[k] = K[k - 1] \o ss[k]
      BY <1>6, <3>1
    <3>3. K[k] \in Seq(S)
      <4> HIDE DEF K
      <4>1. QED
        BY <3>1, <3>2
    <3>4. QED
      BY <3>3
  <2>3. \A k \in 0 .. n : k \in T
    <3> HIDE DEF T
    <3>1. QED
      BY <1>1, <2>1, <2>2, UpTo
  <2>4. QED
    BY <2>3
<1> HIDE DEF K
<1>9. QED
  BY <1>5, <1>6, <1>7, <1>8 DEF n

(* Flattening sequences over a set gives a sequence over the set.          *)
LEMMA FlattenType ==
  ASSUME NEW S, NEW ss \in Seq(Seq(S))
  PROVE  FlattenSeq(ss) \in Seq(S)
<1>1. PICK K \in [0 .. Len(ss) -> Seq(S)] : FlattenSeq(ss) = K[Len(ss)]
  BY FlattenSteps
<1>2. Len(ss) \in 0 .. Len(ss)
  OBVIOUS
<1>3. QED
  BY <1>1, <1>2

(* A set of numbers up to m + 1 that has m + 1 has it for its greatest.    *)
LEMMA MaxOfInterval ==
  ASSUME NEW m \in Nat, NEW S \in SUBSET (1 .. m + 1), m + 1 \in S
  PROVE  Max(S) = m + 1
<1>1. m + 1 \in S /\ \A y \in S : m + 1 >= y
  OBVIOUS
<1>2. Max(S) \in S /\ \A y \in S : Max(S) >= y
  BY <1>1 DEF Max
<1>3. Max(S) \in 1 .. m + 1 /\ Max(S) >= m + 1
  BY <1>2
<1>4. QED
  BY <1>3

(* What is left of a sequence over R is one over Q when Q has those        *)
(* elements of R that P keeps: kept is the sequence's elements, each in a  *)
(* sequence of its own or none.                                            *)
LEMMA KeptType ==
  ASSUME NEW R, NEW Q, NEW s \in Seq(R), NEW kept,
         kept = [n \in DOMAIN s |-> kept[n]],
         \A n \in DOMAIN s : kept[n] \in Seq(Q)
  PROVE  FlattenSeq(kept) \in Seq(Q)
<1>1. Len(s) \in Nat /\ DOMAIN s = 1 .. Len(s)
  OBVIOUS
<1>2. kept \in [1 .. Len(s) -> Seq(Q)]
  BY <1>1
<1>3. kept \in Seq(Seq(Q))
  BY <1>1, <1>2
<1>4. QED
  BY <1>3, FlattenType

(* What is deleted from a table leaves the other rows.                     *)
LEMMA WithoutType ==
  ASSUME NEW R, NEW Q, NEW table \in Seq(R), NEW ids,
         \A r \in R : RowId(r) \notin ids => r \in Q
  PROVE  Without(table, ids) \in Seq(Q)
<1> DEFINE kept == [n \in DOMAIN table |-> IF RowId(table[n]) \notin ids THEN <<table[n]>> ELSE <<>>]
<1>1. \A n \in DOMAIN table : table[n] \in R
  OBVIOUS
<1>2. \A n \in DOMAIN table : kept[n] \in Seq(Q)
  BY <1>1
<1>3. kept = [n \in DOMAIN table |-> kept[n]]
  OBVIOUS
<1>4. Without(table, ids) = FlattenSeq(kept)
  BY DEF Without, Those
<1> HIDE DEF kept
<1>5. QED
  BY <1>2, <1>3, <1>4, KeptType

(* A set of numbers up to n that has any has a greatest.                   *)
LEMMA MaxExists ==
  ASSUME NEW n \in Nat, NEW S \in SUBSET (1 .. n), S # {}
  PROVE  Max(S) \in S /\ \A y \in S : Max(S) >= y
<1> DEFINE T == {n - x : x \in S}
<1>1. T \in SUBSET Nat /\ T # {}
  <2>1. PICK x \in S : TRUE
    OBVIOUS
  <2>2. n - x \in T
    BY <2>1
  <2>3. \A y \in S : n - y \in Nat
    OBVIOUS
  <2>4. QED
    BY <2>2, <2>3
<1>2. PICK d \in T : \A m \in T : d <= m
  <2> HIDE DEF T
  <2>1. QED
    BY <1>1, LeastNatural
<1>3. PICK x \in S : d = n - x
  BY <1>2
<1>4. \A y \in S : n - y \in T /\ x >= y
  BY <1>2, <1>3
<1>5. QED
  BY <1>4 DEF Max

(* A left fold that computes a step by table lookup: g of a set of         *)
(* positions is what the elements at these make of the base.               *)
Folds(g, base, G, s, m) ==
  \A S \in SUBSET (1 .. m) :
    g[S] = IF S = {} THEN base ELSE G[<<g[S \ {Max(S)}], s[Max(S)]>>]

(* Such a fold exists, and stays in A, when each step does.                *)
LEMMA FoldExists ==
  ASSUME NEW A, NEW E, NEW D, \A a \in A, x \in E : <<a, x>> \in D,
         NEW base \in A, NEW G \in [D -> A], NEW s \in Seq(E)
  PROVE  \E g \in [SUBSET (1 .. Len(s)) -> A] : Folds(g, base, G, s, Len(s))
<1> DEFINE n == Len(s)
<1>0. n \in Nat /\ \A i \in 1 .. n : s[i] \in E
  OBVIOUS
<1> HIDE DEF n
<1> DEFINE T == {m \in 0 .. n : \E g \in [SUBSET (1 .. m) -> A] : Folds(g, base, G, s, m)}
<1>1. 0 \in T
  <2> DEFINE g == [S \in SUBSET (1 .. 0) |-> base]
  <2>1. SUBSET (1 .. 0) = {{}}
    OBVIOUS
  <2>2. Folds(g, base, G, s, 0) /\ g \in [SUBSET (1 .. 0) -> A]
    BY <2>1 DEF Folds
  <2> HIDE DEF g
  <2>3. \E f \in [SUBSET (1 .. 0) -> A] : Folds(f, base, G, s, 0)
    BY <2>2
  <2>4. 0 \in 0 .. n
    BY <1>0
  <2>5. QED
    BY <2>3, <2>4
<1>2. ASSUME NEW k \in 0 .. n, k # 0, k - 1 \in T
      PROVE  k \in T
  <2> DEFINE m == k - 1
  <2>1. m \in Nat /\ m + 1 = k /\ s[m + 1] \in E
    BY <1>0, <1>2
  <2>2. PICK f \in [SUBSET (1 .. m) -> A] : Folds(f, base, G, s, m)
    BY <1>2
  <2> HIDE DEF m
  <2> DEFINE g == [S \in SUBSET (1 .. m + 1) |->
                     IF m + 1 \in S THEN G[<<f[S \ {m + 1}], s[m + 1]>>] ELSE f[S]]
  <2>3. /\ \A S \in SUBSET (1 .. m + 1) : m + 1 \notin S => S \in SUBSET (1 .. m)
        /\ \A S \in SUBSET (1 .. m + 1) : S \ {m + 1} \in SUBSET (1 .. m)
        /\ SUBSET (1 .. m) \subseteq SUBSET (1 .. m + 1)
    BY <2>1
  <2>4. \A S \in SUBSET (1 .. m) : g[S] = f[S] /\ f[S] \in A
    BY <2>1, <2>3
  <2>5. \A S \in SUBSET (1 .. m) :
           f[S] = IF S = {} THEN base ELSE G[<<f[S \ {Max(S)}], s[Max(S)]>>]
    BY <2>2 DEF Folds
  <2>6. ASSUME NEW S \in SUBSET (1 .. m + 1)
        PROVE  g[S] = IF S = {} THEN base ELSE G[<<g[S \ {Max(S)}], s[Max(S)]>>]
    <3>1. CASE m + 1 \in S
      <4>1. Max(S) = m + 1
        BY <2>1, <3>1, MaxOfInterval
      <4>2. S \ {m + 1} \in SUBSET (1 .. m)
        BY <2>3
      <4>3. g[S] = G[<<f[S \ {m + 1}], s[m + 1]>>]
        BY <3>1
      <4>4. g[S \ {m + 1}] = f[S \ {m + 1}]
        BY <2>4, <4>2
      <4> HIDE DEF g
      <4>5. QED
        BY <3>1, <4>1, <4>3, <4>4
    <3>2. CASE m + 1 \notin S
      <4>1. S \in SUBSET (1 .. m) /\ S \ {Max(S)} \in SUBSET (1 .. m)
        BY <2>3, <3>2
      <4>2. g[S] = f[S] /\ g[S \ {Max(S)}] = f[S \ {Max(S)}]
        BY <2>4, <4>1
      <4> HIDE DEF g
      <4>3. QED
        BY <2>5, <4>1, <4>2
    <3>3. QED
      BY <3>1, <3>2
  <2>7. \A S \in SUBSET (1 .. m + 1) : g[S] \in A
    <3> SUFFICES ASSUME NEW S \in SUBSET (1 .. m + 1) PROVE g[S] \in A
      OBVIOUS
    <3>1. CASE m + 1 \in S
      <4>1. f[S \ {m + 1}] \in A
        BY <2>3, <2>4
      <4>2. <<f[S \ {m + 1}], s[m + 1]>> \in D
        BY <2>1, <4>1
      <4>3. G[<<f[S \ {m + 1}], s[m + 1]>>] \in A
        BY <4>2
      <4>4. QED
        BY <3>1, <4>3
    <3>2. CASE m + 1 \notin S
      BY <2>3, <2>4, <3>2
    <3>3. QED
      BY <3>1, <3>2
  <2>8. g = [S \in SUBSET (1 .. m + 1) |-> g[S]]
    OBVIOUS
  <2> HIDE DEF g
  <2>9. g \in [SUBSET (1 .. m + 1) -> A] /\ Folds(g, base, G, s, m + 1)
    BY <2>6, <2>7, <2>8 DEF Folds
  <2>10. QED
    BY <1>2, <2>1, <2>9
<1> HIDE DEF T
<1>3. n \in T
  <2>1. n \in Nat /\ n \in 0 .. n
    BY <1>0
  <2>2. \A k \in 0 .. n : k \in T
    BY <1>1, <1>2, <2>1, UpTo
  <2>3. QED
    BY <2>1, <2>2
<1>4. \E g \in [SUBSET (1 .. n) -> A] : Folds(g, base, G, s, n)
  BY <1>3 DEF T
<1>5. QED
  BY <1>4 DEF n

(* A fold over the positions, one after the other, ends in A when it       *)
(* begins there and each step stays there.                                 *)
LEMMA FoldStays ==
  ASSUME NEW A, NEW n \in Nat, NEW F, F[{}] \in A,
         \A k \in 1 .. n : F[1 .. k - 1] \in A => F[1 .. k] \in A
  PROVE  F[1 .. n] \in A
<1> DEFINE T == {k \in 0 .. n : F[1 .. k] \in A}
<1>1. 0 \in T
  <2>1. 1 .. 0 = {}
    OBVIOUS
  <2>2. QED
    BY <2>1
<1>2. ASSUME NEW k \in 0 .. n, k # 0, k - 1 \in T PROVE k \in T
  BY <1>2
<1> HIDE DEF T
<1>3. n \in T
  BY <1>1, <1>2, UpTo
<1>4. QED
  BY <1>3 DEF T

(* The greatest of the numbers up to k is k, and without it the numbers    *)
(* up to k - 1 remain.                                                     *)
LEMMA LastOfInterval ==
  ASSUME NEW k \in Nat \ {0}
  PROVE  Max(1 .. k) = k /\ (1 .. k) \ {k} = 1 .. k - 1 /\ 1 .. k # {}
<1>1. k - 1 \in Nat /\ (k - 1) + 1 = k /\ k \in 1 .. k
  OBVIOUS
<1>2. 1 .. k \in SUBSET (1 .. (k - 1) + 1) /\ (k - 1) + 1 \in 1 .. k
  BY <1>1
<1>3. Max(1 .. k) = (k - 1) + 1
  BY <1>1, <1>2, MaxOfInterval
<1>4. (1 .. k) \ {k} = 1 .. k - 1
  OBVIOUS
<1>5. QED
  BY <1>1, <1>3, <1>4

(* Sorting gives a sequence over the same set.                             *)
LEMMA PlacedType ==
  ASSUME NEW R, NEW ranked \in Seq(R), NEW h \in R
  PROVE  Placed(ranked, h) \in Seq(R)
<1> DEFINE before == [n \in DOMAIN ranked |-> IF ranked[n].score >= h.score THEN <<ranked[n]>> ELSE <<>>]
           after == [n \in DOMAIN ranked |-> IF ranked[n].score < h.score THEN <<ranked[n]>> ELSE <<>>]
<1>1. \A n \in DOMAIN ranked : before[n] \in Seq(R) /\ after[n] \in Seq(R)
  OBVIOUS
<1>2. before = [n \in DOMAIN ranked |-> before[n]] /\ after = [n \in DOMAIN ranked |-> after[n]]
  OBVIOUS
<1>3. Placed(ranked, h) = FlattenSeq(before) \o <<h>> \o FlattenSeq(after)
  BY DEF Placed, Those
<1> HIDE DEF before, after
<1>4. FlattenSeq(before) \in Seq(R) /\ FlattenSeq(after) \in Seq(R)
  BY <1>1, <1>2, KeptType
<1>5. QED
  BY <1>3, <1>4

(* Sorting neither adds nor changes an element.                            *)
LEMMA RankedType ==
  ASSUME NEW R, NEW hits \in Seq(R)
  PROVE  Ranked(hits) \in Seq(R)
<1> DEFINE n == Len(hits)
           Computes(f) == f = [S \in SUBSET (1 .. n) |->
             IF S = {} THEN <<>> ELSE Placed(f[S \ {Max(S)}], hits[Max(S)])]
           F == CHOOSE f : Computes(f)
<1>1. n \in Nat /\ DOMAIN hits = 1 .. n /\ \A i \in 1 .. n : hits[i] \in R
  OBVIOUS
<1>2. Ranked(hits) = F[1 .. n]
  BY <1>1 DEF Ranked, FoldLeft, MapThenFoldSet
<1> HIDE DEF n
<1>3. \E g : Computes(g)
  <2> DEFINE G == [p \in Seq(R) \X R |-> Placed(p[1], p[2])]
  <2>1. G \in [Seq(R) \X R -> Seq(R)]
    BY PlacedType
  <2>2. \A a \in Seq(R), x \in R : G[<<a, x>>] = Placed(a, x)
    OBVIOUS
  <2> HIDE DEF G
  <2>3. PICK g \in [SUBSET (1 .. n) -> Seq(R)] : Folds(g, <<>>, G, hits, n)
    <3> DEFINE A == Seq(R)
               Q == Seq(R) \X R
               none == <<>>
    <3>1. none \in A /\ G \in [Q -> A] /\ \A a \in A, x \in R : <<a, x>> \in Q
      BY <2>1
    <3> HIDE DEF A, Q, none
    <3>2. \E g \in [SUBSET (1 .. n) -> A] : Folds(g, none, G, hits, n)
      BY <3>1, FoldExists DEF n
    <3>3. QED
      BY <3>2 DEF A, none
  <2>4. ASSUME NEW S \in SUBSET (1 .. n), S # {}
        PROVE  G[<<g[S \ {Max(S)}], hits[Max(S)]>>] = Placed(g[S \ {Max(S)}], hits[Max(S)])
    <3>1. Max(S) \in S
      BY <1>1, <2>4, MaxExists
    <3>2. g[S \ {Max(S)}] \in Seq(R) /\ hits[Max(S)] \in R
      BY <1>1, <3>1
    <3>3. QED
      BY <2>2, <3>2
  <2>5. \A S \in SUBSET (1 .. n) :
          g[S] = IF S = {} THEN <<>> ELSE Placed(g[S \ {Max(S)}], hits[Max(S)])
    BY <2>3, <2>4 DEF Folds
  <2>6. g = [S \in SUBSET (1 .. n) |-> g[S]]
    OBVIOUS
  <2>7. Computes(g)
    BY <2>5, <2>6
  <2>8. QED
    BY <2>7
<1>4. Computes(F)
  BY <1>3
<1> HIDE DEF F
<1>5. \A S \in SUBSET (1 .. n) :
        F[S] = IF S = {} THEN <<>> ELSE Placed(F[S \ {Max(S)}], hits[Max(S)])
  BY <1>4
<1>6. F[{}] \in Seq(R)
  <2>1. {} \in SUBSET (1 .. n) /\ <<>> \in Seq(R)
    OBVIOUS
  <2>2. QED
    BY <1>5, <2>1
<1>7. ASSUME NEW k \in 1 .. n, F[1 .. k - 1] \in Seq(R) PROVE F[1 .. k] \in Seq(R)
  <2>1. 1 .. k \in SUBSET (1 .. n)
    BY <1>1
  <2>2. F[1 .. k] = Placed(F[1 .. k - 1], hits[k])
    <3>1. k \in Nat \ {0}
      BY <1>1
    <3>2. Max(1 .. k) = k /\ (1 .. k) \ {k} = 1 .. k - 1 /\ 1 .. k # {}
      BY <3>1, LastOfInterval
    <3>3. QED
      BY <1>5, <2>1, <3>2
  <2>3. QED
    BY <1>1, <1>7, <2>2, PlacedType
<1>8. QED
  BY <1>1, <1>2, <1>6, <1>7, FoldStays

(* The first of a sequence's elements are over the same set.               *)
LEMMA TopType ==
  ASSUME NEW R, NEW hits \in Seq(R), NEW n \in Nat
  PROVE  Top(hits, n) \in Seq(R)
<1> DEFINE m == Min({n, Len(hits)})
<1>1. m \in Nat /\ m <= Len(hits)
  <2>1. Len(hits) \in Nat
    OBVIOUS
  <2>2. \E x \in {n, Len(hits)} : \A y \in {n, Len(hits)} : x <= y
    BY <2>1
  <2>3. m \in {n, Len(hits)} /\ \A y \in {n, Len(hits)} : m <= y
    BY <2>2 DEF Min
  <2> HIDE DEF m
  <2>4. QED
    BY <2>1, <2>3
<1>2. Top(hits, n) = SubSeq(hits, 1, m)
  BY DEF Top
<1> HIDE DEF m
<1>3. \A i \in 1 .. m : hits[i] \in R
  BY <1>1
<1>4. QED
  BY <1>1, <1>2, <1>3, SubSeqProperties

(* What a search makes of a row, and of those in a set.                    *)
HitOn(r, e) == [item |-> r.item, made |-> r.made, score |-> Similarity(r, e)]
HitsOn(R, e) == {HitOn(r, e) : r \in R}

(* Every row of a table is a hit before anything is left out.              *)
LEMMA HitsType ==
  ASSUME NEW R, NEW table \in Seq(R), NEW e
  PROVE  Hits(table, e) \in Seq(HitsOn(R, e))
<1>1. Len(table) \in Nat /\ DOMAIN table = 1 .. Len(table) /\ \A n \in 1 .. Len(table) : table[n] \in R
  OBVIOUS
<1>2. Hits(table, e) = [n \in 1 .. Len(table) |-> HitOn(table[n], e)]
  BY <1>1 DEF Hits, HitOn
<1>3. \A n \in 1 .. Len(table) : HitOn(table[n], e) \in HitsOn(R, e)
  BY <1>1 DEF HitsOn
<1> DEFINE h == [n \in 1 .. Len(table) |-> HitOn(table[n], e)]
           H == HitsOn(R, e)
<1>4. h \in [1 .. Len(table) -> H]
  BY <1>3
<1> HIDE DEF h, H
<1>5. h \in Seq(H)
  BY <1>1, <1>4
<1>6. QED
  BY <1>2, <1>5 DEF h, H

(* A search of the skills, in either store that keeps some, answers with   *)
(* rows of its table.                                                      *)
LEMMA SkillsFound ==
  ASSUME NEW R, NEW table \in Seq(R), NEW e, NEW q, NEW limit \in Nat
  PROVE  /\ MemorySkills(table, e, q, limit) \in Seq(HitsOn(R, e))
         /\ LanceSkills(table, e, q, limit) \in Seq(HitsOn(R, e))
<1> DEFINE H == HitsOn(R, e)
           all == Hits(table, e)
<1>1. all \in Seq(H)
  BY HitsType
<1> HIDE DEF H, all
<1>2. MemorySkills(table, e, q, limit) \in Seq(H)
  <2> DEFINE kept == [n \in DOMAIN all |->
        IF InNamespaces(all[n], q) /\ InCategory(all[n], q) /\ Passes(all[n], q)
          THEN <<all[n]>> ELSE <<>>]
  <2>1. \A n \in DOMAIN all : kept[n] \in Seq(H)
    BY <1>1
  <2>2. kept = [n \in DOMAIN all |-> kept[n]]
    OBVIOUS
  <2>3. MemorySkills(table, e, q, limit) = Top(Ranked(FlattenSeq(kept)), limit)
    BY DEF MemorySkills, Those, all
  <2> HIDE DEF kept
  <2>4. FlattenSeq(kept) \in Seq(H)
    BY <1>1, <2>1, <2>2, KeptType
  <2>5. Ranked(FlattenSeq(kept)) \in Seq(H)
    BY <2>4, RankedType
  <2>6. QED
    BY <2>3, <2>5, TopType
<1>3. LanceSkills(table, e, q, limit) \in Seq(H)
  <2> DEFINE kept == [n \in DOMAIN all |->
        IF InNamespaces(all[n], q) /\ InCategory(all[n], q) THEN <<all[n]>> ELSE <<>>]
             fetched == Top(Ranked(FlattenSeq(kept)), 2 * limit)
             passed == [n \in DOMAIN fetched |->
        IF Passes(fetched[n], q) THEN <<fetched[n]>> ELSE <<>>]
  <2>1. \A n \in DOMAIN all : kept[n] \in Seq(H)
    BY <1>1
  <2>2. kept = [n \in DOMAIN all |-> kept[n]]
    OBVIOUS
  <2>3. LanceFetch(table, e, q, limit) = fetched
    BY DEF LanceFetch, Those, all
  <2> HIDE DEF kept
  <2>4. FlattenSeq(kept) \in Seq(H)
    BY <1>1, <2>1, <2>2, KeptType
  <2>5. Ranked(FlattenSeq(kept)) \in Seq(H) /\ 2 * limit \in Nat
    BY <2>4, RankedType
  <2>6. fetched \in Seq(H)
    BY <2>5, TopType
  <2> HIDE DEF fetched
  <2>7. \A n \in DOMAIN fetched : passed[n] \in Seq(H)
    BY <2>6
  <2>8. passed = [n \in DOMAIN fetched |-> passed[n]]
    OBVIOUS
  <2>9. LanceSkills(table, e, q, limit) = Top(FlattenSeq(passed), limit)
    BY <2>3 DEF LanceSkills, LanceSearch, Those
  <2> HIDE DEF passed
  <2>10. FlattenSeq(passed) \in Seq(H)
    BY <2>6, <2>7, <2>8, KeptType
  <2>11. QED
    BY <2>9, <2>10, TopType
<1>4. QED
  BY <1>2, <1>3 DEF H

(* A row written over another, or appended, leaves rows of the same set.   *)
LEMMA OverwrittenType ==
  ASSUME NEW R, NEW table \in Seq(R), NEW row \in R
  PROVE  Overwritten(table, row) \in Seq(R)
<1>1. Append(table, row) \in Seq(R)
  OBVIOUS
<1> DEFINE new == [n \in DOMAIN table |-> IF RowId(table[n]) = RowId(row) THEN row ELSE table[n]]
<1>2. Len(table) \in Nat /\ DOMAIN table = 1 .. Len(table) /\ \A n \in 1 .. Len(table) : table[n] \in R
  OBVIOUS
<1>3. new \in [1 .. Len(table) -> R]
  BY <1>2
<1> HIDE DEF new
<1>4. new \in Seq(R)
  BY <1>2, <1>3
<1>5. QED
  BY <1>1, <1>4 DEF Overwritten, new

(* An upsert writes one row of the batch after the other.                  *)
LEMMA UpsertedSteps ==
  ASSUME NEW R, NEW table \in Seq(R), NEW rows \in Seq(R)
  PROVE  \E K \in [0 .. Len(rows) -> Seq(R)] :
           /\ K[0] = table
           /\ \A k \in 1 .. Len(rows) : K[k] = Overwritten(K[k - 1], rows[k])
           /\ Upserted(table, rows) = K[Len(rows)]
<1> DEFINE n == Len(rows)
           Computes(f) == f = [S \in SUBSET (1 .. n) |->
             IF S = {} THEN table ELSE Overwritten(f[S \ {Max(S)}], rows[Max(S)])]
           F == CHOOSE f : Computes(f)
<1>1. n \in Nat /\ DOMAIN rows = 1 .. n /\ \A i \in 1 .. n : rows[i] \in R
  OBVIOUS
<1>2. Upserted(table, rows) = F[1 .. n]
  BY <1>1 DEF Upserted, FoldLeft, MapThenFoldSet
<1> HIDE DEF n
<1>3. \E g : Computes(g)
  <2> DEFINE G == [p \in Seq(R) \X R |-> Overwritten(p[1], p[2])]
  <2>1. G \in [Seq(R) \X R -> Seq(R)]
    BY OverwrittenType
  <2>2. \A a \in Seq(R), x \in R : G[<<a, x>>] = Overwritten(a, x)
    OBVIOUS
  <2> HIDE DEF G
  <2>3. PICK g \in [SUBSET (1 .. n) -> Seq(R)] : Folds(g, table, G, rows, n)
    <3> DEFINE A == Seq(R)
               Q == Seq(R) \X R
    <3>1. table \in A /\ G \in [Q -> A] /\ \A a \in A, x \in R : <<a, x>> \in Q
      BY <2>1
    <3> HIDE DEF A, Q
    <3>2. \E g \in [SUBSET (1 .. n) -> A] : Folds(g, table, G, rows, n)
      BY <3>1, FoldExists DEF n
    <3>3. QED
      BY <3>2 DEF A
  <2>4. ASSUME NEW S \in SUBSET (1 .. n), S # {}
        PROVE  G[<<g[S \ {Max(S)}], rows[Max(S)]>>] = Overwritten(g[S \ {Max(S)}], rows[Max(S)])
    <3>1. Max(S) \in S
      BY <1>1, <2>4, MaxExists
    <3>2. g[S \ {Max(S)}] \in Seq(R) /\ rows[Max(S)] \in R
      BY <1>1, <3>1
    <3>3. QED
      BY <2>2, <3>2
  <2>5. \A S \in SUBSET (1 .. n) :
          g[S] = IF S = {} THEN table ELSE Overwritten(g[S \ {Max(S)}], rows[Max(S)])
    BY <2>3, <2>4 DEF Folds
  <2>6. g = [S \in SUBSET (1 .. n) |-> g[S]]
    OBVIOUS
  <2>7. Computes(g)
    BY <2>5, <2>6
  <2>8. QED
    BY <2>7
<1>4. Computes(F)
  BY <1>3
<1> HIDE DEF F
<1>5. \A S \in SUBSET (1 .. n) :
        F[S] = IF S = {} THEN table ELSE Overwritten(F[S \ {Max(S)}], rows[Max(S)])
  BY <1>4
<1> DEFINE K == [k \in 0 .. n |-> F[1 .. k]]
<1>6. K[0] = table
  <2>1. 0 \in 0 .. n /\ 1 .. 0 = {} /\ {} \in SUBSET (1 .. n)
    BY <1>1
  <2>2. F[{}] = table
    BY <1>5, <2>1
  <2>3. QED
    BY <2>1, <2>2
<1>7. ASSUME NEW k \in 1 .. n PROVE K[k] = Overwritten(K[k - 1], rows[k])
  <2>1. 1 .. k \in SUBSET (1 .. n) /\ k \in 0 .. n /\ k - 1 \in 0 .. n /\ k \in Nat \ {0}
    BY <1>1
  <2>2. Max(1 .. k) = k /\ (1 .. k) \ {k} = 1 .. k - 1 /\ 1 .. k # {}
    BY <2>1, LastOfInterval
  <2>3. F[1 .. k] = Overwritten(F[1 .. k - 1], rows[k])
    BY <1>5, <2>1, <2>2
  <2>4. QED
    BY <2>1, <2>3
<1>8. n \in 0 .. n /\ K[n] = F[1 .. n]
  BY <1>1
<1>9. \A k \in 0 .. n : K[k] \in Seq(R)
  <2> DEFINE T == {k \in 0 .. n : K[k] \in Seq(R)}
  <2>1. 0 \in T
    BY <1>1, <1>6
  <2>2. ASSUME NEW k \in 0 .. n, k # 0, k - 1 \in T PROVE k \in T
    <3>1. k \in 1 .. n /\ rows[k] \in R /\ K[k - 1] \in Seq(R)
      BY <1>1, <2>2
    <3> HIDE DEF K
    <3>2. K[k] \in Seq(R)
      BY <1>7, <3>1, OverwrittenType
    <3>3. QED
      BY <3>2
  <2> HIDE DEF T
  <2>3. \A k \in 0 .. n : k \in T
    BY <1>1, <2>1, <2>2, UpTo
  <2>4. QED
    BY <2>3 DEF T
<1>10. K = [k \in 0 .. n |-> K[k]]
  OBVIOUS
<1> HIDE DEF K
<1>11. K \in [0 .. n -> Seq(R)]
  BY <1>9, <1>10
<1>12. Upserted(table, rows) = K[n]
  BY <1>2, <1>8
<1>13. QED
  BY <1>6, <1>7, <1>11, <1>12 DEF n

(* An upsert leaves rows of the table and of the batch.                    *)
LEMMA UpsertedType ==
  ASSUME NEW R, NEW table \in Seq(R), NEW rows \in Seq(R)
  PROVE  Upserted(table, rows) \in Seq(R)
<1>1. PICK K \in [0 .. Len(rows) -> Seq(R)] : Upserted(table, rows) = K[Len(rows)]
  BY UpsertedSteps
<1>2. Len(rows) \in 0 .. Len(rows)
  OBVIOUS
<1>3. QED
  BY <1>1, <1>2

-----------------------------------------------------------------------------
(* The inductive invariant.                                                *)

RowSet == [item : Items, made : Embedders]

(* The rows whose vectors are by an embedder; those that count as its own, *)
(* and those a task has listed.                                            *)
By(e) == {r \in RowSet : r.made = e}
Known(e) == {r \in RowSet : r.made = e \/ RowId(r) \in unmarked}
Among(u) == {r \in RowSet : RowId(r) \in ListedIds(u)}
AnewBy(u, e) == {r \in RowSet : r.made = e /\ RowId(r) \in ListedIds(u)}

Fields == {"pc", "request", "hits", "seen", "listed", "intent"}
Migrating == {"marker", "list", "migrate", "putback", "mark"}
Afterwards == {"write", "insert", "search", "answered"}

(* The variables the skills depend on have their shape.                    *)
ShapeInv ==
  /\ backend \in Backends /\ embedder \in Embedders
  /\ task = [t \in Tasks |-> task[t]]
  /\ \A t \in Tasks :
       /\ task[t] = [f \in Fields |-> task[t][f]]
       /\ task[t].request \in Requests[backend]
  /\ skills \in Seq(RowSet)

(* Where a task may be with what it was asked.                             *)
Belongs(t) ==
  LET does == task[t].request.does
  IN  /\ task[t].pc # "idle" /\ ForSkills(task[t].request) => backend \in {"memory", "lance"}
      /\ task[t].pc \in Migrating \cup {"check"} => ForSkills(task[t].request) /\ does # "delete"
      /\ task[t].pc \in {"write", "insert"} => does = "add"
      /\ At(t, "delete") => does = "delete"
      /\ task[t].pc \in {"route", "intent", "rerank"} => does = "retrieve"
      /\ At(t, "search") => does \in {"retrieve", "servers", "skills"}
PlaceInv == \A t \in Tasks : Belongs(t)

(* The task that migrates, and it alone, holds the lock, with the flag     *)
(* down; the flag tells that the marker names the present embedder, and    *)
(* who has come past the check has seen it up.                             *)
LockInv ==
  /\ \A t \in Tasks : task[t].pc \in Migrating <=> lock = t
  /\ lock # NoTask => ~checked
  /\ checked => marker = {embedder}
  /\ \A t \in Tasks : ForSkills(task[t].request) /\ task[t].pc \in Afterwards => checked

(* The marker names the embedder of the table's rows, save the exceptions; *)
(* a store in memory knows this process's embedder only.                   *)
TableInv ==
  /\ (\A u \in Tasks : ~At(u, "mark")) => \A e \in marker : skills \in Seq(Known(e))
  /\ backend = "memory" =>
       /\ skills \in Seq(By(embedder)) /\ skillMatrix \subseteq Seq(By(embedder))
       /\ ~checked => skills = <<>>

(* The table next to what the migrating task has listed.                   *)
ListedInv ==
  \A u \in Tasks :
    /\ task[u].pc \in {"migrate", "putback"} => backend = "lance"
    /\ task[u].pc \in {"migrate", "putback", "mark"} => task[u].listed \in Seq(RowSet)
    /\ At(u, "migrate") => skills \in Seq(Among(u))
    /\ At(u, "putback") => skills = <<>>
    /\ At(u, "mark") => skills \in Seq(AnewBy(u, embedder))

(* What holds in every state.                                              *)
IInv == ShapeInv /\ PlaceInv /\ LockInv /\ TableInv /\ ListedInv /\ SkillVectorsCurrent

(* What a request may ask for.                                             *)
LEMMA RequestDoes ==
  ASSUME ShapeInv, NEW r \in Requests[backend]
  PROVE  r.does \in {"add", "delete", "retrieve", "servers", "skills"}
<1>1. r \in RequestType
  BY RetrievalAssumption DEF ShapeInv
<1>2. QED
  BY <1>1 DEF RequestType

(* A request begins at the check when it is about the skills, unless it    *)
(* deletes some.                                                           *)
LEMMA FirstStepFits ==
  ASSUME ShapeInv, NEW r \in Requests[backend]
  PROVE  /\ FirstStep(r) \in {"route", "search", "delete", "check", "write"}
         /\ FirstStep(r) = "route" => r.does = "retrieve"
         /\ FirstStep(r) = "search" => r.does = "servers"
         /\ FirstStep(r) = "delete" => r.does = "delete"
         /\ FirstStep(r) = "check" => ForSkills(r) /\ r.does \in {"add", "skills"}
         /\ FirstStep(r) = "write" => ~ForSkills(r) /\ r.does = "add"
<1>1. r.does \in {"add", "delete", "retrieve", "servers", "skills"}
  BY RequestDoes
<1>2. QED
  BY <1>1 DEF FirstStep, ForSkills

(* A step of t alone: it keeps the form of the tasks and moves t to p.     *)
MovesTo(t, p) ==
  /\ task' = [u \in Tasks |-> task'[u]]
  /\ \A u \in Tasks \ {t} : task'[u] = task[u]
  /\ task'[t] = [f \in Fields |-> task'[t][f]]
  /\ task'[t].pc = p

(* A step that gives t another record of the same fields.                  *)
LEMMA ReplaceMoves ==
  ASSUME ShapeInv, NEW t \in Tasks, NEW r, r = [f \in Fields |-> r[f]],
         task' = [task EXCEPT ![t] = r]
  PROVE  MovesTo(t, r.pc) /\ task'[t] = r
<1>1. task = [u \in Tasks |-> task[u]]
  BY DEF ShapeInv
<1>2. task'[t] = r
  BY <1>1
<1>3. QED
  BY <1>1, <1>2 DEF MovesTo

(* A task that lists a table has all of it.                                *)
LEMMA ListingMoves ==
  ASSUME ShapeInv, NEW t \in Tasks, NEW p, NEW table,
         task' = [task EXCEPT ![t].pc = p, ![t].listed = table]
  PROVE  /\ MovesTo(t, p)
         /\ task'[t].request = task[t].request /\ task'[t].listed = table
<1> DEFINE r == [task[t] EXCEPT !.pc = p, !.listed = table]
<1>1. task[t] = [f \in Fields |-> task[t][f]] /\ {"pc", "request", "listed"} \subseteq Fields
  BY DEF ShapeInv, Fields
<1>2. task' = [task EXCEPT ![t] = r]
  OBVIOUS
<1>3. /\ r = [f \in Fields |-> r[f]] /\ r.pc = p
      /\ r.request = task[t].request /\ r.listed = table
  BY <1>1
<1> HIDE DEF r
<1>4. QED
  BY <1>2, <1>3, ReplaceMoves

(* What Goes, Ends and Proceeds make of a task.                            *)
LEMMA GoesMoves ==
  ASSUME ShapeInv, NEW t \in Tasks, NEW p, Goes(t, p)
  PROVE  /\ MovesTo(t, p)
         /\ \A f \in Fields \ {"pc"} : task'[t][f] = task[t][f]
         /\ task'[t].request = task[t].request
<1>1. task = [u \in Tasks |-> task[u]] /\ task[t] = [f \in Fields |-> task[t][f]]
  BY DEF ShapeInv
<1>2. task' = [task EXCEPT ![t].pc = p]
  BY DEF Goes
<1>3. task'[t] = [task[t] EXCEPT !.pc = p]
  BY <1>1, <1>2
<1>4. "pc" \in Fields /\ "request" \in Fields
  BY DEF Fields
<1>5. QED
  BY <1>1, <1>2, <1>3, <1>4 DEF MovesTo

(* An idle task has the fields of any other, and some request.             *)
LEMMA IdleShape ==
  /\ Idle = [f \in Fields |-> Idle[f]]
  /\ Idle.pc = "idle" /\ Idle.request = AnyRequest
BY DEF Idle, Fields

(* A request that ends leaves its task idle.                               *)
LEMMA EndsMoves ==
  ASSUME ShapeInv, NEW t \in Tasks, Ends(t)
  PROVE  MovesTo(t, "idle") /\ task'[t].request \in Requests[backend]
<1>1. task = [u \in Tasks |-> task[u]]
  BY DEF ShapeInv
<1>2. task' = [task EXCEPT ![t] = Idle]
  BY DEF Ends
<1>3. task'[t] = Idle
  BY <1>1, <1>2
<1>4. AnyRequest \in Requests[backend]
  BY RetrievalAssumption DEF AnyRequest, ShapeInv
<1>5. QED
  BY <1>1, <1>2, <1>3, <1>4, IdleShape DEF MovesTo

(* After the check a writer writes and a reader searches.                  *)
LEMMA ProceedsMoves ==
  ASSUME ShapeInv, NEW t \in Tasks, Proceeds(t)
  PROVE  /\ MovesTo(t, IF task[t].request.does = "add" THEN "write" ELSE "search")
         /\ task'[t].request = task[t].request
BY ListingMoves DEF Proceeds

(* A step of a task outside the migration that leaves the marker, the flag *)
(* and the lock alone, and adds rows of the present embedder only, and     *)
(* these only when the flag is up, keeps the invariant.                    *)
LEMMA QuietStep ==
  ASSUME IInv, NEW t \in Tasks, NEW p, MovesTo(t, p),
         UNCHANGED <<backend, embedder, marker, checked, lock, unmarked>>,
         task'[t].request \in Requests[backend], Belongs(t)',
         task[t].pc \notin Migrating, p \notin Migrating,
         ForSkills(task'[t].request) /\ p \in Afterwards => checked,
         p = "answered" /\ task'[t].request.does = "skills" =>
           \A h \in ToSet(task'[t].hits) : h.made = embedder \/ IdOf(h.item) \in unmarked,
         \A R : skills \in Seq(R) /\ (checked => By(embedder) \subseteq R) => skills' \in Seq(R),
         backend = "memory" => skillMatrix' \subseteq Seq(By(embedder))
  PROVE  IInv'
<1>1. /\ task' = [u \in Tasks |-> task'[u]] /\ task'[t].pc = p
      /\ \A u \in Tasks \ {t} : task'[u] = task[u]
      /\ task'[t] = [f \in Fields |-> task'[t][f]]
  BY DEF MovesTo
<1>2. \A e : By(e)' = By(e) /\ Known(e)' = Known(e)
  BY DEF By, Known, RowSet
<1>3. ShapeInv'
  <2>1. skills' \in Seq(RowSet)
    BY DEF IInv, ShapeInv, By
  <2>2. ASSUME NEW u \in Tasks
        PROVE  /\ task'[u] = [f \in Fields |-> task'[u][f]]
               /\ task'[u].request \in Requests[backend]
    BY <1>1 DEF IInv, ShapeInv
  <2>3. QED
    BY <1>1, <2>1, <2>2 DEF IInv, ShapeInv
<1>4. PlaceInv'
  <2>1. ASSUME NEW u \in Tasks \ {t} PROVE Belongs(u)'
    BY <1>1 DEF IInv, PlaceInv, Belongs, At
  <2>2. QED
    BY <2>1 DEF PlaceInv
<1>5. LockInv'
  <2>1. \A u \in Tasks : task'[u].pc \in Migrating <=> task[u].pc \in Migrating
    BY <1>1
  <2>2. \A u \in Tasks : ForSkills(task'[u].request) /\ task'[u].pc \in Afterwards => checked
    BY <1>1 DEF IInv, LockInv
  <2>3. QED
    BY <2>1, <2>2 DEF IInv, LockInv
<1>6. TableInv'
  <2>1. ASSUME NEW e \in marker, \A u \in Tasks : ~At(u, "mark")'
        PROVE  skills' \in Seq(Known(e))
    <3>1. \A u \in Tasks : ~At(u, "mark")
      BY <1>1, <2>1 DEF At, Migrating
    <3>2. checked => By(embedder) \subseteq Known(e)
      BY <2>1 DEF IInv, LockInv, By, Known
    <3>3. skills \in Seq(Known(e))
      BY <2>1, <3>1 DEF IInv, TableInv
    <3>4. QED
      BY <3>2, <3>3
  <2>2. ASSUME backend = "memory"
        PROVE  skills' \in Seq(By(embedder)) /\ (~checked => skills' = <<>>)
    <3>1. skills \in Seq(By(embedder)) /\ (~checked => skills \in Seq({}))
      BY <2>2 DEF IInv, TableInv
    <3>2. ~checked => skills' \in Seq({})
      BY <3>1
    <3>3. QED
      BY <3>1, <3>2
  <2>3. QED
    BY <1>2, <2>1, <2>2 DEF TableInv
<1>7. ListedInv'
  <2>1. ASSUME NEW u \in Tasks, task'[u].pc \in Migrating
        PROVE  task'[u] = task[u] /\ ~checked
    <3>1. u # t
      BY <1>1, <2>1
    <3>2. lock = u
      BY <1>1, <2>1, <3>1 DEF IInv, LockInv
    <3>3. QED
      BY <1>1, <3>1, <3>2, RetrievalAssumption DEF IInv, LockInv
  <2>2. ASSUME NEW u \in Tasks, task'[u].pc \in {"migrate", "putback", "mark"}
        PROVE  /\ task'[u].pc \in {"migrate", "putback"} => backend' = "lance"
               /\ task'[u].listed \in Seq(RowSet)
               /\ At(u, "migrate")' => skills' \in Seq(Among(u)')
               /\ At(u, "putback")' => skills' = <<>>
               /\ At(u, "mark")' => skills' \in Seq(AnewBy(u, embedder)')
    <3>1. task'[u] = task[u] /\ ~checked
      BY <2>1, <2>2 DEF Migrating
    <3>2. ListedIds(u)' = ListedIds(u)
      BY <3>1 DEF ListedIds
    <3>3. Among(u)' = Among(u) /\ AnewBy(u, embedder)' = AnewBy(u, embedder)
      BY <3>2 DEF Among, AnewBy, RowSet
    <3>4. \A R : skills \in Seq(R) => skills' \in Seq(R)
      BY <3>1
    <3>5. /\ task[u].pc \in {"migrate", "putback"} => backend = "lance"
          /\ task[u].listed \in Seq(RowSet)
          /\ At(u, "migrate") => skills \in Seq(Among(u))
          /\ At(u, "putback") => skills = <<>>
          /\ At(u, "mark") => skills \in Seq(AnewBy(u, embedder))
      BY <2>2, <3>1 DEF IInv, ListedInv
    <3>6. skills = <<>> => skills' = <<>>
      <4>1. skills = <<>> => skills \in Seq({})
        OBVIOUS
      <4>2. skills' \in Seq({}) => skills' = <<>>
        OBVIOUS
      <4>3. QED
        BY <3>4, <4>1, <4>2
    <3>7. QED
      BY <3>1, <3>3, <3>4, <3>5, <3>6 DEF At
  <2>3. QED
    BY <2>2 DEF ListedInv, At
<1>8. SkillVectorsCurrent'
  <2>1. ASSUME NEW u \in Tasks, At(u, "answered")', task'[u].request.does = "skills",
               NEW h \in ToSet(task'[u].hits)
        PROVE  h.made = embedder \/ IdOf(h.item) \in unmarked
    <3>1. CASE u = t
      BY <1>1, <2>1, <3>1 DEF At
    <3>2. CASE u # t
      BY <1>1, <2>1, <3>2 DEF IInv, SkillVectorsCurrent, At
    <3>3. QED
      BY <3>1, <3>2
  <2>2. QED
    BY <2>1 DEF SkillVectorsCurrent
<1>9. QED
  BY <1>3, <1>4, <1>5, <1>6, <1>7, <1>8 DEF IInv

(* A step that leaves the table of skills and its cache alone, too.        *)
LEMMA PlainStep ==
  ASSUME IInv, NEW t \in Tasks, NEW p, MovesTo(t, p),
         UNCHANGED <<backend, skills, marker, embedder, checked, lock, skillMatrix, unmarked>>,
         task'[t].request \in Requests[backend], Belongs(t)',
         task[t].pc \notin Migrating, p \notin Migrating,
         ForSkills(task'[t].request) /\ p \in Afterwards => checked,
         p = "answered" => task'[t].request.does # "skills"
  PROVE  IInv'
<1>1. backend = "memory" => skillMatrix' \subseteq Seq(By(embedder))
  BY DEF IInv, TableInv
<1>2. QED
  BY <1>1, QuietStep

(* So does one that ends a request outside the migration.                  *)
LEMMA EndingStep ==
  ASSUME IInv, NEW t \in Tasks, Ends(t), task[t].pc \notin Migrating,
         UNCHANGED <<backend, skills, marker, embedder, checked, lock, skillMatrix, unmarked>>
  PROVE  IInv'
<1>1. MovesTo(t, "idle") /\ task'[t].request \in Requests[backend]
  BY EndsMoves DEF IInv
<1>2. task'[t].pc = "idle"
  BY <1>1 DEF MovesTo
<1>3. Belongs(t)'
  BY <1>2 DEF Belongs, At, Migrating
<1>4. "idle" \notin Migrating /\ "idle" \notin Afterwards /\ "idle" # "answered"
  BY DEF Migrating, Afterwards
<1>5. QED
  BY <1>1, <1>3, <1>4, PlainStep

(* And one that moves on with the same request.                            *)
LEMMA GoingStep ==
  ASSUME IInv, NEW t \in Tasks, NEW p, MovesTo(t, p), task'[t].request = task[t].request,
         task[t].pc \notin Migrating,
         p \in {"make", "drop", "create", "fill", "open", "route", "search", "delete",
                "check", "write", "intent", "rerank", "giveup", "answered"},
         UNCHANGED <<backend, skills, marker, embedder, checked, lock, skillMatrix, unmarked>>,
         task[t].pc # "idle",
         p \in {"route", "intent", "rerank"} => task[t].request.does = "retrieve",
         p \in {"search", "answered"} => task[t].request.does \in {"retrieve", "servers"},
         p = "delete" => task[t].request.does = "delete",
         p = "check" => ForSkills(task[t].request) /\ task[t].request.does # "delete",
         p = "write" => ~ForSkills(task[t].request) /\ task[t].request.does = "add"
  PROVE  IInv'
<1>1. task'[t].pc = p
  BY DEF MovesTo
<1>2. task'[t].request \in Requests[backend]
  BY DEF IInv, ShapeInv
<1>3. ForSkills(task[t].request) => backend \in {"memory", "lance"}
  BY DEF IInv, PlaceInv, Belongs
<1>4. Belongs(t)'
  BY <1>1, <1>3 DEF Belongs, At, Migrating
<1>5. p \notin Migrating
  BY DEF Migrating
<1>6. ForSkills(task[t].request) => p \notin Afterwards
  BY DEF Afterwards, ForSkills
<1>7. p = "answered" => task'[t].request.does # "skills"
  OBVIOUS
<1>8. QED
  BY <1>2, <1>4, <1>5, <1>6, <1>7, PlainStep

(* A store that opens lets the request go where it begins.                 *)
LEMMA OpeningStep ==
  ASSUME IInv, NEW t \in Tasks, Goes(t, FirstStep(task[t].request)),
         task[t].pc \notin Migrating, task[t].pc # "idle",
         UNCHANGED <<backend, skills, marker, embedder, checked, lock, skillMatrix, unmarked>>
  PROVE  IInv'
<1> DEFINE r == task[t].request
           p == FirstStep(r)
<1>1. r \in Requests[backend] /\ ShapeInv
  BY DEF IInv, ShapeInv
<1>2. /\ p \in {"route", "search", "delete", "check", "write"}
      /\ p = "route" => r.does = "retrieve"
      /\ p = "search" => r.does = "servers"
      /\ p = "delete" => r.does = "delete"
      /\ p = "check" => ForSkills(r) /\ r.does \in {"add", "skills"}
      /\ p = "write" => ~ForSkills(r) /\ r.does = "add"
  BY <1>1, FirstStepFits
<1>3. MovesTo(t, p) /\ task'[t].request = r
  BY <1>1, GoesMoves
<1> HIDE DEF p
<1>4. QED
  BY <1>2, <1>3, GoingStep

(* A request begins at its first step, or opens the store before it.       *)
LEMMA BeginMoves ==
  ASSUME ShapeInv, NEW t \in Tasks, Begin(t)
  PROVE  \E r \in Requests[backend],
            p \in {"open", "route", "search", "delete", "check", "write"} :
           /\ MovesTo(t, p) /\ task'[t].request = r
           /\ ForSkills(r) => backend \in {"memory", "lance"}
           /\ p = "route" => r.does = "retrieve"
           /\ p = "search" => r.does = "servers"
           /\ p = "delete" => r.does = "delete"
           /\ p = "check" => ForSkills(r) /\ r.does \in {"add", "skills"}
           /\ p = "write" => ~ForSkills(r) /\ r.does = "add"
<1>1. PICK r \in Requests[backend] :
        /\ ForSkills(r) => backend \in {"memory", "lance"}
        /\ task' = [task EXCEPT ![t] =
             [Idle EXCEPT !.request = r,
                          !.pc = IF Persistent /\ ~opened THEN "open" ELSE FirstStep(r)]]
  BY DEF Begin
<1> DEFINE p == IF Persistent /\ ~opened THEN "open" ELSE FirstStep(r)
           i == [Idle EXCEPT !.request = r, !.pc = p]
<1>2. task = [u \in Tasks |-> task[u]]
  BY DEF ShapeInv
<1>3. task' = [task EXCEPT ![t] = i]
  BY <1>1
<1>4. /\ FirstStep(r) \in {"route", "search", "delete", "check", "write"}
      /\ FirstStep(r) = "route" => r.does = "retrieve"
      /\ FirstStep(r) = "search" => r.does = "servers"
      /\ FirstStep(r) = "delete" => r.does = "delete"
      /\ FirstStep(r) = "check" => ForSkills(r) /\ r.does \in {"add", "skills"}
      /\ FirstStep(r) = "write" => ~ForSkills(r) /\ r.does = "add"
  BY FirstStepFits
<1>5. /\ p \in {"open", "route", "search", "delete", "check", "write"}
      /\ p = "route" => r.does = "retrieve"
      /\ p = "search" => r.does = "servers"
      /\ p = "delete" => r.does = "delete"
      /\ p = "check" => ForSkills(r) /\ r.does \in {"add", "skills"}
      /\ p = "write" => ~ForSkills(r) /\ r.does = "add"
  BY <1>4
<1> HIDE DEF p
<1>6. i.pc = p /\ i.request = r /\ i = [f \in Fields |-> i[f]]
  BY DEF Idle, Fields
<1> HIDE DEF i
<1>7. MovesTo(t, p) /\ task'[t].request = r
  BY <1>2, <1>3, <1>6 DEF MovesTo
<1>8. QED
  BY <1>1, <1>5, <1>7

(* So a request that begins keeps the invariant.                           *)
LEMMA BeginStep ==
  ASSUME IInv, NEW t \in Tasks, Begin(t)
  PROVE  IInv'
<1>1. PICK r \in Requests[backend],
           p \in {"open", "route", "search", "delete", "check", "write"} :
           /\ MovesTo(t, p) /\ task'[t].request = r
           /\ ForSkills(r) => backend \in {"memory", "lance"}
           /\ p = "route" => r.does = "retrieve"
           /\ p = "search" => r.does = "servers"
           /\ p = "delete" => r.does = "delete"
           /\ p = "check" => ForSkills(r) /\ r.does \in {"add", "skills"}
           /\ p = "write" => ~ForSkills(r) /\ r.does = "add"
  BY BeginMoves DEF IInv
<1>2. UNCHANGED <<backend, skills, marker, embedder, checked, lock, skillMatrix, unmarked>>
  BY DEF Begin, store, process, matrices, history
<1>3. task'[t].pc = p
  BY <1>1 DEF MovesTo
<1>4. Belongs(t)'
  BY <1>1, <1>2, <1>3 DEF Belongs, At, Migrating
<1>5. p \notin Migrating /\ task[t].pc \notin Migrating
  BY <1>1 DEF Migrating, Begin, At
<1>6. ForSkills(r) => p \notin Afterwards
  BY <1>1 DEF Afterwards, ForSkills
<1>7. task'[t].request \in Requests[backend] /\ p # "answered"
  BY <1>1
<1>8. QED
  BY <1>1, <1>2, <1>4, <1>5, <1>6, <1>7, PlainStep

(* The steps of a request that opens the store.                            *)
LEMMA OpenSteps ==
  ASSUME IInv, NEW t \in Tasks,
         \/ OpenQdrant(t) \/ OpenChroma(t) \/ OpenPG(t) \/ RemoteOpeningFails(t)
         \/ Open(t) \/ DropTools(t) \/ CreateTools(t) \/ FillTools(t) \/ OpeningFails(t)
  PROVE  IInv'
<1>1. UNCHANGED <<backend, skills, marker, embedder, checked, lock, skillMatrix, unmarked>>
  BY DEF OpenQdrant, OpenChroma, OpenPG, RemoteOpeningFails, Open, DropTools, CreateTools,
         FillTools, OpeningFails, OpeningChanges, store, process, matrices, history
<1>2. task[t].pc \in {"open", "make", "drop", "create", "fill"}
  BY DEF OpenQdrant, OpenChroma, OpenPG, RemoteOpeningFails, Open, DropTools, CreateTools,
         FillTools, OpeningFails, Opening, At
<1>3. task[t].pc \notin Migrating /\ task[t].pc # "idle"
  BY <1>2 DEF Migrating
<1>4. CASE Goes(t, FirstStep(task[t].request))
  BY <1>1, <1>3, <1>4, OpeningStep
<1>5. CASE Ends(t)
  BY <1>1, <1>3, <1>5, EndingStep
<1>6. ASSUME NEW p \in {"make", "create", "fill"}, Goes(t, p)
      PROVE  IInv'
  <2>1. MovesTo(t, p) /\ task'[t].request = task[t].request
    BY <1>6, GoesMoves DEF IInv
  <2>2. QED
    BY <1>1, <1>3, <2>1, GoingStep
<1>7. CASE task' = [task EXCEPT ![t].pc = "drop", ![t].listed = tools]
  <2>1. MovesTo(t, "drop") /\ task'[t].request = task[t].request
    BY <1>7, ListingMoves DEF IInv
  <2>2. QED
    BY <1>1, <1>3, <2>1, GoingStep
<1>8. QED
  BY <1>4, <1>5, <1>6, <1>7 DEF OpenQdrant, OpenChroma, OpenPG, RemoteOpeningFails, Open,
     DropTools, CreateTools, FillTools, OpeningFails, Opens

(* The rows made of items are by the embedder that made them.              *)
LEMMA RowsType ==
  ASSUME NEW items \in Seq(Items), NEW e \in Embedders
  PROVE  Rows(items, e) \in Seq(By(e))
<1> DEFINE B == By(e)
           row(n) == Row(items[n], e)
           rows == [n \in 1 .. Len(items) |-> row(n)]
<1>1. /\ Len(items) \in Nat /\ DOMAIN items = 1 .. Len(items)
      /\ \A n \in 1 .. Len(items) : items[n] \in Items
  OBVIOUS
<1>2. Rows(items, e) = rows
  BY <1>1 DEF Rows
<1>3. \A n \in 1 .. Len(items) : row(n) \in B
  BY <1>1 DEF Row, By, RowSet
<1> HIDE DEF B, row
<1>4. rows \in [1 .. Len(items) -> B]
  BY <1>3
<1> HIDE DEF rows
<1>5. rows \in Seq(B)
  BY <1>1, <1>4
<1>6. QED
  BY <1>2, <1>5 DEF B

(* What a task writes are rows of the present embedder.                    *)
LEMMA BatchType ==
  ASSUME IInv, NEW t \in Tasks, task[t].request.does = "add"
  PROVE  Batch(t) \in Seq(By(embedder))
<1>1. task[t].request \in RequestType
  BY RetrievalAssumption DEF IInv, ShapeInv
<1>2. task[t].request.items \in Seq(Items)
  BY <1>1 DEF RequestType
<1>3. embedder \in Embedders
  BY DEF IInv, ShapeInv
<1>4. QED
  BY <1>2, <1>3, RowsType DEF Batch

(* A task that writes skills does so with the flag up, so that the marker  *)
(* names the present embedder.                                             *)
LEMMA WritersChecked ==
  ASSUME IInv, NEW t \in Tasks, task[t].pc \in {"write", "insert"}
  PROVE  /\ task[t].request.does = "add" /\ task[t].pc \notin Migrating
         /\ ForSkills(task[t].request) => checked /\ backend \in {"memory", "lance"}
<1>1. task[t].request.does = "add" /\ task[t].pc \notin Migrating
  BY DEF IInv, PlaceInv, Belongs, Migrating
<1>2. ForSkills(task[t].request) => checked
  BY DEF IInv, LockInv, Afterwards
<1>3. ForSkills(task[t].request) => backend \in {"memory", "lance"}
  BY DEF IInv, PlaceInv, Belongs
<1>4. QED
  BY <1>1, <1>2, <1>3

(* A step that ends a request outside the migration and changes the skills *)
(* by the rules for the table.                                             *)
LEMMA WritingEnds ==
  ASSUME IInv, NEW t \in Tasks, Ends(t), task[t].pc \notin Migrating,
         UNCHANGED <<backend, marker, embedder, checked, lock, unmarked>>,
         \A R : skills \in Seq(R) /\ (checked => By(embedder) \subseteq R) => skills' \in Seq(R),
         backend = "memory" => skillMatrix' \in {skillMatrix, {}}
  PROVE  IInv'
<1>1. MovesTo(t, "idle") /\ task'[t].request \in Requests[backend]
  BY EndsMoves DEF IInv
<1>2. task'[t].pc = "idle"
  BY <1>1 DEF MovesTo
<1>3. Belongs(t)'
  BY <1>2 DEF Belongs, At, Migrating
<1>4. "idle" \notin Migrating /\ "idle" \notin Afterwards /\ "idle" # "answered"
  BY DEF Migrating, Afterwards
<1>5. backend = "memory" => skillMatrix' \subseteq Seq(By(embedder))
  BY DEF IInv, TableInv
<1>6. QED
  BY <1>1, <1>3, <1>4, <1>5, QuietStep

(* An upsert in memory: the batch is of the present embedder, and who      *)
(* writes skills has seen the flag up.                                     *)
LEMMA MemoryWriteStep ==
  ASSUME IInv, NEW t \in Tasks, MemoryWrite(t)
  PROVE  IInv'
<1>1. /\ task[t].request.does = "add" /\ task[t].pc \notin Migrating
      /\ ForSkills(task[t].request) => checked
  BY WritersChecked DEF MemoryWrite, At
<1>2. Batch(t) \in Seq(By(embedder))
  BY <1>1, BatchType
<1>3. ASSUME NEW R, skills \in Seq(R), checked => By(embedder) \subseteq R
      PROVE  skills' \in Seq(R)
  <2>1. CASE ForSkills(task[t].request)
    <3>1. Batch(t) \in Seq(R)
      BY <1>1, <1>2, <1>3, <2>1, SeqMonotonic
    <3>2. skills' = Upserted(skills, Batch(t))
      BY <2>1 DEF MemoryWrite, Becomes, Contents
    <3>3. QED
      BY <1>3, <3>1, <3>2, UpsertedType
  <2>2. CASE ~ForSkills(task[t].request)
    BY <1>3, <2>2 DEF MemoryWrite, Becomes
  <2>3. QED
    BY <2>1, <2>2
<1>4. skillMatrix' \in {skillMatrix, {}}
  BY DEF MemoryWrite, Invalidated
<1>5. Ends(t) /\ UNCHANGED <<backend, marker, embedder, checked, lock, unmarked>>
  BY DEF MemoryWrite, process
<1>6. QED
  BY <1>1, <1>3, <1>4, <1>5, WritingEnds

(* The remote stores keep no skills.                                       *)
LEMMA RemoteWriteStep ==
  ASSUME IInv, NEW t \in Tasks, RemoteWrite(t)
  PROVE  IInv'
<1>1. task[t].pc \notin Migrating /\ ~ForSkills(task[t].request)
  BY WritersChecked DEF RemoteWrite, At, Remote
<1>2. Ends(t) /\ UNCHANGED <<backend, marker, embedder, checked, lock, unmarked, skills, skillMatrix>>
  BY <1>1 DEF RemoteWrite, process, matrices, Becomes
<1>3. QED
  BY <1>1, <1>2, EndingStep

(* A write that fails leaves the skills as they are.                       *)
LEMMA WriteFailsStep ==
  ASSUME IInv, NEW t \in Tasks, WriteFails(t)
  PROVE  IInv'
<1>1. /\ task[t].pc \notin Migrating
      /\ ForSkills(task[t].request) => backend = "lance"
  BY WritersChecked DEF WriteFails
<1>2. Ends(t) /\ UNCHANGED <<backend, marker, embedder, checked, lock, unmarked, skills, skillMatrix>>
  BY <1>1 DEF WriteFails, process, matrices, Becomes
<1>3. QED
  BY <1>1, <1>2, EndingStep

(* The first half of an upsert in LanceDB takes rows away.                 *)
LEMMA LanceDeleteStep ==
  ASSUME IInv, NEW t \in Tasks, LanceDelete(t)
  PROVE  IInv'
<1> DEFINE r == task[t].request
<1>1. /\ r.does = "add" /\ task[t].pc \notin Migrating
      /\ ForSkills(r) => checked /\ backend \in {"memory", "lance"}
  BY WritersChecked DEF LanceDelete, At
<1>2. ASSUME NEW R, skills \in Seq(R)
      PROVE  skills' \in Seq(R)
  <2>1. Without(skills, BatchIds(t)) \in Seq(R)
    BY <1>2, WithoutType
  <2>2. QED
    BY <1>2, <2>1 DEF LanceDelete, Becomes, Contents
<1>3. MovesTo(t, "insert") /\ task'[t].request = r
  BY GoesMoves DEF LanceDelete, IInv
<1>4. UNCHANGED <<backend, marker, embedder, checked, lock, unmarked, skillMatrix>>
  BY DEF LanceDelete, process, matrices
<1>5. task'[t].pc = "insert"
  BY <1>3 DEF MovesTo
<1>6. Belongs(t)'
  BY <1>1, <1>3, <1>4, <1>5 DEF Belongs, At, Migrating
<1>7. backend = "memory" => skillMatrix' \subseteq Seq(By(embedder))
  BY <1>4 DEF IInv, TableInv
<1>8. task'[t].request \in Requests[backend] /\ "insert" \notin Migrating
  BY <1>3 DEF IInv, ShapeInv, Migrating
<1>9. QED
  BY <1>1, <1>2, <1>3, <1>4, <1>6, <1>7, <1>8, QuietStep

(* The second half adds rows of the present embedder.                      *)
LEMMA LanceInsertStep ==
  ASSUME IInv, NEW t \in Tasks, LanceInsert(t)
  PROVE  IInv'
<1>1. /\ task[t].request.does = "add" /\ task[t].pc \notin Migrating
      /\ ForSkills(task[t].request) => checked
  BY WritersChecked DEF LanceInsert, At
<1>2. Batch(t) \in Seq(By(embedder))
  BY <1>1, BatchType
<1>3. ASSUME NEW R, skills \in Seq(R), checked => By(embedder) \subseteq R
      PROVE  skills' \in Seq(R)
  <2>1. CASE ForSkills(task[t].request)
    <3>1. Batch(t) \in Seq(R)
      BY <1>1, <1>2, <1>3, <2>1, SeqMonotonic
    <3>2. skills' = skills \o Batch(t)
      BY <2>1 DEF LanceInsert, Becomes, Contents
    <3>3. QED
      BY <1>3, <3>1, <3>2, ConcatProperties
  <2>2. CASE ~ForSkills(task[t].request)
    BY <1>3, <2>2 DEF LanceInsert, Becomes
  <2>3. QED
    BY <2>1, <2>2
<1>4. Ends(t) /\ UNCHANGED <<backend, marker, embedder, checked, lock, unmarked, skillMatrix>>
  BY DEF LanceInsert, process, matrices
<1>5. QED
  BY <1>1, <1>3, <1>4, WritingEnds

(* Deleting skills, which waits for nothing, leaves rows as they were.     *)
LEMMA DeleteStep ==
  ASSUME IInv, NEW t \in Tasks, Delete(t)
  PROVE  IInv'
<1>1. task[t].pc \notin Migrating
  BY DEF Delete, At, Migrating
<1>2. ASSUME NEW R, skills \in Seq(R)
      PROVE  skills' \in Seq(R)
  <2>1. Without(skills, BatchIds(t)) \in Seq(R)
    BY <1>2, WithoutType
  <2>2. QED
    BY <1>2, <2>1 DEF Delete, Becomes, Contents
<1>3. skillMatrix' \in {skillMatrix, {}}
  BY DEF Delete, Invalidated, matrices
<1>4. Ends(t) /\ UNCHANGED <<backend, marker, embedder, checked, lock, unmarked>>
  BY DEF Delete, process
<1>5. QED
  BY <1>1, <1>2, <1>3, <1>4, WritingEnds

(* A search keeps what the table was and what it found.                    *)
LEMMA SearchMoves ==
  ASSUME ShapeInv, NEW t \in Tasks, NEW p, NEW table, NEW hits,
         task' = [task EXCEPT ![t].pc = p, ![t].seen = table, ![t].hits = hits]
  PROVE  /\ MovesTo(t, p)
         /\ task'[t].request = task[t].request /\ task'[t].hits = hits
<1> DEFINE r == [task[t] EXCEPT !.pc = p, !.seen = table, !.hits = hits]
<1>1. task[t] = [f \in Fields |-> task[t][f]] /\ {"pc", "request", "hits", "seen"} \subseteq Fields
  BY DEF ShapeInv, Fields
<1>2. task' = [task EXCEPT ![t] = r]
  OBVIOUS
<1>3. r = [f \in Fields |-> r[f]] /\ r.pc = p /\ r.request = task[t].request /\ r.hits = hits
  BY <1>1
<1> HIDE DEF r
<1>4. QED
  BY <1>2, <1>3, ReplaceMoves

(* Searches of the tools and of the servers leave the skills alone.        *)
LEMMA SearchSteps ==
  ASSUME IInv, NEW t \in Tasks, SearchTools(t) \/ SearchServers(t)
  PROVE  IInv'
<1>1. /\ UNCHANGED <<backend, skills, marker, embedder, checked, lock, skillMatrix, unmarked>>
      /\ task[t].pc = "search"
  BY DEF SearchTools, SearchServers, Searching, At, store, process, history
<1>2. task[t].pc \notin Migrating /\ task[t].pc # "idle"
  BY <1>1 DEF Migrating
<1>3. CASE SearchTools(t)
  <2>1. MovesTo(t, "intent") /\ task'[t].request = task[t].request
    BY <1>3, SearchMoves DEF SearchTools, IInv
  <2>2. task[t].request.does = "retrieve"
    BY <1>3 DEF SearchTools, Searching
  <2>3. QED
    BY <1>1, <1>2, <2>1, <2>2, GoingStep
<1>4. CASE SearchServers(t)
  <2>1. MovesTo(t, "answered") /\ task'[t].request = task[t].request
    BY <1>4, SearchMoves DEF SearchServers, IInv
  <2>2. task[t].request.does = "servers"
    BY <1>4 DEF SearchServers, Searching
  <2>3. QED
    BY <1>1, <1>2, <2>1, <2>2, GoingStep
<1>5. QED
  BY <1>3, <1>4

(* The limit of a search of the skills is a number.                        *)
LEMMA SkillLimit ==
  ASSUME IInv, NEW t \in Tasks, task[t].request.does = "skills"
  PROVE  Query(t).limit \in Nat
<1>1. task[t].request \in RequestType
  BY RetrievalAssumption DEF IInv, ShapeInv
<1>2. task[t].request.query \in QueryType
  BY <1>1 DEF RequestType
<1>3. Asked(t) \in QueryType
  BY <1>2 DEF Asked
<1> DEFINE q == Asked(t)
<1>4. q.limit \in Nat /\ [q EXCEPT !.threshold = IF q.threshold = Unset THEN 0 ELSE q.threshold].limit = q.limit
  BY <1>3 DEF QueryType
<1>5. Query(t) = [q EXCEPT !.threshold = IF q.threshold = Unset THEN 0 ELSE q.threshold]
  BY DEF Query, Defaulted
<1>6. QED
  BY <1>4, <1>5

(* With the flag up, the marker names the present embedder, nobody         *)
(* migrates, and the table has its rows, or those excepted.                *)
LEMMA CheckedTable ==
  ASSUME IInv, checked
  PROVE  skills \in Seq(Known(embedder))
<1>1. lock = NoTask /\ marker = {embedder}
  BY DEF IInv, LockInv
<1>2. \A u \in Tasks : ~At(u, "mark")
  BY <1>1, RetrievalAssumption DEF IInv, LockInv, At, Migrating
<1>3. QED
  BY <1>1, <1>2 DEF IInv, TableInv

(* A search of the skills answers with rows of the table, or of the matrix *)
(* built from it; it has seen the flag up, so they are this embedder's.    *)
LEMMA SearchSkillsStep ==
  ASSUME IInv, NEW t \in Tasks, SearchSkills(t)
  PROVE  IInv'
<1> DEFINE q == Query(t)
           table == Matrix(skillMatrix, skills)
           hits == IF Live THEN MemorySkills(table, embedder, q, q.limit)
                   ELSE LanceSkills(skills, embedder, q, q.limit)
<1>1. task[t].pc = "search" /\ task[t].request.does = "skills" /\ ForSkills(task[t].request)
  BY DEF SearchSkills, Searching, At, ForSkills
<1>2. checked
  BY <1>1 DEF IInv, LockInv, Afterwards
<1>3. MovesTo(t, "answered") /\ task'[t].request = task[t].request /\ task'[t].hits = hits
  <2>1. task' = [task EXCEPT ![t].pc = "answered", ![t].seen = skills, ![t].hits = hits]
    BY DEF SearchSkills
  <2> HIDE DEF hits
  <2> DEFINE r == [task[t] EXCEPT !.pc = "answered", !.seen = skills, !.hits = hits]
  <2>2. /\ task[t] = [f \in Fields |-> task[t][f]]
        /\ {"pc", "request", "hits", "seen"} \subseteq Fields
    BY DEF IInv, ShapeInv, Fields
  <2>3. task' = [task EXCEPT ![t] = r]
    BY <2>1
  <2>4. /\ r = [f \in Fields |-> r[f]] /\ r.pc = "answered"
        /\ r.request = task[t].request /\ r.hits = hits
    BY <2>2
  <2> HIDE DEF r
  <2>5. QED
    BY <2>3, <2>4, ReplaceMoves DEF IInv
<1>4. q.limit \in Nat
  BY <1>1, SkillLimit
<1>5. backend = "memory" => table \in Seq(By(embedder))
  <2>1. skillMatrix # {} => table \in skillMatrix
    BY DEF Matrix
  <2>2. skillMatrix = {} => table = skills
    BY DEF Matrix
  <2>3. QED
    BY <2>1, <2>2 DEF IInv, TableInv
<1> HIDE DEF table, q
<1>6. hits \in Seq(HitsOn(Known(embedder), embedder))
  <2>1. CASE Live
    <3>1. By(embedder) \subseteq Known(embedder)
      BY DEF By, Known
    <3>2. table \in Seq(Known(embedder))
      BY <1>5, <2>1, <3>1, SeqMonotonic DEF Live
    <3>3. MemorySkills(table, embedder, q, q.limit) \in Seq(HitsOn(Known(embedder), embedder))
      BY <1>4, <3>2, SkillsFound
    <3>4. QED
      BY <2>1, <3>3
  <2>2. CASE ~Live
    <3>1. skills \in Seq(Known(embedder))
      BY <1>2, CheckedTable
    <3>2. LanceSkills(skills, embedder, q, q.limit) \in Seq(HitsOn(Known(embedder), embedder))
      BY <1>4, <3>1, SkillsFound
    <3>3. QED
      BY <2>2, <3>2
  <2>3. QED
    BY <2>1, <2>2
<1> HIDE DEF hits
<1>7. \A h \in ToSet(hits) : h.made = embedder \/ IdOf(h.item) \in unmarked
  <2>1. \A h \in ToSet(hits) : h \in HitsOn(Known(embedder), embedder)
    BY <1>6 DEF ToSet
  <2>2. \A h \in HitsOn(Known(embedder), embedder) :
           h.made = embedder \/ IdOf(h.item) \in unmarked
    BY DEF HitsOn, HitOn, Known, RowId
  <2>3. QED
    BY <2>1, <2>2
<1>8. UNCHANGED <<backend, skills, marker, embedder, checked, lock, unmarked>>
  BY DEF SearchSkills, store, process, history
<1>9. backend = "memory" => skillMatrix' \subseteq Seq(By(embedder))
  <2>1. backend = "memory" => skillMatrix' = {table}
    BY DEF SearchSkills, Live, table
  <2>2. QED
    BY <1>5, <2>1
<1>10. task'[t].request \in Requests[backend]
  BY <1>3 DEF IInv, ShapeInv
<1>11. task'[t].pc = "answered"
  BY <1>3 DEF MovesTo
<1>12. Belongs(t)'
  <2>1. backend \in {"memory", "lance"}
    BY <1>1 DEF IInv, PlaceInv, Belongs
  <2>2. QED
    BY <1>8, <1>11, <2>1 DEF Belongs, At, Migrating
<1>13. task[t].pc \notin Migrating /\ "answered" \notin Migrating
  BY <1>1 DEF Migrating
<1>14. \A R : skills \in Seq(R) /\ (checked => By(embedder) \subseteq R) => skills' \in Seq(R)
  BY <1>8
<1>15. QED
  BY <1>2, <1>3, <1>7, <1>8, <1>9, <1>10, <1>12, <1>13, <1>14, QuietStep

(* What ranking and reranking make of a task.                              *)
LEMMA RankMoves ==
  ASSUME ShapeInv, NEW t \in Tasks, Rank(t)
  PROVE  \E p \in {"rerank", "answered"} : MovesTo(t, p) /\ task'[t].request = task[t].request
<1> DEFINE p == IF Query(t).rerank THEN "rerank" ELSE "answered"
<1>1. PICK intent : \E hits :
        task' = [task EXCEPT ![t].pc = p, ![t].intent = intent, ![t].hits = hits]
  BY DEF Rank
<1>2. PICK hits :
        task' = [task EXCEPT ![t].pc = p, ![t].intent = intent, ![t].hits = hits]
  BY <1>1
<1>3. p \in {"rerank", "answered"}
  OBVIOUS
<1> HIDE DEF p
<1> DEFINE r == [task[t] EXCEPT !.pc = p, !.intent = intent, !.hits = hits]
<1>4. /\ task[t] = [f \in Fields |-> task[t][f]]
      /\ {"pc", "request", "hits", "intent"} \subseteq Fields
  BY DEF ShapeInv, Fields
<1>5. task' = [task EXCEPT ![t] = r]
  BY <1>2
<1>6. r = [f \in Fields |-> r[f]] /\ r.pc = p /\ r.request = task[t].request
  BY <1>4
<1> HIDE DEF r
<1>7. MovesTo(t, p) /\ task'[t].request = task[t].request
  BY <1>5, <1>6, ReplaceMoves
<1>8. QED
  BY <1>3, <1>7

(* A reranking moves on to the answer.                                     *)
LEMMA RerankMoves ==
  ASSUME ShapeInv, NEW t \in Tasks, Rerank(t)
  PROVE  MovesTo(t, "answered") /\ task'[t].request = task[t].request
<1>1. PICK hits : task' = [task EXCEPT ![t].pc = "answered", ![t].hits = hits]
  BY DEF Rerank
<1> DEFINE r == [task[t] EXCEPT !.pc = "answered", !.hits = hits]
<1>2. /\ task[t] = [f \in Fields |-> task[t][f]]
      /\ {"pc", "request", "hits"} \subseteq Fields
  BY DEF ShapeInv, Fields
<1>3. task' = [task EXCEPT ![t] = r]
  BY <1>1
<1>4. r = [f \in Fields |-> r[f]] /\ r.pc = "answered" /\ r.request = task[t].request
  BY <1>2
<1> HIDE DEF r
<1>5. QED
  BY <1>3, <1>4, ReplaceMoves

(* The rest of a route, which is about tools.                              *)
LEMMA RouteSteps ==
  ASSUME IInv, NEW t \in Tasks,
         \/ StartRoute(t) \/ Rank(t) \/ Rerank(t) \/ Return(t) \/ Raise(t) \/ GiveUp(t)
         \/ DeleteFails(t)
  PROVE  IInv'
<1>1. UNCHANGED <<backend, skills, marker, embedder, checked, lock, skillMatrix, unmarked>>
  BY DEF StartRoute, Rank, Rerank, Return, Raise, GiveUp, DeleteFails, store, process, matrices, history
<1>2. task[t].pc \in {"route", "intent", "rerank", "answered", "search", "giveup", "delete"}
  BY DEF StartRoute, Rank, Rerank, Return, Raise, GiveUp, DeleteFails, At
<1>3. task[t].pc \notin Migrating /\ task[t].pc # "idle"
  BY <1>2 DEF Migrating
<1>4. task[t].pc \in {"route", "intent", "rerank"} => task[t].request.does = "retrieve"
  BY DEF IInv, PlaceInv, Belongs
<1>5. CASE Ends(t)
  BY <1>1, <1>3, <1>5, EndingStep
<1>6. CASE StartRoute(t)
  <2>1. MovesTo(t, "search") /\ task'[t].request = task[t].request
    BY <1>6, GoesMoves DEF StartRoute, IInv
  <2>2. task[t].request.does = "retrieve"
    BY <1>4, <1>6 DEF StartRoute, At
  <2>3. QED
    BY <1>1, <1>3, <2>1, <2>2, GoingStep
<1>7. CASE Rank(t)
  <2>1. PICK p \in {"rerank", "answered"} : MovesTo(t, p) /\ task'[t].request = task[t].request
    BY <1>7, RankMoves DEF IInv
  <2>2. task[t].request.does = "retrieve"
    BY <1>4, <1>7 DEF Rank, At
  <2>3. QED
    BY <1>1, <1>3, <2>1, <2>2, GoingStep
<1>8. CASE Rerank(t)
  <2>1. MovesTo(t, "answered") /\ task'[t].request = task[t].request
    BY <1>8, RerankMoves DEF IInv
  <2>2. task[t].request.does = "retrieve"
    BY <1>4, <1>8 DEF Rerank, At
  <2>3. QED
    BY <1>1, <1>3, <2>1, <2>2, GoingStep
<1>9. CASE Raise(t) /\ Goes(t, "giveup")
  <2>1. MovesTo(t, "giveup") /\ task'[t].request = task[t].request
    BY <1>9, GoesMoves DEF IInv
  <2>2. QED
    BY <1>1, <1>3, <2>1, GoingStep
<1>10. QED
  BY <1>5, <1>6, <1>7, <1>8, <1>9 DEF Return, Raise, GiveUp, DeleteFails

(* A step that changes nothing of this.                                    *)
LEMMA Stutter ==
  ASSUME IInv,
         UNCHANGED <<backend, skills, marker, embedder, checked, lock, skillMatrix, unmarked, task>>
  PROVE  IInv'
<1>1. \A e : By(e)' = By(e) /\ Known(e)' = Known(e)
  BY DEF By, Known, RowSet
<1>2. \A u : ListedIds(u)' = ListedIds(u)
  BY DEF ListedIds
<1>3. \A u : Among(u)' = Among(u) /\ \A e : AnewBy(u, e)' = AnewBy(u, e)
  BY <1>2 DEF Among, AnewBy, RowSet
<1>4. ShapeInv' /\ PlaceInv' /\ LockInv' /\ SkillVectorsCurrent'
  BY DEF IInv, ShapeInv, PlaceInv, Belongs, At, LockInv, SkillVectorsCurrent, RowSet
<1>5. TableInv'
  BY <1>1 DEF IInv, TableInv, At
<1>6. ListedInv'
  BY <1>3 DEF IInv, ListedInv, At
<1>7. QED
  BY <1>4, <1>5, <1>6 DEF IInv

(* Who holds the lock is the only one to migrate; the flag is down, so     *)
(* nobody else is past the check.                                          *)
LEMMA HolderAlone ==
  ASSUME IInv, NEW t \in Tasks, lock \in {t, NoTask}, ~checked
  PROVE  \A u \in Tasks \ {t} :
           /\ task[u].pc \notin Migrating
           /\ ~(ForSkills(task[u].request) /\ task[u].pc \in Afterwards)
           /\ ~(At(u, "answered") /\ task[u].request.does = "skills")
<1>1. \A u \in Tasks \ {t} : task[u].pc \notin Migrating
  BY RetrievalAssumption DEF IInv, LockInv
<1>2. \A u \in Tasks : ~(ForSkills(task[u].request) /\ task[u].pc \in Afterwards)
  BY DEF IInv, LockInv
<1>3. \A u \in Tasks : ~(At(u, "answered") /\ task[u].request.does = "skills")
  BY <1>2 DEF At, Afterwards, ForSkills
<1>4. QED
  BY <1>1, <1>2, <1>3

(* A step with the lock held after it, by t: what it leaves in the table   *)
(* and in the list must fit where t is then.                               *)
LEMMA HoldingStep ==
  ASSUME IInv, NEW t \in Tasks, NEW p \in Migrating, MovesTo(t, p),
         lock \in {t, NoTask}, lock' = t, ~checked,
         task'[t].request = task[t].request,
         task[t].pc \in Migrating \cup {"check"},
         UNCHANGED <<backend, marker, embedder, checked, unmarked>>,
         skills' \in Seq(RowSet),
         p # "mark" => \A e \in marker : skills' \in Seq(Known(e)),
         backend = "memory" => skills' = <<>> /\ skillMatrix' \in {skillMatrix, {}},
         p \in {"migrate", "putback"} => backend = "lance",
         p \in {"migrate", "putback", "mark"} => task'[t].listed \in Seq(RowSet),
         p = "migrate" => skills' \in Seq(Among(t)'),
         p = "putback" => skills' = <<>>,
         p = "mark" => skills' \in Seq(AnewBy(t, embedder)')
  PROVE  IInv'
<1>1. /\ task' = [u \in Tasks |-> task'[u]] /\ task'[t].pc = p
      /\ \A u \in Tasks \ {t} : task'[u] = task[u]
      /\ task'[t] = [f \in Fields |-> task'[t][f]]
  BY DEF MovesTo
<1>2. \A u \in Tasks \ {t} :
        /\ task[u].pc \notin Migrating
        /\ ~(ForSkills(task[u].request) /\ task[u].pc \in Afterwards)
        /\ ~(At(u, "answered") /\ task[u].request.does = "skills")
  BY HolderAlone
<1>3. \A e : By(e)' = By(e) /\ Known(e)' = Known(e)
  BY DEF By, Known, RowSet
<1>4. p \notin Afterwards \cup {"idle", "delete", "route", "intent", "rerank", "check"}
  BY DEF Migrating, Afterwards
<1>5. ShapeInv'
  BY <1>1 DEF IInv, ShapeInv, RowSet
<1>6. PlaceInv'
  <2>1. \A u \in Tasks \ {t} : Belongs(u)'
    BY <1>1 DEF IInv, PlaceInv, Belongs, At
  <2>2. Belongs(t)
    BY DEF IInv, PlaceInv
  <2>3. Belongs(t)'
    <3>1. /\ ForSkills(task[t].request) /\ task[t].request.does # "delete"
          /\ task[t].pc # "idle"
      BY <2>2 DEF Belongs, Migrating
    <3>2. QED
      BY <1>1, <1>4, <2>2, <3>1 DEF Belongs, At, Afterwards
  <2>4. QED
    BY <2>1, <2>3 DEF PlaceInv
<1>7. LockInv'
  <2>1. \A u \in Tasks : task'[u].pc \in Migrating <=> lock' = u
    BY <1>1, <1>2
  <2>2. \A u \in Tasks : ~(ForSkills(task'[u].request) /\ task'[u].pc \in Afterwards)
    BY <1>1, <1>2, <1>4
  <2>3. QED
    BY <2>1, <2>2 DEF LockInv
<1>8. TableInv'
  <2>1. p = "mark" => At(t, "mark")'
    BY <1>1 DEF At
  <2>2. backend = "memory" =>
          skills' \in Seq(By(embedder)) /\ skillMatrix' \subseteq Seq(By(embedder))
    BY DEF IInv, TableInv
  <2>3. QED
    BY <1>3, <2>1, <2>2 DEF TableInv
<1>9. ListedInv'
  <2>1. \A u \in Tasks \ {t} : task'[u].pc \notin {"migrate", "putback", "mark"}
    BY <1>1, <1>2 DEF Migrating
  <2>2. QED
    BY <1>1, <2>1 DEF ListedInv, At
<1>10. SkillVectorsCurrent'
  <2>1. \A u \in Tasks : ~(At(u, "answered")' /\ task'[u].request.does = "skills")
    BY <1>1, <1>2, <1>4 DEF At, Afterwards
  <2>2. QED
    BY <2>1 DEF SkillVectorsCurrent
<1>11. QED
  BY <1>5, <1>6, <1>7, <1>8, <1>9, <1>10 DEF IInv

(* A step of its holder that gives the lock back: the marker names an      *)
(* embedder that the table is known to be by, and the flag is up only when *)
(* it is the present one.                                                  *)
LEMMA ReleasingStep ==
  ASSUME IInv, NEW t \in Tasks, NEW p, MovesTo(t, p),
         lock = t, lock' = NoTask, p \notin Migrating, p # "answered",
         task'[t].request \in Requests[backend], Belongs(t)',
         UNCHANGED <<backend, skills, embedder, skillMatrix>>,
         checked' => marker' = {embedder},
         ForSkills(task'[t].request) /\ p \in Afterwards => checked',
         \A e \in marker' : skills \in Seq(Known(e)')
  PROVE  IInv'
<1>0. ~checked
  BY RetrievalAssumption DEF IInv, LockInv
<1>1. /\ task' = [u \in Tasks |-> task'[u]] /\ task'[t].pc = p
      /\ \A u \in Tasks \ {t} : task'[u] = task[u]
      /\ task'[t] = [f \in Fields |-> task'[t][f]]
  BY DEF MovesTo
<1>2. \A u \in Tasks \ {t} :
        /\ task[u].pc \notin Migrating
        /\ ~(ForSkills(task[u].request) /\ task[u].pc \in Afterwards)
        /\ ~(At(u, "answered") /\ task[u].request.does = "skills")
  BY <1>0, HolderAlone
<1>3. \A e : By(e)' = By(e)
  BY DEF By, RowSet
<1>4. ShapeInv'
  BY <1>1 DEF IInv, ShapeInv, RowSet
<1>5. PlaceInv'
  <2>1. \A u \in Tasks \ {t} : Belongs(u)'
    BY <1>1 DEF IInv, PlaceInv, Belongs, At
  <2>2. QED
    BY <2>1 DEF PlaceInv
<1>6. LockInv'
  <2>1. \A u \in Tasks : task'[u].pc \in Migrating <=> lock' = u
    BY <1>1, <1>2, RetrievalAssumption
  <2>2. \A u \in Tasks : ForSkills(task'[u].request) /\ task'[u].pc \in Afterwards => checked'
    BY <1>1, <1>2
  <2>3. QED
    BY <2>1, <2>2 DEF LockInv
<1>7. TableInv'
  BY <1>0, <1>3 DEF IInv, TableInv
<1>8. ListedInv'
  <2>1. \A u \in Tasks : task'[u].pc \notin {"migrate", "putback", "mark"}
    BY <1>1, <1>2 DEF Migrating
  <2>2. QED
    BY <2>1 DEF ListedInv, At
<1>9. SkillVectorsCurrent'
  <2>1. \A u \in Tasks : ~(At(u, "answered")' /\ task'[u].request.does = "skills")
    BY <1>1, <1>2 DEF At
  <2>2. QED
    BY <2>1 DEF SkillVectorsCurrent
<1>10. QED
  BY <1>4, <1>5, <1>6, <1>7, <1>8, <1>9 DEF IInv

(* A sequence whose elements are all in a set is one over it.              *)
LEMMA OverElements ==
  ASSUME NEW R, NEW s \in Seq(R), NEW Q, \A n \in DOMAIN s : s[n] \in Q
  PROVE  s \in Seq(Q)
OBVIOUS

(* Where the migration is when a task is at it.                            *)
LEMMA HolderKnows ==
  ASSUME IInv, NEW t \in Tasks, task[t].pc \in Migrating
  PROVE  /\ lock = t /\ ~checked
         /\ ForSkills(task[t].request)
         /\ task[t].request \in Requests[backend]
         /\ task[t].request.does \in {"add", "skills"}
         /\ backend \in {"memory", "lance"}
         /\ backend = "memory" => skills = <<>>
         /\ ~At(t, "mark") => \A e \in marker : skills \in Seq(Known(e))
<1>1. lock = t /\ ~checked
  BY RetrievalAssumption DEF IInv, LockInv
<1>2. Belongs(t) /\ task[t].pc # "idle"
  BY DEF IInv, PlaceInv, Migrating
<1>3. ForSkills(task[t].request) /\ task[t].request.does # "delete"
  BY <1>2 DEF Belongs
<1>4. task[t].request.does \in {"add", "skills"}
  BY <1>3 DEF ForSkills
<1>5. backend \in {"memory", "lance"}
  BY <1>2, <1>3 DEF Belongs
<1>6. ~At(t, "mark") => \A u \in Tasks : ~At(u, "mark")
  <2>1. \A u \in Tasks \ {t} : task[u].pc \notin Migrating
    BY <1>1, HolderAlone
  <2>2. QED
    BY <2>1 DEF At, Migrating
<1>7. QED
  BY <1>1, <1>3, <1>4, <1>5, <1>6 DEF IInv, TableInv, ShapeInv

(* A task that proceeds is about the skills and past the check.            *)
LEMMA ProceedsBelongs ==
  ASSUME IInv, NEW t \in Tasks, Proceeds(t), UNCHANGED backend,
         ForSkills(task[t].request), task[t].request.does \in {"add", "skills"},
         backend \in {"memory", "lance"}
  PROVE  \E p \in {"write", "search"} :
           /\ MovesTo(t, p) /\ Belongs(t)'
           /\ task'[t].request = task[t].request
           /\ task'[t].request \in Requests[backend]
           /\ p \notin Migrating /\ p # "answered"
<1> DEFINE p == IF task[t].request.does = "add" THEN "write" ELSE "search"
<1>1. MovesTo(t, p) /\ task'[t].request = task[t].request
  BY ProceedsMoves DEF IInv
<1>2. task'[t].pc = p
  BY <1>1 DEF MovesTo
<1>3. Belongs(t)'
  BY <1>1, <1>2 DEF Belongs, At, Migrating
<1>4. task'[t].request \in Requests[backend]
  BY <1>1 DEF IInv, ShapeInv
<1>5. p \in {"write", "search"} /\ p \notin Migrating /\ p # "answered"
  BY DEF Migrating
<1> HIDE DEF p
<1>6. QED
  BY <1>1, <1>3, <1>4, <1>5

(* The check lets a task go on when the flag is up, and otherwise gives it *)
(* the lock when nobody has it.                                            *)
LEMMA CheckStep ==
  ASSUME IInv, NEW t \in Tasks, Check(t)
  PROVE  IInv'
<1>1. task[t].pc = "check" /\ task[t].pc \notin Migrating
  BY DEF Check, At, Migrating
<1>2. /\ ForSkills(task[t].request) /\ task[t].request.does \in {"add", "skills"}
      /\ backend \in {"memory", "lance"}
  BY <1>1 DEF IInv, PlaceInv, Belongs, ForSkills
<1>3. UNCHANGED <<backend, skills, marker, embedder, checked, skillMatrix, unmarked>>
  BY DEF Check, store, matrices, history
<1>4. CASE checked
  <2>1. Proceeds(t) /\ UNCHANGED <<backend, lock>>
    BY <1>4 DEF Check
  <2>2. PICK p \in {"write", "search"} :
          /\ MovesTo(t, p) /\ Belongs(t)'
          /\ task'[t].request = task[t].request
          /\ task'[t].request \in Requests[backend]
          /\ p \notin Migrating /\ p # "answered"
    BY <1>2, <2>1, ProceedsBelongs
  <2>3. QED
    BY <1>1, <1>3, <1>4, <2>1, <2>2, PlainStep
<1>5. CASE ~checked
  <2>1. lock = NoTask /\ lock' = t /\ Goes(t, "marker")
    BY <1>5 DEF Check
  <2>2. MovesTo(t, "marker") /\ task'[t].request = task[t].request
    BY <2>1, GoesMoves DEF IInv
  <2>3. /\ skills \in Seq(RowSet)
        /\ \A e \in marker : skills \in Seq(Known(e))
        /\ backend = "memory" => skills = <<>>
    <3>1. \A u \in Tasks : ~At(u, "mark")
      BY <2>1, RetrievalAssumption DEF IInv, LockInv, At, Migrating
    <3>2. QED
      BY <1>5, <3>1 DEF IInv, TableInv, ShapeInv
  <2>4. "marker" \in Migrating /\ task[t].pc \in Migrating \cup {"check"}
    BY <1>1 DEF Migrating
  <2>5. QED
    BY <1>3, <1>5, <2>1, <2>2, <2>3, <2>4, HoldingStep
<1>6. QED
  BY <1>4, <1>5

(* The marker is read under the lock: the flag goes up when it names this  *)
(* embedder.                                                               *)
LEMMA ReadMarkerStep ==
  ASSUME IInv, NEW t \in Tasks, ReadMarker(t)
  PROVE  IInv'
<1>1. task[t].pc = "marker" /\ task[t].pc \in Migrating /\ ~At(t, "mark")
  BY DEF ReadMarker, At, Migrating
<1>2. /\ lock = t /\ ~checked
      /\ ForSkills(task[t].request) /\ task[t].request.does \in {"add", "skills"}
      /\ backend \in {"memory", "lance"} /\ (backend = "memory" => skills = <<>>)
      /\ \A e \in marker : skills \in Seq(Known(e))
  BY <1>1, HolderKnows
<1>3. UNCHANGED <<backend, skills, marker, embedder, skillMatrix, unmarked>>
  BY DEF ReadMarker, store, matrices, history
<1>4. \A e : Known(e)' = Known(e)
  BY <1>3 DEF Known, RowSet
<1>5. CASE marker = {embedder}
  <2>1. checked' = TRUE /\ lock' = NoTask /\ Proceeds(t)
    BY <1>5 DEF ReadMarker
  <2>2. PICK p \in {"write", "search"} :
          /\ MovesTo(t, p) /\ Belongs(t)'
          /\ task'[t].request = task[t].request
          /\ task'[t].request \in Requests[backend]
          /\ p \notin Migrating /\ p # "answered"
    BY <1>2, <1>3, <2>1, ProceedsBelongs
  <2>3. QED
    BY <1>2, <1>3, <1>4, <1>5, <2>1, <2>2, ReleasingStep
<1>6. CASE marker # {embedder}
  <2>1. checked' = checked /\ lock' = lock /\ Goes(t, "list")
    BY <1>6 DEF ReadMarker
  <2>2. MovesTo(t, "list") /\ task'[t].request = task[t].request
    BY <2>1, GoesMoves DEF IInv
  <2>3. "list" \in Migrating /\ skills \in Seq(RowSet)
    BY DEF Migrating, IInv, ShapeInv
  <2>4. QED
    BY <1>1, <1>2, <1>3, <2>1, <2>2, <2>3, HoldingStep
<1>7. QED
  BY <1>5, <1>6

(* What is listed is all there is.                                         *)
LEMMA ListSkillsStep ==
  ASSUME IInv, NEW t \in Tasks, ListSkills(t)
  PROVE  IInv'
<1> DEFINE p == IF skills = <<>> THEN "mark" ELSE "migrate"
<1>1. task[t].pc = "list" /\ task[t].pc \in Migrating /\ ~At(t, "mark")
  BY DEF ListSkills, At, Migrating
<1>2. /\ lock = t /\ ~checked /\ backend \in {"memory", "lance"}
      /\ backend = "memory" => skills = <<>>
      /\ \A e \in marker : skills \in Seq(Known(e))
  BY <1>1, HolderKnows
<1>3. UNCHANGED <<backend, skills, marker, embedder, checked, lock, skillMatrix, unmarked>>
  BY DEF ListSkills, store, process, matrices, history
<1>4. p \in Migrating /\ p \in {"mark", "migrate"}
  BY DEF Migrating
<1>5. p = "mark" => skills = <<>>
  OBVIOUS
<1>6. p = "migrate" => backend = "lance"
  BY <1>2
<1>7. task' = [task EXCEPT ![t].pc = p, ![t].listed = skills]
  BY DEF ListSkills
<1> HIDE DEF p
<1>8. MovesTo(t, p) /\ task'[t].request = task[t].request /\ task'[t].listed = skills
  BY <1>7, ListingMoves DEF IInv
<1>9. skills \in Seq(RowSet)
  BY DEF IInv, ShapeInv
<1>10. skills \in Seq(Among(t)')
  <2>1. ListedIds(t)' = {RowId(x) : x \in ToSet(skills)}
    BY <1>8 DEF ListedIds
  <2>2. \A n \in DOMAIN skills : skills[n] \in RowSet /\ RowId(skills[n]) \in ListedIds(t)'
    BY <1>9, <2>1 DEF ToSet
  <2>3. \A n \in DOMAIN skills : skills[n] \in Among(t)'
    BY <2>2 DEF Among, RowSet
  <2>4. QED
    BY <1>9, <2>3, OverElements
<1>11. p = "mark" => skills \in Seq(AnewBy(t, embedder)')
  BY <1>5
<1>12. QED
  BY <1>1, <1>2, <1>3, <1>4, <1>6, <1>8, <1>9, <1>10, <1>11, HoldingStep

(* Everything in the table is listed, so deleting what is leaves nothing.  *)
LEMMA MigrateStep ==
  ASSUME IInv, NEW t \in Tasks, Migrate(t)
  PROVE  IInv'
<1>1. task[t].pc = "migrate" /\ task[t].pc \in Migrating
  BY DEF Migrate, At, Migrating
<1>2. lock = t /\ ~checked
  BY <1>1, HolderKnows
<1>3. /\ backend = "lance" /\ task[t].listed \in Seq(RowSet)
      /\ skills \in Seq(Among(t))
  BY <1>1 DEF IInv, ListedInv, At
<1>4. skills' = Without(skills, ListedIds(t)) /\ Goes(t, "putback")
  BY <1>3 DEF Migrate
<1>5. skills' = <<>>
  <2>1. \A r \in Among(t) : RowId(r) \notin ListedIds(t) => r \in {}
    BY DEF Among
  <2>2. skills' \in Seq({})
    BY <1>3, <1>4, <2>1, WithoutType
  <2>3. QED
    BY <2>2
<1>6. UNCHANGED <<backend, marker, embedder, checked, lock, unmarked>>
  BY DEF Migrate, process
<1>7. /\ MovesTo(t, "putback") /\ task'[t].request = task[t].request
      /\ task'[t].listed = task[t].listed
  BY <1>4, GoesMoves DEF IInv, Fields
<1>8. "putback" \in Migrating
  BY DEF Migrating
<1>9. skills' \in Seq(RowSet) /\ \A e \in marker : skills' \in Seq(Known(e))
  BY <1>5
<1>10. QED
  BY <1>1, <1>2, <1>3, <1>5, <1>6, <1>7, <1>8, <1>9, HoldingStep

(* What was listed comes back by the present embedder.                     *)
LEMMA ReembeddedType ==
  ASSUME NEW t \in Tasks, task[t].listed \in Seq(RowSet), embedder \in Embedders
  PROVE  Reembedded(t) \in Seq(AnewBy(t, embedder))
<1> DEFINE l == task[t].listed
           Q == AnewBy(t, embedder)
           row(n) == Row(l[n].item, embedder)
           rows == [n \in 1 .. Len(l) |-> row(n)]
<1>1. Len(l) \in Nat /\ DOMAIN l = 1 .. Len(l) /\ \A n \in 1 .. Len(l) : l[n] \in RowSet
  OBVIOUS
<1>2. Reembedded(t) = rows
  BY <1>1 DEF Reembedded
<1>3. \A n \in 1 .. Len(l) : RowId(l[n]) \in ListedIds(t)
  BY <1>1 DEF ListedIds, ToSet
<1>4. ASSUME NEW n \in 1 .. Len(l) PROVE row(n) \in Q
  <2>1. l[n] \in RowSet /\ RowId(l[n]) \in ListedIds(t)
    BY <1>1, <1>3
  <2> HIDE DEF l
  <2>2. /\ row(n) \in RowSet /\ row(n).made = embedder
        /\ RowId(row(n)) = RowId(l[n])
    BY <2>1 DEF Row, RowSet, RowId
  <2>3. QED
    BY <2>1, <2>2 DEF AnewBy
<1> HIDE DEF l, Q, row
<1>5. rows \in [1 .. Len(l) -> Q]
  BY <1>4
<1> HIDE DEF rows
<1>6. rows \in Seq(Q)
  BY <1>1, <1>5
<1>7. QED
  BY <1>2, <1>6 DEF Q

(* What is put back into the empty table is this embedder's, with the ids  *)
(* that were listed.                                                       *)
LEMMA PutBackStep ==
  ASSUME IInv, NEW t \in Tasks, PutBack(t)
  PROVE  IInv'
<1>1. task[t].pc = "putback" /\ task[t].pc \in Migrating
  BY DEF PutBack, At, Migrating
<1>2. lock = t /\ ~checked
  BY <1>1, HolderKnows
<1>3. backend = "lance" /\ task[t].listed \in Seq(RowSet) /\ skills = <<>>
  BY <1>1 DEF IInv, ListedInv, At
<1>4. Reembedded(t) \in Seq(AnewBy(t, embedder))
  BY <1>3, ReembeddedType DEF IInv, ShapeInv
<1>5. skills' \in Seq(AnewBy(t, embedder))
  <2>1. skills' = <<>> \o Reembedded(t)
    BY <1>3 DEF PutBack
  <2>2. QED
    BY <1>4, <2>1, ConcatEmptySeq
<1>6. UNCHANGED <<backend, marker, embedder, checked, lock, unmarked>>
  BY DEF PutBack, process
<1>7. /\ MovesTo(t, "mark") /\ task'[t].request = task[t].request
      /\ task'[t].listed = task[t].listed
  BY GoesMoves DEF PutBack, IInv, Fields
<1>8. "mark" \in Migrating
  BY DEF Migrating
<1>9. AnewBy(t, embedder)' = AnewBy(t, embedder)
  BY <1>6, <1>7 DEF AnewBy, RowSet, ListedIds
<1>10. skills' \in Seq(RowSet)
  <2>1. AnewBy(t, embedder) \subseteq RowSet
    BY DEF AnewBy
  <2>2. QED
    BY <1>5, <2>1, SeqMonotonic
<1>11. QED
  BY <1>1, <1>2, <1>3, <1>5, <1>6, <1>7, <1>8, <1>9, <1>10, HoldingStep

(* The marker is set when every row is this embedder's, and the flag and   *)
(* the lock with it.                                                       *)
LEMMA MarkStep ==
  ASSUME IInv, NEW t \in Tasks, Mark(t)
  PROVE  IInv'
<1>1. task[t].pc = "mark" /\ task[t].pc \in Migrating
  BY DEF Mark, At, Migrating
<1>2. /\ lock = t
      /\ ForSkills(task[t].request) /\ task[t].request.does \in {"add", "skills"}
      /\ backend \in {"memory", "lance"}
  BY <1>1, HolderKnows
<1>3. skills \in Seq(AnewBy(t, embedder))
  BY <1>1 DEF IInv, ListedInv, At
<1>4. /\ UNCHANGED <<backend, skills, embedder, skillMatrix>>
      /\ marker' = {embedder} /\ checked' = TRUE /\ lock' = NoTask /\ Proceeds(t)
  BY DEF Mark, matrices
<1>5. skills \in Seq(Known(embedder)')
  <2>1. AnewBy(t, embedder) \subseteq Known(embedder)'
    BY <1>4 DEF AnewBy, Known, RowSet
  <2>2. QED
    BY <1>3, <2>1, SeqMonotonic
<1>6. PICK p \in {"write", "search"} :
        /\ MovesTo(t, p) /\ Belongs(t)'
        /\ task'[t].request = task[t].request
        /\ task'[t].request \in Requests[backend]
        /\ p \notin Migrating /\ p # "answered"
  BY <1>2, <1>4, ProceedsBelongs
<1>7. \A e \in marker' : skills \in Seq(Known(e)')
  BY <1>4, <1>5
<1>8. QED
  BY <1>2, <1>4, <1>6, <1>7, ReleasingStep

(* A migration that fails at its marker leaves the marker before or none:  *)
(* what it embedded is then among the exceptions.                          *)
LEMMA MigrationFailsStep ==
  ASSUME IInv, NEW t \in Tasks, MigrationFails(t)
  PROVE  IInv'
<1>1. task[t].pc \in Migrating
  BY DEF MigrationFails, Migrating
<1>2. lock = t /\ ~checked /\ (~At(t, "mark") => \A e \in marker : skills \in Seq(Known(e)))
  BY <1>1, HolderKnows
<1>3. /\ UNCHANGED <<backend, skills, embedder, skillMatrix>>
      /\ checked' = checked /\ lock' = NoTask /\ Ends(t)
      /\ marker' \subseteq marker
      /\ unmarked' = IF At(t, "mark") THEN unmarked \cup ListedIds(t) ELSE unmarked
  BY DEF MigrationFails, matrices
<1>4. ASSUME NEW e \in marker'
      PROVE  skills \in Seq(Known(e)')
  <2>1. CASE At(t, "mark")
    <3>1. skills \in Seq(AnewBy(t, embedder))
      BY <2>1 DEF IInv, ListedInv
    <3>2. AnewBy(t, embedder) \subseteq Known(e)'
      BY <1>3, <2>1 DEF AnewBy, Known, RowSet
    <3>3. QED
      BY <3>1, <3>2, SeqMonotonic
  <2>2. CASE ~At(t, "mark")
    <3>1. Known(e)' = Known(e)
      BY <1>3, <2>2 DEF Known, RowSet
    <3>2. skills \in Seq(Known(e))
      BY <1>2, <1>3, <1>4, <2>2
    <3>3. QED
      BY <3>1, <3>2
  <2>3. QED
    BY <2>1, <2>2
<1>5. MovesTo(t, "idle") /\ task'[t].request \in Requests[backend]
  BY <1>3, EndsMoves DEF IInv
<1>6. task'[t].pc = "idle"
  BY <1>5 DEF MovesTo
<1>7. Belongs(t)'
  BY <1>6 DEF Belongs, At, Migrating
<1>8. "idle" \notin Migrating /\ "idle" \notin Afterwards /\ "idle" # "answered"
  BY DEF Migrating, Afterwards
<1>9. QED
  BY <1>2, <1>3, <1>4, <1>5, <1>7, <1>8, ReleasingStep

(* With every task idle, the lock free and the flag down, the invariant    *)
(* asks that the marker tells the truth of the table.                      *)
Resting ==
  /\ backend \in Backends /\ embedder \in Embedders /\ skills \in Seq(RowSet)
  /\ task = [t \in Tasks |-> Idle] /\ lock = NoTask /\ checked = FALSE
  /\ \A e \in marker : skills \in Seq(Known(e))
  /\ backend = "memory" => skills = <<>> /\ skillMatrix = {}

(* Where no task is at work the invariant is what the marker says.         *)
LEMMA AllIdle == Resting => IInv
<1> SUFFICES ASSUME Resting PROVE IInv
  OBVIOUS
<1>0. /\ backend \in Backends /\ embedder \in Embedders /\ skills \in Seq(RowSet)
      /\ task = [t \in Tasks |-> Idle] /\ lock = NoTask /\ checked = FALSE
      /\ \A e \in marker : skills \in Seq(Known(e))
      /\ backend = "memory" => skills = <<>> /\ skillMatrix = {}
  BY DEF Resting
<1>1. \A t \in Tasks : task[t] = Idle
  BY <1>0
<1>2. AnyRequest \in Requests[backend]
  BY <1>0, RetrievalAssumption DEF AnyRequest
<1>3. ShapeInv
  BY <1>0, <1>1, <1>2, IdleShape DEF ShapeInv
<1>4. \A t \in Tasks : task[t].pc = "idle"
  BY <1>1, IdleShape
<1>5. PlaceInv
  BY <1>4 DEF PlaceInv, Belongs, At, Migrating
<1>6. LockInv
  BY <1>0, <1>4, RetrievalAssumption DEF LockInv, Migrating, Afterwards
<1>7. TableInv
  BY <1>0 DEF TableInv
<1>8. ListedInv /\ SkillVectorsCurrent
  BY <1>4 DEF ListedInv, SkillVectorsCurrent, At
<1>9. QED
  BY <1>3, <1>5, <1>6, <1>7, <1>8 DEF IInv

(* A table that an earlier process left has a marker that names its        *)
(* embedder.                                                               *)
LEMMA InitInv == Init => IInv
<1> SUFFICES ASSUME Init PROVE IInv
  OBVIOUS
<1>1. PICK f \in Former, e \in Embedders :
        /\ skills = IF backend = "lance" THEN Rows(f.skills, e) ELSE <<>>
        /\ marker = IF skills = <<>> THEN {} ELSE {e}
  BY DEF Init
<1>2. f.skills \in Seq(Items)
  <2> DEFINE S == {i \in Items : Sheet[i].kind = "skill"}
  <2>1. f.skills \in Seq(S)
    BY RetrievalAssumption
  <2>2. S \subseteq Items
    OBVIOUS
  <2> HIDE DEF S
  <2>3. QED
    BY <2>1, <2>2, SeqMonotonic
<1>3. skills \in Seq(By(e))
  <2>1. Rows(f.skills, e) \in Seq(By(e)) /\ <<>> \in Seq(By(e))
    BY <1>2, RowsType
  <2>2. QED
    BY <1>1, <2>1
<1>4. By(e) \subseteq RowSet /\ By(e) \subseteq Known(e)
  BY DEF By, Known
<1>5. skills \in Seq(RowSet) /\ skills \in Seq(Known(e))
  BY <1>3, <1>4, SeqMonotonic
<1>6. \A d \in marker : skills \in Seq(Known(d))
  BY <1>1, <1>5
<1>7. backend = "memory" => skills = <<>> /\ skillMatrix = {}
  BY <1>1 DEF Init
<1>8. /\ backend \in Backends /\ embedder \in Embedders
      /\ task = [t \in Tasks |-> Idle] /\ lock = NoTask /\ checked = FALSE
  BY DEF Init
<1>9. QED
  BY <1>5, <1>6, <1>7, <1>8, AllIdle DEF Resting

(* A crash makes exceptions of what was embedded again but not marked; a   *)
(* table that was being put back is empty.                                 *)
LEMMA CrashStep ==
  ASSUME IInv, Crash
  PROVE  Resting'
<1>1. /\ backend' = backend /\ skills' = skills /\ marker' = marker
      /\ embedder' \in Embedders /\ task' = [t \in Tasks |-> Idle]
      /\ lock' = NoTask /\ checked' = FALSE /\ backend # "memory"
      /\ unmarked' = unmarked \cup UNION {ListedIds(t) : t \in {u \in Tasks : At(u, "mark")}}
  BY DEF Crash, Persistent
<1>2. ASSUME NEW e \in marker
      PROVE  skills \in Seq(Known(e)')
  <2>1. CASE \A u \in Tasks : ~At(u, "mark")
    <3>1. skills \in Seq(Known(e))
      BY <1>2, <2>1 DEF IInv, TableInv
    <3>2. Known(e) \subseteq Known(e)'
      BY <1>1 DEF Known, RowSet
    <3>3. QED
      BY <3>1, <3>2, SeqMonotonic
  <2>2. ASSUME NEW u \in Tasks, At(u, "mark")
        PROVE  skills \in Seq(Known(e)')
    <3>1. skills \in Seq(AnewBy(u, embedder))
      BY <2>2 DEF IInv, ListedInv
    <3>2. ListedIds(u) \subseteq unmarked'
      BY <1>1, <2>2
    <3>3. AnewBy(u, embedder) \subseteq Known(e)'
      BY <3>2 DEF AnewBy, Known, RowSet
    <3>4. QED
      BY <3>1, <3>3, SeqMonotonic
  <2>3. QED
    BY <2>1, <2>2
<1>3. backend' \in Backends /\ skills' \in Seq(RowSet)
  BY <1>1 DEF IInv, ShapeInv
<1>4. Idle' = Idle
  BY <1>1 DEF Idle, AnyRequest
<1>5. QED
  BY <1>1, <1>2, <1>3, <1>4 DEF Resting

(* Every step keeps the invariant, or leaves nobody at work.               *)
LEMMA NextInv ==
  ASSUME IInv, [Next]_vars
  PROVE  IInv' \/ Resting'
<1>1. ASSUME NEW t \in Tasks, Step(t)
      PROVE  IInv'
  <2>1. CASE \/ OpenQdrant(t) \/ OpenChroma(t) \/ OpenPG(t) \/ RemoteOpeningFails(t)
             \/ Open(t) \/ DropTools(t) \/ CreateTools(t) \/ FillTools(t) \/ OpeningFails(t)
    BY <2>1, OpenSteps
  <2>2. CASE \/ StartRoute(t) \/ Rank(t) \/ Rerank(t) \/ Return(t) \/ Raise(t) \/ GiveUp(t)
             \/ DeleteFails(t)
    BY <2>2, RouteSteps
  <2>3. CASE Begin(t) \/ SearchTools(t) \/ SearchServers(t) \/ SearchSkills(t)
    BY <2>3, BeginStep, SearchSteps, SearchSkillsStep
  <2>4. CASE \/ MemoryWrite(t) \/ RemoteWrite(t) \/ LanceDelete(t) \/ LanceInsert(t)
             \/ WriteFails(t) \/ Delete(t)
    BY <2>4, MemoryWriteStep, RemoteWriteStep, LanceDeleteStep, LanceInsertStep,
       WriteFailsStep, DeleteStep
  <2>5. CASE \/ Check(t) \/ ReadMarker(t) \/ ListSkills(t) \/ Migrate(t) \/ PutBack(t)
             \/ Mark(t) \/ MigrationFails(t)
    BY <2>5, CheckStep, ReadMarkerStep, ListSkillsStep, MigrateStep, PutBackStep, MarkStep,
       MigrationFailsStep
  <2>6. CASE IntentEnds(t)
    <3>1. UNCHANGED <<backend, skills, marker, embedder, checked, lock, skillMatrix, unmarked, task>>
      BY <2>6 DEF IntentEnds, store, matrices, history
    <3>2. QED
      BY <3>1, Stutter
  <2>7. QED
    BY <1>1, <2>1, <2>2, <2>3, <2>4, <2>5, <2>6 DEF Step
<1>2. CASE Crash
  BY <1>2, CrashStep
<1>3. CASE UNCHANGED vars
  <2>1. UNCHANGED <<backend, skills, marker, embedder, checked, lock, skillMatrix, unmarked, task>>
    BY <1>3 DEF vars, store, process, matrices, history
  <2>2. QED
    BY <2>1, Stutter
<1>4. QED
  BY <1>1, <1>2, <1>3 DEF Next

(* The answers of searches among the skills: in every behaviour, a search  *)
(* that answers compared the query with vectors of this process's embedder *)
(* only, but for what a migration embedded again without its marker.       *)
THEOREM SkillSearchesAreCurrent == Spec => []SkillVectorsCurrent
<1>1. Init => IInv
  BY InitInv
<1>2. IInv /\ [Next]_vars => IInv' \/ Resting'
  BY NextInv
<1>3. Resting => IInv
  BY AllIdle
<1>4. IInv => SkillVectorsCurrent
  BY DEF IInv
<1>5. QED
  BY <1>1, <1>2, <1>3, <1>4, PTL DEF Spec

-----------------------------------------------------------------------------
(* What a filter keeps                                                     *)

(* F has the elements of s at the places W, each once and in their order:  *)
(* h tells which.                                                          *)
Picks(F, h, s, W) ==
  /\ h \in [DOMAIN F -> W]
  /\ \A i, j \in DOMAIN F : i < j => h[i] < h[j]
  /\ \A i, j \in DOMAIN F : h[i] = h[j] => i = j
  /\ \A n \in W : \E i \in DOMAIN F : h[i] = n
  /\ \A i \in DOMAIN F : F[i] = s[h[i]]

(* What a filter keeps of a sequence, one to one with the places it keeps. *)
LEMMA KeptPlaces ==
  ASSUME NEW R, NEW s \in Seq(R), NEW W \in SUBSET DOMAIN s, NEW kept,
         kept = [n \in DOMAIN s |-> IF n \in W THEN <<s[n]>> ELSE <<>>]
  PROVE  FlattenSeq(kept) \in Seq(R) /\ \E h : Picks(FlattenSeq(kept), h, s, W)
<1> DEFINE len == Len(s)
<1>1. len \in Nat /\ DOMAIN s = 1 .. len /\ \A n \in 1 .. len : s[n] \in R
  OBVIOUS
<1> HIDE DEF len
<1>2. \A n \in DOMAIN s : kept[n] = (IF n \in W THEN <<s[n]>> ELSE <<>>) /\ kept[n] \in Seq(R)
  BY <1>1
<1>3. kept \in Seq(Seq(R)) /\ Len(kept) = len
  <2> DEFINE Q == Seq(R)
  <2>1. kept \in [1 .. len -> Q]
    BY <1>1, <1>2
  <2> HIDE DEF Q
  <2>2. kept \in Seq(Q) /\ Len(kept) = len
    BY <1>1, <2>1
  <2>3. QED
    BY <2>2 DEF Q
<1>4. PICK K \in [0 .. len -> Seq(R)] :
        /\ K[0] = <<>>
        /\ \A k \in 1 .. len : K[k] = K[k - 1] \o kept[k]
        /\ FlattenSeq(kept) = K[len]
  <2>1. PICK K \in [0 .. Len(kept) -> Seq(R)] :
        /\ K[0] = <<>>
        /\ \A k \in 1 .. Len(kept) : K[k] = K[k - 1] \o kept[k]
        /\ FlattenSeq(kept) = K[Len(kept)]
    BY <1>3, FlattenSteps
  <2>2. QED
    BY <1>3, <2>1
<1> DEFINE Upto(k) == {n \in W : n <= k}
           T == {k \in 0 .. len : \E h : Picks(K[k], h, s, Upto(k))}
<1>5. 0 \in T
  <2>1. DOMAIN K[0] = {} /\ Upto(0) = {}
    BY <1>1, <1>4
  <2> HIDE DEF Upto
  <2>2. Picks(K[0], [i \in {} |-> i], s, Upto(0))
    BY <2>1 DEF Picks
  <2>3. 0 \in 0 .. len
    BY <1>1
  <2>4. QED
    BY <2>2, <2>3
<1>6. ASSUME NEW k \in 0 .. len, k # 0, k - 1 \in T
      PROVE  k \in T
  <2>1. PICK g : Picks(K[k - 1], g, s, Upto(k - 1))
    BY <1>6
  <2>2. k \in 1 .. len /\ k - 1 \in 0 .. len /\ k \in DOMAIN s
    BY <1>1, <1>6
  <2>3. K[k - 1] \in Seq(R) /\ K[k] = K[k - 1] \o kept[k]
    BY <1>4, <2>2
  <2>4. CASE k \notin W
    <3>1. K[k] = K[k - 1]
      BY <1>2, <2>2, <2>3, <2>4
    <3>2. Upto(k) = Upto(k - 1)
      BY <1>1, <2>2, <2>4
    <3> HIDE DEF Upto
    <3>3. QED
      BY <2>1, <3>1, <3>2
  <2>5. CASE k \in W
    <3> DEFINE m == Len(K[k - 1])
               h == [i \in 1 .. m + 1 |-> IF i = m + 1 THEN k ELSE g[i]]
    <3>1. m \in Nat /\ DOMAIN K[k - 1] = 1 .. m
      BY <2>3
    <3>2. K[k] = Append(K[k - 1], s[k]) /\ s[k] \in R
      BY <1>1, <1>2, <2>2, <2>3, <2>5
    <3>3. /\ DOMAIN K[k] = 1 .. m + 1
          /\ \A i \in 1 .. m : K[k][i] = K[k - 1][i]
          /\ K[k][m + 1] = s[k]
      <4> DEFINE q == K[k - 1]
                 x == s[k]
      <4>1. q \in Seq(R) /\ x \in R
        BY <2>3, <3>2
      <4> HIDE DEF q, x
      <4>2. /\ DOMAIN Append(q, x) = 1 .. Len(q) + 1
            /\ \A i \in 1 .. Len(q) : Append(q, x)[i] = q[i]
            /\ Append(q, x)[Len(q) + 1] = x
        BY <4>1
      <4>3. QED
        BY <3>2, <4>2 DEF q, x
    <3> HIDE DEF m
    <3>4. /\ \A i \in 1 .. m : g[i] \in W /\ g[i] <= k - 1 /\ K[k - 1][i] = s[g[i]]
          /\ \A i, j \in 1 .. m : g[i] = g[j] => i = j
          /\ \A n \in W : n <= k - 1 => \E i \in 1 .. m : g[i] = n
      BY <2>1, <3>1 DEF Picks
    <3>5. \A i \in 1 .. m + 1 : i # m + 1 => i \in 1 .. m
      BY <3>1
    <3>6. \A n \in W : n <= k => n = k \/ n <= k - 1
      BY <1>1, <2>2
    <3>7. \A n \in W : n <= k - 1 => n <= k /\ n # k
      BY <1>1, <2>2
    <3>8. m + 1 \in 1 .. m + 1 /\ \A i \in 1 .. m : i \in 1 .. m + 1 /\ i # m + 1
      BY <3>1
    <3>9. /\ h[m + 1] = k /\ \A i \in 1 .. m : h[i] = g[i]
          /\ h = [i \in 1 .. m + 1 |-> h[i]]
      BY <3>8
    <3> HIDE DEF h
    <3>10. \A i \in 1 .. m + 1 : h[i] \in Upto(k)
      <4>1. k \in W /\ k <= k
        BY <2>2, <2>5
      <4>2. \A i \in 1 .. m : g[i] \in W /\ g[i] <= k
        BY <3>4, <3>7
      <4>3. QED
        BY <3>5, <3>9, <4>1, <4>2
    <3>11. \A i, j \in 1 .. m + 1 : h[i] = h[j] => i = j
      BY <3>4, <3>5, <3>7, <3>9
    <3>12. \A n \in Upto(k) : \E i \in 1 .. m + 1 : h[i] = n
      BY <3>4, <3>6, <3>8, <3>9
    <3>13. \A i \in 1 .. m + 1 : K[k][i] = s[h[i]]
      BY <3>3, <3>4, <3>5, <3>9
    <3> HIDE DEF Upto
    <3>14. h \in [1 .. m + 1 -> Upto(k)]
      BY <3>9, <3>10
    <3>15. \A i, j \in 1 .. m + 1 : i < j => h[i] < h[j]
      <4>1. ASSUME NEW i \in 1 .. m + 1, NEW j \in 1 .. m + 1, i < j
            PROVE  h[i] < h[j]
        <5>1. i \in 1 .. m
          BY <3>1, <4>1
        <5>2. g[i] \in W /\ g[i] <= k - 1 /\ h[i] = g[i]
          BY <3>4, <3>9, <5>1
        <5>3. CASE j = m + 1
          BY <1>1, <2>2, <3>9, <5>2, <5>3
        <5>4. CASE j # m + 1
          <6>1. j \in 1 .. m
            BY <3>5, <5>4
          <6>2. g[i] < g[j]
            BY <2>1, <3>1, <4>1, <5>1, <6>1 DEF Picks
          <6>3. QED
            BY <3>9, <5>2, <6>1, <6>2
        <5>5. QED
          BY <5>3, <5>4
      <4>2. QED
        BY <4>1
    <3>16. Picks(K[k], h, s, Upto(k))
      BY <3>3, <3>11, <3>12, <3>13, <3>14, <3>15 DEF Picks
    <3>17. QED
      BY <3>16
  <2>6. QED
    BY <2>4, <2>5
<1>7. len \in T
  <2> HIDE DEF T
  <2>1. len \in 0 .. len
    BY <1>1
  <2>2. \A k \in 0 .. len : k \in T
    BY <1>1, <1>5, <1>6, UpTo
  <2>3. QED
    BY <2>1, <2>2
<1>8. PICK h : Picks(K[len], h, s, Upto(len))
  BY <1>7
<1>9. Upto(len) = W
  BY <1>1
<1>10. K[len] \in Seq(R)
  BY <1>1
<1> HIDE DEF Upto, T
<1>11. QED
  BY <1>4, <1>8, <1>9, <1>10

-----------------------------------------------------------------------------
(* A table's rows of one id                                                *)

(* There is none; there is one, of this item; and what there should be.    *)
None(T, id) == \A n \in DOMAIN T : RowId(T[n]) # id
Once(T, id, v) ==
  \E k \in DOMAIN T : T[k].item = v /\ \A n \in DOMAIN T : RowId(T[n]) = id <=> n = k
Right(T, id, v) == IF v = NoItem THEN None(T, id) ELSE Once(T, id, v)
Keyed(T) == \A m, n \in DOMAIN T : RowId(T[m]) = RowId(T[n]) => m = n
(* Of this id the second table has what the first has.                     *)
Keeps(T, U, id) == (None(T, id) => None(U, id)) /\ \A v : Once(T, id, v) => Once(U, id, v)

(* The look-up of an id finds what there is.                               *)
LEMMA Found ==
  ASSUME NEW R, NEW T \in Seq(R), NEW id
  PROVE  /\ InTable(T, id) = <<>> <=> None(T, id)
         /\ \A v : Once(T, id, v) => Len(InTable(T, id)) = 1 /\ InTable(T, id)[1].item = v
         /\ \A v : Once(T, id, v) => InTable(T, id) \in Seq(R)
<1> DEFINE W == {n \in DOMAIN T : RowId(T[n]) = id}
           kept == [n \in DOMAIN T |-> IF n \in W THEN <<T[n]>> ELSE <<>>]
           F == FlattenSeq(kept)
<1>1. InTable(T, id) = F
  <2>1. kept = [n \in DOMAIN T |-> IF RowId(T[n]) = id THEN <<T[n]>> ELSE <<>>]
    OBVIOUS
  <2>2. QED
    BY <2>1 DEF InTable, Those
<1>2. W \in SUBSET DOMAIN T
  OBVIOUS
<1>3. F \in Seq(R) /\ \E h : Picks(F, h, T, W)
  <2>1. kept = [n \in DOMAIN T |-> IF n \in W THEN <<T[n]>> ELSE <<>>]
    OBVIOUS
  <2> HIDE DEF W, kept
  <2>2. QED
    BY <1>2, <2>1, KeptPlaces
<1> HIDE DEF F, kept
<1>4. PICK h \in [DOMAIN F -> W] :
        /\ \A i, j \in DOMAIN F : h[i] = h[j] => i = j
        /\ \A n \in W : \E i \in DOMAIN F : h[i] = n
        /\ \A i \in DOMAIN F : F[i] = T[h[i]]
  BY <1>3 DEF Picks
<1>5. Len(F) \in Nat /\ DOMAIN F = 1 .. Len(F) /\ (F = <<>> <=> Len(F) = 0)
  BY <1>3
<1>6. None(T, id) <=> W = {}
  BY DEF None
<1>7. W = {} <=> Len(F) = 0
  <2>1. ASSUME W = {}, Len(F) # 0 PROVE FALSE
    <3>1. 1 \in DOMAIN F
      BY <1>5, <2>1
    <3>2. QED
      BY <2>1, <3>1
  <2>2. ASSUME Len(F) = 0, NEW n \in W PROVE FALSE
    BY <1>4, <1>5, <2>2
  <2>3. QED
    BY <2>1, <2>2
<1>8. ASSUME NEW v, Once(T, id, v)
      PROVE  Len(F) = 1 /\ F[1].item = v
  <2>1. PICK k \in DOMAIN T : T[k].item = v /\ \A n \in DOMAIN T : RowId(T[n]) = id <=> n = k
    BY <1>8 DEF Once
  <2>2. W = {k}
    BY <2>1
  <2> HIDE DEF W
  <2>3. \A i \in DOMAIN F : h[i] = k /\ F[i] = T[k]
    BY <1>4, <2>2
  <2>4. Len(F) # 0
    BY <1>7, <2>2
  <2>5. Len(F) < 2
    <3>1. SUFFICES ASSUME Len(F) >= 2 PROVE FALSE
      BY <1>5
    <3>2. 1 \in DOMAIN F /\ 2 \in DOMAIN F
      BY <1>5, <3>1
    <3>3. h[1] = h[2]
      BY <2>3, <3>2
    <3>4. QED
      BY <1>4, <3>2, <3>3
  <2>6. Len(F) = 1 /\ 1 \in DOMAIN F
    BY <1>5, <2>4, <2>5
  <2>7. QED
    BY <2>1, <2>3, <2>6
<1>9. QED
  BY <1>1, <1>3, <1>5, <1>6, <1>7, <1>8

(* Deleting takes the rows of the ids away and no others.                  *)
LEMMA WithoutRows ==
  ASSUME NEW R, NEW T \in Seq(R), NEW ids
  PROVE  /\ Without(T, ids) \in Seq(R)
         /\ \A id \in ids : None(Without(T, ids), id)
         /\ \A id : id \notin ids => Keeps(T, Without(T, ids), id)
         /\ Keyed(T) => Keyed(Without(T, ids))
<1> DEFINE W == {n \in DOMAIN T : RowId(T[n]) \notin ids}
           kept == [n \in DOMAIN T |-> IF n \in W THEN <<T[n]>> ELSE <<>>]
           F == FlattenSeq(kept)
<1>1. Without(T, ids) = F
  <2>1. kept = [n \in DOMAIN T |-> IF RowId(T[n]) \notin ids THEN <<T[n]>> ELSE <<>>]
    OBVIOUS
  <2>2. QED
    BY <2>1 DEF Without, Those
<1>2. W \in SUBSET DOMAIN T
  OBVIOUS
<1>3. F \in Seq(R) /\ \E h : Picks(F, h, T, W)
  <2>1. kept = [n \in DOMAIN T |-> IF n \in W THEN <<T[n]>> ELSE <<>>]
    OBVIOUS
  <2> HIDE DEF W, kept
  <2>2. QED
    BY <1>2, <2>1, KeptPlaces
<1> HIDE DEF F, kept
<1>4. PICK h \in [DOMAIN F -> W] :
        /\ \A i, j \in DOMAIN F : h[i] = h[j] => i = j
        /\ \A n \in W : \E i \in DOMAIN F : h[i] = n
        /\ \A i \in DOMAIN F : F[i] = T[h[i]]
  BY <1>3 DEF Picks
<1>5. \A i \in DOMAIN F : h[i] \in DOMAIN T /\ F[i] = T[h[i]] /\ RowId(F[i]) \notin ids
  BY <1>4
<1>6. \A id \in ids : None(F, id)
  BY <1>5 DEF None
<1>7. ASSUME NEW id, id \notin ids
      PROVE  Keeps(T, F, id)
  <2>1. None(T, id) => None(F, id)
    BY <1>5 DEF None
  <2>2. ASSUME NEW v, Once(T, id, v)
        PROVE  Once(F, id, v)
    <3>1. PICK k \in DOMAIN T : T[k].item = v /\ \A n \in DOMAIN T : RowId(T[n]) = id <=> n = k
      BY <2>2 DEF Once
    <3>2. k \in W
      BY <1>7, <3>1
    <3>3. PICK i \in DOMAIN F : h[i] = k
      BY <1>4, <3>2
    <3>4. F[i].item = v
      BY <1>4, <3>1, <3>3
    <3>5. \A j \in DOMAIN F : RowId(F[j]) = id <=> h[j] = k
      BY <1>5, <3>1
    <3>6. \A j \in DOMAIN F : RowId(F[j]) = id <=> j = i
      BY <1>4, <3>3, <3>5
    <3>7. QED
      BY <3>4, <3>6 DEF Once
  <2>3. QED
    BY <2>1, <2>2 DEF Keeps
<1>8. Keyed(T) => Keyed(F)
  BY <1>4, <1>5 DEF Keyed
<1>9. QED
  BY <1>1, <1>3, <1>6, <1>7, <1>8

(* Rows added to a table stand beside those it has.                        *)
LEMMA AddedRows ==
  ASSUME NEW R, NEW T \in Seq(R), NEW U \in Seq(R), NEW id
  PROVE  /\ T \o U \in Seq(R)
         /\ None(U, id) => Keeps(T, T \o U, id)
         /\ None(T, id) => Keeps(U, T \o U, id)
<1> DEFINE m == Len(T)
           n == Len(U)
           C == T \o U
<1>1. m \in Nat /\ n \in Nat /\ DOMAIN T = 1 .. m /\ DOMAIN U = 1 .. n
  OBVIOUS
<1>2. /\ C \in Seq(R) /\ DOMAIN C = 1 .. m + n
      /\ \A i \in 1 .. m + n : C[i] = IF i <= m THEN T[i] ELSE U[i - m]
  <2>1. C \in Seq(R) /\ Len(C) = m + n
    BY ConcatProperties
  <2>2. DOMAIN C = 1 .. m + n
    BY <2>1
  <2>3. QED
    BY <2>1, <2>2, ConcatProperties
<1> HIDE DEF m, n, C
<1>3. /\ \A i \in 1 .. m : i \in 1 .. m + n /\ C[i] = T[i]
      /\ \A i \in 1 .. n : m + i \in 1 .. m + n /\ ~(m + i <= m) /\ (m + i) - m = i
      /\ \A i \in 1 .. m + n : i \in 1 .. m \/ (i - m \in 1 .. n /\ C[i] = U[i - m] /\ i = m + (i - m))
  BY <1>1, <1>2
<1>4. \A i \in 1 .. n : C[m + i] = U[i]
  BY <1>2, <1>3
<1>5. ASSUME None(U, id) PROVE Keeps(T, C, id)
  <2>1. \A i \in 1 .. m + n : RowId(C[i]) = id => i \in 1 .. m
    BY <1>1, <1>3, <1>5 DEF None
  <2>2. None(T, id) => None(C, id)
    BY <1>1, <1>2, <1>3, <2>1 DEF None
  <2>3. ASSUME NEW v, Once(T, id, v) PROVE Once(C, id, v)
    <3>1. PICK k \in 1 .. m : T[k].item = v /\ \A i \in 1 .. m : RowId(T[i]) = id <=> i = k
      BY <1>1, <2>3 DEF Once
    <3>2. k \in DOMAIN C /\ C[k].item = v
      BY <1>2, <1>3, <3>1
    <3>3. \A i \in DOMAIN C : RowId(C[i]) = id <=> i = k
      BY <1>2, <1>3, <2>1, <3>1
    <3>4. QED
      BY <3>2, <3>3 DEF Once
  <2>4. QED
    BY <2>2, <2>3 DEF Keeps
<1>6. ASSUME None(T, id) PROVE Keeps(U, C, id)
  <2>1. \A i \in 1 .. m : RowId(C[i]) # id
    BY <1>1, <1>3, <1>6 DEF None
  <2>2. None(U, id) => None(C, id)
    BY <1>1, <1>2, <1>3, <2>1 DEF None
  <2>3. ASSUME NEW v, Once(U, id, v) PROVE Once(C, id, v)
    <3>1. PICK k \in 1 .. n : U[k].item = v /\ \A i \in 1 .. n : RowId(U[i]) = id <=> i = k
      BY <1>1, <2>3 DEF Once
    <3>2. m + k \in DOMAIN C /\ C[m + k] = U[k]
      BY <1>2, <1>3, <1>4, <3>1
    <3>3. ASSUME NEW i \in DOMAIN C
          PROVE  RowId(C[i]) = id <=> i = m + k
      <4>1. CASE i \in 1 .. m
        BY <1>1, <2>1, <3>1, <4>1
      <4>2. CASE i - m \in 1 .. n /\ C[i] = U[i - m] /\ i = m + (i - m)
        <5>1. RowId(C[i]) = id <=> i - m = k
          BY <3>1, <4>2
        <5>2. i \in Int /\ m \in Int /\ k \in Int
          BY <1>1, <1>2, <3>1
        <5>3. i - m = k <=> i = m + k
          BY <5>2
        <5>4. QED
          BY <5>1, <5>3
      <4>3. QED
        BY <1>2, <1>3, <4>1, <4>2
    <3>4. QED
      BY <3>1, <3>2, <3>3 DEF Once
  <2>4. QED
    BY <2>2, <2>3 DEF Keeps
<1>7. QED
  BY <1>2, <1>5, <1>6 DEF C

(* Another embedder's vectors leave a table its items.                     *)
LEMMA SameItems ==
  ASSUME NEW T, NEW U, DOMAIN U = DOMAIN T,
         \A n \in DOMAIN T : U[n].item = T[n].item
  PROVE  /\ \A id : Keeps(T, U, id)
         /\ Keyed(T) => Keyed(U)
<1>1. \A n \in DOMAIN T : RowId(U[n]) = RowId(T[n])
  BY DEF RowId
<1>2. ASSUME NEW id PROVE Keeps(T, U, id)
  <2>1. None(T, id) => None(U, id)
    BY <1>1 DEF None
  <2>2. ASSUME NEW v, Once(T, id, v) PROVE Once(U, id, v)
    BY <1>1, <2>2 DEF Once
  <2>3. QED
    BY <2>1, <2>2 DEF Keeps
<1>3. Keyed(T) => Keyed(U)
  BY <1>1 DEF Keyed
<1>4. QED
  BY <1>2, <1>3

(* A row written by its id replaces the one there is, or is added.         *)
LEMMA OverwrittenRows ==
  ASSUME NEW R, NEW T \in Seq(R), NEW row \in R, Keyed(T)
  PROVE  /\ Overwritten(T, row) \in Seq(R)
         /\ Keyed(Overwritten(T, row))
         /\ Once(Overwritten(T, row), RowId(row), row.item)
         /\ \A id : id # RowId(row) => Keeps(T, Overwritten(T, row), id)
<1> DEFINE me == RowId(row)
           V == Overwritten(T, row)
<1>1. V \in Seq(R)
  BY OverwrittenType
<1>2. CASE None(T, me)
  <2> DEFINE one == <<row>>
  <2>1. V = T \o one
    <3>1. InTable(T, me) = <<>>
      BY <1>2, Found
    <3>2. V = Append(T, row)
      BY <3>1 DEF Overwritten
    <3>3. QED
      BY <3>2, AppendIsConcat
  <2>2. one \in Seq(R) /\ DOMAIN one = {1} /\ one[1] = row
    OBVIOUS
  <2> HIDE DEF one, me
  <2>3. Once(one, RowId(row), row.item) /\ \A id : id # RowId(row) => None(one, id)
    BY <2>2 DEF Once, None
  <2>4. Once(T \o one, RowId(row), row.item)
    BY <1>2, <2>2, <2>3, AddedRows DEF Keeps, me
  <2>5. \A id : id # RowId(row) => Keeps(T, T \o one, id)
    BY <2>2, <2>3, AddedRows
  <2>6. Keyed(T \o one)
    <3> DEFINE m == Len(T)
    <3>1. /\ m \in Nat /\ DOMAIN T = 1 .. m /\ DOMAIN (T \o one) = 1 .. m + 1
          /\ \A i \in 1 .. m : (T \o one)[i] = T[i]
          /\ (T \o one)[m + 1] = row
      <4>1. T \o one = Append(T, row)
        BY AppendIsConcat DEF one
      <4>2. QED
        BY <4>1
    <3> HIDE DEF m
    <3>2. \A i \in 1 .. m + 1 : i \in 1 .. m \/ i = m + 1
      BY <3>1
    <3>3. \A i \in 1 .. m : RowId((T \o one)[i]) # RowId(row)
      BY <1>2, <3>1 DEF None, me
    <3>4. QED
      BY <3>1, <3>2, <3>3 DEF Keyed
  <2>7. QED
    BY <1>1, <2>1, <2>4, <2>5, <2>6
<1>3. CASE ~None(T, me)
  <2>1. V = [n \in DOMAIN T |-> IF RowId(T[n]) = me THEN row ELSE T[n]]
    <3>1. InTable(T, me) # <<>>
      BY <1>3, Found
    <3>2. QED
      BY <3>1 DEF Overwritten
  <2>2. DOMAIN V = DOMAIN T /\ \A n \in DOMAIN T : V[n] = IF RowId(T[n]) = me THEN row ELSE T[n]
    BY <2>1
  <2> HIDE DEF V
  <2>3. \A n \in DOMAIN T : RowId(V[n]) = RowId(T[n])
    BY <2>2
  <2>4. Keyed(V)
    BY <2>2, <2>3 DEF Keyed
  <2>5. Once(V, me, row.item)
    <3>1. PICK k \in DOMAIN T : RowId(T[k]) = me
      BY <1>3 DEF None
    <3>2. V[k].item = row.item /\ \A n \in DOMAIN V : RowId(V[n]) = me <=> n = k
      BY <2>2, <2>3, <3>1 DEF Keyed
    <3>3. QED
      BY <2>2, <3>1, <3>2 DEF Once
  <2>6. ASSUME NEW id, id # me PROVE Keeps(T, V, id)
    <3>1. None(T, id) => None(V, id)
      BY <2>2, <2>3 DEF None
    <3>2. ASSUME NEW v, Once(T, id, v) PROVE Once(V, id, v)
      <4>1. PICK k \in DOMAIN T : T[k].item = v /\ \A n \in DOMAIN T : RowId(T[n]) = id <=> n = k
        BY <3>2 DEF Once
      <4>2. V[k] = T[k]
        BY <2>2, <2>6, <4>1
      <4>3. \A n \in DOMAIN V : RowId(V[n]) = id <=> n = k
        BY <2>2, <2>3, <4>1
      <4>4. QED
        BY <2>2, <4>1, <4>2, <4>3 DEF Once
    <3>3. QED
      BY <3>1, <3>2 DEF Keeps
  <2>7. QED
    BY <1>1, <2>4, <2>5, <2>6 DEF V
<1>4. QED
  BY <1>2, <1>3

(* What a table keeps it keeps through several changes.                    *)
LEMMA KeepsOn ==
  ASSUME NEW T, NEW U, NEW V, NEW id, Keeps(T, U, id), Keeps(U, V, id)
  PROVE  Keeps(T, V, id)
BY DEF Keeps

(* An upsert leaves one row of each id of the batch, by the last that has  *)
(* it, and of the others what there was.                                   *)
LEMMA UpsertedRows ==
  ASSUME NEW R, NEW T \in Seq(R), NEW rows \in Seq(R), Keyed(T)
  PROVE  /\ Upserted(T, rows) \in Seq(R)
         /\ Keyed(Upserted(T, rows))
         /\ \A id : None(rows, id) => Keeps(T, Upserted(T, rows), id)
         /\ \A k \in DOMAIN rows :
              (\A j \in DOMAIN rows : j > k => RowId(rows[j]) # RowId(rows[k]))
                => Once(Upserted(T, rows), RowId(rows[k]), rows[k].item)
<1> DEFINE n == Len(rows)
<1>1. n \in Nat /\ DOMAIN rows = 1 .. n /\ \A i \in 1 .. n : rows[i] \in R
  OBVIOUS
<1>2. PICK K \in [0 .. n -> Seq(R)] :
        /\ K[0] = T
        /\ \A k \in 1 .. n : K[k] = Overwritten(K[k - 1], rows[k])
        /\ Upserted(T, rows) = K[n]
  BY UpsertedSteps
<1> HIDE DEF n
<1>3. n \in 0 .. n /\ 0 \in 0 .. n
  BY <1>1
<1>4. ASSUME NEW k \in 0 .. n, k # 0
      PROVE  /\ k \in 1 .. n /\ k - 1 \in 0 .. n /\ K[k - 1] \in Seq(R) /\ rows[k] \in R
             /\ K[k] = Overwritten(K[k - 1], rows[k])
  <2>1. k \in 1 .. n /\ k - 1 \in 0 .. n
    BY <1>1, <1>4
  <2>2. QED
    BY <1>1, <1>2, <2>1
<1>5. \A k \in 0 .. n : Keyed(K[k])
  <2> DEFINE S == {k \in 0 .. n : Keyed(K[k])}
  <2>1. 0 \in S
    BY <1>2, <1>3
  <2>2. ASSUME NEW k \in 0 .. n, k # 0, k - 1 \in S PROVE k \in S
    BY <1>4, <2>2, OverwrittenRows
  <2> HIDE DEF S
  <2>3. \A k \in 0 .. n : k \in S
    BY <1>1, <2>1, <2>2, UpTo
  <2>4. QED
    BY <2>3 DEF S
<1>6. ASSUME NEW k \in 0 .. n, k # 0
      PROVE  /\ Once(K[k], RowId(rows[k]), rows[k].item)
             /\ \A id : id # RowId(rows[k]) => Keeps(K[k - 1], K[k], id)
  <2> DEFINE q == K[k - 1]
             row == rows[k]
  <2>1. q \in Seq(R) /\ row \in R /\ Keyed(q) /\ K[k] = Overwritten(q, row)
    BY <1>4, <1>5, <1>6
  <2> HIDE DEF q, row
  <2>2. /\ Once(Overwritten(q, row), RowId(row), row.item)
        /\ \A id : id # RowId(row) => Keeps(q, Overwritten(q, row), id)
    BY <2>1, OverwrittenRows
  <2>3. QED
    BY <2>1, <2>2 DEF q, row
<1>7. ASSUME NEW id, None(rows, id)
      PROVE  Keeps(T, K[n], id)
  <2> DEFINE S == {k \in 0 .. n : Keeps(T, K[k], id)}
  <2>1. 0 \in S
    BY <1>2, <1>3 DEF Keeps
  <2>2. ASSUME NEW k \in 0 .. n, k # 0, k - 1 \in S PROVE k \in S
    <3>1. RowId(rows[k]) # id
      BY <1>1, <1>4, <1>7, <2>2 DEF None
    <3>2. Keeps(K[k - 1], K[k], id)
      BY <1>6, <2>2, <3>1
    <3>3. QED
      BY <2>2, <3>2, KeepsOn
  <2> HIDE DEF S
  <2>3. \A k \in 0 .. n : k \in S
    BY <1>1, <2>1, <2>2, UpTo
  <2>4. QED
    BY <1>3, <2>3 DEF S
<1>8. ASSUME NEW k \in 1 .. n, \A j \in 1 .. n : j > k => RowId(rows[j]) # RowId(rows[k])
      PROVE  Once(K[n], RowId(rows[k]), rows[k].item)
  <2> DEFINE id == RowId(rows[k])
             v == rows[k].item
             S == {j \in 0 .. n : j >= k => Once(K[j], id, v)}
  <2>1. 0 \in S
    BY <1>1, <1>3
  <2>2. ASSUME NEW j \in 0 .. n, j # 0, j - 1 \in S PROVE j \in S
    <3>1. CASE j = k
      BY <1>6, <2>2, <3>1
    <3>2. CASE j > k
      <4>1. j - 1 >= k /\ j \in 1 .. n
        BY <1>1, <2>2, <3>2
      <4>2. Once(K[j - 1], id, v)
        BY <2>2, <4>1
      <4>3. Keeps(K[j - 1], K[j], id)
        BY <1>6, <1>8, <2>2, <3>2, <4>1
      <4>4. QED
        BY <4>2, <4>3 DEF Keeps
    <3>3. CASE j < k
      BY <1>1, <3>3
    <3>4. QED
      BY <1>1, <3>1, <3>2, <3>3
  <2> HIDE DEF S
  <2>3. \A j \in 0 .. n : j \in S
    BY <1>1, <2>1, <2>2, UpTo
  <2>4. n >= k
    BY <1>1
  <2>5. QED
    BY <1>3, <2>3, <2>4 DEF S
<1>9. K[n] \in Seq(R)
  BY <1>2, <1>3
<1>10. QED
  BY <1>1, <1>2, <1>3, <1>5, <1>7, <1>8, <1>9

-----------------------------------------------------------------------------
(* The inductive invariant of the tables                                   *)

ToolRows == {r \in RowSet : ~RowId(r)[1]}
SkillRows == {r \in RowSet : RowId(r)[1]}
TableOf(id) == IF id[1] THEN skills ELSE tools
Marred == disturbed \cup torn

(* The ids that a task has deleted and not yet put back.                   *)
Broken(u) ==
  {id \in Ids : \/ At(u, "insert") /\ id \in BatchIds(u)
                \/ At(u, "putback") /\ id \in ListedIds(u)
                \/ task[u].pc \in {"create", "fill"} /\ ~id[1]}

(* The ids of the table whose rows a task has listed.                      *)
Lists(u) ==
  {id \in Ids : IF id[1] THEN task[u].pc \in {"migrate", "putback"} ELSE Opening(u)}

(* The tables hold rows of their kind; only LanceDB's may repeat an id, or *)
(* be dropped.                                                             *)
KindInv == tools \in Seq(ToolRows) /\ skills \in Seq(SkillRows)
KeyedInv == backend # "lance" => Keyed(tools) /\ Keyed(skills)
ThereInv == backend = "lance" /\ ~there => tools = <<>>

(* Only LanceDB writes in two steps, and what is listed is of one kind.    *)
Carries(u) ==
  /\ task[u].pc \in {"insert", "drop", "create", "fill"} => backend = "lance"
  /\ Opening(u) => task[u].listed \in Seq(ToolRows)
  /\ task[u].pc \in {"migrate", "putback"} => task[u].listed \in Seq(SkillRows)
CarryInv == \A u \in Tasks : Carries(u)

(* An id that nobody has deleted has what it should.                       *)
MainInv ==
  \A id \in Ids \ Marred :
    (\A u \in Tasks : id \notin Broken(u)) => Right(TableOf(id), id, should[id])

(* One that somebody has deleted has nothing.                              *)
BrokenInv ==
  \A u \in Tasks : \A id \in Broken(u) \ Marred : None(TableOf(id), id)

(* What a task has listed is right but for what others have deleted.       *)
Claim(u) ==
  \A id \in Lists(u) \ Marred :
    (\A w \in Tasks \ {u} : id \notin Broken(w)) => Right(task[u].listed, id, should[id])
ClaimInv == \A u \in Tasks : Claim(u)

SettledInv ==
  KindInv /\ KeyedInv /\ ThereInv /\ CarryInv /\ MainInv /\ BrokenInv /\ ClaimInv

(* The ids of a table are of its kind.                                     *)
LEMMA KindOfId ==
  ASSUME NEW id \in Ids
  PROVE  id[1] \in BOOLEAN /\ (id \in ToolIds <=> ~id[1])
<1>1. PICK i \in Items : id = IdOf(i)
  BY DEF Ids
<1>2. id[1] = (Sheet[i].kind = "skill")
  BY <1>1 DEF IdOf
<1>3. QED
  BY <1>2 DEF ToolIds

(* What a task is rewriting, by where it is.                               *)
LEMMA RewritingIs ==
  ASSUME NEW u \in Tasks
  PROVE  /\ At(u, "insert") => Rewriting(u) = BatchIds(u)
         /\ task[u].pc \in {"migrate", "putback"} => Rewriting(u) = ListedIds(u)
         /\ Opening(u) => Rewriting(u) = ToolIds
<1> DEFINE batch == IdsOf(ToSet(task[u].request.items))
           listed == {RowId(r) : r \in ToSet(task[u].listed)}
<1>1. Rewriting(u) = CASE At(u, "insert") -> batch
                       [] task[u].pc \in {"migrate", "putback"} -> listed
                       [] Opening(u) -> ToolIds
                       [] OTHER -> {}
  BY DEF Rewriting
<1>2. BatchIds(u) = batch /\ ListedIds(u) = listed
  BY DEF BatchIds, ListedIds
<1> HIDE DEF batch, listed
<1>3. QED
  BY <1>1, <1>2 DEF At, Opening

(* Whoever has deleted an id is rewriting it, and who lists ids rewrites    *)
(* those of them that it found.                                            *)
LEMMA BrokenRewritten ==
  ASSUME NEW u \in Tasks
  PROVE  /\ Broken(u) \subseteq Rewriting(u)
         /\ \A id \in Lists(u) \ Rewriting(u) :
              id[1] /\ task[u].pc \in {"migrate", "putback"} /\ None(task[u].listed, id)
<1>1. ASSUME NEW id \in Broken(u) PROVE id \in Rewriting(u)
  <2>1. CASE At(u, "insert")
    BY <1>1, <2>1, RewritingIs DEF Broken, At
  <2>2. CASE At(u, "putback")
    BY <1>1, <2>2, RewritingIs DEF Broken, At
  <2>3. CASE task[u].pc \in {"create", "fill"}
    BY <1>1, <2>3, RewritingIs DEF Broken, At, Opening, ToolIds
  <2>4. QED
    BY <1>1, <2>1, <2>2, <2>3 DEF Broken
<1>2. ASSUME NEW id \in Lists(u) \ Rewriting(u)
      PROVE  id[1] /\ task[u].pc \in {"migrate", "putback"} /\ None(task[u].listed, id)
  <2>1. id \in Ids
    BY DEF Lists
  <2>2. ~Opening(u)
    <3>1. SUFFICES ASSUME Opening(u) PROVE FALSE
      OBVIOUS
    <3>2. ~id[1]
      BY <1>2, <2>1, <3>1 DEF Lists, Opening
    <3>3. id \in ToolIds
      BY <2>1, <3>2 DEF ToolIds
    <3>4. Rewriting(u) = ToolIds
      BY <3>1, RewritingIs
    <3>5. QED
      BY <3>3, <3>4
  <2>3. id[1] /\ task[u].pc \in {"migrate", "putback"}
    BY <1>2, <2>2 DEF Lists
  <2>4. Rewriting(u) = ListedIds(u)
    BY <2>3, RewritingIs
  <2>5. \A n \in DOMAIN task[u].listed : RowId(task[u].listed[n]) \in ListedIds(u)
    BY DEF ListedIds, ToSet
  <2>6. None(task[u].listed, id)
    BY <2>4, <2>5 DEF None
  <2>7. QED
    BY <2>3, <2>6
<1>3. QED
  BY <1>1, <1>2

(* A step of one task that writes the ids X: nothing happens to the others *)
(* ids; these end up right, deleted or marred, and when somebody else is   *)
(* at them, they are marred.                                               *)
LEMMA SettledStep ==
  ASSUME SettledInv, NEW t \in Tasks, NEW X,
         \A u \in Tasks \ {t} : task'[u] = task[u],
         backend' = backend,
         KindInv', KeyedInv', ThereInv', Carries(t)', Claim(t)',
         \A id \in Ids \ X :
           /\ should'[id] = should[id]
           /\ id \in Marred => id \in Marred'
           /\ id \in Broken(t)' <=> id \in Broken(t)
           /\ Keeps(TableOf(id), TableOf(id)', id),
         \A id \in (Ids \cap X) \ Marred' :
           /\ IF id \in Broken(t)' THEN None(TableOf(id)', id)
              ELSE Right(TableOf(id)', id, should'[id])
           /\ \A u \in Tasks \ {t} :
                /\ id \notin Rewriting(u)
                /\ id[1] /\ task[u].pc \in {"migrate", "putback"} =>
                     should'[id] = NoItem \/ id \in Broken(t)'
  PROVE  SettledInv'
<1>1. \A u \in Tasks \ {t} : Broken(u)' = Broken(u) /\ Lists(u)' = Lists(u)
  BY DEF Broken, Lists, At, BatchIds, ListedIds, Opening
<1>2. ASSUME NEW u \in Tasks \ {t} PROVE Carries(u)'
  BY <1>2 DEF SettledInv, CarryInv, Carries, Opening
<1>3. CarryInv'
  BY <1>2 DEF CarryInv
<1>4. ASSUME NEW id \in Ids, id \notin X, id \notin Marred'
      PROVE  /\ (\A u \in Tasks : id \notin Broken(u)') => Right(TableOf(id)', id, should'[id])
             /\ \A u \in Tasks : id \in Broken(u)' => None(TableOf(id)', id)
  <2>1. id \notin Marred /\ should'[id] = should[id] /\ Keeps(TableOf(id), TableOf(id)', id)
    BY <1>4
  <2>2. \A u \in Tasks : id \in Broken(u)' <=> id \in Broken(u)
    BY <1>1, <1>4
  <2>3. \A u \in Tasks : id \in Broken(u) => None(TableOf(id), id)
    BY <2>1 DEF SettledInv, BrokenInv
  <2>4. (\A u \in Tasks : id \notin Broken(u)) => Right(TableOf(id), id, should[id])
    BY <1>4, <2>1 DEF SettledInv, MainInv
  <2>5. QED
    BY <2>1, <2>2, <2>3, <2>4 DEF Keeps, Right
<1>5. ASSUME NEW id \in Ids, id \in X, id \notin Marred', NEW u \in Tasks \ {t}
      PROVE  id \notin Broken(u)'
  BY <1>1, <1>5, BrokenRewritten
<1>6. MainInv'
  <2>1. ASSUME NEW id \in Ids, id \notin Marred', \A u \in Tasks : id \notin Broken(u)'
        PROVE  Right(TableOf(id)', id, should'[id])
    BY <1>4, <2>1
  <2>2. QED
    BY <2>1 DEF MainInv, Ids
<1>7. BrokenInv'
  <2>1. ASSUME NEW u \in Tasks, NEW id \in Broken(u)', id \notin Marred'
        PROVE  None(TableOf(id)', id)
    <3>1. id \in Ids
      BY <2>1 DEF Broken
    <3>2. CASE id \in X
      BY <1>5, <2>1, <3>1, <3>2
    <3>3. CASE id \notin X
      BY <1>4, <2>1, <3>1, <3>3
    <3>4. QED
      BY <3>2, <3>3
  <2>2. QED
    BY <2>1 DEF BrokenInv
<1>8. ASSUME NEW u \in Tasks \ {t}, NEW id \in Lists(u)', id \notin Marred',
             \A w \in Tasks \ {u} : id \notin Broken(w)'
      PROVE  Right(task'[u].listed, id, should'[id])
  <2>1. id \in Ids /\ id \in Lists(u) /\ task'[u] = task[u]
    BY <1>1, <1>8 DEF Lists
  <2>2. CASE id \in X
    <3>1. id \notin Rewriting(u) /\ id \notin Broken(t)'
      BY <1>8, <2>1, <2>2
    <3>2. id[1] /\ task[u].pc \in {"migrate", "putback"} /\ None(task[u].listed, id)
      BY <2>1, <3>1, BrokenRewritten
    <3>3. should'[id] = NoItem
      BY <1>8, <2>1, <2>2, <3>1, <3>2
    <3>4. QED
      BY <2>1, <3>2, <3>3 DEF Right
  <2>3. CASE id \notin X
    <3>1. id \notin Marred /\ should'[id] = should[id]
      BY <1>8, <2>1, <2>3
    <3>2. \A w \in Tasks \ {u} : id \notin Broken(w)
      BY <1>1, <1>8, <2>1, <2>3
    <3>3. Right(task[u].listed, id, should[id])
      BY <2>1, <3>1, <3>2 DEF SettledInv, ClaimInv, Claim
    <3>4. QED
      BY <2>1, <3>1, <3>3
  <2>4. QED
    BY <2>2, <2>3
<1>9. ClaimInv'
  <2>1. ASSUME NEW u \in Tasks \ {t} PROVE Claim(u)'
    BY <1>8 DEF Claim
  <2>2. QED
    BY <2>1 DEF ClaimInv
<1>10. QED
  BY <1>3, <1>6, <1>7, <1>9 DEF SettledInv

-----------------------------------------------------------------------------
(* Steps that write nothing                                                *)

(* A step that leaves the tables and what they should be alone, of a task  *)
(* that neither was nor is half way through a write.                       *)
LEMMA QuietlySettled ==
  ASSUME SettledInv, NEW t \in Tasks, NEW p, MovesTo(t, p),
         UNCHANGED <<backend, tools, skills, should, disturbed, torn>>, ThereInv',
         task[t].pc \notin {"insert", "putback", "create", "fill"},
         p \notin {"insert", "drop", "create", "fill", "migrate", "putback"}
  PROVE  SettledInv'
<1>1. task'[t].pc = p /\ \A u \in Tasks \ {t} : task'[u] = task[u]
  BY DEF MovesTo
<1>2. Broken(t) = {} /\ Broken(t)' = {} /\ Lists(t)' = {}
  <2>1. Broken(t) = {}
    BY DEF Broken, At
  <2>2. Broken(t)' = {}
    BY <1>1 DEF Broken, At
  <2>3. Lists(t)' = {}
    BY <1>1 DEF Lists, Opening
  <2>4. QED
    BY <2>1, <2>2, <2>3
<1>3. KindInv' /\ KeyedInv'
  BY DEF SettledInv, KindInv, KeyedInv, ToolRows, SkillRows, RowSet
<1>4. Carries(t)' /\ Claim(t)'
  BY <1>1, <1>2 DEF Carries, Claim, Opening
<1>5. \A id \in Ids : TableOf(id)' = TableOf(id) /\ Keeps(TableOf(id), TableOf(id), id)
  BY DEF TableOf, Keeps
<1>6. Marred' = Marred
  BY DEF Marred
<1> DEFINE X == {}
<1>7. /\ \A id \in Ids \ X :
           /\ should'[id] = should[id]
           /\ id \in Marred => id \in Marred'
           /\ id \in Broken(t)' <=> id \in Broken(t)
           /\ Keeps(TableOf(id), TableOf(id)', id)
      /\ (Ids \cap X) \ Marred' = {}
  BY <1>2, <1>5, <1>6
<1> HIDE DEF X
<1>8. QED
  BY <1>1, <1>3, <1>4, <1>7, SettledStep

(* A step that changes nothing of this.                                    *)
LEMMA SettledStutter ==
  ASSUME SettledInv, UNCHANGED <<backend, tools, skills, there, should, disturbed, torn, task>>
  PROVE  SettledInv'
<1>1. Marred' = Marred /\ \A id : TableOf(id)' = TableOf(id)
  BY DEF Marred, TableOf
<1>2. \A u : Broken(u)' = Broken(u) /\ Lists(u)' = Lists(u)
  BY DEF Broken, Lists, At, BatchIds, ListedIds, Opening
<1>3. KindInv' /\ KeyedInv' /\ ThereInv' /\ CarryInv'
  BY DEF SettledInv, KindInv, KeyedInv, ThereInv, CarryInv, Carries, Opening,
         ToolRows, SkillRows, RowSet
<1>4. MainInv' /\ BrokenInv'
  BY <1>1, <1>2 DEF SettledInv, MainInv, BrokenInv
<1>5. ClaimInv'
  BY <1>1, <1>2 DEF SettledInv, ClaimInv, Claim
<1>6. QED
  BY <1>3, <1>4, <1>5 DEF SettledInv

(* A store that has opened goes on to what was asked.                      *)
LEMMA OpensMoves ==
  ASSUME IInv, NEW t \in Tasks, Opens(t)
  PROVE  \E p \in {"route", "search", "delete", "check", "write"} : MovesTo(t, p)
<1> DEFINE p == FirstStep(task[t].request)
<1>1. ShapeInv /\ task[t].request \in Requests[backend]
  BY DEF IInv, ShapeInv
<1>2. p \in {"route", "search", "delete", "check", "write"}
  BY <1>1, FirstStepFits
<1>3. Goes(t, p)
  BY DEF Opens
<1> HIDE DEF p
<1>4. MovesTo(t, p)
  BY <1>1, <1>3, GoesMoves
<1>5. QED
  BY <1>2, <1>4

(* Requests that begin, the opening of a store that needs no new table,    *)
(* and searches.                                                           *)
LEMMA QuietSteps ==
  ASSUME IInv, SettledInv, NEW t \in Tasks,
         \/ Begin(t) \/ OpenQdrant(t) \/ OpenChroma(t) \/ OpenPG(t) \/ RemoteOpeningFails(t)
         \/ DeleteFails(t) \/ Check(t) \/ ReadMarker(t) \/ Mark(t) \/ StartRoute(t)
         \/ SearchTools(t) \/ SearchServers(t) \/ SearchSkills(t) \/ Rank(t) \/ Rerank(t)
         \/ Return(t) \/ Raise(t) \/ GiveUp(t)
  PROVE  SettledInv'
<1>1. UNCHANGED <<backend, tools, skills, should, disturbed, torn>>
  BY DEF Begin, OpenQdrant, OpenChroma, OpenPG, RemoteOpeningFails, DeleteFails, Check,
         ReadMarker, Mark, StartRoute, SearchTools, SearchServers, SearchSkills, Rank, Rerank,
         Return, Raise, GiveUp, OpeningChanges, store, process, matrices, history
<1>2. there' = there \/ backend # "lance"
  BY DEF Begin, OpenQdrant, OpenChroma, OpenPG, RemoteOpeningFails, DeleteFails, Check,
         ReadMarker, Mark, StartRoute, SearchTools, SearchServers, SearchSkills, Rank, Rerank,
         Return, Raise, GiveUp, Remote, store
<1>3. ThereInv'
  BY <1>1, <1>2 DEF SettledInv, ThereInv
<1>4. task[t].pc \in {"idle", "open", "make", "delete", "check", "marker", "mark", "route",
                      "search", "intent", "rerank", "answered", "giveup"}
  BY DEF Begin, OpenQdrant, OpenChroma, OpenPG, RemoteOpeningFails, DeleteFails, Check,
         ReadMarker, Mark, StartRoute, SearchTools, SearchServers, SearchSkills, Searching,
         Rank, Rerank, Return, Raise, GiveUp, At
<1>5. task[t].pc \notin {"insert", "putback", "create", "fill"}
  BY <1>4
<1> DEFINE Settling == {"insert", "drop", "create", "fill", "migrate", "putback"}
<1>6. ShapeInv /\ task[t].request \in Requests[backend]
  BY DEF IInv, ShapeInv
<1>7. \E p : p \notin Settling /\ MovesTo(t, p)
  <2>1. CASE Begin(t)
    <3>1. PICK p \in {"open", "route", "search", "delete", "check", "write"} : MovesTo(t, p)
      BY <1>6, <2>1, BeginMoves
    <3>2. QED
      BY <3>1
  <2>2. CASE Ends(t)
    BY <1>6, <2>2, EndsMoves
  <2>3. ASSUME NEW p \in {"make", "marker", "list", "search", "giveup"}, Goes(t, p)
        PROVE  MovesTo(t, p)
    BY <1>6, <2>3, GoesMoves
  <2>4. CASE Opens(t)
    <3>1. PICK p \in {"route", "search", "delete", "check", "write"} : MovesTo(t, p)
      BY <2>4, OpensMoves
    <3>2. QED
      BY <3>1
  <2>5. CASE Proceeds(t)
    BY <1>6, <2>5, ProceedsMoves
  <2>6. CASE SearchTools(t) \/ SearchServers(t) \/ SearchSkills(t)
    <3>1. \E table, hits : \E p \in {"intent", "answered"} :
            task' = [task EXCEPT ![t].pc = p, ![t].seen = table, ![t].hits = hits]
      BY <2>6 DEF SearchTools, SearchServers, SearchSkills
    <3>2. PICK table, hits : \E p \in {"intent", "answered"} :
            task' = [task EXCEPT ![t].pc = p, ![t].seen = table, ![t].hits = hits]
      BY <3>1
    <3>3. PICK p \in {"intent", "answered"} :
            task' = [task EXCEPT ![t].pc = p, ![t].seen = table, ![t].hits = hits]
      BY <3>2
    <3>4. MovesTo(t, p)
      BY <1>6, <3>3, SearchMoves
    <3>5. QED
      BY <3>4
  <2>7. CASE Rank(t) \/ Rerank(t)
    BY <1>6, <2>7, RankMoves, RerankMoves
  <2>8. QED
    BY <2>1, <2>2, <2>3, <2>4, <2>5, <2>6, <2>7
       DEF OpenQdrant, OpenChroma, OpenPG, RemoteOpeningFails, DeleteFails, Check, ReadMarker,
           Mark, StartRoute, Return, Raise, GiveUp
<1>8. QED
  BY <1>1, <1>3, <1>5, <1>7, QuietlySettled

-----------------------------------------------------------------------------
(* Writes                                                                  *)

(* Who crosses nobody is alone at the ids.                                 *)
LEMMA NotCrossed ==
  ASSUME NEW t \in Tasks, NEW ids, NEW id \in ids, id \notin Crossed(t, ids)
  PROVE  \A u \in Tasks \ {t} : id \notin Rewriting(u)
BY DEF Crossed

(* A batch has items of one kind, and an id that it has has a last item.   *)
LEMMA BatchItems ==
  ASSUME IInv, NEW t \in Tasks, task[t].request.does \in {"add", "delete"}
  PROVE  LET items == task[t].request.items
         IN  /\ items \in Seq(Items)
             /\ \A n \in DOMAIN items : IdOf(items[n]) \in BatchIds(t)
             /\ \A id \in BatchIds(t) :
                  /\ id \in Ids /\ id[1] = ForSkills(task[t].request)
                  /\ \E n \in DOMAIN items : IdOf(items[n]) = id
<1> DEFINE items == task[t].request.items
<1>1. task[t].request \in RequestType
  BY RetrievalAssumption DEF IInv, ShapeInv
<1>2. items \in Seq(Items) /\ items # <<>> /\ OneKind(items)
  BY <1>1 DEF RequestType
<1>3. ForSkills(task[t].request) = (Sheet[items[1]].kind = "skill")
  BY DEF ForSkills
<1> HIDE DEF items
<1>4. 1 \in DOMAIN items
  BY <1>2
<1>5. BatchIds(t) = {IdOf(i) : i \in {items[n] : n \in DOMAIN items}}
  BY DEF BatchIds, IdsOf, ToSet, items
<1>6. \A n \in DOMAIN items : items[n] \in Items /\ IdOf(items[n]) \in BatchIds(t)
  BY <1>2, <1>5
<1>7. ASSUME NEW id \in BatchIds(t)
      PROVE  /\ id \in Ids /\ id[1] = ForSkills(task[t].request)
             /\ \E n \in DOMAIN items : IdOf(items[n]) = id
  <2>1. PICK n \in DOMAIN items : id = IdOf(items[n])
    BY <1>5
  <2>2. id \in Ids
    BY <1>6, <2>1 DEF Ids
  <2>3. id[1] = (Sheet[items[n]].kind = "skill")
    BY <2>1 DEF IdOf
  <2>4. id[1] = ForSkills(task[t].request)
    BY <1>2, <1>3, <1>4, <2>3 DEF OneKind
  <2>5. QED
    BY <2>1, <2>2, <2>4
<1>8. QED
  BY <1>2, <1>6, <1>7 DEF items

(* The rows of a batch are of its kind and have its ids.                   *)
LEMMA BatchRows ==
  ASSUME IInv, NEW t \in Tasks, task[t].request.does = "add"
  PROVE  LET items == task[t].request.items
             batch == Batch(t)
         IN  /\ batch \in Seq(IF ForSkills(task[t].request) THEN SkillRows ELSE ToolRows)
             /\ DOMAIN batch = DOMAIN items
             /\ \A n \in DOMAIN items :
                  batch[n].item = items[n] /\ RowId(batch[n]) = IdOf(items[n])
             /\ \A id : id \notin BatchIds(t) => None(batch, id)
<1> DEFINE items == task[t].request.items
           batch == Batch(t)
           Q == IF ForSkills(task[t].request) THEN SkillRows ELSE ToolRows
<1>1. /\ items \in Seq(Items)
      /\ \A n \in DOMAIN items : IdOf(items[n]) \in BatchIds(t)
      /\ \A id \in BatchIds(t) : id \in Ids /\ id[1] = ForSkills(task[t].request)
  BY BatchItems
<1>2. batch = [n \in DOMAIN items |-> Row(items[n], embedder)]
  BY DEF Batch, Rows
<1>3. batch \in Seq(By(embedder))
  BY BatchType
<1> HIDE DEF items, batch
<1>4. DOMAIN batch = DOMAIN items /\ \A n \in DOMAIN items :
        batch[n].item = items[n] /\ RowId(batch[n]) = IdOf(items[n])
  BY <1>2 DEF Row, RowId
<1>5. ASSUME NEW n \in DOMAIN batch PROVE batch[n] \in Q
  <2>1. batch[n] \in RowSet
    BY <1>3 DEF By
  <2>2. RowId(batch[n])[1] = ForSkills(task[t].request)
    BY <1>1, <1>4
  <2>3. QED
    BY <2>1, <2>2 DEF SkillRows, ToolRows
<1> HIDE DEF Q
<1>6. batch \in Seq(Q)
  BY <1>3, <1>5, OverElements
<1>7. \A id : id \notin BatchIds(t) => None(batch, id)
  BY <1>1, <1>4 DEF None
<1>8. QED
  BY <1>4, <1>6, <1>7 DEF items, batch, Q

(* What a batch completes is what its last item of an id says.             *)
LEMMA LastCounts ==
  ASSUME IInv, NEW t \in Tasks, task[t].request.does = "add", Completes(task[t].request.items)
  PROVE  LET items == task[t].request.items
         IN  /\ \A id \in Ids : id \notin BatchIds(t) => should'[id] = should[id]
             /\ \A id \in BatchIds(t) : \E k \in DOMAIN items :
                  /\ IdOf(items[k]) = id /\ should'[id] = items[k] /\ items[k] # NoItem
                  /\ \A j \in DOMAIN items : j > k => IdOf(items[j]) # id
<1> DEFINE items == task[t].request.items
<1>1. /\ items \in Seq(Items)
      /\ \A n \in DOMAIN items : IdOf(items[n]) \in BatchIds(t)
      /\ \A id \in BatchIds(t) : id \in Ids /\ \E n \in DOMAIN items : IdOf(items[n]) = id
  BY BatchItems
<1>2. should' = [id \in Ids |->
        LET at == {n \in DOMAIN items : IdOf(items[n]) = id}
        IN  IF at = {} THEN should[id] ELSE items[Max(at)]]
  BY DEF Completes
<1> HIDE DEF items
<1>3. Len(items) \in Nat /\ DOMAIN items = 1 .. Len(items) /\ \A n \in DOMAIN items : items[n] \in Items
  BY <1>1
<1>4. ASSUME NEW id \in Ids, id \notin BatchIds(t) PROVE should'[id] = should[id]
  <2>1. {n \in DOMAIN items : IdOf(items[n]) = id} = {}
    BY <1>1, <1>4
  <2>2. QED
    BY <1>2, <2>1
<1>5. ASSUME NEW id \in BatchIds(t)
      PROVE  \E k \in DOMAIN items :
               /\ IdOf(items[k]) = id /\ should'[id] = items[k] /\ items[k] # NoItem
               /\ \A j \in DOMAIN items : j > k => IdOf(items[j]) # id
  <2> DEFINE at == {n \in DOMAIN items : IdOf(items[n]) = id}
             k == Max(at)
  <2>1. at # {} /\ id \in Ids
    BY <1>1
  <2>2. at \in SUBSET (1 .. Len(items))
    BY <1>3
  <2>3. should'[id] = items[k]
    BY <1>2, <2>1
  <2>4. k \in at /\ \A y \in at : k >= y
    <3> HIDE DEF at
    <3>1. QED
      BY <1>3, <2>1, <2>2, MaxExists
  <2> HIDE DEF k
  <2>5. k \in DOMAIN items /\ IdOf(items[k]) = id /\ items[k] # NoItem
    BY <1>3, <2>4, RetrievalAssumption
  <2>6. \A j \in DOMAIN items : j > k => IdOf(items[j]) # id
    BY <1>3, <2>4
  <2>7. QED
    BY <2>3, <2>5, <2>6
<1>6. QED
  BY <1>4, <1>5 DEF items

(* A write, or one of its halves, by a task that was asked for it: of the  *)
(* other ids the table keeps what it has, and its own are then right,      *)
(* deleted or marred.  No writer of skills is at work during a migration.  *)
LEMMA WriterSettled ==
  ASSUME IInv, SettledInv, NEW t \in Tasks, NEW p \in {"insert", "idle"}, MovesTo(t, p),
         task[t].request.does \in {"add", "delete"},
         task[t].pc \in {"write", "insert", "delete"},
         UNCHANGED <<backend, there>>,
         p = "insert" => backend = "lance" /\ task'[t].request = task[t].request,
         NEW table, Becomes(t, table),
         table \in Seq(IF ForSkills(task[t].request) THEN SkillRows ELSE ToolRows),
         backend # "lance" => Keyed(table),
         backend = "lance" /\ ~ForSkills(task[t].request) => there \/ table = tools,
         \A id \in Ids \ BatchIds(t) :
           /\ should'[id] = should[id]
           /\ id \in Marred => id \in Marred'
           /\ Keeps(Contents(t), table, id),
         \A id \in BatchIds(t) \ Marred' :
           /\ id \notin Crossed(t, BatchIds(t))
           /\ IF p = "insert" THEN None(table, id) ELSE Right(table, id, should'[id])
           /\ task[t].pc = "delete" => should'[id] = NoItem
  PROVE  SettledInv'
<1> DEFINE X == BatchIds(t)
           fs == ForSkills(task[t].request)
<1>1. task'[t].pc = p /\ \A u \in Tasks \ {t} : task'[u] = task[u]
  BY DEF MovesTo
<1>2. \A id \in X : id \in Ids /\ id[1] = fs
  BY BatchItems
<1>3. IF fs THEN skills' = table /\ tools' = tools ELSE tools' = table /\ skills' = skills
  BY DEF Becomes
<1>4. KindInv' /\ KeyedInv' /\ ThereInv'
  BY <1>3 DEF SettledInv, KindInv, KeyedInv, ThereInv, ToolRows, SkillRows, RowSet
<1>5. Carries(t)' /\ Lists(t)' = {}
  BY <1>1 DEF Carries, Opening, Lists
<1>6. Claim(t)'
  BY <1>5 DEF Claim
<1>7. /\ \A id \in Ids \ X : id \notin Broken(t) /\ id \notin Broken(t)'
      /\ \A id \in X : id \in Broken(t)' <=> p = "insert"
  <2>1. \A id \in Ids \ X : id \notin Broken(t)
    BY DEF Broken, At
  <2>2. p = "insert" => BatchIds(t)' = X
    BY DEF BatchIds
  <2>3. \A id \in Ids : id \in Broken(t)' <=> p = "insert" /\ id \in BatchIds(t)'
    BY <1>1 DEF Broken, At, Ids
  <2>4. QED
    BY <1>2, <2>1, <2>2, <2>3
<1>8. /\ \A id \in Ids : id[1] = fs => TableOf(id) = Contents(t) /\ TableOf(id)' = table
      /\ \A id \in Ids : id[1] # fs => TableOf(id)' = TableOf(id)
  <2>1. \A id \in Ids : id[1] \in BOOLEAN
    BY KindOfId
  <2>2. fs \in BOOLEAN
    BY DEF ForSkills
  <2>3. QED
    BY <1>3, <2>1, <2>2 DEF TableOf, Contents
<1>9. \A id \in Ids \ X : Keeps(TableOf(id), TableOf(id)', id)
  BY <1>8 DEF Keeps
<1>10. ASSUME NEW id \in X, id \notin Marred'
       PROVE  /\ IF id \in Broken(t)' THEN None(TableOf(id)', id)
                 ELSE Right(TableOf(id)', id, should'[id])
              /\ \A u \in Tasks \ {t} :
                   /\ id \notin Rewriting(u)
                   /\ id[1] /\ task[u].pc \in {"migrate", "putback"} =>
                        should'[id] = NoItem \/ id \in Broken(t)'
  <2>1. TableOf(id)' = table /\ id[1] = fs
    BY <1>2, <1>8, <1>10
  <2>2. IF id \in Broken(t)' THEN None(TableOf(id)', id)
        ELSE Right(TableOf(id)', id, should'[id])
    BY <1>7, <1>10, <2>1
  <2>3. \A u \in Tasks \ {t} : id \notin Rewriting(u)
    BY <1>10, NotCrossed
  <2>4. ASSUME NEW u \in Tasks \ {t}, fs, task[u].pc \in {"migrate", "putback"}
        PROVE  task[t].pc = "delete"
    <3>1. lock = u /\ ~checked
      BY <2>4, HolderKnows DEF Migrating
    <3>2. task[t].pc \notin Afterwards
      BY <2>4, <3>1, HolderAlone
    <3>3. QED
      BY <3>2 DEF Afterwards
  <2>5. QED
    BY <1>10, <2>1, <2>2, <2>3, <2>4
<1> HIDE DEF X, fs
<1>11. /\ \A id \in Ids \ X :
           /\ should'[id] = should[id]
           /\ id \in Marred => id \in Marred'
           /\ id \in Broken(t)' <=> id \in Broken(t)
           /\ Keeps(TableOf(id), TableOf(id)', id)
       /\ \A id \in (Ids \cap X) \ Marred' :
           /\ IF id \in Broken(t)' THEN None(TableOf(id)', id)
              ELSE Right(TableOf(id)', id, should'[id])
           /\ \A u \in Tasks \ {t} :
                /\ id \notin Rewriting(u)
                /\ id[1] /\ task[u].pc \in {"migrate", "putback"} =>
                     should'[id] = NoItem \/ id \in Broken(t)'
  BY <1>7, <1>9, <1>10 DEF X
<1>12. QED
  BY <1>1, <1>4, <1>5, <1>6, <1>11, SettledStep

(* Whose turn it is to write has been asked to.                            *)
LEMMA WritersAsked ==
  ASSUME IInv, NEW t \in Tasks
  PROVE  /\ task[t].pc \in {"write", "insert"} => task[t].request.does = "add"
         /\ task[t].pc = "delete" => task[t].request.does = "delete"
BY DEF IInv, PlaceInv, Belongs, At

(* The table that a task writes is of its kind.                            *)
LEMMA ContentsType ==
  ASSUME SettledInv, NEW t \in Tasks
  PROVE  /\ Contents(t) \in Seq(IF ForSkills(task[t].request) THEN SkillRows ELSE ToolRows)
         /\ backend # "lance" => Keyed(Contents(t))
         /\ \A u \in Tasks, id \in Ids :
              id[1] = ForSkills(task[t].request) => Contents(t) = TableOf(id)
BY KindOfId DEF SettledInv, KindInv, KeyedInv, Contents, TableOf, ForSkills

(* An upsert in one step.                                                  *)
LEMMA UpsertedTable ==
  ASSUME IInv, SettledInv, NEW t \in Tasks, task[t].request.does = "add", backend # "lance"
  PROVE  LET table == Upserted(Contents(t), Batch(t))
         IN  /\ table \in Seq(IF ForSkills(task[t].request) THEN SkillRows ELSE ToolRows)
             /\ Keyed(table)
             /\ \A id : id \notin BatchIds(t) => Keeps(Contents(t), table, id)
             /\ Completes(task[t].request.items) =>
                  \A id \in BatchIds(t) : Right(table, id, should'[id])
<1> DEFINE items == task[t].request.items
           T == Contents(t)
           batch == Batch(t)
           table == Upserted(T, batch)
           Q == IF ForSkills(task[t].request) THEN SkillRows ELSE ToolRows
<1>1. T \in Seq(Q) /\ Keyed(T)
  BY ContentsType
<1>2. /\ batch \in Seq(Q) /\ DOMAIN batch = DOMAIN items
      /\ \A n \in DOMAIN items : batch[n].item = items[n] /\ RowId(batch[n]) = IdOf(items[n])
      /\ \A id : id \notin BatchIds(t) => None(batch, id)
  BY BatchRows
<1>3. Completes(items) => \A id \in BatchIds(t) : \E k \in DOMAIN items :
                  /\ IdOf(items[k]) = id /\ should'[id] = items[k] /\ items[k] # NoItem
                  /\ \A j \in DOMAIN items : j > k => IdOf(items[j]) # id
  BY LastCounts
<1> HIDE DEF T, batch, Q, items
<1>4. /\ table \in Seq(Q) /\ Keyed(table)
      /\ \A id : None(batch, id) => Keeps(T, table, id)
      /\ \A k \in DOMAIN batch :
              (\A j \in DOMAIN batch : j > k => RowId(batch[j]) # RowId(batch[k]))
                => Once(table, RowId(batch[k]), batch[k].item)
  BY <1>1, <1>2, UpsertedRows
<1> HIDE DEF table
<1>5. ASSUME Completes(items), NEW id \in BatchIds(t)
      PROVE  Right(table, id, should'[id])
  <2>1. PICK k \in DOMAIN items :
          /\ IdOf(items[k]) = id /\ should'[id] = items[k] /\ items[k] # NoItem
          /\ \A j \in DOMAIN items : j > k => IdOf(items[j]) # id
    BY <1>3, <1>5
  <2>2. Once(table, RowId(batch[k]), batch[k].item)
    BY <1>2, <1>4, <2>1
  <2>3. QED
    BY <1>2, <2>1, <2>2 DEF Right
<1>6. QED
  BY <1>2, <1>4, <1>5 DEF T, batch, Q, items, table

(* The stores that upsert in one step.                                     *)
LEMMA OneStepSettled ==
  ASSUME IInv, SettledInv, NEW t \in Tasks, MemoryWrite(t) \/ RemoteWrite(t)
  PROVE  SettledInv'
<1> DEFINE table == Upserted(Contents(t), Batch(t))
           items == task[t].request.items
<1>1. /\ task[t].pc = "write" /\ backend # "lance" /\ Becomes(t, table) /\ Ends(t)
      /\ Completes(items) /\ Touch(t, BatchIds(t), TRUE)
      /\ UNCHANGED <<backend, there, torn>>
  BY DEF MemoryWrite, RemoteWrite, At, Remote
<1>2. task[t].request.does = "add"
  BY <1>1, WritersAsked
<1>3. MovesTo(t, "idle")
  BY <1>1, EndsMoves DEF IInv
<1>4. disturbed' = (disturbed \ BatchIds(t)) \cup Crossed(t, BatchIds(t))
  BY <1>1 DEF Touch
<1>5. /\ table \in Seq(IF ForSkills(task[t].request) THEN SkillRows ELSE ToolRows)
      /\ Keyed(table)
      /\ \A id : id \notin BatchIds(t) => Keeps(Contents(t), table, id)
      /\ \A id \in BatchIds(t) : Right(table, id, should'[id])
  BY <1>1, <1>2, UpsertedTable
<1>6. \A id \in Ids : id \notin BatchIds(t) => should'[id] = should[id]
  BY <1>1, <1>2, LastCounts
<1> HIDE DEF table, items
<1>7. \A id \in Ids \ BatchIds(t) :
        /\ should'[id] = should[id]
        /\ id \in Marred => id \in Marred'
        /\ Keeps(Contents(t), table, id)
  BY <1>1, <1>4, <1>5, <1>6 DEF Marred
<1>8. \A id \in BatchIds(t) \ Marred' :
        /\ id \notin Crossed(t, BatchIds(t)) /\ Right(table, id, should'[id])
  BY <1>4, <1>5 DEF Marred
<1> DEFINE p == "idle"
<1>9. p \in {"insert", "idle"} /\ p # "insert" /\ MovesTo(t, p)
  BY <1>3
<1> HIDE DEF p
<1>10. QED
  BY <1>1, <1>2, <1>5, <1>7, <1>8, <1>9, WriterSettled

(* The first half of LanceDB's upsert.                                     *)
LEMMA LanceDeleteSettled ==
  ASSUME IInv, SettledInv, NEW t \in Tasks, LanceDelete(t)
  PROVE  SettledInv'
<1> DEFINE table == Without(Contents(t), BatchIds(t))
<1>1. /\ task[t].pc = "write" /\ backend = "lance" /\ Becomes(t, table) /\ Goes(t, "insert")
      /\ there \/ ForSkills(task[t].request)
      /\ Touch(t, BatchIds(t), TRUE) /\ torn' = torn \ BatchIds(t)
      /\ UNCHANGED <<backend, there, should>>
  BY DEF LanceDelete, At
<1>2. task[t].request.does = "add"
  BY <1>1, WritersAsked
<1>3. MovesTo(t, "insert") /\ task'[t].request = task[t].request
  BY <1>1, GoesMoves DEF IInv
<1>4. disturbed' = (disturbed \ BatchIds(t)) \cup Crossed(t, BatchIds(t))
  BY <1>1 DEF Touch
<1>5. /\ table \in Seq(IF ForSkills(task[t].request) THEN SkillRows ELSE ToolRows)
      /\ \A id \in BatchIds(t) : None(table, id)
      /\ \A id : id \notin BatchIds(t) => Keeps(Contents(t), table, id)
  BY ContentsType, WithoutRows
<1> HIDE DEF table
<1>6. \A id \in Ids \ BatchIds(t) :
        /\ should'[id] = should[id]
        /\ id \in Marred => id \in Marred'
        /\ Keeps(Contents(t), table, id)
  BY <1>1, <1>4, <1>5 DEF Marred
<1>7. \A id \in BatchIds(t) \ Marred' :
        id \notin Crossed(t, BatchIds(t)) /\ None(table, id)
  BY <1>4, <1>5 DEF Marred
<1> DEFINE p == "insert"
<1>8. p \in {"insert", "idle"} /\ p = "insert" /\ MovesTo(t, p)
  BY <1>3
<1> HIDE DEF p
<1>9. QED
  BY <1>1, <1>2, <1>3, <1>5, <1>6, <1>7, <1>8, WriterSettled

(* The second half: what was deleted comes back, once when the batch has   *)
(* it once.                                                                *)
LEMMA LanceInsertSettled ==
  ASSUME IInv, SettledInv, NEW t \in Tasks, LanceInsert(t)
  PROVE  SettledInv'
<1> DEFINE T == Contents(t)
           batch == Batch(t)
           table == T \o batch
           items == task[t].request.items
           Q == IF ForSkills(task[t].request) THEN SkillRows ELSE ToolRows
<1>1. /\ task[t].pc = "insert" /\ Becomes(t, table) /\ Ends(t)
      /\ there \/ ForSkills(task[t].request)
      /\ Completes(items)
      /\ disturbed' = disturbed \cup Crossed(t, BatchIds(t)) \cup Repeated(items)
      /\ UNCHANGED <<backend, there, torn>>
  BY DEF LanceInsert, At
<1>2. task[t].request.does = "add" /\ backend = "lance"
  BY <1>1, WritersAsked DEF SettledInv, CarryInv, Carries
<1>3. MovesTo(t, "idle")
  BY <1>1, EndsMoves DEF IInv
<1>4. T \in Seq(Q) /\ \A id \in Ids : id[1] = ForSkills(task[t].request) => T = TableOf(id)
  BY ContentsType
<1>5. /\ batch \in Seq(Q) /\ DOMAIN batch = DOMAIN items
      /\ \A n \in DOMAIN items : batch[n].item = items[n] /\ RowId(batch[n]) = IdOf(items[n])
      /\ \A id : id \notin BatchIds(t) => None(batch, id)
  BY <1>2, BatchRows
<1>6. /\ \A id \in Ids : id \notin BatchIds(t) => should'[id] = should[id]
      /\ \A id \in BatchIds(t) : \E k \in DOMAIN items :
           IdOf(items[k]) = id /\ should'[id] = items[k] /\ items[k] # NoItem
  BY <1>1, <1>2, LastCounts
<1>7. \A id \in BatchIds(t) : id \in Ids /\ id[1] = ForSkills(task[t].request)
  BY <1>2, BatchItems
<1>8. \A m, n \in DOMAIN items :
        m # n /\ IdOf(items[m]) = IdOf(items[n]) => IdOf(items[m]) \in Repeated(items)
  <2> HIDE DEF items
  <2>1. SUFFICES ASSUME NEW m \in DOMAIN items, NEW n \in DOMAIN items,
                        m # n, IdOf(items[m]) = IdOf(items[n])
                 PROVE  IdOf(items[m]) \in Repeated(items)
    OBVIOUS
  <2>2. <<m, n>> \in {q \in (DOMAIN items) \X (DOMAIN items) :
                        q[1] # q[2] /\ IdOf(items[q[1]]) = IdOf(items[q[2]])}
    BY <2>1
  <2>3. QED
    BY <2>2 DEF Repeated
<1> HIDE DEF T, batch, items, Q
<1>9. \A id : /\ table \in Seq(Q)
              /\ None(batch, id) => Keeps(T, table, id)
              /\ None(T, id) => Keeps(batch, table, id)
  BY <1>4, <1>5, AddedRows
<1> HIDE DEF table
<1>10. ASSUME NEW id \in BatchIds(t), id \notin Marred'
       PROVE  id \notin Crossed(t, BatchIds(t)) /\ Right(table, id, should'[id])
  <2>1. id \notin Marred /\ id \notin Crossed(t, BatchIds(t)) /\ id \notin Repeated(items)
    BY <1>1, <1>10 DEF Marred
  <2>2. None(T, id)
    <3>1. id \in Ids /\ T = TableOf(id)
      BY <1>4, <1>7
    <3>2. id \in Broken(t)
      BY <1>1, <3>1 DEF Broken, At
    <3>3. QED
      BY <2>1, <3>1, <3>2 DEF SettledInv, BrokenInv
  <2>3. PICK k \in DOMAIN items :
           IdOf(items[k]) = id /\ should'[id] = items[k] /\ items[k] # NoItem
    BY <1>6
  <2>4. Once(batch, id, should'[id])
    BY <1>5, <1>8, <2>1, <2>3 DEF Once
  <2>5. QED
    BY <1>9, <2>1, <2>2, <2>3, <2>4 DEF Keeps, Right
<1>11. \A id \in Ids \ BatchIds(t) :
        /\ should'[id] = should[id]
        /\ id \in Marred => id \in Marred'
        /\ Keeps(T, table, id)
  BY <1>1, <1>5, <1>6, <1>9 DEF Marred
<1> DEFINE p == "idle"
<1>12. p \in {"insert", "idle"} /\ p # "insert" /\ MovesTo(t, p)
  BY <1>3
<1> HIDE DEF p
<1>13. table \in Seq(IF ForSkills(task[t].request) THEN SkillRows ELSE ToolRows)
  BY <1>9 DEF Q
<1>14. Becomes(t, table) /\ \A id \in Ids \ BatchIds(t) :
        /\ should'[id] = should[id]
        /\ id \in Marred => id \in Marred'
        /\ Keeps(Contents(t), table, id)
  BY <1>1, <1>11 DEF T
<1>15. QED
  BY <1>1, <1>2, <1>10, <1>12, <1>13, <1>14, WriterSettled

(* A write that fails disturbs the ids of its batch, whether it was done   *)
(* or not.                                                                 *)
LEMMA WriteFailsSettled ==
  ASSUME IInv, SettledInv, NEW t \in Tasks, WriteFails(t)
  PROVE  SettledInv'
<1>1. /\ task[t].pc \in {"write", "insert"} /\ Ends(t)
      /\ disturbed' = disturbed \cup BatchIds(t)
      /\ UNCHANGED <<backend, there, should, torn>>
  BY DEF WriteFails
<1>2. task[t].request.does = "add"
  BY <1>1, WritersAsked
<1>3. MovesTo(t, "idle")
  BY <1>1, EndsMoves DEF IInv
<1> DEFINE Q == IF ForSkills(task[t].request) THEN SkillRows ELSE ToolRows
<1>4. PICK table : /\ Becomes(t, table) /\ table \in Seq(Q)
                   /\ backend # "lance" => Keyed(table)
                   /\ backend = "lance" => table = Contents(t)
                   /\ \A id \in Ids \ BatchIds(t) : Keeps(Contents(t), table, id)
  <2>1. Contents(t) \in Seq(Q) /\ (backend # "lance" => Keyed(Contents(t)))
    BY ContentsType
  <2>2. \A id : Keeps(Contents(t), Contents(t), id)
    BY DEF Keeps
  <2>3. CASE Becomes(t, Contents(t))
    BY <2>1, <2>2, <2>3
  <2>4. CASE backend = "lance"
    <3>1. Becomes(t, Contents(t))
      BY <2>4 DEF WriteFails, Becomes, Contents
    <3>2. QED
      BY <2>3, <3>1
  <2>5. CASE backend # "lance" /\ Becomes(t, Upserted(Contents(t), Batch(t)))
    BY <1>2, <2>5, UpsertedTable
  <2>6. QED
    BY <2>3, <2>4, <2>5 DEF WriteFails
<1>5. backend = "lance" /\ ~ForSkills(task[t].request) => there \/ table = tools
  BY <1>4 DEF Contents
<1>6. \A id \in Ids \ BatchIds(t) :
        /\ should'[id] = should[id]
        /\ id \in Marred => id \in Marred'
        /\ Keeps(Contents(t), table, id)
  BY <1>1, <1>4 DEF Marred
<1>7. BatchIds(t) \ Marred' = {}
  BY <1>1 DEF Marred
<1> DEFINE p == "idle"
<1>8. p \in {"insert", "idle"} /\ p # "insert" /\ MovesTo(t, p)
  BY <1>3
<1> HIDE DEF p
<1>9. QED
  BY <1>1, <1>2, <1>4, <1>5, <1>6, <1>7, <1>8, WriterSettled

(* A deletion leaves nothing of its ids.                                   *)
LEMMA DeleteSettled ==
  ASSUME IInv, SettledInv, NEW t \in Tasks, Delete(t)
  PROVE  SettledInv'
<1> DEFINE table == Without(Contents(t), BatchIds(t))
<1>1. /\ task[t].pc = "delete" /\ Becomes(t, table) /\ Ends(t)
      /\ there \/ ForSkills(task[t].request)
      /\ should' = [id \in Ids |-> IF id \in BatchIds(t) THEN NoItem ELSE should[id]]
      /\ Touch(t, BatchIds(t), TRUE) /\ torn' = torn \ BatchIds(t)
      /\ UNCHANGED <<backend, there>>
  BY DEF Delete, At
<1>2. task[t].request.does = "delete"
  BY <1>1, WritersAsked
<1>3. MovesTo(t, "idle")
  BY <1>1, EndsMoves DEF IInv
<1>4. disturbed' = (disturbed \ BatchIds(t)) \cup Crossed(t, BatchIds(t))
  BY <1>1 DEF Touch
<1>5. /\ table \in Seq(IF ForSkills(task[t].request) THEN SkillRows ELSE ToolRows)
      /\ backend # "lance" => Keyed(table)
      /\ \A id \in BatchIds(t) : None(table, id)
      /\ \A id : id \notin BatchIds(t) => Keeps(Contents(t), table, id)
  BY ContentsType, WithoutRows
<1> HIDE DEF table
<1>6. \A id \in Ids \ BatchIds(t) :
        /\ should'[id] = should[id]
        /\ id \in Marred => id \in Marred'
        /\ Keeps(Contents(t), table, id)
  BY <1>1, <1>4, <1>5 DEF Marred
<1>7. \A id \in BatchIds(t) : id \in Ids
  BY <1>2, BatchItems
<1>8. \A id \in BatchIds(t) \ Marred' :
        /\ id \notin Crossed(t, BatchIds(t)) /\ Right(table, id, should'[id])
        /\ should'[id] = NoItem
  BY <1>1, <1>4, <1>5, <1>7 DEF Marred, Right
<1> DEFINE p == "idle"
<1>9. p \in {"insert", "idle"} /\ p # "insert" /\ MovesTo(t, p)
  BY <1>3
<1> HIDE DEF p
<1>10. QED
  BY <1>1, <1>2, <1>5, <1>6, <1>8, <1>9, WriterSettled

-----------------------------------------------------------------------------
(* The opening of LanceDB                                                  *)

(* A task that is not half way through anything.                           *)
LEMMA FreeAfter ==
  ASSUME NEW t \in Tasks,
         task'[t].pc \notin {"insert", "drop", "create", "fill", "migrate", "putback"}
  PROVE  Broken(t)' = {} /\ Carries(t)' /\ Claim(t)'
<1>1. Broken(t)' = {}
  BY DEF Broken, At
<1>2. Lists(t)' = {}
  BY DEF Lists, Opening
<1>3. QED
  BY <1>1, <1>2 DEF Carries, Claim, Opening

(* The first user of a table of an old schema reads all of it.             *)
LEMMA OpenSettled ==
  ASSUME IInv, SettledInv, NEW t \in Tasks, Open(t)
  PROVE  SettledInv'
<1>1. /\ backend = "lance" /\ task[t].pc = "open"
      /\ UNCHANGED <<backend, skills, should, disturbed, torn>>
  BY DEF Open, At, history, store
<1>2. tools' = tools /\ ThereInv'
  BY <1>1 DEF Open, SettledInv, ThereInv, store
<1>3. CASE Opens(t)
  <2>1. PICK p \in {"route", "search", "delete", "check", "write"} : MovesTo(t, p)
    BY <1>3, OpensMoves
  <2>2. QED
    BY <1>1, <1>2, <2>1, QuietlySettled
<1>4. CASE task' = [task EXCEPT ![t].pc = "drop", ![t].listed = tools]
  <2> DEFINE p == "drop"
             X == {}
  <2>1. MovesTo(t, p) /\ task'[t].listed = tools
    BY <1>4, ListingMoves DEF IInv
  <2>2. task'[t].pc = "drop" /\ \A u \in Tasks \ {t} : task'[u] = task[u]
    BY <2>1 DEF MovesTo
  <2>3. Broken(t) = {} /\ Broken(t)' = {}
    BY <1>1, <2>2 DEF Broken, At
  <2>4. KindInv' /\ KeyedInv'
    BY <1>1, <1>2 DEF SettledInv, KindInv, KeyedInv, ToolRows, SkillRows, RowSet
  <2>5. Carries(t)'
    BY <1>1, <2>1, <2>2 DEF SettledInv, KindInv, Carries, Opening, ToolRows, RowSet
  <2>6. Marred' = Marred
    BY <1>1 DEF Marred
  <2>7. ASSUME NEW id \in Lists(t)', id \notin Marred',
               \A w \in Tasks \ {t} : id \notin Broken(w)'
        PROVE  Right(task'[t].listed, id, should'[id])
    <3>1. id \in Ids /\ ~id[1]
      BY <2>2, <2>7 DEF Lists, Opening, Ids
    <3>2. \A w \in Tasks \ {t} : Broken(w)' = Broken(w)
      BY <2>2 DEF Broken, At, BatchIds, ListedIds
    <3>3. \A w \in Tasks : id \notin Broken(w)
      BY <2>3, <2>7, <3>2
    <3>4. Right(tools, id, should[id])
      BY <2>6, <2>7, <3>1, <3>3 DEF SettledInv, MainInv, TableOf
    <3>5. QED
      BY <1>1, <2>1, <3>4
  <2>8. Claim(t)'
    BY <2>7 DEF Claim
  <2>9. \A id \in Ids \ X :
           /\ should'[id] = should[id]
           /\ id \in Marred => id \in Marred'
           /\ id \in Broken(t)' <=> id \in Broken(t)
           /\ Keeps(TableOf(id), TableOf(id)', id)
    BY <1>1, <1>2, <2>3, <2>6 DEF TableOf, Keeps
  <2>10. (Ids \cap X) \ Marred' = {}
    OBVIOUS
  <2> HIDE DEF p, X
  <2>11. QED
    BY <1>1, <1>2, <2>2, <2>4, <2>5, <2>8, <2>9, <2>10, SettledStep
<1>5. QED
  BY <1>3, <1>4 DEF Open

(* What a task has listed stays listed while it goes on with it.           *)
LEMMA StillListed ==
  ASSUME SettledInv, NEW t \in Tasks,
         \/ Opening(t) /\ Opening(t)'
         \/ task[t].pc \in {"migrate", "putback"} /\ task'[t].pc \in {"migrate", "putback"},
         \A u \in Tasks \ {t} : task'[u] = task[u],
         task'[t].listed = task[t].listed, UNCHANGED <<backend, should>>, Marred \subseteq Marred'
  PROVE  Carries(t)' /\ Claim(t)'
<1>1. Carries(t)'
  BY DEF SettledInv, CarryInv, Carries, Opening, ToolRows, SkillRows, RowSet
<1>2. \A w \in Tasks \ {t} : Broken(w)' = Broken(w)
  BY DEF Broken, At, BatchIds, ListedIds
<1>3. Lists(t)' = Lists(t)
  BY DEF Lists, Opening
<1>4. Claim(t)
  BY DEF SettledInv, ClaimInv
<1>5. Claim(t)'
  BY <1>2, <1>3, <1>4 DEF Claim
<1>6. QED
  BY <1>1, <1>5

(* Dropping the table deletes every tool.                                  *)
LEMMA DropToolsSettled ==
  ASSUME IInv, SettledInv, NEW t \in Tasks, DropTools(t)
  PROVE  SettledInv'
<1> DEFINE X == ToolIds
<1>1. /\ task[t].pc = "drop" /\ Goes(t, "create")
      /\ tools' = <<>> /\ disturbed' = disturbed \cup Crossed(t, X)
      /\ UNCHANGED <<backend, skills, should, torn>>
  BY DEF DropTools, At, Touch
<1>2. MovesTo(t, "create") /\ task'[t].listed = task[t].listed
  BY <1>1, GoesMoves DEF IInv, Fields
<1>3. task'[t].pc = "create" /\ \A u \in Tasks \ {t} : task'[u] = task[u]
  BY <1>2 DEF MovesTo
<1>4. backend = "lance"
  BY <1>1 DEF SettledInv, CarryInv, Carries
<1>5. Opening(t) /\ Opening(t)' /\ Marred \subseteq Marred'
  BY <1>1, <1>3 DEF Opening, Marred
<1>6. Carries(t)' /\ Claim(t)'
  BY <1>1, <1>2, <1>3, <1>5, StillListed
<1>7. KindInv' /\ KeyedInv' /\ ThereInv'
  BY <1>1, <1>4 DEF SettledInv, KindInv, KeyedInv, ThereInv, ToolRows, SkillRows, RowSet
<1>8. \A id \in Ids : id \in X <=> ~id[1]
  BY KindOfId
<1>9. \A id \in Ids : id \notin Broken(t) /\ (id \in Broken(t)' <=> ~id[1])
  BY <1>1, <1>3 DEF Broken, At, Ids
<1>10. \A id \in Ids \ X :
           /\ should'[id] = should[id]
           /\ id \in Marred => id \in Marred'
           /\ id \in Broken(t)' <=> id \in Broken(t)
           /\ Keeps(TableOf(id), TableOf(id)', id)
  BY <1>1, <1>5, <1>8, <1>9 DEF TableOf, Keeps
<1>11. ASSUME NEW id \in Ids \cap X, id \notin Marred'
       PROVE  /\ id \in Broken(t)' /\ None(TableOf(id)', id) /\ ~id[1]
              /\ \A u \in Tasks \ {t} : id \notin Rewriting(u)
  <2>1. id \notin Crossed(t, X)
    BY <1>1, <1>11 DEF Marred
  <2>2. id \in Broken(t)' /\ ~id[1]
    BY <1>8, <1>9, <1>11
  <2>3. TableOf(id)' = <<>>
    BY <1>1, <2>2 DEF TableOf
  <2>4. None(TableOf(id)', id)
    BY <2>3 DEF None
  <2>5. QED
    BY <1>11, <2>1, <2>2, <2>4, NotCrossed
<1> HIDE DEF X
<1>12. QED
  BY <1>1, <1>3, <1>6, <1>7, <1>10, <1>11, SettledStep

(* The new table is empty.                                                 *)
LEMMA CreateToolsSettled ==
  ASSUME IInv, SettledInv, NEW t \in Tasks, CreateTools(t)
  PROVE  SettledInv'
<1> DEFINE X == {}
<1>1. /\ task[t].pc = "create" /\ Goes(t, "fill") /\ there' = TRUE
      /\ UNCHANGED <<backend, tools, skills, should, disturbed, torn>>
  BY DEF CreateTools, At, history
<1>2. MovesTo(t, "fill") /\ task'[t].listed = task[t].listed
  BY <1>1, GoesMoves DEF IInv, Fields
<1>3. task'[t].pc = "fill" /\ \A u \in Tasks \ {t} : task'[u] = task[u]
  BY <1>2 DEF MovesTo
<1>4. Opening(t) /\ Opening(t)' /\ Marred' = Marred
  BY <1>1, <1>3 DEF Opening, Marred
<1>5. Carries(t)' /\ Claim(t)'
  BY <1>1, <1>2, <1>3, <1>4, StillListed
<1>6. KindInv' /\ KeyedInv' /\ ThereInv'
  BY <1>1 DEF SettledInv, KindInv, KeyedInv, ThereInv, ToolRows, SkillRows, RowSet
<1>7. Broken(t)' = Broken(t)
  BY <1>1, <1>3 DEF Broken, At
<1>8. \A id \in Ids \ X :
           /\ should'[id] = should[id]
           /\ id \in Marred => id \in Marred'
           /\ id \in Broken(t)' <=> id \in Broken(t)
           /\ Keeps(TableOf(id), TableOf(id)', id)
  BY <1>1, <1>4, <1>7 DEF TableOf, Keeps
<1>9. (Ids \cap X) \ Marred' = {}
  OBVIOUS
<1> HIDE DEF X
<1>10. QED
  BY <1>1, <1>3, <1>5, <1>6, <1>8, <1>9, SettledStep

(* What was listed is put into the new table.                              *)
LEMMA FillToolsSettled ==
  ASSUME IInv, SettledInv, NEW t \in Tasks, FillTools(t)
  PROVE  SettledInv'
<1> DEFINE X == ToolIds
           listed == task[t].listed
<1>1. /\ task[t].pc = "fill" /\ there /\ there' = there /\ Opens(t)
      /\ tools' = tools \o listed /\ disturbed' = disturbed \cup Crossed(t, X)
      /\ UNCHANGED <<backend, skills, should, torn>>
  BY DEF FillTools, At, Touch
<1>2. PICK p \in {"route", "search", "delete", "check", "write"} : MovesTo(t, p)
  BY <1>1, OpensMoves
<1>3. task'[t].pc = p /\ \A u \in Tasks \ {t} : task'[u] = task[u]
  BY <1>2 DEF MovesTo
<1>4. Broken(t)' = {} /\ Carries(t)' /\ Claim(t)'
  BY <1>3, FreeAfter
<1>5. backend = "lance" /\ Opening(t) /\ listed \in Seq(ToolRows) /\ tools \in Seq(ToolRows)
  BY <1>1 DEF SettledInv, KindInv, CarryInv, Carries, Opening
<1> HIDE DEF listed
<1>6. \A id : tools' \in Seq(ToolRows) /\ (None(tools, id) => Keeps(listed, tools', id))
  BY <1>1, <1>5, AddedRows
<1>7. KindInv' /\ KeyedInv' /\ ThereInv'
  BY <1>1, <1>5, <1>6 DEF SettledInv, KindInv, KeyedInv, ThereInv, ToolRows, SkillRows, RowSet
<1>8. \A id \in Ids : id \in X <=> ~id[1]
  BY KindOfId
<1>9. \A id \in Ids : id \in Broken(t) <=> ~id[1]
  BY <1>1 DEF Broken, At
<1>10. \A id \in Ids \ X :
           /\ should'[id] = should[id]
           /\ id \in Marred => id \in Marred'
           /\ id \in Broken(t)' <=> id \in Broken(t)
           /\ Keeps(TableOf(id), TableOf(id)', id)
  BY <1>1, <1>4, <1>8, <1>9 DEF TableOf, Keeps, Marred
<1>11. ASSUME NEW id \in Ids \cap X, id \notin Marred'
       PROVE  /\ id \notin Broken(t)' /\ Right(TableOf(id)', id, should'[id]) /\ ~id[1]
              /\ \A u \in Tasks \ {t} : id \notin Rewriting(u)
  <2>1. id \notin Marred /\ id \notin Crossed(t, X) /\ ~id[1]
    BY <1>1, <1>8, <1>11 DEF Marred
  <2>2. \A u \in Tasks \ {t} : id \notin Rewriting(u)
    BY <1>11, <2>1, NotCrossed
  <2>3. \A u \in Tasks \ {t} : id \notin Broken(u)
    BY <2>2, BrokenRewritten
  <2>4. id \in Lists(t)
    BY <1>5, <1>11, <2>1 DEF Lists
  <2>5. Right(listed, id, should[id])
    BY <2>1, <2>3, <2>4 DEF SettledInv, ClaimInv, Claim, listed
  <2>6. None(tools, id)
    BY <1>9, <1>11, <2>1 DEF SettledInv, BrokenInv, TableOf
  <2>7. Right(tools', id, should[id])
    BY <1>6, <2>5, <2>6 DEF Keeps, Right
  <2>8. QED
    BY <1>1, <1>4, <2>1, <2>2, <2>7 DEF TableOf
<1> HIDE DEF X
<1>12. QED
  BY <1>1, <1>3, <1>4, <1>7, <1>10, <1>11, SettledStep

(* A failure after the drop tears every tool.                              *)
LEMMA OpeningFailsSettled ==
  ASSUME IInv, SettledInv, NEW t \in Tasks, OpeningFails(t)
  PROVE  SettledInv'
<1> DEFINE X == Broken(t)
<1>1. /\ Opening(t) /\ Opens(t)
      /\ torn' = IF At(t, "drop") THEN torn ELSE torn \cup ToolIds
      /\ UNCHANGED <<backend, tools, skills, there, should, disturbed>>
  BY DEF OpeningFails, store
<1>2. PICK p \in {"route", "search", "delete", "check", "write"} : MovesTo(t, p)
  BY <1>1, OpensMoves
<1>3. task'[t].pc = p /\ \A u \in Tasks \ {t} : task'[u] = task[u]
  BY <1>2 DEF MovesTo
<1>4. Broken(t)' = {} /\ Carries(t)' /\ Claim(t)'
  BY <1>3, FreeAfter
<1>5. KindInv' /\ KeyedInv' /\ ThereInv'
  BY <1>1 DEF SettledInv, KindInv, KeyedInv, ThereInv, ToolRows, SkillRows, RowSet
<1>6. X \subseteq Marred'
  <2>1. ASSUME NEW id \in X PROVE id \in torn'
    <3>1. id \in ToolIds /\ ~At(t, "drop")
      BY <1>1, <2>1 DEF Broken, At, Opening, ToolIds
    <3>2. QED
      BY <1>1, <3>1
  <2>2. QED
    BY <2>1 DEF Marred
<1>7. \A id \in Ids \ X :
           /\ should'[id] = should[id]
           /\ id \in Marred => id \in Marred'
           /\ id \in Broken(t)' <=> id \in Broken(t)
           /\ Keeps(TableOf(id), TableOf(id)', id)
  BY <1>1, <1>4 DEF TableOf, Keeps, Marred
<1>8. (Ids \cap X) \ Marred' = {}
  BY <1>6
<1> HIDE DEF X
<1>9. QED
  BY <1>1, <1>3, <1>4, <1>5, <1>7, <1>8, SettledStep

-----------------------------------------------------------------------------
(* The migration of the skills                                             *)

(* Who migrates lists all of the skills.                                   *)
LEMMA ListSkillsSettled ==
  ASSUME IInv, SettledInv, NEW t \in Tasks, ListSkills(t)
  PROVE  SettledInv'
<1>1. /\ task[t].pc = "list"
      /\ UNCHANGED <<backend, tools, skills, there, should, disturbed, torn>>
  BY DEF ListSkills, At, store, history
<1>2. ThereInv'
  BY <1>1 DEF SettledInv, ThereInv
<1>3. PICK p \in {"mark", "migrate"} : MovesTo(t, p) /\ task'[t].listed = skills
  <2> DEFINE p == IF skills = <<>> THEN "mark" ELSE "migrate"
  <2>1. task' = [task EXCEPT ![t].pc = p, ![t].listed = skills] /\ p \in {"mark", "migrate"}
    BY DEF ListSkills
  <2> HIDE DEF p
  <2>2. MovesTo(t, p) /\ task'[t].listed = skills
    BY <2>1, ListingMoves DEF IInv
  <2>3. QED
    BY <2>1, <2>2
<1>4. CASE p = "mark"
  BY <1>1, <1>2, <1>3, <1>4, QuietlySettled
<1>5. CASE p = "migrate"
  <2> DEFINE X == {}
  <2>1. task'[t].pc = "migrate" /\ \A u \in Tasks \ {t} : task'[u] = task[u]
    BY <1>3, <1>5 DEF MovesTo
  <2>2. Broken(t) = {} /\ Broken(t)' = {}
    BY <1>1, <2>1 DEF Broken, At
  <2>3. KindInv' /\ KeyedInv' /\ Marred' = Marred
    BY <1>1 DEF SettledInv, KindInv, KeyedInv, Marred, ToolRows, SkillRows, RowSet
  <2>4. Carries(t)'
    BY <1>3, <2>1 DEF SettledInv, KindInv, Carries, Opening, SkillRows, RowSet
  <2>5. ASSUME NEW id \in Lists(t)', id \notin Marred',
               \A w \in Tasks \ {t} : id \notin Broken(w)'
        PROVE  Right(task'[t].listed, id, should'[id])
    <3>1. id \in Ids /\ id[1]
      BY <2>1, <2>5 DEF Lists, Opening, Ids
    <3>2. \A w \in Tasks \ {t} : Broken(w)' = Broken(w)
      BY <2>1 DEF Broken, At, BatchIds, ListedIds
    <3>3. \A w \in Tasks : id \notin Broken(w)
      BY <2>2, <2>5, <3>2
    <3>4. Right(skills, id, should[id])
      BY <2>3, <2>5, <3>1, <3>3 DEF SettledInv, MainInv, TableOf
    <3>5. QED
      BY <1>1, <1>3, <3>4
  <2>6. Claim(t)'
    BY <2>5 DEF Claim
  <2>7. \A id \in Ids \ X :
           /\ should'[id] = should[id]
           /\ id \in Marred => id \in Marred'
           /\ id \in Broken(t)' <=> id \in Broken(t)
           /\ Keeps(TableOf(id), TableOf(id)', id)
    BY <1>1, <2>2, <2>3 DEF TableOf, Keeps
  <2>8. (Ids \cap X) \ Marred' = {}
    OBVIOUS
  <2> HIDE DEF X
  <2>9. QED
    BY <1>1, <1>2, <2>1, <2>3, <2>4, <2>6, <2>7, <2>8, SettledStep
<1>6. QED
  BY <1>3, <1>4, <1>5

(* The ids that a migration listed are those of skills.                    *)
LEMMA ListedSkills ==
  ASSUME SettledInv, NEW t \in Tasks, task[t].pc \in {"migrate", "putback"}
  PROVE  /\ task[t].listed \in Seq(SkillRows)
         /\ \A n \in DOMAIN task[t].listed : RowId(task[t].listed[n]) \in ListedIds(t)
         /\ \A id \in ListedIds(t) : id[1]
<1>1. task[t].listed \in Seq(SkillRows)
  BY DEF SettledInv, CarryInv, Carries
<1>2. ListedIds(t) = {RowId(r) : r \in {task[t].listed[n] : n \in DOMAIN task[t].listed}}
  BY DEF ListedIds, ToSet
<1>3. \A n \in DOMAIN task[t].listed : RowId(task[t].listed[n])[1]
  BY <1>1 DEF SkillRows
<1>4. QED
  BY <1>1, <1>2, <1>3

(* It deletes what it listed.                                              *)
LEMMA MigrateSettled ==
  ASSUME IInv, SettledInv, NEW t \in Tasks, Migrate(t)
  PROVE  SettledInv'
<1> DEFINE X == ListedIds(t)
<1>1. task[t].pc = "migrate" /\ backend = "lance"
  BY DEF Migrate, At, IInv, ListedInv
<1>2. /\ skills' = Without(skills, X) /\ Goes(t, "putback")
      /\ disturbed' = disturbed \cup Crossed(t, X)
      /\ UNCHANGED <<backend, tools, there, should, torn>>
  BY <1>1 DEF Migrate, Touch
<1>3. MovesTo(t, "putback") /\ task'[t].listed = task[t].listed
  BY <1>2, GoesMoves DEF IInv, Fields
<1>4. task'[t].pc = "putback" /\ \A u \in Tasks \ {t} : task'[u] = task[u]
  BY <1>3 DEF MovesTo
<1>5. Marred \subseteq Marred'
  BY <1>2 DEF Marred
<1>6. Carries(t)' /\ Claim(t)'
  BY <1>1, <1>2, <1>3, <1>4, <1>5, StillListed
<1>7. skills \in Seq(SkillRows)
  BY DEF SettledInv, KindInv
<1>8. /\ skills' \in Seq(SkillRows)
      /\ \A id \in X : None(skills', id)
      /\ \A id : id \notin X => Keeps(skills, skills', id)
  BY <1>2, <1>7, WithoutRows
<1>9. KindInv' /\ KeyedInv' /\ ThereInv'
  BY <1>1, <1>2, <1>8 DEF SettledInv, KindInv, KeyedInv, ThereInv, ToolRows, SkillRows, RowSet
<1>10. \A id \in X : id[1]
  BY <1>1, ListedSkills
<1>11. \A id \in Ids : id \notin Broken(t) /\ (id \in Broken(t)' <=> id \in X)
  <2>1. ListedIds(t)' = X
    BY <1>3 DEF ListedIds
  <2>2. QED
    BY <1>1, <1>4, <2>1 DEF Broken, At, Ids
<1>12. \A id \in Ids \ X :
           /\ should'[id] = should[id]
           /\ id \in Marred => id \in Marred'
           /\ id \in Broken(t)' <=> id \in Broken(t)
           /\ Keeps(TableOf(id), TableOf(id)', id)
  BY <1>2, <1>5, <1>8, <1>11 DEF TableOf, Keeps
<1>13. ASSUME NEW id \in Ids \cap X, id \notin Marred'
       PROVE  /\ id \in Broken(t)' /\ None(TableOf(id)', id)
              /\ \A u \in Tasks \ {t} : id \notin Rewriting(u)
  <2>1. id \notin Crossed(t, X)
    BY <1>2, <1>13 DEF Marred
  <2>2. \A u \in Tasks \ {t} : id \notin Rewriting(u)
    BY <1>13, <2>1, NotCrossed
  <2>3. QED
    BY <1>8, <1>10, <1>11, <1>13, <2>2 DEF TableOf
<1> HIDE DEF X
<1>14. QED
  BY <1>2, <1>4, <1>6, <1>9, <1>12, <1>13, SettledStep

(* And puts it back, by the present embedder.                              *)
LEMMA PutBackSettled ==
  ASSUME IInv, SettledInv, NEW t \in Tasks, PutBack(t)
  PROVE  SettledInv'
<1> DEFINE X == ListedIds(t)
           listed == task[t].listed
           anew == Reembedded(t)
<1>1. /\ task[t].pc = "putback" /\ Goes(t, "mark")
      /\ skills' = skills \o anew /\ disturbed' = disturbed \cup Crossed(t, X)
      /\ UNCHANGED <<backend, tools, there, should, torn>>
  BY DEF PutBack, At, Touch
<1>2. MovesTo(t, "mark")
  BY <1>1, GoesMoves DEF IInv
<1>3. task'[t].pc = "mark" /\ \A u \in Tasks \ {t} : task'[u] = task[u]
  BY <1>2 DEF MovesTo
<1>4. Broken(t)' = {} /\ Carries(t)' /\ Claim(t)'
  BY <1>3, FreeAfter
<1>5. /\ listed \in Seq(SkillRows) /\ \A id \in X : id[1]
      /\ \A n \in DOMAIN listed : RowId(listed[n]) \in X
  BY <1>1, ListedSkills
<1>6. DOMAIN anew = DOMAIN listed /\ \A n \in DOMAIN listed : anew[n].item = listed[n].item
  BY DEF Reembedded, Row
<1>7. \A n \in DOMAIN listed : RowId(anew[n]) = RowId(listed[n])
  BY <1>6 DEF RowId
<1>8. anew \in Seq(SkillRows)
  <2>1. listed \in Seq(RowSet)
    <3>1. SkillRows \subseteq RowSet
      BY DEF SkillRows
    <3> HIDE DEF listed
    <3>2. QED
      BY <1>5, <3>1, SeqMonotonic
  <2>2. anew \in Seq(AnewBy(t, embedder))
    BY <2>1, ReembeddedType DEF IInv, ShapeInv
  <2> HIDE DEF anew, listed
  <2>3. ASSUME NEW n \in DOMAIN anew PROVE anew[n] \in SkillRows
    <3>1. anew[n] \in RowSet
      BY <2>2 DEF AnewBy
    <3>2. RowId(anew[n])[1]
      BY <1>5, <1>6, <1>7
    <3>3. QED
      BY <3>1, <3>2 DEF SkillRows
  <2>4. QED
    BY <2>2, <2>3, OverElements
<1>9. skills \in Seq(SkillRows) /\ backend = "lance"
  BY <1>1 DEF SettledInv, KindInv, IInv, ListedInv
<1> HIDE DEF X, listed, anew
<1>10. \A id : /\ skills' \in Seq(SkillRows)
               /\ None(anew, id) => Keeps(skills, skills', id)
               /\ None(skills, id) => Keeps(anew, skills', id)
  BY <1>1, <1>8, <1>9, AddedRows
<1>11. \A id : Keeps(listed, anew, id)
  BY <1>6, SameItems
<1>12. KindInv' /\ KeyedInv' /\ ThereInv'
  BY <1>1, <1>9, <1>10 DEF SettledInv, KindInv, KeyedInv, ThereInv, ToolRows, SkillRows, RowSet
<1>13. \A id \in Ids : id \in Broken(t) <=> id \in X
  BY <1>1 DEF Broken, At, X
<1>14. \A id \in Ids \ X :
           /\ should'[id] = should[id]
           /\ id \in Marred => id \in Marred'
           /\ id \in Broken(t)' <=> id \in Broken(t)
           /\ Keeps(TableOf(id), TableOf(id)', id)
  <2>1. \A id \in Ids \ X : None(anew, id)
    BY <1>5, <1>6, <1>7 DEF None
  <2>2. QED
    BY <1>1, <1>4, <1>10, <1>13, <2>1 DEF TableOf, Keeps, Marred
<1>15. \A u \in Tasks \ {t} : task[u].pc \notin {"migrate", "putback"}
  <2>1. lock = t /\ ~checked
    BY <1>1, HolderKnows DEF Migrating
  <2>2. QED
    BY <2>1, HolderAlone DEF Migrating
<1>16. ASSUME NEW id \in Ids \cap X, id \notin Marred'
       PROVE  /\ id \notin Broken(t)' /\ Right(TableOf(id)', id, should'[id])
              /\ \A u \in Tasks \ {t} : id \notin Rewriting(u)
  <2>1. id \notin Marred /\ id \notin Crossed(t, X) /\ id[1]
    BY <1>1, <1>5, <1>16 DEF Marred
  <2>2. \A u \in Tasks \ {t} : id \notin Rewriting(u)
    BY <1>16, <2>1, NotCrossed
  <2>3. \A u \in Tasks \ {t} : id \notin Broken(u)
    BY <2>2, BrokenRewritten
  <2>4. id \in Lists(t)
    BY <1>1, <1>16, <2>1 DEF Lists
  <2>5. Right(listed, id, should[id])
    BY <2>1, <2>3, <2>4 DEF SettledInv, ClaimInv, Claim, listed
  <2>6. None(skills, id)
    BY <1>13, <1>16, <2>1 DEF SettledInv, BrokenInv, TableOf
  <2>7. Right(skills', id, should[id])
    BY <1>10, <1>11, <2>5, <2>6 DEF Keeps, Right
  <2>8. QED
    BY <1>1, <1>4, <2>1, <2>2, <2>7 DEF TableOf
<1>17. QED
  BY <1>1, <1>3, <1>4, <1>12, <1>14, <1>15, <1>16, SettledStep

(* A migration that fails with its skills deleted tears them.              *)
LEMMA MigrationFailsSettled ==
  ASSUME IInv, SettledInv, NEW t \in Tasks, MigrationFails(t)
  PROVE  SettledInv'
<1> DEFINE X == Broken(t)
<1>1. /\ task[t].pc \in {"list", "migrate", "putback", "mark"} /\ Ends(t)
      /\ torn' = IF At(t, "putback") THEN torn \cup ListedIds(t) ELSE torn
      /\ UNCHANGED <<backend, tools, skills, there, should, disturbed>>
  BY DEF MigrationFails
<1>2. MovesTo(t, "idle")
  BY <1>1, EndsMoves DEF IInv
<1>3. task'[t].pc = "idle" /\ \A u \in Tasks \ {t} : task'[u] = task[u]
  BY <1>2 DEF MovesTo
<1>4. Broken(t)' = {} /\ Carries(t)' /\ Claim(t)'
  BY <1>3, FreeAfter
<1>5. KindInv' /\ KeyedInv' /\ ThereInv'
  BY <1>1 DEF SettledInv, KindInv, KeyedInv, ThereInv, ToolRows, SkillRows, RowSet
<1>6. X \subseteq Marred'
  <2>1. \A id \in X : At(t, "putback") /\ id \in ListedIds(t)
    BY <1>1 DEF Broken, At
  <2>2. QED
    BY <1>1, <2>1 DEF Marred
<1>7. \A id \in Ids \ X :
           /\ should'[id] = should[id]
           /\ id \in Marred => id \in Marred'
           /\ id \in Broken(t)' <=> id \in Broken(t)
           /\ Keeps(TableOf(id), TableOf(id)', id)
  BY <1>1, <1>4 DEF TableOf, Keeps, Marred
<1>8. (Ids \cap X) \ Marred' = {}
  BY <1>6
<1> HIDE DEF X
<1>9. QED
  BY <1>1, <1>3, <1>4, <1>5, <1>7, <1>8, SettledStep

-----------------------------------------------------------------------------
(* The start of a process                                                  *)

(* Nobody is at work, and every table is right.                            *)
AllSettled ==
  /\ KindInv /\ KeyedInv /\ ThereInv
  /\ \A t \in Tasks : task[t].pc = "idle"
  /\ \A id \in Ids \ Marred : Right(TableOf(id), id, should[id])

(* Then the invariant holds.                                               *)
LEMMA NobodyAtWork == AllSettled => SettledInv
<1> SUFFICES ASSUME AllSettled PROVE SettledInv
  OBVIOUS
<1>1. \A t \in Tasks : task[t].pc = "idle"
  BY DEF AllSettled
<1>2. \A t \in Tasks : Broken(t) = {} /\ Lists(t) = {}
  BY <1>1 DEF Broken, Lists, At, Opening
<1>3. CarryInv
  BY <1>1 DEF CarryInv, Carries, Opening
<1>4. MainInv /\ BrokenInv /\ ClaimInv
  BY <1>2 DEF AllSettled, MainInv, BrokenInv, ClaimInv, Claim
<1>5. QED
  BY <1>3, <1>4 DEF AllSettled, SettledInv

(* A table without duplicates has of every id what is looked up in it, or  *)
(* in a longer one that adds none of that id.                              *)
LEMMA LookedUp ==
  ASSUME RetrievalAssumption, NEW T \in Seq(RowSet), NEW U \in Seq(RowSet), Keyed(T), NEW id,
         Keeps(T, U, id)
  PROVE  Right(T, id, Item(U, id))
<1>1. CASE None(T, id)
  <2>1. InTable(U, id) = <<>>
    BY <1>1, Found DEF Keeps
  <2>2. QED
    BY <1>1, <2>1 DEF Item, Right
<1>2. CASE ~None(T, id)
  <2>1. PICK k \in DOMAIN T : RowId(T[k]) = id
    BY <1>2 DEF None
  <2> DEFINE v == T[k].item
  <2>2. v \in Items /\ v # NoItem
    <3>1. T[k] \in RowSet
      BY <2>1
    <3>2. QED
      BY <3>1, RetrievalAssumption DEF RowSet
  <2>3. Once(T, id, v)
    BY <2>1 DEF Keyed, Once
  <2> HIDE DEF v
  <2>4. Once(U, id, v)
    BY <2>3 DEF Keeps
  <2>5. Len(InTable(U, id)) = 1 /\ InTable(U, id)[1].item = v
    BY <2>4, Found
  <2>6. InTable(U, id) # <<>>
    BY <2>4, Found DEF Once, None
  <2>7. Item(U, id) = v
    BY <2>5, <2>6 DEF Item
  <2>8. QED
    BY <2>2, <2>3, <2>7 DEF Right
<1>3. QED
  BY <1>1, <1>2

(* The rows an earlier process left, of one kind and told apart by their   *)
(* ids.                                                                    *)
LEMMA FormerRows ==
  ASSUME NEW e \in Embedders, NEW b \in BOOLEAN,
         NEW items \in Seq({i \in Items : (Sheet[i].kind = "skill") = b}),
         \A m, n \in DOMAIN items : IdOf(items[m]) = IdOf(items[n]) => m = n
  PROVE  /\ Rows(items, e) \in Seq(RowSet) /\ Keyed(Rows(items, e))
         /\ \A n \in DOMAIN Rows(items, e) : RowId(Rows(items, e)[n])[1] = b
<1> DEFINE S == {i \in Items : (Sheet[i].kind = "skill") = b}
           rows == Rows(items, e)
<1>1. \A n \in DOMAIN items : items[n] \in Items /\ (Sheet[items[n]].kind = "skill") = b
  <2>1. items \in Seq(S)
    OBVIOUS
  <2> HIDE DEF S
  <2>2. \A n \in DOMAIN items : items[n] \in S
    BY <2>1
  <2>3. QED
    BY <2>2 DEF S
<1>2. items \in Seq(Items)
  <2>1. items \in Seq(S) /\ S \subseteq Items
    OBVIOUS
  <2> HIDE DEF S
  <2>2. QED
    BY <2>1, SeqMonotonic
<1>3. rows \in Seq(By(e))
  BY <1>2, RowsType
<1>4. DOMAIN rows = DOMAIN items /\ \A n \in DOMAIN items : rows[n].item = items[n]
  BY DEF Rows, Row
<1> HIDE DEF rows, S
<1>5. rows \in Seq(RowSet)
  <2>1. By(e) \subseteq RowSet
    BY DEF By
  <2>2. QED
    BY <1>3, <2>1, SeqMonotonic
<1>6. \A n \in DOMAIN items : RowId(rows[n]) = IdOf(items[n])
  BY <1>4 DEF RowId
<1>7. Keyed(rows)
  BY <1>4, <1>6 DEF Keyed
<1>8. \A n \in DOMAIN items : IdOf(items[n])[1] = b
  BY <1>1 DEF IdOf
<1>9. QED
  BY <1>4, <1>5, <1>6, <1>7, <1>8 DEF rows

(* The tables that a first process finds are right as they are.            *)
LEMMA InitSettled == Init => SettledInv
<1> SUFFICES ASSUME Init PROVE SettledInv
  OBVIOUS
<1>1. /\ \A t \in Tasks : task[t].pc = "idle"
      /\ should = [id \in Ids |-> Item(tools \o skills, id)]
      /\ embedder \in Embedders
      /\ backend = "lance" => there
  BY IdleShape DEF Init, Remote
<1>2. PICK f \in Former, e \in Embedders :
        /\ tools = IF Persistent /\ there THEN Rows(f.tools, embedder) ELSE <<>>
        /\ skills = IF backend = "lance" THEN Rows(f.skills, e) ELSE <<>>
  BY DEF Init
<1>3. /\ tools \in Seq(RowSet) /\ Keyed(tools)
      /\ \A n \in DOMAIN tools : ~RowId(tools[n])[1]
  <2> DEFINE b == FALSE
             items == f.tools
             rows == Rows(items, embedder)
  <2>1. /\ items \in Seq({i \in Items : (Sheet[i].kind = "skill") = b})
        /\ \A m, n \in DOMAIN items : IdOf(items[m]) = IdOf(items[n]) => m = n
    <3>1. /\ f.tools \in Seq({i \in Items : Sheet[i].kind # "skill"})
          /\ \A m, n \in DOMAIN f.tools : IdOf(f.tools[m]) = IdOf(f.tools[n]) => m = n
      BY RetrievalAssumption
    <3>2. {i \in Items : (Sheet[i].kind = "skill") = b} = {i \in Items : Sheet[i].kind # "skill"}
      OBVIOUS
    <3>3. QED
      BY <3>1, <3>2
  <2>2. embedder \in Embedders /\ b \in BOOLEAN
    BY <1>1
  <2> HIDE DEF b, items
  <2>3. /\ rows \in Seq(RowSet) /\ Keyed(rows)
        /\ \A n \in DOMAIN rows : RowId(rows[n])[1] = b
    BY <2>1, <2>2, FormerRows
  <2>4. <<>> \in Seq(RowSet) /\ DOMAIN <<>> = {}
    OBVIOUS
  <2> HIDE DEF rows
  <2>5. tools = rows \/ tools = <<>>
    BY <1>2 DEF rows, items
  <2>6. QED
    BY <2>3, <2>4, <2>5 DEF Keyed, b
<1>4. /\ skills \in Seq(RowSet) /\ Keyed(skills)
      /\ \A n \in DOMAIN skills : RowId(skills[n])[1]
  <2> DEFINE b == TRUE
             items == f.skills
             rows == Rows(items, e)
  <2>1. /\ items \in Seq({i \in Items : (Sheet[i].kind = "skill") = b})
        /\ \A m, n \in DOMAIN items : IdOf(items[m]) = IdOf(items[n]) => m = n
    <3>1. /\ f.skills \in Seq({i \in Items : Sheet[i].kind = "skill"})
          /\ \A m, n \in DOMAIN f.skills : IdOf(f.skills[m]) = IdOf(f.skills[n]) => m = n
      BY RetrievalAssumption
    <3>2. {i \in Items : (Sheet[i].kind = "skill") = b} = {i \in Items : Sheet[i].kind = "skill"}
      OBVIOUS
    <3>3. QED
      BY <3>1, <3>2
  <2>2. e \in Embedders /\ b \in BOOLEAN
    OBVIOUS
  <2> HIDE DEF b, items
  <2>3. /\ rows \in Seq(RowSet) /\ Keyed(rows)
        /\ \A n \in DOMAIN rows : RowId(rows[n])[1] = b
    BY <2>1, <2>2, FormerRows
  <2>4. <<>> \in Seq(RowSet) /\ DOMAIN <<>> = {}
    OBVIOUS
  <2> HIDE DEF rows
  <2>5. skills = rows \/ skills = <<>>
    BY <1>2 DEF rows, items
  <2>6. QED
    BY <2>3, <2>4, <2>5 DEF Keyed, b
<1>5. KindInv
  <2>1. \A n \in DOMAIN tools : tools[n] \in ToolRows
    BY <1>3 DEF ToolRows
  <2>2. \A n \in DOMAIN skills : skills[n] \in SkillRows
    BY <1>4 DEF SkillRows
  <2>3. tools \in Seq(ToolRows)
    BY <1>3, <2>1, OverElements
  <2>4. skills \in Seq(SkillRows)
    BY <1>4, <2>2, OverElements
  <2>5. QED
    BY <2>3, <2>4 DEF KindInv
<1>6. KeyedInv /\ ThereInv
  BY <1>1, <1>3, <1>4 DEF KeyedInv, ThereInv
<1>7. ASSUME NEW id \in Ids PROVE Right(TableOf(id), id, should[id])
  <2> DEFINE C == tools \o skills
  <2>1. should[id] = Item(C, id)
    BY <1>1
  <2>2. /\ C \in Seq(RowSet)
        /\ None(skills, id) => Keeps(tools, C, id)
        /\ None(tools, id) => Keeps(skills, C, id)
    BY <1>3, <1>4, AddedRows
  <2> HIDE DEF C
  <2>3. CASE id[1]
    <3>1. None(tools, id)
      BY <1>3, <2>3 DEF None
    <3>2. Right(skills, id, Item(C, id))
      BY <1>4, <2>2, <3>1, LookedUp, RetrievalAssumption
    <3>3. QED
      BY <2>1, <2>3, <3>2 DEF TableOf
  <2>4. CASE ~id[1]
    <3>1. None(skills, id)
      BY <1>4, <2>4 DEF None
    <3>2. Right(tools, id, Item(C, id))
      BY <1>3, <2>2, <3>1, LookedUp, RetrievalAssumption
    <3>3. QED
      BY <2>1, <2>4, <3>2 DEF TableOf
  <2>5. QED
    BY <2>3, <2>4
<1>8. QED
  BY <1>1, <1>5, <1>6, <1>7, NobodyAtWork DEF AllSettled

(* A crash tears or disturbs what it interrupts.                           *)
LEMMA CrashSettled ==
  ASSUME IInv, SettledInv, Crash
  PROVE  AllSettled'
<1>1. /\ embedder' \in Embedders /\ task' = [t \in Tasks |-> Idle]
      /\ tools' = [n \in DOMAIN tools |-> Row(tools[n].item, embedder')]
      /\ disturbed' = disturbed \cup UNION {BatchIds(t) : t \in {u \in Tasks : At(u, "insert")}}
      /\ torn' = torn
               \cup (IF \E u \in Tasks : task[u].pc \in {"create", "fill"} THEN ToolIds ELSE {})
               \cup UNION {ListedIds(t) : t \in {u \in Tasks : At(u, "putback")}}
      /\ UNCHANGED <<backend, skills, there, should>>
  BY DEF Crash
<1>2. \A t \in Tasks : task'[t].pc = "idle"
  <2>1. Idle.pc = "idle"
    BY IdleShape
  <2>2. QED
    BY <1>1, <2>1
<1>3. DOMAIN tools' = DOMAIN tools /\ \A n \in DOMAIN tools : tools'[n].item = tools[n].item
  BY <1>1 DEF Row
<1>4. (\A id : Keeps(tools, tools', id)) /\ (Keyed(tools) => Keyed(tools'))
  BY <1>3, SameItems
<1>5. tools' \in Seq(ToolRows)
  <2> DEFINE e == embedder'
             rows == [n \in DOMAIN tools |-> Row(tools[n].item, e)]
  <2>1. tools \in Seq(ToolRows) /\ e \in Embedders /\ tools' = rows
    BY <1>1 DEF SettledInv, KindInv
  <2> HIDE DEF e
  <2>2. Len(tools) \in Nat /\ DOMAIN tools = 1 .. Len(tools)
    BY <2>1
  <2>3. ASSUME NEW n \in DOMAIN tools PROVE Row(tools[n].item, e) \in ToolRows
    <3>1. tools[n] \in ToolRows
      BY <2>1
    <3>2. QED
      BY <2>1, <3>1 DEF ToolRows, RowSet, Row, RowId
  <2>4. rows \in [1 .. Len(tools) -> ToolRows]
    BY <2>2, <2>3
  <2> HIDE DEF rows
  <2>5. rows \in Seq(ToolRows)
    BY <2>2, <2>4
  <2>6. QED
    BY <2>1, <2>5
<1>6. KindInv'
  BY <1>1, <1>5 DEF SettledInv, KindInv, ToolRows, SkillRows, RowSet
<1>7. KeyedInv'
  BY <1>1, <1>4 DEF SettledInv, KeyedInv
<1>8. ThereInv'
  <2>1. tools = <<>> => tools' = <<>>
    BY <1>1
  <2>2. QED
    BY <1>1, <2>1 DEF SettledInv, ThereInv
<1>9. ASSUME NEW id \in Ids, id \notin Marred'
      PROVE  Right(TableOf(id)', id, should'[id])
  <2>1. id \notin Marred
    BY <1>1, <1>9 DEF Marred
  <2>2. ASSUME NEW u \in Tasks PROVE id \notin Broken(u)
    <3>1. At(u, "insert") => id \notin BatchIds(u)
      BY <1>1, <1>9 DEF Marred
    <3>2. At(u, "putback") => id \notin ListedIds(u)
      BY <1>1, <1>9 DEF Marred
    <3>3. task[u].pc \in {"create", "fill"} => id[1]
      <4>1. task[u].pc \in {"create", "fill"} => ToolIds \subseteq torn'
        BY <1>1
      <4>2. QED
        BY <1>9, <4>1 DEF Marred, ToolIds
    <3>4. QED
      BY <3>1, <3>2, <3>3 DEF Broken
  <2>3. Right(TableOf(id), id, should[id])
    BY <2>1, <2>2 DEF SettledInv, MainInv
  <2>4. Keeps(TableOf(id), TableOf(id)', id)
    BY <1>1, <1>4 DEF TableOf, Keeps
  <2>5. QED
    BY <1>1, <2>3, <2>4 DEF Keeps, Right
<1>10. QED
  BY <1>2, <1>6, <1>7, <1>8, <1>9 DEF AllSettled, Ids

-----------------------------------------------------------------------------
(* What is read                                                            *)

(* The rows are of these items, each of another.                           *)
Holds(F, W) ==
  /\ \A m, n \in DOMAIN F : F[m].item = F[n].item => m = n
  /\ {F[n].item : n \in DOMAIN F} = W

(* Then there are as many rows as items.                                   *)
LEMMA HoldsCount ==
  ASSUME NEW R, NEW F \in Seq(R), NEW W, Holds(F, W)
  PROVE  Cardinality(W) = Len(F)
<1> DEFINE h == [n \in 1 .. Len(F) |-> F[n].item]
<1>1. Len(F) \in Nat /\ DOMAIN F = 1 .. Len(F)
  OBVIOUS
<1>2. h \in [1 .. Len(F) -> W] /\ \A n \in 1 .. Len(F) : h[n] = F[n].item
  BY <1>1 DEF Holds
<1> HIDE DEF h
<1>3. \A m, n \in 1 .. Len(F) : h[m] = h[n] => m = n
  BY <1>1, <1>2 DEF Holds
<1>4. \A i \in W : \E n \in 1 .. Len(F) : h[n] = i
  BY <1>1, <1>2 DEF Holds
<1>5. h \in Bijection(1 .. Len(F), W)
  BY <1>2, <1>3, <1>4 DEF Bijection, Injection, Surjection, IsInjective
<1>6. QED
  BY <1>1, <1>5, FS_CountingElements DEF ExistsBijection

(* The rows of a namespace are of its items.                               *)
LEMMA NamespaceHolds ==
  ASSUME NEW R, NEW T \in Seq(R), NEW W, Holds(T, W), NEW ns
  PROVE  /\ OfNamespace(T, ns) \in Seq(R)
         /\ Holds(OfNamespace(T, ns), {i \in W : ns = "any" \/ Sheet[i].ns = ns})
<1> DEFINE V == {i \in W : ns = "any" \/ Sheet[i].ns = ns}
           P == {n \in DOMAIN T : T[n].item \in V}
           kept == [n \in DOMAIN T |-> IF n \in P THEN <<T[n]>> ELSE <<>>]
           F == FlattenSeq(kept)
<1>1. \A n \in DOMAIN T : T[n].item \in W
  BY DEF Holds
<1>2. OfNamespace(T, ns) = F
  <2>1. kept = [n \in DOMAIN T |-> IF ns = "any" \/ Sheet[T[n].item].ns = ns THEN <<T[n]>> ELSE <<>>]
    BY <1>1
  <2>2. QED
    BY <2>1 DEF OfNamespace, Those
<1>3. F \in Seq(R) /\ \E h : Picks(F, h, T, P)
  <2>1. kept = [n \in DOMAIN T |-> IF n \in P THEN <<T[n]>> ELSE <<>>] /\ P \in SUBSET DOMAIN T
    OBVIOUS
  <2> HIDE DEF P, kept
  <2>2. QED
    BY <2>1, KeptPlaces
<1> HIDE DEF F, kept
<1>4. PICK h \in [DOMAIN F -> P] :
        /\ \A i, j \in DOMAIN F : h[i] = h[j] => i = j
        /\ \A n \in P : \E i \in DOMAIN F : h[i] = n
        /\ \A i \in DOMAIN F : F[i] = T[h[i]]
  BY <1>3 DEF Picks
<1>5. \A i \in DOMAIN F : h[i] \in P /\ h[i] \in DOMAIN T
  BY <1>4
<1>6. \A m, n \in DOMAIN F : F[m].item = F[n].item => m = n
  BY <1>4, <1>5 DEF Holds
<1>7. \A n \in DOMAIN F : F[n].item \in V
  BY <1>4, <1>5
<1>8. ASSUME NEW i \in V PROVE \E n \in DOMAIN F : F[n].item = i
  <2>1. PICK m \in DOMAIN T : T[m].item = i
    BY DEF Holds
  <2>2. m \in P
    BY <2>1
  <2> HIDE DEF P, V
  <2>3. PICK n \in DOMAIN F : h[n] = m
    BY <1>4, <2>2
  <2>4. QED
    BY <1>4, <2>1, <2>3
<1> HIDE DEF V
<1>9. {F[n].item : n \in DOMAIN F} = V
  BY <1>7, <1>8
<1>10. QED
  BY <1>2, <1>3, <1>6, <1>9 DEF Holds, V

(* The order of the rows does not matter.                                  *)
LEMMA ReverseHolds ==
  ASSUME NEW R, NEW T \in Seq(R), NEW W, Holds(T, W)
  PROVE  Reverse(T) \in Seq(R) /\ Holds(Reverse(T), W)
<1> DEFINE n == Len(T)
           U == [i \in 1 .. n |-> T[(n - i) + 1]]
<1>1. n \in Nat /\ DOMAIN T = 1 .. n /\ \A i \in 1 .. n : T[i] \in R
  OBVIOUS
<1>2. Reverse(T) = U
  BY DEF Reverse
<1> HIDE DEF n
<1>3. \A i \in 1 .. n : (n - i) + 1 \in 1 .. n /\ (n - ((n - i) + 1)) + 1 = i
  BY <1>1
<1>4. DOMAIN U = 1 .. n /\ U \in [1 .. n -> R] /\ \A i \in 1 .. n : U[i] = T[(n - i) + 1]
  BY <1>1, <1>3
<1> HIDE DEF U
<1>5. U \in Seq(R)
  BY <1>1, <1>4
<1>6. ASSUME NEW i \in 1 .. n, NEW j \in 1 .. n, U[i].item = U[j].item PROVE i = j
  <2>1. (n - i) + 1 = (n - j) + 1
    BY <1>1, <1>3, <1>4, <1>6 DEF Holds
  <2>2. QED
    BY <1>1, <2>1
<1>7. \A i \in 1 .. n : U[i].item \in W
  BY <1>1, <1>3, <1>4 DEF Holds
<1>8. ASSUME NEW w \in W PROVE \E j \in 1 .. n : U[j].item = w
  <2>1. PICK i \in 1 .. n : T[i].item = w
    BY <1>1 DEF Holds
  <2> DEFINE j == (n - i) + 1
  <2>2. j \in 1 .. n /\ (n - j) + 1 = i
    BY <1>3
  <2> HIDE DEF j
  <2>3. U[j] = T[i]
    BY <1>4, <2>2
  <2>4. QED
    BY <2>1, <2>2, <2>3
<1>9. {U[i].item : i \in 1 .. n} = W
  BY <1>7, <1>8
<1>10. Holds(U, W)
  BY <1>4, <1>6, <1>9 DEF Holds
<1>11. QED
  BY <1>2, <1>5, <1>10

(* The lesser and the greater of two.                                      *)
LEMMA OfTwo ==
  ASSUME NEW a \in Int, NEW b \in Int
  PROVE  /\ Min({a, b}) = IF a <= b THEN a ELSE b
         /\ Max({a, b}) = IF a >= b THEN a ELSE b
<1>1. \E x \in {a, b} : \A y \in {a, b} : x <= y
  OBVIOUS
<1>2. \E x \in {a, b} : \A y \in {a, b} : x >= y
  OBVIOUS
<1>3. Min({a, b}) \in {a, b} /\ \A y \in {a, b} : Min({a, b}) <= y
  BY <1>1 DEF Min
<1>4. Max({a, b}) \in {a, b} /\ \A y \in {a, b} : Max({a, b}) >= y
  BY <1>2 DEF Max
<1>5. QED
  BY <1>3, <1>4

(* A page of rows that hold what was written is a right one.               *)
LEMMA PageHolds ==
  ASSUME NEW R, NEW F \in Seq(R), NEW W, Holds(F, W), NEW limit \in Nat, NEW offset \in Nat
  PROVE  RightPage(Page(F, limit, offset), W, limit, offset)
<1> DEFINE m == Len(F)
           last == Min({offset + limit, m})
           left == Max({0, m - offset})
           rows == SubSeq(F, offset + 1, last)
           got == {rows[n].item : n \in DOMAIN rows}
<1>1. m \in Nat /\ DOMAIN F = 1 .. m /\ \A i \in 1 .. m : F[i] \in R
  OBVIOUS
<1>2. Cardinality(W) = m
  BY HoldsCount
<1>3. /\ last = IF offset + limit <= m THEN offset + limit ELSE m
      /\ left = IF 0 >= m - offset THEN 0 ELSE m - offset
  <2> DEFINE a == offset + limit
             b == m - offset
  <2>1. a \in Int /\ b \in Int /\ m \in Int /\ 0 \in Int
    BY <1>1
  <2> HIDE DEF a, b, m
  <2>2. /\ Min({a, m}) = IF a <= m THEN a ELSE m
        /\ Max({0, b}) = IF 0 >= b THEN 0 ELSE b
    BY <2>1, OfTwo
  <2>3. QED
    BY <2>2 DEF a, b
<1>4. Page(F, limit, offset) = rows
  BY DEF Page
<1> HIDE DEF m, last, left
<1>5. last \in Int /\ \A i \in offset + 1 .. last : i \in 1 .. m
  BY <1>1, <1>3
<1>6. /\ rows \in Seq(R)
      /\ Len(rows) = IF offset + 1 <= last THEN last - (offset + 1) + 1 ELSE 0
      /\ \A i \in 1 .. last - (offset + 1) + 1 : rows[i] = F[(offset + 1) + i - 1]
  <2>1. \A i \in offset + 1 .. last : F[i] \in R
    BY <1>1, <1>5
  <2>2. QED
    BY <1>5, <2>1, SubSeqProperties
<1> HIDE DEF rows
<1>7. left \in Int /\ Len(rows) = IF limit <= left THEN limit ELSE left
  <2>1. m \in Int /\ limit \in Int /\ offset \in Int /\ limit >= 0 /\ offset >= 0 /\ m >= 0
    BY <1>1
  <2> DEFINE n == Len(rows)
  <2>2. n = IF offset + 1 <= last THEN last - (offset + 1) + 1 ELSE 0
    BY <1>6
  <2> HIDE DEF n
  <2>3. CASE offset + limit <= m
    <3>1. last = offset + limit /\ left = m - offset
      BY <1>3, <2>1, <2>3
    <3>2. QED
      BY <2>1, <2>2, <2>3, <3>1 DEF n
  <2>4. CASE ~(offset + limit <= m)
    <3>1. last = m
      BY <1>3, <2>4
    <3>2. QED
      BY <1>3, <2>1, <2>2, <2>4, <3>1 DEF n
  <2>5. QED
    BY <2>3, <2>4
<1>8. Len(rows) = Min({limit, left})
  BY <1>7, OfTwo
<1>9. /\ DOMAIN rows = 1 .. Len(rows) /\ Len(rows) \in Nat
      /\ \A i \in 1 .. Len(rows) : rows[i] = F[offset + i] /\ offset + i \in 1 .. m
  <2>1. DOMAIN rows = 1 .. Len(rows) /\ Len(rows) \in Nat
    BY <1>6
  <2>2. ASSUME NEW i \in 1 .. Len(rows)
        PROVE  rows[i] = F[offset + i] /\ offset + i \in 1 .. m
    <3>1. i \in 1 .. last - (offset + 1) + 1
      BY <1>5, <1>6
    <3>2. (offset + 1) + i - 1 = offset + i /\ offset + i \in offset + 1 .. last
      BY <1>5, <3>1
    <3>3. QED
      BY <1>5, <1>6, <3>1, <3>2
  <2>3. QED
    BY <2>1, <2>2
<1>10. Holds(rows, got)
  <2>1. ASSUME NEW i \in 1 .. Len(rows), NEW j \in 1 .. Len(rows), rows[i].item = rows[j].item
        PROVE  i = j
    <3>1. offset + i = offset + j
      BY <1>1, <1>9, <2>1 DEF Holds
    <3>2. QED
      BY <3>1
  <2>2. QED
    BY <1>9, <2>1 DEF Holds
<1>11. Cardinality(got) = Len(rows)
  <2> HIDE DEF got
  <2>1. QED
    BY <1>6, <1>10, HoldsCount
<1>12. got \subseteq W
  BY <1>1, <1>9 DEF Holds
<1>13. QED
  BY <1>2, <1>4, <1>8, <1>11, <1>12 DEF RightPage, left

(* Two pages of one, one after the other, are a page of two.               *)
LEMMA TwoPages ==
  ASSUME NEW R, NEW F \in Seq(R)
  PROVE  Page(F, 1, 0) \o Page(F, 1, 1) = Page(F, 2, 0)
<1> DEFINE m == Len(F)
<1>1. m \in Nat
  OBVIOUS
<1>2. /\ Page(F, 1, 0) = SubSeq(F, 1, Min({1, m}))
      /\ Page(F, 1, 1) = SubSeq(F, 2, Min({2, m}))
      /\ Page(F, 2, 0) = SubSeq(F, 1, Min({2, m}))
  BY DEF Page
<1>3. /\ Min({1, m}) = IF 1 <= m THEN 1 ELSE m
      /\ Min({2, m}) = IF 2 <= m THEN 2 ELSE m
  BY <1>1, OfTwo
<1>4. CASE m = 0
  <2>1. SubSeq(F, 1, 0) = <<>> /\ SubSeq(F, 2, 0) = <<>>
    BY SubSeqEmpty
  <2>2. QED
    BY <1>2, <1>3, <1>4, <2>1
<1>5. CASE m # 0
  <2> DEFINE n == Min({2, m})
  <2>1. 1 \in 1 .. m + 1 /\ 1 \in 0 .. m /\ n \in 1 .. m /\ Min({1, m}) = 1
    BY <1>1, <1>3, <1>5
  <2>2. /\ Page(F, 1, 0) = SubSeq(F, 1, 1)
        /\ Page(F, 1, 1) = SubSeq(F, 2, n)
        /\ Page(F, 2, 0) = SubSeq(F, 1, n)
    BY <1>2, <2>1
  <2> HIDE DEF n, m
  <2>3. SubSeq(F, 1, 1) \o SubSeq(F, 1 + 1, n) = SubSeq(F, 1, n)
    BY <2>1, ConcatAdjacentSubSeq DEF m
  <2>4. 1 + 1 = 2
    OBVIOUS
  <2>5. QED
    BY <2>2, <2>3, <2>4
<1>6. QED
  BY <1>4, <1>5

(* A table with every id right holds what was written.                     *)
LEMMA TableHolds ==
  ASSUME NEW kind \in BOOLEAN, NEW T \in Seq({r \in RowSet : RowId(r)[1] = kind}),
         \A id \in Ids : id[1] = kind => Right(T, id, should[id])
  PROVE  Holds(T, Written(kind))
<1> DEFINE Q == {r \in RowSet : RowId(r)[1] = kind}
<1>1. \A n \in DOMAIN T : T[n] \in RowSet /\ RowId(T[n])[1] = kind
  <2>1. T \in Seq(Q)
    OBVIOUS
  <2> HIDE DEF Q
  <2>2. \A n \in DOMAIN T : T[n] \in Q
    BY <2>1
  <2>3. QED
    BY <2>2 DEF Q
<1>2. \A n \in DOMAIN T : RowId(T[n]) = IdOf(T[n].item) /\ RowId(T[n]) \in Ids
  BY <1>1 DEF RowSet, RowId, Ids
<1>3. \A n \in DOMAIN T : ~None(T, RowId(T[n]))
  BY DEF None
<1>4. ASSUME NEW n \in DOMAIN T
      PROVE  /\ should[RowId(T[n])] = T[n].item /\ should[RowId(T[n])] # NoItem
             /\ \A m \in DOMAIN T : RowId(T[m]) = RowId(T[n]) => m = n
  <2> DEFINE id == RowId(T[n])
  <2>1. id \in Ids /\ id[1] = kind /\ ~None(T, id)
    BY <1>1, <1>2, <1>3
  <2>2. should[id] # NoItem /\ Once(T, id, should[id])
    BY <2>1 DEF Right
  <2>3. PICK k \in DOMAIN T : T[k].item = should[id] /\ \A m \in DOMAIN T : RowId(T[m]) = id <=> m = k
    BY <2>2 DEF Once
  <2>4. k = n
    BY <2>3
  <2>5. QED
    BY <2>2, <2>3, <2>4
<1>5. \A m, n \in DOMAIN T : T[m].item = T[n].item => m = n
  BY <1>2, <1>4
<1>6. Written(kind) = {should[id] : id \in {i \in Ids : i[1] = kind /\ should[i] # NoItem}}
  BY DEF Written
<1>7. \A n \in DOMAIN T : T[n].item \in Written(kind)
  BY <1>1, <1>2, <1>4, <1>6
<1>8. ASSUME NEW w \in Written(kind) PROVE \E n \in DOMAIN T : T[n].item = w
  <2>1. PICK id \in Ids : id[1] = kind /\ should[id] # NoItem /\ w = should[id]
    BY <1>6
  <2>2. Once(T, id, w)
    BY <2>1 DEF Right
  <2>3. QED
    BY <2>2 DEF Once
<1>9. {T[n].item : n \in DOMAIN T} = Written(kind)
  BY <1>7, <1>8
<1>10. QED
  BY <1>5, <1>9 DEF Holds

(* What the stores count of a namespace, where they count it.              *)
LEMMA CountRight ==
  ASSUME IInv, NEW T \in Seq(RowSet), NEW kind \in BOOLEAN, Holds(T, Written(kind)), NEW ns,
         NEW n \in Count(backend, T, ns)
  PROVE  n = Cardinality(WrittenIn(kind, ns)) \/ (n = 0 /\ Silent)
<1>1. Counted(T, ns) = Cardinality(WrittenIn(kind, ns))
  <2> DEFINE F == OfNamespace(T, ns)
             W == WrittenIn(kind, ns)
  <2>1. F \in Seq(RowSet) /\ Holds(F, W)
    BY NamespaceHolds DEF WrittenIn
  <2>2. Counted(T, ns) = Len(F)
    BY DEF Counted
  <2> HIDE DEF F, W
  <2>3. Cardinality(W) = Len(F)
    BY <2>1, HoldsCount
  <2>4. QED
    BY <2>2, <2>3 DEF W
<1>2. backend \in {"memory", "lance", "qdrant", "chroma", "pg"}
  BY RetrievalAssumption DEF IInv, ShapeInv
<1>3. n = Counted(T, ns) \/ (n = 0 /\ Silent)
  <2>1. CASE backend \in {"memory", "qdrant", "pg"}
    BY <2>1 DEF Count, MemoryCount, QdrantCount, PGCount
  <2>2. CASE backend = "lance"
    BY <2>2 DEF Count, LanceCount, Silent
  <2>3. CASE backend = "chroma"
    BY <2>3 DEF Count, ChromaCount, Silent
  <2>4. QED
    BY <1>2, <2>1, <2>2, <2>3
<1>4. QED
  BY <1>1, <1>3

(* A page of what a table lists of a namespace.                            *)
LEMMA ListedRight ==
  ASSUME NEW T \in Seq(RowSet), NEW kind \in BOOLEAN, Holds(T, Written(kind)), NEW ns,
         NEW limit \in Nat, NEW offset \in Nat
  PROVE  RightPage(Listed(T, ns, limit, offset), WrittenIn(kind, ns), limit, offset)
<1> DEFINE F == OfNamespace(T, ns)
           W == WrittenIn(kind, ns)
<1>1. F \in Seq(RowSet) /\ Holds(F, W)
  BY NamespaceHolds DEF WrittenIn
<1>2. Listed(T, ns, limit, offset) = Page(F, limit, offset)
  BY DEF Listed
<1> HIDE DEF F, W
<1>3. RightPage(Page(F, limit, offset), W, limit, offset)
  BY <1>1, PageHolds
<1>4. QED
  BY <1>2, <1>3 DEF W

(* The tools that the stores list.                                         *)
LEMMA ListRight ==
  ASSUME IInv, NEW T \in Seq(RowSet), NEW kind \in BOOLEAN, Holds(T, Written(kind)), NEW ns,
         NEW rows \in ListAll(backend, T, ns, ListLimit, 0)
  PROVE  RightPage(rows, WrittenIn(kind, ns), ListLimit, 0) \/ (rows = <<>> /\ Silent)
<1>1. ListLimit \in Nat /\ 0 \in Nat
  BY RetrievalAssumption
<1>2. RightPage(Listed(T, ns, ListLimit, 0), WrittenIn(kind, ns), ListLimit, 0)
  BY <1>1, ListedRight
<1>3. RightPage(Listed(Reverse(T), ns, ListLimit, 0), WrittenIn(kind, ns), ListLimit, 0)
  <2> DEFINE U == Reverse(T)
             W == Written(kind)
  <2>1. U \in Seq(RowSet) /\ Holds(U, W)
    BY ReverseHolds
  <2> HIDE DEF U
  <2>2. RightPage(Listed(U, ns, ListLimit, 0), WrittenIn(kind, ns), ListLimit, 0)
    BY <1>1, <2>1, ListedRight
  <2>3. QED
    BY <2>2 DEF U
<1>4. backend \in {"memory", "lance", "qdrant", "chroma", "pg"}
  BY RetrievalAssumption DEF IInv, ShapeInv
<1> DEFINE mine == Listed(T, ns, ListLimit, 0)
           turned == Listed(Reverse(T), ns, ListLimit, 0)
<1>5. rows \in {mine, turned} \/ (rows = <<>> /\ Silent)
  <2>1. CASE backend = "memory"
    BY <2>1 DEF ListAll, MemoryList
  <2>2. CASE backend = "qdrant"
    BY <2>2 DEF ListAll, QdrantList
  <2>3. CASE backend = "pg"
    BY <2>3 DEF ListAll, PGList
  <2>4. CASE backend = "lance"
    BY <2>4 DEF ListAll, LanceList, Silent
  <2>5. CASE backend = "chroma"
    BY <2>5 DEF ListAll, ChromaList, Silent
  <2>6. QED
    BY <1>4, <2>1, <2>2, <2>3, <2>4, <2>5
<1> HIDE DEF mine, turned
<1>6. RightPage(mine, WrittenIn(kind, ns), ListLimit, 0) /\ RightPage(turned, WrittenIn(kind, ns), ListLimit, 0)
  BY <1>2, <1>3 DEF mine, turned
<1>7. QED
  BY <1>5, <1>6

(* A tool looked up by its id.                                             *)
LEMMA GetRight ==
  ASSUME IInv, NEW T \in Seq(RowSet), NEW id, NEW v, Right(T, id, v),
         NEW rows \in Get(backend, T, id)
  PROVE  ItemsOf(rows) = IF v = NoItem \/ (rows = <<>> /\ Silent) THEN <<>> ELSE <<v>>
<1> DEFINE F == InTable(T, id)
           mine == FirstOf(T, id)
<1>1. backend \in {"memory", "lance", "qdrant", "chroma", "pg"}
  BY RetrievalAssumption DEF IInv, ShapeInv
<1>2. rows = mine \/ (rows = <<>> /\ Silent)
  <2>1. CASE backend = "memory"
    BY <2>1 DEF Get, MemoryGet
  <2>2. CASE backend = "pg"
    BY <2>2 DEF Get, PGGet
  <2>3. CASE backend = "lance"
    BY <2>3 DEF Get, LanceGet, Silent
  <2>4. CASE backend = "qdrant"
    BY <2>4 DEF Get, QdrantGet, Silent
  <2>5. CASE backend = "chroma"
    BY <2>5 DEF Get, ChromaGet, Silent
  <2>6. QED
    BY <1>1, <2>1, <2>2, <2>3, <2>4, <2>5
<1>3. mine = SubSeq(F, 1, Min({1, Len(F)}))
  BY DEF FirstOf, Page
<1>4. ItemsOf(<<>>) = <<>>
  BY DEF ItemsOf
<1> HIDE DEF mine, F
<1>5. CASE v = NoItem
  <2>1. F = <<>>
    BY <1>5, Found DEF F, Right
  <2>2. Len(F) = 0
    BY <2>1
  <2>3. Min({1, Len(F)}) = 0
    BY <2>2, OfTwo
  <2>4. mine = <<>>
    BY <1>3, <2>3, SubSeqEmpty
  <2>5. QED
    BY <1>2, <1>4, <1>5, <2>4
<1>6. CASE v # NoItem
  <2>1. Len(F) = 1 /\ F[1].item = v /\ F \in Seq(RowSet)
    BY <1>6, Found DEF F, Right
  <2>2. Min({1, Len(F)}) = 1
    BY <2>1, OfTwo
  <2>3. mine = F
    BY <1>3, <2>1, <2>2, SubSeqFull
  <2>4. ItemsOf(mine) = <<v>>
    <3>1. DOMAIN F = 1 .. 1 /\ 1 .. 1 = {1}
      BY <2>1
    <3>2. ItemsOf(F) = [n \in 1 .. 1 |-> v]
      BY <2>1, <3>1 DEF ItemsOf
    <3>3. QED
      BY <2>3, <3>2
  <2>5. mine # <<>>
    <3>1. ASSUME F = <<>>
          PROVE  FALSE
      <4>1. Len(F) = 0
        BY <3>1
      <4>2. QED
        BY <2>1, <4>1
    <3>2. QED
      BY <2>3, <3>1
  <2>6. QED
    BY <1>2, <1>4, <1>6, <2>4, <2>5
<1>7. QED
  BY <1>5, <1>6

(* The tables of an invariant state read as they should.                   *)
LEMMA SettledReads == IInv /\ SettledInv => SettledTablesMatch
<1> SUFFICES ASSUME IInv, SettledInv
             PROVE  SettledTablesMatch
  OBVIOUS
<1> DEFINE U == Unsettled
<1>1. \A id \in Ids \ U : Right(TableOf(id), id, should[id])
  <2>1. ASSUME NEW id \in Ids \ U
        PROVE  id \notin Marred /\ \A u \in Tasks : id \notin Broken(u)
    BY <2>1, BrokenRewritten DEF Unsettled, Marred
  <2>2. QED
    BY <2>1 DEF SettledInv, MainInv
<1>2. tools \in Seq(RowSet) /\ skills \in Seq(RowSet)
  <2>1. ToolRows \subseteq RowSet /\ SkillRows \subseteq RowSet
    BY DEF ToolRows, SkillRows
  <2>2. QED
    BY <2>1, SeqMonotonic DEF SettledInv, KindInv
<1> HIDE DEF U
<1>3. ASSUME NEW id \in Ids \ U
      PROVE  LET rows == InTable(IF id[1] THEN skills ELSE tools, id)
             IN  IF should[id] = NoItem THEN rows = <<>>
                 ELSE Len(rows) = 1 /\ rows[1].item = should[id]
  <2>1. TableOf(id) \in Seq(RowSet)
    BY <1>2 DEF TableOf
  <2>2. CASE should[id] = NoItem
    BY <1>1, <2>1, <2>2, Found DEF Right, TableOf
  <2>3. CASE should[id] # NoItem
    BY <1>1, <2>1, <2>3, Found DEF Right, TableOf
  <2>4. QED
    BY <2>2, <2>3
<1>4. ToolsRead(U)
  <2>1. ASSUME NEW id \in ToolIds \ U, NEW rows \in get_tool(id)
        PROVE  ItemsOf(rows) = IF should[id] = NoItem \/ (rows = <<>> /\ Silent) THEN <<>>
                               ELSE <<should[id]>>
    <3>1. id \in Ids \ U /\ ~id[1]
      BY <2>1, KindOfId DEF ToolIds
    <3>2. Right(tools, id, should[id])
      BY <1>1, <3>1 DEF TableOf
    <3>3. rows \in Get(backend, tools, id)
      BY <2>1 DEF get_tool
    <3>4. QED
      BY <1>2, <3>2, <3>3, GetRight
  <2>2. ASSUME ToolIds \cap U = {}, NEW ns
        PROVE  LET written == WrittenIn(FALSE, ns)
               IN  /\ \A n \in Count(backend, tools, ns) :
                        n = Cardinality(written) \/ (n = 0 /\ Silent)
                   /\ \A rows \in list_tools(ns) :
                        RightPage(rows, written, ListLimit, 0) \/ (rows = <<>> /\ Silent)
    <3>1. \A id \in Ids : id[1] = FALSE => Right(tools, id, should[id])
      BY <1>1, <2>2, KindOfId DEF TableOf
    <3>2. tools \in Seq({r \in RowSet : RowId(r)[1] = FALSE})
      <4>1. ToolRows \subseteq {r \in RowSet : RowId(r)[1] = FALSE}
        <5>1. ASSUME NEW r \in RowSet
              PROVE  RowId(r) \in Ids
          BY DEF RowId, RowSet, Ids
        <5>2. QED
          BY <5>1, KindOfId DEF ToolRows
      <4>2. QED
        BY <4>1, SeqMonotonic DEF SettledInv, KindInv
    <3>3. Holds(tools, Written(FALSE))
      BY <3>1, <3>2, TableHolds
    <3>4. QED
      BY <1>2, <3>3, CountRight, ListRight DEF list_tools
  <2>3. QED
    BY <2>1, <2>2 DEF ToolsRead
<1>5. SkillsRead(U)
  <2> SUFFICES ASSUME (Ids \ ToolIds) \cap U = {}, NEW ns \in Namespaces
               PROVE  LET written == WrittenIn(TRUE, ns)
                      IN  /\ \A n \in count_skills(ns) :
                               n = Cardinality(written) \/ (n = 0 /\ Silent)
                          /\ \A first \in list_skills(ns, 1, 0), second \in list_skills(ns, 1, 1) :
                               /\ RightPage(first, written, 1, 0)
                               /\ RightPage(second, written, 1, 1)
                               /\ RightPage(first \o second, written, 2, 0)
    BY DEF SkillsRead
  <2>1. \A id \in Ids : id[1] = TRUE => Right(skills, id, should[id])
    BY <1>1, KindOfId DEF TableOf
  <2>2. skills \in Seq({r \in RowSet : RowId(r)[1] = TRUE})
    <3>1. SkillRows \subseteq {r \in RowSet : RowId(r)[1] = TRUE}
      <4>1. ASSUME NEW r \in RowSet
            PROVE  RowId(r) \in Ids
        BY DEF RowId, RowSet, Ids
      <4>2. QED
        BY <4>1, KindOfId DEF SkillRows
    <3>2. QED
      BY <3>1, SeqMonotonic DEF SettledInv, KindInv
  <2>3. Holds(skills, Written(TRUE))
    BY <2>1, <2>2, TableHolds
  <2>4. \A n \in count_skills(ns) : n = Cardinality(WrittenIn(TRUE, ns)) \/ (n = 0 /\ Silent)
    BY <1>2, <2>3, CountRight DEF count_skills
  <2>5. ASSUME NEW first \in list_skills(ns, 1, 0), NEW second \in list_skills(ns, 1, 1)
        PROVE  /\ RightPage(first, WrittenIn(TRUE, ns), 1, 0)
               /\ RightPage(second, WrittenIn(TRUE, ns), 1, 1)
               /\ RightPage(first \o second, WrittenIn(TRUE, ns), 2, 0)
    <3> DEFINE page(n, m) == Listed(skills, ns, n, m)
    <3>1. first = page(1, 0) /\ second = page(1, 1)
      BY <2>5 DEF list_skills, LanceListSkills, MemoryList
    <3>2. page(1, 0) \o page(1, 1) = page(2, 0)
      <4>1. OfNamespace(skills, ns) \in Seq(RowSet)
        BY <1>2, <2>3, NamespaceHolds
      <4>2. QED
        BY <4>1, TwoPages DEF Listed
    <3>3. /\ RightPage(page(1, 0), WrittenIn(TRUE, ns), 1, 0)
          /\ RightPage(page(1, 1), WrittenIn(TRUE, ns), 1, 1)
          /\ RightPage(page(2, 0), WrittenIn(TRUE, ns), 2, 0)
      <4>1. 0 \in Nat /\ 1 \in Nat /\ 2 \in Nat
        OBVIOUS
      <4>2. ASSUME NEW n \in Nat, NEW m \in Nat
            PROVE  RightPage(page(n, m), WrittenIn(TRUE, ns), n, m)
        BY <1>2, <2>3, ListedRight
      <4> HIDE DEF page
      <4>3. QED
        BY <4>1, <4>2
    <3> HIDE DEF page
    <3>4. QED
      BY <3>1, <3>2, <3>3
  <2>6. QED
    BY <2>4, <2>5
<1>6. QED
  BY <1>3, <1>4, <1>5 DEF SettledTablesMatch, U

-----------------------------------------------------------------------------
(* Every step                                                              *)

(* Every step keeps the tables' invariant, or leaves nobody at work.        *)
LEMMA NextSettled ==
  ASSUME IInv, SettledInv, [Next]_vars
  PROVE  SettledInv' \/ AllSettled'
<1>1. ASSUME NEW t \in Tasks, Step(t)
      PROVE  SettledInv'
  <2>1. CASE \/ Begin(t) \/ OpenQdrant(t) \/ OpenChroma(t) \/ OpenPG(t) \/ RemoteOpeningFails(t)
             \/ DeleteFails(t) \/ Check(t) \/ ReadMarker(t) \/ Mark(t) \/ StartRoute(t)
             \/ SearchTools(t) \/ SearchServers(t) \/ SearchSkills(t) \/ Rank(t) \/ Rerank(t)
             \/ Return(t) \/ Raise(t) \/ GiveUp(t)
    BY <2>1, QuietSteps
  <2>2. CASE \/ MemoryWrite(t) \/ RemoteWrite(t) \/ LanceDelete(t) \/ LanceInsert(t)
             \/ WriteFails(t) \/ Delete(t)
    BY <2>2, OneStepSettled, LanceDeleteSettled, LanceInsertSettled, WriteFailsSettled,
       DeleteSettled
  <2>3. CASE Open(t) \/ DropTools(t) \/ CreateTools(t) \/ FillTools(t) \/ OpeningFails(t)
    BY <2>3, OpenSettled, DropToolsSettled, CreateToolsSettled, FillToolsSettled,
       OpeningFailsSettled
  <2>4. CASE ListSkills(t) \/ Migrate(t) \/ PutBack(t) \/ MigrationFails(t)
    BY <2>4, ListSkillsSettled, MigrateSettled, PutBackSettled, MigrationFailsSettled
  <2>5. CASE IntentEnds(t)
    <3>1. UNCHANGED <<backend, tools, skills, there, should, disturbed, torn, task>>
      BY <2>5 DEF IntentEnds, store, history
    <3>2. QED
      BY <3>1, SettledStutter
  <2>6. QED
    BY <1>1, <2>1, <2>2, <2>3, <2>4, <2>5 DEF Step
<1>2. CASE Crash
  BY <1>2, CrashSettled
<1>3. CASE UNCHANGED vars
  <2>1. UNCHANGED <<backend, tools, skills, there, should, disturbed, torn, task>>
    BY <1>3 DEF vars, store, history
  <2>2. QED
    BY <2>1, SettledStutter
<1>4. QED
  BY <1>1, <1>2, <1>3 DEF Next

(* The tables and what is read of them: in every behaviour, every id that  *)
(* no task is rewriting, and that is not excepted, has in its table just   *)
(* the item that the last completed write left there; and look-ups,        *)
(* listings, pages and counts tell of that and of nothing else.            *)
THEOREM TablesHoldWhatWasWritten == Spec => []SettledTablesMatch
<1>1. Init => IInv /\ SettledInv
  BY InitInv, InitSettled
<1>2. IInv /\ SettledInv /\ [Next]_vars => (IInv' \/ Resting') /\ (SettledInv' \/ AllSettled')
  BY NextInv, NextSettled
<1>3. (Resting => IInv) /\ (AllSettled => SettledInv)
  BY AllIdle, NobodyAtWork
<1>4. IInv /\ SettledInv => SettledTablesMatch
  BY SettledReads
<1>5. QED
  BY <1>1, <1>2, <1>3, <1>4, PTL DEF Spec

-----------------------------------------------------------------------------
(* What filters, sorts and cuts leave                                      *)

(* The elements that are in A.                                             *)
Kept(s, A) == FlattenSeq([n \in DOMAIN s |-> IF s[n] \in A THEN <<s[n]>> ELSE <<>>])

(* Each element is of another item; and the scores fall.                   *)
Apart(s) == \A m, n \in DOMAIN s : s[m].item = s[n].item => m = n
Sorted(s) == \A m, n \in DOMAIN s : m <= n => s[m].score >= s[n].score

(* The first `limit` of C by their scores.                                 *)
Best(S, C, limit) ==
  /\ S \in Seq(C) /\ Apart(S) /\ Sorted(S) /\ Len(S) <= limit
  /\ \A c \in C : \/ c \in ToSet(S)
                  \/ Len(S) = limit /\ \A n \in DOMAIN S : S[n].score >= c.score

Rated(H) == \A g \in H : g.score \in Int

(* A filter keeps order and difference.                                    *)
LEMMA KeptElements ==
  ASSUME NEW H, NEW s \in Seq(H), NEW A
  PROVE  /\ Kept(s, A) \in Seq(H \cap A)
         /\ ToSet(Kept(s, A)) = ToSet(s) \cap A
         /\ Apart(s) => Apart(Kept(s, A))
         /\ Sorted(s) => Sorted(Kept(s, A))
<1> DEFINE W == {n \in DOMAIN s : s[n] \in A}
           kept == [n \in DOMAIN s |-> IF n \in W THEN <<s[n]>> ELSE <<>>]
           F == FlattenSeq(kept)
<1>1. Kept(s, A) = F
  <2>1. kept = [n \in DOMAIN s |-> IF s[n] \in A THEN <<s[n]>> ELSE <<>>]
    OBVIOUS
  <2>2. QED
    BY <2>1 DEF Kept
<1>2. F \in Seq(H) /\ \E h : Picks(F, h, s, W)
  <2>1. kept = [n \in DOMAIN s |-> IF n \in W THEN <<s[n]>> ELSE <<>>] /\ W \in SUBSET DOMAIN s
    OBVIOUS
  <2> HIDE DEF W, kept
  <2>2. QED
    BY <2>1, KeptPlaces
<1>3. PICK h : Picks(F, h, s, W)
  BY <1>2
<1>4. Len(F) \in Nat /\ DOMAIN F = 1 .. Len(F) /\ F = [i \in 1 .. Len(F) |-> F[i]]
  <2> HIDE DEF F
  <2>1. QED
    BY <1>2
<1> HIDE DEF F, kept
<1>5. /\ \A i \in DOMAIN F : h[i] \in DOMAIN s /\ F[i] = s[h[i]] /\ F[i] \in A /\ s[h[i]] \in H
      /\ \A n \in DOMAIN s : s[n] \in A => \E i \in DOMAIN F : h[i] = n
  BY <1>3 DEF Picks
<1>6. F \in Seq(H \cap A)
  <2> DEFINE B == H \cap A
  <2>1. \A i \in 1 .. Len(F) : F[i] \in B
    BY <1>4, <1>5
  <2> HIDE DEF B
  <2>2. F \in [1 .. Len(F) -> B]
    BY <1>4, <2>1
  <2>3. F \in Seq(B)
    BY <1>4, <2>2
  <2>4. QED
    BY <2>3 DEF B
<1>7. ToSet(F) = ToSet(s) \cap A
  <2>1. ToSet(F) \subseteq ToSet(s) \cap A
    BY <1>5 DEF ToSet
  <2>2. ToSet(s) \cap A \subseteq ToSet(F)
    <3>1. ASSUME NEW n \in DOMAIN s, s[n] \in A
          PROVE  s[n] \in ToSet(F)
      <4>1. PICK i \in DOMAIN F : h[i] = n
        BY <1>5, <3>1
      <4>2. F[i] = s[n]
        BY <1>5, <4>1
      <4>3. QED
        BY <4>2 DEF ToSet
    <3>2. QED
      BY <3>1 DEF ToSet
  <2>3. QED
    BY <2>1, <2>2
<1>8. ASSUME Apart(s) PROVE Apart(F)
  BY <1>3, <1>5, <1>8 DEF Apart, Picks
<1>9. ASSUME Sorted(s) PROVE Sorted(F)
  <2>1. ASSUME NEW m \in DOMAIN F, NEW n \in DOMAIN F, m <= n
        PROVE  F[m].score >= F[n].score
    <3>1. m = n \/ m < n
      BY <1>4, <2>1
    <3>2. h[m] \in Nat /\ h[n] \in Nat
      <4>1. DOMAIN s = 1 .. Len(s) /\ Len(s) \in Nat
        OBVIOUS
      <4>2. QED
        BY <1>5, <4>1
    <3>3. h[m] <= h[n]
      BY <1>3, <3>1, <3>2 DEF Picks
    <3>4. QED
      BY <1>5, <1>9, <3>3 DEF Sorted
  <2>2. QED
    BY <2>1 DEF Sorted
<1>10. QED
  BY <1>1, <1>6, <1>7, <1>8, <1>9

(* One sequence after another.                                             *)
LEMMA JoinedElements ==
  ASSUME NEW H, NEW s \in Seq(H), NEW u \in Seq(H)
  PROVE  /\ s \o u \in Seq(H)
         /\ ToSet(s \o u) = ToSet(s) \cup ToSet(u)
         /\ Apart(s) /\ Apart(u) /\ (\A g \in ToSet(s), h \in ToSet(u) : g.item # h.item)
              => Apart(s \o u)
         /\ Sorted(s) /\ Sorted(u) /\ (\A g \in ToSet(s), h \in ToSet(u) : g.score >= h.score)
              => Sorted(s \o u)
<1> DEFINE a == Len(s)
           b == Len(u)
           F == s \o u
<1>1. a \in Nat /\ b \in Nat /\ DOMAIN s = 1 .. a /\ DOMAIN u = 1 .. b
  OBVIOUS
<1>2. /\ F \in Seq(H) /\ DOMAIN F = 1 .. a + b
      /\ \A i \in 1 .. a + b : F[i] = IF i <= a THEN s[i] ELSE u[i - a]
  BY <1>1
<1> HIDE DEF a, b, F
<1>3. /\ \A i \in 1 .. a : i \in 1 .. a + b /\ F[i] = s[i] /\ s[i] \in ToSet(s)
      /\ \A j \in 1 .. b : a + j \in 1 .. a + b /\ F[a + j] = u[j] /\ u[j] \in ToSet(u)
  <2>1. \A i \in 1 .. a : i \in 1 .. a + b /\ i <= a
    BY <1>1
  <2>2. \A j \in 1 .. b : a + j \in 1 .. a + b /\ ~(a + j <= a) /\ (a + j) - a = j
    BY <1>1
  <2>3. QED
    BY <1>1, <1>2, <2>1, <2>2 DEF ToSet
<1>4. \A i \in 1 .. a + b : i \in 1 .. a \/ (i - a \in 1 .. b /\ a + (i - a) = i)
  BY <1>1
<1>5. ToSet(F) = ToSet(s) \cup ToSet(u)
  <2>1. ToSet(F) \subseteq ToSet(s) \cup ToSet(u)
    <3>1. ASSUME NEW i \in 1 .. a + b PROVE F[i] \in ToSet(s) \cup ToSet(u)
      BY <1>3, <1>4
    <3>2. QED
      BY <1>2, <3>1 DEF ToSet
  <2>2. ToSet(s) \subseteq ToSet(F)
    <3>1. ASSUME NEW i \in 1 .. a PROVE s[i] \in ToSet(F)
      <4>1. i \in DOMAIN F /\ F[i] = s[i]
        BY <1>2, <1>3
      <4>2. QED
        BY <4>1 DEF ToSet
    <3>2. QED
      BY <1>1, <3>1 DEF ToSet
  <2>3. ToSet(u) \subseteq ToSet(F)
    <3>1. ASSUME NEW j \in 1 .. b PROVE u[j] \in ToSet(F)
      <4>1. a + j \in DOMAIN F /\ F[a + j] = u[j]
        BY <1>2, <1>3
      <4>2. QED
        BY <4>1 DEF ToSet
    <3>2. QED
      BY <1>1, <3>1 DEF ToSet
  <2>4. QED
    BY <2>1, <2>2, <2>3
<1>6. ASSUME Apart(s), Apart(u), \A g \in ToSet(s), h \in ToSet(u) : g.item # h.item
      PROVE  Apart(F)
  <2>1. ASSUME NEW m \in 1 .. a + b, NEW n \in 1 .. a + b, F[m].item = F[n].item
        PROVE  m = n
    <3>1. CASE m \in 1 .. a /\ n \in 1 .. a
      BY <1>1, <1>3, <1>6, <2>1, <3>1 DEF Apart
    <3>2. CASE m \in 1 .. a /\ n \notin 1 .. a
      <4>1. n - a \in 1 .. b /\ F[n] = u[n - a]
        BY <1>3, <1>4, <3>2
      <4>2. QED
        BY <1>3, <1>6, <2>1, <3>2, <4>1
    <3>3. CASE m \notin 1 .. a /\ n \in 1 .. a
      <4>1. m - a \in 1 .. b /\ F[m] = u[m - a]
        BY <1>3, <1>4, <3>3
      <4>2. QED
        BY <1>3, <1>6, <2>1, <3>3, <4>1
    <3>4. CASE m \notin 1 .. a /\ n \notin 1 .. a
      <4>1. m - a \in 1 .. b /\ F[m] = u[m - a] /\ n - a \in 1 .. b /\ F[n] = u[n - a]
        BY <1>3, <1>4, <3>4
      <4>2. m - a = n - a
        BY <1>1, <1>6, <2>1, <4>1 DEF Apart
      <4>3. QED
        BY <1>1, <4>2
    <3>5. QED
      BY <3>1, <3>2, <3>3, <3>4
  <2>2. QED
    BY <1>2, <2>1 DEF Apart
<1>7. ASSUME Sorted(s), Sorted(u), \A g \in ToSet(s), h \in ToSet(u) : g.score >= h.score
      PROVE  Sorted(F)
  <2>1. ASSUME NEW m \in 1 .. a + b, NEW n \in 1 .. a + b, m <= n
        PROVE  F[m].score >= F[n].score
    <3>1. CASE m \in 1 .. a /\ n \in 1 .. a
      BY <1>1, <1>3, <1>7, <2>1, <3>1 DEF Sorted
    <3>2. CASE m \in 1 .. a /\ n \notin 1 .. a
      <4>1. n - a \in 1 .. b /\ F[n] = u[n - a]
        BY <1>3, <1>4, <3>2
      <4>2. QED
        BY <1>3, <1>7, <3>2, <4>1
    <3>3. CASE m \notin 1 .. a
      <4>1. n \notin 1 .. a
        BY <1>1, <2>1, <3>3
      <4>2. m - a \in 1 .. b /\ F[m] = u[m - a] /\ n - a \in 1 .. b /\ F[n] = u[n - a]
        BY <1>3, <1>4, <3>3, <4>1
      <4>3. m - a <= n - a
        BY <1>1, <2>1
      <4>4. QED
        BY <1>1, <1>7, <4>2, <4>3 DEF Sorted
    <3>4. QED
      BY <3>1, <3>2, <3>3
  <2>2. QED
    BY <1>2, <2>1 DEF Sorted
<1>8. QED
  BY <1>2, <1>5, <1>6, <1>7 DEF F

(* The insertion keeps the order, and the difference when h is of another  *)
(* item.                                                                   *)
LEMMA PlacedElements ==
  ASSUME NEW H, Rated(H), NEW s \in Seq(H), NEW h \in H
  PROVE  /\ Placed(s, h) \in Seq(H)
         /\ ToSet(Placed(s, h)) = ToSet(s) \cup {h}
         /\ Sorted(s) => Sorted(Placed(s, h))
         /\ Apart(s) /\ (\A g \in ToSet(s) : g.item # h.item) => Apart(Placed(s, h))
<1> DEFINE A == {g \in H : g.score >= h.score}
           B == {g \in H : g.score < h.score}
           L == Kept(s, A)
           U == Kept(s, B)
           one == <<h>>
<1>1. Len(s) \in Nat /\ DOMAIN s = 1 .. Len(s) /\ \A n \in DOMAIN s : s[n] \in H
  OBVIOUS
<1>2. Placed(s, h) = (L \o one) \o U
  <2>1. /\ [n \in DOMAIN s |-> IF s[n].score >= h.score THEN <<s[n]>> ELSE <<>>]
             = [n \in DOMAIN s |-> IF s[n] \in A THEN <<s[n]>> ELSE <<>>]
        /\ [n \in DOMAIN s |-> IF s[n].score < h.score THEN <<s[n]>> ELSE <<>>]
             = [n \in DOMAIN s |-> IF s[n] \in B THEN <<s[n]>> ELSE <<>>]
    BY <1>1
  <2> HIDE DEF A, B
  <2>2. QED
    BY <2>1 DEF Placed, Those, Kept
<1>3. \A g \in H : /\ g \in A \cup B
                   /\ g \in A => g.score >= h.score
                   /\ g \in B => h.score >= g.score
  BY DEF Rated
<1>4. \A g \in A, f \in B : g.score >= f.score
  BY DEF Rated
<1>5. A \subseteq H /\ B \subseteq H
  OBVIOUS
<1> HIDE DEF A, B
<1>6. /\ L \in Seq(H) /\ ToSet(L) = ToSet(s) \cap A
      /\ Apart(s) => Apart(L)
      /\ Sorted(s) => Sorted(L)
  <2>1. Seq(H \cap A) \subseteq Seq(H)
    BY SeqMonotonic
  <2>2. QED
    BY <2>1, KeptElements
<1>7. /\ U \in Seq(H) /\ ToSet(U) = ToSet(s) \cap B
      /\ Apart(s) => Apart(U)
      /\ Sorted(s) => Sorted(U)
  <2>1. Seq(H \cap B) \subseteq Seq(H)
    BY SeqMonotonic
  <2>2. QED
    BY <2>1, KeptElements
<1>8. one \in Seq(H) /\ ToSet(one) = {h} /\ Apart(one) /\ Sorted(one)
  <2>1. one \in Seq(H) /\ DOMAIN one = {1} /\ one[1] = h
    OBVIOUS
  <2>2. h.score >= h.score
    BY DEF Rated
  <2> HIDE DEF one
  <2>3. ToSet(one) = {h}
    BY <2>1 DEF ToSet
  <2>4. QED
    BY <2>1, <2>2, <2>3 DEF Apart, Sorted
<1> HIDE DEF L, U, one
<1>9. ToSet(s) \subseteq H
  BY <1>1 DEF ToSet
<1>10. /\ L \o one \in Seq(H)
       /\ ToSet(L \o one) = (ToSet(s) \cap A) \cup {h}
       /\ Sorted(s) => Sorted(L \o one)
       /\ Apart(s) /\ (\A g \in ToSet(s) : g.item # h.item) => Apart(L \o one)
  <2>1. \A g \in ToSet(L), f \in ToSet(one) : g.score >= f.score
    BY <1>3, <1>5, <1>6, <1>8
  <2>2. (\A g \in ToSet(s) : g.item # h.item)
          => \A g \in ToSet(L), f \in ToSet(one) : g.item # f.item
    BY <1>6, <1>8
  <2>3. QED
    BY <1>6, <1>8, <2>1, <2>2, JoinedElements
<1> DEFINE front == L \o one
<1> HIDE DEF front
<1>11. /\ front \o U \in Seq(H)
       /\ ToSet(front \o U) = ToSet(front) \cup ToSet(U)
       /\ Sorted(s) => Sorted(front \o U)
       /\ Apart(s) /\ (\A g \in ToSet(s) : g.item # h.item) => Apart(front \o U)
  <2>1. \A g \in ToSet(front), f \in ToSet(U) : g.score >= f.score
    <3>1. \A f \in ToSet(U) : f \in B /\ h.score >= f.score
      BY <1>3, <1>5, <1>7
    <3>2. ToSet(front) = (ToSet(s) \cap A) \cup {h}
      BY <1>10 DEF front
    <3>3. QED
      BY <1>4, <3>1, <3>2
  <2>2. Apart(s) /\ (\A g \in ToSet(s) : g.item # h.item)
          => \A g \in ToSet(front), f \in ToSet(U) : g.item # f.item
    <3>1. SUFFICES ASSUME Apart(s), \A g \in ToSet(s) : g.item # h.item,
                          NEW g \in ToSet(s) \cap A, NEW f \in ToSet(s) \cap B
                   PROVE  g.item # f.item
      BY <1>7, <1>10 DEF front
    <3>2. g # f
      <4>1. g.score >= h.score /\ f.score < h.score
        BY <1>9 DEF A, B
      <4>2. g.score \in Int /\ f.score \in Int /\ h.score \in Int
        BY <1>9 DEF Rated
      <4>3. QED
        BY <4>1, <4>2
    <3>3. PICK m \in DOMAIN s : s[m] = g
      BY DEF ToSet
    <3>4. PICK n \in DOMAIN s : s[n] = f
      BY DEF ToSet
    <3>5. QED
      BY <3>1, <3>2, <3>3, <3>4 DEF Apart
  <2>3. front \in Seq(H) /\ (Sorted(s) => Sorted(front))
        /\ (Apart(s) /\ (\A g \in ToSet(s) : g.item # h.item) => Apart(front))
    BY <1>10 DEF front
  <2>4. QED
    BY <1>7, <2>1, <2>2, <2>3, JoinedElements
<1>12. ToSet(front) \cup ToSet(U) = ToSet(s) \cup {h}
  <2>1. ToSet(front) = (ToSet(s) \cap A) \cup {h}
    BY <1>10 DEF front
  <2>2. QED
    BY <1>3, <1>7, <1>9, <2>1
<1>13. QED
  BY <1>2, <1>11, <1>12 DEF front

(* Sorting places one hit after the other.                                 *)
LEMMA RankedSteps ==
  ASSUME NEW R, NEW hits \in Seq(R)
  PROVE  \E K \in [0 .. Len(hits) -> Seq(R)] :
           /\ K[0] = <<>>
           /\ \A k \in 1 .. Len(hits) : K[k] = Placed(K[k - 1], hits[k])
           /\ Ranked(hits) = K[Len(hits)]
<1> DEFINE n == Len(hits)
           Computes(f) == f = [S \in SUBSET (1 .. n) |->
             IF S = {} THEN <<>> ELSE Placed(f[S \ {Max(S)}], hits[Max(S)])]
           F == CHOOSE f : Computes(f)
<1>1. n \in Nat /\ DOMAIN hits = 1 .. n /\ \A i \in 1 .. n : hits[i] \in R
  OBVIOUS
<1>2. Ranked(hits) = F[1 .. n]
  BY <1>1 DEF Ranked, FoldLeft, MapThenFoldSet
<1> HIDE DEF n
<1>3. \E g : Computes(g)
  <2> DEFINE G == [p \in Seq(R) \X R |-> Placed(p[1], p[2])]
  <2>1. G \in [Seq(R) \X R -> Seq(R)]
    BY PlacedType
  <2>2. \A a \in Seq(R), x \in R : G[<<a, x>>] = Placed(a, x)
    OBVIOUS
  <2> HIDE DEF G
  <2>3. PICK g \in [SUBSET (1 .. n) -> Seq(R)] : Folds(g, <<>>, G, hits, n)
    <3> DEFINE A == Seq(R)
               Q == Seq(R) \X R
               none == <<>>
    <3>1. none \in A /\ G \in [Q -> A] /\ \A a \in A, x \in R : <<a, x>> \in Q
      BY <2>1
    <3> HIDE DEF A, Q, none
    <3>2. \E g \in [SUBSET (1 .. n) -> A] : Folds(g, none, G, hits, n)
      BY <3>1, FoldExists DEF n
    <3>3. QED
      BY <3>2 DEF A, none
  <2>4. ASSUME NEW S \in SUBSET (1 .. n), S # {}
        PROVE  G[<<g[S \ {Max(S)}], hits[Max(S)]>>] = Placed(g[S \ {Max(S)}], hits[Max(S)])
    <3>1. Max(S) \in S
      BY <1>1, <2>4, MaxExists
    <3>2. g[S \ {Max(S)}] \in Seq(R) /\ hits[Max(S)] \in R
      BY <1>1, <3>1
    <3>3. QED
      BY <2>2, <3>2
  <2>5. \A S \in SUBSET (1 .. n) :
          g[S] = IF S = {} THEN <<>> ELSE Placed(g[S \ {Max(S)}], hits[Max(S)])
    BY <2>3, <2>4 DEF Folds
  <2>6. g = [S \in SUBSET (1 .. n) |-> g[S]]
    OBVIOUS
  <2>7. Computes(g)
    BY <2>5, <2>6
  <2>8. QED
    BY <2>7
<1>4. Computes(F)
  BY <1>3
<1> HIDE DEF F
<1>5. \A S \in SUBSET (1 .. n) :
        F[S] = IF S = {} THEN <<>> ELSE Placed(F[S \ {Max(S)}], hits[Max(S)])
  BY <1>4
<1> DEFINE K == [k \in 0 .. n |-> F[1 .. k]]
<1>6. K[0] = <<>>
  <2>1. 0 \in 0 .. n /\ 1 .. 0 = {} /\ {} \in SUBSET (1 .. n)
    BY <1>1
  <2>2. F[{}] = <<>>
    BY <1>5, <2>1
  <2>3. QED
    BY <2>1, <2>2
<1>7. ASSUME NEW k \in 1 .. n PROVE K[k] = Placed(K[k - 1], hits[k])
  <2>1. 1 .. k \in SUBSET (1 .. n) /\ k \in 0 .. n /\ k - 1 \in 0 .. n /\ k \in Nat \ {0}
    BY <1>1
  <2>2. Max(1 .. k) = k /\ (1 .. k) \ {k} = 1 .. k - 1 /\ 1 .. k # {}
    BY <2>1, LastOfInterval
  <2>3. F[1 .. k] = Placed(F[1 .. k - 1], hits[k])
    BY <1>5, <2>1, <2>2
  <2>4. QED
    BY <2>1, <2>3
<1>8. n \in 0 .. n /\ K[n] = F[1 .. n]
  BY <1>1
<1>9. \A k \in 0 .. n : K[k] \in Seq(R)
  <2> DEFINE T == {k \in 0 .. n : K[k] \in Seq(R)}
  <2>1. 0 \in T
    <3>1. 0 \in 0 .. n /\ <<>> \in Seq(R)
      BY <1>1
    <3> HIDE DEF K
    <3>2. QED
      BY <1>6, <3>1
  <2>2. ASSUME NEW k \in 0 .. n, k # 0, k - 1 \in T PROVE k \in T
    <3>1. k \in 1 .. n /\ hits[k] \in R /\ K[k - 1] \in Seq(R)
      BY <1>1, <2>2
    <3> HIDE DEF K
    <3>2. K[k] \in Seq(R)
      BY <1>7, <3>1, PlacedType
    <3>3. QED
      BY <3>2
  <2> HIDE DEF T
  <2>3. \A k \in 0 .. n : k \in T
    BY <1>1, <2>1, <2>2, UpTo
  <2>4. QED
    BY <2>3 DEF T
<1>10. K = [k \in 0 .. n |-> K[k]]
  OBVIOUS
<1> HIDE DEF K
<1>11. K \in [0 .. n -> Seq(R)]
  BY <1>9, <1>10
<1>12. Ranked(hits) = K[n]
  BY <1>2, <1>8
<1>13. QED
  BY <1>6, <1>7, <1>11, <1>12 DEF n

(* Sorting keeps the elements and their difference, and sorts.             *)
LEMMA RankedElements ==
  ASSUME NEW H, Rated(H), NEW s \in Seq(H)
  PROVE  /\ Ranked(s) \in Seq(H)
         /\ ToSet(Ranked(s)) = ToSet(s)
         /\ Sorted(Ranked(s))
         /\ Apart(s) => Apart(Ranked(s))
<1> DEFINE n == Len(s)
           upto(k) == {s[i] : i \in 1 .. k}
<1>1. n \in Nat /\ DOMAIN s = 1 .. n /\ \A i \in 1 .. n : s[i] \in H
  OBVIOUS
<1>2. PICK K \in [0 .. n -> Seq(H)] :
        /\ K[0] = <<>>
        /\ \A k \in 1 .. n : K[k] = Placed(K[k - 1], s[k])
        /\ Ranked(s) = K[n]
  BY RankedSteps
<1> HIDE DEF n
<1> DEFINE Good(k) == /\ ToSet(K[k]) = upto(k) /\ Sorted(K[k])
                      /\ Apart(s) => Apart(K[k])
           T == {k \in 0 .. n : Good(k)}
<1>3. 0 \in T
  <2>1. DOMAIN K[0] = {}
    BY <1>2
  <2>2. ToSet(K[0]) = {} /\ Sorted(K[0]) /\ Apart(K[0])
    BY <2>1 DEF ToSet, Sorted, Apart
  <2>3. upto(0) = {} /\ 0 \in 0 .. n
    BY <1>1
  <2> HIDE DEF upto
  <2>4. QED
    BY <2>2, <2>3
<1>4. ASSUME NEW k \in 0 .. n, k # 0, k - 1 \in T PROVE k \in T
  <2>1. k \in 1 .. n /\ k - 1 \in 0 .. n /\ s[k] \in H /\ K[k - 1] \in Seq(H)
    BY <1>1, <1>2, <1>4
  <2>2. K[k] = Placed(K[k - 1], s[k])
    BY <1>2, <2>1
  <2>3. upto(k - 1) \cup {s[k]} = upto(k)
    <3>1. \A i \in 1 .. k : i \in 1 .. k - 1 \/ i = k
      BY <1>1
    <3>2. \A i \in 1 .. k - 1 : i \in 1 .. k
      BY <1>1
    <3>3. k \in 1 .. k
      BY <1>1, <2>1
    <3>4. QED
      BY <3>1, <3>2, <3>3
  <2>4. ASSUME Apart(s), NEW g \in upto(k - 1) PROVE g.item # s[k].item
    <3>1. PICK i \in 1 .. k - 1 : g = s[i]
      BY <2>4
    <3>2. i \in 1 .. n /\ i # k
      BY <1>1, <2>1
    <3>3. QED
      BY <1>1, <2>1, <2>4, <3>1, <3>2 DEF Apart
  <2>5. Good(k - 1)
    BY <1>4
  <2> HIDE DEF upto
  <2> DEFINE before == K[k - 1]
             h == s[k]
  <2>6. before \in Seq(H) /\ h \in H
    BY <2>1
  <2> HIDE DEF before, h
  <2>7. /\ ToSet(Placed(before, h)) = ToSet(before) \cup {h}
        /\ Sorted(before) => Sorted(Placed(before, h))
        /\ Apart(before) /\ (\A g \in ToSet(before) : g.item # h.item) => Apart(Placed(before, h))
    BY <2>6, PlacedElements
  <2>8. Good(k)
    BY <2>2, <2>3, <2>4, <2>5, <2>7 DEF before, h
  <2>9. QED
    BY <2>8
<1>5. n \in T
  <2> HIDE DEF T
  <2>1. \A k \in 0 .. n : k \in T
    BY <1>1, <1>3, <1>4, UpTo
  <2>2. QED
    BY <1>1, <2>1
<1>6. upto(n) = ToSet(s)
  BY <1>1 DEF ToSet
<1>7. K[n] \in Seq(H)
  BY <1>1, <1>2
<1> HIDE DEF upto
<1>8. QED
  BY <1>2, <1>5, <1>6, <1>7

(* The first n elements.                                                   *)
LEMMA TopElements ==
  ASSUME NEW H, NEW s \in Seq(H), NEW n \in Nat
  PROVE  LET top == Top(s, n)
             m == IF n <= Len(s) THEN n ELSE Len(s)
         IN  /\ top \in Seq(H) /\ Len(top) = m
             /\ \A i \in 1 .. m : i \in 1 .. Len(s) /\ top[i] = s[i]
             /\ ToSet(top) \subseteq ToSet(s)
             /\ Apart(s) => Apart(top)
             /\ Sorted(s) => Sorted(top)
<1> DEFINE top == Top(s, n)
           len == Len(s)
           m == IF n <= len THEN n ELSE len
<1>1. len \in Nat /\ DOMAIN s = 1 .. len /\ \A i \in 1 .. len : s[i] \in H
  OBVIOUS
<1>2. m \in Nat /\ m <= len
  BY <1>1
<1>3. Min({n, len}) = m
  BY <1>1, OfTwo
<1>4. top = SubSeq(s, 1, m)
  BY <1>3 DEF Top
<1> HIDE DEF len, m, top
<1>5. \A i \in 1 .. m : i \in 1 .. len
  BY <1>1, <1>2
<1>6. top \in Seq(H) /\ Len(top) = m /\ \A i \in 1 .. m : top[i] = s[i]
  BY <1>1, <1>2, <1>4, <1>5, SubSeqProperties
<1>7. DOMAIN top = 1 .. m
  BY <1>6
<1>8. ToSet(top) \subseteq ToSet(s)
  BY <1>1, <1>5, <1>6, <1>7 DEF ToSet
<1>9. Apart(s) => Apart(top)
  BY <1>1, <1>5, <1>6, <1>7 DEF Apart
<1>10. Sorted(s) => Sorted(top)
  BY <1>1, <1>5, <1>6, <1>7 DEF Sorted
<1>11. QED
  BY <1>5, <1>6, <1>8, <1>9, <1>10 DEF len, m, top

-----------------------------------------------------------------------------
(* The best                                                                *)

(* A sequence of different items has as many elements as its set; a longer *)
(* one has more of them.                                                   *)
LEMMA ApartCount ==
  ASSUME NEW H, NEW s \in Seq(H), Apart(s)
  PROVE  IsFiniteSet(ToSet(s)) /\ Cardinality(ToSet(s)) = Len(s)
<1> DEFINE h == [n \in 1 .. Len(s) |-> s[n]]
<1>1. Len(s) \in Nat /\ DOMAIN s = 1 .. Len(s)
  OBVIOUS
<1>2. h \in [1 .. Len(s) -> ToSet(s)] /\ \A n \in 1 .. Len(s) : h[n] = s[n]
  BY <1>1 DEF ToSet
<1> HIDE DEF h
<1>3. \A m, n \in 1 .. Len(s) : h[m] = h[n] => m = n
  BY <1>1, <1>2 DEF Apart
<1>4. \A x \in ToSet(s) : \E n \in 1 .. Len(s) : h[n] = x
  BY <1>1, <1>2 DEF ToSet
<1>5. h \in Bijection(1 .. Len(s), ToSet(s))
  BY <1>2, <1>3, <1>4 DEF Bijection, Injection, Surjection, IsInjective
<1>6. QED
  BY <1>1, <1>5, FS_CountingElements, FS_NatSurjection DEF ExistsBijection, ExistsSurjection, Bijection

(* The best of a finite set are as many as asked for, or all there are.    *)
LEMMA BestCount ==
  ASSUME NEW C, IsFiniteSet(C), NEW limit \in Nat, NEW s, Best(s, C, limit)
  PROVE  /\ Len(s) = IF limit <= Cardinality(C) THEN limit ELSE Cardinality(C)
         /\ Cardinality(C) <= limit => ToSet(s) = C
<1>1. /\ s \in Seq(C) /\ Apart(s) /\ Len(s) <= limit
      /\ \A c \in C : c \in ToSet(s) \/ Len(s) = limit
  BY DEF Best
<1>2. IsFiniteSet(ToSet(s)) /\ Cardinality(ToSet(s)) = Len(s) /\ Len(s) \in Nat
  BY <1>1, ApartCount
<1>3. ToSet(s) \subseteq C
  BY <1>1 DEF ToSet
<1>4. /\ Cardinality(C) \in Nat /\ Len(s) <= Cardinality(C)
      /\ Len(s) = Cardinality(C) => ToSet(s) = C
  BY <1>2, <1>3, FS_Subset, FS_CardinalityType
<1>5. CASE Len(s) = limit
  BY <1>2, <1>4, <1>5
<1>6. CASE Len(s) # limit
  <2>1. ToSet(s) = C
    BY <1>1, <1>3, <1>6
  <2>2. QED
    BY <1>1, <1>2, <2>1
<1>7. QED
  BY <1>5, <1>6

(* The first of a sorted sequence are its best.                            *)
LEMMA TopIsBest ==
  ASSUME NEW C, Rated(C), NEW s \in Seq(C), Apart(s), Sorted(s), ToSet(s) = C, NEW n \in Nat
  PROVE  Best(Top(s, n), C, n)
<1> DEFINE top == Top(s, n)
           len == Len(s)
           m == IF n <= len THEN n ELSE len
<1>1. len \in Nat /\ DOMAIN s = 1 .. len
  OBVIOUS
<1>2. /\ top \in Seq(C) /\ Len(top) = m /\ Apart(top) /\ Sorted(top)
      /\ \A i \in 1 .. m : top[i] = s[i]
  BY TopElements
<1> HIDE DEF len, top
<1>3. m <= n /\ DOMAIN top = 1 .. m
  BY <1>1, <1>2
<1>4. ASSUME NEW c \in C, c \notin ToSet(top)
      PROVE  m = n /\ \A i \in 1 .. m : top[i].score >= c.score
  <2>1. PICK k \in 1 .. len : s[k] = c
    BY <1>1 DEF ToSet
  <2>2. k \notin 1 .. m
    BY <1>2, <1>3, <1>4, <2>1 DEF ToSet
  <2>3. m = n /\ \A i \in 1 .. m : i \in 1 .. len /\ i <= k
    BY <1>1, <2>2
  <2>4. QED
    BY <1>1, <1>2, <2>1, <2>3 DEF Sorted
<1>5. QED
  BY <1>2, <1>3, <1>4 DEF Best, top

(* And the first of the best are the best.                                 *)
LEMMA TopOfBest ==
  ASSUME NEW C, NEW limit \in Nat, NEW s, Best(s, C, limit), NEW n \in Nat, n <= limit
  PROVE  Best(Top(s, n), C, n)
<1> DEFINE top == Top(s, n)
           len == Len(s)
           m == IF n <= len THEN n ELSE len
<1>1. /\ s \in Seq(C) /\ Apart(s) /\ Sorted(s) /\ len <= limit
      /\ \A c \in C : \/ c \in ToSet(s)
                      \/ len = limit /\ \A i \in DOMAIN s : s[i].score >= c.score
  BY DEF Best
<1>2. len \in Nat /\ DOMAIN s = 1 .. len
  BY <1>1
<1>3. /\ top \in Seq(C) /\ Len(top) = m /\ Apart(top) /\ Sorted(top)
      /\ \A i \in 1 .. m : top[i] = s[i]
  BY <1>1, TopElements
<1> HIDE DEF len, top
<1>4. m <= n /\ DOMAIN top = 1 .. m
  BY <1>2, <1>3
<1>5. ASSUME NEW c \in C, c \notin ToSet(top)
      PROVE  m = n /\ \A i \in 1 .. m : top[i].score >= c.score
  <2>1. CASE c \in ToSet(s)
    <3>1. PICK k \in 1 .. len : s[k] = c
      BY <1>2, <2>1 DEF ToSet
    <3>2. k \notin 1 .. m
      BY <1>3, <1>4, <1>5, <3>1 DEF ToSet
    <3>3. m = n /\ \A i \in 1 .. m : i \in 1 .. len /\ i <= k
      BY <1>2, <3>2
    <3>4. QED
      BY <1>1, <1>2, <1>3, <3>1, <3>3 DEF Sorted
  <2>2. CASE c \notin ToSet(s)
    <3>1. len = limit /\ \A i \in 1 .. len : s[i].score >= c.score
      BY <1>1, <1>2, <2>2
    <3>2. m = n /\ \A i \in 1 .. m : i \in 1 .. len
      BY <1>2, <3>1
    <3>3. QED
      BY <1>3, <3>1, <3>2
  <2>3. QED
    BY <2>1, <2>2
<1>6. QED
  BY <1>3, <1>4, <1>5 DEF Best, top

(* A filter leaves fewer, unless it leaves all.                            *)
LEMMA KeptCount ==
  ASSUME NEW H, NEW s \in Seq(H), Apart(s), NEW A
  PROVE  /\ Len(Kept(s, A)) <= Len(s)
         /\ ToSet(s) \subseteq A => Len(Kept(s, A)) = Len(s)
<1> DEFINE F == Kept(s, A)
<1>1. F \in Seq(H \cap A) /\ ToSet(F) = ToSet(s) \cap A /\ Apart(F)
  BY KeptElements
<1> HIDE DEF F
<1>2. /\ IsFiniteSet(ToSet(F)) /\ Cardinality(ToSet(F)) = Len(F)
      /\ IsFiniteSet(ToSet(s)) /\ Cardinality(ToSet(s)) = Len(s)
  BY <1>1, ApartCount
<1>3. ToSet(F) \subseteq ToSet(s) /\ (ToSet(s) \subseteq A => ToSet(F) = ToSet(s))
  BY <1>1
<1>4. Cardinality(ToSet(F)) <= Cardinality(ToSet(s))
  BY <1>2, <1>3, FS_Subset
<1>5. QED
  BY <1>2, <1>3, <1>4 DEF F

(* A threshold leaves of the best the best of what it leaves.              *)
LEMMA KeptIsBest ==
  ASSUME NEW C, NEW limit \in Nat, NEW s, Best(s, C, limit), NEW A,
         \A g \in C \cap A, f \in C : f.score >= g.score => f \in A
  PROVE  Best(Kept(s, A), C \cap A, limit)
<1> DEFINE F == Kept(s, A)
           B == C \cap A
<1>1. /\ s \in Seq(C) /\ Apart(s) /\ Sorted(s) /\ Len(s) <= limit
      /\ \A c \in C : \/ c \in ToSet(s)
                      \/ Len(s) = limit /\ \A i \in DOMAIN s : s[i].score >= c.score
  BY DEF Best
<1>2. F \in Seq(B) /\ ToSet(F) = ToSet(s) \cap A /\ Apart(F) /\ Sorted(F)
  BY <1>1, KeptElements
<1>3. Len(F) <= Len(s) /\ (ToSet(s) \subseteq A => Len(F) = Len(s))
  BY <1>1, KeptCount
<1>4. Len(F) \in Nat /\ DOMAIN F = 1 .. Len(F) /\ Len(s) \in Nat /\ Len(F) <= limit
  <2>1. Len(F) \in Nat /\ DOMAIN F = 1 .. Len(F)
    <3> HIDE DEF F, B
    <3>1. QED
      BY <1>2
  <2>2. QED
    BY <1>1, <1>3, <2>1
<1>5. ASSUME NEW c \in B, c \notin ToSet(F)
      PROVE  Len(F) = limit /\ \A i \in DOMAIN F : F[i].score >= c.score
  <2>1. c \in C /\ c \in A /\ c \notin ToSet(s)
    BY <1>2, <1>5
  <2>2. Len(s) = limit /\ \A i \in DOMAIN s : s[i].score >= c.score
    BY <1>1, <2>1
  <2>3. \A g \in ToSet(s) : g \in C /\ g.score >= c.score
    BY <1>1, <2>2 DEF ToSet
  <2>4. ToSet(s) \subseteq A
    BY <2>1, <2>3
  <2>5. \A i \in DOMAIN F : F[i] \in ToSet(F)
    BY DEF ToSet
  <2> HIDE DEF F
  <2>6. QED
    BY <1>2, <1>3, <2>2, <2>3, <2>4, <2>5
<1> HIDE DEF F
<1>6. QED
  BY <1>2, <1>4, <1>5 DEF Best, F

(* Sorted and cut, different hits give the best of them.                   *)
LEMMA RankedIsBest ==
  ASSUME NEW H, Rated(H), NEW s \in Seq(H), Apart(s), NEW n \in Nat
  PROVE  Best(Top(Ranked(s), n), ToSet(s), n)
<1>1. ToSet(s) \subseteq H
  BY DEF ToSet
<1> DEFINE C == ToSet(s)
<1>2. Rated(C)
  BY <1>1 DEF Rated
<1>3. s \in Seq(C)
  <2>1. \A i \in DOMAIN s : s[i] \in C
    BY DEF ToSet
  <2>2. QED
    BY <2>1, OverElements
<1> HIDE DEF C
<1>4. Ranked(s) \in Seq(C) /\ ToSet(Ranked(s)) = ToSet(s) /\ Sorted(Ranked(s)) /\ Apart(Ranked(s))
  BY <1>2, <1>3, RankedElements
<1>5. ToSet(Ranked(s)) = C
  BY <1>4 DEF C
<1>6. Best(Top(Ranked(s), n), C, n)
  BY <1>2, <1>4, <1>5, TopIsBest
<1>7. QED
  BY <1>6 DEF C

-----------------------------------------------------------------------------
(* Searches                                                                *)

(* The hits that a query admits.                                           *)
Fitting(table, e, q) ==
  {h \in ToSet(Hits(table, e)) : InNamespaces(h, q) /\ InCategory(h, q) /\ Passes(h, q)}

(* Of a table without duplicates the hits are of different items.          *)
LEMMA HitsElements ==
  ASSUME NEW table \in Seq(RowSet), Keyed(table), NEW e
  PROVE  LET hits == Hits(table, e)
         IN  /\ hits \in Seq(ToSet(hits)) /\ Apart(hits) /\ Rated(ToSet(hits))
             /\ DOMAIN hits = DOMAIN table
             /\ \A n \in DOMAIN table : hits[n] = HitOn(table[n], e) /\ table[n] \in RowSet
<1> DEFINE hits == Hits(table, e)
<1>1. /\ Len(table) \in Nat /\ DOMAIN table = 1 .. Len(table)
      /\ \A n \in DOMAIN table : table[n] \in RowSet
  OBVIOUS
<1>2. DOMAIN hits = DOMAIN table /\ \A n \in DOMAIN table : hits[n] = HitOn(table[n], e)
  BY DEF Hits, HitOn
<1>3. hits \in Seq(HitsOn(RowSet, e))
  BY HitsType
<1> HIDE DEF hits
<1>4. \A n \in DOMAIN hits : hits[n] \in ToSet(hits)
  BY DEF ToSet
<1>5. hits \in Seq(ToSet(hits))
  BY <1>3, <1>4, OverElements
<1>6. Apart(hits)
  <2>1. \A n \in DOMAIN table : hits[n].item = table[n].item
    BY <1>2 DEF HitOn
  <2>2. QED
    BY <1>2, <2>1 DEF Apart, Keyed, RowId
<1>7. Rated(ToSet(hits))
  <2>1. ASSUME NEW r \in RowSet PROVE HitOn(r, e).score \in Int
    <3>1. Sheet[r.item].sim \in 0 .. 10
      BY SheetAssumption DEF RowSet, SheetType
    <3>2. QED
      BY <3>1 DEF HitOn, Similarity
  <2>2. \A n \in DOMAIN hits : hits[n].score \in Int
    BY <1>1, <1>2, <2>1
  <2>3. QED
    BY <2>2 DEF Rated, ToSet
<1>8. QED
  BY <1>1, <1>2, <1>5, <1>6, <1>7 DEF hits

(* Filtered first, they are the best of what the filter leaves.            *)
LEMMA FilteredIsBest ==
  ASSUME NEW H, Rated(H), NEW s \in Seq(H), Apart(s), NEW A, NEW n \in Nat
  PROVE  Best(Top(Ranked(Kept(s, A)), n), ToSet(s) \cap A, n)
<1> DEFINE F == Kept(s, A)
           B == H \cap A
<1>1. F \in Seq(B) /\ ToSet(F) = ToSet(s) \cap A /\ Apart(F)
  BY KeptElements
<1>2. Rated(B)
  BY DEF Rated
<1> HIDE DEF F, B
<1>3. Best(Top(Ranked(F), n), ToSet(F), n)
  BY <1>1, <1>2, RankedIsBest
<1>4. QED
  BY <1>1, <1>3 DEF F

(* Wherever a backend filters, cuts and compares with the threshold, what  *)
(* it finds in a table without duplicates is the best of what fits the     *)
(* query, as far as it knows of categories and namespaces.                 *)
LEMMA SearchIsBest ==
  ASSUME NEW table \in Seq(RowSet), Keyed(table), NEW e, NEW q, q.threshold \in Int,
         NEW limit \in Nat
  PROVE  LET fitting == Fitting(table, e, q)
         IN  /\ Best(MemorySkills(table, e, q, limit), fitting, limit)
             /\ Best(LanceSearch(table, e, q, limit), fitting, limit)
             /\ q.category = "any" => Best(MemorySearch(table, e, q, limit), fitting, limit)
             /\ q.category = "any" /\ q.namespaces = {} =>
                  /\ Best(QdrantSearch(table, e, q, limit), fitting, limit)
                  /\ Best(ChromaSearch(table, e, q, limit), fitting, limit)
                  /\ Best(PGSearch(table, e, q, limit), fitting, limit)
<1> DEFINE hits == Hits(table, e)
           H == ToSet(hits)
           In == {h \in H : InNamespaces(h, q)}
           Of == {h \in H : InCategory(h, q)}
           Pass == {h \in H : Passes(h, q)}
           fitting == Fitting(table, e, q)
<1>1. hits \in Seq(H) /\ Apart(hits) /\ Rated(H)
  BY HitsElements
<1>2. fitting = H \cap (In \cap Of \cap Pass)
  BY DEF Fitting
<1>3. q.category = "any" => Of = H
  BY DEF InCategory
<1>4. q.namespaces = {} => In = H
  BY DEF InNamespaces
<1>5. \A n \in DOMAIN hits : hits[n] \in H
  BY DEF ToSet
<1>6. \A g \in H, f \in H : g \in Pass /\ f.score >= g.score => f \in Pass
  BY <1>1 DEF Rated, Passes
<1>7. Best(MemorySkills(table, e, q, limit), fitting, limit)
  <2> DEFINE A == In \cap Of \cap Pass
  <2>1. [n \in DOMAIN hits |-> IF InNamespaces(hits[n], q) /\ InCategory(hits[n], q)
                                    /\ Passes(hits[n], q) THEN <<hits[n]>> ELSE <<>>]
          = [n \in DOMAIN hits |-> IF hits[n] \in A THEN <<hits[n]>> ELSE <<>>]
    BY <1>5
  <2>2. MemorySkills(table, e, q, limit) = Top(Ranked(Kept(hits, A)), limit)
    <3> HIDE DEF A
    <3>1. QED
      BY <2>1 DEF MemorySkills, Those, Kept
  <2>3. fitting = H \cap A
    BY <1>2
  <2> HIDE DEF A, hits, fitting, H
  <2>4. Best(Top(Ranked(Kept(hits, A)), limit), ToSet(hits) \cap A, limit)
    BY <1>1, FilteredIsBest
  <2>5. QED
    BY <2>2, <2>3, <2>4 DEF H
<1>8. ASSUME q.category = "any"
      PROVE  Best(MemorySearch(table, e, q, limit), fitting, limit)
  <2> DEFINE A == In \cap Pass
  <2>1. [n \in DOMAIN hits |-> IF InNamespaces(hits[n], q) /\ Passes(hits[n], q)
                                 THEN <<hits[n]>> ELSE <<>>]
          = [n \in DOMAIN hits |-> IF hits[n] \in A THEN <<hits[n]>> ELSE <<>>]
    BY <1>5
  <2>2. MemorySearch(table, e, q, limit) = Top(Ranked(Kept(hits, A)), limit)
    <3> HIDE DEF A
    <3>1. QED
      BY <2>1 DEF MemorySearch, Those, Kept
  <2>3. fitting = H \cap A
    BY <1>2, <1>3, <1>8
  <2> HIDE DEF A, hits, fitting, H
  <2>4. Best(Top(Ranked(Kept(hits, A)), limit), ToSet(hits) \cap A, limit)
    BY <1>1, FilteredIsBest
  <2>5. QED
    BY <2>2, <2>3, <2>4 DEF H
<1>9. Best(LanceSearch(table, e, q, limit), fitting, limit)
  <2> DEFINE A == In \cap Of
             fetched == LanceFetch(table, e, q, limit)
  <2>1. [n \in DOMAIN hits |-> IF InNamespaces(hits[n], q) /\ InCategory(hits[n], q)
                                 THEN <<hits[n]>> ELSE <<>>]
          = [n \in DOMAIN hits |-> IF hits[n] \in A THEN <<hits[n]>> ELSE <<>>]
    BY <1>5
  <2>2. fetched = Top(Ranked(Kept(hits, A)), 2 * limit)
    <3> HIDE DEF A
    <3>1. QED
      BY <2>1 DEF LanceFetch, Those, Kept
  <2>3. Best(fetched, H \cap A, 2 * limit)
    <3> DEFINE twice == 2 * limit
    <3>1. twice \in Nat
      OBVIOUS
    <3> HIDE DEF A, hits, H, twice, fetched
    <3>2. Best(Top(Ranked(Kept(hits, A)), twice), ToSet(hits) \cap A, twice)
      BY <1>1, <3>1, FilteredIsBest
    <3>3. QED
      BY <2>2, <3>2 DEF twice, H
  <2> DEFINE C == H \cap A
  <2>4. \A g \in C \cap Pass, f \in C : f.score >= g.score => f \in Pass
    BY <1>6
  <2>5. fetched \in Seq(C)
    BY <2>3 DEF Best
  <2>6. [n \in DOMAIN fetched |-> IF Passes(fetched[n], q) THEN <<fetched[n]>> ELSE <<>>]
          = [n \in DOMAIN fetched |-> IF fetched[n] \in Pass THEN <<fetched[n]>> ELSE <<>>]
    <3>1. \A n \in DOMAIN fetched : fetched[n] \in H
      <4> HIDE DEF fetched, A, H
      <4>1. QED
        BY <2>5
    <3>2. QED
      BY <3>1
  <2>7. LanceSearch(table, e, q, limit) = Top(Kept(fetched, Pass), limit)
    <3> HIDE DEF Pass
    <3>1. QED
      BY <2>6 DEF LanceSearch, Those, Kept
  <2>8. C \cap Pass = fitting
    BY <1>2
  <2> DEFINE twice == 2 * limit
             passed == Kept(fetched, Pass)
  <2>9. twice \in Nat /\ limit <= twice
    OBVIOUS
  <2>10. Best(fetched, C, twice)
    BY <2>3
  <2> HIDE DEF C, Pass, fetched, fitting, twice, passed
  <2>11. Best(passed, C \cap Pass, twice)
    BY <2>4, <2>9, <2>10, KeptIsBest DEF passed
  <2>12. Best(Top(passed, limit), C \cap Pass, limit)
    BY <2>9, <2>11, TopOfBest
  <2>13. QED
    BY <2>7, <2>8, <2>12 DEF passed
<1>10. ASSUME q.category = "any", q.namespaces = {}
       PROVE  /\ Best(QdrantSearch(table, e, q, limit), fitting, limit)
              /\ Best(ChromaSearch(table, e, q, limit), fitting, limit)
              /\ Best(PGSearch(table, e, q, limit), fitting, limit)
  <2>1. fitting = H \cap Pass
    BY <1>2, <1>3, <1>4, <1>10
  <2>2. QdrantSearch(table, e, q, limit) = Top(Ranked(Kept(hits, Pass)), limit)
    <3>1. [n \in DOMAIN hits |-> IF Passes(hits[n], q) THEN <<hits[n]>> ELSE <<>>]
            = [n \in DOMAIN hits |-> IF hits[n] \in Pass THEN <<hits[n]>> ELSE <<>>]
      BY <1>5
    <3> HIDE DEF Pass
    <3>2. QED
      BY <3>1 DEF QdrantSearch, Those, Kept
  <2> DEFINE top == Top(Ranked(hits), limit)
  <2>3. Best(top, H, limit)
    <3> HIDE DEF hits
    <3>1. QED
      BY <1>1, RankedIsBest
  <2>4. [n \in DOMAIN top |-> IF Passes(top[n], q) THEN <<top[n]>> ELSE <<>>]
          = [n \in DOMAIN top |-> IF top[n] \in Pass THEN <<top[n]>> ELSE <<>>]
    <3>1. \A n \in DOMAIN top : top[n] \in H
      <4>1. top \in Seq(H)
        BY <2>3 DEF Best
      <4> HIDE DEF top, H
      <4>2. QED
        BY <4>1
    <3>2. QED
      BY <3>1
  <2>5. /\ ChromaSearch(table, e, q, limit) = Kept(top, Pass)
        /\ PGSearch(table, e, q, limit) = Kept(top, Pass)
    <3> HIDE DEF Pass
    <3>1. QED
      BY <2>4 DEF ChromaSearch, PGSearch, Those, Kept
  <2>6. \A g \in H \cap Pass, f \in H : f.score >= g.score => f \in Pass
    BY <1>6
  <2> HIDE DEF hits, H, Pass, top, fitting
  <2>7. Best(Top(Ranked(Kept(hits, Pass)), limit), ToSet(hits) \cap Pass, limit)
    BY <1>1, FilteredIsBest
  <2>8. Best(Kept(top, Pass), H \cap Pass, limit)
    BY <2>3, <2>6, KeptIsBest
  <2>9. QED
    BY <2>1, <2>2, <2>5, <2>7, <2>8 DEF H
<1>11. QED
  BY <1>7, <1>8, <1>9, <1>10

-----------------------------------------------------------------------------
(* What a task asks for, by its record                                     *)

(* The query a task's request makes, and the one its search is made with.  *)
Wish(x) ==
  IF x.request.does = "retrieve" THEN ToolQuery(x.request.query)
  ELSE Defaulted(x.request.query, 0)
SearchWish(x) ==
  IF x.request.does = "servers" THEN retrieve_mcp_servers(x.request.query) ELSE Wish(x)

(* A table without duplicates tells its rows apart.                        *)
LEMMA DistinctKeyed ==
  ASSUME NEW T \in Seq(RowSet), Distinct(T)
  PROVE  Keyed(T)
<1> SUFFICES ASSUME NEW m \in DOMAIN T, NEW n \in DOMAIN T, RowId(T[m]) = RowId(T[n]), m # n
             PROVE  FALSE
  BY DEF Keyed
<1> DEFINE id == RowId(T[m])
           W == {k \in DOMAIN T : RowId(T[k]) = id}
           kept == [k \in DOMAIN T |-> IF k \in W THEN <<T[k]>> ELSE <<>>]
           F == FlattenSeq(kept)
<1>1. InTable(T, id) = F
  <2>1. kept = [k \in DOMAIN T |-> IF RowId(T[k]) = id THEN <<T[k]>> ELSE <<>>]
    OBVIOUS
  <2>2. QED
    BY <2>1 DEF InTable, Those
<1>2. F \in Seq(RowSet) /\ \E h : Picks(F, h, T, W)
  <2>1. kept = [k \in DOMAIN T |-> IF k \in W THEN <<T[k]>> ELSE <<>>] /\ W \in SUBSET DOMAIN T
    OBVIOUS
  <2> HIDE DEF W, kept
  <2>2. QED
    BY <2>1, KeptPlaces
<1>3. m \in W /\ n \in W
  OBVIOUS
<1>4. T[m] \in RowSet
  OBVIOUS
<1>5. id \in Ids
  BY <1>4 DEF RowSet, RowId, Ids
<1>6. Len(F) <= 1
  BY <1>1, <1>5 DEF Distinct
<1> HIDE DEF F, W, kept, id
<1>7. PICK h : Picks(F, h, T, W)
  BY <1>2
<1>8. PICK i \in DOMAIN F, j \in DOMAIN F : h[i] = m /\ h[j] = n
  BY <1>3, <1>7 DEF Picks
<1>9. Len(F) \in Nat /\ DOMAIN F = 1 .. Len(F) /\ i # j
  BY <1>2, <1>8
<1>10. QED
  BY <1>6, <1>8, <1>9

(* What a query leaves as it was asked, what it sets, and how many tools   *)
(* the way of asking gives of those the router chooses.                    *)
LEMMA WishShape ==
  ASSUME NEW x, x.request.query \in QueryType,
         x.request.does = "retrieve" \/ x.request.query.through = "retrieve"
  PROVE  LET q == Wish(x)
             asked == x.request.query
             most == MostGiven(asked)
         IN  /\ q.limit \in Nat \ {0} /\ q.threshold \in Int /\ q.diversity \in 0 .. 10
             /\ [q EXCEPT !.diversity = 0].diversity = 0 /\ q.mentions \in Nat
             /\ q.category = asked.category /\ q.namespaces = asked.namespaces
             /\ q.through = asked.through
             /\ most \in Nat \ {0} /\ most <= q.limit
             /\ asked.through = "search_and_execute" => most = 1
             /\ asked.through = "bridge" =>
                  asked.limit \in Nat /\ most = IF asked.limit <= q.limit THEN asked.limit ELSE q.limit
             /\ asked.through \notin {"search_and_execute", "bridge"} => most = q.limit
<1> DEFINE asked == x.request.query
           q == Wish(x)
<1>1. /\ asked = [f \in DOMAIN asked |-> asked[f]]
      /\ {"through", "limit", "namespaces", "category", "threshold", "diversity", "mentions"}
           \subseteq DOMAIN asked
      /\ asked.mentions \in Nat
      /\ asked.limit \in Nat \ {0} /\ asked.threshold \in 0 .. 10 \cup {Unset}
      /\ asked.diversity \in 0 .. 10
      /\ asked.through \in {"retrieve", "preview", "retrieve_tools", "search_and_execute", "bridge"}
  BY DEF QueryType
<1> HIDE DEF asked
<1>2. asked.threshold \in Int
  BY <1>1 DEF Unset
<1>3. ASSUME NEW d \in {0, 5}, q = Defaulted(asked, d)
      PROVE  /\ q.limit = asked.limit /\ q.threshold \in Int /\ q.diversity = asked.diversity
             /\ [q EXCEPT !.diversity = 0].diversity = 0 /\ q.mentions \in Nat
             /\ q.category = asked.category /\ q.namespaces = asked.namespaces
             /\ q.through = asked.through
  <2>1. q = [asked EXCEPT !.threshold = IF asked.threshold = Unset THEN d ELSE asked.threshold]
    BY <1>3 DEF Defaulted
  <2> HIDE DEF q
  <2>2. QED
    BY <1>1, <1>2, <1>3, <2>1
<1>4. ASSUME q = _retrieve(asked)
      PROVE  /\ q.limit \in Nat \ {0} /\ q.threshold \in Int /\ q.diversity = asked.diversity
             /\ q.limit = _retrieve(asked).limit
             /\ [q EXCEPT !.diversity = 0].diversity = 0 /\ q.mentions \in Nat
             /\ q.category = asked.category /\ q.namespaces = asked.namespaces
             /\ q.through = asked.through
  <2> DEFINE n == IF _parse_threshold(asked.cutoff).relative
                    THEN Min({MostTools, Widening * asked.limit}) ELSE asked.limit
  <2>1. q = [asked EXCEPT !.threshold = 0, !.limit = n]
    BY <1>4 DEF _retrieve
  <2>2. n \in Nat \ {0}
    <3> DEFINE a == Widening * asked.limit
    <3>1. MostTools \in Nat \ {0} /\ a \in Nat \ {0}
      BY <1>1, QueryAssumption
    <3> HIDE DEF a
    <3>2. Min({MostTools, a}) = IF MostTools <= a THEN MostTools ELSE a
      BY <3>1, OfTwo
    <3>3. Min({MostTools, a}) \in Nat \ {0}
      BY <3>1, <3>2
    <3>4. QED
      BY <1>1, <3>3 DEF a
  <2> HIDE DEF q, n
  <2>3. QED
    BY <1>1, <1>4, <2>1, <2>2
<1>5. \/ \E d \in {0, 5} : q = Defaulted(asked, d)
      \/ asked.through = "bridge" /\ x.request.does = "retrieve" /\ q = _retrieve(asked)
  BY <1>1 DEF Wish, ToolQuery, retrieve, preview, retrieve_tools, search_and_execute, asked
<1> HIDE DEF q
<1>6. /\ q.limit \in Nat \ {0} /\ q.threshold \in Int /\ q.diversity \in 0 .. 10
      /\ [q EXCEPT !.diversity = 0].diversity = 0 /\ q.mentions \in Nat
      /\ q.category = asked.category /\ q.namespaces = asked.namespaces
      /\ q.through = asked.through
      /\ q.limit = asked.limit \/ (asked.through = "bridge" /\ q.limit = _retrieve(asked).limit)
  BY <1>1, <1>3, <1>4, <1>5
<1> DEFINE most == MostGiven(asked)
<1>7. /\ asked.through = "search_and_execute" => most = 1
      /\ asked.through = "bridge" => most = Min({asked.limit, _retrieve(asked).limit})
      /\ asked.through \notin {"search_and_execute", "bridge"} => most = asked.limit
  BY <1>1 DEF MostGiven
<1>8. asked.through = "bridge" => q.limit = _retrieve(asked).limit
  <2>1. asked.through = "bridge" => x.request.does = "retrieve"
    BY DEF asked
  <2>2. QED
    BY <2>1, <1>1 DEF Wish, ToolQuery, q, asked
<1>9. asked.limit \in Nat \ {0}
  BY <1>1
<1> HIDE DEF most
<1>10. asked.through = "bridge" =>
         most = IF asked.limit <= q.limit THEN asked.limit ELSE q.limit
  <2> DEFINE a == asked.limit
             b == q.limit
  <2>1. a \in Int /\ b \in Int
    BY <1>6, <1>9
  <2> HIDE DEF a, b
  <2>2. Min({a, b}) = IF a <= b THEN a ELSE b
    BY <2>1, OfTwo
  <2>3. QED
    BY <1>7, <1>8, <2>2 DEF a, b
<1>11. most \in Nat \ {0} /\ most <= q.limit
  BY <1>6, <1>7, <1>9, <1>10
<1>12. QED
  BY <1>6, <1>7, <1>9, <1>10, <1>11 DEF asked, q, most

HitSet == [item : Items, made : Embedders, score : Int]

(* What the search of a task fits, as hits; those of them that the request *)
(* allows; and these with the scores that count in the end.                *)
Fits(x, e) == Fitting(x.seen, e, SearchWish(x))
Eligible(x, e, live) ==
  {h \in Fits(x, e) :
     CASE x.request.does = "retrieve" -> Allowed(h.item, Wish(x), live)
       [] x.request.does = "servers"  -> InCategory(h, Wish(x))
       [] x.request.does = "skills"   -> TRUE}
Valued(x, h, live) ==
  IF x.request.does = "retrieve"
    THEN [h EXCEPT !.score = FinalScore(h, Wish(x), x.intent, live)] ELSE h
Offers(x, e, live) == {Valued(x, h, live) : h \in Eligible(x, e, live)}

(* Whether the store gave all that fits.                                   *)
Whole(x, e) ==
  LET n == Cardinality(Fits(x, e))
  IN  CASE x.request.does = "retrieve" -> n <= OverFetch * Wish(x).limit
        [] x.request.does = "servers"  -> n <= 2 * Wish(x).limit
        [] x.request.does = "skills"   -> TRUE

(* What the bridge's threshold leaves.                                     *)
Bridged(x) == x.request.does = "retrieve" /\ x.request.query.through = "bridge"
Greatest(H) == Max({0} \cup {h.score : h \in H})
Left(x, e, live) ==
  {h \in Offers(x, e, live) :
     Bridged(x) => Within(h.score, Greatest(Offers(x, e, live)), x.request.query)}

(* The items before a place, what a hit is worth after them, and that each *)
(* hit of an answer is worth the most after those before it.               *)
Before(A, n) == {A[m].item : m \in 1 .. n - 1}
Worthy(x, h, before) ==
  IF x.request.does # "retrieve" THEN h.score
  ELSE Marginal(h, Max({0} \cup {Near[h.item, j] : j \in before}),
                IF before = {} THEN [Wish(x) EXCEPT !.diversity = 0] ELSE Wish(x))
Foremost(x, A, S) ==
  \A n \in DOMAIN A, h \in S :
    h.item \notin Before(A, n) => Worthy(x, h, Before(A, n)) <= Worthy(x, A[n], Before(A, n))

(* An answer by these: allowed, and the best there is.                     *)
Reply(x, e, live) ==
  LET q == Wish(x)
      most == MostGiven(x.request.query)
      left == Left(x, e, live)
  IN  /\ x.hits \in Seq(HitSet) /\ Apart(x.hits)
      /\ \A n \in DOMAIN x.hits : \E h \in Eligible(x, e, live) : h.item = x.hits[n].item
      /\ Len(x.hits) <= most
      /\ Whole(x, e) /\ (q.through = "bridge" => q.diversity = 0 /\ ~q.rerank) =>
           /\ Len(x.hits) = IF most <= Cardinality(left) THEN most ELSE Cardinality(left)
           /\ q.rerank \/ (x.hits \in Seq(left) /\ Foremost(x, x.hits, left))

(* A greatest element is the greatest.                                     *)
LEMMA MaxIs ==
  ASSUME NEW S \in SUBSET Int, NEW m \in S, \A y \in S : m >= y
  PROVE  Max(S) = m
<1>1. \A n \in S : (\A y \in S : n >= y) => n = m
  OBVIOUS
<1>2. (CHOOSE n \in S : \A y \in S : n >= y) = m
  BY <1>1
<1>3. QED
  BY <1>2 DEF Max

(* How near an item is to the nearest of some.                             *)
LEMMA NearestIs ==
  ASSUME NEW i \in Items, NEW B \in SUBSET Items
  PROVE  LET S == {0} \cup {Near[i, j] : j \in B}
         IN  /\ Max(S) \in 0 .. 10 /\ Max(S) \in S /\ \A y \in S : Max(S) >= y
             /\ B = {} => Max(S) = 0
<1> DEFINE S == {0} \cup {Near[i, j] : j \in B}
           T == {n \in 0 .. 10 : 10 - n \in S}
<1>1. \A j \in B : Near[i, j] \in 0 .. 10
  BY RouterAssumption
<1>2. S \subseteq 0 .. 10 /\ 0 \in S
  <2>1. ASSUME NEW y \in S PROVE y \in 0 .. 10
    <3>1. CASE y = 0
      BY <3>1
    <3>2. CASE \E j \in B : y = Near[i, j]
      BY <1>1, <3>2
    <3>3. QED
      BY <3>1, <3>2
  <2>2. QED
    BY <2>1
<1> HIDE DEF S
<1>3. T \in SUBSET Nat /\ 10 \in T
  BY <1>2
<1>4. PICK n \in T : \A m \in T : n <= m
  BY <1>3, LeastNatural
<1>5. 10 - n \in S /\ \A y \in S : 10 - n >= y
  <2>1. n \in 0 .. 10 /\ 10 - n \in S
    OBVIOUS
  <2>2. ASSUME NEW y \in S PROVE 10 - n >= y
    <3>1. 10 - y \in 0 .. 10 /\ 10 - (10 - y) = y
      BY <1>2
    <3>2. 10 - y \in T
      BY <3>1
    <3>3. QED
      BY <1>4, <2>1, <3>1, <3>2
  <2>3. QED
    BY <2>1, <2>2
<1>6. S \in SUBSET Int
  BY <1>2
<1> DEFINE m == 10 - n
<1>7. m \in S /\ \A y \in S : m >= y
  BY <1>5
<1> HIDE DEF m
<1>8. Max(S) = m
  BY <1>6, <1>7, MaxIs
<1>9. B = {} => S = {0}
  BY DEF S
<1>10. QED
  BY <1>2, <1>7, <1>8, <1>9 DEF S

(* What a search fits is of the table's rows, each of another item.        *)
LEMMA FitHits ==
  ASSUME NEW x, x.seen \in Seq(RowSet), Keyed(x.seen), NEW e \in Embedders
  PROVE  LET fits == Fits(x, e)
         IN  /\ fits \subseteq HitSet /\ IsFiniteSet(fits)
             /\ \A h \in fits : \E r \in ToSet(x.seen) : h = HitOn(r, e)
             /\ \A g, h \in fits : g.item = h.item => g = h
             /\ \A r \in ToSet(x.seen) :
                  HitOn(r, e) \in fits <=> LET h == HitOn(r, e)
                                               q == SearchWish(x)
                                           IN  InNamespaces(h, q) /\ InCategory(h, q) /\ Passes(h, q)
<1> DEFINE T == x.seen
           hits == Hits(T, e)
           q == SearchWish(x)
           Asks(h) == InNamespaces(h, q) /\ InCategory(h, q) /\ Passes(h, q)
           fits == Fits(x, e)
<1>1. /\ hits \in Seq(ToSet(hits)) /\ Apart(hits) /\ Rated(ToSet(hits))
      /\ DOMAIN hits = DOMAIN T
      /\ \A n \in DOMAIN T : hits[n] = HitOn(T[n], e) /\ T[n] \in RowSet
  BY HitsElements
<1>2. fits = {h \in ToSet(hits) : Asks(h)}
  BY DEF Fits, Fitting
<1>3. ToSet(T) = {T[n] : n \in DOMAIN T} /\ ToSet(hits) = {hits[n] : n \in DOMAIN hits}
  BY DEF ToSet
<1>4. IsFiniteSet(fits)
  <2>1. IsFiniteSet(ToSet(hits))
    <3> HIDE DEF hits
    <3>1. QED
      BY <1>1, ApartCount
  <2>2. QED
    BY <1>2, <2>1, FS_Subset
<1> HIDE DEF T, hits, q, Asks
<1>5. \A h \in ToSet(hits) : h \in HitSet
  <2>1. ASSUME NEW n \in DOMAIN T PROVE hits[n] \in HitSet
    <3>1. hits[n] \in ToSet(hits) /\ hits[n] = HitOn(T[n], e) /\ T[n] \in RowSet
      BY <1>1, <1>3, <2>1
    <3>2. hits[n].score \in Int
      BY <1>1, <3>1 DEF Rated
    <3>3. QED
      BY <3>1, <3>2 DEF HitSet, HitOn, RowSet
  <2>2. QED
    BY <1>1, <1>3, <2>1
<1>6. \A h \in ToSet(hits) : \E r \in ToSet(T) : h = HitOn(r, e)
  BY <1>1, <1>3
<1>7. \A r \in ToSet(T) : HitOn(r, e) \in ToSet(hits)
  BY <1>1, <1>3
<1>8. \A g, h \in ToSet(hits) : g.item = h.item => g = h
  BY <1>1, <1>3 DEF Apart
<1> HIDE DEF fits
<1>9. \A r \in ToSet(T) : HitOn(r, e) \in fits <=> Asks(HitOn(r, e))
  BY <1>2, <1>7
<1>10. /\ fits \subseteq HitSet
       /\ \A h \in fits : \E r \in ToSet(T) : h = HitOn(r, e)
       /\ \A g, h \in fits : g.item = h.item => g = h
  BY <1>2, <1>5, <1>6, <1>8
<1>11. QED
  BY <1>4, <1>9, <1>10 DEF T, fits, Asks, q

(* The final score is a number, and not negative.                          *)
LEMMA FinalScoreType ==
  ASSUME NEW h, h.item \in Items, h.score \in Int, NEW q, q.mentions \in Nat,
         NEW intent, NEW live
  PROVE  FinalScore(h, q, intent, live) \in Nat
<1> DEFINE i == h.item
           a == (IF Sheet[i].name \in q.used THEN 50 ELSE 0) + 20 * q.mentions
           base == 60 * h.score + (IF intent /\ Sheet[i].fits THEN 150 ELSE 0)
                     + Relevance(i, q) + (IF live /\ Sheet[i].broken THEN 0 ELSE 100) + 50
           b == base - Penalties(i, q)
<1>1. a \in Int
  OBVIOUS
<1>2. Relevance(i, q) = Min({100, a})
  BY DEF Relevance
<1>3. Min({100, a}) = IF 100 <= a THEN 100 ELSE a
  <2> HIDE DEF a
  <2>1. QED
    BY <1>1, OfTwo
<1>4. Relevance(i, q) \in Int
  BY <1>1, <1>2, <1>3
<1>5. Penalties(i, q) \in Int
  BY DEF Penalties
<1>6. base \in Int
  <2>1. /\ 60 * h.score \in Int
        /\ (IF intent /\ Sheet[i].fits THEN 150 ELSE 0) \in Int
        /\ (IF live /\ Sheet[i].broken THEN 0 ELSE 100) \in Int
    OBVIOUS
  <2>2. \A c, d, f, g \in Int : c + d + f + g + 50 \in Int
    OBVIOUS
  <2>3. QED
    BY <1>4, <2>1, <2>2
<1>7. b \in Int
  BY <1>5, <1>6
<1>8. FinalScore(h, q, intent, live) = Max({0, b})
  BY DEF FinalScore
<1> HIDE DEF b
<1>9. Max({0, b}) = IF 0 >= b THEN 0 ELSE b
  <2> DEFINE zero == 0
  <2>1. zero \in Int
    OBVIOUS
  <2> HIDE DEF zero
  <2>2. Max({zero, b}) = IF zero >= b THEN zero ELSE b
    BY <1>7, <2>1, OfTwo
  <2>3. QED
    BY <2>2 DEF zero
<1>10. QED
  BY <1>7, <1>8, <1>9

(* A hit by another score is the same item.                                *)
LEMMA Rescored ==
  ASSUME NEW h \in HitSet, NEW k \in Int
  PROVE  LET g == [h EXCEPT !.score = k]
         IN  g \in HitSet /\ g.item = h.item /\ g.made = h.made /\ g.score = k
BY DEF HitSet

(* A record of a task that asks for something, and the table it has seen.  *)
Asking(x) ==
  /\ x.seen \in Seq(RowSet) /\ Keyed(x.seen)
  /\ x.request.does \in {"retrieve", "servers", "skills"} /\ x.request.query \in QueryType
  /\ x.request.does = "retrieve" \/ x.request.query.through = "retrieve"
  /\ x.request.does = "retrieve" => x.request.query.category = "any"

(* The value of a hit changes no more than its score.                      *)
LEMMA ValuedIs ==
  ASSUME NEW x, Asking(x), NEW h \in HitSet, NEW live
  PROVE  LET o == Valued(x, h, live)
         IN  /\ o \in HitSet /\ o.item = h.item
             /\ IF x.request.does = "retrieve"
                  THEN o.score = FinalScore(h, Wish(x), x.intent, live) /\ o.score \in Nat
                  ELSE o = h
<1>1. Wish(x).mentions \in Nat
  BY WishShape DEF Asking
<1>2. h.item \in Items /\ h.score \in Int
  BY DEF HitSet
<1> DEFINE k == FinalScore(h, Wish(x), x.intent, live)
<1>3. k \in Nat
  BY <1>1, <1>2, FinalScoreType
<1> HIDE DEF k
<1>4. CASE x.request.does = "retrieve"
  <2>1. Valued(x, h, live) = [h EXCEPT !.score = k]
    BY <1>4 DEF Valued, k
  <2>2. QED
    BY <1>3, <1>4, <2>1, Rescored DEF k
<1>5. CASE x.request.does # "retrieve"
  BY <1>5 DEF Valued
<1>6. QED
  BY <1>4, <1>5

(* What may be offered: finitely many hits, each of another item.          *)
LEMMA OfferHits ==
  ASSUME NEW x, Asking(x), NEW e \in Embedders, NEW live
  PROVE  LET eligible == Eligible(x, e, live)
             offers == Offers(x, e, live)
         IN  /\ eligible \subseteq HitSet /\ offers \subseteq HitSet /\ IsFiniteSet(offers)
             /\ \A h \in eligible : Valued(x, h, live) \in offers
             /\ \A o \in offers : \E h \in eligible :
                  o = Valued(x, h, live) /\ o.item = h.item
             /\ \A g, h \in eligible : g.item = h.item => g = h
             /\ \A g, h \in offers : g.item = h.item => g = h
             /\ x.request.does = "retrieve" => \A o \in offers : o.score \in Nat
<1> DEFINE fits == Fits(x, e)
           eligible == Eligible(x, e, live)
           offers == Offers(x, e, live)
           f == [h \in eligible |-> Valued(x, h, live)]
<1>1. x.seen \in Seq(RowSet) /\ Keyed(x.seen)
  BY DEF Asking
<1>2. fits \subseteq HitSet /\ IsFiniteSet(fits) /\ \A g, h \in fits : g.item = h.item => g = h
  BY <1>1, FitHits
<1>3. eligible \subseteq fits
  BY DEF Eligible
<1>4. offers = {Valued(x, h, live) : h \in eligible}
  BY DEF Offers
<1> HIDE DEF fits, eligible, offers
<1>5. \A h \in eligible :
        /\ Valued(x, h, live) \in HitSet /\ Valued(x, h, live).item = h.item
        /\ x.request.does = "retrieve" => Valued(x, h, live).score \in Nat
  <2>1. ASSUME NEW h \in eligible
        PROVE  /\ Valued(x, h, live) \in HitSet /\ Valued(x, h, live).item = h.item
               /\ x.request.does = "retrieve" => Valued(x, h, live).score \in Nat
    <3>1. h \in HitSet
      BY <1>2, <1>3
    <3>2. QED
      BY <3>1, ValuedIs
  <2>2. QED
    BY <2>1
<1>6. IsFiniteSet(eligible)
  BY <1>2, <1>3, FS_Subset
<1>7. f \in Surjection(eligible, offers)
  BY <1>4 DEF Surjection
<1>8. IsFiniteSet(offers)
  <2> HIDE DEF f
  <2>1. QED
    BY <1>6, <1>7, FS_Surjection
<1>9. /\ \A h \in eligible : Valued(x, h, live) \in offers
      /\ \A o \in offers : \E h \in eligible : o = Valued(x, h, live) /\ o.item = h.item
  BY <1>4, <1>5
<1>10. \A g, h \in offers : g.item = h.item => g = h
  BY <1>2, <1>3, <1>9
<1>11. /\ eligible \subseteq HitSet /\ offers \subseteq HitSet
       /\ x.request.does = "retrieve" => \A o \in offers : o.score \in Nat
       /\ \A g, h \in eligible : g.item = h.item => g = h
  BY <1>2, <1>3, <1>5, <1>9
<1>12. QED
  BY <1>8, <1>9, <1>10, <1>11 DEF eligible, offers

(* A search for servers is among the pseudo-tools of all of them.          *)
LEMMA SearchWishShape ==
  ASSUME NEW x, Asking(x)
  PROVE  LET q == Wish(x)
             w == SearchWish(x)
         IN  IF x.request.does = "servers"
               THEN /\ w.namespaces = {ServerNs} /\ w.category = "any"
                    /\ w.threshold = q.threshold /\ w.limit = q.limit
               ELSE w = q
<1> DEFINE asked == x.request.query
           q == Wish(x)
           w == SearchWish(x)
<1>1. CASE x.request.does = "servers"
  <2>1. /\ asked = [f \in DOMAIN asked |-> asked[f]]
        /\ {"limit", "namespaces", "category", "threshold"} \subseteq DOMAIN asked
    BY DEF Asking, QueryType
  <2>2. q = Defaulted(asked, 0) /\ w = [q EXCEPT !.namespaces = {ServerNs}, !.category = "any"]
    BY <1>1 DEF Wish, SearchWish, retrieve_mcp_servers
  <2> HIDE DEF asked, q, w
  <2>3. /\ q = [f \in DOMAIN q |-> q[f]]
        /\ {"limit", "namespaces", "category", "threshold"} \subseteq DOMAIN q
    BY <2>1, <2>2 DEF Defaulted
  <2>4. /\ w.namespaces = {ServerNs} /\ w.category = "any"
        /\ w.threshold = q.threshold /\ w.limit = q.limit
    BY <2>2, <2>3
  <2>5. QED
    BY <1>1, <2>4 DEF q, w
<1>2. CASE x.request.does # "servers"
  BY <1>2 DEF SearchWish
<1>3. QED
  BY <1>1, <1>2

(* Hits and rows tell the same of what a request may answer with.          *)
LEMMA WantedIs ==
  ASSUME NEW t \in Tasks, Asking(task[t]), embedder \in Embedders
  PROVE  /\ Query(t) = Wish(task[t])
         /\ Wanted(t) = {h.item : h \in Eligible(task[t], embedder, Live)}
         /\ Uncut(t) <=> Whole(task[t], embedder)
         /\ \A h \in Eligible(task[t], embedder, Live) : Score(t, h.item) = h.score
<1> DEFINE x == task[t]
           e == embedder
           T == x.seen
           fits == Fits(x, e)
           q == Wish(x)
           w == SearchWish(x)
           rows == Candidates(t)
           eligible == Eligible(x, e, Live)
           Asks(h) == InNamespaces(h, w) /\ InCategory(h, w) /\ Passes(h, w)
<1>1. Query(t) = q
  BY DEF Query, Wish, Asked
<1>2. /\ T \in Seq(RowSet) /\ Keyed(T)
      /\ x.request.does \in {"retrieve", "servers", "skills"}
      /\ x.request.does = "retrieve" => q.category = "any"
  <2>1. x.request.query \in QueryType /\ (x.request.does = "retrieve" \/ x.request.query.through = "retrieve")
    BY DEF Asking
  <2>2. q.category = x.request.query.category
    BY <2>1, WishShape
  <2>3. QED
    BY <2>2 DEF Asking
<1>3. IF x.request.does = "servers"
        THEN w.namespaces = {ServerNs} /\ w.category = "any" /\ w.threshold = q.threshold
        ELSE w = q
  BY SearchWishShape
<1>4. /\ IsFiniteSet(fits)
      /\ \A h \in fits : \E r \in ToSet(T) : h = HitOn(r, e)
      /\ \A r \in ToSet(T) : HitOn(r, e) \in fits <=> Asks(HitOn(r, e))
  BY <1>2, FitHits
<1> HIDE DEF fits
<1>5. \A r \in ToSet(T) : r \in rows <=> HitOn(r, e) \in fits
  <2>1. ASSUME NEW r \in ToSet(T) PROVE r \in rows <=> Asks(HitOn(r, e))
    <3> DEFINE h == HitOn(r, e)
    <3>1. h.item = r.item /\ h.score = Similarity(r, e)
      BY DEF HitOn
    <3> HIDE DEF h
    <3>2. r \in rows <=>
            /\ h.score >= q.threshold
            /\ CASE x.request.does = "retrieve" -> InSpace(h.item, q)
                 [] x.request.does = "servers"  -> Sheet[h.item].ns = ServerNs
                 [] x.request.does = "skills"   -> InSpace(h.item, q) /\ OfCategory(h.item, q)
      <4> HIDE DEF q
      <4>1. QED
        BY <1>1, <3>1 DEF Candidates
    <3>3. Asks(h) <=>
            /\ w.namespaces = {} \/ Sheet[h.item].ns \in w.namespaces
            /\ w.category = "any" \/ Sheet[h.item].of = w.category
            /\ h.score >= w.threshold
      BY DEF InNamespaces, InCategory, Passes
    <3> HIDE DEF q, w, x
    <3>4. r \in rows <=> Asks(h)
      <4>1. CASE x.request.does = "retrieve"
        BY <1>2, <1>3, <3>2, <3>3, <4>1 DEF InSpace
      <4>2. CASE x.request.does = "servers"
        BY <1>3, <3>2, <3>3, <4>2
      <4>3. CASE x.request.does = "skills"
        BY <1>3, <3>2, <3>3, <4>3 DEF InSpace, OfCategory
      <4>4. QED
        BY <1>2, <4>1, <4>2, <4>3
    <3>5. QED
      BY <3>4 DEF h
  <2>2. QED
    BY <1>4, <2>1
<1>6. rows \subseteq ToSet(T)
  BY DEF Candidates
<1>7. \A r \in ToSet(T) : r \in RowSet
  BY <1>2 DEF ToSet
<1> HIDE DEF rows, Asks
<1>8. \A g, h \in ToSet(T) : g.item = h.item => g = h
  <2>1. ToSet(T) = {T[n] : n \in DOMAIN T}
    BY DEF ToSet
  <2>2. QED
    BY <1>2, <2>1 DEF Keyed, RowId
<1>9. Cardinality(rows) = Cardinality(fits)
  <2> DEFINE back(h) == [item |-> h.item, made |-> h.made]
             g == [h \in fits |-> back(h)]
  <2>1. \A r \in ToSet(T) : back(HitOn(r, e)) = r
    BY <1>7 DEF HitOn, RowSet
  <2>2. \A h \in fits : back(h) \in rows /\ h = HitOn(back(h), e)
    BY <1>4, <1>5, <2>1
  <2>3. \A r \in rows : HitOn(r, e) \in fits /\ back(HitOn(r, e)) = r
    BY <1>5, <1>6, <2>1
  <2> HIDE DEF back
  <2>4. g \in Bijection(fits, rows)
    <3>1. g \in [fits -> rows] /\ \A h \in fits : g[h] = back(h)
      BY <2>2
    <3> HIDE DEF g
    <3>2. \A h, k \in fits : g[h] = g[k] => h = k
      BY <2>2, <3>1
    <3>3. \A r \in rows : \E h \in fits : g[h] = r
      BY <2>3, <3>1
    <3>4. QED
      BY <3>1, <3>2, <3>3 DEF Bijection, Injection, Surjection, IsInjective
  <2>5. QED
    BY <1>4, <2>4, FS_Bijection DEF ExistsBijection
<1>10. Uncut(t) <=> Whole(x, e)
  BY <1>1, <1>9 DEF Uncut, Whole, fits, rows
<1>11. Wanted(t) = {h.item : h \in eligible}
  <2> DEFINE Passing(i) ==
        CASE x.request.does = "retrieve" -> Allowed(i, q, Live)
          [] x.request.does = "servers"  -> OfCategory(i, q)
          [] x.request.does = "skills"   -> TRUE
  <2>1. Wanted(t) = {r.item : r \in {c \in rows : Passing(c.item)}}
    <3> HIDE DEF q
    <3>1. QED
      BY <1>1 DEF Wanted, rows
  <2>2. eligible = {h \in fits : Passing(h.item)}
    <3> HIDE DEF q
    <3>1. QED
      BY <1>2 DEF Eligible, InCategory, OfCategory, fits, q
  <2> HIDE DEF Passing, eligible
  <2>3. \A r \in rows : HitOn(r, e) \in fits /\ HitOn(r, e).item = r.item
    BY <1>5, <1>6 DEF HitOn
  <2>4. \A h \in fits : \E r \in rows : h.item = r.item
    BY <1>4, <1>5 DEF HitOn
  <2>5. QED
    BY <2>1, <2>2, <2>3, <2>4
<1>12. \A h \in eligible : Score(t, h.item) = h.score
  <2>1. ASSUME NEW h \in eligible PROVE Score(t, h.item) = h.score
    <3>1. h \in fits
      BY DEF Eligible, fits
    <3>2. PICK r \in ToSet(T) : h = HitOn(r, e)
      BY <1>4, <3>1
    <3>3. h.item = r.item /\ h.score = Similarity(r, e)
      BY <3>2 DEF HitOn
    <3>4. (CHOOSE c \in ToSet(T) : c.item = h.item) = r
      BY <1>8, <3>3
    <3>5. QED
      BY <3>3, <3>4 DEF Score
  <2>2. QED
    BY <2>1
<1>13. QED
  BY <1>1, <1>10, <1>11, <1>12

(* What an item is worth, and what its hit is.                             *)
LEMMA WorthIs ==
  ASSUME NEW t \in Tasks, Asking(task[t]), embedder \in Embedders,
         NEW o \in Offers(task[t], embedder, Live)
  PROVE  /\ \A before : Worth(t, o.item, before) = Worthy(task[t], o, before)
         /\ task[t].request.does = "retrieve" => Worthy(task[t], o, {}) \div 10 = o.score
<1> DEFINE x == task[t]
           q == Wish(x)
           d == [q EXCEPT !.diversity = 0]
           eligible == Eligible(x, embedder, Live)
<1>1. PICK h \in eligible : o = Valued(x, h, Live) /\ o.item = h.item
  BY OfferHits
<1>2. h \in HitSet /\ eligible \subseteq HitSet
  BY OfferHits
<1>3. Score(t, o.item) = h.score /\ Query(t) = q
  BY <1>1, WantedIs
<1>4. d.diversity = 0 /\ o.item \in Items
  <2>1. d.diversity = 0
    BY WishShape DEF Asking
  <2>2. QED
    BY <1>1, <1>2, <2>1 DEF HitSet
<1> HIDE DEF eligible
<1>5. CASE x.request.does # "retrieve"
  <2>1. o = h
    BY <1>1, <1>2, <1>5, ValuedIs
  <2>2. QED
    BY <1>3, <1>5, <2>1 DEF Worth, Worthy
<1>6. CASE x.request.does = "retrieve"
  <2>1. o.score = FinalScore(h, q, x.intent, Live) /\ o.score \in Nat
    BY <1>1, <1>2, <1>6, ValuedIs
  <2> DEFINE g == [item |-> o.item, score |-> h.score]
             v == [g EXCEPT !.score = FinalScore(g, q, x.intent, Live)]
  <2>2. FinalScore(g, q, x.intent, Live) = o.score
    BY <1>1, <2>1 DEF FinalScore
  <2>3. v.score = o.score
    BY <2>2
  <2> HIDE DEF q, d
  <2>4. \A before : Worth(t, o.item, before)
          = Marginal(v, Max({0} \cup {Near[o.item, j] : j \in before}), IF before = {} THEN d ELSE q)
    BY <1>3, <1>6 DEF Worth, d
  <2> HIDE DEF v
  <2>5. \A before : Worthy(x, o, before)
          = Marginal(o, Max({0} \cup {Near[o.item, j] : j \in before}), IF before = {} THEN d ELSE q)
    BY <1>6 DEF Worthy, q, d
  <2>6. \A before : Worth(t, o.item, before) = Worthy(x, o, before)
    BY <2>3, <2>4, <2>5 DEF Marginal
  <2>7. Worthy(x, o, {}) \div 10 = o.score
    <3> DEFINE sim == Max({0} \cup {Near[o.item, j] : j \in {}})
    <3>1. sim \in 0 .. 10
      BY <1>4, NearestIs
    <3>2. Worthy(x, o, {}) = Marginal(o, sim, d)
      BY <2>5
    <3> HIDE DEF sim
    <3>3. Marginal(o, sim, d) = (10 - 0) * o.score - 0 * 100 * sim
      BY <1>4 DEF Marginal
    <3>4. QED
      BY <2>1, <3>1, <3>2, <3>3
  <2>8. QED
    BY <2>6, <2>7
<1>7. QED
  BY <1>5, <1>6

(* What stays are the items of what is left, one to one.                   *)
LEMMA StayingIs ==
  ASSUME NEW t \in Tasks, Asking(task[t]), embedder \in Embedders
  PROVE  LET left == Left(task[t], embedder, Live)
         IN  /\ Staying(t) = {o.item : o \in left}
             /\ Cardinality(Staying(t)) = Cardinality(left)
             /\ left \subseteq Offers(task[t], embedder, Live)
<1> DEFINE x == task[t]
           asked == x.request.query
           offers == Offers(x, embedder, Live)
           left == Left(x, embedder, Live)
           worth(i) == Worth(t, i, {}) \div 10
<1>1. /\ IsFiniteSet(offers) /\ \A g, h \in offers : g.item = h.item => g = h
  BY OfferHits
<1>2. left \subseteq offers
  BY DEF Left
<1>3. Wanted(t) = {o.item : o \in offers}
  <2> DEFINE eligible == Eligible(x, embedder, Live)
  <2>1. /\ Wanted(t) = {h.item : h \in eligible}
        /\ eligible \subseteq HitSet
        /\ \A h \in eligible : Valued(x, h, Live) \in offers
        /\ \A o \in offers : \E h \in eligible : o = Valued(x, h, Live) /\ o.item = h.item
    BY WantedIs, OfferHits
  <2>2. \A h \in eligible : Valued(x, h, Live).item = h.item
    <3>1. ASSUME NEW h \in eligible PROVE Valued(x, h, Live).item = h.item
      BY <2>1, ValuedIs
    <3>2. QED
      BY <3>1
  <2> HIDE DEF eligible, offers, x
  <2>3. QED
    BY <2>1, <2>2
<1>4. x.request.does = "retrieve" => \A o \in offers : worth(o.item) = o.score
  <2>1. ASSUME x.request.does = "retrieve", NEW o \in offers PROVE worth(o.item) = o.score
    BY <2>1, WorthIs
  <2>2. QED
    BY <2>1
<1>5. Asked(t) = asked
  BY DEF Asked
<1> HIDE DEF offers
<1>6. Staying(t) = {o.item : o \in left}
  <2>1. CASE Bridged(x)
    <3> DEFINE best == Max({0} \cup {worth(i) : i \in Wanted(t)})
    <3>1. x.request.does = "retrieve" /\ asked.through = "bridge"
      BY <2>1 DEF Bridged
    <3>2. {worth(i) : i \in Wanted(t)} = {o.score : o \in offers}
      <4> HIDE DEF worth, x
      <4>1. QED
        BY <1>3, <1>4, <3>1
    <3>3. best = Greatest(offers)
      BY <3>2 DEF Greatest
    <3>4. Staying(t) = {i \in Wanted(t) : Within(worth(i), best, asked)}
      BY <1>5, <3>1 DEF Staying
    <3>5. left = {h \in offers : Within(h.score, Greatest(offers), asked)}
      BY <2>1 DEF Left, offers
    <3> HIDE DEF worth, best, left, x, asked
    <3>6. ASSUME NEW i \in Staying(t) PROVE \E o \in left : i = o.item
      <4>1. PICK o \in offers : i = o.item
        BY <1>3, <3>4
      <4>2. QED
        BY <1>4, <3>1, <3>3, <3>4, <3>5, <4>1
    <3>7. ASSUME NEW o \in left PROVE o.item \in Staying(t)
      BY <1>3, <1>4, <3>1, <3>3, <3>4, <3>5
    <3>8. QED
      BY <3>6, <3>7
  <2>2. CASE ~Bridged(x)
    <3>1. left = offers
      BY <2>2 DEF Left, offers
    <3>2. Staying(t) = Wanted(t)
      BY <2>2, <1>5 DEF Staying, Bridged
    <3>3. QED
      BY <1>3, <3>1, <3>2
  <2>3. QED
    BY <2>1, <2>2
<1>7. Cardinality(Staying(t)) = Cardinality(left)
  <2> DEFINE f == [o \in left |-> o.item]
             S == Staying(t)
  <2>1. IsFiniteSet(left)
    BY <1>1, <1>2, FS_Subset
  <2> HIDE DEF left
  <2>2. f \in Bijection(left, S)
    <3>1. f \in [left -> S] /\ \A o \in left : f[o] = o.item
      BY <1>6
    <3>2. \A s \in S : \E o \in left : s = o.item
      BY <1>6
    <3> HIDE DEF f, S
    <3>3. \A g, h \in left : f[g] = f[h] => g = h
      BY <1>1, <1>2, <3>1
    <3>4. \A s \in S : \E o \in left : f[o] = s
      BY <3>1, <3>2
    <3>5. QED
      BY <3>1, <3>3, <3>4 DEF Bijection, Injection, Surjection, IsInjective
  <2> HIDE DEF f, S
  <2>3. Cardinality(S) = Cardinality(left)
    BY <2>1, <2>2, FS_Bijection DEF ExistsBijection
  <2>4. QED
    BY <2>3 DEF S
<1>8. QED
  BY <1>2, <1>6, <1>7 DEF offers

(* A reply by hits is an answer as it should be.                           *)
LEMMA RepliesAreBest ==
  ASSUME NEW t \in Tasks, Asking(task[t]), embedder \in Embedders,
         Reply(task[t], embedder, Live)
  PROVE  /\ IsInjective(Got(t)) /\ ToSet(Got(t)) \subseteq Wanted(t)
         /\ Len(Got(t)) <= MostGiven(Asked(t))
         /\ Uncut(t) =>
              LET q == Query(t)
              IN  (q.through = "bridge" => q.diversity = 0 /\ ~q.rerank) =>
                    /\ Len(Got(t)) = Min({MostGiven(Asked(t)), Cardinality(Staying(t))})
                    /\ q.rerank \/
                         \A n \in DOMAIN Got(t) :
                           LET before == {Got(t)[m] : m \in 1..(n - 1)}
                           IN  \A i \in Staying(t) \ before :
                                 Worth(t, i, before) <= Worth(t, Got(t)[n], before)
<1> DEFINE x == task[t]
           A == x.hits
           q == Wish(x)
           most == MostGiven(x.request.query)
           eligible == Eligible(x, embedder, Live)
           left == Left(x, embedder, Live)
           got == Got(t)
<1>1. /\ A \in Seq(HitSet) /\ Apart(A)
      /\ \A n \in DOMAIN A : \E h \in eligible : h.item = A[n].item
      /\ Len(A) <= most
      /\ Whole(x, embedder) /\ (q.through = "bridge" => q.diversity = 0 /\ ~q.rerank) =>
           /\ Len(A) = IF most <= Cardinality(left) THEN most ELSE Cardinality(left)
           /\ q.rerank \/ (A \in Seq(left) /\ Foremost(x, A, left))
  BY DEF Reply
<1>2. Asked(t) = x.request.query
  BY DEF Asked
<1>3. /\ Query(t) = q /\ (Uncut(t) <=> Whole(x, embedder))
      /\ Wanted(t) = {h.item : h \in eligible}
  BY WantedIs
<1>4. got = [n \in DOMAIN A |-> A[n].item]
  BY DEF Got
<1> HIDE DEF A, got, eligible
<1>5. /\ Len(A) \in Nat /\ DOMAIN A = 1 .. Len(A)
      /\ DOMAIN got = DOMAIN A /\ \A n \in DOMAIN A : got[n] = A[n].item
      /\ got \in Seq({A[n].item : n \in DOMAIN A})
  BY <1>1, <1>4
<1>6. Len(got) = Len(A)
  BY <1>5
<1>7. IsInjective(got)
  BY <1>1, <1>5 DEF IsInjective, Apart
<1>8. ToSet(got) \subseteq Wanted(t)
  BY <1>1, <1>3, <1>5 DEF ToSet
<1>9. ASSUME Uncut(t), q.through = "bridge" => q.diversity = 0 /\ ~q.rerank
      PROVE  /\ Len(got) = Min({most, Cardinality(Staying(t))})
             /\ q.rerank \/
                  \A n \in DOMAIN got :
                    LET before == {got[m] : m \in 1..(n - 1)}
                    IN  \A i \in Staying(t) \ before :
                          Worth(t, i, before) <= Worth(t, got[n], before)
  <2>1. /\ Len(A) = IF most <= Cardinality(left) THEN most ELSE Cardinality(left)
        /\ q.rerank \/ (A \in Seq(left) /\ Foremost(x, A, left))
    BY <1>1, <1>3, <1>9
  <2>2. /\ Staying(t) = {o.item : o \in left} /\ Cardinality(Staying(t)) = Cardinality(left)
        /\ left \subseteq Offers(x, embedder, Live)
    BY StayingIs
  <2>3. Len(got) = Min({most, Cardinality(Staying(t))})
    <3> DEFINE c == Cardinality(left)
    <3>1. c \in Nat
      <4>1. IsFiniteSet(left)
        BY <2>2, OfferHits, FS_Subset
      <4>2. QED
        BY <4>1, FS_CardinalityType
    <3>2. most \in Nat
      BY WishShape DEF Asking
    <3> HIDE DEF c, most
    <3>3. Min({most, c}) = IF most <= c THEN most ELSE c
      BY <3>1, <3>2, OfTwo
    <3>4. QED
      BY <1>6, <2>1, <2>2, <3>3 DEF c
  <2>4. ASSUME ~q.rerank, NEW n \in DOMAIN got,
               NEW i \in Staying(t) \ {got[m] : m \in 1..(n - 1)}
        PROVE  LET before == {got[m] : m \in 1..(n - 1)}
               IN  Worth(t, i, before) <= Worth(t, got[n], before)
    <3> DEFINE before == {got[m] : m \in 1..(n - 1)}
    <3>1. before = Before(A, n)
      <4>1. \A m \in 1 .. n - 1 : got[m] = A[m].item
        BY <1>5
      <4>2. QED
        BY <4>1 DEF Before
    <3>2. PICK o \in left : i = o.item
      BY <2>2
    <3>3. A \in Seq(left) /\ Foremost(x, A, left) /\ A[n] \in left
      BY <1>5, <2>1, <2>4
    <3>4. o.item \notin before
      BY <3>2
    <3> HIDE DEF before
    <3>5. Worthy(x, o, before) <= Worthy(x, A[n], before)
      <4> HIDE DEF x, left
      <4>1. QED
        BY <1>5, <3>1, <3>3, <3>4 DEF Foremost
    <3>6. \A p \in left : Worth(t, p.item, before) = Worthy(x, p, before)
      <4>1. ASSUME NEW p \in left PROVE Worth(t, p.item, before) = Worthy(x, p, before)
        <5>1. p \in Offers(task[t], embedder, Live)
          BY <2>2
        <5>2. QED
          BY <5>1, WorthIs
      <4>2. QED
        BY <4>1
    <3>7. Worth(t, i, before) <= Worth(t, got[n], before)
      <4> HIDE DEF x, left
      <4>1. QED
        BY <1>5, <3>2, <3>3, <3>5, <3>6
    <3>8. QED
      BY <3>7 DEF before
  <2>5. QED
    BY <2>3, <2>4
<1>10. QED
  BY <1>2, <1>3, <1>6, <1>7, <1>8, <1>9, <1>1 DEF got

-----------------------------------------------------------------------------
(* Answers without a router                                                *)

(* After the first of the best nothing is better than the next.            *)
LEMMA BestNext ==
  ASSUME NEW S, Rated(S), NEW limit \in Nat, NEW A, Best(A, S, limit),
         NEW n \in DOMAIN A, NEW h \in S, h.item \notin Before(A, n)
  PROVE  h.score <= A[n].score
<1>1. /\ A \in Seq(S) /\ Sorted(A)
      /\ \/ h \in ToSet(A)
         \/ \A m \in DOMAIN A : A[m].score >= h.score
  BY DEF Best
<1>2. DOMAIN A = 1 .. Len(A) /\ Len(A) \in Nat /\ A[n].score \in Int /\ h.score \in Int
  BY <1>1 DEF Rated
<1>3. CASE h \in ToSet(A)
  <2>1. PICK m \in DOMAIN A : h = A[m]
    BY <1>3 DEF ToSet
  <2>2. ~ (m \in 1 .. n - 1)
    BY <2>1 DEF Before
  <2>3. n <= m
    BY <1>2, <2>2
  <2>4. A[n].score >= h.score
    BY <1>1, <2>1, <2>3 DEF Sorted
  <2>5. QED
    BY <1>2, <2>4
<1>4. CASE h \notin ToSet(A)
  BY <1>1, <1>2, <1>4
<1>5. QED
  BY <1>3, <1>4

(* Servers and skills are answered by the best of what is eligible.        *)
LEMMA SearchReply ==
  ASSUME NEW x, Asking(x), NEW e \in Embedders, NEW live, x.request.does # "retrieve",
         x.hits \in Seq(Eligible(x, e, live)), Apart(x.hits), Len(x.hits) <= Wish(x).limit,
         Whole(x, e) => Best(x.hits, Eligible(x, e, live), Wish(x).limit)
  PROVE  Reply(x, e, live)
<1> DEFINE A == x.hits
           el == Eligible(x, e, live)
           left == Left(x, e, live)
           limit == Wish(x).limit
           most == MostGiven(x.request.query)
<1>1. limit \in Nat \ {0} /\ most = limit
  <2>1. x.request.query \in QueryType /\ x.request.query.through = "retrieve"
    BY DEF Asking
  <2>2. QED
    BY <2>1, WishShape
<1>2. /\ el \subseteq HitSet
      /\ IsFiniteSet(Offers(x, e, live))
      /\ \A o \in Offers(x, e, live) : \E h \in el : o = Valued(x, h, live) /\ o.item = h.item
      /\ \A h \in el : Valued(x, h, live) \in Offers(x, e, live)
  BY OfferHits
<1>3. \A h \in el : Valued(x, h, live) = h
  BY DEF Valued
<1>4. Offers(x, e, live) = el
  <2> HIDE DEF el
  <2>1. ASSUME NEW o \in Offers(x, e, live) PROVE o \in el
    <3>1. PICK h \in el : o = Valued(x, h, live)
      BY <1>2
    <3>2. QED
      BY <1>3, <3>1
  <2>2. ASSUME NEW h \in el PROVE h \in Offers(x, e, live)
    <3>1. Valued(x, h, live) \in Offers(x, e, live) /\ Valued(x, h, live) = h
      BY <1>2, <1>3
    <3>2. QED
      BY <3>1
  <2>3. QED
    BY <2>1, <2>2
<1>5. left = el
  BY <1>4 DEF Left, Bridged
<1> HIDE DEF el, left, A
<1>6. A \in Seq(el) /\ Apart(A) /\ Len(A) <= limit /\ (Whole(x, e) => Best(A, el, limit))
  BY DEF A, el
<1>7. A \in Seq(HitSet) /\ \A n \in DOMAIN A : \E h \in el : h.item = A[n].item
  BY <1>2, <1>6
<1>8. ASSUME Whole(x, e)
      PROVE  /\ Len(A) = IF most <= Cardinality(left) THEN most ELSE Cardinality(left)
             /\ A \in Seq(left) /\ Foremost(x, A, left)
  <2>1. Best(A, el, limit)
    BY <1>6, <1>8
  <2>2. Len(A) = IF limit <= Cardinality(el) THEN limit ELSE Cardinality(el)
    BY <1>1, <1>2, <1>4, <2>1, BestCount
  <2>3. Rated(el)
    BY <1>2 DEF Rated, HitSet
  <2>4. ASSUME NEW n \in DOMAIN A, NEW h \in el, h.item \notin Before(A, n)
        PROVE  Worthy(x, h, Before(A, n)) <= Worthy(x, A[n], Before(A, n))
    <3>1. h.score <= A[n].score
      BY <1>1, <2>1, <2>3, <2>4, BestNext
    <3>2. QED
      BY <3>1 DEF Worthy
  <2>5. QED
    BY <1>1, <1>5, <1>6, <2>2, <2>4 DEF Foremost
<1>9. QED
  BY <1>1, <1>6, <1>7, <1>8 DEF Reply, A, el, left, limit, most

-----------------------------------------------------------------------------
(* What the router makes of the hits                                       *)

(* Scores and filters leave offers, and all of them if nothing was cut.    *)
LEMMA ScoredIs ==
  ASSUME NEW x, Asking(x), NEW e \in Embedders, NEW live, x.request.does = "retrieve",
         NEW F, Best(F, Fits(x, e), OverFetch * Wish(x).limit)
  PROVE  LET Z == Ranked(ScoredAndFiltered(F, Wish(x), x.intent, live))
             offers == Offers(x, e, live)
         IN  /\ Z \in Seq(offers) /\ Apart(Z) /\ Sorted(Z)
             /\ Whole(x, e) => ToSet(Z) = offers
<1> DEFINE q == Wish(x)
           fits == Fits(x, e)
           el == Eligible(x, e, live)
           offers == Offers(x, e, live)
           most == OverFetch * q.limit
           kept == Kept(F, el)
           SF == [n \in DOMAIN kept |-> Valued(x, kept[n], live)]
<1>1. F \in Seq(fits) /\ Apart(F)
  BY DEF Best
<1>2. el = {h \in fits : Allowed(h.item, q, live)}
  BY DEF Eligible
<1>3. kept = Those(F, LAMBDA h : Allowed(h.item, q, live))
  <2>1. \A n \in DOMAIN F : F[n] \in el <=> Allowed(F[n].item, q, live)
    <3> HIDE DEF fits, el, q
    <3>1. QED
      BY <1>1, <1>2
  <2>2. [n \in DOMAIN F |-> IF Allowed(F[n].item, q, live) THEN <<F[n]>> ELSE <<>>]
          = [n \in DOMAIN F |-> IF F[n] \in el THEN <<F[n]>> ELSE <<>>]
    <3> HIDE DEF el
    <3>1. QED
      BY <2>1
  <2> HIDE DEF el, q
  <2>3. QED
    BY <2>2 DEF Those, Kept
<1>4. SF = ScoredAndFiltered(F, q, x.intent, live)
  <2> HIDE DEF kept
  <2>1. SF = [n \in DOMAIN kept |-> [kept[n] EXCEPT !.score = FinalScore(kept[n], q, x.intent, live)]]
    BY DEF Valued
  <2>2. QED
    BY <1>3, <2>1 DEF ScoredAndFiltered
<1>5. /\ el \subseteq HitSet /\ offers \subseteq HitSet
      /\ \A h \in el : Valued(x, h, live) \in offers
      /\ \A o \in offers : \E h \in el : o = Valued(x, h, live) /\ o.item = h.item
  BY OfferHits
<1>6. \A h \in el : Valued(x, h, live).item = h.item
  <2>1. ASSUME NEW h \in el PROVE Valued(x, h, live).item = h.item
    <3>1. h \in HitSet
      BY <1>5
    <3>2. QED
      BY <3>1, ValuedIs
  <2>2. QED
    BY <2>1
<1>7. /\ kept \in Seq(el) /\ Apart(kept) /\ ToSet(kept) = ToSet(F) \cap el
  <2>1. el \subseteq fits
    BY <1>2
  <2>2. fits \cap el = el
    BY <2>1
  <2> HIDE DEF fits, el
  <2>3. QED
    BY <1>1, <2>2, KeptElements
<1>8. Whole(x, e) => ToSet(kept) = el
  <2>1. ASSUME Whole(x, e) PROVE ToSet(F) = fits
    <3>1. Cardinality(fits) <= most
      BY <2>1 DEF Whole
    <3>2. IsFiniteSet(fits)
      BY FitHits DEF Asking
    <3>3. most \in Nat
      <4>1. q.limit \in Nat
        BY WishShape DEF Asking
      <4>2. QED
        BY <4>1, RouterAssumption
    <3>4. Best(F, fits, most)
      OBVIOUS
    <3> HIDE DEF fits, most
    <3>5. QED
      BY <3>1, <3>2, <3>3, <3>4, BestCount
  <2>2. QED
    BY <1>2, <1>7, <2>1
<1>9. \A n \in DOMAIN kept : kept[n] \in el
  <2> HIDE DEF kept, el
  <2>1. QED
    BY <1>7
<1> HIDE DEF el, kept, offers
<1>10. /\ DOMAIN SF = DOMAIN kept
       /\ \A n \in DOMAIN kept : /\ SF[n] = Valued(x, kept[n], live)
                                 /\ SF[n] \in offers /\ SF[n].item = kept[n].item
  BY <1>5, <1>6, <1>9
<1>11. SF \in Seq(offers)
  <2>1. DOMAIN kept = 1 .. Len(kept) /\ Len(kept) \in Nat
    BY <1>7
  <2>2. SF \in [1 .. Len(kept) -> offers]
    BY <1>10, <2>1
  <2> HIDE DEF SF
  <2>3. QED
    BY <2>1, <2>2
<1>12. Apart(SF)
  <2> HIDE DEF SF
  <2>1. QED
    BY <1>7, <1>10 DEF Apart
<1>13. ToSet(kept) = el => ToSet(SF) = offers
  <2>1. ASSUME ToSet(kept) = el, NEW o \in offers PROVE \E n \in DOMAIN SF : SF[n] = o
    <3>1. PICK h \in el : o = Valued(x, h, live)
      BY <1>5
    <3>2. PICK n \in DOMAIN kept : kept[n] = h
      BY <2>1 DEF ToSet
    <3>3. QED
      BY <1>10, <3>1, <3>2
  <2>2. \A n \in DOMAIN SF : SF[n] \in offers
    BY <1>10
  <2> HIDE DEF SF
  <2>3. QED
    BY <2>1, <2>2 DEF ToSet
<1>14. Rated(offers)
  BY <1>5 DEF Rated, HitSet
<1> HIDE DEF SF
<1>15. /\ Ranked(SF) \in Seq(offers) /\ ToSet(Ranked(SF)) = ToSet(SF)
       /\ Sorted(Ranked(SF)) /\ Apart(Ranked(SF))
  BY <1>11, <1>12, <1>14, RankedElements
<1>16. QED
  BY <1>4, <1>8, <1>13, <1>15 DEF offers

(* Without diversity, and for the first tool, only the score counts.       *)
LEMMA PlainWorth ==
  ASSUME NEW x, Asking(x), x.request.does = "retrieve", NEW h \in HitSet,
         NEW B \in SUBSET Items, B = {} \/ Wish(x).diversity = 0
  PROVE  Worthy(x, h, B) = 10 * h.score
<1> DEFINE q == Wish(x)
           d == [q EXCEPT !.diversity = 0]
           c == IF B = {} THEN d ELSE q
           sim == Max({0} \cup {Near[h.item, j] : j \in B})
<1>1. d.diversity = 0
  BY WishShape DEF Asking
<1>2. sim \in 0 .. 10
  <2>1. h.item \in Items
    BY DEF HitSet
  <2>2. QED
    BY <2>1, NearestIs
<1>3. Worthy(x, h, B) = Marginal(h, sim, c)
  BY DEF Worthy
<1>4. c.diversity = 0
  BY <1>1
<1> HIDE DEF sim, c
<1>5. Worthy(x, h, B) = (10 - 0) * h.score - 0 * 100 * sim
  BY <1>3, <1>4 DEF Marginal
<1>6. h.score \in Int
  BY DEF HitSet
<1>7. QED
  BY <1>2, <1>5, <1>6

(* The items before a place.                                               *)
LEMMA BeforeItems ==
  ASSUME NEW A \in Seq(HitSet), NEW n \in DOMAIN A
  PROVE  /\ Before(A, n) \in SUBSET Items /\ A[n] \in HitSet
         /\ n = 1 <=> Before(A, n) = {}
<1>1. DOMAIN A = 1 .. Len(A) /\ Len(A) \in Nat /\ \A m \in DOMAIN A : A[m] \in HitSet
  OBVIOUS
<1>2. \A m \in 1 .. n - 1 : A[m].item \in Items
  BY <1>1 DEF HitSet
<1>3. n # 1 => 1 \in 1 .. n - 1
  BY <1>1
<1>4. n = 1 => 1 .. n - 1 = {}
  OBVIOUS
<1>5. QED
  BY <1>1, <1>2, <1>3, <1>4 DEF Before

(* Then the best by score are the foremost.                                *)
LEMMA BestForemost ==
  ASSUME NEW x, Asking(x), x.request.does = "retrieve", NEW S \in SUBSET HitSet,
         NEW limit \in Nat, NEW A, Best(A, S, limit),
         Wish(x).diversity = 0 \/ Len(A) <= 1
  PROVE  Foremost(x, A, S)
<1>1. A \in Seq(S)
  BY DEF Best
<1>2. A \in Seq(HitSet)
  BY <1>1
<1>3. Rated(S)
  BY DEF Rated, HitSet
<1>4. ASSUME NEW n \in DOMAIN A, NEW h \in S, h.item \notin Before(A, n)
      PROVE  Worthy(x, h, Before(A, n)) <= Worthy(x, A[n], Before(A, n))
  <2> DEFINE B == Before(A, n)
  <2>1. h.score <= A[n].score
    BY <1>3, <1>4, BestNext
  <2>2. B \in SUBSET Items /\ A[n] \in HitSet /\ h \in HitSet /\ (n = 1 <=> B = {})
    BY <1>2, BeforeItems
  <2>3. Len(A) <= 1 => n = 1
    BY <1>2
  <2> HIDE DEF B
  <2>4. Worthy(x, h, B) = 10 * h.score /\ Worthy(x, A[n], B) = 10 * A[n].score
    BY <2>2, <2>3, PlainWorth
  <2>5. h.score \in Int /\ A[n].score \in Int
    BY <2>2 DEF HitSet
  <2>6. QED
    BY <2>1, <2>4, <2>5 DEF B
<1>5. QED
  BY <1>4 DEF Foremost

(* The first of the foremost are the foremost.                             *)
LEMMA TopForemost ==
  ASSUME NEW x, NEW A \in Seq(HitSet), NEW S, Foremost(x, A, S), NEW n \in Nat
  PROVE  Foremost(x, Top(A, n), S)
<1> DEFINE top == Top(A, n)
           m == IF n <= Len(A) THEN n ELSE Len(A)
<1>1. /\ top \in Seq(HitSet) /\ Len(top) = m
      /\ \A i \in 1 .. m : i \in 1 .. Len(A) /\ top[i] = A[i]
  BY TopElements
<1> HIDE DEF top
<1>2. m \in Nat /\ DOMAIN top = 1 .. m /\ DOMAIN A = 1 .. Len(A)
  BY <1>1
<1> HIDE DEF m
<1>3. \A i \in DOMAIN top : i \in DOMAIN A /\ top[i] = A[i] /\ Before(top, i) = Before(A, i)
  <2>1. ASSUME NEW i \in DOMAIN top PROVE Before(top, i) = Before(A, i)
    <3>1. \A j \in 1 .. i - 1 : top[j] = A[j]
      BY <1>1, <1>2
    <3>2. QED
      BY <3>1 DEF Before
  <2>2. QED
    BY <1>1, <1>2, <2>1
<1>4. QED
  BY <1>3 DEF Foremost, top

-----------------------------------------------------------------------------
(* What the caller is given of what the router chose                       *)

(* The first of a sequence that is no longer is all of it.                 *)
LEMMA TopOfFew ==
  ASSUME NEW H, NEW s \in Seq(H), NEW n \in Nat, Len(s) <= n
  PROVE  Top(s, n) = s
<1>1. /\ Top(s, n) \in Seq(H)
      /\ Len(Top(s, n)) = IF n <= Len(s) THEN n ELSE Len(s)
      /\ \A i \in 1 .. (IF n <= Len(s) THEN n ELSE Len(s)) : Top(s, n)[i] = s[i]
  BY TopElements
<1> DEFINE top == Top(s, n)
<1> HIDE DEF top
<1>2. Len(s) \in Nat
  OBVIOUS
<1>3. (IF n <= Len(s) THEN n ELSE Len(s)) = Len(s)
  BY <1>2
<1>4. top \in Seq(H) /\ Len(top) = Len(s) /\ \A i \in 1 .. Len(s) : top[i] = s[i]
  BY <1>1, <1>3 DEF top
<1>5. top = s
  BY <1>4
<1>6. QED
  BY <1>5 DEF top

(* The bridge's threshold keeps those that are within it.                  *)
LEMMA ThresholdKeeps ==
  ASSUME NEW A \in Seq(HitSet), NEW asked
  PROVE  _apply_threshold(A, asked)
           = Top(Kept(A, {h \in HitSet : Within(h.score, Greatest(ToSet(A)), asked)}), asked.limit)
<1> DEFINE best == Greatest(ToSet(A))
           Wi == {h \in HitSet : Within(h.score, best, asked)}
<1>1. [n \in DOMAIN A |-> IF Within(A[n].score, best, asked) THEN <<A[n]>> ELSE <<>>]
        = [n \in DOMAIN A |-> IF A[n] \in Wi THEN <<A[n]>> ELSE <<>>]
  <2>1. \A n \in DOMAIN A : A[n] \in HitSet
    OBVIOUS
  <2> HIDE DEF best
  <2>2. QED
    BY <2>1
<1>2. best = Max({0} \cup {h.score : h \in ToSet(A)})
  BY DEF Greatest
<1> HIDE DEF Wi, best
<1>3. QED
  BY <1>1, <1>2 DEF _apply_threshold, Those, Kept, Wi, best

(* An answer is of what was chosen, and no more than asked for; except by  *)
(* the bridge it is the first of it.                                       *)
LEMMA GivenIs ==
  ASSUME NEW x, Asking(x), x.request.does = "retrieve",
         NEW A \in Seq(HitSet), Apart(A), Len(A) <= Wish(x).limit
  PROVE  LET asked == x.request.query
             G == get_tools(A, asked)
         IN  /\ G \in Seq(HitSet) /\ ToSet(G) \subseteq ToSet(A) /\ Apart(G)
             /\ Len(G) <= MostGiven(asked)
             /\ asked.through # "bridge" => G = Top(A, MostGiven(asked))
<1> DEFINE asked == x.request.query
           limit == Wish(x).limit
           most == MostGiven(asked)
           G == get_tools(A, asked)
<1>1. /\ limit \in Nat \ {0} /\ most \in Nat \ {0} /\ most <= limit
      /\ asked.through = "search_and_execute" => most = 1
      /\ asked.through = "bridge" =>
           asked.limit \in Nat /\ most = IF asked.limit <= limit THEN asked.limit ELSE limit
      /\ asked.through \notin {"search_and_execute", "bridge"} => most = limit
  BY WishShape DEF Asking
<1>2. Len(A) \in Nat /\ Len(A) <= limit
  OBVIOUS
<1>3. CASE asked.through # "bridge"
  <2>1. G = Top(A, most)
    <3>1. CASE asked.through = "search_and_execute"
      BY <1>1, <3>1 DEF get_tools
    <3>2. CASE asked.through # "search_and_execute"
      <4>1. most = limit /\ G = A
        BY <1>1, <1>3, <3>2 DEF get_tools
      <4> HIDE DEF most, limit, G
      <4>2. Top(A, most) = A
        BY <1>1, <1>2, <4>1, TopOfFew
      <4>3. QED
        BY <4>1, <4>2
    <3>3. QED
      BY <3>1, <3>2
  <2> HIDE DEF most, limit, G
  <2> DEFINE top == Top(A, most)
  <2>2. /\ top \in Seq(HitSet) /\ ToSet(top) \subseteq ToSet(A) /\ (Apart(A) => Apart(top))
        /\ Len(top) = IF most <= Len(A) THEN most ELSE Len(A)
    BY <1>1, TopElements
  <2> HIDE DEF top
  <2>3. Len(top) <= most
    BY <1>1, <1>2, <2>2
  <2>4. QED
    BY <2>1, <2>2, <2>3 DEF top, G, most
<1>4. CASE asked.through = "bridge"
  <2> DEFINE Wi == {h \in HitSet : Within(h.score, Greatest(ToSet(A)), asked)}
             kept == Kept(A, Wi)
             n == asked.limit
             top == Top(kept, n)
  <2>1. G = _apply_threshold(A, asked)
    BY <1>4 DEF get_tools
  <2>2. G = top
    BY <2>1, ThresholdKeeps
  <2> HIDE DEF Wi, G
  <2>3. /\ kept \in Seq(HitSet \cap Wi) /\ ToSet(kept) = ToSet(A) \cap Wi /\ Apart(kept)
        /\ Len(kept) <= Len(A)
    BY KeptElements, KeptCount
  <2> HIDE DEF kept
  <2>4. kept \in Seq(HitSet) /\ Len(kept) \in Nat
    BY <2>3
  <2>5. n \in Nat
    BY <1>1, <1>4
  <2> HIDE DEF n
  <2>6. /\ top \in Seq(HitSet) /\ ToSet(top) \subseteq ToSet(kept) /\ (Apart(kept) => Apart(top))
        /\ Len(top) = IF n <= Len(kept) THEN n ELSE Len(kept)
    BY <2>4, <2>5, TopElements
  <2> HIDE DEF top
  <2>7. Len(top) <= most
    <3>1. most = IF n <= limit THEN n ELSE limit
      BY <1>1, <1>4 DEF n
    <3> HIDE DEF most, limit
    <3>2. QED
      BY <1>1, <1>2, <2>3, <2>4, <2>5, <2>6, <3>1
  <2>8. QED
    BY <1>4, <2>2, <2>3, <2>6, <2>7 DEF G
<1>5. QED
  BY <1>3, <1>4

-----------------------------------------------------------------------------
(* The choice of diverse tools                                             *)

(* Of some places there is a first with the greatest value.                *)
LEMMA FirstBest ==
  ASSUME NEW L \in Nat, NEW v \in [1 .. L -> Int], NEW P \in SUBSET (1 .. L), P # {}
  PROVE  \E n \in P : \A o \in P : v[o] < v[n] \/ (v[o] = v[n] /\ n <= o)
<1> DEFINE First(k, n) == \A o \in P \cap (1 .. k) : v[o] < v[n] \/ (v[o] = v[n] /\ n <= o)
           T == {k \in 0 .. L : P \cap (1 .. k) = {} \/ \E n \in P \cap (1 .. k) : First(k, n)}
<1>1. 0 \in T
  OBVIOUS
<1>2. ASSUME NEW k \in 0 .. L, k # 0, k - 1 \in T PROVE k \in T
  <2>1. k \in 1 .. L /\ 1 .. k - 1 \subseteq 1 .. k /\ k \notin 1 .. k - 1
    BY <1>2
  <2>2. \A o \in 1 .. k : o \in 1 .. k - 1 \/ o = k
    OBVIOUS
  <2>3. CASE k \notin P
    <3>1. P \cap (1 .. k) = P \cap (1 .. k - 1)
      BY <2>1, <2>2, <2>3
    <3>2. QED
      BY <1>2, <2>1, <3>1
  <2>4. CASE k \in P /\ P \cap (1 .. k - 1) = {}
    <3>1. P \cap (1 .. k) = {k}
      BY <2>1, <2>2, <2>4
    <3>2. First(k, k)
      BY <3>1
    <3>3. QED
      BY <2>1, <3>1, <3>2
  <2>5. CASE k \in P /\ P \cap (1 .. k - 1) # {}
    <3>1. PICK n \in P \cap (1 .. k - 1) : First(k - 1, n)
      BY <1>2, <2>5
    <3>2. n \in 1 .. L /\ v[n] \in Int /\ v[k] \in Int /\ n < k
      BY <2>1
    <3>3. CASE v[k] <= v[n]
      <4>1. First(k, n)
        BY <2>2, <3>1, <3>2, <3>3
      <4>2. QED
        BY <2>1, <4>1
    <3>4. CASE v[k] > v[n]
      <4>1. ASSUME NEW o \in P \cap (1 .. k)
            PROVE  v[o] < v[k] \/ (v[o] = v[k] /\ k <= o)
        <5>1. v[o] \in Int
          OBVIOUS
        <5>2. o # k => v[o] <= v[n]
          BY <2>2, <3>1, <3>2, <5>1
        <5>3. QED
          BY <2>1, <3>2, <3>4, <5>1, <5>2
      <4>2. First(k, k)
        BY <4>1
      <4>3. k \in P \cap (1 .. k)
        BY <2>1, <2>5
      <4>4. QED
        BY <4>2, <4>3
    <3>5. v[k] <= v[n] \/ v[k] > v[n]
      <4> HIDE DEF T
      <4>1. QED
        BY <3>2
    <3>6. QED
      BY <3>3, <3>4, <3>5
  <2>6. QED
    BY <2>3, <2>4, <2>5
<1> HIDE DEF T
<1>3. L \in T
  <2>1. \A k \in 0 .. L : k \in T
    BY <1>1, <1>2, UpTo
  <2>2. L \in 0 .. L
    OBVIOUS
  <2>3. QED
    BY <2>1, <2>2
<1>4. P \cap (1 .. L) = P
  OBVIOUS
<1>5. QED
  BY <1>3, <1>4 DEF T

(* A pick is of those left, and none of these is worth more.               *)
LEMMA PickIs ==
  ASSUME NEW s \in Seq(HitSet), NEW picked, NEW sims \in [DOMAIN s -> Int],
         NEW q, q.diversity \in Int, DOMAIN s \ ToSet(picked) # {}
  PROVE  LET n == Pick(s, picked, sims, q)
             left == DOMAIN s \ ToSet(picked)
         IN  /\ n \in left
             /\ \A o \in left : Marginal(s[o], sims[o], q) <= Marginal(s[n], sims[n], q)
<1> DEFINE L == Len(s)
           P == DOMAIN s \ ToSet(picked)
           v == [n \in 1 .. L |-> Marginal(s[n], sims[n], q)]
           IsPick(n) == \A o \in P : v[o] < v[n] \/ (v[o] = v[n] /\ n <= o)
<1>1. L \in Nat /\ DOMAIN s = 1 .. L /\ P \in SUBSET (1 .. L)
  OBVIOUS
<1>2. \A n \in 1 .. L : v[n] = Marginal(s[n], sims[n], q) /\ v[n] \in Int
  <2>1. ASSUME NEW n \in 1 .. L PROVE Marginal(s[n], sims[n], q) \in Int
    <3>1. s[n] \in HitSet /\ sims[n] \in Int
      BY <1>1
    <3>2. s[n].score \in Int
      BY <3>1 DEF HitSet
    <3>3. QED
      BY <3>1, <3>2 DEF Marginal
  <2>2. QED
    BY <2>1
<1>3. v \in [1 .. L -> Int]
  BY <1>2
<1> HIDE DEF v, L
<1>4. Pick(s, picked, sims, q) = CHOOSE n \in P : IsPick(n)
  BY <1>1, <1>2 DEF Pick
<1> HIDE DEF P
<1>5. \E n \in P : IsPick(n)
  BY <1>1, <1>3, FirstBest DEF P
<1> DEFINE n == Pick(s, picked, sims, q)
<1>6. n \in P /\ IsPick(n)
  BY <1>4, <1>5
<1> HIDE DEF n
<1>7. \A o \in P : v[o] <= v[n]
  <2>1. \A o \in P : v[o] \in Int
    BY <1>1, <1>2
  <2>2. QED
    BY <1>6, <2>1
<1>8. QED
  BY <1>1, <1>2, <1>6, <1>7 DEF P, n

(* Places picked, at least one, and how near each place is to some.        *)
Picking(s) == [picked : {p \in Seq(DOMAIN s) : p # <<>>}, sims : [DOMAIN s -> Int]]

(* Fewer picks than places leave a place.                                  *)
LEMMA SomeLeft ==
  ASSUME NEW s \in Seq(HitSet), NEW p \in Seq(DOMAIN s), Len(p) < Len(s)
  PROVE  DOMAIN s \ ToSet(p) # {}
<1> DEFINE m == Len(p)
           n == Len(s)
           f == [i \in 1 .. m |-> p[i]]
<1>1. m \in Nat /\ n \in Nat /\ DOMAIN p = 1 .. m /\ DOMAIN s = 1 .. n
  OBVIOUS
<1>2. SUFFICES ASSUME DOMAIN s \ ToSet(p) = {} PROVE FALSE
  OBVIOUS
<1>3. ToSet(p) = {p[i] : i \in 1 .. m} /\ \A i \in 1 .. m : p[i] \in 1 .. n
  BY <1>1 DEF ToSet
<1>4. f \in [1 .. m -> 1 .. n] /\ \A i \in 1 .. m : f[i] = p[i]
  BY <1>3
<1> HIDE DEF f, m, n
<1>5. \A j \in 1 .. n : \E i \in 1 .. m : f[i] = j
  BY <1>1, <1>2, <1>3, <1>4
<1>6. ExistsSurjection(1 .. m, 1 .. n)
  BY <1>4, <1>5 DEF ExistsSurjection, Surjection
<1>7. Cardinality(1 .. n) <= m
  BY <1>1, <1>6, FS_SurjCardinalityBound
<1>8. Cardinality(1 .. n) = n
  <2> DEFINE one == 1
  <2>1. one \in Int /\ n \in Int
    BY <1>1
  <2> HIDE DEF one
  <2>2. Cardinality(one .. n) = IF one > n THEN 0 ELSE n - one + 1
    BY <2>1, FS_Interval
  <2>3. QED
    BY <1>1, <2>2 DEF one
<1>9. QED
  BY <1>1, <1>7, <1>8 DEF m, n

(* A pick more, after these.                                               *)
PicksNext(s, q, st, next) ==
  LET left == DOMAIN s \ ToSet(st.picked)
      last == st.picked[Len(st.picked)]
  IN  /\ next \in Picking(s)
      /\ \A i \in DOMAIN s : next.sims[i] = Max({st.sims[i], Near[s[i].item, s[last].item]})
      /\ \E n \in left :
           /\ next.picked = Append(st.picked, n)
           /\ \A o \in left : Marginal(s[o], next.sims[o], q) <= Marginal(s[n], next.sims[n], q)

(* The next pick is one of those left, the best by what they are near to.  *)
LEMMA NextPickIs ==
  ASSUME NEW s \in Seq(HitSet), NEW q, q.diversity \in Int, NEW st \in Picking(s),
         DOMAIN s \ ToSet(st.picked) # {}
  PROVE  PicksNext(s, q, st, NextPick(st, s, q))
<1> DEFINE p == st.picked
           last == p[Len(p)]
           sims == Closer(st.sims, s, last)
           n == Pick(s, p, sims, q)
           next == NextPick(st, s, q)
           near(i) == Near[s[i].item, s[last].item]
<1>1. p \in Seq(DOMAIN s) /\ p # <<>> /\ st.sims \in [DOMAIN s -> Int]
  BY DEF Picking
<1>2. last \in DOMAIN s
  <2> HIDE DEF p
  <2>1. Len(p) \in Nat \ {0}
    BY <1>1
  <2>2. QED
    BY <1>1, <2>1
<1>3. next = [picked |-> Append(p, n), sims |-> sims]
  BY DEF NextPick, Last
<1> HIDE DEF p, last
<1>4. \A i \in DOMAIN s : near(i) \in Int /\ st.sims[i] \in Int
  <2>1. \A i \in DOMAIN s : s[i] \in HitSet
    OBVIOUS
  <2>2. \A i \in DOMAIN s : s[i].item \in Items
    BY <2>1 DEF HitSet
  <2>3. ASSUME NEW i \in DOMAIN s PROVE near(i) \in Int
    <3> DEFINE g == s[i].item
               h == s[last].item
    <3>1. g \in Items /\ h \in Items
      BY <1>2, <2>2
    <3> DEFINE d == Near[g, h]
    <3> HIDE DEF g, h
    <3>2. d \in 0 .. 10
      BY <3>1, RouterAssumption
    <3> HIDE DEF d
    <3>3. d \in Int
      BY <3>2
    <3>4. QED
      BY <3>3 DEF d, g, h
  <2>4. QED
    BY <1>1, <2>3
<1>5. sims = [i \in DOMAIN s |-> Max({st.sims[i], near(i)})]
  BY DEF Closer
<1>6. ASSUME NEW i \in DOMAIN s PROVE Max({st.sims[i], near(i)}) \in Int
  <2> DEFINE a == st.sims[i]
             b == near(i)
  <2>1. a \in Int /\ b \in Int
    BY <1>4
  <2> HIDE DEF a, b
  <2>2. Max({a, b}) = IF a >= b THEN a ELSE b
    BY <2>1, OfTwo
  <2>3. Max({a, b}) \in Int
    BY <2>1, <2>2
  <2>4. QED
    BY <2>3 DEF a, b
<1>7. /\ sims \in [DOMAIN s -> Int]
      /\ \A i \in DOMAIN s : sims[i] = Max({st.sims[i], near(i)})
  <2> HIDE DEF near
  <2>1. QED
    BY <1>5, <1>6
<1> HIDE DEF sims, near
<1>8. /\ n \in DOMAIN s \ ToSet(p)
      /\ \A o \in DOMAIN s \ ToSet(p) : Marginal(s[o], sims[o], q) <= Marginal(s[n], sims[n], q)
  BY <1>7, PickIs DEF p
<1> HIDE DEF n, next
<1>9. Append(p, n) \in Seq(DOMAIN s) /\ Append(p, n) # <<>>
  <2>1. Append(p, n) \in Seq(DOMAIN s)
    BY <1>1, <1>8
  <2>2. Len(Append(p, n)) = Len(p) + 1 /\ Len(p) \in Nat
    BY <1>1
  <2>3. Append(p, n) # <<>>
    <3> DEFINE a == Append(p, n)
    <3>1. Len(a) # 0
      BY <2>2
    <3> HIDE DEF a
    <3>2. a # <<>>
      BY <3>1
    <3>3. QED
      BY <3>2 DEF a
  <2>4. QED
    BY <2>1, <2>3
<1>10. next \in Picking(s) /\ next.picked = Append(p, n) /\ next.sims = sims
  BY <1>3, <1>7, <1>9 DEF Picking
<1>11. QED
  BY <1>7, <1>8, <1>10 DEF PicksNext, p, last, near, next

(* How many are to be picked, and the first pick.                          *)
HowMany(s, q) == IF q.limit <= Len(s) THEN q.limit ELSE Len(s)
FirstPick(s, q) ==
  [picked |-> <<Pick(s, <<>>, [n \in DOMAIN s |-> 0], [q EXCEPT !.diversity = 0])>>,
   sims |-> [n \in DOMAIN s |-> 0]]

(* The diverse tools are picked one after the other.                       *)
LEMMA DiverseSteps ==
  ASSUME NEW s \in Seq(HitSet), Len(s) > 0, NEW q, q.diversity \in Int, q.limit \in Nat \ {0},
         [q EXCEPT !.diversity = 0].diversity = 0
  PROVE  LET n == HowMany(s, q) - 1
             none == [i \in DOMAIN s |-> 0]
         IN  /\ n \in Nat /\ n < Len(s)
             /\ \E K \in [0 .. n -> Picking(s)] :
                  /\ K[0].sims = none
                  /\ \E i \in DOMAIN s :
                       /\ K[0].picked = <<i>>
                       /\ \A o \in DOMAIN s : s[o].score <= s[i].score
                  /\ \A k \in 1 .. n : K[k] = NextPick(K[k - 1], s, q)
                  /\ \A k \in 0 .. n : Len(K[k].picked) = k + 1
                  /\ Diverse(s, q) = [m \in DOMAIN K[n].picked |-> s[K[n].picked[m]]]
<1> DEFINE n == HowMany(s, q) - 1
           none == [i \in DOMAIN s |-> 0]
           d == [q EXCEPT !.diversity = 0]
           first == Pick(s, <<>>, none, d)
           start == FirstPick(s, q)
           seq == [i \in 1 .. n |-> i]
           A == Picking(s)
           Computes(f) == f = [S \in SUBSET (1 .. n) |->
             IF S = {} THEN start ELSE NextPick(f[S \ {Max(S)}], s, q)]
           F == CHOOSE f : Computes(f)
           Room(a) == DOMAIN s \ ToSet(a.picked) # {}
<1>1. /\ Len(s) \in Nat \ {0} /\ DOMAIN s = 1 .. Len(s)
      /\ n \in Nat /\ n < Len(s)
  BY DEF HowMany
<1>2. d.diversity = 0 /\ none \in [DOMAIN s -> Int] /\ \A i \in DOMAIN s : none[i] = 0
  OBVIOUS
<1>3. first \in DOMAIN s /\ \A o \in DOMAIN s : s[o].score <= s[first].score
  <2> DEFINE nothing == <<>>
  <2>1. DOMAIN s \ ToSet(nothing) = DOMAIN s /\ DOMAIN s # {}
    <3>1. nothing \in Seq({}) /\ Len(nothing) = 0
      OBVIOUS
    <3> HIDE DEF nothing
    <3>2. DOMAIN nothing = {}
      BY <3>1
    <3>3. ToSet(nothing) = {}
      BY <3>2 DEF ToSet
    <3>4. 1 \in DOMAIN s
      BY <1>1
    <3> HIDE DEF n
    <3>5. QED
      BY <3>3, <3>4
  <2>2. DOMAIN s \ ToSet(nothing) # {} /\ d.diversity \in Int
    BY <1>2, <2>1
  <2> HIDE DEF none, d, nothing
  <2> DEFINE pick == Pick(s, nothing, none, d)
  <2>3. /\ pick \in DOMAIN s \ ToSet(nothing)
        /\ \A o \in DOMAIN s \ ToSet(nothing) :
             Marginal(s[o], none[o], d) <= Marginal(s[pick], none[pick], d)
    BY <1>2, <2>2, PickIs
  <2>4. first = pick
    BY DEF nothing
  <2> HIDE DEF first, pick
  <2>5. first \in DOMAIN s /\ \A o \in DOMAIN s :
          Marginal(s[o], none[o], d) <= Marginal(s[first], none[first], d)
    BY <2>1, <2>3, <2>4 DEF nothing
  <2>6. \A o \in DOMAIN s : s[o].score \in Int /\ Marginal(s[o], none[o], d) = 10 * s[o].score
    <3>1. ASSUME NEW o \in DOMAIN s
          PROVE  s[o].score \in Int /\ Marginal(s[o], none[o], d) = 10 * s[o].score
      <4>1. s[o] \in HitSet
        OBVIOUS
      <4>2. s[o].score \in Int
        BY <4>1 DEF HitSet
      <4>3. Marginal(s[o], none[o], d) = (10 - 0) * s[o].score - 0 * 100 * 0
        BY <1>2 DEF Marginal
      <4>4. QED
        BY <4>2, <4>3
    <3>2. QED
      BY <3>1
  <2>7. QED
    BY <2>5, <2>6
<1>4. start = [picked |-> <<first>>, sims |-> none]
  BY DEF FirstPick
<1>5. Diverse(s, q) = [m \in DOMAIN F[1 .. n].picked |-> s[F[1 .. n].picked[m]]]
  <2>1. Min({q.limit, Len(s)}) = HowMany(s, q)
    <3> DEFINE a == q.limit
               b == Len(s)
    <3>1. a \in Int /\ b \in Int
      OBVIOUS
    <3> HIDE DEF a, b
    <3>2. Min({a, b}) = IF a <= b THEN a ELSE b
      BY <3>1, OfTwo
    <3>3. QED
      BY <3>2 DEF HowMany, a, b
  <2>2. Len(seq) = n
    BY <1>1
  <2>3. FoldLeft(LAMBDA a, i : NextPick(a, s, q), start, seq) = F[1 .. n]
    BY <1>1, <2>2 DEF FoldLeft, MapThenFoldSet
  <2>4. Diverse(s, q) = LET end == FoldLeft(LAMBDA a, i : NextPick(a, s, q), start, seq)
                        IN  [m \in DOMAIN end.picked |-> s[end.picked[m]]]
    BY <2>1 DEF Diverse, FirstPick
  <2>5. QED
    BY <2>3, <2>4
<1>6. start \in A /\ Len(start.picked) = 1
  <2>1. <<first>> \in Seq(DOMAIN s) /\ <<first>> # <<>> /\ Len(<<first>>) = 1
    BY <1>3
  <2>2. QED
    BY <1>2, <1>4, <2>1 DEF Picking
<1> HIDE DEF start, first, n, none, d
<1>7. ASSUME NEW a \in A, Room(a)
      PROVE  NextPick(a, s, q) \in A /\ Len(NextPick(a, s, q).picked) = Len(a.picked) + 1
  <2> DEFINE next == NextPick(a, s, q)
  <2>1. PicksNext(s, q, a, next)
    BY <1>7, NextPickIs
  <2> HIDE DEF next
  <2>2. /\ next \in A
        /\ \E i \in DOMAIN s : next.picked = Append(a.picked, i)
    BY <2>1 DEF PicksNext
  <2>3. a.picked \in Seq(DOMAIN s)
    BY DEF Picking
  <2>4. Len(next.picked) = Len(a.picked) + 1
    BY <2>2, <2>3
  <2>5. QED
    BY <2>2, <2>4 DEF next
<1>8. ASSUME NEW a \in A, Len(a.picked) < Len(s) PROVE Room(a)
  <2>1. a.picked \in Seq(DOMAIN s)
    BY DEF Picking
  <2>2. QED
    BY <1>8, <2>1, SomeLeft
<1>9. \E g : Computes(g)
  <2> DEFINE G == [p \in A \X (1 .. n) |-> IF Room(p[1]) THEN NextPick(p[1], s, q) ELSE p[1]]
  <2>1. G \in [A \X (1 .. n) -> A]
    <3>1. ASSUME NEW p \in A \X (1 .. n)
          PROVE  (IF Room(p[1]) THEN NextPick(p[1], s, q) ELSE p[1]) \in A
      <4>1. p[1] \in A
        OBVIOUS
      <4> HIDE DEF A, Room
      <4>2. QED
        BY <1>7, <4>1
    <3> HIDE DEF A, Room
    <3>2. QED
      BY <3>1
  <2>2. \A a \in A, i \in 1 .. n :
          G[<<a, i>>] = IF Room(a) THEN NextPick(a, s, q) ELSE a
    <3> HIDE DEF A, Room
    <3>1. QED
      OBVIOUS
  <2> HIDE DEF G, A, Room
  <2>3. seq \in Seq(1 .. n) /\ Len(seq) = n /\ \A i \in 1 .. n : seq[i] = i
    BY <1>1
  <2> HIDE DEF seq
  <2>4. PICK g \in [SUBSET (1 .. n) -> A] : Folds(g, start, G, seq, n)
    <3> DEFINE E == 1 .. n
               D == A \X E
    <3>1. start \in A /\ G \in [D -> A] /\ \A a \in A, i \in E : <<a, i>> \in D
      BY <1>6, <2>1
    <3>2. seq \in Seq(E)
      BY <2>3
    <3> HIDE DEF E, D
    <3>3. \E g \in [SUBSET (1 .. Len(seq)) -> A] : Folds(g, start, G, seq, Len(seq))
      BY <3>1, <3>2, FoldExists
    <3>4. QED
      BY <2>3, <3>3
  <2>5. \A S \in SUBSET (1 .. n) : S # {} => Max(S) \in S
    BY <1>1, MaxExists
  <2>6. ASSUME NEW S \in SUBSET (1 .. n), S # {}
        PROVE  LET a == g[S \ {Max(S)}]
               IN  a \in A /\ g[S] = IF Room(a) THEN NextPick(a, s, q) ELSE a
    <3> DEFINE a == g[S \ {Max(S)}]
    <3>1. Max(S) \in 1 .. n /\ S \ {Max(S)} \in SUBSET (1 .. n)
      BY <2>5, <2>6
    <3>2. a \in A /\ seq[Max(S)] = Max(S)
      BY <2>3, <2>4, <3>1
    <3>3. g[S] = G[<<a, Max(S)>>]
      BY <2>4, <2>6, <3>2 DEF Folds
    <3>4. QED
      BY <2>2, <3>1, <3>2, <3>3
  <2>7. g[{}] = start
    BY <2>4 DEF Folds
  <2> DEFINE Few(k) == \A S \in SUBSET (1 .. k) : Len(g[S].picked) <= k + 1
             T == {k \in 0 .. n : Few(k)}
  <2>8. 0 \in T
    <3>1. ASSUME NEW S \in SUBSET (1 .. 0) PROVE Len(g[S].picked) <= 0 + 1
      <4>1. S = {}
        OBVIOUS
      <4>2. g[S] = start
        BY <2>7, <4>1
      <4>3. Len(g[S].picked) = 1
        BY <1>6, <4>2
      <4>4. QED
        BY <4>3
    <3>2. 0 \in 0 .. n
      BY <1>1
    <3>3. QED
      BY <3>1, <3>2
  <2>9. ASSUME NEW k \in 0 .. n, k # 0, k - 1 \in T PROVE k \in T
    <3>1. k \in 1 .. n /\ k - 1 \in Nat /\ 1 .. k \subseteq 1 .. n
      BY <1>1, <2>9
    <3>2. ASSUME NEW S \in SUBSET (1 .. k) PROVE Len(g[S].picked) <= k + 1
      <4>1. CASE S = {}
        <5>1. g[S] = start
          BY <2>7, <4>1
        <5>2. Len(g[S].picked) = 1
          BY <1>6, <5>1
        <5>3. QED
          BY <3>1, <5>2
      <4>2. CASE S # {}
        <5> DEFINE m == Max(S)
                   a == g[S \ {m}]
        <5>1. S \in SUBSET (1 .. n) /\ m \in S /\ \A y \in S : m >= y
          BY <1>1, <3>1, <4>2, MaxExists
        <5>2. a \in A /\ g[S] = IF Room(a) THEN NextPick(a, s, q) ELSE a
          BY <2>6, <4>2, <5>1
        <5> HIDE DEF m
        <5>3. \A y \in S \ {m} : y \in 1 .. k - 1
          BY <3>1, <5>1
        <5>4. Len(a.picked) <= k - 1 + 1
          BY <2>9, <5>3
        <5>5. Len(a.picked) \in Nat
          <6>1. a.picked \in Seq(DOMAIN s)
            BY <5>2 DEF A, Picking
          <6>2. QED
            BY <6>1
        <5> HIDE DEF a
        <5>6. Len(g[S].picked) = Len(a.picked) \/ Len(g[S].picked) = Len(a.picked) + 1
          BY <1>7, <5>2
        <5>7. QED
          BY <3>1, <5>4, <5>5, <5>6
      <4>3. QED
        BY <4>1, <4>2
    <3>3. QED
      BY <3>2
  <2> HIDE DEF T
  <2>10. \A k \in 0 .. n : k \in T
    BY <1>1, <2>8, <2>9, UpTo
  <2>11. ASSUME NEW S \in SUBSET (1 .. n), S # {} PROVE Room(g[S \ {Max(S)}])
    <3> DEFINE m == Max(S)
               R == S \ {m}
               a == g[R]
    <3>1. m \in S /\ \A y \in S : m >= y
      BY <1>1, <2>11, MaxExists
    <3>2. a \in A
      BY <2>6, <2>11
    <3> HIDE DEF m
    <3>3. n - 1 \in 0 .. n /\ R \in SUBSET (1 .. n - 1)
      BY <1>1, <3>1
    <3>4. Len(a.picked) <= n - 1 + 1
      BY <2>10, <3>3 DEF T
    <3>5. Len(a.picked) \in Nat
      <4>1. a.picked \in Seq(DOMAIN s)
        BY <3>2 DEF A, Picking
      <4>2. QED
        BY <4>1
    <3> HIDE DEF a, R
    <3>6. Len(a.picked) < Len(s)
      BY <1>1, <3>4, <3>5
    <3>7. Room(a)
      BY <1>8, <3>2, <3>6
    <3>8. QED
      BY <3>7 DEF a, R, m
  <2>12. \A S \in SUBSET (1 .. n) :
           g[S] = IF S = {} THEN start ELSE NextPick(g[S \ {Max(S)}], s, q)
    BY <2>6, <2>7, <2>11
  <2>13. g = [S \in SUBSET (1 .. n) |-> g[S]]
    BY <2>4
  <2>14. Computes(g)
    BY <2>12, <2>13
  <2>15. QED
    BY <2>14
<1>10. Computes(F)
  BY <1>9
<1> HIDE DEF F, Room
<1>11. \A S \in SUBSET (1 .. n) :
         F[S] = IF S = {} THEN start ELSE NextPick(F[S \ {Max(S)}], s, q)
  BY <1>10
<1> DEFINE K == [k \in 0 .. n |-> F[1 .. k]]
<1>12. K[0] = start
  <2>1. 0 \in 0 .. n /\ 1 .. 0 = {} /\ {} \in SUBSET (1 .. n)
    BY <1>1
  <2>2. F[{}] = start
    BY <1>11, <2>1
  <2>3. QED
    BY <2>1, <2>2
<1>13. ASSUME NEW k \in 1 .. n PROVE K[k] = NextPick(K[k - 1], s, q)
  <2>1. 1 .. k \in SUBSET (1 .. n) /\ k \in 0 .. n /\ k - 1 \in 0 .. n /\ k \in Nat \ {0}
    BY <1>1
  <2>2. Max(1 .. k) = k /\ (1 .. k) \ {k} = 1 .. k - 1 /\ 1 .. k # {}
    BY <2>1, LastOfInterval
  <2>3. F[1 .. k] = NextPick(F[1 .. k - 1], s, q)
    BY <1>11, <2>1, <2>2
  <2>4. QED
    BY <2>1, <2>3
<1>14. n \in 0 .. n /\ K[n] = F[1 .. n]
  BY <1>1
<1>15. K = [k \in 0 .. n |-> K[k]]
  OBVIOUS
<1> HIDE DEF K
<1>16. \A k \in 0 .. n : K[k] \in A /\ Len(K[k].picked) = k + 1
  <2> DEFINE T == {k \in 0 .. n : K[k] \in A /\ Len(K[k].picked) = k + 1}
  <2> HIDE DEF A
  <2>1. 0 \in T
    BY <1>1, <1>6, <1>12
  <2>2. ASSUME NEW k \in 0 .. n, k # 0, k - 1 \in T PROVE k \in T
    <3>1. /\ k \in 1 .. n /\ k - 1 \in Nat /\ k - 1 + 1 = k /\ k < Len(s)
          /\ K[k - 1] \in A /\ Len(K[k - 1].picked) = k
      BY <1>1, <2>2
    <3>2. K[k] \in A /\ Len(K[k].picked) = k + 1
      BY <1>7, <1>8, <1>13, <3>1
    <3>3. QED
      BY <3>2
  <2> HIDE DEF T
  <2>3. \A k \in 0 .. n : k \in T
    BY <1>1, <2>1, <2>2, UpTo
  <2>4. QED
    BY <2>3 DEF T
<1>17. K \in [0 .. n -> A]
  BY <1>15, <1>16
<1>18. /\ K[0].sims = none
       /\ \E i \in DOMAIN s : K[0].picked = <<i>> /\ \A o \in DOMAIN s : s[o].score <= s[i].score
  BY <1>3, <1>4, <1>12
<1>19. Diverse(s, q) = [m \in DOMAIN K[n].picked |-> s[K[n].picked[m]]]
  BY <1>5, <1>14
<1>20. QED
  BY <1>1, <1>13, <1>16, <1>17, <1>18, <1>19 DEF n, none

(* How near an item is to the nearest of some.                             *)
Nearest(i, B) == Max({0} \cup {Near[i, j] : j \in B})

(* One more may be nearer, and then it is that near.                       *)
LEMMA NearestGrows ==
  ASSUME NEW i \in Items, NEW B \in SUBSET Items, NEW c \in Items
  PROVE  Max({Nearest(i, B), Near[i, c]}) = Nearest(i, B \cup {c})
<1> DEFINE S == {0} \cup {Near[i, j] : j \in B}
           T == {0} \cup {Near[i, j] : j \in B \cup {c}}
           a == Max(S)
           b == Near[i, c]
           m == IF a >= b THEN a ELSE b
<1>1. Nearest(i, B) = a /\ Nearest(i, B \cup {c}) = Max(T)
  BY DEF Nearest
<1>2. a \in 0 .. 10 /\ a \in S /\ \A y \in S : a >= y
  BY NearestIs
<1>3. b \in 0 .. 10
  BY RouterAssumption
<1>4. T = S \cup {b}
  OBVIOUS
<1>5. S \subseteq 0 .. 10
  <2>1. ASSUME NEW y \in S PROVE y \in 0 .. 10
    <3>1. CASE y = 0
      BY <3>1
    <3>2. CASE y # 0
      <4>1. PICK j \in B : y = Near[i, j]
        BY <3>2
      <4>2. QED
        BY <4>1, RouterAssumption
    <3>3. QED
      BY <3>1, <3>2
  <2>2. QED
    BY <2>1
<1> HIDE DEF S, T, a, b
<1>6. a \in Int /\ b \in Int /\ S \in SUBSET Int
  BY <1>2, <1>3, <1>5
<1>7. Max({a, b}) = m
  BY <1>6, OfTwo
<1>8. T \in SUBSET Int /\ m \in T /\ \A y \in T : m >= y
  BY <1>2, <1>4, <1>6
<1> HIDE DEF m
<1>9. Max(T) = m
  BY <1>8, MaxIs
<1>10. QED
  BY <1>1, <1>7, <1>9 DEF b

(* The items of the first picks; and that the picks are different, each    *)
(* the best after those before it, and every place's distance is to all of *)
(* them but the last.                                                      *)
Chain(s, p, m) == {s[p[j]].item : j \in 1 .. m}
PickedWell(x, s, st, k) ==
  /\ Len(st.picked) = k + 1
  /\ \A i, j \in 1 .. k + 1 : st.picked[i] = st.picked[j] => i = j
  /\ \A i \in DOMAIN s : st.sims[i] = Nearest(s[i].item, Chain(s, st.picked, k))
  /\ \A m \in 1 .. k + 1, o \in DOMAIN s :
       (\A j \in 1 .. m - 1 : st.picked[j] # o) =>
         Worthy(x, s[o], Chain(s, st.picked, m - 1))
           <= Worthy(x, s[st.picked[m]], Chain(s, st.picked, m - 1))

(* The next pick keeps that.                                               *)
LEMMA PickedWellNext ==
  ASSUME NEW x, x.request.does = "retrieve", NEW s \in Seq(HitSet), NEW k \in Nat \ {0},
         NEW st \in Picking(s), PickedWell(x, s, st, k - 1),
         NEW next, PicksNext(s, Wish(x), st, next)
  PROVE  PickedWell(x, s, next, k)
<1> DEFINE p == st.picked
           q == Wish(x)
           left == DOMAIN s \ ToSet(p)
           B == Chain(s, p, k)
<1>1. /\ p \in Seq(DOMAIN s) /\ Len(p) = k /\ DOMAIN p = 1 .. k /\ k - 1 + 1 = k
      /\ \A i, j \in 1 .. k : p[i] = p[j] => i = j
      /\ \A i \in DOMAIN s : st.sims[i] = Nearest(s[i].item, Chain(s, p, k - 1))
      /\ \A m \in 1 .. k, o \in DOMAIN s :
           (\A j \in 1 .. m - 1 : p[j] # o) =>
             Worthy(x, s[o], Chain(s, p, m - 1)) <= Worthy(x, s[p[m]], Chain(s, p, m - 1))
  BY DEF Picking, PickedWell
<1>2. PICK c \in left :
        /\ next.picked = Append(p, c)
        /\ \A o \in left : Marginal(s[o], next.sims[o], q) <= Marginal(s[c], next.sims[c], q)
  BY DEF PicksNext
<1>3. \A i \in DOMAIN s : next.sims[i] = Max({st.sims[i], Near[s[i].item, s[p[k]].item]})
  BY <1>1 DEF PicksNext
<1>4. k \in 1 .. k /\ 1 .. k - 1 \subseteq 1 .. k /\ \A j \in 1 .. k : j \in 1 .. k - 1 \/ j = k
  OBVIOUS
<1> HIDE DEF p, q
<1>5. \A i \in DOMAIN s : s[i] \in HitSet /\ s[i].item \in Items
  <2>1. \A i \in DOMAIN s : s[i] \in HitSet
    OBVIOUS
  <2>2. QED
    BY <2>1 DEF HitSet
<1>6. \A j \in 1 .. k : p[j] \in DOMAIN s
  BY <1>1
<1>7. B \in SUBSET Items /\ B # {}
  BY <1>4, <1>5, <1>6 DEF Chain
<1>8. B = Chain(s, p, k - 1) \cup {s[p[k]].item}
  BY <1>4 DEF Chain
<1>9. Chain(s, p, k - 1) \in SUBSET Items
  BY <1>4, <1>5, <1>6 DEF Chain
<1>10. \A i \in DOMAIN s : next.sims[i] = Nearest(s[i].item, B)
  <2>1. ASSUME NEW i \in DOMAIN s PROVE next.sims[i] = Nearest(s[i].item, B)
    <3> DEFINE g == s[i].item
               h == s[p[k]].item
               C == Chain(s, p, k - 1)
    <3>1. g \in Items /\ h \in Items /\ C \in SUBSET Items /\ B = C \cup {h}
      BY <1>4, <1>5, <1>6, <1>8, <1>9
    <3>2. next.sims[i] = Max({Nearest(g, C), Near[g, h]})
      BY <1>1, <1>3
    <3> HIDE DEF g, h, C, B
    <3>3. Max({Nearest(g, C), Near[g, h]}) = Nearest(g, C \cup {h})
      BY <3>1, NearestGrows
    <3>4. QED
      BY <3>1, <3>2, <3>3 DEF g
  <2>2. QED
    BY <2>1
<1>11. ASSUME NEW o \in left PROVE Worthy(x, s[o], B) <= Worthy(x, s[c], B)
  <2>1. \A i \in DOMAIN s : Worthy(x, s[i], B) = Marginal(s[i], next.sims[i], q)
    <3> HIDE DEF B
    <3>1. QED
      BY <1>7, <1>10 DEF Worthy, Nearest, q
  <2>2. QED
    BY <1>2, <2>1
<1> DEFINE r == next.picked
<1>12. /\ Len(r) = k + 1 /\ r[k + 1] = c /\ \A j \in 1 .. k : r[j] = p[j]
  BY <1>1, <1>2
<1>13. \A j \in 1 .. k + 1 : j \in 1 .. k \/ j = k + 1
  OBVIOUS
<1> HIDE DEF r
<1>14. \A m \in 0 .. k : Chain(s, r, m) = Chain(s, p, m)
  <2>1. ASSUME NEW m \in 0 .. k PROVE Chain(s, r, m) = Chain(s, p, m)
    <3>1. \A j \in 1 .. m : r[j] = p[j]
      BY <1>12
    <3>2. QED
      BY <3>1 DEF Chain
  <2>2. QED
    BY <2>1
<1>15. \A j \in 1 .. k : p[j] # c /\ p[j] \in ToSet(p)
  BY <1>1, <1>2 DEF ToSet
<1>16. \A i, j \in 1 .. k + 1 : r[i] = r[j] => i = j
  BY <1>1, <1>12, <1>13, <1>15
<1>17. ASSUME NEW m \in 1 .. k + 1, NEW o \in DOMAIN s, \A j \in 1 .. m - 1 : r[j] # o
       PROVE  Worthy(x, s[o], Chain(s, r, m - 1)) <= Worthy(x, s[r[m]], Chain(s, r, m - 1))
  <2>1. CASE m \in 1 .. k
    <3>1. m - 1 \in 0 .. k /\ 1 .. m - 1 \subseteq 1 .. k
      BY <2>1
    <3>2. \A j \in 1 .. m - 1 : p[j] # o
      BY <1>12, <1>17, <3>1
    <3>3. Worthy(x, s[o], Chain(s, p, m - 1)) <= Worthy(x, s[p[m]], Chain(s, p, m - 1))
      BY <1>1, <2>1, <3>2
    <3>4. Chain(s, r, m - 1) = Chain(s, p, m - 1) /\ r[m] = p[m]
      BY <1>12, <1>14, <2>1, <3>1
    <3>5. QED
      BY <3>3, <3>4
  <2>2. CASE m = k + 1
    <3>1. m - 1 = k /\ k \in 0 .. k
      BY <2>2
    <3>2. o \in left
      BY <1>1, <1>12, <1>17, <3>1 DEF ToSet
    <3>3. Chain(s, r, m - 1) = B /\ r[m] = c
      BY <1>12, <1>14, <2>2, <3>1
    <3> HIDE DEF left, B
    <3>4. QED
      BY <1>11, <3>2, <3>3
  <2>3. QED
    BY <1>13, <2>1, <2>2
<1>18. \A i \in DOMAIN s : next.sims[i] = Nearest(s[i].item, Chain(s, r, k))
  BY <1>10, <1>14
<1>19. QED
  BY <1>12, <1>16, <1>17, <1>18 DEF PickedWell, r

(* So what is picked are different tools, as many as are wanted and there  *)
(* are, each the best after those before it.                               *)
LEMMA DiverseIs ==
  ASSUME NEW x, Asking(x), x.request.does = "retrieve",
         NEW s \in Seq(HitSet), Len(s) > 0, Apart(s)
  PROVE  LET A == Diverse(s, Wish(x))
         IN  /\ A \in Seq(ToSet(s)) /\ Apart(A) /\ Len(A) = HowMany(s, Wish(x))
             /\ Foremost(x, A, ToSet(s))
<1> DEFINE q == Wish(x)
           d == [q EXCEPT !.diversity = 0]
           n == HowMany(s, q) - 1
           none == [i \in DOMAIN s |-> 0]
           A == Diverse(s, q)
<1>1. q.diversity \in Int /\ q.limit \in Nat \ {0} /\ d.diversity = 0
  BY WishShape DEF Asking
<1>2. /\ n \in Nat /\ n < Len(s)
      /\ \E K \in [0 .. n -> Picking(s)] :
           /\ K[0].sims = none
           /\ \E i \in DOMAIN s : /\ K[0].picked = <<i>>
                                  /\ \A o \in DOMAIN s : s[o].score <= s[i].score
           /\ \A k \in 1 .. n : K[k] = NextPick(K[k - 1], s, q)
           /\ \A k \in 0 .. n : Len(K[k].picked) = k + 1
           /\ A = [m \in DOMAIN K[n].picked |-> s[K[n].picked[m]]]
  <2> HIDE DEF q
  <2>1. QED
    BY <1>1, DiverseSteps
<1>3. HowMany(s, q) = n + 1
  <2>1. HowMany(s, q) \in Int
    BY <1>1 DEF HowMany
  <2>2. QED
    BY <2>1
<1> HIDE DEF n, A
<1>4. PICK K \in [0 .. n -> Picking(s)] :
           /\ K[0].sims = none
           /\ \E i \in DOMAIN s : /\ K[0].picked = <<i>>
                                  /\ \A o \in DOMAIN s : s[o].score <= s[i].score
           /\ \A k \in 1 .. n : K[k] = NextPick(K[k - 1], s, q)
           /\ \A k \in 0 .. n : Len(K[k].picked) = k + 1
           /\ A = [m \in DOMAIN K[n].picked |-> s[K[n].picked[m]]]
  BY <1>2
<1>5. \A i \in DOMAIN s : s[i] \in HitSet /\ s[i].item \in Items /\ s[i].score \in Int
  <2>1. \A i \in DOMAIN s : s[i] \in HitSet
    OBVIOUS
  <2>2. QED
    BY <2>1 DEF HitSet
<1> DEFINE T == {k \in 0 .. n : PickedWell(x, s, K[k], k)}
<1>6. 0 \in T
  <2> DEFINE st == K[0]
             p == st.picked
  <2>1. PICK c \in DOMAIN s : p = <<c>> /\ \A o \in DOMAIN s : s[o].score <= s[c].score
    BY <1>4
  <2>2. Len(p) = 1 /\ p[1] = c /\ st.sims = none
    BY <1>4, <2>1
  <2>3. \A m : Chain(s, p, 0) = {}
    BY DEF Chain
  <2>4. \A i \in DOMAIN s : none[i] = Nearest(s[i].item, {})
    <3> DEFINE B == {}
    <3>1. ASSUME NEW i \in DOMAIN s PROVE Nearest(s[i].item, B) = 0
      <4>1. s[i].item \in Items /\ B \in SUBSET Items /\ B = {}
        BY <1>5
      <4> HIDE DEF B
      <4>2. QED
        BY <4>1, NearestIs DEF Nearest
    <3>2. QED
      BY <3>1
  <2> HIDE DEF st, p, none
  <2>5. \A i \in DOMAIN s : st.sims[i] = Nearest(s[i].item, Chain(s, p, 0))
    BY <2>2, <2>3, <2>4
  <2>6. ASSUME NEW o \in DOMAIN s
        PROVE  Worthy(x, s[o], Chain(s, p, 0)) <= Worthy(x, s[p[1]], Chain(s, p, 0))
    <3> DEFINE B == Chain(s, p, 0)
    <3>1. B \in SUBSET Items /\ B = {}
      BY <2>3
    <3> HIDE DEF B
    <3>2. \A i \in DOMAIN s : Worthy(x, s[i], B) = 10 * s[i].score
      <4>1. ASSUME NEW i \in DOMAIN s PROVE Worthy(x, s[i], B) = 10 * s[i].score
        <5>1. s[i] \in HitSet
          BY <1>5
        <5>2. QED
          BY <3>1, <5>1, PlainWorth
      <4>2. QED
        BY <4>1
    <3>3. s[o].score <= s[c].score /\ s[o].score \in Int /\ s[c].score \in Int
      BY <1>5, <2>1
    <3>4. Worthy(x, s[o], B) <= Worthy(x, s[c], B)
      BY <3>2, <3>3
    <3>5. QED
      BY <2>2, <3>4 DEF B
  <2>7. \A m \in 1 .. 0 + 1 : m = 1 /\ m - 1 = 0
    OBVIOUS
  <2>8. PickedWell(x, s, st, 0)
    BY <2>2, <2>5, <2>6, <2>7 DEF PickedWell, p
  <2>9. QED
    BY <1>2, <2>8 DEF st
<1>7. ASSUME NEW k \in 0 .. n, k # 0, k - 1 \in T PROVE k \in T
  <2> DEFINE st == K[k - 1]
             next == K[k]
  <2>1. k \in 1 .. n /\ k - 1 \in 0 .. n /\ k \in Nat \ {0}
    BY <1>2, <1>7
  <2>2. st \in Picking(s) /\ Len(st.picked) = k - 1 + 1 /\ next = NextPick(st, s, q)
    BY <1>4, <2>1
  <2>3. PickedWell(x, s, st, k - 1)
    BY <1>7
  <2> HIDE DEF st, next
  <2>4. DOMAIN s \ ToSet(st.picked) # {}
    <3>1. st.picked \in Seq(DOMAIN s)
      BY <2>2 DEF Picking
    <3>2. Len(st.picked) < Len(s)
      BY <1>2, <2>1, <2>2
    <3>3. QED
      BY <3>1, <3>2, SomeLeft
  <2>5. PicksNext(s, q, st, next)
    <3> HIDE DEF q
    <3>1. QED
      BY <1>1, <2>2, <2>4, NextPickIs
  <2>6. PickedWell(x, s, next, k)
    BY <2>1, <2>2, <2>3, <2>5, PickedWellNext
  <2>7. QED
    BY <2>6 DEF next
<1>8. PickedWell(x, s, K[n], n) /\ K[n] \in Picking(s)
  <2> HIDE DEF T
  <2>1. \A k \in 0 .. n : k \in T
    BY <1>2, <1>6, <1>7, UpTo
  <2>2. n \in 0 .. n
    BY <1>2
  <2>3. QED
    BY <2>1, <2>2 DEF T
<1> DEFINE p == K[n].picked
<1>9. /\ p \in Seq(DOMAIN s) /\ Len(p) = n + 1
      /\ \A i, j \in 1 .. n + 1 : p[i] = p[j] => i = j
      /\ \A m \in 1 .. n + 1, o \in DOMAIN s :
           (\A j \in 1 .. m - 1 : p[j] # o) =>
             Worthy(x, s[o], Chain(s, p, m - 1)) <= Worthy(x, s[p[m]], Chain(s, p, m - 1))
  BY <1>8 DEF PickedWell, Picking
<1>10. A = [m \in DOMAIN p |-> s[p[m]]]
  BY <1>4
<1> HIDE DEF p
<1>11. /\ DOMAIN p = 1 .. n + 1 /\ \A m \in 1 .. n + 1 : p[m] \in DOMAIN s
       /\ DOMAIN A = 1 .. n + 1 /\ \A m \in 1 .. n + 1 : A[m] = s[p[m]]
  BY <1>9, <1>10
<1>12. A \in Seq(ToSet(s)) /\ Len(A) = n + 1
  <2>1. \A m \in 1 .. n + 1 : s[p[m]] \in ToSet(s)
    BY <1>11 DEF ToSet
  <2>2. A = [m \in 1 .. n + 1 |-> A[m]]
    BY <1>10, <1>11
  <2>3. A \in [1 .. n + 1 -> ToSet(s)]
    BY <1>11, <2>1, <2>2
  <2>4. n + 1 \in Nat
    BY <1>2
  <2>5. QED
    BY <2>3, <2>4
<1>13. Apart(A)
  BY <1>9, <1>11 DEF Apart
<1>14. ASSUME NEW m \in DOMAIN A, NEW h \in ToSet(s), h.item \notin Before(A, m)
       PROVE  Worthy(x, h, Before(A, m)) <= Worthy(x, A[m], Before(A, m))
  <2>1. m \in 1 .. n + 1 /\ 1 .. m - 1 \subseteq 1 .. n + 1
    BY <1>2, <1>11
  <2>2. PICK o \in DOMAIN s : h = s[o]
    BY DEF ToSet
  <2>3. Before(A, m) = Chain(s, p, m - 1)
    <3>1. \A j \in 1 .. m - 1 : A[j] = s[p[j]]
      BY <1>11, <2>1
    <3>2. QED
      BY <3>1 DEF Before, Chain
  <2>4. \A j \in 1 .. m - 1 : p[j] # o
    BY <1>14, <2>2, <2>3 DEF Chain
  <2>5. QED
    BY <1>9, <1>11, <2>1, <2>2, <2>3, <2>4
<1>15. QED
  BY <1>3, <1>12, <1>13, <1>14 DEF Foremost, A, q

(* What the router chooses of different tools.                             *)
LEMMA ChosenIs ==
  ASSUME NEW x, Asking(x), x.request.does = "retrieve", NEW s \in Seq(HitSet), Apart(s)
  PROVE  LET q == Wish(x)
             A == Chosen(s, q)
         IN  /\ A \in Seq(ToSet(s)) /\ Apart(A) /\ Len(A) = HowMany(s, q)
             /\ Sorted(s) => Foremost(x, A, ToSet(s))
             /\ q.diversity = 0 => A = Top(s, q.limit)
<1> DEFINE q == Wish(x)
           A == Chosen(s, q)
           S == ToSet(s)
           limit == q.limit
<1>1. q.diversity \in 0 .. 10 /\ limit \in Nat \ {0} /\ Len(s) \in Nat
  BY WishShape DEF Asking
<1>2. s \in Seq(S) /\ S \in SUBSET HitSet
  <2>1. \A n \in DOMAIN s : s[n] \in S /\ s[n] \in HitSet
    BY DEF ToSet
  <2>2. s \in Seq(S)
    <3> HIDE DEF S
    <3>1. QED
      BY <2>1, OverElements
  <2>3. S \in SUBSET HitSet
    BY <2>1 DEF ToSet
  <2>4. QED
    BY <2>2, <2>3
<1>3. HowMany(s, q) = IF limit <= Len(s) THEN limit ELSE Len(s)
  BY DEF HowMany
<1>4. CASE q.diversity > 0 /\ Len(s) > 1
  <2> DEFINE D == Diverse(s, q)
  <2>1. D \in Seq(S) /\ Apart(D) /\ Len(D) = HowMany(s, q) /\ Foremost(x, D, S)
    BY <1>4, DiverseIs
  <2>2. A = Top(D, limit)
    BY <1>4 DEF Chosen
  <2> HIDE DEF D, A, S, limit
  <2>3. Len(D) <= limit
    BY <1>1, <1>3, <2>1
  <2>4. A = D
    BY <1>1, <2>1, <2>2, <2>3, TopOfFew
  <2>5. q.diversity # 0
    BY <1>1, <1>4
  <2>6. QED
    BY <2>1, <2>4, <2>5 DEF A, S
<1>5. CASE ~(q.diversity > 0 /\ Len(s) > 1)
  <2>1. A = Top(s, limit)
    BY <1>5 DEF Chosen
  <2> HIDE DEF A, limit
  <2>2. A \in Seq(S) /\ Apart(A) /\ Len(A) = HowMany(s, q)
    <3> HIDE DEF S
    <3> DEFINE top == Top(s, limit)
    <3>1. /\ top \in Seq(S) /\ (Apart(s) => Apart(top))
          /\ Len(top) = IF limit <= Len(s) THEN limit ELSE Len(s)
      BY <1>1, <1>2, TopElements
    <3>2. QED
      BY <1>3, <2>1, <3>1
  <2>3. ASSUME Sorted(s) PROVE Foremost(x, A, S)
    <3>1. Rated(S)
      BY <1>2 DEF Rated, HitSet
    <3>2. ToSet(s) = S
      OBVIOUS
    <3> HIDE DEF S
    <3>3. Best(A, S, limit)
      BY <1>1, <1>2, <2>1, <2>3, <3>1, <3>2, TopIsBest
    <3>4. q.diversity = 0 \/ Len(A) <= 1
      BY <1>1, <1>3, <1>5, <2>2
    <3>5. limit \in Nat
      BY <1>1
    <3>6. QED
      BY <1>2, <3>3, <3>4, <3>5, BestForemost
  <2>4. QED
    BY <2>1, <2>2, <2>3 DEF A, S, limit
<1>6. QED
  BY <1>4, <1>5

-----------------------------------------------------------------------------
(* Answers of the router                                                   *)

(* What is given of tools is allowed.                                      *)
Gives(x, e, live, r) ==
  LET most == MostGiven(x.request.query)
  IN  /\ x.hits \in Seq(HitSet) /\ Apart(x.hits) /\ Len(x.hits) <= most
      /\ \A n \in DOMAIN x.hits : \E h \in Eligible(x, e, live) : h.item = x.hits[n].item
      /\ x.request.query.through # "bridge" =>
           /\ x.hits = Top(Chosen(r, Wish(x)), most)
           /\ Len(x.hits) = IF most <= Len(r) THEN most ELSE Len(r)

(* It is, when each of the tools is offered and none is there twice.       *)
LEMMA RouteAllowed ==
  ASSUME NEW x, Asking(x), x.request.does = "retrieve", NEW e \in Embedders, NEW live,
         NEW r \in Seq(HitSet), Apart(r),
         \A h \in ToSet(r) : \E o \in Offers(x, e, live) : o.item = h.item,
         x.hits = get_tools(Chosen(r, Wish(x)), x.request.query)
  PROVE  Gives(x, e, live, r)
<1> DEFINE q == Wish(x)
           asked == x.request.query
           A == Chosen(r, q)
           hits == x.hits
           most == MostGiven(asked)
<1>1. /\ q.limit \in Nat \ {0} /\ most \in Nat \ {0} /\ most <= q.limit
  BY WishShape DEF Asking
<1>2. A \in Seq(ToSet(r)) /\ Apart(A) /\ Len(A) = IF q.limit <= Len(r) THEN q.limit ELSE Len(r)
  BY ChosenIs DEF HowMany
<1>3. ToSet(r) \subseteq HitSet /\ Len(r) \in Nat
  BY DEF ToSet
<1>4. hits = get_tools(A, asked)
  OBVIOUS
<1> HIDE DEF hits, A, most
<1>5. A \in Seq(HitSet) /\ Len(A) <= q.limit
  BY <1>1, <1>2, <1>3
<1>6. /\ hits \in Seq(HitSet) /\ ToSet(hits) \subseteq ToSet(A) /\ Apart(hits)
      /\ Len(hits) <= most
      /\ asked.through # "bridge" => hits = Top(A, most)
  BY <1>2, <1>4, <1>5, GivenIs DEF most
<1>7. ASSUME NEW n \in DOMAIN hits
      PROVE  \E h \in Eligible(x, e, live) : h.item = hits[n].item
  <2>1. ToSet(A) \subseteq ToSet(r)
    BY <1>2 DEF ToSet
  <2>2. hits[n] \in ToSet(r)
    BY <1>6, <2>1 DEF ToSet
  <2>3. PICK o \in Offers(x, e, live) : o.item = hits[n].item
    BY <2>2
  <2>4. \E h \in Eligible(x, e, live) : o = Valued(x, h, live) /\ o.item = h.item
    BY OfferHits
  <2>5. QED
    BY <2>3, <2>4
<1>8. ASSUME asked.through # "bridge"
      PROVE  Len(hits) = IF most <= Len(r) THEN most ELSE Len(r)
  <2> DEFINE top == Top(A, most)
  <2>1. Len(top) = IF most <= Len(A) THEN most ELSE Len(A)
    BY <1>1, <1>5, TopElements
  <2>2. hits = top
    BY <1>6, <1>8
  <2> HIDE DEF top
  <2>3. QED
    BY <1>1, <1>2, <1>3, <2>1, <2>2
<1>9. QED
  BY <1>6, <1>7, <1>8 DEF Gives, hits, A, most

(* What is offered, when the store gave all that fits.                     *)
LEMMA OfferCount ==
  ASSUME NEW x, Asking(x), NEW e \in Embedders, NEW live,
         NEW Z \in Seq(Offers(x, e, live)), Apart(Z), ToSet(Z) = Offers(x, e, live)
  PROVE  Cardinality(Offers(x, e, live)) = Len(Z)
BY ApartCount

(* What a threshold is compared with, and that it is of the greater scores.*)
LEMMA WithinIs ==
  ASSUME NEW asked, asked.cutoff \in ThresholdType, NEW best \in Int,
         NEW a \in Int, NEW b \in Int, b >= a, Within(a, best, asked)
  PROVE  Within(b, best, asked)
<1> DEFINE c == _parse_threshold(asked.cutoff)
           m == IF c.relative THEN best ELSE 1000
           given == IF asked.cutoff.kind = "none" THEN BridgeThreshold ELSE asked.cutoff
<1>1. given \in ThresholdType
  BY QueryAssumption
<1>2. given.kind = "none" \/ given.at \in 0 .. 1000
  BY <1>1 DEF ThresholdType
<1>3. c.at = IF given.kind = "none" THEN 0 ELSE given.at
  BY DEF _parse_threshold
<1> HIDE DEF given
<1>4. c.at \in Int
  BY <1>2, <1>3
<1>5. m \in Int
  OBVIOUS
<1>6. \A k \in Int : Within(k, best, asked) <=> 1000 * k >= c.at * m
  BY DEF Within
<1> HIDE DEF c, m
<1> DEFINE d == c.at * m
<1>7. d \in Int
  BY <1>4, <1>5
<1>8. \A k \in Int : Within(k, best, asked) <=> 1000 * k >= d
  BY <1>6
<1> HIDE DEF d
<1>9. QED
  BY <1>7, <1>8

(* The best have the greatest score there is.                              *)
LEMMA GreatestOfBest ==
  ASSUME NEW S \in SUBSET HitSet, \A h \in S : h.score \in Nat,
         NEW limit \in Nat \ {0}, NEW A, Best(A, S, limit)
  PROVE  Greatest(ToSet(A)) = Greatest(S) /\ Greatest(S) \in Int
<1> DEFINE m == IF Len(A) = 0 THEN 0 ELSE A[1].score
           P == {0} \cup {h.score : h \in ToSet(A)}
           Q == {0} \cup {h.score : h \in S}
<1>1. /\ A \in Seq(S) /\ Len(A) \in Nat /\ DOMAIN A = 1 .. Len(A)
      /\ \A i \in DOMAIN A : A[1].score >= A[i].score \/ 1 \notin DOMAIN A
      /\ \A c \in S : \/ c \in ToSet(A)
                      \/ Len(A) = limit /\ \A n \in DOMAIN A : A[n].score >= c.score
  <2>1. A \in Seq(S) /\ Sorted(A)
    BY DEF Best
  <2>2. Len(A) \in Nat /\ DOMAIN A = 1 .. Len(A)
    BY <2>1
  <2>3. \A i \in DOMAIN A : 1 \in DOMAIN A => A[1].score >= A[i].score
    BY <2>1, <2>2 DEF Sorted
  <2>4. QED
    BY <2>1, <2>2, <2>3 DEF Best
<1>2. ToSet(A) \subseteq S /\ \A i \in DOMAIN A : A[i] \in ToSet(A) /\ A[i] \in S
  <2>1. A \in Seq(S)
    BY <1>1
  <2>2. \A i \in DOMAIN A : A[i] \in S
    BY <2>1
  <2>3. QED
    BY <2>2 DEF ToSet
<1>3. Len(A) # 0 => 1 \in DOMAIN A
  <2>1. Len(A) \in Nat /\ DOMAIN A = 1 .. Len(A)
    BY <1>1
  <2>2. QED
    BY <2>1
<1>4. Len(A) = 0 => S = {}
  BY <1>1 DEF ToSet
<1>5. ToSet(A) = {A[i] : i \in DOMAIN A}
  BY DEF ToSet
<1>6. m \in Nat /\ m \in P /\ m \in Q
  BY <1>1, <1>2, <1>3
<1>7. \A h \in S : m >= h.score
  <2>1. ASSUME NEW h \in S PROVE m >= h.score
    <3>1. Len(A) # 0 /\ 1 \in DOMAIN A /\ m = A[1].score
      BY <1>3, <1>4
    <3>2. A[1].score >= h.score
      BY <1>1, <1>5, <3>1
    <3>3. QED
      BY <3>1, <3>2
  <2>2. QED
    BY <2>1
<1>8. P \subseteq Q
  BY <1>2
<1>9. Q \in SUBSET Int
  OBVIOUS
<1> HIDE DEF m
<1>10. \A y \in Q : m >= y
  BY <1>6, <1>7
<1> HIDE DEF P, Q
<1>11. Max(P) = m /\ Max(Q) = m
  <2>1. P \in SUBSET Int /\ \A y \in P : m >= y
    BY <1>8, <1>9, <1>10
  <2>2. QED
    BY <1>6, <1>9, <1>10, <2>1, MaxIs
<1>12. QED
  BY <1>6, <1>11 DEF Greatest, P, Q

(* Without a reranker the best is given, or what the bridge leaves of it.  *)
LEMMA PlainReply ==
  ASSUME NEW x, Asking(x), x.request.does = "retrieve", ~Wish(x).rerank,
         NEW e \in Embedders, NEW live,
         NEW Z \in Seq(Offers(x, e, live)), Apart(Z), Sorted(Z),
         Whole(x, e) => ToSet(Z) = Offers(x, e, live),
         x.hits = get_tools(Chosen(Z, Wish(x)), x.request.query)
  PROVE  Reply(x, e, live)
<1> DEFINE q == Wish(x)
           asked == x.request.query
           limit == q.limit
           most == MostGiven(asked)
           S == Offers(x, e, live)
           left == Left(x, e, live)
           A == Chosen(Z, q)
           hits == x.hits
<1>1. /\ limit \in Nat \ {0} /\ most \in Nat \ {0} /\ most <= limit /\ q.through = asked.through
      /\ asked.through = "bridge" =>
           asked.limit \in Nat /\ most = IF asked.limit <= limit THEN asked.limit ELSE limit
  BY WishShape DEF Asking
<1>2. S \in SUBSET HitSet /\ IsFiniteSet(S) /\ \A h \in S : h.score \in Nat
  BY OfferHits
<1>3. Z \in Seq(HitSet)
  BY <1>2
<1>4. \A h \in ToSet(Z) : \E o \in S : o.item = h.item
  <2>1. Z \in Seq(S)
    OBVIOUS
  <2> HIDE DEF S
  <2>2. \A n \in DOMAIN Z : Z[n] \in S
    BY <2>1
  <2>3. QED
    BY <2>2 DEF ToSet
<1>5. /\ hits \in Seq(HitSet) /\ Apart(hits) /\ Len(hits) <= most
      /\ \A n \in DOMAIN hits : \E h \in Eligible(x, e, live) : h.item = hits[n].item
      /\ asked.through # "bridge" =>
           /\ hits = Top(A, most)
           /\ Len(hits) = IF most <= Len(Z) THEN most ELSE Len(Z)
  <2>1. Gives(x, e, live, Z)
    BY <1>3, <1>4, RouteAllowed
  <2>2. QED
    BY <2>1 DEF Gives
<1>6. /\ A \in Seq(ToSet(Z)) /\ Apart(A) /\ Foremost(x, A, ToSet(Z))
      /\ q.diversity = 0 => A = Top(Z, limit)
  BY <1>3, ChosenIs
<1> HIDE DEF limit, most, hits, A, left
<1>7. ASSUME Whole(x, e), asked.through # "bridge"
      PROVE  /\ Len(hits) = IF most <= Cardinality(left) THEN most ELSE Cardinality(left)
             /\ hits \in Seq(left) /\ Foremost(x, hits, left)
  <2>1. left = S
    BY <1>7 DEF left, Left, Bridged
  <2>2. ToSet(Z) = S
    BY <1>7
  <2>3. Cardinality(S) = Len(Z)
    BY <2>2, OfferCount
  <2> HIDE DEF S
  <2>4. A \in Seq(S) /\ A \in Seq(HitSet) /\ Foremost(x, A, S) /\ most \in Nat
    BY <1>1, <1>2, <1>6, <2>2
  <2>5. Top(A, most) \in Seq(S)
    BY <2>4, TopElements
  <2>6. Foremost(x, Top(A, most), S)
    BY <2>4, TopForemost
  <2>7. QED
    BY <1>5, <1>7, <2>1, <2>3, <2>5, <2>6
<1>8. ASSUME Whole(x, e), asked.through = "bridge", q.diversity = 0
      PROVE  /\ Len(hits) = IF most <= Cardinality(left) THEN most ELSE Cardinality(left)
             /\ hits \in Seq(left) /\ Foremost(x, hits, left)
  <2> DEFINE best == Greatest(S)
             Wi == {h \in HitSet : Within(h.score, best, asked)}
             kept == Kept(A, Wi)
             B == S \cap Wi
             n == asked.limit
  <2>1. A = Top(Z, limit)
    BY <1>6, <1>8
  <2>2. ToSet(Z) = S /\ Z \in Seq(S) /\ Rated(S) /\ limit \in Nat
    BY <1>1, <1>2, <1>8 DEF Rated
  <2>3. Best(A, S, limit)
    <3> HIDE DEF S
    <3>1. Best(Top(Z, limit), S, limit)
      BY <2>2, TopIsBest
    <3>2. QED
      BY <2>1, <3>1
  <2>4. Greatest(ToSet(A)) = best /\ best \in Int
    <3> HIDE DEF S
    <3>1. QED
      BY <1>1, <1>2, <2>3, GreatestOfBest
  <2>5. A \in Seq(HitSet)
    BY <1>2, <2>3 DEF Best
  <2>6. hits = Top(kept, n)
    <3>1. hits = get_tools(A, asked)
      BY DEF hits, A
    <3>2. get_tools(A, asked) = _apply_threshold(A, asked)
      BY <1>8 DEF get_tools
    <3>3. _apply_threshold(A, asked)
            = Top(Kept(A, {h \in HitSet : Within(h.score, Greatest(ToSet(A)), asked)}), asked.limit)
      BY <2>5, ThresholdKeeps
    <3> HIDE DEF best
    <3>4. QED
      BY <2>4, <3>1, <3>2, <3>3
  <2>7. left = B
    <3>1. left = {h \in S : Within(h.score, best, asked)}
      BY <1>8 DEF left, Left, Bridged
    <3> HIDE DEF best, S
    <3>2. QED
      BY <1>2, <3>1
  <2> HIDE DEF best
  <2>8. ASSUME NEW g \in S \cap Wi, NEW f \in S, f.score >= g.score PROVE f \in Wi
    <3> DEFINE a == g.score
               b == f.score
    <3>1. a \in Int /\ b \in Int /\ b >= a /\ f \in HitSet /\ Within(a, best, asked)
      BY <1>2, <2>8
    <3>2. asked.cutoff \in ThresholdType
      BY DEF Asking, QueryType
    <3> HIDE DEF a, b, asked
    <3>3. Within(b, best, asked)
      BY <2>4, <3>1, <3>2, WithinIs
    <3>4. QED
      BY <3>1, <3>3 DEF b
  <2> HIDE DEF S, Wi
  <2>9. Best(kept, B, limit)
    BY <2>2, <2>3, <2>8, KeptIsBest
  <2>10. n \in Nat /\ most = IF n <= limit THEN n ELSE limit
    BY <1>1, <1>8
  <2>11. B \in SUBSET HitSet /\ IsFiniteSet(B)
    BY <1>2, FS_Subset
  <2> HIDE DEF kept, n, B
  <2>12. Best(hits, B, most)
    <3>1. CASE n <= limit
      <4>1. Best(Top(kept, n), B, n)
        BY <2>2, <2>9, <2>10, <3>1, TopOfBest
      <4>2. QED
        BY <2>6, <2>10, <3>1, <4>1
    <3>2. CASE ~(n <= limit)
      <4>1. kept \in Seq(B) /\ Len(kept) <= limit
        BY <2>9 DEF Best
      <4>2. Len(kept) <= n
        BY <2>2, <2>10, <3>2, <4>1
      <4>3. Top(kept, n) = kept
        BY <2>10, <4>1, <4>2, TopOfFew
      <4>4. QED
        BY <2>6, <2>9, <2>10, <3>2, <4>3
    <3>3. QED
      BY <3>1, <3>2
  <2>13. most \in Nat
    BY <1>1
  <2>14. Len(hits) = IF most <= Cardinality(B) THEN most ELSE Cardinality(B)
    BY <2>11, <2>12, <2>13, BestCount
  <2>15. Foremost(x, hits, B)
    BY <1>8, <2>11, <2>12, <2>13, BestForemost
  <2>16. hits \in Seq(B)
    BY <2>12 DEF Best
  <2>17. QED
    BY <2>7, <2>14, <2>15, <2>16
<1>9. QED
  BY <1>1, <1>5, <1>7, <1>8 DEF Reply, hits, most, left

(* A reranker gives a few of the tools, each once, with other scores.      *)
Fewer(r, Z, limit) ==
  /\ r \in Seq(HitSet) /\ Apart(r)
  /\ Len(r) = IF limit <= Len(Z) THEN limit ELSE Len(Z)
  /\ \A n \in DOMAIN r : \E m \in DOMAIN Z : r[n].item = Z[m].item

(* Whatever it does, or if it fails.                                       *)
LEMMA RerankedIs ==
  ASSUME NEW Z \in Seq(HitSet), Apart(Z), NEW q, q.limit \in Nat,
         NEW r \in Rerankings(Z, q) \cup {Top(Z, q.limit)}
  PROVE  Fewer(r, Z, q.limit)
<1> DEFINE limit == q.limit
           n == Min({limit, Len(Z)})
           k == IF limit <= Len(Z) THEN limit ELSE Len(Z)
<1>1. Len(Z) \in Nat /\ DOMAIN Z = 1 .. Len(Z) /\ limit \in Nat
  OBVIOUS
<1>2. n = k /\ k \in Nat
  <2> DEFINE b == Len(Z)
  <2>1. limit \in Int /\ b \in Int
    BY <1>1
  <2> HIDE DEF limit, b
  <2>2. Min({limit, b}) = IF limit <= b THEN limit ELSE b
    BY <2>1, OfTwo
  <2>3. QED
    BY <1>1, <2>2 DEF b
<1>3. CASE r = Top(Z, q.limit)
  <2>1. /\ r \in Seq(HitSet) /\ Apart(r) /\ Len(r) = k
        /\ \A i \in 1 .. k : i \in 1 .. Len(Z) /\ r[i] = Z[i]
    BY <1>3, TopElements
  <2> HIDE DEF limit, n, k
  <2>2. DOMAIN r = 1 .. k
    BY <1>2, <2>1
  <2>3. \A i \in DOMAIN r : \E m \in DOMAIN Z : r[i].item = Z[m].item
    BY <1>1, <2>1, <2>2
  <2>4. QED
    BY <2>1, <2>3 DEF Fewer, k, limit
<1>4. CASE r \in Rerankings(Z, q)
  <2>1. PICK p \in {f \in [1 .. n -> DOMAIN Z] : IsInjective(f)} :
          r = [m \in 1 .. n |-> [Z[p[m]] EXCEPT !.score = 1000 - 100 * m]]
    BY <1>4 DEF Rerankings
  <2> HIDE DEF limit, n, k
  <2>2. /\ DOMAIN r = 1 .. k /\ p \in [1 .. k -> DOMAIN Z]
        /\ \A i, j \in 1 .. k : p[i] = p[j] => i = j
        /\ \A m \in 1 .. k : r[m] = [Z[p[m]] EXCEPT !.score = 1000 - 100 * m]
    BY <1>2, <2>1 DEF IsInjective
  <2>3. p \in [1 .. k -> DOMAIN Z]
    BY <2>2
  <2>4. ASSUME NEW m \in 1 .. k PROVE r[m] \in HitSet /\ r[m].item = Z[p[m]].item
    <3> DEFINE h == Z[p[m]]
               c == 1000 - 100 * m
    <3>1. h \in HitSet /\ c \in Int /\ r[m] = [h EXCEPT !.score = c]
      BY <1>2, <2>2
    <3> HIDE DEF h, c
    <3>2. r[m] \in HitSet /\ r[m].item = h.item
      BY <3>1, Rescored
    <3>3. QED
      BY <3>2 DEF h
  <2>5. r \in Seq(HitSet) /\ Len(r) = k
    <3>1. r = [m \in 1 .. k |-> r[m]]
      BY <1>2, <2>1
    <3>2. r \in [1 .. k -> HitSet]
      BY <2>4, <3>1
    <3>3. QED
      BY <1>2, <3>2
  <2>6. \A m \in DOMAIN r : p[m] \in DOMAIN Z /\ r[m].item = Z[p[m]].item
    <3>1. \A m \in 1 .. k : r[m].item = Z[p[m]].item
      BY <2>4
    <3>2. \A m \in 1 .. k : p[m] \in DOMAIN Z
      BY <2>3
    <3>3. DOMAIN r = 1 .. k
      BY <2>2
    <3>4. QED
      BY <3>1, <3>2, <3>3
  <2>7. Apart(r)
    <3>1. \A m, n1 \in DOMAIN Z : Z[m].item = Z[n1].item => m = n1
      BY DEF Apart
    <3>2. QED
      BY <2>2, <2>6, <3>1 DEF Apart
  <2>8. \A m \in DOMAIN r : \E j \in DOMAIN Z : r[m].item = Z[j].item
    BY <2>6
  <2>9. QED
    BY <2>5, <2>7, <2>8 DEF Fewer, k, limit
<1>5. QED
  BY <1>3, <1>4

(* So what is given of a reranker's is allowed, and as many as there are.  *)
LEMMA RerankedReply ==
  ASSUME NEW x, Asking(x), x.request.does = "retrieve", Wish(x).rerank,
         NEW e \in Embedders, NEW live,
         NEW Z \in Seq(Offers(x, e, live)), Apart(Z),
         Whole(x, e) => ToSet(Z) = Offers(x, e, live),
         NEW r, Fewer(r, Z, Wish(x).limit),
         x.hits = get_tools(Chosen(r, Wish(x)), x.request.query)
  PROVE  Reply(x, e, live)
<1> DEFINE q == Wish(x)
           asked == x.request.query
           limit == q.limit
           most == MostGiven(asked)
           S == Offers(x, e, live)
           left == Left(x, e, live)
           hits == x.hits
<1>1. limit \in Nat \ {0} /\ most \in Nat \ {0} /\ most <= limit /\ q.through = asked.through
  BY WishShape DEF Asking
<1>2. /\ r \in Seq(HitSet) /\ Apart(r)
      /\ Len(r) = IF limit <= Len(Z) THEN limit ELSE Len(Z)
      /\ \A n \in DOMAIN r : \E m \in DOMAIN Z : r[n].item = Z[m].item
  BY DEF Fewer
<1>3. Len(Z) \in Nat /\ \A m \in DOMAIN Z : Z[m] \in S
  <2>1. Z \in Seq(S)
    OBVIOUS
  <2> HIDE DEF S
  <2>2. QED
    BY <2>1
<1>4. \A h \in ToSet(r) : \E o \in S : o.item = h.item
  <2> HIDE DEF S
  <2>1. QED
    BY <1>2, <1>3 DEF ToSet
<1>5. /\ hits \in Seq(HitSet) /\ Apart(hits) /\ Len(hits) <= most
      /\ \A n \in DOMAIN hits : \E h \in Eligible(x, e, live) : h.item = hits[n].item
      /\ asked.through # "bridge" => Len(hits) = IF most <= Len(r) THEN most ELSE Len(r)
  <2>1. r \in Seq(HitSet) /\ Apart(r) /\ x.hits = get_tools(Chosen(r, Wish(x)), x.request.query)
    BY <1>2
  <2>2. r \in Seq(HitSet)
    BY <2>1
  <2>3. Gives(x, e, live, r)
    BY <1>4, <2>1, <2>2, RouteAllowed
  <2>4. QED
    BY <2>3 DEF Gives
<1> HIDE DEF limit, most, hits, left
<1>6. ASSUME Whole(x, e), asked.through # "bridge"
      PROVE  Len(hits) = IF most <= Cardinality(left) THEN most ELSE Cardinality(left)
  <2>1. left = S
    BY <1>6 DEF left, Left, Bridged
  <2>2. Cardinality(S) = Len(Z)
    BY <1>6, OfferCount
  <2> HIDE DEF S
  <2>3. QED
    BY <1>1, <1>2, <1>3, <1>5, <1>6, <2>1, <2>2
<1>7. /\ q.rerank /\ q.through = asked.through
      /\ Whole(x, e) /\ asked.through # "bridge" =>
           Len(hits) = IF most <= Cardinality(left) THEN most ELSE Cardinality(left)
  BY <1>1, <1>6
<1> HIDE DEF q, asked
<1>8. QED
  BY <1>5, <1>7 DEF Reply, hits, most, left, q, asked

(* Skills are answered as they are found.                                  *)
LEMMA SkillsReply ==
  ASSUME NEW x, Asking(x), x.request.does = "skills", NEW e \in Embedders, NEW live,
         Best(x.hits, Fits(x, e), Wish(x).limit)
  PROVE  Reply(x, e, live)
<1> DEFINE el == Eligible(x, e, live)
           fits == Fits(x, e)
<1>1. el = fits
  BY DEF Eligible
<1> HIDE DEF el
<1>2. x.hits \in Seq(el) /\ Apart(x.hits) /\ Len(x.hits) <= Wish(x).limit
      /\ Best(x.hits, el, Wish(x).limit)
  <2> HIDE DEF fits
  <2>1. Best(x.hits, fits, Wish(x).limit)
    BY DEF fits
  <2>2. QED
    BY <1>1, <2>1 DEF Best
<1>3. QED
  BY <1>2, SearchReply DEF el

(* Servers are the best of those found that are of the wanted namespaces.  *)
LEMMA ServersReply ==
  ASSUME NEW x, Asking(x), x.request.does = "servers", NEW e \in Embedders, NEW live,
         NEW F, Best(F, Fits(x, e), 2 * Wish(x).limit), x.hits = ServersOf(F, Wish(x))
  PROVE  Reply(x, e, live)
<1> DEFINE q == Wish(x)
           limit == q.limit
           el == Eligible(x, e, live)
           fits == Fits(x, e)
           kept == Kept(F, el)
           hits == x.hits
<1>1. limit \in Nat \ {0}
  BY WishShape DEF Asking
<1>2. F \in Seq(fits) /\ Apart(F) /\ Sorted(F)
  BY DEF Best
<1>3. el = {h \in fits : InCategory(h, q)}
  BY DEF Eligible
<1>4. kept = Those(F, LAMBDA h : InCategory(h, q))
  <2>1. \A n \in DOMAIN F : F[n] \in el <=> InCategory(F[n], q)
    <3> HIDE DEF fits, el, q
    <3>1. QED
      BY <1>2, <1>3
  <2>2. [n \in DOMAIN F |-> IF InCategory(F[n], q) THEN <<F[n]>> ELSE <<>>]
          = [n \in DOMAIN F |-> IF F[n] \in el THEN <<F[n]>> ELSE <<>>]
    <3> HIDE DEF el
    <3>1. QED
      BY <2>1
  <2> HIDE DEF el, q
  <2>3. QED
    BY <2>2 DEF Those, Kept
<1>5. hits = Top(kept, limit)
  BY <1>4 DEF ServersOf
<1>6. /\ kept \in Seq(el) /\ Apart(kept) /\ Sorted(kept) /\ ToSet(kept) = ToSet(F) \cap el
  <2>1. fits \cap el = el
    BY <1>3
  <2> HIDE DEF fits, el
  <2>2. QED
    BY <1>2, <2>1, KeptElements
<1>7. Whole(x, e) => ToSet(kept) = el
  <2>1. ASSUME Whole(x, e) PROVE ToSet(F) = fits
    <3> DEFINE most == 2 * limit
    <3>1. Cardinality(fits) <= most
      BY <2>1 DEF Whole
    <3>2. IsFiniteSet(fits)
      BY FitHits DEF Asking
    <3>3. most \in Nat
      BY <1>1
    <3>4. Best(F, fits, most)
      OBVIOUS
    <3> HIDE DEF fits, most
    <3>5. QED
      BY <3>1, <3>2, <3>3, <3>4, BestCount
  <2>2. QED
    BY <1>3, <1>6, <2>1
<1>8. Rated(el)
  <2>1. el \subseteq HitSet
    BY OfferHits
  <2>2. QED
    BY <2>1 DEF Rated, HitSet
<1> HIDE DEF el, kept, hits, limit
<1>9. hits \in Seq(el) /\ Apart(hits) /\ Len(hits) <= limit
  <2>1. limit \in Nat
    BY <1>1
  <2> DEFINE top == Top(kept, limit)
  <2>2. /\ top \in Seq(el) /\ Len(top) = IF limit <= Len(kept) THEN limit ELSE Len(kept)
        /\ Apart(kept) => Apart(top)
    BY <1>6, <2>1, TopElements
  <2>3. Len(kept) \in Nat
    BY <1>6
  <2> HIDE DEF top
  <2>4. Len(top) <= limit
    BY <2>1, <2>2, <2>3
  <2>5. QED
    BY <1>5, <1>6, <2>2, <2>4 DEF top
<1>10. Whole(x, e) => Best(hits, el, limit)
  <2>1. limit \in Nat
    BY <1>1
  <2>2. ASSUME Whole(x, e) PROVE Best(Top(kept, limit), el, limit)
    BY <1>6, <1>7, <1>8, <2>1, <2>2, TopIsBest
  <2>3. QED
    BY <1>5, <2>2
<1>11. QED
  BY <1>9, <1>10, SearchReply DEF hits, el, limit
-----------------------------------------------------------------------------
(* The answers' invariant                                                  *)

(* Where a task has found something, and what it does there.               *)
Reading == {"intent", "rerank", "answered"}
Reads == {"retrieve", "servers", "skills"}

(* What a task has found fits what it asked for: hits of the search, then  *)
(* offers of the router, in the end a reply.                               *)
Learned(x, e, live) ==
  x.pc \in Reading =>
    /\ x.seen \in Seq(RowSet) /\ x.request.does \in Reads
    /\ Distinct(x.seen) =>
         /\ x.pc = "intent" => Best(x.hits, Fits(x, e), OverFetch * Wish(x).limit)
         /\ x.pc = "rerank" =>
              /\ Wish(x).rerank /\ x.hits \in Seq(Offers(x, e, live)) /\ Apart(x.hits)
              /\ Whole(x, e) => ToSet(x.hits) = Offers(x, e, live)
         /\ x.pc = "answered" => Reply(x, e, live)
FoundInv == \A t \in Tasks : Learned(task[t], embedder, Live)

(* Memory's caches hold the tables as they are; the others have none.      *)
CacheInv ==
  /\ toolMatrix \subseteq (IF Live THEN {tools} ELSE {})
  /\ skillMatrix \subseteq (IF Live THEN {skills} ELSE {})

AnswersInv == CacheInv /\ FoundInv

(* So a search on a cache is one on its table.                             *)
LEMMA MatrixIs ==
  ASSUME CacheInv
  PROVE  Matrix(toolMatrix, tools) = tools /\ Matrix(skillMatrix, skills) = skills
<1>1. ASSUME NEW C, NEW table, C \subseteq {table}
      PROVE  Matrix(C, table) = table
  <2>1. CASE C = {}
    BY <2>1 DEF Matrix
  <2>2. CASE C = {table}
    <3>1. (CHOOSE m \in C : TRUE) = table
      BY <2>2
    <3>2. QED
      BY <2>2, <3>1 DEF Matrix
  <2>3. QED
    BY <1>1, <2>1, <2>2
<1>2. toolMatrix \subseteq {tools} /\ skillMatrix \subseteq {skills}
  BY DEF CacheInv
<1>3. QED
  BY <1>1, <1>2

(* A write that drops the cache of its table, or has none, keeps them.     *)
LEMMA CacheKept ==
  ASSUME CacheInv, backend' = backend,
         toolMatrix' \in {toolMatrix, {}}, skillMatrix' \in {skillMatrix, {}},
         backend = "memory" =>
           /\ tools' = tools \/ toolMatrix' = {}
           /\ skills' = skills \/ skillMatrix' = {}
  PROVE  CacheInv'
BY DEF CacheInv, Live

(* What a request that reads asks for.                                     *)
LEMMA RequestAsks ==
  ASSUME ShapeInv, NEW x, x.request \in Requests[backend], x.request.does \in Reads,
         x.seen \in Seq(RowSet), Keyed(x.seen)
  PROVE  Asking(x)
<1>1. x.request \in RequestType
  BY RetrievalAssumption DEF ShapeInv
<1>2. /\ x.request.query \in QueryType
      /\ x.request.does = "retrieve" \/ x.request.query.through = "retrieve"
      /\ x.request.does = "retrieve" => x.request.query.category = "any"
  BY <1>1 DEF RequestType, Reads
<1>3. QED
  BY <1>2 DEF Asking, Reads

(* A step of t that leaves the others as they were.                        *)
LEMMA FoundKept ==
  ASSUME FoundInv, NEW t \in Tasks, NEW p, MovesTo(t, p), UNCHANGED <<backend, embedder>>,
         Learned(task'[t], embedder, Live)
  PROVE  FoundInv'
<1>1. ASSUME NEW u \in Tasks PROVE Learned(task'[u], embedder', Live')
  <2>1. embedder' = embedder /\ Live' = Live
    BY DEF Live
  <2>2. CASE u = t
    BY <2>1, <2>2
  <2>3. CASE u # t
    <3>1. task'[u] = task[u]
      BY <2>3 DEF MovesTo
    <3>2. QED
      BY <2>1, <3>1 DEF FoundInv
  <2>4. QED
    BY <2>2, <2>3
<1>2. QED
  BY <1>1 DEF FoundInv

(* Every other step moves its task where nothing is found yet, or from     *)
(* where it was, and drops the caches of what it writes.                   *)
LEMMA OtherSteps ==
  ASSUME IInv, SettledInv, AnswersInv, NEW t \in Tasks,
         \/ Begin(t)
         \/ OpenQdrant(t) \/ OpenChroma(t) \/ OpenPG(t) \/ RemoteOpeningFails(t)
         \/ Open(t) \/ DropTools(t) \/ CreateTools(t) \/ FillTools(t) \/ OpeningFails(t)
         \/ MemoryWrite(t) \/ RemoteWrite(t) \/ LanceDelete(t) \/ LanceInsert(t)
         \/ WriteFails(t) \/ Delete(t) \/ DeleteFails(t)
         \/ Check(t) \/ ReadMarker(t) \/ ListSkills(t) \/ Migrate(t) \/ PutBack(t)
         \/ Mark(t) \/ MigrationFails(t)
         \/ StartRoute(t) \/ Return(t) \/ Raise(t) \/ GiveUp(t)
  PROVE  AnswersInv'
<1>1. ShapeInv /\ task[t].request \in Requests[backend]
  BY DEF IInv, ShapeInv
<1>2. UNCHANGED <<backend, embedder>>
  BY DEF Begin, OpenQdrant, OpenChroma, OpenPG, RemoteOpeningFails, Open, DropTools, CreateTools,
         FillTools, OpeningFails, MemoryWrite, RemoteWrite, LanceDelete, LanceInsert, WriteFails,
         Delete, DeleteFails, Check, ReadMarker, ListSkills, Migrate, PutBack, Mark,
         MigrationFails, StartRoute, Return, Raise, GiveUp, OpeningChanges, process
<1>3. \E p : p \notin Reading /\ MovesTo(t, p)
  <2>1. CASE Begin(t)
    <3>1. PICK p \in {"open", "route", "search", "delete", "check", "write"} : MovesTo(t, p)
      BY <1>1, <2>1, BeginMoves
    <3>2. QED
      BY <3>1 DEF Reading
  <2>2. CASE Ends(t)
    BY <1>1, <2>2, EndsMoves DEF Reading
  <2>3. ASSUME NEW p \in {"make", "marker", "list", "search", "giveup", "create", "fill",
                          "insert", "mark", "putback"}, Goes(t, p)
        PROVE  MovesTo(t, p) /\ p \notin Reading
    BY <1>1, <2>3, GoesMoves DEF Reading
  <2>4. CASE Opens(t)
    <3>1. PICK p \in {"route", "search", "delete", "check", "write"} : MovesTo(t, p)
      BY <2>4, OpensMoves
    <3>2. QED
      BY <3>1 DEF Reading
  <2>5. CASE Proceeds(t)
    BY <1>1, <2>5, ProceedsMoves DEF Reading
  <2>6. ASSUME NEW p \in {"drop", "mark", "migrate"}, NEW table,
               task' = [task EXCEPT ![t].pc = p, ![t].listed = table]
        PROVE  MovesTo(t, p) /\ p \notin Reading
    BY <1>1, <2>6, ListingMoves DEF Reading
  <2>7. CASE ListSkills(t)
    <3> DEFINE p == IF skills = <<>> THEN "mark" ELSE "migrate"
    <3>1. task' = [task EXCEPT ![t].pc = p, ![t].listed = skills] /\ p \in {"mark", "migrate"}
      BY <2>7 DEF ListSkills
    <3> HIDE DEF p
    <3>2. QED
      BY <2>6, <3>1
  <2>8. CASE Open(t)
    BY <2>4, <2>6, <2>8 DEF Open
  <2>9. QED
    BY <2>1, <2>2, <2>3, <2>4, <2>5, <2>7, <2>8
       DEF OpenQdrant, OpenChroma, OpenPG, RemoteOpeningFails, DropTools, CreateTools,
           FillTools, OpeningFails, MemoryWrite, RemoteWrite, LanceDelete, LanceInsert,
           WriteFails, Delete, DeleteFails, Check, ReadMarker, Migrate, PutBack, Mark,
           MigrationFails, StartRoute, Return, Raise, GiveUp
<1>4. FoundInv'
  <2>1. PICK p : p \notin Reading /\ MovesTo(t, p)
    BY <1>3
  <2>2. Learned(task'[t], embedder, Live)
    BY <2>1 DEF MovesTo, Learned
  <2>3. QED
    BY <1>2, <2>1, <2>2, FoundKept DEF AnswersInv
<1>5. CacheInv'
  <2>1. CASE UNCHANGED <<tools, skills, toolMatrix, skillMatrix>>
    BY <1>2, <2>1, CacheKept DEF AnswersInv
  <2>2. CASE MemoryWrite(t)
    <3>1. /\ toolMatrix' \in {toolMatrix, {}} /\ skillMatrix' \in {skillMatrix, {}}
          /\ tools' = tools \/ toolMatrix' = {}
          /\ skills' = skills \/ skillMatrix' = {}
      BY <2>2 DEF MemoryWrite, Becomes, Invalidated
    <3>2. QED
      BY <1>2, <3>1, CacheKept DEF AnswersInv
  <2>3. CASE Delete(t)
    <3>1. /\ toolMatrix' \in {toolMatrix, {}} /\ skillMatrix' \in {skillMatrix, {}}
          /\ backend = "memory" =>
               /\ tools' = tools \/ toolMatrix' = {}
               /\ skills' = skills \/ skillMatrix' = {}
      BY <2>3 DEF Delete, Becomes, Invalidated, matrices
    <3>2. QED
      BY <1>2, <3>1, CacheKept DEF AnswersInv
  <2>4. CASE Migrate(t)
    <3>1. /\ toolMatrix' \in {toolMatrix, {}} /\ skillMatrix' \in {skillMatrix, {}}
          /\ backend = "memory" =>
               /\ tools' = tools \/ toolMatrix' = {}
               /\ skills' = skills \/ skillMatrix' = {}
      BY <2>4 DEF Migrate
    <3>2. QED
      BY <1>2, <3>1, CacheKept DEF AnswersInv
  <2>5. CASE backend # "memory" /\ UNCHANGED <<toolMatrix, skillMatrix>>
    BY <1>2, <2>5, CacheKept DEF AnswersInv
  <2>6. task[t].pc \in {"insert", "putback", "drop", "create", "fill"} => backend = "lance"
    BY DEF SettledInv, CarryInv, Carries, IInv, ListedInv
  <2>7. CASE \/ RemoteWrite(t) \/ LanceDelete(t) \/ LanceInsert(t) \/ WriteFails(t)
             \/ PutBack(t) \/ DropTools(t) \/ CreateTools(t) \/ FillTools(t)
             \/ Open(t) \/ OpeningFails(t)
    <3>1. UNCHANGED <<toolMatrix, skillMatrix>>
      BY <2>7 DEF RemoteWrite, LanceDelete, LanceInsert, WriteFails, PutBack, DropTools,
                  CreateTools, FillTools, Open, OpeningFails, matrices
    <3>2. backend # "memory"
      BY <2>6, <2>7 DEF RemoteWrite, LanceDelete, LanceInsert, WriteFails, PutBack, DropTools,
                  CreateTools, FillTools, Open, OpeningFails, Opening, At, Remote
    <3>3. QED
      BY <2>5, <3>1, <3>2
  <2>8. CASE \/ Begin(t) \/ OpenQdrant(t) \/ OpenChroma(t) \/ OpenPG(t) \/ RemoteOpeningFails(t)
             \/ DeleteFails(t) \/ Check(t) \/ ReadMarker(t) \/ ListSkills(t) \/ Mark(t)
             \/ MigrationFails(t) \/ StartRoute(t) \/ Return(t) \/ Raise(t) \/ GiveUp(t)
    <3>1. UNCHANGED <<tools, skills, toolMatrix, skillMatrix>>
      BY <2>8 DEF Begin, OpenQdrant, OpenChroma, OpenPG, RemoteOpeningFails, DeleteFails, Check,
                  ReadMarker, ListSkills, Mark, MigrationFails, StartRoute, Return, Raise, GiveUp,
                  OpeningChanges, store, matrices
    <3>2. QED
      BY <2>1, <3>1
  <2>9. QED
    BY <2>2, <2>3, <2>4, <2>7, <2>8
<1>6. QED
  BY <1>4, <1>5 DEF AnswersInv

(* A search of the tools finds the best of what fits, as far as the store  *)
(* gives them.                                                             *)
LEMMA SearchToolsFound ==
  ASSUME IInv, SettledInv, AnswersInv, NEW t \in Tasks, SearchTools(t)
  PROVE  AnswersInv'
<1> DEFINE x == task[t]
           q == Wish(x)
           H == Searched(backend, tools, embedder, q, OverFetch * q.limit)
           y == [x EXCEPT !.pc = "intent", !.seen = tools, !.hits = H]
<1>1. ShapeInv /\ x.request \in Requests[backend] /\ x = [f \in Fields |-> x[f]]
  BY DEF IInv, ShapeInv
<1>2. Query(t) = q /\ x.request.does = "retrieve"
  BY DEF SearchTools, Searching, Query, Asked, Wish
<1>3. Matrix(toolMatrix, tools) = tools
  BY MatrixIs DEF AnswersInv
<1>4. task' = [task EXCEPT ![t] = y]
  BY <1>2, <1>3 DEF SearchTools
<1>5. tools \in Seq(RowSet)
  <2>1. tools \in Seq(ToolRows) /\ ToolRows \subseteq RowSet
    BY DEF SettledInv, KindInv, ToolRows
  <2>2. QED
    BY <2>1, SeqMonotonic
<1>6. embedder \in Embedders /\ backend \in {"memory", "lance", "qdrant", "chroma", "pg"}
  BY RetrievalAssumption DEF IInv, ShapeInv
<1>7. q.namespaces = {} \/ backend \in {"memory", "lance"}
  BY <1>2 DEF SearchTools, TakesLists
<1> HIDE DEF H
<1>8. /\ y = [f \in Fields |-> y[f]] /\ y.pc = "intent" /\ y.seen = tools /\ y.hits = H
      /\ y.request = x.request
  <2>1. {"pc", "request", "hits", "seen"} \subseteq Fields
    BY DEF Fields
  <2>2. QED
    BY <1>1, <2>1
<1> HIDE DEF x, y, q
<1>9. MovesTo(t, "intent") /\ task'[t] = y
  BY <1>1, <1>4, <1>8, ReplaceMoves
<1>10. ASSUME Distinct(tools)
       PROVE  Best(H, Fits(y, embedder), OverFetch * Wish(y).limit)
  <2>1. Keyed(tools)
    BY <1>5, <1>10, DistinctKeyed
  <2>2. Asking(y)
    BY <1>1, <1>2, <1>5, <1>8, <2>1, RequestAsks DEF Reads
  <2>3. Wish(y) = q
    BY <1>8 DEF Wish, q
  <2>4. q.limit \in Nat \ {0} /\ q.threshold \in Int /\ q.category = "any"
    BY <1>2, <1>8, <2>2, <2>3, WishShape DEF Asking
  <2>5. Fits(y, embedder) = Fitting(tools, embedder, q)
    BY <1>2, <1>8, <2>3 DEF Fits, SearchWish
  <2> DEFINE n == OverFetch * q.limit
             fitting == Fitting(tools, embedder, q)
  <2>6. n \in Nat
    BY <2>4, RouterAssumption
  <2>7. H = Searched(backend, tools, embedder, q, n)
    BY DEF H
  <2> HIDE DEF n
  <2>8. /\ Best(LanceSearch(tools, embedder, q, n), fitting, n)
        /\ Best(MemorySearch(tools, embedder, q, n), fitting, n)
        /\ q.namespaces = {} =>
             /\ Best(QdrantSearch(tools, embedder, q, n), fitting, n)
             /\ Best(ChromaSearch(tools, embedder, q, n), fitting, n)
             /\ Best(PGSearch(tools, embedder, q, n), fitting, n)
    BY <1>5, <2>1, <2>4, <2>6, SearchIsBest
  <2> HIDE DEF fitting
  <2>9. Best(H, fitting, n)
    BY <1>6, <1>7, <2>7, <2>8 DEF Searched
  <2>10. QED
    BY <2>3, <2>5, <2>9 DEF n, fitting
<1>11. Learned(task'[t], embedder, Live)
  BY <1>2, <1>5, <1>8, <1>9, <1>10 DEF Learned, Reading, Reads
<1>12. UNCHANGED <<backend, embedder, tools, skills, skillMatrix>>
  BY DEF SearchTools, store, process
<1>13. FoundInv'
  BY <1>9, <1>11, <1>12, FoundKept DEF AnswersInv
<1>14. CacheInv'
  <2>1. toolMatrix' = IF Live THEN {tools} ELSE toolMatrix
    BY <1>3 DEF SearchTools
  <2>2. QED
    BY <1>12, <2>1 DEF AnswersInv, CacheInv, Live
<1>15. QED
  BY <1>13, <1>14 DEF AnswersInv

(* A search for servers answers with the best of those that fit.           *)
LEMMA SearchServersFound ==
  ASSUME IInv, SettledInv, AnswersInv, NEW t \in Tasks, SearchServers(t)
  PROVE  AnswersInv'
<1> DEFINE x == task[t]
           q == Wish(x)
           w == SearchWish(x)
           F == Searched(backend, tools, embedder, w, 2 * w.limit)
           A == ServersOf(F, q)
           y == [x EXCEPT !.pc = "answered", !.seen = tools, !.hits = A]
<1>1. ShapeInv /\ x.request \in Requests[backend] /\ x = [f \in Fields |-> x[f]]
  BY DEF IInv, ShapeInv
<1>2. x.request.does = "servers"
  BY DEF SearchServers, Searching
<1>3. Query(t) = q /\ retrieve_mcp_servers(Asked(t)) = w
  BY <1>2 DEF Query, Asked, Wish, SearchWish
<1>4. Matrix(toolMatrix, tools) = tools
  BY MatrixIs DEF AnswersInv
<1>5. task' = [task EXCEPT ![t] = y]
  BY <1>3, <1>4 DEF SearchServers
<1>6. tools \in Seq(RowSet)
  <2>1. tools \in Seq(ToolRows) /\ ToolRows \subseteq RowSet
    BY DEF SettledInv, KindInv, ToolRows
  <2>2. QED
    BY <2>1, SeqMonotonic
<1>7. embedder \in Embedders /\ backend \in {"memory", "lance"}
  BY DEF IInv, ShapeInv, SearchServers, TakesLists
<1> HIDE DEF A
<1>8. /\ y = [f \in Fields |-> y[f]] /\ y.pc = "answered" /\ y.seen = tools /\ y.hits = A
      /\ y.request = x.request
  <2>1. {"pc", "request", "hits", "seen"} \subseteq Fields
    BY DEF Fields
  <2>2. QED
    BY <1>1, <2>1
<1> HIDE DEF x, y, q, w, F
<1>9. MovesTo(t, "answered") /\ task'[t] = y
  BY <1>1, <1>5, <1>8, ReplaceMoves
<1>10. ASSUME Distinct(tools)
       PROVE  Reply(y, embedder, Live)
  <2>1. Keyed(tools)
    BY <1>6, <1>10, DistinctKeyed
  <2>2. Asking(y)
    BY <1>1, <1>2, <1>6, <1>8, <2>1, RequestAsks DEF Reads
  <2>3. Wish(y) = q /\ SearchWish(y) = w
    BY <1>8 DEF Wish, SearchWish, q, w
  <2>4. q.limit \in Nat \ {0} /\ q.threshold \in Int
    BY <2>2, <2>3, WishShape DEF Asking
  <2>5. w.category = "any" /\ w.threshold = q.threshold /\ w.limit = q.limit
    BY <1>2, <1>8, <2>2, <2>3, SearchWishShape
  <2> DEFINE n == 2 * q.limit
             fitting == Fitting(tools, embedder, w)
  <2>6. n \in Nat
    BY <2>4
  <2>7. F = Searched(backend, tools, embedder, w, n)
    BY <2>5 DEF F
  <2> HIDE DEF n
  <2>8. /\ Best(LanceSearch(tools, embedder, w, n), fitting, n)
        /\ Best(MemorySearch(tools, embedder, w, n), fitting, n)
    BY <1>6, <2>1, <2>4, <2>5, <2>6, SearchIsBest
  <2> HIDE DEF fitting
  <2>9. Best(F, fitting, n)
    BY <1>7, <2>7, <2>8 DEF Searched
  <2>10. Best(F, Fits(y, embedder), 2 * Wish(y).limit)
    BY <1>8, <2>3, <2>9 DEF Fits, n, fitting
  <2>11. y.hits = ServersOf(F, Wish(y)) /\ y.request.does = "servers"
    BY <1>2, <1>8, <2>3 DEF A
  <2>12. QED
    BY <1>7, <2>2, <2>10, <2>11, ServersReply
<1>11. Learned(task'[t], embedder, Live)
  BY <1>2, <1>6, <1>8, <1>9, <1>10 DEF Learned, Reading, Reads
<1>12. UNCHANGED <<backend, embedder, tools, skills, skillMatrix>>
  BY DEF SearchServers, store, process
<1>13. FoundInv'
  BY <1>9, <1>11, <1>12, FoundKept DEF AnswersInv
<1>14. CacheInv'
  <2>1. toolMatrix' = IF Live THEN {tools} ELSE toolMatrix
    BY <1>4 DEF SearchServers
  <2>2. QED
    BY <1>12, <2>1 DEF AnswersInv, CacheInv, Live
<1>15. QED
  BY <1>13, <1>14 DEF AnswersInv

(* A search of the skills answers with the best of those that fit.         *)
LEMMA SearchSkillsFound ==
  ASSUME IInv, SettledInv, AnswersInv, NEW t \in Tasks, SearchSkills(t)
  PROVE  AnswersInv'
<1> DEFINE x == task[t]
           q == Wish(x)
           A == IF Live THEN MemorySkills(skills, embedder, q, q.limit)
                ELSE LanceSkills(skills, embedder, q, q.limit)
           y == [x EXCEPT !.pc = "answered", !.seen = skills, !.hits = A]
<1>1. /\ ShapeInv /\ x.request \in Requests[backend] /\ x = [f \in Fields |-> x[f]]
      /\ skills \in Seq(RowSet) /\ embedder \in Embedders
  BY DEF IInv, ShapeInv
<1>2. x.request.does = "skills"
  BY DEF SearchSkills, Searching
<1>3. Query(t) = q
  BY <1>2 DEF Query, Asked, Wish
<1>4. Matrix(skillMatrix, skills) = skills
  BY MatrixIs DEF AnswersInv
<1>5. task' = [task EXCEPT ![t] = y]
  BY <1>3, <1>4 DEF SearchSkills
<1> HIDE DEF A
<1>6. /\ y = [f \in Fields |-> y[f]] /\ y.pc = "answered" /\ y.seen = skills /\ y.hits = A
      /\ y.request = x.request
  <2>1. {"pc", "request", "hits", "seen"} \subseteq Fields
    BY DEF Fields
  <2>2. QED
    BY <1>1, <2>1
<1> HIDE DEF x, y, q
<1>7. MovesTo(t, "answered") /\ task'[t] = y
  BY <1>1, <1>5, <1>6, ReplaceMoves
<1>8. ASSUME Distinct(skills)
      PROVE  Reply(y, embedder, Live)
  <2>1. Keyed(skills)
    BY <1>1, <1>8, DistinctKeyed
  <2>2. Asking(y)
    BY <1>1, <1>2, <1>6, <2>1, RequestAsks DEF Reads
  <2>3. Wish(y) = q
    BY <1>6 DEF Wish, q
  <2> DEFINE n == q.limit
             fitting == Fitting(skills, embedder, q)
  <2>4. n \in Nat /\ q.threshold \in Int
    BY <2>2, <2>3, WishShape DEF Asking
  <2>5. Fits(y, embedder) = fitting
    BY <1>2, <1>6, <2>3 DEF Fits, SearchWish
  <2>6. A = IF Live THEN MemorySkills(skills, embedder, q, n)
            ELSE LanceSearch(skills, embedder, q, n)
    BY DEF A, LanceSkills
  <2> HIDE DEF n
  <2>7. /\ Best(MemorySkills(skills, embedder, q, n), fitting, n)
        /\ Best(LanceSearch(skills, embedder, q, n), fitting, n)
    BY <1>1, <2>1, <2>4, SearchIsBest
  <2> HIDE DEF fitting
  <2>8. Best(A, fitting, n)
    BY <2>6, <2>7
  <2>9. Best(y.hits, Fits(y, embedder), Wish(y).limit) /\ y.request.does = "skills"
    BY <1>2, <1>6, <2>3, <2>5, <2>8 DEF n
  <2>10. QED
    BY <1>1, <2>2, <2>9, SkillsReply
<1>9. Learned(task'[t], embedder, Live)
  BY <1>1, <1>2, <1>6, <1>7, <1>8 DEF Learned, Reading, Reads
<1>10. UNCHANGED <<backend, embedder, tools, skills, toolMatrix>>
  BY DEF SearchSkills, store, process
<1>11. FoundInv'
  BY <1>7, <1>9, <1>10, FoundKept DEF AnswersInv
<1>12. CacheInv'
  <2>1. skillMatrix' = IF Live THEN {skills} ELSE skillMatrix
    BY <1>4 DEF SearchSkills
  <2>2. QED
    BY <1>10, <2>1 DEF AnswersInv, CacheInv, Live
<1>13. QED
  BY <1>11, <1>12 DEF AnswersInv

(* Ranked, the hits are offers: with a reranker to come all of them, else  *)
(* the reply.                                                              *)
LEMMA RankFound ==
  ASSUME IInv, SettledInv, AnswersInv, NEW t \in Tasks, Rank(t)
  PROVE  AnswersInv'
<1> DEFINE x == task[t]
           q == Wish(x)
           p == IF q.rerank THEN "rerank" ELSE "answered"
           Z(intent) == Ranked(ScoredAndFiltered(x.hits, q, intent, Live))
           A(intent) == IF q.rerank THEN Z(intent)
                        ELSE get_tools(Chosen(Z(intent), q), x.request.query)
           r(intent) == [x EXCEPT !.pc = p, !.intent = intent, !.hits = A(intent)]
<1>1. /\ ShapeInv /\ x.request \in Requests[backend] /\ x = [f \in Fields |-> x[f]]
      /\ embedder \in Embedders
  BY DEF IInv, ShapeInv
<1>2. x.pc = "intent" /\ x.request.does = "retrieve"
  BY DEF Rank, At, IInv, PlaceInv, Belongs
<1>3. Query(t) = q
  BY <1>2 DEF Query, Asked, Wish
<1>4. PICK intent : task' = [task EXCEPT ![t].pc = p, ![t].intent = intent,
                                         ![t].hits = A(intent)]
  <2>1. PICK intent :
          task' = [task EXCEPT
            ![t].pc = IF Query(t).rerank THEN "rerank" ELSE "answered",
            ![t].intent = intent,
            ![t].hits = IF Query(t).rerank THEN Scored(t, intent)
                        ELSE Answered(t, Scored(t, intent))]
    BY DEF Rank
  <2>2. /\ p = IF Query(t).rerank THEN "rerank" ELSE "answered"
        /\ A(intent) = IF Query(t).rerank THEN Scored(t, intent)
                       ELSE Answered(t, Scored(t, intent))
    BY <1>3 DEF Scored, Answered, Asked
  <2> HIDE DEF p, A
  <2>3. QED
    BY <2>1, <2>2
<1> DEFINE y == r(intent)
           hits == A(intent)
<1> HIDE DEF A, p
<1>5. /\ y = [f \in Fields |-> y[f]] /\ y.pc = p /\ y.seen = x.seen /\ y.hits = hits
      /\ y.request = x.request /\ y.intent = intent
  <2>1. {"pc", "request", "hits", "seen", "intent"} \subseteq Fields
    BY DEF Fields
  <2>2. QED
    BY <1>1, <2>1
<1>6. task' = [task EXCEPT ![t] = y]
  BY <1>4
<1> HIDE DEF x, y, q, hits
<1>7. MovesTo(t, p) /\ task'[t] = y
  BY <1>1, <1>5, <1>6, ReplaceMoves
<1>8. /\ x.seen \in Seq(RowSet)
      /\ Distinct(x.seen) => Best(x.hits, Fits(x, embedder), OverFetch * Wish(x).limit)
  BY <1>2 DEF AnswersInv, FoundInv, Learned, Reading, x
<1>9. Wish(y) = q /\ Wish(x) = q
  BY <1>5 DEF Wish, q
<1>10. ASSUME Distinct(x.seen)
       PROVE  IF q.rerank
                THEN /\ hits \in Seq(Offers(y, embedder, Live)) /\ Apart(hits)
                     /\ Whole(y, embedder) => ToSet(hits) = Offers(y, embedder, Live)
                ELSE Reply(y, embedder, Live)
  <2>1. Keyed(y.seen)
    BY <1>5, <1>8, <1>10, DistinctKeyed
  <2>2. Asking(y)
    BY <1>1, <1>2, <1>5, <1>8, <2>1, RequestAsks DEF Reads
  <2>3. Fits(y, embedder) = Fits(x, embedder)
    BY <1>2, <1>5, <1>9 DEF Fits, SearchWish
  <2> DEFINE F == x.hits
             found == Ranked(ScoredAndFiltered(F, q, intent, Live))
             offers == Offers(y, embedder, Live)
  <2>4. Best(F, Fits(y, embedder), OverFetch * Wish(y).limit)
    BY <1>8, <1>9, <1>10, <2>3
  <2>5. y.request.does = "retrieve"
    BY <1>2, <1>5
  <2>6. hits = IF q.rerank THEN found ELSE get_tools(Chosen(found, q), y.request.query)
    BY <1>5 DEF hits, A
  <2> HIDE DEF F
  <2> DEFINE rankedOf == Ranked(ScoredAndFiltered(F, Wish(y), y.intent, Live))
  <2>7. rankedOf = found
    BY <1>5, <1>9
  <2>8. /\ rankedOf \in Seq(Offers(y, embedder, Live)) /\ Apart(rankedOf) /\ Sorted(rankedOf)
        /\ Whole(y, embedder) => ToSet(rankedOf) = Offers(y, embedder, Live)
    BY <1>1, <2>2, <2>4, <2>5, ScoredIs
  <2> HIDE DEF found, offers, rankedOf
  <2>9. CASE q.rerank
    BY <2>6, <2>7, <2>8, <2>9
  <2>10. CASE ~q.rerank
    <3>1. y.hits = get_tools(Chosen(found, Wish(y)), y.request.query) /\ ~Wish(y).rerank
      BY <1>5, <1>9, <2>6, <2>10
    <3>2. found \in Seq(Offers(y, embedder, Live))
      BY <2>7, <2>8
    <3>3. /\ Apart(found) /\ Sorted(found)
          /\ Whole(y, embedder) => ToSet(found) = Offers(y, embedder, Live)
      BY <2>7, <2>8
    <3>4. Reply(y, embedder, Live)
      BY <1>1, <2>2, <2>5, <3>1, <3>2, <3>3, PlainReply
    <3>5. QED
      BY <2>10, <3>4
  <2>11. QED
    BY <2>9, <2>10
<1>11. Learned(task'[t], embedder, Live)
  BY <1>2, <1>5, <1>7, <1>8, <1>9, <1>10 DEF Learned, Reading, Reads, p
<1>12. UNCHANGED <<backend, embedder, tools, skills, toolMatrix, skillMatrix>>
  BY DEF Rank, store, process, matrices
<1>13. FoundInv'
  BY <1>7, <1>11, <1>12, FoundKept DEF AnswersInv
<1>14. CacheInv'
  BY <1>12, CacheKept DEF AnswersInv
<1>15. QED
  BY <1>13, <1>14 DEF AnswersInv

(* Reranked, they are the reply.                                           *)
LEMMA RerankFound ==
  ASSUME IInv, SettledInv, AnswersInv, NEW t \in Tasks, Rerank(t)
  PROVE  AnswersInv'
<1> DEFINE x == task[t]
           q == Wish(x)
           Z == x.hits
           A(r) == get_tools(Chosen(r, q), x.request.query)
           after(r) == [x EXCEPT !.pc = "answered", !.hits = A(r)]
<1>1. /\ ShapeInv /\ x.request \in Requests[backend] /\ x = [f \in Fields |-> x[f]]
      /\ embedder \in Embedders
  BY DEF IInv, ShapeInv
<1>2. x.pc = "rerank" /\ x.request.does = "retrieve"
  BY DEF Rerank, At, IInv, PlaceInv, Belongs
<1>3. Query(t) = q
  BY <1>2 DEF Query, Asked, Wish
<1>4. PICK r \in Rerankings(Z, q) \cup {Top(Z, q.limit)} : task' = [task EXCEPT ![t] = after(r)]
  BY <1>3 DEF Rerank, Answered, Asked
<1> DEFINE y == after(r)
           hits == A(r)
<1> HIDE DEF A
<1>5. /\ y = [f \in Fields |-> y[f]] /\ y.pc = "answered" /\ y.seen = x.seen /\ y.hits = hits
      /\ y.request = x.request /\ y.intent = x.intent
  <2>1. {"pc", "request", "hits", "seen", "intent"} \subseteq Fields
    BY DEF Fields
  <2>2. QED
    BY <1>1, <2>1
<1>6. task' = [task EXCEPT ![t] = y]
  BY <1>4
<1>7. /\ x.seen \in Seq(RowSet)
      /\ Distinct(x.seen) =>
           /\ Wish(x).rerank /\ Z \in Seq(Offers(x, embedder, Live)) /\ Apart(Z)
           /\ Whole(x, embedder) => ToSet(Z) = Offers(x, embedder, Live)
  BY <1>2 DEF AnswersInv, FoundInv, Learned, Reading
<1> HIDE DEF x, y, q, hits, Z
<1>8. MovesTo(t, "answered") /\ task'[t] = y
  BY <1>1, <1>5, <1>6, ReplaceMoves
<1>9. Wish(y) = q /\ Wish(x) = q
  BY <1>5 DEF Wish, q
<1>10. ASSUME Distinct(x.seen)
       PROVE  Reply(y, embedder, Live)
  <2>1. Keyed(y.seen)
    BY <1>5, <1>7, <1>10, DistinctKeyed
  <2>2. Asking(y)
    BY <1>1, <1>2, <1>5, <1>7, <2>1, RequestAsks DEF Reads
  <2>3. y.request.does = "retrieve" /\ Wish(y).rerank
    BY <1>2, <1>5, <1>7, <1>9, <1>10
  <2>4. Fits(y, embedder) = Fits(x, embedder)
    BY <1>5, <1>9 DEF Fits, SearchWish
  <2>5. Whole(y, embedder) = Whole(x, embedder)
    BY <1>5, <1>9, <2>4 DEF Whole
  <2>6. Offers(y, embedder, Live) = Offers(x, embedder, Live)
    BY <1>5, <1>9, <2>4 DEF Offers, Eligible, Valued
  <2>7. Z \in Seq(Offers(y, embedder, Live))
    BY <1>7, <1>10, <2>6
  <2>8. Apart(Z)
    BY <1>7, <1>10
  <2>9. Whole(y, embedder) => ToSet(Z) = Offers(y, embedder, Live)
    BY <1>7, <1>10, <2>5, <2>6
  <2>10. Z \in Seq(HitSet)
    <3> DEFINE offers == Offers(y, embedder, Live)
    <3>1. offers \subseteq HitSet
      BY <1>1, <2>2, OfferHits
    <3>2. Z \in Seq(offers)
      BY <2>7
    <3> HIDE DEF offers
    <3>3. QED
      BY <3>1, <3>2, SeqMonotonic
  <2>11. Fewer(r, Z, Wish(y).limit)
    <3>1. q.limit \in Nat
      BY <1>9, <2>2, WishShape DEF Asking
    <3>2. Fewer(r, Z, q.limit)
      BY <2>8, <2>10, <3>1, RerankedIs
    <3>3. QED
      BY <1>9, <3>2
  <2>12. y.hits = get_tools(Chosen(r, Wish(y)), y.request.query)
    BY <1>5, <1>9 DEF hits, A
  <2>13. QED
    BY <1>1, <2>2, <2>3, <2>7, <2>8, <2>9, <2>11, <2>12, RerankedReply
<1>11. Learned(task'[t], embedder, Live)
  BY <1>2, <1>5, <1>7, <1>8, <1>10 DEF Learned, Reading, Reads
<1>12. UNCHANGED <<backend, embedder, tools, skills, toolMatrix, skillMatrix>>
  BY DEF Rerank, store, process, matrices
<1>13. FoundInv'
  BY <1>8, <1>11, <1>12, FoundKept DEF AnswersInv
<1>14. CacheInv'
  BY <1>12, CacheKept DEF AnswersInv
<1>15. QED
  BY <1>13, <1>14 DEF AnswersInv

(* Nothing is found while nobody is at work.                               *)
LEMMA NothingFound ==
  ASSUME \A t \in Tasks : task[t].pc = "idle"
  PROVE  FoundInv
BY DEF FoundInv, Learned, Reading

(* A process begins with no task at work and no cache.                     *)
LEMMA InitAnswers == Init => AnswersInv
<1> SUFFICES ASSUME Init PROVE AnswersInv
  OBVIOUS
<1>1. \A t \in Tasks : task[t].pc = "idle"
  BY IdleShape DEF Init
<1>2. toolMatrix = {} /\ skillMatrix = {}
  BY DEF Init
<1>3. QED
  BY <1>1, <1>2, NothingFound DEF AnswersInv, CacheInv

(* Every step keeps the answers' invariant.                                *)
LEMMA NextAnswers ==
  ASSUME IInv, SettledInv, AnswersInv, [Next]_vars
  PROVE  AnswersInv'
<1>1. ASSUME NEW t \in Tasks, Step(t)
      PROVE  AnswersInv'
  <2>1. CASE IntentEnds(t)
    <3>1. UNCHANGED <<backend, embedder, tools, skills, toolMatrix, skillMatrix, task>>
      BY <2>1 DEF IntentEnds, store, matrices
    <3>2. QED
      BY <3>1 DEF AnswersInv, CacheInv, FoundInv, Live
  <2>2. CASE SearchTools(t) \/ SearchServers(t) \/ SearchSkills(t) \/ Rank(t) \/ Rerank(t)
    BY <2>2, SearchToolsFound, SearchServersFound, SearchSkillsFound, RankFound, RerankFound
  <2>3. QED
    BY <1>1, <2>1, <2>2, OtherSteps DEF Step
<1>2. CASE Crash
  <2>1. /\ backend # "memory" /\ UNCHANGED <<backend, toolMatrix, skillMatrix>>
        /\ task' = [t \in Tasks |-> Idle]
    BY <1>2 DEF Crash, Persistent, matrices
  <2>2. \A t \in Tasks : task'[t].pc = "idle"
    BY <2>1, IdleShape
  <2>3. FoundInv'
    BY <2>2 DEF FoundInv, Learned, Reading
  <2>4. CacheInv'
    BY <2>1 DEF AnswersInv, CacheInv, Live
  <2>5. QED
    BY <2>3, <2>4 DEF AnswersInv
<1>3. CASE UNCHANGED vars
  <2>1. UNCHANGED <<backend, embedder, tools, skills, toolMatrix, skillMatrix, task>>
    BY <1>3 DEF vars, store, process, matrices
  <2>2. QED
    BY <2>1 DEF AnswersInv, CacheInv, FoundInv, Live
<1>4. QED
  BY <1>1, <1>2, <1>3 DEF Next

(* The invariant makes of a task that has answered one that answered well. *)
LEMMA FoundIsBest ==
  ASSUME IInv, AnswersInv
  PROVE  AnswersAreBest
<1>1. ASSUME NEW t \in Tasks, At(t, "answered"), Distinct(task[t].seen)
      PROVE  Asking(task[t]) /\ embedder \in Embedders /\ Reply(task[t], embedder, Live)
  <2> DEFINE x == task[t]
  <2>1. /\ ShapeInv /\ x.request \in Requests[backend] /\ embedder \in Embedders
        /\ x.pc = "answered"
    BY <1>1 DEF IInv, ShapeInv, At
  <2>2. x.seen \in Seq(RowSet) /\ x.request.does \in Reads /\ Reply(x, embedder, Live)
    BY <1>1, <2>1 DEF AnswersInv, FoundInv, Learned, Reading
  <2> HIDE DEF x
  <2>3. Keyed(x.seen)
    BY <1>1, <2>2, DistinctKeyed DEF x
  <2>4. Asking(x)
    BY <2>1, <2>2, <2>3, RequestAsks
  <2>5. QED
    BY <2>1, <2>2, <2>4 DEF x
<1>2. AnswersAreAllowed
  <2>1. ASSUME NEW t \in Tasks, At(t, "answered"), Distinct(task[t].seen)
        PROVE  /\ IsInjective(Got(t)) /\ ToSet(Got(t)) \subseteq Wanted(t)
               /\ Len(Got(t)) <= MostGiven(Asked(t))
    <3>1. Asking(task[t]) /\ embedder \in Embedders /\ Reply(task[t], embedder, Live)
      BY <1>1, <2>1
    <3>2. QED
      BY <3>1, RepliesAreBest
  <2>2. QED
    BY <2>1 DEF AnswersAreAllowed
<1>3. ASSUME NEW t \in Tasks, At(t, "answered"), Distinct(task[t].seen), Uncut(t)
      PROVE  LET q == Query(t)
             IN  (q.through = "bridge" => q.diversity = 0 /\ ~q.rerank) =>
                   /\ Len(Got(t)) = Min({MostGiven(Asked(t)), Cardinality(Staying(t))})
                   /\ q.rerank \/
                        \A n \in DOMAIN Got(t) :
                          LET before == {Got(t)[m] : m \in 1..(n - 1)}
                          IN  \A i \in Staying(t) \ before :
                                Worth(t, i, before) <= Worth(t, Got(t)[n], before)
  <2>1. Asking(task[t]) /\ embedder \in Embedders /\ Reply(task[t], embedder, Live)
    BY <1>1, <1>3
  <2>2. QED
    BY <1>3, <2>1, RepliesAreBest
<1>4. QED
  BY <1>2, <1>3 DEF AnswersAreBest

(* The answers: in every behaviour, and over every backend, an answer      *)
(* holds only what its request allows, each once and no more than asked    *)
(* for; and unless the store cut the candidates, as many as there are,     *)
(* each the best choice after those before it.                             *)
THEOREM AnswersStayBest == Spec => []AnswersAreBest
<1>1. Init => IInv /\ SettledInv /\ AnswersInv
  BY InitInv, InitSettled, InitAnswers
<1>2. IInv /\ SettledInv /\ AnswersInv /\ [Next]_vars =>
        (IInv' \/ Resting') /\ (SettledInv' \/ AllSettled') /\ AnswersInv'
  BY NextInv, NextSettled, NextAnswers
<1>3. (Resting => IInv) /\ (AllSettled => SettledInv)
  BY AllIdle, NobodyAtWork
<1>4. IInv /\ AnswersInv => AnswersAreBest
  BY FoundIsBest
<1>5. QED
  BY <1>1, <1>2, <1>3, <1>4, PTL DEF Spec
=============================================================================
