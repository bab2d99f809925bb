-------------------------- MODULE ConversationProofs --------------------------
(***************************************************************************)
(* Conversation for any tools, dialects, generators and lengths: results   *)
(* answer their calls, selections are told the tools the conversation has  *)
(* called, a stream means the response it is of, and a query ends with the *)
(* newest speech of those its generator listens to.                        *)
(*                                                                         *)
(* The arguments.  Results: every outcome is that of one call, so as many  *)
(* outcomes as calls are one of each.  Tools used: the names the messages  *)
(* mention, flattened and each taken once, are the tools called; a message *)
(* that joins the conversation mentions nothing, the calls made with it,   *)
(* or calls made before, which taking once leaves out.  Streams: there is  *)
(* a slot for each call that has begun, in the order of the calls, and it  *)
(* holds the fragments that came; no beginning of an object but the whole  *)
(* is one.  Queries: a speech, and a message as a generator reads it, is a *)
(* voice, who speaks and the last token, or silence; for every choice of   *)
(* speakers the newest voice of theirs among the messages is the newest    *)
(* among the speeches, and a generator takes the newest it finds.          *)
(*                                                                         *)
(* FlattenSeq is a recursive function and Once a fold, so their laws are   *)
(* proved first: a function that computes every prefix exists, built up    *)
(* from the empty prefix (UpTo is the induction), and what holds of a      *)
(* prefix passes to the next.                                              *)
(***************************************************************************)
EXTENDS Conversation, FiniteSetTheorems, SequenceTheorems, WellFoundedInduction, TLAPS

-----------------------------------------------------------------------------
(* Sequences                                                               *)

(* A set of natural numbers has a least one.                               *)
LEMMA LeastNatural ==
  ASSUME NEW T \in SUBSET Nat, T # {}
  PROVE  \E n \in T : \A m \in T : n <= m
<1> DEFINE R == {p \in Nat \X Nat : p[1] < p[2]}
<1>1. IsWellFoundedOn(R, Nat)
  BY NatLessThanWellFounded DEF OpToRel
<1>2. \A m, n \in Nat : <<m, n>> \in R <=> m < n
  OBVIOUS
<1> HIDE DEF R
<1>3. \E n \in T : \A m \in T : ~ (<<m, n>> \in R)
  BY <1>1, WFMin
<1>4. PICK n \in T : \A m \in T : ~ (<<m, n>> \in R)
  BY <1>3
<1>5. ASSUME NEW m \in T PROVE n <= m
  <2>1. ~ (m < n)
    BY <1>2, <1>4
  <2>2. QED
    BY <2>1
<1>6. QED
  BY <1>5

(* A property of the numbers up to a bound that holds of 0 and passes from *)
(* a number to the next holds of all: T is the set of those that have it.  *)
LEMMA UpTo ==
  ASSUME NEW n \in Nat, NEW T, 0 \in T,
         \A k \in 0 .. n : k # 0 /\ k - 1 \in T => k \in T
  PROVE  \A k \in 0 .. n : k \in T
<1> DEFINE Bad == {k \in 0 .. n : k \notin T}
<1>1. SUFFICES ASSUME Bad # {} PROVE FALSE
  OBVIOUS
<1>2. Bad \in SUBSET Nat
  OBVIOUS
<1>3. PICK k \in Bad : \A m \in Bad : k <= m
  <2> HIDE DEF Bad
  <2>1. QED
    BY <1>1, <1>2, LeastNatural
<1>4. k \in 0 .. n /\ k # 0
  OBVIOUS
<1>5. k - 1 \in 0 .. n /\ ~ (k <= k - 1)
  BY <1>4
<1>6. k - 1 \in T
  BY <1>3, <1>5
<1>7. QED
  BY <1>4, <1>6

(* What FlattenSeq computes on the first m sequences.                      *)
Flattens(f, ss, m) ==
  f = [i \in 1 .. m |-> IF i = 1 THEN ss[i] ELSE f[i - 1] \o ss[i]]

(* The folds of every number of sequences exist, one built on the other.   *)
LEMMA FlattenExists ==
  ASSUME NEW ss, NEW n \in Nat
  PROVE  \E f : Flattens(f, ss, n)
<1> DEFINE T == {m \in Nat : \E f : Flattens(f, ss, m)}
<1>1. 0 \in T
  <2> DEFINE f == [i \in 1 .. 0 |-> ss]
  <2>1. 1 .. 0 = {}
    OBVIOUS
  <2>2. f = [i \in 1 .. 0 |-> IF i = 1 THEN ss[i] ELSE f[i - 1] \o ss[i]]
    BY <2>1
  <2>3. QED
    BY <2>2 DEF Flattens
<1>2. ASSUME NEW k \in 0 .. n, k # 0, k - 1 \in T
      PROVE  k \in T
  <2>1. PICK f : Flattens(f, ss, k - 1)
    BY <1>2
  <2> DEFINE g == [i \in 1 .. k |-> IF i = 1 THEN ss[i]
                                    ELSE IF i = k THEN f[k - 1] \o ss[k] ELSE f[i]]
  <2>2. \A i \in 1 .. k - 1 : f[i] = IF i = 1 THEN ss[i] ELSE f[i - 1] \o ss[i]
    BY <2>1 DEF Flattens
  <2>3. \A i \in 1 .. k : i # 1 => i - 1 \in 1 .. k /\ (i # k => i \in 1 .. k - 1)
    BY <1>2
  <2>4. \A i \in 1 .. k - 1 : i \in 1 .. k /\ i # k
    BY <1>2
  <2>5. \A i \in 1 .. k - 1 : g[i] = f[i]
    BY <2>2, <2>4
  <2>6. ASSUME NEW i \in 1 .. k
        PROVE  g[i] = IF i = 1 THEN ss[i] ELSE g[i - 1] \o ss[i]
    <3>1. CASE i = 1
      BY <3>1
    <3>2. CASE i # 1
      <4>1. i - 1 \in 1 .. k - 1
        BY <1>2, <3>2
      <4>2. g[i - 1] = f[i - 1]
        BY <2>5, <4>1
      <4>3. CASE i = k
        BY <3>2, <4>2, <4>3
      <4>4. CASE i # k
        BY <2>2, <2>3, <3>2, <4>2, <4>4
      <4>5. QED
        BY <4>3, <4>4
    <3>3. QED
      BY <3>1, <3>2
  <2>7. g = [i \in 1 .. k |-> g[i]]
    OBVIOUS
  <2> HIDE DEF g
  <2>8. Flattens(g, ss, k)
    BY <2>6, <2>7 DEF Flattens
  <2>9. k \in Nat
    OBVIOUS
  <2>10. QED
    BY <2>8, <2>9
<1> HIDE DEF T
<1>3. n \in T
  BY <1>1, <1>2, UpTo
<1>4. QED
  BY <1>3 DEF T

(* Flattening takes one sequence after the other.                          *)
LEMMA FlattenSteps ==
  ASSUME NEW S, NEW ss \in Seq(Seq(S))
  PROVE  \E K \in [0 .. Len(ss) -> Seq(S)] :
           /\ K[0] = <<>>
           /\ \A k \in 1 .. Len(ss) : K[k] = K[k - 1] \o ss[k]
           /\ FlattenSeq(ss) = K[Len(ss)]
<1> DEFINE n == Len(ss)
           F == CHOOSE f : Flattens(f, ss, n)
           K == [k \in 0 .. n |-> IF k = 0 THEN <<>> ELSE F[k]]
<1>1. n \in Nat /\ DOMAIN ss = 1 .. n /\ \A i \in 1 .. n : ss[i] \in Seq(S)
  OBVIOUS
<1>2. Flattens(F, ss, n)
  BY <1>1, FlattenExists
<1>3. FlattenSeq(ss) = IF n = 0 THEN ss ELSE F[n]
  BY DEF FlattenSeq, Flattens
<1> HIDE DEF n, F
<1>4. \A i \in 1 .. n : F[i] = IF i = 1 THEN ss[i] ELSE F[i - 1] \o ss[i]
  BY <1>2 DEF Flattens
<1>5. K[0] = <<>>
  BY <1>1
<1>6. ASSUME NEW k \in 1 .. n
      PROVE  K[k] = K[k - 1] \o ss[k]
  <2>1. k \in 0 .. n /\ k - 1 \in 0 .. n /\ k # 0 /\ ss[k] \in Seq(S)
    BY <1>1
  <2>2. CASE k = 1
    <3>1. K[k] = ss[k] /\ K[k - 1] = <<>>
      BY <1>4, <2>1, <2>2
    <3> HIDE DEF K
    <3>2. QED
      BY <2>1, <3>1
  <2>3. CASE k # 1
    <3>1. k - 1 # 0 /\ K[k] = F[k] /\ K[k - 1] = F[k - 1]
      BY <2>1, <2>3
    <3> HIDE DEF K
    <3>2. QED
      BY <1>4, <2>3, <3>1
  <2>4. QED
    BY <2>2, <2>3
<1>7. FlattenSeq(ss) = K[n]
  <2>1. n \in 0 .. n
    BY <1>1
  <2>2. n = 0 => ss = <<>>
    BY DEF n
  <2>3. QED
    BY <1>3, <2>1, <2>2
<1>8. K \in [0 .. n -> Seq(S)]
  <2> DEFINE T == {k \in 0 .. n : K[k] \in Seq(S)}
  <2>1. 0 \in T
    BY <1>1, <1>5
  <2>2. ASSUME NEW k \in 0 .. n, k # 0, k - 1 \in T
        PROVE  k \in T
    <3>1. k \in 1 .. n /\ K[k - 1] \in Seq(S) /\ ss[k] \in Seq(S)
      BY <1>1, <2>2
    <3>2. K[k] = K[k - 1] \o ss[k]
      BY <1>6, <3>1
    <3>3. K[k] \in Seq(S)
      <4> HIDE DEF K
      <4>1. QED
        BY <3>1, <3>2
    <3>4. QED
      BY <3>3
  <2>3. \A k \in 0 .. n : k \in T
    <3> HIDE DEF T
    <3>1. QED
      BY <1>1, <2>1, <2>2, UpTo
  <2>4. QED
    BY <2>3
<1> HIDE DEF K
<1>9. QED
  BY <1>5, <1>6, <1>7, <1>8 DEF n

(* Flattening sequences over a set gives a sequence over the set.          *)
LEMMA FlattenType ==
  ASSUME NEW S, NEW ss \in Seq(Seq(S))
  PROVE  FlattenSeq(ss) \in Seq(S)
<1>1. PICK K \in [0 .. Len(ss) -> Seq(S)] : FlattenSeq(ss) = K[Len(ss)]
  BY FlattenSteps
<1>2. Len(ss) \in 0 .. Len(ss)
  OBVIOUS
<1>3. QED
  BY <1>1, <1>2

(* No sequences flatten to the empty one.                                  *)
LEMMA FlattenOfNone == FlattenSeq(<<>>) = <<>>
BY DEF FlattenSeq

(* What is appended to the sequences comes last in what they flatten to.   *)
LEMMA FlattenAppend ==
  ASSUME NEW S, NEW ss \in Seq(Seq(S)), NEW s \in Seq(S)
  PROVE  FlattenSeq(Append(ss, s)) = FlattenSeq(ss) \o s
<1> DEFINE n == Len(ss)
           ts == Append(ss, s)
<1>1. /\ n \in Nat /\ ts \in Seq(Seq(S)) /\ Len(ts) = n + 1
      /\ ts[n + 1] = s /\ \A k \in 1 .. n : ts[k] = ss[k]
  OBVIOUS
<1>2. PICK K \in [0 .. n -> Seq(S)] :
        /\ K[0] = <<>>
        /\ \A k \in 1 .. n : K[k] = K[k - 1] \o ss[k]
        /\ FlattenSeq(ss) = K[n]
  BY FlattenSteps
<1>3. PICK L \in [0 .. n + 1 -> Seq(S)] :
        /\ L[0] = <<>>
        /\ \A k \in 1 .. n + 1 : L[k] = L[k - 1] \o ts[k]
        /\ FlattenSeq(ts) = L[n + 1]
  <2> HIDE DEF ts
  <2>1. PICK L \in [0 .. Len(ts) -> Seq(S)] :
          /\ L[0] = <<>>
          /\ \A k \in 1 .. Len(ts) : L[k] = L[k - 1] \o ts[k]
          /\ FlattenSeq(ts) = L[Len(ts)]
    BY <1>1, FlattenSteps
  <2>2. QED
    BY <1>1, <2>1
<1> HIDE DEF n, ts
<1>4. L[n] = K[n]
  <2> DEFINE T == {k \in 0 .. n : L[k] = K[k]}
  <2>1. 0 \in T
    BY <1>1, <1>2, <1>3
  <2>2. ASSUME NEW k \in 0 .. n, k # 0, k - 1 \in T
        PROVE  k \in T
    <3>1. k \in 1 .. n /\ k \in 1 .. n + 1
      BY <1>1, <2>2
    <3>2. L[k] = L[k - 1] \o ts[k] /\ K[k] = K[k - 1] \o ss[k] /\ ts[k] = ss[k]
      BY <1>1, <1>2, <1>3, <3>1
    <3>3. QED
      BY <2>2, <3>2
  <2>3. n \in 0 .. n
    BY <1>1
  <2>4. n \in T
    <3> HIDE DEF T
    <3>1. QED
      BY <1>1, <2>1, <2>2, <2>3, UpTo
  <2>5. QED
    BY <2>4
<1>5. L[n + 1] = L[n] \o ts[n + 1]
  <2>1. n + 1 \in 1 .. n + 1 /\ (n + 1) - 1 = n
    BY <1>1
  <2>2. QED
    BY <1>3, <2>1
<1>6. QED
  BY <1>1, <1>2, <1>3, <1>4, <1>5 DEF ts

(* The beginnings of a sequence.                                           *)
Beginnings(P, s, S) ==
  /\ P \in [0 .. Len(s) -> Seq(S)]
  /\ P[0] = <<>> /\ P[Len(s)] = s
  /\ \A k \in 1 .. Len(s) :
       P[k] = Append(P[k - 1], s[k]) /\ s[k] \in S /\ P[k - 1] \in Seq(S)

(* A sequence is built from its beginnings, one element after the other.   *)
LEMMA BeginningsExist ==
  ASSUME NEW S, NEW s \in Seq(S)
  PROVE  \E P : Beginnings(P, s, S)
<1> DEFINE P == [k \in 0 .. Len(s) |-> [i \in 1 .. k |-> s[i]]]
<1>1. Len(s) \in Nat /\ s \in [1 .. Len(s) -> S] /\ Len(s) \in 0 .. Len(s)
  OBVIOUS
<1>2. ASSUME NEW k \in 0 .. Len(s)
      PROVE  P[k] = [i \in 1 .. k |-> s[i]] /\ P[k] \in Seq(S) /\ Len(P[k]) = k
  <2>1. k \in Nat /\ \A i \in 1 .. k : s[i] \in S
    BY <1>1
  <2>2. P[k] = [i \in 1 .. k |-> s[i]]
    OBVIOUS
  <2> HIDE DEF P
  <2>3. P[k] \in [1 .. k -> S]
    BY <2>1, <2>2
  <2>4. P[k] \in Seq(S)
    BY <2>1, <2>3
  <2>5. QED
    BY <2>1, <2>2, <2>4
<1>3. P \in [0 .. Len(s) -> Seq(S)]
  <2>1. P = [k \in 0 .. Len(s) |-> P[k]]
    OBVIOUS
  <2> HIDE DEF P
  <2>2. QED
    BY <1>2, <2>1
<1>4. P[0] = <<>> /\ P[Len(s)] = s
  <2>1. 0 \in 0 .. Len(s) /\ s = [i \in 1 .. Len(s) |-> s[i]] /\ 1 .. 0 = {}
    BY <1>1
  <2> HIDE DEF P
  <2>2. P[Len(s)] = s
    BY <1>1, <1>2, <2>1
  <2>3. P[0] \in Seq(S) /\ Len(P[0]) = 0
    BY <1>2, <2>1
  <2>4. QED
    BY <2>2, <2>3
<1>5. ASSUME NEW k \in 1 .. Len(s)
      PROVE  P[k] = Append(P[k - 1], s[k])
  <2>1. k \in 0 .. Len(s) /\ k - 1 \in 0 .. Len(s) /\ s[k] \in S
    BY <1>1
  <2> HIDE DEF P
  <2>2. /\ P[k] = [i \in 1 .. k |-> s[i]] /\ P[k] \in Seq(S) /\ Len(P[k]) = k
        /\ P[k - 1] = [i \in 1 .. k - 1 |-> s[i]] /\ P[k - 1] \in Seq(S)
        /\ Len(P[k - 1]) = k - 1
    BY <1>2, <2>1
  <2>3. QED
    BY <2>1, <2>2
<1> HIDE DEF P
<1>6. \A k \in 1 .. Len(s) : s[k] \in S /\ P[k - 1] \in Seq(S)
  <2>1. \A k \in 1 .. Len(s) : k - 1 \in 0 .. Len(s)
    BY <1>1
  <2>2. QED
    BY <1>1, <1>2, <2>1
<1>7. Beginnings(P, s, S)
  BY <1>3, <1>4, <1>5, <1>6 DEF Beginnings
<1>8. QED
  BY <1>7

(* An element may be appended before concatenating or after.               *)
LEMMA AppendToConcat ==
  ASSUME NEW S, NEW a \in Seq(S), NEW b \in Seq(S), NEW x \in S
  PROVE  a \o Append(b, x) = Append(a \o b, x) /\ a \o b \in Seq(S)
OBVIOUS

(* Flattening distributes over concatenation, by induction on the second   *)
(* sequence's beginnings.                                                  *)
LEMMA FlattenConcat ==
  ASSUME NEW S, NEW a \in Seq(Seq(S)), NEW b \in Seq(Seq(S))
  PROVE  FlattenSeq(a \o b) = FlattenSeq(a) \o FlattenSeq(b)
<1>0. PICK B : Beginnings(B, b, Seq(S))
  BY BeginningsExist
<1> DEFINE T == {k \in 0 .. Len(b) : FlattenSeq(a \o B[k]) = FlattenSeq(a) \o FlattenSeq(B[k])}
<1>1. Len(b) \in Nat /\ Len(b) \in 0 .. Len(b) /\ B[0] = <<>> /\ B[Len(b)] = b
  BY <1>0 DEF Beginnings
<1>2. 0 \in T
  <2>1. FlattenSeq(a) \in Seq(S)
    BY FlattenType
  <2>2. a \o B[0] = a /\ FlattenSeq(B[0]) = <<>>
    BY <1>1, FlattenOfNone, ConcatEmptySeq
  <2>3. FlattenSeq(a) \o <<>> = FlattenSeq(a)
    BY <2>1, ConcatEmptySeq
  <2>4. FlattenSeq(a \o B[0]) = FlattenSeq(a) \o FlattenSeq(B[0])
    BY <2>2, <2>3, Zenon
  <2>5. 0 \in 0 .. Len(b)
    OBVIOUS
  <2>6. QED
    BY <2>4, <2>5, Zenon
<1>3. ASSUME NEW k \in 0 .. Len(b), k # 0, k - 1 \in T
      PROVE  k \in T
  <2>1. k \in 1 .. Len(b) /\ k - 1 \in 0 .. Len(b)
    BY <1>3
  <2>2. /\ B[k] = Append(B[k - 1], b[k]) /\ b[k] \in Seq(S)
        /\ B[k - 1] \in Seq(Seq(S))
    BY <1>0, <2>1 DEF Beginnings
  <2>3. /\ FlattenSeq(a \o B[k - 1]) = FlattenSeq(a) \o FlattenSeq(B[k - 1])
    BY <1>3
  <2>4. a \o B[k] = Append(a \o B[k - 1], b[k]) /\ a \o B[k - 1] \in Seq(Seq(S))
    <3>1. /\ a \o Append(B[k - 1], b[k]) = Append(a \o B[k - 1], b[k])
          /\ a \o B[k - 1] \in Seq(Seq(S))
      BY <2>2, AppendToConcat
    <3>2. QED
      BY <2>2, <3>1
  <2>5. /\ FlattenSeq(a \o B[k]) = FlattenSeq(a \o B[k - 1]) \o b[k]
        /\ FlattenSeq(B[k]) = FlattenSeq(B[k - 1]) \o b[k]
    BY <2>2, <2>4, FlattenAppend
  <2>6. FlattenSeq(a) \in Seq(S) /\ FlattenSeq(B[k - 1]) \in Seq(S)
    BY <2>2, FlattenType
  <2>7. FlattenSeq(a \o B[k]) = FlattenSeq(a) \o FlattenSeq(B[k])
    <3>1. \A x, y, z \in Seq(S) : (x \o y) \o z = x \o (y \o z)
      BY ConcatAssociative
    <3>2. (FlattenSeq(a) \o FlattenSeq(B[k - 1])) \o b[k]
            = FlattenSeq(a) \o (FlattenSeq(B[k - 1]) \o b[k])
      BY <2>2, <2>6, <3>1
    <3>3. QED
      BY <2>3, <2>5, <3>2
  <2>8. QED
    BY <2>7
<1>4. Len(b) \in T
  <2> HIDE DEF T
  <2>1. QED
    BY <1>1, <1>2, <1>3, UpTo
<1>5. QED
  BY <1>1, <1>4

(* Sequences of one element each flatten to the sequence of these          *)
(* elements.                                                               *)
LEMMA FlattenSingles ==
  ASSUME NEW S, NEW s \in Seq(S), NEW ss, DOMAIN ss = DOMAIN s, ss \in Seq(Seq(S)),
         \A i \in DOMAIN s : ss[i] = <<s[i]>>
  PROVE  FlattenSeq(ss) = s
<1>1. /\ Len(s) \in Nat /\ Len(ss) = Len(s) /\ DOMAIN s = 1 .. Len(s)
      /\ Len(s) \in 0 .. Len(s)
  OBVIOUS
<1>2. PICK K \in [0 .. Len(s) -> Seq(S)] :
        /\ K[0] = <<>>
        /\ \A k \in 1 .. Len(s) : K[k] = K[k - 1] \o ss[k]
        /\ FlattenSeq(ss) = K[Len(s)]
  <2>1. PICK K \in [0 .. Len(ss) -> Seq(S)] :
          /\ K[0] = <<>>
          /\ \A k \in 1 .. Len(ss) : K[k] = K[k - 1] \o ss[k]
          /\ FlattenSeq(ss) = K[Len(ss)]
    BY FlattenSteps
  <2>2. QED
    BY <1>1, <2>1
<1>7. PICK P : Beginnings(P, s, S)
  BY BeginningsExist
<1> DEFINE T == {k \in 0 .. Len(s) : K[k] = P[k]}
<1>3. 0 \in T
  BY <1>1, <1>2, <1>7 DEF Beginnings
<1>4. ASSUME NEW k \in 0 .. Len(s), k # 0, k - 1 \in T
      PROVE  k \in T
  <2>1. k \in 1 .. Len(s) /\ k - 1 \in 0 .. Len(s)
    BY <1>4
  <2>2. K[k] = K[k - 1] \o <<s[k]>> /\ K[k - 1] = P[k - 1]
    BY <1>1, <1>2, <1>4, <2>1
  <2>3. /\ P[k] = Append(P[k - 1], s[k]) /\ s[k] \in S
        /\ P[k - 1] \in Seq(S)
    BY <1>1, <1>7, <2>1 DEF Beginnings
  <2>4. K[k] = P[k]
    BY <2>2, <2>3, AppendIsConcat
  <2>5. QED
    BY <2>4
<1>5. Len(s) \in T
  <2> HIDE DEF T
  <2>1. QED
    BY <1>1, <1>3, <1>4, UpTo
<1>6. QED
  BY <1>2, <1>5, <1>7 DEF Beginnings

(* Empty sequences flatten to the empty one.                               *)
LEMMA FlattenEmpties ==
  ASSUME NEW ss, NEW n \in Nat, DOMAIN ss = 1 .. n, \A i \in 1 .. n : ss[i] = <<>>,
         ss \in Seq(Seq({}))
  PROVE  FlattenSeq(ss) = <<>>
<1>1. FlattenSeq(ss) \in Seq({})
  BY FlattenType
<1>2. QED
  BY <1>1

-----------------------------------------------------------------------------
(* Once                                                                    *)

Taken(seen, x) == IF Contains(seen, x) THEN seen ELSE Append(seen, x)

(* The fold of Once over the sets of the first m positions.                *)
Folds(g, s, m) ==
  g = [S \in SUBSET (1 .. m) |->
         IF S = {} THEN <<>> ELSE Taken(g[S \ {Max(S)}], s[Max(S)])]

(* A set of numbers up to m + 1 that has m + 1 has it for its greatest.    *)
LEMMA MaxOfInterval ==
  ASSUME NEW m \in Nat, NEW S \in SUBSET (1 .. m + 1), m + 1 \in S
  PROVE  Max(S) = m + 1
<1>1. m + 1 \in S /\ \A y \in S : m + 1 >= y
  OBVIOUS
<1>2. Max(S) \in S /\ \A y \in S : Max(S) >= y
  BY <1>1 DEF Max
<1>3. Max(S) \in 1 .. m + 1 /\ Max(S) >= m + 1
  BY <1>2
<1>4. QED
  BY <1>3

(* The folds over every number of positions exist.                         *)
LEMMA FoldExists ==
  ASSUME NEW s, NEW n \in Nat
  PROVE  \E g : Folds(g, s, n)
<1> DEFINE T == {m \in Nat : \E g : Folds(g, s, m)}
<1>1. 0 \in T
  <2> DEFINE g == [S \in SUBSET (1 .. 0) |-> <<>>]
  <2>1. SUBSET (1 .. 0) = {{}}
    OBVIOUS
  <2>2. Folds(g, s, 0)
    BY <2>1 DEF Folds
  <2>3. QED
    BY <2>2
<1>2. ASSUME NEW k \in 0 .. n, k # 0, k - 1 \in T
      PROVE  k \in T
  <2> DEFINE m == k - 1
  <2>1. m \in Nat /\ m + 1 = k /\ k \in Nat
    BY <1>2
  <2>2. PICK f : Folds(f, s, m)
    BY <1>2
  <2> HIDE DEF m
  <2> DEFINE g == [S \in SUBSET (1 .. m + 1) |->
                     IF m + 1 \in S THEN Taken(f[S \ {m + 1}], s[m + 1]) ELSE f[S]]
  <2>3. /\ \A S \in SUBSET (1 .. m + 1) : m + 1 \notin S => S \in SUBSET (1 .. m)
        /\ SUBSET (1 .. m) \subseteq SUBSET (1 .. m + 1)
    BY <2>1
  <2>4. \A S \in SUBSET (1 .. m) : g[S] = f[S]
    BY <2>1, <2>3
  <2>5. \A S \in SUBSET (1 .. m) :
           f[S] = IF S = {} THEN <<>> ELSE Taken(f[S \ {Max(S)}], s[Max(S)])
    BY <2>2 DEF Folds
  <2>6. ASSUME NEW S \in SUBSET (1 .. m + 1)
        PROVE  g[S] = IF S = {} THEN <<>> ELSE Taken(g[S \ {Max(S)}], s[Max(S)])
    <3>1. CASE m + 1 \in S
      <4>1. Max(S) = m + 1
        BY <2>1, <3>1, MaxOfInterval
      <4>2. S \ {m + 1} \in SUBSET (1 .. m)
        BY <2>1
      <4>3. g[S] = Taken(f[S \ {m + 1}], s[m + 1])
        BY <3>1
      <4>4. g[S \ {m + 1}] = f[S \ {m + 1}]
        BY <2>4, <4>2
      <4> HIDE DEF g
      <4>5. QED
        BY <3>1, <4>1, <4>3, <4>4
    <3>2. CASE m + 1 \notin S
      <4>1. S \in SUBSET (1 .. m) /\ S \ {Max(S)} \in SUBSET (1 .. m)
        BY <2>3, <3>2
      <4>2. g[S] = f[S] /\ g[S \ {Max(S)}] = f[S \ {Max(S)}]
        BY <2>4, <4>1
      <4> HIDE DEF g
      <4>3. QED
        BY <2>5, <4>1, <4>2
    <3>3. QED
      BY <3>1, <3>2
  <2>7. g = [S \in SUBSET (1 .. m + 1) |-> g[S]]
    OBVIOUS
  <2> HIDE DEF g
  <2>8. Folds(g, s, m + 1)
    BY <2>6, <2>7 DEF Folds
  <2>9. QED
    BY <2>1, <2>8
<1> HIDE DEF T
<1>3. n \in T
  BY <1>1, <1>2, UpTo
<1>4. QED
  BY <1>3 DEF T

(* Once takes one element after the other.                                 *)
LEMMA OnceSteps ==
  ASSUME NEW S, NEW s \in Seq(S)
  PROVE  \E K \in [0 .. Len(s) -> Seq(S)] :
           /\ K[0] = <<>>
           /\ \A k \in 1 .. Len(s) : K[k] = Taken(K[k - 1], s[k])
           /\ Once(s) = K[Len(s)]
<1> DEFINE n == Len(s)
           F == CHOOSE g : Folds(g, s, n)
           K == [k \in 0 .. n |-> F[1 .. k]]
<1>1. n \in Nat /\ DOMAIN s = 1 .. n /\ \A i \in 1 .. n : s[i] \in S
  OBVIOUS
<1>2. Once(s) = F[DOMAIN s]
  BY <1>1 DEF Once, FoldLeft, MapThenFoldSet, Folds, Taken
<1>3. Folds(F, s, n)
  BY <1>1, FoldExists
<1> HIDE DEF F, n
<1>4. \A R \in SUBSET (1 .. n) :
         F[R] = IF R = {} THEN <<>> ELSE Taken(F[R \ {Max(R)}], s[Max(R)])
  BY <1>3 DEF Folds
<1>5. K[0] = <<>>
  <2>1. 1 .. 0 = {} /\ {} \in SUBSET (1 .. n) /\ 0 \in 0 .. n
    BY <1>1
  <2>2. QED
    BY <1>4, <2>1
<1>6. ASSUME NEW k \in 1 .. n
      PROVE  K[k] = Taken(K[k - 1], s[k])
  <2>1. /\ k \in 0 .. n /\ k - 1 \in 0 .. n /\ k - 1 \in Nat /\ (k - 1) + 1 = k
    BY <1>1
  <2>2. /\ 1 .. k \in SUBSET (1 .. n) /\ 1 .. k # {}
        /\ (1 .. k) \ {k} = 1 .. k - 1 /\ k \in 1 .. k
    <3>1. k \in Nat /\ 1 <= k /\ k <= n
      BY <1>1
    <3>2. k \in 1 .. k /\ \A i \in 1 .. k : i \in 1 .. n
      BY <1>1, <3>1
    <3>3. (1 .. k) \ {k} = 1 .. k - 1
      BY <3>1
    <3>4. QED
      BY <3>2, <3>3
  <2>3. Max(1 .. k) = k
    <3>1. 1 .. k \in SUBSET (1 .. (k - 1) + 1) /\ (k - 1) + 1 \in 1 .. k
      BY <2>1
    <3>2. QED
      BY <2>1, <3>1, MaxOfInterval
  <2>4. F[1 .. k] = Taken(F[1 .. k - 1], s[k])
    BY <1>4, <2>2, <2>3
  <2>5. QED
    BY <2>1, <2>4
<1>7. Once(s) = K[n]
  <2>1. n \in 0 .. n
    BY <1>1
  <2>2. QED
    BY <1>1, <1>2, <2>1
<1>8. K \in [0 .. n -> Seq(S)]
  <2> DEFINE T == {k \in 0 .. n : K[k] \in Seq(S)}
  <2>1. 0 \in T
    <3>1. 0 \in 0 .. n /\ <<>> \in Seq(S)
      BY <1>1
    <3> HIDE DEF K
    <3>2. QED
      BY <1>5, <3>1
  <2>2. ASSUME NEW k \in 0 .. n, k # 0, k - 1 \in T
        PROVE  k \in T
    <3>1. k \in 1 .. n /\ K[k - 1] \in Seq(S) /\ s[k] \in S
      BY <1>1, <2>2
    <3>2. K[k] = Taken(K[k - 1], s[k])
      BY <1>6, <3>1
    <3>3. K[k] \in Seq(S)
      <4> HIDE DEF K
      <4>1. QED
        BY <3>1, <3>2 DEF Taken
    <3>4. QED
      BY <3>3
  <2>3. \A k \in 0 .. n : k \in T
    <3> HIDE DEF T
    <3>1. QED
      BY <1>1, <2>1, <2>2, UpTo
  <2>4. QED
    BY <2>3
<1> HIDE DEF K
<1>9. QED
  BY <1>5, <1>6, <1>7, <1>8 DEF n

(* What is taken once comes from the sequence.                             *)
LEMMA OnceType ==
  ASSUME NEW S, NEW s \in Seq(S)
  PROVE  Once(s) \in Seq(S)
<1>1. PICK K \in [0 .. Len(s) -> Seq(S)] : Once(s) = K[Len(s)]
  BY OnceSteps
<1>2. Len(s) \in 0 .. Len(s)
  OBVIOUS
<1>3. QED
  BY <1>1, <1>2

(* Of nothing, nothing is taken.                                           *)
LEMMA OnceOfNone == Once(<<>>) = <<>>
<1>1. <<>> \in Seq({}) /\ Len(<<>>) = 0
  OBVIOUS
<1>2. QED
  BY <1>1, OnceSteps

(* The last element is taken unless it was before.                         *)
LEMMA OnceAppend ==
  ASSUME NEW S, NEW s \in Seq(S), NEW x \in S
  PROVE  Once(Append(s, x)) = Taken(Once(s), x)
<1> DEFINE n == Len(s)
           t == Append(s, x)
<1>1. /\ n \in Nat /\ t \in Seq(S) /\ Len(t) = n + 1
      /\ t[n + 1] = x /\ \A k \in 1 .. n : t[k] = s[k]
  OBVIOUS
<1>2. PICK K \in [0 .. n -> Seq(S)] :
        /\ K[0] = <<>>
        /\ \A k \in 1 .. n : K[k] = Taken(K[k - 1], s[k])
        /\ Once(s) = K[n]
  BY OnceSteps
<1>3. PICK L \in [0 .. n + 1 -> Seq(S)] :
        /\ L[0] = <<>>
        /\ \A k \in 1 .. n + 1 : L[k] = Taken(L[k - 1], t[k])
        /\ Once(t) = L[n + 1]
  <2> HIDE DEF t
  <2>1. PICK L \in [0 .. Len(t) -> Seq(S)] :
          /\ L[0] = <<>>
          /\ \A k \in 1 .. Len(t) : L[k] = Taken(L[k - 1], t[k])
          /\ Once(t) = L[Len(t)]
    BY <1>1, OnceSteps
  <2>2. QED
    BY <1>1, <2>1
<1> HIDE DEF n, t
<1>4. L[n] = K[n]
  <2> DEFINE T == {k \in 0 .. n : L[k] = K[k]}
  <2>1. 0 \in T
    BY <1>1, <1>2, <1>3
  <2>2. ASSUME NEW k \in 0 .. n, k # 0, k - 1 \in T
        PROVE  k \in T
    <3>1. k \in 1 .. n /\ k \in 1 .. n + 1
      BY <1>1, <2>2
    <3>2. /\ L[k] = Taken(L[k - 1], t[k]) /\ K[k] = Taken(K[k - 1], s[k]) /\ t[k] = s[k]
      BY <1>1, <1>2, <1>3, <3>1
    <3>3. QED
      BY <2>2, <3>2
  <2>3. n \in 0 .. n
    BY <1>1
  <2>4. n \in T
    <3> HIDE DEF T
    <3>1. QED
      BY <1>1, <2>1, <2>2, <2>3, UpTo
  <2>5. QED
    BY <2>4
<1>5. L[n + 1] = Taken(L[n], t[n + 1])
  <2>1. n + 1 \in 1 .. n + 1 /\ (n + 1) - 1 = n
    BY <1>1
  <2>2. QED
    BY <1>3, <2>1
<1>6. QED
  BY <1>1, <1>2, <1>3, <1>4, <1>5 DEF t

(* What was taken once stays as it is.                                     *)
LEMMA OnceTwice ==
  ASSUME NEW S, NEW s \in Seq(S)
  PROVE  Once(Once(s)) = Once(s)
<1>0. PICK P : Beginnings(P, s, S)
  BY BeginningsExist
<1> DEFINE T == {k \in 0 .. Len(s) : Once(Once(P[k])) = Once(P[k])}
<1>1. Len(s) \in Nat /\ Len(s) \in 0 .. Len(s) /\ P[0] = <<>> /\ P[Len(s)] = s
  BY <1>0 DEF Beginnings
<1>2. 0 \in T
  BY <1>1, OnceOfNone
<1>3. ASSUME NEW k \in 0 .. Len(s), k # 0, k - 1 \in T
      PROVE  k \in T
  <2>1. k \in 1 .. Len(s) /\ k - 1 \in 0 .. Len(s)
    BY <1>3
  <2>2. P[k] = Append(P[k - 1], s[k]) /\ s[k] \in S /\ P[k - 1] \in Seq(S)
    BY <1>0, <2>1 DEF Beginnings
  <2>3. Once(Once(P[k - 1])) = Once(P[k - 1])
    BY <1>3
  <2>4. Once(P[k]) = Taken(Once(P[k - 1]), s[k]) /\ Once(P[k - 1]) \in Seq(S)
    BY <2>2, OnceAppend, OnceType
  <2>5. Once(Append(Once(P[k - 1]), s[k])) = Taken(Once(P[k - 1]), s[k])
    BY <2>2, <2>3, <2>4, OnceAppend
  <2>6. Once(Once(P[k])) = Once(P[k])
    BY <2>3, <2>4, <2>5 DEF Taken
  <2>7. QED
    BY <2>6
<1>4. Len(s) \in T
  <2> HIDE DEF T
  <2>1. QED
    BY <1>1, <1>2, <1>3, UpTo
<1>5. QED
  BY <1>1, <1>4

(* What Once makes of a sequence depends on its beginning only through     *)
(* what Once makes of that.                                                *)
LEMMA OnceOnto ==
  ASSUME NEW S, NEW a \in Seq(S), NEW b \in Seq(S), NEW t \in Seq(S), Once(a) = Once(b)
  PROVE  Once(a \o t) = Once(b \o t)
<1>0. PICK P : Beginnings(P, t, S)
  BY BeginningsExist
<1> DEFINE T == {k \in 0 .. Len(t) : Once(a \o P[k]) = Once(b \o P[k])}
<1>1. Len(t) \in Nat /\ Len(t) \in 0 .. Len(t) /\ P[0] = <<>> /\ P[Len(t)] = t
  BY <1>0 DEF Beginnings
<1>2. 0 \in T
  <2>1. a \o P[0] = a /\ b \o P[0] = b
    BY <1>1, ConcatEmptySeq
  <2>2. 0 \in 0 .. Len(t)
    OBVIOUS
  <2>3. QED
    BY <2>1, <2>2, Zenon
<1>3. ASSUME NEW k \in 0 .. Len(t), k # 0, k - 1 \in T
      PROVE  k \in T
  <2>1. k \in 1 .. Len(t) /\ k - 1 \in 0 .. Len(t)
    BY <1>3
  <2>2. P[k] = Append(P[k - 1], t[k]) /\ t[k] \in S /\ P[k - 1] \in Seq(S)
    BY <1>0, <2>1 DEF Beginnings
  <2>3. Once(a \o P[k - 1]) = Once(b \o P[k - 1])
    BY <1>3
  <2>4. /\ a \o P[k] = Append(a \o P[k - 1], t[k]) /\ a \o P[k - 1] \in Seq(S)
        /\ b \o P[k] = Append(b \o P[k - 1], t[k]) /\ b \o P[k - 1] \in Seq(S)
    <3>1. P[k] = Append(P[k - 1], t[k]) /\ t[k] \in S /\ P[k - 1] \in Seq(S)
      BY <2>2
    <3>2. /\ a \o Append(P[k - 1], t[k]) = Append(a \o P[k - 1], t[k])
          /\ a \o P[k - 1] \in Seq(S)
      BY <3>1, AppendToConcat
    <3>3. /\ b \o Append(P[k - 1], t[k]) = Append(b \o P[k - 1], t[k])
          /\ b \o P[k - 1] \in Seq(S)
      BY <3>1, AppendToConcat
    <3>4. QED
      BY <3>1, <3>2, <3>3, Zenon
  <2>5. /\ Once(a \o P[k]) = Taken(Once(a \o P[k - 1]), t[k])
        /\ Once(b \o P[k]) = Taken(Once(b \o P[k - 1]), t[k])
    BY <2>2, <2>4, OnceAppend
  <2>6. QED
    BY <2>3, <2>5
<1>4. Len(t) \in T
  <2> HIDE DEF T
  <2>1. QED
    BY <1>1, <1>2, <1>3, UpTo
<1>5. QED
  BY <1>1, <1>4

(* What was seen already adds nothing.                                     *)
LEMMA OnceKnown ==
  ASSUME NEW S, NEW a \in Seq(S), NEW t \in Seq(S),
         \A i \in 1 .. Len(t) : Contains(Once(a), t[i])
  PROVE  Once(a \o t) = Once(a)
<1>0. PICK P : Beginnings(P, t, S)
  BY BeginningsExist
<1> DEFINE T == {k \in 0 .. Len(t) : Once(a \o P[k]) = Once(a)}
<1>1. Len(t) \in Nat /\ Len(t) \in 0 .. Len(t) /\ P[0] = <<>> /\ P[Len(t)] = t
  BY <1>0 DEF Beginnings
<1>2. 0 \in T
  <2>1. a \o P[0] = a
    BY <1>1, ConcatEmptySeq
  <2>2. 0 \in 0 .. Len(t)
    OBVIOUS
  <2>3. QED
    BY <2>1, <2>2, Zenon
<1>3. ASSUME NEW k \in 0 .. Len(t), k # 0, k - 1 \in T
      PROVE  k \in T
  <2>1. k \in 1 .. Len(t) /\ k - 1 \in 0 .. Len(t)
    BY <1>3
  <2>2. P[k] = Append(P[k - 1], t[k]) /\ t[k] \in S /\ P[k - 1] \in Seq(S)
    BY <1>0, <2>1 DEF Beginnings
  <2>3. Once(a \o P[k - 1]) = Once(a)
    BY <1>3
  <2>4. a \o P[k] = Append(a \o P[k - 1], t[k]) /\ a \o P[k - 1] \in Seq(S)
    <3>1. /\ a \o Append(P[k - 1], t[k]) = Append(a \o P[k - 1], t[k])
          /\ a \o P[k - 1] \in Seq(S)
      BY <2>2, AppendToConcat
    <3>2. QED
      BY <2>2, <3>1, Zenon
  <2>5. Once(a \o P[k]) = Taken(Once(a \o P[k - 1]), t[k])
    BY <2>2, <2>4, OnceAppend
  <2>6. QED
    BY <2>1, <2>3, <2>5 DEF Taken
<1>4. Len(t) \in T
  <2> HIDE DEF T
  <2>1. QED
    BY <1>1, <1>2, <1>3, UpTo
<1>5. QED
  BY <1>1, <1>4

(* What came once is contained.                                            *)
LEMMA OnceContains ==
  ASSUME NEW S, NEW a \in Seq(S), NEW t \in Seq(S), NEW i \in 1 .. Len(t)
  PROVE  Contains(Once(a \o t), t[i])
<1>0. PICK P : Beginnings(P, t, S)
  BY BeginningsExist
<1> DEFINE T == {k \in 0 .. Len(t) : k >= i => Contains(Once(a \o P[k]), t[i])}
<1>1. Len(t) \in Nat /\ Len(t) \in 0 .. Len(t) /\ P[0] = <<>> /\ P[Len(t)] = t
  BY <1>0 DEF Beginnings
<1>2. 0 \in T
  BY <1>1
<1>3. ASSUME NEW k \in 0 .. Len(t), k # 0, k - 1 \in T
      PROVE  k \in T
  <2>1. k \in 1 .. Len(t) /\ k - 1 \in 0 .. Len(t)
    BY <1>3
  <2>2. P[k] = Append(P[k - 1], t[k]) /\ t[k] \in S /\ P[k - 1] \in Seq(S)
    BY <1>0, <2>1 DEF Beginnings
  <2>3. k - 1 >= i => Contains(Once(a \o P[k - 1]), t[i])
    BY <1>3
  <2>4. a \o P[k] = Append(a \o P[k - 1], t[k]) /\ a \o P[k - 1] \in Seq(S)
    <3>1. /\ a \o Append(P[k - 1], t[k]) = Append(a \o P[k - 1], t[k])
          /\ a \o P[k - 1] \in Seq(S)
      BY <2>2, AppendToConcat
    <3>2. QED
      BY <2>2, <3>1
  <2>5. /\ Once(a \o P[k]) = Taken(Once(a \o P[k - 1]), t[k])
        /\ Once(a \o P[k - 1]) \in Seq(S)
    BY <2>2, <2>4, OnceAppend, OnceType
  <2>6. \A q \in Seq(S) : Contains(Taken(q, t[k]), t[k])
    <3>1. SUFFICES ASSUME NEW q \in Seq(S) PROVE Contains(Taken(q, t[k]), t[k])
      OBVIOUS
    <3>2. CASE Contains(q, t[k])
      BY <3>2 DEF Taken
    <3>3. CASE ~ Contains(q, t[k])
      <4>1. /\ Taken(q, t[k]) = Append(q, t[k]) /\ Len(Append(q, t[k])) = Len(q) + 1
            /\ Append(q, t[k])[Len(q) + 1] = t[k] /\ Len(q) + 1 \in 1 .. Len(q) + 1
        BY <2>2, <3>3 DEF Taken
      <4>2. QED
        BY <4>1 DEF Contains
    <3>4. QED
      BY <3>2, <3>3
  <2>7. \A q \in Seq(S) : Contains(q, t[i]) => Contains(Taken(q, t[k]), t[i])
    BY <2>2 DEF Taken, Contains
  <2>8. CASE k = i
    BY <2>5, <2>6, <2>8
  <2>9. CASE k # i
    <3>1. k >= i => k - 1 >= i
      BY <2>1, <2>9
    <3>2. QED
      BY <2>3, <2>5, <2>7, <3>1
  <2>10. QED
    BY <2>8, <2>9
<1>4. Len(t) \in T
  <2> HIDE DEF T
  <2>1. QED
    BY <1>1, <1>2, <1>3, UpTo
<1>5. QED
  BY <1>1, <1>4

-----------------------------------------------------------------------------
(* Types                                                                   *)

Kinds == {"openai", "openai_responses", "anthropic", "gemini"} \cup Frameworks
Names == Tools \cup {NoName}
Ids == Nat \X Nat
SomeId == Ids \cup {NoId}
Token == ({"please", "user", "model"} \X Nat) \cup ({"result"} \X SomeId)
Text == Seq(Token)

BlockTypes ==
  {"text", "user-prompt", "model text", "part", "tool_use", "toolUse", "tool-call",
   "function_call", "tool_result", "toolResult", "tool-return", "function_result"}
BlockSet == [type : BlockTypes, text : Text, name : Names]
Roles == {NoRole, "user", "assistant", "model", "tool"}
MessageTypes ==
  {"", "human", "ai", "tool", "by user", "by agent", "function_call", "function_call_output"}
MessageSet ==
  [role : Roles, type : MessageTypes, content : Text, output : Text, blocks : Seq(BlockSet),
   parts : Seq(BlockSet), calls : Seq(Names), name : Names]
CallSet ==
  [id : Ids, name : Tools, args : {"object", "none", "torn", "list"}, choice : Nat,
   index : Nat]
FragmentSet == [of : Ids, part : Nat]
SlotSet == [key : Nat, id : SomeId, name : Names, arguments : Seq(FragmentSet)]
PayloadSet == [id : SomeId, name : Names, arguments : SomeId]
Outcomes == {"text", "silent", "opaque"}
ReturnSet == [call : Nat, outcome : Outcomes]
AnswerSet == [id : SomeId, name : Names, text : Text]
SpeechSet == [who : {"user", "model", "tool"}, text : Text]

TypeOK ==
  /\ dialect \in Kinds
  /\ phase \in {"loop", "deriving", "asked", "receiving", "running", "stopped", "talked"}
  /\ messages \in Seq(MessageSet) /\ messages # <<>>
  /\ response \in Seq(CallSet) /\ arrived \in Seq(Nat) /\ slots \in Seq(SlotSet)
  /\ payloads \in Seq(PayloadSet) /\ finished \in Seq(ReturnSet)
  /\ answers \in Seq(AnswerSet)
  /\ used \in Seq(Names) /\ called \in Seq(Names)
  /\ said \in Seq(SpeechSet)
  /\ turns \in Nat

(* Only what was asked with comes of a selection, and only what runs has   *)
(* outcomes: the answer's variables are empty before they are written.     *)
Fresh ==
  /\ phase \in {"deriving", "asked"} => response = <<>> /\ arrived = <<>> /\ slots = <<>>
  /\ phase \in {"deriving", "asked", "receiving"} => payloads = <<>> /\ finished = <<>>
  /\ phase \in {"deriving", "asked", "receiving", "running"} => answers = <<>>

(* Every outcome is that of a call, and of one only.                       *)
OneOutcomeEach ==
  /\ \A k \in DOMAIN finished : finished[k].call \in DOMAIN payloads
  /\ \A j, k \in DOMAIN finished : finished[j].call = finished[k].call => j = k

AnswersInv == TypeOK /\ Fresh /\ OneOutcomeEach /\ ResultsAnswerCalls

(* All the names the messages mention, in order.                           *)
AllUsed(ms) == FlattenSeq([i \in DOMAIN ms |-> NamesUsed(ms[i])])
Followed == dialect \notin {"gemini", "google_adk"}
MessagesTell ==
  /\ \A i \in DOMAIN messages : messages[i].blocks # <<>> => messages[i].name = NoName
  /\ Followed => called = Once(AllUsed(messages))
PayloadsCalled ==
  phase = "running" => \A i \in DOMAIN payloads : Contains(called, payloads[i].name)
UsedDerived == phase = "deriving" /\ Followed /\ ~ disturbed => used = called

UsedInv == AnswersInv /\ MessagesTell /\ PayloadsCalled /\ UsedDerived /\ UsedAreCalled

(* What arrived of a call when k chunks of it did.                         *)
Received(call, k) ==
  [j \in 1 .. (IF k - 1 <= Len(Fragments(call)) THEN k - 1 ELSE Len(Fragments(call))) |->
     Fragments(call)[j]]
OneChoice == \A i \in DOMAIN response : response[i].choice = 0
SlotsFollow ==
  /\ OneChoice => \A i \in DOMAIN response : response[i].index = i - 1
  /\ phase = "receiving" =>
       /\ Len(arrived) = Len(response)
       /\ \A i \in DOMAIN response : arrived[i] <= ChunkCount(response[i])
  /\ phase = "receiving" /\ OneChoice =>
       /\ Len(slots) <= Len(response)
       /\ \A i \in DOMAIN response : arrived[i] > 0 <=> i <= Len(slots)
       /\ \A i \in DOMAIN slots :
            slots[i] = [key |-> i - 1, id |-> response[i].id, name |-> response[i].name,
                        arguments |-> Received(response[i], arrived[i])]
StreamInv == TypeOK /\ Fresh /\ SlotsFollow /\ StreamIsResponse

(* The empty text, the empty blocks and the empty names are of their       *)
(* types, and so is the missing name.                                      *)
LEMMA EmptySequences == /\ <<>> \in Text /\ <<>> \in Seq(BlockSet) /\ <<>> \in Seq(Names)
                        /\ NoName \in Names
BY DEF Text, Names

(* A function on the first n numbers is a sequence of length n.            *)
LEMMA FunctionIsSequence ==
  ASSUME NEW S, NEW n \in Nat, NEW f \in [1 .. n -> S]
  PROVE  f \in Seq(S) /\ Len(f) = n /\ DOMAIN f = 1 .. n
OBVIOUS

(* The length, domain and elements of a sequence.                          *)
LEMMA SequenceFacts ==
  ASSUME NEW S, NEW s \in Seq(S)
  PROVE  /\ Len(s) \in Nat /\ DOMAIN s = 1 .. Len(s)
         /\ \A i \in 1 .. Len(s) : s[i] \in S
OBVIOUS

(* The message without anything is a message.                              *)
LEMMA PlainType == Plain \in MessageSet
BY EmptySequences DEF Plain, MessageSet, Roles, MessageTypes, BlockTypes

(* A block is one.                                                         *)
LEMMA BlockType ==
  ASSUME NEW type \in BlockTypes, NEW text \in Text, NEW name \in Names
  PROVE  Block(type, text, name) \in BlockSet
BY DEF Block, BlockSet

(* A message differs from the plain one in a few fields.                   *)
LEMMA UserMessageType ==
  ASSUME NEW text \in Text
  PROVE  UserMessage(text) \in MessageSet
<1>1. \A type \in BlockTypes : <<Block(type, text, NoName)>> \in Seq(BlockSet)
  BY EmptySequences, BlockType
<1>2. QED
  BY <1>1, EmptySequences DEF UserMessage, Plain, MessageSet, Roles, MessageTypes, BlockTypes

(* So does what the model says.                                            *)
LEMMA ModelMessageType ==
  ASSUME NEW text \in Text
  PROVE  ModelMessage(text) \in MessageSet
<1>1. \A type \in BlockTypes : <<Block(type, text, NoName)>> \in Seq(BlockSet)
  BY EmptySequences, BlockType
<1>2. QED
  BY <1>1, EmptySequences DEF ModelMessage, Plain, MessageSet, Roles, MessageTypes, BlockTypes

(* Payloads are numbered and named.                                        *)
LEMMA CallsNames ==
  ASSUME NEW ps \in Seq(PayloadSet)
  PROVE  /\ Len(ps) \in Nat /\ DOMAIN ps = 1 .. Len(ps)
         /\ \A i \in DOMAIN ps : ps[i].name \in Names
<1>1. \A p \in PayloadSet : p.name \in Names
  BY DEF PayloadSet
<1>2. QED
  BY <1>1

(* The names and the blocks of payloads are those of each, in their        *)
(* order.                                                                  *)
LEMMA CallBlocksType ==
  ASSUME NEW ps \in Seq(PayloadSet), NEW type \in BlockTypes
  PROVE  /\ NamesIn(ps) \in Seq(Names) /\ Len(NamesIn(ps)) = Len(ps)
         /\ CallBlocks(ps, type) \in Seq(BlockSet) /\ Len(CallBlocks(ps, type)) = Len(ps)
         /\ \A i \in DOMAIN ps : /\ NamesIn(ps)[i] = ps[i].name
                                 /\ CallBlocks(ps, type)[i] = Block(type, <<>>, ps[i].name)
<1>1. /\ Len(ps) \in Nat /\ DOMAIN ps = 1 .. Len(ps)
      /\ \A i \in DOMAIN ps : ps[i].name \in Names
  BY CallsNames
<1>2. \A i \in DOMAIN ps : Block(type, <<>>, ps[i].name) \in BlockSet
  BY <1>1, EmptySequences, BlockType
<1>3. NamesIn(ps) \in [1 .. Len(ps) -> Names]
  BY <1>1 DEF NamesIn
<1>4. CallBlocks(ps, type) \in [1 .. Len(ps) -> BlockSet]
  BY <1>1, <1>2 DEF CallBlocks
<1>5. QED
  BY <1>1, <1>3, <1>4 DEF NamesIn, CallBlocks

(* The message of an answer's calls is one, or several, in every dialect.  *)
LEMMA AssistantMessagesType ==
  ASSUME NEW ps \in Seq(PayloadSet), ps # <<>>, dialect \in Kinds
  PROVE  AssistantMessages(ps) \in Seq(MessageSet) /\ AssistantMessages(ps) # <<>>
<1>1. NamesIn(ps) \in Seq(Names)
  <2>1. "text" \in BlockTypes
    BY DEF BlockTypes
  <2>2. QED
    BY <2>1, CallBlocksType
<1>2. ASSUME NEW type \in BlockTypes PROVE CallBlocks(ps, type) \in Seq(BlockSet)
  BY CallBlocksType
<1>3. CASE dialect = "openai_responses"
  <2>0. DOMAIN ps = 1 .. Len(ps) /\ \A i \in DOMAIN ps : ps[i].name \in Names
    BY CallsNames
  <2>1. \A name \in Names :
          [Plain EXCEPT !.type = "function_call", !.name = name] \in MessageSet
    BY EmptySequences DEF MessageSet, Plain, Roles, MessageTypes
  <2>2. AssistantMessages(ps) \in [1 .. Len(ps) -> MessageSet]
    BY <1>3, <2>0, <2>1 DEF AssistantMessages
  <2>3. Len(ps) \in Nat /\ Len(ps) # 0
    OBVIOUS
  <2>4. QED
    BY <2>2, <2>3
<1>4. CASE dialect # "openai_responses"
  <2>1. \A m : m \in MessageSet => <<m>> \in Seq(MessageSet) /\ <<m>> # <<>>
    OBVIOUS
  <2>2. \E m \in MessageSet : AssistantMessages(ps) = <<m>>
    BY <1>1, <1>2, <1>4, EmptySequences DEF AssistantMessages, MessageSet, Plain, Kinds, Frameworks, Roles, MessageTypes, BlockTypes
  <2>3. QED
    BY <2>1, <2>2
<1>5. QED
  BY <1>3, <1>4

IsAnswer(a) == a.text \in Text /\ a.name \in Names

(* The results of calls make blocks, with and without their names.         *)
LEMMA ResultBlocksType ==
  ASSUME NEW as, NEW n \in Nat, DOMAIN as = 1 .. n, \A i \in 1 .. n : IsAnswer(as[i]),
         NEW type \in BlockTypes
  PROVE  /\ [i \in DOMAIN as |-> Block(type, as[i].text, NoName)] \in Seq(BlockSet)
         /\ [i \in DOMAIN as |-> Block(type, as[i].text, as[i].name)] \in Seq(BlockSet)
<1>1. \A i \in 1 .. n : /\ Block(type, as[i].text, NoName) \in BlockSet
                        /\ Block(type, as[i].text, as[i].name) \in BlockSet
  BY EmptySequences, BlockType DEF IsAnswer
<1>2. /\ [i \in 1 .. n |-> Block(type, as[i].text, NoName)] \in [1 .. n -> BlockSet]
      /\ [i \in 1 .. n |-> Block(type, as[i].text, as[i].name)] \in [1 .. n -> BlockSet]
  BY <1>1
<1>3. QED
  BY <1>2, FunctionIsSequence

(* The results of an answer's calls are messages in every dialect.         *)
LEMMA ResultMessagesType ==
  ASSUME NEW as, NEW n \in Nat, DOMAIN as = 1 .. n, \A i \in 1 .. n : IsAnswer(as[i]),
         dialect \in Kinds
  PROVE  ResultMessages(as) \in Seq(MessageSet)
<1>1. CASE dialect \in {"openai", "openai_responses", "langchain"}
  <2>1. \A i \in 1 .. n :
          /\ OpenAIResult(as[i]) \in MessageSet /\ ResponsesResult(as[i]) \in MessageSet
          /\ [Plain EXCEPT !.type = "tool", !.content = as[i].text, !.name = as[i].name]
               \in MessageSet
    BY EmptySequences DEF OpenAIResult, ResponsesResult, MessageSet, Plain, IsAnswer, Roles, MessageTypes, BlockTypes
  <2>2. ResultMessages(as) \in [1 .. n -> MessageSet]
    BY <1>1, <2>1 DEF ResultMessages
  <2>3. QED
    BY <2>2, FunctionIsSequence
<1>2. CASE dialect \notin {"openai", "openai_responses", "langchain"}
  <2>1. ASSUME NEW m \in MessageSet PROVE <<m>> \in Seq(MessageSet)
    OBVIOUS
  <2>2. \A type \in BlockTypes :
          /\ [i \in DOMAIN as |-> Block(type, as[i].text, NoName)] \in Seq(BlockSet)
          /\ [i \in DOMAIN as |-> Block(type, as[i].text, as[i].name)] \in Seq(BlockSet)
    BY ResultBlocksType
  <2>3. \E m \in MessageSet : ResultMessages(as) = <<m>>
    <3> DEFINE Plainly(type) == [i \in DOMAIN as |-> Block(type, as[i].text, NoName)]
               Named1(type) == [i \in DOMAIN as |-> Block(type, as[i].text, as[i].name)]
    <3>1. \A type \in BlockTypes : Plainly(type) \in Seq(BlockSet) /\ Named1(type) \in Seq(BlockSet)
      BY <2>2
    <3>2. \/ ResultMessages(as) = <<[Plain EXCEPT !.role = "user", !.blocks = Plainly("tool_result")]>>
          \/ ResultMessages(as) = <<[Plain EXCEPT !.role = "user", !.parts = Named1("part")]>>
          \/ ResultMessages(as) = <<[Plain EXCEPT !.role = "user", !.blocks = Plainly("toolResult")]>>
          \/ ResultMessages(as) = <<[Plain EXCEPT !.parts = Named1("tool-return")]>>
          \/ ResultMessages(as) = <<[Plain EXCEPT !.type = "by agent", !.parts = Plainly("part")]>>
          \/ ResultMessages(as) = <<[Plain EXCEPT !.role = "tool", !.parts = Plainly("function_result")]>>
      BY <1>2 DEF ResultMessages, AnthropicResult, GeminiResult, Kinds, Frameworks
    <3> HIDE DEF Plainly, Named1
    <3>3. QED
      BY <3>1, <3>2, EmptySequences DEF MessageSet, Plain, Roles, MessageTypes, BlockTypes
  <2>4. QED
    BY <2>1, <2>3
<1>3. QED
  BY <1>1, <1>2

-----------------------------------------------------------------------------
(* The names messages mention                                              *)

CallTypes == {"tool_use", "toolUse", "function_call", "tool-call", "tool-return"}
NamesOfEach(bs) == [i \in DOMAIN bs |-> IF bs[i].type \in CallTypes THEN <<bs[i].name>> ELSE <<>>]

(* BlockNames flattens the names of each block.                            *)
LEMMA BlockNamesAre == \A bs : BlockNames(bs) = FlattenSeq(NamesOfEach(bs))
BY DEF BlockNames, NamesOfEach, CallTypes

(* Each block has names from N, if those that call or return have.         *)
LEMMA NamesOfEachType ==
  ASSUME NEW bs \in Seq(BlockSet), NEW N,
         \A i \in DOMAIN bs : bs[i].type \in CallTypes => bs[i].name \in N
  PROVE  /\ NamesOfEach(bs) \in Seq(Seq(N)) /\ Len(NamesOfEach(bs)) = Len(bs)
         /\ DOMAIN NamesOfEach(bs) = 1 .. Len(bs) /\ Len(bs) \in Nat
         /\ DOMAIN bs = 1 .. Len(bs)
<1>1. Len(bs) \in Nat /\ DOMAIN bs = 1 .. Len(bs)
  OBVIOUS
<1>2. \A n \in N : <<n>> \in Seq(N)
  OBVIOUS
<1>3. <<>> \in Seq(N)
  OBVIOUS
<1>4. NamesOfEach(bs) \in [1 .. Len(bs) -> Seq(N)]
  BY <1>1, <1>2, <1>3 DEF NamesOfEach
<1>5. QED
  BY <1>1, <1>4, FunctionIsSequence

(* The names in blocks come from the blocks that call or return.           *)
LEMMA BlockNamesWithin ==
  ASSUME NEW bs \in Seq(BlockSet), NEW N,
         \A i \in DOMAIN bs : bs[i].type \in CallTypes => bs[i].name \in N
  PROVE  BlockNames(bs) \in Seq(N)
BY NamesOfEachType, FlattenType, BlockNamesAre

(* Blocks that neither call nor return have no names.                      *)
LEMMA BlockNamesNone ==
  ASSUME NEW bs \in Seq(BlockSet), \A i \in DOMAIN bs : bs[i].type \notin CallTypes
  PROVE  BlockNames(bs) = <<>>
<1>1. BlockNames(bs) \in Seq({})
  BY BlockNamesWithin
<1>2. QED
  BY <1>1

(* Blocks that all call or return have their names in their order.         *)
LEMMA BlockNamesAll ==
  ASSUME NEW bs \in Seq(BlockSet), NEW ns \in Seq(Names), Len(ns) = Len(bs),
         \A i \in DOMAIN bs : bs[i].type \in CallTypes /\ bs[i].name = ns[i]
  PROVE  BlockNames(bs) = ns
<1>1. DOMAIN ns = DOMAIN bs /\ \A i \in DOMAIN bs : bs[i].name \in Names
  OBVIOUS
<1>2. /\ NamesOfEach(bs) \in Seq(Seq(Names)) /\ DOMAIN NamesOfEach(bs) = DOMAIN ns
  BY <1>1, NamesOfEachType
<1>3. \A i \in DOMAIN ns : NamesOfEach(bs)[i] = <<ns[i]>>
  BY <1>1 DEF NamesOfEach
<1>4. QED
  BY <1>2, <1>3, FlattenSingles, BlockNamesAre

(* The fields of blocks are of their types.                                *)
LEMMA BlocksNamed ==
  ASSUME NEW bs \in Seq(BlockSet)
  PROVE  \A i \in DOMAIN bs : bs[i].type \in BlockTypes /\ bs[i].text \in Text /\ bs[i].name \in Names
<1>1. \A b \in BlockSet : b.type \in BlockTypes /\ b.text \in Text /\ b.name \in Names
  BY DEF BlockSet
<1>2. QED
  BY <1>1

(* Two lists of blocks name what one does, and then what the other does.   *)
LEMMA BlockNamesConcat ==
  ASSUME NEW bs \in Seq(BlockSet), NEW cs \in Seq(BlockSet)
  PROVE  BlockNames(bs \o cs) = BlockNames(bs) \o BlockNames(cs)
<1>1. bs \o cs \in Seq(BlockSet)
  OBVIOUS
<1>2. /\ NamesOfEach(bs) \in Seq(Seq(Names)) /\ NamesOfEach(cs) \in Seq(Seq(Names))
      /\ NamesOfEach(bs \o cs) \in Seq(Seq(Names))
      /\ Len(NamesOfEach(bs)) = Len(bs) /\ Len(NamesOfEach(cs)) = Len(cs)
      /\ Len(NamesOfEach(bs \o cs)) = Len(bs \o cs)
      /\ DOMAIN NamesOfEach(bs) = 1 .. Len(bs) /\ DOMAIN NamesOfEach(cs) = 1 .. Len(cs)
      /\ DOMAIN NamesOfEach(bs \o cs) = 1 .. Len(bs \o cs)
  BY <1>1, BlocksNamed, NamesOfEachType
<1>3. NamesOfEach(bs \o cs) = NamesOfEach(bs) \o NamesOfEach(cs)
  <2>1. Len(bs \o cs) = Len(bs) + Len(cs) /\ Len(bs) \in Nat /\ Len(cs) \in Nat
    OBVIOUS
  <2>2. NamesOfEach(bs) \in Seq(Seq(Names)) /\ NamesOfEach(cs) \in Seq(Seq(Names))
    BY <1>2
  <2>3. /\ NamesOfEach(bs) \o NamesOfEach(cs) \in Seq(Seq(Names))
        /\ Len(NamesOfEach(bs) \o NamesOfEach(cs)) = Len(NamesOfEach(bs)) + Len(NamesOfEach(cs))
        /\ \A i \in 1 .. Len(NamesOfEach(bs)) + Len(NamesOfEach(cs)) :
             (NamesOfEach(bs) \o NamesOfEach(cs))[i]
               = IF i <= Len(NamesOfEach(bs)) THEN NamesOfEach(bs)[i] ELSE NamesOfEach(cs)[i - Len(NamesOfEach(bs))]
    BY <2>2, ConcatProperties
  <2>4. ASSUME NEW i \in 1 .. Len(bs) + Len(cs)
        PROVE  NamesOfEach(bs \o cs)[i] = (NamesOfEach(bs) \o NamesOfEach(cs))[i]
    <3>1. CASE i <= Len(bs)
      <4>1. (bs \o cs)[i] = bs[i] /\ i \in 1 .. Len(bs)
        BY <2>1, <3>1
      <4>2. (NamesOfEach(bs) \o NamesOfEach(cs))[i] = NamesOfEach(bs)[i]
        BY <1>2, <2>3, <3>1
      <4>3. NamesOfEach(bs \o cs)[i] = NamesOfEach(bs)[i]
        BY <1>1, <2>1, <4>1 DEF NamesOfEach
      <4>4. QED
        BY <4>2, <4>3
    <3>2. CASE ~ (i <= Len(bs))
      <4>1. (bs \o cs)[i] = cs[i - Len(bs)] /\ i - Len(bs) \in 1 .. Len(cs)
        BY <2>1, <3>2
      <4>2. (NamesOfEach(bs) \o NamesOfEach(cs))[i] = NamesOfEach(cs)[i - Len(bs)]
        BY <1>2, <2>3, <3>2
      <4>3. NamesOfEach(bs \o cs)[i] = NamesOfEach(cs)[i - Len(bs)]
        BY <1>1, <2>1, <4>1 DEF NamesOfEach
      <4>4. QED
        BY <4>2, <4>3
    <3>3. QED
      BY <3>1, <3>2
  <2>5. QED
    BY <1>2, <2>1, <2>2, <2>3, <2>4, SeqEqual
<1>4. QED
  BY <1>2, <1>3, FlattenConcat, BlockNamesAre

(* The fields of a message are of their types.                             *)
LEMMA MessageFields ==
  ASSUME NEW m \in MessageSet
  PROVE  /\ m.role \in Roles /\ m.type \in MessageTypes /\ m.content \in Text
         /\ m.output \in Text /\ m.blocks \in Seq(BlockSet) /\ m.parts \in Seq(BlockSet)
         /\ m.calls \in Seq(Names) /\ m.name \in Names
         /\ m.blocks \o m.parts \in Seq(BlockSet)
<1>1. m.blocks \in Seq(BlockSet) /\ m.parts \in Seq(BlockSet)
  BY DEF MessageSet
<1>2. m.blocks \o m.parts \in Seq(BlockSet)
  BY <1>1
<1>3. QED
  BY <1>1, <1>2 DEF MessageSet

(* What a message mentions is names.                                       *)
LEMMA NamesUsedType ==
  ASSUME NEW m \in MessageSet
  PROVE  NamesUsed(m) \in Seq(Names)
<1>1. BlockNames(m.blocks \o m.parts) \in Seq(Names)
  BY MessageFields, BlocksNamed, BlockNamesWithin
<1>2. CalledNames(m) \in Seq(Names)
  BY <1>1, MessageFields DEF CalledNames
<1>3. QED
  BY <1>2, MessageFields DEF NamesUsed

EachUsed(ms) == [i \in DOMAIN ms |-> NamesUsed(ms[i])]

(* So is what messages mention, each and all.                              *)
LEMMA EachUsedType ==
  ASSUME NEW ms \in Seq(MessageSet)
  PROVE  /\ EachUsed(ms) \in Seq(Seq(Names)) /\ Len(EachUsed(ms)) = Len(ms)
         /\ DOMAIN EachUsed(ms) = 1 .. Len(ms) /\ DOMAIN ms = 1 .. Len(ms) /\ Len(ms) \in Nat
         /\ AllUsed(ms) = FlattenSeq(EachUsed(ms))
         /\ AllUsed(ms) \in Seq(Names)
<1>1. Len(ms) \in Nat /\ DOMAIN ms = 1 .. Len(ms)
  OBVIOUS
<1>2. \A i \in 1 .. Len(ms) : NamesUsed(ms[i]) \in Seq(Names)
  BY <1>1, NamesUsedType
<1>3. EachUsed(ms) \in [1 .. Len(ms) -> Seq(Names)]
  BY <1>1, <1>2 DEF EachUsed
<1>4. AllUsed(ms) = FlattenSeq(EachUsed(ms))
  BY DEF AllUsed, EachUsed
<1>5. QED
  BY <1>1, <1>3, <1>4, FunctionIsSequence, FlattenType

(* Messages mention what the first of them do, and then what the others    *)
(* do.                                                                     *)
LEMMA AllUsedConcat ==
  ASSUME NEW ms \in Seq(MessageSet), NEW ns \in Seq(MessageSet)
  PROVE  AllUsed(ms \o ns) = AllUsed(ms) \o AllUsed(ns)
<1>1. ms \o ns \in Seq(MessageSet)
  OBVIOUS
<1>2. /\ EachUsed(ms) \in Seq(Seq(Names)) /\ EachUsed(ns) \in Seq(Seq(Names))
      /\ EachUsed(ms \o ns) \in Seq(Seq(Names))
      /\ Len(EachUsed(ms)) = Len(ms) /\ Len(EachUsed(ns)) = Len(ns)
      /\ Len(EachUsed(ms \o ns)) = Len(ms \o ns)
      /\ DOMAIN EachUsed(ms) = 1 .. Len(ms) /\ DOMAIN EachUsed(ns) = 1 .. Len(ns)
      /\ DOMAIN EachUsed(ms \o ns) = 1 .. Len(ms \o ns)
  BY <1>1, EachUsedType
<1>3. EachUsed(ms \o ns) = EachUsed(ms) \o EachUsed(ns)
  <2>1. Len(ms \o ns) = Len(ms) + Len(ns) /\ Len(ms) \in Nat /\ Len(ns) \in Nat
    OBVIOUS
  <2>2. EachUsed(ms) \in Seq(Seq(Names)) /\ EachUsed(ns) \in Seq(Seq(Names))
    BY <1>2
  <2>3. /\ EachUsed(ms) \o EachUsed(ns) \in Seq(Seq(Names))
        /\ Len(EachUsed(ms) \o EachUsed(ns)) = Len(EachUsed(ms)) + Len(EachUsed(ns))
        /\ \A i \in 1 .. Len(EachUsed(ms)) + Len(EachUsed(ns)) :
             (EachUsed(ms) \o EachUsed(ns))[i]
               = IF i <= Len(EachUsed(ms)) THEN EachUsed(ms)[i] ELSE EachUsed(ns)[i - Len(EachUsed(ms))]
    BY <2>2, ConcatProperties
  <2>4. ASSUME NEW i \in 1 .. Len(ms) + Len(ns)
        PROVE  EachUsed(ms \o ns)[i] = (EachUsed(ms) \o EachUsed(ns))[i]
    <3>1. CASE i <= Len(ms)
      <4>1. (ms \o ns)[i] = ms[i] /\ i \in 1 .. Len(ms)
        BY <2>1, <3>1
      <4>2. (EachUsed(ms) \o EachUsed(ns))[i] = EachUsed(ms)[i]
        BY <1>2, <2>3, <3>1
      <4>3. EachUsed(ms \o ns)[i] = EachUsed(ms)[i]
        BY <1>1, <2>1, <4>1 DEF EachUsed
      <4>4. QED
        BY <4>2, <4>3
    <3>2. CASE ~ (i <= Len(ms))
      <4>1. (ms \o ns)[i] = ns[i - Len(ms)] /\ i - Len(ms) \in 1 .. Len(ns)
        BY <2>1, <3>2
      <4>2. (EachUsed(ms) \o EachUsed(ns))[i] = EachUsed(ns)[i - Len(ms)]
        BY <1>2, <2>3, <3>2
      <4>3. EachUsed(ms \o ns)[i] = EachUsed(ns)[i - Len(ms)]
        BY <1>1, <2>1, <4>1 DEF EachUsed
      <4>4. QED
        BY <4>2, <4>3
    <3>3. QED
      BY <3>1, <3>2
  <2>5. QED
    BY <1>2, <2>1, <2>2, <2>3, <2>4, SeqEqual
<1>4. QED
  <2>1. FlattenSeq(EachUsed(ms) \o EachUsed(ns))
          = FlattenSeq(EachUsed(ms)) \o FlattenSeq(EachUsed(ns))
    BY <1>2, FlattenConcat
  <2>2. /\ AllUsed(ms) = FlattenSeq(EachUsed(ms)) /\ AllUsed(ns) = FlattenSeq(EachUsed(ns))
        /\ AllUsed(ms \o ns) = FlattenSeq(EachUsed(ms \o ns))
    BY DEF AllUsed, EachUsed
  <2>3. QED
    BY <1>3, <2>1, <2>2

(* One message mentions what it mentions.                                  *)
LEMMA AllUsedOfOne ==
  ASSUME NEW m \in MessageSet
  PROVE  AllUsed(<<m>>) = NamesUsed(m)
<1>1. NamesUsed(m) \in Seq(Names)
  BY NamesUsedType
<1>2. EachUsed(<<m>>) = <<NamesUsed(m)>>
  BY DEF EachUsed
<1>3. <<NamesUsed(m)>> = Append(<<>>, NamesUsed(m)) /\ <<>> \in Seq(Seq(Names))
  OBVIOUS
<1>4. FlattenSeq(<<NamesUsed(m)>>) = FlattenSeq(<<>>) \o NamesUsed(m)
  BY <1>1, <1>3, FlattenAppend
<1>5. <<>> \o NamesUsed(m) = NamesUsed(m)
  BY <1>1, ConcatEmptySeq
<1>6. AllUsed(<<m>>) = FlattenSeq(<<NamesUsed(m)>>)
  BY <1>2 DEF AllUsed, EachUsed
<1>7. QED
  BY <1>4, <1>5, <1>6, FlattenOfNone

(* Of a message without a name of its own and without calls, the blocks    *)
(* and parts tell.                                                         *)
LEMMA BlocksTell ==
  ASSUME NEW m \in MessageSet, m.name = NoName, m.type # "function_call"
  PROVE  NamesUsed(m) = m.calls \o (BlockNames(m.blocks) \o BlockNames(m.parts))
<1>1. /\ m.calls \in Seq(Names) /\ m.blocks \in Seq(BlockSet) /\ m.parts \in Seq(BlockSet)
  BY MessageFields
<1>2. BlockNames(m.blocks) \in Seq(Names) /\ BlockNames(m.parts) \in Seq(Names)
  BY <1>1, BlocksNamed, BlockNamesWithin
<1>3. BlockNames(m.blocks \o m.parts) = BlockNames(m.blocks) \o BlockNames(m.parts)
  BY <1>1, BlockNamesConcat
<1>4. BlockNames(m.blocks) \o BlockNames(m.parts) \in Seq(Names)
  BY <1>2
<1> DEFINE inside == BlockNames(m.blocks) \o BlockNames(m.parts)
<1>5. NamesUsed(m) = <<>> \o ((m.calls \o <<>>) \o inside)
  BY <1>3 DEF NamesUsed, CalledNames
<1> HIDE DEF inside
<1>6. m.calls \o <<>> = m.calls /\ m.calls \o inside \in Seq(Names)
  BY <1>1, <1>4, ConcatEmptySeq DEF inside
<1>7. <<>> \o (m.calls \o inside) = m.calls \o inside
  BY <1>6, ConcatEmptySeq
<1>8. QED
  BY <1>5, <1>6, <1>7 DEF inside

(* No blocks name no tool.                                                 *)
LEMMA NoBlocks == BlockNames(<<>>) = <<>>
<1>1. <<>> \in Seq(BlockSet) /\ \A i \in DOMAIN <<>> : <<>>[i].type \notin CallTypes
  BY EmptySequences
<1>2. QED
  BY <1>1, BlockNamesNone

(* A sequence of one has one element.                                      *)
LEMMA OnlyElement == \A x : \A i \in DOMAIN <<x>> : <<x>>[i] = x
OBVIOUS

(* Concatenating with the empty sequence changes nothing.                  *)
LEMMA Emptied ==
  ASSUME NEW s \in Seq(Names)
  PROVE  /\ s \o (<<>> \o <<>>) = s /\ <<>> \o (s \o <<>>) = s /\ <<>> \o (<<>> \o s) = s
         /\ <<>> \o s = s /\ s \o <<>> = s
<1>1. /\ <<>> \o s = s /\ s \o <<>> = s /\ <<>> \o <<>> = <<>>
  BY EmptySequences, ConcatEmptySeq
<1>2. QED
  BY <1>1

(* Texts mention no tool.                                                  *)
LEMMA TextsMentionNone ==
  ASSUME NEW m \in MessageSet, m.name = NoName, m.type # "function_call", m.calls = <<>>,
         \A i \in DOMAIN m.blocks : m.blocks[i].type \notin CallTypes,
         \A i \in DOMAIN m.parts : m.parts[i].type \notin CallTypes
  PROVE  NamesUsed(m) = <<>>
<1>1. BlockNames(m.blocks) = <<>> /\ BlockNames(m.parts) = <<>>
  BY MessageFields, BlockNamesNone
<1>2. QED
  BY <1>1, BlocksTell, EmptySequences, Emptied

(* What the user says mentions no tool: UserMessage in every dialect.      *)
LEMMA UserMentionsNone ==
  ASSUME NEW text \in Text
  PROVE  /\ NamesUsed(UserMessage(text)) = <<>>
         /\ UserMessage(text).name = NoName
<1>1. UserMessage(text) \in MessageSet
  BY UserMessageType
<1>2. /\ UserMessage(text).name = NoName /\ UserMessage(text).type # "function_call"
      /\ UserMessage(text).calls = <<>>
  BY DEF UserMessage, Plain
<1>3. \/ UserMessage(text).blocks = <<>>
      \/ UserMessage(text).blocks = <<Block("text", text, NoName)>>
  BY DEF UserMessage, Plain
<1>4. \/ UserMessage(text).parts = <<>>
      \/ \E type \in {"user-prompt", "part", "text"} :
           UserMessage(text).parts = <<Block(type, text, NoName)>>
  BY DEF UserMessage, Plain
<1>5. ASSUME NEW type \in {"user-prompt", "part", "text"}
      PROVE  \A i \in DOMAIN <<Block(type, text, NoName)>> :
               <<Block(type, text, NoName)>>[i].type \notin CallTypes
  <2>1. Block(type, text, NoName).type = type /\ type \notin CallTypes
    BY DEF Block, CallTypes
  <2>2. QED
    BY <2>1, OnlyElement
<1>6. \A i \in DOMAIN <<>> : <<>>[i].type \notin CallTypes
  OBVIOUS
<1>7. QED
  BY <1>1, <1>2, <1>3, <1>4, <1>5, <1>6, TextsMentionNone

(* Nor does what the model says.                                           *)
LEMMA ModelMentionsNone ==
  ASSUME NEW text \in Text
  PROVE  /\ NamesUsed(ModelMessage(text)) = <<>>
         /\ ModelMessage(text).name = NoName
<1>1. ModelMessage(text) \in MessageSet
  BY ModelMessageType
<1>2. /\ ModelMessage(text).name = NoName /\ ModelMessage(text).type # "function_call"
      /\ ModelMessage(text).calls = <<>>
  BY DEF ModelMessage, Plain
<1>3. \/ ModelMessage(text).blocks = <<>>
      \/ ModelMessage(text).blocks = <<Block("text", text, NoName)>>
  BY DEF ModelMessage, Plain
<1>4. \/ ModelMessage(text).parts = <<>>
      \/ \E type \in {"model text", "part", "text"} :
           ModelMessage(text).parts = <<Block(type, text, NoName)>>
  BY DEF ModelMessage, Plain
<1>5. ASSUME NEW type \in {"model text", "part", "text"}
      PROVE  \A i \in DOMAIN <<Block(type, text, NoName)>> :
               <<Block(type, text, NoName)>>[i].type \notin CallTypes
  <2>1. Block(type, text, NoName).type = type /\ type \notin CallTypes
    BY DEF Block, CallTypes
  <2>2. QED
    BY <2>1, OnlyElement
<1>6. \A i \in DOMAIN <<>> : <<>>[i].type \notin CallTypes
  OBVIOUS
<1>7. QED
  BY <1>1, <1>2, <1>3, <1>4, <1>5, <1>6, TextsMentionNone

(* The message of an answer mentions the tools it calls, in their order,   *)
(* in every dialect but those of Gemini and ADK.                           *)
LEMMA BlocksOfCalls ==
  ASSUME NEW ps \in Seq(PayloadSet), NEW type \in BlockTypes \cap CallTypes
  PROVE  BlockNames(CallBlocks(ps, type)) = NamesIn(ps)
<1>1. /\ NamesIn(ps) \in Seq(Names) /\ Len(NamesIn(ps)) = Len(ps)
      /\ CallBlocks(ps, type) \in Seq(BlockSet) /\ Len(CallBlocks(ps, type)) = Len(ps)
      /\ \A i \in DOMAIN ps : /\ NamesIn(ps)[i] = ps[i].name
                              /\ CallBlocks(ps, type)[i] = Block(type, <<>>, ps[i].name)
  BY CallBlocksType
<1>2. DOMAIN CallBlocks(ps, type) = DOMAIN ps
  BY DEF CallBlocks
<1>3. \A n : Block(type, <<>>, n).type = type /\ Block(type, <<>>, n).name = n
  BY DEF Block
<1>4. \A i \in DOMAIN ps : /\ CallBlocks(ps, type)[i].type \in CallTypes
                           /\ CallBlocks(ps, type)[i].name = NamesIn(ps)[i]
  BY <1>1, <1>3
<1>5. QED
  BY <1>1, <1>2, <1>4, BlockNamesAll

(* An answer mentions the tools it calls: AssistantMessages, dialect by    *)
(* dialect.                                                                *)
LEMMA AnswerMentionsCalls ==
  ASSUME NEW ps \in Seq(PayloadSet), ps # <<>>, dialect \in Kinds, Followed
  PROVE  AllUsed(AssistantMessages(ps)) = NamesIn(ps)
<1>1. NamesIn(ps) \in Seq(Names) /\ Len(NamesIn(ps)) = Len(ps)
  <2>1. "text" \in BlockTypes
    BY DEF BlockTypes
  <2>2. QED
    BY <2>1, CallBlocksType
<1>2. AssistantMessages(ps) \in Seq(MessageSet)
  BY AssistantMessagesType
<1>3. CASE dialect = "openai_responses"
  <2>1. /\ DOMAIN ps = 1 .. Len(ps) /\ DOMAIN NamesIn(ps) = 1 .. Len(ps)
        /\ \A i \in DOMAIN ps : ps[i].name \in Names /\ NamesIn(ps)[i] = ps[i].name
    BY CallsNames DEF NamesIn
  <2>2. DOMAIN AssistantMessages(ps) = 1 .. Len(ps)
    BY <1>3, <2>1 DEF AssistantMessages
  <2>3. ASSUME NEW i \in 1 .. Len(ps)
        PROVE  NamesUsed(AssistantMessages(ps)[i]) = <<NamesIn(ps)[i]>>
    <3> DEFINE m == AssistantMessages(ps)[i]
    <3>1. m = [Plain EXCEPT !.type = "function_call", !.name = ps[i].name]
      BY <1>3, <2>1 DEF AssistantMessages
    <3>2. /\ m.role = NoRole /\ m.type = "function_call" /\ m.name = ps[i].name
          /\ m.calls = <<>> /\ m.blocks = <<>> /\ m.parts = <<>>
      BY <3>1 DEF Plain
    <3> HIDE DEF m
    <3>3. MsgRole(m) = "assistant"
      BY <3>2 DEF MsgRole
    <3>4. <<>> \o <<>> = <<>>
      BY EmptySequences, ConcatEmptySeq
    <3>5. BlockNames(m.blocks \o m.parts) = <<>>
      BY <3>2, <3>4, NoBlocks
    <3>6. <<m.name>> \in Seq(Names)
      BY <2>1, <3>2
    <3>7. CalledNames(m) = (<<>> \o <<m.name>>) \o <<>>
      BY <3>2, <3>5 DEF CalledNames
    <3>8. NamesUsed(m) = <<>> \o CalledNames(m)
      BY <3>3 DEF NamesUsed
    <3>9. QED
      BY <2>1, <3>2, <3>6, <3>7, <3>8, Emptied DEF m
  <2>4. EachUsed(AssistantMessages(ps)) \in Seq(Seq(Names))
    BY <1>2, EachUsedType
  <2>5. /\ DOMAIN EachUsed(AssistantMessages(ps)) = DOMAIN NamesIn(ps)
        /\ \A i \in DOMAIN NamesIn(ps) :
              EachUsed(AssistantMessages(ps))[i] = <<NamesIn(ps)[i]>>
    BY <2>1, <2>2, <2>3 DEF EachUsed
  <2>6. FlattenSeq(EachUsed(AssistantMessages(ps))) = NamesIn(ps)
    BY <1>1, <2>4, <2>5, FlattenSingles
  <2>7. QED
    BY <1>2, <2>6, EachUsedType
<1>4. CASE dialect # "openai_responses"
  <2>1. ASSUME NEW m \in MessageSet, AssistantMessages(ps) = <<m>>,
               NamesUsed(m) = NamesIn(ps)
        PROVE  AllUsed(AssistantMessages(ps)) = NamesIn(ps)
    BY <2>1, AllUsedOfOne
  <2>2. \A type \in BlockTypes \cap CallTypes :
           /\ BlockNames(CallBlocks(ps, type)) = NamesIn(ps)
           /\ CallBlocks(ps, type) \in Seq(BlockSet)
    BY BlocksOfCalls, CallBlocksType
  <2>3. CASE dialect \in {"openai", "langchain"}
    <3> DEFINE m == IF dialect = "openai"
                      THEN [Plain EXCEPT !.role = "assistant", !.calls = NamesIn(ps)]
                      ELSE [Plain EXCEPT !.type = "ai", !.calls = NamesIn(ps)]
    <3>1. AssistantMessages(ps) = <<m>>
      BY <2>3 DEF AssistantMessages
    <3>2. m \in MessageSet
      BY <1>1, EmptySequences DEF MessageSet, Plain, Roles, MessageTypes
    <3>3. /\ m.name = NoName /\ m.type # "function_call" /\ m.calls = NamesIn(ps)
          /\ m.blocks = <<>> /\ m.parts = <<>>
      BY DEF Plain
    <3> HIDE DEF m
    <3>4. NamesUsed(m) = NamesIn(ps) \o (<<>> \o <<>>)
      BY <3>2, <3>3, BlocksTell, NoBlocks
    <3>5. QED
      BY <1>1, <2>1, <3>1, <3>2, <3>4, Emptied
  <2>4. CASE dialect \in {"anthropic", "strands"}
    <3> DEFINE type == IF dialect = "anthropic" THEN "tool_use" ELSE "toolUse"
               m == [Plain EXCEPT !.role = "assistant", !.blocks = CallBlocks(ps, type)]
    <3>1. AssistantMessages(ps) = <<m>>
      BY <2>4 DEF AssistantMessages
    <3>2. type \in BlockTypes \cap CallTypes
      BY DEF BlockTypes, CallTypes
    <3> HIDE DEF type
    <3>3. m \in MessageSet
      BY <2>2, <3>2, EmptySequences DEF MessageSet, Plain, Roles, MessageTypes
    <3>4. /\ m.name = NoName /\ m.type # "function_call" /\ m.calls = <<>>
          /\ m.blocks = CallBlocks(ps, type) /\ m.parts = <<>>
      BY DEF Plain
    <3> HIDE DEF m
    <3>5. NamesUsed(m) = <<>> \o (NamesIn(ps) \o <<>>)
      BY <2>2, <3>2, <3>3, <3>4, BlocksTell, NoBlocks
    <3>6. QED
      BY <1>1, <2>1, <3>1, <3>3, <3>5, Emptied
  <2>5. CASE dialect \in {"pydantic_ai", "agent_framework"}
    <3> DEFINE type == IF dialect = "pydantic_ai" THEN "tool-call" ELSE "function_call"
               m == IF dialect = "pydantic_ai"
                      THEN [Plain EXCEPT !.parts = CallBlocks(ps, type)]
                      ELSE [Plain EXCEPT !.role = "assistant", !.parts = CallBlocks(ps, type)]
    <3>1. AssistantMessages(ps) = <<m>>
      BY <2>5 DEF AssistantMessages
    <3>2. type \in BlockTypes \cap CallTypes
      BY DEF BlockTypes, CallTypes
    <3> HIDE DEF type
    <3>3. m \in MessageSet
      BY <2>2, <3>2, EmptySequences DEF MessageSet, Plain, Roles, MessageTypes
    <3>4. /\ m.name = NoName /\ m.type # "function_call" /\ m.calls = <<>>
          /\ m.blocks = <<>> /\ m.parts = CallBlocks(ps, type)
      BY DEF Plain
    <3> HIDE DEF m
    <3>5. NamesUsed(m) = <<>> \o (<<>> \o NamesIn(ps))
      BY <2>2, <3>2, <3>3, <3>4, BlocksTell, NoBlocks
    <3>6. QED
      BY <1>1, <2>1, <3>1, <3>3, <3>5, Emptied
  <2>6. QED
    BY <1>4, <2>3, <2>4, <2>5 DEF Kinds, Frameworks, Followed
<1>5. QED
  BY <1>3, <1>4

(* The messages of results mention no tool but those they are results of.  *)
LEMMA ResultsMentionNoOther ==
  ASSUME NEW as, NEW n \in Nat, DOMAIN as = 1 .. n, \A i \in 1 .. n : IsAnswer(as[i]),
         dialect \in Kinds, Followed
  PROVE  AllUsed(ResultMessages(as)) \in Seq({as[i].name : i \in 1 .. n})
<1> DEFINE N == {as[i].name : i \in 1 .. n}
           rs == ResultMessages(as)
<1>1. rs \in Seq(MessageSet)
  BY ResultMessagesType
<1> HIDE DEF rs
<1>2. SUFFICES \A i \in DOMAIN rs : NamesUsed(rs[i]) \in Seq(N)
  <2> SUFFICES ASSUME \A i \in DOMAIN rs : NamesUsed(rs[i]) \in Seq(N)
               PROVE  AllUsed(rs) \in Seq(N)
    BY DEF rs
  <2> HIDE DEF N
  <2>1. Len(rs) \in Nat /\ DOMAIN rs = 1 .. Len(rs)
    BY <1>1
  <2>2. EachUsed(rs) \in [1 .. Len(rs) -> Seq(N)]
    BY <2>1 DEF EachUsed
  <2>3. EachUsed(rs) \in Seq(Seq(N))
    BY <2>1, <2>2, FunctionIsSequence
  <2>4. QED
    BY <1>1, <2>3, EachUsedType, FlattenType
<1>3. /\ <<>> \in Seq(N) /\ \A i \in 1 .. n : as[i].name \in N /\ <<as[i].name>> \in Seq(N)
      /\ \A i \in 1 .. n : <<as[i].name>> \in Seq(Names)
  <2>1. \A i \in 1 .. n : as[i].name \in N /\ as[i].name \in Names
    BY DEF IsAnswer
  <2> HIDE DEF N
  <2>2. \A S : \A x \in S : <<x>> \in Seq(S)
    OBVIOUS
  <2>3. <<>> \in Seq(N)
    OBVIOUS
  <2>4. QED
    BY <2>1, <2>2, <2>3
<1> HIDE DEF N
<1>4. CASE dialect \in {"openai", "langchain"}
  <2>1. DOMAIN rs = 1 .. n
    BY <1>4 DEF rs, ResultMessages
  <2>2. ASSUME NEW i \in 1 .. n
        PROVE  NamesUsed(rs[i]) \in Seq(N)
    <3>1. /\ rs[i].name = as[i].name /\ rs[i].type # "function_call"
          /\ rs[i].calls = <<>> /\ rs[i].blocks = <<>> /\ rs[i].parts = <<>>
      BY <1>4, <2>1 DEF rs, ResultMessages, OpenAIResult, Plain
    <3>2. <<>> \o <<>> = <<>>
      BY EmptySequences, ConcatEmptySeq
    <3>3. CalledNames(rs[i]) = <<>>
      BY <3>1, <3>2, NoBlocks DEF CalledNames
    <3>4. NamesUsed(rs[i]) = <<as[i].name>> \o <<>> \/ NamesUsed(rs[i]) = <<>> \o <<>>
      BY <3>1, <3>3 DEF NamesUsed
    <3>5. <<as[i].name>> \o <<>> = <<as[i].name>>
      BY <1>3, ConcatEmptySeq
    <3>6. QED
      BY <1>3, <3>2, <3>4, <3>5
  <2>3. QED
    BY <2>1, <2>2
<1>5. CASE dialect = "openai_responses"
  <2>1. DOMAIN rs = 1 .. n
    BY <1>5 DEF rs, ResultMessages
  <2>2. ASSUME NEW i \in 1 .. n
        PROVE  NamesUsed(rs[i]) \in Seq(N)
    <3>1. /\ rs[i].name = NoName /\ rs[i].type # "function_call"
          /\ rs[i].calls = <<>> /\ rs[i].blocks = <<>> /\ rs[i].parts = <<>>
      BY <1>5, <2>1 DEF rs, ResultMessages, ResponsesResult, Plain
    <3>2. rs[i] \in MessageSet
      BY <1>1, <2>1
    <3>3. \A k \in DOMAIN <<>> : <<>>[k].type \notin CallTypes
      OBVIOUS
    <3>4. NamesUsed(rs[i]) = <<>>
      BY <3>1, <3>2, <3>3, TextsMentionNone
    <3>5. QED
      BY <1>3, <3>4
  <2>3. QED
    BY <2>1, <2>2
<1>6. CASE dialect \in {"anthropic", "strands", "agent_framework"}
  <2> DEFINE type == IF dialect = "anthropic" THEN "tool_result"
                     ELSE IF dialect = "strands" THEN "toolResult" ELSE "function_result"
             bs == [i \in DOMAIN as |-> Block(type, as[i].text, NoName)]
             m == IF dialect = "agent_framework"
                    THEN [Plain EXCEPT !.role = "tool", !.parts = bs]
                    ELSE [Plain EXCEPT !.role = "user", !.blocks = bs]
  <2>1. rs = <<m>>
    BY <1>6 DEF rs, ResultMessages, AnthropicResult
  <2>2. type \in BlockTypes /\ type \notin CallTypes
    BY DEF BlockTypes, CallTypes
  <2> HIDE DEF type
  <2>3. \A i \in DOMAIN bs : bs[i].type \notin CallTypes
    BY <2>2 DEF Block
  <2>4. m \in MessageSet
    BY <1>1, <2>1
  <2> HIDE DEF bs
  <2>5. /\ m.name = NoName /\ m.type # "function_call" /\ m.calls = <<>>
        /\ m.blocks = <<>> \/ m.blocks = bs
        /\ m.parts = <<>> \/ m.parts = bs
    BY DEF Plain
  <2> HIDE DEF m
  <2>6. NamesUsed(m) = <<>>
    <3>1. \A i \in DOMAIN <<>> : <<>>[i].type \notin CallTypes
      OBVIOUS
    <3>2. QED
      BY <2>3, <2>4, <2>5, <3>1, TextsMentionNone
  <2>7. \A i \in DOMAIN rs : rs[i] = m
    BY <2>1
  <2>8. QED
    BY <1>3, <2>6, <2>7
<1>7. CASE dialect = "pydantic_ai"
  <2> DEFINE bs == [i \in DOMAIN as |-> Block("tool-return", as[i].text, as[i].name)]
             m == [Plain EXCEPT !.parts = bs]
  <2>1. rs = <<m>>
    BY <1>7 DEF rs, ResultMessages
  <2>2. \A i \in DOMAIN bs : bs[i].name \in N
    BY <1>3 DEF Block
  <2>3. m \in MessageSet
    BY <1>1, <2>1
  <2> HIDE DEF bs
  <2>4. /\ m.name = NoName /\ m.type # "function_call" /\ m.calls = <<>>
        /\ m.blocks = <<>> /\ m.parts = bs
    BY DEF Plain
  <2> HIDE DEF m
  <2>5. bs \in Seq(BlockSet)
    BY <2>3, <2>4, MessageFields
  <2>6. BlockNames(bs) \in Seq(N)
    BY <2>2, <2>5, BlockNamesWithin
  <2>7. NamesUsed(m) = <<>> \o (<<>> \o BlockNames(bs))
    BY <2>3, <2>4, BlocksTell, NoBlocks
  <2>8. <<>> \o BlockNames(bs) = BlockNames(bs)
    BY <2>6, ConcatEmptySeq
  <2>9. \A i \in DOMAIN rs : rs[i] = m
    BY <2>1
  <2>10. QED
    BY <2>6, <2>7, <2>8, <2>9
<1>8. QED
  BY <1>4, <1>5, <1>6, <1>7 DEF Kinds, Frameworks, Followed

-----------------------------------------------------------------------------
(* Calls, slots and payloads                                               *)

(* A response has calls; those of one choice are numbered in order.        *)
LEMMA ResponsesType ==
  ASSUME NEW t \in Nat, NEW r \in Responses(t)
  PROVE  /\ r \in Seq(CallSet) /\ r # <<>>
         /\ (\A i \in DOMAIN r : r[i].choice = 0) => \A i \in DOMAIN r : r[i].index = i - 1
<1> DEFINE call(i, n, a, c, x) == [id |-> <<t, i>>, name |-> n, args |-> a, choice |-> c, index |-> x]
<1>1. \A i \in Nat : \A n \in Tools : \A a \in {"object", "none", "torn", "list"} :
         \A c, x \in Nat : call(i, n, a, c, x) \in CallSet
  BY DEF CallSet, Ids
<1>2. \A i, n, a, c, x : call(i, n, a, c, x).choice = c /\ call(i, n, a, c, x).index = x
  OBVIOUS
<1>3. \/ \E n \in Tools : \E a \in {"object", "none", "torn", "list"} :
            r = <<call(1, n, a, 0, 0)>>
      \/ \E n, m \in Tools :
            r = <<call(1, n, "object", 0, 0), call(2, m, "object", 0, 1)>>
      \/ \E n, m \in Tools :
            r = <<call(1, n, "object", 0, 0), call(2, m, "object", 1, 0)>>
  BY DEF Responses, Calls
<1> HIDE DEF call
<1>4. CASE \E n \in Tools : \E a \in {"object", "none", "torn", "list"} :
              r = <<call(1, n, a, 0, 0)>>
  <2>1. PICK n \in Tools, a \in {"object", "none", "torn", "list"} : r = <<call(1, n, a, 0, 0)>>
    BY <1>4
  <2>2. call(1, n, a, 0, 0) \in CallSet /\ call(1, n, a, 0, 0).index = 0
    BY <1>1, <1>2
  <2>3. QED
    BY <2>1, <2>2
<1>5. CASE \E n, m \in Tools :
              r = <<call(1, n, "object", 0, 0), call(2, m, "object", 0, 1)>>
  <2>1. PICK n \in Tools, m \in Tools :
           r = <<call(1, n, "object", 0, 0), call(2, m, "object", 0, 1)>>
    BY <1>5
  <2>2. /\ call(1, n, "object", 0, 0) \in CallSet /\ call(1, n, "object", 0, 0).index = 0
        /\ call(2, m, "object", 0, 1) \in CallSet /\ call(2, m, "object", 0, 1).index = 1
    BY <1>1, <1>2
  <2>3. QED
    BY <2>1, <2>2
<1>6. CASE \E n, m \in Tools :
              r = <<call(1, n, "object", 0, 0), call(2, m, "object", 1, 0)>>
  <2>1. PICK n \in Tools, m \in Tools :
           r = <<call(1, n, "object", 0, 0), call(2, m, "object", 1, 0)>>
    BY <1>6
  <2>2. /\ call(1, n, "object", 0, 0) \in CallSet
        /\ call(2, m, "object", 1, 0) \in CallSet /\ call(2, m, "object", 1, 0).choice = 1
    BY <1>1, <1>2
  <2>3. r \in Seq(CallSet) /\ r # <<>> /\ 2 \in DOMAIN r /\ r[2].choice # 0
    BY <2>1, <2>2
  <2>4. QED
    BY <2>3
<1>7. QED
  BY <1>3, <1>4, <1>5, <1>6

(* The fragments of a call are a sequence of fragments.                    *)
LEMMA FragmentsType ==
  ASSUME NEW call \in CallSet
  PROVE  Fragments(call) \in Seq(FragmentSet) /\ Len(Fragments(call)) \in Nat
<1>1. call.id \in Ids /\ call.args \in {"object", "none", "torn", "list"}
  BY DEF CallSet
<1>2. \A k \in Nat : [of |-> call.id, part |-> k] \in FragmentSet
  BY <1>1 DEF FragmentSet
<1> DEFINE f(k) == [of |-> call.id, part |-> k]
<1>3. f(0) \in FragmentSet /\ f(1) \in FragmentSet /\ f(2) \in FragmentSet
  BY <1>2
<1>4. \/ Fragments(call) = <<>> \/ Fragments(call) = <<f(1)>>
      \/ Fragments(call) = <<f(0)>> \/ Fragments(call) = <<f(1), f(2)>>
  BY <1>1 DEF Fragments, ObjectOf
<1> HIDE DEF f
<1>5. \A a, b : /\ a \in FragmentSet => <<a>> \in Seq(FragmentSet) /\ Len(<<a>>) \in Nat
             /\ a \in FragmentSet /\ b \in FragmentSet
                  => <<a, b>> \in Seq(FragmentSet) /\ Len(<<a, b>>) \in Nat
  OBVIOUS
<1>6. <<>> \in Seq(FragmentSet) /\ Len(<<>>) \in Nat
  OBVIOUS
<1>7. CASE Fragments(call) = <<>>
  BY <1>6, <1>7
<1>8. CASE Fragments(call) = <<f(1)>> \/ Fragments(call) = <<f(0)>>
  BY <1>3, <1>5, <1>8
<1>9. CASE Fragments(call) = <<f(1), f(2)>>
  BY <1>3, <1>5, <1>9
<1>10. QED
  BY <1>4, <1>7, <1>8, <1>9

(* What a text of fragments means is the arguments of a call, or none.     *)
LEMMA MeaningType ==
  ASSUME NEW fragments \in Seq(FragmentSet)
  PROVE  Meaning(fragments) \in SomeId
<1>1. fragments # <<>> => fragments[1] \in FragmentSet
  BY EmptySeq
<1>2. \A f \in FragmentSet : f.of \in Ids
  BY DEF FragmentSet
<1>3. QED
  BY <1>1, <1>2 DEF Meaning, SomeId, NoObject, NoId

(* Reading a whole response gives a payload for each of its calls, under   *)
(* its id and name.                                                        *)
LEMMA ExtractType ==
  ASSUME NEW r \in Seq(CallSet)
  PROVE  /\ Extract(r) \in Seq(PayloadSet) /\ Len(Extract(r)) = Len(r)
         /\ DOMAIN Extract(r) = DOMAIN r
         /\ \A i \in DOMAIN r : Extract(r)[i].id = r[i].id /\ Extract(r)[i].name = r[i].name
<1>1. Len(r) \in Nat /\ DOMAIN r = 1 .. Len(r) /\ \A i \in 1 .. Len(r) : r[i] \in CallSet
  OBVIOUS
<1>2. ASSUME NEW c \in CallSet
      PROVE  /\ c.id \in SomeId /\ c.name \in Names
             /\ ParsedArguments(c) \in SomeId /\ GivenArguments(c) \in SomeId
  BY FragmentsType, MeaningType DEF CallSet, SomeId, Names, ParsedArguments, GivenArguments,
     NoObject, NoId
<1>3. \A c \in CallSet :
         /\ Payload(c.id, c.name, ParsedArguments(c)) \in PayloadSet
         /\ Payload(c.id, c.name, GivenArguments(c)) \in PayloadSet
  BY <1>2 DEF Payload, PayloadSet
<1>4. Extract(r) \in [1 .. Len(r) -> PayloadSet]
  BY <1>1, <1>3 DEF Extract
<1>5. QED
  BY <1>1, <1>4, FunctionIsSequence DEF Extract, Payload

(* With the slot of a key made, the slots are slots.                       *)
LEMMA SlottedType ==
  ASSUME NEW s \in Seq(SlotSet), NEW k \in Nat
  PROVE  Slotted(s, k) \in Seq(SlotSet)
<1>1. [key |-> k, id |-> NoId, name |-> NoName, arguments |-> <<>>] \in SlotSet
  BY EmptySequences DEF SlotSet, SomeId
<1>2. QED
  BY <1>1 DEF Slotted

(* Whatever chunk is added, the slots are slots.                           *)
LEMMA AddedType ==
  ASSUME NEW s \in Seq(SlotSet), NEW call \in CallSet, NEW k
  PROVE  Added(s, call, k) \in Seq(SlotSet)
<1>1. call.index \in Nat /\ call.id \in SomeId /\ call.name \in Names
  BY DEF CallSet, SomeId, Names
<1> DEFINE S == Slotted(s, Key(call))
<1>2. S \in Seq(SlotSet)
  BY <1>1, SlottedType DEF Key
<1> HIDE DEF S
<1>3. Named(s, call) \in Seq(SlotSet)
  <2>1. Len(S) \in Nat /\ DOMAIN S = 1 .. Len(S) /\ \A i \in 1 .. Len(S) : S[i] \in SlotSet
    BY <1>2
  <2>2. \A slot \in SlotSet : [slot EXCEPT !.id = call.id, !.name = call.name] \in SlotSet
    BY <1>1 DEF SlotSet
  <2>3. Named(s, call) \in [1 .. Len(S) -> SlotSet]
    BY <2>1, <2>2 DEF Named, WithSlot, S
  <2>4. QED
    BY <2>1, <2>3, FunctionIsSequence
<1>4. ASSUME NEW fragment \in FragmentSet
      PROVE  Extended(s, call, fragment) \in Seq(SlotSet)
  <2> DEFINE T == IF dialect = "anthropic" THEN s ELSE S
  <2>1. T \in Seq(SlotSet)
    BY <1>2
  <2>2. Len(T) \in Nat /\ DOMAIN T = 1 .. Len(T) /\ \A i \in 1 .. Len(T) : T[i] \in SlotSet
    BY <2>1, SequenceFacts
  <2>3. \A slot \in SlotSet : [slot EXCEPT !.arguments = Append(@, fragment)] \in SlotSet
    BY DEF SlotSet
  <2>4. Extended(s, call, fragment)
          = [i \in DOMAIN T |->
               IF T[i].key = Key(call) THEN [T[i] EXCEPT !.arguments = Append(@, fragment)]
               ELSE T[i]]
    BY DEF Extended, WithSlot, S
  <2> HIDE DEF T
  <2>5. Extended(s, call, fragment) \in [1 .. Len(T) -> SlotSet]
    BY <2>2, <2>3, <2>4
  <2>6. QED
    BY <2>2, <2>5, FunctionIsSequence
<1>5. k \in 2 .. 1 + Len(Fragments(call)) => Fragments(call)[k - 1] \in FragmentSet
  <2>1. Fragments(call) \in Seq(FragmentSet) /\ Len(Fragments(call)) \in Nat
    BY FragmentsType
  <2>2. k \in 2 .. 1 + Len(Fragments(call)) => k - 1 \in 1 .. Len(Fragments(call))
    BY <2>1
  <2>3. QED
    BY <2>1, <2>2
<1>6. QED
  BY <1>3, <1>4, <1>5 DEF Added

PayloadOf(slot) == Payload(slot.id, slot.name, Meaning(slot.arguments))
PayloadsOfEach(s) ==
  [i \in DOMAIN s |-> IF s[i].name = NoName THEN <<>> ELSE <<PayloadOf(s[i])>>]

(* tool_calls flattens the payloads of each slot, one or none.             *)
LEMMA AccumulatedIs ==
  ASSUME NEW s \in Seq(SlotSet)
  PROVE  /\ Accumulated(s) = FlattenSeq(PayloadsOfEach(s))
         /\ PayloadsOfEach(s) \in Seq(Seq(PayloadSet))
         /\ Accumulated(s) \in Seq(PayloadSet)
         /\ \A i \in DOMAIN s : PayloadOf(s[i]) \in PayloadSet
<1>1. Len(s) \in Nat /\ DOMAIN s = 1 .. Len(s) /\ \A i \in 1 .. Len(s) : s[i] \in SlotSet
  OBVIOUS
<1>2. Accumulated(s) = FlattenSeq(PayloadsOfEach(s))
  BY DEF Accumulated, PayloadsOfEach, PayloadOf
<1>3. ASSUME NEW slot \in SlotSet PROVE PayloadOf(slot) \in PayloadSet
  <2>1. /\ slot.id \in SomeId /\ slot.name \in Names /\ slot.arguments \in Seq(FragmentSet)
    BY DEF SlotSet
  <2>2. QED
    BY <2>1, MeaningType DEF PayloadOf, Payload, PayloadSet
<1>4. \A p \in PayloadSet : <<p>> \in Seq(PayloadSet)
  OBVIOUS
<1>5. <<>> \in Seq(PayloadSet)
  OBVIOUS
<1>6. PayloadsOfEach(s) \in [1 .. Len(s) -> Seq(PayloadSet)]
  BY <1>1, <1>3, <1>4, <1>5 DEF PayloadsOfEach
<1>7. QED
  BY <1>1, <1>2, <1>3, <1>6, FunctionIsSequence, FlattenType

-----------------------------------------------------------------------------
(* What every step keeps of the types, and of what is empty when           *)

(* A conversation begins with the user's greeting and nothing else.        *)
LEMMA InitTyped == Init => TypeOK /\ Fresh
<1> SUFFICES ASSUME Init PROVE TypeOK /\ Fresh
  OBVIOUS
<1>1. dialect \in Kinds
  BY ConversationAssumption DEF Init, Kinds
<1>2. Greeting \in Text
  <2>1. <<"please", 0>> \in Token /\ <<"user", 0>> \in Token
    BY DEF Token
  <2>2. QED
    BY <2>1 DEF Greeting, Text
<1>3. messages \in Seq(MessageSet) /\ messages # <<>>
  BY <1>2, UserMessageType DEF Init
<1>4. said \in Seq(SpeechSet)
  BY <1>2 DEF Init, Spoken, SpeechSet
<1>5. /\ response \in Seq(CallSet) /\ arrived \in Seq(Nat) /\ slots \in Seq(SlotSet)
      /\ payloads \in Seq(PayloadSet) /\ finished \in Seq(ReturnSet)
      /\ answers \in Seq(AnswerSet) /\ used \in Seq(Names) /\ called \in Seq(Names)
  BY DEF Init
<1>6. QED
  BY <1>1, <1>3, <1>4, <1>5 DEF Init, TypeOK, Fresh

(* The text of the user or the model, whose number is that of what was     *)
(* said before.                                                            *)
LEMMA SaidType ==
  ASSUME TypeOK, NEW t \in Text, NEW who \in {"user", "model", "tool"}
  PROVE  /\ Append(said, Spoken(who, t)) \in Seq(SpeechSet)
         /\ Append(messages, UserMessage(t)) \in Seq(MessageSet)
         /\ Append(messages, UserMessage(t)) # <<>>
         /\ Append(messages, ModelMessage(t)) \in Seq(MessageSet)
         /\ Append(messages, ModelMessage(t)) # <<>>
<1>1. said \in Seq(SpeechSet) /\ messages \in Seq(MessageSet)
  BY DEF TypeOK
<1>2. Spoken(who, t) \in SpeechSet
  BY DEF Spoken, SpeechSet
<1>3. UserMessage(t) \in MessageSet /\ ModelMessage(t) \in MessageSet
  BY UserMessageType, ModelMessageType
<1>4. \A s \in Seq(MessageSet) : \A m \in MessageSet :
         Append(s, m) \in Seq(MessageSet) /\ Append(s, m) # <<>>
  BY AppendProperties
<1>5. QED
  BY <1>1, <1>2, <1>3, <1>4

UserText == <<<<"please", 0>>, <<"user", Len(said)>>>>
ModelText == <<<<"model", Len(said)>>>>

(* The next texts of the user and the model are texts.                     *)
LEMMA TextsType ==
  ASSUME TypeOK
  PROVE  UserText \in Text /\ ModelText \in Text
<1>1. Len(said) \in Nat
  BY DEF TypeOK
<1>2. <<"please", 0>> \in Token /\ <<"user", Len(said)>> \in Token /\ <<"model", Len(said)>> \in Token
  BY <1>1 DEF Token
<1>3. QED
  BY <1>2 DEF UserText, ModelText, Text

(* The message of results that the user's text was added to.               *)
Beside(m) == [m EXCEPT !.blocks = Append(@, Block("text", UserText, NoName))]
(* A message with the user's text added is a message, and differs in its   *)
(* blocks alone.                                                           *)
LEMMA BesideType ==
  ASSUME TypeOK, NEW m \in MessageSet
  PROVE  /\ Beside(m) \in MessageSet
         /\ Beside(m).blocks = m.blocks \o <<Block("text", UserText, NoName)>>
         /\ <<Block("text", UserText, NoName)>> \in Seq(BlockSet)
         /\ Beside(m).role = m.role /\ Beside(m).type = m.type /\ Beside(m).name = m.name
         /\ Beside(m).calls = m.calls /\ Beside(m).parts = m.parts
<1>1. Block("text", UserText, NoName) \in BlockSet
  <2>1. "text" \in BlockTypes
    BY DEF BlockTypes
  <2>2. QED
    BY <2>1, TextsType, BlockType, EmptySequences
<1>2. m.blocks \in Seq(BlockSet)
  BY MessageFields
<1>3. /\ Append(m.blocks, Block("text", UserText, NoName)) \in Seq(BlockSet)
      /\ Append(m.blocks, Block("text", UserText, NoName))
           = m.blocks \o <<Block("text", UserText, NoName)>>
  BY <1>1, <1>2
<1> DEFINE b == Append(m.blocks, Block("text", UserText, NoName))
<1>4. Beside(m) = [m EXCEPT !.blocks = b]
  BY DEF Beside
<1>5. b \in Seq(BlockSet) /\ b = m.blocks \o <<Block("text", UserText, NoName)>>
  BY <1>3
<1>6. <<Block("text", UserText, NoName)>> \in Seq(BlockSet)
  BY <1>1
<1> HIDE DEF b
<1>7. /\ [m EXCEPT !.blocks = b] \in MessageSet
      /\ [m EXCEPT !.blocks = b].blocks = b
      /\ [m EXCEPT !.blocks = b].role = m.role /\ [m EXCEPT !.blocks = b].type = m.type
      /\ [m EXCEPT !.blocks = b].name = m.name /\ [m EXCEPT !.blocks = b].calls = m.calls
      /\ [m EXCEPT !.blocks = b].parts = m.parts
  BY <1>5 DEF MessageSet
<1>8. QED
  BY <1>4, <1>5, <1>6, <1>7

(* The user's speech adds a message or a block of one.                     *)
LEMMA UserSpeaksTyped ==
  ASSUME TypeOK, Fresh, UserSpeaks
  PROVE  TypeOK' /\ Fresh'
<1>1. /\ messages' = Append(messages, UserMessage(UserText))
      \/ messages' = [messages EXCEPT ![Len(messages)] = Beside(messages[Len(messages)])]
  BY DEF UserSpeaks, UserText, Beside
<1>2. UserText \in Text
  BY TextsType
<1>3. messages' \in Seq(MessageSet) /\ messages' # <<>>
  <2>1. CASE messages' = Append(messages, UserMessage(UserText))
    BY <1>2, <2>1, SaidType
  <2>2. CASE messages' = [messages EXCEPT ![Len(messages)] = Beside(messages[Len(messages)])]
    <3>1. messages \in Seq(MessageSet) /\ messages # <<>>
      BY DEF TypeOK
    <3>2. Len(messages) \in 1 .. Len(messages) /\ messages[Len(messages)] \in MessageSet
      BY <3>1
    <3>3. Beside(messages[Len(messages)]) \in MessageSet
      BY <3>2, BesideType
    <3>4. QED
      BY <2>2, <3>1, <3>2, <3>3
  <2>3. QED
    BY <1>1, <2>1, <2>2
<1>4. said' \in Seq(SpeechSet)
  BY <1>2, SaidType DEF UserSpeaks, UserText
<1>5. QED
  BY <1>3, <1>4 DEF UserSpeaks, TypeOK, Fresh, turnVars

(* The model's text adds a message.                                        *)
LEMMA ModelTalksTyped ==
  ASSUME TypeOK, Fresh, ModelTalks
  PROVE  TypeOK' /\ Fresh'
<1>1. ModelText \in Text
  BY TextsType
<1>2. messages' \in Seq(MessageSet) /\ messages' # <<>> /\ said' \in Seq(SpeechSet)
  BY <1>1, SaidType DEF ModelTalks, ModelText
<1>3. QED
  BY <1>2 DEF ModelTalks, TypeOK, Fresh, turnVars

(* A refresh empties what belongs to the last answer.                      *)
LEMMA RefreshTyped ==
  ASSUME TypeOK, Fresh, Refresh
  PROVE  TypeOK' /\ Fresh'
<1>1. used' \in Seq(Names) /\ used' = Once(AllUsed(messages))
  <2>1. used' = Once(AllUsed(messages))
    BY DEF Refresh, ToolNamesUsed, AllUsed
  <2>2. AllUsed(messages) \in Seq(Names)
    BY EachUsedType DEF TypeOK
  <2>3. QED
    BY <2>1, <2>2, OnceType
<1>2. phase' \in {"deriving", "asked"}
  BY DEF Refresh
<1>3. QED
  BY <1>1, <1>2 DEF Refresh, TypeOK, Fresh

(* Another conversation's refresh leaves names in the refresher.           *)
LEMMA OtherRefreshesTyped ==
  ASSUME TypeOK, Fresh, OtherRefreshes
  PROVE  TypeOK' /\ Fresh'
<1>1. used' \in Seq(Names)
  <2>1. \A t \in Tools : <<t>> \in Seq(Names)
    BY DEF Names
  <2>2. QED
    BY <2>1, EmptySequences DEF OtherRefreshes
<1>2. QED
  BY <1>1 DEF OtherRefreshes, TypeOK, Fresh, turnVars

(* The derived query leaves with the names there are then.                 *)
LEMMA DerivedTyped ==
  ASSUME TypeOK, Fresh, Derived
  PROVE  TypeOK' /\ Fresh'
BY DEF Derived, TypeOK, Fresh, turnVars, histories

(* Reading the calls of an answer.                                         *)
LEMMA ReadTyped ==
  ASSUME TypeOK, NEW ps \in Seq(PayloadSet), Read(ps)
  PROVE  /\ messages' \in Seq(MessageSet) /\ messages' # <<>>
         /\ called' \in Seq(Names) /\ payloads' \in Seq(PayloadSet)
         /\ phase' \in {"stopped", "running"}
<1>1. messages \in Seq(MessageSet) /\ messages # <<>> /\ called \in Seq(Names) /\ dialect \in Kinds
  BY DEF TypeOK
<1>2. CASE ps = <<>>
  BY <1>1, <1>2 DEF Read
<1>3. CASE ps # <<>>
  <2>1. AssistantMessages(ps) \in Seq(MessageSet)
    BY <1>1, <1>3, AssistantMessagesType
  <2>2. messages' \in Seq(MessageSet) /\ messages' # <<>>
    <3>1. messages' = messages \o AssistantMessages(ps)
      BY <1>3 DEF Read
    <3>2. QED
      BY <1>1, <2>1, <3>1
  <2>3. NamesIn(ps) \in Seq(Names)
    <3>1. "text" \in BlockTypes
      BY DEF BlockTypes
    <3>2. QED
      BY <3>1, CallBlocksType
  <2>4. called \o NamesIn(ps) \in Seq(Names)
    BY <1>1, <2>3
  <2>5. called' \in Seq(Names)
    BY <1>3, <2>4, OnceType DEF Read
  <2>6. QED
    BY <1>3, <2>2, <2>5 DEF Read
<1>4. QED
  BY <1>2, <1>3

(* A whole answer is read, or ends the loop.                               *)
LEMMA ModelAnswersTyped ==
  ASSUME TypeOK, Fresh, ModelAnswers
  PROVE  TypeOK' /\ Fresh'
<1>1. turns + 1 \in Nat
  BY DEF TypeOK
<1>2. PICK r \in Responses(turns + 1) :
         response' = r /\ Read(IF Readable(r) THEN Extract(r) ELSE <<>>)
  BY DEF ModelAnswers
<1>3. r \in Seq(CallSet)
  BY <1>1, ResponsesType
<1>4. (IF Readable(r) THEN Extract(r) ELSE <<>>) \in Seq(PayloadSet)
  BY <1>3, ExtractType
<1>5. /\ messages' \in Seq(MessageSet) /\ messages' # <<>>
      /\ called' \in Seq(Names) /\ payloads' \in Seq(PayloadSet)
      /\ phase' \in {"stopped", "running"}
  BY <1>2, <1>4, ReadTyped
<1>6. QED
  BY <1>1, <1>2, <1>3, <1>5 DEF ModelAnswers, TypeOK, Fresh

(* What the accumulator made of a stream is read.                          *)
LEMMA StreamEndsTyped ==
  ASSUME TypeOK, Fresh, StreamEnds
  PROVE  TypeOK' /\ Fresh'
<1>1. Accumulated(slots) \in Seq(PayloadSet)
  BY AccumulatedIs DEF TypeOK
<1>2. /\ messages' \in Seq(MessageSet) /\ messages' # <<>>
      /\ called' \in Seq(Names) /\ payloads' \in Seq(PayloadSet)
      /\ phase' \in {"stopped", "running"}
  BY <1>1, ReadTyped DEF StreamEnds
<1>3. QED
  BY <1>2 DEF StreamEnds, TypeOK, Fresh

(* A stream begins with nothing arrived.                                   *)
LEMMA ModelStreamsTyped ==
  ASSUME TypeOK, Fresh, ModelStreams
  PROVE  TypeOK' /\ Fresh'
<1>1. turns + 1 \in Nat
  BY DEF TypeOK
<1>2. PICK r \in Responses(turns + 1) : response' = r /\ arrived' = [i \in DOMAIN r |-> 0]
  BY DEF ModelStreams
<1>3. r \in Seq(CallSet)
  BY <1>1, ResponsesType
<1>4. arrived' \in Seq(Nat)
  <2>1. Len(r) \in Nat /\ DOMAIN r = 1 .. Len(r)
    BY <1>3
  <2>2. arrived' \in [1 .. Len(r) -> Nat]
    BY <1>2, <2>1
  <2>3. QED
    BY <2>1, <2>2, FunctionIsSequence
<1>5. QED
  BY <1>1, <1>2, <1>3, <1>4 DEF ModelStreams, TypeOK, Fresh

(* A chunk counts as arrived and changes the slots.                        *)
LEMMA ChunkTyped ==
  ASSUME TypeOK, Fresh, NEW i \in DOMAIN response, Chunk(i)
  PROVE  TypeOK' /\ Fresh'
<1>1. arrived' \in Seq(Nat)
  <2>1. arrived \in Seq(Nat) /\ arrived' = [arrived EXCEPT ![i] = @ + 1]
    BY DEF TypeOK, Chunk
  <2>2. CASE i \in DOMAIN arrived
    <3>1. arrived[i] + 1 \in Nat
      BY <2>1, <2>2
    <3>2. QED
      BY <2>1, <2>2, <3>1
  <2>3. CASE i \notin DOMAIN arrived
    <3>1. arrived' = arrived
      BY <2>1, <2>3
    <3>2. QED
      BY <2>1, <3>1
  <2>4. QED
    BY <2>2, <2>3
<1>2. slots' \in Seq(SlotSet)
  <2>1. slots \in Seq(SlotSet) /\ response[i] \in CallSet
    BY DEF TypeOK
  <2>2. slots' = Added(slots, response[i], arrived'[i])
    BY DEF Chunk
  <2>3. QED
    BY <2>1, <2>2, AddedType
<1>3. QED
  BY <1>1, <1>2 DEF Chunk, TypeOK, Fresh, histories

(* A call that returns adds its outcome.                                   *)
LEMMA FinishTyped ==
  ASSUME TypeOK, Fresh, NEW i \in DOMAIN payloads, Finish(i)
  PROVE  TypeOK' /\ Fresh'
<1>1. i \in Nat
  BY DEF TypeOK
<1>2. \A outcome \in Outcomes : [call |-> i, outcome |-> outcome] \in ReturnSet
  BY <1>1 DEF ReturnSet
<1>3. finished' \in Seq(ReturnSet)
  BY <1>2 DEF Finish, Outcomes, TypeOK
<1>4. QED
  BY <1>3 DEF Finish, TypeOK, Fresh, histories

(* The text of a result is one, of a token or none.                        *)
LEMMA ResultTextType ==
  ASSUME NEW id \in SomeId, NEW outcome
  PROVE  ResultText(id, outcome) \in Text
<1>1. <<"result", id>> \in Token
  BY DEF Token
<1>2. QED
  BY <1>1 DEF ResultText, Text

(* What execute_tool_calls returns.                                        *)
Returned ==
  [i \in DOMAIN payloads |->
     [id |-> payloads[i].id, name |-> payloads[i].name,
      text |-> ResultText(payloads[i].id, Gathered[i].outcome)]]

(* Each result is of the call in its place, under its id and name.         *)
LEMMA ReturnedType ==
  ASSUME TypeOK
  PROVE  /\ Returned \in Seq(AnswerSet) /\ Len(Returned) = Len(payloads)
         /\ DOMAIN Returned = 1 .. Len(payloads)
         /\ \A i \in 1 .. Len(payloads) : IsAnswer(Returned[i])
         /\ \A i \in 1 .. Len(payloads) :
              /\ Returned[i].id = payloads[i].id /\ Returned[i].name = payloads[i].name
              /\ Returned[i].text = ResultText(payloads[i].id, Gathered[i].outcome)
<1>1. /\ Len(payloads) \in Nat /\ DOMAIN payloads = 1 .. Len(payloads)
      /\ \A i \in 1 .. Len(payloads) : payloads[i] \in PayloadSet
  BY SequenceFacts DEF TypeOK
<1>2. \A i \in 1 .. Len(payloads) : payloads[i].id \in SomeId /\ payloads[i].name \in Names
  BY <1>1 DEF PayloadSet
<1>3. \A i \in 1 .. Len(payloads) : ResultText(payloads[i].id, Gathered[i].outcome) \in Text
  BY <1>2, ResultTextType
<1> DEFINE R(i) == [id |-> payloads[i].id, name |-> payloads[i].name,
                    text |-> ResultText(payloads[i].id, Gathered[i].outcome)]
<1>4. \A i \in 1 .. Len(payloads) : R(i) \in AnswerSet /\ IsAnswer(R(i))
  BY <1>2, <1>3 DEF AnswerSet, IsAnswer
<1>5. Returned = [i \in 1 .. Len(payloads) |-> R(i)]
  BY <1>1 DEF Returned
<1>6. Returned \in [1 .. Len(payloads) -> AnswerSet]
  <2> HIDE DEF R
  <2>1. QED
    BY <1>4, <1>5
<1>7. \A i \in 1 .. Len(payloads) : Returned[i] = R(i)
  BY <1>5
<1>8. QED
  BY <1>1, <1>4, <1>6, <1>7, FunctionIsSequence

(* A result is a speech of the tool's.                                     *)
LEMMA ToolsSpeak ==
  ASSUME TypeOK, NEW as, NEW n \in Nat, DOMAIN as = 1 .. n, \A i \in 1 .. n : IsAnswer(as[i])
  PROVE  said \o [i \in DOMAIN as |-> Spoken("tool", as[i].text)] \in Seq(SpeechSet)
<1>1. \A i \in 1 .. n : Spoken("tool", as[i].text) \in SpeechSet
  BY DEF Spoken, SpeechSet, IsAnswer
<1>2. [i \in DOMAIN as |-> Spoken("tool", as[i].text)] \in [1 .. n -> SpeechSet]
  BY <1>1
<1>3. [i \in DOMAIN as |-> Spoken("tool", as[i].text)] \in Seq(SpeechSet)
  BY <1>2, FunctionIsSequence
<1>4. said \in Seq(SpeechSet)
  BY DEF TypeOK
<1>5. QED
  BY <1>3, <1>4, ConcatProperties

(* The results are returned, said and added to the messages.               *)
LEMMA AnswerTyped ==
  ASSUME TypeOK, Fresh, Answer
  PROVE  TypeOK' /\ Fresh'
<1>1. \/ phase' = "stopped" /\ UNCHANGED <<answers, messages, said>>
      \/ /\ phase' = "loop" /\ answers' = Returned
         /\ messages' = messages \o ResultMessages(Returned)
         /\ said' = said \o [i \in DOMAIN Returned |-> Spoken("tool", Returned[i].text)]
  BY DEF Answer, Returned
<1>2. /\ Returned \in Seq(AnswerSet) /\ DOMAIN Returned = 1 .. Len(payloads)
      /\ \A i \in 1 .. Len(payloads) : IsAnswer(Returned[i])
      /\ Len(payloads) \in Nat
  BY ReturnedType DEF TypeOK
<1>3. ResultMessages(Returned) \in Seq(MessageSet)
  BY <1>2, ResultMessagesType DEF TypeOK
<1>4. \A s \in Seq(MessageSet) : \A r \in Seq(MessageSet) :
         s # <<>> => s \o r \in Seq(MessageSet) /\ s \o r # <<>>
  OBVIOUS
<1>5. /\ messages' \in Seq(MessageSet) /\ messages' # <<>>
      /\ said' \in Seq(SpeechSet) /\ answers' \in Seq(AnswerSet)
  BY <1>1, <1>2, <1>3, <1>4, ToolsSpeak DEF TypeOK
<1>6. used' = used /\ called' = called
  BY DEF Answer
<1>7. QED
  BY <1>1, <1>5, <1>6 DEF Answer, TypeOK, Fresh

(* What a framework's tools return.                                        *)
FrameworkReturns(r, outcomes) ==
  [i \in DOMAIN r |-> [name |-> r[i].name, text |-> ResultText(r[i].id, outcomes[i])]]

(* What a framework's tools return is a result for each call of the        *)
(* response, under its name.                                               *)
LEMMA FrameworkReturnsType ==
  ASSUME NEW r \in Seq(CallSet), NEW outcomes
  PROVE  /\ Len(r) \in Nat /\ DOMAIN FrameworkReturns(r, outcomes) = 1 .. Len(r)
         /\ \A i \in 1 .. Len(r) :
              /\ IsAnswer(FrameworkReturns(r, outcomes)[i])
              /\ FrameworkReturns(r, outcomes)[i].name = r[i].name
         /\ NamesIn(FrameworkReturns(r, outcomes)) = NamesIn(Extract(r))
<1>1. Len(r) \in Nat /\ DOMAIN r = 1 .. Len(r) /\ \A i \in 1 .. Len(r) : r[i] \in CallSet
  BY SequenceFacts
<1>2. \A i \in 1 .. Len(r) : r[i].id \in SomeId /\ r[i].name \in Names
  BY <1>1 DEF CallSet, SomeId, Names
<1>3. \A i \in 1 .. Len(r) : ResultText(r[i].id, outcomes[i]) \in Text
  BY <1>2, ResultTextType
<1>4. /\ DOMAIN Extract(r) = DOMAIN r
      /\ \A i \in DOMAIN r : Extract(r)[i].name = r[i].name
  BY ExtractType
<1>5. QED
  BY <1>1, <1>2, <1>3, <1>4 DEF FrameworkReturns, NamesIn, IsAnswer

(* A framework's turn, with what it says of the messages.                  *)
FrameworkTurn(r, outcomes) ==
  /\ r \in Seq(CallSet) /\ r # <<>> /\ Extract(r) \in Seq(PayloadSet) /\ Extract(r) # <<>>
  /\ AssistantMessages(Extract(r)) \in Seq(MessageSet)
  /\ ResultMessages(FrameworkReturns(r, outcomes)) \in Seq(MessageSet)
  /\ messages' = (messages \o AssistantMessages(Extract(r)))
                   \o ResultMessages(FrameworkReturns(r, outcomes))
  /\ called' = Once(called \o NamesIn(Extract(r)))
  /\ said' = said \o [i \in DOMAIN FrameworkReturns(r, outcomes) |->
                        Spoken("tool", FrameworkReturns(r, outcomes)[i].text)]

(* A framework's turn is one of some response and outcomes.                *)
LEMMA FrameworkTakesTurns ==
  ASSUME TypeOK, FrameworkRuns
  PROVE  \E r, outcomes : FrameworkTurn(r, outcomes)
<1>1. turns + 1 \in Nat /\ dialect \in Kinds
  BY DEF TypeOK
<1> DEFINE Turn(r, outcomes) ==
             /\ messages' = messages \o AssistantMessages(Extract(r))
                              \o ResultMessages(FrameworkReturns(r, outcomes))
             /\ called' = Once(called \o NamesIn(FrameworkReturns(r, outcomes)))
             /\ said' = said \o [i \in DOMAIN FrameworkReturns(r, outcomes) |->
                                   Spoken("tool", FrameworkReturns(r, outcomes)[i].text)]
<1>2. PICK r \in Responses(turns + 1) : \E outcomes \in [DOMAIN r -> {"text", "silent"}] :
        Turn(r, outcomes)
  BY DEF FrameworkRuns, FrameworkReturns
<1>3. PICK outcomes \in [DOMAIN r -> {"text", "silent"}] : Turn(r, outcomes)
  BY <1>2
<1>4. r \in Seq(CallSet) /\ r # <<>>
  BY <1>1, ResponsesType
<1>5. Extract(r) \in Seq(PayloadSet) /\ Extract(r) # <<>>
  <2>1. Extract(r) \in Seq(PayloadSet) /\ Len(Extract(r)) = Len(r)
    BY <1>4, ExtractType
  <2>2. QED
    BY <1>4, <2>1
<1>6. AssistantMessages(Extract(r)) \in Seq(MessageSet)
  BY <1>1, <1>5, AssistantMessagesType
<1>7. ResultMessages(FrameworkReturns(r, outcomes)) \in Seq(MessageSet)
  BY <1>1, <1>4, FrameworkReturnsType, ResultMessagesType
<1>8. NamesIn(FrameworkReturns(r, outcomes)) = NamesIn(Extract(r))
  BY <1>4, FrameworkReturnsType
<1>9. FrameworkTurn(r, outcomes)
  BY <1>3, <1>4, <1>5, <1>6, <1>7, <1>8 DEF FrameworkTurn
<1>10. QED
  BY <1>9

(* A framework's turn adds the messages of its calls and results.          *)
LEMMA FrameworkRunsTyped ==
  ASSUME TypeOK, Fresh, FrameworkRuns
  PROVE  TypeOK' /\ Fresh'
<1>1. PICK r, outcomes : FrameworkTurn(r, outcomes)
  BY FrameworkTakesTurns
<1>2. \A s \in Seq(MessageSet) : \A x, y \in Seq(MessageSet) :
         s # <<>> => (s \o x) \o y \in Seq(MessageSet) /\ (s \o x) \o y # <<>>
  OBVIOUS
<1>3. messages' \in Seq(MessageSet) /\ messages' # <<>>
  BY <1>1, <1>2 DEF TypeOK, FrameworkTurn
<1>4. said' \in Seq(SpeechSet)
  BY <1>1, FrameworkReturnsType, ToolsSpeak DEF FrameworkTurn
<1>5. called' \in Seq(Names)
  <2>1. NamesIn(Extract(r)) \in Seq(Names)
    <3>1. "text" \in BlockTypes
      BY DEF BlockTypes
    <3>2. QED
      BY <1>1, <3>1, CallBlocksType DEF FrameworkTurn
  <2>2. called \o NamesIn(Extract(r)) \in Seq(Names)
    BY <2>1 DEF TypeOK
  <2>3. QED
    BY <1>1, <2>2, OnceType DEF FrameworkTurn
<1>6. turns' \in Nat
  BY DEF FrameworkRuns, TypeOK
<1>7. QED
  BY <1>3, <1>4, <1>5, <1>6 DEF FrameworkRuns, TypeOK, Fresh, turnVars

(* No step breaks the types, nor fills what is empty before it is          *)
(* written.                                                                *)
LEMMA NextTyped ==
  ASSUME TypeOK, Fresh, [Next]_vars
  PROVE  TypeOK' /\ Fresh'
<1>1. CASE UNCHANGED vars
  BY <1>1 DEF vars, turnVars, histories, TypeOK, Fresh
<1>2. CASE UserSpeaks
  BY <1>2, UserSpeaksTyped
<1>3. CASE Refresh
  BY <1>3, RefreshTyped
<1>4. CASE OtherRefreshes
  BY <1>4, OtherRefreshesTyped
<1>5. CASE Derived
  BY <1>5, DerivedTyped
<1>6. CASE ModelAnswers
  BY <1>6, ModelAnswersTyped
<1>7. CASE ModelStreams
  BY <1>7, ModelStreamsTyped
<1>8. CASE StreamEnds
  BY <1>8, StreamEndsTyped
<1>9. CASE ModelTalks
  BY <1>9, ModelTalksTyped
<1>10. CASE \E i \in DOMAIN response : Chunk(i)
  BY <1>10, ChunkTyped
<1>11. CASE \E i \in DOMAIN payloads : Finish(i)
  BY <1>11, FinishTyped
<1>12. CASE Answer
  BY <1>12, AnswerTyped
<1>13. CASE FrameworkRuns
  BY <1>13, FrameworkRunsTyped
<1>14. QED
  BY <1>1, <1>2, <1>3, <1>4, <1>5, <1>6, <1>7, <1>8, <1>9, <1>10, <1>11, <1>12, <1>13 DEF Next

-----------------------------------------------------------------------------
(* Results answer calls                                                    *)

(* The place of the first return of a call.                                *)
LEMMA FirstReturn ==
  ASSUME TypeOK, NEW i, \E k \in DOMAIN finished : finished[k].call = i
  PROVE  /\ SelectInSeq(finished, LAMBDA f : f.call = i) \in DOMAIN finished
         /\ finished[SelectInSeq(finished, LAMBDA f : f.call = i)].call = i
<1> DEFINE I == {k \in 1 .. Len(finished) : finished[k].call = i}
<1>1. Len(finished) \in Nat /\ DOMAIN finished = 1 .. Len(finished)
  BY SequenceFacts DEF TypeOK
<1>2. I \in SUBSET Nat /\ I # {} /\ \A k \in I : k \in DOMAIN finished /\ finished[k].call = i
  BY <1>1
<1>3. SelectInSeq(finished, LAMBDA f : f.call = i) = Min(I)
  BY <1>2 DEF SelectInSeq
<1> HIDE DEF I
<1>4. \E n \in I : \A m \in I : n <= m
  BY <1>2, LeastNatural
<1>5. Min(I) \in I
  BY <1>4 DEF Min
<1>6. QED
  BY <1>2, <1>3, <1>5

(* As many returns as calls, each of a call and of one only: every call has*)
(* returned.                                                               *)
LEMMA AllReturned ==
  ASSUME TypeOK, OneOutcomeEach, Len(finished) = Len(payloads)
  PROVE  \A i \in DOMAIN payloads : \E k \in DOMAIN finished : finished[k].call = i
<1> DEFINE n == Len(payloads)
           f == [k \in 1 .. n |-> finished[k].call]
<1>1. n \in Nat /\ DOMAIN finished = 1 .. n /\ DOMAIN payloads = 1 .. n
  BY SequenceFacts DEF TypeOK
<1>2. /\ \A k \in 1 .. n : finished[k].call \in 1 .. n
      /\ \A j, k \in 1 .. n : finished[j].call = finished[k].call => j = k
  BY <1>1 DEF OneOutcomeEach
<1> HIDE DEF n
<1>3. f \in Injection(1 .. n, 1 .. n)
  BY <1>2 DEF Injection, IsInjective
<1>4. IsFiniteSet(1 .. n)
  BY <1>1, FS_Interval
<1>5. f \in Surjection(1 .. n, 1 .. n)
  BY <1>3, <1>4, FS_Injection
<1>6. \A i \in 1 .. n : \E k \in 1 .. n : f[k] = i
  BY <1>5 DEF Surjection
<1>7. QED
  BY <1>1, <1>6

(* At first nothing was called, and nothing returned.                      *)
LEMMA AnswersInitially == Init => AnswersInv
<1> SUFFICES ASSUME Init PROVE AnswersInv
  OBVIOUS
<1>1. TypeOK /\ Fresh
  BY InitTyped
<1>2. OneOutcomeEach /\ ResultsAnswerCalls
  BY DEF Init, OneOutcomeEach, ResultsAnswerCalls
<1>3. QED
  BY <1>1, <1>2 DEF AnswersInv

(* Steps that leave the calls, their outcomes and their results alone.     *)
LEMMA AnswersKept ==
  ASSUME AnswersInv, UNCHANGED <<payloads, finished, answers>>
  PROVE  OneOutcomeEach' /\ ResultsAnswerCalls'
BY DEF AnswersInv, OneOutcomeEach, ResultsAnswerCalls

(* Steps after which nothing has returned.                                 *)
LEMMA AnswersEmpty ==
  ASSUME finished' = <<>>, answers' = <<>>
  PROVE  OneOutcomeEach' /\ ResultsAnswerCalls'
BY DEF OneOutcomeEach, ResultsAnswerCalls

(* Finish lets every call return once.                                     *)
LEMMA FinishAnswers ==
  ASSUME AnswersInv, NEW i \in DOMAIN payloads, Finish(i)
  PROVE  OneOutcomeEach' /\ ResultsAnswerCalls'
<1>1. TypeOK /\ Fresh /\ OneOutcomeEach
  BY DEF AnswersInv
<1>2. payloads' = payloads /\ answers' = <<>>
  BY <1>1 DEF Finish, Fresh
<1>3. PICK outcome : finished' = Append(finished, [call |-> i, outcome |-> outcome])
  BY DEF Finish
<1>4. \A k \in DOMAIN finished : finished[k].call # i
  BY DEF Finish
<1> DEFINE n == Len(finished)
<1>5. n \in Nat /\ DOMAIN finished = 1 .. n
  BY <1>1, SequenceFacts DEF TypeOK
<1>6. /\ DOMAIN finished' = 1 .. n + 1
      /\ \A k \in 1 .. n : finished'[k] = finished[k]
      /\ finished'[n + 1] = [call |-> i, outcome |-> outcome]
  BY <1>1, <1>3, <1>5 DEF TypeOK
<1>7. finished'[n + 1].call = i
  BY <1>6
<1>8. \A k \in 1 .. n + 1 : k \in 1 .. n \/ k = n + 1
  BY <1>5
<1> HIDE DEF n
<1>9. OneOutcomeEach'
  BY <1>1, <1>2, <1>4, <1>5, <1>6, <1>7, <1>8 DEF OneOutcomeEach
<1>10. QED
  BY <1>2, <1>9 DEF ResultsAnswerCalls

(* Answer pairs every call with its own return.                            *)
LEMMA AnswerAnswers ==
  ASSUME AnswersInv, Answer
  PROVE  OneOutcomeEach' /\ ResultsAnswerCalls'
<1>1. TypeOK /\ Fresh /\ OneOutcomeEach
  BY DEF AnswersInv
<1>2. UNCHANGED <<payloads, finished>> /\ Len(finished) = Len(payloads)
  BY DEF Answer
<1>3. CASE answers' = answers
  BY <1>2, <1>3, AnswersKept
<1>4. CASE answers' = Returned
  <2>1. OneOutcomeEach'
    BY <1>1, <1>2 DEF OneOutcomeEach
  <2>2. /\ Len(Returned) = Len(payloads) /\ DOMAIN Returned = 1 .. Len(payloads)
        /\ \A i \in 1 .. Len(payloads) :
             /\ Returned[i].id = payloads[i].id
             /\ Returned[i].text = ResultText(payloads[i].id, Gathered[i].outcome)
    BY <1>1, ReturnedType
  <2>3. ASSUME NEW i \in 1 .. Len(payloads)
        PROVE  \E k \in DOMAIN finished :
                 finished[k].call = i
                 /\ Returned[i].text = ResultText(payloads[i].id, finished[k].outcome)
    <3> DEFINE k == SelectInSeq(finished, LAMBDA f : f.call = i)
    <3>1. i \in DOMAIN payloads
      BY <1>1 DEF TypeOK
    <3>2. k \in DOMAIN finished /\ finished[k].call = i
      BY <1>1, <1>2, <3>1, AllReturned, FirstReturn
    <3>3. Gathered[i] = finished[k]
      BY <3>1 DEF Gathered
    <3>4. QED
      BY <2>2, <3>2, <3>3
  <2>4. ResultsAnswerCalls'
    BY <1>2, <1>4, <2>2, <2>3 DEF ResultsAnswerCalls
  <2>5. QED
    BY <2>1, <2>4
<1>5. QED
  BY <1>3, <1>4 DEF Answer, Returned

(* No step breaks the invariant of results: only calls that return, and    *)
(* the answer, touch it.                                                   *)
LEMMA AnswersStep ==
  ASSUME AnswersInv, [Next]_vars
  PROVE  AnswersInv'
<1>1. TypeOK /\ Fresh
  BY DEF AnswersInv
<1>2. TypeOK' /\ Fresh'
  BY <1>1, NextTyped
<1>3. OneOutcomeEach' /\ ResultsAnswerCalls'
  <2>1. CASE UNCHANGED vars
    BY <2>1, AnswersKept DEF vars, turnVars
  <2>2. CASE UserSpeaks \/ OtherRefreshes \/ Derived \/ ModelTalks \/ FrameworkRuns
    BY <2>2, AnswersKept DEF UserSpeaks, OtherRefreshes, Derived, ModelTalks, FrameworkRuns,
       turnVars
  <2>3. CASE Refresh
    BY <2>3, AnswersEmpty DEF Refresh
  <2>4. CASE ModelAnswers
    BY <1>1, <2>4, AnswersEmpty DEF ModelAnswers, Fresh
  <2>5. CASE ModelStreams
    BY <2>5, AnswersKept DEF ModelStreams
  <2>6. CASE StreamEnds
    BY <1>1, <2>6, AnswersEmpty DEF StreamEnds, Fresh
  <2>7. CASE \E i \in DOMAIN response : Chunk(i)
    BY <2>7, AnswersKept DEF Chunk
  <2>8. CASE \E i \in DOMAIN payloads : Finish(i)
    BY <2>8, FinishAnswers
  <2>9. CASE Answer
    BY <2>9, AnswerAnswers
  <2>10. QED
    BY <2>1, <2>2, <2>3, <2>4, <2>5, <2>6, <2>7, <2>8, <2>9 DEF Next
<1>4. QED
  BY <1>2, <1>3 DEF AnswersInv

(* The invariant of results holds of every reachable state.                *)
LEMMA AnswersAlways == Spec => []AnswersInv
BY AnswersInitially, AnswersStep, PTL DEF Spec

(* Every result that execute_tool_calls returns is that of the call in its *)
(* place, under its id and with what this call returned, whatever the order*)
(* in which the calls, run at once by gather, came back: as many returns as*)
(* calls, each of another call, are one of each.                           *)
THEOREM ResultsAnswerTheirCalls == Spec => [](TypeOK /\ ResultsAnswerCalls)
<1>1. AnswersInv => TypeOK /\ ResultsAnswerCalls
  BY DEF AnswersInv
<1>2. QED
  BY <1>1, AnswersAlways, PTL

-----------------------------------------------------------------------------
(* The tools used are the tools called                                     *)

(* A message of blocks, which the user's text may join, has no name.       *)
Tidy(ms) == \A i \in DOMAIN ms : ms[i].blocks # <<>> => ms[i].name = NoName

(* Messages of which none has both blocks and a name stay such.            *)
LEMMA TidyConcat ==
  ASSUME NEW ms \in Seq(MessageSet), NEW ns \in Seq(MessageSet), Tidy(ms), Tidy(ns)
  PROVE  Tidy(ms \o ns)
BY DEF Tidy

(* One message that lacks either is one of them.                           *)
LEMMA TidyOne ==
  ASSUME NEW m, m.blocks = <<>> \/ m.name = NoName
  PROVE  Tidy(<<m>>)
BY DEF Tidy

(* The plain message has neither.                                          *)
LEMMA PlainFields == /\ Plain.blocks = <<>> /\ Plain.name = NoName
BY DEF Plain

(* The messages of an answer are such in every dialect.                    *)
LEMMA AssistantTidy ==
  ASSUME NEW ps, dialect \in Kinds
  PROVE  Tidy(AssistantMessages(ps))
<1>1. CASE dialect = "openai_responses"
  <2>1. AssistantMessages(ps)
          = [i \in DOMAIN ps |-> [Plain EXCEPT !.type = "function_call", !.name = ps[i].name]]
    BY <1>1 DEF AssistantMessages
  <2>2. \A n : [Plain EXCEPT !.type = "function_call", !.name = n].blocks = <<>>
    BY DEF Plain
  <2>3. QED
    BY <2>1, <2>2 DEF Tidy
<1>2. CASE dialect # "openai_responses"
  <2>1. \A c : /\ [Plain EXCEPT !.role = "assistant", !.calls = c].name = NoName
               /\ [Plain EXCEPT !.type = "ai", !.calls = c].name = NoName
               /\ [Plain EXCEPT !.role = "assistant", !.blocks = c].name = NoName
               /\ [Plain EXCEPT !.parts = c].name = NoName
               /\ [Plain EXCEPT !.type = "by agent", !.parts = c].name = NoName
               /\ [Plain EXCEPT !.role = "assistant", !.parts = c].name = NoName
               /\ [Plain EXCEPT !.role = "model", !.parts = c].name = NoName
    BY DEF Plain
  <2>2. \A c : /\ Tidy(<<[Plain EXCEPT !.role = "assistant", !.calls = c]>>)
               /\ Tidy(<<[Plain EXCEPT !.type = "ai", !.calls = c]>>)
               /\ Tidy(<<[Plain EXCEPT !.role = "assistant", !.blocks = c]>>)
               /\ Tidy(<<[Plain EXCEPT !.parts = c]>>)
               /\ Tidy(<<[Plain EXCEPT !.type = "by agent", !.parts = c]>>)
               /\ Tidy(<<[Plain EXCEPT !.role = "assistant", !.parts = c]>>)
               /\ Tidy(<<[Plain EXCEPT !.role = "model", !.parts = c]>>)
    BY <2>1, TidyOne
  <2>3. QED
    BY <1>2, <2>2 DEF AssistantMessages, Kinds, Frameworks
<1>3. QED
  BY <1>1, <1>2

(* So are the messages of results.                                         *)
LEMMA ResultsTidy ==
  ASSUME NEW as, dialect \in Kinds
  PROVE  Tidy(ResultMessages(as))
<1>1. CASE dialect \in {"openai", "openai_responses", "langchain"}
  <2>1. \A a : /\ OpenAIResult(a).blocks = <<>> /\ ResponsesResult(a).blocks = <<>>
               /\ [Plain EXCEPT !.type = "tool", !.content = a.text, !.name = a.name].blocks = <<>>
    BY DEF OpenAIResult, ResponsesResult, Plain
  <2>2. \/ ResultMessages(as) = [i \in DOMAIN as |-> OpenAIResult(as[i])]
        \/ ResultMessages(as) = [i \in DOMAIN as |-> ResponsesResult(as[i])]
        \/ ResultMessages(as)
             = [i \in DOMAIN as |-> [Plain EXCEPT !.type = "tool", !.content = as[i].text,
                                                  !.name = as[i].name]]
    BY <1>1 DEF ResultMessages
  <2>3. QED
    BY <2>1, <2>2 DEF Tidy
<1>2. CASE dialect \notin {"openai", "openai_responses", "langchain"}
  <2>1. \A c : /\ [Plain EXCEPT !.role = "user", !.blocks = c].name = NoName
               /\ [Plain EXCEPT !.role = "user", !.parts = c].name = NoName
               /\ [Plain EXCEPT !.parts = c].name = NoName
               /\ [Plain EXCEPT !.type = "by agent", !.parts = c].name = NoName
               /\ [Plain EXCEPT !.role = "tool", !.parts = c].name = NoName
    BY DEF Plain
  <2>2. \A c : /\ Tidy(<<[Plain EXCEPT !.role = "user", !.blocks = c]>>)
               /\ Tidy(<<[Plain EXCEPT !.role = "user", !.parts = c]>>)
               /\ Tidy(<<[Plain EXCEPT !.parts = c]>>)
               /\ Tidy(<<[Plain EXCEPT !.type = "by agent", !.parts = c]>>)
               /\ Tidy(<<[Plain EXCEPT !.role = "tool", !.parts = c]>>)
    BY <2>1, TidyOne
  <2>3. QED
    BY <1>2, <2>2 DEF ResultMessages, Kinds, Frameworks
<1>3. QED
  BY <1>1, <1>2

(* Texts do not mention tools.                                             *)
LEMMA TellsSame ==
  ASSUME NEW ms \in Seq(MessageSet), NEW m \in MessageSet, NamesUsed(m) = <<>>,
         m.name = NoName, Tidy(ms)
  PROVE  AllUsed(Append(ms, m)) = AllUsed(ms) /\ Tidy(Append(ms, m))
<1>1. Append(ms, m) = ms \o <<m>> /\ <<m>> \in Seq(MessageSet)
  OBVIOUS
<1>2. AllUsed(ms \o <<m>>) = AllUsed(ms) \o <<>>
  BY <1>1, AllUsedConcat, AllUsedOfOne
<1>3. AllUsed(ms) \in Seq(Names)
  BY EachUsedType
<1>4. AllUsed(ms) \o <<>> = AllUsed(ms)
  BY <1>3, ConcatEmptySeq
<1>5. QED
  BY <1>1, <1>2, <1>4, TidyOne, TidyConcat

(* Nor does what the user writes beside results.                           *)
LEMMA BesideMentions ==
  ASSUME TypeOK, NEW m \in MessageSet, m.name = NoName
  PROVE  NamesUsed(Beside(m)) = NamesUsed(m)
<1> DEFINE t == <<Block("text", UserText, NoName)>>
<1>1. /\ Beside(m) \in MessageSet /\ Beside(m).blocks = m.blocks \o t /\ t \in Seq(BlockSet)
      /\ Beside(m).type = m.type /\ Beside(m).name = NoName
      /\ Beside(m).calls = m.calls /\ Beside(m).parts = m.parts
  BY BesideType
<1>2. m.blocks \in Seq(BlockSet) /\ m.parts \in Seq(BlockSet)
  BY MessageFields
<1>3. BlockNames(t) = <<>>
  <2>1. \A i \in DOMAIN t : t[i].type \notin CallTypes
    BY DEF Block, CallTypes
  <2>2. QED
    BY <1>1, <2>1, BlockNamesNone
<1> HIDE DEF t
<1>4. m.blocks \o t \in Seq(BlockSet)
  BY <1>1, <1>2, ConcatProperties
<1>5. BlockNames(m.blocks \o t) = BlockNames(m.blocks)
  <2>1. BlockNames(m.blocks \o t) = BlockNames(m.blocks) \o <<>>
    BY <1>1, <1>2, <1>3, BlockNamesConcat
  <2>2. BlockNames(m.blocks) \in Seq(Names)
    BY <1>2, BlocksNamed, BlockNamesWithin
  <2>3. QED
    BY <2>1, <2>2, ConcatEmptySeq
<1>6. BlockNames((m.blocks \o t) \o m.parts) = BlockNames(m.blocks \o m.parts)
  BY <1>2, <1>4, <1>5, BlockNamesConcat
<1>7. CalledNames(Beside(m)) = CalledNames(m)
  BY <1>1, <1>6 DEF CalledNames
<1>8. QED
  BY <1>1, <1>7 DEF NamesUsed

(* What was called and is called again.                                    *)
LEMMA CalledAgain ==
  ASSUME NEW a \in Seq(Names), NEW ns \in Seq(Names)
  PROVE  Once(Once(a) \o ns) = Once(a \o ns)
<1>1. Once(a) \in Seq(Names) /\ Once(Once(a)) = Once(a)
  BY OnceType, OnceTwice
<1>2. QED
  BY <1>1, OnceOnto

(* The greeting mentions no tool, and none was called.                     *)
LEMMA UsedInitially == Init => UsedInv
<1> SUFFICES ASSUME Init PROVE UsedInv
  OBVIOUS
<1>1. AnswersInv
  BY AnswersInitially
<1>2. Greeting \in Text
  <2>1. <<"please", 0>> \in Token /\ <<"user", 0>> \in Token
    BY DEF Token
  <2>2. QED
    BY <2>1 DEF Greeting, Text
<1>3. UserMessage(Greeting) \in MessageSet /\ NamesUsed(UserMessage(Greeting)) = <<>>
      /\ UserMessage(Greeting).name = NoName
  BY <1>2, UserMessageType, UserMentionsNone
<1>4. messages = <<UserMessage(Greeting)>> /\ called = <<>> /\ phase = "loop"
  BY DEF Init
<1>5. MessagesTell
  <2>1. AllUsed(messages) = <<>>
    BY <1>3, <1>4, AllUsedOfOne
  <2>2. Tidy(messages)
    BY <1>3, <1>4, TidyOne
  <2>3. QED
    BY <1>4, <2>1, <2>2, OnceOfNone DEF MessagesTell, Tidy
<1>6. QED
  BY <1>1, <1>4, <1>5 DEF UsedInv, PayloadsCalled, UsedDerived, UsedAreCalled

(* Reading calls: the caller keeps the model's message, and they count as  *)
(* called.                                                                 *)
LEMMA ReadTells ==
  ASSUME TypeOK, MessagesTell, dialect' = dialect, NEW ps \in Seq(PayloadSet), Read(ps)
  PROVE  MessagesTell' /\ PayloadsCalled'
<1>1. /\ messages \in Seq(MessageSet) /\ called \in Seq(Names) /\ dialect \in Kinds
      /\ Tidy(messages)
  BY DEF TypeOK, MessagesTell, Tidy
<1>2. CASE ps = <<>>
  BY <1>2 DEF Read, MessagesTell, PayloadsCalled, AllUsed, Followed
<1>3. CASE ps # <<>>
  <2>1. /\ payloads' = ps /\ messages' = messages \o AssistantMessages(ps)
        /\ called' = Once(called \o NamesIn(ps))
    BY <1>3 DEF Read
  <2>2. AssistantMessages(ps) \in Seq(MessageSet)
    BY <1>1, <1>3, AssistantMessagesType
  <2>3. Tidy(messages')
    BY <1>1, <2>1, <2>2, AssistantTidy, TidyConcat
  <2>4. NamesIn(ps) \in Seq(Names) /\ Len(NamesIn(ps)) = Len(ps)
    <3>1. "text" \in BlockTypes
      BY DEF BlockTypes
    <3>2. QED
      BY <3>1, CallBlocksType
  <2>5. ASSUME Followed PROVE called' = Once(AllUsed(messages'))
    <3>1. AllUsed(messages') = AllUsed(messages) \o NamesIn(ps)
      BY <1>1, <1>3, <2>1, <2>2, <2>5, AllUsedConcat, AnswerMentionsCalls
    <3>2. called = Once(AllUsed(messages))
      BY <2>5 DEF MessagesTell
    <3>3. AllUsed(messages) \in Seq(Names)
      BY <1>1, EachUsedType
    <3>4. QED
      BY <2>1, <2>4, <3>1, <3>2, <3>3, CalledAgain
  <2>6. ASSUME NEW i \in DOMAIN ps PROVE Contains(called', ps[i].name)
    <3>1. i \in 1 .. Len(NamesIn(ps)) /\ NamesIn(ps)[i] = ps[i].name
      BY <2>4 DEF NamesIn
    <3>2. QED
      BY <1>1, <2>1, <2>4, <3>1, OnceContains
  <2>7. QED
    BY <2>1, <2>3, <2>5, <2>6 DEF MessagesTell, PayloadsCalled, Tidy, AllUsed, Followed
<1>4. QED
  BY <1>2, <1>3

(* What the user adds, a message or a block beside results, changes no     *)
(* mention.                                                                *)
LEMMA UserSpeaksTells ==
  ASSUME TypeOK, MessagesTell, UserSpeaks
  PROVE  MessagesTell'
<1>1. /\ messages \in Seq(MessageSet) /\ messages # <<>> /\ Tidy(messages)
      /\ dialect' = dialect /\ called' = called
  BY DEF TypeOK, MessagesTell, Tidy, UserSpeaks
<1>2. \/ messages' = Append(messages, UserMessage(UserText))
      \/ /\ \E i \in DOMAIN messages[Len(messages)].blocks : TRUE
         /\ messages' = [messages EXCEPT ![Len(messages)] = Beside(messages[Len(messages)])]
  BY DEF UserSpeaks, UserText, Beside
<1>3. CASE messages' = Append(messages, UserMessage(UserText))
  <2>1. UserText \in Text
    BY TextsType
  <2>2. AllUsed(messages') = AllUsed(messages) /\ Tidy(messages')
    BY <1>1, <1>3, <2>1, UserMentionsNone, UserMessageType, TellsSame
  <2>3. QED
    BY <1>1, <2>2 DEF MessagesTell, Tidy, AllUsed, Followed
<1>4. CASE /\ \E i \in DOMAIN messages[Len(messages)].blocks : TRUE
           /\ messages' = [messages EXCEPT ![Len(messages)] = Beside(messages[Len(messages)])]
  <2> DEFINE n == Len(messages)
             m == messages[n]
  <2>1. /\ n \in 1 .. n /\ DOMAIN messages = 1 .. n /\ m \in MessageSet
        /\ messages' = [messages EXCEPT ![n] = Beside(m)]
    BY <1>1, <1>4
  <2>2. m.name = NoName
    BY <1>1, <1>4, <2>1 DEF Tidy
  <2>3. NamesUsed(Beside(m)) = NamesUsed(m) /\ Beside(m).name = NoName
    BY <2>1, <2>2, BesideMentions, BesideType
  <2> HIDE DEF m, n
  <2>4. DOMAIN messages' = 1 .. n /\ messages'[n] = Beside(m)
        /\ \A i \in 1 .. n : i # n => messages'[i] = messages[i]
    BY <2>1
  <2>5. AllUsed(messages') = AllUsed(messages)
    <3>1. \A i \in 1 .. n : NamesUsed(messages'[i]) = NamesUsed(messages[i])
      BY <2>3, <2>4 DEF m
    <3>2. [i \in DOMAIN messages' |-> NamesUsed(messages'[i])]
            = [i \in DOMAIN messages |-> NamesUsed(messages[i])]
      BY <2>1, <2>4, <3>1
    <3>3. QED
      BY <3>2 DEF AllUsed
  <2>6. Tidy(messages')
    BY <1>1, <2>1, <2>3, <2>4 DEF Tidy
  <2>7. QED
    BY <1>1, <2>5, <2>6 DEF MessagesTell, Tidy, AllUsed, Followed
<1>5. QED
  BY <1>2, <1>3, <1>4

(* What the model says changes no mention.                                 *)
LEMMA ModelTalksTells ==
  ASSUME TypeOK, MessagesTell, ModelTalks
  PROVE  MessagesTell'
<1>1. /\ messages \in Seq(MessageSet) /\ Tidy(messages)
      /\ dialect' = dialect /\ called' = called
      /\ messages' = Append(messages, ModelMessage(ModelText))
  BY DEF TypeOK, MessagesTell, Tidy, ModelTalks, ModelText
<1>2. ModelText \in Text
  BY TextsType
<1>3. AllUsed(messages') = AllUsed(messages) /\ Tidy(messages')
  BY <1>1, <1>2, ModelMentionsNone, ModelMessageType, TellsSame
<1>4. QED
  BY <1>1, <1>3 DEF MessagesTell, Tidy, AllUsed, Followed

(* Results name the tools whose calls they answer, which were called.      *)
LEMMA ResultsKnown ==
  ASSUME NEW a \in Seq(Names), NEW as, NEW n \in Nat, DOMAIN as = 1 .. n,
         \A i \in 1 .. n : IsAnswer(as[i]), dialect \in Kinds, Followed,
         \A i \in 1 .. n : Contains(Once(a), as[i].name)
  PROVE  Once(a \o AllUsed(ResultMessages(as))) = Once(a)
<1> DEFINE t == AllUsed(ResultMessages(as))
           S == {as[i].name : i \in 1 .. n}
<1>1. t \in Seq(S)
  BY ResultsMentionNoOther
<1>2. S \subseteq Names /\ \A x \in S : Contains(Once(a), x)
  BY DEF IsAnswer
<1> HIDE DEF t, S
<1>3. Len(t) \in Nat /\ DOMAIN t = 1 .. Len(t) /\ \A i \in 1 .. Len(t) : t[i] \in S
  BY <1>1, SequenceFacts
<1>4. t \in Seq(Names)
  <2>1. t \in [1 .. Len(t) -> Names]
    BY <1>1, <1>2, <1>3
  <2>2. QED
    BY <1>3, <2>1
<1>5. \A i \in 1 .. Len(t) : Contains(Once(a), t[i])
  BY <1>2, <1>3
<1>6. Once(a \o t) = Once(a)
  BY <1>4, <1>5, OnceKnown
<1>7. QED
  BY <1>6 DEF t

(* The results of calls mention only tools whose calls the messages        *)
(* mention already.                                                        *)
LEMMA AnswerTells ==
  ASSUME TypeOK, MessagesTell, PayloadsCalled, Answer
  PROVE  MessagesTell'
<1>1. /\ messages \in Seq(MessageSet) /\ Tidy(messages) /\ dialect \in Kinds
      /\ dialect' = dialect /\ called' = called /\ phase = "running"
  BY DEF TypeOK, MessagesTell, Tidy, Answer
<1>2. CASE messages' = messages
  BY <1>1, <1>2 DEF MessagesTell, AllUsed, Followed
<1>3. CASE messages' = messages \o ResultMessages(Returned)
  <2>1. /\ Len(payloads) \in Nat /\ DOMAIN Returned = 1 .. Len(payloads)
        /\ DOMAIN payloads = 1 .. Len(payloads)
        /\ \A i \in 1 .. Len(payloads) :
             IsAnswer(Returned[i]) /\ Returned[i].name = payloads[i].name
    <3>1. Len(payloads) \in Nat /\ DOMAIN payloads = 1 .. Len(payloads)
      BY SequenceFacts DEF TypeOK
    <3>2. QED
      BY <3>1, ReturnedType
  <2>2. ResultMessages(Returned) \in Seq(MessageSet)
    BY <1>1, <2>1, ResultMessagesType
  <2>3. Tidy(messages')
    BY <1>1, <1>3, <2>2, ResultsTidy, TidyConcat
  <2>4. ASSUME Followed PROVE called = Once(AllUsed(messages'))
    <3>1. called = Once(AllUsed(messages))
      BY <2>4 DEF MessagesTell
    <3>2. AllUsed(messages) \in Seq(Names)
      BY <1>1, EachUsedType
    <3>3. \A i \in 1 .. Len(payloads) : Contains(Once(AllUsed(messages)), Returned[i].name)
      BY <1>1, <2>1, <3>1 DEF PayloadsCalled
    <3>4. AllUsed(messages') = AllUsed(messages) \o AllUsed(ResultMessages(Returned))
      BY <1>1, <1>3, <2>2, AllUsedConcat
    <3>5. QED
      BY <1>1, <2>1, <2>4, <3>1, <3>2, <3>3, <3>4, ResultsKnown
  <2>5. QED
    BY <1>1, <2>3, <2>4 DEF MessagesTell, Tidy, AllUsed, Followed
<1>4. QED
  BY <1>2, <1>3 DEF Answer, Returned

(* A framework's turn adds the mentions of its calls, and its results      *)
(* repeat them.                                                            *)
LEMMA FrameworkTells ==
  ASSUME TypeOK, MessagesTell, FrameworkRuns
  PROVE  MessagesTell'
<1>1. /\ messages \in Seq(MessageSet) /\ Tidy(messages) /\ dialect \in Kinds
      /\ dialect' = dialect /\ called \in Seq(Names)
  BY DEF TypeOK, MessagesTell, Tidy, FrameworkRuns
<1>2. PICK r, outcomes : FrameworkTurn(r, outcomes)
  BY FrameworkTakesTurns
<1> DEFINE ps == Extract(r)
           as == FrameworkReturns(r, outcomes)
           said1 == messages \o AssistantMessages(ps)
<1>3. /\ r \in Seq(CallSet) /\ ps \in Seq(PayloadSet) /\ ps # <<>>
      /\ AssistantMessages(ps) \in Seq(MessageSet) /\ ResultMessages(as) \in Seq(MessageSet)
      /\ messages' = said1 \o ResultMessages(as) /\ called' = Once(called \o NamesIn(ps))
  BY <1>2 DEF FrameworkTurn
<1>4. /\ Len(r) \in Nat /\ DOMAIN as = 1 .. Len(r)
      /\ \A i \in 1 .. Len(r) : IsAnswer(as[i]) /\ as[i].name = r[i].name
  BY <1>3, FrameworkReturnsType
<1>5. NamesIn(ps) \in Seq(Names) /\ Len(NamesIn(ps)) = Len(r)
      /\ \A i \in 1 .. Len(r) : NamesIn(ps)[i] = as[i].name
  <2>1. "text" \in BlockTypes
    BY DEF BlockTypes
  <2>2. NamesIn(ps) \in Seq(Names) /\ Len(NamesIn(ps)) = Len(ps)
    BY <1>3, <2>1, CallBlocksType
  <2>3. Len(ps) = Len(r) /\ DOMAIN ps = DOMAIN r /\ \A i \in DOMAIN r : ps[i].name = r[i].name
    BY <1>3, ExtractType
  <2>4. DOMAIN r = 1 .. Len(r)
    BY <1>3
  <2>5. QED
    BY <1>4, <2>2, <2>3, <2>4 DEF NamesIn
<1> HIDE DEF ps, as
<1>6. said1 \in Seq(MessageSet) /\ Tidy(said1)
  BY <1>1, <1>3, AssistantTidy, TidyConcat, ConcatProperties
<1>7. Tidy(messages')
  BY <1>1, <1>3, <1>6, ResultsTidy, TidyConcat
<1>8. ASSUME Followed PROVE called' = Once(AllUsed(messages'))
  <2> DEFINE a == AllUsed(messages)
             ns == NamesIn(ps)
  <2>1. called = Once(a) /\ a \in Seq(Names)
    BY <1>1, <1>8, EachUsedType DEF MessagesTell
  <2>2. AllUsed(said1) = a \o ns
    BY <1>1, <1>3, <1>8, AllUsedConcat, AnswerMentionsCalls
  <2>3. AllUsed(messages') = (a \o ns) \o AllUsed(ResultMessages(as))
    BY <1>3, <1>6, <2>2, AllUsedConcat
  <2> HIDE DEF a, ns
  <2>4. ns \in Seq(Names) /\ Len(ns) = Len(r) /\ \A i \in 1 .. Len(r) : ns[i] = as[i].name
    BY <1>5 DEF ns
  <2>5. a \o ns \in Seq(Names)
    BY <2>1, <2>4, ConcatProperties
  <2>6. \A i \in 1 .. Len(r) : Contains(Once(a \o ns), as[i].name)
    <3>1. TAKE i \in 1 .. Len(r)
    <3>2. i \in 1 .. Len(ns) /\ ns[i] = as[i].name
      BY <2>4
    <3>3. Contains(Once(a \o ns), ns[i])
      BY <2>1, <2>4, <3>2, OnceContains
    <3>4. QED
      BY <3>2, <3>3
  <2>7. Once((a \o ns) \o AllUsed(ResultMessages(as))) = Once(a \o ns)
    BY <1>1, <1>4, <1>8, <2>5, <2>6, ResultsKnown
  <2>8. called' = Once(a \o ns)
    <3>1. called' = Once(Once(a) \o ns)
      BY <1>3, <2>1 DEF ns
    <3>2. QED
      BY <2>1, <2>4, <3>1, CalledAgain
  <2>9. QED
    BY <2>3, <2>7, <2>8
<1>9. QED
  BY <1>1, <1>7, <1>8 DEF MessagesTell, Tidy, AllUsed, Followed

(* A refresh reads what the messages tell, and that is what was called.    *)
LEMMA RefreshTells ==
  ASSUME TypeOK, MessagesTell, Refresh
  PROVE  MessagesTell' /\ UsedDerived' /\ UsedAreCalled'
<1>1. used' = Once(AllUsed(messages)) /\ UNCHANGED <<messages, called, dialect>>
  BY DEF Refresh, ToolNamesUsed, AllUsed
<1>2. Followed => used' = called
  BY <1>1 DEF MessagesTell
<1>3. QED
  BY <1>1, <1>2 DEF Refresh, MessagesTell, UsedDerived, UsedAreCalled, Followed, AllUsed

(* Steps that add no message and no call keep what the messages tell.      *)
LEMMA TellsKept ==
  ASSUME MessagesTell, UNCHANGED <<messages, called, dialect>>
  PROVE  MessagesTell'
BY DEF MessagesTell, AllUsed, Followed

(* No step breaks the invariant of the tools used.                         *)
LEMMA UsedStep ==
  ASSUME UsedInv, [Next]_vars
  PROVE  UsedInv'
<1>1. /\ TypeOK /\ Fresh /\ AnswersInv /\ MessagesTell /\ PayloadsCalled /\ UsedDerived
      /\ UsedAreCalled
  BY DEF UsedInv, AnswersInv
<1>2. AnswersInv'
  BY <1>1, AnswersStep
<1>3. MessagesTell' /\ PayloadsCalled' /\ UsedDerived' /\ UsedAreCalled'
  <2>1. CASE UNCHANGED vars
    BY <1>1, <2>1, TellsKept
    DEF vars, turnVars, histories, PayloadsCalled, UsedDerived, UsedAreCalled, Followed
  <2>2. CASE UserSpeaks
    BY <1>1, <2>2, UserSpeaksTells DEF UserSpeaks, PayloadsCalled, UsedDerived, UsedAreCalled
  <2>3. CASE Refresh
    BY <1>1, <2>3, RefreshTells DEF Refresh, PayloadsCalled
  <2>4. CASE OtherRefreshes
    BY <1>1, <2>4, TellsKept DEF OtherRefreshes, PayloadsCalled, UsedDerived, UsedAreCalled
  <2>5. CASE Derived
    <3>1. Followed /\ ~ disturbed => used = called
      BY <1>1, <2>5 DEF Derived, UsedDerived
    <3>2. QED
      BY <1>1, <2>5, <3>1, TellsKept
      DEF Derived, histories, PayloadsCalled, UsedDerived, UsedAreCalled, Followed
  <2>6. CASE ModelAnswers
    <3>1. turns + 1 \in Nat
      BY <1>1 DEF TypeOK
    <3>2. PICK r \in Responses(turns + 1) :
             Read(IF Readable(r) THEN Extract(r) ELSE <<>>)
      BY <2>6 DEF ModelAnswers
    <3>3. (IF Readable(r) THEN Extract(r) ELSE <<>>) \in Seq(PayloadSet)
      BY <3>1, ResponsesType, ExtractType
    <3>4. phase' \in {"stopped", "running"}
      BY <1>1, <3>2, <3>3, ReadTyped
    <3>5. MessagesTell' /\ PayloadsCalled'
      BY <1>1, <2>6, <3>2, <3>3, ReadTells DEF ModelAnswers
    <3>6. QED
      BY <3>4, <3>5 DEF UsedDerived, UsedAreCalled
  <2>7. CASE ModelStreams
    BY <1>1, <2>7, TellsKept DEF ModelStreams, PayloadsCalled, UsedDerived, UsedAreCalled
  <2>8. CASE StreamEnds
    <3>1. Accumulated(slots) \in Seq(PayloadSet)
      BY <1>1, AccumulatedIs DEF TypeOK
    <3>2. phase' \in {"stopped", "running"}
      BY <1>1, <2>8, <3>1, ReadTyped DEF StreamEnds
    <3>3. MessagesTell' /\ PayloadsCalled'
      BY <1>1, <2>8, <3>1, ReadTells DEF StreamEnds
    <3>4. QED
      BY <3>2, <3>3 DEF UsedDerived, UsedAreCalled
  <2>9. CASE ModelTalks
    BY <1>1, <2>9, ModelTalksTells DEF ModelTalks, PayloadsCalled, UsedDerived, UsedAreCalled
  <2>10. CASE \E i \in DOMAIN response : Chunk(i)
    BY <1>1, <2>10, TellsKept
    DEF Chunk, histories, PayloadsCalled, UsedDerived, UsedAreCalled
  <2>11. CASE \E i \in DOMAIN payloads : Finish(i)
    BY <1>1, <2>11, TellsKept
    DEF Finish, histories, PayloadsCalled, UsedDerived, UsedAreCalled
  <2>12. CASE Answer
    BY <1>1, <2>12, AnswerTells DEF Answer, PayloadsCalled, UsedDerived, UsedAreCalled
  <2>13. CASE FrameworkRuns
    BY <1>1, <2>13, FrameworkTells
    DEF FrameworkRuns, PayloadsCalled, UsedDerived, UsedAreCalled
  <2>14. QED
    BY <2>1, <2>2, <2>3, <2>4, <2>5, <2>6, <2>7, <2>8, <2>9, <2>10, <2>11, <2>12, <2>13 DEF Next
<1>4. QED
  BY <1>2, <1>3 DEF UsedInv

(* The invariant of the tools used holds of every reachable state.         *)
LEMMA UsedAlways == Spec => []UsedInv
BY UsedInitially, UsedStep, PTL DEF Spec

(* What a selection is told was used is what the conversation has called:  *)
(* each tool once, in the order of the first calls, read off the messages  *)
(* of every dialect whose messages name their calls.                       *)
THEOREM SelectionsKnowTheToolsUsed == Spec => []UsedAreCalled
<1>1. UsedInv => UsedAreCalled
  BY DEF UsedInv
<1>2. QED
  BY <1>1, UsedAlways, PTL

-----------------------------------------------------------------------------
(* A stream means the response it is of                                    *)

(* The fields of a call are of their types, and it is named.               *)
LEMMA CallFields ==
  ASSUME NEW call \in CallSet
  PROVE  /\ call.id \in Ids /\ call.name \in Tools /\ call.name # NoName /\ call.index \in Nat
         /\ call.args \in {"object", "none", "torn", "list"}
<1>1. \A c \in CallSet : /\ c.id \in Ids /\ c.name \in Tools /\ c.index \in Nat
                         /\ c.args \in {"object", "none", "torn", "list"}
  BY DEF CallSet
<1>2. QED
  BY <1>1, ConversationAssumption

(* A beginning that is one longer.                                         *)
LEMMA BeginningAppend ==
  ASSUME NEW S, NEW m \in Nat, NEW s, \A j \in 1 .. m + 1 : s[j] \in S
  PROVE  [j \in 1 .. m + 1 |-> s[j]] = Append([j \in 1 .. m |-> s[j]], s[m + 1])
<1> DEFINE a == [j \in 1 .. m |-> s[j]]
           b == [j \in 1 .. m + 1 |-> s[j]]
<1>1. a \in [1 .. m -> S] /\ \A j \in 1 .. m : a[j] = s[j]
  OBVIOUS
<1>2. b \in [1 .. m + 1 -> S] /\ (\A j \in 1 .. m : b[j] = s[j]) /\ b[m + 1] = s[m + 1]
  OBVIOUS
<1> HIDE DEF a, b
<1>3. a \in Seq(S) /\ Len(a) = m
  BY <1>1, FunctionIsSequence
<1>4. b \in Seq(S) /\ Len(b) = m + 1
  BY <1>2, FunctionIsSequence
<1>5. s[m + 1] \in S
  OBVIOUS
<1>6. /\ Append(a, s[m + 1]) \in Seq(S) /\ Len(Append(a, s[m + 1])) = m + 1
      /\ (\A j \in 1 .. m : Append(a, s[m + 1])[j] = a[j])
      /\ Append(a, s[m + 1])[m + 1] = s[m + 1]
  BY <1>3, <1>5
<1>7. \A j \in 1 .. m + 1 : j \in 1 .. m \/ j = m + 1
  OBVIOUS
<1>8. b = Append(a, s[m + 1])
  <2>1. \A j \in 1 .. m + 1 : Append(a, s[m + 1])[j] = b[j]
    BY <1>1, <1>2, <1>6, <1>7
  <2>2. QED
    BY <1>4, <1>6, <2>1, SeqEqual
<1>9. QED
  BY <1>8 DEF a, b

(* What arrived is a beginning of the fragments: nothing before and with   *)
(* the chunk that names the call, one fragment more with each after it, and*)
(* no more with the finished item.                                         *)
LEMMA ReceivedSteps ==
  ASSUME NEW call \in CallSet
  PROVE  /\ \A k \in Nat : Received(call, k) \in Seq(FragmentSet)
         /\ Received(call, 1) = <<>>
         /\ \A k \in 2 .. 1 + Len(Fragments(call)) :
              Received(call, k) = Append(Received(call, k - 1), Fragments(call)[k - 1])
         /\ \A k \in Nat : k > 1 + Len(Fragments(call)) =>
              Received(call, k) = Received(call, k - 1)
         /\ \A k \in Nat : k >= 1 + Len(Fragments(call)) => Received(call, k) = Fragments(call)
<1> DEFINE F == Fragments(call)
<1>1. F \in Seq(FragmentSet) /\ Len(F) \in Nat
  BY FragmentsType
<1>2. \A k : Received(call, k) =
        [j \in 1 .. (IF k - 1 <= Len(F) THEN k - 1 ELSE Len(F)) |-> F[j]]
  BY DEF Received
<1> HIDE DEF F
<1>3. \A m \in Nat : m <= Len(F) => /\ [j \in 1 .. m |-> F[j]] \in Seq(FragmentSet)
                                    /\ Len([j \in 1 .. m |-> F[j]]) = m
  <2>1. TAKE m \in Nat
  <2>2. HAVE m <= Len(F)
  <2>3. [j \in 1 .. m |-> F[j]] \in [1 .. m -> FragmentSet]
    BY <1>1, <2>2
  <2>4. QED
    BY <2>3, FunctionIsSequence
<1>4. ASSUME NEW k \in Nat PROVE Received(call, k) \in Seq(FragmentSet)
  <2>1. CASE k = 0
    <3>1. [j \in 1 .. 0 - 1 |-> F[j]] = <<>>
      OBVIOUS
    <3>2. Received(call, k) = [j \in 1 .. 0 - 1 |-> F[j]]
      BY <1>1, <1>2, <2>1
    <3>3. <<>> \in Seq(FragmentSet)
      OBVIOUS
    <3>4. QED
      BY <3>1, <3>2, <3>3
  <2>2. CASE k # 0 /\ k - 1 <= Len(F)
    BY <1>1, <1>2, <1>3, <2>2
  <2>3. CASE k # 0 /\ ~ (k - 1 <= Len(F))
    BY <1>1, <1>2, <1>3, <2>3
  <2>4. QED
    BY <2>1, <2>2, <2>3
<1>5. Received(call, 1) = <<>>
  <2>1. Received(call, 1) = [j \in 1 .. 0 |-> F[j]]
    BY <1>1, <1>2
  <2>2. QED
    BY <2>1
<1>6. ASSUME NEW k \in 2 .. 1 + Len(F)
      PROVE  Received(call, k) = Append(Received(call, k - 1), F[k - 1])
  <2>1. k - 2 \in Nat /\ (k - 2) + 1 = k - 1 /\ (k - 1) - 1 = k - 2
        /\ k - 1 <= Len(F) /\ k - 2 <= Len(F)
    BY <1>1
  <2>2. Received(call, k - 1) = [j \in 1 .. k - 2 |-> F[j]]
    <3>1. Received(call, k - 1)
            = [j \in 1 .. (IF (k - 1) - 1 <= Len(F) THEN (k - 1) - 1 ELSE Len(F)) |-> F[j]]
      BY <1>2
    <3>2. QED
      BY <2>1, <3>1
  <2>3. Received(call, k) = [j \in 1 .. k - 1 |-> F[j]]
    <3>1. Received(call, k)
            = [j \in 1 .. (IF k - 1 <= Len(F) THEN k - 1 ELSE Len(F)) |-> F[j]]
      BY <1>2
    <3>2. QED
      BY <2>1, <3>1
  <2>4. \A j \in 1 .. (k - 2) + 1 : F[j] \in FragmentSet
    BY <1>1, <2>1
  <2>5. [j \in 1 .. (k - 2) + 1 |-> F[j]] = Append([j \in 1 .. k - 2 |-> F[j]], F[(k - 2) + 1])
    BY <2>1, <2>4, BeginningAppend
  <2>6. QED
    BY <2>1, <2>2, <2>3, <2>5
<1>7. ASSUME NEW k \in Nat, k >= 1 + Len(F) PROVE Received(call, k) = F
  <2>1. Received(call, k) = [j \in 1 .. Len(F) |-> F[j]]
    BY <1>1, <1>2, <1>7
  <2>2. QED
    BY <1>1, <2>1
<1>8. ASSUME NEW k \in Nat, k > 1 + Len(F) PROVE Received(call, k) = Received(call, k - 1)
  <2>1. k - 1 \in Nat /\ k - 1 >= 1 + Len(F) /\ k >= 1 + Len(F)
    BY <1>1, <1>8
  <2>2. QED
    BY <1>7, <2>1
<1>9. QED
  BY <1>4, <1>5, <1>6, <1>7, <1>8 DEF F

(* What arrived means the whole object or, before that, none: no beginning *)
(* of an object is an object.                                              *)
LEMMA ReceivedMeans ==
  ASSUME NEW call \in CallSet, NEW k \in Nat
  PROVE  /\ Meaning(Received(call, k)) \in {call.id, NoObject}
         /\ k >= 1 + Len(Fragments(call)) =>
              /\ Meaning(Received(call, k)) = ParsedArguments(call)
              /\ Meaning(Received(call, k)) = GivenArguments(call)
<1> DEFINE f(n) == [of |-> call.id, part |-> n]
           F == Fragments(call)
           R == Received(call, k)
<1>1. \A n : f(n).of = call.id /\ f(n).part = n
  OBVIOUS
<1>2. ObjectOf(call.id) = <<f(1), f(2)>>
  BY DEF ObjectOf
<1>3. \/ call.args = "object" /\ F = <<f(1), f(2)>>
      \/ call.args = "none" /\ F = <<>>
      \/ call.args = "torn" /\ F = <<f(1)>>
      \/ call.args = "list" /\ F = <<f(0)>>
  BY CallFields DEF Fragments, ObjectOf
<1>4. R = [j \in 1 .. (IF k - 1 <= Len(F) THEN k - 1 ELSE Len(F)) |-> F[j]]
  BY DEF Received
<1>5. k >= 1 + Len(F) => R = F
  BY ReceivedSteps
<1>6. ParsedArguments(call) = Meaning(F)
  BY DEF ParsedArguments
<1> HIDE DEF f, F, R
<1>7. \A a : \A s : /\ s = <<>> => Meaning(s) = NoObject
                    /\ s = <<f(a)>> => Meaning(s) = NoObject
                    /\ s = <<f(1), f(2)>> => Meaning(s) = call.id
  <2>1. TAKE a
  <2>2. TAKE s
  <2>3. s = <<>> => Meaning(s) = NoObject
    BY DEF Meaning
  <2>4. ASSUME s = <<f(a)>> PROVE Meaning(s) = NoObject
    <3>1. s # <<>> /\ s[1] = f(a) /\ s[1].of = call.id
      BY <1>1, <2>4
    <3>2. Len(s) = 1 /\ Len(<<f(1), f(2)>>) = 2
      BY <2>4
    <3>3. s # <<f(1), f(2)>>
      BY <3>2
    <3>4. QED
      BY <1>2, <3>1, <3>3 DEF Meaning
  <2>5. ASSUME s = <<f(1), f(2)>> PROVE Meaning(s) = call.id
    <3>1. s # <<>> /\ s[1].of = call.id
      BY <1>1, <2>5
    <3>2. QED
      BY <1>2, <2>5, <3>1 DEF Meaning
  <2>6. QED
    BY <2>3, <2>4, <2>5
<1>8. R = <<>> \/ (\E a : R = <<f(a)>>) \/ R = <<f(1), f(2)>>
  <2> DEFINE m == IF k - 1 <= Len(F) THEN k - 1 ELSE Len(F)
  <2>1. CASE F = <<f(1), f(2)>>
    <3>1. Len(F) = 2 /\ F[1] = f(1) /\ F[2] = f(2)
      BY <2>1
    <3>2. m = 0 - 1 \/ m = 0 \/ m = 1 \/ m = 2
      BY <3>1
    <3>3. R = [j \in 1 .. m |-> F[j]]
      BY <1>4
    <3> HIDE DEF m
    <3>4. CASE m = 0 - 1 \/ m = 0
      BY <3>3, <3>4
    <3>5. CASE m = 1
      <4>1. R = <<f(1)>>
        BY <3>1, <3>3, <3>5
      <4>2. QED
        BY <4>1
    <3>6. CASE m = 2
      BY <3>1, <3>3, <3>6
    <3>7. QED
      BY <3>2, <3>4, <3>5, <3>6
  <2>2. CASE F = <<>>
    <3>1. m = 0 - 1 \/ m = 0
      BY <2>2
    <3>2. R = [j \in 1 .. m |-> F[j]]
      BY <1>4
    <3> HIDE DEF m
    <3>3. QED
      BY <3>1, <3>2
  <2>3. ASSUME NEW a, F = <<f(a)>> PROVE R = <<>> \/ R = <<f(a)>>
    <3>1. Len(F) = 1 /\ F[1] = f(a)
      BY <2>3
    <3>2. m = 0 - 1 \/ m = 0 \/ m = 1
      BY <3>1
    <3>3. R = [j \in 1 .. m |-> F[j]]
      BY <1>4
    <3> HIDE DEF m
    <3>4. CASE m = 0 - 1 \/ m = 0
      BY <3>3, <3>4
    <3>5. CASE m = 1
      BY <3>1, <3>3, <3>5
    <3>6. QED
      BY <3>2, <3>4, <3>5
  <2>4. QED
    BY <1>3, <2>1, <2>2, <2>3
<1>9. Meaning(R) \in {call.id, NoObject}
  BY <1>7, <1>8
<1>10. Meaning(F) = GivenArguments(call)
  BY <1>3, <1>7 DEF GivenArguments
<1>11. QED
  BY <1>5, <1>6, <1>9, <1>10 DEF R, F

(* The slot that a call has when k chunks of it came.                      *)
SlotOf(call, k) ==
  [key |-> call.index, id |-> call.id, name |-> call.name, arguments |-> Received(call, k)]
KeysInOrder(s) == \A j \in DOMAIN s : s[j].key = j - 1

(* The slot of a call is a slot.                                           *)
LEMMA SlotOfType ==
  ASSUME NEW call \in CallSet, NEW k \in Nat
  PROVE  SlotOf(call, k) \in SlotSet
<1>1. /\ call.id \in SomeId /\ call.name \in Names /\ call.index \in Nat
      /\ Received(call, k) \in Seq(FragmentSet)
  BY CallFields, ReceivedSteps DEF SomeId, Names
<1>2. QED
  BY <1>1 DEF SlotOf, SlotSet

Slot(key, id, name, arguments) ==
  [key |-> key, id |-> id, name |-> name, arguments |-> arguments]

(* What a chunk does to a slot: name it, or add to its arguments.          *)
NamedSlot(slot, call) == [slot EXCEPT !.id = call.id, !.name = call.name]
ExtendedSlot(slot, fragment) == [slot EXCEPT !.arguments = Append(@, fragment)]

(* Naming a slot sets its id and name.                                     *)
LEMMA SlotNamed ==
  \A a, b, c, d, call : NamedSlot(Slot(a, b, c, d), call) = Slot(a, call.id, call.name, d)
<1> TAKE a, b, c, d, call
<1> DEFINE slot == Slot(a, b, c, d)
           e == call.id
           g == call.name
<1> HIDE DEF e, g
<1>1. [slot EXCEPT !.id = e] = Slot(a, e, c, d)
  BY DEF Slot
<1>2. [slot EXCEPT !.id = e, !.name = g] = [[slot EXCEPT !.id = e] EXCEPT !.name = g]
  OBVIOUS
<1>3. [Slot(a, e, c, d) EXCEPT !.name = g] = Slot(a, e, g, d)
  BY DEF Slot
<1>4. [slot EXCEPT !.id = e, !.name = g] = Slot(a, e, g, d)
  BY <1>1, <1>2, <1>3
<1>5. QED
  BY <1>4 DEF NamedSlot, e, g

(* A fragment goes to the end of the slot's arguments.                     *)
LEMMA SlotExtended ==
  \A a, b, c, d, e : ExtendedSlot(Slot(a, b, c, d), e) = Slot(a, b, c, Append(d, e))
<1> TAKE a, b, c, d, e
<1>1. Slot(a, b, c, d).arguments = d
  BY DEF Slot
<1>2. [Slot(a, b, c, d) EXCEPT !.arguments = Append(@, e)]
        = [Slot(a, b, c, d) EXCEPT !.arguments = Append(d, e)]
  BY <1>1
<1>3. [Slot(a, b, c, d) EXCEPT !.arguments = Append(d, e)] = Slot(a, b, c, Append(d, e))
  <2> DEFINE x == Append(d, e)
             fields == {"key", "id", "name", "arguments"}
  <2> HIDE DEF x
  <2>1. [Slot(a, b, c, d) EXCEPT !.arguments = x]
          = [f \in fields |-> IF f = "arguments" THEN x ELSE Slot(a, b, c, d)[f]]
    BY DEF Slot
  <2>2. Slot(a, b, c, x)
          = [f \in fields |-> IF f = "arguments" THEN x ELSE Slot(a, b, c, d)[f]]
    BY DEF Slot
  <2>3. QED
    BY <2>1, <2>2 DEF x
<1>4. QED
  BY <1>2, <1>3 DEF ExtendedSlot

(* The chunk that names a call names the slot of its key.                  *)
LEMMA NamedIs ==
  \A s, call : Named(s, call)
    = [j \in DOMAIN Slotted(s, Key(call)) |->
         IF Slotted(s, Key(call))[j].key = Key(call)
           THEN NamedSlot(Slotted(s, Key(call))[j], call) ELSE Slotted(s, Key(call))[j]]
BY DEF Named, WithSlot, NamedSlot

(* A fragment extends the slot of its key, where there is one.             *)
LEMMA ExtendedIs ==
  \A s, call, fragment : Slotted(s, Key(call)) = s =>
    Extended(s, call, fragment)
      = [j \in DOMAIN s |->
           IF s[j].key = Key(call) THEN ExtendedSlot(s[j], fragment) ELSE s[j]]
BY DEF Extended, WithSlot, ExtendedSlot

(* The first chunk of a call makes its slot, after those of the others.    *)
LEMMA AddedNew ==
  ASSUME NEW s \in Seq(SlotSet), NEW call \in CallSet, KeysInOrder(s), call.index = Len(s)
  PROVE  Added(s, call, 1) = Append(s, SlotOf(call, 1))
<1> DEFINE n == Len(s)
           new == Slot(n, NoId, NoName, <<>>)
           T == Append(s, new)
           A == [j \in DOMAIN T |-> IF T[j].key = n THEN NamedSlot(T[j], call) ELSE T[j]]
<1>1. n \in Nat /\ DOMAIN s = 1 .. n /\ \A j \in 1 .. n : s[j] \in SlotSet /\ s[j].key = j - 1
  BY SequenceFacts DEF KeysInOrder
<1>2. new \in SlotSet
  BY <1>1, EmptySequences DEF SlotSet, SomeId, Slot
<1>3. Slotted(s, n) = T
  <2>1. n \notin Keys(s)
    BY <1>1 DEF Keys
  <2>2. QED
    BY <2>1 DEF Slotted, Slot
<1>4. new.key = n
  BY DEF Slot
<1>5. NamedSlot(new, call) = SlotOf(call, 1)
  <2>1. NamedSlot(new, call) = Slot(n, call.id, call.name, <<>>)
    BY SlotNamed
  <2>2. Received(call, 1) = <<>>
    BY ReceivedSteps
  <2>3. QED
    BY <2>1, <2>2 DEF SlotOf, Slot
<1>6. Key(call) = n
  BY DEF Key
<1> HIDE DEF new
<1>7. /\ T \in Seq(SlotSet) /\ Len(T) = n + 1 /\ T[n + 1] = new
      /\ \A j \in 1 .. n : T[j] = s[j]
  BY <1>1, <1>2, AppendProperties
<1>8. DOMAIN T = 1 .. n + 1
  BY <1>1, <1>7
<1>9. Added(s, call, 1) = A
  <2>1. ~ (1 \in 2 .. 1 + Len(Fragments(call)))
    OBVIOUS
  <2>2. Added(s, call, 1) = Named(s, call)
    BY <2>1 DEF Added
  <2>3. QED
    BY <1>3, <1>6, <2>2, NamedIs
<1> HIDE DEF T
<1>10. A[n + 1] = SlotOf(call, 1)
  <2>1. n + 1 \in DOMAIN T /\ T[n + 1].key = n
    BY <1>1, <1>4, <1>7, <1>8
  <2>2. A[n + 1] = NamedSlot(T[n + 1], call)
    BY <2>1
  <2>3. QED
    BY <1>5, <1>7, <2>2
<1>11. ASSUME NEW j \in 1 .. n PROVE A[j] = s[j]
  <2>1. j \in DOMAIN T /\ T[j].key = j - 1 /\ j - 1 # n
    BY <1>1, <1>7, <1>8
  <2>2. QED
    BY <1>7, <2>1
<1>12. DOMAIN A = 1 .. n + 1
  BY <1>8
<1>13. SlotOf(call, 1) \in SlotSet
  BY SlotOfType
<1> HIDE DEF A
<1>14. /\ Append(s, SlotOf(call, 1)) \in Seq(SlotSet)
       /\ Len(Append(s, SlotOf(call, 1))) = n + 1
       /\ \A j \in 1 .. n : Append(s, SlotOf(call, 1))[j] = s[j]
       /\ Append(s, SlotOf(call, 1))[n + 1] = SlotOf(call, 1)
  BY <1>1, <1>13, AppendProperties
<1>15. \A j \in 1 .. n + 1 : j \in 1 .. n \/ j = n + 1
  BY <1>1
<1>16. \A j \in 1 .. n + 1 : A[j] = Append(s, SlotOf(call, 1))[j]
  BY <1>10, <1>11, <1>14, <1>15
<1>17. A \in Seq(SlotSet)
  BY <1>9, AddedType
<1>18. Len(A) = n + 1
  BY <1>1, <1>12, <1>17
<1>19. QED
  BY <1>9, <1>14, <1>16, <1>17, <1>18, SeqEqual

(* A later chunk changes the slot of its call, and no other's.             *)
LEMMA AddedOld ==
  ASSUME NEW s \in Seq(SlotSet), NEW call \in CallSet, KeysInOrder(s),
         NEW k \in Nat, k >= 2, NEW i \in DOMAIN s, call.index = i - 1,
         s[i] = SlotOf(call, k - 1)
  PROVE  Added(s, call, k) = [s EXCEPT ![i] = SlotOf(call, k)]
<1>1. /\ Len(s) \in Nat /\ DOMAIN s = 1 .. Len(s)
      /\ \A j \in DOMAIN s : s[j] \in SlotSet /\ s[j].key = j - 1
  BY SequenceFacts DEF KeysInOrder
<1>2. Key(call) = i - 1 /\ Key(call) \in Keys(s)
  BY <1>1 DEF Key, Keys
<1>3. Slotted(s, Key(call)) = s
  BY <1>2 DEF Slotted
<1>4. \A j \in DOMAIN s : s[j].key = Key(call) <=> j = i
  BY <1>1, <1>2
<1>5. Len(Fragments(call)) \in Nat
  BY FragmentsType
<1>6. s[i] = Slot(call.index, call.id, call.name, Received(call, k - 1))
  BY DEF SlotOf, Slot
<1>7. CASE k \in 2 .. 1 + Len(Fragments(call))
  <2> DEFINE f == Fragments(call)[k - 1]
  <2>1. Received(call, k) = Append(Received(call, k - 1), f)
    BY <1>7, ReceivedSteps
  <2>2. Added(s, call, k)
          = [j \in DOMAIN s |-> IF s[j].key = Key(call) THEN ExtendedSlot(s[j], f) ELSE s[j]]
    BY <1>3, <1>7, ExtendedIs DEF Added
  <2> HIDE DEF f
  <2>3. ExtendedSlot(s[i], f) = SlotOf(call, k)
    <3>1. ExtendedSlot(s[i], f)
            = Slot(call.index, call.id, call.name, Append(Received(call, k - 1), f))
      BY <1>6, SlotExtended
    <3>2. SlotOf(call, k) = Slot(call.index, call.id, call.name, Received(call, k))
      BY DEF SlotOf, Slot
    <3>3. QED
      BY <2>1, <3>1, <3>2
  <2>4. QED
    BY <1>4, <2>2, <2>3
<1>8. CASE k \notin 2 .. 1 + Len(Fragments(call))
  <2>1. Received(call, k) = Received(call, k - 1)
    <3>1. k > 1 + Len(Fragments(call))
      BY <1>5, <1>8
    <3>2. QED
      BY <3>1, ReceivedSteps
  <2>2. NamedSlot(s[i], call) = SlotOf(call, k)
    BY <1>6, <2>1, SlotNamed DEF SlotOf, Slot
  <2>3. Added(s, call, k)
          = [j \in DOMAIN s |-> IF s[j].key = Key(call) THEN NamedSlot(s[j], call) ELSE s[j]]
    BY <1>3, <1>8, NamedIs DEF Added
  <2>4. QED
    BY <1>4, <2>2, <2>3
<1>9. QED
  BY <1>7, <1>8

(* A call has a chunk more than fragments, or two.                         *)
LEMMA ChunkCountType ==
  ASSUME NEW call \in CallSet
  PROVE  ChunkCount(call) \in Nat /\ ChunkCount(call) >= 1 + Len(Fragments(call))
<1>1. Len(Fragments(call)) \in Nat
  BY FragmentsType
<1>2. QED
  BY <1>1 DEF ChunkCount

(* A chunk keeps the slots those of the calls that have begun, in their    *)
(* order.                                                                  *)
LEMMA ChunkFollows ==
  ASSUME TypeOK, SlotsFollow, NEW i \in DOMAIN response, Chunk(i)
  PROVE  SlotsFollow'
<1> DEFINE n == Len(response)
<1>1. /\ n \in Nat /\ DOMAIN response = 1 .. n /\ \A j \in 1 .. n : response[j] \in CallSet
      /\ i \in 1 .. n
  BY SequenceFacts DEF TypeOK
<1>2. /\ phase = "receiving" /\ phase' = phase /\ response' = response /\ dialect' = dialect
      /\ arrived[i] # ChunkCount(response[i])
      /\ \A j \in 1 .. i - 1 : arrived[j] > 0
      /\ arrived' = [arrived EXCEPT ![i] = @ + 1]
      /\ slots' = Added(slots, response[i], arrived'[i])
  BY DEF Chunk, Complete
<1>3. Len(arrived) = n /\ \A j \in 1 .. n : arrived[j] <= ChunkCount(response[j])
  BY <1>1, <1>2 DEF SlotsFollow
<1>4. DOMAIN arrived = 1 .. n /\ arrived \in Seq(Nat) /\ \A j \in 1 .. n : arrived[j] \in Nat
  BY <1>3, SequenceFacts DEF TypeOK
<1> HIDE DEF n
<1>5. /\ arrived'[i] = arrived[i] + 1 /\ \A j \in 1 .. n : j # i => arrived'[j] = arrived[j]
      /\ DOMAIN arrived' = 1 .. n /\ arrived' \in [1 .. n -> Nat]
  BY <1>1, <1>2, <1>4
<1>6. Len(arrived') = n
  BY <1>1, <1>5, FunctionIsSequence
<1>7. arrived'[i] <= ChunkCount(response[i])
  <2>1. ChunkCount(response[i]) \in Nat
    BY <1>1, ChunkCountType
  <2>2. QED
    BY <1>1, <1>2, <1>3, <1>4, <1>5, <2>1
<1>8. \A j \in 1 .. n : arrived'[j] <= ChunkCount(response[j])
  BY <1>3, <1>5, <1>7
<1>9. ChunkCount(response[i])' = ChunkCount(response[i])
      /\ \A j : ChunkCount(response[j])' = ChunkCount(response[j])
  BY <1>2 DEF ChunkCount, Fragments, ObjectOf
<1>10. OneChoice' <=> OneChoice
  BY <1>2 DEF OneChoice
<1>11. ASSUME OneChoice
       PROVE  /\ Len(slots') <= n
              /\ \A j \in 1 .. n : arrived'[j] > 0 <=> j <= Len(slots')
              /\ \A j \in DOMAIN slots' : slots'[j] = SlotOf(response[j], arrived'[j])
  <2> DEFINE m == Len(slots)
  <2>1. slots \in Seq(SlotSet) /\ m \in Nat /\ DOMAIN slots = 1 .. m
    BY SequenceFacts DEF TypeOK
  <2>2. \A j \in 1 .. n : response[j].index = j - 1
    BY <1>1, <1>11 DEF SlotsFollow
  <2>3. m <= n /\ \A j \in 1 .. n : arrived[j] > 0 <=> j <= m
    BY <1>1, <1>2, <1>11 DEF SlotsFollow, n
  <2>4. \A j \in 1 .. m : slots[j] = SlotOf(response[j], arrived[j])
    <3>1. TAKE j \in 1 .. m
    <3>2. slots[j] = [key |-> j - 1, id |-> response[j].id, name |-> response[j].name,
                      arguments |-> Received(response[j], arrived[j])]
      BY <1>2, <1>11, <2>1 DEF SlotsFollow
    <3>3. response[j].index = j - 1
      BY <2>1, <2>2, <2>3, <1>1
    <3>4. QED
      BY <3>2, <3>3 DEF SlotOf
  <2>5. KeysInOrder(slots)
    <3>1. ASSUME NEW j \in DOMAIN slots PROVE slots[j].key = j - 1
      <4>1. j \in 1 .. m /\ j \in 1 .. n
        BY <1>1, <2>1, <2>3
      <4>2. slots[j] = SlotOf(response[j], arrived[j]) /\ response[j].index = j - 1
        BY <2>2, <2>4, <4>1
      <4>3. SlotOf(response[j], arrived[j]).key = response[j].index
        BY DEF SlotOf
      <4>4. QED
        BY <4>2, <4>3
    <3>2. QED
      BY <3>1 DEF KeysInOrder
  <2> HIDE DEF m
  <2>6. CASE i <= m
    <3>1. arrived[i] > 0 /\ arrived'[i] >= 2 /\ arrived'[i] \in Nat /\ arrived'[i] - 1 = arrived[i]
      BY <1>1, <1>4, <1>5, <2>3, <2>6
    <3>2. i \in DOMAIN slots
      BY <1>1, <2>1, <2>6
    <3>3. slots[i] = SlotOf(response[i], arrived'[i] - 1)
      BY <2>1, <2>4, <3>1, <3>2
    <3>4. slots' = [slots EXCEPT ![i] = SlotOf(response[i], arrived'[i])]
      <4>1. response[i] \in CallSet /\ response[i].index = i - 1
        BY <1>1, <2>2
      <4>2. Added(slots, response[i], arrived'[i])
              = [slots EXCEPT ![i] = SlotOf(response[i], arrived'[i])]
        <5> DEFINE k == arrived'[i]
                   call == response[i]
        <5>1. k \in Nat /\ k >= 2
          BY <3>1
        <5>2. call \in CallSet /\ call.index = i - 1 /\ slots[i] = SlotOf(call, k - 1)
          BY <3>3, <4>1
        <5> HIDE DEF k, call
        <5>3. Added(slots, call, k) = [slots EXCEPT ![i] = SlotOf(call, k)]
          BY <2>1, <2>5, <3>2, <5>1, <5>2, AddedOld
        <5>4. QED
          BY <5>3 DEF k, call
      <4>3. QED
        BY <1>2, <4>2
    <3>5. /\ DOMAIN slots' = 1 .. m /\ slots'[i] = SlotOf(response[i], arrived'[i])
          /\ \A j \in 1 .. m : j # i => slots'[j] = slots[j]
      BY <2>1, <3>2, <3>4
    <3>6. Len(slots') = m
      <4>1. SlotOf(response[i], arrived'[i]) \in SlotSet
        BY <1>1, <3>1, SlotOfType
      <4>2. slots' \in Seq(SlotSet)
        BY <2>1, <3>2, <3>4, <4>1
      <4>3. QED
        BY <2>1, <3>5, <4>2
    <3>7. \A j \in 1 .. m : j \in 1 .. n
      BY <1>1, <2>1, <2>3
    <3>8. \A j \in DOMAIN slots' : slots'[j] = SlotOf(response[j], arrived'[j])
      BY <1>5, <2>4, <3>5, <3>7
    <3>9. \A j \in 1 .. n : arrived'[j] > 0 <=> j <= m
      BY <1>5, <2>3, <2>6, <3>1
    <3>10. QED
      BY <2>3, <3>6, <3>8, <3>9
  <2>7. CASE ~ (i <= m)
    <3>1. arrived[i] = 0 /\ arrived'[i] = 1
      BY <1>1, <1>4, <1>5, <2>3, <2>7
    <3>2. i = m + 1
      <4>1. CASE i = 1
        BY <2>1, <2>7, <4>1
      <4>2. CASE i # 1
        <5>1. i - 1 \in 1 .. i - 1 /\ i - 1 \in 1 .. n
          BY <1>1, <4>2
        <5>2. i - 1 <= m
          BY <1>2, <2>3, <5>1
        <5>3. QED
          BY <1>1, <2>1, <2>7, <5>2
      <4>3. QED
        BY <4>1, <4>2
    <3>3. response[i].index = Len(slots)
      BY <1>1, <2>1, <2>2, <3>2 DEF m
    <3>4. slots' = Append(slots, SlotOf(response[i], 1))
      BY <1>1, <1>2, <2>1, <2>5, <3>1, <3>3, AddedNew
    <3>5. SlotOf(response[i], 1) \in SlotSet
      BY <1>1, SlotOfType
    <3>6. /\ slots' \in Seq(SlotSet) /\ Len(slots') = m + 1
          /\ (\A j \in 1 .. m : slots'[j] = slots[j])
          /\ slots'[m + 1] = SlotOf(response[i], 1)
      BY <2>1, <3>4, <3>5, AppendProperties DEF m
    <3>7. \A j \in DOMAIN slots' : j \in 1 .. m \/ j = m + 1
      BY <2>1, <3>6
    <3>8. \A j \in 1 .. m : j \in 1 .. n /\ j # i
      BY <1>1, <2>1, <2>3, <3>2
    <3>9. \A j \in DOMAIN slots' : slots'[j] = SlotOf(response[j], arrived'[j])
      BY <1>5, <2>4, <3>1, <3>2, <3>6, <3>7, <3>8
    <3>10. ASSUME NEW j \in 1 .. n PROVE arrived'[j] > 0 <=> j <= m + 1
      <4>1. CASE j = i
        BY <3>1, <3>2, <4>1, <2>1
      <4>2. CASE j # i
        <5>1. arrived'[j] = arrived[j] /\ (arrived[j] > 0 <=> j <= m) /\ j # m + 1
          BY <1>5, <2>3, <3>2, <4>2
        <5>2. QED
          BY <1>1, <2>1, <5>1
      <4>3. QED
        BY <4>1, <4>2
    <3>11. m + 1 <= n
      BY <1>1, <3>2
    <3>12. QED
      BY <3>6, <3>9, <3>10, <3>11
  <2>8. QED
    BY <2>6, <2>7
<1>12. OneChoice => \A j \in 1 .. n : response[j].index = j - 1
  BY <1>1 DEF SlotsFollow
<1>13. Len(response') = n /\ DOMAIN response' = 1 .. n
  BY <1>1, <1>2 DEF n
<1>14. ASSUME OneChoice
       PROVE  \A j \in DOMAIN slots' :
                slots'[j] = [key |-> j - 1, id |-> response[j].id, name |-> response[j].name,
                             arguments |-> Received(response[j], arrived'[j])]
  <2>1. TAKE j \in DOMAIN slots'
  <2>2. j \in 1 .. n
    <3>1. slots' \in Seq(SlotSet)
      BY <1>1, <1>2, AddedType DEF TypeOK
    <3>2. Len(slots') \in Nat /\ DOMAIN slots' = 1 .. Len(slots')
      BY <3>1, SequenceFacts
    <3>3. QED
      BY <1>1, <1>11, <1>14, <3>2
  <2>3. slots'[j] = SlotOf(response[j], arrived'[j])
    BY <1>11, <1>14
  <2>4. response[j].index = j - 1
    BY <1>12, <1>14, <2>2
  <2>5. QED
    BY <2>3, <2>4 DEF SlotOf
<1>15. OneChoice' => \A j \in DOMAIN response' : response'[j].index = j - 1
  BY <1>2, <1>10, <1>12, <1>13
<1>16. /\ Len(arrived') = Len(response')
       /\ \A j \in DOMAIN response' : arrived'[j] <= ChunkCount(response[j])'
  BY <1>2, <1>6, <1>8, <1>9, <1>13
<1>17. OneChoice' =>
         /\ Len(slots') <= Len(response')
         /\ \A j \in DOMAIN response' : arrived'[j] > 0 <=> j <= Len(slots')
         /\ \A j \in DOMAIN slots' :
              slots'[j] = [key |-> j - 1, id |-> response'[j].id, name |-> response'[j].name,
                           arguments |-> Received(response[j], arrived[j])']
  <2>1. \A j : Received(response[j], arrived[j])' = Received(response[j], arrived'[j])
    BY <1>2 DEF Received, Fragments, ObjectOf
  <2>2. QED
    BY <1>2, <1>10, <1>11, <1>13, <1>14, <2>1
<1>18. QED
  BY <1>15, <1>16, <1>17 DEF SlotsFollow

(* The calls read from the slots of a stream, of which each has a name.    *)
LEMMA ReadFromSlots ==
  ASSUME TypeOK, SlotsFollow, phase = "receiving", OneChoice
  PROVE  /\ Len(slots) <= Len(response) /\ DOMAIN Accumulated(slots) = 1 .. Len(slots)
         /\ \A i \in 1 .. Len(slots) :
              Accumulated(slots)[i]
                = Payload(response[i].id, response[i].name,
                          Meaning(Received(response[i], arrived[i])))
<1> DEFINE n == Len(slots)
           ps == [i \in DOMAIN slots |-> PayloadOf(slots[i])]
<1>1. slots \in Seq(SlotSet) /\ n \in Nat /\ DOMAIN slots = 1 .. n
  BY SequenceFacts DEF TypeOK
<1>2. /\ Len(response) \in Nat /\ DOMAIN response = 1 .. Len(response)
      /\ \A i \in 1 .. Len(response) : response[i] \in CallSet
  BY SequenceFacts DEF TypeOK
<1>3. n <= Len(response)
  BY DEF SlotsFollow
<1>4. ASSUME NEW i \in 1 .. n
      PROVE  /\ slots[i].id = response[i].id /\ slots[i].name = response[i].name
             /\ slots[i].arguments = Received(response[i], arrived[i])
  <2>1. slots[i] = [key |-> i - 1, id |-> response[i].id, name |-> response[i].name,
                    arguments |-> Received(response[i], arrived[i])]
    BY <1>1 DEF SlotsFollow
  <2>2. QED
    BY <2>1
<1>5. \A i \in 1 .. n : slots[i].name # NoName
  <2>1. TAKE i \in 1 .. n
  <2>2. response[i] \in CallSet
    BY <1>1, <1>2, <1>3
  <2>3. QED
    BY <1>4, <2>2, CallFields
<1>6. /\ Accumulated(slots) = FlattenSeq(PayloadsOfEach(slots))
      /\ PayloadsOfEach(slots) \in Seq(Seq(PayloadSet))
      /\ \A i \in DOMAIN slots : PayloadOf(slots[i]) \in PayloadSet
  BY <1>1, AccumulatedIs
<1>7. DOMAIN PayloadsOfEach(slots) = 1 .. n
      /\ \A i \in 1 .. n : PayloadsOfEach(slots)[i] = <<PayloadOf(slots[i])>>
  BY <1>1, <1>5 DEF PayloadsOfEach
<1>8. ps \in Seq(PayloadSet) /\ DOMAIN ps = 1 .. n
      /\ \A i \in 1 .. n : ps[i] = PayloadOf(slots[i])
  <2>1. ps \in [1 .. n -> PayloadSet]
    BY <1>1, <1>6
  <2>2. ps \in Seq(PayloadSet) /\ DOMAIN ps = 1 .. n
    BY <1>1, <2>1, FunctionIsSequence
  <2>3. QED
    BY <1>1, <2>2
<1> HIDE DEF n, ps
<1>9. Accumulated(slots) = ps
  <2>1. FlattenSeq(PayloadsOfEach(slots)) = ps
    BY <1>6, <1>7, <1>8, FlattenSingles
  <2>2. QED
    BY <1>6, <2>1
<1>10. ASSUME NEW i \in 1 .. n
       PROVE  ps[i] = Payload(response[i].id, response[i].name,
                              Meaning(Received(response[i], arrived[i])))
  BY <1>4, <1>8 DEF PayloadOf
<1>11. QED
  BY <1>3, <1>8, <1>9, <1>10 DEF n

(* The payloads of a stream that ends are those of its calls, with the     *)
(* arguments of each or none.                                              *)
LEMMA StreamEndsMeans ==
  ASSUME TypeOK, SlotsFollow, StreamEnds
  PROVE  StreamIsResponse'
<1>1. /\ phase = "receiving" /\ payloads' = Accumulated(slots)
      /\ response' = response /\ arrived' = arrived /\ dialect' = dialect
  BY DEF StreamEnds, Read
<1>2. SUFFICES ASSUME OneChoice
      PROVE  /\ \A i \in DOMAIN payloads' :
                  /\ payloads'[i].id = response[i].id
                  /\ payloads'[i].arguments \in {payloads'[i].id, NoObject}
             /\ (\A i \in DOMAIN response : Complete(i)) => payloads' = Extract(response)
  <2>1. OneChoice' <=> OneChoice
    BY <1>1 DEF OneChoice
  <2>2. Extract(response)' = Extract(response)
    BY <1>1 DEF Extract, InText, ParsedArguments, GivenArguments, Fragments, ObjectOf, Meaning
  <2>3. \A i : Complete(i)' <=> Complete(i)
    BY <1>1 DEF Complete, ChunkCount, Fragments, ObjectOf
  <2>4. QED
    BY <1>1, <2>1, <2>2, <2>3 DEF StreamIsResponse, OneChoice
<1> DEFINE n == Len(slots)
<1>3. /\ n <= Len(response) /\ DOMAIN payloads' = 1 .. n
      /\ \A i \in 1 .. n :
           payloads'[i] = Payload(response[i].id, response[i].name,
                                  Meaning(Received(response[i], arrived[i])))
  BY <1>1, <1>2, ReadFromSlots
<1>4. /\ n \in Nat /\ Len(response) \in Nat /\ DOMAIN response = 1 .. Len(response)
      /\ \A i \in 1 .. Len(response) : response[i] \in CallSet
  BY SequenceFacts DEF TypeOK
<1>5. /\ DOMAIN arrived = 1 .. Len(response)
      /\ \A i \in 1 .. Len(response) : arrived[i] \in Nat
  <2>1. Len(arrived) = Len(response)
    BY <1>1 DEF SlotsFollow
  <2>2. QED
    BY <2>1, SequenceFacts DEF TypeOK
<1> HIDE DEF n
<1>6. \A i \in 1 .. n : i \in 1 .. Len(response)
  BY <1>3, <1>4
<1>7. ASSUME NEW i \in 1 .. n
      PROVE  /\ payloads'[i].id = response[i].id
             /\ payloads'[i].arguments \in {payloads'[i].id, NoObject}
  <2>1. response[i] \in CallSet /\ arrived[i] \in Nat
    BY <1>4, <1>5, <1>6
  <2>2. Meaning(Received(response[i], arrived[i])) \in {response[i].id, NoObject}
    BY <2>1, ReceivedMeans
  <2>3. QED
    BY <1>3, <2>2 DEF Payload
<1>8. ASSUME \A i \in DOMAIN response : Complete(i)
      PROVE  payloads' = Extract(response)
  <2>1. \A i \in 1 .. Len(response) : arrived[i] = ChunkCount(response[i])
    BY <1>4, <1>8 DEF Complete
  <2>2. ASSUME NEW i \in 1 .. Len(response)
        PROVE  /\ arrived[i] > 0 /\ arrived[i] >= 1 + Len(Fragments(response[i]))
    <3>1. /\ ChunkCount(response[i]) \in Nat
          /\ ChunkCount(response[i]) >= 1 + Len(Fragments(response[i]))
          /\ Len(Fragments(response[i])) \in Nat
      BY <1>4, ChunkCountType, FragmentsType
    <3>2. QED
      BY <2>1, <3>1
  <2>3. n = Len(response)
    <3>1. \A i \in 1 .. Len(response) : i <= n
      BY <1>1, <1>2, <1>4, <2>2 DEF SlotsFollow, n
    <3>2. CASE Len(response) = 0
      BY <1>3, <1>4, <3>2
    <3>3. CASE Len(response) # 0
      <4>1. Len(response) \in 1 .. Len(response)
        BY <1>4, <3>3
      <4>2. Len(response) <= n /\ n <= Len(response)
        BY <1>3, <3>1, <4>1
      <4>3. n \in Nat /\ Len(response) \in Nat
        BY <1>4
      <4>4. \A x, y \in Nat : x <= y /\ y <= x => x = y
        OBVIOUS
      <4>5. QED
        BY <4>2, <4>3, <4>4
    <3>4. QED
      BY <3>2, <3>3
  <2>4. ASSUME NEW i \in 1 .. Len(response)
        PROVE  payloads'[i]
                 = Payload(response[i].id, response[i].name,
                           IF dialect \in InText THEN ParsedArguments(response[i])
                           ELSE GivenArguments(response[i]))
    <3>1. /\ Meaning(Received(response[i], arrived[i])) = ParsedArguments(response[i])
          /\ Meaning(Received(response[i], arrived[i])) = GivenArguments(response[i])
      BY <1>4, <1>5, <2>2, ReceivedMeans
    <3>2. QED
      BY <1>3, <2>3, <3>1
  <2>5. payloads' = [i \in 1 .. Len(response) |-> payloads'[i]]
    <3>1. Accumulated(slots) \in Seq(PayloadSet)
      BY AccumulatedIs DEF TypeOK
    <3>2. QED
      BY <1>1, <1>3, <2>3, <3>1
  <2>6. QED
    BY <1>4, <2>4, <2>5 DEF Extract
<1>9. QED
  BY <1>3, <1>7, <1>8

(* A stream begins with no slot, and none is due.                          *)
LEMMA StreamsFollow ==
  ASSUME TypeOK, Fresh, ModelStreams
  PROVE  SlotsFollow'
<1>1. turns + 1 \in Nat
  BY DEF TypeOK
<1>2. PICK r \in Responses(turns + 1) : response' = r /\ arrived' = [i \in DOMAIN r |-> 0]
  BY DEF ModelStreams
<1>3. /\ r \in Seq(CallSet)
      /\ (\A i \in DOMAIN r : r[i].choice = 0) => \A i \in DOMAIN r : r[i].index = i - 1
  BY <1>1, ResponsesType
<1>4. slots' = <<>>
  BY DEF ModelStreams, Fresh
<1>5. Len(r) \in Nat /\ DOMAIN r = 1 .. Len(r) /\ \A i \in 1 .. Len(r) : r[i] \in CallSet
  BY <1>3, SequenceFacts
<1>6. Len(arrived') = Len(r) /\ \A i \in 1 .. Len(r) : arrived'[i] = 0
  BY <1>2, <1>5
<1>7. \A c \in CallSet : ChunkCount(c)' \in Nat
  <2>1. TAKE c \in CallSet
  <2>2. Len(Fragments(c)) \in Nat
    BY FragmentsType
  <2>3. ChunkCount(c)' = 1 + Len(Fragments(c)) + (IF dialect' = "openai_responses" THEN 1 ELSE 0)
    BY DEF ChunkCount, Fragments, ObjectOf
  <2>4. QED
    BY <2>2, <2>3
<1>8. \A i \in 1 .. Len(r) : arrived'[i] <= ChunkCount(r[i])'
  BY <1>5, <1>6, <1>7
<1>9. \A i \in 1 .. Len(r) : ~ (arrived'[i] > 0) /\ ~ (i <= Len(slots'))
  BY <1>4, <1>6
<1>10. Len(slots') <= Len(r) /\ DOMAIN slots' = {}
  BY <1>4, <1>5
<1>11. QED
  BY <1>2, <1>3, <1>5, <1>6, <1>8, <1>9, <1>10 DEF SlotsFollow, OneChoice

(* Steps that leave the stream alone, and steps after which none runs.     *)
LEMMA FollowsKept ==
  ASSUME SlotsFollow, UNCHANGED <<dialect, phase, response, arrived, slots>>
  PROVE  SlotsFollow'
<1>1. \A j : Received(response[j], arrived[j])' = Received(response[j], arrived[j])
  BY DEF Received, Fragments, ObjectOf
<1>2. \A j : ChunkCount(response[j])' = ChunkCount(response[j])
  BY DEF ChunkCount, Fragments, ObjectOf
<1>3. OneChoice' <=> OneChoice
  BY DEF OneChoice
<1>4. QED
  BY <1>1, <1>2, <1>3 DEF SlotsFollow

(* A stream that is over constrains nothing.                               *)
LEMMA FollowsDone ==
  ASSUME SlotsFollow, UNCHANGED response, phase' # "receiving"
  PROVE  SlotsFollow'
BY DEF SlotsFollow, OneChoice

(* Steps that leave the answer alone keep what was read.                   *)
LEMMA MeansKept ==
  ASSUME StreamIsResponse, UNCHANGED <<dialect, phase, response, arrived, payloads>>
  PROVE  StreamIsResponse'
<1>1. Extract(response)' = Extract(response)
  BY DEF Extract, InText, ParsedArguments, GivenArguments, Fragments, ObjectOf, Meaning
<1>2. \A i : Complete(i)' <=> Complete(i)
  BY DEF Complete, ChunkCount, Fragments, ObjectOf
<1>3. Readable(response)' <=> Readable(response)
  BY DEF Readable, InText
<1>4. QED
  BY <1>1, <1>2, <1>3 DEF StreamIsResponse

(* Where no stream was read, nothing is claimed.                           *)
LEMMA MeansNothing ==
  ASSUME phase' # "running" \/ arrived' = <<>>
  PROVE  StreamIsResponse'
BY DEF StreamIsResponse

(* At first nothing streams.                                               *)
LEMMA StreamInitially == Init => StreamInv
<1> SUFFICES ASSUME Init PROVE StreamInv
  OBVIOUS
<1>1. TypeOK /\ Fresh
  BY InitTyped
<1>2. SlotsFollow /\ StreamIsResponse
  BY DEF Init, SlotsFollow, StreamIsResponse
<1>3. QED
  BY <1>1, <1>2 DEF StreamInv

(* No step breaks the invariant of streams.                                *)
LEMMA StreamStep ==
  ASSUME StreamInv, [Next]_vars
  PROVE  StreamInv'
<1>1. TypeOK /\ Fresh /\ SlotsFollow /\ StreamIsResponse
  BY DEF StreamInv
<1>2. TypeOK' /\ Fresh'
  BY <1>1, NextTyped
<1>3. SlotsFollow' /\ StreamIsResponse'
  <2>1. CASE UNCHANGED vars
    BY <1>1, <2>1, FollowsKept, MeansKept DEF vars, turnVars
  <2>2. CASE UserSpeaks
    BY <1>1, <2>2, FollowsDone, MeansNothing DEF UserSpeaks, turnVars
  <2>3. CASE Refresh
    <3>1. response' = <<>> /\ phase' \in {"deriving", "asked"}
      BY <2>3 DEF Refresh
    <3>2. SlotsFollow'
      BY <3>1 DEF SlotsFollow
    <3>3. QED
      BY <3>1, <3>2, MeansNothing
  <2>4. CASE OtherRefreshes
    BY <1>1, <2>4, FollowsDone, MeansNothing DEF OtherRefreshes, turnVars
  <2>5. CASE Derived
    BY <1>1, <2>5, FollowsDone, MeansNothing DEF Derived, turnVars
  <2>6. CASE ModelAnswers
    <3>1. turns + 1 \in Nat
      BY <1>1 DEF TypeOK
    <3>2. PICK r \in Responses(turns + 1) :
             response' = r /\ Read(IF Readable(r) THEN Extract(r) ELSE <<>>)
      BY <2>6 DEF ModelAnswers
    <3>3. r \in Seq(CallSet)
          /\ ((\A i \in DOMAIN r : r[i].choice = 0) => \A i \in DOMAIN r : r[i].index = i - 1)
      BY <3>1, ResponsesType
    <3>4. phase' \in {"stopped", "running"}
      BY <3>2 DEF Read
    <3>5. arrived' = <<>>
      BY <1>1, <2>6 DEF ModelAnswers, Fresh
    <3>6. SlotsFollow'
      BY <3>2, <3>3, <3>4 DEF SlotsFollow, OneChoice
    <3>7. QED
      BY <3>5, <3>6, MeansNothing
  <2>7. CASE ModelStreams
    BY <1>1, <2>7, StreamsFollow, MeansNothing DEF ModelStreams
  <2>8. CASE StreamEnds
    <3>1. phase' \in {"stopped", "running"} /\ response' = response
      BY <2>8 DEF StreamEnds, Read
    <3>2. QED
      BY <1>1, <2>8, <3>1, FollowsDone, StreamEndsMeans
  <2>9. CASE ModelTalks
    BY <1>1, <2>9, FollowsDone, MeansNothing DEF ModelTalks, turnVars
  <2>10. CASE \E i \in DOMAIN response : Chunk(i)
    BY <1>1, <2>10, ChunkFollows, MeansNothing DEF Chunk
  <2>11. CASE \E i \in DOMAIN payloads : Finish(i)
    BY <1>1, <2>11, FollowsKept, MeansKept DEF Finish
  <2>12. CASE Answer
    BY <1>1, <2>12, FollowsDone, MeansNothing DEF Answer
  <2>13. CASE FrameworkRuns
    BY <1>1, <2>13, FollowsDone, MeansNothing DEF FrameworkRuns, turnVars
  <2>14. QED
    BY <2>1, <2>2, <2>3, <2>4, <2>5, <2>6, <2>7, <2>8, <2>9, <2>10, <2>11, <2>12, <2>13 DEF Next
<1>4. QED
  BY <1>2, <1>3 DEF StreamInv

(* The invariant of streams holds of every reachable state.                *)
LEMMA StreamAlways == Spec => []StreamInv
BY StreamInitially, StreamStep, PTL DEF Spec

(* The accumulator makes of a stream what a whole response would have been:*)
(* in whatever order the fragments of calls came, each call keeps its place*)
(* and id, its arguments are its own or none, and of a complete stream the *)
(* calls are those that from_provider_payload reads.                       *)
THEOREM StreamsMeanResponses == Spec => []StreamIsResponse
<1>1. StreamInv => StreamIsResponse
  BY DEF StreamInv
<1>2. QED
  BY <1>1, StreamAlways, PTL

-----------------------------------------------------------------------------
(* What is heard                                                           *)

Speakers == {"user", "tool", "model"}

(* A text is heard by who says it and by its last token; an empty one is   *)
(* not.                                                                    *)
Silent == <<>>
Voice(who, text) == IF text = <<>> THEN Silent ELSE <<who, Last(text)>>
VoiceSet == {Silent} \cup ((Speakers \cup {"nobody"}) \X Token)

(* A voice of one of W; the newest such voice of a sequence, or silence;   *)
(* two sequences with the same newest voice.                               *)
Of(x, W) == x # Silent /\ x[1] \in W
Ends(v, W, x) ==
  \/ x = Silent /\ \A i \in DOMAIN v : ~ Of(v[i], W)
  \/ \E i \in DOMAIN v : /\ x = v[i] /\ Of(x, W)
                         /\ \A j \in DOMAIN v : j > i => ~ Of(v[j], W)
Same(v, W, w, Z) == \E x : Ends(v, W, x) /\ Ends(w, Z, x)

(* There is a greatest number that has a property, if one has it.          *)
LEMMA GreatestNatural ==
  ASSUME NEW n \in Nat, NEW I \in SUBSET (1 .. n), I # {}
  PROVE  \E i \in I : \A j \in I : j <= i
<1> DEFINE T == {n - i : i \in I}
<1>1. T \in SUBSET Nat /\ T # {}
  <2>1. \A i \in I : n - i \in Nat
    OBVIOUS
  <2>2. T \in SUBSET Nat
    BY <2>1
  <2>3. PICK i \in I : TRUE
    OBVIOUS
  <2>4. n - i \in T
    OBVIOUS
  <2>5. QED
    BY <2>2, <2>4
<1> HIDE DEF T
<1>2. PICK t \in T : \A m \in T : t <= m
  BY <1>1, LeastNatural
<1>3. PICK i \in I : t = n - i
  BY DEF T
<1>4. ASSUME NEW j \in I PROVE j <= i
  <2>1. n - j \in T
    BY DEF T
  <2>2. n - i <= n - j /\ i \in 1 .. n /\ j \in 1 .. n
    BY <1>2, <1>3, <2>1
  <2>3. QED
    BY <2>2
<1>5. QED
  BY <1>4

(* Every sequence ends in a voice.                                         *)
LEMMA EndsExists ==
  ASSUME NEW S, NEW v \in Seq(S), NEW W
  PROVE  \E x : Ends(v, W, x)
<1> DEFINE I == {i \in 1 .. Len(v) : Of(v[i], W)}
<1>1. Len(v) \in Nat /\ DOMAIN v = 1 .. Len(v)
  BY SequenceFacts
<1>2. CASE I = {}
  <2>1. Ends(v, W, Silent)
    BY <1>1, <1>2 DEF Ends
  <2>2. QED
    BY <2>1
<1>3. CASE I # {}
  <2>1. I \in SUBSET (1 .. Len(v))
    OBVIOUS
  <2> HIDE DEF I
  <2>2. PICK i \in I : \A j \in I : j <= i
    BY <1>1, <1>3, <2>1, GreatestNatural
  <2>3. i \in DOMAIN v /\ Of(v[i], W)
    BY <1>1 DEF I
  <2>4. ASSUME NEW j \in DOMAIN v, j > i PROVE ~ Of(v[j], W)
    <3>1. j \notin I
      BY <1>1, <2>1, <2>2, <2>4
    <3>2. QED
      BY <1>1, <3>1 DEF I
  <2>5. Ends(v, W, v[i])
    BY <2>3, <2>4 DEF Ends
  <2>6. QED
    BY <2>5
<1>4. QED
  BY <1>2, <1>3

(* And in one only.                                                        *)
LEMMA EndsUnique ==
  ASSUME NEW S, NEW v \in Seq(S), NEW W, NEW x, NEW y, Ends(v, W, x), Ends(v, W, y)
  PROVE  x = y
<1>1. DOMAIN v \in SUBSET Nat
  BY SequenceFacts
<1>2. CASE x = Silent
  BY <1>2 DEF Ends, Of
<1>3. CASE y = Silent
  BY <1>3 DEF Ends, Of
<1>4. CASE x # Silent /\ y # Silent
  <2>1. PICK i \in DOMAIN v : /\ x = v[i] /\ Of(x, W)
                              /\ \A j \in DOMAIN v : j > i => ~ Of(v[j], W)
    BY <1>4 DEF Ends
  <2>2. PICK k \in DOMAIN v : /\ y = v[k] /\ Of(y, W)
                              /\ \A j \in DOMAIN v : j > k => ~ Of(v[j], W)
    BY <1>4 DEF Ends
  <2>3. ~ (i > k) /\ ~ (k > i)
    BY <2>1, <2>2
  <2>4. i = k
    BY <1>1, <2>3
  <2>5. QED
    BY <2>1, <2>2, <2>4
<1>5. QED
  BY <1>2, <1>3, <1>4

(* What follows is newer; what follows in silence is not heard.            *)
LEMMA EndsConcat ==
  ASSUME NEW S, NEW v \in Seq(S), NEW w \in Seq(S), NEW W, NEW x, NEW y,
         Ends(v, W, x), Ends(w, W, y)
  PROVE  Ends(v \o w, W, IF y = Silent THEN x ELSE y)
<1> DEFINE n == Len(v)
           u == v \o w
<1>1. /\ n \in Nat /\ Len(w) \in Nat /\ DOMAIN v = 1 .. n /\ DOMAIN w = 1 .. Len(w)
      /\ DOMAIN u = 1 .. n + Len(w)
      /\ \A i \in 1 .. n : u[i] = v[i]
      /\ \A i \in 1 .. Len(w) : u[n + i] = w[i]
  OBVIOUS
<1> HIDE DEF n, u
<1>2. \A i \in DOMAIN u : i \in 1 .. n \/ (i - n \in 1 .. Len(w) /\ i = n + (i - n))
  BY <1>1
<1>3. CASE y = Silent
  <2>1. \A i \in DOMAIN w : ~ Of(w[i], W)
    BY <1>3 DEF Ends, Of
  <2>2. \A i \in DOMAIN u : i \in 1 .. n \/ ~ Of(u[i], W)
    BY <1>1, <1>2, <2>1
  <2>3. CASE x = Silent
    <3>1. \A i \in 1 .. n : ~ Of(v[i], W)
      BY <1>1, <2>3 DEF Ends, Of
    <3>2. \A i \in DOMAIN u : ~ Of(u[i], W)
      BY <1>1, <2>2, <3>1
    <3>3. QED
      BY <1>3, <2>3, <3>2 DEF Ends, u
  <2>4. CASE x # Silent
    <3>1. PICK i \in 1 .. n : /\ x = v[i] /\ Of(x, W)
                              /\ \A j \in 1 .. n : j > i => ~ Of(v[j], W)
      BY <1>1, <2>4 DEF Ends
    <3>2. i \in DOMAIN u /\ x = u[i]
      BY <1>1, <3>1
    <3>3. \A j \in DOMAIN u : j > i => ~ Of(u[j], W)
      BY <1>1, <2>2, <3>1
    <3>4. Ends(u, W, x)
      BY <3>1, <3>2, <3>3 DEF Ends
    <3>5. QED
      BY <1>3, <3>4 DEF u
  <2>5. QED
    BY <2>3, <2>4
<1>4. CASE y # Silent
  <2>1. PICK i \in 1 .. Len(w) : /\ y = w[i] /\ Of(y, W)
                                 /\ \A j \in 1 .. Len(w) : j > i => ~ Of(w[j], W)
    BY <1>1, <1>4 DEF Ends
  <2>2. n + i \in DOMAIN u /\ u[n + i] = y
    BY <1>1, <2>1
  <2>3. ASSUME NEW j \in DOMAIN u, j > n + i PROVE ~ Of(u[j], W)
    <3>1. j - n \in 1 .. Len(w) /\ j = n + (j - n) /\ j - n > i
      BY <1>1, <1>2, <2>1, <2>3
    <3>2. u[j] = w[j - n]
      BY <1>1, <3>1
    <3>3. QED
      BY <2>1, <3>1, <3>2
  <2>4. Ends(u, W, y)
    BY <2>1, <2>2, <2>3 DEF Ends
  <2>5. QED
    BY <1>4, <2>4 DEF u
<1>5. QED
  BY <1>3, <1>4

(* Sequences that end alike do so when what ends alike is added to both.   *)
LEMMA SameConcat ==
  ASSUME NEW S, NEW s \in Seq(S), NEW t \in Seq(S), NEW v \in Seq(S), NEW w \in Seq(S),
         NEW W, NEW Z, Same(s, W, v, Z), Same(t, W, w, Z)
  PROVE  Same(s \o t, W, v \o w, Z)
<1>1. PICK x : Ends(s, W, x) /\ Ends(v, Z, x)
  BY DEF Same
<1>2. PICK y : Ends(t, W, y) /\ Ends(w, Z, y)
  BY DEF Same
<1>3. Ends(s \o t, W, IF y = Silent THEN x ELSE y)
  BY <1>1, <1>2, EndsConcat
<1>4. Ends(v \o w, Z, IF y = Silent THEN x ELSE y)
  BY <1>1, <1>2, EndsConcat
<1>5. QED
  BY <1>3, <1>4 DEF Same

(* Where one sequence is the other, and W is Z as far as its voices go,    *)
(* they end alike.                                                         *)
LEMMA SameAlike ==
  ASSUME NEW S, NEW v \in Seq(S), NEW W, NEW Z,
         \A i \in DOMAIN v : Of(v[i], W) <=> Of(v[i], Z)
  PROVE  Same(v, W, v, Z)
<1>1. PICK x : Ends(v, W, x)
  BY EndsExists
<1>2. Ends(v, Z, x)
  <2>1. CASE x = Silent
    <3>1. \A i \in DOMAIN v : ~ Of(v[i], W)
      BY <1>1, <2>1 DEF Ends, Of
    <3>2. QED
      BY <2>1, <3>1 DEF Ends
  <2>2. CASE x # Silent
    <3>1. PICK i \in DOMAIN v : /\ x = v[i] /\ Of(x, W)
                                /\ \A j \in DOMAIN v : j > i => ~ Of(v[j], W)
      BY <1>1, <2>2 DEF Ends
    <3>2. Of(x, Z) /\ \A j \in DOMAIN v : j > i => ~ Of(v[j], Z)
      BY <3>1
    <3>3. QED
      BY <3>1, <3>2 DEF Ends
  <2>3. QED
    BY <2>1, <2>2
<1>3. QED
  BY <1>1, <1>2 DEF Same

(* Sequences without a voice that is meant end alike, in silence.          *)
LEMMA SameSilent ==
  ASSUME NEW v, NEW w, NEW W, NEW Z,
         \A i \in DOMAIN v : ~ Of(v[i], W), \A i \in DOMAIN w : ~ Of(w[i], Z)
  PROVE  Same(v, W, w, Z)
<1>1. Ends(v, W, Silent) /\ Ends(w, Z, Silent)
  BY DEF Ends
<1>2. QED
  BY <1>1 DEF Same

-----------------------------------------------------------------------------
(* The newest element of a sequence, and the last token of a text          *)

(* SelectLastInSeq: the position of the last element that passes, given    *)
(* which those are.                                                        *)
LEMMA LastPosition ==
  ASSUME NEW n \in Nat, NEW I \in SUBSET (1 .. n)
  PROVE  LET i == IF I # {} THEN Max(I) ELSE 0
         IN  \/ i = 0 /\ I = {}
             \/ i \in I /\ i \in 1 .. n /\ \A j \in I : j <= i
<1>1. CASE I = {}
  BY <1>1
<1>2. CASE I # {}
  <2>1. PICK i \in I : \A j \in I : j <= i
    BY <1>2, GreatestNatural
  <2>2. \E x \in I : \A y \in I : x >= y
    BY <2>1
  <2>3. Max(I) \in I /\ \A y \in I : Max(I) >= y
    BY <2>2 DEF Max
  <2>4. \A j \in I : j <= Max(I)
    BY <2>3
  <2>5. QED
    BY <1>2, <2>3, <2>4
<1>3. QED
  BY <1>1, <1>2

(* What is added to a text ends it.                                        *)
LEMMA LastOfConcat ==
  ASSUME NEW S, NEW a \in Seq(S), NEW b \in Seq(S), b # <<>>
  PROVE  a \o b # <<>> /\ Last(a \o b) = Last(b)
<1>1. Len(b) \in Nat /\ Len(b) # 0 /\ Len(a) \in Nat
  OBVIOUS
<1>2. Len(a \o b) = Len(a) + Len(b) /\ Len(b) \in 1 .. Len(b)
  BY <1>1
<1>3. (a \o b)[Len(a) + Len(b)] = b[Len(b)]
  BY <1>1, <1>2
<1>4. a \o b # <<>>
  BY <1>1, <1>2
<1>5. QED
  BY <1>2, <1>3, <1>4 DEF Last

(* The first of a sequence of texts that are not empty after it ends what  *)
(* they flatten to; empty ones flatten to nothing.                         *)
LEMMA FlattenEnds ==
  ASSUME NEW S, NEW ss \in Seq(Seq(S))
  PROVE  /\ (\A i \in DOMAIN ss : ss[i] = <<>>) => FlattenSeq(ss) = <<>>
         /\ \A i \in DOMAIN ss :
              ss[i] # <<>> /\ (\A j \in DOMAIN ss : j > i => ss[j] = <<>>)
                => FlattenSeq(ss) # <<>> /\ Last(FlattenSeq(ss)) = Last(ss[i])
<1> DEFINE n == Len(ss)
<1>1. n \in Nat /\ DOMAIN ss = 1 .. n /\ \A i \in 1 .. n : ss[i] \in Seq(S)
  BY SequenceFacts
<1>2. PICK K \in [0 .. n -> Seq(S)] :
        /\ K[0] = <<>>
        /\ \A k \in 1 .. n : K[k] = K[k - 1] \o ss[k]
        /\ FlattenSeq(ss) = K[n]
  BY FlattenSteps
<1> HIDE DEF n
<1>3. ASSUME \A i \in 1 .. n : ss[i] = <<>> PROVE K[n] = <<>>
  <2> DEFINE T == {k \in 0 .. n : K[k] = <<>>}
  <2>1. 0 \in T
    BY <1>1, <1>2
  <2>2. ASSUME NEW k \in 0 .. n, k # 0, k - 1 \in T PROVE k \in T
    <3>1. k \in 1 .. n /\ K[k - 1] = <<>>
      BY <1>1, <2>2
    <3>2. K[k] = <<>> \o <<>>
      BY <1>2, <1>3, <3>1
    <3>3. K[k] = <<>>
      BY <3>2
    <3>4. QED
      BY <3>3
  <2>3. n \in 0 .. n
    BY <1>1
  <2>4. n \in T
    <3> HIDE DEF T
    <3>1. QED
      BY <1>1, <2>1, <2>2, <2>3, UpTo
  <2>5. QED
    BY <2>4
<1>4. ASSUME NEW i \in 1 .. n, ss[i] # <<>>, \A j \in 1 .. n : j > i => ss[j] = <<>>
      PROVE  K[n] # <<>> /\ Last(K[n]) = Last(ss[i])
  <2> DEFINE T == {k \in 0 .. n : k >= i => K[k] # <<>> /\ Last(K[k]) = Last(ss[i])}
  <2>1. 0 \in T
    BY <1>1
  <2>2. ASSUME NEW k \in 0 .. n, k # 0, k - 1 \in T PROVE k \in T
    <3>1. k \in 1 .. n /\ k - 1 \in 0 .. n /\ K[k - 1] \in Seq(S) /\ ss[k] \in Seq(S)
      BY <1>1, <1>2, <2>2
    <3>2. K[k] = K[k - 1] \o ss[k]
      BY <1>2, <3>1
    <3>3. CASE k = i
      <4>1. ss[k] # <<>>
        BY <1>4, <3>3
      <4>2. K[k] # <<>> /\ Last(K[k]) = Last(ss[k])
        BY <3>1, <3>2, <4>1, LastOfConcat
      <4>3. QED
        BY <3>3, <4>2
    <3>4. CASE k > i
      <4>1. ss[k] = <<>>
        BY <1>4, <3>1, <3>4
      <4>2. K[k] = K[k - 1]
        BY <3>1, <3>2, <4>1
      <4>3. k - 1 >= i
        BY <3>1, <3>4
      <4>4. K[k - 1] # <<>> /\ Last(K[k - 1]) = Last(ss[i])
        BY <2>2, <4>3
      <4>5. QED
        BY <4>2, <4>4
    <3>5. CASE ~ (k >= i)
      BY <3>5
    <3>6. QED
      BY <3>1, <3>3, <3>4, <3>5
  <2>3. n \in 0 .. n /\ n >= i
    BY <1>1
  <2>4. n \in T
    <3> HIDE DEF T
    <3>1. QED
      BY <1>1, <2>1, <2>2, <2>3, UpTo
  <2>5. QED
    BY <2>3, <2>4
<1>5. QED
  BY <1>1, <1>2, <1>3, <1>4

-----------------------------------------------------------------------------
(* What the messages tell of what was said                                 *)

Class(role) ==
  CASE role \in {"user", ""} -> "user"
    [] role = "assistant" -> "model"
    [] role = "tool" -> "tool"
    [] OTHER -> "nobody"

(* The voice a message has for the generic generators, for the live        *)
(* providers that look for a user's message, and, part by part, for the    *)
(* one that looks for parts.                                               *)
Heeded(m) == Voice(Class(MsgRole(m)), MsgText(m))
WordOf(m) == IF m.content # <<>> THEN m.content ELSE TextOfBlocks(m.blocks, {"text"})
LiveVoice(m) ==
  CASE dialect \in {"openai", "anthropic"} /\ m.role = "user" -> Voice("user", WordOf(m))
    [] dialect = "strands" /\ m.role = "user" -> Voice("user", Texts(m.blocks, {"text"}))
    [] dialect = "google_adk" /\ m.type = "by user" -> Voice("user", Texts(m.parts, {"part"}))
    [] OTHER -> Silent
PartVoice(b) ==
  CASE b.type = "user-prompt" -> Voice("user", b.text)
    [] b.type = "tool-return" -> Voice("tool", b.text)
    [] OTHER -> Silent

SpeechVoices(ss) == [i \in DOMAIN ss |-> Voice(ss[i].who, ss[i].text)]
Heedings(ms) == [k \in DOMAIN ms |-> Heeded(ms[k])]
LiveVoices(ms) == [k \in DOMAIN ms |-> LiveVoice(ms[k])]
PartVoices(bs) == [k \in DOMAIN bs |-> PartVoice(bs[k])]
PartsOf(ms) == FlattenSeq([k \in DOMAIN ms |-> ms[k].parts])

(* The dialects the generic generators hear, those whose live provider     *)
(* looks for a user's message, and whom the messages make heard.           *)
Generic ==
  {"openai", "openai_responses", "anthropic", "langchain", "strands", "agent_framework"}
Prompting == {"openai", "anthropic", "strands", "google_adk"}
Hearable == IF dialect = "strands" THEN {"user", "model"} ELSE Speakers

(* For every choice of speakers the newest of them in the messages is the  *)
(* newest of what was said; where texts beside results make a message the  *)
(* user's, the choices with the user.  Who said nothing has no message.    *)
Unmixed(ms) == \A k \in DOMAIN ms : ~ Mixed(ms[k])
Follows(ss, ms) ==
  \A W \in SUBSET Speakers :
    /\ "user" \in W \/ Unmixed(ms) =>
         Same(SpeechVoices(ss), W \cap Hearable, Heedings(ms), W)
    /\ Ends(SpeechVoices(ss), W \cap Hearable, Silent) => Ends(Heedings(ms), W, Silent)
LiveFollows(ss, ms) ==
  (\A k \in DOMAIN ms : ~ Behind(ms[k])) =>
    Same(SpeechVoices(ss), {"user"}, LiveVoices(ms), {"user"})
PartsFollow(ss, ms) ==
  Same(SpeechVoices(ss), {"user", "tool"}, PartVoices(PartsOf(ms)), {"user", "tool"})
Understood(ss, ms) ==
  /\ dialect \in Generic => Follows(ss, ms)
  /\ dialect \in Prompting => LiveFollows(ss, ms)
  /\ dialect = "pydantic_ai" => PartsFollow(ss, ms)

(* A message without a voice says nothing, or results nobody listens to.   *)
Shown(m) ==
  \A text \in Text : text # <<>> /\ Says(m, text) =>
    /\ dialect \in Generic /\ Heeded(m) = Silent =>
         dialect = "strands" /\ Last(text)[1] = "result"
    /\ dialect \in Prompting /\ LiveVoice(m) = Silent => Last(text)[1] # "user"

(* What a speech looks like, by who speaks.                                *)
SpeechForm(s) ==
  /\ s.who = "user" => \E n \in Nat : s.text = <<<<"please", 0>>, <<"user", n>>>>
  /\ s.who = "model" => \E n \in Nat : s.text = <<<<"model", n>>>>
  /\ s.who = "tool" => s.text = <<>> \/ \E id \in SomeId : s.text = <<<<"result", id>>>>
SpeechesFormed == \A i \in DOMAIN said : SpeechForm(said[i])
MessagesShow == \A k \in DOMAIN messages : Shown(messages[k])

(* The generic generators hear no message that is Gemini's model's, and a  *)
(* message with a result in its blocks is a user's and has nothing else.   *)
Boxes(m) ==
  /\ dialect \in Generic => m.role # "model"
  /\ (\E i \in DOMAIN m.blocks : m.blocks[i].type = "tool_result")
       => m.role = "user" /\ m.content = <<>> /\ m.output = <<>> /\ m.parts = <<>>
Boxed(ms) == \A k \in DOMAIN ms : Boxes(ms[k])

(* A selection was asked with the query the messages give.                 *)
AskedNow == phase = "asked" => asked.query = BuildQuery(messages)

QueryInv ==
  /\ TypeOK /\ Fresh /\ SpeechesFormed /\ MessagesShow /\ Boxed(messages)
  /\ Understood(said, messages) /\ AskedNow

-----------------------------------------------------------------------------
(* Types of what is heard                                                  *)

(* The voice of a text is a voice.                                         *)
LEMMA VoiceType ==
  ASSUME NEW who \in Speakers \cup {"nobody"}, NEW text \in Text
  PROVE  Voice(who, text) \in VoiceSet
<1>1. CASE text = <<>>
  BY <1>1 DEF Voice, VoiceSet
<1>2. CASE text # <<>>
  <2>1. Len(text) \in 1 .. Len(text)
    BY <1>2 DEF Text
  <2>2. Last(text) \in Token
    BY <2>1 DEF Last, Text
  <2>3. QED
    BY <1>2, <2>2 DEF Voice, VoiceSet
<1>3. QED
  BY <1>1, <1>2

(* Silence is a voice too.                                                 *)
LEMMA SilentType == Silent \in VoiceSet
BY DEF VoiceSet

(* The texts of some blocks, one by one.                                   *)
TextsEach(blocks, types) ==
  [i \in DOMAIN blocks |-> IF blocks[i].type \in types THEN blocks[i].text ELSE <<>>]

(* The texts of the blocks of some types are texts, and joined they are    *)
(* what Texts reads.                                                       *)
LEMMA TextsEachType ==
  ASSUME NEW blocks \in Seq(BlockSet), NEW types
  PROVE  /\ TextsEach(blocks, types) \in Seq(Text)
         /\ DOMAIN TextsEach(blocks, types) = DOMAIN blocks
         /\ Texts(blocks, types) = FlattenSeq(TextsEach(blocks, types))
<1>1. /\ Len(blocks) \in Nat /\ DOMAIN blocks = 1 .. Len(blocks)
      /\ \A i \in 1 .. Len(blocks) : blocks[i] \in BlockSet
  BY SequenceFacts
<1>2. \A i \in 1 .. Len(blocks) : blocks[i].text \in Text
  BY <1>1 DEF BlockSet
<1>3. TextsEach(blocks, types) \in [1 .. Len(blocks) -> Text]
  BY <1>1, <1>2, EmptySequences DEF TextsEach
<1>4. TextsEach(blocks, types) \in Seq(Text)
  BY <1>1, <1>3, FunctionIsSequence
<1>5. Texts(blocks, types) = FlattenSeq(TextsEach(blocks, types))
  BY DEF Texts, TextsEach
<1>6. QED
  BY <1>1, <1>3, <1>4, <1>5

(* Joined texts are a text.                                                *)
LEMMA JoinedType ==
  ASSUME NEW blocks \in Seq(BlockSet), NEW types
  PROVE  Texts(blocks, types) \in Text
<1>1. /\ TextsEach(blocks, types) \in Seq(Seq(Token))
      /\ Texts(blocks, types) = FlattenSeq(TextsEach(blocks, types))
  BY TextsEachType DEF Text
<1>2. FlattenSeq(TextsEach(blocks, types)) \in Seq(Token)
  BY <1>1, FlattenType
<1>3. QED
  BY <1>1, <1>2 DEF Text

(* What a message's text is, and its role.                                 *)
LEMMA MessageHeard ==
  ASSUME NEW m \in MessageSet
  PROVE  /\ MsgText(m) \in Text /\ Class(MsgRole(m)) \in Speakers \cup {"nobody"}
         /\ Heeded(m) \in VoiceSet
<1>1. /\ m.role \in Roles /\ m.type \in MessageTypes /\ m.content \in Text /\ m.output \in Text
      /\ m.blocks \in Seq(BlockSet) /\ m.parts \in Seq(BlockSet)
  BY DEF MessageSet
<1>2. BlocksText(m) \in Text /\ Texts(m.parts, {"text", "function_result"}) \in Text
  BY <1>1, JoinedType DEF BlocksText
<1>3. BlocksText(m) \o Texts(m.parts, {"text", "function_result"}) \in Text
  BY <1>2 DEF Text
<1>4. MsgText(m) \in Text
  BY <1>1, <1>3 DEF MsgText
<1>5. Class(MsgRole(m)) \in Speakers \cup {"nobody"}
  BY DEF Class, Speakers
<1>6. QED
  BY <1>4, <1>5, VoiceType DEF Heeded

(* SelectInSeq: the position of the first element that passes, given which *)
(* those are.                                                              *)
LEMMA FirstPosition ==
  ASSUME NEW n \in Nat, NEW I \in SUBSET (1 .. n)
  PROVE  LET i == IF I # {} THEN Min(I) ELSE 0
         IN  \/ i = 0 /\ I = {}
             \/ i \in I /\ i \in 1 .. n /\ \A j \in I : i <= j
<1>1. CASE I = {}
  BY <1>1
<1>2. CASE I # {}
  <2>1. I \in SUBSET Nat
    OBVIOUS
  <2>2. \E i \in I : \A j \in I : i <= j
    BY <1>2, <2>1, LeastNatural
  <2>3. Min(I) \in I /\ \A j \in I : Min(I) <= j
    BY <2>2 DEF Min
  <2>4. QED
    BY <1>2, <2>3
<1>3. QED
  BY <1>1, <1>2

(* The text of the first block of some types that has one, if any does.    *)
LEMMA TextOfBlocksIs ==
  ASSUME NEW bs \in Seq(BlockSet), NEW types
  PROVE  \/ /\ TextOfBlocks(bs, types) = <<>>
            /\ \A j \in DOMAIN bs : bs[j].type \in types => bs[j].text = <<>>
         \/ \E i \in DOMAIN bs :
              /\ bs[i].type \in types /\ bs[i].text # <<>>
              /\ TextOfBlocks(bs, types) = bs[i].text
              /\ \A j \in DOMAIN bs : j < i => ~ (bs[j].type \in types /\ bs[j].text # <<>>)
<1> DEFINE I == {i \in 1 .. Len(bs) : bs[i].type \in types /\ bs[i].text # <<>>}
           p == IF I # {} THEN Min(I) ELSE 0
<1>1. Len(bs) \in Nat /\ DOMAIN bs = 1 .. Len(bs) /\ I \in SUBSET (1 .. Len(bs))
  BY SequenceFacts
<1>2. TextOfBlocks(bs, types) = IF p = 0 THEN <<>> ELSE bs[p].text
  BY DEF TextOfBlocks, SelectInSeq
<1>3. \A i \in 1 .. Len(bs) : i \in I <=> bs[i].type \in types /\ bs[i].text # <<>>
  OBVIOUS
<1>4. \/ p = 0 /\ I = {}
      \/ p \in I /\ p \in 1 .. Len(bs) /\ \A j \in I : p <= j
  <2> HIDE DEF I
  <2>1. QED
    BY <1>1, FirstPosition
<1> HIDE DEF I, p
<1>5. CASE p = 0 /\ I = {}
  BY <1>1, <1>2, <1>3, <1>5
<1>6. CASE p \in I /\ p \in 1 .. Len(bs) /\ \A j \in I : p <= j
  <2>1. p # 0 /\ bs[p].type \in types /\ bs[p].text # <<>> /\ p \in DOMAIN bs
    BY <1>1, <1>3, <1>6
  <2>2. TextOfBlocks(bs, types) = bs[p].text
    BY <1>2, <2>1
  <2>3. \A j \in DOMAIN bs : j < p => ~ (bs[j].type \in types /\ bs[j].text # <<>>)
    BY <1>1, <1>3, <1>6
  <2>4. QED
    BY <2>1, <2>2, <2>3
<1>7. QED
  BY <1>4, <1>5, <1>6

(* Which is a text.                                                        *)
LEMMA TextOfBlocksType ==
  ASSUME NEW bs \in Seq(BlockSet), NEW types
  PROVE  TextOfBlocks(bs, types) \in Text
<1>1. \A i \in DOMAIN bs : bs[i] \in BlockSet
  BY SequenceFacts
<1>2. \A i \in DOMAIN bs : bs[i].text \in Text
  BY <1>1 DEF BlockSet
<1>3. QED
  BY <1>2, TextOfBlocksIs, EmptySequences

(* The voices of messages and parts are voices.                            *)
LEMMA LiveVoiceType ==
  ASSUME NEW m \in MessageSet
  PROVE  LiveVoice(m) \in VoiceSet /\ WordOf(m) \in Text
<1>1. m.content \in Text /\ m.blocks \in Seq(BlockSet) /\ m.parts \in Seq(BlockSet)
  BY DEF MessageSet
<1>2. WordOf(m) \in Text
  BY <1>1, TextOfBlocksType DEF WordOf
<1>3. "user" \in Speakers \cup {"nobody"}
  BY DEF Speakers
<1>4. Voice("user", WordOf(m)) \in VoiceSet
  BY <1>2, <1>3, VoiceType
<1>5. Voice("user", Texts(m.blocks, {"text"})) \in VoiceSet
  BY <1>1, <1>3, VoiceType, JoinedType
<1>6. Voice("user", Texts(m.parts, {"part"})) \in VoiceSet
  BY <1>1, <1>3, VoiceType, JoinedType
<1>7. QED
  BY <1>2, <1>4, <1>5, <1>6, SilentType DEF LiveVoice

(* The voice of a part is a voice.                                         *)
LEMMA PartVoiceType ==
  ASSUME NEW b \in BlockSet
  PROVE  PartVoice(b) \in VoiceSet
<1>1. b.text \in Text
  BY DEF BlockSet
<1>2. Voice("user", b.text) \in VoiceSet /\ Voice("tool", b.text) \in VoiceSet
  BY <1>1, VoiceType DEF Speakers
<1>3. QED
  BY <1>2, SilentType DEF PartVoice

(* A sequence that has a voice for each element of another.                *)
LEMMA VoicesOfEach ==
  ASSUME NEW S, NEW s \in Seq(S), NEW v, DOMAIN v = DOMAIN s,
         v = [i \in DOMAIN v |-> v[i]], \A i \in DOMAIN s : v[i] \in VoiceSet
  PROVE  v \in Seq(VoiceSet) /\ Len(v) = Len(s)
<1>1. Len(s) \in Nat /\ DOMAIN s = 1 .. Len(s)
  BY SequenceFacts
<1>2. v \in [1 .. Len(s) -> VoiceSet]
  BY <1>1
<1>3. QED
  BY <1>1, <1>2, FunctionIsSequence

(* Every speech has a voice,                                               *)
LEMMA SpeechVoicesType ==
  ASSUME NEW ss \in Seq(SpeechSet)
  PROVE  /\ SpeechVoices(ss) \in Seq(VoiceSet) /\ DOMAIN SpeechVoices(ss) = DOMAIN ss
         /\ Len(SpeechVoices(ss)) = Len(ss)
<1>1. ASSUME NEW i \in DOMAIN ss PROVE Voice(ss[i].who, ss[i].text) \in VoiceSet
  <2>1. ss[i] \in SpeechSet
    BY SequenceFacts
  <2>2. ss[i].who \in Speakers \cup {"nobody"} /\ ss[i].text \in Text
    BY <2>1 DEF SpeechSet, Speakers
  <2>3. QED
    BY <2>2, VoiceType
<1>2. QED
  BY <1>1, VoicesOfEach DEF SpeechVoices

(* every message one for the generic generators,                           *)
LEMMA HeedingsType ==
  ASSUME NEW ms \in Seq(MessageSet)
  PROVE  /\ Heedings(ms) \in Seq(VoiceSet) /\ DOMAIN Heedings(ms) = DOMAIN ms
         /\ Len(Heedings(ms)) = Len(ms)
<1>1. ASSUME NEW k \in DOMAIN ms PROVE Heeded(ms[k]) \in VoiceSet
  BY SequenceFacts, MessageHeard
<1>2. QED
  BY <1>1, VoicesOfEach DEF Heedings

(* every message one for the live providers,                               *)
LEMMA LiveVoicesType ==
  ASSUME NEW ms \in Seq(MessageSet)
  PROVE  /\ LiveVoices(ms) \in Seq(VoiceSet) /\ DOMAIN LiveVoices(ms) = DOMAIN ms
         /\ Len(LiveVoices(ms)) = Len(ms)
<1>1. ASSUME NEW k \in DOMAIN ms PROVE LiveVoice(ms[k]) \in VoiceSet
  BY SequenceFacts, LiveVoiceType
<1>2. QED
  BY <1>1, VoicesOfEach DEF LiveVoices

(* and every part one for the provider that looks for parts.               *)
LEMMA PartVoicesType ==
  ASSUME NEW bs \in Seq(BlockSet)
  PROVE  /\ PartVoices(bs) \in Seq(VoiceSet) /\ DOMAIN PartVoices(bs) = DOMAIN bs
         /\ Len(PartVoices(bs)) = Len(bs)
<1>1. ASSUME NEW k \in DOMAIN bs PROVE PartVoice(bs[k]) \in VoiceSet
  BY SequenceFacts, PartVoiceType
<1>2. QED
  BY <1>1, VoicesOfEach DEF PartVoices

-----------------------------------------------------------------------------
(* What is heard of two conversations in a row                             *)

(* What makes a sequence the concatenation of two.                         *)
LEMMA ConcatIs ==
  ASSUME NEW R, NEW u \in Seq(R), NEW v \in Seq(R), NEW w \in Seq(R),
         Len(u) = Len(v) + Len(w),
         \A i \in 1 .. Len(v) : u[i] = v[i],
         \A i \in 1 .. Len(w) : u[Len(v) + i] = w[i]
  PROVE  u = v \o w
<1> DEFINE x == v \o w
<1>1. /\ Len(u) \in Nat /\ Len(v) \in Nat /\ Len(w) \in Nat
      /\ x \in Seq(R) /\ Len(x) = Len(v) + Len(w)
      /\ \A i \in 1 .. Len(v) : x[i] = v[i]
      /\ \A i \in 1 .. Len(w) : x[Len(v) + i] = w[i]
  OBVIOUS
<1> HIDE DEF x
<1>2. ASSUME NEW k \in 1 .. Len(u) PROVE u[k] = x[k]
  <2>1. CASE k \in 1 .. Len(v)
    BY <1>1, <2>1
  <2>2. CASE k \notin 1 .. Len(v)
    <3>1. k - Len(v) \in 1 .. Len(w) /\ Len(v) + (k - Len(v)) = k
      BY <1>1, <2>2
    <3>2. u[k] = w[k - Len(v)] /\ x[k] = w[k - Len(v)]
      BY <1>1, <3>1
    <3>3. QED
      BY <3>2
  <2>3. QED
    BY <2>1, <2>2
<1>3. Len(x) = Len(u)
  BY <1>1
<1>4. u = x
  BY <1>1, <1>2, <1>3
<1>5. QED
  BY <1>4 DEF x

(* Where the elements of a concatenation are.                              *)
LEMMA PlacesOfConcat ==
  ASSUME NEW S, NEW a \in Seq(S), NEW b \in Seq(S)
  PROVE  /\ a \o b \in Seq(S)
         /\ \A i \in DOMAIN a : i \in DOMAIN (a \o b) /\ (a \o b)[i] = a[i]
         /\ \A i \in DOMAIN b : Len(a) + i \in DOMAIN (a \o b) /\ (a \o b)[Len(a) + i] = b[i]
         /\ \A k \in DOMAIN (a \o b) :
              k \in DOMAIN a \/ (k - Len(a) \in DOMAIN b /\ k = Len(a) + (k - Len(a)))
OBVIOUS

(* The voices of speeches followed by others are theirs in a row;          *)
LEMMA SpeechVoicesConcat ==
  ASSUME NEW a \in Seq(SpeechSet), NEW b \in Seq(SpeechSet)
  PROVE  SpeechVoices(a \o b) = SpeechVoices(a) \o SpeechVoices(b)
<1>1. a \o b \in Seq(SpeechSet)
  BY PlacesOfConcat
<1>2. /\ \A i \in DOMAIN a : SpeechVoices(a \o b)[i] = SpeechVoices(a)[i]
      /\ \A i \in DOMAIN b : SpeechVoices(a \o b)[Len(a) + i] = SpeechVoices(b)[i]
  BY PlacesOfConcat DEF SpeechVoices
<1>3. /\ SpeechVoices(a \o b) \in Seq(VoiceSet) /\ Len(SpeechVoices(a \o b)) = Len(a \o b)
      /\ SpeechVoices(a) \in Seq(VoiceSet) /\ Len(SpeechVoices(a)) = Len(a)
      /\ SpeechVoices(b) \in Seq(VoiceSet) /\ Len(SpeechVoices(b)) = Len(b)
  BY <1>1, SpeechVoicesType
<1>4. Len(a \o b) = Len(a) + Len(b) /\ DOMAIN a = 1 .. Len(a) /\ DOMAIN b = 1 .. Len(b)
  OBVIOUS
<1>5. /\ \A i \in 1 .. Len(SpeechVoices(a)) : SpeechVoices(a \o b)[i] = SpeechVoices(a)[i]
      /\ \A i \in 1 .. Len(SpeechVoices(b)) : SpeechVoices(a \o b)[Len(SpeechVoices(a)) + i] = SpeechVoices(b)[i]
  BY <1>2, <1>3, <1>4
<1>6. Len(SpeechVoices(a \o b)) = Len(SpeechVoices(a)) + Len(SpeechVoices(b))
  BY <1>3, <1>4
<1>7. QED
  BY <1>3, <1>5, <1>6, ConcatIs

(* so are those of messages for the generic generators,                    *)
LEMMA HeedingsConcat ==
  ASSUME NEW a \in Seq(MessageSet), NEW b \in Seq(MessageSet)
  PROVE  Heedings(a \o b) = Heedings(a) \o Heedings(b)
<1>1. a \o b \in Seq(MessageSet)
  BY PlacesOfConcat
<1>2. /\ \A i \in DOMAIN a : Heedings(a \o b)[i] = Heedings(a)[i]
      /\ \A i \in DOMAIN b : Heedings(a \o b)[Len(a) + i] = Heedings(b)[i]
  BY PlacesOfConcat DEF Heedings
<1>3. /\ Heedings(a \o b) \in Seq(VoiceSet) /\ Len(Heedings(a \o b)) = Len(a \o b)
      /\ Heedings(a) \in Seq(VoiceSet) /\ Len(Heedings(a)) = Len(a)
      /\ Heedings(b) \in Seq(VoiceSet) /\ Len(Heedings(b)) = Len(b)
  BY <1>1, HeedingsType
<1>4. Len(a \o b) = Len(a) + Len(b) /\ DOMAIN a = 1 .. Len(a) /\ DOMAIN b = 1 .. Len(b)
  OBVIOUS
<1>5. /\ \A i \in 1 .. Len(Heedings(a)) : Heedings(a \o b)[i] = Heedings(a)[i]
      /\ \A i \in 1 .. Len(Heedings(b)) : Heedings(a \o b)[Len(Heedings(a)) + i] = Heedings(b)[i]
  BY <1>2, <1>3, <1>4
<1>6. Len(Heedings(a \o b)) = Len(Heedings(a)) + Len(Heedings(b))
  BY <1>3, <1>4
<1>7. QED
  BY <1>3, <1>5, <1>6, ConcatIs

(* those of messages for the live providers,                               *)
LEMMA LiveVoicesConcat ==
  ASSUME NEW a \in Seq(MessageSet), NEW b \in Seq(MessageSet)
  PROVE  LiveVoices(a \o b) = LiveVoices(a) \o LiveVoices(b)
<1>1. a \o b \in Seq(MessageSet)
  BY PlacesOfConcat
<1>2. /\ \A i \in DOMAIN a : LiveVoices(a \o b)[i] = LiveVoices(a)[i]
      /\ \A i \in DOMAIN b : LiveVoices(a \o b)[Len(a) + i] = LiveVoices(b)[i]
  BY PlacesOfConcat DEF LiveVoices
<1>3. /\ LiveVoices(a \o b) \in Seq(VoiceSet) /\ Len(LiveVoices(a \o b)) = Len(a \o b)
      /\ LiveVoices(a) \in Seq(VoiceSet) /\ Len(LiveVoices(a)) = Len(a)
      /\ LiveVoices(b) \in Seq(VoiceSet) /\ Len(LiveVoices(b)) = Len(b)
  BY <1>1, LiveVoicesType
<1>4. Len(a \o b) = Len(a) + Len(b) /\ DOMAIN a = 1 .. Len(a) /\ DOMAIN b = 1 .. Len(b)
  OBVIOUS
<1>5. /\ \A i \in 1 .. Len(LiveVoices(a)) : LiveVoices(a \o b)[i] = LiveVoices(a)[i]
      /\ \A i \in 1 .. Len(LiveVoices(b)) : LiveVoices(a \o b)[Len(LiveVoices(a)) + i] = LiveVoices(b)[i]
  BY <1>2, <1>3, <1>4
<1>6. Len(LiveVoices(a \o b)) = Len(LiveVoices(a)) + Len(LiveVoices(b))
  BY <1>3, <1>4
<1>7. QED
  BY <1>3, <1>5, <1>6, ConcatIs

(* and those of parts.                                                     *)
LEMMA PartVoicesConcat ==
  ASSUME NEW a \in Seq(BlockSet), NEW b \in Seq(BlockSet)
  PROVE  PartVoices(a \o b) = PartVoices(a) \o PartVoices(b)
<1>1. a \o b \in Seq(BlockSet)
  BY PlacesOfConcat
<1>2. /\ \A i \in DOMAIN a : PartVoices(a \o b)[i] = PartVoices(a)[i]
      /\ \A i \in DOMAIN b : PartVoices(a \o b)[Len(a) + i] = PartVoices(b)[i]
  BY PlacesOfConcat DEF PartVoices
<1>3. /\ PartVoices(a \o b) \in Seq(VoiceSet) /\ Len(PartVoices(a \o b)) = Len(a \o b)
      /\ PartVoices(a) \in Seq(VoiceSet) /\ Len(PartVoices(a)) = Len(a)
      /\ PartVoices(b) \in Seq(VoiceSet) /\ Len(PartVoices(b)) = Len(b)
  BY <1>1, PartVoicesType
<1>4. Len(a \o b) = Len(a) + Len(b) /\ DOMAIN a = 1 .. Len(a) /\ DOMAIN b = 1 .. Len(b)
  OBVIOUS
<1>5. /\ \A i \in 1 .. Len(PartVoices(a)) : PartVoices(a \o b)[i] = PartVoices(a)[i]
      /\ \A i \in 1 .. Len(PartVoices(b)) : PartVoices(a \o b)[Len(PartVoices(a)) + i] = PartVoices(b)[i]
  BY <1>2, <1>3, <1>4
<1>6. Len(PartVoices(a \o b)) = Len(PartVoices(a)) + Len(PartVoices(b))
  BY <1>3, <1>4
<1>7. QED
  BY <1>3, <1>5, <1>6, ConcatIs

(* The parts of each message.                                              *)
PartsEach(ms) == [k \in DOMAIN ms |-> ms[k].parts]

(* The parts of the messages are blocks, and joined they are PartsOf.      *)
LEMMA PartsEachType ==
  ASSUME NEW ms \in Seq(MessageSet)
  PROVE  /\ PartsEach(ms) \in Seq(Seq(BlockSet)) /\ Len(PartsEach(ms)) = Len(ms)
         /\ PartsOf(ms) = FlattenSeq(PartsEach(ms)) /\ PartsOf(ms) \in Seq(BlockSet)
<1>1. /\ Len(ms) \in Nat /\ DOMAIN ms = 1 .. Len(ms)
      /\ \A k \in 1 .. Len(ms) : ms[k] \in MessageSet
  BY SequenceFacts
<1>2. \A k \in 1 .. Len(ms) : ms[k].parts \in Seq(BlockSet)
  BY <1>1 DEF MessageSet
<1>3. PartsEach(ms) \in [1 .. Len(ms) -> Seq(BlockSet)]
  BY <1>1, <1>2 DEF PartsEach
<1>4. PartsEach(ms) \in Seq(Seq(BlockSet)) /\ Len(PartsEach(ms)) = Len(ms)
  BY <1>1, <1>3, FunctionIsSequence
<1>5. FlattenSeq(PartsEach(ms)) \in Seq(BlockSet)
  BY <1>4, FlattenType
<1>6. PartsOf(ms) = FlattenSeq(PartsEach(ms))
  BY DEF PartsOf, PartsEach
<1>7. QED
  BY <1>4, <1>5, <1>6

(* The parts of messages followed by others are theirs in a row.           *)
LEMMA PartsOfConcat ==
  ASSUME NEW a \in Seq(MessageSet), NEW b \in Seq(MessageSet)
  PROVE  PartsOf(a \o b) = PartsOf(a) \o PartsOf(b)
<1>1. a \o b \in Seq(MessageSet)
  BY PlacesOfConcat
<1>2. /\ \A i \in DOMAIN a : PartsEach(a \o b)[i] = PartsEach(a)[i]
      /\ \A i \in DOMAIN b : PartsEach(a \o b)[Len(a) + i] = PartsEach(b)[i]
  BY PlacesOfConcat DEF PartsEach
<1>3. /\ PartsEach(a \o b) \in Seq(Seq(BlockSet)) /\ Len(PartsEach(a \o b)) = Len(a \o b)
      /\ PartsEach(a) \in Seq(Seq(BlockSet)) /\ Len(PartsEach(a)) = Len(a)
      /\ PartsEach(b) \in Seq(Seq(BlockSet)) /\ Len(PartsEach(b)) = Len(b)
  BY <1>1, PartsEachType
<1>4. Len(a \o b) = Len(a) + Len(b) /\ DOMAIN a = 1 .. Len(a) /\ DOMAIN b = 1 .. Len(b)
  OBVIOUS
<1>5. /\ \A i \in 1 .. Len(PartsEach(a)) : PartsEach(a \o b)[i] = PartsEach(a)[i]
      /\ \A i \in 1 .. Len(PartsEach(b)) :
           PartsEach(a \o b)[Len(PartsEach(a)) + i] = PartsEach(b)[i]
  BY <1>2, <1>3, <1>4
<1>6. Len(PartsEach(a \o b)) = Len(PartsEach(a)) + Len(PartsEach(b))
  BY <1>3, <1>4
<1>7. PartsEach(a \o b) = PartsEach(a) \o PartsEach(b)
  <2> DEFINE R == Seq(BlockSet)
  <2>1. PartsEach(a \o b) \in Seq(R) /\ PartsEach(a) \in Seq(R) /\ PartsEach(b) \in Seq(R)
    BY <1>3
  <2> HIDE DEF R
  <2>2. QED
    BY <1>5, <1>6, <2>1, ConcatIs
<1>8. FlattenSeq(PartsEach(a) \o PartsEach(b))
        = FlattenSeq(PartsEach(a)) \o FlattenSeq(PartsEach(b))
  BY <1>3, FlattenConcat
<1>9. QED
  BY <1>1, <1>7, <1>8, PartsEachType

(* Who says nothing in either of two sequences says nothing in them both,  *)
(* and the other way round.                                                *)
LEMMA SilentConcat ==
  ASSUME NEW S, NEW a \in Seq(S), NEW b \in Seq(S), NEW W
  PROVE  Ends(a \o b, W, Silent) <=> Ends(a, W, Silent) /\ Ends(b, W, Silent)
<1>1. \A v : Ends(v, W, Silent) <=> \A i \in DOMAIN v : ~ Of(v[i], W)
  BY DEF Ends, Of
<1>2. ASSUME Ends(a \o b, W, Silent) PROVE Ends(a, W, Silent) /\ Ends(b, W, Silent)
  <2>1. \A i \in DOMAIN (a \o b) : ~ Of((a \o b)[i], W)
    BY <1>1, <1>2
  <2>2. /\ \A i \in DOMAIN a : ~ Of(a[i], W)
        /\ \A i \in DOMAIN b : ~ Of(b[i], W)
    <3>1. /\ \A i \in DOMAIN a : i \in DOMAIN (a \o b) /\ (a \o b)[i] = a[i]
          /\ \A i \in DOMAIN b : Len(a) + i \in DOMAIN (a \o b) /\ (a \o b)[Len(a) + i] = b[i]
      BY PlacesOfConcat
    <3>2. QED
      BY <2>1, <3>1
  <2>3. QED
    BY <1>1, <2>2
<1>3. ASSUME Ends(a, W, Silent), Ends(b, W, Silent) PROVE Ends(a \o b, W, Silent)
  BY <1>3, EndsConcat
<1>4. QED
  BY <1>2, <1>3

(* What is true of two conversations is of the one after the other.        *)
LEMMA FollowsConcat ==
  ASSUME NEW s \in Seq(SpeechSet), NEW t \in Seq(SpeechSet),
         NEW a \in Seq(MessageSet), NEW b \in Seq(MessageSet),
         Follows(s, a), Follows(t, b)
  PROVE  Follows(s \o t, a \o b)
<1>1. /\ SpeechVoices(s \o t) = SpeechVoices(s) \o SpeechVoices(t)
      /\ Heedings(a \o b) = Heedings(a) \o Heedings(b)
      /\ SpeechVoices(s) \in Seq(VoiceSet) /\ SpeechVoices(t) \in Seq(VoiceSet)
      /\ Heedings(a) \in Seq(VoiceSet) /\ Heedings(b) \in Seq(VoiceSet)
  BY SpeechVoicesConcat, HeedingsConcat, SpeechVoicesType, HeedingsType
<1>2. Unmixed(a \o b) => Unmixed(a) /\ Unmixed(b)
  <2>1. /\ \A i \in DOMAIN a : i \in DOMAIN (a \o b) /\ (a \o b)[i] = a[i]
        /\ \A i \in DOMAIN b : Len(a) + i \in DOMAIN (a \o b) /\ (a \o b)[Len(a) + i] = b[i]
    BY PlacesOfConcat
  <2>2. QED
    BY <2>1 DEF Unmixed
<1>3. ASSUME NEW W \in SUBSET Speakers
      PROVE  /\ "user" \in W \/ Unmixed(a \o b) =>
                  Same(SpeechVoices(s \o t), W \cap Hearable, Heedings(a \o b), W)
             /\ Ends(SpeechVoices(s \o t), W \cap Hearable, Silent) =>
                  Ends(Heedings(a \o b), W, Silent)
  <2> DEFINE Z == W \cap Hearable
  <2>1. ASSUME "user" \in W \/ Unmixed(a \o b)
        PROVE  Same(SpeechVoices(s \o t), Z, Heedings(a \o b), W)
    <3>1. Same(SpeechVoices(s), Z, Heedings(a), W) /\ Same(SpeechVoices(t), Z, Heedings(b), W)
      BY <1>2, <2>1 DEF Follows
    <3> HIDE DEF Z
    <3>2. Same(SpeechVoices(s) \o SpeechVoices(t), Z, Heedings(a) \o Heedings(b), W)
      BY <1>1, <3>1, SameConcat
    <3>3. QED
      BY <1>1, <3>2
  <2>2. ASSUME Ends(SpeechVoices(s \o t), Z, Silent)
        PROVE  Ends(Heedings(a \o b), W, Silent)
    <3> HIDE DEF Z
    <3>1. Ends(SpeechVoices(s), Z, Silent) /\ Ends(SpeechVoices(t), Z, Silent)
      BY <1>1, <2>2, SilentConcat
    <3>2. Ends(Heedings(a), W, Silent) /\ Ends(Heedings(b), W, Silent)
      BY <3>1 DEF Follows, Z
    <3>3. QED
      BY <1>1, <3>2, SilentConcat
  <2>3. QED
    BY <2>1, <2>2
<1>4. QED
  BY <1>3 DEF Follows

(* What the live providers hear follows what was said if it does so in two *)
(* pieces, one after the other;                                            *)
LEMMA LiveFollowsConcat ==
  ASSUME NEW s \in Seq(SpeechSet), NEW t \in Seq(SpeechSet),
         NEW a \in Seq(MessageSet), NEW b \in Seq(MessageSet),
         LiveFollows(s, a), LiveFollows(t, b)
  PROVE  LiveFollows(s \o t, a \o b)
<1>1. /\ SpeechVoices(s \o t) = SpeechVoices(s) \o SpeechVoices(t)
      /\ LiveVoices(a \o b) = LiveVoices(a) \o LiveVoices(b)
      /\ SpeechVoices(s) \in Seq(VoiceSet) /\ SpeechVoices(t) \in Seq(VoiceSet)
      /\ LiveVoices(a) \in Seq(VoiceSet) /\ LiveVoices(b) \in Seq(VoiceSet)
  BY SpeechVoicesConcat, LiveVoicesConcat, SpeechVoicesType, LiveVoicesType
<1>2. SUFFICES ASSUME \A k \in DOMAIN (a \o b) : ~ Behind((a \o b)[k])
               PROVE  Same(SpeechVoices(s \o t), {"user"}, LiveVoices(a \o b), {"user"})
  BY DEF LiveFollows
<1>3. (\A k \in DOMAIN a : ~ Behind(a[k])) /\ (\A k \in DOMAIN b : ~ Behind(b[k]))
  <2>1. /\ \A i \in DOMAIN a : i \in DOMAIN (a \o b) /\ (a \o b)[i] = a[i]
        /\ \A i \in DOMAIN b : Len(a) + i \in DOMAIN (a \o b) /\ (a \o b)[Len(a) + i] = b[i]
    BY PlacesOfConcat
  <2>2. QED
    BY <1>2, <2>1
<1>4. /\ Same(SpeechVoices(s), {"user"}, LiveVoices(a), {"user"})
      /\ Same(SpeechVoices(t), {"user"}, LiveVoices(b), {"user"})
  BY <1>3 DEF LiveFollows
<1>5. QED
  BY <1>1, <1>4, SameConcat

(* so does what the provider that looks for parts hears,                   *)
LEMMA PartsFollowConcat ==
  ASSUME NEW s \in Seq(SpeechSet), NEW t \in Seq(SpeechSet),
         NEW a \in Seq(MessageSet), NEW b \in Seq(MessageSet),
         PartsFollow(s, a), PartsFollow(t, b)
  PROVE  PartsFollow(s \o t, a \o b)
<1>1. /\ SpeechVoices(s \o t) = SpeechVoices(s) \o SpeechVoices(t)
      /\ PartsOf(a \o b) = PartsOf(a) \o PartsOf(b)
      /\ PartsOf(a) \in Seq(BlockSet) /\ PartsOf(b) \in Seq(BlockSet)
      /\ SpeechVoices(s) \in Seq(VoiceSet) /\ SpeechVoices(t) \in Seq(VoiceSet)
  BY SpeechVoicesConcat, PartsOfConcat, PartsEachType, SpeechVoicesType
<1>2. /\ PartVoices(PartsOf(a) \o PartsOf(b)) = PartVoices(PartsOf(a)) \o PartVoices(PartsOf(b))
      /\ PartVoices(PartsOf(a)) \in Seq(VoiceSet) /\ PartVoices(PartsOf(b)) \in Seq(VoiceSet)
  BY <1>1, PartVoicesConcat, PartVoicesType
<1>3. /\ Same(SpeechVoices(s), {"user", "tool"}, PartVoices(PartsOf(a)), {"user", "tool"})
      /\ Same(SpeechVoices(t), {"user", "tool"}, PartVoices(PartsOf(b)), {"user", "tool"})
  BY DEF PartsFollow
<1>4. Same(SpeechVoices(s) \o SpeechVoices(t), {"user", "tool"},
           PartVoices(PartsOf(a)) \o PartVoices(PartsOf(b)), {"user", "tool"})
  BY <1>1, <1>2, <1>3, SameConcat
<1>5. QED
  BY <1>1, <1>2, <1>4 DEF PartsFollow

(* and so what all of them hear.                                           *)
LEMMA UnderstoodConcat ==
  ASSUME NEW s \in Seq(SpeechSet), NEW t \in Seq(SpeechSet),
         NEW a \in Seq(MessageSet), NEW b \in Seq(MessageSet),
         Understood(s, a), Understood(t, b)
  PROVE  Understood(s \o t, a \o b)
BY FollowsConcat, LiveFollowsConcat, PartsFollowConcat DEF Understood

-----------------------------------------------------------------------------
(* What each message that joins the conversation tells                     *)

(* Where the messages of a conversation have the voices of its speeches,   *)
(* all of them heard in its dialect, they follow it.                       *)
LEMMA AlikeFollows ==
  ASSUME NEW ss \in Seq(SpeechSet), NEW ms, Heedings(ms) = SpeechVoices(ss),
         \A i \in DOMAIN ss : ss[i].who \in Hearable
  PROVE  Follows(ss, ms)
<1> DEFINE v == SpeechVoices(ss)
<1>1. v \in Seq(VoiceSet) /\ DOMAIN v = DOMAIN ss
  BY SpeechVoicesType
<1>2. \A i \in DOMAIN v : v[i] = Silent \/ v[i][1] \in Hearable
  BY <1>1 DEF SpeechVoices, Voice
<1>3. Heedings(ms) = v
  OBVIOUS
<1> HIDE DEF v
<1>4. ASSUME NEW W \in SUBSET Speakers
      PROVE  /\ Same(v, W \cap Hearable, v, W)
             /\ Ends(v, W \cap Hearable, Silent) => Ends(v, W, Silent)
  <2>1. \A i \in DOMAIN v : Of(v[i], W \cap Hearable) <=> Of(v[i], W)
    BY <1>2 DEF Of
  <2>2. Same(v, W \cap Hearable, v, W)
    BY <1>1, <2>1, SameAlike
  <2>3. Ends(v, W \cap Hearable, Silent) => Ends(v, W, Silent)
    BY <2>1 DEF Ends, Of
  <2>4. QED
    BY <2>2, <2>3
<1>5. QED
  BY <1>3, <1>4 DEF Follows, v

(* Where the newest voices agree for every choice of speakers, messages    *)
(* follow.                                                                 *)
LEMMA SameFollows ==
  ASSUME NEW ss \in Seq(SpeechSet), NEW ms,
         \A W \in SUBSET Speakers : Same(SpeechVoices(ss), W \cap Hearable, Heedings(ms), W)
  PROVE  Follows(ss, ms)
<1>1. SpeechVoices(ss) \in Seq(VoiceSet)
  BY SpeechVoicesType
<1>2. ASSUME NEW W \in SUBSET Speakers, Ends(SpeechVoices(ss), W \cap Hearable, Silent)
      PROVE  Ends(Heedings(ms), W, Silent)
  <2>1. PICK x : Ends(SpeechVoices(ss), W \cap Hearable, x) /\ Ends(Heedings(ms), W, x)
    BY DEF Same
  <2>2. x = Silent
    BY <1>1, <1>2, <2>1, EndsUnique
  <2>3. QED
    BY <2>1, <2>2
<1>3. QED
  BY <1>2 DEF Follows

(* Sequences of one element.                                               *)
LEMMA OnlyOne ==
  ASSUME NEW S, NEW x \in S
  PROVE  /\ <<x>> \in Seq(S) /\ Len(<<x>>) = 1 /\ DOMAIN <<x>> = {1} /\ <<x>>[1] = x
OBVIOUS

(* One sequence flattens to itself.                                        *)
LEMMA FlattenOne ==
  ASSUME NEW S, NEW s \in Seq(S)
  PROVE  FlattenSeq(<<s>>) = s
<1>1. FlattenSeq(Append(<<>>, s)) = FlattenSeq(<<>>) \o s
  <2>1. <<>> \in Seq(Seq(S))
    OBVIOUS
  <2>2. QED
    BY <2>1, FlattenAppend
<1>2. Append(<<>>, s) = <<s>> /\ FlattenSeq(<<>>) \o s = s
  BY FlattenOfNone
<1>3. QED
  BY <1>1, <1>2

(* The text of a block alone, and that of no block.                        *)
LEMMA TextsOfOne ==
  ASSUME NEW b \in BlockSet, NEW types
  PROVE  Texts(<<b>>, types) = IF b.type \in types THEN b.text ELSE <<>>
<1> DEFINE t == IF b.type \in types THEN b.text ELSE <<>>
<1>1. t \in Seq(Token)
  BY DEF BlockSet, Text
<1>2. TextsEach(<<b>>, types) = <<t>>
  BY OnlyOne DEF TextsEach
<1>3. Texts(<<b>>, types) = FlattenSeq(TextsEach(<<b>>, types))
  BY DEF Texts, TextsEach
<1> HIDE DEF t
<1>4. Texts(<<b>>, types) = t
  BY <1>1, <1>2, <1>3, FlattenOne
<1>5. QED
  BY <1>4 DEF t

(* Blocks without a text of some types join to nothing,                    *)
LEMMA TextsOfSilent ==
  ASSUME NEW bs \in Seq(BlockSet), NEW types,
         \A i \in DOMAIN bs : bs[i].type \in types => bs[i].text = <<>>
  PROVE  Texts(bs, types) = <<>>
<1>1. /\ TextsEach(bs, types) \in Seq(Seq(Token))
      /\ DOMAIN TextsEach(bs, types) = DOMAIN bs
      /\ Texts(bs, types) = FlattenSeq(TextsEach(bs, types))
  BY TextsEachType DEF Text
<1>2. \A i \in DOMAIN bs : TextsEach(bs, types)[i] = <<>>
  BY DEF TextsEach
<1>3. FlattenSeq(TextsEach(bs, types)) = <<>>
  BY <1>1, <1>2, FlattenEnds
<1>4. QED
  BY <1>1, <1>3

(* and so do no blocks.                                                    *)
LEMMA TextsOfNone == \A types : Texts(<<>>, types) = <<>>
<1>1. SUFFICES ASSUME NEW types PROVE Texts(<<>>, types) = <<>>
  OBVIOUS
<1> DEFINE bs == <<>>
<1>2. bs \in Seq(BlockSet) /\ \A i \in DOMAIN bs : FALSE
  OBVIOUS
<1> HIDE DEF bs
<1>3. Texts(bs, types) = <<>>
  BY <1>2, TextsOfSilent
<1>4. QED
  BY <1>3 DEF bs

(* A message without any text has no voice and shows none.                 *)
Mute(m) ==
  /\ m.content = <<>> /\ m.output = <<>>
  /\ \A i \in DOMAIN m.blocks : m.blocks[i].text = <<>>
  /\ \A i \in DOMAIN m.parts : m.parts[i].text = <<>>

(* What a message says is one of its texts.                                *)
LEMMA SaysWhat ==
  ASSUME NEW m \in MessageSet, NEW text, Says(m, text)
  PROVE  \/ text = m.content \/ text = m.output
         \/ \E i \in DOMAIN m.blocks : text = m.blocks[i].text
         \/ \E i \in DOMAIN m.parts : text = m.parts[i].text
<1>1. m.blocks \in Seq(BlockSet) /\ m.parts \in Seq(BlockSet)
  BY DEF MessageSet
<1>2. CASE text \in {m.content, m.output}
  BY <1>2
<1>3. CASE \E b \in Range(m.blocks \o m.parts) : text = b.text
  <2> DEFINE bs == m.blocks
             ps == m.parts
  <2>1. PICK k \in DOMAIN (bs \o ps) : text = (bs \o ps)[k].text
    BY <1>3 DEF Range
  <2>2. \/ k \in DOMAIN bs /\ (bs \o ps)[k] = bs[k]
        \/ k - Len(bs) \in DOMAIN ps /\ (bs \o ps)[k] = ps[k - Len(bs)]
    <3> HIDE DEF bs, ps
    <3>1. bs \in Seq(BlockSet) /\ ps \in Seq(BlockSet)
      BY <1>1 DEF bs, ps
    <3>2. QED
      BY <2>1, <3>1
  <2>3. QED
    BY <2>1, <2>2
<1>4. QED
  BY <1>2, <1>3 DEF Says

(* A message that says nothing has no voice for anyone, and nothing in it  *)
(* goes unheard.                                                           *)
LEMMA MuteHeard ==
  ASSUME NEW m \in MessageSet, Mute(m)
  PROVE  /\ MsgText(m) = <<>> /\ Heeded(m) = Silent /\ LiveVoice(m) = Silent /\ Shown(m)
         /\ \A i \in DOMAIN m.parts : PartVoice(m.parts[i]) = Silent
<1>1. m.blocks \in Seq(BlockSet) /\ m.parts \in Seq(BlockSet)
  BY DEF MessageSet
<1>2. \A types : Texts(m.blocks, types) = <<>> /\ Texts(m.parts, types) = <<>>
  BY <1>1, TextsOfSilent DEF Mute
<1>3. MsgText(m) = <<>>
  <2>1. BlocksText(m) \o Texts(m.parts, {"text", "function_result"}) = <<>>
    BY <1>2 DEF BlocksText
  <2>2. QED
    BY <2>1 DEF MsgText, Mute
<1>4. Heeded(m) = Silent
  BY <1>3 DEF Heeded, Voice
<1>5. WordOf(m) = <<>>
  <2>1. TextOfBlocks(m.blocks, {"text"}) = <<>>
    BY <1>1, TextOfBlocksIs DEF Mute
  <2>2. QED
    BY <2>1 DEF WordOf, Mute
<1>6. LiveVoice(m) = Silent
  BY <1>2, <1>5 DEF LiveVoice, Voice
<1>7. Shown(m)
  <2>1. ASSUME NEW text \in Text, text # <<>>, Says(m, text) PROVE FALSE
    BY <2>1, SaysWhat DEF Mute
  <2>2. QED
    BY <2>1 DEF Shown
<1>8. \A i \in DOMAIN m.parts : PartVoice(m.parts[i]) = Silent
  BY DEF Mute, PartVoice, Voice
<1>9. QED
  BY <1>3, <1>4, <1>6, <1>7, <1>8

(* The user's message has the user's voice, in every dialect that is heard,*)
(* and nothing in it goes unheard.                                         *)
LEMMA UserHeard ==
  ASSUME NEW text \in Text, dialect \in Kinds
  PROVE  LET m == UserMessage(text)
         IN  /\ dialect \in Generic => Heeded(m) = Voice("user", text)
             /\ dialect \in Prompting => LiveVoice(m) = Voice("user", text)
             /\ dialect = "pydantic_ai" => m.parts = <<Block("user-prompt", text, NoName)>>
<1> DEFINE m == UserMessage(text)
           Of1(ty) == Block(ty, text, NoName)
<1>1. \A ty \in BlockTypes : Of1(ty) \in BlockSet /\ Of1(ty).type = ty /\ Of1(ty).text = text
  BY BlockType, EmptySequences DEF Block
<1>2. ASSUME NEW ty \in BlockTypes, NEW types
      PROVE  Texts(<<Of1(ty)>>, types) = IF ty \in types THEN text ELSE <<>>
  BY <1>1, TextsOfOne
<1>3. text \o <<>> = text /\ <<>> \o text = text /\ <<>> \o <<>> = <<>>
  BY DEF Text
<1>4. \A types : Texts(<<>>, types) = <<>>
  BY TextsOfNone
<1>5. CASE dialect \in {"openai", "openai_responses", "anthropic"}
  <2>1. m = [Plain EXCEPT !.role = "user", !.content = text]
    BY <1>5 DEF UserMessage
  <2>2. /\ m.role = "user" /\ m.content = text /\ m.type = "" /\ m.blocks = <<>> /\ m.parts = <<>>
    BY <2>1 DEF Plain
  <2> HIDE DEF m
  <2>3. MsgText(m) = text
    BY <1>3, <1>4, <2>2 DEF MsgText, BlocksText
  <2>4. MsgRole(m) = "user"
    BY <2>2 DEF MsgRole, OnlyResults, NoRole
  <2>5. Heeded(m) = Voice("user", text)
    BY <2>3, <2>4 DEF Heeded, Class
  <2>6. WordOf(m) = text
    <3>1. TextOfBlocks(<<>>, {"text"}) = <<>>
      BY DEF TextOfBlocks, SelectInSeq
    <3>2. QED
      BY <2>2, <3>1 DEF WordOf
  <2>7. dialect \in Prompting => LiveVoice(m) = Voice("user", text)
    BY <1>5, <2>2, <2>6 DEF LiveVoice, Prompting
  <2>8. QED
    BY <1>5, <2>5, <2>7 DEF m
<1>6. CASE dialect = "langchain"
  <2>1. m = [Plain EXCEPT !.type = "human", !.content = text]
    BY <1>6 DEF UserMessage
  <2>2. /\ m.role = NoRole /\ m.content = text /\ m.type = "human" /\ m.blocks = <<>>
        /\ m.parts = <<>>
    BY <2>1 DEF Plain
  <2> HIDE DEF m
  <2>3. MsgText(m) = text
    BY <1>3, <1>4, <2>2 DEF MsgText, BlocksText
  <2>4. MsgRole(m) = "user"
    BY <2>2 DEF MsgRole, NoRole
  <2>5. Heeded(m) = Voice("user", text)
    BY <2>3, <2>4 DEF Heeded, Class
  <2>6. QED
    BY <1>6, <2>5 DEF m, Prompting
<1>7. CASE dialect = "strands"
  <2>1. m = [Plain EXCEPT !.role = "user", !.blocks = <<Of1("text")>>]
    BY <1>7 DEF UserMessage
  <2>2. /\ m.role = "user" /\ m.content = <<>> /\ m.type = "" /\ m.blocks = <<Of1("text")>>
        /\ m.parts = <<>>
    BY <2>1 DEF Plain
  <2>3. "text" \in BlockTypes /\ Of1("text") \in BlockSet /\ Of1("text").type = "text"
    BY <1>1 DEF BlockTypes
  <2> HIDE DEF m
  <2>4. /\ Texts(m.blocks, {"text", "tool_result"}) = text /\ Texts(m.blocks, {"text"}) = text
        /\ Texts(m.parts, {"text", "function_result"}) = <<>>
    <3>1. /\ Texts(<<Of1("text")>>, {"text", "tool_result"}) = text
          /\ Texts(<<Of1("text")>>, {"text"}) = text
      BY <1>2, <2>3
    <3>2. Texts(<<>>, {"text", "function_result"}) = <<>>
      BY <1>4, Zenon
    <3>3. QED
      BY <2>2, <3>1, <3>2, Zenon
  <2>5. MsgText(m) = text
    BY <1>3, <2>2, <2>4 DEF MsgText, BlocksText
  <2>6. ~ OnlyResults(m)
    <3>1. 1 \in DOMAIN m.blocks /\ m.blocks[1].type = "text"
      <4> DEFINE b == Of1("text")
      <4>1. b \in BlockSet /\ b.type = "text" /\ m.blocks = <<b>>
        BY <2>2, <2>3
      <4> HIDE DEF b
      <4>2. QED
        BY <4>1
    <3>2. QED
      BY <3>1 DEF OnlyResults
  <2>7. MsgRole(m) = "user"
    BY <2>2, <2>6 DEF MsgRole, NoRole
  <2>8. Heeded(m) = Voice("user", text) /\ LiveVoice(m) = Voice("user", text)
    BY <1>7, <2>2, <2>4, <2>5, <2>7 DEF Heeded, Class, LiveVoice
  <2>9. QED
    BY <1>7, <2>8 DEF m
<1>8. CASE dialect = "agent_framework"
  <2>1. m = [Plain EXCEPT !.role = "user", !.parts = <<Of1("text")>>]
    BY <1>8 DEF UserMessage
  <2>2. /\ m.role = "user" /\ m.content = <<>> /\ m.type = "" /\ m.blocks = <<>>
        /\ m.parts = <<Of1("text")>>
    BY <2>1 DEF Plain
  <2>3. "text" \in BlockTypes
    BY DEF BlockTypes
  <2> HIDE DEF m
  <2>4. /\ Texts(m.blocks, {"text", "tool_result"}) = <<>>
        /\ Texts(m.parts, {"text", "function_result"}) = text
    <3>1. Texts(<<Of1("text")>>, {"text", "function_result"}) = text
      BY <1>2, <2>3
    <3>2. Texts(<<>>, {"text", "tool_result"}) = <<>>
      BY <1>4, Zenon
    <3>3. QED
      BY <2>2, <3>1, <3>2, Zenon
  <2>5. MsgText(m) = text
    BY <1>3, <2>2, <2>4 DEF MsgText, BlocksText
  <2>6. MsgRole(m) = "user"
    BY <2>2 DEF MsgRole, OnlyResults, NoRole
  <2>7. Heeded(m) = Voice("user", text)
    BY <2>5, <2>6 DEF Heeded, Class
  <2>8. QED
    BY <1>8, <2>7 DEF m, Prompting
<1>9. CASE dialect = "google_adk"
  <2>1. m = [Plain EXCEPT !.type = "by user", !.parts = <<Of1("part")>>]
    BY <1>9 DEF UserMessage
  <2>2. m.type = "by user" /\ m.parts = <<Of1("part")>>
    BY <2>1 DEF Plain
  <2>3. "part" \in BlockTypes
    BY DEF BlockTypes
  <2> HIDE DEF m
  <2>4. Texts(m.parts, {"part"}) = text
    BY <1>2, <2>2, <2>3
  <2>5. LiveVoice(m) = Voice("user", text)
    BY <1>9, <2>2, <2>4 DEF LiveVoice
  <2>6. QED
    BY <1>9, <2>5 DEF m, Generic
<1>10. CASE dialect = "pydantic_ai"
  <2>1. m = [Plain EXCEPT !.parts = <<Of1("user-prompt")>>]
    BY <1>10 DEF UserMessage
  <2>2. m.parts = <<Of1("user-prompt")>>
    BY <2>1 DEF Plain
  <2>3. QED
    BY <1>10, <2>2 DEF Generic, Prompting
<1>11. CASE dialect = "gemini"
  BY <1>11 DEF Generic, Prompting
<1>12. QED
  BY <1>5, <1>6, <1>7, <1>8, <1>9, <1>10, <1>11 DEF Kinds, Frameworks

(* The model's message has the model's voice for the generic generators and*)
(* none for the live providers, and nothing in it goes unheard.            *)
LEMMA ModelHeard ==
  ASSUME NEW text \in Text, dialect \in Kinds
  PROVE  LET m == ModelMessage(text)
         IN  /\ dialect \in Generic => Heeded(m) = Voice("model", text)
             /\ dialect \in Prompting => LiveVoice(m) = Silent
             /\ dialect = "pydantic_ai" => m.parts = <<Block("model text", text, NoName)>>
<1> DEFINE m == ModelMessage(text)
           Of1(ty) == Block(ty, text, NoName)
<1>1. \A ty \in BlockTypes : Of1(ty) \in BlockSet
  BY BlockType, EmptySequences
<1>2. ASSUME NEW ty \in BlockTypes, NEW types
      PROVE  Texts(<<Of1(ty)>>, types) = IF ty \in types THEN text ELSE <<>>
  <2>1. Of1(ty) \in BlockSet /\ Of1(ty).type = ty /\ Of1(ty).text = text
    BY <1>1 DEF Block
  <2>2. QED
    BY <2>1, TextsOfOne
<1>3. text \o <<>> = text /\ <<>> \o text = text /\ <<>> \o <<>> = <<>>
  BY DEF Text
<1>4. \A types : Texts(<<>>, types) = <<>>
  BY TextsOfNone
<1>5. CASE dialect \in {"openai", "openai_responses", "anthropic"}
  <2>1. m = [Plain EXCEPT !.role = "assistant", !.content = text]
    BY <1>5 DEF ModelMessage
  <2>2. /\ m.role = "assistant" /\ m.content = text /\ m.type = "" /\ m.blocks = <<>>
        /\ m.parts = <<>>
    BY <2>1 DEF Plain
  <2> HIDE DEF m
  <2>3. MsgText(m) = text
    BY <1>3, <1>4, <2>2 DEF MsgText, BlocksText
  <2>4. MsgRole(m) = "assistant"
    BY <2>2 DEF MsgRole, NoRole
  <2>5. Heeded(m) = Voice("model", text)
    BY <2>3, <2>4 DEF Heeded, Class
  <2>6. LiveVoice(m) = Silent
    BY <1>5, <2>2 DEF LiveVoice
  <2>7. QED
    BY <1>5, <2>5, <2>6 DEF m
<1>6. CASE dialect = "langchain"
  <2>1. m = [Plain EXCEPT !.type = "ai", !.content = text]
    BY <1>6 DEF ModelMessage
  <2>2. /\ m.role = NoRole /\ m.content = text /\ m.type = "ai" /\ m.blocks = <<>>
        /\ m.parts = <<>>
    BY <2>1 DEF Plain
  <2> HIDE DEF m
  <2>3. MsgText(m) = text
    BY <1>3, <1>4, <2>2 DEF MsgText, BlocksText
  <2>4. MsgRole(m) = "assistant"
    BY <2>2 DEF MsgRole, NoRole
  <2>5. Heeded(m) = Voice("model", text)
    BY <2>3, <2>4 DEF Heeded, Class
  <2>6. QED
    BY <1>6, <2>5 DEF m, Prompting
<1>7. CASE dialect = "strands"
  <2>1. m = [Plain EXCEPT !.role = "assistant", !.blocks = <<Of1("text")>>]
    BY <1>7 DEF ModelMessage
  <2>2. /\ m.role = "assistant" /\ m.content = <<>> /\ m.type = "" /\ m.blocks = <<Of1("text")>>
        /\ m.parts = <<>>
    BY <2>1 DEF Plain
  <2>3. "text" \in BlockTypes
    BY DEF BlockTypes
  <2> HIDE DEF m
  <2>4. /\ Texts(m.blocks, {"text", "tool_result"}) = text
        /\ Texts(m.parts, {"text", "function_result"}) = <<>>
    <3>1. Texts(<<Of1("text")>>, {"text", "tool_result"}) = text
      BY <1>2, <2>3
    <3>2. Texts(<<>>, {"text", "function_result"}) = <<>>
      BY <1>4, Zenon
    <3>3. QED
      BY <2>2, <3>1, <3>2, Zenon
  <2>5. MsgText(m) = text
    BY <1>3, <2>2, <2>4 DEF MsgText, BlocksText
  <2>6. MsgRole(m) = "assistant"
    BY <2>2 DEF MsgRole, NoRole
  <2>7. Heeded(m) = Voice("model", text) /\ LiveVoice(m) = Silent
    BY <1>7, <2>2, <2>5, <2>6 DEF Heeded, Class, LiveVoice
  <2>8. QED
    BY <1>7, <2>7 DEF m
<1>8. CASE dialect = "agent_framework"
  <2>1. m = [Plain EXCEPT !.role = "assistant", !.parts = <<Of1("text")>>]
    BY <1>8 DEF ModelMessage
  <2>2. /\ m.role = "assistant" /\ m.content = <<>> /\ m.type = "" /\ m.blocks = <<>>
        /\ m.parts = <<Of1("text")>>
    BY <2>1 DEF Plain
  <2>3. "text" \in BlockTypes
    BY DEF BlockTypes
  <2> HIDE DEF m
  <2>4. /\ Texts(m.blocks, {"text", "tool_result"}) = <<>>
        /\ Texts(m.parts, {"text", "function_result"}) = text
    <3>1. Texts(<<Of1("text")>>, {"text", "function_result"}) = text
      BY <1>2, <2>3
    <3>2. Texts(<<>>, {"text", "tool_result"}) = <<>>
      BY <1>4, Zenon
    <3>3. QED
      BY <2>2, <3>1, <3>2, Zenon
  <2>5. MsgText(m) = text
    BY <1>3, <2>2, <2>4 DEF MsgText, BlocksText
  <2>6. MsgRole(m) = "assistant"
    BY <2>2 DEF MsgRole, NoRole
  <2>7. Heeded(m) = Voice("model", text)
    BY <2>5, <2>6 DEF Heeded, Class
  <2>8. QED
    BY <1>8, <2>7 DEF m, Prompting
<1>9. CASE dialect = "google_adk"
  <2>1. m = [Plain EXCEPT !.type = "by agent", !.parts = <<Of1("part")>>]
    BY <1>9 DEF ModelMessage
  <2>2. m.type = "by agent"
    BY <2>1 DEF Plain
  <2>3. LiveVoice(m) = Silent
    BY <1>9, <2>2 DEF LiveVoice
  <2>4. QED
    BY <1>9, <2>3 DEF Generic
<1>10. CASE dialect = "pydantic_ai"
  <2>1. m = [Plain EXCEPT !.parts = <<Of1("model text")>>]
    BY <1>10 DEF ModelMessage
  <2>2. m.parts = <<Of1("model text")>>
    BY <2>1 DEF Plain
  <2>3. QED
    BY <1>10, <2>2 DEF Generic, Prompting
<1>11. CASE dialect = "gemini"
  BY <1>11 DEF Generic, Prompting
<1>12. QED
  BY <1>5, <1>6, <1>7, <1>8, <1>9, <1>10, <1>11 DEF Kinds, Frameworks

(* The model's message says the model's text.                              *)
LEMMA ModelSays ==
  ASSUME NEW text \in Text, dialect \in Kinds, NEW t, t # <<>>, Says(ModelMessage(text), t)
  PROVE  t = text
<1> DEFINE m == ModelMessage(text)
           Of1(ty) == Block(ty, text, NoName)
<1>1. m \in MessageSet
  BY ModelMessageType
<1>2. Plain.content = <<>> /\ Plain.output = <<>> /\ Plain.blocks = <<>> /\ Plain.parts = <<>>
      /\ Plain \in MessageSet
  BY PlainType DEF Plain
<1>3. /\ m.content \in {<<>>, text} /\ m.output = <<>>
      /\ m.blocks = <<>> \/ \E ty : m.blocks = <<Of1(ty)>>
      /\ m.parts = <<>> \/ \E ty : m.parts = <<Of1(ty)>>
  BY <1>2 DEF ModelMessage, Kinds, Frameworks, Plain
<1> HIDE DEF m
<1>4. /\ \A i \in DOMAIN m.blocks : m.blocks[i].text = text
      /\ \A i \in DOMAIN m.parts : m.parts[i].text = text
  <2>1. ASSUME NEW ty PROVE \A i \in DOMAIN <<Of1(ty)>> : <<Of1(ty)>>[i].text = text
    BY OnlyElement DEF Block
  <2>2. \A i \in DOMAIN m.blocks : m.blocks[i].text = text
    <3>1. CASE m.blocks = <<>>
      BY <3>1
    <3>2. ASSUME NEW ty, m.blocks = <<Of1(ty)>>
          PROVE  \A i \in DOMAIN m.blocks : m.blocks[i].text = text
      BY <2>1, <3>2, Zenon
    <3>3. QED
      BY <1>3, <3>1, <3>2
  <2>3. \A i \in DOMAIN m.parts : m.parts[i].text = text
    <3>1. CASE m.parts = <<>>
      BY <3>1
    <3>2. ASSUME NEW ty, m.parts = <<Of1(ty)>>
          PROVE  \A i \in DOMAIN m.parts : m.parts[i].text = text
      BY <2>1, <3>2, Zenon
    <3>3. QED
      BY <1>3, <3>1, <3>2
  <2>4. QED
    BY <2>2, <2>3
<1>5. QED
  BY <1>1, <1>3, <1>4, SaysWhat DEF m

(* The parts of one message are its own.                                   *)
LEMMA PartsOfOne ==
  ASSUME NEW m \in MessageSet
  PROVE  PartsOf(<<m>>) = m.parts
<1>1. m.parts \in Seq(BlockSet)
  BY DEF MessageSet
<1> DEFINE p == m.parts
<1>2. [k \in DOMAIN <<m>> |-> <<m>>[k].parts] = <<p>>
  BY OnlyOne
<1>3. PartsOf(<<m>>) = FlattenSeq(<<p>>)
  BY <1>2 DEF PartsOf
<1>4. p \in Seq(BlockSet)
  BY <1>1
<1> HIDE DEF p
<1>5. PartsOf(<<m>>) = p
  BY <1>3, <1>4, FlattenOne
<1>6. QED
  BY <1>5 DEF p

(* Messages without a text tell nothing, as nobody has spoken.             *)
LEMMA NothingUnderstood ==
  ASSUME NEW ms \in Seq(MessageSet), \A k \in DOMAIN ms : Mute(ms[k]),
         dialect = "pydantic_ai" => \E m \in MessageSet : ms = <<m>>
  PROVE  Understood(<<>>, ms) /\ \A k \in DOMAIN ms : Shown(ms[k])
<1>1. ASSUME NEW k \in DOMAIN ms
      PROVE  /\ Heeded(ms[k]) = Silent /\ LiveVoice(ms[k]) = Silent /\ Shown(ms[k])
             /\ \A i \in DOMAIN ms[k].parts : PartVoice(ms[k].parts[i]) = Silent
  <2>1. ms[k] \in MessageSet
    BY SequenceFacts
  <2>2. QED
    BY <2>1, MuteHeard
<1>2. <<>> \in Seq(SpeechSet) /\ \A i \in DOMAIN SpeechVoices(<<>>) : FALSE
  BY DEF SpeechVoices
<1>3. /\ \A W : \A k \in DOMAIN Heedings(ms) : ~ Of(Heedings(ms)[k], W)
      /\ \A W : \A k \in DOMAIN LiveVoices(ms) : ~ Of(LiveVoices(ms)[k], W)
  BY <1>1 DEF Heedings, LiveVoices, Of
<1>4. Follows(<<>>, ms)
  <2>1. \A W \in SUBSET Speakers : Same(SpeechVoices(<<>>), W \cap Hearable, Heedings(ms), W)
    BY <1>2, <1>3, SameSilent
  <2>2. QED
    BY <1>2, <2>1, SameFollows
<1>5. LiveFollows(<<>>, ms)
  BY <1>2, <1>3, SameSilent DEF LiveFollows
<1>6. dialect = "pydantic_ai" => PartsFollow(<<>>, ms)
  <2>1. SUFFICES ASSUME dialect = "pydantic_ai" PROVE PartsFollow(<<>>, ms)
    OBVIOUS
  <2>2. PICK m \in MessageSet : ms = <<m>>
    BY <2>1
  <2>3. \A i \in DOMAIN m.parts : PartVoice(m.parts[i]) = Silent
    <3>1. 1 \in DOMAIN ms /\ ms[1] = m
      BY <2>2, OnlyOne
    <3>2. QED
      BY <1>1, <3>1
  <2>4. PartsOf(ms) = m.parts
    BY <2>2, PartsOfOne
  <2>5. \A W : \A i \in DOMAIN PartVoices(PartsOf(ms)) : ~ Of(PartVoices(PartsOf(ms))[i], W)
    BY <2>3, <2>4 DEF PartVoices, Of
  <2>6. QED
    BY <1>2, <2>5, SameSilent DEF PartsFollow
<1>7. QED
  BY <1>1, <1>4, <1>5, <1>6 DEF Understood

(* The messages of calls say nothing.                                      *)
LEMMA CallsUnderstood ==
  ASSUME NEW ps \in Seq(PayloadSet), ps # <<>>, dialect \in Kinds
  PROVE  /\ Understood(<<>>, AssistantMessages(ps))
         /\ \A k \in DOMAIN AssistantMessages(ps) : Shown(AssistantMessages(ps)[k])
<1> DEFINE ms == AssistantMessages(ps)
<1>1. ms \in Seq(MessageSet)
  BY AssistantMessagesType
<1>2. Plain.content = <<>> /\ Plain.output = <<>> /\ Plain.blocks = <<>> /\ Plain.parts = <<>>
      /\ Plain \in MessageSet
  BY PlainType DEF Plain
<1>3. ASSUME NEW ty \in BlockTypes
      PROVE  /\ CallBlocks(ps, ty) \in Seq(BlockSet)
             /\ \A i \in DOMAIN CallBlocks(ps, ty) : CallBlocks(ps, ty)[i].text = <<>>
  BY CallBlocksType DEF CallBlocks, Block
<1>4. CASE dialect = "openai_responses"
  <2>1. \A i \in DOMAIN ms : ms[i] = [Plain EXCEPT !.type = "function_call", !.name = ps[i].name]
    BY <1>4 DEF AssistantMessages
  <2> HIDE DEF ms
  <2>2. ASSUME NEW i \in DOMAIN ms PROVE Mute(ms[i])
    <3>1. ms[i] = [Plain EXCEPT !.type = "function_call", !.name = ps[i].name]
      BY <2>1
    <3>2. /\ ms[i].content = <<>> /\ ms[i].output = <<>>
          /\ ms[i].blocks = <<>> /\ ms[i].parts = <<>>
      BY <3>1 DEF Plain
    <3>3. QED
      BY <3>2 DEF Mute
  <2>3. Understood(<<>>, ms) /\ \A k \in DOMAIN ms : Shown(ms[k])
    BY <1>1, <1>4, <2>2, NothingUnderstood
  <2>4. QED
    BY <2>3 DEF ms
<1>5. CASE dialect # "openai_responses"
  <2>1. NamesIn(ps) \in Seq(Names)
    <3>1. "text" \in BlockTypes
      BY DEF BlockTypes
    <3>2. QED
      BY <3>1, CallBlocksType
  <2> DEFINE B(ty) == CallBlocks(ps, ty)
  <2> DEFINE Form(m) ==
               \/ m = [Plain EXCEPT !.role = "assistant", !.calls = NamesIn(ps)]
               \/ m = [Plain EXCEPT !.type = "ai", !.calls = NamesIn(ps)]
               \/ m = [Plain EXCEPT !.role = "assistant", !.blocks = B("tool_use")]
               \/ m = [Plain EXCEPT !.role = "assistant", !.blocks = B("toolUse")]
               \/ m = [Plain EXCEPT !.parts = B("tool-call")]
               \/ m = [Plain EXCEPT !.type = "by agent", !.parts = B("part")]
               \/ m = [Plain EXCEPT !.role = "assistant", !.parts = B("function_call")]
               \/ m = [Plain EXCEPT !.role = "model", !.parts = B("part")]
  <2>2. \E m : ms = <<m>> /\ Form(m)
    BY <1>5 DEF AssistantMessages, Kinds, Frameworks
  <2>3. \A ty \in BlockTypes :
          B(ty) \in Seq(BlockSet) /\ \A i \in DOMAIN B(ty) : B(ty)[i].text = <<>>
    BY <1>3
  <2> HIDE DEF B, ms
  <2>4. PICK m : ms = <<m>> /\ Form(m)
    BY <2>2
  <2>5. m \in MessageSet /\ Mute(m) /\ ms = <<m>>
    <3>1. m.content = <<>> /\ m.output = <<>>
      BY <2>4 DEF Plain
    <3>2. /\ m.blocks = <<>> \/ \E ty \in BlockTypes : m.blocks = B(ty)
          /\ m.parts = <<>> \/ \E ty \in BlockTypes : m.parts = B(ty)
      BY <2>4 DEF Plain, BlockTypes
    <3>3. m \in MessageSet
      BY <2>1, <2>3, <2>4, EmptySequences DEF Plain, MessageSet, Roles, MessageTypes, BlockTypes
    <3>4. QED
      BY <2>3, <2>4, <3>1, <3>2, <3>3 DEF Mute
  <2>6. \A k \in DOMAIN ms : Mute(ms[k])
    BY <2>5, OnlyOne
  <2>7. Understood(<<>>, ms) /\ \A k \in DOMAIN ms : Shown(ms[k])
    BY <1>1, <2>5, <2>6, NothingUnderstood
  <2>8. QED
    BY <2>7 DEF ms
<1>6. QED
  BY <1>4, <1>5

(* What is heard of one message and of one speech.                         *)
LEMMA OneVoice ==
  ASSUME NEW m \in MessageSet, NEW who \in {"user", "model", "tool"}, NEW text \in Text
  PROVE  /\ <<m>> \in Seq(MessageSet) /\ <<Spoken(who, text)>> \in Seq(SpeechSet)
         /\ Heedings(<<m>>) = <<Heeded(m)>> /\ LiveVoices(<<m>>) = <<LiveVoice(m)>>
         /\ SpeechVoices(<<Spoken(who, text)>>) = <<Voice(who, text)>>
<1> DEFINE s == Spoken(who, text)
<1>1. s \in SpeechSet /\ s.who = who /\ s.text = text
  BY DEF Spoken, SpeechSet
<1>2. Heedings(<<m>>) = <<Heeded(m)>> /\ LiveVoices(<<m>>) = <<LiveVoice(m)>>
  BY OnlyOne DEF Heedings, LiveVoices
<1> HIDE DEF s
<1>3. SpeechVoices(<<s>>) = <<Voice(who, text)>>
  BY <1>1, OnlyOne DEF SpeechVoices
<1>4. <<m>> \in Seq(MessageSet) /\ <<s>> \in Seq(SpeechSet)
  BY <1>1, OnlyOne
<1>5. QED
  BY <1>2, <1>3, <1>4 DEF s

(* The message of a user's speech tells it.                                *)
LEMMA UserUnderstood ==
  ASSUME NEW text \in Text, text # <<>>, dialect \in Kinds
  PROVE  /\ Understood(<<Spoken("user", text)>>, <<UserMessage(text)>>)
         /\ Shown(UserMessage(text))
<1> DEFINE m == UserMessage(text)
           s == Spoken("user", text)
           x == Voice("user", text)
<1>1. m \in MessageSet
  BY UserMessageType
<1>2. /\ dialect \in Generic => Heeded(m) = x
      /\ dialect \in Prompting => LiveVoice(m) = x
      /\ dialect = "pydantic_ai" => m.parts = <<Block("user-prompt", text, NoName)>>
  BY UserHeard
<1>3. s.who = "user" /\ x # Silent /\ x \in VoiceSet
  BY VoiceType DEF Spoken, Voice, Silent, Speakers
<1> HIDE DEF m
<1>4. /\ <<m>> \in Seq(MessageSet) /\ <<s>> \in Seq(SpeechSet)
      /\ Heedings(<<m>>) = <<Heeded(m)>> /\ LiveVoices(<<m>>) = <<LiveVoice(m)>>
      /\ SpeechVoices(<<s>>) = <<x>>
  BY <1>1, OneVoice
<1> HIDE DEF s, x
<1>5. dialect \in Generic => Follows(<<s>>, <<m>>)
  <2>1. SUFFICES ASSUME dialect \in Generic PROVE Follows(<<s>>, <<m>>)
    OBVIOUS
  <2>2. Heedings(<<m>>) = SpeechVoices(<<s>>)
    BY <1>2, <1>4, <2>1
  <2>3. \A i \in DOMAIN <<s>> : <<s>>[i].who \in Hearable
    BY <1>3, OnlyElement DEF Hearable, Speakers
  <2>4. QED
    BY <1>4, <2>2, <2>3, AlikeFollows
<1>6. <<x>> \in Seq(VoiceSet)
  BY <1>3, OnlyOne
<1>7. \A W : Same(<<x>>, W, <<x>>, W)
  BY <1>6, SameAlike
<1>8. dialect \in Prompting => LiveFollows(<<s>>, <<m>>)
  BY <1>2, <1>4, <1>7 DEF LiveFollows
<1>9. dialect = "pydantic_ai" => PartsFollow(<<s>>, <<m>>)
  <2>1. SUFFICES ASSUME dialect = "pydantic_ai" PROVE PartsFollow(<<s>>, <<m>>)
    OBVIOUS
  <2> DEFINE b == Block("user-prompt", text, NoName)
  <2>2. PartsOf(<<m>>) = <<b>>
    BY <1>1, <1>2, <2>1, PartsOfOne
  <2>3. PartVoice(b) = x
    BY DEF PartVoice, Block, x
  <2> HIDE DEF b
  <2>4. PartVoices(<<b>>) = <<x>>
    BY <2>3, OnlyOne DEF PartVoices
  <2>5. QED
    BY <1>4, <1>7, <2>2, <2>4 DEF PartsFollow
<1>10. Shown(m)
  BY <1>2, <1>3 DEF Shown
<1>11. QED
  BY <1>5, <1>8, <1>9, <1>10 DEF Understood, m, s

(* The message of the model's speech tells it, to those who listen to the  *)
(* model.                                                                  *)
LEMMA ModelUnderstood ==
  ASSUME NEW text \in Text, text # <<>>, Last(text)[1] = "model", dialect \in Kinds
  PROVE  /\ Understood(<<Spoken("model", text)>>, <<ModelMessage(text)>>)
         /\ Shown(ModelMessage(text))
<1> DEFINE m == ModelMessage(text)
           s == Spoken("model", text)
           x == Voice("model", text)
<1>1. m \in MessageSet
  BY ModelMessageType
<1>2. /\ dialect \in Generic => Heeded(m) = x
      /\ dialect \in Prompting => LiveVoice(m) = Silent
      /\ dialect = "pydantic_ai" => m.parts = <<Block("model text", text, NoName)>>
  BY ModelHeard
<1>3. s.who = "model" /\ x # Silent /\ x \in VoiceSet /\ x[1] = "model"
  BY VoiceType DEF Spoken, Voice, Silent, Speakers
<1>4. Shown(m)
  <2>1. \A t \in Text : t # <<>> /\ Says(m, t) => Last(t)[1] # "user"
    BY ModelSays
  <2>2. dialect \in Generic => Heeded(m) # Silent
    BY <1>2, <1>3
  <2> HIDE DEF m
  <2>3. QED
    BY <2>1, <2>2 DEF Shown
<1> HIDE DEF m
<1>5. /\ <<m>> \in Seq(MessageSet) /\ <<s>> \in Seq(SpeechSet)
      /\ Heedings(<<m>>) = <<Heeded(m)>> /\ LiveVoices(<<m>>) = <<LiveVoice(m)>>
      /\ SpeechVoices(<<s>>) = <<x>>
  BY <1>1, OneVoice
<1> HIDE DEF s, x
<1>6. dialect \in Generic => Follows(<<s>>, <<m>>)
  <2>1. SUFFICES ASSUME dialect \in Generic PROVE Follows(<<s>>, <<m>>)
    OBVIOUS
  <2>2. Heedings(<<m>>) = SpeechVoices(<<s>>)
    BY <1>2, <1>5, <2>1
  <2>3. \A i \in DOMAIN <<s>> : <<s>>[i].who \in Hearable
    BY <1>3, OnlyElement DEF Hearable, Speakers
  <2>4. QED
    BY <1>5, <2>2, <2>3, AlikeFollows
<1>7. \A i \in DOMAIN <<x>> : ~ Of(<<x>>[i], {"user"}) /\ ~ Of(<<x>>[i], {"user", "tool"})
  BY <1>3, OnlyElement DEF Of
<1>8. \A W : \A i \in DOMAIN <<Silent>> : ~ Of(<<Silent>>[i], W)
  BY OnlyElement DEF Of
<1>9. dialect \in Prompting => LiveFollows(<<s>>, <<m>>)
  BY <1>2, <1>5, <1>7, <1>8, SameSilent DEF LiveFollows
<1>10. dialect = "pydantic_ai" => PartsFollow(<<s>>, <<m>>)
  <2>1. SUFFICES ASSUME dialect = "pydantic_ai" PROVE PartsFollow(<<s>>, <<m>>)
    OBVIOUS
  <2> DEFINE b == Block("model text", text, NoName)
  <2>2. PartsOf(<<m>>) = <<b>>
    BY <1>1, <1>2, <2>1, PartsOfOne
  <2>3. PartVoice(b) = Silent
    BY DEF PartVoice, Block
  <2> HIDE DEF b
  <2>4. PartVoices(<<b>>) = <<Silent>>
    BY <2>3, OnlyOne DEF PartVoices
  <2>5. QED
    BY <1>5, <1>7, <1>8, <2>2, <2>4, SameSilent DEF PartsFollow
<1>11. QED
  BY <1>4, <1>6, <1>9, <1>10 DEF Understood, m, s

(* What a speech is made of.                                               *)
LEMMA SpokenFields ==
  \A who, text : Spoken(who, text).who = who /\ Spoken(who, text).text = text
BY DEF Spoken

(* Results, what tools say with them, and their texts.                     *)
IsResult(a) ==
  IsAnswer(a) /\ (a.text = <<>> \/ \E id \in SomeId : a.text = <<<<"result", id>>>>)
ToolSpeeches(as) == [i \in DOMAIN as |-> Spoken("tool", as[i].text)]
ResultTexts(as) == [i \in DOMAIN as |-> as[i].text]

(* The newest of texts that a tool says is the newest of them joined.      *)
LEMMA JoinedEnds ==
  ASSUME NEW ts \in Seq(Text), NEW v \in Seq(VoiceSet), DOMAIN v = DOMAIN ts,
         \A i \in DOMAIN ts : v[i] = Voice("tool", ts[i])
  PROVE  /\ \A W : Same(v, W, <<Voice("tool", FlattenSeq(ts))>>, W)
         /\ FlattenSeq(ts) = <<>> => \A i \in DOMAIN ts : ts[i] = <<>>
<1> DEFINE t == FlattenSeq(ts)
           x == Voice("tool", t)
           I == {i \in 1 .. Len(ts) : ts[i] # <<>>}
<1>1. Len(ts) \in Nat /\ DOMAIN ts = 1 .. Len(ts) /\ ts \in Seq(Seq(Token))
  BY SequenceFacts DEF Text
<1>2. /\ (\A i \in DOMAIN ts : ts[i] = <<>>) => t = <<>>
      /\ \A i \in DOMAIN ts :
           ts[i] # <<>> /\ (\A j \in DOMAIN ts : j > i => ts[j] = <<>>)
             => t # <<>> /\ Last(t) = Last(ts[i])
  BY <1>1, FlattenEnds
<1> HIDE DEF t
<1>3. CASE \A i \in DOMAIN ts : ts[i] = <<>>
  <2>1. \A i \in DOMAIN v : v[i] = Silent
    BY <1>3 DEF Voice
  <2>2. x = Silent
    BY <1>2, <1>3 DEF Voice
  <2>3. \A W : (\A i \in DOMAIN v : ~ Of(v[i], W)) /\ \A i \in DOMAIN <<x>> : ~ Of(<<x>>[i], W)
    BY <2>1, <2>2, OnlyElement DEF Of
  <2> HIDE DEF x
  <2>4. \A W : Same(v, W, <<x>>, W)
    BY <2>3, SameSilent
  <2>5. QED
    BY <1>3, <2>4 DEF x, t
<1>4. CASE \E i \in DOMAIN ts : ts[i] # <<>>
  <2>1. I \in SUBSET (1 .. Len(ts)) /\ I # {} /\ \A i \in 1 .. Len(ts) : i \in I <=> ts[i] # <<>>
    BY <1>1, <1>4
  <2> HIDE DEF I
  <2>2. PICK i \in I : \A j \in I : j <= i
    BY <1>1, <2>1, GreatestNatural
  <2>3. i \in DOMAIN ts /\ ts[i] # <<>>
    BY <1>1, <2>1
  <2>4. ASSUME NEW j \in DOMAIN ts, j > i PROVE ts[j] = <<>>
    BY <1>1, <2>1, <2>2, <2>4
  <2>5. t # <<>> /\ Last(t) = Last(ts[i])
    BY <1>2, <2>3, <2>4
  <2>6. x = v[i] /\ x # Silent /\ x[1] = "tool"
    BY <2>3, <2>5 DEF Voice, Silent
  <2>7. \A W : \A j \in DOMAIN v : j > i => ~ Of(v[j], W)
    BY <2>4 DEF Voice, Of
  <2> HIDE DEF x
  <2>8. ASSUME NEW W PROVE Same(v, W, <<x>>, W)
    <3>1. CASE "tool" \in W
      <4>1. Of(x, W)
        BY <2>6, <3>1 DEF Of
      <4>2. Ends(v, W, x)
        BY <2>3, <2>6, <2>7, <4>1 DEF Ends
      <4>3. 1 \in DOMAIN <<x>> /\ <<x>>[1] = x /\ \A j \in DOMAIN <<x>> : ~ (j > 1)
        BY OnlyOne
      <4>4. Ends(<<x>>, W, x)
        BY <4>1, <4>3 DEF Ends
      <4>5. QED
        BY <4>2, <4>4 DEF Same
    <3>2. CASE "tool" \notin W
      <4>1. \A j \in DOMAIN v : v[j] = Silent \/ v[j][1] = "tool"
        BY DEF Voice
      <4>2. /\ \A j \in DOMAIN v : ~ Of(v[j], W)
            /\ \A j \in DOMAIN <<x>> : ~ Of(<<x>>[j], W)
        BY <2>6, <3>2, <4>1, OnlyElement DEF Of
      <4>3. QED
        BY <4>2, SameSilent
    <3>3. QED
      BY <3>1, <3>2
  <2>9. QED
    BY <2>5, <2>8 DEF x, t
<1>5. QED
  BY <1>3, <1>4

(* What tools say, and how it is heard.                                    *)
LEMMA ToolSpeechesType ==
  ASSUME NEW as, NEW n \in Nat, DOMAIN as = 1 .. n, \A i \in 1 .. n : IsResult(as[i])
  PROVE  /\ ToolSpeeches(as) \in Seq(SpeechSet) /\ DOMAIN ToolSpeeches(as) = 1 .. n
         /\ ResultTexts(as) \in Seq(Text) /\ DOMAIN ResultTexts(as) = 1 .. n
         /\ \A i \in 1 .. n : /\ ToolSpeeches(as)[i] = Spoken("tool", as[i].text)
                              /\ ResultTexts(as)[i] = as[i].text
         /\ SpeechVoices(ToolSpeeches(as)) \in Seq(VoiceSet)
         /\ DOMAIN SpeechVoices(ToolSpeeches(as)) = 1 .. n
         /\ \A i \in 1 .. n : SpeechVoices(ToolSpeeches(as))[i] = Voice("tool", as[i].text)
<1>1. \A i \in 1 .. n : as[i].text \in Text
  BY DEF IsResult, IsAnswer
<1>2. \A i \in 1 .. n : Spoken("tool", as[i].text) \in SpeechSet
  BY <1>1 DEF Spoken, SpeechSet
<1>3. ToolSpeeches(as) \in [1 .. n -> SpeechSet] /\ ResultTexts(as) \in [1 .. n -> Text]
  BY <1>1, <1>2 DEF ToolSpeeches, ResultTexts
<1>4. ToolSpeeches(as) \in Seq(SpeechSet) /\ ResultTexts(as) \in Seq(Text)
  BY <1>3, FunctionIsSequence
<1>5. \A i \in 1 .. n : /\ ToolSpeeches(as)[i] = Spoken("tool", as[i].text)
                        /\ ResultTexts(as)[i] = as[i].text
  BY DEF ToolSpeeches, ResultTexts
<1>6. SpeechVoices(ToolSpeeches(as)) \in Seq(VoiceSet)
  BY <1>4, SpeechVoicesType
<1>7. DOMAIN SpeechVoices(ToolSpeeches(as)) = 1 .. n
  BY <1>3 DEF SpeechVoices
<1>8. ASSUME NEW i \in 1 .. n
      PROVE  SpeechVoices(ToolSpeeches(as))[i] = Voice("tool", as[i].text)
  <2>1. ToolSpeeches(as)[i].who = "tool" /\ ToolSpeeches(as)[i].text = as[i].text
    <3>1. ToolSpeeches(as)[i] = Spoken("tool", as[i].text)
      BY <1>5
    <3>2. /\ Spoken("tool", as[i].text).who = "tool"
          /\ Spoken("tool", as[i].text).text = as[i].text
      BY SpokenFields
    <3>3. QED
      BY <3>1, <3>2
  <2>2. SpeechVoices(ToolSpeeches(as))[i]
          = Voice(ToolSpeeches(as)[i].who, ToolSpeeches(as)[i].text)
    BY <1>3 DEF SpeechVoices
  <2>3. QED
    BY <2>1, <2>2
<1>9. QED
  BY <1>3, <1>4, <1>5, <1>6, <1>7, <1>8

(* The last token of a result is a result's.                               *)
LEMMA ResultToken ==
  ASSUME NEW a, IsResult(a), a.text # <<>>
  PROVE  Last(a.text)[1] = "result"
<1>1. PICK id \in SomeId : a.text = <<<<"result", id>>>>
  BY DEF IsResult
<1> DEFINE token == <<"result", id>>
<1>2. a.text = <<token>> /\ token[1] = "result"
  BY <1>1
<1> HIDE DEF token
<1>3. QED
  BY <1>2 DEF Last

(* What tools say is not the user's word.                                  *)
LEMMA ToolsAreNoUsers ==
  ASSUME NEW as, NEW n \in Nat, DOMAIN as = 1 .. n, \A i \in 1 .. n : IsResult(as[i]),
         NEW w, \A i \in DOMAIN w : w[i] = Silent
  PROVE  \A Z, W : "tool" \notin Z => Same(SpeechVoices(ToolSpeeches(as)), Z, w, W)
<1> DEFINE v == SpeechVoices(ToolSpeeches(as))
<1>1. DOMAIN v = 1 .. n /\ \A i \in 1 .. n : v[i] = Voice("tool", as[i].text)
  BY ToolSpeechesType
<1> HIDE DEF v
<1>2. \A i \in DOMAIN v : v[i] = Silent \/ v[i][1] = "tool"
  <2>1. \A t : Voice("tool", t) = Silent \/ Voice("tool", t)[1] = "tool"
    BY DEF Voice
  <2>2. QED
    BY <1>1, <2>1, Zenon
<1>3. \A Z, W : "tool" \notin Z => /\ \A i \in DOMAIN v : ~ Of(v[i], Z)
                                   /\ \A i \in DOMAIN w : ~ Of(w[i], W)
  BY <1>2 DEF Of
<1>4. \A Z, W : "tool" \notin Z => Same(v, Z, w, W)
  BY <1>3, SameSilent
<1>5. QED
  BY <1>4 DEF v

(* Results that are a message each.                                        *)
LEMMA ResultsEachUnderstood ==
  ASSUME NEW as, NEW n \in Nat, DOMAIN as = 1 .. n, \A i \in 1 .. n : IsResult(as[i]),
         dialect \in {"openai", "openai_responses", "langchain"}
  PROVE  /\ Understood(ToolSpeeches(as), ResultMessages(as))
         /\ \A k \in DOMAIN ResultMessages(as) : Shown(ResultMessages(as)[k])
<1> DEFINE ms == ResultMessages(as)
           ss == ToolSpeeches(as)
<1>1. dialect \in Kinds /\ \A i \in 1 .. n : IsAnswer(as[i])
  BY DEF Kinds, Frameworks, IsResult
<1>2. ms \in Seq(MessageSet)
  BY <1>1, ResultMessagesType
<1>3. DOMAIN ms = 1 .. n
  BY DEF ResultMessages
<1>4. /\ ss \in Seq(SpeechSet) /\ DOMAIN ss = 1 .. n
      /\ SpeechVoices(ss) \in Seq(VoiceSet) /\ DOMAIN SpeechVoices(ss) = 1 .. n
      /\ \A i \in 1 .. n : SpeechVoices(ss)[i] = Voice("tool", as[i].text)
      /\ \A i \in 1 .. n : ss[i] = Spoken("tool", as[i].text)
  BY ToolSpeechesType
<1>5. ASSUME NEW i \in 1 .. n
      PROVE  /\ Heeded(ms[i]) = Voice("tool", as[i].text) /\ LiveVoice(ms[i]) = Silent
             /\ Shown(ms[i])
  <2> DEFINE a == as[i]
             m == ms[i]
  <2>1. \/ dialect = "openai" /\ m = [Plain EXCEPT !.role = "tool", !.content = a.text, !.name = a.name]
        \/ dialect = "openai_responses"
           /\ m = [Plain EXCEPT !.type = "function_call_output", !.output = a.text]
        \/ dialect = "langchain"
           /\ m = [Plain EXCEPT !.type = "tool", !.content = a.text, !.name = a.name]
    BY DEF ResultMessages, OpenAIResult, ResponsesResult
  <2>2. m \in MessageSet /\ IsResult(a)
    BY <1>2, <1>3, SequenceFacts
  <2> HIDE DEF m, a
  <2>3. m.blocks = <<>> /\ m.parts = <<>>
    BY <2>1 DEF Plain
  <2>4. \/ dialect = "openai" /\ m.role = "tool" /\ m.content = a.text /\ m.output = <<>>
        \/ /\ dialect = "openai_responses" /\ m.role = NoRole /\ m.type = "function_call_output"
           /\ m.output = a.text /\ m.content = <<>>
        \/ /\ dialect = "langchain" /\ m.role = NoRole /\ m.type = "tool"
           /\ m.content = a.text /\ m.output = <<>>
    BY <2>1 DEF Plain
  <2>5. MsgRole(m) = "tool"
    BY <2>4 DEF MsgRole, NoRole
  <2>6. BlocksText(m) \o Texts(m.parts, {"text", "function_result"}) = <<>>
    <3>1. BlocksText(m) = <<>> /\ Texts(m.parts, {"text", "function_result"}) = <<>>
      BY <2>3, TextsOfNone DEF BlocksText
    <3>2. QED
      BY <3>1
  <2>7. MsgText(m) = a.text
    BY <2>4, <2>6 DEF MsgText
  <2>8. Heeded(m) = Voice("tool", a.text)
    BY <2>5, <2>7 DEF Heeded, Class
  <2>9. LiveVoice(m) = Silent
    BY <2>4 DEF LiveVoice
  <2>10. ASSUME NEW t \in Text, t # <<>>, Says(m, t)
         PROVE  Heeded(m) # Silent /\ Last(t)[1] # "user"
    <3>1. \/ t = m.content \/ t = m.output
          \/ \E j \in DOMAIN m.blocks : t = m.blocks[j].text
          \/ \E j \in DOMAIN m.parts : t = m.parts[j].text
      BY <2>2, <2>10, SaysWhat
    <3>2. t = a.text
      BY <2>3, <2>4, <2>10, <3>1
    <3>3. Last(t)[1] = "result"
      BY <2>2, <2>10, <3>2, ResultToken
    <3>4. QED
      BY <2>8, <2>10, <3>2, <3>3 DEF Voice, Silent
  <2>11. Shown(m)
    BY <2>10 DEF Shown
  <2>12. QED
    BY <2>8, <2>9, <2>11 DEF m, a
<1> HIDE DEF ms, ss
<1>6. Follows(ss, ms)
  <2>1. Heedings(ms) = SpeechVoices(ss)
    BY <1>3, <1>4, <1>5 DEF Heedings, SpeechVoices
  <2>2. \A i \in DOMAIN ss : ss[i].who \in Hearable
    <3>1. "tool" \in Hearable
      BY DEF Hearable, Speakers
    <3>2. ASSUME NEW i \in DOMAIN ss PROVE ss[i].who = "tool"
      <4>1. ss[i] = Spoken("tool", as[i].text)
        BY <1>4
      <4>2. Spoken("tool", as[i].text).who = "tool"
        BY SpokenFields
      <4>3. QED
        BY <4>1, <4>2
    <3>3. QED
      BY <3>1, <3>2, Zenon
  <2>3. QED
    BY <1>4, <2>1, <2>2, AlikeFollows
<1>7. LiveFollows(ss, ms)
  <2>1. \A i \in DOMAIN LiveVoices(ms) : LiveVoices(ms)[i] = Silent
    BY <1>3, <1>5 DEF LiveVoices
  <2>2. Same(SpeechVoices(ss), {"user"}, LiveVoices(ms), {"user"})
    BY <2>1, ToolsAreNoUsers DEF ss
  <2>3. QED
    BY <2>2 DEF LiveFollows
<1>8. QED
  BY <1>3, <1>5, <1>6, <1>7 DEF Understood, ms, ss

(* Blocks that hold the texts of results, one each.                        *)
Holds(bs, as, ty) ==
  /\ bs \in Seq(BlockSet) /\ DOMAIN bs = DOMAIN as
  /\ \A i \in DOMAIN as : bs[i].type = ty /\ bs[i].text = as[i].text

(* The message of all the results of an answer, dialect by dialect.        *)
OneOfResults(m, as) ==
  /\ m \in MessageSet /\ m.content = <<>> /\ m.output = <<>>
  /\ \/ /\ dialect = "anthropic" /\ m.role = "user" /\ m.parts = <<>>
        /\ Holds(m.blocks, as, "tool_result")
     \/ /\ dialect = "strands" /\ m.role = "user" /\ m.parts = <<>>
        /\ Holds(m.blocks, as, "toolResult")
     \/ dialect = "pydantic_ai" /\ m.blocks = <<>> /\ Holds(m.parts, as, "tool-return")
     \/ /\ dialect = "google_adk" /\ m.type = "by agent" /\ m.blocks = <<>>
        /\ Holds(m.parts, as, "part")
     \/ /\ dialect = "agent_framework" /\ m.role = "tool" /\ m.type = "" /\ m.blocks = <<>>
        /\ Holds(m.parts, as, "function_result")

(* In the dialects that send the results in one message the message is one *)
(* of the results.                                                         *)
LEMMA ResultsInOne ==
  ASSUME NEW as, NEW n \in Nat, DOMAIN as = 1 .. n, \A i \in 1 .. n : IsResult(as[i]),
         dialect \in {"anthropic", "strands", "pydantic_ai", "google_adk", "agent_framework"}
  PROVE  \E m : ResultMessages(as) = <<m>> /\ OneOfResults(m, as)
<1> DEFINE P(ty) == [i \in DOMAIN as |-> Block(ty, as[i].text, NoName)]
           N(ty) == [i \in DOMAIN as |-> Block(ty, as[i].text, as[i].name)]
<1>1. \A i \in 1 .. n : IsAnswer(as[i])
  BY DEF IsResult
<1>2. dialect \in Kinds
  BY DEF Kinds, Frameworks
<1>3. ASSUME NEW ty \in BlockTypes PROVE Holds(P(ty), as, ty) /\ Holds(N(ty), as, ty)
  <2>1. P(ty) \in Seq(BlockSet) /\ N(ty) \in Seq(BlockSet)
    BY <1>1, ResultBlocksType
  <2>2. \A i \in DOMAIN as : /\ P(ty)[i].type = ty /\ P(ty)[i].text = as[i].text
                             /\ N(ty)[i].type = ty /\ N(ty)[i].text = as[i].text
    BY DEF Block
  <2>3. QED
    BY <2>1, <2>2 DEF Holds
<1> DEFINE Form(m) ==
             \/ dialect = "anthropic" /\ m = [Plain EXCEPT !.role = "user", !.blocks = P("tool_result")]
             \/ dialect = "strands" /\ m = [Plain EXCEPT !.role = "user", !.blocks = P("toolResult")]
             \/ dialect = "pydantic_ai" /\ m = [Plain EXCEPT !.parts = N("tool-return")]
             \/ dialect = "google_adk" /\ m = [Plain EXCEPT !.type = "by agent", !.parts = P("part")]
             \/ /\ dialect = "agent_framework"
                /\ m = [Plain EXCEPT !.role = "tool", !.parts = P("function_result")]
<1>4. \E m : ResultMessages(as) = <<m>> /\ Form(m)
  BY DEF ResultMessages, AnthropicResult
<1>5. PICK m : ResultMessages(as) = <<m>> /\ Form(m)
  BY <1>4
<1>6. \A ty \in BlockTypes : Holds(P(ty), as, ty) /\ Holds(N(ty), as, ty)
  BY <1>3
<1> HIDE DEF P, N
<1>7. /\ m.content = <<>> /\ m.output = <<>>
      /\ \/ /\ dialect = "anthropic" /\ m.role = "user" /\ m.parts = <<>>
            /\ m.blocks = P("tool_result")
         \/ /\ dialect = "strands" /\ m.role = "user" /\ m.parts = <<>>
            /\ m.blocks = P("toolResult")
         \/ dialect = "pydantic_ai" /\ m.blocks = <<>> /\ m.parts = N("tool-return")
         \/ /\ dialect = "google_adk" /\ m.type = "by agent" /\ m.blocks = <<>>
            /\ m.parts = P("part")
         \/ /\ dialect = "agent_framework" /\ m.role = "tool" /\ m.type = "" /\ m.blocks = <<>>
            /\ m.parts = P("function_result")
  BY <1>5 DEF Plain
<1>8. m \in MessageSet
  <2>1. ResultMessages(as) \in Seq(MessageSet)
    BY <1>1, <1>2, ResultMessagesType
  <2>2. <<m>> \in Seq(MessageSet)
    BY <1>5, <2>1
  <2>3. QED
    BY <2>2
<1>9. OneOfResults(m, as)
  BY <1>6, <1>7, <1>8 DEF OneOfResults, BlockTypes
<1>10. QED
  BY <1>5, <1>9

(* The texts that the blocks of results say.                               *)
LEMMA HoldsSay ==
  ASSUME NEW as, NEW n \in Nat, DOMAIN as = 1 .. n, \A i \in 1 .. n : IsResult(as[i]),
         NEW bs, NEW ty, Holds(bs, as, ty)
  PROVE  \A types : Texts(bs, types) = IF ty \in types THEN FlattenSeq(ResultTexts(as)) ELSE <<>>
<1>1. /\ bs \in Seq(BlockSet) /\ DOMAIN bs = 1 .. n
      /\ \A i \in 1 .. n : bs[i].type = ty /\ bs[i].text = as[i].text
  BY DEF Holds
<1>2. ASSUME NEW types
      PROVE  Texts(bs, types) = IF ty \in types THEN FlattenSeq(ResultTexts(as)) ELSE <<>>
  <2>1. CASE ty \in types
    <3>1. [i \in DOMAIN bs |-> IF bs[i].type \in types THEN bs[i].text ELSE <<>>]
            = ResultTexts(as)
      BY <1>1, <2>1 DEF ResultTexts
    <3>2. QED
      BY <2>1, <3>1 DEF Texts
  <2>2. CASE ty \notin types
    <3>1. \A i \in DOMAIN bs : bs[i].type \in types => bs[i].text = <<>>
      BY <1>1, <2>2
    <3>2. QED
      BY <1>1, <2>2, <3>1, TextsOfSilent
  <2>3. QED
    BY <2>1, <2>2
<1>3. QED
  BY <1>2

(* What the message of the results says, and how it is heard.              *)
LEMMA OneOfResultsHeard ==
  ASSUME NEW as, NEW n \in Nat, DOMAIN as = 1 .. n, \A i \in 1 .. n : IsResult(as[i]),
         NEW m, OneOfResults(m, as)
  PROVE  LET t == FlattenSeq(ResultTexts(as))
         IN  /\ \A text \in Text : text # <<>> /\ Says(m, text) =>
                  /\ Last(text)[1] = "result"
                  /\ \E i \in 1 .. n : text = as[i].text
             /\ dialect \in {"anthropic", "agent_framework"} => Heeded(m) = Voice("tool", t)
             /\ dialect = "strands" => Heeded(m) = Silent
             /\ dialect \in Prompting => LiveVoice(m) = Silent
<1> DEFINE t == FlattenSeq(ResultTexts(as))
<1>1. t \in Seq(Token)
  <2>1. ResultTexts(as) \in Seq(Seq(Token))
    BY ToolSpeechesType DEF Text
  <2>2. QED
    BY <2>1, FlattenType
<1>2. \A bs, ty : Holds(bs, as, ty) =>
        \A types : Texts(bs, types) = IF ty \in types THEN t ELSE <<>>
  BY HoldsSay
<1>3. n = 0 => t = <<>>
  <2>1. ResultTexts(as) \in Seq(Seq(Token)) /\ DOMAIN ResultTexts(as) = 1 .. n
    BY ToolSpeechesType DEF Text
  <2>2. n = 0 => \A i \in DOMAIN ResultTexts(as) : ResultTexts(as)[i] = <<>>
    BY <2>1
  <2>3. QED
    BY <2>1, <2>2, FlattenEnds
<1>4. m \in MessageSet /\ m.content = <<>> /\ m.output = <<>>
  BY DEF OneOfResults
<1>5. \A types : Texts(<<>>, types) = <<>>
  BY TextsOfNone
<1> HIDE DEF t
<1>6. ASSUME NEW text \in Text, text # <<>>, Says(m, text)
      PROVE  Last(text)[1] = "result" /\ \E i \in 1 .. n : text = as[i].text
  <2>1. \/ text = m.content \/ text = m.output
        \/ \E i \in DOMAIN m.blocks : text = m.blocks[i].text
        \/ \E i \in DOMAIN m.parts : text = m.parts[i].text
    BY <1>4, <1>6, SaysWhat
  <2>2. /\ m.blocks = <<>> \/ \E ty : Holds(m.blocks, as, ty)
        /\ m.parts = <<>> \/ \E ty : Holds(m.parts, as, ty)
    BY DEF OneOfResults
  <2>3. \A ty, bs : Holds(bs, as, ty) => \A i \in DOMAIN bs : i \in 1 .. n /\ bs[i].text = as[i].text
    BY DEF Holds
  <2>4. text # m.content /\ text # m.output
    BY <1>4, <1>6
  <2>5. \E i \in 1 .. n : text = as[i].text
    <3>1. CASE \E i \in DOMAIN m.blocks : text = m.blocks[i].text
      <4>1. PICK i \in DOMAIN m.blocks : text = m.blocks[i].text
        BY <3>1
      <4>2. m.blocks # <<>>
        BY <4>1
      <4>3. i \in 1 .. n /\ m.blocks[i].text = as[i].text
        BY <2>2, <2>3, <4>2
      <4>4. QED
        BY <4>1, <4>3
    <3>2. CASE \E i \in DOMAIN m.parts : text = m.parts[i].text
      <4>1. PICK i \in DOMAIN m.parts : text = m.parts[i].text
        BY <3>2
      <4>2. m.parts # <<>>
        BY <4>1
      <4>3. i \in 1 .. n /\ m.parts[i].text = as[i].text
        BY <2>2, <2>3, <4>2
      <4>4. QED
        BY <4>1, <4>3
    <3>3. QED
      BY <2>1, <2>4, <3>1, <3>2
  <2>6. PICK i \in 1 .. n : text = as[i].text
    BY <2>5
  <2>7. IsResult(as[i])
    OBVIOUS
  <2>8. Last(as[i].text)[1] = "result"
    BY <1>6, <2>6, <2>7, ResultToken
  <2>9. QED
    BY <2>6, <2>8
<1>7. MsgText(m) = BlocksText(m) \o Texts(m.parts, {"text", "function_result"})
  BY <1>4 DEF MsgText
<1>8. dialect = "anthropic" => Heeded(m) = Voice("tool", t)
  <2>1. SUFFICES ASSUME dialect = "anthropic" PROVE Heeded(m) = Voice("tool", t)
    OBVIOUS
  <2>2. m.role = "user" /\ m.parts = <<>> /\ Holds(m.blocks, as, "tool_result")
    BY <2>1 DEF OneOfResults
  <2>3. BlocksText(m) = t
    <3>1. Texts(m.blocks, {"text", "tool_result"}) = t
      BY <1>2, <2>2
    <3>2. QED
      BY <3>1 DEF BlocksText
  <2>4. Texts(m.parts, {"text", "function_result"}) = <<>>
    BY <1>5, <2>2
  <2>5. MsgText(m) = t
    BY <1>1, <1>7, <2>3, <2>4
  <2>6. CASE n = 0
    BY <1>3, <2>5, <2>6 DEF Heeded, Voice
  <2>7. CASE n # 0
    <3>1. DOMAIN m.blocks = 1 .. n /\ \A i \in DOMAIN m.blocks : m.blocks[i].type = "tool_result"
      BY <2>2 DEF Holds
    <3>2. m.blocks # <<>>
      BY <2>7, <3>1
    <3>3. OnlyResults(m)
      BY <3>1, <3>2 DEF OnlyResults
    <3>4. MsgRole(m) = "tool"
      BY <2>2, <3>3 DEF MsgRole, NoRole
    <3>5. QED
      BY <2>5, <3>4 DEF Heeded, Class
  <2>8. QED
    BY <2>6, <2>7
<1>9. dialect = "agent_framework" => Heeded(m) = Voice("tool", t)
  <2>1. SUFFICES ASSUME dialect = "agent_framework" PROVE Heeded(m) = Voice("tool", t)
    OBVIOUS
  <2>2. m.role = "tool" /\ m.blocks = <<>> /\ Holds(m.parts, as, "function_result")
    BY <2>1 DEF OneOfResults
  <2>3. Texts(m.parts, {"text", "function_result"}) = t
    BY <1>2, <2>2
  <2>4. BlocksText(m) = <<>>
    BY <1>5, <2>2 DEF BlocksText
  <2>5. MsgText(m) = t
    BY <1>1, <1>7, <2>3, <2>4
  <2>6. MsgRole(m) = "tool"
    BY <2>2 DEF MsgRole, NoRole
  <2>7. QED
    BY <2>5, <2>6 DEF Heeded, Class
<1>10. dialect = "strands" => Heeded(m) = Silent /\ LiveVoice(m) = Silent
  <2>1. SUFFICES ASSUME dialect = "strands" PROVE Heeded(m) = Silent /\ LiveVoice(m) = Silent
    OBVIOUS
  <2>2. m.role = "user" /\ m.parts = <<>> /\ Holds(m.blocks, as, "toolResult")
    BY <2>1 DEF OneOfResults
  <2>3. /\ Texts(m.blocks, {"text", "tool_result"}) = <<>>
        /\ Texts(m.blocks, {"text"}) = <<>>
    <3>1. \A types : Texts(m.blocks, types) = IF "toolResult" \in types THEN t ELSE <<>>
      BY <1>2, <2>2
    <3>2. "toolResult" \notin {"text", "tool_result"} /\ "toolResult" \notin {"text"}
      OBVIOUS
    <3>3. QED
      BY <3>1, <3>2
  <2>4. Texts(m.parts, {"text", "function_result"}) = <<>>
    BY <1>5, <2>2
  <2>5. MsgText(m) = <<>>
    BY <1>7, <2>3, <2>4 DEF BlocksText
  <2>6. QED
    BY <2>1, <2>2, <2>3, <2>5 DEF Heeded, LiveVoice, Voice
<1>11. dialect = "anthropic" => LiveVoice(m) = Silent
  <2>1. SUFFICES ASSUME dialect = "anthropic" PROVE LiveVoice(m) = Silent
    OBVIOUS
  <2>2. m.role = "user" /\ Holds(m.blocks, as, "tool_result")
    BY <2>1 DEF OneOfResults
  <2>3. m.blocks \in Seq(BlockSet) /\ \A i \in DOMAIN m.blocks : m.blocks[i].type \notin {"text"}
    BY <2>2 DEF Holds
  <2>4. TextOfBlocks(m.blocks, {"text"}) = <<>>
    BY <2>3, TextOfBlocksIs
  <2>5. WordOf(m) = <<>>
    BY <1>4, <2>4 DEF WordOf
  <2>6. QED
    BY <2>1, <2>2, <2>5 DEF LiveVoice, Voice
<1>12. dialect = "google_adk" => LiveVoice(m) = Silent
  BY DEF OneOfResults, LiveVoice
<1>13. dialect # "openai"
  BY DEF OneOfResults
<1>14. QED
  BY <1>6, <1>8, <1>9, <1>10, <1>11, <1>12, <1>13 DEF Prompting, t

(* Results that are one message together.                                  *)
LEMMA ResultsTogetherUnderstood ==
  ASSUME NEW as, NEW n \in Nat, DOMAIN as = 1 .. n, \A i \in 1 .. n : IsResult(as[i]),
         dialect \in {"anthropic", "strands", "pydantic_ai", "google_adk", "agent_framework"}
  PROVE  /\ Understood(ToolSpeeches(as), ResultMessages(as))
         /\ \A k \in DOMAIN ResultMessages(as) : Shown(ResultMessages(as)[k])
<1> DEFINE ss == ToolSpeeches(as)
           v == SpeechVoices(ss)
           ts == ResultTexts(as)
           t == FlattenSeq(ts)
<1>1. PICK m : ResultMessages(as) = <<m>> /\ OneOfResults(m, as)
  BY ResultsInOne
<1>2. /\ \A text \in Text : text # <<>> /\ Says(m, text) =>
           /\ Last(text)[1] = "result"
           /\ \E i \in 1 .. n : text = as[i].text
      /\ dialect \in {"anthropic", "agent_framework"} => Heeded(m) = Voice("tool", t)
      /\ dialect = "strands" => Heeded(m) = Silent
      /\ dialect \in Prompting => LiveVoice(m) = Silent
  BY <1>1, OneOfResultsHeard
<1>3. m \in MessageSet
  BY <1>1 DEF OneOfResults
<1>4. <<m>> \in Seq(MessageSet) /\ Heedings(<<m>>) = <<Heeded(m)>>
      /\ LiveVoices(<<m>>) = <<LiveVoice(m)>>
  BY <1>3, OnlyOne DEF Heedings, LiveVoices
<1>5. /\ ss \in Seq(SpeechSet) /\ v \in Seq(VoiceSet) /\ ts \in Seq(Text)
      /\ DOMAIN v = 1 .. n /\ DOMAIN ts = 1 .. n
      /\ \A i \in 1 .. n : v[i] = Voice("tool", as[i].text) /\ ts[i] = as[i].text
  BY ToolSpeechesType
<1> HIDE DEF v, ts, ss
<1>6. /\ \A W : Same(v, W, <<Voice("tool", t)>>, W)
      /\ t = <<>> => \A i \in 1 .. n : as[i].text = <<>>
  <2>1. \A i \in DOMAIN ts : v[i] = Voice("tool", ts[i])
    BY <1>5
  <2>2. DOMAIN v = DOMAIN ts
    BY <1>5
  <2>3. /\ \A W : Same(v, W, <<Voice("tool", t)>>, W)
        /\ t = <<>> => \A i \in DOMAIN ts : ts[i] = <<>>
    BY <1>5, <2>1, <2>2, JoinedEnds
  <2>4. QED
    BY <1>5, <2>3
<1> HIDE DEF t
<1>7. \A w : (\A i \in DOMAIN w : w[i] = Silent) =>
               \A Z, W : "tool" \notin Z => Same(v, Z, w, W)
  BY ToolsAreNoUsers DEF v, ss
<1>8. \A i \in DOMAIN <<Silent>> : <<Silent>>[i] = Silent
  BY OnlyElement
<1>9. dialect \in Generic => Follows(ss, <<m>>)
  <2>1. CASE dialect \in {"anthropic", "agent_framework"}
    <3>1. \A W \in SUBSET Speakers : W \cap Hearable = W
      BY <2>1 DEF Hearable
    <3>2. Heedings(<<m>>) = <<Voice("tool", t)>>
      BY <1>2, <1>4, <2>1
    <3>3. \A W \in SUBSET Speakers : Same(v, W, Heedings(<<m>>), W)
      BY <1>6, <3>2, Zenon
    <3>4. \A W \in SUBSET Speakers : Same(v, W \cap Hearable, Heedings(<<m>>), W)
      BY <3>1, <3>3, Zenon
    <3>5. QED
      BY <1>5, <3>4, SameFollows DEF v
  <2>2. CASE dialect = "strands"
    <3>1. "tool" \notin Hearable
      BY <2>2 DEF Hearable
    <3>2. \A W \in SUBSET Speakers : Same(v, W \cap Hearable, Heedings(<<m>>), W)
      BY <1>2, <1>4, <1>7, <1>8, <2>2, <3>1
    <3>3. QED
      BY <1>5, <3>2, SameFollows DEF v
  <2>3. QED
    BY <2>1, <2>2 DEF Generic
<1>10. dialect \in Prompting => LiveFollows(ss, <<m>>)
  BY <1>2, <1>4, <1>7, <1>8 DEF LiveFollows, v
<1>11. dialect = "pydantic_ai" => PartsFollow(ss, <<m>>)
  <2>1. SUFFICES ASSUME dialect = "pydantic_ai" PROVE PartsFollow(ss, <<m>>)
    OBVIOUS
  <2>2. /\ m.parts \in Seq(BlockSet) /\ DOMAIN m.parts = 1 .. n
        /\ \A i \in 1 .. n : m.parts[i].type = "tool-return" /\ m.parts[i].text = as[i].text
    BY <1>1, <2>1 DEF OneOfResults, Holds
  <2>3. \A i \in 1 .. n : PartVoice(m.parts[i]) = v[i]
    BY <1>5, <2>2 DEF PartVoice
  <2>4. PartVoices(m.parts) = v
    BY <1>5, <2>2, <2>3 DEF PartVoices
  <2>5. PartsOf(<<m>>) = m.parts
    BY <1>3, PartsOfOne
  <2>6. Same(v, {"user", "tool"}, v, {"user", "tool"})
    BY <1>5, SameAlike
  <2>7. QED
    BY <2>4, <2>5, <2>6 DEF PartsFollow, v
<1>12. Shown(m)
  <2>1. ASSUME NEW text \in Text, text # <<>>, Says(m, text)
        PROVE  /\ dialect \in Generic /\ Heeded(m) = Silent =>
                    dialect = "strands" /\ Last(text)[1] = "result"
               /\ Last(text)[1] # "user"
    <3>1. Last(text)[1] = "result" /\ t # <<>>
      BY <1>2, <1>6, <2>1
    <3>2. dialect \in {"anthropic", "agent_framework"} => Heeded(m) # Silent
      BY <1>2, <3>1 DEF Voice, Silent
    <3>3. dialect \in Generic => dialect \in {"anthropic", "agent_framework", "strands"}
      BY DEF Generic
    <3>4. QED
      BY <3>1, <3>2, <3>3
  <2>2. QED
    BY <2>1 DEF Shown
<1>13. \A k \in DOMAIN <<m>> : Shown(<<m>>[k])
  BY <1>12, OnlyElement
<1>14. QED
  BY <1>1, <1>9, <1>10, <1>11, <1>13 DEF Understood, ss

(* The messages of results tell what the tools said, in every dialect.     *)
LEMMA ResultsUnderstood ==
  ASSUME NEW as, NEW n \in Nat, DOMAIN as = 1 .. n, \A i \in 1 .. n : IsResult(as[i]),
         dialect \in Kinds
  PROVE  /\ Understood(ToolSpeeches(as), ResultMessages(as))
         /\ \A k \in DOMAIN ResultMessages(as) : Shown(ResultMessages(as)[k])
<1>1. CASE dialect \in {"openai", "openai_responses", "langchain"}
  BY <1>1, ResultsEachUnderstood
<1>2. CASE dialect \in {"anthropic", "strands", "pydantic_ai", "google_adk", "agent_framework"}
  BY <1>2, ResultsTogetherUnderstood
<1>3. CASE dialect = "gemini"
  BY <1>3 DEF Understood, Shown, Generic, Prompting
<1>4. QED
  BY <1>1, <1>2, <1>3 DEF Kinds, Frameworks

-----------------------------------------------------------------------------
(* The text beside results                                                 *)

(* A message without blocks has none of a result.                          *)
LEMMA NoBlocksBoxed ==
  ASSUME NEW m, m.blocks = <<>>, dialect \in Generic => m.role # "model"
  PROVE  Boxes(m)
<1>1. \A i \in DOMAIN <<>> : FALSE
  OBVIOUS
<1>2. QED
  BY <1>1 DEF Boxes

(* No speech and no call is a result.                                      *)
LEMMA SpeechBoxed ==
  ASSUME NEW text \in Text, dialect \in Kinds
  PROVE  Boxes(UserMessage(text)) /\ Boxes(ModelMessage(text))
<1>1. \A i \in DOMAIN <<Block("text", text, NoName)>> :
        <<Block("text", text, NoName)>>[i].type = "text"
  BY OnlyElement DEF Block
<1>2. /\ UserMessage(text).blocks = <<>>
         \/ UserMessage(text).blocks = <<Block("text", text, NoName)>>
      /\ ModelMessage(text).blocks = <<>>
         \/ ModelMessage(text).blocks = <<Block("text", text, NoName)>>
  BY DEF UserMessage, ModelMessage, Plain, Kinds, Frameworks
<1>3. dialect \in Generic => UserMessage(text).role # "model" /\ ModelMessage(text).role # "model"
  BY DEF UserMessage, ModelMessage, Plain, NoRole, Generic
<1>4. QED
  BY <1>1, <1>2, <1>3 DEF Boxes

(* The messages of calls have no result in their blocks, and where the     *)
(* generic generators hear, none is Gemini's model's.                      *)
LEMMA CallsBoxed ==
  ASSUME NEW ps \in Seq(PayloadSet), dialect \in Kinds
  PROVE  Boxed(AssistantMessages(ps))
<1> DEFINE ms == AssistantMessages(ps)
           B(ty) == CallBlocks(ps, ty)
           Form(m) ==
             \/ m = [Plain EXCEPT !.role = "assistant", !.calls = NamesIn(ps)]
             \/ m = [Plain EXCEPT !.type = "ai", !.calls = NamesIn(ps)]
             \/ m = [Plain EXCEPT !.role = "assistant", !.blocks = B("tool_use")]
             \/ m = [Plain EXCEPT !.role = "assistant", !.blocks = B("toolUse")]
             \/ m = [Plain EXCEPT !.parts = B("tool-call")]
             \/ m = [Plain EXCEPT !.type = "by agent", !.parts = B("part")]
             \/ m = [Plain EXCEPT !.role = "assistant", !.parts = B("function_call")]
             \/ /\ dialect \notin Generic
                /\ m = [Plain EXCEPT !.role = "model", !.parts = B("part")]
<1>1. \A i \in DOMAIN B("tool_use") : B("tool_use")[i].type = "tool_use"
  BY DEF CallBlocks, Block
<1>2. \A i \in DOMAIN B("toolUse") : B("toolUse")[i].type = "toolUse"
  BY DEF CallBlocks, Block
<1>3. CASE dialect = "openai_responses"
  <2>1. \A i \in DOMAIN ms : ms[i] = [Plain EXCEPT !.type = "function_call", !.name = ps[i].name]
    BY <1>3 DEF AssistantMessages
  <2>2. \A n : [Plain EXCEPT !.type = "function_call", !.name = n].blocks = <<>>
    BY DEF Plain
  <2>3. \A n : [Plain EXCEPT !.type = "function_call", !.name = n].role # "model"
    BY DEF Plain, NoRole
  <2>4. \A i \in DOMAIN ms : ms[i].blocks = <<>> /\ ms[i].role # "model"
    BY <2>1, <2>2, <2>3
  <2>5. QED
    BY <2>4, NoBlocksBoxed DEF Boxed
<1>4. CASE dialect # "openai_responses"
  <2>1. \E m : ms = <<m>> /\ Form(m)
    BY <1>4 DEF AssistantMessages, Kinds, Frameworks, Generic
  <2> HIDE DEF B, ms
  <2>2. PICK m : ms = <<m>> /\ Form(m)
    BY <2>1
  <2>3. m.blocks = <<>> \/ m.blocks = B("tool_use") \/ m.blocks = B("toolUse")
    BY <2>2 DEF Plain
  <2>4. dialect \in Generic => m.role # "model"
    BY <2>2 DEF Plain, NoRole
  <2>5. Boxes(m)
    BY <1>1, <1>2, <2>3, <2>4 DEF Boxes
  <2>6. Boxed(ms)
    BY <2>2, <2>5, OnlyElement DEF Boxed
  <2>7. QED
    BY <2>6 DEF ms
<1>5. QED
  BY <1>3, <1>4

(* Results are.                                                            *)
LEMMA ResultsBoxed ==
  ASSUME NEW as, NEW n \in Nat, DOMAIN as = 1 .. n, \A i \in 1 .. n : IsResult(as[i]),
         dialect \in Kinds
  PROVE  Boxed(ResultMessages(as))
<1>1. CASE dialect \in {"openai", "openai_responses", "langchain"}
  <2> DEFINE Mine(a) == [Plain EXCEPT !.type = "tool", !.content = a.text, !.name = a.name]
  <2>1. \A a : /\ OpenAIResult(a).blocks = <<>> /\ OpenAIResult(a).role # "model"
               /\ ResponsesResult(a).blocks = <<>> /\ ResponsesResult(a).role # "model"
               /\ Mine(a).blocks = <<>> /\ Mine(a).role # "model"
    BY DEF OpenAIResult, ResponsesResult, Plain, NoRole
  <2>2. \/ ResultMessages(as) = [i \in DOMAIN as |-> OpenAIResult(as[i])]
        \/ ResultMessages(as) = [i \in DOMAIN as |-> ResponsesResult(as[i])]
        \/ ResultMessages(as) = [i \in DOMAIN as |-> Mine(as[i])]
    BY <1>1 DEF ResultMessages
  <2> HIDE DEF Mine
  <2>3. \A k \in DOMAIN ResultMessages(as) :
           ResultMessages(as)[k].blocks = <<>> /\ ResultMessages(as)[k].role # "model"
    BY <2>1, <2>2
  <2>4. QED
    BY <2>3, NoBlocksBoxed DEF Boxed
<1>2. CASE dialect \in {"anthropic", "strands", "pydantic_ai", "google_adk", "agent_framework"}
  <2>1. PICK m : ResultMessages(as) = <<m>> /\ OneOfResults(m, as)
    BY <1>2, ResultsInOne
  <2>2. Boxes(m)
    <3>1. CASE dialect = "anthropic"
      BY <2>1, <3>1 DEF OneOfResults, Boxes
    <3>2. CASE dialect = "strands"
      <4>1. \A i \in DOMAIN m.blocks : m.blocks[i].type = "toolResult"
        BY <2>1, <3>2 DEF OneOfResults, Holds
      <4>2. QED
        BY <2>1, <3>2, <4>1 DEF OneOfResults, Boxes
    <3>3. CASE dialect \notin {"anthropic", "strands"}
      BY <2>1, <3>3, NoBlocksBoxed DEF OneOfResults, Generic
    <3>4. QED
      BY <3>1, <3>2, <3>3
  <2>3. QED
    BY <2>1, <2>2, OnlyElement DEF Boxed
<1>3. CASE dialect = "gemini"
  <2>1. \A c : [Plain EXCEPT !.role = "user", !.parts = c].blocks = <<>>
    BY DEF Plain
  <2>2. \E c : ResultMessages(as) = <<[Plain EXCEPT !.role = "user", !.parts = c]>>
    BY <1>3 DEF ResultMessages
  <2>3. PICK m : ResultMessages(as) = <<m>> /\ m.blocks = <<>>
    BY <2>1, <2>2
  <2>4. QED
    BY <1>3, <2>3, NoBlocksBoxed, OnlyElement DEF Boxed, Generic
<1>4. QED
  BY <1>1, <1>2, <1>3 DEF Kinds, Frameworks

(* They stay so in a conversation of both.                                 *)
LEMMA BoxedConcat ==
  ASSUME NEW ms \in Seq(MessageSet), NEW ns \in Seq(MessageSet), Boxed(ms), Boxed(ns)
  PROVE  Boxed(ms \o ns)
<1>1. \A k \in DOMAIN (ms \o ns) :
        \/ k \in DOMAIN ms /\ (ms \o ns)[k] = ms[k]
        \/ \E i \in DOMAIN ns : (ms \o ns)[k] = ns[i]
  <2>1. /\ \A i \in DOMAIN ms : (ms \o ns)[i] = ms[i]
        /\ \A i \in DOMAIN ns : (ms \o ns)[Len(ms) + i] = ns[i]
        /\ \A k \in DOMAIN (ms \o ns) :
             k \in DOMAIN ms \/ (k - Len(ms) \in DOMAIN ns /\ k = Len(ms) + (k - Len(ms)))
    BY PlacesOfConcat
  <2>2. QED
    BY <2>1
<1>2. QED
  BY <1>1 DEF Boxed

(* The newest voice of all, if it is meant.                                *)
LEMMA EndsAtLast ==
  ASSUME NEW S, NEW v \in Seq(S), v # <<>>, NEW W, Of(v[Len(v)], W)
  PROVE  Ends(v, W, v[Len(v)])
<1> DEFINE n == Len(v)
<1>1. n \in DOMAIN v /\ \A j \in DOMAIN v : ~ (j > n)
  OBVIOUS
<1> HIDE DEF n
<1>2. Of(v[n], W)
  BY DEF n
<1>3. Ends(v, W, v[n])
  BY <1>1, <1>2 DEF Ends
<1>4. QED
  BY <1>3 DEF n

(* The user's text is the newest thing a message says that it was added to.*)
LEMMA UserTextLast ==
  ASSUME TypeOK
  PROVE  UserText \in Text /\ UserText # <<>> /\ Last(UserText) = <<"user", Len(said)>>
<1> DEFINE a == <<"please", 0>>
           b == <<"user", Len(said)>>
<1>1. UserText = <<a, b>>
  BY DEF UserText
<1> HIDE DEF a, b
<1>2. <<a, b>> # <<>> /\ Last(<<a, b>>) = b
  BY DEF Last
<1>3. QED
  BY <1>1, <1>2, TextsType DEF b

(* A message of results that the user's text was added to is the user's,   *)
(* in his newest words.                                                    *)
LEMMA BesideHeard ==
  ASSUME TypeOK, dialect = "anthropic", NEW m \in MessageSet, Boxes(m),
         \E j \in DOMAIN m.blocks : m.blocks[j].type = "tool_result"
  PROVE  LET x == Voice("user", UserText)
         IN  /\ Heeded(Beside(m)) = x /\ Mixed(Beside(m))
             /\ LiveVoice(Beside(m)) # Silent
             /\ ~ Behind(Beside(m)) => LiveVoice(Beside(m)) = x
             /\ Boxes(Beside(m)) /\ Shown(Beside(m))
<1> DEFINE b == Block("text", UserText, NoName)
           mm == Beside(m)
           n == Len(m.blocks)
<1>1. /\ m.role = "user" /\ m.content = <<>> /\ m.output = <<>> /\ m.parts = <<>>
      /\ m.blocks \in Seq(BlockSet)
  BY MessageFields DEF Boxes
<1>2. /\ mm \in MessageSet /\ mm.blocks = m.blocks \o <<b>> /\ mm.role = "user"
      /\ mm.parts = <<>>
  BY <1>1, BesideType
<1>3. mm.content = <<>> /\ mm.output = <<>>
  BY <1>1 DEF Beside, MessageSet
<1>4. b.type = "text" /\ b.text = UserText /\ b \in BlockSet
  BY BlockType, UserTextLast, EmptySequences DEF Block, BlockTypes
<1>5. UserText \in Text /\ UserText # <<>>
  BY UserTextLast
<1> HIDE DEF b, mm
<1>6. /\ n \in Nat /\ DOMAIN m.blocks = 1 .. n /\ DOMAIN mm.blocks = 1 .. n + 1
      /\ \A i \in 1 .. n : mm.blocks[i] = m.blocks[i]
      /\ mm.blocks[n + 1] = b /\ mm.blocks \in Seq(BlockSet)
  BY <1>1, <1>2, <1>4
<1>7. PICK j \in 1 .. n : mm.blocks[j].type = "tool_result"
  BY <1>6
<1>8. n + 1 \in DOMAIN mm.blocks /\ j \in DOMAIN mm.blocks
  BY <1>6
<1>9. ~ OnlyResults(mm) /\ Mixed(mm)
  BY <1>4, <1>6, <1>7, <1>8 DEF OnlyResults, Mixed
<1>10. MsgRole(mm) = "user"
  BY <1>2, <1>9 DEF MsgRole, NoRole
<1>11. MsgText(mm) # <<>> /\ Last(MsgText(mm)) = Last(UserText)
  <2> DEFINE types == {"text", "tool_result"}
             ts == TextsEach(mm.blocks, types)
  <2>1. /\ ts \in Seq(Text) /\ DOMAIN ts = 1 .. n + 1
        /\ Texts(mm.blocks, types) = FlattenSeq(ts)
    BY <1>6, TextsEachType
  <2>2. ts[n + 1] = UserText
    <3>1. ts[n + 1] = IF mm.blocks[n + 1].type \in types THEN mm.blocks[n + 1].text ELSE <<>>
      BY <1>8 DEF TextsEach
    <3>2. QED
      BY <1>4, <1>6, <3>1
  <2> HIDE DEF ts
  <2>3. ts \in Seq(Seq(Token)) /\ n + 1 \in DOMAIN ts /\ \A k \in DOMAIN ts : ~ (k > n + 1)
    BY <1>6, <2>1 DEF Text
  <2>4. FlattenSeq(ts) # <<>> /\ Last(FlattenSeq(ts)) = Last(ts[n + 1])
    BY <1>5, <2>2, <2>3, FlattenEnds
  <2>5. FlattenSeq(ts) \in Seq(Token)
    BY <2>3, FlattenType
  <2>6. BlocksText(mm) = FlattenSeq(ts)
    BY <2>1 DEF BlocksText
  <2>7. Texts(mm.parts, {"text", "function_result"}) = <<>>
    BY <1>2, TextsOfNone
  <2>8. MsgText(mm) = FlattenSeq(ts)
    BY <1>3, <2>5, <2>6, <2>7 DEF MsgText
  <2>9. QED
    BY <2>2, <2>4, <2>8
<1>12. Heeded(mm) = Voice("user", UserText)
  BY <1>5, <1>10, <1>11 DEF Heeded, Voice, Class
<1>13. WordOf(mm) = TextOfBlocks(mm.blocks, {"text"})
  BY <1>3 DEF WordOf
<1>14. PICK i \in DOMAIN mm.blocks :
         /\ mm.blocks[i].type \in {"text"} /\ mm.blocks[i].text # <<>>
         /\ TextOfBlocks(mm.blocks, {"text"}) = mm.blocks[i].text
  <2>1. mm.blocks[n + 1].type \in {"text"} /\ mm.blocks[n + 1].text # <<>>
    BY <1>4, <1>5, <1>6
  <2>2. \/ /\ TextOfBlocks(mm.blocks, {"text"}) = <<>>
           /\ \A k \in DOMAIN mm.blocks :
                mm.blocks[k].type \in {"text"} => mm.blocks[k].text = <<>>
        \/ \E i \in DOMAIN mm.blocks :
             /\ mm.blocks[i].type \in {"text"} /\ mm.blocks[i].text # <<>>
             /\ TextOfBlocks(mm.blocks, {"text"}) = mm.blocks[i].text
    <3>1. mm.blocks \in Seq(BlockSet)
      BY <1>6
    <3>2. QED
      BY <3>1, TextOfBlocksIs
  <2>3. QED
    BY <1>8, <2>1, <2>2
<1>15. LiveVoice(mm) = Voice("user", mm.blocks[i].text) /\ LiveVoice(mm) # Silent
  BY <1>2, <1>13, <1>14 DEF LiveVoice, Voice, Silent
<1>16. ASSUME ~ Behind(mm) PROVE LiveVoice(mm) = Voice("user", UserText)
  <2> DEFINE I == {k \in DOMAIN mm.blocks : mm.blocks[k].type = "text"}
  <2>1. I \in SUBSET (1 .. n + 1) /\ i \in I /\ n + 1 \in I /\ ~ (Cardinality(I) > 1)
    BY <1>4, <1>6, <1>8, <1>14, <1>16 DEF Behind
  <2>2. IsFiniteSet(1 .. n + 1) /\ Cardinality({i, n + 1}) = IF i = n + 1 THEN 1 ELSE 2
    <3>1. IsFiniteSet(1 .. n + 1)
      <4>1. 1 \in Int /\ n + 1 \in Int
        BY <1>6
      <4>2. QED
        BY <4>1, FS_Interval
    <3>2. CASE i = n + 1
      <4>1. {i, n + 1} = {i}
        BY <3>2
      <4>2. QED
        BY <3>1, <3>2, <4>1, FS_Singleton
    <3>3. CASE i # n + 1
      <4>1. IsFiniteSet({i}) /\ Cardinality({i}) = 1
        BY FS_Singleton
      <4>2. Cardinality({i} \cup {n + 1}) = Cardinality({i}) + 1
        BY <3>3, <4>1, FS_AddElement
      <4>3. {i, n + 1} = {i} \cup {n + 1}
        OBVIOUS
      <4>4. Cardinality({i} \cup {n + 1}) = 1 + 1
        BY <4>1, <4>2
      <4>5. Cardinality({i, n + 1}) = 1 + 1
        BY <4>3, <4>4
      <4>6. QED
        BY <3>1, <3>3, <4>5
    <3>4. QED
      BY <3>2, <3>3
  <2> HIDE DEF I
  <2>3. IsFiniteSet(I) /\ Cardinality(I) \in Nat
    BY <2>1, <2>2, FS_Subset, FS_CardinalityType
  <2>4. Cardinality({i, n + 1}) <= Cardinality(I)
    BY <2>1, <2>3, FS_Subset
  <2>5. i = n + 1
    BY <2>1, <2>2, <2>3, <2>4
  <2>6. QED
    BY <1>4, <1>6, <1>15, <2>5
<1>17. Boxes(mm)
  BY <1>2, <1>3 DEF Boxes
<1>18. Shown(mm)
  <2>1. Heeded(mm) # Silent
    BY <1>5, <1>12 DEF Voice, Silent
  <2>2. QED
    BY <1>15, <2>1 DEF Shown
<1>19. QED
  BY <1>9, <1>12, <1>15, <1>16, <1>17, <1>18 DEF mm

(* So what was said and the messages agree when the user's text joins the  *)
(* results.                                                                *)
LEMMA BesideUnderstood ==
  ASSUME TypeOK, dialect = "anthropic", Understood(said, messages),
         Boxes(messages[Len(messages)]),
         \E j \in DOMAIN messages[Len(messages)].blocks :
            messages[Len(messages)].blocks[j].type = "tool_result",
         NEW ms, ms = [messages EXCEPT ![Len(messages)] = Beside(messages[Len(messages)])]
  PROVE  /\ Understood(said \o <<Spoken("user", UserText)>>, ms)
         /\ \A k \in DOMAIN ms : \/ k \in DOMAIN messages /\ ms[k] = messages[k]
                                 \/ Shown(ms[k]) /\ Boxes(ms[k])
<1> DEFINE n == Len(messages)
           m == messages[n]
           s == Spoken("user", UserText)
           x == Voice("user", UserText)
           v == SpeechVoices(said)
<1>1. /\ messages \in Seq(MessageSet) /\ said \in Seq(SpeechSet)
      /\ n \in Nat /\ n # 0 /\ DOMAIN messages = 1 .. n /\ n \in 1 .. n /\ m \in MessageSet
  BY DEF TypeOK
<1>2. /\ Heeded(Beside(m)) = x /\ Mixed(Beside(m))
      /\ ~ Behind(Beside(m)) => LiveVoice(Beside(m)) = x
      /\ Boxes(Beside(m)) /\ Shown(Beside(m))
  BY <1>1, BesideHeard
<1>3. ms = [messages EXCEPT ![n] = Beside(m)]
  OBVIOUS
<1>4. UserText \in Text /\ UserText # <<>>
  BY UserTextLast
<1>5. x \in VoiceSet /\ x # Silent /\ x[1] = "user"
  BY <1>4, VoiceType DEF Voice, Silent, Speakers
<1>6. Beside(m) \in MessageSet
  BY <1>1, BesideType
<1>7. SpeechVoices(said \o <<s>>) = v \o <<x>> /\ v \in Seq(VoiceSet)
  <2>1. <<s>> \in Seq(SpeechSet) /\ SpeechVoices(<<s>>) = <<x>>
    BY <1>1, <1>4, OneVoice
  <2>2. QED
    BY <1>1, <2>1, SpeechVoicesConcat, SpeechVoicesType
<1> DEFINE b == Beside(m)
<1> HIDE DEF n, m, x, v, b
<1>8. /\ ms \in Seq(MessageSet) /\ DOMAIN ms = 1 .. n /\ Len(ms) = n /\ ms[n] = b
      /\ \A k \in 1 .. n : k # n => ms[k] = messages[k]
  BY <1>1, <1>3, <1>6 DEF b
<1>9. <<x>> \in Seq(VoiceSet) /\ v \o <<x>> \in Seq(VoiceSet)
  BY <1>5, <1>7
<1>10. ASSUME NEW W, "user" \in W PROVE Ends(v \o <<x>>, W, x)
  <2>1. Of(x, W)
    BY <1>5, <1>10 DEF Of
  <2>2. v \o <<x>> # <<>> /\ (v \o <<x>>)[Len(v \o <<x>>)] = x
    BY <1>5, <1>7
  <2>3. QED
    BY <1>9, <2>1, <2>2, EndsAtLast
<1>11. ASSUME NEW W, "user" \in W, NEW w \in Seq(VoiceSet), DOMAIN w = 1 .. n, w[n] = x
       PROVE  Ends(w, W, x)
  <2>1. Of(w[n], W)
    BY <1>5, <1>11 DEF Of
  <2>2. w # <<>> /\ Len(w) = n
    BY <1>1, <1>11
  <2>3. QED
    BY <1>11, <2>1, <2>2, EndsAtLast
<1>12. Heedings(ms) \in Seq(VoiceSet) /\ DOMAIN Heedings(ms) = 1 .. n /\ Heedings(ms)[n] = x
  BY <1>1, <1>2, <1>8, HeedingsType DEF Heedings, b
<1>13. Follows(said, messages) /\ LiveFollows(said, messages)
  BY DEF Understood, Generic, Prompting
<1>14. ASSUME NEW W \in SUBSET Speakers
       PROVE  /\ "user" \in W \/ Unmixed(ms) =>
                   Same(v \o <<x>>, W \cap Hearable, Heedings(ms), W)
              /\ Ends(v \o <<x>>, W \cap Hearable, Silent) => Ends(Heedings(ms), W, Silent)
  <2>1. W \cap Hearable = W
    BY DEF Hearable
  <2>2. ~ Unmixed(ms)
    BY <1>1, <1>2, <1>8 DEF Unmixed, b
  <2>3. CASE "user" \in W
    <3>1. Ends(v \o <<x>>, W, x) /\ Ends(Heedings(ms), W, x)
      BY <1>10, <1>11, <1>12, <2>3
    <3>2. Same(v \o <<x>>, W, Heedings(ms), W)
      BY <3>1 DEF Same
    <3>3. ~ Ends(v \o <<x>>, W, Silent)
      BY <1>5, <1>9, <3>1, EndsUnique
    <3>4. QED
      BY <2>1, <3>2, <3>3
  <2>4. CASE "user" \notin W
    <3>1. ASSUME Ends(v \o <<x>>, W, Silent) PROVE Ends(Heedings(ms), W, Silent)
      <4>1. Ends(v, W, Silent)
        BY <1>7, <1>9, <3>1, SilentConcat
      <4>2. Ends(Heedings(messages), W, Silent)
        BY <1>13, <2>1, <4>1 DEF Follows, v
      <4>3. \A k \in 1 .. n : ~ Of(Heeded(messages[k]), W)
        BY <1>1, <4>2 DEF Ends, Of, Heedings
      <4>4. ~ Of(x, W)
        BY <1>5, <2>4 DEF Of
      <4>5. \A k \in 1 .. n : ~ Of(Heeded(ms[k]), W)
        BY <1>2, <1>8, <4>3, <4>4 DEF b
      <4>6. \A k \in DOMAIN Heedings(ms) : ~ Of(Heedings(ms)[k], W)
        BY <1>8, <4>5 DEF Heedings
      <4>7. QED
        BY <4>6 DEF Ends
    <3>2. QED
      BY <2>1, <2>2, <2>4, <3>1
  <2>5. QED
    BY <2>3, <2>4
<1>15. Follows(said \o <<s>>, ms)
  BY <1>7, <1>14 DEF Follows
<1>16. LiveFollows(said \o <<s>>, ms)
  <2>1. SUFFICES ASSUME \A k \in DOMAIN ms : ~ Behind(ms[k])
                 PROVE  Same(v \o <<x>>, {"user"}, LiveVoices(ms), {"user"})
    BY <1>7 DEF LiveFollows
  <2>2. ~ Behind(b)
    BY <1>1, <1>8, <2>1
  <2>3. LiveVoices(ms) \in Seq(VoiceSet) /\ DOMAIN LiveVoices(ms) = 1 .. n
        /\ LiveVoices(ms)[n] = x
    BY <1>1, <1>2, <1>8, <2>2, LiveVoicesType DEF LiveVoices, b
  <2>4. Ends(v \o <<x>>, {"user"}, x) /\ Ends(LiveVoices(ms), {"user"}, x)
    BY <1>10, <1>11, <2>3
  <2>5. QED
    BY <2>4 DEF Same
<1>17. \A k \in DOMAIN ms : \/ k \in DOMAIN messages /\ ms[k] = messages[k]
                            \/ Shown(ms[k]) /\ Boxes(ms[k])
  BY <1>1, <1>2, <1>8 DEF b
<1>18. QED
  BY <1>15, <1>16, <1>17 DEF Understood

-----------------------------------------------------------------------------
(* What was said and the messages agree, after every step                  *)

Telling == SpeechesFormed /\ MessagesShow /\ Boxed(messages) /\ Understood(said, messages)

(* Nothing of it depends on more of the state than the dialect, what was   *)
(* said and the messages.                                                  *)
LEMMA TellingNow ==
  ASSUME dialect' = dialect, NEW ss, said' = ss, NEW ms, messages' = ms,
         \A i \in DOMAIN ss : SpeechForm(ss[i]), \A k \in DOMAIN ms : Shown(ms[k]),
         Boxed(ms), Understood(ss, ms)
  PROVE  Telling'
<1>1. SpeechesFormed'
  BY DEF SpeechesFormed
<1>2. MessagesShow'
  BY DEF MessagesShow, Shown, LiveVoice
<1>3. Boxed(messages)'
  BY DEF Boxed, Boxes
<1>4. Understood(said, messages)'
  BY DEF Understood, Follows, LiveFollows, PartsFollow, Hearable, LiveVoices, LiveVoice
<1>5. QED
  BY <1>1, <1>2, <1>3, <1>4 DEF Telling

(* More is said, and more messages tell of it.                             *)
LEMMA TellingGrows ==
  ASSUME TypeOK, Telling, dialect' = dialect,
         NEW ss \in Seq(SpeechSet), said' = said \o ss,
         NEW ms \in Seq(MessageSet), messages' = messages \o ms,
         \A i \in DOMAIN ss : SpeechForm(ss[i]), \A k \in DOMAIN ms : Shown(ms[k]),
         Boxed(ms), Understood(ss, ms)
  PROVE  Telling'
<1>1. said \in Seq(SpeechSet) /\ messages \in Seq(MessageSet)
  BY DEF TypeOK
<1>2. Understood(said \o ss, messages \o ms)
  BY <1>1, UnderstoodConcat DEF Telling
<1>3. Boxed(messages \o ms)
  BY <1>1, BoxedConcat DEF Telling
<1>4. ASSUME NEW i \in DOMAIN (said \o ss) PROVE SpeechForm((said \o ss)[i])
  <2>1. /\ \A j \in DOMAIN said : (said \o ss)[j] = said[j]
        /\ \A j \in DOMAIN ss : (said \o ss)[Len(said) + j] = ss[j]
        /\ i \in DOMAIN said \/ (i - Len(said) \in DOMAIN ss /\ i = Len(said) + (i - Len(said)))
    BY <1>1, PlacesOfConcat
  <2>2. \A j \in DOMAIN said : SpeechForm(said[j])
    BY DEF Telling, SpeechesFormed
  <2>3. \/ i \in DOMAIN said /\ (said \o ss)[i] = said[i]
        \/ i - Len(said) \in DOMAIN ss /\ (said \o ss)[i] = ss[i - Len(said)]
    BY <2>1
  <2>4. QED
    BY <2>2, <2>3
<1>5. ASSUME NEW k \in DOMAIN (messages \o ms) PROVE Shown((messages \o ms)[k])
  <2>1. /\ \A j \in DOMAIN messages : (messages \o ms)[j] = messages[j]
        /\ \A j \in DOMAIN ms : (messages \o ms)[Len(messages) + j] = ms[j]
        /\ k \in DOMAIN messages
           \/ (k - Len(messages) \in DOMAIN ms /\ k = Len(messages) + (k - Len(messages)))
    BY <1>1, PlacesOfConcat
  <2>2. \A j \in DOMAIN messages : Shown(messages[j])
    BY DEF Telling, MessagesShow
  <2>3. \/ k \in DOMAIN messages /\ (messages \o ms)[k] = messages[k]
        \/ k - Len(messages) \in DOMAIN ms /\ (messages \o ms)[k] = ms[k - Len(messages)]
    BY <2>1
  <2>4. QED
    BY <2>2, <2>3
<1>6. QED
  BY <1>2, <1>3, <1>4, <1>5, TellingNow

(* Where neither changes, they agree as before.                            *)
LEMMA TellingSame ==
  ASSUME Telling, UNCHANGED <<dialect, messages, said>>
  PROVE  Telling'
<1>1. /\ \A i \in DOMAIN said : SpeechForm(said[i])
      /\ \A k \in DOMAIN messages : Shown(messages[k])
      /\ Boxed(messages) /\ Understood(said, messages)
  BY DEF Telling, SpeechesFormed, MessagesShow
<1>2. QED
  BY <1>1, TellingNow

(* The first speech is the user's.                                         *)
LEMMA TellingInitially == Init => Telling
<1> SUFFICES ASSUME Init PROVE Telling
  OBVIOUS
<1>1. TypeOK
  BY InitTyped
<1>2. Greeting \in Text /\ Greeting # <<>>
  <2>1. <<"please", 0>> \in Token /\ <<"user", 0>> \in Token
    BY DEF Token
  <2>2. QED
    BY <2>1 DEF Greeting, Text
<1>3. dialect \in Kinds /\ said = <<Spoken("user", Greeting)>>
      /\ messages = <<UserMessage(Greeting)>>
  BY <1>1 DEF TypeOK, Init
<1>4. Understood(said, messages) /\ Shown(UserMessage(Greeting))
  BY <1>2, <1>3, UserUnderstood
<1>5. Boxes(UserMessage(Greeting))
  BY <1>2, <1>3, SpeechBoxed
<1>6. MessagesShow /\ Boxed(messages)
  BY <1>3, <1>4, <1>5, OnlyElement DEF MessagesShow, Boxed
<1>7. SpeechForm(Spoken("user", Greeting))
  BY DEF SpeechForm, Spoken, Greeting
<1>8. SpeechesFormed
  BY <1>3, <1>7, OnlyElement DEF SpeechesFormed
<1>9. QED
  BY <1>4, <1>6, <1>8 DEF Telling

(* The user speaks.                                                        *)
LEMMA UserTold ==
  ASSUME TypeOK, Telling, UserSpeaks
  PROVE  Telling'
<1> DEFINE s == Spoken("user", UserText)
           n == Len(messages)
           mm == UserMessage(UserText)
<1>1. /\ dialect' = dialect /\ said' = Append(said, s)
      /\ \/ messages' = Append(messages, mm)
         \/ /\ dialect = "anthropic"
            /\ \E i \in DOMAIN messages[n].blocks : messages[n].blocks[i].type = "tool_result"
            /\ messages' = [messages EXCEPT ![n] = Beside(messages[n])]
  BY DEF UserSpeaks, UserText, Beside
<1>2. UserText \in Text /\ UserText # <<>>
  BY UserTextLast
<1>3. /\ said \in Seq(SpeechSet) /\ messages \in Seq(MessageSet) /\ messages # <<>>
      /\ dialect \in Kinds /\ Len(said) \in Nat /\ n \in DOMAIN messages
  BY DEF TypeOK
<1>4. s \in SpeechSet /\ SpeechForm(s)
  BY <1>2, <1>3 DEF Spoken, SpeechSet, SpeechForm, UserText
<1>5. CASE messages' = Append(messages, mm)
  <2>1. mm \in MessageSet /\ Boxes(mm)
    BY <1>2, <1>3, UserMessageType, SpeechBoxed
  <2>2. Understood(<<s>>, <<mm>>) /\ Shown(mm)
    BY <1>2, <1>3, UserUnderstood
  <2> HIDE DEF s, mm, n
  <2>3. /\ <<s>> \in Seq(SpeechSet) /\ <<mm>> \in Seq(MessageSet)
        /\ said' = said \o <<s>> /\ messages' = messages \o <<mm>>
    <3>1. Append(said, s) = said \o <<s>>
      BY <1>3, <1>4
    <3>2. Append(messages, mm) = messages \o <<mm>>
      BY <1>3, <2>1
    <3>3. <<s>> \in Seq(SpeechSet)
      BY <1>4
    <3>4. <<mm>> \in Seq(MessageSet)
      BY <2>1
    <3>5. QED
      BY <1>1, <1>5, <3>1, <3>2, <3>3, <3>4
  <2>4. /\ \A i \in DOMAIN <<s>> : SpeechForm(<<s>>[i])
        /\ \A k \in DOMAIN <<mm>> : Shown(<<mm>>[k])
        /\ Boxed(<<mm>>)
    BY <1>4, <2>1, <2>2, OnlyElement DEF Boxed
  <2>5. QED
    BY <1>1, <2>2, <2>3, <2>4, TellingGrows
<1>6. CASE /\ dialect = "anthropic"
           /\ \E i \in DOMAIN messages[n].blocks : messages[n].blocks[i].type = "tool_result"
           /\ messages' = [messages EXCEPT ![n] = Beside(messages[n])]
  <2> DEFINE ms == [messages EXCEPT ![n] = Beside(messages[n])]
             ss == said \o <<s>>
  <2>1. Understood(said, messages) /\ Boxes(messages[n])
    BY <1>3 DEF Telling, Boxed
  <2>2. /\ Understood(ss, ms)
        /\ \A k \in DOMAIN ms : \/ k \in DOMAIN messages /\ ms[k] = messages[k]
                                \/ Shown(ms[k]) /\ Boxes(ms[k])
    BY <1>6, <2>1, BesideUnderstood
  <2>3. messages' = ms
    BY <1>6
  <2> HIDE DEF ms, n
  <2>4. said' = ss /\ \A i \in DOMAIN ss : SpeechForm(ss[i])
    <3> HIDE DEF s
    <3>1. said \o <<s>> = Append(said, s)
      BY <1>3, <1>4
    <3>2. /\ \A j \in DOMAIN said : (said \o <<s>>)[j] = said[j]
          /\ \A i \in DOMAIN (said \o <<s>>) : i \in DOMAIN said \/ (said \o <<s>>)[i] = s
      BY <1>3, <1>4
    <3>3. QED
      BY <1>1, <1>4, <3>1, <3>2 DEF Telling, SpeechesFormed
  <2>5. Boxed(ms) /\ \A k \in DOMAIN ms : Shown(ms[k])
    BY <2>2 DEF Telling, Boxed, MessagesShow
  <2> HIDE DEF ss
  <2>6. QED
    BY <1>1, <2>2, <2>3, <2>4, <2>5, TellingNow
<1>7. QED
  BY <1>1, <1>5, <1>6

(* The model speaks.                                                       *)
LEMMA ModelTold ==
  ASSUME TypeOK, Telling, ModelTalks
  PROVE  Telling'
<1> DEFINE s == Spoken("model", ModelText)
           mm == ModelMessage(ModelText)
<1>1. dialect' = dialect /\ said' = Append(said, s) /\ messages' = Append(messages, mm)
  BY DEF ModelTalks, ModelText
<1>2. /\ said \in Seq(SpeechSet) /\ messages \in Seq(MessageSet) /\ dialect \in Kinds
      /\ Len(said) \in Nat
  BY DEF TypeOK
<1>3. ModelText \in Text /\ ModelText # <<>> /\ Last(ModelText)[1] = "model"
  <2>1. ModelText # <<>> /\ Len(ModelText) = 1 /\ ModelText[1][1] = "model"
    BY DEF ModelText
  <2>2. QED
    BY <2>1, TextsType DEF Last
<1>4. s \in SpeechSet /\ SpeechForm(s)
  BY <1>2, <1>3 DEF Spoken, SpeechSet, SpeechForm, ModelText
<1>5. mm \in MessageSet /\ Boxes(mm)
  BY <1>2, <1>3, ModelMessageType, SpeechBoxed
<1>6. Understood(<<s>>, <<mm>>) /\ Shown(mm)
  BY <1>2, <1>3, ModelUnderstood
<1> HIDE DEF s, mm
<1>7. said' = said \o <<s>> /\ <<s>> \in Seq(SpeechSet)
  BY <1>1, <1>2, <1>4
<1>8. messages' = messages \o <<mm>> /\ <<mm>> \in Seq(MessageSet)
  BY <1>1, <1>2, <1>5
<1>9. /\ \A i \in DOMAIN <<s>> : SpeechForm(<<s>>[i])
      /\ \A k \in DOMAIN <<mm>> : Shown(<<mm>>[k])
      /\ Boxed(<<mm>>)
  BY <1>4, <1>5, <1>6, OnlyElement DEF Boxed
<1>10. QED
  BY <1>1, <1>6, <1>7, <1>8, <1>9, TellingGrows

(* The calls of an answer are read: a message that says nothing.           *)
LEMMA ReadTold ==
  ASSUME TypeOK, Telling, UNCHANGED <<dialect, said>>, NEW ps \in Seq(PayloadSet), Read(ps)
  PROVE  Telling'
<1>1. CASE ps = <<>>
  <2>1. messages' = messages
    BY <1>1 DEF Read
  <2>2. QED
    BY <2>1, TellingSame
<1>2. CASE ps # <<>>
  <2> DEFINE ms == AssistantMessages(ps)
  <2>1. said \in Seq(SpeechSet) /\ messages \in Seq(MessageSet) /\ dialect \in Kinds
    BY DEF TypeOK
  <2>2. messages' = messages \o ms
    BY <1>2 DEF Read
  <2>3. ms \in Seq(MessageSet)
    BY <1>2, <2>1, AssistantMessagesType
  <2>4. Boxed(ms)
    BY <2>1, CallsBoxed
  <2>5. Understood(<<>>, ms) /\ \A k \in DOMAIN ms : Shown(ms[k])
    BY <1>2, <2>1, CallsUnderstood
  <2> HIDE DEF ms
  <2>6. said' = said \o <<>> /\ <<>> \in Seq(SpeechSet)
    BY <2>1
  <2>7. \A i \in DOMAIN <<>> : SpeechForm(<<>>[i])
    OBVIOUS
  <2>8. QED
    BY <2>2, <2>3, <2>4, <2>5, <2>6, <2>7, TellingGrows
<1>3. QED
  BY <1>1, <1>2

(* The text of a result is nothing, or the result's own token.             *)
LEMMA ResultTextForm ==
  ASSUME NEW id \in SomeId, NEW outcome
  PROVE  \/ ResultText(id, outcome) = <<>>
         \/ \E i \in SomeId : ResultText(id, outcome) = <<<<"result", i>>>>
BY DEF ResultText

(* What a tool says with a result has a result's form.                     *)
LEMMA ResultsFormed ==
  ASSUME NEW as, NEW n \in Nat, DOMAIN as = 1 .. n, \A i \in 1 .. n : IsResult(as[i])
  PROVE  \A i \in DOMAIN ToolSpeeches(as) : SpeechForm(ToolSpeeches(as)[i])
<1> TAKE i \in DOMAIN ToolSpeeches(as)
<1>1. i \in 1 .. n /\ ToolSpeeches(as)[i] = Spoken("tool", as[i].text)
  BY ToolSpeechesType
<1>2. /\ Spoken("tool", as[i].text).who = "tool"
      /\ Spoken("tool", as[i].text).text = as[i].text
  BY SpokenFields
<1>3. as[i].text = <<>> \/ \E id \in SomeId : as[i].text = <<<<"result", id>>>>
  BY <1>1 DEF IsResult
<1>4. QED
  BY <1>1, <1>2, <1>3 DEF SpeechForm

(* What execute_tool_calls returns are results.                            *)
LEMMA ReturnedAreResults ==
  ASSUME TypeOK
  PROVE  /\ Len(payloads) \in Nat /\ DOMAIN Returned = 1 .. Len(payloads)
         /\ \A i \in 1 .. Len(payloads) : IsResult(Returned[i])
<1>1. /\ Len(payloads) \in Nat /\ DOMAIN payloads = 1 .. Len(payloads)
      /\ \A i \in 1 .. Len(payloads) : payloads[i] \in PayloadSet
  BY SequenceFacts DEF TypeOK
<1>2. \A i \in 1 .. Len(payloads) : payloads[i].id \in SomeId
  BY <1>1 DEF PayloadSet
<1>3. ASSUME NEW i \in 1 .. Len(payloads) PROVE IsResult(Returned[i])
  <2>1. IsAnswer(Returned[i])
        /\ Returned[i].text = ResultText(payloads[i].id, Gathered[i].outcome)
    BY ReturnedType
  <2>2. \/ ResultText(payloads[i].id, Gathered[i].outcome) = <<>>
        \/ \E j \in SomeId :
             ResultText(payloads[i].id, Gathered[i].outcome) = <<<<"result", j>>>>
    BY <1>2, ResultTextForm
  <2>3. QED
    BY <2>1, <2>2 DEF IsResult
<1>4. QED
  BY <1>1, <1>3, ReturnedType

(* Results join the conversation.                                          *)
LEMMA ResultsTold ==
  ASSUME TypeOK, Telling, dialect' = dialect,
         NEW as, NEW n \in Nat, DOMAIN as = 1 .. n, \A i \in 1 .. n : IsResult(as[i]),
         messages' = messages \o ResultMessages(as), said' = said \o ToolSpeeches(as)
  PROVE  Telling'
<1>1. dialect \in Kinds
  BY DEF TypeOK
<1>2. ResultMessages(as) \in Seq(MessageSet)
  BY <1>1, ResultMessagesType DEF IsResult
<1>3. ToolSpeeches(as) \in Seq(SpeechSet)
  BY ToolSpeechesType
<1>4. \A i \in DOMAIN ToolSpeeches(as) : SpeechForm(ToolSpeeches(as)[i])
  BY ResultsFormed
<1>5. /\ Understood(ToolSpeeches(as), ResultMessages(as))
      /\ \A k \in DOMAIN ResultMessages(as) : Shown(ResultMessages(as)[k])
  BY <1>1, ResultsUnderstood
<1>6. Boxed(ResultMessages(as))
  BY <1>1, ResultsBoxed
<1>7. QED
  BY <1>2, <1>3, <1>4, <1>5, <1>6, TellingGrows

(* The calls of an answer return.                                          *)
LEMMA AnswerTold ==
  ASSUME TypeOK, Telling, Answer
  PROVE  Telling'
<1>1. dialect' = dialect
      /\ \/ UNCHANGED <<messages, said>>
         \/ /\ messages' = messages \o ResultMessages(Returned)
            /\ said' = said \o ToolSpeeches(Returned)
  BY DEF Answer, Returned, ToolSpeeches
<1>2. CASE UNCHANGED <<messages, said>>
  BY <1>1, <1>2, TellingSame
<1>3. CASE /\ messages' = messages \o ResultMessages(Returned)
           /\ said' = said \o ToolSpeeches(Returned)
  BY <1>1, <1>3, ReturnedAreResults, ResultsTold
<1>4. QED
  BY <1>1, <1>2, <1>3

(* What a framework's tools return are results.                            *)
LEMMA FrameworkReturnsResults ==
  ASSUME NEW r \in Seq(CallSet), NEW outcomes
  PROVE  /\ Len(r) \in Nat /\ DOMAIN FrameworkReturns(r, outcomes) = 1 .. Len(r)
         /\ \A i \in 1 .. Len(r) : IsResult(FrameworkReturns(r, outcomes)[i])
<1>1. Len(r) \in Nat /\ DOMAIN r = 1 .. Len(r) /\ \A i \in 1 .. Len(r) : r[i] \in CallSet
  BY SequenceFacts
<1>2. \A i \in 1 .. Len(r) : r[i].id \in SomeId
  BY <1>1 DEF CallSet, SomeId
<1>3. ASSUME NEW i \in 1 .. Len(r) PROVE IsResult(FrameworkReturns(r, outcomes)[i])
  <2>1. IsAnswer(FrameworkReturns(r, outcomes)[i])
    BY FrameworkReturnsType
  <2>2. FrameworkReturns(r, outcomes)[i].text = ResultText(r[i].id, outcomes[i])
    BY <1>1 DEF FrameworkReturns
  <2>3. \/ ResultText(r[i].id, outcomes[i]) = <<>>
        \/ \E j \in SomeId : ResultText(r[i].id, outcomes[i]) = <<<<"result", j>>>>
    BY <1>2, ResultTextForm
  <2>4. QED
    BY <2>1, <2>2, <2>3 DEF IsResult
<1>4. QED
  BY <1>1, <1>3, FrameworkReturnsType

(* A framework's turn: a message of calls, and one or more of results.     *)
LEMMA FrameworkTold ==
  ASSUME TypeOK, Telling, FrameworkRuns
  PROVE  Telling'
<1>1. PICK r, outcomes : FrameworkTurn(r, outcomes)
  BY FrameworkTakesTurns
<1> DEFINE as == FrameworkReturns(r, outcomes)
           cs == AssistantMessages(Extract(r))
           rs == ResultMessages(as)
           ss == ToolSpeeches(as)
<1>2. /\ r \in Seq(CallSet) /\ Extract(r) \in Seq(PayloadSet) /\ Extract(r) # <<>>
      /\ cs \in Seq(MessageSet) /\ rs \in Seq(MessageSet)
      /\ messages' = (messages \o cs) \o rs /\ said' = said \o ss
  BY <1>1 DEF FrameworkTurn, ToolSpeeches
<1>3. dialect' = dialect
  BY DEF FrameworkRuns
<1>4. dialect \in Kinds /\ messages \in Seq(MessageSet)
  BY DEF TypeOK
<1>5. Len(r) \in Nat /\ DOMAIN as = 1 .. Len(r) /\ \A i \in 1 .. Len(r) : IsResult(as[i])
  BY <1>2, FrameworkReturnsResults
<1>6. Understood(<<>>, cs) /\ \A k \in DOMAIN cs : Shown(cs[k])
  BY <1>2, <1>4, CallsUnderstood
<1>7. Boxed(cs)
  BY <1>2, <1>4, CallsBoxed
<1> HIDE DEF as, cs
<1>8. Understood(ss, rs) /\ \A k \in DOMAIN rs : Shown(rs[k])
  BY <1>4, <1>5, ResultsUnderstood
<1>9. Boxed(rs) /\ ss \in Seq(SpeechSet) /\ \A i \in DOMAIN ss : SpeechForm(ss[i])
  BY <1>4, <1>5, ResultsBoxed, ToolSpeechesType, ResultsFormed
<1> HIDE DEF rs, ss
<1>10. <<>> \in Seq(SpeechSet) /\ <<>> \o ss = ss
  BY <1>9
<1>11. Understood(<<>> \o ss, cs \o rs)
  BY <1>2, <1>6, <1>8, <1>9, <1>10, UnderstoodConcat
<1>12. Boxed(cs \o rs)
  BY <1>2, <1>7, <1>9, BoxedConcat
<1>13. cs \o rs \in Seq(MessageSet) /\ (messages \o cs) \o rs = messages \o (cs \o rs)
  BY <1>2, <1>4
<1>14. \A k \in DOMAIN (cs \o rs) : Shown((cs \o rs)[k])
  <2>1. /\ \A j \in DOMAIN cs : (cs \o rs)[j] = cs[j]
        /\ \A j \in DOMAIN rs : (cs \o rs)[Len(cs) + j] = rs[j]
        /\ \A k \in DOMAIN (cs \o rs) :
             k \in DOMAIN cs \/ (k - Len(cs) \in DOMAIN rs /\ k = Len(cs) + (k - Len(cs)))
    <3>1. cs \in Seq(MessageSet) /\ rs \in Seq(MessageSet)
      BY <1>2
    <3>2. /\ cs \o rs \in Seq(MessageSet)
          /\ \A i \in DOMAIN cs : i \in DOMAIN (cs \o rs) /\ (cs \o rs)[i] = cs[i]
          /\ \A i \in DOMAIN rs :
               Len(cs) + i \in DOMAIN (cs \o rs) /\ (cs \o rs)[Len(cs) + i] = rs[i]
          /\ \A k \in DOMAIN (cs \o rs) :
               k \in DOMAIN cs \/ (k - Len(cs) \in DOMAIN rs /\ k = Len(cs) + (k - Len(cs)))
      BY <3>1, PlacesOfConcat, Zenon
    <3>3. QED
      BY <3>2
  <2>2. \A k \in DOMAIN (cs \o rs) :
           \/ k \in DOMAIN cs /\ (cs \o rs)[k] = cs[k]
           \/ k - Len(cs) \in DOMAIN rs /\ (cs \o rs)[k] = rs[k - Len(cs)]
    BY <2>1
  <2>3. QED
    BY <1>6, <1>8, <2>2
<1>15. Understood(ss, cs \o rs)
  BY <1>10, <1>11
<1>16. messages' = messages \o (cs \o rs)
  BY <1>2, <1>13
<1>17. QED
  BY <1>2, <1>3, <1>9, <1>12, <1>13, <1>14, <1>15, <1>16, TellingGrows

(* A query depends on the dialect, the messages and what was said alone.   *)
LEMMA QuerySame ==
  ASSUME UNCHANGED <<dialect, messages, said>>
  PROVE  BuildQuery(messages)' = BuildQuery(messages)
<1>1. Prompt' = Prompt
  BY DEF Prompt, SelectLastInSeq
<1>2. QueryFromCallbackContext(messages)' = QueryFromCallbackContext(messages)
  BY <1>1 DEF QueryFromCallbackContext, SelectLastInSeq
<1>3. QueryFromCtx(messages, Prompt)' = QueryFromCtx(messages, Prompt)
  BY <1>1
<1>4. Live(messages)' = Live(messages)
  BY <1>2, <1>3 DEF Live
<1>5. ASSUME NEW g \in Generators PROVE Generate(g, messages)' = Generate(g, messages)
  BY <1>4 DEF Generate
<1>6. QED
  BY <1>5 DEF BuildQuery

(* The conversation begins with nothing asked.                             *)
LEMMA QueryInitially == Init => QueryInv
<1> SUFFICES ASSUME Init PROVE QueryInv
  OBVIOUS
<1>1. TypeOK /\ Fresh
  BY InitTyped
<1>2. Telling
  BY TellingInitially
<1>3. AskedNow
  BY DEF Init, AskedNow
<1>4. QED
  BY <1>1, <1>2, <1>3 DEF QueryInv, Telling

(* No step makes the messages tell of what was not said, nor the query of a*)
(* selection another's than the messages'.                                 *)
LEMMA QueryStep == QueryInv /\ [Next]_vars => QueryInv'
<1> SUFFICES ASSUME QueryInv, [Next]_vars PROVE QueryInv'
  OBVIOUS
<1>1. TypeOK /\ Fresh /\ Telling /\ AskedNow
  BY DEF QueryInv, Telling
<1>2. TypeOK' /\ Fresh'
  BY <1>1, NextTyped
<1>3. Telling' /\ AskedNow'
  <2>1. CASE UNCHANGED vars
    <3>1. UNCHANGED <<dialect, messages, said, phase, asked>>
      BY <2>1 DEF vars, histories
    <3>2. QED
      BY <1>1, <3>1, TellingSame, QuerySame DEF AskedNow
  <2>2. CASE UserSpeaks
    <3>1. phase' = "loop"
      BY <2>2 DEF UserSpeaks
    <3>2. QED
      BY <1>1, <2>2, <3>1, UserTold DEF AskedNow
  <2>3. CASE Refresh
    <3>1. UNCHANGED <<dialect, messages, said>>
          /\ \/ phase' = "deriving"
             \/ asked' = [query |-> BuildQuery(messages), used |-> used']
      BY <2>3 DEF Refresh
    <3>2. QED
      BY <1>1, <3>1, TellingSame, QuerySame DEF AskedNow
  <2>4. CASE OtherRefreshes
    <3>1. UNCHANGED <<dialect, messages, said>> /\ phase' = "deriving"
      BY <2>4 DEF OtherRefreshes
    <3>2. QED
      BY <1>1, <3>1, TellingSame DEF AskedNow
  <2>5. CASE Derived
    <3>1. UNCHANGED <<dialect, messages, said>>
          /\ asked' = [query |-> BuildQuery(messages), used |-> used]
      BY <2>5 DEF Derived, histories
    <3>2. QED
      BY <1>1, <3>1, TellingSame, QuerySame DEF AskedNow
  <2>6. CASE ModelAnswers
    <3>1. turns + 1 \in Nat
      BY <1>1 DEF TypeOK
    <3>2. PICK r \in Responses(turns + 1) : Read(IF Readable(r) THEN Extract(r) ELSE <<>>)
      BY <2>6 DEF ModelAnswers
    <3>3. (IF Readable(r) THEN Extract(r) ELSE <<>>) \in Seq(PayloadSet)
      BY <3>1, ResponsesType, ExtractType
    <3>4. UNCHANGED <<dialect, said>>
      BY <2>6 DEF ModelAnswers
    <3>5. phase' \in {"stopped", "running"}
      BY <3>2 DEF Read
    <3>6. QED
      BY <1>1, <3>2, <3>3, <3>4, <3>5, ReadTold DEF AskedNow
  <2>7. CASE ModelStreams
    <3>1. UNCHANGED <<dialect, messages, said>> /\ phase' = "receiving"
      BY <2>7 DEF ModelStreams
    <3>2. QED
      BY <1>1, <3>1, TellingSame DEF AskedNow
  <2>8. CASE StreamEnds
    <3>1. Accumulated(slots) \in Seq(PayloadSet)
      BY <1>1, AccumulatedIs DEF TypeOK
    <3>2. Read(Accumulated(slots)) /\ UNCHANGED <<dialect, said>>
      BY <2>8 DEF StreamEnds
    <3>3. phase' \in {"stopped", "running"}
      BY <3>2 DEF Read
    <3>4. QED
      BY <1>1, <3>1, <3>2, <3>3, ReadTold DEF AskedNow
  <2>9. CASE ModelTalks
    <3>1. phase' = "talked"
      BY <2>9 DEF ModelTalks
    <3>2. QED
      BY <1>1, <2>9, <3>1, ModelTold DEF AskedNow
  <2>10. CASE \E i \in DOMAIN response : Chunk(i)
    <3>1. UNCHANGED <<dialect, messages, said>> /\ phase' = "receiving"
      BY <2>10 DEF Chunk, histories
    <3>2. QED
      BY <1>1, <3>1, TellingSame DEF AskedNow
  <2>11. CASE \E i \in DOMAIN payloads : Finish(i)
    <3>1. UNCHANGED <<dialect, messages, said>> /\ phase' = "running"
      BY <2>11 DEF Finish, histories
    <3>2. QED
      BY <1>1, <3>1, TellingSame DEF AskedNow
  <2>12. CASE Answer
    <3>1. phase' \in {"stopped", "loop"}
      BY <2>12 DEF Answer
    <3>2. QED
      BY <1>1, <2>12, <3>1, AnswerTold DEF AskedNow
  <2>13. CASE FrameworkRuns
    <3>1. phase' = "loop"
      BY <2>13 DEF FrameworkRuns
    <3>2. QED
      BY <1>1, <2>13, <3>1, FrameworkTold DEF AskedNow
  <2>14. QED
    BY <2>1, <2>2, <2>3, <2>4, <2>5, <2>6, <2>7, <2>8, <2>9, <2>10, <2>11, <2>12, <2>13 DEF Next
<1>4. QED
  BY <1>2, <1>3 DEF QueryInv, Telling

(* What was said and the messages agree in every reachable state.          *)
LEMMA QueryAlways == Spec => []QueryInv
BY QueryInitially, QueryStep, PTL DEF Spec

-----------------------------------------------------------------------------
(* Queries end with the newest speech                                      *)

(* The last element of a sequence ends it.                                 *)
LEMMA SuffixOfOne ==
  ASSUME NEW S, NEW q \in Seq(S), q # <<>>
  PROVE  IsSuffix(<<Last(q)>>, q)
<1> DEFINE n == Len(q)
           y == q[n]
           a == Reverse(<<y>>)
           b == Reverse(q)
<1>1. n \in Nat /\ n # 0 /\ n \in DOMAIN q /\ y \in S
  OBVIOUS
<1>2. Len(a) = 1 /\ a[1] = y /\ a \in Seq(S)
  <2> HIDE DEF y
  <2>1. Len(<<y>>) = 1 /\ <<y>>[1] = y
    OBVIOUS
  <2>2. a = [i \in 1 .. 1 |-> <<y>>[(1 - i) + 1]]
    BY <2>1 DEF Reverse
  <2>3. a \in [1 .. 1 -> S] /\ a[1] = y
    BY <1>1, <2>1, <2>2
  <2>4. QED
    BY <2>3, FunctionIsSequence
<1>3. Len(b) = n /\ b[1] = y /\ b \in Seq(S)
  <2>1. b = [i \in 1 .. n |-> q[(n - i) + 1]]
    BY DEF Reverse
  <2>2. \A i \in 1 .. n : (n - i) + 1 \in DOMAIN q
    BY <1>1
  <2>3. b \in [1 .. n -> S]
    BY <2>1, <2>2
  <2>4. b[1] = q[(n - 1) + 1] /\ (n - 1) + 1 = n
    BY <1>1, <2>1
  <2>5. QED
    BY <1>1, <2>3, <2>4, FunctionIsSequence
<1> HIDE DEF a, b, n, y
<1>4. SubSeq(a, 1, 1) = SubSeq(b, 1, 1)
  BY <1>1, <1>2, <1>3
<1>5. IsPrefix(a, b)
  BY <1>1, <1>2, <1>3, <1>4 DEF IsPrefix
<1>6. QED
  BY <1>5 DEF IsSuffix, Last, a, b, y, n

(* The newest voice is the one that a search for the last finds.           *)
LEMMA EndsSelect ==
  ASSUME NEW S, NEW v \in Seq(S), NEW W, NEW x, Ends(v, W, x),
         NEW I \in SUBSET (1 .. Len(v)), \A k \in 1 .. Len(v) : k \in I <=> Of(v[k], W)
  PROVE  LET p == IF I # {} THEN Max(I) ELSE 0
         IN  \/ x = Silent /\ p = 0
             \/ x # Silent /\ p \in 1 .. Len(v) /\ p # 0 /\ x = v[p] /\ Of(x, W)
<1> DEFINE p == IF I # {} THEN Max(I) ELSE 0
<1>1. Len(v) \in Nat /\ DOMAIN v = 1 .. Len(v)
  BY SequenceFacts
<1>2. \/ p = 0 /\ I = {}
      \/ p \in I /\ p \in 1 .. Len(v) /\ \A j \in I : j <= p
  BY <1>1, LastPosition
<1> HIDE DEF p
<1>3. CASE p = 0 /\ I = {}
  <2>1. \A k \in DOMAIN v : ~ Of(v[k], W)
    BY <1>1, <1>3
  <2>2. Ends(v, W, Silent)
    BY <2>1 DEF Ends
  <2>3. x = Silent
    BY <2>2, EndsUnique
  <2>4. QED
    BY <1>3, <2>3 DEF p
<1>4. CASE p \in I /\ p \in 1 .. Len(v) /\ \A j \in I : j <= p
  <2>1. Of(v[p], W) /\ p \in DOMAIN v
    BY <1>1, <1>4
  <2>2. \A j \in DOMAIN v : j > p => ~ Of(v[j], W)
    BY <1>1, <1>4
  <2>3. Ends(v, W, v[p])
    BY <2>1, <2>2 DEF Ends
  <2>4. x = v[p]
    BY <2>3, EndsUnique
  <2>5. QED
    BY <1>4, <2>1, <2>4 DEF p, Of
<1>5. QED
  BY <1>2, <1>3, <1>4

(* What a tail has a voice of, it has the newest of.                       *)
LEMMA EndsOfTail ==
  ASSUME NEW S, NEW v \in Seq(S), NEW w \in Seq(S), NEW o \in Nat, Len(v) = o + Len(w),
         \A k \in DOMAIN w : w[k] = v[o + k],
         NEW W, NEW x, Ends(v, W, x), \E k \in DOMAIN w : Of(w[k], W)
  PROVE  Ends(w, W, x)
<1>1. PICK y : Ends(w, W, y)
  BY EndsExists
<1>2. y # Silent
  BY <1>1 DEF Ends, Of
<1>3. PICK k \in DOMAIN w : /\ y = w[k] /\ Of(y, W)
                            /\ \A j \in DOMAIN w : j > k => ~ Of(w[j], W)
  BY <1>1, <1>2 DEF Ends
<1>4. /\ o + k \in DOMAIN v /\ v[o + k] = y
      /\ \A j \in DOMAIN v : j > o + k => j - o \in DOMAIN w /\ j - o > k /\ j = o + (j - o)
  BY <1>3
<1>5. \A j \in DOMAIN v : j > o + k => ~ Of(v[j], W)
  <2> SUFFICES ASSUME NEW j \in DOMAIN v, j > o + k PROVE ~ Of(v[j], W)
    OBVIOUS
  <2>1. j - o \in DOMAIN w /\ j - o > k /\ j = o + (j - o)
    BY <1>4
  <2>2. w[j - o] = v[j]
    BY <2>1
  <2>3. QED
    BY <1>3, <2>1, <2>2
<1>6. Ends(v, W, y)
  BY <1>3, <1>4, <1>5 DEF Ends
<1>7. x = y
  BY <1>6, EndsUnique
<1>8. QED
  BY <1>1, <1>7

(* The last elements of a sequence, as many as asked for or all there are. *)
LEMMA TailIs ==
  ASSUME NEW S, NEW s \in Seq(S), NEW n \in Nat, n # 0
  PROVE  \E o \in Nat :
           /\ LastOf(s, n) \in Seq(S) /\ Len(s) = o + Len(LastOf(s, n))
           /\ \A k \in DOMAIN LastOf(s, n) : o + k \in DOMAIN s /\ LastOf(s, n)[k] = s[o + k]
           /\ s # <<>> => LastOf(s, n) # <<>> /\ Last(LastOf(s, n)) = Last(s)
<1> DEFINE f == IF Len(s) > n THEN Len(s) - n + 1 ELSE 1
           t == SubSeq(s, f, Len(s))
           o == f - 1
<1>1. /\ Len(s) \in Nat /\ DOMAIN s = 1 .. Len(s) /\ f \in Nat /\ f # 0 /\ o \in Nat
      /\ f <= Len(s) + 1 /\ (Len(s) # 0 => f <= Len(s))
  OBVIOUS
<1> HIDE DEF f
<1>2. \A i \in f .. Len(s) : s[i] \in S
  BY <1>1
<1>3. /\ t \in Seq(S) /\ Len(t) = Len(s) - f + 1
      /\ \A k \in 1 .. Len(s) - f + 1 : t[k] = s[f + k - 1]
  BY <1>1, <1>2, SubSeqProperties
<1>4. t = LastOf(s, n)
  BY DEF LastOf, f
<1> HIDE DEF t
<1>5. Len(s) = o + Len(t) /\ DOMAIN t = 1 .. Len(s) - f + 1
  BY <1>1, <1>3
<1>6. \A k \in DOMAIN t : o + k \in DOMAIN s /\ t[k] = s[o + k]
  <2> SUFFICES ASSUME NEW k \in 1 .. Len(s) - f + 1 PROVE o + k \in DOMAIN s /\ t[k] = s[o + k]
    BY <1>5
  <2>1. f + k - 1 = o + k /\ o + k \in 1 .. Len(s)
    BY <1>1
  <2>2. QED
    BY <1>1, <1>3, <2>1
<1>7. ASSUME s # <<>> PROVE t # <<>> /\ Last(t) = Last(s)
  <2>1. Len(s) # 0
    BY <1>7
  <2>2. Len(t) # 0 /\ Len(t) \in DOMAIN t
    <3>1. Len(t) \in Nat /\ Len(t) = Len(s) - f + 1 /\ DOMAIN t = 1 .. Len(t)
      BY <1>3, <1>5
    <3>2. f <= Len(s)
      BY <1>1, <2>1
    <3>3. Len(t) # 0
      BY <1>1, <3>1, <3>2
    <3>4. QED
      BY <3>1, <3>3
  <2>3. t[Len(t)] = s[Len(s)]
    BY <1>5, <1>6, <2>2
  <2>4. QED
    BY <2>2, <2>3 DEF Last
<1>8. o \in Nat /\ t \in Seq(S)
  BY <1>1, <1>3
<1> HIDE DEF o
<1>9. QED
  BY <1>4, <1>5, <1>6, <1>7, <1>8

(* A query is made of what is said and of the names of tools; the token it *)
(* ends with.                                                              *)
Sayable == Token \cup ({"tool"} \X Names)
Ending(q, y) == q \in Seq(Sayable) /\ q # <<>> /\ Last(q) = y

(* A text that is not empty ends with its last token.                      *)
LEMMA TextEnding ==
  ASSUME NEW text \in Text, text # <<>>
  PROVE  Ending(text, Last(text))
<1>1. text \in Seq(Token) /\ Token \subseteq Sayable
  BY DEF Text, Sayable
<1>2. text \in Seq(Sayable)
  BY <1>1
<1>3. QED
  BY <1>2 DEF Ending

(* The newest message of some roles that has text is the newest voice of   *)
(* the speakers that have those roles, and ends with its token.            *)
LEMMA NewestIs ==
  ASSUME NEW ms \in Seq(MessageSet), NEW roles, NEW W,
         \A role : role \in roles <=> Class(role) \in W, NEW x, Ends(Heedings(ms), W, x)
  PROVE  LET i == Newest(ms, roles)
         IN  \/ x = Silent /\ i = 0
             \/ /\ x # Silent /\ i # 0 /\ i \in DOMAIN ms
                /\ MsgText(ms[i]) \in Text /\ Ending(MsgText(ms[i]), x[2])
<1> DEFINE I == {k \in 1 .. Len(ms) : MsgRole(ms[k]) \in roles /\ MsgText(ms[k]) # <<>>}
           p == IF I # {} THEN Max(I) ELSE 0
           v == Heedings(ms)
<1>1. Newest(ms, roles) = p
  BY DEF Newest, SelectLastInSeq
<1>2. v \in Seq(VoiceSet) /\ DOMAIN v = DOMAIN ms /\ Len(v) = Len(ms) /\ DOMAIN ms = 1 .. Len(ms)
  BY HeedingsType, SequenceFacts
<1>3. \A k \in 1 .. Len(ms) : v[k] = Voice(Class(MsgRole(ms[k])), MsgText(ms[k]))
  BY <1>2 DEF Heedings, Heeded
<1>4. \A k \in 1 .. Len(ms) : k \in I <=> MsgRole(ms[k]) \in roles /\ MsgText(ms[k]) # <<>>
  OBVIOUS
<1>5. I \in SUBSET (1 .. Len(v))
  BY <1>2
<1> HIDE DEF I, v
<1>6. ASSUME NEW k \in 1 .. Len(v) PROVE k \in I <=> Of(v[k], W)
  <2>1. v[k] = Voice(Class(MsgRole(ms[k])), MsgText(ms[k]))
    BY <1>2, <1>3
  <2>2. k \in I <=> Class(MsgRole(ms[k])) \in W /\ MsgText(ms[k]) # <<>>
    BY <1>2, <1>4
  <2>3. QED
    BY <2>1, <2>2 DEF Of, Voice, Silent
<1>7. Ends(v, W, x)
  BY DEF v
<1>8. \/ x = Silent /\ p = 0
      \/ x # Silent /\ p \in 1 .. Len(v) /\ p # 0 /\ x = v[p] /\ Of(x, W)
  BY <1>2, <1>5, <1>6, <1>7, EndsSelect
<1> HIDE DEF p
<1>9. CASE x # Silent /\ p \in 1 .. Len(v) /\ p # 0 /\ x = v[p]
  <2>1. p \in DOMAIN ms /\ x = Voice(Class(MsgRole(ms[p])), MsgText(ms[p]))
    BY <1>2, <1>3, <1>9
  <2>2. MsgText(ms[p]) \in Text
    <3>1. ms[p] \in MessageSet
      BY <2>1, SequenceFacts
    <3>2. QED
      BY <3>1, MessageHeard
  <2>3. MsgText(ms[p]) # <<>> /\ x[2] = Last(MsgText(ms[p]))
    BY <1>9, <2>1 DEF Voice
  <2>4. QED
    BY <1>1, <1>9, <2>1, <2>2, <2>3, TextEnding
<1>10. QED
  BY <1>1, <1>8, <1>9

(* What the user said last is what last_user_text takes.                   *)
LEMMA UserTextEnds ==
  ASSUME NEW ms \in Seq(MessageSet), NEW x, Ends(Heedings(ms), {"user"}, x), x # Silent
  PROVE  LastUserText(ms) \in Text /\ Ending(LastUserText(ms), x[2])
<1>1. \A role : role \in {"user", ""} <=> Class(role) \in {"user"}
  BY DEF Class
<1>2. LET i == Newest(ms, {"user", ""})
      IN  i # 0 /\ MsgText(ms[i]) \in Text /\ Ending(MsgText(ms[i]), x[2])
  BY <1>1, NewestIs
<1>3. QED
  BY <1>2 DEF LastUserText, TextAt

(* And what the model said last what last_assistant_text takes.            *)
LEMMA AssistantTextEnds ==
  ASSUME NEW ms \in Seq(MessageSet), NEW x, Ends(Heedings(ms), {"model"}, x), x # Silent
  PROVE  Ending(LastAssistantText(ms), x[2])
<1>1. \A role : role \in {"assistant"} <=> Class(role) \in {"model"}
  BY DEF Class
<1>2. LET i == Newest(ms, {"assistant"})
      IN  i # 0 /\ Ending(MsgText(ms[i]), x[2])
  BY <1>1, NewestIs
<1>3. QED
  BY <1>2 DEF LastAssistantText, TextAt

(* What the user or a tool said last is what latest_activity takes.        *)
LEMMA ActivityEnds ==
  ASSUME NEW ms \in Seq(MessageSet), NEW x, Ends(Heedings(ms), {"user", "tool"}, x), x # Silent
  PROVE  LatestActivity(ms) \in Text /\ Ending(LatestActivity(ms), x[2])
<1>1. \A role : role \in {"user", "", "tool"} <=> Class(role) \in {"user", "tool"}
  BY DEF Class
<1>2. LET i == Newest(ms, {"user", "", "tool"})
      IN  i # 0 /\ MsgText(ms[i]) \in Text /\ Ending(MsgText(ms[i]), x[2])
  BY <1>1, NewestIs
<1>3. QED
  BY <1>2 DEF LatestActivity, TextAt

(* What a tool said last ends what last_tool_result takes; where no tool   *)
(* said anything it takes nothing.                                         *)
LEMMA ToolResultEnds ==
  ASSUME NEW ms \in Seq(MessageSet), NEW x, Ends(Heedings(ms), {"tool"}, x)
  PROVE  /\ x = Silent => LastToolResult(ms) = <<>>
         /\ x # Silent => Ending(LastToolResult(ms), x[2])
<1> DEFINE i == Newest(ms, {"tool"})
           name == IF i # 0 /\ ms[i].name # NoName THEN <<<<"tool", ms[i].name>>>> ELSE <<>>
<1>1. \A role : role \in {"tool"} <=> Class(role) \in {"tool"}
  BY DEF Class
<1>2. \/ x = Silent /\ i = 0
      \/ /\ x # Silent /\ i # 0 /\ i \in DOMAIN ms
         /\ Ending(MsgText(ms[i]), x[2])
  BY <1>1, NewestIs
<1>3. LastToolResult(ms) = name \o TextAt(ms, i)
  BY DEF LastToolResult
<1> HIDE DEF i
<1>4. CASE x = Silent /\ i = 0
  <2>1. name = <<>> /\ TextAt(ms, i) = <<>>
    BY <1>4 DEF TextAt
  <2>2. QED
    BY <1>3, <1>4, <2>1
<1>5. CASE x # Silent /\ i # 0 /\ i \in DOMAIN ms /\ Ending(MsgText(ms[i]), x[2])
  <2>1. TextAt(ms, i) \in Seq(Sayable) /\ TextAt(ms, i) # <<>> /\ Last(TextAt(ms, i)) = x[2]
    BY <1>5 DEF TextAt, Ending
  <2>2. name \in Seq(Sayable)
    <3>1. ms[i] \in MessageSet
      BY <1>5, SequenceFacts
    <3>2. ms[i].name \in Names
      BY <3>1 DEF MessageSet
    <3>3. <<"tool", ms[i].name>> \in Sayable
      BY <3>2 DEF Sayable
    <3>4. QED
      BY <3>3
  <2> HIDE DEF name
  <2>3. /\ name \o TextAt(ms, i) \in Seq(Sayable) /\ name \o TextAt(ms, i) # <<>>
        /\ Last(name \o TextAt(ms, i)) = x[2]
    BY <2>1, <2>2, LastOfConcat
  <2>4. QED
    BY <1>3, <1>5, <2>3 DEF Ending
<1>6. QED
  BY <1>2, <1>4, <1>5

(* What keyword_focused keeps of a text one by one.                        *)
Kept(text) == [i \in DOMAIN text |-> IF IsScaffold(text[i]) THEN <<>> ELSE <<text[i]>>]

(* It keeps the last token, unless it is scaffolding.                      *)
LEMMA ContentEnds ==
  ASSUME NEW text \in Text, text # <<>>, ~ IsScaffold(Last(text))
  PROVE  Ending(Content(text), Last(text))
<1> DEFINE n == Len(text)
           ss == Kept(text)
           y == Last(text)
<1>1. /\ n \in Nat /\ n # 0 /\ DOMAIN text = 1 .. n /\ n \in 1 .. n /\ y = text[n]
      /\ \A i \in 1 .. n : text[i] \in Token
  BY DEF Text, Last
<1>2. ss \in Seq(Seq(Token)) /\ DOMAIN ss = 1 .. n
  <2>1. \A i \in 1 .. n : <<text[i]>> \in Seq(Token)
    BY <1>1
  <2>2. <<>> \in Seq(Token)
    OBVIOUS
  <2>3. ss \in [1 .. n -> Seq(Token)]
    BY <1>1, <2>1, <2>2 DEF Kept
  <2>4. QED
    BY <1>1, <2>3, FunctionIsSequence
<1>3. ss[n] = <<y>>
  BY <1>1 DEF Kept
<1>4. Content(text) = FlattenSeq(ss)
  BY DEF Content, Kept
<1> HIDE DEF ss, n, y
<1>5. ss[n] # <<>> /\ Last(ss[n]) = y
  <2>1. <<y>> # <<>> /\ Last(<<y>>) = y
    BY DEF Last
  <2>2. QED
    BY <1>3, <2>1
<1>6. n \in DOMAIN ss /\ \A j \in DOMAIN ss : ~ (j > n)
  BY <1>1, <1>2
<1>7. FlattenSeq(ss) # <<>> /\ Last(FlattenSeq(ss)) = Last(ss[n])
  BY <1>2, <1>5, <1>6, FlattenEnds
<1>8. FlattenSeq(ss) \in Text
  BY <1>2, FlattenType DEF Text
<1>9. QED
  BY <1>4, <1>5, <1>7, <1>8, TextEnding DEF y

(* Two elements are one and another appended.                              *)
LEMMA AppendToOne ==
  ASSUME NEW S, NEW a \in S, NEW b \in S
  PROVE  Append(<<a>>, b) = <<a, b>>
<1>1. <<a>> \in Seq(S) /\ Len(<<a>>) = 1 /\ <<a>>[1] = a
  OBVIOUS
<1>2. /\ Append(<<a>>, b) \in Seq(S) /\ Len(Append(<<a>>, b)) = 2
      /\ Append(<<a>>, b)[1] = a /\ Append(<<a>>, b)[2] = b
  BY <1>1
<1>3. <<a, b>> \in Seq(S) /\ Len(<<a, b>>) = 2 /\ <<a, b>>[1] = a /\ <<a, b>>[2] = b
  OBVIOUS
<1> DEFINE u == Append(<<a>>, b)
           w == <<a, b>>
<1>4. u \in Seq(S) /\ w \in Seq(S) /\ Len(u) = 2 /\ Len(w) = 2 /\ u[1] = w[1] /\ u[2] = w[2]
  BY <1>2, <1>3
<1> HIDE DEF u, w
<1>5. \A i \in 1 .. Len(u) : u[i] = w[i]
  BY <1>4
<1>6. u = w
  BY <1>4, <1>5, SeqEqual
<1>7. QED
  BY <1>6 DEF u, w

(* A speech has a form that has a content: its last token, which names who *)
(* speaks.                                                                 *)
LEMMA ContentOfSpeech ==
  ASSUME NEW s \in SpeechSet, SpeechForm(s), s.text # <<>>
  PROVE  /\ Content(s.text) = <<Last(s.text)>>
         /\ Last(s.text)[1] = (CASE s.who = "user" -> "user" [] s.who = "model" -> "model"
                                 [] OTHER -> "result")
<1>1. s.who \in {"user", "model", "tool"}
  BY DEF SpeechSet
<1>2. ASSUME NEW y, y \in Token, ~ IsScaffold(y)
      PROVE  /\ Content(<<y>>) = <<y>> /\ Last(<<y>>) = y
             /\ Content(<<<<"please", 0>>, y>>) = <<y>> /\ Last(<<<<"please", 0>>, y>>) = y
  <2>1. Kept(<<y>>) = <<<<y>>>>
    BY <1>2 DEF Kept
  <2> DEFINE please == <<"please", 0>>
  <2>2. IsScaffold(please)
    BY DEF IsScaffold
  <2> HIDE DEF please
  <2>3. Kept(<<please, y>>) = <<<<>>, <<y>>>>
    BY <1>2, <2>2 DEF Kept
  <2>4. <<y>> \in Seq(Token) /\ <<>> \in Seq(Token)
    BY <1>2
  <2>5. FlattenSeq(<<<<y>>>>) = <<y>> /\ FlattenSeq(<<<<>>>>) = <<>>
    BY <2>4, FlattenOne
  <2>6. FlattenSeq(Append(<<<<>>>>, <<y>>)) = FlattenSeq(<<<<>>>>) \o <<y>>
    <3>1. <<<<>>>> \in Seq(Seq(Token))
      BY <2>4
    <3>2. QED
      BY <2>4, <3>1, FlattenAppend
  <2>7. Append(<<<<>>>>, <<y>>) = <<<<>>, <<y>>>>
    BY <2>4, AppendToOne
  <2>8. FlattenSeq(<<<<>>, <<y>>>>) = <<y>>
    <3>1. \A z \in Seq(Token) : <<>> \o z = z
      OBVIOUS
    <3>2. <<>> \o <<y>> = <<y>>
      BY <2>4, <3>1
    <3>3. FlattenSeq(<<<<>>>>) \o <<y>> = <<y>>
      BY <2>5, <3>2, Zenon
    <3>4. QED
      BY <2>6, <2>7, <3>3, Zenon
  <2>9. Content(<<y>>) = <<y>> /\ Content(<<please, y>>) = <<y>>
    BY <2>1, <2>3, <2>5, <2>8 DEF Content, Kept
  <2>10. Last(<<y>>) = y /\ Last(<<please, y>>) = y
    BY DEF Last
  <2>11. QED
    BY <2>9, <2>10 DEF please
<1>3. CASE s.who = "user"
  <2>1. PICK n \in Nat : s.text = <<<<"please", 0>>, <<"user", n>>>>
    BY <1>3 DEF SpeechForm
  <2> DEFINE y == <<"user", n>>
  <2>2. y \in Token /\ ~ IsScaffold(y) /\ y[1] = "user"
    BY DEF Token, IsScaffold
  <2> HIDE DEF y
  <2>3. Content(<<<<"please", 0>>, y>>) = <<y>> /\ Last(<<<<"please", 0>>, y>>) = y
    BY <1>2, <2>2
  <2>4. s.text = <<<<"please", 0>>, y>>
    BY <2>1 DEF y
  <2>5. QED
    BY <1>3, <2>2, <2>3, <2>4
<1>4. CASE s.who = "model"
  <2>1. PICK n \in Nat : s.text = <<<<"model", n>>>>
    BY <1>4 DEF SpeechForm
  <2> DEFINE y == <<"model", n>>
  <2>2. y \in Token /\ ~ IsScaffold(y) /\ y[1] = "model"
    BY DEF Token, IsScaffold
  <2> HIDE DEF y
  <2>3. Content(<<y>>) = <<y>> /\ Last(<<y>>) = y
    BY <1>2, <2>2
  <2>4. s.text = <<y>>
    BY <2>1 DEF y
  <2>5. QED
    BY <1>4, <2>2, <2>3, <2>4
<1>5. CASE s.who = "tool"
  <2>1. PICK id \in SomeId : s.text = <<<<"result", id>>>>
    BY <1>5 DEF SpeechForm
  <2> DEFINE y == <<"result", id>>
  <2>2. y \in Token /\ ~ IsScaffold(y) /\ y[1] = "result"
    BY DEF Token, IsScaffold
  <2> HIDE DEF y
  <2>3. Content(<<y>>) = <<y>> /\ Last(<<y>>) = y
    BY <1>2, <2>2
  <2>4. s.text = <<y>>
    BY <2>1 DEF y
  <2>5. QED
    BY <1>5, <2>2, <2>3, <2>4
<1>6. QED
  BY <1>1, <1>3, <1>4, <1>5

(* The newest speech of some speakers that says anything.                  *)
Meant(H) == SelectLastInSeq(said, LAMBDA s : s.who \in H /\ s.text # <<>>)
VoiceMeant(H) == <<said[Meant(H)].who, Last(said[Meant(H)].text)>>

(* It is the newest voice of theirs in what was said.                      *)
LEMMA MeantIs ==
  ASSUME TypeOK, NEW H, Meant(H) # 0
  PROVE  /\ Meant(H) \in DOMAIN said /\ said[Meant(H)] \in SpeechSet
         /\ said[Meant(H)].who \in H /\ said[Meant(H)].text # <<>>
         /\ Ends(SpeechVoices(said), H, VoiceMeant(H)) /\ VoiceMeant(H) # Silent
         /\ VoiceMeant(H)[1] \in H /\ VoiceMeant(H)[2] = Last(said[Meant(H)].text)
<1> DEFINE I == {k \in 1 .. Len(said) : said[k].who \in H /\ said[k].text # <<>>}
           p == IF I # {} THEN Max(I) ELSE 0
           v == SpeechVoices(said)
<1>1. Meant(H) = p
  BY DEF Meant, SelectLastInSeq
<1>2. /\ said \in Seq(SpeechSet) /\ DOMAIN said = 1 .. Len(said)
      /\ \A k \in 1 .. Len(said) : said[k] \in SpeechSet
  BY SequenceFacts DEF TypeOK
<1>3. /\ v \in Seq(VoiceSet) /\ Len(v) = Len(said)
      /\ \A k \in 1 .. Len(said) : v[k] = Voice(said[k].who, said[k].text)
  BY <1>2, SpeechVoicesType DEF SpeechVoices
<1>4. I \in SUBSET (1 .. Len(v))
  BY <1>3
<1>5. \A k \in 1 .. Len(said) : k \in I <=> said[k].who \in H /\ said[k].text # <<>>
  OBVIOUS
<1> HIDE DEF I, v
<1>6. ASSUME NEW k \in 1 .. Len(v) PROVE k \in I <=> Of(v[k], H)
  <2>1. v[k] = Voice(said[k].who, said[k].text)
    BY <1>3
  <2>2. k \in I <=> said[k].who \in H /\ said[k].text # <<>>
    BY <1>3, <1>5
  <2>3. QED
    BY <2>1, <2>2 DEF Of, Voice, Silent
<1>7. PICK x : Ends(v, H, x)
  BY <1>3, EndsExists
<1>8. \/ x = Silent /\ p = 0
      \/ x # Silent /\ p \in 1 .. Len(v) /\ p # 0 /\ x = v[p] /\ Of(x, H)
  BY <1>3, <1>4, <1>6, <1>7, EndsSelect
<1> HIDE DEF p
<1>9. x # Silent /\ p \in 1 .. Len(said) /\ x = Voice(said[p].who, said[p].text) /\ Of(x, H)
  BY <1>1, <1>3, <1>8
<1>10. said[p].text # <<>> /\ x = <<said[p].who, Last(said[p].text)>>
  BY <1>9 DEF Voice
<1>11. x = VoiceMeant(H)
  BY <1>1, <1>10 DEF VoiceMeant
<1>12. x[1] = said[p].who /\ x[2] = Last(said[p].text)
  BY <1>10
<1>13. QED
  BY <1>1, <1>2, <1>7, <1>9, <1>10, <1>11, <1>12 DEF Of, v

(* What the generic generators listen to has the newest voice of whom they *)
(* hear.                                                                   *)
LEMMA HeedingsEnd ==
  ASSUME TypeOK, Telling, dialect \in Generic, NEW W \in SUBSET Speakers,
         Meant(W \cap Hearable) # 0, "user" \in W \/ Unmixed(messages)
  PROVE  Ends(Heedings(messages), W, VoiceMeant(W \cap Hearable))
<1> DEFINE H == W \cap Hearable
           v == SpeechVoices(said)
<1>1. Ends(v, H, VoiceMeant(H))
  BY MeantIs
<1>2. Same(v, H, Heedings(messages), W)
  BY DEF Telling, Understood, Follows
<1>3. v \in Seq(VoiceSet)
  BY SpeechVoicesType DEF TypeOK
<1>4. PICK x : Ends(v, H, x) /\ Ends(Heedings(messages), W, x)
  BY <1>2 DEF Same
<1> HIDE DEF v, H
<1>5. x = VoiceMeant(H)
  BY <1>1, <1>3, <1>4, EndsUnique
<1>6. QED
  BY <1>4, <1>5 DEF H

(* Only Gemini's model is nobody.                                          *)
LEMMA ClassSpeaks ==
  ASSUME NEW m \in MessageSet, m.role # "model"
  PROVE  Class(MsgRole(m)) \in Speakers
<1>1. m.role \in {NoRole, "user", "assistant", "tool"}
  BY DEF MessageSet, Roles
<1>2. MsgRole(m) \in {"user", "assistant", "tool", ""}
  BY <1>1 DEF MsgRole, NoRole
<1>3. QED
  BY <1>2 DEF Class, Speakers

(* A message that says something the generic generators listen to is heard.*)
LEMMA ShownIsHeard ==
  ASSUME TypeOK, Telling, dialect \in Generic, NEW k \in DOMAIN messages,
         NEW text \in Text, text # <<>>, Says(messages[k], text),
         dialect = "strands" => Last(text)[1] # "result"
  PROVE  Of(Heeded(messages[k]), Speakers)
<1>1. messages[k] \in MessageSet
  BY SequenceFacts DEF TypeOK
<1>2. Class(MsgRole(messages[k])) \in Speakers
  BY <1>1, ClassSpeaks DEF Telling, Boxed, Boxes
<1>3. Heeded(messages[k]) # Silent
  BY DEF Telling, MessagesShow, Shown
<1>4. QED
  BY <1>2, <1>3 DEF Of, Heeded, Voice, Silent

(* What concatenate_recent joins ends with the newest text of the recent   *)
(* messages, if one of them has any.                                       *)
LEMMA RecentEnds ==
  ASSUME TypeOK, Telling, dialect \in Generic, NEW x,
         Ends(Heedings(messages), Speakers, x), x # Silent,
         \E k \in DOMAIN LastOf(messages, Recent) :
            Of(Heeded(LastOf(messages, Recent)[k]), Speakers)
  PROVE  Ending(ConcatenateRecent(messages), x[2])
<1> DEFINE far == LastOf(messages, Recent)
           w == Heedings(far)
           v == Heedings(messages)
           texts == [i \in DOMAIN far |-> MsgText(far[i])]
<1>1. messages \in Seq(MessageSet) /\ Recent \in Nat /\ Recent # 0
  BY ConversationAssumption DEF TypeOK
<1>2. PICK o \in Nat :
         /\ far \in Seq(MessageSet) /\ Len(messages) = o + Len(far)
         /\ \A k \in DOMAIN far : o + k \in DOMAIN messages /\ far[k] = messages[o + k]
  BY <1>1, TailIs
<1>3. ConcatenateRecent(messages) = FlattenSeq(texts)
  BY DEF ConcatenateRecent
<1> HIDE DEF far
<1>4. /\ v \in Seq(VoiceSet) /\ w \in Seq(VoiceSet) /\ Len(v) = o + Len(w)
      /\ DOMAIN w = DOMAIN far
  BY <1>1, <1>2, HeedingsType
<1>5. \A k \in DOMAIN w : w[k] = v[o + k]
  BY <1>2, <1>4 DEF Heedings
<1>6. \E k \in DOMAIN w : Of(w[k], Speakers)
  BY <1>4 DEF Heedings, far
<1>7. Ends(v, Speakers, x)
  OBVIOUS
<1>8. DOMAIN far = 1 .. Len(far) /\ Len(far) \in Nat /\ \A k \in DOMAIN far : far[k] \in MessageSet
  BY <1>2, SequenceFacts
<1> HIDE DEF v
<1>9. Ends(w, Speakers, x)
  BY <1>4, <1>5, <1>6, <1>7, EndsOfTail
<1>10. PICK p \in DOMAIN far : /\ x = Heeded(far[p])
                               /\ \A j \in DOMAIN far : j > p => ~ Of(Heeded(far[j]), Speakers)
  <2>1. PICK p \in DOMAIN w : /\ x = w[p]
                              /\ \A j \in DOMAIN w : j > p => ~ Of(w[j], Speakers)
    BY <1>9 DEF Ends
  <2>2. \A j \in DOMAIN far : w[j] = Heeded(far[j])
    BY DEF Heedings
  <2>3. QED
    BY <1>4, <2>1, <2>2
<1>11. MsgText(far[p]) # <<>> /\ x[2] = Last(MsgText(far[p]))
  BY <1>10 DEF Heeded, Voice
<1>12. ASSUME NEW j \in DOMAIN far, j > p PROVE MsgText(far[j]) = <<>>
  <2>1. far[j].role # "model"
    <3>1. o + j \in DOMAIN messages /\ far[j] = messages[o + j]
      BY <1>2
    <3>2. Boxes(messages[o + j])
      BY <3>1 DEF Telling, Boxed
    <3>3. QED
      BY <3>1, <3>2 DEF Boxes
  <2>2. Class(MsgRole(far[j])) \in Speakers
    BY <1>8, <2>1, ClassSpeaks
  <2>3. ~ Of(Heeded(far[j]), Speakers)
    BY <1>10, <1>12
  <2>4. QED
    BY <2>2, <2>3 DEF Of, Heeded, Voice, Silent
<1>13. texts \in Seq(Seq(Token)) /\ DOMAIN texts = DOMAIN far
  <2>1. \A k \in DOMAIN far : MsgText(far[k]) \in Seq(Token)
    BY <1>8, MessageHeard DEF Text
  <2>2. texts \in [1 .. Len(far) -> Seq(Token)]
    BY <1>8, <2>1
  <2>3. QED
    BY <1>8, <2>2, FunctionIsSequence
<1>14. \A k \in DOMAIN far : texts[k] = MsgText(far[k])
  OBVIOUS
<1> HIDE DEF texts
<1>15. texts[p] # <<>> /\ \A j \in DOMAIN texts : j > p => texts[j] = <<>>
  BY <1>11, <1>12, <1>13, <1>14
<1>16. FlattenSeq(texts) # <<>> /\ Last(FlattenSeq(texts)) = Last(texts[p])
  BY <1>13, <1>15, FlattenEnds
<1>17. FlattenSeq(texts) \in Text
  BY <1>13, FlattenType DEF Text
<1>18. QED
  BY <1>3, <1>11, <1>14, <1>16, <1>17, TextEnding

(* A live voice is the user's.                                             *)
LEMMA LiveIsUsers ==
  ASSUME NEW m
  PROVE  LiveVoice(m) # Silent => LiveVoice(m)[1] = "user"
<1>1. \A t : Voice("user", t) # Silent => Voice("user", t)[1] = "user"
  BY DEF Voice, Silent
<1>2. LiveVoice(m) = Silent \/ \E t : LiveVoice(m) = Voice("user", t)
  BY DEF LiveVoice
<1>3. QED
  BY <1>1, <1>2

(* The newest of the live voices is the one a search for the last finds.   *)
LEMMA LiveSelect ==
  ASSUME NEW ms \in Seq(MessageSet), NEW x, Ends(LiveVoices(ms), {"user"}, x), x # Silent,
         NEW I \in SUBSET (1 .. Len(ms)),
         \A k \in 1 .. Len(ms) : k \in I <=> LiveVoice(ms[k]) # Silent
  PROVE  LET p == IF I # {} THEN Max(I) ELSE 0
         IN  p # 0 /\ p \in DOMAIN ms /\ ms[p] \in MessageSet /\ x = LiveVoice(ms[p])
<1> DEFINE v == LiveVoices(ms)
           p == IF I # {} THEN Max(I) ELSE 0
<1>1. /\ v \in Seq(VoiceSet) /\ Len(v) = Len(ms) /\ DOMAIN ms = 1 .. Len(ms)
      /\ \A k \in 1 .. Len(ms) : v[k] = LiveVoice(ms[k]) /\ ms[k] \in MessageSet
  BY LiveVoicesType, SequenceFacts DEF LiveVoices
<1>2. \A k \in 1 .. Len(v) : k \in I <=> v[k] # Silent
  BY <1>1
<1>3. \A k \in 1 .. Len(v) : v[k] # Silent => v[k][1] = "user"
  BY <1>1, LiveIsUsers
<1>4. \A k \in 1 .. Len(v) : k \in I <=> Of(v[k], {"user"})
  BY <1>2, <1>3 DEF Of
<1>5. I \in SUBSET (1 .. Len(v)) /\ Ends(v, {"user"}, x)
  BY <1>1
<1> HIDE DEF v
<1>6. \/ x = Silent /\ p = 0
      \/ x # Silent /\ p \in 1 .. Len(v) /\ p # 0 /\ x = v[p]
  BY <1>1, <1>4, <1>5, EndsSelect
<1> HIDE DEF p
<1>7. p # 0 /\ p \in DOMAIN ms /\ x = LiveVoice(ms[p]) /\ ms[p] \in MessageSet
  BY <1>1, <1>6
<1>8. QED
  BY <1>7 DEF p

(* with_semantic_tools takes the user's newest word.                       *)
LEMMA PromptEnds ==
  ASSUME NEW ms \in Seq(MessageSet), dialect \in {"openai", "anthropic"}, NEW x,
         Ends(LiveVoices(ms), {"user"}, x), x # Silent
  PROVE  Ending(ExtractPrompt(ms), x[2])
<1> DEFINE I == {k \in 1 .. Len(ms) : ms[k].role = "user" /\ WordOf(ms[k]) # <<>>}
           p == IF I # {} THEN Max(I) ELSE 0
<1>1. ExtractPrompt(ms) = IF p = 0 THEN <<>> ELSE WordOf(ms[p])
  BY DEF ExtractPrompt, SelectLastInSeq, WordOf
<1>2. \A k \in 1 .. Len(ms) : k \in I <=> ms[k].role = "user" /\ WordOf(ms[k]) # <<>>
  OBVIOUS
<1>3. I \in SUBSET (1 .. Len(ms))
  OBVIOUS
<1> HIDE DEF I
<1>4. \A k \in 1 .. Len(ms) : k \in I <=> LiveVoice(ms[k]) # Silent
  BY <1>2 DEF LiveVoice, Voice, Silent
<1>5. p # 0 /\ p \in DOMAIN ms /\ ms[p] \in MessageSet /\ x = LiveVoice(ms[p])
  BY <1>3, <1>4, LiveSelect
<1> HIDE DEF p
<1>6. WordOf(ms[p]) # <<>> /\ x[2] = Last(WordOf(ms[p]))
  BY <1>5 DEF LiveVoice, Voice
<1>7. WordOf(ms[p]) \in Text
  BY <1>5, LiveVoiceType
<1>8. QED
  BY <1>1, <1>5, <1>6, <1>7, TextEnding

(* The last of the messages are messages, in the same order.               *)
LEMMA FarIs ==
  ASSUME TypeOK, NEW n \in Nat, n # 0
  PROVE  \E o \in Nat :
           /\ LastOf(messages, n) \in Seq(MessageSet)
           /\ Len(messages) = o + Len(LastOf(messages, n))
           /\ \A k \in DOMAIN LastOf(messages, n) :
                o + k \in DOMAIN messages /\ LastOf(messages, n)[k] = messages[o + k]
<1>1. messages \in Seq(MessageSet)
  BY DEF TypeOK
<1> DEFINE far == LastOf(messages, n)
<1>2. PICK o \in Nat :
         /\ far \in Seq(MessageSet) /\ Len(messages) = o + Len(far)
         /\ \A k \in DOMAIN far : o + k \in DOMAIN messages /\ far[k] = messages[o + k]
         /\ messages # <<>> => far # <<>> /\ Last(far) = Last(messages)
  BY <1>1, TailIs, Zenon
<1> HIDE DEF far
<1>3. \E q \in Nat :
         /\ far \in Seq(MessageSet) /\ Len(messages) = q + Len(far)
         /\ \A k \in DOMAIN far : q + k \in DOMAIN messages /\ far[k] = messages[q + k]
  BY <1>2
<1>4. QED
  BY <1>3 DEF far

(* The text that started the run is the user's newest.                     *)
LEMMA PromptIs ==
  ASSUME TypeOK, SpeechesFormed, Meant({"user"}) # 0
  PROVE  Prompt = said[Meant({"user"})].text /\ Prompt \in Text /\ Prompt # <<>>
<1> DEFINE I == {k \in 1 .. Len(said) : said[k].who \in {"user"} /\ said[k].text # <<>>}
           J == {k \in 1 .. Len(said) : said[k].who = "user"}
<1>1. DOMAIN said = 1 .. Len(said)
  BY SequenceFacts DEF TypeOK
<1>2. \A k \in 1 .. Len(said) : said[k].who = "user" => said[k].text # <<>>
  BY <1>1 DEF SpeechesFormed, SpeechForm
<1>3. I = J
  BY <1>2
<1>4. Prompt = said[IF J # {} THEN Max(J) ELSE 0].text
  BY DEF Prompt, SelectLastInSeq
<1>5. Meant({"user"}) = IF I # {} THEN Max(I) ELSE 0
  BY DEF Meant, SelectLastInSeq
<1> HIDE DEF I, J
<1>6. Prompt = said[Meant({"user"})].text
  BY <1>3, <1>4, <1>5
<1>7. said[Meant({"user"})] \in SpeechSet /\ said[Meant({"user"})].text # <<>>
  BY MeantIs
<1>8. QED
  BY <1>6, <1>7 DEF SpeechSet

(* Strands takes the user's newest words, if one of the messages it looks  *)
(* at has any.                                                             *)
LEMMA TailPromptEnds ==
  ASSUME TypeOK, dialect = "strands", NEW x,
         Ends(LiveVoices(messages), {"user"}, x), x # Silent,
         \E k \in DOMAIN LastOf(messages, Lookback) :
            LiveVoice(LastOf(messages, Lookback)[k]) # Silent
  PROVE  Ending(QueryFromMessages(messages), x[2])
<1> DEFINE far == LastOf(messages, Lookback)
           w == LiveVoices(far)
           v == LiveVoices(messages)
           I == {k \in 1 .. Len(far) :
                   far[k].role = "user" /\ Texts(far[k].blocks, {"text"}) # <<>>}
           p == IF I # {} THEN Max(I) ELSE 0
<1>1. messages \in Seq(MessageSet) /\ Lookback \in Nat /\ Lookback # 0
  BY ConversationAssumption DEF TypeOK
<1>2. PICK o \in Nat :
         /\ far \in Seq(MessageSet) /\ Len(messages) = o + Len(far)
         /\ \A k \in DOMAIN far : o + k \in DOMAIN messages /\ far[k] = messages[o + k]
  BY <1>1, FarIs
<1>3. QueryFromMessages(messages) = IF p = 0 THEN <<>> ELSE Texts(far[p].blocks, {"text"})
  BY DEF QueryFromMessages, SelectLastInSeq
<1>4. PICK k \in DOMAIN far : LiveVoice(far[k]) # Silent
  OBVIOUS
<1> HIDE DEF far
<1>5. /\ v \in Seq(VoiceSet) /\ w \in Seq(VoiceSet) /\ Len(v) = o + Len(w)
      /\ DOMAIN w = DOMAIN far
  BY <1>1, <1>2, LiveVoicesType
<1>6. \A j \in DOMAIN w : w[j] = v[o + j]
  BY <1>2, <1>5 DEF LiveVoices
<1>7. Of(w[k], {"user"})
  <2>1. w[k] = LiveVoice(far[k])
    BY <1>4 DEF LiveVoices
  <2>2. QED
    BY <1>4, <2>1, LiveIsUsers DEF Of
<1>8. Ends(v, {"user"}, x) /\ k \in DOMAIN w
  BY <1>5
<1> HIDE DEF v, w
<1>9. Ends(w, {"user"}, x)
  BY <1>5, <1>6, <1>7, <1>8, EndsOfTail
<1>10. \A j \in 1 .. Len(far) :
          j \in I <=> far[j].role = "user" /\ Texts(far[j].blocks, {"text"}) # <<>>
  OBVIOUS
<1>11. I \in SUBSET (1 .. Len(far))
  OBVIOUS
<1> HIDE DEF I
<1>12. \A j \in 1 .. Len(far) : j \in I <=> LiveVoice(far[j]) # Silent
  BY <1>10 DEF LiveVoice, Voice, Silent
<1>13. p # 0 /\ p \in DOMAIN far /\ far[p] \in MessageSet /\ x = LiveVoice(far[p])
  BY <1>2, <1>9, <1>11, <1>12, LiveSelect DEF w
<1> HIDE DEF p
<1>14. /\ Texts(far[p].blocks, {"text"}) # <<>>
       /\ x[2] = Last(Texts(far[p].blocks, {"text"}))
  BY <1>13 DEF LiveVoice, Voice
<1>15. Texts(far[p].blocks, {"text"}) \in Text
  BY <1>13, JoinedType DEF MessageSet
<1>16. QED
  BY <1>3, <1>13, <1>14, <1>15, TextEnding

(* ADK takes the newest words of the user's events it looks at, or what    *)
(* started the run.                                                        *)
LEMMA EventEnds ==
  ASSUME TypeOK, dialect = "google_adk", NEW x,
         Ends(LiveVoices(messages), {"user"}, x), x # Silent,
         Prompt \in Text, Prompt # <<>>, Last(Prompt) = x[2]
  PROVE  Ending(QueryFromCallbackContext(messages), x[2])
<1> DEFINE far == LastOf(messages, Lookback)
           w == LiveVoices(far)
           v == LiveVoices(messages)
           I == {k \in 1 .. Len(far) :
                   far[k].type = "by user" /\ Texts(far[k].parts, {"part"}) # <<>>}
           p == IF I # {} THEN Max(I) ELSE 0
<1>1. messages \in Seq(MessageSet) /\ Lookback \in Nat /\ Lookback # 0
  BY ConversationAssumption DEF TypeOK
<1>2. PICK o \in Nat :
         /\ far \in Seq(MessageSet) /\ Len(messages) = o + Len(far)
         /\ \A k \in DOMAIN far : o + k \in DOMAIN messages /\ far[k] = messages[o + k]
  BY <1>1, FarIs
<1>3. QueryFromCallbackContext(messages) = IF p = 0 THEN Prompt ELSE Texts(far[p].parts, {"part"})
  BY DEF QueryFromCallbackContext, SelectLastInSeq
<1> HIDE DEF far
<1>4. /\ v \in Seq(VoiceSet) /\ w \in Seq(VoiceSet) /\ Len(v) = o + Len(w)
      /\ DOMAIN w = DOMAIN far
  BY <1>1, <1>2, LiveVoicesType
<1>5. \A j \in DOMAIN w : w[j] = v[o + j]
  BY <1>2, <1>4 DEF LiveVoices
<1>6. Ends(v, {"user"}, x)
  OBVIOUS
<1>7. \A j \in DOMAIN far : w[j] = LiveVoice(far[j])
  BY DEF LiveVoices
<1> HIDE DEF v, w
<1>8. \A j \in 1 .. Len(far) :
         j \in I <=> far[j].type = "by user" /\ Texts(far[j].parts, {"part"}) # <<>>
  OBVIOUS
<1>9. I \in SUBSET (1 .. Len(far)) /\ DOMAIN far = 1 .. Len(far)
  <2>1. DOMAIN far = 1 .. Len(far)
    BY <1>2, SequenceFacts
  <2>2. QED
    BY <2>1
<1> HIDE DEF I
<1>10. \A j \in 1 .. Len(far) : j \in I <=> LiveVoice(far[j]) # Silent
  BY <1>8 DEF LiveVoice, Voice, Silent
<1>11. CASE I = {}
  <2>1. QueryFromCallbackContext(messages) = Prompt
    BY <1>3, <1>11
  <2>2. QED
    BY <2>1, TextEnding
<1>12. CASE I # {}
  <2>1. PICK k \in DOMAIN far : LiveVoice(far[k]) # Silent
    BY <1>9, <1>10, <1>12
  <2>2. Of(w[k], {"user"}) /\ k \in DOMAIN w
    BY <1>4, <1>7, <2>1, LiveIsUsers DEF Of
  <2>3. Ends(w, {"user"}, x)
    BY <1>4, <1>5, <1>6, <2>2, EndsOfTail
  <2>4. p # 0 /\ p \in DOMAIN far /\ far[p] \in MessageSet /\ x = LiveVoice(far[p])
    BY <1>2, <1>9, <1>10, <2>3, LiveSelect DEF w
  <2> HIDE DEF p
  <2>5. /\ Texts(far[p].parts, {"part"}) # <<>>
        /\ x[2] = Last(Texts(far[p].parts, {"part"}))
    BY <2>4 DEF LiveVoice, Voice
  <2>6. Texts(far[p].parts, {"part"}) \in Text
    BY <2>4, JoinedType DEF MessageSet
  <2>7. QED
    BY <1>3, <2>4, <2>5, <2>6, TextEnding
<1>13. QED
  BY <1>11, <1>12

(* Pydantic AI's resumed run takes the newest prompt or result.            *)
LEMMA PartEnds ==
  ASSUME NEW ms \in Seq(MessageSet), NEW x,
         Ends(PartVoices(PartsOf(ms)), {"user", "tool"}, x), x # Silent
  PROVE  Ending(LatestPartText(ms), x[2])
<1> DEFINE told == PartsOf(ms)
           n == Len(told)
           rev == Reverse(told)
           types == {"user-prompt", "tool-return"}
           v == PartVoices(told)
<1>1. LatestPartText(ms) = TextOfBlocks(rev, types)
  BY DEF LatestPartText, PartsOf
<1>2. told \in Seq(BlockSet)
  BY PartsEachType
<1>3. Ends(v, {"user", "tool"}, x)
  OBVIOUS
<1> HIDE DEF told
<1>4. /\ n \in Nat /\ DOMAIN told = 1 .. n /\ \A k \in 1 .. n : told[k] \in BlockSet
      /\ v \in Seq(VoiceSet) /\ DOMAIN v = 1 .. n /\ \A k \in 1 .. n : v[k] = PartVoice(told[k])
  BY <1>2, SequenceFacts, PartVoicesType DEF PartVoices
<1>5. /\ rev \in Seq(BlockSet) /\ DOMAIN rev = 1 .. n
      /\ \A i \in 1 .. n : rev[i] = told[(n - i) + 1]
  <2>1. rev = [i \in 1 .. n |-> told[(n - i) + 1]]
    BY DEF Reverse
  <2> HIDE DEF n, rev
  <2>2. \A i \in 1 .. n : (n - i) + 1 \in 1 .. n
    BY <1>4
  <2>3. rev \in [1 .. n -> BlockSet]
    BY <1>4, <2>1, <2>2
  <2>4. QED
    BY <1>4, <2>1, <2>3, FunctionIsSequence
<1>6. ASSUME NEW b \in BlockSet
      PROVE  Of(PartVoice(b), {"user", "tool"}) <=> b.type \in types /\ b.text # <<>>
  BY DEF Of, PartVoice, Voice, Silent
<1> HIDE DEF n, rev, types, v
<1>7. CASE \A j \in DOMAIN rev : rev[j].type \in types => rev[j].text = <<>>
  <2>1. ASSUME NEW k \in 1 .. n PROVE ~ Of(v[k], {"user", "tool"})
    <3>1. (n - k) + 1 \in 1 .. n /\ (n - ((n - k) + 1)) + 1 = k
      BY <1>4
    <3>2. rev[(n - k) + 1] = told[k]
      BY <1>5, <3>1
    <3>3. ~ (told[k].type \in types /\ told[k].text # <<>>)
      BY <1>5, <1>7, <3>1, <3>2
    <3>4. QED
      BY <1>4, <1>6, <3>3
  <2>2. Ends(v, {"user", "tool"}, Silent)
    BY <1>4, <2>1 DEF Ends
  <2>3. QED
    BY <1>3, <1>4, <2>2, EndsUnique
<1>8. CASE \E i \in DOMAIN rev :
             /\ rev[i].type \in types /\ rev[i].text # <<>>
             /\ TextOfBlocks(rev, types) = rev[i].text
             /\ \A j \in DOMAIN rev : j < i => ~ (rev[j].type \in types /\ rev[j].text # <<>>)
  <2>1. PICK i \in 1 .. n :
          /\ rev[i].type \in types /\ rev[i].text # <<>>
          /\ TextOfBlocks(rev, types) = rev[i].text
          /\ \A j \in 1 .. n : j < i => ~ (rev[j].type \in types /\ rev[j].text # <<>>)
    BY <1>5, <1>8
  <2> DEFINE p == (n - i) + 1
  <2>2. p \in 1 .. n /\ rev[i] = told[p]
    BY <1>4, <1>5
  <2>3. ASSUME NEW k \in 1 .. n, k > p PROVE ~ Of(v[k], {"user", "tool"})
    <3>1. /\ (n - k) + 1 \in 1 .. n /\ (n - ((n - k) + 1)) + 1 = k
          /\ (n - k) + 1 < i
      BY <1>4, <2>3
    <3>2. rev[(n - k) + 1] = told[k]
      BY <1>5, <3>1
    <3>3. ~ (told[k].type \in types /\ told[k].text # <<>>)
      BY <2>1, <3>1, <3>2
    <3>4. QED
      BY <1>4, <1>6, <3>3
  <2> HIDE DEF p
  <2>4. Of(v[p], {"user", "tool"}) /\ v[p] = PartVoice(told[p])
    BY <1>4, <1>6, <2>1, <2>2
  <2>5. Ends(v, {"user", "tool"}, v[p])
    BY <1>4, <2>2, <2>3, <2>4 DEF Ends
  <2>6. x = v[p]
    BY <1>3, <1>4, <2>5, EndsUnique
  <2>7. told[p].text # <<>> /\ x[2] = Last(told[p].text)
    <3>1. x = PartVoice(told[p]) /\ told[p].type \in types /\ told[p].text # <<>>
      BY <2>1, <2>2, <2>4, <2>6
    <3>2. x = Voice("user", told[p].text) \/ x = Voice("tool", told[p].text)
      BY <3>1 DEF PartVoice, types
    <3>3. QED
      BY <3>1, <3>2 DEF Voice
  <2>8. told[p].text \in Text
    BY <1>4, <2>2 DEF BlockSet
  <2>9. LatestPartText(ms) = told[p].text
    BY <1>1, <2>1, <2>2
  <2>10. QED
    BY <2>7, <2>8, <2>9, TextEnding
<1>9. QED
  BY <1>5, <1>7, <1>8, TextOfBlocksIs

(* What a generator takes for the query ends with the newest speech that   *)
(* it listens to: the generic ones,                                        *)
LEMMA GenericGenerates ==
  ASSUME TypeOK, Telling,
         NEW g \in {"latest_activity", "last_user_text", "last_assistant_text",
                    "last_tool_result", "concatenate_recent", "keyword_focused",
                    "truncated", "fallback_chain"},
         Meant(Heard(g)) # 0, "user" \notin Heard(g) => Unmixed(messages),
         g = "concatenate_recent" =>
           \E k \in DOMAIN LastOf(messages, Recent) :
              Says(LastOf(messages, Recent)[k], said[Meant(Heard(g))].text)
  PROVE  Ending(Generate(g, messages), Last(said[Meant(Heard(g))].text))
<1> DEFINE W == Listened(g)
           H == Heard(g)
           x == VoiceMeant(H)
           s == said[Meant(H)]
<1>1. /\ s \in SpeechSet /\ s.who \in H /\ s.text # <<>> /\ Meant(H) \in DOMAIN said
      /\ Ends(SpeechVoices(said), H, x) /\ x # Silent /\ x[1] \in H /\ x[2] = Last(s.text)
  BY MeantIs
<1>2. dialect \in Kinds /\ messages \in Seq(MessageSet)
  BY DEF TypeOK
<1>3. dialect \in Generic
  BY <1>1, <1>2 DEF Heard, Generic, Kinds, Frameworks
<1>4. /\ W \in SUBSET Speakers
      /\ ("user" \in W <=> "user" \in W \cap Hearable)
  BY DEF Listened, Speakers, Hearable
<1>5. H = W \cap Hearable
  BY <1>3 DEF Heard, Hearable, Generic, Listened, Speakers
<1> HIDE DEF W, H, x, s
<1>6. "user" \in W \/ Unmixed(messages)
  BY <1>4, <1>5 DEF H
<1>7. Ends(Heedings(messages), W, x)
  <2>1. Meant(W \cap Hearable) # 0
    BY <1>5 DEF H
  <2>2. Ends(Heedings(messages), W, VoiceMeant(W \cap Hearable))
    BY <1>3, <1>4, <1>6, <2>1, HeedingsEnd
  <2>3. QED
    BY <1>5, <2>2 DEF x
<1>8. SpeechForm(s)
  BY <1>1 DEF Telling, SpeechesFormed, s
<1>9. Ending(Generate(g, messages), x[2])
  <2>1. CASE g = "latest_activity"
    <3>1. W = {"user", "tool"} /\ Generate(g, messages) = LatestActivity(messages)
      BY <2>1 DEF W, Listened, Generate
    <3>2. QED
      BY <1>1, <1>2, <1>7, <3>1, ActivityEnds
  <2>2. CASE g = "last_user_text"
    <3>1. W = {"user"} /\ Generate(g, messages) = LastUserText(messages)
      BY <2>2 DEF W, Listened, Generate
    <3>2. QED
      BY <1>1, <1>2, <1>7, <3>1, UserTextEnds
  <2>3. CASE g = "last_assistant_text"
    <3>1. W = {"model"} /\ Generate(g, messages) = LastAssistantText(messages)
      BY <2>3 DEF W, Listened, Generate
    <3>2. QED
      BY <1>1, <1>2, <1>7, <3>1, AssistantTextEnds
  <2>4. CASE g = "last_tool_result"
    <3>1. W = {"tool"} /\ Generate(g, messages) = LastToolResult(messages)
      BY <2>4 DEF W, Listened, Generate
    <3>2. QED
      BY <1>1, <1>2, <1>7, <3>1, ToolResultEnds
  <2>5. CASE g = "keyword_focused"
    <3>1. W = {"user"} /\ Generate(g, messages) = Content(LastUserText(messages))
      BY <2>5 DEF W, Listened, Generate, KeywordFocused
    <3>2. LastUserText(messages) \in Text /\ Ending(LastUserText(messages), x[2])
      BY <1>1, <1>2, <1>7, <3>1, UserTextEnds
    <3>3. LastUserText(messages) # <<>> /\ Last(LastUserText(messages)) = x[2]
      BY <3>2 DEF Ending
    <3>4. ~ IsScaffold(x[2])
      BY <1>1, <1>8, ContentOfSpeech DEF IsScaffold
    <3>5. QED
      BY <3>1, <3>2, <3>3, <3>4, ContentEnds
  <2>6. CASE g = "truncated"
    <3> DEFINE text == LatestActivity(messages)
    <3>1. W = {"user", "tool"} /\ Generate(g, messages) = LastOf(text, Cap)
      BY <2>6 DEF W, Listened, Generate, Truncated
    <3>2. text \in Text /\ Ending(text, x[2])
      BY <1>1, <1>2, <1>7, <3>1, ActivityEnds
    <3> HIDE DEF text
    <3>3. text \in Seq(Token) /\ text # <<>> /\ Last(text) = x[2]
      BY <3>2 DEF Ending, Text
    <3>4. Cap \in Nat /\ Cap # 0
      BY ConversationAssumption
    <3>5. /\ LastOf(text, Cap) \in Seq(Token) /\ LastOf(text, Cap) # <<>>
          /\ Last(LastOf(text, Cap)) = x[2]
      BY <3>3, <3>4, TailIs
    <3>6. QED
      BY <3>1, <3>5, TextEnding DEF Text
  <2>7. CASE g = "concatenate_recent"
    <3> DEFINE far == LastOf(messages, Recent)
    <3>1. W = Speakers /\ Generate(g, messages) = ConcatenateRecent(messages)
      BY <2>7 DEF W, Listened, Generate, Speakers
    <3>2. PICK k \in DOMAIN far : Says(far[k], s.text)
      BY <2>7 DEF s, H
    <3>3. PICK o \in Nat : \A j \in DOMAIN far : o + j \in DOMAIN messages /\ far[j] = messages[o + j]
      BY FarIs, ConversationAssumption
    <3> HIDE DEF far
    <3>4. o + k \in DOMAIN messages /\ far[k] = messages[o + k]
      BY <3>2, <3>3
    <3>5. ASSUME dialect = "strands" PROVE Last(s.text)[1] # "result"
      <4>1. s.who \in {"user", "model"}
        BY <1>1, <1>5, <3>5 DEF Hearable
      <4>2. QED
        BY <1>1, <1>8, <4>1, ContentOfSpeech
    <3>6. s.text \in Text
      BY <1>1 DEF SpeechSet
    <3>7. Of(Heeded(messages[o + k]), Speakers)
      BY <1>1, <1>3, <3>2, <3>4, <3>5, <3>6, ShownIsHeard
    <3>8. \E j \in DOMAIN far : Of(Heeded(far[j]), Speakers)
      BY <3>2, <3>4, <3>7
    <3>9. QED
      BY <1>1, <1>3, <1>7, <3>1, <3>8, RecentEnds DEF far
  <2>8. CASE g = "fallback_chain" /\ Told /\ dialect # "strands"
    <3>1. W = {"tool"} /\ Generate(g, messages) = FallbackChain(messages)
      BY <2>8 DEF W, Listened, Generate
    <3>2. Ending(LastToolResult(messages), x[2])
      BY <1>1, <1>2, <1>7, <3>1, ToolResultEnds
    <3>3. LastToolResult(messages) # <<>>
      BY <3>2 DEF Ending
    <3>4. QED
      BY <3>1, <3>2, <3>3 DEF FallbackChain
  <2>9. CASE g = "fallback_chain" /\ ~ (Told /\ dialect # "strands")
    <3>1. W = {"user"} /\ Generate(g, messages) = FallbackChain(messages)
      BY <2>9 DEF W, Listened, Generate
    <3>2. Ending(LastUserText(messages), x[2])
      BY <1>1, <1>2, <1>7, <3>1, UserTextEnds
    <3>3. \A i \in DOMAIN SpeechVoices(said) : ~ Of(SpeechVoices(said)[i], {"tool"} \cap Hearable)
      <4>1. CASE dialect = "strands"
        BY <4>1 DEF Hearable, Of
      <4>2. CASE ~ Told
        <5>1. \A i \in DOMAIN said : ~ Of(Voice(said[i].who, said[i].text), {"tool"})
          BY <4>2 DEF Told, Of, Voice, Silent
        <5>2. QED
          BY <5>1 DEF SpeechVoices, Of
      <4>3. QED
        BY <2>9, <4>1, <4>2
    <3>4. Ends(SpeechVoices(said), {"tool"} \cap Hearable, Silent)
      BY <3>3 DEF Ends
    <3>5. Ends(Heedings(messages), {"tool"}, Silent)
      <4>1. {"tool"} \in SUBSET Speakers
        BY DEF Speakers
      <4>2. QED
        BY <1>3, <3>4, <4>1 DEF Telling, Understood, Follows
    <3>6. LastToolResult(messages) = <<>>
      BY <1>2, <3>5, ToolResultEnds
    <3>7. QED
      BY <3>1, <3>2, <3>6 DEF FallbackChain
  <2>10. QED
    BY <2>1, <2>2, <2>3, <2>4, <2>5, <2>6, <2>7, <2>8, <2>9
<1>10. QED
  BY <1>1, <1>9 DEF s, H

(* Whom the live providers listen to, and how far they look.               *)
LEMMA WhoIsHeard ==
  ASSUME TypeOK
  PROVE  /\ dialect \in {"gemini", "agent_framework"} => Heard("live") = {}
         /\ dialect \in {"openai_responses", "langchain"} => Heard("live") = {"user", "tool"}
         /\ dialect \in {"openai", "anthropic", "strands", "pydantic_ai", "google_adk"} =>
              Heard("live") = {"user"}
         /\ dialect = "strands" => Reach("live") = Lookback
         /\ dialect # "pydantic_ai" => Heard("resumed") = {}
         /\ dialect = "pydantic_ai" => Heard("resumed") = {"user", "tool"}
<1>1. dialect \in {"gemini", "agent_framework"} => Heard("live") = {}
  BY DEF Heard
<1>2. dialect \in {"openai_responses", "langchain"} => Heard("live") = {"user", "tool"}
  BY DEF Heard
<1>3. dialect \in {"openai", "anthropic", "strands", "pydantic_ai", "google_adk"} =>
        Heard("live") = {"user"}
  BY DEF Heard
<1>4. dialect = "strands" => Reach("live") = Lookback
  BY DEF Reach
<1>5. dialect # "pydantic_ai" => Heard("resumed") = {}
  BY DEF Heard
<1>6. dialect = "pydantic_ai" => Heard("resumed") = {"user", "tool"}
  BY DEF Heard
<1>7. QED
  BY <1>1, <1>2, <1>3, <1>4, <1>5, <1>6

(* the live providers,                                                     *)
LEMMA LiveGenerates ==
  ASSUME TypeOK, Telling, Meant(Heard("live")) # 0,
         \A k \in DOMAIN messages : ~ Behind(messages[k]),
         \E k \in DOMAIN LastOf(messages, Reach("live")) :
            Says(LastOf(messages, Reach("live"))[k], said[Meant(Heard("live"))].text)
  PROVE  Ending(Generate("live", messages), Last(said[Meant(Heard("live"))].text))
<1> DEFINE H == Heard("live")
           x == VoiceMeant(H)
           s == said[Meant(H)]
<1>1. /\ s \in SpeechSet /\ s.who \in H /\ s.text # <<>> /\ Meant(H) \in DOMAIN said
      /\ Ends(SpeechVoices(said), H, x) /\ x # Silent /\ x[2] = Last(s.text)
  BY MeantIs
<1>2. dialect \in Kinds /\ messages \in Seq(MessageSet)
  BY DEF TypeOK
<1>3. Generate("live", messages) = Live(messages)
  BY DEF Generate
<1>4. SpeechForm(s) /\ s.text \in Text
  BY <1>1 DEF Telling, SpeechesFormed, SpeechSet
<1>5. Ends(SpeechVoices(said), H, VoiceMeant(H))
  BY <1>1
<1>6. SpeechVoices(said) \in Seq(VoiceSet)
  BY SpeechVoicesType DEF TypeOK
<1>7. ASSUME dialect \in Prompting, H = {"user"}
      PROVE  Ends(LiveVoices(messages), {"user"}, x)
  <2>1. Same(SpeechVoices(said), {"user"}, LiveVoices(messages), {"user"})
    BY <1>7 DEF Telling, Understood, LiveFollows
  <2>2. PICK y : Ends(SpeechVoices(said), {"user"}, y) /\ Ends(LiveVoices(messages), {"user"}, y)
    BY <2>1 DEF Same
  <2>3. Ends(SpeechVoices(said), {"user"}, x)
    BY <1>1, <1>7
  <2> HIDE DEF x
  <2>4. x = y
    BY <1>6, <2>2, <2>3, EndsUnique
  <2>5. QED
    BY <2>2, <2>4
<1>8. CASE dialect \in {"openai_responses", "langchain"}
  <2> DEFINE W == {"user", "tool"}
  <2>1. H = W /\ Hearable = Speakers /\ dialect \in Generic
    BY <1>8, WhoIsHeard DEF Hearable, Generic
  <2>2. W \in SUBSET Speakers /\ W \cap Hearable = H /\ "user" \in W
    BY <2>1 DEF Speakers
  <2> HIDE DEF W
  <2>3. Meant(W \cap Hearable) # 0
    BY <2>2
  <2>4. Ends(Heedings(messages), W, VoiceMeant(W \cap Hearable))
    BY <2>1, <2>2, <2>3, HeedingsEnd
  <2>5. Ends(Heedings(messages), {"user", "tool"}, x)
    BY <2>2, <2>4 DEF W
  <2>6. Live(messages) = LatestActivity(messages)
    BY <1>8 DEF Live, QueryFromState
  <2> HIDE DEF x
  <2>7. Ending(LatestActivity(messages), x[2])
    BY <1>1, <1>2, <2>5, ActivityEnds
  <2>8. QED
    BY <1>1, <1>3, <2>6, <2>7
<1>9. CASE dialect \in {"openai", "anthropic"}
  <2>1. H = {"user"} /\ dialect \in Prompting
    BY <1>9, WhoIsHeard DEF Prompting
  <2>2. Ends(LiveVoices(messages), {"user"}, x)
    BY <1>7, <2>1
  <2>3. Live(messages) = ExtractPrompt(messages)
    BY <1>9 DEF Live
  <2> HIDE DEF x
  <2>4. Ending(ExtractPrompt(messages), x[2])
    BY <1>1, <1>2, <1>9, <2>2, PromptEnds
  <2>5. QED
    BY <1>1, <1>3, <2>3, <2>4
<1>10. CASE dialect = "strands"
  <2>1. H = {"user"} /\ dialect \in Prompting /\ Reach("live") = Lookback
    BY <1>10, WhoIsHeard DEF Prompting
  <2>2. Ends(LiveVoices(messages), {"user"}, x)
    BY <1>7, <2>1
  <2>3. Live(messages) = QueryFromMessages(messages)
    BY <1>10 DEF Live
  <2> DEFINE far == LastOf(messages, Lookback)
  <2>4. PICK k \in DOMAIN far : Says(far[k], s.text)
    BY <2>1
  <2>5. PICK o \in Nat : \A j \in DOMAIN far : o + j \in DOMAIN messages /\ far[j] = messages[o + j]
    BY FarIs, ConversationAssumption
  <2> HIDE DEF far, x, s
  <2>6. Shown(far[k])
    BY <2>4, <2>5 DEF Telling, MessagesShow
  <2>7. Last(s.text)[1] = "user"
    BY <1>1, <1>4, <2>1, ContentOfSpeech
  <2>8. LiveVoice(far[k]) # Silent
    BY <1>1, <1>4, <2>1, <2>4, <2>6, <2>7 DEF Shown
  <2>9. \E j \in DOMAIN LastOf(messages, Lookback) : LiveVoice(LastOf(messages, Lookback)[j]) # Silent
    BY <2>4, <2>8 DEF far
  <2>10. Ending(QueryFromMessages(messages), x[2])
    BY <1>1, <1>10, <2>2, <2>9, TailPromptEnds
  <2>11. QED
    BY <1>1, <1>3, <2>3, <2>10 DEF s
<1>11. CASE dialect \in {"pydantic_ai", "google_adk"}
  <2>1. H = {"user"}
    BY <1>11, WhoIsHeard
  <2>2. Meant({"user"}) # 0
    BY <2>1
  <2>3. Prompt = s.text /\ Prompt \in Text /\ Prompt # <<>>
    BY <2>1, <2>2, PromptIs DEF Telling
  <2>4. CASE dialect = "pydantic_ai"
    <3>1. Live(messages) = Prompt
      BY <2>3, <2>4 DEF Live, QueryFromCtx
    <3>2. Ending(Prompt, Last(Prompt))
      BY <2>3, TextEnding
    <3>3. QED
      BY <1>3, <2>3, <3>1, <3>2
  <2>5. CASE dialect = "google_adk"
    <3>1. Ends(LiveVoices(messages), {"user"}, x)
      BY <1>7, <2>1, <2>5 DEF Prompting
    <3>2. Live(messages) = QueryFromCallbackContext(messages)
      BY <2>5 DEF Live
    <3> HIDE DEF x
    <3>3. Last(Prompt) = x[2]
      BY <1>1, <2>3
    <3>4. Ending(QueryFromCallbackContext(messages), x[2])
      BY <1>1, <2>3, <2>5, <3>1, <3>3, EventEnds
    <3>5. QED
      BY <1>1, <1>3, <3>2, <3>4
  <2>6. QED
    BY <1>11, <2>4, <2>5
<1>12. CASE dialect \in {"gemini", "agent_framework"}
  <2>1. H = {}
    BY <1>12, WhoIsHeard
  <2>2. QED
    BY <1>1, <2>1
<1>13. QED
  BY <1>2, <1>8, <1>9, <1>10, <1>11, <1>12 DEF Kinds, Frameworks

(* and Pydantic AI's when a run is resumed.                                *)
LEMMA ResumedGenerates ==
  ASSUME TypeOK, Telling, Meant(Heard("resumed")) # 0
  PROVE  Ending(Generate("resumed", messages), Last(said[Meant(Heard("resumed"))].text))
<1> DEFINE H == Heard("resumed")
           x == VoiceMeant(H)
           s == said[Meant(H)]
           W == {"user", "tool"}
<1>1. /\ s.who \in H /\ Ends(SpeechVoices(said), H, x) /\ x # Silent /\ x[2] = Last(s.text)
  BY MeantIs
<1>2. messages \in Seq(MessageSet) /\ SpeechVoices(said) \in Seq(VoiceSet)
  BY SpeechVoicesType DEF TypeOK
<1>3. dialect = "pydantic_ai"
  BY <1>1, WhoIsHeard
<1>4. H = W
  BY <1>3, WhoIsHeard
<1>5. Same(SpeechVoices(said), W, PartVoices(PartsOf(messages)), W)
  BY <1>3 DEF Telling, Understood, PartsFollow
<1>6. PICK y : Ends(SpeechVoices(said), W, y) /\ Ends(PartVoices(PartsOf(messages)), W, y)
  BY <1>5 DEF Same
<1>7. Ends(SpeechVoices(said), W, x)
  BY <1>1, <1>4
<1>8. Generate("resumed", messages) = QueryFromCtx(messages, <<>>)
  BY <1>3 DEF Generate
<1> HIDE DEF x, s, H
<1>9. x = y
  BY <1>2, <1>6, <1>7, EndsUnique
<1>10. Ends(PartVoices(PartsOf(messages)), {"user", "tool"}, x)
  BY <1>6, <1>9 DEF W
<1>11. Ending(LatestPartText(messages), x[2])
  BY <1>1, <1>2, <1>10, PartEnds
<1>12. QueryFromCtx(messages, <<>>) = LatestPartText(messages)
  BY <1>11 DEF Ending, QueryFromCtx
<1>13. QED
  BY <1>1, <1>8, <1>11, <1>12 DEF s, H

(* In every reachable state the query a selection was asked with ends with *)
(* the newest speech of those its generator listens to, whatever the names *)
(* of the tools, how far the generators look and how much they keep: in no *)
(* dialect is the model's word or a tool's result taken for the user's, or *)
(* an older word for a newer.                                              *)
THEOREM QueriesStayNewest == Spec => []QueryIsNewest
<1>1. QueryInv => QueryIsNewest
  <2>1. SUFFICES ASSUME QueryInv, phase = "asked", NEW g \in Generators,
                        Meant(Heard(g)) # 0,
                        "user" \notin Heard(g) => Unmixed(messages),
                        g = "live" => \A k \in DOMAIN messages : ~ Behind(messages[k]),
                        \E k \in DOMAIN LastOf(messages, Reach(g)) :
                           Says(LastOf(messages, Reach(g))[k], said[Meant(Heard(g))].text)
                 PROVE  IsSuffix(Content(said[Meant(Heard(g))].text), asked.query[g])
    BY DEF QueryIsNewest, Meant, Unmixed
  <2> DEFINE s == said[Meant(Heard(g))]
             q == Generate(g, messages)
  <2>2. TypeOK /\ Telling /\ asked.query = BuildQuery(messages)
    BY <2>1 DEF QueryInv, Telling, AskedNow
  <2>3. s \in SpeechSet /\ s.text # <<>> /\ SpeechForm(s)
    <3>1. s \in SpeechSet /\ s.text # <<>> /\ Meant(Heard(g)) \in DOMAIN said
      BY <2>1, <2>2, MeantIs
    <3>2. QED
      BY <2>2, <3>1 DEF Telling, SpeechesFormed
  <2>4. Ending(q, Last(s.text))
    <3>1. CASE g = "live"
      BY <2>1, <2>2, <3>1, LiveGenerates
    <3>2. CASE g = "resumed"
      BY <2>1, <2>2, <3>2, ResumedGenerates
    <3>3. CASE g \notin {"live", "resumed"}
      <4>1. g \in {"latest_activity", "last_user_text", "last_assistant_text",
                   "last_tool_result", "concatenate_recent", "keyword_focused",
                   "truncated", "fallback_chain"}
        BY <2>1, <3>3, ConversationAssumption
      <4>2. g = "concatenate_recent" => Reach(g) = Recent
        BY DEF Reach
      <4>3. g = "concatenate_recent" =>
              \E k \in DOMAIN LastOf(messages, Recent) :
                 Says(LastOf(messages, Recent)[k], said[Meant(Heard(g))].text)
        BY <2>1, <4>2
      <4>4. QED
        BY <2>1, <2>2, <4>1, <4>3, GenericGenerates
    <3>4. QED
      BY <3>1, <3>2, <3>3
  <2> HIDE DEF q
  <2>5. asked.query[g] = q
    BY <2>1, <2>2, <2>4 DEF BuildQuery, Ending, q
  <2> HIDE DEF s
  <2>6. Content(s.text) = <<Last(q)>>
    BY <2>3, <2>4, ContentOfSpeech DEF Ending
  <2>7. q \in Seq(Sayable) /\ q # <<>>
    BY <2>4 DEF Ending
  <2>8. IsSuffix(<<Last(q)>>, q)
    BY <2>7, SuffixOfOne
  <2>9. QED
    BY <2>5, <2>6, <2>8 DEF s
<1>2. QED
  BY <1>1, QueryAlways, PTL
=============================================================================
