------------------------- MODULE AgentFrameworkProofs -------------------------
(***************************************************************************)
(* The integration with the Microsoft Agent Framework: the provider that   *)
(* gives a run its tools (ContextProvider) and the way of an approval      *)
(* through the middleware (ApprovalReplay).  The two share no state, and   *)
(* every theorem is about the specification of one of them.                *)
(*                                                                         *)
(* ContextProvider for any tools, runs and bounds: the registry's index,   *)
(* the histories of selections and the surfaces a round refreshes.         *)
(*                                                                         *)
(* The arguments.  Index: `order` is the registered tools, each of them    *)
(* once.  An appended tool is the first of its name only if there was none,*)
(* and a removed one is searched past by every name it was not the first   *)
(* of.  Histories: a run that is about to record a decision has room for a *)
(* round more, and the window over what it recorded moves by one.          *)
(* Surfaces: the bridge's lists are folds; a fold exists for every prefix  *)
(* of a list, and what it keeps of a prefix comes from there and is wanted.*)
(*                                                                         *)
(* ApprovalReplay for any policies, patterns, quotas and calls: nothing a  *)
(* human is asked about runs without approval, and no approval lifts a     *)
(* denial.  The invariant follows one call from the framework's question   *)
(* to the middleware's check and past it; the engine's own gates are       *)
(* checked in the step that runs the call.                                 *)
(***************************************************************************)
EXTENDS ContextProvider, ApprovalReplay, FiniteSetTheorems, WellFoundedInduction, TLAPS

-----------------------------------------------------------------------------
(* Searching by name                                                       *)

(* Every set of numbers has a least one.                                   *)
LEMMA LeastNatural ==
  ASSUME NEW T \in SUBSET Nat, T # {}
  PROVE  \E n \in T : \A m \in T : n <= m
<1> DEFINE R == {p \in Nat \X Nat : p[1] < p[2]}
<1>1. IsWellFoundedOn(R, Nat)
  BY NatLessThanWellFounded DEF OpToRel
<1>2. \A m, n \in Nat : <<m, n>> \in R <=> m < n
  OBVIOUS
<1> HIDE DEF R
<1>3. \E n \in T : \A m \in T : ~ (<<m, n>> \in R)
  BY <1>1, WFMin
<1>4. PICK n \in T : \A m \in T : ~ (<<m, n>> \in R)
  BY <1>3
<1>5. ASSUME NEW m \in T PROVE n <= m
  <2>1. ~ (m < n)
    BY <1>2, <1>4
  <2>2. QED
    BY <2>1
<1>6. QED
  BY <1>5

(* s[i] is the first of s with the name n.                                 *)
FirstAt(s, n, i) ==
  /\ i \in 1 .. Len(s) /\ s[i].name = n
  /\ \A j \in 1 .. Len(s) : j < i => s[j].name # n

NoneNamed(s, n) == \A i \in 1 .. Len(s) : s[i].name # n

(* The first tool of a name is the one that has it and comes first.        *)
LEMMA FirstNamedIsFirst ==
  ASSUME NEW s \in Seq(Tools), NEW n, NEW i, FirstAt(s, n, i)
  PROVE  FirstNamed(s, n) = s[i]
<1> DEFINE named == {k \in DOMAIN s : s[k].name = n}
<1>1. DOMAIN s = 1 .. Len(s)
  OBVIOUS
<1>2. i \in named /\ \A k \in named : i <= k
  BY <1>1 DEF FirstAt
<1>3. named \subseteq Int
  BY <1>1
<1> HIDE DEF named
<1>4. \E k \in named : \A l \in named : k <= l
  BY <1>2
<1>5. Min(named) \in named /\ \A k \in named : Min(named) <= k
  BY <1>4 DEF Min
<1>6. Min(named) = i
  <2>1. Min(named) \in Int /\ i \in Int
    BY <1>2, <1>3, <1>5
  <2>2. i <= Min(named) /\ Min(named) <= i
    BY <1>2, <1>5
  <2>3. QED
    BY <2>1, <2>2
<1>7. FirstNamed(s, n) = IF named = {} THEN NoTool ELSE s[Min(named)]
  BY DEF FirstNamed, named
<1>8. QED
  BY <1>2, <1>6, <1>7

(* Where no tool has a name, the search finds none.                        *)
LEMMA NobodyNamed ==
  ASSUME NEW s \in Seq(Tools), NEW n, NoneNamed(s, n)
  PROVE  FirstNamed(s, n) = NoTool
<1>1. {k \in DOMAIN s : s[k].name = n} = {}
  BY DEF NoneNamed
<1>2. QED
  BY <1>1 DEF FirstNamed

(* Where some tool has a name, one is the first of them.                   *)
LEMMA SomeoneIsFirst ==
  ASSUME NEW s \in Seq(Tools), NEW n, ~ NoneNamed(s, n)
  PROVE  \E i : FirstAt(s, n, i)
<1> DEFINE named == {k \in 1 .. Len(s) : s[k].name = n}
<1>1. named \in SUBSET Nat /\ named # {}
  BY DEF NoneNamed
<1>2. PICK i \in named : \A k \in named : i <= k
  <2> HIDE DEF named
  <2>1. QED
    BY <1>1, LeastNatural
<1>3. ASSUME NEW j \in 1 .. Len(s), j < i PROVE s[j].name # n
  BY <1>2, <1>3
<1>4. FirstAt(s, n, i)
  BY <1>2, <1>3 DEF FirstAt
<1>5. QED
  BY <1>4

(* The search of the registry finds the first tool of a name.              *)
LEMMA FirstNamedFinds ==
  ASSUME NEW s \in Seq(Tools), NEW n
  PROVE  \/ NoneNamed(s, n) /\ FirstNamed(s, n) = NoTool
         \/ \E i \in 1 .. Len(s) : FirstAt(s, n, i) /\ FirstNamed(s, n) = s[i]
<1>1. CASE NoneNamed(s, n)
  BY <1>1, NobodyNamed
<1>2. CASE ~ NoneNamed(s, n)
  <2>1. PICK i : FirstAt(s, n, i)
    BY <1>2, SomeoneIsFirst
  <2>2. i \in 1 .. Len(s)
    BY <2>1 DEF FirstAt
  <2>3. FirstNamed(s, n) = s[i]
    BY <2>1, FirstNamedIsFirst
  <2>4. QED
    BY <2>1, <2>2, <2>3
<1>3. QED
  BY <1>1, <1>2

-----------------------------------------------------------------------------
(* Appending and removing                                                  *)

NoRepeats(s) == \A i, j \in 1 .. Len(s) : s[i] = s[j] => i = j

(* An appended tool is the first of its name only if there was none.       *)
LEMMA FirstOfAppended ==
  ASSUME NEW s \in Seq(Tools), NEW t \in Tools, NEW n
  PROVE  FirstNamed(Append(s, t), n) =
           IF NoneNamed(s, n) THEN (IF t.name = n THEN t ELSE NoTool)
           ELSE FirstNamed(s, n)
<1> DEFINE a == Append(s, t)
<1>1. /\ a \in Seq(Tools) /\ Len(a) = Len(s) + 1 /\ Len(s) \in Nat
      /\ \A i \in 1 .. Len(s) : a[i] = s[i]
      /\ a[Len(s) + 1] = t
  OBVIOUS
<1> HIDE DEF a
<1>2. CASE NoneNamed(s, n) /\ t.name = n
  <2>1. FirstAt(a, n, Len(s) + 1)
    BY <1>1, <1>2 DEF FirstAt, NoneNamed
  <2>2. FirstNamed(a, n) = t
    BY <1>1, <2>1, FirstNamedIsFirst
  <2>3. QED
    BY <1>2, <2>2 DEF a
<1>3. CASE NoneNamed(s, n) /\ t.name # n
  <2>1. NoneNamed(a, n)
    BY <1>1, <1>3 DEF NoneNamed
  <2>2. FirstNamed(a, n) = NoTool
    BY <1>1, <2>1, NobodyNamed
  <2>3. QED
    BY <1>3, <2>2 DEF a
<1>4. CASE ~ NoneNamed(s, n)
  <2>1. PICK i \in 1 .. Len(s) : FirstAt(s, n, i) /\ FirstNamed(s, n) = s[i]
    BY <1>4, FirstNamedFinds
  <2>2. FirstAt(a, n, i)
    BY <1>1, <2>1 DEF FirstAt
  <2>3. FirstNamed(a, n) = a[i]
    BY <1>1, <2>2, FirstNamedIsFirst
  <2>4. QED
    BY <1>1, <1>4, <2>1, <2>3 DEF a
<1>5. QED
  BY <1>2, <1>3, <1>4

(* What a sequence is once the entry at p is gone.                         *)
LEMMA RemovedAt ==
  ASSUME NEW s \in Seq(Tools), NEW p \in 1 .. Len(s)
  PROVE  /\ RemoveAt(s, p) \in Seq(Tools)
         /\ Len(RemoveAt(s, p)) = Len(s) - 1
         /\ \A i \in 1 .. Len(s) - 1 : RemoveAt(s, p)[i] = IF i < p THEN s[i] ELSE s[i + 1]
<1> DEFINE a == SubSeq(s, 1, p - 1)
           b == SubSeq(s, p + 1, Len(s))
<1>1. Len(s) \in Nat /\ p \in Nat /\ 1 <= p /\ p <= Len(s)
  OBVIOUS
<1>2. /\ a \in Seq(Tools) /\ Len(a) = p - 1
      /\ \A i \in 1 .. p - 1 : a[i] = s[i]
  BY <1>1
<1>3. /\ b \in Seq(Tools) /\ Len(b) = Len(s) - p
      /\ \A i \in 1 .. Len(s) - p : b[i] = s[p + i]
  BY <1>1
<1>4. RemoveAt(s, p) = a \o b
  BY DEF RemoveAt
<1> HIDE DEF a, b
<1>5. (a \o b) \in Seq(Tools) /\ Len(a \o b) = Len(s) - 1
  <2>0. a \in Seq(Tools) /\ b \in Seq(Tools)
    BY <1>2, <1>3
  <2>1. (a \o b) \in Seq(Tools) /\ Len(a \o b) = Len(a) + Len(b)
    BY <2>0
  <2>2. QED
    BY <1>1, <1>2, <1>3, <2>1
<1>6. ASSUME NEW i \in 1 .. Len(s) - 1
      PROVE  (a \o b)[i] = IF i < p THEN s[i] ELSE s[i + 1]
  <2>1. CASE i < p
    <3>1. i \in 1 .. Len(a) /\ i \in 1 .. p - 1
      BY <1>1, <1>2, <2>1
    <3>2. (a \o b)[i] = a[i]
      BY <1>2, <1>3, <3>1
    <3>3. QED
      BY <1>2, <2>1, <3>1, <3>2
  <2>2. CASE ~ (i < p)
    <3>1. /\ i \in Len(a) + 1 .. Len(a) + Len(b)
          /\ i - (p - 1) \in 1 .. Len(s) - p /\ p + (i - (p - 1)) = i + 1
      BY <1>1, <1>2, <1>3, <2>2
    <3>2. (a \o b)[i] = b[i - (p - 1)]
      BY <1>1, <1>2, <1>3, <3>1
    <3>3. b[i - (p - 1)] = s[i + 1]
      BY <1>3, <3>1
    <3>4. QED
      BY <2>2, <3>2, <3>3
  <2>3. QED
    BY <2>1, <2>2
<1>7. QED
  BY <1>4, <1>5, <1>6

(* A removed tool is searched past by every name it was not the first of.  *)
LEMMA RemovedFirst ==
  ASSUME NEW s \in Seq(Tools), NoRepeats(s), NEW p \in 1 .. Len(s)
  PROVE  RemoveFirst(s, s[p]) = RemoveAt(s, p)
<1> DEFINE I == {i \in 1 .. Len(s) : s[i] = s[p]}
<1>1. I = {p}
  BY DEF NoRepeats
<1>2. Min({p}) = p
  BY DEF Min
<1>3. SelectInSeq(s, LAMBDA v : v = s[p]) = p
  BY <1>1, <1>2 DEF SelectInSeq
<1>4. QED
  BY <1>3 DEF RemoveFirst

(* Without one of its tools a registry is the others, and a name that tool *)
(* was not the first of is answered as before.                             *)
IsWithout(rest, s, t) ==
  /\ rest \in Seq(Tools) /\ NoRepeats(rest)
  /\ \A u : (\E i \in 1 .. Len(rest) : rest[i] = u) <=>
               (\E i \in 1 .. Len(s) : s[i] = u) /\ u # t
  /\ \A n : FirstNamed(s, n) # t => FirstNamed(rest, n) = FirstNamed(s, n)

(* Of a list without repetitions, removing an element leaves the others    *)
(* in their order.                                                         *)
LEMMA WithoutOne ==
  ASSUME NEW s \in Seq(Tools), NoRepeats(s), NEW p \in 1 .. Len(s)
  PROVE  IsWithout(RemoveFirst(s, s[p]), s, s[p])
<1> DEFINE rest == RemoveFirst(s, s[p])
<1>1. /\ rest \in Seq(Tools) /\ Len(rest) = Len(s) - 1
      /\ \A i \in 1 .. Len(s) - 1 : rest[i] = IF i < p THEN s[i] ELSE s[i + 1]
  BY RemovedFirst, RemovedAt
<1> HIDE DEF rest
<1>2. Len(s) \in Nat /\ p \in Nat /\ 1 <= p /\ p <= Len(s)
  OBVIOUS
<1>3. NoRepeats(rest)
  <2>1. SUFFICES ASSUME NEW i \in 1 .. Len(s) - 1, NEW j \in 1 .. Len(s) - 1, rest[i] = rest[j]
                 PROVE  i = j
    BY <1>1 DEF NoRepeats
  <2> DEFINE I == IF i < p THEN i ELSE i + 1
             J == IF j < p THEN j ELSE j + 1
  <2>2. I \in 1 .. Len(s) /\ J \in 1 .. Len(s) /\ rest[i] = s[I] /\ rest[j] = s[J]
    BY <1>1, <1>2
  <2>3. I = J
    BY <2>1, <2>2 DEF NoRepeats
  <2>4. QED
    BY <1>2, <2>3
<1>4. ASSUME NEW t
      PROVE  (\E i \in 1 .. Len(rest) : rest[i] = t) <=>
               (\E i \in 1 .. Len(s) : s[i] = t) /\ t # s[p]
  <2>1. ASSUME NEW i \in 1 .. Len(rest), rest[i] = t
        PROVE  (\E k \in 1 .. Len(s) : s[k] = t) /\ t # s[p]
    <3> DEFINE I == IF i < p THEN i ELSE i + 1
    <3>1. I \in 1 .. Len(s) /\ t = s[I] /\ I # p
      BY <1>1, <1>2, <2>1
    <3>2. QED
      BY <3>1 DEF NoRepeats
  <2>2. ASSUME NEW k \in 1 .. Len(s), s[k] = t, t # s[p]
        PROVE  \E i \in 1 .. Len(rest) : rest[i] = t
    <3> DEFINE i == IF k < p THEN k ELSE k - 1
    <3>1. k # p
      BY <2>2
    <3>2. i \in 1 .. Len(s) - 1 /\ rest[i] = s[k]
      BY <1>1, <1>2, <3>1
    <3>3. QED
      BY <1>1, <2>2, <3>2
  <2>3. QED
    BY <2>1, <2>2
<1>5. ASSUME NEW n, FirstNamed(s, n) # s[p]
      PROVE  FirstNamed(rest, n) = FirstNamed(s, n)
  <2>1. CASE NoneNamed(s, n)
    <3>1. NoneNamed(rest, n)
      BY <1>1, <1>2, <2>1 DEF NoneNamed
    <3>2. QED
      BY <1>1, <2>1, <3>1, NobodyNamed
  <2>2. CASE ~ NoneNamed(s, n)
    <3>1. PICK i \in 1 .. Len(s) : FirstAt(s, n, i) /\ FirstNamed(s, n) = s[i]
      BY <2>2, FirstNamedFinds
    <3>2. i # p
      BY <1>5, <3>1
    <3> DEFINE k == IF i < p THEN i ELSE i - 1
    <3>3. k \in 1 .. Len(rest) /\ rest[k] = s[i]
      BY <1>1, <1>2, <3>2
    <3>4. ASSUME NEW j \in 1 .. Len(rest), j < k PROVE rest[j].name # n
      <4> DEFINE J == IF j < p THEN j ELSE j + 1
      <4>1. J \in 1 .. Len(s) /\ J < i /\ rest[j] = s[J]
        BY <1>1, <1>2, <3>2, <3>4
      <4>2. QED
        BY <3>1, <4>1 DEF FirstAt
    <3>5. FirstAt(rest, n, k)
      BY <3>1, <3>3, <3>4 DEF FirstAt
    <3>6. QED
      BY <1>1, <3>1, <3>3, <3>5, FirstNamedIsFirst
  <2>3. QED
    BY <2>1, <2>2
<1>6. IsWithout(rest, s, s[p])
  BY <1>1, <1>3, <1>4, <1>5 DEF IsWithout
<1>7. QED
  BY <1>6 DEF rest

-----------------------------------------------------------------------------
(* The registry                                                            *)

RegistryInv ==
  /\ order \in Seq(Tools) /\ NoRepeats(order)
  /\ defined \in [Tools -> 0 .. MaxVersion]
  /\ \A t \in Tools : Registered(t) <=> \E i \in 1 .. Len(order) : order[i] = t
  /\ index \in [Names -> Tools \cup {NoTool}]
  /\ IndexIsSearch

(* Any choice of tools, in any order, with the index it has.               *)
LEMMA RegistryStarts == Init => RegistryInv
<1> SUFFICES ASSUME Init PROVE RegistryInv
  OBVIOUS
<1>1. PICK S \in SUBSET Tools : order \in SetToSeqs(S)
  BY DEF Init, SetToAllKPermutations
<1>2. IsFiniteSet(S) /\ Cardinality(S) \in Nat
  BY RegistryAssumption, FS_Subset, FS_CardinalityType
<1>3. /\ order \in [1 .. Cardinality(S) -> S]
      /\ \A i, j \in 1 .. Cardinality(S) : i # j => order[i] # order[j]
  BY <1>1 DEF SetToSeqs
<1>4. order \in Seq(Tools) /\ Len(order) = Cardinality(S)
  BY <1>2, <1>3
<1>5. NoRepeats(order)
  BY <1>3, <1>4 DEF NoRepeats
<1>6. defined = [t \in Tools |-> IF t \in ToSet(order) THEN 1 ELSE 0]
  BY DEF Init
<1>7. defined \in [Tools -> 0 .. MaxVersion]
  BY <1>6, RegistryAssumption
<1>8. \A t \in Tools : Registered(t) <=> t \in ToSet(order)
  BY <1>6 DEF Registered
<1>9. \A t : t \in ToSet(order) <=> \E i \in 1 .. Len(order) : order[i] = t
  BY <1>4 DEF ToSet
<1>10. index = [n \in Names |-> FirstNamed(order, n)]
  BY DEF Init
<1>11. \A n \in Names : FirstNamed(order, n) \in Tools \cup {NoTool}
  BY <1>4, FirstNamedFinds
<1>12. QED
  BY <1>4, <1>5, <1>7, <1>8, <1>9, <1>10, <1>11 DEF RegistryInv, IndexIsSearch

(* A new tool answers to its name only where nobody did; one that is       *)
(* replaced keeps its place.                                               *)
LEMMA RegisterKeepsIndex ==
  ASSUME RegistryInv, NEW t \in Tools, NEW v \in 1 .. MaxVersion, RegisterTool(t, v)
  PROVE  RegistryInv'
<1>1. /\ order \in Seq(Tools) /\ NoRepeats(order)
      /\ defined \in [Tools -> 0 .. MaxVersion]
      /\ \A u \in Tools : Registered(u) <=> \E i \in 1 .. Len(order) : order[i] = u
      /\ index \in [Names -> Tools \cup {NoTool}]
      /\ \A n \in Names : index[n] = FirstNamed(order, n)
  BY DEF RegistryInv, IndexIsSearch
<1>2. MaxVersion \in Nat /\ NoTool \notin Tools /\ t.name \in Names
  BY RegistryAssumption DEF Names
<1>3. /\ defined' = [defined EXCEPT ![t] = v]
      /\ order' = IF Registered(t) THEN order ELSE Append(order, t)
      /\ index' = IF index[t.name] = NoTool THEN [index EXCEPT ![t.name] = t] ELSE index
  BY DEF RegisterTool
<1>4. defined' \in [Tools -> 0 .. MaxVersion]
  BY <1>1, <1>2, <1>3
<1>5. \A u \in Tools : Registered(u)' <=> (Registered(u) \/ u = t)
  BY <1>1, <1>2, <1>3 DEF Registered
<1>6. index' \in [Names -> Tools \cup {NoTool}]
  BY <1>1, <1>2, <1>3
<1>7. index[t.name] = NoTool <=> NoneNamed(order, t.name)
  <2>1. CASE NoneNamed(order, t.name)
    BY <1>1, <1>2, <2>1, NobodyNamed
  <2>2. CASE ~ NoneNamed(order, t.name)
    <3>1. PICK i \in 1 .. Len(order) : FirstNamed(order, t.name) = order[i]
      BY <1>1, <2>2, FirstNamedFinds
    <3>2. order[i] \in Tools
      BY <1>1
    <3>3. QED
      BY <1>1, <1>2, <2>2, <3>1, <3>2
  <2>3. QED
    BY <2>1, <2>2
<1>8. CASE Registered(t)
  <2>1. ~ NoneNamed(order, t.name)
    BY <1>1, <1>8 DEF NoneNamed
  <2>2. order' = order /\ index' = index
    BY <1>3, <1>7, <1>8, <2>1
  <2>3. \A u \in Tools : Registered(u)' <=> \E i \in 1 .. Len(order') : order'[i] = u
    BY <1>1, <1>5, <1>8, <2>2
  <2>4. QED
    BY <1>1, <1>4, <1>6, <2>2, <2>3 DEF RegistryInv, IndexIsSearch
<1>9. CASE ~ Registered(t)
  <2>1. order' = Append(order, t)
    BY <1>3, <1>9
  <2>2. /\ order' \in Seq(Tools) /\ Len(order') = Len(order) + 1 /\ Len(order) \in Nat
        /\ \A i \in 1 .. Len(order) : order'[i] = order[i]
        /\ order'[Len(order) + 1] = t
    BY <1>1, <2>1
  <2>3. \A i \in 1 .. Len(order) : order[i] # t
    BY <1>1, <1>9
  <2>4. NoRepeats(order')
    <3>1. SUFFICES ASSUME NEW i \in 1 .. Len(order) + 1, NEW j \in 1 .. Len(order) + 1,
                          order'[i] = order'[j]
                   PROVE  i = j
      BY <2>2 DEF NoRepeats
    <3>2. CASE i \in 1 .. Len(order) /\ j \in 1 .. Len(order)
      <4>1. order[i] = order[j]
        BY <2>2, <3>1, <3>2
      <4>2. QED
        BY <1>1, <3>2, <4>1 DEF NoRepeats
    <3>3. CASE i = Len(order) + 1 /\ j \in 1 .. Len(order)
      BY <2>2, <2>3, <3>1, <3>3
    <3>4. CASE i \in 1 .. Len(order) /\ j = Len(order) + 1
      BY <2>2, <2>3, <3>1, <3>4
    <3>5. QED
      BY <2>2, <3>2, <3>3, <3>4
  <2>5. \A u \in Tools : Registered(u)' <=> \E i \in 1 .. Len(order') : order'[i] = u
    <3>1. SUFFICES ASSUME NEW u \in Tools
                   PROVE  Registered(u)' <=> \E i \in 1 .. Len(order') : order'[i] = u
      OBVIOUS
    <3>2. (\E i \in 1 .. Len(order') : order'[i] = u)
            <=> (\E i \in 1 .. Len(order) : order[i] = u) \/ u = t
      BY <2>2
    <3>3. QED
      BY <1>1, <1>5, <3>2
  <2>6. \A n \in Names : FirstNamed(order', n) = IF NoneNamed(order, n)
                            THEN (IF t.name = n THEN t ELSE NoTool) ELSE FirstNamed(order, n)
    BY <1>1, <2>1, FirstOfAppended
  <2>7. \A n \in Names : index'[n] = FirstNamed(order', n)
    <3>1. SUFFICES ASSUME NEW n \in Names PROVE index'[n] = FirstNamed(order', n)
      OBVIOUS
    <3>2. CASE n = t.name
      BY <1>1, <1>2, <1>3, <1>7, <2>6, <3>2
    <3>3. CASE n # t.name
      <4>1. index'[n] = FirstNamed(order, n)
        BY <1>1, <1>2, <1>3, <3>3
      <4>2. NoneNamed(order, n) => FirstNamed(order, n) = NoTool
        BY <1>1, NobodyNamed
      <4>3. QED
        BY <2>6, <3>3, <4>1, <4>2
    <3>4. QED
      BY <3>2, <3>3
  <2>8. QED
    BY <1>4, <1>6, <2>2, <2>4, <2>5, <2>7 DEF RegistryInv, IndexIsSearch
<1>10. QED
  BY <1>8, <1>9

(* A deleted tool leaves its name to the next one that has it.             *)
LEMMA UnregisterKeepsIndex ==
  ASSUME RegistryInv, NEW t \in Tools, UnregisterTool(t)
  PROVE  RegistryInv'
<1>1. /\ order \in Seq(Tools) /\ NoRepeats(order)
      /\ defined \in [Tools -> 0 .. MaxVersion]
      /\ \A u \in Tools : Registered(u) <=> \E i \in 1 .. Len(order) : order[i] = u
      /\ index \in [Names -> Tools \cup {NoTool}]
      /\ \A n \in Names : index[n] = FirstNamed(order, n)
  BY DEF RegistryInv, IndexIsSearch
<1>2. MaxVersion \in Nat /\ NoTool \notin Tools /\ t.name \in Names
  BY RegistryAssumption DEF Names
<1>3. /\ Registered(t)
      /\ defined' = [defined EXCEPT ![t] = 0]
      /\ order' = RemoveFirst(order, t)
      /\ index' = Unindexed(t, order')
  BY DEF UnregisterTool
<1>4. PICK p \in 1 .. Len(order) : order[p] = t
  BY <1>1, <1>3
<1>5. /\ order' \in Seq(Tools) /\ NoRepeats(order')
      /\ \A u : (\E i \in 1 .. Len(order') : order'[i] = u) <=>
                   (\E i \in 1 .. Len(order) : order[i] = u) /\ u # t
      /\ \A n : FirstNamed(order, n) # t => FirstNamed(order', n) = FirstNamed(order, n)
  <2>1. IsWithout(RemoveFirst(order, order[p]), order, order[p])
    BY <1>1, WithoutOne
  <2>2. IsWithout(order', order, t)
    BY <1>3, <1>4, <2>1
  <2>3. QED
    BY <2>2 DEF IsWithout
<1>6. defined' \in [Tools -> 0 .. MaxVersion]
  BY <1>1, <1>2, <1>3
<1>7. \A u \in Tools : Registered(u)' <=> Registered(u) /\ u # t
  BY <1>1, <1>3 DEF Registered
<1>8. \A u \in Tools : Registered(u)' <=> \E i \in 1 .. Len(order') : order'[i] = u
  BY <1>1, <1>5, <1>7
<1>9. \A n \in Names : FirstNamed(order', n) \in Tools \cup {NoTool}
  BY <1>5, FirstNamedFinds
<1>10. index' = IF index[t.name] # t THEN index
                ELSE [index EXCEPT ![t.name] = FirstNamed(order', t.name)]
  BY <1>3 DEF Unindexed
<1>11. index' \in [Names -> Tools \cup {NoTool}]
  BY <1>1, <1>2, <1>9, <1>10
<1>12. \A n \in Names : index'[n] = FirstNamed(order', n)
  <2>1. SUFFICES ASSUME NEW n \in Names PROVE index'[n] = FirstNamed(order', n)
    OBVIOUS
  <2>2. CASE n = t.name
    BY <1>1, <1>2, <1>5, <1>10, <2>2
  <2>3. CASE n # t.name
    <3>1. FirstNamed(order, n) # t
      <4>1. CASE NoneNamed(order, n)
        BY <1>1, <1>2, <4>1, NobodyNamed
      <4>2. CASE ~ NoneNamed(order, n)
        <5>1. PICK i \in 1 .. Len(order) : FirstAt(order, n, i) /\ FirstNamed(order, n) = order[i]
          BY <1>1, <4>2, FirstNamedFinds
        <5>2. order[i].name = n
          BY <5>1 DEF FirstAt
        <5>3. QED
          BY <2>3, <5>1, <5>2
      <4>3. QED
        BY <4>1, <4>2
    <3>2. index'[n] = index[n]
      BY <1>1, <1>2, <1>10, <2>3
    <3>3. QED
      BY <1>1, <1>5, <3>1, <3>2
  <2>4. QED
    BY <2>2, <2>3
<1>13. QED
  BY <1>5, <1>6, <1>8, <1>11, <1>12 DEF RegistryInv, IndexIsSearch

(* Steps that leave the registry alone keep its invariant.                 *)
LEMMA RegistryKept == RegistryInv /\ UNCHANGED registry => RegistryInv'
BY DEF RegistryInv, registry, IndexIsSearch, Registered, NoRepeats

(* No step breaks the registry's invariant.                                *)
LEMMA RegistryStep == RegistryInv /\ [Next]_vars => RegistryInv'
<1> SUFFICES ASSUME RegistryInv, [Next]_vars PROVE RegistryInv'
  OBVIOUS
<1>1. ASSUME NEW t \in Tools, Define(t) PROVE RegistryInv'
  <2>1. PICK v \in 1 .. MaxVersion : RegisterTool(t, v)
    BY <1>1 DEF Define
  <2>2. QED
    BY <2>1, RegisterKeepsIndex
<1>2. ASSUME NEW t \in Tools, Delete(t) PROVE RegistryInv'
  BY <1>2, UnregisterKeepsIndex DEF Delete
<1>3. CASE UNCHANGED registry
  BY <1>3, RegistryKept
<1>4. ASSUME NEW r \in Runs,
             \/ BeginPerCall(r) \/ BeginPerRun(r) \/ BeginRound(r) \/ Retrieve(r)
             \/ StartFound(r) \/ RoundFound(r) \/ NothingFound(r) \/ EndRun(r)
      PROVE  UNCHANGED registry
  BY <1>4 DEF BeginPerCall, BeginPerRun, BeginRound, Retrieve, StartFound, RoundFound,
              NothingFound, EndRun
<1>5. ClearCache => UNCHANGED registry
  BY DEF ClearCache
<1>6. UNCHANGED vars => UNCHANGED registry
  BY DEF vars
<1>7. QED
  BY <1>1, <1>2, <1>3, <1>4, <1>5, <1>6 DEF Next

(* Whatever is registered, redefined and deleted, in whatever order and    *)
(* beside whatever runs, the index answers each name as a search through   *)
(* the definitions would.                                                  *)
THEOREM IndexStaysASearch == Spec => []IndexIsSearch
<1>1. RegistryInv => IndexIsSearch
  BY DEF RegistryInv
<1>2. QED
  BY RegistryStarts, RegistryStep, <1>1, PTL DEF Spec

-----------------------------------------------------------------------------
(* The histories                                                           *)

(* The bounds are natural numbers.                                         *)
LEMMA Parameters ==
  /\ MaxHistory \in Nat \ {0} /\ MaxRounds \in Nat /\ Runs # {}
BY ProviderAssumption

(* The window over no selections is empty.                                 *)
LEMMA EmptyHistory ==
  ASSUME NEW r, NEW g
  PROVE  HistoryOf(r, g, 0) = <<>>
<1>1. ~ (0 > MaxHistory)
  BY Parameters
<1>2. HistoryOf(r, g, 0) = [i \in 1 .. 0 |-> <<r, g, 1 + i - 1>>]
  BY <1>1 DEF HistoryOf
<1>3. QED
  BY <1>2

(* The window over one decision more is the history one decision later.    *)
LEMMA WindowMoves ==
  ASSUME NEW r, NEW g, NEW k \in Nat
  PROVE  Window(Append(HistoryOf(r, g, k), <<r, g, k + 1>>)) = HistoryOf(r, g, k + 1)
<1> DEFINE D == {<<r, g, l>> : l \in Int}
           H == HistoryOf(r, g, k)
           A == Append(H, <<r, g, k + 1>>)
<1>1. MaxHistory \in Nat /\ MaxHistory > 0
  BY Parameters
<1>2. CASE k < MaxHistory
  <2>1. H = [i \in 1 .. k |-> <<r, g, i>>]
    BY <1>1, <1>2 DEF HistoryOf
  <2>2. H \in Seq(D) /\ Len(H) = k
    BY <2>1
  <2>3. A = [i \in 1 .. k + 1 |-> <<r, g, i>>] /\ Len(A) = k + 1
    BY <2>1, <2>2
  <2>4. Window(A) = A
    BY <1>1, <1>2, <2>3 DEF Window
  <2>5. HistoryOf(r, g, k + 1) = [i \in 1 .. k + 1 |-> <<r, g, i>>]
    BY <1>1, <1>2 DEF HistoryOf
  <2>6. QED
    BY <2>3, <2>4, <2>5
<1>3. CASE ~ (k < MaxHistory)
  <2> DEFINE from == k - MaxHistory
  <2>1. from \in Nat /\ k + 1 = from + (MaxHistory + 1)
    BY <1>1, <1>3
  <2>2. H = [i \in 1 .. MaxHistory |-> <<r, g, from + i>>]
    BY <1>1, <1>3 DEF HistoryOf
  <2>3. HistoryOf(r, g, k + 1) = [i \in 1 .. MaxHistory |-> <<r, g, from + 1 + i>>]
    BY <1>1, <1>3 DEF HistoryOf
  <2> HIDE DEF from, H
  <2>4. H \in Seq(D) /\ Len(H) = MaxHistory
    BY <1>1, <2>1, <2>2
  <2>5. /\ A \in Seq(D) /\ Len(A) = MaxHistory + 1
        /\ A[MaxHistory + 1] = <<r, g, k + 1>>
        /\ \A i \in 1 .. MaxHistory : A[i] = H[i]
    <3>1. <<r, g, k + 1>> \in D
      OBVIOUS
    <3> HIDE DEF D
    <3>2. QED
      BY <1>1, <2>4, <3>1
  <2> HIDE DEF A
  <2>6. \A i \in 1 .. MaxHistory + 1 : A[i] = <<r, g, from + i>>
    BY <1>1, <2>1, <2>2, <2>5
  <2>7. Window(A) = SubSeq(A, 2, MaxHistory + 1)
    <3>1. Len(A) > MaxHistory /\ Len(A) - MaxHistory + 1 = 2
      BY <1>1, <2>5
    <3>2. QED
      BY <2>5, <3>1 DEF Window
  <2>8. SubSeq(A, 2, MaxHistory + 1) = [i \in 1 .. MaxHistory |-> A[i + 1]]
    BY <1>1, <2>5
  <2>9. \A i \in 1 .. MaxHistory : A[i + 1] = <<r, g, from + 1 + i>>
    BY <1>1, <2>1, <2>6
  <2>10. QED
    BY <2>3, <2>7, <2>8, <2>9 DEF A, H
<1>4. QED
  BY <1>2, <1>3

Waiting == {"starting", "start found", "refreshing", "round found"}

(* Besides: a run that waits for a retrieval has room for its decision.    *)
HistoryInv ==
  /\ run \in [Runs -> 0 .. MaxRounds] /\ rounds \in [Runs -> 0 .. MaxRounds]
  /\ DOMAIN pc = Runs /\ DOMAIN selections = Runs
  /\ \A r \in Runs : pc[r] \in Waiting => rounds[r] < MaxRounds
  /\ HistoryIsOneRuns

(* At first no run recorded anything.                                      *)
LEMMA HistoryStarts == Init => HistoryInv
<1> SUFFICES ASSUME Init PROVE HistoryInv
  OBVIOUS
<1>1. MaxRounds \in Nat /\ \E r : r \in Runs
  BY Parameters
<1>2. /\ run = [r \in Runs |-> 0] /\ rounds = [r \in Runs |-> 0]
      /\ pc = [r \in Runs |-> "idle"]
      /\ selections = [r \in Runs |-> <<>>] /\ plain = <<>>
  BY DEF Init
<1>3. HistoryIsOneRuns
  <2>1. \A r \in Runs : selections[r] = HistoryOf(r, run[r], rounds[r])
    BY <1>2, EmptyHistory
  <2>2. PICK r \in Runs : TRUE
    BY <1>1
  <2>3. 0 \in 0 .. run[r] /\ 0 \in 0 .. MaxRounds /\ plain = HistoryOf(r, 0, 0)
    BY <1>1, <1>2, EmptyHistory
  <2>4. QED
    BY <2>1, <2>3 DEF HistoryIsOneRuns
<1>4. QED
  BY <1>1, <1>2, <1>3 DEF HistoryInv, Waiting

(* A new run begins with nothing, and readers elsewhere see that.          *)
LEMMA BeginKeepsHistory ==
  ASSUME HistoryInv, NEW r \in Runs, BeginRun(r), NEW p, pc' = [pc EXCEPT ![r] = p]
  PROVE  HistoryInv'
<1>1. /\ run \in [Runs -> 0 .. MaxRounds] /\ rounds \in [Runs -> 0 .. MaxRounds]
      /\ DOMAIN pc = Runs /\ DOMAIN selections = Runs
      /\ \A q \in Runs : pc[q] \in Waiting => rounds[q] < MaxRounds
      /\ \A q \in Runs : selections[q] = HistoryOf(q, run[q], rounds[q])
  BY DEF HistoryInv, HistoryIsOneRuns
<1>2. /\ run[r] < MaxRounds
      /\ run' = [run EXCEPT ![r] = @ + 1]
      /\ rounds' = [rounds EXCEPT ![r] = 0]
      /\ selections' = [selections EXCEPT ![r] = <<>>]
      /\ plain' = <<>>
  BY DEF BeginRun, NewHistory
<1>3. MaxRounds \in Nat /\ run[r] \in 0 .. MaxRounds
  BY <1>1, Parameters
<1>4. run' \in [Runs -> 0 .. MaxRounds] /\ rounds' \in [Runs -> 0 .. MaxRounds]
  BY <1>1, <1>2, <1>3
<1>5. DOMAIN pc' = Runs /\ DOMAIN selections' = Runs
  BY <1>1, <1>2
<1>6. \A q \in Runs : pc'[q] \in Waiting => rounds'[q] < MaxRounds
  BY <1>1, <1>2, <1>3
<1>7. \A q \in Runs : selections'[q] = HistoryOf(q, run'[q], rounds'[q])
  BY <1>1, <1>2, EmptyHistory
<1>8. 0 \in 0 .. run'[r] /\ 0 \in 0 .. MaxRounds /\ plain' = HistoryOf(r, 0, 0)
  BY <1>2, <1>3, <1>4, EmptyHistory
<1>9. HistoryIsOneRuns'
  BY <1>7, <1>8 DEF HistoryIsOneRuns
<1>10. QED
  BY <1>4, <1>5, <1>6, <1>9 DEF HistoryInv

(* A decision goes to the end of its own run's history.                    *)
LEMMA DecidedKeepsHistory ==
  ASSUME HistoryInv, NEW r \in Runs, pc[r] \in Waiting, Decided(r),
         pc' = [pc EXCEPT ![r] = "ready"]
  PROVE  HistoryInv'
<1>1. /\ run \in [Runs -> 0 .. MaxRounds] /\ rounds \in [Runs -> 0 .. MaxRounds]
      /\ DOMAIN pc = Runs /\ DOMAIN selections = Runs
      /\ \A q \in Runs : pc[q] \in Waiting => rounds[q] < MaxRounds
      /\ \A q \in Runs : selections[q] = HistoryOf(q, run[q], rounds[q])
  BY DEF HistoryInv, HistoryIsOneRuns
<1> DEFINE history == Window(Append(selections[r], <<r, run[r], rounds[r] + 1>>))
<1>2. /\ selections' = [selections EXCEPT ![r] = history]
      /\ plain' = history
      /\ rounds' = [rounds EXCEPT ![r] = @ + 1]
      /\ run' = run
  BY DEF Decided, Snapshot
<1>3. MaxRounds \in Nat /\ rounds[r] \in 0 .. MaxRounds /\ rounds[r] < MaxRounds
      /\ run[r] \in 0 .. MaxRounds
  BY <1>1, Parameters
<1>4. history = HistoryOf(r, run[r], rounds[r] + 1)
  BY <1>1, <1>3, WindowMoves
<1> HIDE DEF history
<1>5. rounds' \in [Runs -> 0 .. MaxRounds]
  BY <1>1, <1>2, <1>3
<1>6. DOMAIN pc' = Runs /\ DOMAIN selections' = Runs
  BY <1>1, <1>2
<1>7. \A q \in Runs : pc'[q] \in Waiting => rounds'[q] < MaxRounds
  BY <1>1, <1>2, <1>3 DEF Waiting
<1>8. \A q \in Runs : selections'[q] = HistoryOf(q, run'[q], rounds'[q])
  BY <1>1, <1>2, <1>4
<1>9. run[r] \in 0 .. run'[r] /\ rounds[r] + 1 \in 0 .. MaxRounds
  BY <1>2, <1>3
<1>10. HistoryIsOneRuns'
  BY <1>2, <1>4, <1>8, <1>9 DEF HistoryIsOneRuns
<1>11. QED
  BY <1>1, <1>2, <1>5, <1>6, <1>7, <1>10 DEF HistoryInv

(* Elsewhere no history changes.                                           *)
LEMMA HistoryKept ==
  ASSUME HistoryInv, UNCHANGED histories, DOMAIN pc' = Runs,
         \A r \in Runs : pc'[r] \in Waiting => rounds[r] < MaxRounds
  PROVE  HistoryInv'
BY DEF HistoryInv, HistoryIsOneRuns, histories

(* No step breaks the invariant of histories.                              *)
LEMMA HistoryStep == HistoryInv /\ [Next]_vars => HistoryInv'
<1> SUFFICES ASSUME HistoryInv, [Next]_vars PROVE HistoryInv'
  OBVIOUS
<1>1. DOMAIN pc = Runs /\ \A q \in Runs : pc[q] \in Waiting => rounds[q] < MaxRounds
  BY DEF HistoryInv
<1>2. ASSUME NEW r \in Runs, BeginPerCall(r) PROVE HistoryInv'
  <2>1. BeginRun(r) /\ pc' = [pc EXCEPT ![r] = "ready"]
    BY <1>2 DEF BeginPerCall, At
  <2>2. QED
    BY <2>1, BeginKeepsHistory
<1>3. ASSUME NEW r \in Runs, BeginPerRun(r) PROVE HistoryInv'
  <2>1. BeginRun(r) /\ pc' = [pc EXCEPT ![r] = "starting"]
    BY <1>3 DEF BeginPerRun, At
  <2>2. QED
    BY <2>1, BeginKeepsHistory
<1>4. ASSUME NEW r \in Runs, BeginRound(r) PROVE HistoryInv'
  <2>1. pc' = [pc EXCEPT ![r] = "refreshing"] /\ rounds[r] < MaxRounds /\ UNCHANGED histories
    BY <1>4 DEF BeginRound, At
  <2>2. QED
    BY <1>1, <2>1, HistoryKept
<1>5. ASSUME NEW r \in Runs, Retrieve(r) PROVE HistoryInv'
  <2>1. pc[r] \in Waiting /\ UNCHANGED histories
    BY <1>5 DEF Retrieve, At, Waiting
  <2>2. PICK p : pc' = [pc EXCEPT ![r] = p]
    BY <1>5 DEF Retrieve, At
  <2>3. QED
    BY <1>1, <2>1, <2>2, HistoryKept
<1>6. ASSUME NEW r \in Runs, StartFound(r) PROVE HistoryInv'
  <2>1. pc[r] \in Waiting /\ Decided(r) /\ pc' = [pc EXCEPT ![r] = "ready"]
    BY <1>6 DEF StartFound, At, Waiting
  <2>2. QED
    BY <2>1, DecidedKeepsHistory
<1>7. ASSUME NEW r \in Runs, RoundFound(r) PROVE HistoryInv'
  <2>1. pc[r] \in Waiting /\ Decided(r) /\ pc' = [pc EXCEPT ![r] = "ready"]
    BY <1>7 DEF RoundFound, At, Waiting
  <2>2. QED
    BY <2>1, DecidedKeepsHistory
<1>8. ASSUME NEW r \in Runs, NothingFound(r) PROVE HistoryInv'
  <2>1. pc' = [pc EXCEPT ![r] = "ready"] /\ UNCHANGED histories
    BY <1>8 DEF NothingFound, At
  <2>2. QED
    BY <1>1, <2>1, HistoryKept DEF Waiting
<1>9. ASSUME NEW r \in Runs, EndRun(r) PROVE HistoryInv'
  <2>1. pc' = [pc EXCEPT ![r] = "idle"] /\ UNCHANGED histories
    BY <1>9 DEF EndRun
  <2>2. QED
    BY <1>1, <2>1, HistoryKept DEF Waiting
<1>10. CASE UNCHANGED <<pc, histories>>
  BY <1>1, <1>10, HistoryKept
<1>11. ASSUME NEW t \in Tools, Define(t) \/ Delete(t) PROVE UNCHANGED <<pc, histories>>
  BY <1>11 DEF Define, Delete
<1>12. ClearCache => UNCHANGED <<pc, histories>>
  BY DEF ClearCache
<1>13. UNCHANGED vars => UNCHANGED <<pc, histories>>
  BY DEF vars
<1>14. QED
  BY <1>2, <1>3, <1>4, <1>5, <1>6, <1>7, <1>8, <1>9, <1>10, <1>11, <1>12, <1>13 DEF Next

(* However runs overlap, each context's history is its own run's latest    *)
(* decisions in order, and the snapshot is one run's: for any length of    *)
(* the history, also those the run's bound on rounds never fills.          *)
THEOREM HistoriesStayApart == Spec => []HistoryIsOneRuns
<1>1. HistoryInv => HistoryIsOneRuns
  BY DEF HistoryInv
<1>2. QED
  BY HistoryStarts, HistoryStep, <1>1, PTL DEF Spec

-----------------------------------------------------------------------------
(* The lists the bridge builds                                             *)

IsSeq(s) == s \in Seq(Range(s))

(* The length, domain and elements of a sequence.                          *)
LEMMA SeqFacts ==
  ASSUME NEW D, NEW s \in Seq(D)
  PROVE  /\ IsSeq(s) /\ Range(s) \subseteq D
         /\ Len(s) \in Nat /\ DOMAIN s = 1 .. Len(s)
         /\ Range(s) = {s[i] : i \in 1 .. Len(s)}
<1>1. Len(s) \in Nat /\ DOMAIN s = 1 .. Len(s) /\ s \in [1 .. Len(s) -> D]
  OBVIOUS
<1>2. s \in [1 .. Len(s) -> Range(s)]
  BY <1>1 DEF Range
<1>3. s \in Seq(Range(s))
  BY <1>1, <1>2
<1>4. QED
  BY <1>1, <1>3 DEF IsSeq, Range

(* Two sequences join to one that has the elements of both.                *)
LEMMA JoinedSeq ==
  ASSUME NEW s, NEW t, IsSeq(s), IsSeq(t)
  PROVE  IsSeq(s \o t) /\ Range(s \o t) = Range(s) \cup Range(t)
<1> DEFINE D == Range(s) \cup Range(t)
<1>1. s \in Seq(D) /\ t \in Seq(D)
  BY DEF IsSeq
<1> HIDE DEF D
<1>2. s \o t \in Seq(D)
  BY <1>1
<1>3. IsSeq(s \o t) /\ Range(s \o t) \subseteq D
  BY <1>2, SeqFacts
<1>4. /\ Len(s) \in Nat /\ Len(t) \in Nat
      /\ DOMAIN s = 1 .. Len(s) /\ DOMAIN t = 1 .. Len(t)
  BY <1>1
<1>5. /\ DOMAIN (s \o t) = 1 .. Len(s) + Len(t)
      /\ \A i \in 1 .. Len(s) : (s \o t)[i] = s[i]
      /\ \A i \in 1 .. Len(t) : (s \o t)[Len(s) + i] = t[i]
  BY <1>1
<1>6. \A i \in 1 .. Len(s) : i \in DOMAIN (s \o t)
  BY <1>4, <1>5
<1>7. \A i \in 1 .. Len(t) : Len(s) + i \in DOMAIN (s \o t)
  BY <1>4, <1>5
<1>8. Range(s) \subseteq Range(s \o t)
  BY <1>4, <1>5, <1>6 DEF Range
<1>9. Range(t) \subseteq Range(s \o t)
  BY <1>4, <1>5, <1>7 DEF Range
<1>10. QED
  BY <1>3, <1>8, <1>9 DEF D

(* What each of the four loops wants of the list it goes through: names    *)
(* not yet kept; pins neither retrieved nor taken, of tools there are; what*)
(* makes no room; static tools not yet seen.                               *)
Wants(loop, given, kept, e) ==
  /\ loop = "names" => e.name \notin NamesOf(kept)
  /\ loop = "pins" => e \notin given \cup ToSet(kept) /\ Lookup(e) # NoTool
  /\ loop = "room" => ~ MakesRoom(e, given)
  /\ loop = "seen" => e \notin given

(* The fold of a loop over the first m of s.                               *)
Folds(g, loop, given, s, m) ==
  g = [S \in SUBSET (1 .. m) |->
         IF S = {} THEN <<>>
         ELSE Keep(Wants(loop, given, g[S \ {Max(S)}], s[Max(S)]), g[S \ {Max(S)}], s[Max(S)])]

(* A set of numbers up to m + 1 that has m + 1 has it for its greatest.    *)
LEMMA MaxOfInterval ==
  ASSUME NEW m \in Nat, NEW S \in SUBSET (1 .. m + 1), m + 1 \in S
  PROVE  Max(S) = m + 1
<1>1. m + 1 \in S /\ \A y \in S : m + 1 >= y
  OBVIOUS
<1>2. Max(S) \in S /\ \A y \in S : Max(S) >= y
  BY <1>1 DEF Max
<1>3. Max(S) \in 1 .. m + 1 /\ Max(S) >= m + 1
  BY <1>2
<1>4. QED
  BY <1>3

(* A fold is continued by one position.                                    *)
LEMMA NextFold ==
  ASSUME NEW loop, NEW given, NEW s, NEW m \in Nat, NEW f, Folds(f, loop, given, s, m)
  PROVE  \E g : Folds(g, loop, given, s, m + 1)
<1> DEFINE Next1(kept, e) == Keep(Wants(loop, given, kept, e), kept, e)
           g == [S \in SUBSET (1 .. m + 1) |->
                   IF m + 1 \in S THEN Next1(f[S \ {m + 1}], s[m + 1]) ELSE f[S]]
<1>1. /\ \A S \in SUBSET (1 .. m + 1) : m + 1 \notin S => S \in SUBSET (1 .. m)
      /\ SUBSET (1 .. m) \subseteq SUBSET (1 .. m + 1)
  OBVIOUS
<1>2. \A S \in SUBSET (1 .. m) :
         f[S] = IF S = {} THEN <<>> ELSE Next1(f[S \ {Max(S)}], s[Max(S)])
  BY DEF Folds
<1> HIDE DEF Next1
<1>3. \A S \in SUBSET (1 .. m) : g[S] = f[S]
  BY <1>1
<1>4. ASSUME NEW S \in SUBSET (1 .. m + 1)
      PROVE  g[S] = IF S = {} THEN <<>> ELSE Next1(g[S \ {Max(S)}], s[Max(S)])
  <2>1. CASE m + 1 \in S
    <3>1. Max(S) = m + 1
      BY <2>1, MaxOfInterval
    <3>2. S \ {m + 1} \in SUBSET (1 .. m)
      OBVIOUS
    <3>3. g[S] = Next1(f[S \ {m + 1}], s[m + 1])
      BY <2>1
    <3>4. g[S \ {m + 1}] = f[S \ {m + 1}]
      BY <1>3, <3>2
    <3> HIDE DEF g
    <3>5. QED
      BY <2>1, <3>1, <3>3, <3>4
  <2>2. CASE m + 1 \notin S
    <3>1. S \in SUBSET (1 .. m) /\ S \ {Max(S)} \in SUBSET (1 .. m)
      BY <1>1, <2>2
    <3>2. g[S] = f[S] /\ g[S \ {Max(S)}] = f[S \ {Max(S)}]
      BY <1>3, <3>1
    <3> HIDE DEF g
    <3>3. QED
      BY <1>2, <3>1, <3>2
  <2>3. QED
    BY <2>1, <2>2
<1>5. Folds(g, loop, given, s, m + 1)
  <2>1. g = [S \in SUBSET (1 .. m + 1) |-> g[S]]
    OBVIOUS
  <2> HIDE DEF g
  <2>2. g = [S \in SUBSET (1 .. m + 1) |->
               IF S = {} THEN <<>> ELSE Next1(g[S \ {Max(S)}], s[Max(S)])]
    BY <1>4, <2>1
  <2>3. QED
    BY <2>2 DEF Folds, Next1
<1>6. QED
  BY <1>5

(* The folds over every number of positions exist.                         *)
LEMMA FoldExists ==
  ASSUME NEW loop, NEW given, NEW s, NEW n \in Nat
  PROVE  \E g : Folds(g, loop, given, s, n)
<1> DEFINE T == {m \in Nat : ~ \E g : Folds(g, loop, given, s, m)}
<1>1. SUFFICES ASSUME T # {} PROVE FALSE
  OBVIOUS
<1>2. T \in SUBSET Nat
  OBVIOUS
<1>3. PICK m \in T : \A l \in T : m <= l
  <2> HIDE DEF T
  <2>1. QED
    BY <1>1, <1>2, LeastNatural
<1>4. CASE m = 0
  <2> DEFINE g == [S \in SUBSET (1 .. 0) |-> <<>>]
  <2>1. SUBSET (1 .. 0) = {{}}
    OBVIOUS
  <2>2. Folds(g, loop, given, s, 0)
    BY <2>1 DEF Folds
  <2>3. QED
    BY <1>4, <2>2
<1>5. CASE m # 0
  <2>1. m - 1 \in Nat /\ m - 1 \notin T /\ (m - 1) + 1 = m
    BY <1>2, <1>3, <1>5
  <2>2. PICK f : Folds(f, loop, given, s, m - 1)
    BY <2>1
  <2>3. \E g : Folds(g, loop, given, s, (m - 1) + 1)
    BY <2>1, <2>2, NextFold
  <2>4. QED
    BY <2>1, <2>3
<1>6. QED
  BY <1>4, <1>5

Distinct(s) == \A i, j \in 1 .. Len(s) : s[i].name = s[j].name => i = j

(* What a loop has kept after some rounds.                                 *)
Sieved(loop, given, s, kept) ==
  /\ kept \in Seq(Range(s))
  /\ loop = "room" => \A i \in 1 .. Len(kept) : ~ MakesRoom(kept[i], given)
  /\ loop = "names" => Distinct(kept)

(* One more element, kept if it is wanted, keeps a sieve.                  *)
LEMMA KeepSieves ==
  ASSUME NEW loop, NEW given, NEW s, NEW kept, NEW e \in Range(s),
         Sieved(loop, given, s, kept)
  PROVE  Sieved(loop, given, s, Keep(Wants(loop, given, kept, e), kept, e))
<1>1. CASE ~ Wants(loop, given, kept, e)
  BY <1>1 DEF Keep
<1>2. CASE Wants(loop, given, kept, e)
  <2> DEFINE longer == Append(kept, e)
  <2>1. kept \in Seq(Range(s)) /\ Len(kept) \in Nat /\ DOMAIN kept = 1 .. Len(kept)
    BY DEF Sieved
  <2>2. /\ longer \in Seq(Range(s)) /\ Len(longer) = Len(kept) + 1
        /\ \A i \in 1 .. Len(kept) : longer[i] = kept[i]
        /\ longer[Len(kept) + 1] = e
    BY <2>1
  <2>3. Keep(Wants(loop, given, kept, e), kept, e) = longer
    BY <1>2 DEF Keep
  <2> HIDE DEF longer
  <2>4. \A i \in 1 .. Len(longer) : i \in 1 .. Len(kept) \/ i = Len(kept) + 1
    BY <2>1, <2>2
  <2>5. ASSUME loop = "room", NEW i \in 1 .. Len(longer)
        PROVE  ~ MakesRoom(longer[i], given)
    BY <1>2, <2>2, <2>4, <2>5 DEF Sieved, Wants
  <2>6. ASSUME loop = "names"
        PROVE  Distinct(longer)
    <3>1. \A i \in 1 .. Len(kept) : e.name # kept[i].name
      BY <1>2, <2>1, <2>6 DEF Wants, NamesOf
    <3>2. Distinct(kept)
      BY <2>6 DEF Sieved
    <3>3. SUFFICES ASSUME NEW i \in 1 .. Len(longer), NEW j \in 1 .. Len(longer),
                          longer[i].name = longer[j].name
                   PROVE  i = j
      BY DEF Distinct
    <3>4. QED
      BY <2>2, <2>4, <3>1, <3>2, <3>3 DEF Distinct
  <2>7. QED
    BY <2>2, <2>3, <2>5, <2>6 DEF Sieved
<1>3. QED
  BY <1>1, <1>2

(* The fold that keeps what is wanted is a sieve of its list.              *)
LEMMA FoldSieves ==
  ASSUME NEW loop, NEW given, NEW s, IsSeq(s), NEW F, Folds(F, loop, given, s, Len(s))
  PROVE  Sieved(loop, given, s, F[1 .. Len(s)])
<1>1. Len(s) \in Nat /\ \A i \in 1 .. Len(s) : s[i] \in Range(s)
  BY DEF IsSeq
<1> DEFINE T == {m \in 0 .. Len(s) : ~ Sieved(loop, given, s, F[1 .. m])}
<1>2. SUFFICES ASSUME T # {} PROVE FALSE
  BY <1>1
<1>3. T \in SUBSET Nat
  BY <1>1
<1>4. PICK m \in T : \A l \in T : m <= l
  <2> HIDE DEF T
  <2>1. QED
    BY <1>2, <1>3, LeastNatural
<1>5. \A S \in SUBSET (1 .. Len(s)) :
         F[S] = IF S = {} THEN <<>>
                ELSE Keep(Wants(loop, given, F[S \ {Max(S)}], s[Max(S)]),
                          F[S \ {Max(S)}], s[Max(S)])
  BY DEF Folds
<1>6. CASE m = 0
  <2>1. 1 .. 0 = {} /\ {} \in SUBSET (1 .. Len(s))
    BY <1>1
  <2>2. F[1 .. 0] = <<>>
    BY <1>5, <2>1
  <2>3. <<>> \in Seq(Range(s)) /\ Len(<<>>) = 0 /\ 1 .. 0 = {}
    OBVIOUS
  <2>4. Sieved(loop, given, s, <<>>)
    BY <2>3 DEF Sieved, Distinct
  <2>5. QED
    BY <1>6, <2>2, <2>4
<1>7. CASE m # 0
  <2>1. /\ m \in 1 .. Len(s) /\ m - 1 \in 0 .. Len(s) /\ ~ (m <= m - 1)
        /\ m - 1 \in Nat /\ (m - 1) + 1 = m
    BY <1>1, <1>7
  <2>2. Sieved(loop, given, s, F[1 .. m - 1])
    BY <1>4, <2>1
  <2>3. /\ 1 .. m \in SUBSET (1 .. Len(s)) /\ 1 .. m # {}
        /\ (1 .. m) \ {m} = 1 .. m - 1
    <3>1. m \in Nat /\ 1 <= m /\ m <= Len(s)
      BY <1>1, <2>1
    <3>2. m \in 1 .. m /\ \A i \in 1 .. m : i \in 1 .. Len(s)
      BY <1>1, <3>1
    <3>3. (1 .. m) \ {m} = 1 .. m - 1
      BY <3>1
    <3>4. QED
      BY <3>2, <3>3
  <2>4. Max(1 .. m) = m
    <3>1. 1 .. m \in SUBSET (1 .. (m - 1) + 1) /\ (m - 1) + 1 \in 1 .. m
      BY <1>1, <2>1
    <3>2. QED
      BY <2>1, <3>1, MaxOfInterval
  <2>5. F[1 .. m] = Keep(Wants(loop, given, F[1 .. m - 1], s[m]), F[1 .. m - 1], s[m])
    BY <1>5, <2>3, <2>4
  <2>6. Sieved(loop, given, s, F[1 .. m])
    BY <1>1, <2>1, <2>2, <2>5, KeepSieves
  <2>7. QED
    BY <2>6
<1>8. QED
  BY <1>6, <1>7

(* Of the tools found, the first of each name is kept.                     *)
LEMMA NamesSieved ==
  ASSUME NEW s, IsSeq(s)
  PROVE  FirstOfEachName(s) \in Seq(Range(s)) /\ Distinct(FirstOfEachName(s))
<1> DEFINE Loop(g) ==
             g = [S \in SUBSET (1 .. Len(s)) |->
                    IF S = {} THEN <<>>
                    ELSE Keep(s[Max(S)].name \notin NamesOf(g[S \ {Max(S)}]),
                              g[S \ {Max(S)}], s[Max(S)])]
           F == CHOOSE g : Loop(g)
<1>1. Len(s) \in Nat /\ DOMAIN s = 1 .. Len(s)
  BY DEF IsSeq
<1>2. FirstOfEachName(s) = F[1 .. Len(s)]
  BY <1>1 DEF FirstOfEachName, FoldLeft, MapThenFoldSet
<1>3. \A g : Loop(g) <=> Folds(g, "names", {}, s, Len(s))
  BY DEF Folds, Wants
<1>4. Loop(F)
  <2>1. \E g : Loop(g)
    BY <1>1, <1>3, FoldExists
  <2> HIDE DEF Loop
  <2>2. QED
    BY <2>1
<1> HIDE DEF Loop, F
<1>5. Sieved("names", {}, s, F[1 .. Len(s)])
  BY <1>3, <1>4, FoldSieves
<1>6. QED
  BY <1>2, <1>5 DEF Sieved

(* The pins taken are pins.                                                *)
LEMMA PinsSieved ==
  ASSUME NEW hits
  PROVE  PinsTaken(hits) \in Seq(Range(Pins))
<1> DEFINE given == {Bare(n) : n \in NamesOf(Dynamic(hits))}
           Loop(g) ==
             g = [S \in SUBSET (1 .. Len(Pins)) |->
                    IF S = {} THEN <<>>
                    ELSE Keep(/\ Pins[Max(S)] \notin given \cup ToSet(g[S \ {Max(S)}])
                              /\ Lookup(Pins[Max(S)]) # NoTool,
                              g[S \ {Max(S)}], Pins[Max(S)])]
           F == CHOOSE g : Loop(g)
<1>1. IsSeq(Pins) /\ Len(Pins) \in Nat /\ DOMAIN Pins = 1 .. Len(Pins)
  BY ProviderAssumption DEF IsSeq
<1>2. PinsTaken(hits) = F[1 .. Len(Pins)]
  BY <1>1 DEF PinsTaken, FoldLeft, MapThenFoldSet
<1> HIDE DEF given
<1>3. \A g : Loop(g) <=> Folds(g, "pins", given, Pins, Len(Pins))
  BY DEF Folds, Wants
<1>4. Loop(F)
  <2>1. \E g : Loop(g)
    BY <1>1, <1>3, FoldExists
  <2> HIDE DEF Loop
  <2>2. QED
    BY <2>1
<1> HIDE DEF Loop, F
<1>5. Sieved("pins", given, Pins, F[1 .. Len(Pins)])
  BY <1>1, <1>3, <1>4, FoldSieves
<1>6. QED
  BY <1>2, <1>5 DEF Sieved

(* What makes room for the fresh tools is gone, and nothing is new.        *)
LEMMA RoomSieved ==
  ASSUME NEW r, NEW fresh, IsSeq(surface[r])
  PROVE  /\ Preserved(r, fresh) \in Seq(Range(surface[r]))
         /\ \A e \in Range(Preserved(r, fresh)) : ~ MakesRoom(e, fresh)
<1> DEFINE s == surface[r]
           Loop(g) ==
             g = [S \in SUBSET (1 .. Len(s)) |->
                    IF S = {} THEN <<>>
                    ELSE Keep(~ MakesRoom(s[Max(S)], fresh), g[S \ {Max(S)}], s[Max(S)])]
           F == CHOOSE g : Loop(g)
<1>1. Len(s) \in Nat /\ DOMAIN s = 1 .. Len(s)
  BY DEF IsSeq
<1>2. Preserved(r, fresh) = F[1 .. Len(s)]
  BY <1>1 DEF Preserved, FoldLeft, MapThenFoldSet
<1>3. \A g : Loop(g) <=> Folds(g, "room", fresh, s, Len(s))
  BY DEF Folds, Wants
<1>4. Loop(F)
  <2>1. \E g : Loop(g)
    BY <1>1, <1>3, FoldExists
  <2> HIDE DEF Loop
  <2>2. QED
    BY <2>1
<1> HIDE DEF Loop, F
<1>5. Sieved("room", fresh, s, F[1 .. Len(s)])
  BY <1>3, <1>4, FoldSieves
<1>6. QED
  BY <1>2, <1>5, SeqFacts DEF Sieved

(* The static tools shown are none of the gantry's.                        *)
LEMMA SeenSieved ==
  ASSUME NEW hits
  PROVE  /\ IsSeq(StaticTools(hits))
         /\ \A e \in Range(StaticTools(hits)) : e.tool = NoTool
<1> DEFINE seen == NamesOf(Dynamic(hits))
                     \cup {pin.name : pin \in {q \in ToSet(PinsTaken(hits)) : q.namespace = Anywhere}}
           Loop(g) ==
             g = [S \in SUBSET (1 .. Len(Static)) |->
                    IF S = {} THEN <<>>
                    ELSE Keep(Static[Max(S)] \notin seen, g[S \ {Max(S)}], Static[Max(S)])]
           F == CHOOSE g : Loop(g)
           unseen == F[1 .. Len(Static)]
<1>1. IsSeq(Static) /\ Len(Static) \in Nat /\ DOMAIN Static = 1 .. Len(Static)
  BY ProviderAssumption DEF IsSeq
<1>2. StaticTools(hits) = [i \in DOMAIN unseen |-> Native(unseen[i])]
  BY <1>1 DEF StaticTools, FoldLeft, MapThenFoldSet
<1> HIDE DEF seen
<1>3. \A g : Loop(g) <=> Folds(g, "seen", seen, Static, Len(Static))
  BY DEF Folds, Wants
<1>4. Loop(F)
  <2>1. \E g : Loop(g)
    BY <1>1, <1>3, FoldExists
  <2> HIDE DEF Loop
  <2>2. QED
    BY <2>1
<1> HIDE DEF Loop, F
<1>5. Sieved("seen", seen, Static, F[1 .. Len(Static)])
  BY <1>1, <1>3, <1>4, FoldSieves
<1>6. unseen \in Seq(Range(Static))
  BY <1>5 DEF Sieved
<1> HIDE DEF unseen
<1>7. Len(unseen) \in Nat /\ DOMAIN unseen = 1 .. Len(unseen)
  BY <1>6
<1> DEFINE natives == [i \in 1 .. Len(unseen) |-> Native(unseen[i])]
<1>8. natives \in Seq({Native(unseen[i]) : i \in 1 .. Len(unseen)})
  BY <1>7
<1>9. \A i \in 1 .. Len(unseen) : Native(unseen[i]).tool = NoTool
  BY DEF Native
<1>10. StaticTools(hits) = natives
  BY <1>2, <1>7
<1> HIDE DEF natives
<1>11. IsSeq(natives) /\ \A e \in Range(natives) : \E i \in 1 .. Len(unseen) : e = Native(unseen[i])
  BY <1>8, SeqFacts
<1>12. QED
  BY <1>9, <1>10, <1>11

-----------------------------------------------------------------------------
(* A round's selection                                                     *)

Retrieved(hits) == {Wrap(hits[i].tool, hits[i].version) : i \in 1 .. Len(hits)}

Pinned(hits) ==
  {Wrap(Lookup(Pins[i]), VersionIn(hits, Lookup(Pins[i]))) : i \in 1 .. Len(Pins)}

(* What is collected comes from what was found and from the pins.          *)
LEMMA CollectedFrom ==
  ASSUME NEW hits, IsSeq(hits)
  PROVE  /\ IsSeq(Collected(hits))
         /\ \A e \in Range(Collected(hits)) :
              e.tool = NoTool \/ e \in Retrieved(hits) \cup Pinned(hits)
<1> DEFINE wrapped == [i \in 1 .. Len(hits) |-> Wrap(hits[i].tool, hits[i].version)]
<1>1. Len(hits) \in Nat /\ DOMAIN hits = 1 .. Len(hits)
  BY DEF IsSeq
<1>2. wrapped \in Seq(Retrieved(hits))
  BY <1>1 DEF Retrieved
<1>3. Dynamic(hits) = FirstOfEachName(wrapped)
  BY <1>1 DEF Dynamic
<1> HIDE DEF wrapped
<1>4. IsSeq(wrapped) /\ Range(wrapped) \subseteq Retrieved(hits)
  BY <1>2, SeqFacts
<1>5. Dynamic(hits) \in Seq(Range(wrapped))
  BY <1>3, <1>4, NamesSieved
<1>6. IsSeq(Dynamic(hits)) /\ Range(Dynamic(hits)) \subseteq Retrieved(hits)
  BY <1>4, <1>5, SeqFacts
<1> DEFINE pins == PinsTaken(hits)
           Pin(pin) == Wrap(Lookup(pin), VersionIn(hits, Lookup(pin)))
<1>7. pins \in Seq(Range(Pins))
  BY PinsSieved
<1>8. PinTools(hits) = [i \in DOMAIN pins |-> Pin(pins[i])]
  BY DEF PinTools
<1>9. \A pin \in Range(Pins) : Pin(pin) \in Pinned(hits)
  <2>1. Range(Pins) = {Pins[i] : i \in 1 .. Len(Pins)}
    BY ProviderAssumption, SeqFacts
  <2>2. QED
    BY <2>1 DEF Pinned
<1> HIDE DEF pins, Pin
<1>10. /\ Len(pins) \in Nat /\ DOMAIN pins = 1 .. Len(pins)
       /\ \A i \in 1 .. Len(pins) : pins[i] \in Range(Pins)
  BY <1>7
<1>11. PinTools(hits) \in Seq(Pinned(hits))
  BY <1>8, <1>9, <1>10
<1>12. IsSeq(PinTools(hits)) /\ Range(PinTools(hits)) \subseteq Pinned(hits)
  BY <1>11, SeqFacts
<1>13. /\ IsSeq(Dynamic(hits) \o PinTools(hits))
       /\ Range(Dynamic(hits) \o PinTools(hits)) = Range(Dynamic(hits)) \cup Range(PinTools(hits))
  BY <1>6, <1>12, JoinedSeq
<1>14. /\ IsSeq(Collected(hits))
       /\ Range(Collected(hits)) = Range(Dynamic(hits) \o PinTools(hits)) \cup Range(StaticTools(hits))
  BY <1>13, SeenSieved, JoinedSeq DEF Collected
<1>15. QED
  BY <1>6, <1>12, <1>13, <1>14, SeenSieved

(* A sequence without repetitions has as many elements as places.          *)
LEMMA Counted ==
  ASSUME NEW n \in Nat, NEW f, DOMAIN f = 1 .. n, NEW S, S = {f[i] : i \in 1 .. n}
  PROVE  IsFiniteSet(S) /\ Cardinality(S) <= n /\ Cardinality(S) \in Nat
<1> DEFINE g == [i \in 1 .. n |-> f[i]]
<1>1. g \in Surjection(1 .. n, S)
  BY DEF Surjection
<1>2. IsFiniteSet(1 .. n) /\ Cardinality(1 .. n) = n
  BY FS_Interval
<1>3. IsFiniteSet(S) /\ Cardinality(S) <= n
  BY <1>1, <1>2, FS_Surjection
<1>4. QED
  BY <1>3, FS_CardinalityType

(* One whose names differ has as many names as places.                     *)
LEMMA NamesCounted ==
  ASSUME NEW s, IsSeq(s), Distinct(s)
  PROVE  Cardinality(NamesOf(s)) = Len(s)
<1> DEFINE f == [i \in 1 .. Len(s) |-> s[i].name]
<1>1. Len(s) \in Nat /\ DOMAIN s = 1 .. Len(s)
  BY DEF IsSeq
<1>2. NamesOf(s) = {s[i].name : i \in 1 .. Len(s)}
  BY <1>1 DEF NamesOf
<1>3. f \in Bijection(1 .. Len(s), NamesOf(s))
  BY <1>2 DEF Distinct, Bijection, Injection, Surjection, IsInjective
<1>4. IsFiniteSet(1 .. Len(s)) /\ Cardinality(1 .. Len(s)) = Len(s)
  <2>1. \A n \in Nat : IsFiniteSet(1 .. n) /\ Cardinality(1 .. n) = n
    BY FS_Interval
  <2>2. Len(s) \in Nat
    BY <1>1
  <2>3. QED
    BY <2>1, <2>2
<1>5. QED
  BY <1>3, <1>4, FS_Bijection DEF ExistsBijection

(* What RoundReplacesSelection says of a surface after a refresh.          *)
Replaced(s, hits) ==
  LET mine == {e \in ToSet(s) : IsGantry(e) /\ e.name \in KnownNames \ ToSet(Static)}
  IN  /\ {e.tool : e \in mine} \subseteq
           {hits[i].tool : i \in DOMAIN hits} \cup {Lookup(pin) : pin \in ToSet(Pins)}
      /\ Cardinality(mine) <= TopK + Len(Pins)
      /\ Cardinality(NamesOf(s)) = Len(s)

(* A refreshed surface has nothing of the gantry's but what the round      *)
(* collected.                                                              *)
LEMMA RefreshReplaces ==
  ASSUME NEW r, IsSeq(surface[r]), NEW hits, IsSeq(hits), Len(hits) <= TopK
  PROVE  /\ IsSeq(Refreshed(r, Collected(hits)))
         /\ Replaced(Refreshed(r, Collected(hits)), hits)
<1> DEFINE fresh == Collected(hits)
           kept == Preserved(r, fresh)
           s == FirstOfEachName(kept \o fresh)
           mine == {e \in ToSet(s) : IsGantry(e) /\ e.name \in KnownNames \ ToSet(Static)}
<1>1. /\ IsSeq(fresh)
      /\ \A e \in Range(fresh) : e.tool = NoTool \/ e \in Retrieved(hits) \cup Pinned(hits)
  BY CollectedFrom
<1>2. kept \in Seq(Range(surface[r])) /\ \A e \in Range(kept) : ~ MakesRoom(e, fresh)
  BY RoomSieved
<1>3. Refreshed(r, Collected(hits)) = s
  BY DEF Refreshed
<1> HIDE DEF fresh, kept
<1>4. IsSeq(kept)
  BY <1>2, SeqFacts
<1>5. IsSeq(kept \o fresh) /\ Range(kept \o fresh) = Range(kept) \cup Range(fresh)
  BY <1>1, <1>4, JoinedSeq
<1>6. s \in Seq(Range(kept \o fresh)) /\ Distinct(s)
  BY <1>5, NamesSieved
<1> HIDE DEF s
<1>7. IsSeq(s) /\ Range(s) \subseteq Range(kept) \cup Range(fresh)
  BY <1>5, <1>6, SeqFacts
<1>8. ToSet(s) = Range(s)
  BY DEF ToSet, Range
<1>9. mine \subseteq Retrieved(hits) \cup Pinned(hits)
  <2>1. ASSUME NEW e \in mine
        PROVE  e \in Retrieved(hits) \cup Pinned(hits)
    <3>1. e \in Range(kept) \cup Range(fresh) /\ IsGantry(e) /\ e.name \in KnownNames
          /\ e.name \notin ToSet(Static)
      BY <1>7, <1>8
    <3>2. MakesRoom(e, fresh)
      BY <3>1 DEF MakesRoom
    <3>3. e \in Range(fresh)
      BY <1>2, <3>1, <3>2
    <3>4. QED
      BY <1>1, <3>1, <3>3 DEF IsGantry
  <2> HIDE DEF mine
  <2>2. QED
    BY <2>1
<1> HIDE DEF mine
<1>10. /\ Len(hits) \in Nat /\ DOMAIN hits = 1 .. Len(hits)
       /\ Len(Pins) \in Nat /\ DOMAIN Pins = 1 .. Len(Pins)
  BY ProviderAssumption DEF IsSeq
<1>11. {e.tool : e \in mine} \subseteq
         {hits[i].tool : i \in DOMAIN hits} \cup {Lookup(pin) : pin \in ToSet(Pins)}
  <2>1. \A e \in Retrieved(hits) : e.tool \in {hits[i].tool : i \in DOMAIN hits}
    BY <1>10 DEF Retrieved, Wrap, Wrapper
  <2>2. \A e \in Pinned(hits) : e.tool \in {Lookup(pin) : pin \in ToSet(Pins)}
    BY <1>10 DEF Pinned, Wrap, Wrapper, ToSet
  <2>3. QED
    BY <1>9, <2>1, <2>2
<1>12. Cardinality(mine) <= TopK + Len(Pins)
  <2> DEFINE wrapped == [i \in 1 .. Len(hits) |-> Wrap(hits[i].tool, hits[i].version)]
             pinned == [i \in 1 .. Len(Pins) |->
                          Wrap(Lookup(Pins[i]), VersionIn(hits, Lookup(Pins[i])))]
  <2>1. Retrieved(hits) = {wrapped[i] : i \in 1 .. Len(hits)} /\ DOMAIN wrapped = 1 .. Len(hits)
    BY DEF Retrieved
  <2>2. Pinned(hits) = {pinned[i] : i \in 1 .. Len(Pins)} /\ DOMAIN pinned = 1 .. Len(Pins)
    BY DEF Pinned
  <2> HIDE DEF wrapped, pinned
  <2>3. /\ IsFiniteSet(Retrieved(hits)) /\ Cardinality(Retrieved(hits)) <= Len(hits)
        /\ Cardinality(Retrieved(hits)) \in Nat
    BY <1>10, <2>1, Counted
  <2>4. /\ IsFiniteSet(Pinned(hits)) /\ Cardinality(Pinned(hits)) <= Len(Pins)
        /\ Cardinality(Pinned(hits)) \in Nat
    BY <1>10, <2>2, Counted
  <2>5. Cardinality(Retrieved(hits) \cap Pinned(hits)) \in Nat
    BY <2>3, FS_Intersection, FS_CardinalityType
  <2>6. /\ IsFiniteSet(Retrieved(hits) \cup Pinned(hits))
        /\ Cardinality(Retrieved(hits) \cup Pinned(hits)) =
             Cardinality(Retrieved(hits)) + Cardinality(Pinned(hits))
               - Cardinality(Retrieved(hits) \cap Pinned(hits))
    BY <2>3, <2>4, FS_Union
  <2>7. IsFiniteSet(mine) /\ Cardinality(mine) <= Cardinality(Retrieved(hits) \cup Pinned(hits))
    BY <1>9, <2>6, FS_Subset
  <2>8. Cardinality(mine) \in Nat
    BY <2>7, FS_CardinalityType
  <2>9. TopK \in Nat
    BY ProviderAssumption
  <2>10. QED
    BY <1>10, <2>3, <2>4, <2>5, <2>6, <2>7, <2>8, <2>9
<1>13. Cardinality(NamesOf(s)) = Len(s)
  BY <1>6, <1>7, NamesCounted
<1>14. QED
  BY <1>3, <1>7, <1>11, <1>12, <1>13 DEF Replaced, mine

-----------------------------------------------------------------------------
(* The surfaces                                                            *)

RoundInv ==
  /\ DOMAIN surface = Runs /\ DOMAIN found = Runs /\ DOMAIN pc = Runs
  /\ \A r \in Runs : IsSeq(surface[r]) /\ IsSeq(found[r]) /\ Len(found[r]) <= TopK

(* Nothing found is a sequence within the bounds.                          *)
LEMMA NothingIsSeq == IsSeq(<<>>) /\ Len(<<>>) = 0 /\ Len(<<>>) <= TopK
BY ProviderAssumption DEF IsSeq

(* The tools that are not the gantry's are a sequence.                     *)
LEMMA ForeignIsSeq ==
  ASSUME NEW names \in SUBSET Natives
  PROVE  IsSeq(ForeignTools(names))
<1> DEFINE S == {Native(n) : n \in names}
           f == [n \in names |-> Native(n)]
<1>1. IsFiniteSet(names)
  BY ProviderAssumption, FS_Subset
<1>2. f \in Surjection(names, S)
  BY DEF Surjection
<1>3. IsFiniteSet(S)
  BY <1>1, <1>2, FS_Surjection
<1> HIDE DEF S, f
<1>4. Cardinality(S) \in Nat /\ ExistsBijection(1 .. Cardinality(S), S)
  BY <1>3, FS_CardinalityType
<1>5. \E g \in [1 .. Cardinality(S) -> S] : IsInjective(g)
  BY <1>4 DEF ExistsBijection, Bijection, Injection, IsInjective
<1>6. SetToSeq(S) \in [1 .. Cardinality(S) -> S]
  BY <1>5 DEF SetToSeq
<1>7. SetToSeq(S) \in Seq(S)
  BY <1>4, <1>6
<1>8. QED
  BY <1>7, SeqFacts DEF ForeignTools, S

(* A search finds at most top_k tools.                                     *)
LEMMA HitsAreFew ==
  ASSUME RegistryInv, NEW hits \in Hits
  PROVE  IsSeq(hits) /\ Len(hits) <= TopK
<1>1. PICK s \in SetToAllKPermutations(ToSet(order)) :
        Len(s) <= TopK /\ hits = [i \in DOMAIN s |-> [tool |-> s[i], version |-> defined[s[i]]]]
  BY DEF Hits
<1>2. PICK S \in SUBSET ToSet(order) : s \in SetToSeqs(S)
  BY <1>1 DEF SetToAllKPermutations
<1>3. s \in [1 .. Cardinality(S) -> S]
  BY <1>2 DEF SetToSeqs
<1>4. Cardinality(S) \in Nat
  <2>1. ToSet(order) \subseteq Tools
    BY DEF RegistryInv, ToSet
  <2>2. IsFiniteSet(S)
    BY <2>1, RegistryAssumption, FS_Subset
  <2>3. QED
    BY <2>2, FS_CardinalityType
<1>5. s \in Seq(S) /\ Len(s) = Cardinality(S)
  BY <1>3, <1>4
<1>6. hits = [i \in 1 .. Cardinality(S) |-> [tool |-> s[i], version |-> defined[s[i]]]]
  BY <1>1, <1>5
<1> DEFINE D == {hits[i] : i \in 1 .. Cardinality(S)}
<1>7. DOMAIN hits = 1 .. Cardinality(S) /\ \A i \in 1 .. Cardinality(S) : hits[i] \in D
  BY <1>6
<1>8. hits \in [1 .. Cardinality(S) -> D]
  <2> HIDE DEF D
  <2>1. hits = [i \in 1 .. Cardinality(S) |-> hits[i]]
    BY <1>6
  <2>2. QED
    BY <1>7, <2>1
<1> HIDE DEF D
<1>9. hits \in Seq(D) /\ Len(hits) = Cardinality(S)
  BY <1>4, <1>8
<1>10. QED
  BY <1>1, <1>5, <1>9, SeqFacts

(* At first no round has found anything.                                   *)
LEMMA RoundStarts == Init => RoundInv
BY NothingIsSeq DEF Init, RoundInv

(* A surface is shown, and what was found is dropped or kept.              *)
LEMMA ShownKeeps ==
  ASSUME RoundInv, NEW r \in Runs, NEW entries, Show(r, entries), IsSeq(entries),
         Forget(r) \/ UNCHANGED found, NEW p, pc' = [pc EXCEPT ![r] = p]
  PROVE  RoundInv'
BY NothingIsSeq DEF RoundInv, Show, Forget, IsSeq

(* No step breaks the invariant of rounds.                                 *)
LEMMA RoundStep == RegistryInv /\ RoundInv /\ [Next]_vars => RoundInv'
<1> SUFFICES ASSUME RegistryInv, RoundInv, [Next]_vars PROVE RoundInv'
  OBVIOUS
<1>1. ASSUME NEW hits, IsSeq(hits)
      PROVE  IsSeq(Collected(hits))
  BY <1>1, CollectedFrom
<1>2. ASSUME NEW r \in Runs
      PROVE  IsSeq(surface[r]) /\ IsSeq(found[r]) /\ Len(found[r]) <= TopK
  BY DEF RoundInv
<1>3. ASSUME NEW r \in Runs, BeginPerCall(r) PROVE RoundInv'
  <2>1. PICK names \in SUBSET Natives : Show(r, ForeignTools(names) \o Collected(<<>>))
    BY <1>3 DEF BeginPerCall
  <2>2. IsSeq(ForeignTools(names) \o Collected(<<>>))
    BY <1>1, NothingIsSeq, ForeignIsSeq, JoinedSeq
  <2>3. pc' = [pc EXCEPT ![r] = "ready"] /\ UNCHANGED found
    BY <1>3 DEF BeginPerCall, At
  <2>4. QED
    BY <2>1, <2>2, <2>3, ShownKeeps
<1>4. ASSUME NEW r \in Runs, BeginPerRun(r) PROVE RoundInv'
  <2>1. PICK names \in SUBSET Natives : Show(r, ForeignTools(names))
    BY <1>4 DEF BeginPerRun
  <2>2. pc' = [pc EXCEPT ![r] = "starting"] /\ UNCHANGED found
    BY <1>4 DEF BeginPerRun, At
  <2>3. QED
    BY <2>1, <2>2, ForeignIsSeq, ShownKeeps
<1>5. ASSUME NEW r \in Runs, Retrieve(r) PROVE RoundInv'
  <2>1. PICK hits \in Hits : found' = [found EXCEPT ![r] = hits]
    BY <1>5 DEF Retrieve
  <2>2. surface' = surface /\ DOMAIN pc' = DOMAIN pc
    BY <1>5 DEF Retrieve, At
  <2>3. IsSeq(hits) /\ Len(hits) <= TopK
    BY HitsAreFew
  <2>4. QED
    BY <2>1, <2>2, <2>3 DEF RoundInv, IsSeq
<1>6. ASSUME NEW r \in Runs, StartFound(r) PROVE RoundInv'
  <2>1. /\ Show(r, surface[r] \o Collected(found[r])) /\ Forget(r)
        /\ pc' = [pc EXCEPT ![r] = "ready"]
    BY <1>6 DEF StartFound, At
  <2>2. IsSeq(surface[r] \o Collected(found[r]))
    BY <1>1, <1>2, JoinedSeq
  <2>3. QED
    BY <2>1, <2>2, ShownKeeps
<1>7. ASSUME NEW r \in Runs, RoundFound(r) PROVE RoundInv'
  <2>1. /\ Show(r, Refreshed(r, Collected(found[r]))) /\ Forget(r)
        /\ pc' = [pc EXCEPT ![r] = "ready"]
    BY <1>7 DEF RoundFound, At
  <2>2. IsSeq(Refreshed(r, Collected(found[r])))
    BY <1>2, RefreshReplaces
  <2>3. QED
    BY <2>1, <2>2, ShownKeeps
<1>8. ASSUME NEW r \in Runs, NothingFound(r) PROVE RoundInv'
  <2>1. UNCHANGED found /\ pc' = [pc EXCEPT ![r] = "ready"]
    BY <1>8 DEF NothingFound, At
  <2>2. \/ Show(r, surface[r] \o Collected(<<>>))
        \/ Show(r, Refreshed(r, Collected(<<>>)))
    BY <1>8 DEF NothingFound
  <2>3. IsSeq(surface[r] \o Collected(<<>>))
    BY <1>1, <1>2, NothingIsSeq, JoinedSeq
  <2>4. IsSeq(Refreshed(r, Collected(<<>>)))
    BY <1>2, NothingIsSeq, RefreshReplaces
  <2>5. QED
    BY <2>1, <2>2, <2>3, <2>4, ShownKeeps
<1>9. ASSUME NEW r \in Runs, EndRun(r) PROVE RoundInv'
  <2>1. Show(r, <<>>) /\ Forget(r) /\ pc' = [pc EXCEPT ![r] = "idle"]
    BY <1>9 DEF EndRun
  <2>2. QED
    BY <2>1, NothingIsSeq, ShownKeeps
<1>10. CASE UNCHANGED <<surface, found>> /\ DOMAIN pc' = DOMAIN pc
  BY <1>10 DEF RoundInv, IsSeq
<1>11. ASSUME NEW r \in Runs, BeginRound(r)
       PROVE  UNCHANGED <<surface, found>> /\ DOMAIN pc' = DOMAIN pc
  BY <1>11 DEF BeginRound, At
<1>12. ASSUME NEW t \in Tools, Define(t) \/ Delete(t) PROVE UNCHANGED <<surface, found, pc>>
  BY <1>12 DEF Define, Delete
<1>13. ClearCache => UNCHANGED <<surface, found, pc>>
  BY DEF ClearCache
<1>14. UNCHANGED vars => UNCHANGED <<surface, found, pc>>
  BY DEF vars
<1>15. QED
  BY <1>3, <1>4, <1>5, <1>6, <1>7, <1>8, <1>9, <1>10, <1>11, <1>12, <1>13, <1>14 DEF Next

(* Only a round's own steps take a run from its retrieval to the model.    *)
LEMMA RefreshingSteps ==
  ASSUME DOMAIN pc = Runs, [Next]_vars, NEW r \in Runs, Refreshes(r)
  PROVE  RoundFound(r) \/ NothingFound(r)
<1>1. pc[r] # "ready" /\ pc'[r] = "ready" /\ pc[r] \in {"refreshing", "round found"}
  BY DEF Refreshes
<1>2. UNCHANGED pc => FALSE
  BY <1>1
<1>3. ASSUME NEW q \in Runs, NEW p, pc' = [pc EXCEPT ![q] = p]
      PROVE  q = r
  BY <1>1, <1>3
<1>4. ASSUME NEW q \in Runs, BeginPerCall(q) PROVE FALSE
  BY <1>1, <1>3, <1>4 DEF BeginPerCall, At
<1>5. ASSUME NEW q \in Runs, BeginPerRun(q) PROVE FALSE
  BY <1>1, <1>3, <1>5 DEF BeginPerRun, At
<1>6. ASSUME NEW q \in Runs, BeginRound(q) PROVE FALSE
  BY <1>1, <1>3, <1>6 DEF BeginRound, At
<1>7. ASSUME NEW q \in Runs, Retrieve(q) PROVE FALSE
  <2>1. PICK p \in {"start found", "round found"} : pc' = [pc EXCEPT ![q] = p]
    BY <1>7 DEF Retrieve, At
  <2>2. q = r
    BY <1>3, <2>1
  <2>3. QED
    BY <1>1, <2>1, <2>2
<1>8. ASSUME NEW q \in Runs, StartFound(q) PROVE FALSE
  BY <1>1, <1>3, <1>8 DEF StartFound, At
<1>9. ASSUME NEW q \in Runs, RoundFound(q) PROVE q = r
  BY <1>3, <1>9 DEF RoundFound, At
<1>10. ASSUME NEW q \in Runs, NothingFound(q) PROVE q = r
  BY <1>3, <1>10 DEF NothingFound, At
<1>11. ASSUME NEW q \in Runs, EndRun(q) PROVE FALSE
  <2>1. pc' = [pc EXCEPT ![q] = "idle"]
    BY <1>11 DEF EndRun
  <2>2. q = r
    BY <1>3, <2>1
  <2>3. QED
    BY <1>1, <2>1, <2>2
<1>12. ASSUME NEW t \in Tools, Define(t) \/ Delete(t) PROVE UNCHANGED pc
  BY <1>12 DEF Define, Delete
<1>13. ClearCache => UNCHANGED pc
  BY DEF ClearCache
<1>14. UNCHANGED vars => UNCHANGED pc
  BY DEF vars
<1>15. QED
  BY <1>2, <1>4, <1>5, <1>6, <1>7, <1>8, <1>9, <1>10, <1>11, <1>12, <1>13, <1>14 DEF Next

(* After a refresh the gantry's tools on a run's surface are this round's  *)
(* selection and the pins, at most top_k and those, each name there once:  *)
(* for any selections, pins, static tools and tools of the agent's own.    *)
THEOREM RoundsReplaceSelections == Spec => RoundReplacesSelection
<1>1. ASSUME RoundInv, [Next]_vars, NEW r \in Runs, Refreshes(r)
      PROVE  LET mine == {e \in ToSet(surface'[r]) :
                            IsGantry(e) /\ e.name \in KnownNames \ ToSet(Static)}
             IN  /\ {e.tool : e \in mine} \subseteq
                      {found[r][i].tool : i \in DOMAIN found[r]} \cup {Lookup(pin) : pin \in ToSet(Pins)}
                 /\ Cardinality(mine) <= TopK + Len(Pins)
                 /\ Cardinality(NamesOf(surface'[r])) = Len(surface'[r])
  <2>1. /\ IsSeq(surface[r]) /\ IsSeq(found[r]) /\ Len(found[r]) <= TopK
        /\ DOMAIN surface = Runs /\ DOMAIN pc = Runs
    BY <1>1 DEF RoundInv
  <2>2. CASE RoundFound(r)
    <3>1. surface'[r] = Refreshed(r, Collected(found[r]))
      BY <2>1, <2>2 DEF RoundFound, Show
    <3>2. Replaced(Refreshed(r, Collected(found[r])), found[r])
      BY <2>1, RefreshReplaces
    <3>3. QED
      BY <3>1, <3>2 DEF Replaced
  <2>3. CASE NothingFound(r)
    <3>1. pc[r] # "starting"
      BY <1>1 DEF Refreshes
    <3>2. surface'[r] = Refreshed(r, Collected(<<>>))
      BY <2>1, <2>3, <3>1 DEF NothingFound, At, Show
    <3>3. Replaced(Refreshed(r, Collected(<<>>)), <<>>)
      BY <2>1, NothingIsSeq, RefreshReplaces
    <3>4. {<<>>[i].tool : i \in DOMAIN <<>>} = {}
      OBVIOUS
    <3>5. QED
      BY <3>2, <3>3, <3>4 DEF Replaced
  <2>4. QED
    BY <1>1, <2>1, <2>2, <2>3, RefreshingSteps
<1>2. RoundInv /\ [Next]_vars =>
        [\A r \in Runs : Refreshes(r) =>
           LET mine == {e \in ToSet(surface'[r]) :
                          IsGantry(e) /\ e.name \in KnownNames \ ToSet(Static)}
           IN  /\ {e.tool : e \in mine} \subseteq
                    {found[r][i].tool : i \in DOMAIN found[r]} \cup {Lookup(pin) : pin \in ToSet(Pins)}
               /\ Cardinality(mine) <= TopK + Len(Pins)
               /\ Cardinality(NamesOf(surface'[r])) = Len(surface'[r])]_vars
  BY <1>1
<1>3. QED
  BY RegistryStarts, RegistryStep, RoundStarts, RoundStep, <1>2, PTL DEF Spec, RoundReplacesSelection
-----------------------------------------------------------------------------
(* Approvals on their way through the middleware                           *)

(* A call the framework asks about is invoked with an answer, none has one   *)
(* before, and without the middleware a rejected one is not invoked.        *)
InvokedAnswered(c) ==
  /\ stage[c] = "called" => human[c] = "none"
  /\ stage[c] \in {"invoked", "passed"} =>
       /\ request[c].tool \in Capable => human[c] # "none"
       /\ Guard = {} => human[c] # "rejected"

(* What is past the middleware was not rejected, is approved where its       *)
(* policy's patterns ask, and stays inside the policy's domains.             *)
PassedChecked(c) ==
  stage[c] = "passed" =>
    /\ human[c] # "rejected"
    /\ \A p \in Guard : request[c].tool \in Patterns[p] => human[c] = "approved"
    /\ Guard \cap request[c].barred = {}

RanChecked(c) ==
  result[c] = "ran" =>
    /\ Guarded(request[c].tool) => human[c] = "approved"
    /\ request[c].tool \notin Flagged \cup Patterns[Own]
    /\ request[c].barred \cap (Guard \cup {Own}) = {}

(* Only a call that is done has a result.                                   *)
ResultIsLast(c) == stage[c] # "done" => result[c] = "none"

ApprovalInv ==
  /\ TypeOK
  /\ \A c \in Calls :
       InvokedAnswered(c) /\ PassedChecked(c) /\ RanChecked(c) /\ ResultIsLast(c)
-----------------------------------------------------------------------------
(* Counting a call, or not, leaves the windows natural numbers: the quota of *)
(* check_permission.                                                        *)
LEMMA ChargedTyped ==
  ASSUME TypeOK, NEW p \in Policies, NEW c \in Calls,
         NEW approved \in BOOLEAN, NEW pending \in BOOLEAN, NEW valid \in BOOLEAN,
         Charged(p, c, approved, pending, valid)
  PROVE  window' \in [Policies -> Nat]
BY DEF TypeOK, Charged

(* A step of one call that keeps the requests and moves it among the places *)
(* leaves what is known of the other calls alone.                           *)
LEMMA OthersKept ==
  ASSUME ApprovalInv, NEW c \in Calls, NEW d \in Calls, d # c,
         request' = request, stage'[d] = stage[d], human'[d] = human[d], result'[d] = result[d]
  PROVE  InvokedAnswered(d)' /\ PassedChecked(d)' /\ RanChecked(d)' /\ ResultIsLast(d)'
BY DEF ApprovalInv, InvokedAnswered, PassedChecked, RanChecked, ResultIsLast, Guarded

(* Every call begins unasked and without a result.                          *)
LEMMA ApprovalInit == ASSUME ApprovalAssumption, ReplayInit PROVE ApprovalInv
BY DEF ReplayInit, ApprovalAssumption, ApprovalInv, TypeOK, Places, Answers, Results,
       InvokedAnswered, PassedChecked, RanChecked, ResultIsLast
-----------------------------------------------------------------------------
(* Being asked about takes a call out of the middleware's hands.            *)
LEMMA CallKeeps ==
  ASSUME ApprovalAssumption, ApprovalInv, NEW c \in Calls, Call(c)
  PROVE  ApprovalInv'
<1>1. TypeOK'
  BY DEF ApprovalInv, TypeOK, Call, AsksHuman, Goes, Places, ApprovalAssumption
<1>2. stage' \in [Calls -> Places] /\ (stage'[c] = "asked" \/ stage'[c] = "invoked")
  BY DEF ApprovalInv, TypeOK, Call, AsksHuman, Goes, Places
<1>3. stage'[c] = "invoked" => request[c].tool \notin Capable
  BY DEF ApprovalInv, TypeOK, Call, AsksHuman, Goes, _tool_approval_mode
<1>4. InvokedAnswered(c)' /\ PassedChecked(c)' /\ RanChecked(c)' /\ ResultIsLast(c)'
  BY <1>2, <1>3 DEF ApprovalInv, TypeOK, Call, InvokedAnswered, PassedChecked, RanChecked, ResultIsLast
<1>5. ASSUME NEW d \in Calls, d # c
      PROVE  InvokedAnswered(d)' /\ PassedChecked(d)' /\ RanChecked(d)' /\ ResultIsLast(d)'
  <2>1. stage'[d] = stage[d] BY <1>5 DEF ApprovalInv, TypeOK, Call, AsksHuman, Goes
  <2>2. QED BY <1>5, <2>1, OthersKept DEF Call
<1>6. QED BY <1>1, <1>4, <1>5 DEF ApprovalInv

(* An answer of the human brings the call back, or ends it rejected.        *)
LEMMA ReplayKeeps ==
  ASSUME ApprovalAssumption, ApprovalInv, NEW c \in Calls, Replay(c)
  PROVE  ApprovalInv'
<1>1. PICK answer \in {"approved", "rejected"} :
        /\ human' = [human EXCEPT ![c] = answer]
        /\ IF answer = "rejected" /\ Guard = {} THEN Ends(c, "rejected")
           ELSE Goes(c, "invoked") /\ UNCHANGED result
  BY DEF Replay
<1>2. TypeOK'
  BY <1>1 DEF ApprovalInv, TypeOK, Replay, Ends, Goes, Places, Answers, Results
<1>3. human'[c] = answer /\ answer # "none"
  BY <1>1 DEF ApprovalInv, TypeOK
<1>4. result[c] = "none"
  BY DEF Replay, ApprovalInv, ResultIsLast
<1>5. InvokedAnswered(c)' /\ PassedChecked(c)' /\ RanChecked(c)' /\ ResultIsLast(c)'
  <2>1. CASE answer = "rejected" /\ Guard = {}
    <3>1. stage'[c] = "done" /\ result'[c] = "rejected"
      BY <1>1, <2>1 DEF Ends, Goes, ApprovalInv, TypeOK
    <3>2. QED BY <3>1 DEF InvokedAnswered, PassedChecked, RanChecked, ResultIsLast
  <2>2. CASE ~ (answer = "rejected" /\ Guard = {})
    <3>1. stage'[c] = "invoked" /\ result'[c] = "none"
      BY <1>1, <1>4, <2>2 DEF Goes, ApprovalInv, TypeOK
    <3>2. QED
      BY <1>3, <2>2, <3>1 DEF InvokedAnswered, PassedChecked, RanChecked, ResultIsLast
  <2>3. QED BY <2>1, <2>2
<1>6. ASSUME NEW d \in Calls, d # c
      PROVE  InvokedAnswered(d)' /\ PassedChecked(d)' /\ RanChecked(d)' /\ ResultIsLast(d)'
  <2>1. stage'[d] = stage[d] /\ human'[d] = human[d] /\ result'[d] = result[d]
    BY <1>1, <1>6 DEF ApprovalInv, TypeOK, Ends, Goes
  <2>2. QED BY <1>6, <2>1, OthersKept DEF Replay
<1>7. QED BY <1>2, <1>5, <1>6 DEF ApprovalInv

(* Without the middleware an invoked call was not rejected.                 *)
LEMMA NoMiddlewareKeeps ==
  ASSUME ApprovalAssumption, ApprovalInv, NEW c \in Calls, NoMiddleware(c)
  PROVE  ApprovalInv'
<1>1. TypeOK'
  BY DEF ApprovalInv, TypeOK, NoMiddleware, Goes, Places
<1>2. stage'[c] = "passed" /\ result[c] = "none" /\ human[c] # "rejected"
  BY DEF ApprovalInv, TypeOK, NoMiddleware, Goes, InvokedAnswered, ResultIsLast
<1>3. InvokedAnswered(c)' /\ PassedChecked(c)' /\ RanChecked(c)' /\ ResultIsLast(c)'
  BY <1>2 DEF NoMiddleware, ApprovalInv, InvokedAnswered, PassedChecked, RanChecked, ResultIsLast
<1>4. ASSUME NEW d \in Calls, d # c
      PROVE  InvokedAnswered(d)' /\ PassedChecked(d)' /\ RanChecked(d)' /\ ResultIsLast(d)'
  <2>1. stage'[d] = stage[d] BY <1>4 DEF ApprovalInv, TypeOK, NoMiddleware, Goes
  <2>2. QED BY <1>4, <2>1, OthersKept DEF NoMiddleware
<1>5. QED BY <1>1, <1>3, <1>4 DEF ApprovalInv

(* A rejected call ends without running.                                    *)
LEMMA HonoursRejectionKeeps ==
  ASSUME ApprovalAssumption, ApprovalInv, NEW c \in Calls, HonoursRejection(c)
  PROVE  ApprovalInv'
<1>1. TypeOK'
  BY DEF ApprovalInv, TypeOK, HonoursRejection, Ends, Goes, Places, Results
<1>2. stage'[c] = "done" /\ result'[c] = "rejected"
  BY DEF ApprovalInv, TypeOK, HonoursRejection, Ends, Goes
<1>3. InvokedAnswered(c)' /\ PassedChecked(c)' /\ RanChecked(c)' /\ ResultIsLast(c)'
  BY <1>2 DEF InvokedAnswered, PassedChecked, RanChecked, ResultIsLast
<1>4. ASSUME NEW d \in Calls, d # c
      PROVE  InvokedAnswered(d)' /\ PassedChecked(d)' /\ RanChecked(d)' /\ ResultIsLast(d)'
  <2>1. stage'[d] = stage[d] /\ result'[d] = result[d]
    BY <1>4 DEF ApprovalInv, TypeOK, HonoursRejection, Ends, Goes
  <2>2. QED BY <1>4, <2>1, OthersKept DEF HonoursRejection
<1>5. QED BY <1>1, <1>3, <1>4 DEF ApprovalInv

(* What the middleware's policy grants is approved where its patterns ask,   *)
(* and inside its domains.                                                  *)
LEMMA GrantedChecked ==
  ASSUME NEW p \in Policies, NEW c \in Calls, NEW approved,
         Verdict(p, c, approved) = "granted"
  PROVE  /\ request[c].tool \in Patterns[p] => approved
         /\ p \notin request[c].barred
BY DEF Verdict, Confirms

(* The middleware asks for approval, denies or passes the call on.         *)
LEMMA ProcessKeeps ==
  ASSUME ApprovalAssumption, ApprovalInv, NEW c \in Calls, Process(c)
  PROVE  ApprovalInv'
<1>1. PICK p \in Guard :
        /\ RequestsApproval(p, c) \/ Denies(p, c) \/ Passes(p, c)
        /\ Charged(p, c, Told(p, c), FALSE, TRUE)
  BY DEF Process
<1>2. p \in Policies /\ Guard = {p}
  BY DEF ApprovalAssumption
<1>3. Told(p, c) \in BOOLEAN
  BY DEF Told
<1>4. window' \in [Policies -> Nat]
  BY <1>1, <1>2, <1>3, ChargedTyped DEF ApprovalInv
<1>5. request' = request /\ human' = human /\ human[c] # "rejected" /\ result[c] = "none"
  BY DEF Process, ApprovalInv, ResultIsLast
<1>6. TypeOK'
  BY <1>1, <1>4, <1>5 DEF ApprovalInv, TypeOK, RequestsApproval, AsksHuman, Denies, Passes,
     Ends, Goes, Places, Results, ApprovalAssumption
<1>7. InvokedAnswered(c)' /\ PassedChecked(c)' /\ RanChecked(c)' /\ ResultIsLast(c)'
  <2>1. CASE RequestsApproval(p, c)
    <3>1. stage'[c] = "asked" /\ result'[c] = "none"
      BY <1>5, <2>1 DEF RequestsApproval, AsksHuman, Goes, ApprovalInv, TypeOK
    <3>2. QED BY <3>1 DEF InvokedAnswered, PassedChecked, RanChecked, ResultIsLast
  <2>2. CASE Denies(p, c)
    <3>1. stage'[c] = "done" /\ result'[c] = "denied"
      BY <2>2 DEF Denies, Ends, Goes, ApprovalInv, TypeOK
    <3>2. QED BY <3>1 DEF InvokedAnswered, PassedChecked, RanChecked, ResultIsLast
  <2>3. CASE Passes(p, c)
    <3>1. stage'[c] = "passed" /\ result'[c] = "none" /\ stage[c] = "invoked"
      BY <1>5, <2>3 DEF Passes, Goes, ApprovalInv, TypeOK, Process
    <3>2. /\ request[c].tool \in Patterns[p] => human[c] = "approved"
          /\ p \notin request[c].barred
      BY <1>2, <2>3, GrantedChecked DEF Passes, Told
    <3>3. QED
      BY <1>2, <1>5, <3>1, <3>2
      DEF ApprovalInv, InvokedAnswered, PassedChecked, RanChecked, ResultIsLast
  <2>4. QED BY <1>1, <2>1, <2>2, <2>3
<1>8. ASSUME NEW d \in Calls, d # c
      PROVE  InvokedAnswered(d)' /\ PassedChecked(d)' /\ RanChecked(d)' /\ ResultIsLast(d)'
  <2>1. stage'[d] = stage[d] /\ result'[d] = result[d]
    BY <1>1, <1>8 DEF ApprovalInv, TypeOK, RequestsApproval, AsksHuman, Denies, Passes, Ends, Goes
  <2>2. QED BY <1>5, <1>8, <2>1, OthersKept
<1>9. QED BY <1>6, <1>7, <1>8 DEF ApprovalInv

(* The engine runs what its own policy grants unapproved.                    *)
LEMMA ExecuteKeeps ==
  ASSUME ApprovalAssumption, ApprovalInv, NEW c \in Calls, Execute(c)
  PROVE  ApprovalInv'
<1>1. request' = request /\ human' = human /\ stage[c] = "passed" /\ Own \in Policies
  BY DEF Execute, ApprovalAssumption
<1>2. request[c].valid \in BOOLEAN
  BY DEF ApprovalInv, TypeOK, Requests
<1>3. window' \in [Policies -> Nat]
  <2>1. (request[c].valid /\ _needs_confirmation(c)) \in BOOLEAN
    BY <1>2 DEF _needs_confirmation
  <2>2. ToolCall_approved \in BOOLEAN
    BY DEF ToolCall_approved
  <2>3. QED BY <1>1, <1>2, <2>1, <2>2, ChargedTyped DEF Execute, ApprovalInv
<1>4. \E r \in {"denied", "invalid", "pending", "ran"} : Ends(c, r)
  BY DEF Execute, EngineDenies, EngineRejects, EngineStops, EngineRuns
<1>5. TypeOK'
  BY <1>1, <1>3, <1>4 DEF ApprovalInv, TypeOK, Execute, Ends, Goes, Places, Results
<1>6. stage'[c] = "done"
  BY <1>4 DEF Ends, Goes, ApprovalInv, TypeOK
<1>7. RanChecked(c)'
  <2>1. CASE EngineRuns(c)
    <3>1. /\ request[c].tool \notin Patterns[Own]
          /\ Own \notin request[c].barred
      BY <1>1, <2>1, GrantedChecked DEF EngineRuns, EngineVerdict, ToolCall_approved
    <3>2. request[c].tool \notin Flagged
      BY <2>1 DEF EngineRuns, _needs_confirmation
    <3>3. Guarded(request[c].tool) => human[c] = "approved"
      BY <1>1 DEF ApprovalInv, TypeOK, Answers, PassedChecked, InvokedAnswered, Guarded
    <3>4. Guard \cap request[c].barred = {}
      BY <1>1 DEF ApprovalInv, PassedChecked
    <3>5. QED BY <1>1, <3>1, <3>2, <3>3, <3>4 DEF RanChecked, Guarded
  <2>2. CASE ~ EngineRuns(c)
    <3>1. result'[c] # "ran"
      BY <2>2 DEF Execute, EngineDenies, EngineRejects, EngineStops, Ends, ApprovalInv, TypeOK
    <3>2. QED BY <3>1 DEF RanChecked
  <2>3. QED BY <2>1, <2>2
<1>8. InvokedAnswered(c)' /\ PassedChecked(c)' /\ ResultIsLast(c)'
  BY <1>6 DEF InvokedAnswered, PassedChecked, ResultIsLast
<1>9. ASSUME NEW d \in Calls, d # c
      PROVE  InvokedAnswered(d)' /\ PassedChecked(d)' /\ RanChecked(d)' /\ ResultIsLast(d)'
  <2>1. stage'[d] = stage[d] /\ result'[d] = result[d]
    BY <1>4, <1>9 DEF ApprovalInv, TypeOK, Ends, Goes
  <2>2. QED BY <1>1, <1>9, <2>1, OthersKept
<1>10. QED BY <1>5, <1>7, <1>8, <1>9 DEF ApprovalInv

(* The clock changes no call.                                              *)
LEMMA ElapseKeeps ==
  ASSUME ApprovalAssumption, ApprovalInv, NEW p \in Policies, Elapse(p)
  PROVE  ApprovalInv'
<1>1. TypeOK'
  <2>1. PICK n \in 0 .. window[p] - 1 : window' = [window EXCEPT ![p] = n]
    BY DEF Elapse
  <2>2. n \in Nat BY DEF ApprovalInv, TypeOK
  <2>3. QED BY <2>1, <2>2 DEF Elapse, ApprovalInv, TypeOK
<1>2. QED
  BY <1>1 DEF Elapse, ApprovalInv, InvokedAnswered, PassedChecked, RanChecked, ResultIsLast, Guarded

(* Nothing happening breaks nothing.                                       *)
LEMMA StutterKeeps == ASSUME ApprovalInv, UNCHANGED replayVars PROVE ApprovalInv'
BY DEF replayVars, ApprovalInv, TypeOK, InvokedAnswered, PassedChecked, RanChecked, ResultIsLast, Guarded
-----------------------------------------------------------------------------
(* The invariant holds of every reachable state, for constants as the model *)
(* means them: no step of the framework, the middleware, the engine or the  *)
(* clock breaks it.                                                         *)
THEOREM ApprovalsInvariant ==
  ASSUME ApprovalAssumption PROVE ReplaySpec => []ApprovalInv
<1>1. ReplayInit => ApprovalInv
  BY ApprovalInit, ApprovalAssumption
<1>2. ApprovalInv /\ [ReplayNext]_replayVars => ApprovalInv'
  <2>1. SUFFICES ASSUME ApprovalInv, [ReplayNext]_replayVars PROVE ApprovalInv' OBVIOUS
  <2>2. ASSUME NEW c \in Calls, Call(c) PROVE ApprovalInv'
    BY <2>1, <2>2, CallKeeps, ApprovalAssumption
  <2>3. ASSUME NEW c \in Calls, Replay(c) PROVE ApprovalInv'
    BY <2>1, <2>3, ReplayKeeps, ApprovalAssumption
  <2>4. ASSUME NEW c \in Calls, NoMiddleware(c) PROVE ApprovalInv'
    BY <2>1, <2>4, NoMiddlewareKeeps, ApprovalAssumption
  <2>5. ASSUME NEW c \in Calls, HonoursRejection(c) PROVE ApprovalInv'
    BY <2>1, <2>5, HonoursRejectionKeeps, ApprovalAssumption
  <2>6. ASSUME NEW c \in Calls, Process(c) PROVE ApprovalInv'
    BY <2>1, <2>6, ProcessKeeps, ApprovalAssumption
  <2>7. ASSUME NEW c \in Calls, Execute(c) PROVE ApprovalInv'
    BY <2>1, <2>7, ExecuteKeeps, ApprovalAssumption
  <2>8. ASSUME NEW p \in Policies, Elapse(p) PROVE ApprovalInv'
    BY <2>1, <2>8, ElapseKeeps, ApprovalAssumption
  <2>9. QED
    BY <2>1, <2>2, <2>3, <2>4, <2>5, <2>6, <2>7, <2>8, StutterKeeps DEF ReplayNext
<1>3. QED BY <1>1, <1>2, PTL DEF ReplaySpec

(* Nothing that the framework or the middleware asks a human about runs       *)
(* without approval, and nothing that the engine would ask about runs at all *)
(* through the wrapper, for any policies, quotas and number of calls.         *)
THEOREM ApprovalRequired ==
  ASSUME ApprovalAssumption PROVE ReplaySpec => []NoUnapprovedRun
<1>1. ApprovalInv => NoUnapprovedRun
  BY DEF ApprovalInv, RanChecked, NoUnapprovedRun
<1>2. QED BY <1>1, ApprovalsInvariant, PTL

(* A human's approval never gets a call past allowed_domains, neither those   *)
(* of the middleware's policy nor the gantry's.                              *)
THEOREM DenialsStand ==
  ASSUME ApprovalAssumption PROVE ReplaySpec => []ApprovalLiftsNoDenial
<1>1. ApprovalInv => ApprovalLiftsNoDenial
  BY DEF ApprovalInv, RanChecked, ApprovalLiftsNoDenial
<1>2. QED BY <1>1, ApprovalsInvariant, PTL
=============================================================================
