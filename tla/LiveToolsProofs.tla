---------------------------- MODULE LiveToolsProofs ----------------------------
(***************************************************************************)
(* LiveTools for any tools, pins, runs and bounds, in every framework: what*)
(* a model is shown, what stays of earlier turns, and where its calls go.  *)
(*                                                                         *)
(* The arguments.  Pins: a pin that was added stays present, so that after *)
(* the fold every pin that names a tool is.  Surfaces: what Strands'       *)
(* registry holds is what it last activated, so that nothing outlives a    *)
(* swap.  Calls: a run nobody has disturbed has been shown the dictionary  *)
(* as it is; LangGraph shows only names its ToolNode knows; and where only *)
(* a name travels, the registry's index leads to some tool of that name as *)
(* long as one is registered.                                              *)
(***************************************************************************)
EXTENDS LiveTools, FiniteSetTheorems, WellFoundedInduction, TLAPS

-----------------------------------------------------------------------------
(* Sequences of tools                                                      *)

LEMMA LeastNatural ==
  ASSUME NEW T \in SUBSET Nat, T # {}
  PROVE  \E n \in T : \A m \in T : n <= m
<1> DEFINE R == {p \in Nat \X Nat : p[1] < p[2]}
<1>1. IsWellFoundedOn(R, Nat)
  BY NatLessThanWellFounded DEF OpToRel
<1>2. \A m, n \in Nat : <<m, n>> \in R <=> m < n
  OBVIOUS
<1> HIDE DEF R
<1>3. \E n \in T : \A m \in T : ~ (<<m, n>> \in R)
  BY <1>1, WFMin
<1>4. PICK n \in T : \A m \in T : ~ (<<m, n>> \in R)
  BY <1>3
<1>5. ASSUME NEW m \in T PROVE n <= m
  <2>1. ~ (m < n)
    BY <1>2, <1>4
  <2>2. QED
    BY <2>1
<1>6. QED
  BY <1>5

LEMMA GreatestBelow ==
  ASSUME NEW N \in Nat, NEW T \in SUBSET (1 .. N), T # {}
  PROVE  \E n \in T : \A m \in T : m <= n
<1> DEFINE U == {N - m : m \in T}
<1>1. U \in SUBSET Nat /\ U # {}
  <2>1. ASSUME NEW m \in T PROVE N - m \in Nat
    <3>1. m \in 1 .. N
      OBVIOUS
    <3>2. QED
      BY <3>1
  <2>2. QED
    BY <2>1
<1> HIDE DEF U
<1>2. PICK u \in U : \A v \in U : u <= v
  BY <1>1, LeastNatural
<1>3. PICK n \in T : u = N - n
  BY <1>2 DEF U
<1>4. ASSUME NEW m \in T PROVE m <= n
  <2>1. N - m \in U
    BY DEF U
  <2>2. N - n <= N - m
    BY <1>2, <1>3, <2>1
  <2>3. QED
    BY <2>2
<1>5. QED
  BY <1>4

(* A dictionary of a sequence's tools has all their names.                 *)
LEMMA LastOfEachNameHas ==
  ASSUME NEW s \in Seq(Tools)
  PROVE  /\ LastOfEachName(s) \subseteq Range(s)
         /\ NamesIn(LastOfEachName(s)) = NamesIn(Range(s))
<1>1. DOMAIN s = 1 .. Len(s) /\ Len(s) \in Nat
  OBVIOUS
<1>2. LastOfEachName(s) \subseteq Range(s)
  BY DEF LastOfEachName, Range
<1>3. ASSUME NEW i \in 1 .. Len(s)
      PROVE  \E t \in LastOfEachName(s) : t.name = s[i].name
  <2> DEFINE T == {j \in 1 .. Len(s) : s[j].name = s[i].name}
  <2>1. T \in SUBSET (1 .. Len(s)) /\ T # {}
    OBVIOUS
  <2> HIDE DEF T
  <2>2. PICK k \in T : \A j \in T : j <= k
    BY <1>1, <2>1, GreatestBelow
  <2>3. k \in 1 .. Len(s) /\ s[k].name = s[i].name
    BY <2>2 DEF T
  <2>4. ASSUME NEW j \in DOMAIN s, j > k PROVE s[j].name # s[k].name
    <3>1. j \notin T
      BY <1>1, <2>2, <2>3, <2>4
    <3>2. QED
      BY <1>1, <2>3, <3>1 DEF T
  <2>5. s[k] \in LastOfEachName(s)
    BY <1>1, <2>3, <2>4 DEF LastOfEachName
  <2>6. QED
    BY <2>3, <2>5
<1>4. NamesIn(Range(s)) \subseteq NamesIn(LastOfEachName(s))
  BY <1>1, <1>3 DEF NamesIn, Range
<1>5. QED
  BY <1>2, <1>4 DEF NamesIn

LEMMA RangeIsTools ==
  ASSUME NEW s \in Seq(Tools)
  PROVE  Range(s) \subseteq Tools
<1> SUFFICES ASSUME NEW t \in Range(s) PROVE t \in Tools
  OBVIOUS
<1>1. PICK i \in DOMAIN s : t = s[i]
  BY DEF Range
<1>2. QED
  BY <1>1

LEMMA RangeOfAppended ==
  ASSUME NEW s \in Seq(Tools), NEW t \in Tools
  PROVE  Append(s, t) \in Seq(Tools) /\ Range(Append(s, t)) = Range(s) \cup {t}
<1> DEFINE a == Append(s, t)
<1>1. /\ a \in Seq(Tools) /\ DOMAIN a = 1 .. Len(s) + 1 /\ Len(s) \in Nat
      /\ DOMAIN s = 1 .. Len(s)
      /\ \A i \in 1 .. Len(s) : a[i] = s[i]
      /\ a[Len(s) + 1] = t
  OBVIOUS
<1> HIDE DEF a
<1>2. Range(a) \subseteq Range(s) \cup {t}
  BY <1>1 DEF Range
<1>3. Range(s) \subseteq Range(a)
  BY <1>1 DEF Range
<1>4. t \in Range(a)
  BY <1>1 DEF Range
<1>5. QED
  BY <1>1, <1>2, <1>3, <1>4 DEF a

LEMMA EmptySelection == <<>> \in Seq(Tools) /\ Range(<<>>) = {}
BY DEF Range

-----------------------------------------------------------------------------
(* The registry: what a search by name finds                               *)

LEMMA FirstNamedFinds ==
  ASSUME NEW s \in Seq(Tools), NEW n
  PROVE  \/ FirstNamed(s, n) \in Range(s) /\ FirstNamed(s, n).name = n
         \/ FirstNamed(s, n) = NoTool /\ \A t \in Range(s) : t.name # n
<1> DEFINE named == {i \in DOMAIN s : s[i].name = n}
<1>1. DOMAIN s = 1 .. Len(s)
  OBVIOUS
<1>2. FirstNamed(s, n) = IF named = {} THEN NoTool ELSE s[Min(named)]
  BY DEF FirstNamed
<1>3. CASE named = {}
  BY <1>2, <1>3 DEF Range
<1>4. CASE named # {}
  <2>1. named \in SUBSET Nat
    BY <1>1
  <2>2. \E i \in named : \A j \in named : i <= j
    <3> HIDE DEF named
    <3>1. QED
      BY <1>4, <2>1, LeastNatural
  <2>3. Min(named) \in named
    <3> HIDE DEF named
    <3>1. QED
      BY <2>2 DEF Min
  <2>4. QED
    BY <1>2, <1>4, <2>3 DEF Range
<1>5. QED
  BY <1>3, <1>4

(* What the calls rely on: `order` is the registered tools, and the index  *)
(* has somebody for a name as long as there is one.                        *)
NoRepeats(s) == \A i, j \in 1 .. Len(s) : s[i] = s[j] => i = j

Answered(n) ==
  \/ index[n] \in Range(order) /\ index[n].name = n
  \/ index[n] = NoTool /\ \A t \in Range(order) : t.name # n

RegistryInv ==
  /\ order \in Seq(Tools) /\ NoRepeats(order)
  /\ DOMAIN defined = Tools
  /\ \A t \in Tools : Registered(t) <=> t \in Range(order)
  /\ DOMAIN index = Names
  /\ \A n \in Names : Answered(n)

LEMMA RegisterKeeps ==
  ASSUME RegistryInv, NEW t \in Tools, ~ Registered(t), RegisterTool(t, 1)
  PROVE  RegistryInv'
<1>1. /\ order \in Seq(Tools) /\ NoRepeats(order) /\ DOMAIN defined = Tools
      /\ \A u \in Tools : Registered(u) <=> u \in Range(order)
      /\ DOMAIN index = Names /\ \A n \in Names : Answered(n)
  BY DEF RegistryInv
<1>2. t.name \in Names /\ NoTool \notin Tools
  BY RegistryAssumption DEF Names
<1>3. /\ defined' = [defined EXCEPT ![t] = 1]
      /\ order' = Append(order, t)
      /\ index' = IF index[t.name] = NoTool THEN [index EXCEPT ![t.name] = t] ELSE index
  BY DEF RegisterTool
<1>4. order' \in Seq(Tools) /\ Range(order') = Range(order) \cup {t}
  BY <1>1, <1>3, RangeOfAppended
<1>5. /\ Len(order') = Len(order) + 1 /\ Len(order) \in Nat
      /\ \A i \in 1 .. Len(order) : order'[i] = order[i] /\ order'[i] # t
      /\ order'[Len(order) + 1] = t
  <2>1. t \notin Range(order) /\ DOMAIN order = 1 .. Len(order)
    BY <1>1
  <2>2. QED
    BY <1>1, <1>3, <2>1 DEF Range
<1>6. NoRepeats(order')
  <2>1. SUFFICES ASSUME NEW i \in 1 .. Len(order) + 1, NEW j \in 1 .. Len(order) + 1,
                        order'[i] = order'[j]
                 PROVE  i = j
    BY <1>5 DEF NoRepeats
  <2>2. CASE i \in 1 .. Len(order) /\ j \in 1 .. Len(order)
    <3>1. order[i] = order[j]
      BY <1>5, <2>1, <2>2
    <3>2. QED
      BY <1>1, <2>2, <3>1 DEF NoRepeats
  <2>3. CASE i = Len(order) + 1 /\ j \in 1 .. Len(order)
    BY <1>5, <2>1, <2>3
  <2>4. CASE i \in 1 .. Len(order) /\ j = Len(order) + 1
    BY <1>5, <2>1, <2>4
  <2>5. QED
    BY <1>5, <2>2, <2>3, <2>4
<1>7. DOMAIN defined' = Tools /\ DOMAIN index' = Names
  BY <1>1, <1>3
<1>8. \A u \in Tools : Registered(u)' <=> u \in Range(order')
  BY <1>1, <1>3, <1>4 DEF Registered
<1>9. \A n \in Names : Answered(n)'
  <2>1. SUFFICES ASSUME NEW n \in Names
                 PROVE  \/ index'[n] \in Range(order') /\ index'[n].name = n
                        \/ index'[n] = NoTool /\ \A u \in Range(order') : u.name # n
    BY DEF Answered
  <2>2. Range(order) \subseteq Tools
    BY <1>1, RangeIsTools
  <2>3. \/ index[n] \in Range(order) /\ index[n].name = n
        \/ index[n] = NoTool /\ \A u \in Range(order) : u.name # n
    BY <1>1 DEF Answered
  <2>4. index'[n] = IF n = t.name /\ index[n] = NoTool THEN t ELSE index[n]
    BY <1>1, <1>3
  <2>5. CASE n = t.name /\ index[n] = NoTool
    BY <1>4, <2>4, <2>5
  <2>6. CASE ~ (n = t.name /\ index[n] = NoTool)
    BY <1>2, <1>4, <2>2, <2>3, <2>4, <2>6
  <2>7. QED
    BY <2>5, <2>6
<1>10. QED
  BY <1>4, <1>6, <1>7, <1>8, <1>9 DEF RegistryInv

(* Without one of its tools a registry is the others.                      *)
LEMMA WithoutOne ==
  ASSUME NEW s \in Seq(Tools), NoRepeats(s), NEW t \in Range(s)
  PROVE  /\ RemoveFirst(s, t) \in Seq(Tools)
         /\ NoRepeats(RemoveFirst(s, t))
         /\ Range(RemoveFirst(s, t)) = Range(s) \ {t}
<1>1. Len(s) \in Nat /\ DOMAIN s = 1 .. Len(s)
  OBVIOUS
<1>2. PICK p \in 1 .. Len(s) : s[p] = t
  BY <1>1 DEF Range
<1> DEFINE a == SubSeq(s, 1, p - 1)
           b == SubSeq(s, p + 1, Len(s))
           rest == RemoveFirst(s, t)
<1>3. rest = a \o b
  <2>1. {i \in 1 .. Len(s) : s[i] = t} = {p}
    BY <1>2 DEF NoRepeats
  <2>2. Min({p}) = p
    BY DEF Min
  <2>3. SelectInSeq(s, LAMBDA v : v = t) = p
    BY <2>1, <2>2 DEF SelectInSeq
  <2>4. QED
    BY <1>2, <2>3 DEF RemoveFirst, RemoveAt
<1>4. p \in Nat /\ 1 <= p /\ p <= Len(s)
  BY <1>1, <1>2
<1>5. /\ a \in Seq(Tools) /\ Len(a) = p - 1
      /\ \A i \in 1 .. p - 1 : a[i] = s[i]
  BY <1>1, <1>4
<1>6. /\ b \in Seq(Tools) /\ Len(b) = Len(s) - p
      /\ \A i \in 1 .. Len(s) - p : b[i] = s[p + i]
  <2>1. p + 1 \in 1 .. Len(s) + 1 /\ Len(s) - (p + 1) + 1 = Len(s) - p
    BY <1>1, <1>4
  <2>2. b \in Seq(Tools) /\ Len(b) = Len(s) - p
    <3>1. b \in Seq(Tools)
      BY <1>4
    <3>2. Len(b) = IF p + 1 <= Len(s) THEN Len(s) - (p + 1) + 1 ELSE 0
      BY <1>1, <1>4
    <3>3. Len(s) \in Nat
      BY <1>1
    <3> HIDE DEF b
    <3>4. Len(b) = Len(s) - p
      BY <1>4, <3>2, <3>3
    <3>5. QED
      BY <3>1, <3>4
  <2>3. ASSUME NEW i \in 1 .. Len(s) - p PROVE b[i] = s[p + i]
    <3>1. b[i] = s[(p + 1) + i - 1]
      BY <1>1, <1>4
    <3>2. (p + 1) + i - 1 = p + i
      BY <1>1, <1>4
    <3>3. QED
      BY <3>1, <3>2
  <2>4. QED
    BY <2>2, <2>3
<1> HIDE DEF a, b, rest
<1>7. rest \in Seq(Tools) /\ Len(rest) = Len(s) - 1
  <2>1. a \in Seq(Tools) /\ b \in Seq(Tools)
    BY <1>5, <1>6
  <2>2. (a \o b) \in Seq(Tools) /\ Len(a \o b) = Len(a) + Len(b)
    BY <2>1
  <2>3. QED
    BY <1>1, <1>3, <1>4, <1>5, <1>6, <2>2
<1>8. ASSUME NEW i \in 1 .. Len(s) - 1
      PROVE  rest[i] = IF i < p THEN s[i] ELSE s[i + 1]
  <2>1. CASE i < p
    <3>1. i \in 1 .. Len(a) /\ i \in 1 .. p - 1
      BY <1>1, <1>4, <1>5, <2>1
    <3>2. (a \o b)[i] = a[i]
      BY <1>5, <1>6, <3>1
    <3>3. QED
      BY <1>3, <1>5, <2>1, <3>1, <3>2
  <2>2. CASE ~ (i < p)
    <3>1. /\ i \in Len(a) + 1 .. Len(a) + Len(b)
          /\ i - (p - 1) \in 1 .. Len(s) - p /\ p + (i - (p - 1)) = i + 1
      BY <1>1, <1>4, <1>5, <1>6, <2>2
    <3>2. (a \o b)[i] = b[i - (p - 1)]
      BY <1>1, <1>4, <1>5, <1>6, <3>1
    <3>3. b[i - (p - 1)] = s[i + 1]
      BY <1>6, <3>1
    <3>4. QED
      BY <1>3, <2>2, <3>2, <3>3
  <2>3. QED
    BY <2>1, <2>2
<1>9. NoRepeats(rest)
  <2>1. SUFFICES ASSUME NEW i \in 1 .. Len(s) - 1, NEW j \in 1 .. Len(s) - 1, rest[i] = rest[j]
                 PROVE  i = j
    BY <1>7 DEF NoRepeats
  <2> DEFINE I == IF i < p THEN i ELSE i + 1
             J == IF j < p THEN j ELSE j + 1
  <2>2. I \in 1 .. Len(s) /\ J \in 1 .. Len(s) /\ rest[i] = s[I] /\ rest[j] = s[J]
    BY <1>1, <1>4, <1>8
  <2>3. I = J
    BY <2>1, <2>2 DEF NoRepeats
  <2>4. QED
    BY <1>4, <2>3
<1>10. Range(rest) \subseteq Range(s) \ {t}
  <2>1. SUFFICES ASSUME NEW i \in 1 .. Len(s) - 1 PROVE rest[i] \in Range(s) /\ rest[i] # t
    BY <1>7 DEF Range
  <2> DEFINE I == IF i < p THEN i ELSE i + 1
  <2>2. I \in 1 .. Len(s) /\ rest[i] = s[I] /\ I # p
    BY <1>1, <1>4, <1>8
  <2>3. QED
    BY <1>1, <1>2, <2>2 DEF NoRepeats, Range
<1>11. Range(s) \ {t} \subseteq Range(rest)
  <2>1. SUFFICES ASSUME NEW k \in 1 .. Len(s), s[k] # t PROVE s[k] \in Range(rest)
    BY <1>1 DEF Range
  <2> DEFINE i == IF k < p THEN k ELSE k - 1
  <2>2. k # p
    BY <1>2, <2>1
  <2>3. i \in 1 .. Len(s) - 1 /\ rest[i] = s[k]
    BY <1>1, <1>4, <1>8, <2>2
  <2>4. QED
    BY <1>7, <2>3 DEF Range
<1>12. QED
  BY <1>7, <1>9, <1>10, <1>11 DEF rest

LEMMA UnregisterKeeps ==
  ASSUME RegistryInv, NEW t \in Tools, UnregisterTool(t)
  PROVE  RegistryInv'
<1>1. /\ order \in Seq(Tools) /\ NoRepeats(order) /\ DOMAIN defined = Tools
      /\ \A u \in Tools : Registered(u) <=> u \in Range(order)
      /\ DOMAIN index = Names /\ \A n \in Names : Answered(n)
  BY DEF RegistryInv
<1>2. t.name \in Names /\ NoTool \notin Tools
  BY RegistryAssumption DEF Names
<1>3. /\ t \in Range(order)
      /\ defined' = [defined EXCEPT ![t] = 0]
      /\ order' = RemoveFirst(order, t)
      /\ index' = IF index[t.name] # t THEN index
                  ELSE [index EXCEPT ![t.name] = FirstNamed(order', t.name)]
  BY <1>1 DEF UnregisterTool, Unindexed
<1>4. order' \in Seq(Tools) /\ NoRepeats(order') /\ Range(order') = Range(order) \ {t}
  BY <1>1, <1>3, WithoutOne
<1>5. DOMAIN defined' = Tools /\ DOMAIN index' = Names
  BY <1>1, <1>3
<1>6. \A u \in Tools : Registered(u)' <=> u \in Range(order')
  BY <1>1, <1>3, <1>4 DEF Registered
<1>7. \A n \in Names : Answered(n)'
  <2>1. SUFFICES ASSUME NEW n \in Names
                 PROVE  \/ index'[n] \in Range(order') /\ index'[n].name = n
                        \/ index'[n] = NoTool /\ \A u \in Range(order') : u.name # n
    BY DEF Answered
  <2>2. \/ index[n] \in Range(order) /\ index[n].name = n
        \/ index[n] = NoTool /\ \A u \in Range(order) : u.name # n
    BY <1>1 DEF Answered
  <2>3. CASE n = t.name /\ index[n] = t
    <3>1. index'[n] = FirstNamed(order', n)
      BY <1>1, <1>3, <2>3
    <3>2. QED
      BY <1>4, <3>1, FirstNamedFinds
  <2>4. CASE ~ (n = t.name /\ index[n] = t)
    <3>1. index'[n] = index[n]
      BY <1>1, <1>3, <2>4
    <3>2. index[n] = t => index[n].name # n
      BY <2>4
    <3>3. QED
      BY <1>2, <1>4, <2>2, <3>1, <3>2
  <2>5. QED
    BY <2>3, <2>4
<1>8. QED
  BY <1>4, <1>5, <1>6, <1>7 DEF RegistryInv

-----------------------------------------------------------------------------
(* Pins                                                                    *)

Pins == Required \o AlwaysInclude

LEMMA PinsType ==
  /\ Pins \in Seq(Range(Required) \cup Range(AlwaysInclude))
  /\ Len(Pins) \in Nat /\ DOMAIN Pins = 1 .. Len(Pins)
  /\ DOMAIN Required \subseteq DOMAIN Pins
  /\ \A i \in DOMAIN Required : Pins[i] = Required[i]
<1> DEFINE S == Range(Required) \cup Range(AlwaysInclude)
<1>1. Required \in Seq(S) /\ AlwaysInclude \in Seq(S)
  BY LiveAssumption
<1> HIDE DEF S
<1>2. QED
  BY <1>1 DEF Pins, S

(* The fold over the first m pins, as far as it depends on nothing else.   *)
Folds(g, s, m) ==
  g = [S \in SUBSET (1 .. m) |->
         IF S = {} THEN s ELSE AddPin(g[S \ {Max(S)}], Pins[Max(S)])]

LEMMA MaxOfInterval ==
  ASSUME NEW m \in Nat, NEW S \in SUBSET (1 .. m + 1), m + 1 \in S
  PROVE  Max(S) = m + 1
<1>1. m + 1 \in S /\ \A y \in S : m + 1 >= y
  OBVIOUS
<1>2. Max(S) \in S /\ \A y \in S : Max(S) >= y
  BY <1>1 DEF Max
<1>3. Max(S) \in 1 .. m + 1 /\ Max(S) >= m + 1
  BY <1>2
<1>4. QED
  BY <1>3

LEMMA NextFold ==
  ASSUME NEW s, NEW m \in Nat, NEW f, Folds(f, s, m)
  PROVE  \E g : Folds(g, s, m + 1)
<1> DEFINE g == [S \in SUBSET (1 .. m + 1) |->
                   IF m + 1 \in S THEN AddPin(f[S \ {m + 1}], Pins[m + 1]) ELSE f[S]]
<1>1. /\ \A S \in SUBSET (1 .. m + 1) : m + 1 \notin S => S \in SUBSET (1 .. m)
      /\ SUBSET (1 .. m) \subseteq SUBSET (1 .. m + 1)
  OBVIOUS
<1>2. \A S \in SUBSET (1 .. m) : g[S] = f[S]
  BY <1>1
<1>3. \A S \in SUBSET (1 .. m) :
         f[S] = IF S = {} THEN s ELSE AddPin(f[S \ {Max(S)}], Pins[Max(S)])
  BY DEF Folds
<1>4. ASSUME NEW S \in SUBSET (1 .. m + 1)
      PROVE  g[S] = IF S = {} THEN s ELSE AddPin(g[S \ {Max(S)}], Pins[Max(S)])
  <2>1. CASE m + 1 \in S
    <3>1. Max(S) = m + 1
      BY <2>1, MaxOfInterval
    <3>2. S \ {m + 1} \in SUBSET (1 .. m)
      OBVIOUS
    <3>3. g[S] = AddPin(f[S \ {m + 1}], Pins[m + 1])
      BY <2>1
    <3>4. g[S \ {m + 1}] = f[S \ {m + 1}]
      BY <1>2, <3>2
    <3> HIDE DEF g
    <3>5. QED
      BY <2>1, <3>1, <3>3, <3>4
  <2>2. CASE m + 1 \notin S
    <3>1. S \in SUBSET (1 .. m) /\ S \ {Max(S)} \in SUBSET (1 .. m)
      BY <1>1, <2>2
    <3>2. g[S] = f[S] /\ g[S \ {Max(S)}] = f[S \ {Max(S)}]
      BY <1>2, <3>1
    <3> HIDE DEF g
    <3>3. QED
      BY <1>3, <3>1, <3>2
  <2>3. QED
    BY <2>1, <2>2
<1>5. Folds(g, s, m + 1)
  <2>1. g = [S \in SUBSET (1 .. m + 1) |-> g[S]]
    OBVIOUS
  <2> HIDE DEF g
  <2>2. QED
    BY <1>4, <2>1 DEF Folds
<1>6. QED
  BY <1>5

LEMMA FoldExists ==
  ASSUME NEW s, NEW n \in Nat
  PROVE  \E g : Folds(g, s, n)
<1> DEFINE T == {m \in Nat : ~ \E g : Folds(g, s, m)}
<1>1. SUFFICES T = {}
  OBVIOUS
<1>2. SUFFICES ASSUME T # {} PROVE FALSE
  OBVIOUS
<1>3. T \in SUBSET Nat
  OBVIOUS
<1>4. PICK m \in T : \A l \in T : m <= l
  <2> HIDE DEF T
  <2>1. QED
    BY <1>2, <1>3, LeastNatural
<1>5. CASE m = 0
  <2> DEFINE g == [S \in SUBSET (1 .. 0) |-> s]
  <2>1. SUBSET (1 .. 0) = {{}}
    OBVIOUS
  <2>2. Folds(g, s, 0)
    BY <2>1 DEF Folds
  <2>3. QED
    BY <1>5, <2>2
<1>6. CASE m # 0
  <2>1. m - 1 \in Nat /\ m - 1 \notin T /\ (m - 1) + 1 = m
    BY <1>3, <1>4, <1>6
  <2>2. PICK f : Folds(f, s, m - 1)
    BY <2>1
  <2>3. \E g : Folds(g, s, (m - 1) + 1)
    BY <2>1, <2>2, NextFold
  <2>4. QED
    BY <2>1, <2>3
<1>7. QED
  BY <1>5, <1>6

(* The fold takes one pin after the other.                                 *)
LEMMA FoldSteps ==
  ASSUME NEW s
  PROVE  \E K : /\ K[0] = s
                /\ \A k \in 1 .. Len(Pins) : K[k] = AddPin(K[k - 1], Pins[k])
                /\ WithPins(s) = K[Len(Pins)]
<1> DEFINE F == CHOOSE g : Folds(g, s, Len(Pins))
           K == [k \in 0 .. Len(Pins) |-> F[1 .. k]]
<1>1. Len(Pins) \in Nat /\ DOMAIN Pins = 1 .. Len(Pins)
  BY PinsType
<1>2. WithPins(s) = F[DOMAIN Pins]
  BY <1>1 DEF WithPins, FoldLeft, MapThenFoldSet, Folds, Pins
<1>3. Folds(F, s, Len(Pins))
  BY <1>1, FoldExists
<1> HIDE DEF F
<1>4. \A S \in SUBSET (1 .. Len(Pins)) :
         F[S] = IF S = {} THEN s ELSE AddPin(F[S \ {Max(S)}], Pins[Max(S)])
  BY <1>3 DEF Folds
<1>5. K[0] = s
  <2>1. 1 .. 0 = {} /\ {} \in SUBSET (1 .. Len(Pins)) /\ 0 \in 0 .. Len(Pins)
    BY <1>1
  <2>2. QED
    BY <1>4, <2>1
<1>6. ASSUME NEW k \in 1 .. Len(Pins)
      PROVE  K[k] = AddPin(K[k - 1], Pins[k])
  <2>1. /\ k \in 0 .. Len(Pins) /\ k - 1 \in 0 .. Len(Pins) /\ k - 1 \in Nat
        /\ (k - 1) + 1 = k
    BY <1>1
  <2>2. /\ 1 .. k \in SUBSET (1 .. Len(Pins)) /\ 1 .. k # {}
        /\ (1 .. k) \ {k} = 1 .. k - 1 /\ k \in 1 .. k
    <3>1. k \in Nat /\ 1 <= k /\ k <= Len(Pins)
      BY <1>1
    <3>2. k \in 1 .. k /\ \A i \in 1 .. k : i \in 1 .. Len(Pins)
      BY <1>1, <3>1
    <3>3. (1 .. k) \ {k} = 1 .. k - 1
      BY <3>1
    <3>4. QED
      BY <3>2, <3>3
  <2>3. Max(1 .. k) = k
    <3>1. 1 .. k \in SUBSET (1 .. (k - 1) + 1) /\ (k - 1) + 1 \in 1 .. k
      BY <1>1
    <3>2. QED
      BY <2>1, <3>1, MaxOfInterval
  <2>4. F[1 .. k] = AddPin(F[1 .. k - 1], Pins[k])
    BY <1>4, <2>2, <2>3
  <2>5. QED
    BY <2>1, <2>4
<1>7. WithPins(s) = K[Len(Pins)]
  BY <1>1, <1>2
<1> HIDE DEF K
<1>8. QED
  BY <1>5, <1>6, <1>7

LEMMA ResolvedMeans ==
  ASSUME RegistryInv, NEW pin, Resolved(pin) # NoTool
  PROVE  /\ Resolved(pin) \in Tools
         /\ Resolved(pin).name = pin.name
         /\ pin.namespace = Anywhere \/ Resolved(pin) = pin
<1>1. order \in Seq(Tools) /\ Range(order) \subseteq Tools
  BY RangeIsTools DEF RegistryInv
<1>2. CASE pin.namespace = Anywhere
  <2>1. Resolved(pin) = FirstNamed(order, pin.name)
    BY <1>2 DEF Resolved
  <2>2. FirstNamed(order, pin.name) \in Range(order) /\ FirstNamed(order, pin.name).name = pin.name
    BY <1>1, <2>1, FirstNamedFinds
  <2>3. QED
    BY <1>1, <1>2, <2>1, <2>2
<1>3. CASE pin.namespace # Anywhere
  <2>1. Resolved(pin) = pin /\ Registered(pin)
    BY <1>3 DEF Resolved
  <2>2. QED
    BY <2>1 DEF Registered
<1>4. QED
  BY <1>2, <1>3

LEMMA AddPinKeeps ==
  ASSUME RegistryInv, NEW kept \in Seq(Tools), NEW pin
  PROVE  /\ AddPin(kept, pin) \in Seq(Tools)
         /\ Range(kept) \subseteq Range(AddPin(kept, pin))
         /\ Resolved(pin) # NoTool => Present(AddPin(kept, pin), pin)
<1>1. CASE Resolved(pin) = NoTool \/ Present(kept, pin)
  <2>1. AddPin(kept, pin) = kept
    BY <1>1 DEF AddPin
  <2>2. QED
    BY <1>1, <2>1
<1>2. CASE ~ (Resolved(pin) = NoTool \/ Present(kept, pin))
  <2>1. AddPin(kept, pin) = Append(kept, Resolved(pin))
    BY <1>2 DEF AddPin
  <2>2. Resolved(pin) \in Tools
    BY <1>2, ResolvedMeans
  <2>3. /\ Append(kept, Resolved(pin)) \in Seq(Tools)
        /\ Range(Append(kept, Resolved(pin))) = Range(kept) \cup {Resolved(pin)}
    BY <2>2, RangeOfAppended
  <2>4. Resolved(pin) \in Range(AddPin(kept, pin))
    BY <2>1, <2>3
  <2>5. Present(AddPin(kept, pin), pin)
    BY <2>4 DEF Present
  <2>6. QED
    BY <2>1, <2>3, <2>5
<1>3. QED
  BY <1>1, <1>2

LEMMA PresentStays ==
  ASSUME NEW s, NEW u, Range(s) \subseteq Range(u), NEW pin, Present(s, pin)
  PROVE  Present(u, pin)
BY DEF Present, NamesIn

(* After the fold every pin that names a tool is present.                  *)
LEMMA PinsArePresent ==
  ASSUME RegistryInv, NEW s \in Seq(Tools)
  PROVE  /\ WithPins(s) \in Seq(Tools)
         /\ \A i \in 1 .. Len(Pins) :
              Resolved(Pins[i]) # NoTool => Present(WithPins(s), Pins[i])
<1>1. PICK K : /\ K[0] = s
               /\ \A k \in 1 .. Len(Pins) : K[k] = AddPin(K[k - 1], Pins[k])
               /\ WithPins(s) = K[Len(Pins)]
  BY FoldSteps
<1>2. Len(Pins) \in Nat
  BY PinsType
<1> DEFINE Good(k) == /\ K[k] \in Seq(Tools)
                      /\ \A i \in 1 .. Len(Pins) :
                           i <= k /\ Resolved(Pins[i]) # NoTool => Present(K[k], Pins[i])
           T == {k \in 0 .. Len(Pins) : ~ Good(k)}
<1>3. T = {}
  <2>1. SUFFICES ASSUME T # {} PROVE FALSE
    OBVIOUS
  <2>2. T \in SUBSET Nat
    BY <1>2
  <2>3. PICK k \in T : \A l \in T : k <= l
    <3> HIDE DEF T
    <3>1. QED
      BY <2>1, <2>2, LeastNatural
  <2>4. CASE k = 0
    <3>1. Good(0)
      BY <1>1
    <3>2. QED
      BY <2>4, <3>1
  <2>5. CASE k # 0
    <3>1. k \in 1 .. Len(Pins) /\ k - 1 \in 0 .. Len(Pins) /\ ~ (k <= k - 1)
      BY <1>2, <2>5
    <3>2. Good(k - 1)
      BY <2>3, <3>1
    <3>3. K[k - 1] \in Seq(Tools) /\ K[k] = AddPin(K[k - 1], Pins[k])
      BY <1>1, <3>1, <3>2
    <3>4. /\ K[k] \in Seq(Tools) /\ Range(K[k - 1]) \subseteq Range(K[k])
          /\ Resolved(Pins[k]) # NoTool => Present(K[k], Pins[k])
      BY <3>3, AddPinKeeps
    <3>5. ASSUME NEW i \in 1 .. Len(Pins), i <= k, Resolved(Pins[i]) # NoTool
          PROVE  Present(K[k], Pins[i])
      <4>1. CASE i = k
        BY <3>4, <3>5, <4>1
      <4>2. CASE i # k
        <5>1. i <= k - 1
          BY <1>2, <3>1, <3>5, <4>2
        <5>2. Present(K[k - 1], Pins[i])
          BY <3>2, <3>5, <5>1
        <5>3. QED
          BY <3>4, <5>2, PresentStays
      <4>3. QED
        BY <4>1, <4>2
    <3>6. Good(k)
      BY <3>4, <3>5
    <3>7. QED
      BY <3>6
  <2>6. QED
    BY <2>4, <2>5
<1>4. Good(Len(Pins))
  BY <1>2, <1>3
<1>5. QED
  BY <1>1, <1>2, <1>4

-----------------------------------------------------------------------------
(* What a selection comes to                                               *)

(* These tools meet all that is required.                                  *)
MeetsExactly(t, pin) == t.name = pin.name /\ pin.namespace \in {Anywhere, t.namespace}

MeetsAll(S) == \A i \in DOMAIN Required : \E t \in S : MeetsExactly(t, Required[i])

Fits(S) == pinned => S = {} \/ \A i \in DOMAIN Required : \E t \in S : Meets(t, Required[i])

LEMMA PresentMeets ==
  ASSUME RegistryInv, NEW s \in Seq(Tools), NEW pin, Resolved(pin) # NoTool, Present(s, pin)
  PROVE  \E t \in Range(s) : MeetsExactly(t, pin)
<1>1. /\ Resolved(pin).name = pin.name
      /\ pin.namespace = Anywhere \/ Resolved(pin) = pin
  BY ResolvedMeans
<1>2. CASE Resolved(pin) \in Range(s)
  <2>1. MeetsExactly(Resolved(pin), pin)
    BY <1>1 DEF MeetsExactly
  <2>2. QED
    BY <1>2, <2>1
<1>3. CASE pin.namespace = Anywhere /\ pin.name \in NamesIn(Range(s))
  BY <1>3 DEF MeetsExactly, NamesIn
<1>4. QED
  BY <1>2, <1>3 DEF Present

Outcome(o) ==
  /\ o.tools \in Seq(Tools)
  /\ o.how # "selected" => o.tools = <<>>
  /\ pinned /\ o.how = "selected" => MeetsAll(Range(o.tools))

LEMMA SelectedIsOutcome ==
  ASSUME RegistryInv, NEW s \in Seq(Tools)
  PROVE  Outcome(Selected(s))
<1>1. WithPins(s) \in Seq(Tools)
  BY PinsArePresent
<1>2. Selection(s) \in Seq(Tools)
  BY <1>1 DEF Selection
<1>3. CASE RequiredMissing
  <2>1. Selected(s).how = "missing" /\ Selected(s).tools = <<>>
    BY <1>3 DEF Selected
  <2>2. QED
    BY <2>1, EmptySelection DEF Outcome
<1>4. CASE ~ RequiredMissing
  <2>1. Selected(s).how = "selected" /\ Selected(s).tools = Selection(s)
    BY <1>4 DEF Selected
  <2>2. ASSUME pinned, NEW i \in DOMAIN Required
        PROVE  \E t \in Range(WithPins(s)) : MeetsExactly(t, Required[i])
    <3>1. Resolved(Required[i]) # NoTool
      BY <1>4, <2>2 DEF RequiredMissing
    <3>2. i \in 1 .. Len(Pins) /\ Pins[i] = Required[i]
      BY PinsType
    <3>3. Present(WithPins(s), Required[i])
      BY <3>1, <3>2, PinsArePresent
    <3>4. QED
      BY <1>1, <3>1, <3>3, PresentMeets
  <2>3. pinned => MeetsAll(Range(WithPins(s))) /\ Selection(s) = WithPins(s)
    BY <2>2 DEF MeetsAll, Selection
  <2>4. QED
    BY <1>2, <2>1, <2>3 DEF Outcome
<1>5. QED
  BY <1>3, <1>4

LEMMA FailedIsOutcome == Outcome(Failed)
<1>1. Failed.how = "failed" /\ Failed.tools = <<>>
  BY DEF Failed
<1>2. QED
  BY <1>1, EmptySelection DEF Outcome

LEMMA OutcomeFits ==
  ASSUME NEW o, Outcome(o)
  PROVE  Fits(Range(o.tools)) /\ Range(o.tools) \in SUBSET Tools
<1>1. Range(o.tools) \in SUBSET Tools
  BY RangeIsTools DEF Outcome
<1>2. CASE o.how = "selected"
  BY <1>1, <1>2 DEF Outcome, MeetsAll, MeetsExactly, Fits, Meets
<1>3. CASE o.how # "selected"
  <2>1. Range(o.tools) = {}
    BY <1>3, EmptySelection DEF Outcome
  <2>2. QED
    BY <1>1, <2>1 DEF Fits
<1>4. QED
  BY <1>2, <1>3

(* In a dictionary a tool of the same name is all that is promised.        *)
LEMMA DictionaryFits ==
  ASSUME NEW o, Outcome(o), framework \in ByName
  PROVE  /\ Fits(LastOfEachName(o.tools)) /\ LastOfEachName(o.tools) \in SUBSET Tools
         /\ LastOfEachName(o.tools) \subseteq Range(o.tools)
         /\ NamesIn(LastOfEachName(o.tools)) = NamesIn(Range(o.tools))
<1> DEFINE D == LastOfEachName(o.tools)
           R == Range(o.tools)
<1>1. o.tools \in Seq(Tools)
  BY DEF Outcome
<1>2. D \subseteq R /\ NamesIn(D) = NamesIn(R)
  BY <1>1, LastOfEachNameHas
<1>3. Fits(R) /\ R \in SUBSET Tools
  BY OutcomeFits
<1> HIDE DEF D, R
<1>4. Fits(D)
  <2>1. SUFFICES ASSUME pinned, D # {}, NEW i \in DOMAIN Required
                 PROVE  \E t \in D : Meets(t, Required[i])
    BY DEF Fits
  <2>2. PICK t \in R : Meets(t, Required[i])
    BY <1>2, <1>3, <2>1 DEF Fits
  <2>3. t.name = Required[i].name
    BY <2>2 DEF Meets
  <2>4. PICK d \in D : d.name = t.name
    <3>1. t.name \in NamesIn(R)
      BY DEF NamesIn
    <3>2. t.name \in NamesIn(D)
      BY <1>2, <3>1
    <3>3. QED
      BY <3>2 DEF NamesIn
  <2>5. Meets(d, Required[i])
    BY <2>3, <2>4 DEF Meets
  <2>6. QED
    BY <2>5
<1>5. QED
  BY <1>2, <1>3, <1>4 DEF D, R

-----------------------------------------------------------------------------
(* The invariant                                                           *)

Frameworks == Shared \cup PerTurn \cup PerCall \cup OwnLoop \cup Servers

Typed ==
  /\ framework \in Frameworks
  /\ superset \in SUBSET Tools /\ current \in SUBSET Tools
  /\ found \in [Runs -> Seq(Tools)]
  /\ shown \in [Runs -> SUBSET Tools]
  /\ disturbed \in [Runs -> BOOLEAN]

(* What Strands' registry holds is what it last activated.                 *)
SurfaceInv ==
  /\ NothingStaleStays
  /\ framework = "strands" => NamesIn(current) \subseteq active

(* Whatever may be shown next meets what is required, too.                 *)
PinsInv == Fits(current) /\ \A r \in Runs : Fits(shown[r])

(* Who has not been disturbed has been shown the dictionary as it is.      *)
Undisturbed ==
  framework \in ByName => \A r \in Runs : ~ disturbed[r] => shown[r] \in {{}, current}

(* LangGraph shows names its ToolNode knows.                               *)
NodeKnows ==
  framework = "langgraph" => \A r \in Runs : NamesIn(shown[r]) \subseteq NamesIn(superset)

LiveInv ==
  /\ RegistryInv /\ Typed
  /\ SurfaceInv /\ PinsInv /\ Undisturbed /\ NodeKnows

LEMMA LiveStarts == Init => LiveInv
<1> SUFFICES ASSUME Init PROVE LiveInv
  OBVIOUS
<1>1. PICK S \in SUBSET Tools : order \in SetToSeqs(S)
  BY DEF Init, SetToAllKPermutations
<1>2. IsFiniteSet(S) /\ Cardinality(S) \in Nat
  BY RegistryAssumption, FS_Subset, FS_CardinalityType
<1>3. /\ order \in [1 .. Cardinality(S) -> S]
      /\ \A i, j \in 1 .. Cardinality(S) : i # j => order[i] # order[j]
  BY <1>1 DEF SetToSeqs
<1>4. order \in Seq(Tools) /\ Len(order) = Cardinality(S)
  BY <1>2, <1>3
<1>5. NoRepeats(order)
  BY <1>3, <1>4 DEF NoRepeats
<1>6. defined = [t \in Tools |-> IF Contains(order, t) THEN 1 ELSE 0]
  BY DEF Init
<1>7. \A t : Contains(order, t) <=> t \in Range(order)
  BY <1>4 DEF Contains, Range
<1>8. \A t \in Tools : Registered(t) <=> t \in Range(order)
  BY <1>6, <1>7 DEF Registered
<1>9. index = [n \in Names |-> FirstNamed(order, n)]
  BY DEF Init
<1>10. \A n \in Names : Answered(n)
  BY <1>4, <1>9, FirstNamedFinds DEF Answered
<1>11. RegistryInv
  BY <1>4, <1>5, <1>6, <1>8, <1>9, <1>10 DEF RegistryInv
<1>12. /\ current = {} /\ active = {} /\ latest = {}
       /\ disturbed = [r \in Runs |-> FALSE]
       /\ found = [r \in Runs |-> <<>>]
       /\ shown = [r \in Runs |-> {}]
       /\ framework \in Frameworks
  BY DEF Init, Frameworks
<1>13. superset \in SUBSET Tools
  <2>1. superset = {} \/ superset \in Supersets(Range(order))
    BY DEF Init
  <2>2. Range(order) \subseteq Tools
    BY <1>4, RangeIsTools
  <2>3. QED
    BY <2>1, <2>2 DEF Supersets
<1>14. Typed
  BY <1>12, <1>13, EmptySelection DEF Typed
<1>15. SurfaceInv /\ PinsInv /\ Undisturbed /\ NodeKnows
  BY <1>12 DEF SurfaceInv, NothingStaleStays, NamesIn, PinsInv, Fits, Undisturbed, NodeKnows
<1>16. QED
  BY <1>11, <1>14, <1>15 DEF LiveInv

-----------------------------------------------------------------------------
(* The effects a step may have                                             *)

(* Nothing a model sees, or might see next, changes.                       *)
LEMMA ViewKept ==
  ASSUME LiveInv, RegistryInv', UNCHANGED <<agent, shared, shown>>,
         found' \in [Runs -> Seq(Tools)]
  PROVE  LiveInv'
<1>1. /\ framework' = framework /\ pinned' = pinned /\ superset' = superset
      /\ current' = current /\ active' = active /\ latest' = latest
      /\ disturbed' = disturbed /\ shown' = shown
  BY DEF agent, shared
<1>2. Typed'
  BY <1>1 DEF LiveInv, Typed
<1>3. SurfaceInv'
  BY <1>1 DEF LiveInv, SurfaceInv, NothingStaleStays
<1>4. PinsInv'
  BY <1>1 DEF LiveInv, PinsInv, Fits, Meets
<1>5. Undisturbed' /\ NodeKnows'
  BY <1>1 DEF LiveInv, Undisturbed, NodeKnows
<1>6. QED
  BY <1>2, <1>3, <1>4, <1>5 DEF LiveInv

LEMMA RegistryKept ==
  RegistryInv /\ UNCHANGED registry => RegistryInv'
BY DEF RegistryInv, registry, Answered, Registered, NoRepeats

Gives(r, S) ==
  /\ found' = [found EXCEPT ![r] = <<>>]
  /\ shown' = [shown EXCEPT ![r] = S]

LEMMA GivesTyped ==
  ASSUME Typed, NEW r \in Runs, NEW S \in SUBSET Tools, Gives(r, S)
  PROVE  /\ found' \in [Runs -> Seq(Tools)] /\ shown' \in [Runs -> SUBSET Tools]
         /\ \A q \in Runs : shown'[q] = IF q = r THEN S ELSE shown[q]
BY EmptySelection DEF Typed, Gives

(* A run is given tools that are nobody else's.                            *)
LEMMA GivenKeeps ==
  ASSUME LiveInv, NEW r \in Runs, NEW S \in SUBSET Tools, Gives(r, S),
         Fits(S), framework \in ByName => S = {},
         framework = "langgraph" => NamesIn(S) \subseteq NamesIn(superset),
         UNCHANGED <<registry, agent, shared>>
  PROVE  LiveInv'
<1>1. /\ framework' = framework /\ pinned' = pinned /\ superset' = superset
      /\ current' = current /\ active' = active /\ latest' = latest
      /\ disturbed' = disturbed
  BY DEF agent, shared
<1>2. RegistryInv'
  BY RegistryKept DEF LiveInv
<1>3. /\ found' \in [Runs -> Seq(Tools)] /\ shown' \in [Runs -> SUBSET Tools]
      /\ \A q \in Runs : shown'[q] = IF q = r THEN S ELSE shown[q]
  BY GivesTyped DEF LiveInv
<1>4. Typed'
  BY <1>1, <1>3 DEF LiveInv, Typed
<1>5. SurfaceInv'
  BY <1>1 DEF LiveInv, SurfaceInv, NothingStaleStays
<1>6. PinsInv'
  BY <1>1, <1>3 DEF LiveInv, PinsInv, Fits, Meets
<1>7. Undisturbed'
  BY <1>1, <1>3 DEF LiveInv, Undisturbed
<1>8. NodeKnows'
  BY <1>1, <1>3 DEF LiveInv, NodeKnows
<1>9. QED
  BY <1>2, <1>4, <1>5, <1>6, <1>7, <1>8 DEF LiveInv

(* A run is shown the dictionary as it is.                                 *)
LEMMA KeptKeeps ==
  ASSUME LiveInv, NEW r \in Runs, framework \in ByName, Gives(r, current),
         UNCHANGED <<registry, agent, current, latest, active>>,
         disturbed' = [disturbed EXCEPT ![r] = FALSE]
  PROVE  LiveInv'
<1>1. /\ framework' = framework /\ pinned' = pinned /\ superset' = superset
      /\ current' = current /\ active' = active /\ latest' = latest
  BY DEF agent
<1>2. RegistryInv'
  BY RegistryKept DEF LiveInv
<1>3. /\ found' \in [Runs -> Seq(Tools)] /\ shown' \in [Runs -> SUBSET Tools]
      /\ \A q \in Runs : shown'[q] = IF q = r THEN current ELSE shown[q]
  BY GivesTyped DEF LiveInv, Typed
<1>4. /\ disturbed' \in [Runs -> BOOLEAN]
      /\ \A q \in Runs : disturbed'[q] = IF q = r THEN FALSE ELSE disturbed[q]
  BY DEF LiveInv, Typed
<1>5. Typed'
  BY <1>1, <1>3, <1>4 DEF LiveInv, Typed
<1>6. SurfaceInv'
  BY <1>1 DEF LiveInv, SurfaceInv, NothingStaleStays
<1>7. PinsInv'
  BY <1>1, <1>3 DEF LiveInv, PinsInv, Fits, Meets
<1>8. Undisturbed'
  BY <1>1, <1>3, <1>4 DEF LiveInv, Undisturbed
<1>9. NodeKnows'
  BY <1>1 DEF NodeKnows, ByName
<1>10. QED
  BY <1>2, <1>5, <1>6, <1>7, <1>8, <1>9 DEF LiveInv

(* The dictionary becomes this selection, and the run may be shown it.     *)
LEMMA SwapKeeps ==
  ASSUME LiveInv, NEW r \in Runs, framework \in ByName, NEW o, Outcome(o),
         UNCHANGED <<registry, agent>>,
         current' = LastOfEachName(o.tools), latest' = Range(o.tools),
         found' = [found EXCEPT ![r] = <<>>],
         framework = "strands" => active' = NamesIn(Range(o.tools)),
         \/ /\ shown' = [shown EXCEPT ![r] = current']
            /\ disturbed' = [q \in Runs |-> q # r]
         \/ /\ shown' = shown
            /\ disturbed' = [q \in Runs |-> TRUE]
  PROVE  LiveInv'
<1>1. framework' = framework /\ pinned' = pinned /\ superset' = superset
  BY DEF agent
<1>2. RegistryInv'
  BY RegistryKept DEF LiveInv
<1>3. /\ Fits(current') /\ current' \in SUBSET Tools /\ current' \subseteq latest'
      /\ NamesIn(current') = NamesIn(latest')
  BY DictionaryFits
<1>4. /\ found' \in [Runs -> Seq(Tools)] /\ shown' \in [Runs -> SUBSET Tools]
      /\ disturbed' \in [Runs -> BOOLEAN]
  BY <1>3, EmptySelection DEF LiveInv, Typed
<1>5. Typed'
  BY <1>1, <1>3, <1>4 DEF LiveInv, Typed
<1>6. SurfaceInv'
  BY <1>1, <1>3 DEF SurfaceInv, NothingStaleStays
<1>7. \A q \in Runs : shown'[q] \in {shown[q], current'}
  BY DEF LiveInv, Typed
<1>8. \A q \in Runs : ~ disturbed'[q] => shown'[q] = current'
  BY DEF LiveInv, Typed
<1>9. PinsInv'
  <2>1. \A q \in Runs : Fits(shown[q])
    BY DEF LiveInv, PinsInv
  <2>2. \A q \in Runs : Fits(shown'[q])
    BY <1>3, <1>7, <2>1
  <2>3. QED
    BY <1>1, <1>3, <2>2 DEF PinsInv, Fits, Meets
<1>10. Undisturbed' /\ NodeKnows'
  BY <1>1, <1>8 DEF Undisturbed, NodeKnows, ByName
<1>11. QED
  BY <1>2, <1>5, <1>6, <1>9, <1>10 DEF LiveInv

(* The Agents SDK: agent.tools become this selection, for the next turn.   *)
LEMMA RefreshKeeps ==
  ASSUME LiveInv, NEW r \in Runs, framework \in AgentsSDK, NEW o, Outcome(o),
         UNCHANGED <<registry, agent, shown, active, disturbed>>,
         found' = [found EXCEPT ![r] = <<>>],
         current' = Range(o.tools), latest' = Range(o.tools)
  PROVE  LiveInv'
<1>1. /\ framework' = framework /\ pinned' = pinned /\ superset' = superset
      /\ shown' = shown /\ active' = active /\ disturbed' = disturbed
  BY DEF agent
<1>2. RegistryInv'
  BY RegistryKept DEF LiveInv
<1>3. Fits(current') /\ current' \in SUBSET Tools
  BY OutcomeFits
<1>4. found' \in [Runs -> Seq(Tools)]
  BY EmptySelection DEF LiveInv, Typed
<1>5. Typed'
  BY <1>1, <1>3, <1>4 DEF LiveInv, Typed
<1>6. framework' # "strands" /\ framework' \notin ByName /\ framework' # "langgraph"
  BY <1>1 DEF AgentsSDK, ByName
<1>7. SurfaceInv'
  BY <1>6 DEF SurfaceInv, NothingStaleStays
<1>8. PinsInv'
  BY <1>1, <1>3 DEF LiveInv, PinsInv, Fits, Meets
<1>9. Undisturbed' /\ NodeKnows'
  BY <1>6 DEF Undisturbed, NodeKnows
<1>10. QED
  BY <1>2, <1>5, <1>7, <1>8, <1>9 DEF LiveInv

-----------------------------------------------------------------------------
(* The steps                                                               *)

LEMMA RaisesKeeps ==
  ASSUME LiveInv, NEW r \in Runs, Raises(r), UNCHANGED <<registry, agent>>
  PROVE  LiveInv'
<1>1. Gives(r, {}) /\ UNCHANGED shared
  BY DEF Raises, Gives
<1>2. Fits({}) /\ NamesIn({}) = {}
  BY DEF Fits, NamesIn
<1>3. QED
  BY <1>1, <1>2, GivenKeeps

(* Where nothing is kept of a selection.                                   *)
LEMMA PassingKeeps ==
  ASSUME LiveInv, NEW r \in Runs, NEW o, Outcome(o),
         EmptyOnFailure(r, o) \/ RaiseOnFailure(r, o), framework \notin ByName,
         framework = "langgraph" => NamesIn(Range(o.tools)) \subseteq NamesIn(superset),
         UNCHANGED <<registry, agent>>
  PROVE  LiveInv'
<1>1. Raises(r) \/ (Called(r, Range(o.tools)) /\ UNCHANGED shared)
  BY DEF EmptyOnFailure, RaiseOnFailure
<1>2. CASE Raises(r)
  BY <1>2, RaisesKeeps
<1>3. CASE Called(r, Range(o.tools)) /\ UNCHANGED shared
  <2>1. Gives(r, Range(o.tools))
    BY <1>3 DEF Called, Gives
  <2>2. Fits(Range(o.tools)) /\ Range(o.tools) \in SUBSET Tools
    BY OutcomeFits
  <2>3. QED
    BY <1>3, <2>1, <2>2, GivenKeeps
<1>4. QED
  BY <1>1, <1>2, <1>3

LEMMA AgentsKeep ==
  ASSUME LiveInv, NEW r \in Runs, NEW o, Outcome(o), framework \in AgentsSDK,
         _refresh_agent_tools(r, o), UNCHANGED <<registry, agent>>
  PROVE  LiveInv'
<1>1. CASE o.how = "missing"
  BY <1>1, RaisesKeeps DEF _refresh_agent_tools
<1>2. CASE o.how # "missing"
  <2>1. /\ found' = [found EXCEPT ![r] = <<>>]
        /\ UNCHANGED <<shown, active, disturbed>>
        /\ \/ UNCHANGED <<current, latest>>
           \/ current' = Range(o.tools) /\ latest' = Range(o.tools)
    BY <1>2 DEF _refresh_agent_tools
  <2>2. CASE UNCHANGED <<current, latest>>
    <3>1. RegistryInv'
      BY RegistryKept DEF LiveInv
    <3>2. found' \in [Runs -> Seq(Tools)]
      BY <2>1, EmptySelection DEF LiveInv, Typed
    <3>3. QED
      BY <2>1, <2>2, <3>1, <3>2, ViewKept DEF shared
  <2>3. CASE current' = Range(o.tools) /\ latest' = Range(o.tools)
    BY <2>1, <2>3, RefreshKeeps
  <2>4. QED
    BY <2>1, <2>2, <2>3
<1>3. QED
  BY <1>1, <1>2

LEMMA KeepingAsIs ==
  ASSUME LiveInv, NEW r \in Runs, framework \in ByName, Called(r, current), Kept(r),
         UNCHANGED <<registry, agent>>
  PROVE  LiveInv'
<1>1. Gives(r, current)
  BY DEF Called, Gives
<1>2. /\ UNCHANGED <<current, latest, active>>
      /\ disturbed' = [disturbed EXCEPT ![r] = FALSE]
  BY DEF Kept
<1>3. QED
  BY <1>1, <1>2, KeptKeeps

(* What Strands registered before is gone, but for what is selected again. *)
LEMMA SwappedIsSelection ==
  ASSUME LiveInv, framework = "strands", NEW s
  PROVE  Swapped(s) = LastOfEachName(s)
<1>1. \A t \in current : t.name \in active
  BY DEF LiveInv, SurfaceInv, NamesIn
<1>2. {t \in current : t.name \notin (active \ NamesIn(Range(s))) \cup NamesIn(Range(s))} = {}
  BY <1>1
<1>3. QED
  BY <1>2 DEF Swapped

LEMMA StrandsKeep ==
  ASSUME LiveInv, NEW r \in Runs, NEW o, Outcome(o), framework = "strands",
         _on_before_model_call(r, o), UNCHANGED <<registry, agent>>,
         o.how \in {"missing", "failed", "selected"}
  PROVE  LiveInv'
<1>1. framework \in ByName
  BY DEF ByName
<1>2. CASE o.how = "missing"
  BY <1>2, RaisesKeeps DEF _on_before_model_call
<1>3. CASE o.how = "failed"
  BY <1>1, <1>3, KeepingAsIs DEF _on_before_model_call
<1>4. CASE o.how = "selected"
  <2> DEFINE S == LastOfEachName(o.tools)
  <2>1. /\ Replaced(r, S, o.tools) /\ Called(r, S)
        /\ active' = NamesIn(Range(o.tools))
    BY <1>4, SwappedIsSelection DEF _on_before_model_call
  <2>2. /\ current' = S /\ latest' = Range(o.tools)
        /\ disturbed' = [q \in Runs |-> q # r]
        /\ found' = [found EXCEPT ![r] = <<>>]
        /\ shown' = [shown EXCEPT ![r] = current']
    BY <1>1, <2>1 DEF Replaced, Called
  <2>3. QED
    BY <1>1, <2>1, <2>2, SwapKeeps
<1>5. QED
  BY <1>2, <1>3, <1>4

LEMMA PydanticKeeps ==
  ASSUME LiveInv, NEW r \in Runs, NEW o, Outcome(o), framework = "pydantic_ai",
         get_tools(r, o), UNCHANGED <<registry, agent>>,
         o.how \in {"missing", "failed", "selected"}
  PROVE  LiveInv'
<1>1. framework \in ByName
  BY DEF ByName
<1>2. CASE o.how = "missing"
  BY <1>2, RaisesKeeps DEF get_tools
<1>3. CASE o.how = "failed"
  BY <1>1, <1>3, KeepingAsIs DEF get_tools
<1>4. CASE o.how = "selected"
  <2> DEFINE S == LastOfEachName(o.tools)
  <2>1. Replaced(r, S, o.tools) /\ Called(r, S)
    BY <1>4 DEF get_tools, Cached
  <2>2. /\ current' = S /\ latest' = Range(o.tools)
        /\ disturbed' = [q \in Runs |-> q # r]
        /\ found' = [found EXCEPT ![r] = <<>>]
        /\ shown' = [shown EXCEPT ![r] = current']
    BY <1>1, <2>1 DEF Replaced, Called
  <2>3. QED
    BY <1>1, <2>2, SwapKeeps
<1>5. QED
  BY <1>2, <1>3, <1>4

(* Which handler takes a selection.                                        *)
LEMMA WhoTakes ==
  ASSUME NEW r \in Runs, NEW o, framework \in Frameworks, Takes(r, o)
  PROVE  \/ framework \in AgentsSDK /\ _refresh_agent_tools(r, o)
         \/ framework = "strands" /\ _on_before_model_call(r, o)
         \/ framework = "pydantic_ai" /\ get_tools(r, o)
         \/ framework = "langgraph" /\ _select_tools_for_state(r, o)
         \/ /\ framework \notin ByName \cup AgentsSDK \cup {"langgraph"}
            /\ EmptyOnFailure(r, o) \/ RaiseOnFailure(r, o)
<1>1. CASE framework \in Shared
  BY <1>1 DEF Takes, Shared, AgentsSDK
<1>2. CASE framework \in PerTurn
  BY <1>2 DEF Takes, PerTurn, AgentsSDK, ByName, _inject_selected_tools, aretrieve
<1>3. CASE framework \in PerCall
  BY <1>3 DEF Takes, PerCall, AgentsSDK, ByName, GantryLiveCrewAgent_build,
              GantryLiveAgnoAgent_build, GantryLiveHaystackToolInvoker_build,
              GantryLiveDSPyReAct_build, BaseFrameworkAdapter_select
<1>4. CASE framework \in OwnLoop
  BY <1>4 DEF Takes, OwnLoop, AgentsSDK, ByName, wrap_async, refresh_specs
<1>5. CASE framework \in Servers
  BY <1>5 DEF Takes, Servers, AgentsSDK, ByName, _handle_find_relevant_tools, _list_tools,
              handle_tool_discovery
<1>6. QED
  BY <1>1, <1>2, <1>3, <1>4, <1>5 DEF Frameworks

LEMMA TakesKeeps ==
  ASSUME LiveInv, NEW r \in Runs, NEW o, Outcome(o), Takes(r, o),
         UNCHANGED <<registry, agent>>, o.how \in {"missing", "failed", "selected"}
  PROVE  LiveInv'
<1>1. framework \in Frameworks
  BY DEF LiveInv, Typed
<1>2. CASE framework \in AgentsSDK /\ _refresh_agent_tools(r, o)
  BY <1>2, AgentsKeep
<1>3. CASE framework = "strands" /\ _on_before_model_call(r, o)
  BY <1>3, StrandsKeep
<1>4. CASE framework = "pydantic_ai" /\ get_tools(r, o)
  BY <1>4, PydanticKeeps
<1>5. CASE framework = "langgraph" /\ _select_tools_for_state(r, o)
  <2>1. framework \notin ByName
    BY <1>5 DEF ByName
  <2>2. \/ Raises(r)
        \/ /\ NamesIn(Range(o.tools)) \subseteq NamesIn(superset)
           /\ EmptyOnFailure(r, o)
    BY <1>5 DEF _select_tools_for_state
  <2>3. QED
    BY <2>1, <2>2, RaisesKeeps, PassingKeeps
<1>6. CASE /\ framework \notin ByName \cup AgentsSDK \cup {"langgraph"}
           /\ EmptyOnFailure(r, o) \/ RaiseOnFailure(r, o)
  BY <1>6, PassingKeeps
<1>7. QED
  BY <1>1, <1>2, <1>3, <1>4, <1>5, <1>6, WhoTakes

LEMMA FindsTyped ==
  ASSUME LiveInv, NEW r \in Runs, Finds(r)
  PROVE  found' \in [Runs -> Seq(Tools)]
<1>1. PICK S \in SUBSET Range(order) : \E s \in SetToSeqs(S) : found' = [found EXCEPT ![r] = s]
  BY DEF Finds
<1>2. PICK s \in SetToSeqs(S) : found' = [found EXCEPT ![r] = s]
  BY <1>1
<1>3. S \in SUBSET Tools
  BY RangeIsTools DEF LiveInv, RegistryInv
<1>4. IsFiniteSet(S) /\ Cardinality(S) \in Nat
  BY <1>3, RegistryAssumption, FS_Subset, FS_CardinalityType
<1>5. s \in [1 .. Cardinality(S) -> S]
  BY <1>2 DEF SetToSeqs
<1>6. s \in Seq(Tools)
  BY <1>3, <1>4, <1>5
<1>7. QED
  BY <1>2, <1>6 DEF LiveInv, Typed

(* Only Pydantic AI selects again for a call.                              *)
AgainInv ==
  /\ DOMAIN pc = Runs
  /\ \A r \in Runs : pc[r] = "again" => framework = "pydantic_ai"

LEMMA PlaceAfter ==
  ASSUME Typed, NEW r \in Runs, NEW o, Takes(r, o), o.how \in {"missing", "failed", "selected"}
  PROVE  \E p \in {"failed", "idle", "selected"} : pc' = [pc EXCEPT ![r] = p]
<1>1. \/ _refresh_agent_tools(r, o)
      \/ _on_before_model_call(r, o)
      \/ get_tools(r, o)
      \/ _select_tools_for_state(r, o)
      \/ EmptyOnFailure(r, o) \/ RaiseOnFailure(r, o)
  BY WhoTakes DEF Typed
<1>2. Raises(r) => pc' = [pc EXCEPT ![r] = "failed"]
  BY DEF Raises
<1>3. \A S : Called(r, S) => pc' = [pc EXCEPT ![r] = "idle"]
  BY DEF Called
<1>4. CASE _refresh_agent_tools(r, o)
  BY <1>2, <1>4 DEF _refresh_agent_tools
<1>5. CASE _on_before_model_call(r, o)
  BY <1>2, <1>3, <1>5 DEF _on_before_model_call
<1>6. CASE get_tools(r, o)
  BY <1>2, <1>3, <1>6 DEF get_tools
<1>7. CASE _select_tools_for_state(r, o) \/ EmptyOnFailure(r, o) \/ RaiseOnFailure(r, o)
  BY <1>2, <1>3, <1>7 DEF _select_tools_for_state, EmptyOnFailure, RaiseOnFailure
<1>8. QED
  BY <1>1, <1>4, <1>5, <1>6, <1>7

LEMMA AgainStep == LiveInv /\ AgainInv /\ [Next]_vars => AgainInv'
<1> SUFFICES ASSUME LiveInv, AgainInv, [Next]_vars PROVE AgainInv'
  OBVIOUS
<1>1. Typed /\ DOMAIN pc = Runs /\ \A r \in Runs : pc[r] = "again" => framework = "pydantic_ai"
  BY DEF LiveInv, AgainInv
<1>2. framework' = framework
  BY DEF Next, vars, agent, Search, Select, BlankTurn, SelectionFails, Snapshot,
         CallSelectsAgain, CallResumes, CallFails, Register, Delete
<1>3. ASSUME NEW r \in Runs, NEW p, pc' = [pc EXCEPT ![r] = p],
             p = "again" => framework = "pydantic_ai"
      PROVE  AgainInv'
  BY <1>1, <1>2, <1>3 DEF AgainInv
<1>4. ASSUME NEW r \in Runs, NEW o, Takes(r, o), o.how \in {"missing", "failed", "selected"}
      PROVE  AgainInv'
  <2>1. PICK p \in {"failed", "idle", "selected"} : pc' = [pc EXCEPT ![r] = p]
    BY <1>1, <1>4, PlaceAfter
  <2>2. QED
    BY <1>3, <2>1
<1>5. ASSUME NEW r \in Runs, Search(r) \/ Snapshot(r) \/ CallFails(r) PROVE AgainInv'
  <2>1. pc' = [pc EXCEPT ![r] = "searching"] \/ pc' = [pc EXCEPT ![r] = "idle"]
    BY <1>5 DEF Search, Snapshot, Called, CallFails
  <2>2. QED
    BY <1>3, <2>1
<1>6. ASSUME NEW r \in Runs, Select(r) \/ SelectionFails(r) \/ BlankTurn(r) PROVE AgainInv'
  <2>1. Takes(r, Selected(found[r])) \/ Takes(r, Failed) \/ Takes(r, Selected(<<>>))
    BY <1>6 DEF Select, SelectionFails, BlankTurn
  <2>2. /\ Selected(found[r]).how \in {"missing", "failed", "selected"}
        /\ Selected(<<>>).how \in {"missing", "failed", "selected"}
        /\ Failed.how \in {"missing", "failed", "selected"}
    BY DEF Selected, Failed
  <2>3. QED
    BY <1>4, <2>1, <2>2
<1>7. ASSUME NEW r \in Runs, NEW n \in Names, CallSelectsAgain(r, n) PROVE AgainInv'
  BY <1>3, <1>7 DEF CallSelectsAgain
<1>8. ASSUME NEW r \in Runs, CallResumes(r) PROVE AgainInv'
  <2>1. pc' = [pc EXCEPT ![r] = "failed"] \/ pc' = [pc EXCEPT ![r] = "idle"]
    BY <1>8 DEF CallResumes, Raises
  <2>2. QED
    BY <1>3, <2>1
<1>9. ASSUME UNCHANGED pc PROVE AgainInv'
  BY <1>1, <1>2, <1>9 DEF AgainInv
<1>10. ASSUME NEW t \in Tools, Register(t) \/ Delete(t) PROVE UNCHANGED pc
  BY <1>10 DEF Register, Delete, own
<1>11. UNCHANGED vars => UNCHANGED pc
  BY DEF vars, own
<1>12. QED
  BY <1>5, <1>6, <1>7, <1>8, <1>9, <1>10, <1>11 DEF Next

LEMMA LiveStep == LiveInv /\ AgainInv /\ [Next]_vars => LiveInv'
<1> SUFFICES ASSUME LiveInv, AgainInv, [Next]_vars PROVE LiveInv'
  OBVIOUS
<1>1. RegistryInv /\ Typed
  BY DEF LiveInv
<1>2. UNCHANGED registry => RegistryInv'
  BY <1>1, RegistryKept
<1>3. ASSUME NEW r \in Runs, Search(r) PROVE LiveInv'
  <2>1. /\ Finds(r)
        /\ UNCHANGED <<registry, agent, shared, shown>>
    BY <1>3 DEF Search
  <2>2. found' \in [Runs -> Seq(Tools)]
    BY <2>1, FindsTyped
  <2>3. QED
    BY <1>2, <2>1, <2>2, ViewKept
<1>4. ASSUME NEW r \in Runs, Select(r) PROVE LiveInv'
  <2>1. Takes(r, Selected(found[r])) /\ UNCHANGED <<registry, agent>>
    BY <1>4 DEF Select
  <2>2. Outcome(Selected(found[r]))
    BY <1>1, SelectedIsOutcome DEF Typed
  <2>3. Selected(found[r]).how \in {"missing", "failed", "selected"}
    BY DEF Selected
  <2>4. QED
    BY <2>1, <2>2, <2>3, TakesKeeps
<1>5. ASSUME NEW r \in Runs, SelectionFails(r) PROVE LiveInv'
  <2>1. Takes(r, Failed) /\ UNCHANGED <<registry, agent>>
    BY <1>5 DEF SelectionFails
  <2>2. Failed.how \in {"missing", "failed", "selected"}
    BY DEF Failed
  <2>3. QED
    BY <2>1, <2>2, FailedIsOutcome, TakesKeeps
<1>6. ASSUME NEW r \in Runs, BlankTurn(r) PROVE LiveInv'
  <2>1. Takes(r, Selected(<<>>)) /\ UNCHANGED <<registry, agent>>
    BY <1>6 DEF BlankTurn
  <2>2. Outcome(Selected(<<>>))
    BY <1>1, SelectedIsOutcome, EmptySelection
  <2>3. Selected(<<>>).how \in {"missing", "failed", "selected"}
    BY DEF Selected
  <2>4. QED
    BY <2>1, <2>2, <2>3, TakesKeeps
<1>7. ASSUME NEW r \in Runs, Snapshot(r) PROVE LiveInv'
  <2>1. /\ framework \in AgentsSDK /\ Gives(r, current)
        /\ UNCHANGED <<registry, agent, shared>>
    BY <1>7 DEF Snapshot, Called, Gives
  <2>2. framework \notin ByName /\ framework # "langgraph"
    BY <2>1 DEF AgentsSDK, ByName
  <2>3. Fits(current) /\ current \in SUBSET Tools
    BY DEF LiveInv, PinsInv, Typed
  <2>4. QED
    BY <2>1, <2>2, <2>3, GivenKeeps
<1>8. ASSUME NEW r \in Runs, NEW n \in Names, CallSelectsAgain(r, n) PROVE LiveInv'
  <2>1. Finds(r) /\ UNCHANGED <<registry, agent, shared, shown>>
    BY <1>8 DEF CallSelectsAgain
  <2>2. found' \in [Runs -> Seq(Tools)]
    BY <2>1, FindsTyped
  <2>3. QED
    BY <1>2, <2>1, <2>2, ViewKept
<1>9. ASSUME NEW r \in Runs, CallFails(r) PROVE LiveInv'
  <2>1. /\ found' = [found EXCEPT ![r] = <<>>]
        /\ UNCHANGED <<registry, agent, shared, shown>>
    BY <1>9 DEF CallFails
  <2>2. found' \in [Runs -> Seq(Tools)]
    BY <1>1, <2>1, EmptySelection DEF Typed
  <2>3. QED
    BY <1>2, <2>1, <2>2, ViewKept
<1>10. ASSUME NEW t \in Tools, Register(t) PROVE LiveInv'
  <2>1. RegistryInv'
    BY <1>1, <1>10, RegisterKeeps DEF Register
  <2>2. UNCHANGED <<agent, shared, shown, found>>
    BY <1>10 DEF Register, own
  <2>3. QED
    BY <1>1, <2>1, <2>2, ViewKept DEF Typed
<1>11. ASSUME NEW t \in Tools, Delete(t) PROVE LiveInv'
  <2>1. RegistryInv'
    BY <1>1, <1>11, UnregisterKeeps DEF Delete
  <2>2. UNCHANGED <<agent, shared, shown, found>>
    BY <1>11 DEF Delete, own
  <2>3. QED
    BY <1>1, <2>1, <2>2, ViewKept DEF Typed
<1>12. CASE UNCHANGED vars
  <2>1. UNCHANGED <<registry, agent, shared, shown, found>>
    BY <1>12 DEF vars, own
  <2>2. QED
    BY <1>1, <1>2, <2>1, ViewKept DEF Typed
<1>13. ASSUME NEW r \in Runs, CallResumes(r) PROVE LiveInv'
  <2>1. UNCHANGED <<registry, agent>>
    BY <1>13 DEF CallResumes
  <2>2. CASE RequiredMissing
    BY <1>13, <2>1, <2>2, RaisesKeeps DEF CallResumes
  <2>3. CASE ~ RequiredMissing
    <3> DEFINE o == Selected(found[r])
    <3>1. Outcome(o) /\ o.tools = Selection(found[r])
      BY <1>1, <2>3, SelectedIsOutcome DEF Typed, Selected
    <3>2. /\ current' = LastOfEachName(Selection(found[r]))
          /\ latest' = Range(Selection(found[r]))
          /\ disturbed' = [q \in Runs |-> TRUE]
          /\ found' = [found EXCEPT ![r] = <<>>]
          /\ shown' = shown /\ active' = active
      BY <1>13, <2>3 DEF CallResumes, Cached
    <3>3. framework = "pydantic_ai"
      BY <1>13 DEF AgainInv, CallResumes
    <3>4. QED
      BY <2>1, <3>1, <3>2, <3>3, SwapKeeps DEF ByName
  <2>4. QED
    BY <2>2, <2>3
<1>14. QED
  BY <1>3, <1>4, <1>5, <1>6, <1>7, <1>8, <1>9, <1>10, <1>11, <1>12, <1>13 DEF Next

LEMMA LiveInvariant == Spec => [](LiveInv /\ AgainInv)
<1>1. Init => AgainInv
  BY DEF Init, AgainInv
<1>2. QED
  BY LiveStarts, LiveStep, AgainStep, <1>1, PTL DEF Spec

-----------------------------------------------------------------------------
(* The theorems                                                            *)

(* A model that sees any tools sees every required one, with any pins and  *)
(* limit, in every framework and under every failure and overlap of turns. *)
THEOREM RequiredStayShown == Spec => []RequiredIsShown
<1>1. LiveInv => RequiredIsShown
  BY DEF LiveInv, PinsInv, Fits, RequiredIsShown
<1>2. QED
  BY LiveInvariant, <1>1, PTL

(* The shared surface of an agent is its latest selection and no more, for *)
(* any tools, two of one name among them, and any overlap of runs.         *)
THEOREM NothingStaleEverStays == Spec => []NothingStaleStays
<1>1. LiveInv => NothingStaleStays
  BY DEF LiveInv, SurfaceInv
<1>2. QED
  BY LiveInvariant, <1>1, PTL

LEMMA OnlyOne ==
  ASSUME NEW S, IsFiniteSet(S), Cardinality(S) = 1, NEW x \in S, NEW y \in S
  PROVE  x = y
<1>1. IsFiniteSet(S \ {x}) /\ Cardinality(S \ {x}) = Cardinality(S) - 1
  BY FS_RemoveElement
<1>2. S \ {x} = {}
  BY <1>1, FS_EmptySet
<1>3. QED
  BY <1>2

LEMMA CallsReach ==
  ASSUME LiveInv, NEW r \in Runs, NEW n \in Names, n \in NamesIn(shown[r]), Unmistakable(r, n)
  PROVE  /\ Reaches(r, n) \subseteq Named(shown[r], n)
         /\ Reaches(r, n) = {} => \A t \in Named(shown[r], n) : ~ Registered(t)
<1> DEFINE meant == Named(shown[r], n)
<1>1. PICK x \in shown[r] : x.name = n
  BY DEF NamesIn
<1>2. x \in meant
  BY <1>1 DEF Named
<1>3. framework \in Frameworks /\ superset \subseteq Tools /\ shown[r] \subseteq Tools
  BY DEF LiveInv, Typed
<1>4. CASE framework \in ByName
  <2>1. Unmistakable(r, n) <=> ~ disturbed[r]
    BY <1>4 DEF Unmistakable
  <2>2. shown[r] = current
    BY <1>1, <1>4, <2>1 DEF LiveInv, Undisturbed
  <2>3. Reaches(r, n) = meant
    BY <1>4, <2>2 DEF Reaches, call_tool
  <2>4. QED
    BY <1>2, <2>3
<1>5. CASE framework \in OwnLoop \cup Servers \cup {"langgraph"}
  <2>1. framework \notin ByName
    BY <1>5 DEF OwnLoop, Servers, ByName
  <2>2. Cardinality(Rivals(r, n)) = 1
    BY <1>5, <2>1 DEF Unmistakable
  <2>3. IsFiniteSet(Rivals(r, n)) /\ meant \subseteq Rivals(r, n)
    <3>1. Rivals(r, n) \subseteq Tools
      BY <1>3 DEF Rivals, Named
    <3>2. meant \subseteq Rivals(r, n)
      BY DEF Rivals, Named
    <3>3. QED
      BY <3>1, <3>2, RegistryAssumption, FS_Subset
  <2>4. \A y \in Rivals(r, n) : y = x
    BY <1>2, <2>2, <2>3, OnlyOne
  <2>5. CASE framework = "langgraph"
    <3>1. Reaches(r, n) = Named(superset, n)
      <4>1. framework \notin OwnLoop \cup Servers
        BY <2>5 DEF OwnLoop, Servers
      <4>2. QED
        BY <2>1, <2>5, <4>1 DEF Reaches
    <3>2. Reaches(r, n) \subseteq Rivals(r, n)
      BY <3>1 DEF Rivals, Named
    <3>3. n \in NamesIn(superset)
      BY <2>5 DEF LiveInv, NodeKnows
    <3>4. Reaches(r, n) # {}
      BY <3>1, <3>3 DEF NamesIn, Named
    <3>5. QED
      BY <1>2, <2>4, <3>2, <3>4
  <2>6. CASE framework # "langgraph"
    <3>1. Reaches(r, n) = {ToolNamed(n)} \ {NoTool}
      BY <1>5, <2>1, <2>6 DEF Reaches, execute_tool
    <3>2. /\ order \in Seq(Tools) /\ Answered(n)
          /\ \A t \in Tools : Registered(t) <=> t \in Range(order)
      BY DEF LiveInv, RegistryInv
    <3>3. Range(order) \subseteq Tools
      BY <3>2, RangeIsTools
    <3>4. \/ Registered(ToolNamed(n)) /\ ToolNamed(n).name = n
          \/ ToolNamed(n) = NoTool /\ \A t \in Tools : Registered(t) => t.name # n
      <4> DEFINE default == [namespace |-> Default, name |-> n]
      <4>1. CASE Registered(default)
        <5>1. ToolNamed(n) = default /\ default.name = n
          BY <4>1 DEF ToolNamed
        <5>2. QED
          BY <4>1, <5>1
      <4>2. CASE ~ Registered(default)
        <5>1. ToolNamed(n) = index[n]
          BY <4>2 DEF ToolNamed
        <5>2. QED
          BY <3>2, <3>3, <5>1 DEF Answered
      <4>3. QED
        BY <4>1, <4>2
    <3>5. CASE Registered(ToolNamed(n)) /\ ToolNamed(n).name = n
      <4>1. ToolNamed(n) \in Rivals(r, n) /\ ToolNamed(n) \in Tools
        BY <3>5 DEF Rivals, Named, Registered
      <4>2. ToolNamed(n) = x /\ x # NoTool
        BY <2>4, <4>1, RegistryAssumption
      <4>3. QED
        BY <1>2, <3>1, <4>2
    <3>6. CASE ToolNamed(n) = NoTool /\ \A t \in Tools : Registered(t) => t.name # n
      BY <1>3, <3>1, <3>6 DEF Named
    <3>7. QED
      BY <3>4, <3>5, <3>6
  <2>7. QED
    BY <2>5, <2>6
<1>6. CASE framework \notin ByName \cup OwnLoop \cup Servers \cup {"langgraph"}
  <2>1. Reaches(r, n) = meant
    BY <1>6 DEF Reaches
  <2>2. QED
    BY <1>2, <2>1
<1>7. QED
  BY <1>4, <1>5, <1>6

(* For any tools, changes of the registry and overlap of runs a call by an *)
(* unmistakable name reaches a tool its model was shown, and nothing only  *)
(* when that tool is gone.                                                 *)
THEOREM CallsAlwaysReach == Spec => []CallsReachWhatWasShown
<1>1. LiveInv => CallsReachWhatWasShown
  <2>1. SUFFICES ASSUME LiveInv, NEW r \in Runs, NEW n \in Names, CanCall(r, n),
                        Unmistakable(r, n)
                 PROVE  /\ Reaches(r, n) \subseteq Named(shown[r], n)
                        /\ Reaches(r, n) = {} => \A t \in Named(shown[r], n) : ~ Registered(t)
    BY DEF CallsReachWhatWasShown
  <2>2. n \in NamesIn(shown[r])
    BY <2>1 DEF CanCall
  <2>3. QED
    BY <2>1, <2>2, CallsReach
<1>2. QED
  BY LiveInvariant, <1>1, PTL
=============================================================================
