---------------------------- MODULE ContextProvider ----------------------------
(***************************************************************************)
(* The tools an agent sees: GantryContextProvider and the GantryToolBridge *)
(* of agent_gantry/integrations, which inject a selection of the gantry's  *)
(* tools into an Agent Framework run, at its start ("per_run") or anew     *)
(* before every round of the model ("per_call").                           *)
(*                                                                         *)
(* Several runs share one provider, and with it the bridge's cache of      *)
(* wrappers and a snapshot of the latest selections, while tools are       *)
(* registered, redefined and deleted.  A retrieval awaits the store, and   *)
(* what it found is used after that; all else happens between two awaits.  *)
(*                                                                         *)
(* Scores and thresholds decide which tools a retrieval returns; here it   *)
(* may return any of those registered, at most TopK.                       *)
(***************************************************************************)
EXTENDS ToolRegistry, Folds

CONSTANTS
  Runs,       \* agent runs, each in a context of its own
  TopK,       \* top_k
  Natives,    \* names of tools that are not the gantry's and an agent may have
  Static,     \* names of the provider's static tools, a sequence
  Pins,       \* skill tools, required and always_include, in this order
  Required,   \* those of Pins that construction checks
  MaxHistory, \* _MAX_SELECTION_HISTORY
  MaxRounds,  \* bound on the selections of a run, and on the runs of a context
  MaxChanges  \* bound on registrations and deletions

Anywhere == "any namespace"

ASSUME ProviderAssumption ==
  /\ Runs # {}
  /\ TopK \in Nat \ {0}
  /\ MaxHistory \in Nat \ {0} /\ MaxRounds \in Nat /\ MaxChanges \in Nat
  /\ IsFiniteSet(Natives)
  /\ Static \in Seq(Range(Static)) /\ Pins \in Seq(Range(Pins))

VARIABLES
  strategy,   \* query_strategy
  cache,      \* GantryToolBridge._tool_cache: the version each wrapper was built from
  pc,         \* where each run is suspended
  surface,    \* options["tools"]: what the model sees and may call
  found,      \* what the retrieval under way has found, tools with their versions
  selections, \* _selections_var in the run's context
  plain,      \* _selections_plain
  run,        \* history: how many runs this context has seen
  rounds,     \* history: selections made in the present one
  changes     \* changes of the registry so far

histories == <<selections, plain, run, rounds>>
vars == <<registry, strategy, cache, pc, surface, found, histories, changes>>

(* A pin is a qualified name or, with `Anywhere`, a bare one.              *)
Bare(n) == [namespace |-> Anywhere, name |-> n]

Means(pin, t) ==
  /\ Registered(t)
  /\ t.name = pin.name
  /\ pin.namespace \in {Anywhere, t.namespace}

Available(pin) == \E t \in Tools : Means(pin, t)

(* _lookup_tool_def.                                                       *)
Lookup(pin) ==
  IF pin.namespace = Anywhere THEN ToolNamed(pin.name)
  ELSE IF Registered(pin) THEN pin ELSE NoTool

Native(n) == [name |-> n, tool |-> NoTool, version |-> 0]
Wrapper(t, v) == [name |-> t.name, tool |-> t, version |-> v]

IsGantry(e) == e.tool # NoTool
NamesOf(s) == {s[i].name : i \in DOMAIN s}

(* The bridge builds its lists in loops that keep what they want of another*)
(* list, given what they have kept of it so far.                           *)
Keep(wanted, kept, e) == IF wanted THEN Append(kept, e) ELSE kept

FirstOfEachName(s) ==
  FoldLeft(LAMBDA kept, e : Keep(e.name \notin NamesOf(kept), kept, e), <<>>, s)

(* A gantry with tools in some order of registration, and a provider that  *)
(* was constructed on it: the factory refuses a required tool it does not  *)
(* know.                                                                   *)
Init ==
  /\ order \in SetToAllKPermutations(Tools)
  /\ defined = [t \in Tools |-> IF t \in ToSet(order) THEN 1 ELSE 0]
  /\ index = [n \in Names |-> FirstNamed(order, n)]
  /\ \A pin \in Required : Available(pin)
  /\ strategy \in {"per_run", "per_call"}
  /\ cache = [t \in Tools |-> 0]
  /\ pc = [r \in Runs |-> "idle"]
  /\ surface = [r \in Runs |-> <<>>]
  /\ found = [r \in Runs |-> <<>>]
  /\ selections = [r \in Runs |-> <<>>] /\ plain = <<>>
  /\ run = [r \in Runs |-> 0] /\ rounds = [r \in Runs |-> 0]
  /\ changes = 0
-----------------------------------------------------------------------------
(* _collect_tools once the retrieval has answered with `hits`.  A wrapper  *)
(* comes out of the cache when the tool was ever wrapped before.           *)
Wrap(t, v) == Wrapper(t, IF cache[t] = 0 THEN v ELSE cache[t])

Dynamic(hits) ==
  FirstOfEachName([i \in DOMAIN hits |-> Wrap(hits[i].tool, hits[i].version)])

VersionIn(hits, t) ==
  IF \E i \in DOMAIN hits : hits[i].tool = t
    THEN SelectSeq(hits, LAMBDA h : h.tool = t)[1].version
    ELSE defined[t]

(* _wrap_named: a pin is left out when its name, as it was given, is one   *)
(* of those already collected, and those are bare.                         *)
PinsTaken(hits) ==
  LET retrieved == {Bare(n) : n \in NamesOf(Dynamic(hits))}
      Wanted(taken, pin) == pin \notin retrieved \cup ToSet(taken) /\ Lookup(pin) # NoTool
  IN  FoldLeft(LAMBDA taken, pin : Keep(Wanted(taken, pin), taken, pin), <<>>, Pins)

PinTools(hits) ==
  LET pins == PinsTaken(hits)
  IN  [i \in DOMAIN pins |-> Wrap(Lookup(pins[i]), VersionIn(hits, Lookup(pins[i])))]

StaticTools(hits) ==
  LET seen == NamesOf(Dynamic(hits))
                \cup {pin.name : pin \in {q \in ToSet(PinsTaken(hits)) : q.namespace = Anywhere}}
      unseen == FoldLeft(LAMBDA kept, n : Keep(n \notin seen, kept, n), <<>>, Static)
  IN  [i \in DOMAIN unseen |-> Native(unseen[i])]

Collected(hits) == Dynamic(hits) \o PinTools(hits) \o StaticTools(hits)

Cached(entries) ==
  cache' = [t \in Tools |->
              IF \E i \in DOMAIN entries : entries[i].tool = t
                THEN SelectSeq(entries, LAMBDA e : e.tool = t)[1].version
                ELSE cache[t]]

(* The decision of a retrieval that succeeded goes to the run's history    *)
(* and, with all of that history, to the snapshot every reader falls back  *)
(* to.  A decision is its context, the run in it and its round.            *)
Window(s) == IF Len(s) > MaxHistory THEN SubSeq(s, Len(s) - MaxHistory + 1, Len(s)) ELSE s

Snapshot(history, decision) == history

Decided(r) ==
  LET decision == <<r, run[r], rounds[r] + 1>>
      history == Window(Append(selections[r], decision))
  IN  /\ selections' = [selections EXCEPT ![r] = history]
      /\ plain' = Snapshot(history, decision)
      /\ rounds' = [rounds EXCEPT ![r] = @ + 1]
      /\ UNCHANGED run
-----------------------------------------------------------------------------
At(r, from, to) == pc[r] = from /\ pc' = [pc EXCEPT ![r] = to]

Show(r, entries) == surface' = [surface EXCEPT ![r] = entries]

ForeignTools(names) == SetToSeq({Native(n) : n \in names})

(* before_run: the history starts anew.  A per_call provider injects its   *)
(* pins and static tools now and leaves the rest to the rounds; a per_run  *)
(* provider goes and retrieves.                                            *)
(* Slip: the history of the last run in this context is kept.              *)
NewHistorySlip(r) == UNCHANGED <<selections, plain>>
NewHistory(r) ==
  /\ selections' = [selections EXCEPT ![r] = <<>>]
  /\ plain' = <<>>

BeginRun(r) ==
  /\ run[r] < MaxRounds
  /\ run' = [run EXCEPT ![r] = @ + 1]
  /\ rounds' = [rounds EXCEPT ![r] = 0]
  /\ NewHistory(r)

BeginPerCall(r) ==
  /\ strategy = "per_call"
  /\ At(r, "idle", "ready")
  /\ BeginRun(r)
  /\ LET fresh == Collected(<<>>)
     IN  /\ \E names \in SUBSET Natives : Show(r, ForeignTools(names) \o fresh)
         /\ Cached(fresh)
  /\ UNCHANGED <<registry, strategy, found, changes>>

BeginPerRun(r) ==
  /\ strategy = "per_run"
  /\ At(r, "idle", "starting")
  /\ BeginRun(r)
  /\ \E names \in SUBSET Natives : Show(r, ForeignTools(names))
  /\ UNCHANGED <<registry, strategy, cache, found, changes>>

(* The chat middleware of a per_call provider, before a round.             *)
BeginRound(r) ==
  /\ strategy = "per_call"
  /\ At(r, "ready", "refreshing")
  /\ rounds[r] < MaxRounds
  /\ UNCHANGED <<registry, strategy, cache, surface, found, histories, changes>>

(* The store answers with definitions as they are then.                    *)
Hits ==
  {[i \in DOMAIN s |-> [tool |-> s[i], version |-> defined[s[i]]]] :
     s \in {q \in SetToAllKPermutations(ToSet(order)) : Len(q) <= TopK}}

Retrieve(r) ==
  /\ \/ At(r, "starting", "start found")
     \/ At(r, "refreshing", "round found")
  /\ \E hits \in Hits : found' = [found EXCEPT ![r] = hits]
  /\ UNCHANGED <<registry, strategy, cache, surface, histories, changes>>

(* _refresh_tools_on_chat_context: of what the model saw, the gantry's own *)
(* tools make room for this round's; each name is there once, and the list *)
(* is changed in place.                                                    *)
(* Slip: only tools selected again make room.                              *)
MakesRoomSlip(e, fresh) == e.name \in NamesOf(fresh)
MakesRoom(e, fresh) == e.name \in KnownNames /\ e.name \notin ToSet(Static)

Preserved(r, fresh) ==
  FoldLeft(LAMBDA kept, e : Keep(~MakesRoom(e, fresh), kept, e), <<>>, surface[r])

Refreshed(r, fresh) == FirstOfEachName(Preserved(r, fresh) \o fresh)

Forget(r) == found' = [found EXCEPT ![r] = <<>>]

StartFound(r) ==
  /\ At(r, "start found", "ready")
  /\ LET fresh == Collected(found[r])
     IN  Show(r, surface[r] \o fresh) /\ Cached(fresh)
  /\ Decided(r)
  /\ Forget(r)
  /\ UNCHANGED <<registry, strategy, changes>>

RoundFound(r) ==
  /\ At(r, "round found", "ready")
  /\ LET fresh == Collected(found[r])
     IN  Show(r, Refreshed(r, fresh)) /\ Cached(fresh)
  /\ Decided(r)
  /\ Forget(r)
  /\ UNCHANGED <<registry, strategy, changes>>

(* The retrieval fails, or there is no query: the rest is injected all the *)
(* same, and no decision recorded.                                         *)
NothingFound(r) ==
  LET fresh == Collected(<<>>) IN
  /\ \/ At(r, "starting", "ready") /\ Show(r, surface[r] \o fresh)
     \/ At(r, "refreshing", "ready") /\ Show(r, Refreshed(r, fresh))
  /\ Cached(fresh)
  /\ UNCHANGED <<registry, strategy, found, histories, changes>>

(* The run ends, or is cancelled at what it awaits.                        *)
EndRun(r) ==
  /\ pc[r] # "idle"
  /\ pc' = [pc EXCEPT ![r] = "idle"]
  /\ Show(r, <<>>)
  /\ Forget(r)
  /\ UNCHANGED <<registry, strategy, cache, histories, changes>>
-----------------------------------------------------------------------------
(* The program changes its tools meanwhile.                                *)
Changes == changes < MaxChanges /\ changes' = changes + 1

Define(t) ==
  /\ Changes
  /\ \E v \in 1 .. MaxVersion : RegisterTool(t, v)
  /\ UNCHANGED <<strategy, cache, pc, surface, found, histories>>

Delete(t) ==
  /\ Changes
  /\ UnregisterTool(t)
  /\ UNCHANGED <<strategy, cache, pc, surface, found, histories>>

ClearCache ==
  /\ Changes
  /\ cache' = [t \in Tools |-> 0]
  /\ UNCHANGED <<registry, strategy, pc, surface, found, histories>>

Next ==
  \/ \E r \in Runs :
       \/ BeginPerCall(r) \/ BeginPerRun(r) \/ BeginRound(r) \/ Retrieve(r)
       \/ StartFound(r) \/ RoundFound(r) \/ NothingFound(r) \/ EndRun(r)
  \/ \E t \in Tools : Define(t) \/ Delete(t)
  \/ ClearCache

Spec == Init /\ [][Next]_vars
-----------------------------------------------------------------------------
Refreshes(r) == pc[r] \in {"refreshing", "round found"} /\ pc'[r] = "ready"

(* Selections do not pile up: after a refresh the gantry's tools on the    *)
(* surface are this round's selection and the pins, no more than that, and *)
(* every name is there once.  A tool whose name the registry no longer     *)
(* knows, or a static tool has too, is taken for somebody else's and stays.*)
RoundReplacesSelection ==
  [][\A r \in Runs : Refreshes(r) =>
       LET mine == {e \in ToSet(surface'[r]) :
                      IsGantry(e) /\ e.name \in KnownNames \ ToSet(Static)}
       IN  /\ {e.tool : e \in mine} \subseteq
                {found[r][i].tool : i \in DOMAIN found[r]} \cup {Lookup(pin) : pin \in ToSet(Pins)}
           /\ Cardinality(mine) <= TopK + Len(Pins)
           /\ Cardinality(NamesOf(surface'[r])) = Len(surface'[r])]_vars

(* A run's own selections, oldest first, and no other's, however runs      *)
(* overlap; the snapshot for readers elsewhere is one run's history too.   *)
HistoryOf(r, g, last) ==
  LET first == IF last > MaxHistory THEN last - MaxHistory + 1 ELSE 1
  IN  [i \in 1 .. (last - first + 1) |-> <<r, g, first + i - 1>>]

HistoryIsOneRuns ==
  /\ \A r \in Runs : selections[r] = HistoryOf(r, run[r], rounds[r])
  /\ \E r \in Runs : \E g \in 0 .. run[r], last \in 0 .. MaxRounds :
       plain = HistoryOf(r, g, last)
=============================================================================
