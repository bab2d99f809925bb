------------------------------ MODULE LiveTools ------------------------------
(***************************************************************************)
(* The live providers of agent_gantry/integrations, and the MCP and A2A    *)
(* servers: they select a run's tools anew for every turn and hand them to *)
(* an agent framework or a client, which shows them to its model and brings*)
(* the model's calls back, by name.                                        *)
(*                                                                         *)
(* What a turn shows is the semantic slice and the caller's pins, but each *)
(* framework keeps it in a place of its own: a list or a dictionary shared *)
(* by all runs of the agent, or something made for the turn.  Each has its *)
(* own answer to a retrieval that fails, and its own way from a called     *)
(* name to a tool.  One module has them all, with the framework a value    *)
(* the initial state picks, as the promises are the same for all.          *)
(*                                                                         *)
(* Runs interleave where a selection awaits the store.  Scores decide what *)
(* a retrieval finds; here it may find any registered tools, at most Limit.*)
(***************************************************************************)
EXTENDS ToolRegistry, Folds

CONSTANTS
  Runs,          \* runs of one agent, which may overlap
  Limit,         \* limit
  Required,      \* required: a sequence of pins
  AlwaysInclude, \* always_include: a sequence of pins
  MaxTurns,      \* bound on the turns of all runs together
  MaxChanges     \* bound on registrations and deletions

Anywhere == "any namespace"

ASSUME LiveAssumption ==
  /\ Limit \in Nat \ {0}
  /\ MaxTurns \in Nat /\ MaxChanges \in Nat
  /\ Required \in Seq(Range(Required)) /\ AlwaysInclude \in Seq(Range(AlwaysInclude))

(* A pin is a qualified name or, with `Anywhere`, a bare one.              *)
Bare(n) == [namespace |-> Anywhere, name |-> n]

(* Where a selection is kept: on the agent, for all its runs and turns; in *)
(* what is made for a turn; in an agent built for one call; nowhere, as a  *)
(* loop of the caller's gets schemas; or with the client of a server.      *)
Shared == {"openai_agents", "openai_session", "strands", "pydantic_ai"}
PerTurn == {"langgraph", "google_adk", "llamaindex"}
PerCall == {"crewai", "agno", "haystack", "dspy", "static"}
OwnLoop == {"semantic_tools", "refresher"}
Servers == {"mcp_dynamic", "mcp_static", "a2a"}
AgentsSDK == {"openai_agents", "openai_session"}

ByName == {"strands", "pydantic_ai"}   \* one dictionary, shared by all runs

VARIABLES
  framework, \* the framework, loop or server through which the model is reached
  pinned,    \* whether it was given the pins
  superset,  \* langgraph: the tools its ToolNode was built with, one of each name
  current,   \* the shared surface: agent.tools, tool_registry or _selected
  active,    \* strands: _active_names
  pc,        \* where each run is
  found,     \* what the retrieval under way has found, a sequence of tools
  shown,     \* the tools the model of each run sees
  latest,    \* history: the latest selection applied to the surface, a set
  disturbed, \* history: another run has replaced what this run was shown
  turns,     \* turns so far
  changes    \* changes of the registry so far

agent == <<framework, pinned, superset>>
shared == <<current, active, latest, disturbed>>
own == <<pc, found, shown>>
vars == <<registry, agent, shared, own, turns, changes>>

NamesIn(S) == {t.name : t \in S}
Named(S, n) == {t \in S : t.name = n}

(* Of several tools of one name a dictionary keeps the last.               *)
LastOfEachName(s) ==
  {s[i] : i \in {i \in DOMAIN s : \A j \in DOMAIN s : j > i => s[j].name # s[i].name}}

(* The ToolNode that create_agent builds from _all_tools keeps one tool of *)
(* a name.                                                                 *)
Supersets(all) ==
  {S \in SUBSET all : \A n \in NamesIn(all) : Cardinality(Named(S, n)) = 1}

Init ==
  /\ order \in SetToAllKPermutations(Tools)
  /\ defined = [t \in Tools |-> IF Contains(order, t) THEN 1 ELSE 0]
  /\ index = [n \in Names |-> FirstNamed(order, n)]
  /\ framework \in Shared \cup PerTurn \cup PerCall \cup OwnLoop \cup Servers
  /\ pinned \in IF framework \in OwnLoop \cup Servers THEN {FALSE} ELSE BOOLEAN
  /\ superset \in IF framework = "langgraph" THEN Supersets(Range(order)) ELSE {{}}
  /\ current = {} /\ active = {} /\ latest = {}
  /\ disturbed = [r \in Runs |-> FALSE]
  /\ pc = [r \in Runs |-> "idle"]
  /\ found = [r \in Runs |-> <<>>]
  /\ shown = [r \in Runs |-> {}]
  /\ turns = 0
  /\ changes = 0

-----------------------------------------------------------------------------
(* Selection                                                               *)

(* _resolve_tool_names.                                                    *)
Resolved(pin) ==
  IF pin.namespace = Anywhere THEN FirstNamed(order, pin.name)
  ELSE IF Registered(pin) THEN pin ELSE NoTool

(* _pin_specs: a qualified pin is there when that very tool is, a bare one *)
(* when any tool of the name is.                                           *)
(* Slip: any tool of the name will do for both.                            *)
PresentSlip(s, pin) == pin.name \in NamesIn(Range(s))
Present(s, pin) ==
  \/ Resolved(pin) \in Range(s)
  \/ pin.namespace = Anywhere /\ pin.name \in NamesIn(Range(s))

(* _resolve_pins, after the slice and not counted against its limit.       *)
AddPin(kept, pin) ==
  IF Resolved(pin) = NoTool \/ Present(kept, pin) THEN kept
  ELSE Append(kept, Resolved(pin))

WithPins(s) == FoldLeft(AddPin, s, Required \o AlwaysInclude)

RequiredMissing ==
  pinned /\ \E i \in DOMAIN Required : Resolved(Required[i]) = NoTool

Selection(s) == IF pinned THEN WithPins(s) ELSE s

(* What a provider's selection comes to: tools, a failure of the retrieval *)
(* or MissingRequiredToolError.                                            *)
Selected(s) == [how |-> IF RequiredMissing THEN "missing" ELSE "selected",
                tools |-> IF RequiredMissing THEN <<>> ELSE Selection(s)]
Failed == [how |-> "failed", tools |-> <<>>]

-----------------------------------------------------------------------------
(* What the providers make of it                                           *)

(* The error goes to the caller, and the run ends.                         *)
Raises(r) ==
  /\ pc' = [pc EXCEPT ![r] = "failed"]
  /\ found' = [found EXCEPT ![r] = <<>>]
  /\ shown' = [shown EXCEPT ![r] = {}]
  /\ UNCHANGED shared

(* The model of the run is called with these tools.                        *)
Called(r, S) ==
  /\ pc' = [pc EXCEPT ![r] = "idle"]
  /\ found' = [found EXCEPT ![r] = <<>>]
  /\ shown' = [shown EXCEPT ![r] = S]

(* A surface of the agent's is replaced, or kept, and this run has seen it.*)
Replaced(r, S, s) ==
  /\ current' = S /\ latest' = Range(s)
  /\ disturbed' = [q \in Runs |-> q # r /\ (disturbed[q] \/ framework \in ByName)]
Kept(r) ==
  /\ UNCHANGED <<current, latest, active>>
  /\ disturbed' = [disturbed EXCEPT ![r] = FALSE]

(* Where nothing is kept a failure of the retrieval is a turn without tools*)
(* or the caller's to handle.                                              *)
EmptyOnFailure(r, o) ==
  IF o.how = "missing" THEN Raises(r)
  ELSE Called(r, Range(o.tools)) /\ UNCHANGED shared
RaiseOnFailure(r, o) ==
  IF o.how # "selected" THEN Raises(r)
  ELSE Called(r, Range(o.tools)) /\ UNCHANGED shared

(* OpenAI Agents SDK: agent.tools[:] = tools, in the hook or the session.  *)
(* The SDK reads agent.tools at the start of a turn, so that what the hook *)
(* selects is for the next one.                                            *)
_refresh_agent_tools(r, o) ==
  IF o.how = "missing" THEN Raises(r)
  ELSE /\ pc' = [pc EXCEPT ![r] = "selected"]
       /\ found' = [found EXCEPT ![r] = <<>>]
       /\ IF o.how = "failed" THEN UNCHANGED <<current, latest>>
          ELSE current' = Range(o.tools) /\ latest' = Range(o.tools)
       /\ UNCHANGED <<shown, active, disturbed>>

(* Strands: what fell out is popped by its name, and what is selected is   *)
(* registered in place of what had its name.                               *)
(* Slip: a turn that selected nothing leaves the registry alone.           *)
SwappedSlip(s) ==
  LET new == NamesIn(Range(s))
      stale == IF s = <<>> THEN {} ELSE active \ new
  IN  {t \in current : t.name \notin stale \cup new} \cup LastOfEachName(s)
Swapped(s) ==
  LET new == NamesIn(Range(s))
      stale == active \ new
  IN  {t \in current : t.name \notin stale \cup new} \cup LastOfEachName(s)

_on_before_model_call(r, o) ==
  CASE o.how = "missing" -> Raises(r)
    [] o.how = "failed" -> Called(r, current) /\ Kept(r)
    [] o.how = "selected" ->
         \E S \in {Swapped(o.tools)} :
           /\ Replaced(r, S, o.tools) /\ Called(r, S)
           /\ active' = NamesIn(Range(o.tools))

(* Pydantic AI: the dictionary self._selected, and one of the turn's.      *)
(* Slip: a name that is selected already keeps its tool.                   *)
CachedSlip(s) ==
  LET new == NamesIn(Range(s))
  IN  {t \in current : t.name \in new}
        \cup {t \in LastOfEachName(s) : t.name \notin NamesIn(current)}
Cached(s) == LastOfEachName(s)

get_tools(r, o) ==
  CASE o.how = "missing" -> Raises(r)
    [] o.how = "failed" -> Called(r, current) /\ Kept(r)
    [] o.how = "selected" ->
         /\ Replaced(r, Cached(o.tools), o.tools)
         /\ Called(r, LastOfEachName(o.tools))
         /\ UNCHANGED active

(* LangGraph: an override for the turn, which create_agent refuses when it *)
(* has a name the ToolNode does not know.                                  *)
_select_tools_for_state(r, o) ==
  IF NamesIn(Range(o.tools)) \subseteq NamesIn(superset) THEN EmptyOnFailure(r, o)
  ELSE Raises(r)

(* Google ADK: declarations of the request under way.                      *)
_inject_selected_tools(r, o) == EmptyOnFailure(r, o)

(* LlamaIndex: the tools of one step.                                      *)
aretrieve(r, o) == EmptyOnFailure(r, o)

(* with_semantic_tools: an argument of the wrapped function, which is      *)
(* called without one if there is nothing to inject.                       *)
wrap_async(r, o) == EmptyOnFailure(r, o)

(* The builders make a new agent, invoker or module of the selection.      *)
GantryLiveCrewAgent_build(r, o) == RaiseOnFailure(r, o)
GantryLiveAgnoAgent_build(r, o) == RaiseOnFailure(r, o)
GantryLiveHaystackToolInvoker_build(r, o) == RaiseOnFailure(r, o)
GantryLiveDSPyReAct_build(r, o) == RaiseOnFailure(r, o)

(* The static slice of any adapter, and ToolRefresher's for a loop.        *)
BaseFrameworkAdapter_select(r, o) == RaiseOnFailure(r, o)
refresh_specs(r, o) == RaiseOnFailure(r, o)

(* The servers tell a client what there is.                                *)
_handle_find_relevant_tools(r, o) == RaiseOnFailure(r, o)
_list_tools(r, o) == RaiseOnFailure(r, o)
handle_tool_discovery(r, o) == RaiseOnFailure(r, o)

Takes(r, o) ==
  CASE framework \in AgentsSDK -> _refresh_agent_tools(r, o)
    [] framework = "strands" -> _on_before_model_call(r, o)
    [] framework = "pydantic_ai" -> get_tools(r, o)
    [] framework = "langgraph" -> _select_tools_for_state(r, o)
    [] framework = "google_adk" -> _inject_selected_tools(r, o)
    [] framework = "llamaindex" -> aretrieve(r, o)
    [] framework = "semantic_tools" -> wrap_async(r, o)
    [] framework = "crewai" -> GantryLiveCrewAgent_build(r, o)
    [] framework = "agno" -> GantryLiveAgnoAgent_build(r, o)
    [] framework = "haystack" -> GantryLiveHaystackToolInvoker_build(r, o)
    [] framework = "dspy" -> GantryLiveDSPyReAct_build(r, o)
    [] framework = "static" -> BaseFrameworkAdapter_select(r, o)
    [] framework = "refresher" -> refresh_specs(r, o)
    [] framework = "mcp_dynamic" -> _handle_find_relevant_tools(r, o)
    [] framework = "mcp_static" -> _list_tools(r, o)
    [] framework = "a2a" -> handle_tool_discovery(r, o)

-----------------------------------------------------------------------------
(* A turn                                                                  *)

(* A static slice is selected once.                                        *)
CanSelect(r) ==
  /\ pc[r] = "idle" /\ turns < MaxTurns
  /\ framework = "static" => shown[r] = {}

(* gantry.retrieve, or gantry.list_tools, which has no limit.              *)
Finds(r) ==
  \E S \in {S \in SUBSET Range(order) : IF framework = "mcp_static" THEN S = Range(order)
                                       ELSE Cardinality(S) <= Limit} :
    \E s \in SetToSeqs(S) : found' = [found EXCEPT ![r] = s]

Search(r) ==
  /\ CanSelect(r) /\ turns' = turns + 1
  /\ pc' = [pc EXCEPT ![r] = "searching"]
  /\ Finds(r)
  /\ UNCHANGED <<registry, agent, shared, shown, changes>>

Select(r) ==
  /\ pc[r] = "searching"
  /\ Takes(r, Selected(found[r]))
  /\ UNCHANGED <<registry, agent, turns, changes>>

SelectionFails(r) ==
  /\ pc[r] = "searching"
  /\ Takes(r, Failed)
  /\ UNCHANGED <<registry, agent, turns, changes>>

(* select_or_empty with nothing to search for awaits nothing and finds the *)
(* pins alone; a per-call selection and a server search for whatever comes.*)
BlankTurn(r) ==
  /\ framework \notin PerCall \cup Servers
  /\ CanSelect(r) /\ turns' = turns + 1
  /\ Takes(r, Selected(<<>>))
  /\ UNCHANGED <<registry, agent, changes>>

(* The SDK's snapshot at the start of a turn: on_llm_start comes next, but *)
(* for a session whose caller has hooks of his own, where a turn of a run  *)
(* only reads agent.tools again.                                           *)
Snapshot(r) ==
  /\ framework \in AgentsSDK
  /\ pc[r] \in IF framework = "openai_session" THEN {"selected", "idle"} ELSE {"selected"}
  /\ Called(r, current)
  /\ UNCHANGED <<registry, agent, shared, turns, changes>>

-----------------------------------------------------------------------------
(* A call by the model                                                     *)

(* Calls come with the model's answer, after the selection of the turn.    *)
CanCall(r, n) ==
  /\ pc[r] = IF framework = "openai_agents" THEN "selected" ELSE "idle"
  /\ n \in NamesIn(shown[r])

call_tool(n) == Named(current, n)

(* execute_tool_calls, execute_tool and the A2A skill have only the name.  *)
execute_tool(n) == {ToolNamed(n)} \ {NoTool}

(* The tools one may reach: what was shown has its own way back, except    *)
(* for the dictionaries and for the loops that execute by a bare name.  It *)
(* changes nothing here, unless _selected has no such name.                *)
Reaches(r, n) ==
  IF framework \in ByName THEN call_tool(n)
  ELSE IF framework \in OwnLoop \cup Servers THEN execute_tool(n)
  ELSE Named(IF framework = "langgraph" THEN superset ELSE shown[r], n)

(* call_tool then selects again for this run and looks once more.          *)
CallSelectsAgain(r, n) ==
  /\ framework = "pydantic_ai"
  /\ CanCall(r, n) /\ Reaches(r, n) = {}
  /\ turns < MaxTurns /\ turns' = turns + 1
  /\ pc' = [pc EXCEPT ![r] = "again"]
  /\ Finds(r)
  /\ UNCHANGED <<registry, agent, shared, shown, changes>>

CallResumes(r) ==
  /\ pc[r] = "again"
  /\ IF RequiredMissing THEN Raises(r)
     ELSE \E s \in {Selection(found[r])} :
            /\ current' = Cached(s) /\ latest' = Range(s)
            /\ disturbed' = [q \in Runs |-> TRUE]
            /\ pc' = [pc EXCEPT ![r] = "idle"]
            /\ found' = [found EXCEPT ![r] = <<>>]
            /\ UNCHANGED <<shown, active>>
  /\ UNCHANGED <<registry, agent, turns, changes>>

CallFails(r) ==
  /\ pc[r] = "again"
  /\ pc' = [pc EXCEPT ![r] = "idle"]
  /\ found' = [found EXCEPT ![r] = <<>>]
  /\ UNCHANGED <<registry, agent, shared, shown, turns, changes>>

-----------------------------------------------------------------------------
(* The registry changes under the runs                                     *)

Register(t) ==
  /\ ~ Registered(t)
  /\ changes < MaxChanges /\ changes' = changes + 1
  /\ RegisterTool(t, 1)
  /\ UNCHANGED <<agent, shared, own, turns>>

Delete(t) ==
  /\ changes < MaxChanges /\ changes' = changes + 1
  /\ UnregisterTool(t)
  /\ UNCHANGED <<agent, shared, own, turns>>

Next ==
  \/ \E r \in Runs :
       \/ Search(r) \/ Select(r) \/ BlankTurn(r) \/ SelectionFails(r) \/ Snapshot(r)
       \/ \E n \in Names : CallSelectsAgain(r, n)
       \/ CallResumes(r) \/ CallFails(r)
  \/ \E t \in Tools : Register(t) \/ Delete(t)

Spec == Init /\ [][Next]_vars

-----------------------------------------------------------------------------
(* Properties                                                              *)

Rivals(r, n) ==
  Named({t \in Tools : Registered(t)} \cup superset \cup shown[r], n)

(* The way back from a name is the run's own: nobody has replaced what it  *)
(* was shown, and where only the name travels it means one tool.           *)
Unmistakable(r, n) ==
  /\ framework \in ByName => ~ disturbed[r]
  /\ framework \in OwnLoop \cup Servers \cup {"langgraph"} => Cardinality(Rivals(r, n)) = 1

(* A call reaches a tool that the model was shown under the name it called *)
(* and, while one of them is registered, never nothing: whatever selection,*)
(* failure, registration or deletion came between the showing and the call.*)
(* The tools of a name in two namespaces are not mixed up, as long as the  *)
(* name is unmistakable.                                                   *)
CallsReachWhatWasShown ==
  \A r \in Runs : \A n \in Names : CanCall(r, n) /\ Unmistakable(r, n) =>
    LET meant == Named(shown[r], n)
    IN  /\ Reaches(r, n) \subseteq meant
        /\ Reaches(r, n) = {} => \A t \in meant : ~ Registered(t)

(* A model that sees any tools sees every required one, whatever was found,*)
(* however full the limit, after failed and blank turns, and in another    *)
(* run's turn.  A dictionary keyed by bare names has room for one tool of  *)
(* a name, and there a tool of that name is all that is promised.          *)
Meets(t, pin) ==
  /\ t.name = pin.name
  /\ pin.namespace \in {Anywhere, t.namespace} \/ framework \in ByName

RequiredIsShown ==
  pinned =>
    \A r \in Runs : shown[r] # {} =>
      \A i \in DOMAIN Required : \E t \in shown[r] : Meets(t, Required[i])

(* The shared surface is the latest selection that succeeded: of those     *)
(* before nothing stays, by whichever run they were, and nothing of the    *)
(* latest is lost but for a name that was selected twice.                  *)
NothingStaleStays ==
  /\ current \subseteq latest
  /\ NamesIn(current) = NamesIn(latest)
=============================================================================
