------------------------------ MODULE ToolQueries ------------------------------
(***************************************************************************)
(* The ways to ask a gantry for tools: the query each of them makes of     *)
(* what it is asked, and what it makes of the answer.  core/gantry.py      *)
(* (retrieve, preview, retrieve_tools, search_and_execute,                 *)
(* retrieve_mcp_servers) and the GantryToolBridge of                       *)
(* integrations/agent_framework_bridge.py.                                 *)
(*                                                                         *)
(* The bridge has a threshold of its own, a number or a fraction of the    *)
(* best score, and applies it to what the router gives back: the scores it *)
(* compares are the router's final ones, in thousandths.                   *)
(***************************************************************************)
EXTENDS SemanticRouter

CONSTANTS
  Widening,        \* 4 in the code: how many more tools a fraction is taken of
  MostTools,       \* 50 in the code: the greatest limit of a query
  BridgeThreshold  \* the bridge's threshold when none is given

Unset == -1 \* no threshold given
ThresholdType ==
       [kind : {"none"}]
  \cup [kind : {"number", "fraction"}, at : 0..1000]
QueryType ==
  [through : {"retrieve", "preview", "retrieve_tools", "search_and_execute", "bridge"},
   limit : Nat \ {0}, namespaces : SUBSET STRING, category : STRING,
   threshold : 0..10 \cup {Unset},
   cutoff : ThresholdType, \* the bridge's
   requires : SUBSET STRING, excludes : SUBSET STRING,
   skipDeprecated : BOOLEAN, skipBroken : BOOLEAN,
   used : SUBSET STRING, failed : SUBSET STRING, mentions : Nat,
   says : {"intent", "another", "nothing"}, \* what its keywords tell of the intent
   diversity : 0..10, rerank : BOOLEAN]

ASSUME QueryAssumption ==
  /\ Widening \in Nat \ {0} /\ MostTools \in Nat \ {0}
  /\ BridgeThreshold \in ThresholdType

Defaulted(asked, threshold) ==
  [asked EXCEPT !.threshold = IF asked.threshold = Unset THEN threshold ELSE asked.threshold]

(* A ToolQuery by itself leaves out what is less than half similar; the    *)
(* conveniences leave out nothing.                                         *)
retrieve(asked) == Defaulted(asked, 5)
preview(asked) == Defaulted(asked, 0)
retrieve_tools(asked) == Defaulted(asked, 0)
search_and_execute(asked) == Defaulted(asked, 0)

(* Servers are searched for among the pseudo-tools of all of them; their   *)
(* own namespaces are looked at afterwards.                                *)
retrieve_mcp_servers(asked) ==
  [Defaulted(asked, 0) EXCEPT !.namespaces = {ServerNs}, !.category = "any"]

(* The threshold given, or else the bridge's own.                          *)
_parse_threshold(given) ==
  LET c == IF given.kind = "none" THEN BridgeThreshold ELSE given
  IN  [relative |-> c.kind = "fraction", at |-> IF c.kind = "none" THEN 0 ELSE c.at]

(* The store and the router leave out nothing for the bridge, and give a   *)
(* fraction more tools to be taken of.                                     *)
_retrieve(asked) ==
  [asked EXCEPT !.threshold = 0,
                !.limit = IF _parse_threshold(asked.cutoff).relative
                            THEN Min({MostTools, Widening * asked.limit}) ELSE asked.limit]

ToolQuery(asked) ==
  CASE asked.through = "retrieve"           -> retrieve(asked)
    [] asked.through = "preview"            -> preview(asked)
    [] asked.through = "retrieve_tools"     -> retrieve_tools(asked)
    [] asked.through = "search_and_execute" -> search_and_execute(asked)
    [] asked.through = "bridge"             -> _retrieve(asked)

(* Whether a score is within the threshold, when this is the best.         *)
Within(score, best, asked) ==
  LET c == _parse_threshold(asked.cutoff)
  IN  1000 * score >= c.at * (IF c.relative THEN best ELSE 1000)

_apply_threshold(hits, asked) ==
  LET best == Max({0} \cup {h.score : h \in ToSet(hits)})
  IN  Top(Those(hits, LAMBDA h : Within(h.score, best, asked)), asked.limit)

(* What the caller gets, or has executed, of the tools the router chose.   *)
get_tools(hits, asked) ==
  CASE asked.through = "bridge"             -> _apply_threshold(hits, asked)
    [] asked.through = "search_and_execute" -> Top(hits, 1)
    [] OTHER                                -> hits
(* How many that is at most: the bridge's fractions end at MostTools, too.  *)
MostGiven(asked) ==
  CASE asked.through = "search_and_execute" -> 1
    [] asked.through = "bridge"             -> Min({asked.limit, _retrieve(asked).limit})
    [] OTHER                                -> asked.limit

(* Whether the intent may be the one that `fits` is about: the keywords    *)
(* tell, or a model says anything, or fails and nothing is known.          *)
classify_intent(asked) ==
  CASE asked.says = "intent"  -> {TRUE}
    [] asked.says = "another" -> {FALSE}
    [] asked.says = "nothing" -> BOOLEAN
=============================================================================
