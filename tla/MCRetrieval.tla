----------------------------- MODULE MCRetrieval -----------------------------
(***************************************************************************)
(* TLC's instance of Retrieval: two versions of default.a, a tool of the   *)
(* same bare name in another namespace, one that is deprecated later, two  *)
(* MCP servers and three skills, one of them in two versions.              *)
(***************************************************************************)
EXTENDS Retrieval, TLC

Plain(kind, ns, name, sim) ==
  [kind |-> kind, ns |-> ns, name |-> name, sim |-> sim, deprecated |-> FALSE,
   broken |-> FALSE, fits |-> FALSE, caps |-> {}, of |-> "none"]

MCItems == {"a1", "a2", "b", "c", "s1", "s2", "k1", "k2", "m", "o"}
MCSheet ==
  "a1" :> [Plain("tool", "default", "a", 8) EXCEPT !.caps = {"read"}]
    @@ "a2" :> [Plain("tool", "default", "a", 3) EXCEPT !.deprecated = TRUE]
    @@ "b" :> Plain("tool", "other", "a", 7)
    @@ "c" :> [Plain("tool", "default", "c", 6) EXCEPT !.broken = TRUE, !.fits = TRUE,
                                                   !.caps = {"read", "write"}]
    @@ "s1" :> [Plain("server", ServerNs, "s1", 5) EXCEPT !.of = "default"]
    @@ "s2" :> [Plain("server", ServerNs, "s2", 4) EXCEPT !.of = "other"]
    @@ "k1" :> [Plain("skill", "default", "k", 7) EXCEPT !.of = "how_to"]
    @@ "k2" :> [Plain("skill", "default", "k", 4) EXCEPT !.of = "pattern"]
    @@ "m" :> [Plain("skill", "default", "m", 6) EXCEPT !.of = "how_to"]
    @@ "o" :> [Plain("skill", "other", "o", 8) EXCEPT !.of = "how_to"]

(* a1, b and c differ in how near they are, so that diversity decides.     *)
MCNear == [p \in MCItems \X MCItems |->
  IF p[1] = p[2] THEN 10
  ELSE IF {p[1], p[2]} = {"a1", "b"} THEN 9
  ELSE IF {p[1], p[2]} = {"b", "s1"} THEN 8
  ELSE IF {p[1], p[2]} = {"a1", "c"} THEN 2 ELSE 1]

Ask(n) ==
  [through |-> "retrieve", limit |-> n, namespaces |-> {}, category |-> "any",
   threshold |-> Unset, cutoff |-> [kind |-> "none"], says |-> "nothing",
   requires |-> {}, excludes |-> {}, skipDeprecated |-> TRUE, skipBroken |-> FALSE,
   used |-> {}, failed |-> {}, mentions |-> 0, diversity |-> 0, rerank |-> FALSE]
MCBridgeThreshold == [kind |-> "number", at |-> 550]
Retrieve(q) == [does |-> "retrieve", query |-> q]

Changes ==
  {[does |-> "add", items |-> <<"a2", "c">>],
   [does |-> "delete", items |-> <<"a1">>],
   [does |-> "add", items |-> <<"k2", "k1">>],
   [does |-> "delete", items |-> <<"k1">>]}
Searches ==
  {Retrieve([Ask(2) EXCEPT !.through = "retrieve_tools", !.says = "another",
                           !.rerank = TRUE, !.failed = {"a"}, !.diversity = 5,
                           !.namespaces = {"default", ServerNs}, !.requires = {"read"}]),
   [does |-> "servers", query |-> [Ask(1) EXCEPT !.category = "other"]],
   [does |-> "skills", query |-> [Ask(2) EXCEPT !.namespaces = {"default"},
                                                !.category = "how_to"]]}
OtherWays ==
  {Retrieve([Ask(3) EXCEPT !.threshold = 2, !.diversity = 6, !.skipDeprecated = FALSE,
                           !.used = {"a"}, !.mentions = 1, !.skipBroken = TRUE, !.excludes = {"write"}]),
   Retrieve([Ask(2) EXCEPT !.through = "preview", !.threshold = 6, !.says = "another"]),
   Retrieve([Ask(2) EXCEPT !.through = "search_and_execute", !.says = "intent"]),
   Retrieve([Ask(1) EXCEPT !.through = "bridge", !.says = "intent",
                           !.cutoff = [kind |-> "fraction", at |-> 800]]),
   Retrieve([Ask(2) EXCEPT !.through = "bridge", !.says = "another"])}

(* LanceDB has by far the most steps, and the ways to ask are no different *)
(* with it; only there is it another thing to repeat an id in a batch.     *)
MCRequests ==
  [b \in Backends |-> Changes \cup Searches \cup
     IF b = "lance" THEN {[does |-> "add", items |-> <<"k2">>]} ELSE OtherWays]

(* Three with memory: a search, a write, and a search on the cached matrix. *)
MCMaxRequests == [b \in Backends |-> IF b = "memory" THEN 3 ELSE 2]

Alike == Permutations(Tasks) \cup Permutations(Embedders)

MCFormer == {[tools |-> <<"a1", "b", "s1", "s2">>, skills |-> <<"m", "o", "k1">>]}
=============================================================================
