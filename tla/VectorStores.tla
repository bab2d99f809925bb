----------------------------- MODULE VectorStores -----------------------------
(***************************************************************************)
(* The tables of a vector store and what each backend makes of a search,   *)
(* agent_gantry/adapters/vector_stores: memory.py, lancedb.py, remote.py.  *)
(*                                                                         *)
(* A table is a sequence of rows; a row is an item and the embedder that   *)
(* made its vector.  An item is one definition of a tool, of the           *)
(* pseudo-tool of an MCP server, or of a skill, and Sheet says what of it  *)
(* matters.  Vectors are reduced to similarities in tenths.  Every backend *)
(* filters, cuts and compares with the threshold in an order of its own;   *)
(* AnswersAreBest of Retrieval holds them all to one reference.            *)
(***************************************************************************)
EXTENDS Integers, Sequences, SequencesExt

CONSTANTS
  Items, \* definitions of tools, of servers' pseudo-tools and of skills
  Sheet  \* what matters of an item; see SheetType

SheetType ==
  [kind : {"tool", "server", "skill"}, ns : STRING, name : STRING,
   sim : 0..10,            \* similarity to the query, by the item's own embedder
   deprecated : BOOLEAN, broken : BOOLEAN, \* broken: its circuit breaker is open
   fits : BOOLEAN,         \* the text matches the intent of the query
   caps : SUBSET STRING,   \* capabilities
   of : STRING]            \* the namespace of a server, the category of a skill

ASSUME SheetAssumption == Sheet \in [Items -> SheetType]

(* The namespace that sets the pseudo-tools of servers apart.              *)
ServerNs == "__mcp_servers__"

(* The records are told apart by "namespace.name" within their table.      *)
IdOf(i) == <<Sheet[i].kind = "skill", Sheet[i].ns, Sheet[i].name>>
Ids == {IdOf(i) : i \in Items}
IdsOf(items) == {IdOf(i) : i \in items}

(* Those elements that P holds of, in their order: SelectSeq, in a form     *)
(* that proofs can expand.                                                 *)
Those(s, P(_)) == FlattenSeq([n \in DOMAIN s |-> IF P(s[n]) THEN <<s[n]>> ELSE <<>>])

Row(i, e) == [item |-> i, made |-> e]
RowId(r) == IdOf(r.item)
Rows(items, e) == [n \in DOMAIN items |-> Row(items[n], e)]
InTable(table, id) == Those(table, LAMBDA r : RowId(r) = id)
Without(table, ids) == Those(table, LAMBDA r : RowId(r) \notin ids)

(* Records addressed by their id: dictionaries, points, primary keys.      *)
Overwritten(table, row) ==
  IF InTable(table, RowId(row)) = <<>> THEN Append(table, row)
  ELSE [n \in DOMAIN table |-> IF RowId(table[n]) = RowId(row) THEN row ELSE table[n]]
(* Slip: an entry that exists keeps its old definition.                    *)
UpsertedSlip(table, rows) ==
  table \o SelectSeq(rows, LAMBDA r : InTable(table, RowId(r)) = <<>>)
Upserted(table, rows) == FoldLeft(Overwritten, table, rows)

(***************************************************************************)
(* Reads: the set of answers a backend may give.  A failure that goes to   *)
(* the caller is no answer; one that is swallowed looks like an empty one. *)
(***************************************************************************)
OfNamespace(table, ns) == Those(table, LAMBDA r : ns = "any" \/ Sheet[r.item].ns = ns)
Page(table, limit, offset) == SubSeq(table, offset + 1, Min({offset + limit, Len(table)}))
Listed(table, ns, limit, offset) == Page(OfNamespace(table, ns), limit, offset)
Counted(table, ns) == Len(OfNamespace(table, ns))
FirstOf(table, id) == Page(InTable(table, id), 1, 0)

MemoryList(table, ns, limit, offset) == {Listed(table, ns, limit, offset)}
LanceList(table, ns, limit, offset) == {Listed(table, ns, limit, offset), <<>>}
ChromaList(table, ns, limit, offset) == {Listed(table, ns, limit, offset), <<>>}
(* The newest first.                                                       *)
PGList(table, ns, limit, offset) == {Listed(Reverse(table), ns, limit, offset)}
(* A scroll's offset is the id of the point to begin at.  The ids are      *)
(* hashes, and every number comes before them: each page is the first one. *)
QdrantList(table, ns, limit, offset) == {Listed(table, ns, limit, 0)}
LanceListSkills(table, ns, limit, offset) == {Listed(table, ns, limit, offset)}

ListAll(backend, table, ns, limit, offset) ==
  CASE backend = "memory" -> MemoryList(table, ns, limit, offset)
    [] backend = "lance"  -> LanceList(table, ns, limit, offset)
    [] backend = "qdrant" -> QdrantList(table, ns, limit, offset)
    [] backend = "chroma" -> ChromaList(table, ns, limit, offset)
    [] backend = "pg"     -> PGList(table, ns, limit, offset)

MemoryCount(table, ns) == {Counted(table, ns)}
LanceCount(table, ns) == {Counted(table, ns), 0}
QdrantCount(table, ns) == {Counted(table, ns)}
(* Chroma counts a whole collection only: with a namespace it fails.       *)
ChromaCount(table, ns) == IF ns = "any" THEN {Counted(table, ns), 0} ELSE {0}
PGCount(table, ns) == {Counted(table, ns)}

Count(backend, table, ns) ==
  CASE backend = "memory" -> MemoryCount(table, ns)
    [] backend = "lance"  -> LanceCount(table, ns)
    [] backend = "qdrant" -> QdrantCount(table, ns)
    [] backend = "chroma" -> ChromaCount(table, ns)
    [] backend = "pg"     -> PGCount(table, ns)

MemoryGet(table, id) == {FirstOf(table, id)}
LanceGet(table, id) == {FirstOf(table, id), <<>>}
QdrantGet(table, id) == {FirstOf(table, id), <<>>}
ChromaGet(table, id) == {FirstOf(table, id), <<>>}
PGGet(table, id) == {FirstOf(table, id)}

Get(backend, table, id) ==
  CASE backend = "memory" -> MemoryGet(table, id)
    [] backend = "lance"  -> LanceGet(table, id)
    [] backend = "qdrant" -> QdrantGet(table, id)
    [] backend = "chroma" -> ChromaGet(table, id)
    [] backend = "pg"     -> PGGet(table, id)

(***************************************************************************)
(* Searches.  A hit is a row's item with its score.  A vector of another   *)
(* embedder scores anything: the model turns its similarity around.        *)
(***************************************************************************)
Similarity(r, e) == IF r.made = e THEN Sheet[r.item].sim ELSE 10 - Sheet[r.item].sim
Hits(table, e) ==
  [n \in DOMAIN table |->
     [item |-> table[n].item, made |-> table[n].made, score |-> Similarity(table[n], e)]]

(* A stable sort: of equal scores the first of the sequence stays first.   *)
Placed(ranked, h) ==
  Those(ranked, LAMBDA g : g.score >= h.score) \o <<h>>
    \o Those(ranked, LAMBDA g : g.score < h.score)
Ranked(hits) == FoldLeft(Placed, <<>>, hits)
Top(hits, n) == SubSeq(hits, 1, Min({n, Len(hits)}))

InNamespaces(h, q) == q.namespaces = {} \/ Sheet[h.item].ns \in q.namespaces
InCategory(h, q) == q.category = "any" \/ Sheet[h.item].of = q.category
Passes(h, q) == h.score >= q.threshold

(* Everything is scored, filtered, sorted and cut.                         *)
MemorySearch(table, e, q, limit) ==
  Top(Ranked(Those(Hits(table, e), LAMBDA h : InNamespaces(h, q) /\ Passes(h, q))), limit)
MemorySkills(table, e, q, limit) ==
  Top(Ranked(Those(Hits(table, e),
               LAMBDA h : InNamespaces(h, q) /\ InCategory(h, q) /\ Passes(h, q))), limit)

(* One predicate goes with the query, which fetches twice what is asked    *)
(* for; the threshold and the limit are applied to what comes back.        *)
LanceFetch(table, e, q, limit) ==
  Top(Ranked(Those(Hits(table, e),
        LAMBDA h : InNamespaces(h, q) /\ InCategory(h, q))), 2 * limit)
LanceSearch(table, e, q, limit) ==
  Top(Those(LanceFetch(table, e, q, limit), LAMBDA h : Passes(h, q)), limit)
LanceSkills(table, e, q, limit) == LanceSearch(table, e, q, limit)

(* The remote stores match one namespace only: a query with a list of them *)
(* is refused by their clients.                                            *)
TakesLists(backend) == backend \in {"memory", "lance"}

(* The server applies the threshold and the limit.                         *)
QdrantSearch(table, e, q, limit) ==
  Top(Ranked(Those(Hits(table, e), LAMBDA h : Passes(h, q))), limit)
(* The server applies the limit, the adapter the threshold.                *)
ChromaSearch(table, e, q, limit) ==
  Those(Top(Ranked(Hits(table, e)), limit), LAMBDA h : Passes(h, q))
PGSearch(table, e, q, limit) ==
  Those(Top(Ranked(Hits(table, e)), limit), LAMBDA h : Passes(h, q))

Searched(backend, table, e, q, limit) ==
  CASE backend = "memory" -> MemorySearch(table, e, q, limit)
    [] backend = "lance"  -> LanceSearch(table, e, q, limit)
    [] backend = "qdrant" -> QdrantSearch(table, e, q, limit)
    [] backend = "chroma" -> ChromaSearch(table, e, q, limit)
    [] backend = "pg"     -> PGSearch(table, e, q, limit)
=============================================================================
