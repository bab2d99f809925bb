------------------------------- MODULE Retrieval -------------------------------
(***************************************************************************)
(* A gantry in front of its vector store: the tasks of one process add,    *)
(* delete and search tools, MCP servers and skills.  core/gantry.py        *)
(* (retrieve, the skill operations and the one-shot migration of skills),  *)
(* core/router.py, core/mcp_router.py and the stores of                    *)
(* adapters/vector_stores with the awaits of each.                         *)
(*                                                                         *)
(* A crash starts a new process, perhaps with another embedder, over what  *)
(* a persistent store kept.  Which tools are added, and that they are      *)
(* embedded again when the embedder changes, is ToolSync's.  A task that   *)
(* fails or is cancelled raises to its caller and is idle again.  An await *)
(* of an embedding, which changes nothing kept here, is part of the step   *)
(* before it.                                                              *)
(***************************************************************************)
EXTENDS ToolQueries, FiniteSets

CONSTANTS
  Tasks,      \* tasks of the event loop
  NoTask,     \* nobody holds the lock
  NoItem,     \* nothing is stored
  Backends,   \* subset of {"memory", "lance", "qdrant", "chroma", "pg"}
  Embedders,  \* identifiers of embedders
  Requests,   \* per backend, what callers ask for; see RequestType
  Former,     \* tables of tools and skills that earlier processes left
  ListLimit,  \* the limit of a listing when none is given
  MaxRequests, \* per backend, bound on the requests
  MaxCrashes   \* bound on crashes

(* A batch is of tools and servers, or of skills; only these two have a    *)
(* category, and only tools are asked for in several ways.                 *)
OneKind(items) ==
  \A m, n \in DOMAIN items : (Sheet[items[m]].kind = "skill") = (Sheet[items[n]].kind = "skill")
RequestType ==
       [does : {"add", "delete"}, items : {s \in Seq(Items) : s # <<>> /\ OneKind(s)}]
  \cup [does : {"retrieve"}, query : {q \in QueryType : q.category = "any"}]
  \cup [does : {"servers", "skills"}, query : {q \in QueryType : q.through = "retrieve"}]

ASSUME RetrievalAssumption ==
  /\ NoTask \notin Tasks /\ NoItem \notin Items
  /\ Backends \subseteq {"memory", "lance", "qdrant", "chroma", "pg"}
  /\ \A b \in Backends : Requests[b] # {} /\ Requests[b] \subseteq RequestType
  /\ ListLimit \in Nat \ {0}
  /\ MaxRequests \in [Backends -> Nat] /\ MaxCrashes \in Nat
  /\ \A f \in Former :
       /\ f.tools \in Seq({i \in Items : Sheet[i].kind # "skill"})
       /\ f.skills \in Seq({i \in Items : Sheet[i].kind = "skill"})
       /\ \A items \in {f.tools, f.skills} : \A m, n \in DOMAIN items :
            IdOf(items[m]) = IdOf(items[n]) => m = n

VARIABLES
  \* the store
  backend,
  tools, skills, \* its tables
  there,         \* whether the table of tools exists
  columns,       \* "old" while the table of tools lacks columns of the present schema
  marker,        \* metadata: the embedders the skills are known to be by, at most one
  \* the process
  embedder, opened, checked, lock,
  toolMatrix, skillMatrix, \* memory's caches: at most one table each
  task,          \* per task: where it is, what it was asked, what it has
  running,       \* tasks whose intent is still being resolved
  requests, crashes,
  \* history
  should,        \* by id, the item of the last write that completed
  disturbed,     \* ids whose writes overlapped, or failed half way
  torn,          \* ids a migration deleted and did not put back
  unmarked       \* ids a migration embedded again that ended before its marker

store == <<tools, skills, there, columns, marker>>
process == <<embedder, opened, checked, lock, running>>
matrices == <<toolMatrix, skillMatrix>>
bounds == <<requests, crashes>>
history == <<should, disturbed, torn, unmarked>>
vars == <<backend, store, process, matrices, task, bounds, history>>

AnyRequest == CHOOSE r \in Requests[backend] : TRUE
Idle == [pc |-> "idle", request |-> AnyRequest, hits |-> <<>>, seen |-> <<>>,
         listed |-> <<>>, intent |-> FALSE]

Persistent == backend # "memory"
Remote == backend \in {"qdrant", "chroma", "pg"}
ForSkills(request) ==
  request.does = "skills" \/
  (request.does \in {"add", "delete"} /\ Sheet[request.items[1]].kind = "skill")
Contents(t) == IF ForSkills(task[t].request) THEN skills ELSE tools
Item(table, id) ==
  IF InTable(table, id) = <<>> THEN NoItem ELSE InTable(table, id)[1].item

(* A store from before there was a marker is one by another embedder.      *)
Init ==
  /\ backend \in Backends
  /\ embedder \in Embedders
  /\ there \in IF Remote THEN BOOLEAN ELSE {TRUE}
  /\ \E f \in Former, e \in Embedders :
       /\ tools = IF Persistent /\ there THEN Rows(f.tools, embedder) ELSE <<>>
       /\ skills = IF backend = "lance" THEN Rows(f.skills, e) ELSE <<>>
       /\ marker = IF skills = <<>> THEN {} ELSE {e}
  /\ columns \in IF backend = "lance" /\ tools # <<>> THEN {"old", "new"} ELSE {"new"}
  /\ opened = FALSE /\ checked = FALSE /\ lock = NoTask
  /\ toolMatrix = {} /\ skillMatrix = {} /\ running = {}
  /\ task = [t \in Tasks |-> Idle]
  /\ requests = 0 /\ crashes = 0
  /\ should = [id \in Ids |-> Item(tools \o skills, id)]
  /\ disturbed = {} /\ torn = {} /\ unmarked = {}

Goes(t, pc) == task' = [task EXCEPT ![t].pc = pc]
Ends(t) == task' = [task EXCEPT ![t] = Idle]
At(t, pc) == task[t].pc = pc

(* Where a request goes once the store is open.                            *)
FirstStep(request) ==
  CASE request.does = "retrieve" -> "route"
    [] request.does = "servers"  -> "search"
    [] request.does = "delete"   -> "delete"
    [] request.does = "skills"   -> "check"
    [] request.does = "add"      -> IF ForSkills(request) THEN "check" ELSE "write"

(* A caller asks for something.  The remote stores keep no skills.         *)
Begin(t) ==
  /\ At(t, "idle") /\ requests < MaxRequests[backend]
  /\ \E r \in Requests[backend] :
       /\ ForSkills(r) => backend \in {"memory", "lance"}
       /\ task' = [task EXCEPT ![t] =
            [Idle EXCEPT !.request = r,
                         !.pc = IF Persistent /\ ~opened THEN "open" ELSE FirstStep(r)]]
  /\ requests' = requests + 1
  /\ UNCHANGED <<backend, store, process, matrices, crashes, history>>

ToolIds == {id \in Ids : ~id[1]}
Opening(u) == task[u].pc \in {"drop", "create", "fill"}

(* Ids a task is between deleting and putting back, or will put back.      *)
Rewriting(u) ==
  CASE At(u, "insert") -> IdsOf(ToSet(task[u].request.items))
    [] task[u].pc \in {"migrate", "putback"} ->
         {RowId(r) : r \in ToSet(task[u].listed)}
    [] Opening(u) -> ToolIds
    [] OTHER -> {}
(* A step of t on these ids: fresh when it starts by deleting them, unless *)
(* another task is rewriting them.                                         *)
Crossed(t, ids) == ids \cap UNION {Rewriting(u) : u \in Tasks \ {t}}
Touch(t, ids, fresh) ==
  disturbed' = (IF fresh THEN disturbed \ ids ELSE disturbed) \cup Crossed(t, ids)
(* Of an id that a batch has more than once, the last counts.              *)
Completes(items) ==
  should' = [id \in Ids |->
    LET at == {n \in DOMAIN items : IdOf(items[n]) = id}
    IN  IF at = {} THEN should[id] ELSE items[Max(at)]]
Repeated(items) ==
  {IdOf(items[p[1]]) : p \in {q \in (DOMAIN items) \X (DOMAIN items) :
     q[1] # q[2] /\ IdOf(items[q[1]]) = IdOf(items[q[2]])}}

(* The tables and memory's caches after a write of t's request.            *)
Becomes(t, table) ==
  IF ForSkills(task[t].request)
    THEN skills' = table /\ UNCHANGED tools
    ELSE tools' = table /\ UNCHANGED skills
Invalidated(t) ==
  IF ForSkills(task[t].request)
    THEN skillMatrix' = {} /\ UNCHANGED toolMatrix
    ELSE toolMatrix' = {} /\ UNCHANGED skillMatrix

(***************************************************************************)
(* Opening a remote store.  Whatever fails of it raises to the caller, and *)
(* what it asked of the server may have been done all the same.            *)
(***************************************************************************)
Opens(t) == opened' = TRUE /\ Goes(t, FirstStep(task[t].request))
OpeningChanges == <<backend, tools, skills, columns, marker, embedder, checked, lock, running,
                    matrices, bounds, history>>

(* The collection is looked for, and created when it is not there; it is   *)
(* an error to create it again.                                            *)
OpenQdrant(t) ==
  /\ backend = "qdrant"
  /\ \/ At(t, "open") /\ there /\ Opens(t) /\ UNCHANGED there
     \/ At(t, "open") /\ ~there /\ Goes(t, "make") /\ UNCHANGED <<there, opened>>
     \/ At(t, "make") /\ ~there /\ there' = TRUE /\ Opens(t)
  /\ UNCHANGED OpeningChanges

OpenChroma(t) ==
  /\ backend = "chroma" /\ At(t, "open")
  /\ there' = TRUE /\ Opens(t)
  /\ UNCHANGED OpeningChanges

(* A pool of connections first, and then whatever does not exist.          *)
OpenPG(t) ==
  /\ backend = "pg"
  /\ \/ At(t, "open") /\ Goes(t, "make") /\ UNCHANGED <<there, opened>>
     \/ At(t, "make") /\ there' = TRUE /\ Opens(t)
  /\ UNCHANGED OpeningChanges

RemoteOpeningFails(t) ==
  /\ Remote /\ task[t].pc \in {"open", "make"}
  /\ there' \in {there, there \/ At(t, "make") \/ backend = "chroma"}
  /\ Ends(t)
  /\ UNCHANGED <<opened, OpeningChanges>>

(***************************************************************************)
(* Opening a LanceDB database.  The flag is looked at before the awaits    *)
(* and set after them, so two first users open it side by side.  A table   *)
(* of an old schema is read, dropped, created and filled again; whatever   *)
(* fails of that is logged and the store opens all the same.               *)
(***************************************************************************)
Open(t) ==
  /\ backend = "lance" /\ At(t, "open")
  /\ IF columns = "new" /\ there
       THEN Opens(t) /\ UNCHANGED <<store, history>>
       ELSE IF ~there \* a process finds no table and makes one
       THEN /\ there' = TRUE /\ columns' = "new" /\ tools' = <<>>
            /\ Opens(t)
            /\ UNCHANGED <<skills, marker, history>>
       ELSE /\ task' = [task EXCEPT ![t].pc = "drop", ![t].listed = tools]
            /\ UNCHANGED <<store, opened, history>>
  /\ UNCHANGED <<backend, embedder, checked, lock, running, matrices, bounds>>

DropTools(t) ==
  /\ At(t, "drop") /\ there
  /\ there' = FALSE /\ tools' = <<>>
  /\ Touch(t, ToolIds, FALSE)
  /\ Goes(t, "create")
  /\ UNCHANGED <<backend, skills, columns, marker, process, matrices, bounds, should, torn, unmarked>>

CreateTools(t) ==
  /\ At(t, "create") /\ ~there
  /\ there' = TRUE /\ columns' = "new"
  /\ Goes(t, "fill")
  /\ UNCHANGED <<backend, tools, skills, marker, process, matrices, bounds, history>>

FillTools(t) ==
  /\ At(t, "fill") /\ there
  /\ tools' = tools \o task[t].listed
  /\ Opens(t)
  /\ Touch(t, ToolIds, FALSE)
  /\ UNCHANGED <<backend, skills, there, columns, marker, embedder, checked, lock, running,
                 matrices, bounds, should, torn, unmarked>>

OpeningFails(t) ==
  /\ Opening(t)
  /\ Opens(t)
  /\ torn' = IF At(t, "drop") THEN torn ELSE torn \cup ToolIds
  /\ UNCHANGED <<backend, store, embedder, checked, lock, running, matrices, bounds,
                 should, disturbed, unmarked>>

(***************************************************************************)
(* Writes.                                                                 *)
(***************************************************************************)
Batch(t) == Rows(task[t].request.items, embedder)
BatchIds(t) == IdsOf(ToSet(task[t].request.items))

(* InMemoryVectorStore: no await, so no other task in between.             *)
MemoryWrite(t) ==
  /\ backend = "memory" /\ At(t, "write")
  /\ Becomes(t, Upserted(Contents(t), Batch(t)))
  /\ Invalidated(t)
  /\ Completes(task[t].request.items)
  /\ Touch(t, BatchIds(t), TRUE)
  /\ Ends(t)
  /\ UNCHANGED <<backend, there, columns, marker, process, bounds, torn, unmarked>>

(* The remote stores: one request to the server.                           *)
RemoteWrite(t) ==
  /\ Remote /\ At(t, "write")
  /\ Becomes(t, Upserted(Contents(t), Batch(t)))
  /\ Completes(task[t].request.items)
  /\ Touch(t, BatchIds(t), TRUE)
  /\ Ends(t)
  /\ UNCHANGED <<backend, there, columns, marker, process, matrices, bounds, torn, unmarked>>

(* LanceDB: the rows of these ids are deleted, and then others added; of   *)
(* an id that the batch repeats, all are.                                  *)
LanceDelete(t) ==
  /\ backend = "lance" /\ At(t, "write")
  /\ there \/ ForSkills(task[t].request)
  /\ Becomes(t, Without(Contents(t), BatchIds(t)))
  /\ Touch(t, BatchIds(t), TRUE)
  /\ torn' = torn \ BatchIds(t)
  /\ Goes(t, "insert")
  /\ UNCHANGED <<backend, there, columns, marker, process, matrices, bounds, should, unmarked>>

LanceInsert(t) ==
  /\ At(t, "insert")
  /\ there \/ ForSkills(task[t].request)
  /\ Becomes(t, Contents(t) \o Batch(t))
  /\ Completes(task[t].request.items)
  /\ disturbed' = disturbed \cup Crossed(t, BatchIds(t)) \cup Repeated(task[t].request.items)
  /\ Ends(t)
  /\ UNCHANGED <<backend, there, columns, marker, process, matrices, bounds, torn, unmarked>>

(* A write that fails may have been done all the same.                     *)
WriteFails(t) ==
  /\ backend # "memory" /\ task[t].pc \in {"write", "insert"}
  /\ IF backend = "lance"
       THEN UNCHANGED <<tools, skills>>
       ELSE Becomes(t, Contents(t)) \/ Becomes(t, Upserted(Contents(t), Batch(t)))
  /\ disturbed' = disturbed \cup BatchIds(t)
  /\ Ends(t)
  /\ UNCHANGED <<backend, there, columns, marker, process, matrices, bounds, should, torn, unmarked>>

(* delete and delete_skill.  A skill is deleted without looking at the     *)
(* migration.  A failure is told as nothing to delete.                     *)
Delete(t) ==
  /\ At(t, "delete")
  /\ there \/ ForSkills(task[t].request)
  /\ Becomes(t, Without(Contents(t), BatchIds(t)))
  /\ IF backend = "memory" THEN Invalidated(t) ELSE UNCHANGED matrices
  /\ should' = [id \in Ids |-> IF id \in BatchIds(t) THEN NoItem ELSE should[id]]
  /\ Touch(t, BatchIds(t), TRUE)
  /\ torn' = torn \ BatchIds(t)
  /\ Ends(t)
  /\ UNCHANGED <<backend, there, columns, marker, process, bounds, unmarked>>

DeleteFails(t) ==
  /\ backend # "memory" /\ At(t, "delete")
  /\ Ends(t)
  /\ UNCHANGED <<backend, store, process, matrices, bounds, history>>

(***************************************************************************)
(* _ensure_skill_vectors_current: the first users of the skills wait for   *)
(* one of them to embed again what another embedder left.  The marker in   *)
(* the metadata and the flag of the process are set when that is done.     *)
(***************************************************************************)
Proceeds(t) ==
  task' = [task EXCEPT ![t].pc = IF task[t].request.does = "add" THEN "write" ELSE "search",
                       ![t].listed = <<>>]

(* The flag is looked at again under the lock.                             *)
Check(t) ==
  /\ At(t, "check")
  /\ IF checked
       THEN Proceeds(t) /\ UNCHANGED lock
       ELSE lock = NoTask /\ lock' = t /\ Goes(t, "marker")
  /\ UNCHANGED <<backend, store, embedder, opened, checked, running, matrices, bounds, history>>

(* Slip: the flag is set before the skills are embedded again.             *)
ReadMarkerSlip(t) ==
  /\ At(t, "marker")
  /\ checked' = TRUE
  /\ IF marker = {embedder}
       THEN lock' = NoTask /\ Proceeds(t)
       ELSE lock' = lock /\ Goes(t, "list")
  /\ UNCHANGED <<backend, store, embedder, opened, running, matrices, bounds, history>>
ReadMarker(t) ==
  /\ At(t, "marker")
  /\ IF marker = {embedder}
       THEN checked' = TRUE /\ lock' = NoTask /\ Proceeds(t)
       ELSE checked' = checked /\ lock' = lock /\ Goes(t, "list")
  /\ UNCHANGED <<backend, store, embedder, opened, running, matrices, bounds, history>>

ListSkills(t) ==
  /\ At(t, "list")
  /\ task' = [task EXCEPT ![t].pc = IF skills = <<>> THEN "mark" ELSE "migrate",
                          ![t].listed = skills]
  /\ UNCHANGED <<backend, store, process, matrices, bounds, history>>

Reembedded(t) ==
  [n \in DOMAIN task[t].listed |-> Row(task[t].listed[n].item, embedder)]
ListedIds(t) == {RowId(r) : r \in ToSet(task[t].listed)}

(* The same upsert as any other; LanceDB's has two steps.                  *)
Migrate(t) ==
  /\ At(t, "migrate")
  /\ IF backend = "memory"
       THEN /\ skills' = Upserted(skills, Reembedded(t))
            /\ skillMatrix' = {}
            /\ Goes(t, "mark")
       ELSE /\ skills' = Without(skills, ListedIds(t))
            /\ UNCHANGED skillMatrix
            /\ Goes(t, "putback")
  /\ Touch(t, ListedIds(t), FALSE)
  /\ UNCHANGED <<backend, tools, there, columns, marker, process, toolMatrix, bounds,
                 should, torn, unmarked>>

PutBack(t) ==
  /\ At(t, "putback")
  /\ skills' = skills \o Reembedded(t)
  /\ Touch(t, ListedIds(t), FALSE)
  /\ Goes(t, "mark")
  /\ UNCHANGED <<backend, tools, there, columns, marker, process, matrices, bounds,
                 should, torn, unmarked>>

Mark(t) ==
  /\ At(t, "mark")
  /\ marker' = {embedder} /\ unmarked' = {}
  /\ checked' = TRUE /\ lock' = NoTask
  /\ Proceeds(t)
  /\ UNCHANGED <<backend, tools, skills, there, columns, embedder, opened, running,
                 matrices, bounds, should, disturbed, torn>>

(* Any step of it raises; the lock is given back, the flag stays down.     *)
(* set_metadata deletes the marker before it adds the new one.             *)
MigrationFails(t) ==
  /\ lock = t /\ lock' = NoTask
  /\ task[t].pc \in {"list", "migrate", "putback", "mark"}
  /\ backend = "memory" => At(t, "migrate")
  /\ marker' \in IF At(t, "mark") THEN {marker, {}} ELSE {marker}
  /\ torn' = IF At(t, "putback") THEN torn \cup ListedIds(t) ELSE torn
  /\ unmarked' = IF At(t, "mark") THEN unmarked \cup ListedIds(t) ELSE unmarked
  /\ Ends(t)
  /\ UNCHANGED <<backend, tools, skills, there, columns, embedder, opened, checked, running,
                 matrices, bounds, should, disturbed>>

(***************************************************************************)
(* Searches.  Memory's are made on a matrix of the table as it was when    *)
(* the matrix was built.                                                   *)
(***************************************************************************)
Matrix(cached, table) == IF cached = {} THEN table ELSE CHOOSE m \in cached : TRUE
Live == backend = "memory"

(* The intent is resolved by a task of its own beside the search.          *)
StartRoute(t) ==
  /\ At(t, "route")
  /\ running' = running \cup {t}
  /\ Goes(t, "search")
  /\ UNCHANGED <<backend, store, embedder, opened, checked, lock, matrices, bounds, history>>

IntentEnds(t) ==
  /\ t \in running
  /\ running' = running \ {t}
  /\ UNCHANGED <<backend, store, embedder, opened, checked, lock, matrices, task, bounds, history>>

Asked(t) == task[t].request.query
Query(t) ==
  IF task[t].request.does = "retrieve" THEN ToolQuery(Asked(t)) ELSE Defaulted(Asked(t), 0)
Searching(t, does) == At(t, "search") /\ task[t].request.does = does

SearchTools(t) ==
  /\ Searching(t, "retrieve") /\ there
  /\ Query(t).namespaces = {} \/ TakesLists(backend)
  /\ task' = [task EXCEPT
       ![t].pc = "intent", ![t].seen = tools,
       ![t].hits = Searched(backend, Matrix(toolMatrix, tools), embedder, Query(t),
                            OverFetch * Query(t).limit)]
  /\ toolMatrix' = IF Live THEN {Matrix(toolMatrix, tools)} ELSE toolMatrix
  /\ UNCHANGED <<backend, store, process, skillMatrix, bounds, history>>

SearchServers(t) ==
  /\ Searching(t, "servers") /\ there
  /\ TakesLists(backend)
  /\ LET q == retrieve_mcp_servers(Asked(t))
         hits == Searched(backend, Matrix(toolMatrix, tools), embedder, q, 2 * q.limit)
     IN  task' = [task EXCEPT ![t].pc = "answered", ![t].seen = tools,
                              ![t].hits = ServersOf(hits, Query(t))]
  /\ toolMatrix' = IF Live THEN {Matrix(toolMatrix, tools)} ELSE toolMatrix
  /\ UNCHANGED <<backend, store, process, skillMatrix, bounds, history>>

SearchSkills(t) ==
  /\ Searching(t, "skills")
  /\ task' = [task EXCEPT
       ![t].pc = "answered", ![t].seen = skills,
       ![t].hits = IF Live
         THEN MemorySkills(Matrix(skillMatrix, skills), embedder, Query(t), Query(t).limit)
         ELSE LanceSkills(skills, embedder, Query(t), Query(t).limit)]
  /\ skillMatrix' = IF Live THEN {Matrix(skillMatrix, skills)} ELSE skillMatrix
  /\ UNCHANGED <<backend, store, process, toolMatrix, bounds, history>>

Answered(t, hits) == get_tools(Chosen(hits, Query(t)), Asked(t))
Scored(t, intent) == Ranked(ScoredAndFiltered(task[t].hits, Query(t), intent, Live))

(* The rest of route once the intent is known, or nothing is.              *)
Rank(t) ==
  /\ At(t, "intent") /\ t \notin running
  /\ \E intent \in classify_intent(Query(t)) :
       task' = [task EXCEPT
         ![t].pc = IF Query(t).rerank THEN "rerank" ELSE "answered",
         ![t].intent = intent,
         ![t].hits = IF Query(t).rerank THEN Scored(t, intent)
                     ELSE Answered(t, Scored(t, intent))]
  /\ UNCHANGED <<backend, store, process, matrices, bounds, history>>

(* A reranker that fails over gives the tools as they were.                *)
Rerank(t) ==
  /\ At(t, "rerank")
  /\ \E r \in Rerankings(task[t].hits, Query(t)) \cup {Top(task[t].hits, Query(t).limit)} :
       task' = [task EXCEPT ![t].pc = "answered", ![t].hits = Answered(t, r)]
  /\ UNCHANGED <<backend, store, process, matrices, bounds, history>>

Return(t) ==
  /\ At(t, "answered")
  /\ Ends(t)
  /\ UNCHANGED <<backend, store, process, matrices, bounds, history>>

(* Embedding, searching or reranking raises, or the caller is cancelled.   *)
(* A route first cancels the intent and waits for it.                      *)
Raise(t) ==
  /\ task[t].pc \in {"search", "intent", "rerank"}
  /\ IF t \in running THEN Goes(t, "giveup") ELSE Ends(t)
  /\ UNCHANGED <<backend, store, process, matrices, bounds, history>>

GiveUp(t) ==
  /\ At(t, "giveup")
  /\ running' = running \ {t}
  /\ Ends(t)
  /\ UNCHANGED <<backend, store, embedder, opened, checked, lock, matrices, bounds, history>>

(***************************************************************************)
(* A new process over what a persistent store kept; over memory it is a    *)
(* start.  ToolSync embeds the tools again when the embedder is another.   *)
(***************************************************************************)
Crash ==
  /\ Persistent
  /\ crashes < MaxCrashes /\ crashes' = crashes + 1
  /\ embedder' \in Embedders
  /\ opened' = FALSE /\ checked' = FALSE /\ lock' = NoTask /\ running' = {}
  /\ task' = [t \in Tasks |-> Idle]
  /\ tools' = [n \in DOMAIN tools |-> Row(tools[n].item, embedder')]
  /\ disturbed' = disturbed \cup UNION {BatchIds(t) : t \in {u \in Tasks : At(u, "insert")}}
  /\ torn' = torn
               \cup (IF \E u \in Tasks : task[u].pc \in {"create", "fill"} THEN ToolIds ELSE {})
               \cup UNION {ListedIds(t) : t \in {u \in Tasks : At(u, "putback")}}
  /\ unmarked' = unmarked \cup UNION {ListedIds(t) : t \in {u \in Tasks : At(u, "mark")}}
  /\ UNCHANGED <<backend, skills, there, columns, marker, matrices, requests, should>>

Step(t) ==
  \/ Begin(t)
  \/ OpenQdrant(t) \/ OpenChroma(t) \/ OpenPG(t) \/ RemoteOpeningFails(t)
  \/ Open(t) \/ DropTools(t) \/ CreateTools(t) \/ FillTools(t) \/ OpeningFails(t)
  \/ MemoryWrite(t) \/ RemoteWrite(t) \/ LanceDelete(t) \/ LanceInsert(t) \/ WriteFails(t)
  \/ Delete(t) \/ DeleteFails(t)
  \/ Check(t) \/ ReadMarker(t) \/ ListSkills(t) \/ Migrate(t) \/ PutBack(t)
  \/ Mark(t) \/ MigrationFails(t)
  \/ StartRoute(t) \/ IntentEnds(t)
  \/ SearchTools(t) \/ SearchServers(t) \/ SearchSkills(t)
  \/ Rank(t) \/ Rerank(t) \/ Return(t) \/ Raise(t) \/ GiveUp(t)

Next == Crash \/ \E t \in Tasks : Step(t)

Spec == Init /\ [][Next]_vars

-------------------------------------------------------------------------------
(* The facade's reads are one step each and change nothing.  Skills are    *)
(* listed and counted without a look at the migration.                     *)
get_tool(id) == Get(backend, tools, id)
list_tools(ns) == ListAll(backend, tools, ns, ListLimit, 0)
list_skills(ns, limit, offset) ==
  IF backend = "lance" THEN LanceListSkills(skills, ns, limit, offset)
  ELSE MemoryList(skills, ns, limit, offset)
count_skills(ns) == Count(backend, skills, ns)

Unsettled == disturbed \cup torn \cup UNION {Rewriting(u) : u \in Tasks}
Written(kind) == {should[id] : id \in {i \in Ids : i[1] = kind /\ should[i] # NoItem}}
WrittenIn(kind, ns) == {i \in Written(kind) : ns = "any" \/ Sheet[i].ns = ns}
ItemsOf(rows) == [n \in DOMAIN rows |-> rows[n].item]

(* A page is right when it holds the part of what was written that falls   *)
(* to it, each once.  Where failures are swallowed, nothing is an answer.  *)
Silent == backend \in {"lance", "qdrant", "chroma"}
RightPage(rows, written, limit, offset) ==
  LET got == {rows[n].item : n \in DOMAIN rows}
  IN  /\ Cardinality(got) = Len(rows) /\ got \subseteq written
      /\ Len(rows) = Min({limit, Max({0, Cardinality(written) - offset})})
Namespaces == {"any"} \cup {Sheet[i].ns : i \in Items}

ToolsRead(unsettled) ==
  /\ \A id \in ToolIds \ unsettled : \A rows \in get_tool(id) :
       ItemsOf(rows) = IF should[id] = NoItem \/ (rows = <<>> /\ Silent) THEN <<>>
                       ELSE <<should[id]>>
  /\ ToolIds \cap unsettled = {} => \A ns \in Namespaces :
       LET written == WrittenIn(FALSE, ns)
       IN  /\ \A n \in Count(backend, tools, ns) :
                n = Cardinality(written) \/ (n = 0 /\ Silent)
           /\ \A rows \in list_tools(ns) :
                RightPage(rows, written, ListLimit, 0) \/ (rows = <<>> /\ Silent)

(* Two pages of the skills, one after the other, are as good as one.       *)
SkillsRead(unsettled) ==
  (Ids \ ToolIds) \cap unsettled = {} => \A ns \in Namespaces :
    LET written == WrittenIn(TRUE, ns)
    IN  /\ \A n \in count_skills(ns) : n = Cardinality(written) \/ (n = 0 /\ Silent)
        /\ \A first \in list_skills(ns, 1, 0), second \in list_skills(ns, 1, 1) :
             /\ RightPage(first, written, 1, 0) /\ RightPage(second, written, 1, 1)
             /\ RightPage(first \o second, written, 2, 0)

(* Every id that no task is rewriting has in its table exactly the item    *)
(* that the last completed write left there, or nothing after a deletion:  *)
(* no duplicates, no leftovers, no lost updates; and what a caller reads,  *)
(* by name or page by page, is just that.  Excepted are ids whose writes   *)
(* overlapped, failed half way or, in LanceDB, repeated them in one batch, *)
(* until the next whole write of them, and ids a migration lost.  (The     *)
(* upserts, deletions and reads of memory.py, lancedb.py and remote.py     *)
(* under concurrent callers.)                                              *)
SettledTablesMatch ==
  \A unsettled \in {Unsettled} :
    /\ \A id \in Ids \ unsettled :
         LET rows == InTable(IF id[1] THEN skills ELSE tools, id)
         IN  IF should[id] = NoItem THEN rows = <<>>
             ELSE Len(rows) = 1 /\ rows[1].item = should[id]
    /\ ToolsRead(unsettled) /\ SkillsRead(unsettled)

(* What a request may answer with, by the table its search looked at, what *)
(* each is worth, and whether the store cut the candidates before the      *)
(* router's constraints, which only it knows, were applied.                *)
InSpace(i, q) == q.namespaces = {} \/ Sheet[i].ns \in q.namespaces
OfCategory(i, q) == q.category = "any" \/ Sheet[i].of = q.category
Candidates(t) ==
  LET q == Query(t)
  IN  {r \in ToSet(task[t].seen) :
         /\ Similarity(r, embedder) >= q.threshold
         /\ CASE task[t].request.does = "retrieve" -> InSpace(r.item, q)
              [] task[t].request.does = "servers"  -> Sheet[r.item].ns = ServerNs
              [] task[t].request.does = "skills"   -> InSpace(r.item, q) /\ OfCategory(r.item, q)}
Wanted(t) ==
  LET q == Query(t)
  IN  {r.item : r \in {c \in Candidates(t) :
         CASE task[t].request.does = "retrieve" -> Allowed(c.item, q, Live)
           [] task[t].request.does = "servers"  -> OfCategory(c.item, q)
           [] task[t].request.does = "skills"   -> TRUE}}
Uncut(t) ==
  LET n == Cardinality(Candidates(t))
  IN  CASE task[t].request.does = "retrieve" -> n <= OverFetch * Query(t).limit
        [] task[t].request.does = "servers"  -> n <= 2 * Query(t).limit
        [] task[t].request.does = "skills"   -> TRUE
Score(t, i) == Similarity(CHOOSE r \in ToSet(task[t].seen) : r.item = i, embedder)
Worth(t, i, before) ==
  LET q == Query(t)
      h == [item |-> i, score |-> Score(t, i)]
  IN  IF task[t].request.does # "retrieve" THEN h.score
      ELSE Marginal([h EXCEPT !.score = FinalScore(h, q, task[t].intent, Live)],
                    Max({0} \cup {Near[i, j] : j \in before}),
                    IF before = {} THEN [q EXCEPT !.diversity = 0] ELSE q)

(* What the bridge's threshold leaves, a fraction being of the best there  *)
(* is.                                                                     *)
Staying(t) ==
  LET best == Max({0} \cup {Worth(t, i, {}) \div 10 : i \in Wanted(t)})
  IN  {i \in Wanted(t) :
         task[t].request.does = "retrieve" /\ Asked(t).through = "bridge" =>
           Within(Worth(t, i, {}) \div 10, best, Asked(t))}

(* An answer holds nothing but items the request allows, none of them      *)
(* twice, and never more than asked for.  This is of every backend,        *)
(* whatever filters it has, and whatever the cache of memory.py holds.     *)
(* Excepted: tables with duplicates.  (router.py:271-586, mcp_router.py,   *)
(* agent_framework_bridge.py:675-806 and the searches of the stores.)      *)
Distinct(table) == \A id \in Ids : Len(InTable(table, id)) <= 1
Got(t) == [n \in DOMAIN task[t].hits |-> task[t].hits[n].item]
AnswersAreAllowed ==
  \A t \in Tasks :
    At(t, "answered") /\ Distinct(task[t].seen) =>
      /\ IsInjective(Got(t))
      /\ ToSet(Got(t)) \subseteq Wanted(t)
      /\ Len(Got(t)) <= MostGiven(Asked(t))

(* Beyond that: unless the store cut the candidates an answer holds as     *)
(* many as there are, each the best choice after those before it, by the   *)
(* final score and, with a diversity factor, by its distance to all of     *)
(* them; and the bridge's threshold, though it is applied after the limit, *)
(* costs none of them.  Scores are by the vectors in the table.  Excepted: *)
(* tables with duplicates, the order of answers a reranker made, and what  *)
(* the bridge's threshold leaves of diverse or reranked ones.  (The same   *)
(* sources.)                                                               *)
AnswersAreBest ==
  /\ AnswersAreAllowed
  /\ \A t \in Tasks :
       At(t, "answered") /\ Distinct(task[t].seen) /\ Uncut(t) =>
         LET q == Query(t)
         IN  (q.through = "bridge" => q.diversity = 0 /\ ~q.rerank) =>
               /\ Len(Got(t)) = Min({MostGiven(Asked(t)), Cardinality(Staying(t))})
               /\ q.rerank \/
                    \A n \in DOMAIN Got(t) :
                      LET before == {Got(t)[m] : m \in 1..(n - 1)}
                      IN  \A i \in Staying(t) \ before :
                            Worth(t, i, before) <= Worth(t, Got(t)[n], before)

(* A search of the skills that answers has compared the query with vectors *)
(* of this process's embedder only, whoever's vectors the store held when  *)
(* the process began and however the migration's steps interleaved with    *)
(* other callers' or failed.  Excepted are skills that an earlier process  *)
(* embedded again without getting to its marker: a process with the        *)
(* embedder before takes the marker's word for them.  (gantry.py:1976-2051.) *)
SkillVectorsCurrent ==
  \A t \in Tasks :
    (At(t, "answered") /\ task[t].request.does = "skills") =>
      \A h \in ToSet(task[t].hits) : h.made = embedder \/ IdOf(h.item) \in unmarked
=============================================================================
