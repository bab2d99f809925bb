------------------------------- MODULE ToolSync -------------------------------
(***************************************************************************)
(* Tools between the registry and the vector store: `register`,            *)
(* `add_tool`, `delete_tool`, `sync`, `sync_mcp_servers` and `retrieve` of *)
(* agent_gantry/core/gantry.py with core/sync_manager.py, over the LanceDB *)
(* store, which outlives the process.                                      *)
(*                                                                         *)
(* A sync reads the store, embeds and writes batch by batch, and works     *)
(* throughout from the definitions it exported when it began, while other  *)
(* tasks of the same event loop register, delete and sync.  The store      *)
(* works in threads and an upsert is a deletion and an insertion, so every *)
(* call of the store is a step of its own, and every segment of the event  *)
(* loop between two awaits that suspend is one.                            *)
(*                                                                         *)
(* A definition is a version number, its fingerprint is the same number;   *)
(* 0 stands for no definition.  auto_sync is on (an `add_tool` with a      *)
(* handler and without it does what Register does).                        *)
(***************************************************************************)
EXTENDS Integers, Sequences, FiniteSets, FiniteSetsExt, SequencesExt

CONSTANTS
  Tools,       \* qualified names of tools
  Tasks,       \* tasks that may be in the middle of an operation
  Embedders,   \* embedders a process may be configured with
  MaxVersion,  \* bound on the definitions of a tool
  BatchSize,   \* tools embedded per batch
  MaxOps       \* bound on the operations of a behaviour

ASSUME SyncAssumption ==
  /\ IsFiniteSet(Tools)
  /\ MaxVersion \in Nat \ {0}
  /\ BatchSize \in Nat \ {0}
  /\ MaxOps \in Nat

NoTool == "no tool"
NoEmbedder == "no embedder"

Versions == 0 .. MaxVersion
Nothing == [t \in Tools |-> 0]

VARIABLES
  registry,     \* ToolRegistry._tools: the version registered of each tool
  handlers,     \* ToolRegistry._handlers: the version whose callable is bound
  pending,      \* _pending_tools: the first version pending of each tool
  synced,       \* _synced
  embedder,     \* the process's embedder
  rows,         \* store: the rows of each tool, a version and its embedder
  meta,         \* store: metadata "embedder_id"
  pc,           \* where each task is suspended
  all,          \* the definitions its sync exported
  prints,       \* the fingerprints its sync read
  whole,        \* whether its sync embeds every tool it exported
  todo,         \* tools its sync has still to embed
  batch,        \* the batch it is writing
  before,       \* the metadata it found when it began to replace it
  subject,      \* the tool it adds or deletes
  quiet,        \* history: nobody else took a step since its sync began
  accepted,     \* history: tools whose registration returned, not deleted since
  deleted,      \* history: tools whose deletion returned, not registered since
  carried,      \* history: those a sync had exported when their entry was removed
  ops           \* operations begun so far

memory == <<registry, handlers, pending, synced>>
store == <<rows, meta>>
plan == <<all, prints, whole, todo, batch, before>>
log == <<accepted, deleted, carried>>

vars == <<memory, embedder, store, pc, plan, subject, quiet, log, ops>>

Init ==
  /\ registry = Nothing /\ handlers = Nothing /\ pending = Nothing
  /\ synced = FALSE
  /\ embedder \in Embedders
  /\ rows = [t \in Tools |-> <<>>]
  /\ meta = NoEmbedder
  /\ pc = [p \in Tasks |-> "idle"]
  /\ all = [p \in Tasks |-> Nothing]
  /\ prints = [p \in Tasks |-> Nothing]
  /\ whole = [p \in Tasks |-> FALSE]
  /\ todo = [p \in Tasks |-> {}]
  /\ batch = [p \in Tasks |-> {}]
  /\ before = [p \in Tasks |-> NoEmbedder]
  /\ subject = [p \in Tasks |-> NoTool]
  /\ quiet = [p \in Tasks |-> FALSE]
  /\ accepted = {} /\ deleted = {} /\ carried = {}
  /\ ops = 0
-----------------------------------------------------------------------------
Idle(p) == pc[p] = "idle"

Begins == ops < MaxOps /\ ops' = ops + 1

(* A step of p is noise to every other sync under way.                     *)
Disturbs(p) == quiet' = [q \in Tasks |-> q = p /\ quiet[q]]

Put(f, t, v) == [f EXCEPT ![t] = v]

(* export_tools: what is registered, then what is only pending.            *)
Exported(registered, waiting) ==
  [t \in Tools |-> IF registered[t] # 0 THEN registered[t] ELSE waiting[t]]

Known(defs) == {t \in Tools : defs[t] # 0}

(* The first segment of `sync`, from given definitions.                    *)
StartSync(p, defs, force) ==
  /\ all' = [all EXCEPT ![p] = defs]
  /\ whole' = [whole EXCEPT ![p] = force]
  /\ UNCHANGED <<prints, todo, batch, before>>
  /\ IF Known(defs) = {}
       THEN /\ synced' = TRUE
            /\ UNCHANGED pc
            /\ Disturbs(p)
       ELSE /\ pc' = [pc EXCEPT ![p] = "reading"]
            /\ quiet' = [q \in Tasks |-> q = p /\ \A r \in Tasks \ {p} : Idle(r)]
            /\ UNCHANGED synced

(* A definition is the one in force again or a new one.                    *)
NewVersions(t) ==
  LET latest == Max({registry[t], pending[t]} \cup {r.version : r \in ToSet(rows[t])})
  IN  {v \in 1 .. MaxVersion : v \in {latest, latest + 1}}

AddPending(t, v) == Put(pending, t, IF pending[t] = 0 THEN v ELSE pending[t])

(* register: definition and handler at once, and nothing is synced.        *)
Register(t) ==
  /\ Begins
  /\ \E v \in NewVersions(t) :
       /\ pending' = AddPending(t, v)
       /\ registry' = Put(registry, t, v)
       /\ handlers' = Put(handlers, t, v)
  /\ accepted' = accepted \cup {t}
  /\ deleted' = deleted \ {t}
  /\ carried' = carried \ {t}
  /\ quiet' = [q \in Tasks |-> FALSE]
  /\ UNCHANGED <<synced, embedder, store, pc, plan, subject>>

(* add_tool, with or without a handler, and the sync it awaits.            *)
AddTool(p, t, withHandler) ==
  /\ Idle(p)
  /\ Begins
  /\ \E v \in NewVersions(t) :
       /\ pending' = AddPending(t, v)
       /\ registry' = IF withHandler THEN Put(registry, t, v) ELSE registry
       /\ handlers' = IF withHandler THEN Put(handlers, t, v) ELSE handlers
       /\ StartSync(p, Exported(registry', pending'), FALSE)
  /\ subject' = [subject EXCEPT ![p] = t]
  /\ deleted' = deleted \ {t}
  /\ carried' = carried \ {t}
  /\ UNCHANGED <<embedder, store, accepted>>

Sync(p, force) ==
  /\ Idle(p)
  /\ Begins
  /\ StartSync(p, Exported(registry, pending), force)
  /\ UNCHANGED <<registry, handlers, pending, embedder, store, subject, log>>

(* retrieve: ensure_synced, which is asked only until some sync completed. *)
Retrieve(p) ==
  /\ Idle(p)
  /\ Begins
  /\ IF synced THEN /\ Disturbs(p)
                    /\ UNCHANGED <<synced, pc, plan>>
               ELSE StartSync(p, Exported(registry, pending), FALSE)
  /\ UNCHANGED <<registry, handlers, pending, embedder, store, subject, log>>
-----------------------------------------------------------------------------
(* The steps of a sync.                                                    *)

(* A task does one step of the kind it is at and goes on to the next.      *)
Moves(p, from, to) ==
  /\ pc[p] = from
  /\ pc' = [pc EXCEPT ![p] = to]
  /\ Disturbs(p)

(* Of several rows of one tool any may be the one whose fingerprint        *)
(* counts; a store that raises reads as an empty one.                      *)
ReadFingerprints(p) ==
  /\ Moves(p, "reading", "comparing")
  /\ \E f \in [Tools -> Versions] :
       /\ \/ f = Nothing
          \/ \A t \in Tools : IF rows[t] = <<>> THEN f[t] = 0
                              ELSE \E r \in ToSet(rows[t]) : f[t] = r.version
       /\ prints' = [prints EXCEPT ![p] = f]
  /\ UNCHANGED <<memory, embedder, store, all, whole, todo, batch, before, subject, log, ops>>

Switched(found) == found # NoEmbedder /\ found # embedder

ReadEmbedder(p) ==
  /\ \/ Moves(p, "comparing", "deciding")
     \/ Moves(p, "comparing servers", "deciding servers")
  /\ \E found \in {meta, NoEmbedder} : whole' = [whole EXCEPT ![p] = @ \/ Switched(found)]
  /\ UNCHANGED <<memory, embedder, store, all, prints, todo, batch, before, subject, log, ops>>

(* A sync returns: an `add_tool` waiting for it has registered its tool.   *)
Finish(p) ==
  /\ accepted' = IF subject[p] = NoTool THEN accepted ELSE accepted \cup {subject[p]}
  /\ subject' = [subject EXCEPT ![p] = NoTool]
  /\ UNCHANGED <<deleted, carried>>

(* Slip: only tools the store does not know are embedded.                  *)
ChangedUnknownOnly(p) == {t \in Known(all[p]) : prints[p][t] = 0}

Changed(p) == {t \in Known(all[p]) : all[p][t] # prints[p][t]}

ToEmbed(p) == IF whole[p] THEN Known(all[p]) ELSE Changed(p)

Merged(defs) == [t \in Tools |-> IF defs[t] # 0 THEN defs[t] ELSE registry[t]]

(* With nothing to embed every exported definition is registered and the   *)
(* sync is over.                                                           *)
UpToDate(p) ==
  /\ Moves(p, "deciding", "settled")
  /\ ToEmbed(p) = {}
  /\ registry' = Merged(all[p])
  /\ synced' = TRUE
  /\ Finish(p)
  /\ UNCHANGED <<handlers, pending, embedder, store, plan, ops>>

Batches(left) ==
  {b \in SUBSET left : Cardinality(b) = Min({BatchSize, Cardinality(left)})}

(* The pending list is emptied before anything is embedded.                *)
Decide(p) ==
  /\ Moves(p, "deciding", "dropping")
  /\ ToEmbed(p) # {}
  /\ pending' = Nothing
  /\ todo' = [todo EXCEPT ![p] = ToEmbed(p)]
  /\ \E b \in Batches(ToEmbed(p)) : batch' = [batch EXCEPT ![p] = b]
  /\ UNCHANGED <<registry, handlers, synced, embedder, store, all, prints, whole,
                 before, subject, log, ops>>

(* A batch has been embedded: its old rows go, then the new ones come.     *)
DropRows(p) ==
  /\ Moves(p, "dropping", "adding")
  /\ rows' = [t \in Tools |-> IF t \in batch[p] THEN <<>> ELSE rows[t]]
  /\ UNCHANGED <<memory, embedder, meta, plan, subject, log, ops>>

NewRow(p, t) == [version |-> all[p][t], by |-> embedder]

AddRows(p) ==
  /\ Moves(p, "adding", "registering")
  /\ rows' = [t \in Tools |-> IF t \in batch[p] THEN Append(rows[t], NewRow(p, t)) ELSE rows[t]]
  /\ UNCHANGED <<memory, embedder, meta, plan, subject, log, ops>>

Rest(p) == todo[p] \ batch[p]

(* Its definitions are registered, whatever became of them in the          *)
(* meantime, and the next batch is embedded.                               *)
RegisterBatch(p) ==
  /\ Moves(p, "registering", IF Rest(p) = {} THEN "erasing" ELSE "dropping")
  /\ registry' = [t \in Tools |-> IF t \in batch[p] THEN all[p][t] ELSE registry[t]]
  /\ todo' = [todo EXCEPT ![p] = Rest(p)]
  /\ \E b \in Batches(Rest(p)) : batch' = [batch EXCEPT ![p] = b]
  /\ UNCHANGED <<handlers, pending, synced, embedder, store, all, prints, whole,
                 before, subject, log, ops>>

(* The metadata is replaced in the same two steps, once what it was has    *)
(* been read for a rollback.                                               *)
EraseEmbedder(p) ==
  /\ \/ Moves(p, "erasing", "stamping")
     \/ Moves(p, "erasing servers", "stamping servers")
  /\ before' = [before EXCEPT ![p] = meta]
  /\ meta' = NoEmbedder
  /\ UNCHANGED <<memory, embedder, rows, all, prints, whole, todo, batch, subject, log, ops>>

StampEmbedder(p) ==
  /\ \/ Moves(p, "stamping", "closing")
     \/ Moves(p, "stamping servers", "closing servers")
  /\ meta' = embedder
  /\ UNCHANGED <<memory, embedder, rows, plan, subject, log, ops>>

(* Slip: the tools that needed no embedding are forgotten.                 *)
UnembeddedForgotten(p) == Nothing

(* The tools that needed no embedding are registered at the end.           *)
Unembedded(p) == [t \in Tools |-> IF t \in ToEmbed(p) THEN 0 ELSE all[p][t]]

CloseSync(p) ==
  /\ Moves(p, "closing", "settled")
  /\ registry' = Merged(Unembedded(p))
  /\ synced' = TRUE
  /\ Finish(p)
  /\ UNCHANGED <<handlers, pending, embedder, store, plan, ops>>

(* What a task remembers when it is done.                                  *)
Forget(p) ==
  /\ all' = [all EXCEPT ![p] = Nothing]
  /\ prints' = [prints EXCEPT ![p] = Nothing]
  /\ whole' = [whole EXCEPT ![p] = FALSE]
  /\ todo' = [todo EXCEPT ![p] = {}]
  /\ batch' = [batch EXCEPT ![p] = {}]
  /\ before' = [before EXCEPT ![p] = NoEmbedder]

(* The embedder or the store raises, or the task is cancelled at what it   *)
(* awaits.  Metadata just erased is rolled back, if that works.            *)
Stop(p) ==
  /\ pc[p] \notin {"idle", "settled"}
  /\ pc' = [pc EXCEPT ![p] = "idle"]
  /\ \/ UNCHANGED meta
     \/ /\ pc[p] \in {"stamping", "stamping servers"}
        /\ before[p] # NoEmbedder
        /\ meta' = before[p]
  /\ subject' = [subject EXCEPT ![p] = NoTool]
  /\ Forget(p)
  /\ Disturbs(p)
  /\ UNCHANGED <<memory, embedder, rows, log, ops>>

(* A sync that settled is forgotten.                                       *)
Settle(p) ==
  /\ pc[p] = "settled"
  /\ pc' = [pc EXCEPT ![p] = "idle"]
  /\ Forget(p)
  /\ UNCHANGED <<memory, embedder, store, subject, quiet, log, ops>>
-----------------------------------------------------------------------------
(* delete_tool: the store first, where a failure is only answered FALSE,   *)
(* then the registry, the handlers and what is pending.                    *)
DeleteRow(p, t) ==
  /\ Begins
  /\ Moves(p, "idle", "deleting")
  /\ rows' \in {rows, [rows EXCEPT ![t] = <<>>]}
  /\ subject' = [subject EXCEPT ![p] = t]
  /\ UNCHANGED <<memory, embedder, meta, plan, log>>

(* Slip: a pending entry survives.                                         *)
PurgedNever(t) == pending

Purged(t) == Put(pending, t, 0)

(* An `add_tool` of the same tool that is still waiting has lost its tool. *)
DeleteEntry(p) ==
  LET t == subject[p]
      Lost(q) == q = p \/ (subject[q] = t /\ pc[q] # "deleting")
  IN
  /\ Moves(p, "deleting", "idle")
  /\ registry' = Put(registry, t, 0)
  /\ handlers' = Put(handlers, t, 0)
  /\ pending' = Purged(t)
  /\ subject' = [q \in Tasks |-> IF Lost(q) THEN NoTool ELSE subject[q]]
  /\ accepted' = accepted \ {t}
  /\ deleted' = deleted \cup {t}
  /\ carried' = IF \E q \in Tasks : all[q][t] # 0 THEN carried \cup {t} ELSE carried \ {t}
  /\ UNCHANGED <<synced, embedder, store, plan, ops>>
-----------------------------------------------------------------------------
(* sync_mcp_servers: the servers' rows live in the same store and share    *)
(* its embedder_id.  Which servers there are is not modelled: some need    *)
(* embedding, all of them after a switch of embedder.                      *)
StartServerSync(p) ==
  /\ Begins
  /\ Moves(p, "idle", "comparing servers")
  /\ UNCHANGED <<memory, embedder, store, plan, subject, log>>

DecideServers(p) ==
  /\ \/ Moves(p, "deciding servers", "erasing servers")
     \/ ~whole[p] /\ Moves(p, "deciding servers", "settled")
  /\ UNCHANGED <<memory, embedder, store, plan, subject, log, ops>>

CloseServerSync(p) ==
  /\ Moves(p, "closing servers", "settled")
  /\ UNCHANGED <<memory, embedder, store, plan, subject, log, ops>>

(* The process ends anywhere, and one with some embedder starts over the   *)
(* same store.                                                             *)
Restart ==
  /\ Begins
  /\ embedder' \in Embedders
  /\ registry' = Nothing /\ handlers' = Nothing /\ pending' = Nothing
  /\ synced' = FALSE
  /\ pc' = [p \in Tasks |-> "idle"]
  /\ all' = [p \in Tasks |-> Nothing]
  /\ prints' = [p \in Tasks |-> Nothing]
  /\ whole' = [p \in Tasks |-> FALSE]
  /\ todo' = [p \in Tasks |-> {}]
  /\ batch' = [p \in Tasks |-> {}]
  /\ before' = [p \in Tasks |-> NoEmbedder]
  /\ subject' = [p \in Tasks |-> NoTool]
  /\ quiet' = [p \in Tasks |-> FALSE]
  /\ accepted' = {} /\ deleted' = {} /\ carried' = {}
  /\ UNCHANGED store
-----------------------------------------------------------------------------
(* The steps of an operation under way.                                    *)
Continue(p) ==
  \/ ReadFingerprints(p)
  \/ ReadEmbedder(p)
  \/ UpToDate(p)
  \/ Decide(p)
  \/ DropRows(p)
  \/ AddRows(p)
  \/ RegisterBatch(p)
  \/ EraseEmbedder(p)
  \/ StampEmbedder(p)
  \/ CloseSync(p)
  \/ Stop(p)
  \/ Settle(p)
  \/ DeleteEntry(p)
  \/ DecideServers(p)
  \/ CloseServerSync(p)

Next ==
  \/ \E t \in Tools : Register(t)
  \/ \E p \in Tasks, t \in Tools, withHandler \in BOOLEAN : AddTool(p, t, withHandler)
  \/ \E p \in Tasks, force \in BOOLEAN : Sync(p, force)
  \/ \E p \in Tasks : Retrieve(p)
  \/ \E p \in Tasks, t \in Tools : DeleteRow(p, t)
  \/ \E p \in Tasks : StartServerSync(p)
  \/ \E p \in Tasks : Continue(p)
  \/ Restart

Spec == Init /\ [][Next]_vars
-----------------------------------------------------------------------------
(* Properties.                                                             *)

Places ==
  {"idle", "reading", "comparing", "deciding", "dropping", "adding", "registering",
   "erasing", "stamping", "closing", "settled", "deleting", "comparing servers",
   "deciding servers", "erasing servers", "stamping servers", "closing servers"}

Row == [version : Versions \ {0}, by : Embedders]

(* Every variable has the shape the gantry gives it.                       *)
TypeOK ==
  /\ {registry, handlers, pending} \subseteq [Tools -> Versions]
  /\ synced \in BOOLEAN
  /\ embedder \in Embedders
  /\ rows \in [Tools -> Seq(Row)]
  /\ meta \in Embedders \cup {NoEmbedder}
  /\ pc \in [Tasks -> Places]
  /\ all \in [Tasks -> [Tools -> Versions]]
  /\ prints \in [Tasks -> [Tools -> Versions]]
  /\ {whole, quiet} \subseteq [Tasks -> BOOLEAN]
  /\ {todo, batch} \subseteq [Tasks -> SUBSET Tools]
  /\ before \in [Tasks -> Embedders \cup {NoEmbedder}]
  /\ subject \in [Tasks -> Tools \cup {NoTool}]
  /\ {accepted, deleted, carried} \subseteq SUBSET Tools
  /\ ops \in Nat

(* A sync nobody disturbed leaves registry and store with the definitions  *)
(* it began with, whatever failed syncs, deletions and restarts left       *)
(* behind, and if it saw a switch of embedder in the store's metadata,     *)
(* with rows of the new embedder only.                                     *)
QuietSyncConverges ==
  \A p \in Tasks :
    pc[p] = "settled" /\ quiet[p] =>
      \A t \in Known(all[p]) :
        /\ registry[t] = all[p][t]
        /\ \E r \in ToSet(rows[t]) : r.version = all[p][t]
        /\ whole[p] => rows[t] = <<NewRow(p, t)>>

(* A tool whose `register` or `add_tool` returned stays registered until   *)
(* it is deleted, whichever syncs run, fail or overtake each other.        *)
AcceptedIsRegistered == accepted \subseteq Known(registry)

(* A deleted tool comes back to the registry only through a sync that had  *)
(* exported it before its entry was removed.                               *)
DeletionHolds == \A t \in deleted \ carried : registry[t] = 0
=============================================================================
