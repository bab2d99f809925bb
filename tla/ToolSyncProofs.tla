---------------------------- MODULE ToolSyncProofs ----------------------------
(***************************************************************************)
(* Proofs about ToolSync, for any tools, tasks, embedders and batch size.  *)
(*                                                                         *)
(* The argument for what is accepted: an `add_tool` that is still waiting  *)
(* finds its tool among the definitions its own sync exported, and once    *)
(* that sync has written it, in the registry, because whoever deletes it   *)
(* takes it from the waiting task as well.  The argument for what is       *)
(* deleted: neither the registry, nor the pending list, nor any sync under *)
(* way knows a deleted tool that no sync had exported.                     *)
(* The argument for a quiet sync: at every step it agrees with the         *)
(* registry, the fingerprints it read are in the store, and there is one   *)
(* new row for each tool that it has written, as every other step but the  *)
(* forgetting of a settled sync makes it one that was disturbed.           *)
(***************************************************************************)
EXTENDS ToolSync, TLAPS

Written == {"erasing", "stamping", "closing"}
Writing == {"dropping", "adding", "registering"} \cup Written
Syncing == {"reading", "comparing", "deciding"} \cup Writing

(* The shapes the argument needs.                                          *)
SyncType ==
  /\ registry \in [Tools -> Versions]
  /\ pending \in [Tools -> Versions]
  /\ pc \in [Tasks -> Places]
  /\ all \in [Tasks -> [Tools -> Versions]]
  /\ prints \in [Tasks -> [Tools -> Versions]]
  /\ whole \in [Tasks -> BOOLEAN]
  /\ todo \in [Tasks -> SUBSET Tools]
  /\ batch \in [Tasks -> SUBSET Tools]
  /\ subject \in [Tasks -> Tools \cup {NoTool}]
  /\ accepted \subseteq Tools /\ deleted \subseteq Tools

(* A sync writes tools it has decided to embed, and all of them before it  *)
(* touches the metadata.                                                   *)
Planned(p) ==
  /\ batch[p] \subseteq todo[p]
  /\ pc[p] \in Writing => todo[p] \subseteq ToEmbed(p)
  /\ pc[p] \in Written => todo[p] = {}

(* The tool of a waiting `add_tool` was exported, and is registered once   *)
(* it has been written.                                                    *)
Awaited(p) ==
  /\ pc[p] = "deleting" => subject[p] \in Tools
  /\ pc[p] \notin Syncing \cup {"deleting"} => subject[p] = NoTool
  /\ pc[p] \in Syncing /\ subject[p] # NoTool =>
       /\ all[p][subject[p]] # 0
       /\ pc[p] \in Writing /\ subject[p] \in ToEmbed(p) \ todo[p] =>
            registry[subject[p]] # 0

(* Nobody knows a deleted tool that no sync had exported.                  *)
DeletedUnknown ==
  \A t \in deleted \ carried :
    registry[t] = 0 /\ pending[t] = 0 /\ \A p \in Tasks : all[p][t] = 0

SyncInv ==
  /\ SyncType
  /\ \A p \in Tasks : Planned(p) /\ Awaited(p)
  /\ DeletedUnknown
  /\ AcceptedIsRegistered
-----------------------------------------------------------------------------
(* What the operators of the module return.                                *)

LEMMA VersionFacts == 0 \in Versions /\ Nothing \in [Tools -> Versions]
BY SyncAssumption DEF Versions, Nothing

LEMMA NewVersion ==
  ASSUME NEW t, NEW v \in NewVersions(t)
  PROVE  v \in Versions /\ v # 0
BY SyncAssumption DEF NewVersions, Versions

LEMMA ExportedType ==
  ASSUME NEW f \in [Tools -> Versions], NEW g \in [Tools -> Versions]
  PROVE  Exported(f, g) \in [Tools -> Versions]
BY DEF Exported

LEMMA PutType ==
  ASSUME NEW f \in [Tools -> Versions], NEW t \in Tools, NEW v \in Versions
  PROVE  /\ Put(f, t, v) \in [Tools -> Versions]
         /\ \A u \in Tools : Put(f, t, v)[u] = IF u = t THEN v ELSE f[u]
BY DEF Put

LEMMA AddPendingType ==
  ASSUME SyncType, NEW t \in Tools, NEW v \in NewVersions(t)
  PROVE  /\ AddPending(t, v) \in [Tools -> Versions]
         /\ AddPending(t, v)[t] # 0
         /\ \A u \in Tools \ {t} : AddPending(t, v)[u] = pending[u]
<1>1. v \in Versions /\ v # 0
  BY NewVersion
<1>2. pending \in [Tools -> Versions]
  BY DEF SyncType
<1>3. CASE pending[t] = 0
  BY <1>1, <1>2, <1>3, PutType DEF AddPending
<1>4. CASE pending[t] # 0
  BY <1>2, <1>4 DEF AddPending, Put
<1>5. QED
  BY <1>3, <1>4

LEMMA MergedType ==
  ASSUME SyncType, NEW f \in [Tools -> Versions]
  PROVE  Merged(f) \in [Tools -> Versions]
BY DEF SyncType, Merged

LEMMA UnembeddedType ==
  ASSUME SyncType, NEW p \in Tasks
  PROVE  Unembedded(p) \in [Tools -> Versions]
BY VersionFacts DEF SyncType, Unembedded

LEMMA BatchesType ==
  ASSUME NEW left, NEW b \in Batches(left)
  PROVE  b \subseteq left
BY DEF Batches

LEMMA ToEmbedIsKnown == \A p : ToEmbed(p) \subseteq Known(all[p])
BY DEF ToEmbed, Changed, Known

LEMMA ToEmbedKept ==
  ASSUME NEW p, all'[p] = all[p], prints'[p] = prints[p], whole'[p] = whole[p]
  PROVE  ToEmbed(p)' = ToEmbed(p)
BY DEF ToEmbed, Changed, Known
-----------------------------------------------------------------------------
(* The shapes.                                                             *)
LEMMA TypeNext ==
  ASSUME SyncInv, Next
  PROVE  SyncType'
<1> USE VersionFacts DEF SyncInv, SyncType, Places, memory, store, plan, log
<1>1. ASSUME NEW t \in Tools, Register(t)
      PROVE  SyncType'
  <2>1. PICK v \in NewVersions(t) :
          pending' = AddPending(t, v) /\ registry' = Put(registry, t, v)
    BY <1>1 DEF Register
  <2>2. registry' \in [Tools -> Versions] /\ pending' \in [Tools -> Versions]
    BY <2>1, NewVersion, PutType, AddPendingType
  <2>3. QED
    BY <1>1, <2>2 DEF Register
<1>2. ASSUME NEW p \in Tasks, NEW t \in Tools, NEW withHandler \in BOOLEAN,
            AddTool(p, t, withHandler)
      PROVE  SyncType'
  <2>1. PICK v \in NewVersions(t) :
          /\ pending' = AddPending(t, v)
          /\ registry' = IF withHandler THEN Put(registry, t, v) ELSE registry
          /\ StartSync(p, Exported(registry', pending'), FALSE)
    BY <1>2 DEF AddTool
  <2>2. registry' \in [Tools -> Versions] /\ pending' \in [Tools -> Versions]
    BY <2>1, NewVersion, PutType, AddPendingType
  <2>3. Exported(registry', pending') \in [Tools -> Versions]
    BY <2>2, ExportedType
  <2>4. QED
    BY <1>2, <2>1, <2>2, <2>3 DEF AddTool, StartSync
<1>3. ASSUME NEW p \in Tasks, NEW force \in BOOLEAN, Sync(p, force)
      PROVE  SyncType'
  BY <1>3, ExportedType DEF Sync, StartSync
<1>4. ASSUME NEW p \in Tasks, Retrieve(p)
      PROVE  SyncType'
  <2>1. CASE synced
    BY <1>4, <2>1 DEF Retrieve
  <2>2. CASE ~synced
    <3>1. Exported(registry, pending) \in [Tools -> Versions]
      BY ExportedType
    <3>2. all' = [all EXCEPT ![p] = Exported(registry, pending)]
      BY <1>4, <2>2 DEF Retrieve, StartSync
    <3>3. whole' = [whole EXCEPT ![p] = FALSE]
      BY <1>4, <2>2 DEF Retrieve, StartSync
    <3>4. pc' = pc \/ pc' = [pc EXCEPT ![p] = "reading"]
      BY <1>4, <2>2 DEF Retrieve, StartSync
    <3>5. UNCHANGED <<registry, pending, prints, todo, batch, subject, accepted, deleted>>
      BY <1>4, <2>2 DEF Retrieve, StartSync
    <3>6. QED
      BY <3>1, <3>2, <3>3, <3>4, <3>5
  <2>3. QED
    BY <2>1, <2>2
<1>5. ASSUME NEW p \in Tasks, NEW t \in Tools, DeleteRow(p, t)
      PROVE  SyncType'
  BY <1>5 DEF DeleteRow, Moves
<1>6. ASSUME NEW p \in Tasks, StartServerSync(p)
      PROVE  SyncType'
  BY <1>6 DEF StartServerSync, Moves
<1>7. ASSUME NEW p \in Tasks, ReadFingerprints(p)
      PROVE  SyncType'
  <2>1. pc' = [pc EXCEPT ![p] = "comparing"]
    BY <1>7 DEF ReadFingerprints, Moves
  <2>2. prints' \in [Tasks -> [Tools -> Versions]]
    BY <1>7 DEF ReadFingerprints
  <2>3. UNCHANGED <<registry, pending, all, whole, todo, batch, subject, accepted, deleted>>
    BY <1>7 DEF ReadFingerprints
  <2>4. QED
    BY <2>1, <2>2, <2>3
<1>8. ASSUME NEW p \in Tasks, ReadEmbedder(p)
      PROVE  SyncType'
  BY <1>8 DEF ReadEmbedder, Moves
<1>9. ASSUME NEW p \in Tasks, UpToDate(p)
      PROVE  SyncType'
  <2>1. registry' \in [Tools -> Versions]
    BY <1>9, MergedType DEF UpToDate
  <2>2. QED
    BY <1>9, <2>1 DEF UpToDate, Moves, Finish
<1>10. ASSUME NEW p \in Tasks, Decide(p)
      PROVE  SyncType'
  <2>1. ToEmbed(p) \subseteq Tools
    BY ToEmbedIsKnown DEF Known
  <2>2. PICK b \in Batches(ToEmbed(p)) : batch' = [batch EXCEPT ![p] = b]
    BY <1>10 DEF Decide
  <2>3. b \subseteq Tools
    BY <2>1, <2>2, BatchesType
  <2>4. QED
    BY <1>10, <2>1, <2>2, <2>3 DEF Decide, Moves
<1>11. ASSUME NEW p \in Tasks, DropRows(p)
      PROVE  SyncType'
  BY <1>11 DEF DropRows, Moves
<1>12. ASSUME NEW p \in Tasks, AddRows(p)
      PROVE  SyncType'
  BY <1>12 DEF AddRows, Moves
<1>13. ASSUME NEW p \in Tasks, RegisterBatch(p)
      PROVE  SyncType'
  <2>1. Rest(p) \subseteq Tools
    BY DEF Rest
  <2>2. PICK b \in Batches(Rest(p)) : batch' = [batch EXCEPT ![p] = b]
    BY <1>13 DEF RegisterBatch
  <2>3. b \subseteq Tools
    BY <2>1, <2>2, BatchesType
  <2>4. QED
    <3>1. registry' \in [Tools -> Versions]
      <4>1. all[p] \in [Tools -> Versions]
        OBVIOUS
      <4>2. registry' = [t \in Tools |-> IF t \in batch[p] THEN all[p][t] ELSE registry[t]]
        BY <1>13 DEF RegisterBatch
      <4>3. QED
        BY <4>1, <4>2
    <3>2. QED
      BY <2>1, <2>2, <2>3, <3>1, <1>13 DEF RegisterBatch, Moves
<1>14. ASSUME NEW p \in Tasks, EraseEmbedder(p)
      PROVE  SyncType'
  BY <1>14 DEF EraseEmbedder, Moves
<1>15. ASSUME NEW p \in Tasks, StampEmbedder(p)
      PROVE  SyncType'
  BY <1>15 DEF StampEmbedder, Moves
<1>16. ASSUME NEW p \in Tasks, CloseSync(p)
      PROVE  SyncType'
  <2>1. registry' \in [Tools -> Versions]
    BY <1>16, MergedType, UnembeddedType DEF CloseSync
  <2>2. QED
    BY <1>16, <2>1 DEF CloseSync, Moves, Finish
<1>17. ASSUME NEW p \in Tasks, Stop(p)
      PROVE  SyncType'
  BY <1>17 DEF Stop, Forget
<1>18. ASSUME NEW p \in Tasks, Settle(p)
      PROVE  SyncType'
  BY <1>18 DEF Settle, Forget
<1>19. ASSUME NEW p \in Tasks, DeleteEntry(p)
      PROVE  SyncType'
  <2>1. subject[p] \in Tools
    BY <1>19 DEF DeleteEntry, Moves, Awaited
  <2>2. registry' \in [Tools -> Versions] /\ pending' \in [Tools -> Versions]
    BY <1>19, <2>1, PutType DEF DeleteEntry, Purged
  <2>3. QED
    <3>1. subject' \in [Tasks -> Tools \cup {NoTool}]
      BY <1>19 DEF DeleteEntry
    <3>2. pc' \in [Tasks -> Places]
      BY <1>19 DEF DeleteEntry, Moves
    <3>3. accepted' \subseteq Tools /\ deleted' \subseteq Tools
      BY <1>19, <2>1 DEF DeleteEntry
    <3>4. QED
      BY <1>19, <2>2, <3>1, <3>2, <3>3 DEF DeleteEntry
<1>20. ASSUME NEW p \in Tasks, DecideServers(p)
      PROVE  SyncType'
  BY <1>20 DEF DecideServers, Moves
<1>21. ASSUME NEW p \in Tasks, CloseServerSync(p)
      PROVE  SyncType'
  BY <1>21 DEF CloseServerSync, Moves
<1>22. ASSUME Restart
      PROVE  SyncType'
  BY <1>22 DEF Restart
<1>23. QED
  BY ONLY Next, <1>1, <1>2, <1>3, <1>4, <1>5, <1>6, <1>7, <1>8, <1>9, <1>10,
     <1>11, <1>12, <1>13, <1>14, <1>15, <1>16, <1>17, <1>18, <1>19, <1>20,
     <1>21, <1>22 DEF Next, Continue
-----------------------------------------------------------------------------
(* A step is a registration, the end of the process, or one task's.        *)
TaskStep(p) ==
  \/ \E t \in Tools, withHandler \in BOOLEAN : AddTool(p, t, withHandler)
  \/ \E force \in BOOLEAN : Sync(p, force)
  \/ Retrieve(p)
  \/ \E t \in Tools : DeleteRow(p, t)
  \/ StartServerSync(p)
  \/ Continue(p)

LEMMA NextCases ==
  Next <=> \/ \E t \in Tools : Register(t)
           \/ \E p \in Tasks : TaskStep(p)
           \/ Restart
BY Zenon DEF Next, TaskStep

(* Of the plans only the task's own changes.                               *)
Local(p) ==
  \A q \in Tasks \ {p} :
    /\ all'[q] = all[q] /\ prints'[q] = prints[q] /\ whole'[q] = whole[q]
    /\ todo'[q] = todo[q] /\ batch'[q] = batch[q]
    /\ pc'[q] = pc[q]

LEMMA StepIsLocal ==
  ASSUME SyncType, NEW p \in Tasks, TaskStep(p)
  PROVE  Local(p)
<1> USE DEF SyncType, Local, memory, store, plan, log
<1>1. ASSUME NEW t \in Tools, NEW withHandler \in BOOLEAN, AddTool(p, t, withHandler)
      PROVE  Local(p)
  BY <1>1 DEF AddTool, Idle, Put, AddPending, StartSync, Exported
<1>2. ASSUME NEW force \in BOOLEAN, Sync(p, force)
      PROVE  Local(p)
  BY <1>2 DEF Sync, Idle, StartSync, Exported
<1>3. CASE Retrieve(p)
  <2>1. CASE synced
    BY <1>3, <2>1 DEF Retrieve
  <2>2. CASE ~synced
    BY <1>3, <2>2 DEF Retrieve, StartSync
  <2>3. QED
    BY <2>1, <2>2
<1>4. ASSUME NEW t \in Tools, DeleteRow(p, t)
      PROVE  Local(p)
  BY <1>4 DEF DeleteRow, Moves
<1>5. CASE StartServerSync(p)
  BY <1>5 DEF StartServerSync, Moves
<1>6. CASE ReadFingerprints(p)
  BY <1>6 DEF ReadFingerprints, Moves
<1>7. CASE ReadEmbedder(p)
  BY <1>7 DEF ReadEmbedder, Moves
<1>8. CASE UpToDate(p)
  BY <1>8 DEF UpToDate, Moves, Finish, Merged
<1>9. CASE Decide(p)
  BY <1>9 DEF Decide, Moves, Batches
<1>10. CASE DropRows(p)
  BY <1>10 DEF DropRows, Moves
<1>11. CASE AddRows(p)
  BY <1>11 DEF AddRows, Moves
<1>12. CASE RegisterBatch(p)
  BY <1>12 DEF RegisterBatch, Moves, Rest, Batches
<1>13. CASE EraseEmbedder(p)
  BY <1>13 DEF EraseEmbedder, Moves
<1>14. CASE StampEmbedder(p)
  BY <1>14 DEF StampEmbedder, Moves
<1>15. CASE CloseSync(p)
  BY <1>15 DEF CloseSync, Moves, Finish, Merged, Unembedded
<1>16. CASE Stop(p)
  BY <1>16 DEF Stop, Forget
<1>17. CASE Settle(p)
  BY <1>17 DEF Settle, Forget
<1>18. CASE DeleteEntry(p)
  BY <1>18 DEF DeleteEntry, Moves, Put, Purged
<1>19. CASE DecideServers(p)
  BY <1>19 DEF DecideServers, Moves
<1>20. CASE CloseServerSync(p)
  BY <1>20 DEF CloseServerSync, Moves
<1>21. QED
  BY ONLY TaskStep(p), <1>1, <1>2, <1>3, <1>4, <1>5, <1>6, <1>7, <1>8, <1>9,
     <1>10, <1>11, <1>12, <1>13, <1>14, <1>15, <1>16, <1>17, <1>18, <1>19, <1>20
     DEF TaskStep, Continue

LEMMA OthersPlanned ==
  ASSUME SyncInv, NEW p \in Tasks, Local(p), NEW q \in Tasks \ {p}
  PROVE  Planned(q)'
<1>1. ToEmbed(q)' = ToEmbed(q)
  BY ToEmbedKept DEF Local
<1>2. QED
  BY <1>1 DEF Local, Planned, SyncInv

LEMMA OwnPlanned ==
  ASSUME SyncInv, NEW p \in Tasks, TaskStep(p)
  PROVE  Planned(p)'
<1> USE DEF SyncInv, SyncType, Planned, Written, Writing, memory, store, plan,
    log
<1>1. ASSUME NEW t \in Tools, NEW withHandler \in BOOLEAN, AddTool(p, t, withHandler)
      PROVE  Planned(p)'
  <2>1. pc'[p] \notin Writing /\ batch' = batch /\ todo' = todo
    BY <1>1 DEF AddTool, Idle, StartSync
  <2>2. QED
    BY <2>1
<1>2. ASSUME NEW force \in BOOLEAN, Sync(p, force)
      PROVE  Planned(p)'
  <2>1. pc'[p] \notin Writing /\ batch' = batch /\ todo' = todo
    BY <1>2 DEF Sync, Idle, StartSync
  <2>2. QED
    BY <2>1
<1>3. CASE Retrieve(p)
  <2>1. pc'[p] \notin Writing
    BY <1>3 DEF Retrieve, Idle, StartSync
  <2>2. batch' = batch /\ todo' = todo
    BY <1>3 DEF Retrieve, StartSync
  <2>3. QED
    BY <2>1, <2>2
<1>4. ASSUME NEW t \in Tools, DeleteRow(p, t)
      PROVE  Planned(p)'
  <2>1. ToEmbed(p)' = ToEmbed(p)
    BY <1>4, ToEmbedKept DEF DeleteRow
  <2>2. QED
    BY <1>4, <2>1 DEF DeleteRow, Moves
<1>5. CASE StartServerSync(p)
  <2>1. ToEmbed(p)' = ToEmbed(p)
    BY <1>5, ToEmbedKept DEF StartServerSync
  <2>2. QED
    BY <1>5, <2>1 DEF StartServerSync, Moves
<1>6. CASE ReadFingerprints(p)
  <2>1. pc'[p] \notin Writing /\ batch' = batch /\ todo' = todo
    BY <1>6 DEF ReadFingerprints, Moves
  <2>2. QED
    BY <2>1
<1>7. CASE ReadEmbedder(p)
  <2>1. pc'[p] \notin Writing /\ batch' = batch /\ todo' = todo
    BY <1>7 DEF ReadEmbedder, Moves
  <2>2. QED
    BY <2>1
<1>8. CASE UpToDate(p)
  <2>1. ToEmbed(p)' = ToEmbed(p)
    BY <1>8, ToEmbedKept DEF UpToDate
  <2>2. QED
    BY <1>8, <2>1 DEF UpToDate, Moves
<1>9. CASE Decide(p)
  <2>1. ToEmbed(p)' = ToEmbed(p)
    BY <1>9, ToEmbedKept DEF Decide
  <2>2. todo'[p] = ToEmbed(p) /\ batch'[p] \subseteq todo'[p]
    BY <1>9, BatchesType DEF Decide
  <2>3. pc'[p] = "dropping"
    BY <1>9 DEF Decide, Moves
  <2>4. QED
    BY <2>1, <2>2, <2>3
<1>10. CASE DropRows(p)
  <2>1. ToEmbed(p)' = ToEmbed(p)
    BY <1>10, ToEmbedKept DEF DropRows
  <2>2. QED
    BY <1>10, <2>1 DEF DropRows, Moves
<1>11. CASE AddRows(p)
  <2>1. ToEmbed(p)' = ToEmbed(p)
    BY <1>11, ToEmbedKept DEF AddRows
  <2>2. QED
    BY <1>11, <2>1 DEF AddRows, Moves
<1>12. CASE RegisterBatch(p)
  <2>1. ToEmbed(p)' = ToEmbed(p)
    BY <1>12, ToEmbedKept DEF RegisterBatch
  <2>2. todo'[p] = Rest(p) /\ batch'[p] \subseteq todo'[p]
    BY <1>12, BatchesType DEF RegisterBatch
  <2>3. Rest(p) \subseteq ToEmbed(p)
    BY <1>12 DEF RegisterBatch, Moves, Rest
  <2>4. pc'[p] = IF Rest(p) = {} THEN "erasing" ELSE "dropping"
    BY <1>12 DEF RegisterBatch, Moves
  <2>5. QED
    BY <2>1, <2>2, <2>3, <2>4
<1>13. CASE EraseEmbedder(p)
  <2>1. ToEmbed(p)' = ToEmbed(p)
    BY <1>13, ToEmbedKept DEF EraseEmbedder
  <2>2. QED
    BY <1>13, <2>1 DEF EraseEmbedder, Moves
<1>14. CASE StampEmbedder(p)
  <2>1. ToEmbed(p)' = ToEmbed(p)
    BY <1>14, ToEmbedKept DEF StampEmbedder
  <2>2. QED
    BY <1>14, <2>1 DEF StampEmbedder, Moves
<1>15. CASE CloseSync(p)
  <2>1. ToEmbed(p)' = ToEmbed(p)
    BY <1>15, ToEmbedKept DEF CloseSync
  <2>2. QED
    BY <1>15, <2>1 DEF CloseSync, Moves
<1>16. CASE Stop(p)
  <2>1. pc'[p] \notin Writing /\ batch'[p] = {} /\ todo'[p] = {}
    BY <1>16 DEF Stop, Forget
  <2>2. QED
    BY <2>1
<1>17. CASE Settle(p)
  <2>1. pc'[p] \notin Writing /\ batch'[p] = {} /\ todo'[p] = {}
    BY <1>17 DEF Settle, Forget
  <2>2. QED
    BY <2>1
<1>18. CASE DeleteEntry(p)
  <2>1. ToEmbed(p)' = ToEmbed(p)
    BY <1>18, ToEmbedKept DEF DeleteEntry
  <2>2. QED
    BY <1>18, <2>1 DEF DeleteEntry, Moves
<1>19. CASE DecideServers(p)
  <2>1. ToEmbed(p)' = ToEmbed(p)
    BY <1>19, ToEmbedKept DEF DecideServers
  <2>2. QED
    BY <1>19, <2>1 DEF DecideServers, Moves
<1>20. CASE CloseServerSync(p)
  <2>1. ToEmbed(p)' = ToEmbed(p)
    BY <1>20, ToEmbedKept DEF CloseServerSync
  <2>2. QED
    BY <1>20, <2>1 DEF CloseServerSync, Moves
<1>21. QED
  BY ONLY TaskStep(p), <1>1, <1>2, <1>3, <1>4, <1>5, <1>6, <1>7, <1>8, <1>9,
     <1>10, <1>11, <1>12, <1>13, <1>14, <1>15, <1>16, <1>17, <1>18, <1>19, <1>20
     DEF TaskStep, Continue
-----------------------------------------------------------------------------
(* What is registered stays so, but for a deletion, which takes its tool   *)
(* from whoever waits for it as well.                                      *)
Kept(p) ==
  /\ \A t \in Tools : registry[t] # 0 => registry'[t] # 0
  /\ \A q \in Tasks \ {p} : subject'[q] = subject[q]

LEMMA MostIsKept ==
  ASSUME SyncInv, NEW p \in Tasks, TaskStep(p)
  PROVE  Kept(p) \/ DeleteEntry(p)
<1> USE DEF SyncInv, SyncType, Kept, memory, store, plan, log
<1>1. ASSUME NEW t \in Tools, NEW withHandler \in BOOLEAN, AddTool(p, t, withHandler)
      PROVE  Kept(p) \/ DeleteEntry(p)
  <2>1. PICK v \in NewVersions(t) :
          registry' = IF withHandler THEN Put(registry, t, v) ELSE registry
    BY <1>1 DEF AddTool
  <2>2. \A u \in Tools : Put(registry, t, v)[u] = IF u = t THEN v ELSE registry[u]
    BY DEF Put
  <2>3. \A u \in Tools : registry[u] # 0 => registry'[u] # 0
    BY <2>1, <2>2, NewVersion
  <2>4. \A q \in Tasks \ {p} : subject'[q] = subject[q]
    BY <1>1 DEF AddTool
  <2>5. QED
    BY <2>3, <2>4
<1>2. ASSUME NEW force \in BOOLEAN, Sync(p, force)
      PROVE  Kept(p) \/ DeleteEntry(p)
  BY <1>2 DEF Sync, Idle, StartSync, Exported
<1>3. CASE Retrieve(p)
  <2>1. UNCHANGED registry /\ UNCHANGED subject
    BY <1>3 DEF Retrieve
  <2>2. QED
    BY <2>1
<1>4. ASSUME NEW t \in Tools, DeleteRow(p, t)
      PROVE  Kept(p) \/ DeleteEntry(p)
  BY <1>4 DEF DeleteRow, Moves
<1>5. CASE StartServerSync(p)
  BY <1>5 DEF StartServerSync, Moves
<1>6. CASE ReadFingerprints(p)
  BY <1>6 DEF ReadFingerprints, Moves
<1>7. CASE ReadEmbedder(p)
  BY <1>7 DEF ReadEmbedder, Moves
<1>8. CASE UpToDate(p)
  BY <1>8 DEF UpToDate, Moves, Finish, Merged
<1>9. CASE Decide(p)
  BY <1>9 DEF Decide, Moves, Batches
<1>10. CASE DropRows(p)
  BY <1>10 DEF DropRows, Moves
<1>11. CASE AddRows(p)
  BY <1>11 DEF AddRows, Moves
<1>12. CASE RegisterBatch(p)
  <2>1. \A t \in batch[p] : all[p][t] # 0
    BY <1>12, ToEmbedIsKnown DEF RegisterBatch, Moves, Planned, Writing, Known
  <2>2. QED
    BY <1>12, <2>1 DEF RegisterBatch
<1>13. CASE EraseEmbedder(p)
  BY <1>13 DEF EraseEmbedder, Moves
<1>14. CASE StampEmbedder(p)
  BY <1>14 DEF StampEmbedder, Moves
<1>15. CASE CloseSync(p)
  BY <1>15 DEF CloseSync, Moves, Finish, Merged, Unembedded
<1>16. CASE Stop(p)
  BY <1>16 DEF Stop, Forget
<1>17. CASE Settle(p)
  BY <1>17 DEF Settle, Forget
<1>18. CASE DeleteEntry(p)
  BY <1>18
<1>19. CASE DecideServers(p)
  BY <1>19 DEF DecideServers, Moves
<1>20. CASE CloseServerSync(p)
  BY <1>20 DEF CloseServerSync, Moves
<1>21. QED
  BY ONLY TaskStep(p), <1>1, <1>2, <1>3, <1>4, <1>5, <1>6, <1>7, <1>8, <1>9,
     <1>10, <1>11, <1>12, <1>13, <1>14, <1>15, <1>16, <1>17, <1>18, <1>19, <1>20
     DEF TaskStep, Continue

LEMMA OthersAwaited ==
  ASSUME SyncInv, NEW p \in Tasks, Local(p), Kept(p) \/ DeleteEntry(p),
         NEW q \in Tasks \ {p}
  PROVE  Awaited(q)'
<1>1. ToEmbed(q)' = ToEmbed(q)
  BY ToEmbedKept DEF Local
<1>2. /\ pc'[q] = pc[q] /\ all'[q] = all[q] /\ todo'[q] = todo[q]
      /\ Awaited(q)
  BY DEF Local, SyncInv
<1>3. subject[q] \in Tools \cup {NoTool}
  BY DEF SyncInv, SyncType
<1>4. CASE Kept(p)
  <2>1. subject'[q] = subject[q]
    BY <1>4 DEF Kept
  <2>2. subject[q] \in Tools /\ registry[subject[q]] # 0 => registry'[subject[q]] # 0
    BY <1>4 DEF Kept
  <2>3. QED
    BY <1>1, <1>2, <1>3, <2>1, <2>2 DEF Awaited
<1>5. CASE DeleteEntry(p)
  <2>1. registry' = Put(registry, subject[p], 0)
    BY <1>5 DEF DeleteEntry
  <2>2. subject'[q] =
          IF subject[q] = subject[p] /\ pc[q] # "deleting" THEN NoTool ELSE subject[q]
    BY <1>5 DEF DeleteEntry
  <2>3. subject[p] \in Tools
    BY <1>5 DEF DeleteEntry, Moves, SyncInv, Awaited
  <2>4. \A t \in Tools : t # subject[p] => registry'[t] = registry[t]
    BY <2>1 DEF Put, SyncInv, SyncType
  <2>5. pc[q] = "deleting" => pc[q] \notin Syncing
    BY DEF Syncing, Writing, Written
  <2>6. CASE pc[q] = "deleting"
    BY <1>2, <2>2, <2>5, <2>6 DEF Awaited
  <2>7. CASE pc[q] # "deleting" /\ subject[q] = subject[p]
    BY <1>2, <2>2, <2>7 DEF Awaited
  <2>8. CASE pc[q] # "deleting" /\ subject[q] # subject[p]
    <3>1. subject'[q] = subject[q]
      BY <2>2, <2>8
    <3>2. subject[q] \in Tools => registry'[subject[q]] = registry[subject[q]]
      BY <2>4, <2>8
    <3>3. QED
      BY <1>1, <1>2, <1>3, <3>1, <3>2 DEF Awaited
  <2>9. QED
    BY <2>6, <2>7, <2>8
<1>6. QED
  BY <1>4, <1>5

LEMMA OwnAwaited ==
  ASSUME SyncInv, NEW p \in Tasks, TaskStep(p)
  PROVE  Awaited(p)'
<1> USE DEF SyncInv, SyncType, Awaited, Planned, Written, Writing, Syncing,
    memory, store, plan, log
<1>1. ASSUME NEW t \in Tools, NEW withHandler \in BOOLEAN, AddTool(p, t, withHandler)
      PROVE  Awaited(p)'
  <2>1. PICK v \in NewVersions(t) :
          /\ pending' = AddPending(t, v)
          /\ registry' = IF withHandler THEN Put(registry, t, v) ELSE registry
          /\ StartSync(p, Exported(registry', pending'), FALSE)
    BY <1>1 DEF AddTool
  <2>2. registry' \in [Tools -> Versions] /\ pending'[t] # 0
    BY <2>1, NewVersion, PutType, AddPendingType
  <2>3. Exported(registry', pending')[t] # 0
    BY <2>2 DEF Exported
  <2>4. pc'[p] = "reading" /\ all'[p] = Exported(registry', pending')
    BY <2>1, <2>3 DEF StartSync, Known
  <2>5. subject'[p] = t
    BY <1>1 DEF AddTool
  <2>6. QED
    BY <2>3, <2>4, <2>5
<1>2. ASSUME NEW force \in BOOLEAN, Sync(p, force)
      PROVE  Awaited(p)'
  <2>1. subject'[p] = NoTool /\ pc'[p] # "deleting"
    BY <1>2 DEF Sync, Idle, StartSync
  <2>2. QED
    BY <2>1
<1>3. CASE Retrieve(p)
  <2>1. subject'[p] = NoTool /\ pc'[p] # "deleting"
    BY <1>3 DEF Retrieve, Idle, StartSync
  <2>2. QED
    BY <2>1
<1>4. ASSUME NEW t \in Tools, DeleteRow(p, t)
      PROVE  Awaited(p)'
  BY <1>4 DEF DeleteRow, Moves
<1>5. CASE StartServerSync(p)
  BY <1>5 DEF StartServerSync, Moves
<1>6. CASE ReadFingerprints(p)
  <2>1. pc'[p] \notin Writing \cup {"deleting"} /\ pc[p] # "deleting"
    BY <1>6 DEF ReadFingerprints, Moves
  <2>2. pc'[p] \in Syncing <=> pc[p] \in Syncing
    BY <1>6 DEF ReadFingerprints, Moves
  <2>3. UNCHANGED <<subject, all>>
    BY <1>6 DEF ReadFingerprints
  <2>4. QED
    BY <2>1, <2>2, <2>3
<1>7. CASE ReadEmbedder(p)
  <2>1. pc'[p] \notin Writing \cup {"deleting"} /\ pc[p] # "deleting"
    BY <1>7 DEF ReadEmbedder, Moves
  <2>2. pc'[p] \in Syncing <=> pc[p] \in Syncing
    BY <1>7 DEF ReadEmbedder, Moves
  <2>3. UNCHANGED <<subject, all>>
    BY <1>7 DEF ReadEmbedder
  <2>4. QED
    BY <2>1, <2>2, <2>3
<1>8. CASE UpToDate(p)
  <2>1. pc'[p] \notin Syncing \cup {"deleting"} /\ subject'[p] = NoTool
    BY <1>8 DEF UpToDate, Moves, Finish
  <2>2. QED
    BY <2>1
<1>9. CASE Decide(p)
  <2>1. ToEmbed(p)' = ToEmbed(p)
    BY <1>9, ToEmbedKept DEF Decide
  <2>2. todo'[p] = ToEmbed(p) /\ UNCHANGED <<subject, all, registry>>
    BY <1>9 DEF Decide
  <2>3. pc[p] = "deciding" /\ pc'[p] = "dropping"
    BY <1>9 DEF Decide, Moves
  <2>4. QED
    BY <2>1, <2>2, <2>3
<1>10. CASE DropRows(p)
  <2>1. ToEmbed(p)' = ToEmbed(p)
    BY <1>10, ToEmbedKept DEF DropRows
  <2>2. QED
    BY <1>10, <2>1 DEF DropRows, Moves
<1>11. CASE AddRows(p)
  <2>1. ToEmbed(p)' = ToEmbed(p)
    BY <1>11, ToEmbedKept DEF AddRows
  <2>2. QED
    BY <1>11, <2>1 DEF AddRows, Moves
<1>12. CASE RegisterBatch(p)
  <2>1. ToEmbed(p)' = ToEmbed(p)
    BY <1>12, ToEmbedKept DEF RegisterBatch
  <2>2. /\ todo'[p] = todo[p] \ batch[p]
        /\ UNCHANGED <<subject, all>>
    BY <1>12 DEF RegisterBatch, Rest
  <2>3. \A t \in Tools : registry'[t] = IF t \in batch[p] THEN all[p][t] ELSE registry[t]
    BY <1>12 DEF RegisterBatch
  <2>4. pc[p] = "registering" /\ pc'[p] \in {"erasing", "dropping"}
    BY <1>12 DEF RegisterBatch, Moves
  <2>5. subject[p] \in Tools \cup {NoTool}
    OBVIOUS
  <2>6. Awaited(p) /\ (subject[p] # NoTool => all[p][subject[p]] # 0)
    BY <2>4
  <2>7. QED
    BY <2>1, <2>2, <2>3, <2>4, <2>5, <2>6
<1>13. CASE EraseEmbedder(p)
  <2>1. ToEmbed(p)' = ToEmbed(p)
    BY <1>13, ToEmbedKept DEF EraseEmbedder
  <2>2. QED
    BY <1>13, <2>1 DEF EraseEmbedder, Moves
<1>14. CASE StampEmbedder(p)
  <2>1. ToEmbed(p)' = ToEmbed(p)
    BY <1>14, ToEmbedKept DEF StampEmbedder
  <2>2. QED
    BY <1>14, <2>1 DEF StampEmbedder, Moves
<1>15. CASE CloseSync(p)
  <2>1. pc'[p] \notin Syncing \cup {"deleting"} /\ subject'[p] = NoTool
    BY <1>15 DEF CloseSync, Moves, Finish
  <2>2. QED
    BY <2>1
<1>16. CASE Stop(p)
  <2>1. pc'[p] \notin Syncing \cup {"deleting"} /\ subject'[p] = NoTool
    BY <1>16 DEF Stop
  <2>2. QED
    BY <2>1
<1>17. CASE Settle(p)
  BY <1>17 DEF Settle, Forget
<1>18. CASE DeleteEntry(p)
  <2>1. pc'[p] \notin Syncing \cup {"deleting"} /\ subject'[p] = NoTool
    BY <1>18 DEF DeleteEntry, Moves
  <2>2. QED
    BY <2>1
<1>19. CASE DecideServers(p)
  BY <1>19 DEF DecideServers, Moves
<1>20. CASE CloseServerSync(p)
  BY <1>20 DEF CloseServerSync, Moves
<1>21. QED
  BY ONLY TaskStep(p), <1>1, <1>2, <1>3, <1>4, <1>5, <1>6, <1>7, <1>8, <1>9,
     <1>10, <1>11, <1>12, <1>13, <1>14, <1>15, <1>16, <1>17, <1>18, <1>19, <1>20
     DEF TaskStep, Continue

(* Syncs know what was exported and registrations make a tool known again. *)
LEMMA UnknownNext ==
  ASSUME SyncInv, NEW p \in Tasks, TaskStep(p)
  PROVE  DeletedUnknown'
<1> USE VersionFacts DEF SyncInv, SyncType, DeletedUnknown, Nothing, memory,
    store, plan, log
<1>1. ASSUME NEW t \in Tools, NEW withHandler \in BOOLEAN, AddTool(p, t, withHandler)
      PROVE  DeletedUnknown'
  BY <1>1 DEF AddTool, Idle, Put, AddPending, StartSync, Exported
<1>2. ASSUME NEW force \in BOOLEAN, Sync(p, force)
      PROVE  DeletedUnknown'
  BY <1>2 DEF Sync, Idle, StartSync, Exported
<1>3. CASE Retrieve(p)
  <2>1. CASE synced
    BY <1>3, <2>1 DEF Retrieve
  <2>2. CASE ~synced
    <3>1. all' = [all EXCEPT ![p] = Exported(registry, pending)]
      BY <1>3, <2>2 DEF Retrieve, StartSync
    <3>2. \A t \in deleted \ carried : Exported(registry, pending)[t] = 0
      BY DEF Exported
    <3>3. UNCHANGED <<registry, pending, deleted, carried>>
      BY <1>3 DEF Retrieve
    <3>4. QED
      BY <3>1, <3>2, <3>3
  <2>3. QED
    BY <2>1, <2>2
<1>4. ASSUME NEW t \in Tools, DeleteRow(p, t)
      PROVE  DeletedUnknown'
  BY <1>4 DEF DeleteRow, Moves
<1>5. CASE StartServerSync(p)
  BY <1>5 DEF StartServerSync, Moves
<1>6. CASE ReadFingerprints(p)
  BY <1>6 DEF ReadFingerprints, Moves
<1>7. CASE ReadEmbedder(p)
  BY <1>7 DEF ReadEmbedder, Moves
<1>8. CASE UpToDate(p)
  BY <1>8 DEF UpToDate, Moves, Finish, Merged
<1>9. CASE Decide(p)
  BY <1>9 DEF Decide, Moves, Batches
<1>10. CASE DropRows(p)
  BY <1>10 DEF DropRows, Moves
<1>11. CASE AddRows(p)
  BY <1>11 DEF AddRows, Moves
<1>12. CASE RegisterBatch(p)
  BY <1>12 DEF RegisterBatch, Moves, Rest, Batches
<1>13. CASE EraseEmbedder(p)
  BY <1>13 DEF EraseEmbedder, Moves
<1>14. CASE StampEmbedder(p)
  BY <1>14 DEF StampEmbedder, Moves
<1>15. CASE CloseSync(p)
  BY <1>15 DEF CloseSync, Moves, Finish, Merged, Unembedded
<1>16. CASE Stop(p)
  BY <1>16 DEF Stop, Forget
<1>17. CASE Settle(p)
  BY <1>17 DEF Settle, Forget
<1>18. CASE DeleteEntry(p)
  <2>1. subject[p] \in Tools
    BY <1>18 DEF DeleteEntry, Moves, Awaited
  <2>2. /\ all' = all
        /\ registry' = Put(registry, subject[p], 0)
        /\ pending' = Put(pending, subject[p], 0)
    BY <1>18 DEF DeleteEntry, Purged
  <2>3. /\ deleted' = deleted \cup {subject[p]}
        /\ carried' = IF \E q \in Tasks : all[q][subject[p]] # 0
                      THEN carried \cup {subject[p]} ELSE carried \ {subject[p]}
    BY <1>18 DEF DeleteEntry
  <2>4. ASSUME NEW t \in deleted' \ carried'
        PROVE  registry'[t] = 0 /\ pending'[t] = 0 /\ \A q \in Tasks : all'[q][t] = 0
    <3>1. t \in Tools
      BY <2>1, <2>3
    <3>2. CASE t = subject[p]
      BY <2>1, <2>2, <2>3, <3>2 DEF Put
    <3>3. CASE t # subject[p]
      <4>1. t \in deleted \ carried
        BY <2>3, <3>3
      <4>2. QED
        BY <2>2, <3>1, <3>3, <4>1 DEF Put
    <3>4. QED
      BY <3>2, <3>3
  <2>5. QED
    BY <2>4
<1>19. CASE DecideServers(p)
  BY <1>19 DEF DecideServers, Moves
<1>20. CASE CloseServerSync(p)
  BY <1>20 DEF CloseServerSync, Moves
<1>21. QED
  BY ONLY TaskStep(p), <1>1, <1>2, <1>3, <1>4, <1>5, <1>6, <1>7, <1>8, <1>9,
     <1>10, <1>11, <1>12, <1>13, <1>14, <1>15, <1>16, <1>17, <1>18, <1>19, <1>20
     DEF TaskStep, Continue

LEMMA AcceptedNext ==
  ASSUME SyncInv, SyncType', NEW p \in Tasks, TaskStep(p)
  PROVE  AcceptedIsRegistered'
<1> USE DEF SyncInv, SyncType, AcceptedIsRegistered, Known
<1>1. CASE UpToDate(p)
  <2>1. subject[p] # NoTool => subject[p] \in Tools /\ all[p][subject[p]] # 0
    BY <1>1 DEF UpToDate, Moves, Awaited, Syncing
  <2>2. \A t \in Tools : registry'[t] = IF all[p][t] # 0 THEN all[p][t] ELSE registry[t]
    BY <1>1 DEF UpToDate, Merged
  <2>3. accepted' = IF subject[p] = NoTool THEN accepted ELSE accepted \cup {subject[p]}
    BY <1>1 DEF UpToDate, Finish
  <2>4. QED
    BY <2>1, <2>2, <2>3
<1>2. CASE CloseSync(p)
  <2>1. subject[p] # NoTool =>
          /\ subject[p] \in Tools /\ all[p][subject[p]] # 0
          /\ subject[p] \in ToEmbed(p) => registry[subject[p]] # 0
    BY <1>2 DEF CloseSync, Moves, Awaited, Planned, Syncing, Writing, Written
  <2>2. \A t \in Tools : registry'[t] =
          IF t \in ToEmbed(p) \/ all[p][t] = 0 THEN registry[t] ELSE all[p][t]
    BY <1>2 DEF CloseSync, Merged, Unembedded
  <2>3. accepted' = IF subject[p] = NoTool THEN accepted ELSE accepted \cup {subject[p]}
    BY <1>2 DEF CloseSync, Finish
  <2>4. QED
    BY <2>1, <2>2, <2>3
<1>3. CASE DeleteEntry(p)
  <2>1. subject[p] \in Tools
    BY <1>3 DEF DeleteEntry, Moves, Awaited
  <2>2. accepted' = accepted \ {subject[p]} /\ registry' = Put(registry, subject[p], 0)
    BY <1>3 DEF DeleteEntry
  <2>3. QED
    BY <2>1, <2>2 DEF Put
<1>4. CASE ~UpToDate(p) /\ ~CloseSync(p) /\ ~DeleteEntry(p)
  <2>1. Kept(p)
    BY <1>4, MostIsKept
  <2>2. accepted' \subseteq accepted
    BY <1>4 DEF TaskStep, Continue, log, AddTool, Sync, Retrieve, DeleteRow,
       StartServerSync, ReadFingerprints, ReadEmbedder, Decide, DropRows,
       AddRows, RegisterBatch, EraseEmbedder, StampEmbedder, Stop, Settle,
       DecideServers, CloseServerSync
  <2>3. QED
    BY <2>1, <2>2 DEF Kept
<1>5. QED
  BY <1>1, <1>2, <1>3, <1>4
-----------------------------------------------------------------------------
(* The invariant holds from the start and every step keeps it.             *)

LEMMA SyncInit == Init => SyncInv
<1> SUFFICES ASSUME Init PROVE SyncInv
  OBVIOUS
<1> USE VersionFacts DEF Init
<1>1. SyncType
  BY DEF SyncType, Places
<1>2. \A p \in Tasks : Planned(p) /\ Awaited(p)
  BY DEF Planned, Awaited, Writing, Written, Syncing
<1>3. DeletedUnknown /\ AcceptedIsRegistered
  BY DEF DeletedUnknown, AcceptedIsRegistered
<1>4. QED
  BY <1>1, <1>2, <1>3 DEF SyncInv

LEMMA InvTaskStep ==
  ASSUME SyncInv, SyncType', NEW p \in Tasks, TaskStep(p)
  PROVE  SyncInv'
<1>1. Local(p) /\ (Kept(p) \/ DeleteEntry(p))
  BY StepIsLocal, MostIsKept DEF SyncInv
<1>2. Planned(p)' /\ Awaited(p)'
  BY OwnPlanned, OwnAwaited
<1>3. \A q \in Tasks \ {p} : Planned(q)' /\ Awaited(q)'
  BY <1>1, OthersPlanned, OthersAwaited
<1>4. QED
  BY <1>2, <1>3, UnknownNext, AcceptedNext DEF SyncInv

LEMMA InvRegister ==
  ASSUME SyncInv, SyncType', NEW t \in Tools, Register(t)
  PROVE  SyncInv'
<1>1. PICK v \in NewVersions(t) :
        pending' = AddPending(t, v) /\ registry' = Put(registry, t, v)
  BY DEF Register
<1>2. registry \in [Tools -> Versions] /\ v \in Versions /\ v # 0
  BY NewVersion DEF SyncInv, SyncType
<1>3. \A u \in Tools : registry'[u] = IF u = t THEN v ELSE registry[u]
  BY <1>1, <1>2, PutType
<1>4. \A u \in Tools \ {t} : pending'[u] = pending[u]
  BY <1>1, AddPendingType DEF SyncInv
<1>5. /\ UNCHANGED <<pc, all, prints, whole, todo, batch, subject>>
      /\ accepted' = accepted \cup {t}
      /\ deleted' = deleted \ {t} /\ carried' = carried \ {t}
  BY DEF Register, plan
<1>6. \A q \in Tasks : Planned(q)' /\ Awaited(q)'
  <2>1. ASSUME NEW q \in Tasks
        PROVE  Planned(q)' /\ Awaited(q)'
    <3>1. ToEmbed(q)' = ToEmbed(q)
      BY <1>5, ToEmbedKept
    <3>2. Planned(q) /\ Awaited(q) /\ subject[q] \in Tools \cup {NoTool}
      BY DEF SyncInv, SyncType
    <3>3. Planned(q)'
      BY <1>5, <3>1, <3>2 DEF Planned
    <3>4. Awaited(q)'
      BY <1>2, <1>3, <1>5, <3>1, <3>2 DEF Awaited
    <3>5. QED
      BY <3>3, <3>4
  <2>2. QED
    BY <2>1
<1>7. DeletedUnknown'
  BY <1>3, <1>4, <1>5 DEF DeletedUnknown, SyncInv, SyncType
<1>8. AcceptedIsRegistered'
  BY <1>2, <1>3, <1>5 DEF AcceptedIsRegistered, Known, SyncInv
<1>9. QED
  BY <1>6, <1>7, <1>8 DEF SyncInv

LEMMA InvRestart ==
  ASSUME SyncInv, SyncType', Restart
  PROVE  SyncInv'
<1>1. \A q \in Tasks : Planned(q)'
  BY DEF Restart, Planned, Writing, Written
<1>2. \A q \in Tasks : Awaited(q)'
  BY DEF Restart, Awaited, Syncing, Writing, Written
<1>3. DeletedUnknown' /\ AcceptedIsRegistered'
  BY DEF Restart, DeletedUnknown, AcceptedIsRegistered
<1>4. QED
  BY <1>1, <1>2, <1>3 DEF SyncInv

LEMMA InvStutter ==
  ASSUME SyncInv, UNCHANGED vars
  PROVE  SyncInv'
<1> USE DEF vars, memory, store, plan, log
<1>1. SyncType'
  BY DEF SyncInv, SyncType
<1>2. \A q \in Tasks : Planned(q)' /\ Awaited(q)'
  BY DEF SyncInv, Planned, Awaited, ToEmbed, Changed, Known
<1>3. DeletedUnknown' /\ AcceptedIsRegistered'
  BY DEF SyncInv, DeletedUnknown, AcceptedIsRegistered, Known
<1>4. QED
  BY <1>1, <1>2, <1>3 DEF SyncInv

LEMMA SyncNext == SyncInv /\ [Next]_vars => SyncInv'
<1>1. ASSUME SyncInv, Next
      PROVE  SyncInv'
  BY <1>1, TypeNext, NextCases, InvTaskStep, InvRegister, InvRestart
<1>2. QED
  BY <1>1, InvStutter

(* A tool whose `register` or `add_tool` returned stays registered until   *)
(* it is deleted, however many syncs overlap, fail or are cut off.         *)
THEOREM AcceptedStaysRegistered == Spec => []AcceptedIsRegistered
<1>1. SyncInv => AcceptedIsRegistered
  BY DEF SyncInv
<1>2. QED
  BY <1>1, SyncInit, SyncNext, PTL DEF Spec

(* A deleted tool that no sync under way had exported when its entry was   *)
(* removed does not come back to the registry.                             *)
THEOREM DeletionStands == Spec => []DeletionHolds
<1>1. SyncInv => DeletionHolds
  BY DEF SyncInv, DeletedUnknown, DeletionHolds
<1>2. QED
  BY <1>1, SyncInit, SyncNext, PTL DEF Spec

-----------------------------------------------------------------------------
(* What a sync nobody disturbs has reached, step by step.                  *)

HasRow(t, v) == \E r \in ToSet(rows[t]) : r.version = v

Embedded(p, t) == rows[t] = <<NewRow(p, t)>>

Converged(p) ==
  \A t \in Known(all[p]) :
    /\ registry[t] = all[p][t]
    /\ HasRow(t, all[p][t])
    /\ whole[p] => Embedded(p, t)

(* It agrees with the registry, has read what the store has, and leaves    *)
(* one new row for every tool it has dealt with.                           *)
Converging(p) ==
  /\ pc[p] \in Syncing => \A t \in Tools : registry[t] \in {0, all[p][t]}
  /\ pc[p] \in {"comparing", "deciding"} =>
       \A t \in Tools : prints[p][t] # 0 => HasRow(t, prints[p][t])
  /\ pc[p] \in Writing =>
       /\ \A t \in Known(all[p]) \ ToEmbed(p) : HasRow(t, all[p][t])
       /\ \A t \in ToEmbed(p) \ todo[p] : registry[t] = all[p][t] /\ Embedded(p, t)
  /\ pc[p] = "adding" => \A t \in batch[p] : rows[t] = <<>>
  /\ pc[p] = "registering" => \A t \in batch[p] : Embedded(p, t)
  /\ pc[p] = "settled" => Converged(p)

(* Who is not in a sync, or in one of the servers, has exported nothing.   *)
Unplanned(p) == pc[p] \notin Syncing \cup {"settled"} => Known(all[p]) = {}

QuietInv == \A p \in Tasks : Unplanned(p) /\ (quiet[p] => Converging(p))

(* Every step but a Settle is noise to the others.                         *)
LEMMA Noise ==
  ASSUME NEW p \in Tasks, TaskStep(p), NEW q \in Tasks \ {p}, quiet'[q]
  PROVE  UNCHANGED <<registry, rows, embedder, quiet>>
<1>1. (quiet' = [r \in Tasks |-> r = p /\ quiet[r]]) => FALSE
  OBVIOUS
<1>2. ~ Disturbs(p)
  BY <1>1 DEF Disturbs
<1>3. ASSUME NEW defs, NEW force, StartSync(p, defs, force)
      PROVE  FALSE
  BY <1>2, <1>3 DEF StartSync
<1>4. Settle(p)
  <2>1. ~ Sync(p, TRUE) /\ ~ Sync(p, FALSE) /\ ~ Retrieve(p)
    BY <1>2, <1>3 DEF Sync, Retrieve
  <2>2. \A t \in Tools, withHandler \in BOOLEAN : ~ AddTool(p, t, withHandler)
    BY <1>3 DEF AddTool
  <2>3. /\ \A t \in Tools : ~ DeleteRow(p, t)
        /\ ~ StartServerSync(p) /\ ~ ReadFingerprints(p) /\ ~ ReadEmbedder(p)
    BY <1>2 DEF DeleteRow, StartServerSync, ReadFingerprints, ReadEmbedder, Moves
  <2>4. /\ ~ UpToDate(p) /\ ~ Decide(p) /\ ~ DropRows(p) /\ ~ AddRows(p)
        /\ ~ RegisterBatch(p) /\ ~ EraseEmbedder(p)
    BY <1>2 DEF UpToDate, Decide, DropRows, AddRows, RegisterBatch, EraseEmbedder, Moves
  <2>5. /\ ~ StampEmbedder(p) /\ ~ CloseSync(p) /\ ~ Stop(p) /\ ~ DeleteEntry(p)
        /\ ~ DecideServers(p) /\ ~ CloseServerSync(p)
    BY <1>2 DEF StampEmbedder, CloseSync, Stop, DeleteEntry, DecideServers,
       CloseServerSync, Moves
  <2>6. QED
    BY <2>1, <2>2, <2>3, <2>4, <2>5 DEF TaskStep, Continue
<1>5. QED
  BY <1>4 DEF Settle, memory, store

LEMMA KeptConverging ==
  ASSUME NEW q \in Tasks, Converging(q), UNCHANGED <<registry, rows, embedder>>,
         all'[q] = all[q], prints'[q] = prints[q], whole'[q] = whole[q],
         todo'[q] = todo[q], batch'[q] = batch[q], pc'[q] = pc[q]
  PROVE  Converging(q)'
<1>1. ToEmbed(q)' = ToEmbed(q)
  BY ToEmbedKept
<1>2. Known(all[q])' = Known(all[q])
  BY DEF Known
<1>3. \A t : NewRow(q, t)' = NewRow(q, t)
  BY DEF NewRow
<1>4. \A t : Embedded(q, t)' <=> Embedded(q, t)
  BY <1>3 DEF Embedded
<1>5. \A t, v : HasRow(t, v)' <=> HasRow(t, v)
  BY DEF HasRow
<1>6. Converged(q)' <=> Converged(q)
  BY <1>2, <1>4, <1>5 DEF Converged
<1>7. QED
  BY <1>1, <1>2, <1>4, <1>5, <1>6 DEF Converging

LEMMA OthersConverging ==
  ASSUME QuietInv, NEW p \in Tasks, TaskStep(p), Local(p), NEW q \in Tasks \ {p}
  PROVE  Unplanned(q)' /\ (quiet'[q] => Converging(q)')
<1>1. Unplanned(q)'
  BY DEF QuietInv, Unplanned, Local, Known
<1>2. ASSUME quiet'[q]
      PROVE  Converging(q)'
  <2>1. UNCHANGED <<registry, rows, embedder, quiet>>
    BY <1>2, Noise
  <2>2. Converging(q)
    BY <1>2, <2>1 DEF QuietInv
  <2>3. QED
    BY <2>1, <2>2, KeptConverging DEF Local
<1>3. QED
  BY <1>1, <1>2

LEMMA OwnUnplanned ==
  ASSUME SyncInv, QuietInv, NEW p \in Tasks, TaskStep(p)
  PROVE  Unplanned(p)'
<1> USE DEF SyncInv, SyncType, memory, store, plan, log
<1>1. ASSUME NEW defs, NEW force, StartSync(p, defs, force)
      PROVE  Unplanned(p)'
  <2>1. all'[p] = defs
    BY <1>1 DEF StartSync
  <2>2. Known(defs) # {} => pc'[p] = "reading"
    BY <1>1 DEF StartSync
  <2>3. QED
    BY <2>1, <2>2 DEF Unplanned, Syncing, Known
<1>2. ASSUME pc[p] \notin Syncing \cup {"settled"}, UNCHANGED all
      PROVE  Unplanned(p)'
  BY <1>2 DEF QuietInv, Unplanned, Known
<1>3. ASSUME NEW t \in Tools, NEW withHandler \in BOOLEAN, AddTool(p, t, withHandler)
      PROVE  Unplanned(p)'
  BY <1>1, <1>3 DEF AddTool
<1>4. ASSUME NEW force \in BOOLEAN, Sync(p, force)
      PROVE  Unplanned(p)'
  BY <1>1, <1>4 DEF Sync
<1>5. CASE Retrieve(p)
  <2>1. pc[p] \notin Syncing \cup {"settled"}
    BY <1>5 DEF Retrieve, Idle, Syncing, Writing, Written
  <2>2. QED
    BY <1>1, <1>2, <1>5, <2>1 DEF Retrieve
<1>6. ASSUME NEW t \in Tools, DeleteRow(p, t)
      PROVE  Unplanned(p)'
  BY <1>2, <1>6 DEF DeleteRow, Moves, Syncing, Writing, Written
<1>7. CASE StartServerSync(p)
  BY <1>2, <1>7 DEF StartServerSync, Moves, Syncing, Writing, Written
<1>8. CASE pc'[p] \in Syncing \cup {"settled"}
  BY <1>8 DEF Unplanned
<1>9. CASE ReadFingerprints(p)
  BY <1>8, <1>9 DEF ReadFingerprints, Moves, Syncing
<1>10. CASE ReadEmbedder(p)
  <2>1. UNCHANGED all
    BY <1>10 DEF ReadEmbedder
  <2>2. CASE pc[p] = "comparing"
    BY <1>8, <1>10, <2>2 DEF ReadEmbedder, Moves, Syncing
  <2>3. CASE pc[p] = "comparing servers"
    BY <1>2, <2>1, <2>3 DEF Syncing, Writing, Written
  <2>4. QED
    BY <1>10, <2>2, <2>3 DEF ReadEmbedder, Moves
<1>11. CASE UpToDate(p)
  BY <1>8, <1>11 DEF UpToDate, Moves
<1>12. CASE Decide(p)
  BY <1>8, <1>12 DEF Decide, Moves, Syncing, Writing
<1>13. CASE DropRows(p)
  BY <1>8, <1>13 DEF DropRows, Moves, Syncing, Writing
<1>14. CASE AddRows(p)
  BY <1>8, <1>14 DEF AddRows, Moves, Syncing, Writing
<1>15. CASE RegisterBatch(p)
  BY <1>8, <1>15 DEF RegisterBatch, Moves, Syncing, Writing, Written
<1>16. CASE EraseEmbedder(p)
  <2>1. UNCHANGED all
    BY <1>16 DEF EraseEmbedder
  <2>2. CASE pc[p] = "erasing"
    BY <1>8, <1>16, <2>2 DEF EraseEmbedder, Moves, Syncing, Writing, Written
  <2>3. CASE pc[p] = "erasing servers"
    BY <1>2, <2>1, <2>3 DEF Syncing, Writing, Written
  <2>4. QED
    BY <1>16, <2>2, <2>3 DEF EraseEmbedder, Moves
<1>17. CASE StampEmbedder(p)
  <2>1. UNCHANGED all
    BY <1>17 DEF StampEmbedder
  <2>2. CASE pc[p] = "stamping"
    BY <1>8, <1>17, <2>2 DEF StampEmbedder, Moves, Syncing, Writing, Written
  <2>3. CASE pc[p] = "stamping servers"
    BY <1>2, <2>1, <2>3 DEF Syncing, Writing, Written
  <2>4. QED
    BY <1>17, <2>2, <2>3 DEF StampEmbedder, Moves
<1>18. CASE CloseSync(p)
  BY <1>8, <1>18 DEF CloseSync, Moves
<1>19. CASE Forget(p)
  BY <1>19 DEF Forget, Unplanned, Known, Nothing
<1>20. CASE DeleteEntry(p)
  BY <1>2, <1>20 DEF DeleteEntry, Moves, Syncing, Writing, Written
<1>21. CASE DecideServers(p)
  BY <1>2, <1>21 DEF DecideServers, Moves, Syncing, Writing, Written
<1>22. CASE CloseServerSync(p)
  BY <1>2, <1>22 DEF CloseServerSync, Moves, Syncing, Writing, Written
<1>23. QED
  BY ONLY TaskStep(p), <1>3, <1>4, <1>5, <1>6, <1>7, <1>9, <1>10, <1>11, <1>12,
     <1>13, <1>14, <1>15, <1>16, <1>17, <1>18, <1>19, <1>20, <1>21, <1>22
     DEF TaskStep, Continue, Stop, Settle

LEMMA StartConverging ==
  ASSUME NEW p \in Tasks, NEW registered \in [Tools -> Versions],
         NEW waiting \in [Tools -> Versions], NEW force,
         SyncType, registry' = registered, Idle(p),
         StartSync(p, Exported(registered, waiting), force)
  PROVE  Converging(p)'
<1>1. pc'[p] \in {"idle", "reading"}
  BY DEF StartSync, Idle, SyncType
<1>2. all'[p] = Exported(registered, waiting)
  BY DEF StartSync, SyncType
<1>3. \A t \in Tools : registry'[t] \in {0, all'[p][t]}
  BY <1>2 DEF Exported
<1>4. QED
  BY <1>1, <1>3 DEF Converging, Writing, Written

(* The tools a sync did not embed were in the store as it wants them.      *)
LEMMA ChangedIsRest ==
  ASSUME NEW p \in Tasks, NEW t \in Known(all[p]) \ ToEmbed(p)
  PROVE  ~ whole[p] /\ all[p][t] # 0 /\ all[p][t] = prints[p][t]
BY DEF Known, ToEmbed, Changed

LEMMA OwnConverging ==
  ASSUME SyncInv, QuietInv, NEW p \in Tasks, TaskStep(p), quiet'[p]
  PROVE  Converging(p)'
<1>1. SyncType /\ Planned(p) /\ (quiet[p] => Converging(p)) /\ Unplanned(p)
  BY DEF SyncInv, QuietInv
<1>2. /\ registry \in [Tools -> Versions] /\ pending \in [Tools -> Versions]
      /\ pc \in [Tasks -> Places] /\ all \in [Tasks -> [Tools -> Versions]]
  BY <1>1 DEF SyncType
<1>3. ASSUME Disturbs(p)
      PROVE  Converging(p)
  BY <1>1, <1>3 DEF Disturbs
<1>4. \A t \in Tools : Known(all[p]) = {} => all[p][t] = 0
  BY DEF Known
<1>5. ASSUME pc[p] \notin Syncing \cup {"settled"}, UNCHANGED all, pc'[p] \notin Syncing
      PROVE  Converging(p)'
  <2>1. Known(all[p])' = {}
    BY <1>1, <1>5 DEF Unplanned, Known
  <2>2. Converged(p)'
    BY <2>1 DEF Converged
  <2>3. QED
    BY <1>5, <2>2 DEF Converging, Syncing, Writing, Written
<1>6. ASSUME NEW t \in Tools, NEW withHandler \in BOOLEAN, AddTool(p, t, withHandler)
      PROVE  Converging(p)'
  <2>1. PICK v \in NewVersions(t) :
          /\ pending' = AddPending(t, v)
          /\ registry' = IF withHandler THEN Put(registry, t, v) ELSE registry
          /\ StartSync(p, Exported(registry', pending'), FALSE)
    BY <1>6 DEF AddTool
  <2>2. registry' \in [Tools -> Versions]
    BY <1>2, <2>1, NewVersion, PutType
  <2>3. pending' \in [Tools -> Versions]
    BY <1>1, <2>1, AddPendingType
  <2>4. Idle(p)
    BY <1>6 DEF AddTool
  <2>5. QED
    BY <1>1, <2>1, <2>2, <2>3, <2>4, StartConverging
<1>7. ASSUME NEW force \in BOOLEAN, Sync(p, force)
      PROVE  Converging(p)'
  BY <1>1, <1>2, <1>7, StartConverging DEF Sync
<1>8. CASE Retrieve(p)
  <2>1. CASE synced
    BY <1>5, <1>8, <2>1 DEF Retrieve, Idle, plan, Syncing, Writing, Written
  <2>2. CASE ~ synced
    BY <1>1, <1>2, <1>8, <2>2, StartConverging DEF Retrieve
  <2>3. QED
    BY <2>1, <2>2
<1>9. ASSUME NEW t \in Tools, DeleteRow(p, t)
      PROVE  Converging(p)'
  BY <1>2, <1>5, <1>9 DEF DeleteRow, Moves, plan, Syncing, Writing, Written
<1>10. CASE StartServerSync(p)
  BY <1>2, <1>5, <1>10 DEF StartServerSync, Moves, plan, Syncing, Writing, Written
<1>11. CASE ReadFingerprints(p)
  <2>1. /\ UNCHANGED <<registry, rows, all>>
        /\ pc[p] = "reading" /\ pc'[p] = "comparing" /\ Disturbs(p)
    BY <1>2, <1>11 DEF ReadFingerprints, Moves, memory, store
  <2>2. \A t \in Tools : registry'[t] \in {0, all'[p][t]}
    BY <1>3, <2>1 DEF Converging, Syncing
  <2>3. PICK f \in [Tools -> Versions] :
          /\ prints' = [prints EXCEPT ![p] = f]
          /\ \/ f = Nothing
             \/ \A t \in Tools : IF rows[t] = <<>> THEN f[t] = 0
                                 ELSE \E r \in ToSet(rows[t]) : f[t] = r.version
    BY <1>11 DEF ReadFingerprints
  <2>4. prints'[p] = f
    BY <1>1, <2>3 DEF SyncType
  <2>5. ASSUME NEW t \in Tools, prints'[p][t] # 0
        PROVE  HasRow(t, prints'[p][t])
    <3>1. \E r \in ToSet(rows[t]) : f[t] = r.version
      BY <2>3, <2>4, <2>5 DEF Nothing
    <3>2. QED
      BY <2>4, <3>1 DEF HasRow
  <2>6. \A t \in Tools : prints'[p][t] # 0 => HasRow(t, prints[p][t])'
    BY <2>1, <2>5 DEF HasRow
  <2>7. QED
    BY <2>1, <2>2, <2>6 DEF Converging, Syncing, Writing, Written
<1>12. CASE ReadEmbedder(p)
  <2>1. UNCHANGED <<registry, rows, all, prints>> /\ Disturbs(p)
    BY <1>12 DEF ReadEmbedder, Moves, memory, store
  <2>2. CASE pc[p] = "comparing"
    <3>1. pc'[p] = "deciding"
      BY <1>2, <1>12, <2>2 DEF ReadEmbedder, Moves
    <3>2. \A t \in Tools : registry'[t] \in {0, all'[p][t]}
      BY <1>3, <2>1, <2>2 DEF Converging, Syncing
    <3>3. \A t \in Tools : prints'[p][t] # 0 => HasRow(t, prints[p][t])'
      BY <1>3, <2>1, <2>2 DEF Converging, HasRow
    <3>4. QED
      BY <3>1, <3>2, <3>3 DEF Converging, Syncing, Writing, Written
  <2>3. CASE pc[p] = "comparing servers"
    <3>1. pc'[p] = "deciding servers"
      BY <1>2, <1>12, <2>3 DEF ReadEmbedder, Moves
    <3>2. QED
      BY <1>5, <2>1, <2>3, <3>1 DEF Syncing, Writing, Written
  <2>4. QED
    BY <1>12, <2>2, <2>3 DEF ReadEmbedder, Moves
<1>13. CASE UpToDate(p)
  <2>1. /\ UNCHANGED <<rows, all, prints, whole>> /\ Disturbs(p)
        /\ pc[p] = "deciding" /\ pc'[p] = "settled" /\ ToEmbed(p) = {}
        /\ registry' = Merged(all[p])
    BY <1>2, <1>13 DEF UpToDate, Moves, store, plan
  <2>2. ASSUME NEW t \in Known(all[p])
        PROVE  /\ registry'[t] = all[p][t] /\ HasRow(t, all[p][t])'
               /\ ~ whole'[p]
    <3>1. ~ whole[p] /\ all[p][t] # 0 /\ all[p][t] = prints[p][t] /\ t \in Tools
      BY <2>1, ChangedIsRest DEF Known
    <3>2. HasRow(t, all[p][t])
      BY <1>3, <2>1, <3>1 DEF Converging
    <3>3. registry'[t] = all[p][t]
      BY <2>1, <3>1 DEF Merged
    <3>4. QED
      BY <2>1, <3>1, <3>2, <3>3 DEF HasRow
  <2>3. Converged(p)'
    BY <2>1, <2>2 DEF Converged, Known
  <2>4. QED
    BY <2>1, <2>3 DEF Converging, Syncing, Writing, Written
<1>14. CASE Decide(p)
  <2>1. /\ UNCHANGED <<registry, rows, all, prints, whole>> /\ Disturbs(p)
        /\ pc[p] = "deciding" /\ pc'[p] = "dropping" /\ todo'[p] = ToEmbed(p)
    BY <1>1, <1>2, <1>14 DEF Decide, Moves, store, SyncType
  <2>2. ToEmbed(p)' = ToEmbed(p) /\ Known(all[p])' = Known(all[p])
    BY <2>1, ToEmbedKept DEF Known
  <2>3. \A t \in Tools : registry'[t] \in {0, all'[p][t]}
    BY <1>3, <2>1 DEF Converging, Syncing
  <2>4. ASSUME NEW t \in Known(all[p]) \ ToEmbed(p)
        PROVE  HasRow(t, all[p][t])'
    <3>1. all[p][t] # 0 /\ all[p][t] = prints[p][t] /\ t \in Tools
      BY ChangedIsRest DEF Known
    <3>2. HasRow(t, all[p][t])
      BY <1>3, <2>1, <3>1 DEF Converging
    <3>3. QED
      BY <2>1, <3>2 DEF HasRow
  <2>5. QED
    BY <2>1, <2>2, <2>3, <2>4 DEF Converging, Writing, Written
<1>15. ASSUME UNCHANGED <<all, prints, whole, embedder>>
       PROVE  /\ ToEmbed(p)' = ToEmbed(p) /\ Known(all[p])' = Known(all[p])
              /\ \A t \in Tools : Embedded(p, t)' <=> rows'[t] = <<NewRow(p, t)>>
              /\ \A t \in Tools : rows'[t] = rows[t] =>
                   (HasRow(t, all[p][t])' <=> HasRow(t, all[p][t]))
  BY <1>15, ToEmbedKept DEF Known, Embedded, NewRow, HasRow
<1>16. batch[p] \subseteq todo[p] /\ ToEmbed(p) \subseteq Tools
       /\ batch[p] \subseteq Tools /\ Known(all[p]) \subseteq Tools
  BY <1>1 DEF Planned, ToEmbed, Changed, Known, SyncType
<1>17. CASE DropRows(p)
  <2>1. /\ UNCHANGED <<registry, embedder, all, prints, whole, todo, batch>> /\ Disturbs(p)
        /\ pc[p] = "dropping" /\ pc'[p] = "adding"
        /\ rows' = [t \in Tools |-> IF t \in batch[p] THEN <<>> ELSE rows[t]]
    BY <1>2, <1>17 DEF DropRows, Moves, memory, plan
  <2>2. Converging(p) /\ todo[p] \subseteq ToEmbed(p)
    BY <1>1, <1>3, <2>1 DEF Planned, Writing
  <2>3. \A t \in Tools : registry'[t] \in {0, all'[p][t]}
    BY <2>1, <2>2 DEF Converging, Syncing, Writing
  <2>4. \A t \in Known(all[p]) \ ToEmbed(p) : HasRow(t, all[p][t])'
    BY <1>15, <1>16, <2>1, <2>2 DEF Converging, Writing
  <2>5. \A t \in ToEmbed(p) \ todo[p] : registry'[t] = all[p][t] /\ Embedded(p, t)'
    BY <1>15, <1>16, <2>1, <2>2 DEF Converging, Writing, Embedded
  <2>6. \A t \in batch[p] : rows'[t] = <<>>
    BY <1>16, <2>1
  <2>7. QED
    BY <1>15, <2>1, <2>3, <2>4, <2>5, <2>6 DEF Converging, Writing, Written
<1>18. CASE AddRows(p)
  <2>1. /\ UNCHANGED <<registry, embedder, all, prints, whole, todo, batch>> /\ Disturbs(p)
        /\ pc[p] = "adding" /\ pc'[p] = "registering"
        /\ rows' = [t \in Tools |-> IF t \in batch[p] THEN Append(rows[t], NewRow(p, t))
                                                     ELSE rows[t]]
    BY <1>2, <1>18 DEF AddRows, Moves, memory, plan
  <2>2. Converging(p) /\ todo[p] \subseteq ToEmbed(p)
    BY <1>1, <1>3, <2>1 DEF Planned, Writing
  <2>3. \A t \in Tools : registry'[t] \in {0, all'[p][t]}
    BY <2>1, <2>2 DEF Converging, Syncing, Writing
  <2>4. \A t \in Known(all[p]) \ ToEmbed(p) : HasRow(t, all[p][t])'
    BY <1>15, <1>16, <2>1, <2>2 DEF Converging, Writing
  <2>5. \A t \in ToEmbed(p) \ todo[p] : registry'[t] = all[p][t] /\ Embedded(p, t)'
    BY <1>15, <1>16, <2>1, <2>2 DEF Converging, Writing, Embedded
  <2>6. \A t \in batch[p] : Embedded(p, t)'
    <3>1. \A x : Append(<<>>, x) = <<x>>
      OBVIOUS
    <3>2. \A t \in batch[p] : rows[t] = <<>>
      BY <2>1, <2>2 DEF Converging
    <3>3. \A t \in batch[p] : rows'[t] = <<NewRow(p, t)>>
      BY <1>16, <2>1, <3>1, <3>2
    <3>4. QED
      BY <1>15, <1>16, <2>1, <3>3
  <2>7. QED
    BY <1>15, <2>1, <2>3, <2>4, <2>5, <2>6 DEF Converging, Writing, Written
<1>19. CASE RegisterBatch(p)
  <2>1. /\ UNCHANGED <<rows, embedder, all, prints, whole>> /\ Disturbs(p)
        /\ pc[p] = "registering" /\ pc'[p] \in {"erasing", "dropping"}
        /\ registry' = [t \in Tools |-> IF t \in batch[p] THEN all[p][t] ELSE registry[t]]
        /\ todo'[p] = todo[p] \ batch[p]
    BY <1>1, <1>2, <1>19 DEF RegisterBatch, Moves, store, Rest, SyncType
  <2>2. Converging(p) /\ todo[p] \subseteq ToEmbed(p)
    BY <1>1, <1>3, <2>1 DEF Planned, Writing
  <2>3. \A t \in Tools : registry'[t] \in {0, all'[p][t]}
    BY <2>1, <2>2 DEF Converging, Syncing, Writing
  <2>4. \A t \in Known(all[p]) \ ToEmbed(p) : HasRow(t, all[p][t])'
    BY <1>15, <1>16, <2>1, <2>2 DEF Converging, Writing
  <2>5. ASSUME NEW t \in ToEmbed(p) \ todo'[p]
        PROVE  registry'[t] = all[p][t] /\ Embedded(p, t)'
    <3>1. CASE t \in batch[p]
      BY <1>15, <1>16, <2>1, <2>2, <3>1 DEF Converging, Embedded
    <3>2. CASE t \notin batch[p]
      BY <1>15, <1>16, <2>1, <2>2, <2>5, <3>2 DEF Converging, Writing, Embedded
    <3>3. QED
      BY <3>1, <3>2
  <2>6. QED
    BY <1>15, <2>1, <2>3, <2>4, <2>5 DEF Converging, Writing, Written
<1>20. ASSUME UNCHANGED <<registry, rows, embedder, all, prints, whole, todo>>, Disturbs(p),
              pc[p] \in Written, pc'[p] \in Written
       PROVE  Converging(p)'
  <2>1. Converging(p)
    BY <1>3, <1>20
  <2>2. \A t \in Tools : registry'[t] \in {0, all'[p][t]}
    BY <1>20, <2>1 DEF Converging, Syncing, Writing
  <2>3. \A t \in Known(all[p]) \ ToEmbed(p) : HasRow(t, all[p][t])'
    BY <1>15, <1>16, <1>20, <2>1 DEF Converging, Writing
  <2>4. \A t \in ToEmbed(p) \ todo[p] : registry'[t] = all[p][t] /\ Embedded(p, t)'
    BY <1>15, <1>16, <1>20, <2>1 DEF Converging, Writing, Embedded
  <2>5. pc'[p] \notin {"comparing", "deciding", "adding", "registering", "settled"}
    BY <1>20 DEF Written
  <2>6. QED
    BY <1>15, <1>20, <2>2, <2>3, <2>4, <2>5 DEF Converging
<1>21. CASE EraseEmbedder(p)
  <2>1. UNCHANGED <<registry, rows, embedder, all, prints, whole, todo>> /\ Disturbs(p)
    BY <1>21 DEF EraseEmbedder, Moves, memory
  <2>2. CASE pc[p] = "erasing"
    <3>1. pc'[p] = "stamping"
      BY <1>2, <1>21, <2>2 DEF EraseEmbedder, Moves
    <3>2. QED
      BY <1>20, <2>1, <2>2, <3>1 DEF Written
  <2>3. CASE pc[p] = "erasing servers"
    <3>1. pc'[p] = "stamping servers"
      BY <1>2, <1>21, <2>3 DEF EraseEmbedder, Moves
    <3>2. QED
      BY <1>5, <2>1, <2>3, <3>1 DEF Syncing, Writing, Written
  <2>4. QED
    BY <1>21, <2>2, <2>3 DEF EraseEmbedder, Moves
<1>22. CASE StampEmbedder(p)
  <2>1. UNCHANGED <<registry, rows, embedder, all, prints, whole, todo>> /\ Disturbs(p)
    BY <1>22 DEF StampEmbedder, Moves, memory, plan
  <2>2. CASE pc[p] = "stamping"
    <3>1. pc'[p] = "closing"
      BY <1>2, <1>22, <2>2 DEF StampEmbedder, Moves
    <3>2. QED
      BY <1>20, <2>1, <2>2, <3>1 DEF Written
  <2>3. CASE pc[p] = "stamping servers"
    <3>1. pc'[p] = "closing servers"
      BY <1>2, <1>22, <2>3 DEF StampEmbedder, Moves
    <3>2. QED
      BY <1>5, <2>1, <2>3, <3>1 DEF Syncing, Writing, Written
  <2>4. QED
    BY <1>22, <2>2, <2>3 DEF StampEmbedder, Moves
<1>23. CASE CloseSync(p)
  <2>1. /\ UNCHANGED <<rows, embedder, all, prints, whole>> /\ Disturbs(p)
        /\ pc[p] = "closing" /\ pc'[p] = "settled"
        /\ registry' = Merged(Unembedded(p))
    BY <1>2, <1>23 DEF CloseSync, Moves, store, plan
  <2>2. Converging(p) /\ todo[p] = {}
    BY <1>1, <1>3, <2>1 DEF Planned, Written
  <2>3. \A t \in Tools : registry'[t] =
          IF t \in ToEmbed(p) \/ all[p][t] = 0 THEN registry[t] ELSE all[p][t]
    BY <2>1 DEF Merged, Unembedded
  <2>4. ASSUME NEW t \in ToEmbed(p)
        PROVE  registry'[t] = all[p][t] /\ rows[t] = <<NewRow(p, t)>> /\ HasRow(t, all[p][t])'
    <3>1. registry[t] = all[p][t] /\ rows[t] = <<NewRow(p, t)>>
      BY <2>1, <2>2 DEF Converging, Writing, Written, Embedded
    <3>2. <<NewRow(p, t)>>[1] = NewRow(p, t) /\ 1 \in DOMAIN <<NewRow(p, t)>>
      OBVIOUS
    <3>3. NewRow(p, t) \in ToSet(rows[t]) /\ NewRow(p, t).version = all[p][t]
      BY <3>1, <3>2 DEF ToSet, NewRow
    <3>4. HasRow(t, all[p][t])
      BY <3>3 DEF HasRow
    <3>5. QED
      BY <1>15, <1>16, <2>1, <2>3, <3>1, <3>4
  <2>5. ASSUME NEW t \in Known(all[p]) \ ToEmbed(p)
        PROVE  registry'[t] = all[p][t] /\ HasRow(t, all[p][t])' /\ ~ whole[p]
    <3>1. ~ whole[p] /\ all[p][t] # 0 /\ t \in Tools
      BY ChangedIsRest DEF Known
    <3>2. HasRow(t, all[p][t])
      BY <2>1, <2>2 DEF Converging, Writing, Written
    <3>3. QED
      BY <1>15, <2>1, <2>3, <3>1, <3>2
  <2>6. Converged(p)'
    <3>1. ASSUME NEW t \in Known(all[p])
          PROVE  /\ registry'[t] = all'[p][t] /\ HasRow(t, all[p][t])'
                 /\ whole'[p] => Embedded(p, t)'
      <4>1. CASE t \in ToEmbed(p)
        BY <1>15, <1>16, <2>1, <2>4, <4>1
      <4>2. CASE t \notin ToEmbed(p)
        BY <2>1, <2>5, <4>2
      <4>3. QED
        BY <4>1, <4>2
    <3>2. QED
      BY <1>15, <2>1, <3>1 DEF Converged
  <2>7. QED
    BY <2>1, <2>6 DEF Converging, Syncing, Writing, Written
<1>24. ASSUME pc'[p] = "idle"
       PROVE  Converging(p)'
  BY <1>24 DEF Converging, Syncing, Writing, Written
<1>25. CASE Stop(p)
  BY <1>2, <1>24, <1>25 DEF Stop
<1>26. CASE Settle(p)
  BY <1>2, <1>24, <1>26 DEF Settle
<1>27. CASE DeleteEntry(p)
  BY <1>2, <1>24, <1>27 DEF DeleteEntry, Moves
<1>28. CASE DecideServers(p)
  <2>1. pc[p] = "deciding servers" /\ pc'[p] \in {"erasing servers", "settled"} /\ UNCHANGED all
    BY <1>2, <1>28 DEF DecideServers, Moves, plan
  <2>2. QED
    BY <1>5, <2>1 DEF Syncing, Writing, Written
<1>29. CASE CloseServerSync(p)
  <2>1. pc[p] = "closing servers" /\ pc'[p] = "settled" /\ UNCHANGED all
    BY <1>2, <1>29 DEF CloseServerSync, Moves, plan
  <2>2. QED
    BY <1>5, <2>1 DEF Syncing, Writing, Written
<1>30. QED
  BY ONLY TaskStep(p), <1>6, <1>7, <1>8, <1>9, <1>10, <1>11, <1>12, <1>13, <1>14,
     <1>17, <1>18, <1>19, <1>21, <1>22, <1>23, <1>25, <1>26, <1>27, <1>28, <1>29
     DEF TaskStep, Continue

LEMMA QuietInit == Init => QuietInv
BY DEF Init, QuietInv, Unplanned, Known, Nothing

LEMMA QuietNext == SyncInv /\ QuietInv /\ [Next]_vars => QuietInv'
<1>1. ASSUME SyncInv, QuietInv, NEW p \in Tasks, TaskStep(p)
      PROVE  QuietInv'
  <2>1. Local(p)
    BY <1>1, StepIsLocal DEF SyncInv
  <2>2. Unplanned(p)' /\ (quiet'[p] => Converging(p)')
    BY <1>1, OwnUnplanned, OwnConverging
  <2>3. \A q \in Tasks \ {p} : Unplanned(q)' /\ (quiet'[q] => Converging(q)')
    BY <1>1, <2>1, OthersConverging
  <2>4. QED
    BY <2>2, <2>3 DEF QuietInv
<1>2. ASSUME QuietInv, NEW t \in Tools, Register(t)
      PROVE  QuietInv'
  BY <1>2 DEF QuietInv, Register, Unplanned, Known, plan
<1>3. ASSUME Restart
      PROVE  QuietInv'
  BY <1>3 DEF QuietInv, Restart, Unplanned, Known, Nothing
<1>4. ASSUME QuietInv, UNCHANGED vars
      PROVE  QuietInv'
  <2>1. ASSUME NEW q \in Tasks
        PROVE  Unplanned(q)' /\ (quiet'[q] => Converging(q)')
    BY <1>4, KeptConverging DEF QuietInv, Unplanned, vars, memory, store, plan, Known
  <2>2. QED
    BY <2>1 DEF QuietInv
<1>5. QED
  BY <1>1, <1>2, <1>3, <1>4, NextCases

(* A sync nobody disturbed leaves registry and store with the definitions  *)
(* it began with, however many batches it took and whatever it found; with *)
(* rows of the new embedder only, if it saw a switch.                      *)
THEOREM QuietSyncsConverge == Spec => []QuietSyncConverges
<1>1. QuietInv => QuietSyncConverges
  BY DEF QuietInv, Converging, Converged, HasRow, Embedded, QuietSyncConverges
<1>2. QED
  BY <1>1, SyncInit, SyncNext, QuietInit, QuietNext, PTL DEF Spec
=============================================================================
