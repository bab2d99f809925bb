------------------------------ MODULE MCPProofs -------------------------------
(***************************************************************************)
(* Proofs about MCPSession, for any callers and owners, and about          *)
(* MCPServers, for any tasks, servers, tools and clients.                  *)
(*                                                                         *)
(* One session.  The connect lock lets one caller connect at a time, and   *)
(* that caller waits for the one owner that is starting.  So an owner that *)
(* comes up finds no other running owner whose session it could overwrite, *)
(* and a new owner is created only when none runs.                         *)
(*                                                                         *)
(* Many clients.  A task that works with a client of a table, or calls     *)
(* one, may go at any time, because the table or `loose` has its client; a *)
(* task that made a client of its own leads to it until it closes it or    *)
(* puts it into the table.  A close sees to all it found in a table, and   *)
(* what comes into the table meanwhile belongs to an operation that        *)
(* overlaps it.  A client leaves the table of add_mcp_server for another   *)
(* of its server, whose discovery takes over or removes all its tools.     *)
(***************************************************************************)
EXTENDS MCPSession, MCPServers, TLAPS

(***************************************************************************)
(* One session.                                                            *)
(***************************************************************************)

(* Sessions that were ever used or failed on belong to owners that came    *)
(* up, and an owner that raised has left.                                  *)
UsedAreUp ==
  /\ \A c \in Callers : stage[c] = "calling" => its[c] \in Owners /\
     ~(owner[its[c]] \in {"absent", "starting"})
  /\ \A o \in reported : ~(owner[o] \in {"absent", "starting"})
  /\ \A o \in failed : owner[o] \in {"closing", "ended"}

(* The task, the close event and the loop of a session come and go         *)
(* together.                                                               *)
FieldsTied == closeEvent = ownerTask /\ (bound <=> ownerTask # NoOwner)

(* While a caller connects, the client knows its owner or none.            *)
KnownIsConnecting ==
  \A c \in Connecting : its[c] \in Owners /\ ownerTask \in {its[c], NoOwner}

FreshInv == SessionTypeOK /\ SessionIsFresh /\ UsedAreUp /\ FieldsTied /\
   KnownIsConnecting

(* An owner that is starting is awaited by the caller that created it, and *)
(* the session of a running owner is the one callers are given.            *)
StartersAwaited ==
  \A o \in Owners :
    owner[o] = "starting" /\ o \notin cancelled =>
      \E c \in Callers : stage[c] = "starting" /\ its[c] = o

LiveInstalled ==
  \A o \in Owners : Running(o) /\ owner[o] = "live" => session = o

Orderly == OwnersReachable /\ StartersAwaited /\ LiveInstalled

ReachInv == FreshInv /\ (disowned \/ Orderly)
-----------------------------------------------------------------------------
(* The invariant behind freshness, conjunct by conjunct and action by      *)
(* action.                                                                 *)

(* A client begins with no session and nobody connecting.                  *)
LEMMA FreshInit == SessionInit => FreshInv
BY SessionAssumption DEF SessionInit, FreshInv, SessionTypeOK, SessionIsFresh, UsedAreUp,
   FieldsTied,
   KnownIsConnecting, Connecting

(* The caller that connects is alone and holds the lock, and nobody is     *)
(* connecting once it has stopped.                                         *)
LEMMA ConnectingAlone ==
  ASSUME SessionTypeOK, NEW c \in Connecting
  PROVE  lock = c /\ Connecting = {c}
BY SessionAssumption DEF SessionTypeOK, Connecting

(* When the caller that connects stops, nobody is connecting.              *)
LEMMA LastLeaves ==
  ASSUME SessionTypeOK, NEW c \in Connecting, NEW from, NEW to, NEW o,
         At(c, from, to, o), to \notin {"starting", "draining"}
  PROVE  Connecting' = {}
<1>1. Connecting = {c}
  BY ConnectingAlone
<1>2. \A d \in Callers : stage'[d] = IF d = c THEN to ELSE stage[d]
  BY DEF At, SessionTypeOK
<1>3. QED
  BY <1>1, <1>2 DEF Connecting

(* The type invariant: in particular the lock follows who is connecting.   *)
LEMMA SessionTypeNext ==
  ASSUME FreshInv, SessionNext
  PROVE  SessionTypeOK'
<1> USE SessionAssumption DEF FreshInv, SessionTypeOK, fields, signals, record,
    Connecting
<1>1. ASSUME NEW c \in Callers, UseSession(c)
      PROVE  SessionTypeOK'
  BY <1>1 DEF UseSession, At, Usable
<1>2. ASSUME NEW c \in Callers, NeedSession(c)
      PROVE  SessionTypeOK'
  BY <1>2 DEF NeedSession, At, Usable
<1>3. ASSUME NEW c \in Callers, FindSession(c)
      PROVE  SessionTypeOK'
  BY <1>3 DEF FindSession, At, Usable
<1>4. ASSUME NEW c \in Callers, StartFailed(c)
      PROVE  SessionTypeOK'
  <2>1. Connecting' = {}
    BY <1>4, LastLeaves DEF StartFailed, At
  <2>2. QED
    BY <1>4, <2>1 DEF StartFailed, At, LetGo
<1>5. ASSUME NEW c \in Callers, StartLost(c)
      PROVE  SessionTypeOK'
  BY <1>5 DEF StartLost, At, Ready
<1>6. ASSUME NEW c \in Callers, Started(c)
      PROVE  SessionTypeOK'
  BY <1>6 DEF Started, At, Ready
<1>7. ASSUME NEW c \in Callers, CancelStart(c)
      PROVE  SessionTypeOK'
  <2>1. CASE At(c, "starting", "draining", ownerTask)
    <3>1. Connecting' = Connecting
      BY <2>1 DEF At
    <3>2. QED
      BY <1>7, <2>1, <3>1 DEF CancelStart, At, LetGo, Unlock
  <2>2. CASE At(c, "starting", "idle", NoOwner)
    <3>1. Connecting' = {}
      BY <2>2, LastLeaves DEF At
    <3>2. QED
      BY <1>7, <2>2, <3>1 DEF CancelStart, At, LetGo, Unlock
  <2>3. QED
    BY <1>7, <2>1, <2>2 DEF CancelStart
<1>8. ASSUME NEW c \in Callers, Drained(c)
      PROVE  SessionTypeOK'
  <2>1. Connecting' = {}
    BY <1>8, LastLeaves DEF Drained, At
  <2>2. QED
    BY <1>8, <2>1 DEF Drained, At, LetGo, Unlock
<1>9. ASSUME NEW c \in Callers, CancelWait(c)
      PROVE  SessionTypeOK'
  BY <1>9 DEF CancelWait, At
<1>10. ASSUME NEW c \in Callers, CallOver(c)
      PROVE  SessionTypeOK'
  BY <1>10 DEF CallOver, At
<1>11. ASSUME NEW c \in Callers, CallFails(c)
      PROVE  SessionTypeOK'
  BY <1>11 DEF UsedAreUp, CallFails, At, Invalidate, LetGo, ClearFlags
<1>12. ASSUME NEW c \in Callers, CloseClient(c)
      PROVE  SessionTypeOK'
  BY <1>12 DEF CloseClient, At, Invalidate, LetGo, ClearFlags
<1>13. ASSUME NEW c \in Callers, Closed(c)
      PROVE  SessionTypeOK'
  BY <1>13 DEF Closed, At
<1>14. ASSUME NEW c \in Callers, NEW o \in Owners, Connect(c, o)
      PROVE  SessionTypeOK'
  BY <1>14 DEF Connect, At, Usable
<1>15. ASSUME NEW o \in Owners, OwnerUp(o)
      PROVE  SessionTypeOK'
  BY <1>15 DEF OwnerUp, Goes
<1>16. ASSUME NEW o \in Owners, OwnerFails(o)
      PROVE  SessionTypeOK'
  BY <1>16 DEF OwnerFails, Goes
<1>17. ASSUME NEW o \in Owners, OwnerLeaves(o)
      PROVE  SessionTypeOK'
  BY <1>17 DEF OwnerLeaves, Goes, WithoutOwn
<1>18. ASSUME NEW o \in Owners, OwnerEnds(o)
      PROVE  SessionTypeOK'
  BY <1>18 DEF OwnerEnds, Goes, WithoutOwn
<1>19. QED
  BY <1>1, <1>2, <1>3, <1>4, <1>5, <1>6, <1>7, <1>8, <1>9, <1>10, <1>11, <1>12,
     <1>13, <1>14, <1>15, <1>16, <1>17, <1>18 DEF SessionNext

(* A session is installed by its own owner only, and every invalidation    *)
(* takes it away.                                                          *)
LEMMA FreshNext ==
  ASSUME FreshInv, SessionTypeOK', SessionNext
  PROVE  SessionIsFresh' /\ UsedAreUp'
<1> USE SessionAssumption DEF FreshInv, SessionTypeOK, SessionIsFresh, UsedAreUp,
    fields, signals, record
<1>1. ASSUME NEW c \in Callers, UseSession(c)
      PROVE  SessionIsFresh' /\ UsedAreUp'
  BY <1>1 DEF UseSession, At, Usable
<1>2. ASSUME NEW c \in Callers, NeedSession(c)
      PROVE  SessionIsFresh' /\ UsedAreUp'
  BY <1>2 DEF NeedSession, At, Usable
<1>3. ASSUME NEW c \in Callers, FindSession(c)
      PROVE  SessionIsFresh' /\ UsedAreUp'
  BY <1>3 DEF FindSession, At, Usable
<1>4. ASSUME NEW c \in Callers, StartFailed(c)
      PROVE  SessionIsFresh' /\ UsedAreUp'
  BY <1>4 DEF StartFailed, At, LetGo
<1>5. ASSUME NEW c \in Callers, StartLost(c)
      PROVE  SessionIsFresh' /\ UsedAreUp'
  BY <1>5 DEF StartLost, At, Ready
<1>6. ASSUME NEW c \in Callers, Started(c)
      PROVE  SessionIsFresh' /\ UsedAreUp'
  BY <1>6 DEF Started, At, Ready
<1>7. ASSUME NEW c \in Callers, CancelStart(c)
      PROVE  SessionIsFresh' /\ UsedAreUp'
  BY <1>7 DEF CancelStart, At, LetGo, Unlock
<1>8. ASSUME NEW c \in Callers, Drained(c)
      PROVE  SessionIsFresh' /\ UsedAreUp'
  BY <1>8 DEF Drained, At, LetGo, Unlock
<1>9. ASSUME NEW c \in Callers, CancelWait(c)
      PROVE  SessionIsFresh' /\ UsedAreUp'
  BY <1>9 DEF CancelWait, At
<1>10. ASSUME NEW c \in Callers, CallOver(c)
      PROVE  SessionIsFresh' /\ UsedAreUp'
  BY <1>10 DEF CallOver, At
<1>11. ASSUME NEW c \in Callers, CallFails(c)
      PROVE  SessionIsFresh' /\ UsedAreUp'
  BY <1>11 DEF CallFails, At, Invalidate, LetGo, ClearFlags
<1>12. ASSUME NEW c \in Callers, CloseClient(c)
      PROVE  SessionIsFresh' /\ UsedAreUp'
  BY <1>12 DEF CloseClient, At, Invalidate, LetGo, ClearFlags
<1>13. ASSUME NEW c \in Callers, Closed(c)
      PROVE  SessionIsFresh' /\ UsedAreUp'
  BY <1>13 DEF Closed, At
<1>14. ASSUME NEW c \in Callers, NEW o \in Owners, Connect(c, o)
      PROVE  SessionIsFresh' /\ UsedAreUp'
  BY <1>14 DEF Connect, At, Usable
<1>15. ASSUME NEW o \in Owners, OwnerUp(o)
      PROVE  SessionIsFresh' /\ UsedAreUp'
  BY <1>15 DEF OwnerUp, Goes
<1>16. ASSUME NEW o \in Owners, OwnerFails(o)
      PROVE  SessionIsFresh' /\ UsedAreUp'
  BY <1>16 DEF OwnerFails, Goes
<1>17. ASSUME NEW o \in Owners, OwnerLeaves(o)
      PROVE  SessionIsFresh' /\ UsedAreUp'
  BY <1>17 DEF OwnerLeaves, Goes, WithoutOwn
<1>18. ASSUME NEW o \in Owners, OwnerEnds(o)
      PROVE  SessionIsFresh' /\ UsedAreUp'
  BY <1>18 DEF OwnerEnds, Goes, WithoutOwn
<1>19. QED
  BY <1>1, <1>2, <1>3, <1>4, <1>5, <1>6, <1>7, <1>8, <1>9, <1>10, <1>11, <1>12,
     <1>13, <1>14, <1>15, <1>16, <1>17, <1>18 DEF SessionNext

(* The fields are assigned together, and by the caller that connects.      *)
LEMMA KnownNext ==
  ASSUME FreshInv, SessionTypeOK', SessionNext
  PROVE  FieldsTied' /\ KnownIsConnecting'
<1> USE SessionAssumption DEF FreshInv, SessionTypeOK, FieldsTied, KnownIsConnecting,
    Connecting, fields, signals, record
<1>1. ASSUME NEW c \in Callers, UseSession(c)
      PROVE  FieldsTied' /\ KnownIsConnecting'
  BY <1>1 DEF UseSession, At, Usable
<1>2. ASSUME NEW c \in Callers, NeedSession(c)
      PROVE  FieldsTied' /\ KnownIsConnecting'
  BY <1>2 DEF NeedSession, At, Usable
<1>3. ASSUME NEW c \in Callers, FindSession(c)
      PROVE  FieldsTied' /\ KnownIsConnecting'
  BY <1>3 DEF FindSession, At, Usable
<1>4. ASSUME NEW c \in Callers, StartFailed(c)
      PROVE  FieldsTied' /\ KnownIsConnecting'
  BY <1>4 DEF StartFailed, At, LetGo
<1>5. ASSUME NEW c \in Callers, StartLost(c)
      PROVE  FieldsTied' /\ KnownIsConnecting'
  BY <1>5 DEF StartLost, At, Ready
<1>6. ASSUME NEW c \in Callers, Started(c)
      PROVE  FieldsTied' /\ KnownIsConnecting'
  BY <1>6 DEF Started, At, Ready
<1>7. ASSUME NEW c \in Callers, CancelStart(c)
      PROVE  FieldsTied' /\ KnownIsConnecting'
  BY <1>7 DEF CancelStart, At, LetGo, Unlock
<1>8. ASSUME NEW c \in Callers, Drained(c)
      PROVE  FieldsTied' /\ KnownIsConnecting'
  BY <1>8 DEF Drained, At, LetGo, Unlock
<1>9. ASSUME NEW c \in Callers, CancelWait(c)
      PROVE  FieldsTied' /\ KnownIsConnecting'
  BY <1>9 DEF CancelWait, At
<1>10. ASSUME NEW c \in Callers, CallOver(c)
      PROVE  FieldsTied' /\ KnownIsConnecting'
  BY <1>10 DEF CallOver, At
<1>11. ASSUME NEW c \in Callers, CallFails(c)
      PROVE  FieldsTied' /\ KnownIsConnecting'
  BY <1>11 DEF CallFails, At, Invalidate, LetGo, ClearFlags
<1>12. ASSUME NEW c \in Callers, CloseClient(c)
      PROVE  FieldsTied' /\ KnownIsConnecting'
  BY <1>12 DEF CloseClient, At, Invalidate, LetGo, ClearFlags
<1>13. ASSUME NEW c \in Callers, Closed(c)
      PROVE  FieldsTied' /\ KnownIsConnecting'
  BY <1>13 DEF Closed, At
<1>14. ASSUME NEW c \in Callers, NEW o \in Owners, Connect(c, o)
      PROVE  FieldsTied' /\ KnownIsConnecting'
  BY <1>14 DEF Connect, At, Usable
<1>15. ASSUME NEW o \in Owners, OwnerUp(o)
      PROVE  FieldsTied' /\ KnownIsConnecting'
  BY <1>15 DEF OwnerUp, Goes
<1>16. ASSUME NEW o \in Owners, OwnerFails(o)
      PROVE  FieldsTied' /\ KnownIsConnecting'
  BY <1>16 DEF OwnerFails, Goes
<1>17. ASSUME NEW o \in Owners, OwnerLeaves(o)
      PROVE  FieldsTied' /\ KnownIsConnecting'
  BY <1>17 DEF OwnerLeaves, Goes, WithoutOwn
<1>18. ASSUME NEW o \in Owners, OwnerEnds(o)
      PROVE  FieldsTied' /\ KnownIsConnecting'
  BY <1>18 DEF OwnerEnds, Goes, WithoutOwn
<1>19. QED
  BY <1>1, <1>2, <1>3, <1>4, <1>5, <1>6, <1>7, <1>8, <1>9, <1>10, <1>11, <1>12,
     <1>13, <1>14, <1>15, <1>16, <1>17, <1>18 DEF SessionNext

(* Unless a connect was disowned: an owner that starts is awaited, the     *)
(* session of a running owner is the installed one, and the client knows   *)
(* every running owner.                                                    *)
LEMMA OrderlyNext ==
  ASSUME ReachInv, FreshInv', SessionNext
  PROVE  disowned' \/ Orderly'
<1> USE SessionAssumption DEF ReachInv, FreshInv, SessionTypeOK, SessionIsFresh,
    UsedAreUp, FieldsTied, KnownIsConnecting, Connecting, Orderly,
    OwnersReachable, StartersAwaited, LiveInstalled, Running, fields, signals,
    record
<1>1. ASSUME NEW c \in Callers, UseSession(c)
      PROVE  disowned' \/ Orderly'
  BY <1>1 DEF UseSession, At, Usable
<1>2. ASSUME NEW c \in Callers, NeedSession(c)
      PROVE  disowned' \/ Orderly'
  BY <1>2 DEF NeedSession, At, Usable
<1>3. ASSUME NEW c \in Callers, FindSession(c)
      PROVE  disowned' \/ Orderly'
  BY <1>3 DEF FindSession, At, Usable
<1>4. ASSUME NEW c \in Callers, StartFailed(c)
      PROVE  disowned' \/ Orderly'
  BY <1>4 DEF StartFailed, At, LetGo
<1>5. ASSUME NEW c \in Callers, StartLost(c)
      PROVE  disowned' \/ Orderly'
  BY <1>5 DEF StartLost, At, Ready
<1>6. ASSUME NEW c \in Callers, Started(c)
      PROVE  disowned' \/ Orderly'
  BY <1>6 DEF Started, At, Ready
<1>7. ASSUME NEW c \in Callers, CancelStart(c)
      PROVE  disowned' \/ Orderly'
  BY <1>7 DEF CancelStart, At, LetGo, Unlock
<1>8. ASSUME NEW c \in Callers, Drained(c)
      PROVE  disowned' \/ Orderly'
  BY <1>8 DEF Drained, At, LetGo, Unlock
<1>9. ASSUME NEW c \in Callers, CancelWait(c)
      PROVE  disowned' \/ Orderly'
  BY <1>9 DEF CancelWait, At
<1>10. ASSUME NEW c \in Callers, CallOver(c)
      PROVE  disowned' \/ Orderly'
  BY <1>10 DEF CallOver, At
<1>11. ASSUME NEW c \in Callers, CallFails(c)
      PROVE  disowned' \/ Orderly'
  BY <1>11 DEF CallFails, At, Invalidate, LetGo, ClearFlags
<1>12. ASSUME NEW c \in Callers, CloseClient(c)
      PROVE  disowned' \/ Orderly'
  BY <1>12 DEF CloseClient, At, Invalidate, LetGo, ClearFlags
<1>13. ASSUME NEW c \in Callers, Closed(c)
      PROVE  disowned' \/ Orderly'
  BY <1>13 DEF Closed, At
<1>14. ASSUME NEW c \in Callers, NEW o \in Owners, Connect(c, o)
      PROVE  disowned' \/ Orderly'
  BY <1>14 DEF Connect, At, Usable
<1>15. ASSUME NEW o \in Owners, OwnerUp(o)
      PROVE  disowned' \/ Orderly'
  BY <1>15 DEF OwnerUp, Goes
<1>16. ASSUME NEW o \in Owners, OwnerFails(o)
      PROVE  disowned' \/ Orderly'
  BY <1>16 DEF OwnerFails, Goes
<1>17. ASSUME NEW o \in Owners, OwnerLeaves(o)
      PROVE  disowned' \/ Orderly'
  BY <1>17 DEF OwnerLeaves, Goes, WithoutOwn
<1>18. ASSUME NEW o \in Owners, OwnerEnds(o)
      PROVE  disowned' \/ Orderly'
  BY <1>18 DEF OwnerEnds, Goes, WithoutOwn
<1>19. QED
  BY <1>1, <1>2, <1>3, <1>4, <1>5, <1>6, <1>7, <1>8, <1>9, <1>10, <1>11, <1>12,
     <1>13, <1>14, <1>15, <1>16, <1>17, <1>18 DEF SessionNext
-----------------------------------------------------------------------------
(* The invariant holds from the start and every step keeps it.             *)

(* At first nobody has a session.                                          *)
LEMMA ReachInit == SessionInit => ReachInv
BY FreshInit, SessionAssumption DEF SessionInit, ReachInv, Orderly, OwnersReachable,
   StartersAwaited, LiveInstalled, Running

(* It only depends on the variables of the specification.                  *)
LEMMA ReachStutter ==
  ASSUME ReachInv, UNCHANGED sessionVars
  PROVE  ReachInv'
<1> USE DEF sessionVars, fields, signals, record
<1>1. FreshInv'
  BY DEF ReachInv, FreshInv, SessionTypeOK, SessionIsFresh, UsedAreUp, FieldsTied,
     KnownIsConnecting, Connecting
<1>2. (disowned \/ Orderly)'
  BY DEF ReachInv, Orderly, OwnersReachable, StartersAwaited, LiveInstalled, Running
<1>3. QED
  BY <1>1, <1>2 DEF ReachInv

(* Every step keeps it.                                                    *)
LEMMA SessionReachNext == ReachInv /\ [SessionNext]_sessionVars => ReachInv'
<1>1. ASSUME ReachInv, SessionNext
      PROVE  ReachInv'
  <2>1. SessionTypeOK'
    BY <1>1, SessionTypeNext DEF ReachInv
  <2>2. SessionIsFresh' /\ UsedAreUp'
    BY <1>1, <2>1, FreshNext DEF ReachInv
  <2>3. FieldsTied' /\ KnownIsConnecting'
    BY <1>1, <2>1, KnownNext DEF ReachInv
  <2>4. FreshInv'
    BY <2>1, <2>2, <2>3 DEF FreshInv
  <2>5. disowned' \/ Orderly'
    BY <1>1, <2>4, OrderlyNext
  <2>6. QED
    BY <2>4, <2>5 DEF ReachInv
<1>2. QED
  BY <1>1, ReachStutter

(* So it always holds.                                                     *)
LEMMA Invariance == SessionSpec => []ReachInv
BY ReachInit, SessionReachNext, PTL DEF SessionSpec

(* The fields of a client keep their shape, and the connect lock is held   *)
(* by the one caller that connects and by nobody else.                     *)
THEOREM LockFollowsConnect == SessionSpec => []SessionTypeOK
<1>1. ReachInv => SessionTypeOK
  BY DEF ReachInv, FreshInv
<1>2. QED
  BY <1>1, Invariance, PTL

(* The session a client hands out belongs to an owner that is up and was   *)
(* not told to close, and no call ever failed on it.                       *)
THEOREM SessionStaysFresh == SessionSpec => []SessionIsFresh
<1>1. ReachInv => SessionIsFresh
  BY DEF ReachInv, FreshInv
<1>2. QED
  BY <1>1, Invariance, PTL

(* close() reaches every running owner, unless a connect was cancelled     *)
(* after its session had been invalidated.                                 *)
THEOREM OwnersStayReachable == SessionSpec => []OwnersReachableUnlessDisowned
<1>1. ReachInv => OwnersReachableUnlessDisowned
  BY DEF ReachInv, Orderly, OwnersReachableUnlessDisowned
<1>2. QED
  BY <1>1, Invariance, PTL
-----------------------------------------------------------------------------
(***************************************************************************)
(* Many clients.                                                           *)
(***************************************************************************)

AtRest(p) == pc[p] \in {"idle", "closing direct", "closing lazy"}
WithKnown(p) == pc[p] \in {"listing", "calling", "removing"}
WithNew(p) == pc[p] \in {"listing new", "giving up", "swapping"}

(* What a task holds, by where it is.                                      *)
Holds(p) ==
  /\ AtRest(p) <=> client[p] = NoClient
  /\ WithKnown(p) => client[p] \in InTable \cup loose
  /\ WithNew(p) => server[client[p]] \in Servers
  /\ pc[p] # "removing" => left[p] = {}

(* What a close has still to see to, and what it need not.                 *)
Closes(p) ==
  /\ Closing(p) => HeldByOthers(p) \subseteq loose
  /\ pc[p] = "closing direct" => open \cap Range(direct) \subseteq doomed[p] \cup loose
  /\ pc[p] = "closing lazy" => open \cap Range(lazy) \subseteq doomed[p] \cup loose

(* A server's place in the table has a client of that server.              *)
TableServes == \A s \in Servers : direct[s] # NoClient => server[direct[s]] = s

ServersInv ==
  /\ TypeOK
  /\ \A p \in Tasks : Holds(p)
  /\ \A p \in Tasks : Closes(p)
  /\ TableServes
  /\ DefinitionServesHandler
  /\ ConnectionsInReach
  /\ HandlersInReach
-----------------------------------------------------------------------------
(* The values that stand for nothing name nothing.                         *)
LEMMA NamesDiffer ==
  /\ NoClient \notin Clients /\ Local \notin Clients /\ NoClient # Local
  /\ NoConfig \notin Configs /\ NoServer \notin Servers
BY ServersAssumption DEF NoClient, Local, NoConfig, NoServer

(* The range of a table is what its entries are.                           *)
LEMMA RangeOfTable ==
  ASSUME NEW S, NEW T, NEW f \in [S -> T], NEW y
  PROVE  y \in Range(f) <=> \E x \in S : f[x] = y
BY DEF Range

(* At first there are no clients.                                          *)
LEMMA Initially == Init => ServersInv
<1> SUFFICES ASSUME Init PROVE ServersInv
  OBVIOUS
<1> USE NamesDiffer DEF Init
<1>1. TypeOK
  BY ServersAssumption DEF TypeOK, Places
<1>2. ASSUME NEW p \in Tasks PROVE Holds(p)
  BY DEF Holds, AtRest, WithKnown, WithNew
<1>3. ASSUME NEW p \in Tasks PROVE Closes(p)
  BY DEF Closes, Closing
<1>4. TableServes /\ DefinitionServesHandler /\ ConnectionsInReach /\ HandlersInReach
  BY DEF TableServes, DefinitionServesHandler, ConnectionsInReach, HandlersInReach
<1>5. QED
  BY <1>1, <1>2, <1>3, <1>4 DEF ServersInv
-----------------------------------------------------------------------------
(* The shapes.                                                             *)
LEMMA LeaveType ==
  ASSUME TypeOK, NEW p \in Tasks, Leave(p)
  PROVE  /\ pc' \in [Tasks -> Places]
         /\ client' \in [Tasks -> Clients \cup {NoClient}]
         /\ prior' \in [Tasks -> Clients \cup {NoClient}]
         /\ offered' \in [Tasks -> SUBSET Tools]
         /\ left' \in [Tasks -> SUBSET Tools]
         /\ doomed' \in [Tasks -> SUBSET Clients]
BY DEF TypeOK, Leave, Goto, Put, Places

(* The end of a discovery keeps the shapes.                                *)
LEMMA AdoptType ==
  ASSUME TypeOK, NEW p \in Tasks, NEW ts \in SUBSET Tools, Adopt(p, ts),
         client[p] \in Clients
  PROVE  /\ pc' \in [Tasks -> Places]
         /\ client' = client /\ doomed' = doomed
         /\ offered' \in [Tasks -> SUBSET Tools]
         /\ left' \in [Tasks -> SUBSET Tools]
         /\ source' \in [Tools -> Clients \cup {NoClient, Local}]
         /\ handler' \in [Tools -> Clients \cup {NoClient, Local}]
<1> DEFINE c == client[p]
           src == Serve(source, c, Taken(c, ts))
           hnd == HandlersAfter(c, ts)
<1>1. src \in [Tools -> Clients \cup {NoClient, Local}]
  BY DEF TypeOK, Serve
<1>2. hnd \in [Tools -> Clients \cup {NoClient, Local}]
  BY DEF TypeOK, Serve, HandlersAfter
<1>3. Stale(c, ts) \subseteq Tools
  BY DEF Stale
<1>4. pc' \in [Tasks -> Places] /\ offered' \in [Tasks -> SUBSET Tools]
      /\ client' = client /\ doomed' = doomed
  BY DEF TypeOK, Adopt, Goto, Put, Places
<1>5. CASE Stale(c, ts) = {}
  <2>1. source' = src /\ handler' = hnd /\ left' = Put(left, p, {})
    BY <1>5 DEF Adopt
  <2>2. left' \in [Tasks -> SUBSET Tools]
    BY <2>1 DEF Put, TypeOK
  <2>3. QED
    BY <1>1, <1>2, <1>4, <2>1, <2>2
<1>6. CASE Stale(c, ts) # {}
  <2>1. PICK t \in Stale(c, ts) :
          /\ source' = Without(src, t) /\ handler' = Without(hnd, t)
          /\ left' = Put(left, p, Stale(c, ts) \ {t})
    BY <1>6 DEF Adopt
  <2> HIDE DEF src, hnd
  <2>2. left' \in [Tasks -> SUBSET Tools]
    BY <1>3, <2>1 DEF Put, TypeOK
  <2>3. /\ source' \in [Tools -> Clients \cup {NoClient, Local}]
        /\ handler' \in [Tools -> Clients \cup {NoClient, Local}]
    BY <1>1, <1>2, <2>1 DEF Without, Put
  <2>4. QED
    BY <1>4, <2>2, <2>3
<1>7. QED
  BY <1>5, <1>6

(* What the tables and the tasks have are clients.                         *)
LEMMA TablesType ==
  ASSUME TypeOK
  PROVE  /\ Range(direct) \ {NoClient} \subseteq Clients
         /\ Range(lazy) \ {NoClient} \subseteq Clients
         /\ Range(client) \ {NoClient} \subseteq Clients
         /\ \A p \in Tasks : HeldByOthers(p) \subseteq Clients
BY DEF TypeOK, Range, HeldByOthers

(* Who works with a client, by where it is.                                *)
LEMMA ClientHeld ==
  ASSUME ServersInv, NEW p \in Tasks, WithKnown(p) \/ WithNew(p)
  PROVE  client[p] \in Clients
BY DEF ServersInv, Holds, TypeOK, AtRest, WithKnown, WithNew
-----------------------------------------------------------------------------
(* Every action keeps the shapes.                                          *)
LEMMA TypeNext ==
  ASSUME ServersInv, Next
  PROVE  TypeOK'
<1> USE NamesDiffer DEF TypeOK, tables, clients, tools, local, history
<1>0. TypeOK
  BY DEF ServersInv
<1>1. ASSUME NEW p \in Tasks, NEW s \in Servers,
            AddAgain(p, s) \/ AddNew(p, s) \/ Discover(p, s), ops' \in 0 .. MaxOps
      PROVE  TypeOK'
  <2>1. CASE AddAgain(p, s)
    BY <1>0, <1>1, <2>1 DEF AddAgain, Overlaps, Goto, Put, Places
  <2>2. CASE AddNew(p, s)
    <3>1. PICK c \in Clients, k \in Configs :
            Make(c, s, k) /\ client' = Put(client, p, c) /\ Overlaps(c)
      BY <2>2 DEF AddNew
    <3>2. QED
      BY <1>0, <1>1, <2>2, <3>1 DEF AddNew, Make, Overlaps, Goto, Put, Places
  <2>3. CASE Discover(p, s)
    <3>1. CASE lazy[s] # NoClient
      <4>1. lazy[s] \in Clients
        BY <1>0, <3>1
      <4>2. /\ client' = Put(client, p, lazy[s]) /\ Overlaps(lazy[s])
            /\ UNCHANGED <<lazy, clients>>
        BY <2>3, <3>1 DEF Discover
      <4>3. QED
        BY <1>0, <1>1, <2>3, <4>1, <4>2 DEF Discover, Overlaps, Goto, Put, Places
    <3>2. CASE lazy[s] = NoClient
      <4>1. PICK c \in Clients :
              /\ Make(c, s, definition[s]) /\ KeepClient(s, c)
              /\ client' = Put(client, p, c) /\ Overlaps(c)
        BY <2>3, <3>2 DEF Discover
      <4>2. QED
        BY <1>0, <1>1, <2>3, <4>1 DEF Discover, Make, KeepClient, Overlaps, Goto, Put, Places
    <3>3. QED
      BY <3>1, <3>2
  <2>4. QED
    BY <1>1, <2>1, <2>2, <2>3
<1>2. ASSUME NEW p \in Tasks, NEW t \in Tools, Call(p, t), ops' \in 0 .. MaxOps
      PROVE  TypeOK'
  BY <1>0, <1>2 DEF Call, Goto, Put, Places
<1>3. ASSUME NEW p \in Tasks, Close(p), ops' \in 0 .. MaxOps
      PROVE  TypeOK'
  BY <1>0, <1>3, TablesType DEF Close, Goto, Put, Places
<1>4. ASSUME NEW s \in Servers, RegisterServer(s) \/ DeleteServer(s), ops' \in 0 .. MaxOps
      PROVE  TypeOK'
  BY <1>0, <1>4, TablesType DEF RegisterServer, DeleteServer, ScheduleClose, Put
<1>5. ASSUME NEW t \in Tools, RegisterLocal(t) \/ DeleteTool(t), ops' \in 0 .. MaxOps
      PROVE  TypeOK'
  BY <1>0, <1>5 DEF RegisterLocal, DeleteTool, Without, Put
<1>6. ASSUME NEW c \in Clients, ScheduledClose(c), UNCHANGED ops
      PROVE  TypeOK'
  BY <1>0, <1>6 DEF ScheduledClose
<1>7. ASSUME NEW p \in Tasks, Step(p), UNCHANGED ops
      PROVE  TypeOK'
  <2>1. CASE ListingFails(p) \/ CallEnds(p)
    <3>1. client[p] \in Clients
      BY <2>1, ClientHeld DEF ListingFails, CallEnds, WithKnown
    <3>2. QED
      BY <1>0, <1>7, <2>1, <3>1, LeaveType DEF ListingFails, CallEnds, AfterFailure
  <2>2. CASE NewListingFails(p)
    <3>1. client[p] \in Clients
      BY <2>2, ClientHeld DEF NewListingFails, WithNew
    <3>2. QED
      BY <1>0, <1>7, <2>2, <3>1 DEF NewListingFails, AfterFailure, Goto, Places
  <2>3. CASE GiveUp(p) \/ Removed(p)
    BY <1>0, <1>7, <2>3, LeaveType DEF GiveUp, Removed
  <2>4. CASE Listed(p)
    <3>1. client[p] \in Clients
      BY <2>4, ClientHeld DEF Listed, WithKnown
    <3>2. QED
      BY <1>0, <1>7, <2>4, <3>1, AdoptType DEF Listed
  <2>5. CASE NewListed(p) \/ Swapped(p)
    <3>1. client[p] \in Clients
      BY <2>5, ClientHeld DEF NewListed, Swapped, WithNew
    <3>2. PICK ts \in SUBSET Tools : Adopt(p, ts)
      BY <1>0, <2>5 DEF NewListed, Swapped
    <3>3. direct' \in [Servers -> Clients \cup {NoClient}]
      BY <1>0, <2>5, <3>1 DEF NewListed, Swapped, Commit, Put
    <3>4. HeldByOthers(p) \subseteq Clients
      BY <1>0, TablesType
    <3>5. loose' \subseteq Clients
      <4>1. server[client[p]] \in Servers
        BY <2>5 DEF NewListed, Swapped, WithNew, ServersInv, Holds
      <4>2. direct[server[client[p]]] \in Clients \cup {NoClient}
        BY <1>0, <4>1
      <4>3. Commit(p)
        BY <2>5 DEF NewListed, Swapped
      <4>4. QED
        BY <1>0, <3>4, <4>2, <4>3 DEF Commit
    <3>6. open' \subseteq Clients
      BY <1>0, <2>5, <3>1 DEF NewListed, Swapped, ClosePrior
    <3>7. QED
      BY <1>0, <1>7, <2>5, <3>1, <3>2, <3>3, <3>5, <3>6, AdoptType
         DEF NewListed, Swapped, Commit
  <2>6. CASE ReplacementListed(p)
    <3>1. client[p] \in Clients
      BY <2>6, ClientHeld DEF ReplacementListed, WithNew
    <3>2. QED
      <4>1. PICK ts \in SUBSET Tools : offered' = Put(offered, p, ts)
        BY <2>6 DEF ReplacementListed
      <4>2. QED
        BY <1>0, <1>7, <2>6, <3>1, <4>1 DEF ReplacementListed, Goto, Put, Places
  <2>7. CASE SwapCancelled(p)
    <3>1. client[p] \in Clients
      BY <2>7, ClientHeld DEF SwapCancelled, WithNew
    <3>2. QED
      BY <1>0, <1>7, <2>7, <3>1, LeaveType DEF SwapCancelled
  <2>8. CASE RemoveNext(p)
    BY <1>0, <1>7, <2>8 DEF RemoveNext, Without, Put
  <2>9. CASE RemovalCancelled(p)
    BY <1>0, <1>7, <2>9, LeaveType DEF RemovalCancelled
  <2>10. CASE CloseNext(p)
    BY <1>0, <1>7, <2>10 DEF CloseNext, Put
  <2>11. CASE DirectClosed(p)
    BY <1>0, <1>7, <2>11, TablesType
       DEF DirectClosed, Cleared, ToClose, Goto, Put, Places
  <2>12. CASE LazyClosed(p)
    BY <1>0, <1>7, <2>12, TablesType, LeaveType DEF LazyClosed, Cleared
  <2>13. QED
    BY <1>7, <2>1, <2>2, <2>3, <2>4, <2>5, <2>6, <2>7, <2>8, <2>9, <2>10, <2>11, <2>12
       DEF Step
<1>8. CASE ops < MaxOps /\ ops' = ops + 1 /\ Operate
  <2>1. ops' \in 0 .. MaxOps
    BY <1>0, <1>8, ServersAssumption
  <2>2. QED
    BY <1>1, <1>2, <1>3, <1>4, <1>5, <1>8, <2>1 DEF Operate
<1>9. CASE UNCHANGED ops /\ Proceed
  BY <1>6, <1>7, <1>9 DEF Proceed
<1>10. QED
  BY <1>8, <1>9 DEF Next
-----------------------------------------------------------------------------
(* What tasks hold.                                                        *)
LEMMA InTableMeans ==
  ASSUME TypeOK, NEW c
  PROVE  c \in InTable <=> \E s \in Servers : direct[s] = c \/ lazy[s] = c
BY DEF TypeOK, InTable, Range

(* A client is made once.                                                  *)
LEMMA MadeOnce ==
  ASSUME TypeOK, Next, NEW c \in Clients, server[c] \in Servers
  PROVE  server'[c] = server[c]
<1>1. ASSUME NEW d, NEW s, NEW k, Make(d, s, k)
      PROVE  server'[c] = server[c]
  BY <1>1, NamesDiffer DEF TypeOK, Make, Unmade, Put
<1>2. ASSUME Operate
      PROVE  server'[c] = server[c]
  BY <1>1, <1>2
     DEF Operate, Close, AddAgain, AddNew, Discover, Call, RegisterServer, DeleteServer,
         RegisterLocal, DeleteTool, clients
<1>3. ASSUME Proceed
      PROVE  server'[c] = server[c]
  BY <1>3
     DEF Proceed, Step, ScheduledClose, ListingFails, NewListingFails, GiveUp, Listed,
         NewListed, ReplacementListed, Swapped, SwapCancelled, RemoveNext, Removed,
         RemovalCancelled, CallEnds, CloseNext, DirectClosed, LazyClosed, clients
<1>4. QED
  BY <1>2, <1>3 DEF Next

(* A known client that somebody works with stays known.                    *)
LEMMA HeldStays ==
  ASSUME ServersInv, Next, TypeOK', NEW q \in Tasks,
         client'[q] = client[q], client[q] \in Clients, client[q] \in InTable \cup loose
  PROVE  client[q] \in (InTable \cup loose)'
<1> DEFINE c == client[q]
<1> USE NamesDiffer DEF tables, clients, tools, local, history
<1>0. TypeOK
  BY DEF ServersInv
<1>1. \/ c \in loose
      \/ \E s \in Servers : direct[s] = c \/ lazy[s] = c
  BY <1>0, InTableMeans
<1>2. SUFFICES c \in loose' \/ \E s \in Servers : direct'[s] = c \/ lazy'[s] = c
  BY <1>0, InTableMeans DEF InTable, Range, TypeOK
<1>3. ASSUME Operate
      PROVE  c \in loose' \/ \E s \in Servers : direct'[s] = c \/ lazy'[s] = c
  <2>1. ASSUME NEW s \in Servers, DeleteServer(s)
        PROVE  c \in loose' \/ \E r \in Servers : direct'[r] = c \/ lazy'[r] = c
    <3>1. c \in Range(client) \ {NoClient}
      BY <1>0 DEF TypeOK, Range
    <3>2. QED
      BY <1>0, <1>1, <2>1, <3>1 DEF DeleteServer, TypeOK, Put
  <2>2. ASSUME NEW p \in Tasks, NEW s \in Servers, Discover(p, s)
        PROVE  c \in loose' \/ \E r \in Servers : direct'[r] = c \/ lazy'[r] = c
    <3>1. loose \subseteq loose' /\ direct' = direct
      BY <2>2 DEF Discover, Overlaps
    <3>2. \A r \in Servers : lazy[r] # NoClient => lazy'[r] = lazy[r]
      BY <1>0, <2>2 DEF Discover, KeepClient, Put, TypeOK
    <3>3. QED
      BY <1>1, <3>1, <3>2
  <2>3. QED
    BY <1>1, <1>3, <2>1, <2>2
       DEF Operate, Close, AddAgain, AddNew, Call, RegisterServer, RegisterLocal,
           DeleteTool, Overlaps
<1>4. ASSUME Proceed
      PROVE  c \in loose' \/ \E s \in Servers : direct'[s] = c \/ lazy'[s] = c
  <2>1. ASSUME NEW p \in Tasks, NewListed(p) \/ Swapped(p)
        PROVE  c \in loose' \/ \E s \in Servers : direct'[s] = c \/ lazy'[s] = c
    <3>1. server[client[p]] \in Servers /\ Commit(p)
      BY <2>1 DEF NewListed, Swapped, ServersInv, Holds, WithNew
    <3>2. CASE p = q
      BY <1>0, <3>1, <3>2 DEF Commit, Put, TypeOK
    <3>3. CASE p # q
      <4>1. c \in HeldByOthers(p)
        BY <3>3 DEF HeldByOthers
      <4>2. QED
        BY <1>0, <1>1, <3>1, <4>1 DEF Commit, Put, TypeOK
    <3>4. QED
      BY <3>2, <3>3
  <2>2. ASSUME NEW p \in Tasks, DirectClosed(p) \/ LazyClosed(p)
        PROVE  c \in loose'
    <3>1. Closing(p) /\ loose' = loose
      BY <2>2 DEF DirectClosed, LazyClosed, Closing
    <3>2. p # q
      BY <3>1 DEF ServersInv, Holds, AtRest, Closing
    <3>3. c \in HeldByOthers(p)
      BY <3>2 DEF HeldByOthers
    <3>4. QED
      BY <3>1, <3>3 DEF ServersInv, Closes
  <2>3. QED
    BY <1>1, <1>4, <2>1, <2>2
       DEF Proceed, Step, ScheduledClose, ListingFails, NewListingFails, GiveUp, Listed,
           ReplacementListed, SwapCancelled, RemoveNext, Removed, RemovalCancelled,
           CallEnds, CloseNext
<1>5. QED
  BY <1>3, <1>4 DEF Next

(* A task that does not move holds what it held, when the tables lose no   *)
(* client but to `loose`.                                                  *)
LEMMA HoldsKept ==
  ASSUME ServersInv, Next, TypeOK', NEW q \in Tasks,
         pc'[q] = pc[q], client'[q] = client[q], left'[q] = left[q]
  PROVE  Holds(q)'
<1>1. Holds(q)
  BY DEF ServersInv
<1>2. WithKnown(q) => client[q] \in (InTable \cup loose)'
  BY <1>1, ClientHeld, HeldStays DEF Holds
<1>3. WithNew(q) => server'[client[q]] \in Servers
  BY <1>1, ClientHeld, MadeOnce DEF Holds, ServersInv
<1>4. QED
  BY <1>1, <1>2, <1>3 DEF Holds, AtRest, WithKnown, WithNew

(* An operation changes what its own task holds and no other's.            *)
LEMMA LeaveHolds ==
  ASSUME ServersInv, Next, TypeOK', NEW p \in Tasks, Leave(p)
  PROVE  \A q \in Tasks : Holds(q)'
<1>1. TypeOK
  BY DEF ServersInv
<1>2. Holds(p)'
  BY <1>1 DEF Leave, Goto, Put, Holds, AtRest, WithKnown, WithNew, TypeOK
<1>3. ASSUME NEW q \in Tasks, q # p
      PROVE  Holds(q)'
  BY <1>1, <1>3, HoldsKept DEF Leave, Goto, Put, TypeOK
<1>4. QED
  BY <1>2, <1>3

(* A task whose discovery ends has its client in a table or in `loose`.    *)
LEMMA AdoptHolds ==
  ASSUME ServersInv, Next, TypeOK', NEW p \in Tasks, NEW ts, Adopt(p, ts),
         client[p] \in Clients, client[p] \in (InTable \cup loose)'
  PROVE  \A q \in Tasks : Holds(q)'
<1>1. TypeOK
  BY DEF ServersInv
<1>2. pc' = [pc EXCEPT ![p] = "removing"] /\ client' = client
  BY DEF Adopt, Goto
<1>3. \A q \in Tasks \ {p} : left'[q] = left[q]
  BY <1>1 DEF Adopt, Put, TypeOK
<1>4. Holds(p)'
  BY <1>1, <1>2, NamesDiffer DEF Holds, AtRest, WithKnown, WithNew, TypeOK
<1>5. ASSUME NEW q \in Tasks, q # p
      PROVE  Holds(q)'
  BY <1>1, <1>2, <1>3, <1>5, HoldsKept DEF TypeOK
<1>6. QED
  BY <1>4, <1>5

(* A task that starts with a client, or moves on with the one it has.      *)
LEMMA BeginHolds ==
  ASSUME ServersInv, Next, TypeOK', NEW p \in Tasks, NEW c \in Clients, Idle(p),
         NEW place, Goto(p, place), client' = Put(client, p, c), UNCHANGED left,
         \/ place \in {"listing", "calling"} /\ c \in (InTable \cup loose)'
         \/ place = "listing new" /\ server'[c] \in Servers
  PROVE  \A q \in Tasks : Holds(q)'
<1>1. TypeOK /\ Holds(p)
  BY DEF ServersInv
<1>2. Holds(p)'
  BY <1>1, NamesDiffer
     DEF Idle, Goto, Put, Holds, AtRest, WithKnown, WithNew, TypeOK
<1>3. ASSUME NEW q \in Tasks, q # p
      PROVE  Holds(q)'
  BY <1>1, <1>3, HoldsKept DEF Goto, Put, TypeOK
<1>4. QED
  BY <1>2, <1>3

(* A task that goes somewhere holds what belongs there.                    *)
LEMMA MoveHolds ==
  ASSUME ServersInv, Next, TypeOK', NEW p \in Tasks,
         NEW place, Goto(p, place), UNCHANGED <<client, left>>,
         \/ WithNew(p) /\ place \in {"giving up", "swapping"}
         \/ AtRest(p) /\ place \in {"closing direct", "closing lazy"}
  PROVE  \A q \in Tasks : Holds(q)'
<1>1. TypeOK /\ Holds(p)
  BY DEF ServersInv
<1>2. WithNew(p) => server'[client[p]] \in Servers
  BY <1>1, ClientHeld, MadeOnce DEF Holds
<1>3. Holds(p)'
  BY <1>1, <1>2, NamesDiffer DEF Goto, Holds, AtRest, WithKnown, WithNew, TypeOK
<1>4. ASSUME NEW q \in Tasks, q # p
      PROVE  Holds(q)'
  BY <1>1, <1>4, HoldsKept DEF Goto, TypeOK
<1>5. QED
  BY <1>3, <1>4

(* Every action keeps what tasks hold.                                     *)
LEMMA HoldsNext ==
  ASSUME ServersInv, Next, TypeOK'
  PROVE  \A q \in Tasks : Holds(q)'
<1> USE DEF tables, clients, tools, local, history
<1>0. TypeOK
  BY DEF ServersInv
<1>1. ASSUME NEW p \in Tasks, NEW s \in Servers, AddAgain(p, s)
      PROVE  \A q \in Tasks : Holds(q)'
  <2>1. direct[s] \in Clients /\ direct[s] \in InTable'
    BY <1>0, <1>1, InTableMeans DEF AddAgain, TypeOK, InTable, Range
  <2>2. QED
    BY <1>1, <2>1, BeginHolds DEF AddAgain
<1>2. ASSUME NEW p \in Tasks, NEW s \in Servers, AddNew(p, s)
      PROVE  \A q \in Tasks : Holds(q)'
  <2>1. PICK c \in Clients, k \in Configs : Make(c, s, k) /\ client' = Put(client, p, c)
    BY <1>2 DEF AddNew
  <2>2. server'[c] \in Servers
    BY <1>0, <2>1 DEF Make, Put, TypeOK
  <2>3. QED
    BY <1>2, <2>1, <2>2, BeginHolds DEF AddNew
<1>3. ASSUME NEW p \in Tasks, NEW s \in Servers, Discover(p, s)
      PROVE  \A q \in Tasks : Holds(q)'
  <2>1. PICK c \in Clients : client' = Put(client, p, c) /\ lazy'[s] = c
    BY <1>0, <1>3 DEF Discover, KeepClient, Put, TypeOK
  <2>2. c \in InTable'
    BY <2>1 DEF InTable, Range, TypeOK
  <2>3. QED
    BY <1>3, <2>1, <2>2, BeginHolds DEF Discover
<1>4. ASSUME NEW p \in Tasks, NEW t \in Tools, Call(p, t)
      PROVE  \A q \in Tasks : Holds(q)'
  <2>1. handler[t] \in (InTable \cup loose)'
    BY <1>4 DEF Call, InTable
  <2>2. QED
    BY <1>4, <2>1, BeginHolds DEF Call
<1>5. ASSUME NEW p \in Tasks, Close(p) \/ DirectClosed(p)
      PROVE  \A q \in Tasks : Holds(q)'
  BY <1>5, MoveHolds DEF Close, DirectClosed, Idle, AtRest
<1>6. ASSUME UNCHANGED <<pc, client, left>>
      PROVE  \A q \in Tasks : Holds(q)'
  BY <1>6, HoldsKept
<1>7. ASSUME NEW p \in Tasks, Leave(p)
      PROVE  \A q \in Tasks : Holds(q)'
  BY <1>7, LeaveHolds
<1>8. ASSUME NEW p \in Tasks, NewListingFails(p) \/ ReplacementListed(p)
      PROVE  \A q \in Tasks : Holds(q)'
  BY <1>8, MoveHolds DEF NewListingFails, ReplacementListed, WithNew
<1>9. ASSUME NEW p \in Tasks, Listed(p)
      PROVE  \A q \in Tasks : Holds(q)'
  <2>1. client[p] \in Clients /\ client[p] \in InTable \cup loose /\ client' = client
    BY <1>9, ClientHeld DEF Listed, WithKnown, ServersInv, Holds, Adopt
  <2>2. client[p] \in (InTable \cup loose)'
    BY <2>1, HeldStays
  <2>3. QED
    BY <1>9, <2>1, <2>2, AdoptHolds DEF Listed
<1>10. ASSUME NEW p \in Tasks, NewListed(p) \/ Swapped(p)
       PROVE  \A q \in Tasks : Holds(q)'
  <2>1. client[p] \in Clients /\ server[client[p]] \in Servers /\ Commit(p)
    BY <1>10, ClientHeld DEF NewListed, Swapped, WithNew, ServersInv, Holds
  <2>2. client[p] \in InTable'
    BY <1>0, <2>1 DEF Commit, Put, InTable, Range, TypeOK
  <2>3. PICK ts : Adopt(p, ts)
    BY <1>10 DEF NewListed, Swapped
  <2>4. QED
    BY <2>1, <2>2, <2>3, AdoptHolds
<1>11. ASSUME NEW p \in Tasks, RemoveNext(p)
       PROVE  \A q \in Tasks : Holds(q)'
  <2>1. Holds(p)'
    <3>1. client[p] \in (InTable \cup loose)'
      BY <1>11, ClientHeld, HeldStays DEF RemoveNext, WithKnown, ServersInv, Holds
    <3>2. client[p] # NoClient
      BY <1>11, ClientHeld, NamesDiffer DEF RemoveNext, WithKnown
    <3>3. QED
      BY <1>11, <3>1, <3>2 DEF RemoveNext, Holds, AtRest, WithKnown, WithNew
  <2>2. \A q \in Tasks \ {p} : left'[q] = left[q]
    BY <1>0, <1>11 DEF RemoveNext, Put, TypeOK
  <2>3. QED
    BY <1>11, <2>1, <2>2, HoldsKept DEF RemoveNext
<1>12. CASE Operate
  BY <1>1, <1>2, <1>3, <1>4, <1>5, <1>6, <1>12
     DEF Operate, RegisterServer, DeleteServer, RegisterLocal, DeleteTool
<1>13. CASE Proceed
  BY <1>5, <1>6, <1>7, <1>8, <1>9, <1>10, <1>11, <1>13
     DEF Proceed, Step, ScheduledClose, ListingFails, GiveUp, SwapCancelled, Removed,
         RemovalCancelled, CallEnds, CloseNext, LazyClosed
<1>14. QED
  BY <1>12, <1>13 DEF Next
-----------------------------------------------------------------------------
(* What a close need not see to.                                           *)
LEMMA LooseGrows ==
  ASSUME Next
  PROVE  loose \subseteq loose'
<1>1. ASSUME Operate
      PROVE  loose \subseteq loose'
  BY <1>1
     DEF Operate, Close, AddAgain, AddNew, Discover, Overlaps, Call, RegisterServer,
         DeleteServer, RegisterLocal, DeleteTool, history
<1>2. ASSUME Proceed
      PROVE  loose \subseteq loose'
  BY <1>2
     DEF Proceed, Step, ScheduledClose, ListingFails, NewListingFails, GiveUp, Listed,
         NewListed, ReplacementListed, Swapped, Commit, SwapCancelled, RemoveNext, Removed,
         RemovalCancelled, CallEnds, CloseNext, DirectClosed, LazyClosed, history
<1>3. QED
  BY <1>1, <1>2 DEF Next

(* What begins during a close is loose.                                    *)
LEMMA NewlyHeld ==
  ASSUME ServersInv, Next, NEW q \in Tasks, Closing(q), NEW r \in Tasks, r # q
  PROVE  client'[r] \in {client[r], NoClient} \cup loose'
<1> USE DEF tables, clients, tools, local, history
<1>0. TypeOK
  BY DEF ServersInv
<1>1. ASSUME NEW p \in Tasks, NEW c, client' = Put(client, p, c), c \in loose'
      PROVE  client'[r] \in {client[r]} \cup loose'
  BY <1>0, <1>1 DEF Put, TypeOK
<1>2. ASSUME NEW p \in Tasks, NEW s \in Servers,
             AddAgain(p, s) \/ AddNew(p, s) \/ Discover(p, s)
      PROVE  client'[r] \in {client[r]} \cup loose'
  <2>1. PICK c : client' = Put(client, p, c) /\ Overlaps(c)
    BY <1>2 DEF AddAgain, AddNew, Discover
  <2>2. c \in loose'
    BY <2>1 DEF Overlaps
  <2>3. QED
    BY <1>1, <2>1, <2>2
<1>3. ASSUME NEW p \in Tasks, NEW t \in Tools, Call(p, t)
      PROVE  client'[r] \in {client[r]} \cup loose'
  BY <1>1, <1>3 DEF Call
<1>4. ASSUME NEW p \in Tasks, Leave(p)
      PROVE  client'[r] \in {client[r], NoClient}
  BY <1>0, <1>4 DEF Leave, Put, TypeOK
<1>5. CASE Operate
  BY <1>2, <1>3, <1>5
     DEF Operate, Close, RegisterServer, DeleteServer, RegisterLocal, DeleteTool
<1>6. CASE Proceed
  BY <1>4, <1>6
     DEF Proceed, Step, ScheduledClose, ListingFails, NewListingFails, GiveUp, Listed,
         NewListed, ReplacementListed, Swapped, Adopt, SwapCancelled, RemoveNext, Removed,
         RemovalCancelled, CallEnds, CloseNext, DirectClosed, LazyClosed
<1>7. QED
  BY <1>5, <1>6 DEF Next

(* Whoever connects a client works with it.                                *)
LEMMA NewlyOpen ==
  ASSUME ServersInv, Next, NEW q \in Tasks, Closing(q)
  PROVE  open' \subseteq open \cup HeldByOthers(q)
<1>1. ASSUME NEW p \in Tasks, open' \subseteq open \cup {client[p]},
             WithKnown(p) \/ WithNew(p)
      PROVE  open' \subseteq open \cup HeldByOthers(q)
  <2>1. p # q
    BY <1>1 DEF Closing, WithKnown, WithNew
  <2>2. client[p] \in HeldByOthers(q)
    BY <1>1, <2>1, ClientHeld, NamesDiffer DEF HeldByOthers
  <2>3. QED
    BY <1>1, <2>2
<1>2. CASE Operate
  BY <1>2
     DEF Operate, Close, AddAgain, AddNew, Discover, Call, RegisterServer, DeleteServer,
         RegisterLocal, DeleteTool
<1>3. ASSUME NEW p \in Tasks, Listed(p) \/ ListingFails(p) \/ CallEnds(p)
      PROVE  open' \subseteq open \cup {client[p]} /\ WithKnown(p)
  BY <1>3 DEF Listed, ListingFails, CallEnds, AfterFailure, WithKnown
<1>4. ASSUME NEW p \in Tasks,
             NewListed(p) \/ NewListingFails(p) \/ ReplacementListed(p)
      PROVE  open' \subseteq open \cup {client[p]} /\ WithNew(p)
  BY <1>4 DEF NewListed, NewListingFails, ReplacementListed, AfterFailure, WithNew
<1>5. CASE Proceed
  BY <1>1, <1>3, <1>4, <1>5
     DEF Proceed, Step, ScheduledClose, GiveUp, Swapped, ClosePrior, SwapCancelled,
         RemoveNext, Removed, RemovalCancelled, CloseNext, DirectClosed, LazyClosed
<1>6. QED
  BY <1>2, <1>5 DEF Next

(* What comes into a table during a close is loose.                        *)
LEMMA NewlyTabled ==
  ASSUME ServersInv, Next, NEW q \in Tasks, Closing(q)
  PROVE  /\ Range(direct') \subseteq Range(direct) \cup {NoClient} \cup loose
         /\ Range(lazy') \subseteq Range(lazy) \cup {NoClient} \cup loose'
<1> USE DEF tables, clients, tools, local, history
<1>0. TypeOK /\ HeldByOthers(q) \subseteq loose
  BY DEF ServersInv, Closes
<1>1. ASSUME NEW p \in Tasks, NEW s \in Servers, Discover(p, s)
      PROVE  direct' = direct /\ Range(lazy') \subseteq Range(lazy) \cup loose'
  <2>1. CASE lazy[s] # NoClient
    BY <1>1, <2>1 DEF Discover
  <2>2. CASE lazy[s] = NoClient
    <3>1. PICK c : lazy' = Put(lazy, s, c) /\ c \in loose'
      BY <1>1, <2>2 DEF Discover, KeepClient, Overlaps
    <3>2. QED
      BY <1>0, <1>1, <3>1 DEF Discover, Range, Put, TypeOK
  <2>3. QED
    BY <2>1, <2>2
<1>2. ASSUME NEW p \in Tasks, NewListed(p) \/ Swapped(p)
      PROVE  lazy' = lazy /\ Range(direct') \subseteq Range(direct) \cup loose
  <2>1. p # q
    BY <1>2 DEF Closing, NewListed, Swapped
  <2>2. client[p] \in HeldByOthers(q)
    BY <1>2, <2>1, ClientHeld, NamesDiffer DEF HeldByOthers, NewListed, Swapped, WithNew
  <2>3. Commit(p) /\ lazy' = lazy
    BY <1>2 DEF NewListed, Swapped, Commit
  <2>4. QED
    BY <1>0, <2>2, <2>3 DEF Commit, Range, Put, TypeOK
<1>3. ASSUME NEW s \in Servers, DeleteServer(s)
      PROVE  direct' = direct /\ Range(lazy') \subseteq Range(lazy) \cup {NoClient}
  BY <1>0, <1>3 DEF DeleteServer, Range, Put, TypeOK
<1>4. Range(Cleared) \subseteq {NoClient}
  BY DEF Range, Cleared
<1>5. CASE Operate
  BY <1>1, <1>3, <1>5
     DEF Operate, Close, AddAgain, AddNew, Call, RegisterServer, RegisterLocal, DeleteTool
<1>6. CASE Proceed
  BY <1>2, <1>4, <1>6
     DEF Proceed, Step, ScheduledClose, ListingFails, NewListingFails, GiveUp, Listed,
         ReplacementListed, SwapCancelled, RemoveNext, Removed, RemovalCancelled,
         CallEnds, CloseNext, DirectClosed, LazyClosed
<1>7. QED
  BY <1>5, <1>6 DEF Next

(* Only its own task moves a close on.                                     *)
LEMMA ClosingMoves ==
  ASSUME ServersInv, Next, NEW q \in Tasks, Closing(q)'
  PROVE  \/ Close(q) \/ DirectClosed(q) \/ CloseNext(q)
         \/ Closing(q) /\ pc'[q] = pc[q] /\ doomed'[q] = doomed[q]
<1> USE DEF tables, clients, tools, local, history
<1>0. TypeOK
  BY DEF ServersInv
<1> DEFINE Still == pc'[q] = pc[q] /\ doomed'[q] = doomed[q]
<1>1. Still => Closing(q)
  BY DEF Closing
<1>2. ASSUME NEW p \in Tasks, Leave(p)
      PROVE  Still
  BY <1>0, <1>2 DEF Leave, Goto, Put, Closing, TypeOK
<1>3. ASSUME NEW p \in Tasks, NEW place, Goto(p, place), UNCHANGED doomed,
             place \notin {"closing direct", "closing lazy"}
      PROVE  Still
  BY <1>0, <1>3 DEF Goto, Closing, TypeOK
<1>4. ASSUME NEW p \in Tasks, Close(p) \/ DirectClosed(p) \/ CloseNext(p)
      PROVE  p = q \/ Still
  BY <1>0, <1>4 DEF Close, DirectClosed, CloseNext, Goto, Put, TypeOK
<1>5. ASSUME NEW p \in Tasks, NEW s \in Servers,
             AddAgain(p, s) \/ AddNew(p, s) \/ Discover(p, s)
      PROVE  Still
  BY <1>3, <1>5 DEF AddAgain, AddNew, Discover
<1>6. ASSUME NEW p \in Tasks, NEW t \in Tools, Call(p, t)
      PROVE  Still
  BY <1>3, <1>6 DEF Call
<1>7. ASSUME NEW p \in Tasks, NewListingFails(p) \/ ReplacementListed(p)
      PROVE  Still
  BY <1>3, <1>7 DEF NewListingFails, ReplacementListed
<1>8. ASSUME NEW p \in Tasks, NEW ts, Adopt(p, ts)
      PROVE  Still
  BY <1>3, <1>8 DEF Adopt
<1>9. CASE Operate
  BY <1>1, <1>4, <1>5, <1>6, <1>9
     DEF Operate, RegisterServer, DeleteServer, RegisterLocal, DeleteTool
<1>10. CASE Proceed
  BY <1>1, <1>2, <1>4, <1>7, <1>8, <1>10
     DEF Proceed, Step, ScheduledClose, ListingFails, GiveUp, Listed, NewListed, Swapped,
         SwapCancelled, RemoveNext, Removed, RemovalCancelled, CallEnds, LazyClosed
<1>11. QED
  BY <1>9, <1>10 DEF Next

(* Every action keeps what closes have to see to.                          *)
LEMMA ClosesNext ==
  ASSUME ServersInv, Next, TypeOK', NEW q \in Tasks
  PROVE  Closes(q)'
<1> USE NamesDiffer
<1>0. TypeOK /\ Closes(q) /\ loose \subseteq loose'
  BY LooseGrows DEF ServersInv
<1>1. CASE Close(q)
  <2>1. pc'[q] = "closing direct" /\ Closing(q)'
    BY <1>0, <1>1 DEF Close, Goto, Closing, TypeOK
  <2>2. HeldByOthers(q)' \subseteq loose'
    BY <1>1 DEF Close, HeldByOthers
  <2>3. doomed'[q] = Range(direct) \ {NoClient} /\ direct' = direct /\ open' = open
    BY <1>0, <1>1 DEF Close, Put, TypeOK, tables
  <2>4. QED
    BY <1>0, <2>1, <2>2, <2>3 DEF Closes, TypeOK
<1>2. CASE Closing(q) /\ Closing(q)'
  <2>1. HeldByOthers(q) \subseteq loose
    BY <1>0, <1>2 DEF Closes
  <2>2. HeldByOthers(q)' \subseteq loose'
    <3>1. ASSUME NEW r \in Tasks, r # q, client'[r] # NoClient
          PROVE  client'[r] \in loose'
      <4>1. client[r] # NoClient => client[r] \in loose
        BY <2>1, <3>1 DEF HeldByOthers
      <4>2. QED
        BY <1>0, <1>2, <3>1, <4>1, NewlyHeld
    <3>2. QED
      BY <3>1 DEF HeldByOthers
  <2>3. /\ open' \subseteq open \cup loose
        /\ Range(direct') \subseteq Range(direct) \cup {NoClient} \cup loose
        /\ Range(lazy') \subseteq Range(lazy) \cup {NoClient} \cup loose'
    BY <1>2, <2>1, NewlyOpen, NewlyTabled
  <2>4. NoClient \notin open'
    BY DEF TypeOK
  <2>5. CASE pc'[q] = pc[q] /\ doomed'[q] = doomed[q]
    BY <1>0, <2>2, <2>3, <2>4, <2>5 DEF Closes
  <2>6. CASE CloseNext(q)
    <3>1. PICK c \in doomed[q] : open' = open \ {c} /\ doomed'[q] = doomed[q] \ {c}
      BY <1>0, <2>6 DEF CloseNext, Put, TypeOK
    <3>2. pc' = pc
      BY <2>6 DEF CloseNext
    <3>3. QED
      BY <1>0, <2>2, <2>3, <2>4, <3>1, <3>2 DEF Closes
  <2>7. CASE DirectClosed(q)
    <3>1. /\ pc'[q] = "closing lazy" /\ lazy' = lazy /\ open' = open
          /\ doomed'[q] = Range(lazy) \ {NoClient}
      BY <1>0, <2>7 DEF DirectClosed, Goto, Put, ToClose, TypeOK
    <3>2. QED
      BY <2>2, <2>4, <3>1 DEF Closes
  <2>8. ~ Close(q)
    BY <1>2 DEF Close, Idle, Closing
  <2>9. QED
    BY <1>2, <2>5, <2>6, <2>7, <2>8, ClosingMoves
<1>3. CASE ~ Closing(q)'
  BY <1>3 DEF Closes, Closing
<1>4. QED
  BY <1>1, <1>2, <1>3, ClosingMoves DEF DirectClosed, CloseNext, Closing
-----------------------------------------------------------------------------
(* The tables keep clients of their own servers.                           *)
LEMMA ServesNext ==
  ASSUME ServersInv, Next, TypeOK'
  PROVE  TableServes'
<1> USE NamesDiffer DEF tables, clients, tools, local, history
<1>0. TypeOK /\ TableServes
  BY DEF ServersInv
<1>1. ASSUME NEW s \in Servers, direct'[s] # NoClient, direct'[s] = direct[s]
      PROVE  server'[direct'[s]] = s
  BY <1>0, <1>1, MadeOnce DEF TableServes, TypeOK
<1>2. ASSUME direct' = direct \/ direct' = Cleared
      PROVE  TableServes'
  BY <1>1, <1>2 DEF TableServes, Cleared
<1>3. ASSUME NEW p \in Tasks, NewListed(p) \/ Swapped(p)
      PROVE  TableServes'
  <2>1. /\ client[p] \in Clients /\ server[client[p]] \in Servers
        /\ direct' = Put(direct, server[client[p]], client[p])
    BY <1>3, ClientHeld DEF NewListed, Swapped, Commit, WithNew, ServersInv, Holds
  <2>2. server'[client[p]] = server[client[p]]
    BY <1>0, <2>1, MadeOnce
  <2>3. QED
    BY <1>0, <1>1, <2>1, <2>2 DEF TableServes, Put, TypeOK
<1>4. CASE Operate
  BY <1>2, <1>4
     DEF Operate, Close, AddAgain, AddNew, Discover, Call, RegisterServer, DeleteServer,
         RegisterLocal, DeleteTool
<1>5. CASE Proceed
  BY <1>2, <1>3, <1>5
     DEF Proceed, Step, ScheduledClose, ListingFails, NewListingFails, GiveUp, Listed,
         ReplacementListed, SwapCancelled, RemoveNext, Removed, RemovalCancelled,
         CallEnds, CloseNext, DirectClosed, LazyClosed
<1>6. QED
  BY <1>4, <1>5 DEF Next

(* The definition and the handler of a tool stay with one client.          *)
LEMMA SourceNext ==
  ASSUME ServersInv, Next
  PROVE  DefinitionServesHandler'
<1> USE DEF DefinitionServesHandler, tables, clients, tools, local, history
<1>0. source = handler
  BY DEF ServersInv
<1>1. ASSUME NEW p \in Tasks, NEW ts, Adopt(p, ts)
      PROVE  source' = handler'
  BY <1>0, <1>1 DEF Adopt, HandlersAfter
<1>2. CASE Operate
  <2>1. ASSUME NEW t \in Tools, RegisterLocal(t) \/ DeleteTool(t)
        PROVE  source' = handler'
    BY <1>0, <2>1 DEF RegisterLocal, DeleteTool
  <2>2. CASE UNCHANGED <<source, handler>>
    BY <1>0, <2>2
  <2>3. QED
    BY <1>2, <2>1, <2>2
       DEF Operate, Close, AddAgain, AddNew, Discover, Call, RegisterServer, DeleteServer
<1>3. CASE Proceed
  BY <1>0, <1>1, <1>3
     DEF Proceed, Step, ScheduledClose, ListingFails, NewListingFails, GiveUp, Listed,
         NewListed, ReplacementListed, Swapped, SwapCancelled, RemoveNext, Removed,
         RemovalCancelled, CallEnds, CloseNext, DirectClosed, LazyClosed
<1>4. QED
  BY <1>2, <1>3 DEF Next
-----------------------------------------------------------------------------
(* A connected client is somebody's.                                       *)
Tabled(c) == \E s \in Servers : direct[s] = c \/ lazy[s] = c
Used(c) == \E p \in Tasks : client[p] = c
Reached(c) == Tabled(c) \/ Used(c) \/ c \in scheduled \/ c \in loose

(* An open connection is in a table, in use, being closed or loose.        *)
LEMMA ReachedWhere ==
  ASSUME ServersInv, NEW c \in open
  PROVE  Reached(c) /\ c \in Clients /\ c # NoClient
BY NamesDiffer
   DEF ServersInv, ConnectionsInReach, InTable, Range, TypeOK, Reached, Tabled, Used

(* A task that forgets its client leaves it to a table or to `loose`.      *)
LEMMA LeaveReach ==
  ASSUME ServersInv, NEW p \in Tasks, Leave(p), UNCHANGED <<direct, lazy, scheduled>>,
         loose \subseteq loose', WithKnown(p), NEW c \in open \cup {client[p]}
  PROVE  Reached(c)'
<1>1. \/ Tabled(c)
      \/ c \in loose
      \/ Reached(c) /\ c # client[p]
  <2>1. CASE c = client[p]
    <3>1. TypeOK /\ c \in InTable \cup loose
      BY <2>1 DEF ServersInv, Holds
    <3>2. QED
      BY <3>1, InTableMeans DEF Tabled
  <2>2. CASE c # client[p]
    BY <2>2, ReachedWhere
  <2>3. QED
    BY <2>1, <2>2
<1>2. Used(c) /\ c # client[p] => Used(c)'
  BY DEF Used, Leave, Put, ServersInv, TypeOK
<1>3. QED
  BY <1>1, <1>2 DEF Reached, Tabled

(* A connection stays in reach.                                            *)
LEMMA ReachNext ==
  ASSUME ServersInv, Next, TypeOK'
  PROVE  ConnectionsInReach'
<1> USE NamesDiffer DEF tables, clients, tools, local, history
<1>0. TypeOK /\ loose \subseteq loose'
  BY LooseGrows DEF ServersInv
<1>1. SUFFICES ASSUME NEW c \in open' PROVE Reached(c)'
  BY DEF ConnectionsInReach, InTable, Range, TypeOK, Reached, Tabled, Used
<1>2. c # NoClient /\ c \in Clients
  BY DEF TypeOK
<1>3. ASSUME NEW p \in Tasks, NEW s \in Servers,
             AddAgain(p, s) \/ AddNew(p, s) \/ Discover(p, s)
      PROVE  Reached(c)'
  <2>1. Reached(c) /\ client[p] = NoClient
    BY <1>3, ReachedWhere
       DEF AddAgain, AddNew, Discover, Idle, ServersInv, Holds, AtRest
  <2>2. Used(c) => Used(c)'
    BY <1>0, <1>2, <1>3, <2>1
       DEF AddAgain, AddNew, Discover, Put, Used, TypeOK
  <2>3. Tabled(c) => Tabled(c)'
    BY <1>0, <1>2, <1>3
       DEF AddAgain, AddNew, Discover, KeepClient, Put, Tabled, TypeOK
  <2>4. QED
    BY <1>0, <1>3, <2>1, <2>2, <2>3 DEF Reached, AddAgain, AddNew, Discover
<1>4. ASSUME NEW p \in Tasks, NEW t \in Tools, Call(p, t)
      PROVE  Reached(c)'
  <2>1. Reached(c) /\ client[p] = NoClient
    BY <1>4, ReachedWhere DEF Call, Idle, ServersInv, Holds, AtRest
  <2>2. Used(c) => Used(c)'
    BY <1>0, <1>2, <1>4, <2>1 DEF Call, Put, Used, TypeOK
  <2>3. QED
    BY <1>0, <1>4, <2>1, <2>2 DEF Reached, Tabled, Call
<1>5. ASSUME open' \subseteq open, UNCHANGED <<direct, lazy, client, scheduled>>
      PROVE  Reached(c)'
  BY <1>0, <1>5, ReachedWhere DEF Reached, Tabled, Used
<1>6. ASSUME NEW s \in Servers, DeleteServer(s)
      PROVE  Reached(c)'
  <2>1. Reached(c)
    BY <1>6, ReachedWhere DEF DeleteServer
  <2>2. Tabled(c) => Tabled(c)' \/ c \in scheduled'
    BY <1>0, <1>2, <1>6 DEF DeleteServer, ScheduleClose, Put, Tabled, TypeOK
  <2>3. QED
    BY <1>0, <1>6, <2>1, <2>2 DEF Reached, Used, DeleteServer, ScheduleClose
<1>7. ASSUME NEW d \in Clients, ScheduledClose(d)
      PROVE  Reached(c)'
  BY <1>7, ReachedWhere DEF Reached, Tabled, Used, ScheduledClose
<1>8. ASSUME NEW p \in Tasks,
             ListingFails(p) \/ Removed(p) \/ RemovalCancelled(p) \/ CallEnds(p)
      PROVE  Reached(c)'
  <2>1. c \in open \cup {client[p]} /\ WithKnown(p)
    BY <1>8
       DEF ListingFails, Removed, RemovalCancelled, CallEnds, AfterFailure, WithKnown
  <2>2. QED
    BY <1>0, <1>8, <2>1, LeaveReach
       DEF ListingFails, Removed, RemovalCancelled, CallEnds
<1>9. ASSUME NEW p \in Tasks, GiveUp(p) \/ SwapCancelled(p)
      PROVE  Reached(c)'
  <2>1. Reached(c) /\ (c # client[p] \/ c \in loose')
    BY <1>9, ReachedWhere DEF GiveUp, SwapCancelled
  <2>2. Used(c) => Used(c)' \/ c \in loose'
    BY <1>0, <1>9, <2>1 DEF GiveUp, SwapCancelled, Leave, Put, Used, TypeOK
  <2>3. QED
    BY <1>0, <1>9, <2>1, <2>2 DEF Reached, Tabled, GiveUp, SwapCancelled
<1>10. ASSUME NEW p \in Tasks, open' \subseteq open \cup {client[p]},
              UNCHANGED <<direct, lazy, client, scheduled>>
       PROVE  Reached(c)'
  BY <1>0, <1>10, ReachedWhere DEF Reached, Tabled, Used
<1>11. ASSUME NEW p \in Tasks, NewListed(p) \/ Swapped(p)
       PROVE  Reached(c)'
  <2>1. client' = client /\ Commit(p) /\ UNCHANGED scheduled
    BY <1>11 DEF NewListed, Swapped, Adopt
  <2>2. CASE c = client[p]
    BY <2>1, <2>2 DEF Reached, Used
  <2>3. CASE c # client[p]
    <3>1. c \in open /\ c # prior[p]
      BY <1>2, <1>11, <2>3 DEF NewListed, Swapped, ClosePrior
    <3>2. Reached(c)
      BY <3>1, ReachedWhere
    <3>3. Tabled(c) => Tabled(c)' \/ c \in loose'
      BY <1>0, <1>2, <2>1, <3>1 DEF Commit, Put, Tabled, TypeOK
    <3>4. QED
      BY <1>0, <2>1, <3>2, <3>3 DEF Reached, Used
  <2>4. QED
    BY <2>2, <2>3
<1>12. ASSUME NEW p \in Tasks, DirectClosed(p) \/ LazyClosed(p)
       PROVE  Reached(c)'
  <2>1. Reached(c) /\ client[p] = NoClient /\ c \in open
    BY <1>12, ReachedWhere
       DEF DirectClosed, LazyClosed, ServersInv, Holds, AtRest
  <2>2. Used(c) => Used(c)'
    BY <1>0, <1>2, <1>12, <2>1 DEF DirectClosed, LazyClosed, Leave, Put, Used, TypeOK
  <2>3. Tabled(c) => Tabled(c)' \/ c \in loose
    <3>1. Closes(p)
      BY DEF ServersInv
    <3>2. CASE DirectClosed(p)
      <4>1. c \in Range(direct) => c \in loose
        BY <2>1, <3>1, <3>2 DEF DirectClosed, Closes
      <4>2. lazy' = lazy
        BY <3>2 DEF DirectClosed
      <4>3. QED
        BY <1>0, <4>1, <4>2 DEF Tabled, Range, TypeOK
    <3>3. CASE LazyClosed(p)
      <4>1. c \in Range(lazy) => c \in loose
        BY <2>1, <3>1, <3>3 DEF LazyClosed, Closes
      <4>2. direct' = direct
        BY <3>3 DEF LazyClosed
      <4>3. QED
        BY <1>0, <4>1, <4>2 DEF Tabled, Range, TypeOK
    <3>4. QED
      BY <1>12, <3>2, <3>3
  <2>4. QED
    BY <1>0, <1>12, <2>1, <2>2, <2>3 DEF Reached, DirectClosed, LazyClosed
<1>13. CASE Operate
  BY <1>3, <1>4, <1>5, <1>6, <1>13
     DEF Operate, Close, RegisterServer, RegisterLocal, DeleteTool
<1>14. CASE Proceed
  <2>1. ASSUME NEW p \in Tasks,
               Listed(p) \/ NewListingFails(p) \/ ReplacementListed(p) \/ RemoveNext(p)
               \/ CloseNext(p)
        PROVE  Reached(c)'
    BY <1>10, <2>1
       DEF Listed, Adopt, NewListingFails, AfterFailure, ReplacementListed, RemoveNext,
           CloseNext
  <2>2. QED
    BY <1>7, <1>8, <1>9, <1>11, <1>12, <1>14, <2>1 DEF Proceed, Step
<1>15. QED
  BY <1>13, <1>14 DEF Next
-----------------------------------------------------------------------------
(* Where the handlers lead.                                                *)
Known(c) == Tabled(c) \/ c \in retired \/ c \in loose
Led(t) == Known(handler[t]) \/ \E p \in Tasks : t \in left[p]

(* Where a handler's client may be reached from.                           *)
LEMMA LedWhere ==
  ASSUME ServersInv, NEW t \in Tools, handler[t] \in Clients
  PROVE  Led(t)
<1>1. TypeOK
  BY DEF ServersInv
<1>2. handler[t] \in InTable => Tabled(handler[t])
  BY <1>1, InTableMeans DEF Tabled
<1>3. QED
  BY <1>2 DEF ServersInv, HandlersInReach, Led, Known

(* Outside add_mcp_server, a client leaves the tables to be closed.        *)
LEMMA KnownStays ==
  ASSUME ServersInv, Next, NEW c \in Clients, Known(c),
         direct' = direct \/ \E p \in Tasks : DirectClosed(p)
  PROVE  Known(c)'
<1> USE NamesDiffer DEF tables, clients, tools, local, history
<1>0. TypeOK /\ c # NoClient /\ loose \subseteq loose'
  BY LooseGrows DEF ServersInv
<1>1. ASSUME UNCHANGED <<direct, lazy>>, retired \subseteq retired'
      PROVE  Known(c)'
  BY <1>0, <1>1 DEF Known, Tabled
<1>2. ASSUME NEW p \in Tasks, NEW s \in Servers, Discover(p, s)
      PROVE  Known(c)'
  <2>1. Tabled(c) => Tabled(c)'
    BY <1>0, <1>2 DEF Discover, KeepClient, Put, Tabled, TypeOK
  <2>2. QED
    BY <1>0, <1>2, <2>1 DEF Known, Discover, Overlaps
<1>3. ASSUME NEW s \in Servers, DeleteServer(s)
      PROVE  Known(c)'
  <2>1. Tabled(c) => Tabled(c)' \/ c \in retired'
    BY <1>0, <1>3 DEF DeleteServer, Put, Tabled, TypeOK
  <2>2. QED
    BY <1>0, <1>3, <2>1 DEF Known, DeleteServer
<1>4. ASSUME NEW p \in Tasks, DirectClosed(p) \/ LazyClosed(p)
      PROVE  Known(c)'
  <2>1. Tabled(c) => Tabled(c)' \/ c \in retired'
    <3>1. CASE DirectClosed(p)
      BY <1>0, <3>1 DEF DirectClosed, Tabled, Range, TypeOK
    <3>2. CASE LazyClosed(p)
      BY <1>0, <3>2 DEF LazyClosed, Tabled, Range, TypeOK
    <3>3. QED
      BY <1>4, <3>1, <3>2
  <2>2. QED
    BY <1>0, <1>4, <2>1 DEF Known, DirectClosed, LazyClosed
<1>5. CASE Operate
  BY <1>1, <1>2, <1>3, <1>5
     DEF Operate, Close, AddAgain, AddNew, Overlaps, Call, RegisterServer, RegisterLocal,
         DeleteTool
<1>6. CASE Proceed
  BY <1>1, <1>4, <1>6
     DEF Proceed, Step, ScheduledClose, ListingFails, NewListingFails, GiveUp, Listed,
         NewListed, Swapped, Commit, ReplacementListed, SwapCancelled, RemoveNext, Removed, RemovalCancelled,
         CallEnds, CloseNext
<1>7. QED
  BY <1>5, <1>6 DEF Next

(* What a discovery makes of a tool: it serves the tool itself, leaves it  *)
(* alone, or has it to remove.                                             *)
LEMMA AdoptLed ==
  ASSUME ServersInv, Next, TypeOK', NEW p \in Tasks, NEW ts \in SUBSET Tools,
         Adopt(p, ts), client[p] \in Clients, NEW t \in Tools, handler'[t] \in Clients
  PROVE  \/ handler'[t] = client[p]
         \/ t \in left'[p]
         \/ /\ handler'[t] = handler[t]
            /\ t \notin Taken(client[p], ts) /\ t \notin Stale(client[p], ts)
<1> USE NamesDiffer
<1>0. TypeOK
  BY DEF ServersInv
<1> DEFINE c == client[p]
           stale == Stale(c, ts)
           hnd == HandlersAfter(c, ts)
<1>1. hnd[t] = IF t \in Taken(c, ts) THEN c ELSE handler[t]
  BY DEF HandlersAfter, Serve
<1>2. CASE stale = {}
  <2>1. handler' = hnd
    BY <1>2 DEF Adopt
  <2>2. QED
    BY <1>1, <1>2, <2>1
<1>3. CASE stale # {}
  <2>1. PICK u \in stale :
          handler' = Without(hnd, u) /\ left' = Put(left, p, stale \ {u})
    BY <1>3 DEF Adopt
  <2>2. left'[p] = stale \ {u}
    BY <1>0, <2>1 DEF Put, TypeOK
  <2>3. t # u
    BY <2>1 DEF Without, Put, HandlersAfter, Serve
  <2>4. handler'[t] = hnd[t]
    BY <2>1, <2>3 DEF Without, Put, HandlersAfter, Serve
  <2>5. QED
    BY <1>1, <2>2, <2>3, <2>4
<1>4. QED
  BY <1>2, <1>3

(* Handlers stay in reach.                                                 *)
LEMMA HandlersNext ==
  ASSUME ServersInv, Next, TypeOK'
  PROVE  HandlersInReach'
<1> USE NamesDiffer DEF tables, clients, tools, local, history
<1>0. TypeOK /\ DefinitionServesHandler
  BY DEF ServersInv
<1>1. SUFFICES ASSUME NEW t \in Tools, handler'[t] \in Clients
               PROVE  Led(t)'
  BY DEF HandlersInReach, InTable, Range, TypeOK, Led, Known, Tabled
<1>2. ASSUME handler' = handler, \A c \in Clients : Known(c) => Known(c)',
             \A p \in Tasks : left[p] \subseteq left'[p]
      PROVE  Led(t)'
  <2>1. Led(t)
    BY <1>1, <1>2, LedWhere
  <2>2. QED
    BY <1>1, <1>2, <2>1 DEF Led
<1>3. ASSUME UNCHANGED <<handler, left>>,
             direct' = direct \/ \E p \in Tasks : DirectClosed(p)
      PROVE  Led(t)'
  BY <1>1, <1>2, <1>3, KnownStays
<1>4. ASSUME NEW u \in Tools, RegisterLocal(u) \/ DeleteTool(u)
      PROVE  Led(t)'
  <2>1. handler'[t] = handler[t] /\ Led(t)
    BY <1>0, <1>1, <1>4, LedWhere DEF RegisterLocal, DeleteTool, Without, Put, TypeOK
  <2>2. QED
    BY <1>4, <2>1 DEF RegisterLocal, DeleteTool, Led, Known, Tabled
<1>5. ASSUME NEW p \in Tasks, Leave(p), UNCHANGED <<handler, direct>>, left[p] = {}
      PROVE  Led(t)'
  <2>1. \A q \in Tasks : left[q] \subseteq left'[q]
    BY <1>0, <1>5 DEF Leave, Put, TypeOK
  <2>2. QED
    BY <1>1, <1>2, <1>5, <2>1, KnownStays
<1>6. ASSUME NEW p \in Tasks, RemovalCancelled(p)
      PROVE  Led(t)'
  <2>1. handler[t] \in Clients /\ Led(t) /\ handler' = handler
    BY <1>1, <1>6, LedWhere DEF RemovalCancelled
  <2>2. CASE t \in left[p]
    <3>1. handler[t] \in loose'
      BY <1>0, <1>6, <2>1, <2>2 DEF RemovalCancelled, DefinitionServesHandler
    <3>2. QED
      BY <2>1, <3>1 DEF Led, Known
  <2>3. CASE t \notin left[p]
    <3>1. \A q \in Tasks : t \in left[q] => t \in left'[q]
      BY <1>0, <1>6, <2>3 DEF RemovalCancelled, Leave, Put, TypeOK
    <3>2. QED
      BY <1>6, <2>1, <3>1 DEF RemovalCancelled, Led, Known, Tabled
  <2>4. QED
    BY <2>2, <2>3
<1>7. ASSUME NEW p \in Tasks, RemoveNext(p)
      PROVE  Led(t)'
  <2>1. PICK u \in left[p] :
          handler' = Without(handler, u) /\ left' = Put(left, p, left[p] \ {u})
    BY <1>7 DEF RemoveNext
  <2>2. t # u /\ handler'[t] = handler[t]
    BY <1>0, <1>1, <2>1 DEF Without, Put, TypeOK
  <2>3. \A q \in Tasks : t \in left[q] => t \in left'[q]
    BY <1>0, <2>1, <2>2 DEF Put, TypeOK
  <2>4. Led(t)
    BY <1>1, <2>2, LedWhere
  <2>5. QED
    BY <1>7, <2>2, <2>3, <2>4 DEF RemoveNext, Led, Known, Tabled
<1>8. ASSUME NEW p \in Tasks, NEW ts \in SUBSET Tools, Adopt(p, ts),
             client[p] \in Clients, left[p] = {}, Known(client[p])',
             \A c \in Clients :
               /\ c = handler[t] /\ Known(c)
               /\ t \notin Taken(client[p], ts) /\ t \notin Stale(client[p], ts)
               => Known(c)'
      PROVE  Led(t)'
  <2>1. \A q \in Tasks : left[q] \subseteq left'[q]
    BY <1>0, <1>8 DEF Adopt, Put, TypeOK
  <2>2. CASE handler'[t] = client[p]
    <3>1. client'[p] = client[p]
      BY <1>8 DEF Adopt
    <3>2. QED
      BY <1>8, <2>2, <3>1 DEF Led
  <2>3. CASE t \in left'[p]
    BY <2>3 DEF Led
  <2>4. CASE /\ handler'[t] = handler[t]
             /\ t \notin Taken(client[p], ts) /\ t \notin Stale(client[p], ts)
    <3>1. Led(t)
      BY <1>1, <2>4, LedWhere
    <3>2. QED
      BY <1>1, <1>8, <2>1, <2>4, <3>1 DEF Led
  <2>5. QED
    BY <1>0, <1>1, <1>8, <2>2, <2>3, <2>4, AdoptLed
<1>9. ASSUME NEW p \in Tasks, Listed(p)
      PROVE  Led(t)'
  <2>1. PICK ts \in SUBSET Tools : Adopt(p, ts)
    BY <1>9 DEF Listed
  <2>2. /\ client[p] \in Clients /\ client[p] \in InTable \cup loose
        /\ left[p] = {}
    BY <1>9, ClientHeld DEF Listed, WithKnown, ServersInv, Holds
  <2>3. Known(client[p])
    BY <1>0, <2>2, InTableMeans DEF Known, Tabled
  <2>4. UNCHANGED <<direct, lazy, retired, loose>>
    BY <1>9 DEF Listed
  <2>5. \A c : Known(c) => Known(c)'
    BY <2>4 DEF Known, Tabled
  <2>6. Known(client[p])'
    BY <2>1, <2>3, <2>4 DEF Known, Tabled, Adopt
  <2>7. QED
    BY <1>8, <2>1, <2>2, <2>5, <2>6
<1>10. ASSUME NEW p \in Tasks, NewListed(p) \/ Swapped(p)
       PROVE  Led(t)'
  <2>1. PICK ts \in SUBSET Tools : Adopt(p, ts)
    BY <1>0, <1>10 DEF NewListed, Swapped, TypeOK
  <2>2. /\ client[p] \in Clients /\ server[client[p]] \in Servers
        /\ left[p] = {} /\ Commit(p) /\ client' = client
    BY <1>10, ClientHeld DEF NewListed, Swapped, WithNew, ServersInv, Holds, Adopt
  <2> DEFINE s == server[client[p]]
  <2>3. direct'[s] = client[p]
    BY <1>0, <2>2 DEF Commit, Put, TypeOK
  <2>4. Known(client[p])'
    BY <2>2, <2>3 DEF Known, Tabled
  <2>5. ASSUME NEW c \in Clients, c = handler[t], Known(c),
               t \notin Taken(client[p], ts), t \notin Stale(client[p], ts)
        PROVE  Known(c)'
    <3>1. c # direct[s]
      <4>1. SUFFICES ASSUME c = direct[s] PROVE FALSE
        OBVIOUS
      <4>2. SameServer(client[p], source[t])
        BY <1>0, <2>2, <2>5, <4>1, NamesDiffer
           DEF SameServer, ServersInv, TableServes, DefinitionServesHandler
      <4>3. t \in ts => t \in Taken(client[p], ts)
        BY <4>2 DEF Taken, MayTake
      <4>4. t \notin ts => t \in Stale(client[p], ts)
        BY <4>2 DEF Stale
      <4>5. QED
        BY <2>5, <4>3, <4>4
    <3>2. Tabled(c) => Tabled(c)'
      BY <1>0, <2>2, <3>1 DEF Commit, Put, Tabled, TypeOK
    <3>3. QED
      BY <2>2, <2>5, <3>2 DEF Known, Commit
  <2>6. QED
    BY <1>8, <2>1, <2>2, <2>4, <2>5
<1>11. CASE Operate
  BY <1>3, <1>4, <1>11
     DEF Operate, Close, AddAgain, AddNew, Discover, Call, RegisterServer, DeleteServer
<1>12. ASSUME NEW p \in Tasks,
              ListingFails(p) \/ GiveUp(p) \/ SwapCancelled(p) \/ Removed(p)
              \/ CallEnds(p) \/ LazyClosed(p)
       PROVE  Led(t)'
  <2>1. left[p] = {}
    BY <1>12
       DEF ServersInv, Holds, ListingFails, GiveUp, SwapCancelled, Removed, CallEnds,
           LazyClosed
  <2>2. QED
    BY <1>5, <1>12, <2>1
       DEF ListingFails, GiveUp, SwapCancelled, Removed, CallEnds, LazyClosed
<1>13. CASE Proceed
  BY <1>3, <1>6, <1>7, <1>9, <1>10, <1>12, <1>13
     DEF Proceed, Step, ScheduledClose, NewListingFails, ReplacementListed, CloseNext,
         DirectClosed
<1>14. QED
  BY <1>11, <1>13 DEF Next
-----------------------------------------------------------------------------
(* Every step keeps the invariant.                                         *)
LEMMA Preserved == ServersInv /\ [Next]_vars => ServersInv'
<1> SUFFICES ASSUME ServersInv, [Next]_vars PROVE ServersInv'
  OBVIOUS
<1>1. CASE Next
  <2>1. TypeOK'
    BY <1>1, TypeNext
  <2>2. QED
    BY <1>1, <2>1, HoldsNext, ClosesNext, ServesNext, SourceNext, ReachNext, HandlersNext
       DEF ServersInv
<1>2. CASE UNCHANGED vars
  <2> USE <1>2 DEF vars, tables, clients, tools, local, history
  <2>1. TypeOK'
    BY DEF ServersInv, TypeOK
  <2>2. \A p \in Tasks : Holds(p)'
    BY DEF ServersInv, Holds, AtRest, WithKnown, WithNew, InTable
  <2>3. \A p \in Tasks : Closes(p)'
    BY DEF ServersInv, Closes, Closing, HeldByOthers
  <2>4. TableServes' /\ DefinitionServesHandler'
    BY DEF ServersInv, TableServes, DefinitionServesHandler
  <2>5. ConnectionsInReach' /\ HandlersInReach'
    BY DEF ServersInv, ConnectionsInReach, HandlersInReach, InTable
  <2>6. QED
    BY <2>1, <2>2, <2>3, <2>4, <2>5 DEF ServersInv
<1>3. QED
  BY <1>1, <1>2

(* So it always holds.                                                     *)
LEMMA Always == Spec => []ServersInv
BY Initially, Preserved, PTL DEF Spec

(* The variables keep the shape the gantry gives them.                     *)
THEOREM ServersTyped == Spec => []TypeOK
<1>1. ServersInv => TypeOK
  BY DEF ServersInv
<1>2. QED
  BY <1>1, Always, PTL

(* Whatever servers are added, discovered, deleted and closed, in whatever *)
(* order their tasks interleave, a connection of which no table, task or   *)
(* scheduled close knows is one of the losses `loose` names.               *)
THEOREM NoConnectionForgotten == Spec => []ConnectionsInReach
<1>1. ServersInv => ConnectionsInReach
  BY DEF ServersInv
<1>2. QED
  BY <1>1, Always, PTL

(* A tool never dispatches to a client that was replaced by a later        *)
(* add_mcp_server of its server, unless a race lost it.                    *)
THEOREM NoHandlerForgotten == Spec => []HandlersInReach
<1>1. ServersInv => HandlersInReach
  BY DEF ServersInv
<1>2. QED
  BY <1>1, Always, PTL

(* No collision of tool names separates a definition from its handler.     *)
THEOREM CallsMatchDefinitions == Spec => []DefinitionServesHandler
<1>1. ServersInv => DefinitionServesHandler
  BY DEF ServersInv
<1>2. QED
  BY <1>1, Always, PTL
=============================================================================
