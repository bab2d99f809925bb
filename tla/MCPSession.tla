------------------------------ MODULE MCPSession ------------------------------
(***************************************************************************)
(* The persistent session of an MCPClient,                                 *)
(* agent_gantry/adapters/executors/mcp_client.py.                          *)
(*                                                                         *)
(* A session is opened, kept and closed by an owner task of its own;       *)
(* callers share it, open it under a connect lock, and throw it away when  *)
(* a call of theirs fails.  One action is the code of one task between two *)
(* awaits that suspend; all tasks run on one event loop, the only use the  *)
(* class supports.                                                         *)
(*                                                                         *)
(* A session, its owner task and its close event have one name, the        *)
(* owner's.  `_session` and `_connected` are always assigned together, so  *)
(* `session` stands for both.                                              *)
(***************************************************************************)
EXTENDS Integers, FiniteSets

CONSTANTS
  Callers, \* tasks that use or close the client
  Owners   \* owner tasks, which bounds the connections of a behaviour

Nobody == "nobody"
NoOwner == "no owner"

ASSUME SessionAssumption == Nobody \notin Callers /\ NoOwner \notin Owners

VARIABLES
  session,    \* _session
  ownerTask,  \* _owner_task
  closeEvent, \* _close_event
  bound,      \* _loop_id is the running loop's
  lock,       \* the caller that holds _connect_lock
  stage,      \* where each caller is suspended
  its,        \* the owner each caller waits for or whose session it uses
  owner,      \* where each owner task is suspended
  told,       \* owners whose close event is set
  cancelled,  \* owners that were cancelled
  failed,     \* owners that raised (startup_error)
  reported,   \* history: sessions that a call failed on
  disowned    \* history: a connect was cancelled after its owner was let go

fields == <<session, ownerTask, closeEvent, bound>>
signals == <<told, cancelled, failed>>
record == <<reported, disowned>>

sessionVars == <<fields, lock, stage, its, owner, signals, record>>

SessionInit ==
  /\ session = NoOwner /\ ownerTask = NoOwner /\ closeEvent = NoOwner
  /\ bound = FALSE
  /\ lock = Nobody
  /\ stage = [c \in Callers |-> "idle"]
  /\ its = [c \in Callers |-> NoOwner]
  /\ owner = [o \in Owners |-> "absent"]
  /\ told = {} /\ cancelled = {} /\ failed = {}
  /\ reported = {} /\ disowned = FALSE
-----------------------------------------------------------------------------
(* _ensure_session.                                                        *)

Usable == session # NoOwner /\ bound

At(c, from, to, o) ==
  /\ stage[c] = from
  /\ stage' = [stage EXCEPT ![c] = to]
  /\ its' = [its EXCEPT ![c] = o]

(* A live session is used at once.                                         *)
UseSession(c) ==
  /\ At(c, "idle", "calling", session)
  /\ Usable
  /\ UNCHANGED <<fields, lock, owner, signals, record>>

NeedSession(c) ==
  /\ At(c, "idle", "waiting", NoOwner)
  /\ ~Usable
  /\ UNCHANGED <<fields, lock, owner, signals, record>>

(* The lock is had, and another caller has connected in the meantime.      *)
FindSession(c) ==
  /\ At(c, "waiting", "calling", session)
  /\ lock = Nobody
  /\ Usable
  /\ UNCHANGED <<fields, lock, owner, signals, record>>

NewOwner == CHOOSE o \in Owners : owner[o] = "absent"

(* The lock is had, an owner task is created and its start awaited.        *)
Connect(c, o) ==
  /\ At(c, "waiting", "starting", o)
  /\ lock = Nobody
  /\ ~Usable
  /\ owner[o] = "absent" /\ o = NewOwner
  /\ lock' = c
  /\ owner' = [owner EXCEPT ![o] = "starting"]
  /\ ownerTask' = o /\ closeEvent' = o /\ bound' = TRUE
  /\ UNCHANGED <<session, signals, record>>

Ready(o) == owner[o] \notin {"absent", "starting"}

LetGo == ownerTask' = NoOwner /\ closeEvent' = NoOwner /\ bound' = FALSE

(* The owner raised: so does the caller, and the owner is forgotten.       *)
StartFailed(c) ==
  /\ At(c, "starting", "idle", NoOwner)
  /\ its[c] \in failed
  /\ LetGo
  /\ lock' = Nobody
  /\ UNCHANGED <<session, owner, signals, record>>

(* The owner is up, but somebody invalidated the session already.          *)
StartLost(c) ==
  /\ At(c, "starting", "idle", NoOwner)
  /\ Ready(its[c]) /\ its[c] \notin failed
  /\ session = NoOwner
  /\ lock' = Nobody
  /\ UNCHANGED <<fields, owner, signals, record>>

Started(c) ==
  /\ At(c, "starting", "calling", session)
  /\ Ready(its[c]) /\ its[c] \notin failed
  /\ session # NoOwner
  /\ lock' = Nobody
  /\ UNCHANGED <<fields, owner, signals, record>>

(* Slip: the lock is not given back.                                       *)
LockKept(c) == lock' = c

Unlock(c) == lock' = Nobody

(* The caller is cancelled while it waits for its owner: it cancels the    *)
(* owner the client knows and waits for its end before it releases the     *)
(* lock.  If the session was invalidated meanwhile it knows none.          *)
CancelStart(c) ==
  /\ \/ /\ At(c, "starting", "draining", ownerTask)
        /\ ownerTask # NoOwner
        /\ cancelled' = cancelled \cup {ownerTask}
        /\ UNCHANGED <<fields, lock, disowned>>
     \/ /\ At(c, "starting", "idle", NoOwner)
        /\ ownerTask = NoOwner
        /\ LetGo
        /\ Unlock(c)
        /\ disowned' = TRUE
        /\ UNCHANGED <<session, cancelled>>
  /\ UNCHANGED <<owner, told, failed, reported>>

Drained(c) ==
  /\ At(c, "draining", "idle", NoOwner)
  /\ owner[its[c]] = "ended"
  /\ LetGo
  /\ Unlock(c)
  /\ UNCHANGED <<session, owner, signals, record>>

(* Cancelled while waiting for the lock.                                   *)
CancelWait(c) ==
  /\ At(c, "waiting", "idle", NoOwner)
  /\ UNCHANGED <<fields, lock, owner, signals, record>>
-----------------------------------------------------------------------------
(* call_tool, list_tools and close.                                        *)

(* The call is answered, with a result or an in-band tool error, or its    *)
(* caller is cancelled.                                                    *)
CallOver(c) ==
  /\ At(c, "calling", "idle", NoOwner)
  /\ UNCHANGED <<fields, lock, owner, signals, record>>

(* Slip: the flags are left for the owner's teardown to clear.             *)
KeepFlags == UNCHANGED session

ClearFlags == session' = NoOwner

(* _invalidate_session: the client lets its owner go, tells it to close,   *)
(* and waits for its end.                                                  *)
Invalidate(c, from) ==
  /\ At(c, from, IF ownerTask = NoOwner THEN "idle" ELSE "closing", ownerTask)
  /\ LetGo
  /\ ClearFlags
  /\ told' = told \cup ({closeEvent} \ {NoOwner})
  /\ UNCHANGED <<lock, owner, cancelled, failed, disowned>>

(* Any exception of the session's own call invalidates the session the     *)
(* client has now.                                                         *)
CallFails(c) ==
  /\ Invalidate(c, "calling")
  /\ reported' = reported \cup {its[c]}

CloseClient(c) ==
  /\ Invalidate(c, "idle")
  /\ UNCHANGED reported

(* The owner has ended, or five seconds have passed.                       *)
Closed(c) ==
  /\ At(c, "closing", "idle", NoOwner)
  /\ UNCHANGED <<fields, lock, owner, signals, record>>
-----------------------------------------------------------------------------
(* The owner task.                                                         *)

Goes(o, from, to) ==
  /\ owner[o] = from
  /\ owner' = [owner EXCEPT ![o] = to]

(* The handshake is done and the session installed, over whatever is       *)
(* there.  An owner told to close meanwhile tears down in the same breath. *)
OwnerUp(o) ==
  /\ o \notin cancelled
  /\ IF o \in told THEN Goes(o, "starting", "closing") /\ session' = NoOwner
                   ELSE Goes(o, "starting", "live") /\ session' = o
  /\ UNCHANGED <<ownerTask, closeEvent, bound, lock, stage, its, signals, record>>

OwnerFails(o) ==
  /\ Goes(o, "starting", "ended")
  /\ failed' = failed \cup {o}
  /\ UNCHANGED <<fields, lock, stage, its, told, cancelled, record>>

(* Slip: teardown clears whatever session is installed.                    *)
WithoutAny(o) == NoOwner

WithoutOwn(o) == IF session = o THEN NoOwner ELSE session

(* The owner leaves the connection: told to, or because it was cancelled   *)
(* or its transport broke.                                                 *)
OwnerLeaves(o) ==
  /\ Goes(o, "live", "closing")
  /\ \/ o \in told /\ o \notin cancelled /\ UNCHANGED failed
     \/ failed' = failed \cup {o}
  /\ session' = WithoutOwn(o)
  /\ UNCHANGED <<ownerTask, closeEvent, bound, lock, stage, its, told, cancelled, record>>

(* The subprocess is gone.  The owner's last guard again clears nothing    *)
(* but its own session.                                                    *)
OwnerEnds(o) ==
  /\ Goes(o, "closing", "ended")
  /\ session' = WithoutOwn(o)
  /\ UNCHANGED <<ownerTask, closeEvent, bound, lock, stage, its, signals, record>>

SessionNext ==
  \/ \E c \in Callers : UseSession(c)
  \/ \E c \in Callers : NeedSession(c)
  \/ \E c \in Callers : FindSession(c)
  \/ \E c \in Callers, o \in Owners : Connect(c, o)
  \/ \E c \in Callers : StartFailed(c)
  \/ \E c \in Callers : StartLost(c)
  \/ \E c \in Callers : Started(c)
  \/ \E c \in Callers : CancelStart(c)
  \/ \E c \in Callers : Drained(c)
  \/ \E c \in Callers : CancelWait(c)
  \/ \E c \in Callers : CallOver(c)
  \/ \E c \in Callers : CallFails(c)
  \/ \E c \in Callers : CloseClient(c)
  \/ \E c \in Callers : Closed(c)
  \/ \E o \in Owners : OwnerUp(o)
  \/ \E o \in Owners : OwnerFails(o)
  \/ \E o \in Owners : OwnerLeaves(o)
  \/ \E o \in Owners : OwnerEnds(o)

SessionSpec == SessionInit /\ [][SessionNext]_sessionVars

(* Tasks that can go on do, a server's handshake ends one way or the       *)
(* other, and a connection that is being left is left in the end.          *)
Fairness ==
  /\ \A c \in Callers : WF_sessionVars(StartFailed(c) \/ StartLost(c) \/ Started(c))
  /\ \A c \in Callers : WF_sessionVars(Drained(c))
  /\ \A o \in Owners : WF_sessionVars(OwnerUp(o) \/ OwnerFails(o))
  /\ \A o \in Owners : WF_sessionVars(o \in cancelled /\ OwnerLeaves(o))
  /\ \A o \in Owners : WF_sessionVars(OwnerEnds(o))

FairSpec == SessionSpec /\ Fairness
-----------------------------------------------------------------------------
(* Properties.                                                             *)

Connecting == {c \in Callers : stage[c] \in {"starting", "draining"}}

(* Every variable has the shape the client gives it; in particular the     *)
(* connect lock belongs to the one caller that is connecting, or every     *)
(* later call would wait for it for ever.                                  *)
SessionTypeOK ==
  /\ {session, ownerTask, closeEvent} \subseteq Owners \cup {NoOwner}
  /\ bound \in BOOLEAN
  /\ stage \in [Callers -> {"idle", "waiting", "starting", "draining", "calling", "closing"}]
  /\ its \in [Callers -> Owners \cup {NoOwner}]
  /\ owner \in [Owners -> {"absent", "starting", "live", "closing", "ended"}]
  /\ told \subseteq Owners /\ cancelled \subseteq Owners /\ failed \subseteq Owners
  /\ reported \subseteq Owners
  /\ disowned \in BOOLEAN
  /\ Connecting = {lock} \ {Nobody}

(* The caller that connects gives the lock back, however its connect ends: *)
(* the session comes up, fails, was invalidated meanwhile, or the caller   *)
(* is cancelled, before or after its owner was let go.  Every later call   *)
(* would wait for the lock for ever.                                       *)
LockGivenBack == \A c \in Callers : lock = c ~> lock # c

(* An owner that keeps a subprocess running and nobody has told to end.    *)
Running(o) == owner[o] \in {"starting", "live"} /\ o \notin told \cup cancelled

(* close() reaches every subprocess: the client still knows each running   *)
(* owner by its task and its close event.                                  *)
OwnersReachable == \A o \in Owners : Running(o) => ownerTask = o /\ closeEvent = o

(* It does as long as no connect is cancelled between the invalidation of  *)
(* its session and its start.                                              *)
OwnersReachableUnlessDisowned == disowned \/ OwnersReachable

(* The session callers are given is one whose owner is up and has not been *)
(* told to close, and no call ever failed on it: a retry after a failure   *)
(* reconnects and never reuses the dying transport, although every failed  *)
(* caller of the old session still invalidates on its own.                 *)
SessionIsFresh ==
  session # NoOwner =>
    owner[session] = "live" /\ session \notin told \cup reported
=============================================================================
