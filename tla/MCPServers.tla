------------------------------ MODULE MCPServers ------------------------------
(***************************************************************************)
(* The MCP clients of a gantry and the tools they serve: `add_mcp_server`, *)
(* `discover_tools_from_server`, `close` and the handlers of discovered    *)
(* tools in agent_gantry/core/gantry.py, over agent_gantry/core/           *)
(* mcp_registry.py.                                                        *)
(*                                                                         *)
(* Two tables keep clients: `direct` those of add_mcp_server, `lazy` those *)
(* of the MCP registry.  A client connects when it is used and stays       *)
(* connected until it is closed, and may be used again after that, so a    *)
(* connection that no table leads to outlives the gantry.  One action is   *)
(* the code of one task between two awaits that suspend.                   *)
(*                                                                         *)
(* Discovered definitions go to the registry and to the pending list       *)
(* together; the list, the store and the sync that ends a discovery are    *)
(* ToolSync's.  What a session goes through is MCPSession's.               *)
(***************************************************************************)
EXTENDS Integers, FiniteSets, FiniteSetsExt, Functions

CONSTANTS
  Tasks,   \* tasks that may be in the middle of an operation
  Servers, \* qualified names of servers
  Configs, \* what a server may be configured with (command, environment)
  Tools,   \* qualified names of tools
  Clients, \* MCPClient objects, which bounds those a behaviour creates
  MaxOps   \* bound on the operations of a behaviour

NoClient == "no client"
NoConfig == "no config"
NoServer == "no server"
Local == "a function of the program"

ASSUME ServersAssumption ==
  /\ Local \notin Clients /\ NoClient \notin Clients
  /\ NoConfig \notin Configs /\ NoServer \notin Servers
  /\ MaxOps \in Nat

VARIABLES
  direct,     \* AgentGantry._direct_mcp_clients
  lazy,       \* MCPRegistry._clients
  definition, \* MCPRegistry._servers: the configuration of each server
  server,     \* the server a client was made for
  config,     \* and the configuration it was given
  open,       \* clients with a connection
  scheduled,  \* clients whose close is a task of its own
  source,     \* registry: the client that discovered each tool's definition
  handler,    \* registry: the client each tool's handler closes over
  pc,         \* where each task is suspended
  client,     \* the client its operation uses
  prior,      \* the client it found in the table (add_mcp_server)
  offered,    \* the tools its listing returned
  left,       \* stale tools it has still to remove
  doomed,     \* clients its close has still to close
  retired,    \* history: clients that delete_server or close has dropped
  loose,      \* history: clients that slipped out of reach in a race
  ops         \* operations begun so far

tables == <<direct, lazy, definition>>
clients == <<server, config>>
tools == <<source, handler>>
local == <<client, prior, offered, left, doomed>>
history == <<retired, loose>>

vars == <<tables, clients, open, scheduled, tools, pc, local, history, ops>>

Init ==
  /\ direct = [s \in Servers |-> NoClient]
  /\ lazy = [s \in Servers |-> NoClient]
  /\ definition = [s \in Servers |-> NoConfig]
  /\ server = [c \in Clients |-> NoServer]
  /\ config = [c \in Clients |-> NoConfig]
  /\ open = {} /\ scheduled = {}
  /\ source = [t \in Tools |-> NoClient]
  /\ handler = [t \in Tools |-> NoClient]
  /\ pc = [p \in Tasks |-> "idle"]
  /\ client = [p \in Tasks |-> NoClient]
  /\ prior = [p \in Tasks |-> NoClient]
  /\ offered = [p \in Tasks |-> {}]
  /\ left = [p \in Tasks |-> {}]
  /\ doomed = [p \in Tasks |-> {}]
  /\ retired = {} /\ loose = {}
  /\ ops = 0
-----------------------------------------------------------------------------
Idle(p) == pc[p] = "idle"

Goto(p, place) == pc' = [pc EXCEPT ![p] = place]

Put(f, x, v) == [f EXCEPT ![x] = v]

(* A task that leaves its operation forgets what it held.                  *)
Leave(p) ==
  /\ Goto(p, "idle")
  /\ client' = Put(client, p, NoClient) /\ prior' = Put(prior, p, NoClient)
  /\ offered' = Put(offered, p, {}) /\ left' = Put(left, p, {})
  /\ doomed' = Put(doomed, p, {})

(* MCPClient(config): an object that no table holds yet.                   *)
Unmade == {c \in Clients : server[c] = NoServer}

Make(c, s, k) ==
  /\ c \in Unmade
  /\ server' = Put(server, c, s)
  /\ config' = Put(config, c, k)

InTable == Range(direct) \cup Range(lazy)

(* Clients that a task other than p works with.                            *)
HeldByOthers(p) == {client[q] : q \in Tasks \ {p}} \ {NoClient}

Closing(p) == pc[p] \in {"closing direct", "closing lazy"}

(* An operation that overlaps a close may leave its client connected.      *)
Overlaps(c) ==
  /\ loose' = IF \E p \in Tasks : Closing(p) THEN loose \cup {c} ELSE loose
  /\ UNCHANGED retired
-----------------------------------------------------------------------------
(* add_mcp_server, up to the listing it awaits: the table's client when    *)
(* the configuration is the same, a new one otherwise.                     *)
AddAgain(p, s) ==
  /\ Idle(p)
  /\ direct[s] # NoClient
  /\ Goto(p, "listing")
  /\ client' = Put(client, p, direct[s])
  /\ Overlaps(direct[s])
  /\ UNCHANGED <<tables, clients, open, scheduled, tools, prior, offered, left, doomed>>

AddNew(p, s) ==
  /\ Idle(p)
  /\ \E c \in Clients, k \in Configs :
       /\ direct[s] # NoClient => config[direct[s]] # k
       /\ Make(c, s, k)
       /\ client' = Put(client, p, c)
       /\ Overlaps(c)
  /\ Goto(p, "listing new")
  /\ prior' = Put(prior, p, direct[s])
  /\ UNCHANGED <<tables, open, scheduled, tools, offered, left, doomed>>

(* get_client: the registry's client, made at its first use.               *)
KeepClient(s, c) == lazy' = Put(lazy, s, c)

Discover(p, s) ==
  /\ Idle(p)
  /\ definition[s] # NoConfig
  /\ Goto(p, "listing")
  /\ IF lazy[s] # NoClient
       THEN /\ client' = Put(client, p, lazy[s])
            /\ Overlaps(lazy[s])
            /\ UNCHANGED <<lazy, clients>>
       ELSE \E c \in Clients :
              /\ Make(c, s, definition[s])
              /\ KeepClient(s, c)
              /\ client' = Put(client, p, c)
              /\ Overlaps(c)
  /\ UNCHANGED <<direct, definition, open, scheduled, tools, prior, offered, left, doomed>>
-----------------------------------------------------------------------------
(* The listing has failed or timed out, or its caller was cancelled.  An   *)
(* error drops the session, a cancellation leaves it.                      *)
AfterFailure(p) == {open, open \cup {client[p]}, open \ {client[p]}}

ListingFails(p) ==
  /\ pc[p] = "listing"
  /\ open' \in AfterFailure(p)
  /\ Leave(p)
  /\ UNCHANGED <<tables, clients, scheduled, tools, history>>

NewListingFails(p) ==
  /\ pc[p] = "listing new"
  /\ open' \in AfterFailure(p)
  /\ Goto(p, "giving up")
  /\ UNCHANGED <<tables, clients, scheduled, tools, local, history>>

GiveUp(p) ==
  /\ pc[p] = "giving up"
  /\ open' = open \ {client[p]}
  /\ Leave(p)
  /\ UNCHANGED <<tables, clients, scheduled, tools, history>>
-----------------------------------------------------------------------------
(* _register_mcp_tool_handlers: of the tools listed, those that no other   *)
(* source has get this client's definition and handler.                    *)
SameServer(c, d) == d \in Clients /\ server[d] = server[c]

MayTake(c, t) == source[t] = NoClient \/ SameServer(c, source[t])

Taken(c, ts) == {t \in ts : MayTake(c, t)}

Serve(f, c, ts) == [t \in Tools |-> IF t \in ts THEN c ELSE f[t]]

(* Slip: a collision keeps the definition and replaces the handler.        *)
HandlersAfterSlip(c, ts) == Serve(handler, c, ts)
HandlersAfter(c, ts) == Serve(handler, c, Taken(c, ts))

(* _remove_stale_mcp_tools: this server's tools that it lists no longer.   *)
(* Slip: what the latest discovery does not expose stays.                  *)
StaleSlip(c, ts) == {}
Stale(c, ts) == {t \in Tools : SameServer(c, source[t]) /\ t \notin ts}

Without(f, t) == Put(f, t, NoClient)

(* The segment that ends a discovery: handlers and definitions, and the    *)
(* first stale tool, before the first await on the store.                  *)
Adopt(p, ts) ==
  LET c == client[p]
      stale == Stale(c, ts)
      src == Serve(source, c, Taken(c, ts))
      hnd == HandlersAfter(c, ts)
  IN  /\ Goto(p, "removing")
      /\ offered' = Put(offered, p, ts)
      /\ UNCHANGED <<client, doomed>>
      /\ IF stale = {}
           THEN /\ source' = src /\ handler' = hnd
                /\ left' = Put(left, p, {})
           ELSE \E t \in stale :
                  /\ source' = Without(src, t) /\ handler' = Without(hnd, t)
                  /\ left' = Put(left, p, stale \ {t})

(* A known client has answered, whether or not a table still has it.       *)
Listed(p) ==
  /\ pc[p] = "listing"
  /\ open' = open \cup {client[p]}
  /\ \E ts \in SUBSET Tools : Adopt(p, ts)
  /\ UNCHANGED <<tables, clients, scheduled, prior, history>>

(* The table takes the new client.  One that is not the client found at    *)
(* the start is overwritten unclosed; the one found may be in use by       *)
(* another task, which connects it again.                                  *)
Commit(p) ==
  LET s == server[client[p]] IN
  /\ direct' = Put(direct, s, client[p])
  /\ loose' = loose \cup ({direct[s]} \ {prior[p], NoClient})
                    \cup ({prior[p]} \cap HeldByOthers(p))
  /\ UNCHANGED <<lazy, definition, prior, retired>>

(* A new client has answered, and there is nothing to replace.             *)
NewListed(p) ==
  /\ pc[p] = "listing new"
  /\ prior[p] = NoClient
  /\ open' = open \cup {client[p]}
  /\ \E ts \in SUBSET Tools : Adopt(p, ts)
  /\ Commit(p)
  /\ UNCHANGED <<clients, scheduled>>

(* It replaces a client, which is closed first.                            *)
ReplacementListed(p) ==
  /\ pc[p] = "listing new"
  /\ prior[p] # NoClient
  /\ open' = open \cup {client[p]}
  /\ Goto(p, "swapping")
  /\ \E ts \in SUBSET Tools : offered' = Put(offered, p, ts)
  /\ UNCHANGED <<tables, clients, scheduled, tools, client, prior, left, doomed, history>>

(* Slip: the replaced client is not closed.                                *)
ClosePriorSlip(p) == UNCHANGED open
ClosePrior(p) == open' = open \ {prior[p]}

Swapped(p) ==
  /\ pc[p] = "swapping"
  /\ ClosePrior(p)
  /\ Adopt(p, offered[p])
  /\ Commit(p)
  /\ UNCHANGED <<clients, scheduled>>

(* A cancellation inside the close of the old client passes the handler    *)
(* for exceptions: the new one is connected and in no table.               *)
SwapCancelled(p) ==
  /\ pc[p] = "swapping"
  /\ loose' = loose \cup {client[p]}
  /\ open' \in {open, open \ {prior[p]}}
  /\ Leave(p)
  /\ UNCHANGED <<tables, clients, scheduled, tools, retired>>

(* The next stale tool goes, whoever has registered it since.              *)
RemoveNext(p) ==
  /\ pc[p] = "removing"
  /\ \E t \in left[p] :
       /\ source' = Without(source, t)
       /\ handler' = Without(handler, t)
       /\ left' = Put(left, p, left[p] \ {t})
  /\ UNCHANGED <<tables, clients, open, scheduled, pc, client, prior, offered, doomed, history>>

Removed(p) ==
  /\ pc[p] = "removing"
  /\ left[p] = {}
  /\ Leave(p)
  /\ UNCHANGED <<tables, clients, open, scheduled, tools, history>>

(* Cancelled at the store: the rest of the stale tools stay.               *)
RemovalCancelled(p) ==
  /\ pc[p] = "removing"
  /\ left[p] # {}
  /\ loose' = loose \cup ({source[t] : t \in left[p]} \cap Clients)
  /\ Leave(p)
  /\ UNCHANGED <<tables, clients, open, scheduled, tools, retired>>
-----------------------------------------------------------------------------
(* mcp_tool_handler: a call works with the client its handler closed over, *)
(* whatever becomes of the tables meanwhile.                               *)
Call(p, t) ==
  /\ Idle(p)
  /\ handler[t] \in Clients
  /\ Goto(p, "calling")
  /\ client' = Put(client, p, handler[t])
  /\ loose' = loose \cup
       (IF handler[t] \in InTable /\ ~ \E q \in Tasks : Closing(q) THEN {} ELSE {handler[t]})
  /\ UNCHANGED <<tables, clients, open, scheduled, tools, prior, offered, left, doomed, retired>>

CallEnds(p) ==
  /\ pc[p] = "calling"
  /\ open' \in AfterFailure(p)
  /\ Leave(p)
  /\ UNCHANGED <<tables, clients, scheduled, tools, history>>
-----------------------------------------------------------------------------
(* register_mcp_server: a client made for an earlier definition stays.     *)
RegisterServer(s) ==
  /\ \E k \in Configs : definition' = Put(definition, s, k)
  /\ UNCHANGED <<direct, lazy, clients, open, scheduled, tools, pc, local, history>>

(* delete_server: the client leaves the table and is closed by a task of   *)
(* its own; the tools it discovered keep their handlers.                   *)
ScheduleClose(c) == scheduled' = scheduled \cup ({c} \cap Clients)

DeleteServer(s) ==
  /\ definition[s] # NoConfig
  /\ definition' = Put(definition, s, NoConfig)
  /\ lazy' = Put(lazy, s, NoClient)
  /\ ScheduleClose(lazy[s])
  /\ retired' = retired \cup ({lazy[s]} \cap Clients)
  /\ loose' = loose \cup ({lazy[s]} \cap (Range(client) \ {NoClient}))
  /\ UNCHANGED <<direct, clients, open, tools, pc, local>>

ScheduledClose(c) ==
  /\ c \in scheduled
  /\ scheduled' = scheduled \ {c}
  /\ open' = open \ {c}
  /\ UNCHANGED <<tables, clients, tools, pc, local, history>>

(* A function of the program takes a tool's name; a tool is deleted.       *)
RegisterLocal(t) ==
  /\ source' = Put(source, t, Local) /\ handler' = Put(handler, t, Local)
  /\ UNCHANGED <<tables, clients, open, scheduled, pc, local, history>>

DeleteTool(t) ==
  /\ source[t] # NoClient
  /\ source' = Without(source, t) /\ handler' = Without(handler, t)
  /\ UNCHANGED <<tables, clients, open, scheduled, pc, local, history>>
-----------------------------------------------------------------------------
(* close: the direct clients one after the other, then their table is      *)
(* cleared and the registry's clients are closed all at once.              *)
Close(p) ==
  /\ Idle(p)
  /\ Goto(p, "closing direct")
  /\ doomed' = Put(doomed, p, Range(direct) \ {NoClient})
  /\ loose' = loose \cup HeldByOthers(p)
  /\ UNCHANGED <<tables, clients, open, scheduled, tools, client, prior, offered, left, retired>>

CloseNext(p) ==
  /\ Closing(p)
  /\ \E c \in doomed[p] :
       /\ open' = open \ {c}
       /\ doomed' = Put(doomed, p, doomed[p] \ {c})
  /\ UNCHANGED <<tables, clients, scheduled, tools, pc, client, prior, offered, left, history>>

Cleared == [s \in Servers |-> NoClient]

ToClose == Range(lazy) \ {NoClient}

DirectClosed(p) ==
  /\ pc[p] = "closing direct"
  /\ doomed[p] = {}
  /\ Goto(p, "closing lazy")
  /\ direct' = Cleared
  /\ retired' = retired \cup (Range(direct) \ {NoClient})
  /\ doomed' = Put(doomed, p, ToClose)
  /\ UNCHANGED <<lazy, definition, clients, open, scheduled, tools, client, prior, offered, left, loose>>

LazyClosed(p) ==
  /\ pc[p] = "closing lazy"
  /\ doomed[p] = {}
  /\ Leave(p)
  /\ lazy' = Cleared
  /\ retired' = retired \cup (Range(lazy) \ {NoClient})
  /\ UNCHANGED <<direct, definition, clients, open, scheduled, tools, loose>>
-----------------------------------------------------------------------------
Step(p) ==
  \/ ListingFails(p) \/ NewListingFails(p) \/ GiveUp(p)
  \/ Listed(p) \/ NewListed(p) \/ ReplacementListed(p)
  \/ Swapped(p) \/ SwapCancelled(p)
  \/ RemoveNext(p) \/ Removed(p) \/ RemovalCancelled(p)
  \/ CallEnds(p)
  \/ CloseNext(p) \/ DirectClosed(p) \/ LazyClosed(p)

Operate ==
  \/ \E p \in Tasks :
       \/ Close(p)
       \/ \E s \in Servers : AddAgain(p, s) \/ AddNew(p, s) \/ Discover(p, s)
       \/ \E t \in Tools : Call(p, t)
  \/ \E s \in Servers : RegisterServer(s) \/ DeleteServer(s)
  \/ \E t \in Tools : RegisterLocal(t) \/ DeleteTool(t)

Proceed ==
  \/ \E p \in Tasks : Step(p)
  \/ \E c \in Clients : ScheduledClose(c)

Next ==
  \/ ops < MaxOps /\ ops' = ops + 1 /\ Operate
  \/ UNCHANGED ops /\ Proceed

Spec == Init /\ [][Next]_vars
-----------------------------------------------------------------------------
Places ==
  {"idle", "listing", "listing new", "giving up", "swapping", "removing", "calling",
   "closing direct", "closing lazy"}

(* Every variable has the shape the gantry gives it.                       *)
TypeOK ==
  /\ pc \in [Tasks -> Places]
  /\ direct \in [Servers -> Clients \cup {NoClient}]
  /\ lazy \in [Servers -> Clients \cup {NoClient}]
  /\ definition \in [Servers -> Configs \cup {NoConfig}]
  /\ server \in [Clients -> Servers \cup {NoServer}]
  /\ config \in [Clients -> Configs \cup {NoConfig}]
  /\ open \subseteq Clients /\ scheduled \subseteq Clients
  /\ source \in [Tools -> Clients \cup {NoClient, Local}]
  /\ handler \in [Tools -> Clients \cup {NoClient, Local}]
  /\ client \in [Tasks -> Clients \cup {NoClient}]
  /\ prior \in [Tasks -> Clients \cup {NoClient}]
  /\ offered \in [Tasks -> SUBSET Tools] /\ left \in [Tasks -> SUBSET Tools]
  /\ doomed \in [Tasks -> SUBSET Clients]
  /\ retired \subseteq Clients /\ loose \subseteq Clients
  /\ ops \in 0 .. MaxOps

(* A connection can be closed: a table leads to its client, or a task or a *)
(* scheduled close still works with it.  The exceptions are the clients in *)
(* `loose`: overwritten by a second add_mcp_server that did not find them, *)
(* in use while they left their table, called through a handler that       *)
(* outlived them, or left by a cancellation inside a swap.                 *)
ConnectionsInReach ==
  open \subseteq InTable \cup Range(client) \cup scheduled \cup loose

(* A tool that an MCP server serves leads to a client in a table, unless   *)
(* the client was dropped by delete_server or close, or lost in a race, or *)
(* the tool is about to be removed as stale: nothing dispatches quietly to *)
(* a process that was replaced.                                            *)
HandlersInReach ==
  \A t \in Tools :
    handler[t] \in Clients =>
      \/ handler[t] \in InTable \cup retired \cup loose
      \/ \E p \in Tasks : t \in left[p]

(* What a call is validated against is what it is sent to: a tool's        *)
(* definition and handler come from one source.                            *)
DefinitionServesHandler == source = handler
=============================================================================
