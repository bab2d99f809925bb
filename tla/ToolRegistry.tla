----------------------------- MODULE ToolRegistry -----------------------------
(***************************************************************************)
(* ToolRegistry, agent_gantry/core/registry.py: definitions by qualified   *)
(* name, in the order of their registration, and an index from a bare name *)
(* to the tool that answers to it.  The index spares every execution a     *)
(* search through the definitions; IndexIsSearch says it finds the same.   *)
(*                                                                         *)
(* A definition is a version number, 0 stands for none.  Handlers come and *)
(* go with ToolSync's operations and are left out.                         *)
(***************************************************************************)
EXTENDS Integers, Sequences, FiniteSets, FiniteSetsExt, SequencesExt

CONSTANTS
  Tools,      \* records of a namespace and a bare name
  Default,    \* the default namespace
  MaxVersion  \* bound on the definitions of a tool

NoTool == [namespace |-> "none", name |-> "none"]

ASSUME RegistryAssumption ==
  /\ NoTool \notin Tools /\ IsFiniteSet(Tools)
  /\ MaxVersion \in Nat \ {0}

Names == {t.name : t \in Tools}

VARIABLES
  defined, \* _tools: the version registered of each tool
  order,   \* the order of the entries of _tools
  index    \* _name_index

registry == <<defined, order, index>>

RegistryInit ==
  /\ defined = [t \in Tools |-> 0]
  /\ order = <<>>
  /\ index = [n \in Names |-> NoTool]

Registered(t) == t \in Tools /\ defined[t] # 0

KnownNames == {t.name : t \in {u \in Tools : Registered(u)}}

(* The first of a sequence of tools that has this name.                    *)
FirstNamed(s, n) ==
  LET named == {i \in DOMAIN s : s[i].name = n}
  IN  IF named = {} THEN NoTool ELSE s[Min(named)]

(* register_tool: an entry that is replaced keeps its place.               *)
RegisterTool(t, v) ==
  /\ defined' = [defined EXCEPT ![t] = v]
  /\ order' = IF Registered(t) THEN order ELSE Append(order, t)
  /\ index' = IF index[t.name] = NoTool THEN [index EXCEPT ![t.name] = t] ELSE index

(* _unindex_tool: the name passes to the next tool that has it.            *)
(* Slip: the name is dropped and nobody takes it over.                     *)
UnindexedSlip(t, rest) ==
  IF index[t.name] # t THEN index ELSE [index EXCEPT ![t.name] = NoTool]
Unindexed(t, rest) ==
  IF index[t.name] # t THEN index
  ELSE [index EXCEPT ![t.name] = FirstNamed(rest, t.name)]

UnregisterTool(t) ==
  /\ Registered(t)
  /\ defined' = [defined EXCEPT ![t] = 0]
  /\ order' = RemoveFirst(order, t)
  /\ index' = Unindexed(t, RemoveFirst(order, t))

(* get_tool_by_name: the default namespace goes before the index.          *)
ToolNamed(n) ==
  LET default == [namespace |-> Default, name |-> n]
  IN  IF Registered(default) THEN default ELSE index[n]

(* A bare name is answered for exactly while some tool has it, and by the  *)
(* one a search in order of registration finds: whatever was registered,   *)
(* replaced and deleted before, an execution by bare name reaches a tool   *)
(* that exists.                                                            *)
IndexIsSearch == \A n \in Names : index[n] = FirstNamed(order, n)
=============================================================================
