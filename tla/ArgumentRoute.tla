--------------------------- MODULE ArgumentRoute ----------------------------
(***************************************************************************)
(* The way of a call's arguments, from the schema a tool advertises to the  *)
(* values its handler gets.  A provider dialect publishes the schema and    *)
(* the model answers it; a framework publishes the tool as its native one    *)
(* and hands the answer on through ToolSpec.ainvoke; the engine then drops   *)
(* the nulls that say "not provided", validates and rebuilds.  Five readings *)
(* of one schema have to agree on the way.                                  *)
(***************************************************************************)
EXTENDS HandlerTypes, FrameworkAdapters

CONSTANTS
    Tools,      \* the registered tools
    Handler,    \* the annotated parameters of the tools read off a signature
    Imported,   \* the schemas of the tools imported (MCP, OpenAPI) as given
    Answers     \* the arguments a model may answer with

ASSUME ToolsAssumption ==
    /\ DOMAIN Handler \cup DOMAIN Imported = Tools
    /\ DOMAIN Handler \cap DOMAIN Imported = {}

(* The dialects, each asked for strict decoding or not. *)
Providers == { [dialect |-> d, strict |-> b] : d \in Dialects \cup {"auto"}, b \in BOOLEAN }
Wrappers == { [framework |-> f] : f \in Frameworks }

VARIABLES
    stage,      \* how far the call is
    tool,       \* the tool it is for
    route,      \* the provider or framework it comes through
    answer,     \* history: the arguments the model answered with
    args,       \* the arguments as they stand
    approved    \* history: whether the framework's own reading took the answer

vars == <<stage, tool, route, answer, args, approved>>

Stages == {"published", "answered", "sent", "ready", "rejected", "dispatched"}

parameters_schema ==
    [t \in Tools |-> IF t \in DOMAIN Handler THEN build_parameters_schema(Handler[t])
                     ELSE Imported[t]]
S == parameters_schema[tool]

Published ==
    IF route \in Providers THEN to_provider_schema(route.dialect, S, route.strict)
    ELSE Shown(route.framework, S)

Through(frameworks) == route \in { [framework |-> f] : f \in frameworks }

Init ==
    /\ stage = "published"
    /\ tool \in Tools
    /\ route \in Providers \cup Wrappers
    /\ answer = NoFields /\ args = NoFields
    /\ approved = FALSE

(* A strict provider decodes by the schema it was given; any other model    *)
(* answers what it likes.                                                   *)
Answer ==
    /\ stage = "published"
    /\ \E a \in Answers :
         /\ Published.strict => Conforms(Obj(a), Published.schema)
         /\ answer' = a /\ args' = a
    /\ stage' = "answered"
    /\ UNCHANGED <<tool, route, approved>>

(* The provider's call, its arguments as JSON text or parsed, is taken apart *)
(* by the dialect's adapter.                                                *)
Parse ==
    /\ stage = "answered" /\ route \in Providers
    /\ \E sent \in {Text(Obj(answer)), Obj(answer)} :
         \E payload \in Payloads(route.dialect, sent) :
           args' \in from_provider_payload(route.dialect, payload)
    /\ stage' = "sent"
    /\ UNCHANGED <<tool, route, answer, approved>>

(* Arguments that are no JSON, or no object, count as none where the adapter *)
(* does not raise on them.                                                  *)
ParseUnreadable ==
    /\ stage = "published" /\ route \in Providers
    /\ \E sent \in {Torn, Text(Null), Null} :
         \E payload \in Payloads(route.dialect, sent) :
           args' \in from_provider_payload(route.dialect, payload)
    /\ stage' = "sent"
    /\ UNCHANGED <<tool, route, answer, approved>>

(* What reaches the engine through a framework, if it calls the wrapper. *)
Framework ==
    /\ stage = "answered" /\ route \in Wrappers
    /\ \E dumped \in {pydantic_model_from_schema(S, answer)} :
         \E called \in {Called(route.framework, S, answer, dumped)} :
           /\ approved' = (called # {} /\ (Through(ByModel) => ModelTakes(S, dumped)))
           /\ IF called # {} THEN args' \in called /\ stage' = "sent"
              ELSE args' = args /\ stage' = "rejected"
    /\ UNCHANGED <<tool, route, answer>>

(* The engine: normalise, validate, and, for a handler, rebuild. *)
Normalise ==
    /\ stage = "sent"
    /\ args' = _normalize_arguments(S, args)
    /\ stage' = "ready"
    /\ UNCHANGED <<tool, route, answer, approved>>

Refuse ==
    /\ stage = "ready" /\ ~ _validate_arguments(S, args)
    /\ stage' = "rejected"
    /\ UNCHANGED <<tool, route, answer, args, approved>>

(* An argument that cannot be rebuilt fails the call as invalid. *)
RefuseRebuilding ==
    /\ stage = "ready" /\ _validate_arguments(S, args)
    /\ tool \in DOMAIN Handler /\ _reconstructed(Handler[tool], args) = {}
    /\ stage' = "rejected"
    /\ UNCHANGED <<tool, route, answer, args, approved>>

Dispatch ==
    /\ stage = "ready" /\ _validate_arguments(S, args)
    /\ IF tool \in DOMAIN Handler THEN args' \in _reconstructed(Handler[tool], args)
       ELSE args' = args
    /\ stage' = "dispatched"
    /\ UNCHANGED <<tool, route, answer, approved>>

Next == \/ Answer \/ Parse \/ ParseUnreadable \/ Framework \/ Normalise
        \/ Refuse \/ RefuseRebuilding \/ Dispatch

Spec == Init /\ [][Next]_vars
-----------------------------------------------------------------------------
TypeOK ==
    /\ stage \in Stages
    /\ tool \in Tools /\ route \in Providers \cup Wrappers
    /\ answer \in Answers \cup {NoFields}
    /\ approved \in BOOLEAN

(* A schema of fields alone: strict mode, the args model and the signature   *)
(* have no spelling for a combinator at the root that declares fields.       *)
FieldsOnly == DOMAIN S \cap _ROOT_ASSERTIONS = {}

(* What the model answered is acceptable to the engine as it stands. *)
Acceptable(a) == _validate_arguments(S, _normalize_arguments(S, a))

(* The routes that publish a schema made strict at every depth: Anthropic's  *)
(* is closed at the root only, and lets through what the engine refuses.     *)
StrictSchema == Published.strict /\ route \notin {[dialect |-> "anthropic", strict |-> TRUE]}

(* What the engine makes of an answer that came the strict route: the Agents *)
(* SDK's wrapper drops the nulls of optional parameters before the engine.   *)
ReadBack(a) == _normalize_arguments(S, IF route \in Wrappers THEN ainvoke(S, a) ELSE a)

(* A model that answers the strict schema Gantry published itself, optional  *)
(* parameters as null included, is never told its arguments are invalid:     *)
(* strict_json_schema, _normalize_arguments and _validate_arguments undo     *)
(* each other at every depth.                                               *)
StrictAnswersAccepted ==
    stage = "ready" /\ StrictSchema /\ answer \in Answers
        /\ Conforms(Obj(answer), Published.schema)
      => _validate_arguments(S, args)

(* A value with the null fields of its objects left out. *)
RECURSIVE NullsAside(_)
NullsAside(v) ==
    IF IsObj(v) THEN Obj([k \in {x \in DOMAIN v[2] : v[2][x] # Null} |-> NullsAside(v[2][k])])
    ELSE IF IsList(v) THEN List([i \in DOMAIN v[2] |-> NullsAside(v[2][i])])
    ELSE v

(* And it can still say everything: each valid call has an answer under the  *)
(* strict schema that the engine reads as that call, save that an argument   *)
(* whose own schema declares null is null where it was left out.             *)
StrictLosesNoCall ==
    stage = "published" /\ StrictSchema /\ FieldsOnly
      => \A a \in Answers : Acceptable(a) =>
           \E b \in Answers :
             /\ Conforms(Obj(b), Published.schema)
             /\ NullsAside(Obj(ReadBack(b))) = NullsAside(Obj(a))

(* The strict schema and what undoes it on the way back are inverse to each  *)
(* other: strict_json_schema and _normalize_arguments.                      *)
StrictRoundTrips == StrictAnswersAccepted /\ StrictLosesNoCall

(* Dropping nulls changes no call that is valid as it was sent: a null is    *)
(* dropped only where the schema forbids it, so no explicit choice is lost.  *)
NormalisingKeepsValidCalls ==
    stage = "sent" /\ _validate_arguments(S, args) => _normalize_arguments(S, args) = args

(* The args model and the engine read one schema alike, so a call the        *)
(* framework's model took is one the engine takes, with the values the       *)
(* model hands on.                                                          *)
ModelsWordHolds ==
    stage = "ready" /\ Through(ByModel) /\ approved /\ FieldsOnly
      => _validate_arguments(S, args)

(* And the model refuses nothing the engine would have taken: no correct     *)
(* call is lost in the framework.                                           *)
ModelRefusesNothingValid ==
    stage = "answered" /\ Through(ByModel) /\ FieldsOnly /\ Acceptable(answer)
        /\ Properties(S) # NoFields
      => ModelTakes(S, pydantic_model_from_schema(S, answer))

(* The args model of a tool, derived by schema_bridge, accepts what the      *)
(* engine's validator accepts and nothing else.                             *)
ModelReadsAsEngine == ModelsWordHolds /\ ModelRefusesNothingValid

(* A valid answer is still valid when it has come through a framework that   *)
(* took it: the date or tuple a signature made of it is JSON again, and the  *)
(* wrapper and the engine agree on which null says something.               *)
WrappersKeepValidCalls ==
    stage = "ready" /\ route \in Wrappers /\ approved /\ FieldsOnly /\ Acceptable(answer)
      => _validate_arguments(S, args)

(* A handler runs with values of the types it is annotated with, whatever    *)
(* JSON form they arrived in and however deep in a container.               *)
RunsOnItsTypes ==
    stage = "dispatched" /\ tool \in DOMAIN Handler
      => \A n \in DOMAIN args : IsA(args[n], Handler[tool][n].type)

(* Everything the advertised schema admits can be rebuilt: validation and    *)
(* reconstruction never disagree, save on the keys of a mapping, which JSON  *)
(* has as strings only.                                                     *)
ValidatedIsRebuilt ==
    stage = "ready" /\ tool \in DOMAIN Handler /\ _validate_arguments(S, args)
      /\ (\A n \in DOMAIN args : Handler[tool][n].type.is # "intdict")
      => _reconstructed(Handler[tool], args) # {}

(* What the advertised schema lets through reaches the handler, and as what  *)
(* the handler is annotated with: introspection.py derives both the schema  *)
(* and the rebuilding from one annotation.                                  *)
HandlerGetsItsTypes == RunsOnItsTypes /\ ValidatedIsRebuilt
=============================================================================
