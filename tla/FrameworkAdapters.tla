-------------------------- MODULE FrameworkAdapters -------------------------
(***************************************************************************)
(* The wrappers that make a ToolSpec a framework's native tool: what each   *)
(* shows the model of the tool's parameters, and the keyword arguments with  *)
(* which the framework, once the model has answered, calls the wrapper.      *)
(* The engine's call (ToolSpec.ainvoke) is what each wrapper makes of them.  *)
(*                                                                         *)
(* What a framework does between the two is external: it hands the answer   *)
(* on, checks it, or parses it by the args model or by the signature it was  *)
(* given.  No outcome is a call the framework refuses.  The constructors of  *)
(* older versions of a framework, which only take a function, are left out.  *)
(***************************************************************************)
EXTENDS ProviderAdapters, SchemaBridge, ToolSignatures
LOCAL INSTANCE Naturals
LOCAL INSTANCE Sequences

spec_from_tool(s) ==
    IF DOMAIN s = {} THEN [type |-> <<"object">>, properties |-> NoFields] ELSE s

(* callable_for_signature: the keyword parameters a framework sees, and the *)
(* values it parses an answer to.  Required ones have no default.           *)
callable_for_signature(s, a) ==
    LET P == Properties(s)
        Value(k) == ParameterValue(a[k], P[k], k \in Required(s))
    IN  IF Required(s) \cap DOMAIN P \subseteq DOMAIN a
          THEN AllTaken(Restricted(a, DOMAIN P), Value) ELSE {}

(* A call that passes every parameter of the signature, defaults included. *)
WithDefaults(s, a) ==
    [ k \in DOMAIN Properties(s) |-> IF k \in DOMAIN a THEN a[k] ELSE _default(Properties(s)[k]) ]
-----------------------------------------------------------------------------
(* The schema is shown as it is; the answer is handed on as it is. *)
_spec_to_langchain(s, a) == {ainvoke(s, a)}
_spec_to_haystack(s, a) == {ainvoke(s, a)}
_spec_to_pydantic_ai(s, a) == {ainvoke(s, a)}

(* DSPy takes declared arguments only, each of which its own schema admits. *)
_spec_to_dspy(s, a) ==
    { ainvoke(s, w) : w \in {v \in {a} : \A k \in DOMAIN v :
                               k \in DOMAIN Properties(s) /\ Conforms(v[k], Properties(s)[k])} }

(* The ADK drops undeclared arguments and misses those without a default;    *)
(* the parameters it shows are an object's even where the schema says less.  *)
_declaration_from_schema(s) ==
    Emitted(FALSE, With(With(s, "type", Get(s, "type", <<"object">>)), "properties", Properties(s)))

_spec_to_google_adk(s, a) ==
    IF Required(s) \cap DOMAIN Properties(s) \subseteq DOMAIN a
      THEN {ainvoke(s, Restricted(a, DOMAIN Properties(s)))} ELSE {}

(* Agno and Strands read the signature: one refuses undeclared arguments,    *)
(* the other drops them, and both pass every parameter.                      *)
_spec_to_agno(s, a) ==
    IF DOMAIN a \subseteq DOMAIN Properties(s)
      THEN { ainvoke(s, WithDefaults(s, w)) : w \in callable_for_signature(s, a) } ELSE {}

_spec_to_strands(s, a) == { ainvoke(s, WithDefaults(s, w)) : w \in callable_for_signature(s, a) }
-----------------------------------------------------------------------------
(* The OpenAI Agents SDK gets the strict schema and hands on what the JSON   *)
(* it was answered says; text that is none, or no object, raises.            *)
_strict_schema(s) ==
    IF unsupported_strict_paths(s) THEN Emitted(FALSE, s) ELSE Emitted(TRUE, strict_json_schema(s))

_on_invoke_tool(s, sent) ==
    IF sent = Torn \/ ~ IsObj(_loaded(sent)) THEN {} ELSE {ainvoke(s, _loaded(sent)[2])}
-----------------------------------------------------------------------------
(* The args model, given what it dumps of the answer: CrewAI refuses what it *)
(* refuses and sends every field; LlamaIndex sends the fields that were set, *)
(* as the model took them, and the answer itself where it took nothing.      *)
_build_args_schema(s, a, dumped) ==
    IF Properties(s) = NoFields THEN {a} ELSE { Materialized(s, w) : w \in dumped }

_spec_to_crewai(s, a, dumped) == { ainvoke(s, w) : w \in _build_args_schema(s, a, dumped) }

_coerced(s, a, dumped) == IF Properties(s) = NoFields \/ dumped = {} THEN {a} ELSE dumped

_spec_to_llamaindex(s, a, dumped) == { ainvoke(s, w) : w \in _coerced(s, a, dumped) }
-----------------------------------------------------------------------------
(* The Agent Framework bridge calls the engine itself: no null is dropped    *)
(* and nothing made JSON on the way.  A list of types, or a schema that is   *)
(* true or false, fails the building of the wrapper.                         *)
Buildable(s) ==
    \A k \in DOMAIN Properties(s) :
      ~ IsBoolean(Properties(s)[k]) /\ Len(Get(Properties(s)[k], "type", <<>>)) <= 1

_build_typed_wrapper(s, a) ==
    IF Buildable(s) /\ (Properties(s) = NoFields => a = NoFields) THEN {a} ELSE {}
-----------------------------------------------------------------------------
(* Whether the framework has an args model of the schema, and it takes the answer. *)
ModelTakes(s, dumped) == Properties(s) # NoFields /\ dumped # {}

Frameworks ==
    {"langchain", "haystack", "pydantic_ai", "dspy", "google_adk", "agno", "strands",
     "openai_agents", "crewai", "llamaindex", "agent_framework_bridge"}
ByModel == {"llamaindex", "crewai"}
BySignature == {"agno", "strands"}

Shown(framework, s) ==
    CASE framework = "openai_agents" -> _strict_schema(s)
      [] framework = "google_adk" -> _declaration_from_schema(s)
      [] OTHER -> Emitted(FALSE, s)

Called(framework, schema, a, dumped) ==
    LET s == spec_from_tool(schema)
    IN  CASE framework = "langchain" -> _spec_to_langchain(s, a)
          [] framework = "haystack" -> _spec_to_haystack(s, a)
          [] framework = "pydantic_ai" -> _spec_to_pydantic_ai(s, a)
          [] framework = "dspy" -> _spec_to_dspy(s, a)
          [] framework = "google_adk" -> _spec_to_google_adk(s, a)
          [] framework = "agno" -> _spec_to_agno(s, a)
          [] framework = "strands" -> _spec_to_strands(s, a)
          [] framework = "openai_agents" -> _on_invoke_tool(s, Text(Obj(a)))
          [] framework = "crewai" -> _spec_to_crewai(s, a, dumped)
          [] framework = "llamaindex" -> _spec_to_llamaindex(s, a, dumped)
          [] framework = "agent_framework_bridge" -> _build_typed_wrapper(s, a)
=============================================================================
