-------------------------- MODULE ProviderAdapters --------------------------
(***************************************************************************)
(* The tool-spec adapters of the provider dialects and the registry that    *)
(* finds one: what each publishes of a tool's parameters, and where it      *)
(* finds the arguments in the call the provider sends.                      *)
(*                                                                         *)
(* A payload is a record of the fields it has.  Names, descriptions and the  *)
(* metadata of the Agent Framework dialect are left out; the ids of calls    *)
(* and the messages of their results are Conversation's.                     *)
(***************************************************************************)
EXTENDS SchemaDialects

(* What is published of a tool, and whether it asks for strict decoding. *)
Emitted(strict, s) == [strict |-> strict, schema |-> s]

(* A schema without a strict spelling is published as it is, unflagged. *)
_strict_parameters(s) ==
    IF unsupported_strict_paths(s) THEN Emitted(FALSE, s)
    ELSE Emitted(TRUE, strict_json_schema(s))

OpenAIAdapter_to_provider_schema(s, strict) ==
    IF strict THEN _strict_parameters(s) ELSE Emitted(FALSE, s)

OpenAIResponsesAdapter_to_provider_schema(s, strict) ==
    IF strict THEN _strict_parameters(s) ELSE Emitted(FALSE, s)

(* Anthropic's strict mode closes the root and leaves the rest alone. *)
AnthropicAdapter_to_provider_schema(s, strict) ==
    IF strict /\ ~ unsupported_strict_paths(s)
      THEN Emitted(TRUE, With(s, "additionalProperties", Nothing))
    ELSE Emitted(FALSE, s)

GeminiAdapter_to_provider_schema(s, sanitize) ==
    Emitted(FALSE, IF sanitize THEN sanitize_gemini_schema(s) ELSE s)

AgentFrameworkAdapter_to_provider_schema(s, strict) ==
    OpenAIAdapter_to_provider_schema(s, strict)
-----------------------------------------------------------------------------
(* Arguments on the wire: JSON text, torn text or parsed JSON. *)
Text(v) == <<"text", v>>
Torn == <<"torn">>
NoArguments == Obj(NoFields)

(* Text is parsed, and text that is no JSON counts as no arguments. *)
_loaded(sent) ==
    CASE sent = Torn -> NoArguments
      [] Kind(sent) = "text" -> sent[2]
      [] OTHER -> sent

(* Arguments are an object: a payload of anything else is not built. *)
ToolCallPayload(v) == IF IsObj(v) THEN {v[2]} ELSE {}
ObjectOrNone(v) == ToolCallPayload(IF IsObj(v) THEN v ELSE NoArguments)

OpenAIAdapter_from_provider_payload(payload) ==
    ToolCallPayload(_loaded(Get(Get(payload, "function", NoFields), "arguments", NoArguments)))

OpenAIResponsesAdapter_from_provider_payload(payload) ==
    ToolCallPayload(_loaded(Get(payload, "arguments", NoArguments)))

AnthropicAdapter_from_provider_payload(payload) ==
    ObjectOrNone(Get(payload, "input", NoArguments))

GeminiAdapter_from_provider_payload(payload) ==
    ObjectOrNone(Get(payload, "args", NoArguments))

(* OpenAI's format, or the flat one of the framework's own dispatch. *)
AgentFrameworkAdapter_from_provider_payload(payload) ==
    IF "function" \in DOMAIN payload THEN OpenAIAdapter_from_provider_payload(payload)
    ELSE ToolCallPayload(_loaded(Get(payload, "arguments", NoArguments)))
-----------------------------------------------------------------------------
(* The registry: the adapters by dialect, "auto" being OpenAI's. *)
Dialects ==
    {"openai", "mistral", "groq", "agent_framework", "openai_responses", "anthropic", "gemini"}
DialectRegistry_get(dialect) == IF dialect = "auto" THEN "openai" ELSE dialect

(* Mistral's and Groq's adapters inherit OpenAI's. *)
Inherited(dialect) == IF dialect \in {"mistral", "groq"} THEN "openai" ELSE dialect

to_provider_schema(dialect, s, strict) ==
    LET adapter == Inherited(DialectRegistry_get(dialect))
    IN  CASE adapter = "openai" -> OpenAIAdapter_to_provider_schema(s, strict)
          [] adapter = "openai_responses" -> OpenAIResponsesAdapter_to_provider_schema(s, strict)
          [] adapter = "anthropic" -> AnthropicAdapter_to_provider_schema(s, strict)
          [] adapter = "gemini" -> GeminiAdapter_to_provider_schema(s, TRUE)
          [] adapter = "agent_framework" -> AgentFrameworkAdapter_to_provider_schema(s, strict)

from_provider_payload(dialect, payload) ==
    LET adapter == Inherited(DialectRegistry_get(dialect))
    IN  CASE adapter = "openai" -> OpenAIAdapter_from_provider_payload(payload)
          [] adapter = "openai_responses" -> OpenAIResponsesAdapter_from_provider_payload(payload)
          [] adapter = "anthropic" -> AnthropicAdapter_from_provider_payload(payload)
          [] adapter = "gemini" -> GeminiAdapter_from_provider_payload(payload)
          [] adapter = "agent_framework" -> AgentFrameworkAdapter_from_provider_payload(payload)

(* The calls a provider may send with these arguments (external): OpenAI's   *)
(* have them as text, at some providers parsed; the others' are no text.     *)
Payloads(dialect, sent) ==
    LET adapter == Inherited(DialectRegistry_get(dialect))
        parsed == {x \in {sent} : Kind(x) \notin {"text", "torn"}}
    IN  CASE adapter = "openai" -> {[function |-> [arguments |-> sent]]}
          [] adapter = "openai_responses" -> {[arguments |-> sent]}
          [] adapter = "anthropic" -> { [input |-> x] : x \in parsed }
          [] adapter = "gemini" -> { [args |-> x] : x \in parsed }
          [] adapter = "agent_framework" ->
               {[function |-> [arguments |-> sent]], [arguments |-> sent]}
=============================================================================
