----------------------------- MODULE Conversation -----------------------------
(***************************************************************************)
(* The agent loop around a gantry: ToolRefresher selects tools for the     *)
(* conversation so far, the model answers with tool calls, whole or as a   *)
(* stream of fragments, execute_tool_calls runs them at once, and the      *)
(* formatted results join the conversation, from which the next selection  *)
(* derives its query and the tools already used.  Under an agent framework *)
(* the framework runs the calls and writes the messages, in a form of its  *)
(* own, and the query is derived by the framework's live provider.         *)
(*                                                                         *)
(* A text is a sequence of tokens; joining texts concatenates them.  The   *)
(* arguments of a call are fragments that name their call, so fragments of *)
(* two calls never make one object.  What a message looks like depends on  *)
(* the dialect; a message is a record of everything the readers look at,   *)
(* with empty fields where its dialect has none.  The dialects groq,       *)
(* mistral and agent_framework's tools are openai's; Agent Framework's own *)
(* messages are the dialect agent_framework here.                          *)
(***************************************************************************)
EXTENDS Integers, FiniteSets, SequencesExt

CONSTANTS Tools,        \* the names of tools
          Dialects,     \* the dialects a caller may use
          Generators,   \* the query generators compared
          Lookback,     \* how far the live providers look back, 20 in the code
          Recent,       \* n of concatenate_recent
          Cap,          \* max_chars of truncated, in tokens
          MaxTurns,     \* how many answers of the model have calls
          MaxSaid       \* how often the user speaks

Frameworks == {"langchain", "strands", "pydantic_ai", "google_adk", "agent_framework"}

NoName == "no name"

ASSUME ConversationAssumption ==
  /\ NoName \notin Tools
  /\ Dialects \subseteq
       {"openai", "openai_responses", "anthropic", "gemini"} \cup Frameworks
  /\ Generators \subseteq
       {"latest_activity", "last_user_text", "last_assistant_text", "last_tool_result",
        "concatenate_recent", "keyword_focused", "truncated", "fallback_chain",
        "live", "resumed"}
  /\ Lookback \in Nat \ {0} /\ Recent \in Nat \ {0} /\ Cap \in Nat \ {0}
  /\ MaxTurns \in Nat /\ MaxSaid \in Nat

VARIABLES
  dialect,        \* the dialect of the conversation
  phase,          \* where the loop is
  messages,       \* the messages so far
  response,       \* the calls of the model's answer
  arrived,        \* how many chunks of each call came
  slots,          \* _calls of the accumulator, in order
  payloads,       \* the calls that were read
  finished,       \* the outcomes so far, as they came
  answers,        \* what execute_tool_calls returned last
  used,           \* _tools_used of the refresher
  asked,          \* the query and used tools of the selection
  turns,          \* history: how many answers had calls
  called,         \* history: the tools called, in order
  said,           \* history: what users and tools said
  disturbed       \* history: another conversation refreshed meanwhile

turnVars == <<response, arrived, slots, payloads, finished, answers>>
histories == <<turns, called, said, disturbed>>
vars == <<dialect, phase, messages, turnVars, used, asked, histories>>

NoId == <<>>
NoRole == "no role"
NoObject == <<>>
NotAsked == [query |-> [g \in Generators |-> <<>>], used |-> <<>>]

-----------------------------------------------------------------------------
(* What the model calls.                                                   *)

Calls(t, shape) ==
  LET Call(i, name, args, choice, index) ==
        [id |-> <<t, i>>, name |-> name, args |-> args, choice |-> choice,
         index |-> index]
  IN  CASE shape = "one" ->
             {<<Call(1, n, a, 0, 0)>> : n \in Tools,
                                        a \in {"object", "none", "torn", "list"}}
        [] shape = "parallel" ->
             {<<Call(1, n, "object", 0, 0), Call(2, m, "object", 0, 1)>> :
                n \in Tools, m \in Tools}
        [] shape = "choices" ->
             {<<Call(1, n, "object", 0, 0), Call(2, m, "object", 1, 0)>> :
                n \in Tools, m \in Tools}

(* Only Chat Completions and Gemini return several choices; Anthropic and  *)
(* Gemini parse the arguments themselves, and so do the frameworks.        *)
Legal(r) ==
  /\ dialect \notin {"openai", "gemini"} => \A i \in DOMAIN r : r[i].choice = 0
  /\ dialect \in {"anthropic", "gemini"} => \A i \in DOMAIN r : r[i].args # "torn"
  /\ dialect \in Frameworks => \A i \in DOMAIN r : r[i].args = "object"

Responses(t) ==
  {r \in Calls(t, "one") \cup Calls(t, "parallel") \cup Calls(t, "choices") : Legal(r)}

ObjectOf(id) == <<[of |-> id, part |-> 1], [of |-> id, part |-> 2]>>
Fragments(call) ==
  CASE call.args = "object" -> ObjectOf(call.id)
    [] call.args = "none"   -> <<>>
    [] call.args = "torn"   -> <<[of |-> call.id, part |-> 1]>>
    [] call.args = "list"   -> <<[of |-> call.id, part |-> 0]>>

(* What json.loads and the test for a dict make of a streamed text.        *)
Meaning(fragments) ==
  IF fragments # <<>> /\ fragments = ObjectOf(fragments[1].of)
    THEN fragments[1].of ELSE NoObject

Payload(id, name, arguments) == [id |-> id, name |-> name, arguments |-> arguments]

(* from_provider_payload of each call of a whole response.  Where arguments*)
(* are text, text that is no JSON counts as empty and a list makes the     *)
(* payload's validation raise; an object given as one is taken if it is.   *)
InText == {"openai", "openai_responses"}
Readable(r) == dialect \in InText => \A i \in DOMAIN r : r[i].args # "list"
ParsedArguments(call) == Meaning(Fragments(call))
GivenArguments(call) == IF call.args = "object" THEN call.id ELSE NoObject
Extract(r) ==
  [i \in DOMAIN r |->
     Payload(r[i].id, r[i].name,
             IF dialect \in InText THEN ParsedArguments(r[i]) ELSE GivenArguments(r[i]))]

-----------------------------------------------------------------------------
(* The accumulator.                                                        *)

Keys(s) == {s[i].key : i \in DOMAIN s}
Slotted(s, k) ==
  IF k \in Keys(s) THEN s
  ELSE Append(s, [key |-> k, id |-> NoId, name |-> NoName, arguments |-> <<>>])
WithSlot(s, k, F(_)) ==
  [i \in DOMAIN s |-> IF s[i].key = k THEN F(s[i]) ELSE s[i]]

(* Slip: the slot of the call that came last.                              *)
KeySlip(call) == 0

(* The provider's ordinal of a call.  A chunk of Chat Completions names    *)
(* its choice too, which add_chunk does not read.                          *)
Key(call) == call.index

Named(s, call) ==
  WithSlot(Slotted(s, Key(call)), Key(call),
           LAMBDA slot : [slot EXCEPT !.id = call.id, !.name = call.name])
Extended(s, call, fragment) ==
  WithSlot(IF dialect = "anthropic" THEN s ELSE Slotted(s, Key(call)), Key(call),
           LAMBDA slot : [slot EXCEPT !.arguments = Append(@, fragment)])

(* The chunks of a call: one that names it, its fragments and, in the      *)
(* Responses API, the finished item, which names it again.                 *)
ChunkCount(call) ==
  1 + Len(Fragments(call)) + (IF dialect = "openai_responses" THEN 1 ELSE 0)
Added(s, call, k) ==
  IF k \in 2..1 + Len(Fragments(call)) THEN Extended(s, call, Fragments(call)[k - 1])
  ELSE Named(s, call)

(* tool_calls: the slots that have a name, in the order they were made.    *)
Accumulated(s) ==
  FlattenSeq([i \in DOMAIN s |->
    IF s[i].name = NoName THEN <<>>
    ELSE <<Payload(s[i].id, s[i].name, Meaning(s[i].arguments))>>])

-----------------------------------------------------------------------------
(* The messages of each dialect.                                           *)

Plain == [role |-> NoRole, type |-> "", content |-> <<>>, output |-> <<>>,
          blocks |-> <<>>, parts |-> <<>>, calls |-> <<>>, name |-> NoName]
Block(type, text, name) == [type |-> type, text |-> text, name |-> name]

(* Gemini, ADK and Pydantic AI keep texts and calls in parts, ADK with an  *)
(* author for a role, which is modelled as the type of the event.          *)
UserMessage(text) ==
  CASE dialect = "langchain" -> [Plain EXCEPT !.type = "human", !.content = text]
    [] dialect = "strands" ->
         [Plain EXCEPT !.role = "user", !.blocks = <<Block("text", text, NoName)>>]
    [] dialect = "pydantic_ai" ->
         [Plain EXCEPT !.parts = <<Block("user-prompt", text, NoName)>>]
    [] dialect = "google_adk" ->
         [Plain EXCEPT !.type = "by user", !.parts = <<Block("part", text, NoName)>>]
    [] dialect = "agent_framework" ->
         [Plain EXCEPT !.role = "user", !.parts = <<Block("text", text, NoName)>>]
    [] dialect = "gemini" ->
         [Plain EXCEPT !.role = "user", !.parts = <<Block("part", text, NoName)>>]
    [] OTHER -> [Plain EXCEPT !.role = "user", !.content = text]

ModelMessage(text) ==
  CASE dialect = "langchain" -> [Plain EXCEPT !.type = "ai", !.content = text]
    [] dialect = "strands" ->
         [Plain EXCEPT !.role = "assistant", !.blocks = <<Block("text", text, NoName)>>]
    [] dialect = "pydantic_ai" ->
         [Plain EXCEPT !.parts = <<Block("model text", text, NoName)>>]
    [] dialect = "google_adk" ->
         [Plain EXCEPT !.type = "by agent", !.parts = <<Block("part", text, NoName)>>]
    [] dialect = "agent_framework" ->
         [Plain EXCEPT !.role = "assistant", !.parts = <<Block("text", text, NoName)>>]
    [] dialect = "gemini" ->
         [Plain EXCEPT !.role = "model", !.parts = <<Block("part", text, NoName)>>]
    [] OTHER -> [Plain EXCEPT !.role = "assistant", !.content = text]

NamesIn(ps) == [i \in DOMAIN ps |-> ps[i].name]
CallBlocks(ps, type) == [i \in DOMAIN ps |-> Block(type, <<>>, ps[i].name)]
AssistantMessages(ps) ==
  CASE dialect = "openai" ->
         <<[Plain EXCEPT !.role = "assistant", !.calls = NamesIn(ps)]>>
    [] dialect = "langchain" -> <<[Plain EXCEPT !.type = "ai", !.calls = NamesIn(ps)]>>
    [] dialect = "openai_responses" ->
         [i \in DOMAIN ps |-> [Plain EXCEPT !.type = "function_call", !.name = ps[i].name]]
    [] dialect = "anthropic" ->
         <<[Plain EXCEPT !.role = "assistant", !.blocks = CallBlocks(ps, "tool_use")]>>
    [] dialect = "strands" ->
         <<[Plain EXCEPT !.role = "assistant", !.blocks = CallBlocks(ps, "toolUse")]>>
    [] dialect = "pydantic_ai" -> <<[Plain EXCEPT !.parts = CallBlocks(ps, "tool-call")]>>
    [] dialect = "google_adk" ->
         <<[Plain EXCEPT !.type = "by agent", !.parts = CallBlocks(ps, "part")]>>
    [] dialect = "agent_framework" ->
         <<[Plain EXCEPT !.role = "assistant", !.parts = CallBlocks(ps, "function_call")]>>
    [] dialect = "gemini" ->
         <<[Plain EXCEPT !.role = "model", !.parts = CallBlocks(ps, "part")]>>

(* format_tool_result of the four adapters.                                *)
OpenAIResult(a) == [Plain EXCEPT !.role = "tool", !.content = a.text, !.name = a.name]
ResponsesResult(a) == [Plain EXCEPT !.type = "function_call_output", !.output = a.text]
AnthropicResult(a) == Block("tool_result", a.text, NoName)
GeminiResult(a) == Block("part", a.text, a.name)

(* Chat Completions and the Responses API take each result as a message,   *)
(* as LangChain does; the others take all of an answer's in one.           *)
ResultMessages(as) ==
  LET Blocks(type) == [i \in DOMAIN as |-> Block(type, as[i].text, NoName)]
      Each(F(_)) == [i \in DOMAIN as |-> F(as[i])]
  IN  CASE dialect = "openai" -> Each(OpenAIResult)
        [] dialect = "openai_responses" -> Each(ResponsesResult)
        [] dialect = "anthropic" ->
             <<[Plain EXCEPT !.role = "user", !.blocks = Each(AnthropicResult)]>>
        [] dialect = "gemini" ->
             <<[Plain EXCEPT !.role = "user", !.parts = Each(GeminiResult)]>>
        [] dialect = "langchain" ->
             [i \in DOMAIN as |-> [Plain EXCEPT !.type = "tool", !.content = as[i].text,
                                                !.name = as[i].name]]
        [] dialect = "strands" ->
             <<[Plain EXCEPT !.role = "user", !.blocks = Blocks("toolResult")]>>
        [] dialect = "pydantic_ai" ->
             <<[Plain EXCEPT !.parts =
                  [i \in DOMAIN as |-> Block("tool-return", as[i].text, as[i].name)]]>>
        [] dialect = "google_adk" ->
             <<[Plain EXCEPT !.type = "by agent", !.parts = Blocks("part")]>>
        [] dialect = "agent_framework" ->
             <<[Plain EXCEPT !.role = "tool", !.parts = Blocks("function_result")]>>

-----------------------------------------------------------------------------
(* What the readers of messages find in them.                              *)

OnlyResults(m) ==
  m.blocks # <<>> /\ \A i \in DOMAIN m.blocks : m.blocks[i].type = "tool_result"

Mixed(m) ==
  ~ OnlyResults(m) /\ \E i \in DOMAIN m.blocks : m.blocks[i].type = "tool_result"

(* The joined texts of blocks or contents of some types.                   *)
Texts(blocks, types) ==
  FlattenSeq([i \in DOMAIN blocks |->
                IF blocks[i].type \in types THEN blocks[i].text ELSE <<>>])
BlocksText(m) == Texts(m.blocks, {"text", "tool_result"})

MsgText(m) ==
  IF m.content # <<>> THEN m.content
  ELSE IF m.type = "function_call_output" /\ m.output # <<>> THEN m.output
  ELSE BlocksText(m) \o Texts(m.parts, {"text", "function_result"})

(* Slip: the role as the message has it.                                   *)
MsgRoleSlip(m) == IF m.role = NoRole THEN "" ELSE m.role

MsgRole(m) ==
  CASE m.role = "user" /\ OnlyResults(m) -> "tool"
    [] m.role # NoRole /\ ~ (m.role = "user" /\ OnlyResults(m)) -> m.role
    [] m.role = NoRole /\ m.type = "function_call_output" -> "tool"
    [] m.role = NoRole /\ m.type = "function_call" -> "assistant"
    [] m.role = NoRole /\ m.type = "human" -> "user"
    [] m.role = NoRole /\ m.type = "ai" -> "assistant"
    [] m.role = NoRole /\ m.type = "tool" -> "tool"
    [] OTHER -> ""

(* The names in the blocks or parts that call a tool or return from one.   *)
BlockNames(bs) ==
  FlattenSeq([i \in DOMAIN bs |->
    IF bs[i].type \in {"tool_use", "toolUse", "function_call", "tool-call", "tool-return"}
      THEN <<bs[i].name>> ELSE <<>>])

CalledNames(m) ==
  m.calls
    \o (IF m.type = "function_call" THEN <<m.name>> ELSE <<>>)
    \o BlockNames(m.blocks \o m.parts)

Once(s) == FoldLeft(LAMBDA seen, x : IF Contains(seen, x) THEN seen ELSE Append(seen, x),
                    <<>>, s)

(* Slip: the names of tool messages alone.                                 *)
ToolNamesUsedSlip(ms) ==
  Once(FlattenSeq([i \in DOMAIN ms |->
         IF MsgRole(ms[i]) = "tool" /\ ms[i].name # NoName THEN <<ms[i].name>> ELSE <<>>]))

NamesUsed(m) ==
  (IF MsgRole(m) = "tool" /\ m.name # NoName THEN <<m.name>> ELSE <<>>) \o CalledNames(m)
ToolNamesUsed(ms) == Once(FlattenSeq([i \in DOMAIN ms |-> NamesUsed(ms[i])]))

(* The newest message of a role that has text, or 0.                       *)
Newest(ms, roles) ==
  SelectLastInSeq(ms, LAMBDA m : MsgRole(m) \in roles /\ MsgText(m) # <<>>)
TextAt(ms, i) == IF i = 0 THEN <<>> ELSE MsgText(ms[i])

LastAssistantText(ms) == TextAt(ms, Newest(ms, {"assistant"}))
LatestActivity(ms) ==
  LET i == Newest(ms, {"user", "", "tool"})
  IN  IF i = 0 THEN LastAssistantText(ms) ELSE TextAt(ms, i)
LastUserText(ms) == TextAt(ms, Newest(ms, {"user", ""}))
LastToolResult(ms) ==
  LET i == Newest(ms, {"tool"})
  IN  (IF i # 0 /\ ms[i].name # NoName THEN <<<<"tool", ms[i].name>>>> ELSE <<>>)
        \o TextAt(ms, i)

LastOf(s, n) == SubSeq(s, IF Len(s) > n THEN Len(s) - n + 1 ELSE 1, Len(s))

ConcatenateRecent(ms) ==
  FlattenSeq([i \in DOMAIN LastOf(ms, Recent) |-> MsgText(LastOf(ms, Recent)[i])])

(* keyword_focused, and truncated to the tail of what another generates.   *)
IsScaffold(token) == token[1] = "please"
Content(text) ==
  FlattenSeq([i \in DOMAIN text |-> IF IsScaffold(text[i]) THEN <<>> ELSE <<text[i]>>])
KeywordFocused(ms) == Content(LastUserText(ms))
Truncated(ms) == LastOf(LatestActivity(ms), Cap)

(* fallback_chain of the results and, where there is none, the user.       *)
FallbackChain(ms) ==
  IF LastToolResult(ms) # <<>> THEN LastToolResult(ms) ELSE LastUserText(ms)

-----------------------------------------------------------------------------
(* How the live providers derive a query.                                  *)

TextOfBlocks(bs, types) ==
  LET i == SelectInSeq(bs, LAMBDA b : b.type \in types /\ b.text # <<>>)
  IN  IF i = 0 THEN <<>> ELSE bs[i].text

(* with_semantic_tools: the text of the newest user's message that has one,*)
(* of a list of blocks the first.                                          *)
ExtractPrompt(ms) ==
  LET Said(m) == IF m.content # <<>> THEN m.content ELSE TextOfBlocks(m.blocks, {"text"})
      i == SelectLastInSeq(ms, LAMBDA m : m.role = "user" /\ Said(m) # <<>>)
  IN  IF i = 0 THEN <<>> ELSE Said(ms[i])

(* The text that started the run: ctx.prompt, callback_context.user_content*)
Prompt == said[SelectLastInSeq(said, LAMBDA s : s.who = "user")].text

(* Strands: the newest user's text of the tail.  A result is not text.     *)
QueryFromMessages(ms) ==
  LET tail == LastOf(ms, Lookback)
      i == SelectLastInSeq(tail, LAMBDA m : m.role = "user" /\ Texts(m.blocks, {"text"}) # <<>>)
  IN  IF i = 0 THEN <<>> ELSE Texts(tail[i].blocks, {"text"})

(* ADK: the newest of the tail's events by the user, or what started it.   *)
QueryFromCallbackContext(ms) ==
  LET tail == LastOf(ms, Lookback)
      i == SelectLastInSeq(tail, LAMBDA m : m.type = "by user" /\ Texts(m.parts, {"part"}) # <<>>)
  IN  IF i = 0 THEN Prompt ELSE Texts(tail[i].parts, {"part"})

(* Pydantic AI: the prompt; a run resumed without one takes the newest     *)
(* prompt or result of the history.                                        *)
LatestPartText(ms) ==
  LET told == FlattenSeq([i \in DOMAIN ms |-> ms[i].parts])
  IN  TextOfBlocks(Reverse(told), {"user-prompt", "tool-return"})

QueryFromCtx(ms, prompt) ==
  IF prompt # <<>> THEN prompt
  ELSE IF LatestPartText(ms) # <<>> THEN LatestPartText(ms)
  ELSE LatestActivity(ms)

(* LangGraph's state and the items of the OpenAI Agents SDK.               *)
QueryFromState(ms) == LatestActivity(ms)

Live(ms) ==
  CASE dialect \in {"openai", "anthropic"} -> ExtractPrompt(ms)
    [] dialect \in {"openai_responses", "langchain"} -> QueryFromState(ms)
    [] dialect = "strands" -> QueryFromMessages(ms)
    [] dialect = "pydantic_ai" -> QueryFromCtx(ms, Prompt)
    [] dialect = "google_adk" -> QueryFromCallbackContext(ms)
    [] OTHER -> <<>>

Generate(g, ms) ==
  CASE g = "latest_activity" -> LatestActivity(ms)
    [] g = "last_user_text" -> LastUserText(ms)
    [] g = "last_assistant_text" -> LastAssistantText(ms)
    [] g = "last_tool_result" -> LastToolResult(ms)
    [] g = "concatenate_recent" -> ConcatenateRecent(ms)
    [] g = "keyword_focused" -> KeywordFocused(ms)
    [] g = "truncated" -> Truncated(ms)
    [] g = "fallback_chain" -> FallbackChain(ms)
    [] g = "live" -> Live(ms)
    [] g = "resumed" ->
         IF dialect = "pydantic_ai" THEN QueryFromCtx(ms, <<>>) ELSE <<>>

(* _build_query, with each of the generators a refresher may have.  A live *)
(* provider takes its query as it is.                                      *)
BuildQuery(ms) ==
  [g \in Generators |->
     IF Generate(g, ms) = <<>> /\ g \notin {"live", "resumed"} THEN MsgText(Last(ms))
     ELSE Generate(g, ms)]

-----------------------------------------------------------------------------
Spoken(who, text) == [who |-> who, text |-> text]
Greeting == <<<<"please", 0>>, <<"user", 0>>>>

Init ==
  /\ dialect \in Dialects
  /\ phase = "loop"
  /\ messages = <<UserMessage(Greeting)>>
  /\ said = <<Spoken("user", Greeting)>>
  /\ response = <<>> /\ arrived = <<>> /\ slots = <<>>
  /\ payloads = <<>> /\ finished = <<>> /\ answers = <<>>
  /\ used = <<>>
  /\ asked = NotAsked
  /\ turns = 0 /\ called = <<>> /\ disturbed = FALSE

(* The user speaks, after an answer or beside results.  Anthropic's results*)
(* are a user's message, to which the text may be added.                   *)
UserSpeaks ==
  LET text == <<<<"please", 0>>, <<"user", Len(said)>>>>
      newest == Len(messages)
  IN  /\ phase \in {"loop", "talked"}
      /\ Cardinality({i \in DOMAIN said : said[i].who = "user"}) < MaxSaid
      /\ \/ messages' = Append(messages, UserMessage(text))
         \/ /\ dialect = "anthropic"
            /\ \E i \in DOMAIN messages[newest].blocks :
                 messages[newest].blocks[i].type = "tool_result"
            /\ messages' = [messages EXCEPT ![newest].blocks =
                               Append(@, Block("text", text, NoName))]
      /\ said' = Append(said, Spoken("user", text))
      /\ phase' = "loop"
      /\ UNCHANGED <<dialect, turnVars, used, asked, turns, called, disturbed>>

(* refresh reads the tools used and derives the query, which a generator   *)
(* may do asynchronously, while other conversations go on; the tools used  *)
(* are passed on after that.  What the last answer left is done with.      *)
Refresh ==
  /\ phase = "loop"
  /\ used' = ToolNamesUsed(messages)
  /\ disturbed' = FALSE
  /\ \/ phase' = "deriving" /\ asked' = asked
     \/ phase' = "asked" /\ asked' = [query |-> BuildQuery(messages), used |-> used']
  /\ response' = <<>> /\ arrived' = <<>> /\ slots' = <<>>
  /\ payloads' = <<>> /\ finished' = <<>> /\ answers' = <<>>
  /\ UNCHANGED <<dialect, messages, turns, called, said>>

(* The refresher is shared: another conversation, with calls of its own,   *)
(* refreshes while this one waits for its query.                           *)
OtherRefreshes ==
  /\ phase = "deriving"
  /\ \E names \in {<<>>} \cup {<<t>> : t \in Tools} : used' = names
  /\ disturbed' = TRUE
  /\ UNCHANGED <<dialect, phase, messages, turnVars, asked, turns, called, said>>

Derived ==
  /\ phase = "deriving"
  /\ phase' = "asked"
  /\ asked' = [query |-> BuildQuery(messages), used |-> used]
  /\ UNCHANGED <<dialect, messages, turnVars, used, histories>>

(* The calls were read: the caller keeps the model's message and runs them.*)
(* No call, no result; what cannot be read ends the loop.                  *)
Read(ps) ==
  /\ payloads' = ps
  /\ IF ps = <<>>
       THEN phase' = "stopped" /\ UNCHANGED <<messages, called>>
       ELSE /\ phase' = "running"
            /\ messages' = messages \o AssistantMessages(ps)
            /\ called' = Once(called \o NamesIn(ps))

ModelAnswers ==
  /\ phase = "asked" /\ turns < MaxTurns /\ dialect \notin Frameworks
  /\ turns' = turns + 1
  /\ \E r \in Responses(turns + 1) :
       response' = r /\ Read(IF Readable(r) THEN Extract(r) ELSE <<>>)
  /\ asked' = NotAsked
  /\ UNCHANGED <<dialect, arrived, slots, finished, answers, used, said, disturbed>>

(* A streamed answer; the accumulator is new, or was reset.                *)
ModelStreams ==
  /\ phase = "asked" /\ turns < MaxTurns
  /\ dialect \notin {"gemini"} \cup Frameworks
  /\ turns' = turns + 1
  /\ \E r \in Responses(turns + 1) :
       response' = r /\ arrived' = [i \in DOMAIN r |-> 0]
  /\ asked' = NotAsked
  /\ phase' = "receiving"
  /\ UNCHANGED <<dialect, messages, slots, payloads, finished, answers, used, called,
                 said, disturbed>>

Complete(i) == arrived[i] = ChunkCount(response[i])

(* The next chunk of a call.  Calls are named in their order; Anthropic    *)
(* sends one after the other.                                              *)
Chunk(i) ==
  /\ phase = "receiving" /\ ~ Complete(i)
  /\ \A j \in 1..i - 1 : arrived[j] > 0
  /\ dialect = "anthropic" => \A j \in 1..i - 1 : Complete(j)
  /\ arrived' = [arrived EXCEPT ![i] = @ + 1]
  /\ slots' = Added(slots, response[i], arrived'[i])
  /\ UNCHANGED <<dialect, phase, messages, response, payloads, finished, answers, used,
                 asked, histories>>

(* The stream ends, complete or cut off.                                   *)
StreamEnds ==
  /\ phase = "receiving"
  /\ Read(Accumulated(slots))
  /\ UNCHANGED <<dialect, response, arrived, slots, finished, answers, used, asked,
                 turns, said, disturbed>>

(* The model answers with text, and the user has the word.                 *)
ModelTalks ==
  /\ phase = "asked"
  /\ messages' = Append(messages, ModelMessage(<<<<"model", Len(said)>>>>))
  /\ said' = Append(said, Spoken("model", <<<<"model", Len(said)>>>>))
  /\ asked' = NotAsked
  /\ phase' = "talked"
  /\ UNCHANGED <<dialect, turnVars, used, turns, called, disturbed>>

(* A call returns: a text, which an error is too, an empty one, or what    *)
(* json cannot say.  They run at once and return in any order.             *)
Finish(i) ==
  /\ phase = "running"
  /\ \A k \in DOMAIN finished : finished[k].call # i
  /\ \E outcome \in {"text", "silent", "opaque"} :
       finished' = Append(finished, [call |-> i, outcome |-> outcome])
  /\ UNCHANGED <<dialect, phase, messages, response, arrived, slots, payloads, answers,
                 used, asked, histories>>

(* Slip: the outcomes in the order they came.                              *)
GatheredSlip == finished

(* gather: the outcome of each call, in the order of the calls.            *)
Gathered ==
  [i \in DOMAIN payloads |->
     finished[SelectInSeq(finished, LAMBDA f : f.call = i)]]

ResultText(id, outcome) == IF outcome = "text" THEN <<<<"result", id>>>> ELSE <<>>

(* execute_tool_calls formats the results and returns them; one that json  *)
(* cannot say raises, except in Gemini's format, which is a dict.          *)
Answer ==
  LET as == [i \in DOMAIN payloads |->
               [id |-> payloads[i].id, name |-> payloads[i].name,
                text |-> ResultText(payloads[i].id, Gathered[i].outcome)]]
  IN  /\ phase = "running" /\ Len(finished) = Len(payloads)
      /\ IF dialect # "gemini" /\ \E i \in DOMAIN finished : finished[i].outcome = "opaque"
           THEN phase' = "stopped" /\ UNCHANGED <<answers, messages, said>>
           ELSE /\ phase' = "loop"
                /\ answers' = as
                /\ messages' = messages \o ResultMessages(as)
                /\ said' = said \o [i \in DOMAIN as |-> Spoken("tool", as[i].text)]
      /\ UNCHANGED <<dialect, response, arrived, slots, payloads, finished, used, asked,
                     turns, called, disturbed>>

(* A framework runs the calls of an answer itself and comes back with all  *)
(* their results in the history.                                           *)
FrameworkRuns ==
  /\ phase = "asked" /\ turns < MaxTurns /\ dialect \in Frameworks
  /\ turns' = turns + 1
  /\ \E r \in Responses(turns + 1) :
       \E outcomes \in [DOMAIN r -> {"text", "silent"}] :
         LET as == [i \in DOMAIN r |->
                      [name |-> r[i].name, text |-> ResultText(r[i].id, outcomes[i])]]
         IN  /\ messages' = messages \o AssistantMessages(Extract(r)) \o ResultMessages(as)
             /\ called' = Once(called \o NamesIn(as))
             /\ said' = said \o [i \in DOMAIN as |-> Spoken("tool", as[i].text)]
  /\ asked' = NotAsked
  /\ phase' = "loop"
  /\ UNCHANGED <<dialect, turnVars, used, disturbed>>

Next ==
  \/ UserSpeaks \/ Refresh \/ OtherRefreshes \/ Derived
  \/ ModelAnswers \/ ModelStreams \/ StreamEnds \/ ModelTalks
  \/ \E i \in DOMAIN response : Chunk(i)
  \/ \E i \in DOMAIN payloads : Finish(i)
  \/ Answer \/ FrameworkRuns

Spec == Init /\ [][Next]_vars

-----------------------------------------------------------------------------
(* A stream means the response it is of: when it ended, its calls are those*)
(* of the whole response, however its fragments interleaved; when it was   *)
(* cut off, every call that was named has its own arguments or none.  The  *)
(* exceptions are several choices, whose chunks add_chunk does not tell    *)
(* apart, and arguments whose reading the whole response refuses.          *)
StreamIsResponse ==
  /\ phase = "running" /\ arrived # <<>>
  /\ \A i \in DOMAIN response : response[i].choice = 0
  => /\ \A i \in DOMAIN payloads :
          /\ payloads[i].id = response[i].id
          /\ payloads[i].arguments \in {payloads[i].id, NoObject}
     /\ (\A i \in DOMAIN response : Complete(i)) /\ Readable(response)
          => payloads = Extract(response)

(* Every call gets exactly one result, under its own id and with what it   *)
(* returned, in the order of the calls and not of their returning.         *)
ResultsAnswerCalls ==
  answers # <<>> =>
    /\ Len(answers) = Len(payloads)
    /\ \A i \in DOMAIN answers :
         /\ answers[i].id = payloads[i].id
         /\ \E k \in DOMAIN finished :
              /\ finished[k].call = i
              /\ answers[i].text = ResultText(payloads[i].id, finished[k].outcome)

(* A selection is told the tools the conversation has called, each once, in*)
(* the order of their first calls, in every dialect it reads, unless       *)
(* another conversation refreshed while an asynchronous generator worked.  *)
UsedAreCalled ==
  phase = "asked" /\ dialect \notin {"gemini", "google_adk"} /\ ~ disturbed
    => asked.used = called

(* Whose speech a generator is for, and in which dialects it can hear it:  *)
(* Gemini's, ADK's and Pydantic AI's messages say nothing to the generic   *)
(* ones, and Strands' say what its users and models do.                    *)
Told == \E i \in DOMAIN said : said[i].who = "tool" /\ said[i].text # <<>>
Listened(g) ==
  CASE g \in {"latest_activity", "truncated"} -> {"user", "tool"}
    [] g \in {"last_user_text", "keyword_focused"} -> {"user"}
    [] g = "last_assistant_text" -> {"model"}
    [] g = "last_tool_result" -> {"tool"}
    [] g = "concatenate_recent" -> {"user", "tool", "model"}
    [] g = "fallback_chain" -> IF Told /\ dialect # "strands" THEN {"tool"} ELSE {"user"}
Heard(g) ==
  CASE g = "live" ->
         CASE dialect \in {"gemini", "agent_framework"} -> {}
           [] dialect \in {"openai_responses", "langchain"} -> {"user", "tool"}
           [] OTHER -> {"user"}
    [] g = "resumed" -> IF dialect = "pydantic_ai" THEN {"user", "tool"} ELSE {}
    [] OTHER ->
         CASE dialect \in {"gemini", "pydantic_ai", "google_adk"} -> {}
           [] dialect = "strands" -> Listened(g) \ {"tool"}
           [] OTHER -> Listened(g)

(* How far back a generator looks for it, in messages.                     *)
Reach(g) ==
  CASE g = "concatenate_recent" -> Recent
    [] g = "live" /\ dialect = "strands" -> Lookback
    [] OTHER -> Len(messages)
Says(m, text) ==
  text \in {m.content, m.output} \cup {b.text : b \in Range(m.blocks \o m.parts)}

(* A text block that ExtractPrompt does not come to.                       *)
Behind(m) == Cardinality({i \in DOMAIN m.blocks : m.blocks[i].type = "text"}) > 1

(* The query of a selection ends with the newest speech of those its       *)
(* generator listens to: never the model's for the user's, never an older  *)
(* one, and a tool's result is never taken for the user's word, though     *)
(* Anthropic and Strands send it as a user's message and the Responses API *)
(* without a role.  The exceptions: the generators that listen to tools,   *)
(* where the user wrote into the message of the results, which makes all of*)
(* it the user's; with_semantic_tools, where the user did so twice; and    *)
(* speech further back than the generator looks, which for Strands is that *)
(* of a user whose request has started a long chain of calls.              *)
QueryIsNewest ==
  phase = "asked" =>
    \A g \in Generators :
      LET i == SelectLastInSeq(said, LAMBDA s : s.who \in Heard(g) /\ s.text # <<>>)
          far == LastOf(messages, Reach(g))
      IN  /\ i # 0
          /\ "user" \notin Heard(g) => \A k \in DOMAIN messages : ~ Mixed(messages[k])
          /\ g = "live" => \A k \in DOMAIN messages : ~ Behind(messages[k])
          /\ \E k \in DOMAIN far : Says(far[k], said[i].text)
          => IsSuffix(Content(said[i].text), asked.query[g])
=============================================================================
