SPECIFICATION Spec
CONSTANTS
  Tools = {a, b}
  Dialects = {"openai", "openai_responses", "anthropic", "gemini", "langchain", "strands",
              "pydantic_ai", "google_adk", "agent_framework"}
  Generators = {"latest_activity", "last_user_text", "last_assistant_text",
                "last_tool_result", "concatenate_recent", "keyword_focused", "truncated",
                "fallback_chain", "live", "resumed"}
  Lookback = 4
  Recent = 3
  Cap = 1
  MaxTurns = 2
  MaxSaid = 2
SYMMETRY Alike
INVARIANTS
  StreamIsResponse
  ResultsAnswerCalls
  UsedAreCalled
  QueryIsNewest
CHECK_DEADLOCK FALSE
