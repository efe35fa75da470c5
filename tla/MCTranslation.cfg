\* A call ends when it is answered.
SPECIFICATION Spec
CONSTANTS
  Calls <- MCCalls
  OpenAIAnswers <- MCOpenAIAnswers
  AnthropicAnswers <- MCAnthropicAnswers
  FusionMaxTokens = 6
INVARIANTS RequestFaithful 
CHECK_DEADLOCK FALSE
