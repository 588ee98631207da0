CONSTANTS
  Vocab <- MCVocab
  strips_first_space = TRUE
  window = 2
  Requests <- MCRequests
  default_max_tokens = 6
  PromptText <- MCPrompt
  prompt_tokens = 2
  Capacity = 2
  MAX_STOP_SEQUENCES = 2
  MaxTokens = 6
  None = None
  Infinity = Infinity
SPECIFICATION Spec
INVARIANTS
  DecoderExact
  StopFoundExactly
  AnswerExact
  StreamExact
