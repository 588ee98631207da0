CONSTANTS
  num_blocks = 3
  block_size = 2
  prefix_caching_enabled = TRUE
  MaxRequests = 3
  max_num_seqs = 3
  max_num_batched_tokens = 4
  max_waiting_requests = 2
  max_model_len = 8
  enable_chunked_prefill = TRUE
  prioritize_decode = TRUE
  timeouts_enabled = TRUE
  NoReason = NoReason
  MinTokens = 2
  hash_block <- MCHashBlock
  NoHash <- MCNoHash
  Hash <- MCHash
  Prompts <- MCPrompts
  Params <- MCParams
  SequenceIds <- MCIds
SPECIFICATION SchedSpec
INVARIANTS
  SchedTypeOK
  ArrivalOrder
  NobodyLost
  BudgetKept
  BlocksMatchState
  AdmissionNeverRaces
PROPERTIES
  OutputsFinal
