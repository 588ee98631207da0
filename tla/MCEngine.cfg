CONSTANTS
  num_blocks = 3
  block_size = 2
  prefix_caching_enabled = TRUE
  MaxRequests = 2
  max_num_seqs = 2
  max_num_batched_tokens = 4
  max_waiting_requests = 2
  max_model_len = 8
  enable_chunked_prefill = TRUE
  prioritize_decode = FALSE
  timeouts_enabled = TRUE
  BufferSize = 2
  MaxFaults = 1
  NoReason = NoReason
  MinTokens = 1
  hash_block <- MCHashBlock
  NoHash <- MCNoHash
  Hash <- MCHash
  Prompts <- MCPrompts
  Params <- MCParams
  SequenceIds <- MCIds
SPECIFICATION EngineSpec
INVARIANTS
  EngineTypeOK
  CallersServed
  BudgetKept
  BlocksMatchState
PROPERTIES
  KeepsPromise
  DrivesScheduler
CHECK_DEADLOCK FALSE
