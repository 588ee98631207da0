CONSTANTS
  num_blocks = 3
  block_size = 2
  prefix_caching_enabled = TRUE
  SequenceIds = {s1, s2}
  hash_block <- MCHashBlock
  NoHash <- MCNoHash
  Hash <- MCHash
  Prompts <- MCPrompts
  num_layers = 2
  num_attention_heads = 4
  num_kv_heads = 2
  head_dim = 2
  vocab_size = 4
  max_positions = 4
  Generated = 3
  MaxOutput = 3
  MaxRows = 2
  MaxPreemptions = 1
SYMMETRY Symmetry
SPECIFICATION InferSpec
INVARIANT SampledFromContext
CHECK_DEADLOCK FALSE
