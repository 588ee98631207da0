CONSTANTS
  num_blocks = 3
  block_size = 2
  prefix_caching_enabled = TRUE
  SequenceIds = {s1, s2, s3}
  MaxTokens = 5
  hash_block <- MCHashBlock
  NoHash <- MCNoHash
  Hash <- MCHash
  Prompts <- MCPrompts
  Generated <- MCGenerated
SYMMETRY Symmetry
SPECIFICATION CacheSpec
INVARIANTS
  CacheTypeOK
  RefCountsExact
  FreeListExact
  TablesExact
  IndexNotStale
  HashesMatchHolders
  ContentsExact
  AllocationNeverRollsBack
PROPERTIES
  EntriesOutliveOtherBlocks
  SharedBlocksFrozen
CHECK_DEADLOCK FALSE
