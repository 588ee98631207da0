--------------------------- MODULE KvCacheManager ---------------------------
(***************************************************************************)
(* The cache manager under its callers (Scheduler, engine.rs): they        *)
(* allocate a prompt, run the model over it, commit it, then append a      *)
(* token at a time, and free or preempt the sequence at any moment.        *)
(*                                                                         *)
(* `kv' is the arena the model backend writes (external to this crate): to *)
(* each block, the tokens its newest slot was computed under.  The cache   *)
(* never reads it; it is what prefix sharing has to be right about.        *)
(***************************************************************************)
EXTENDS KvCache

CONSTANTS
  Generated,   \* a token the model produced, in no prompt
  MaxTokens    \* bound: tokens a table may grow to

ASSUME GeneratedAssumption ==
  /\ Generated \in Int /\ MaxTokens \in Nat
  /\ \A p \in Prompts : Generated \notin Range(p)

VARIABLES
  cache,     \* KvCacheManager
  kv,        \* KV arena of the backend: block -> context of its newest slot
  request    \* sequence -> [prompt, reused, computed], for those with a table

Request == [prompt : Prompts, reused : Nat, computed : BOOLEAN]

cacheVars == <<cache, kv, request>>

CacheInit ==
  /\ cache = new
  /\ kv = [b \in BlockId |-> << >>]
  /\ request = Empty

Allocate(s, p) ==
  /\ allocate_ok(cache, s, p)
  /\ cache' = allocate(cache, s, p)
  /\ request' = [t \in DOMAIN request \cup {s} |->
        IF t = s THEN [prompt |-> p, reused |-> Reused(cache, p),
                       computed |-> FALSE]
        ELSE request[t]]
  /\ UNCHANGED kv

\* The forward pass over the whole prompt: every slot of the table is written,
\* the adopted ones included.
Prefill(s) ==
  LET table == cache.tables[s].blocks
      p == request[s].prompt
      Pos(b) == CHOOSE i \in 1..Len(table) : table[i] = b
  IN  /\ s \in DOMAIN request /\ ~request[s].computed
      /\ kv' = [b \in BlockId |->
                  IF b \in Range(table) THEN Prefix(p, Pos(b)) ELSE kv[b]]
      /\ request' = [request EXCEPT ![s].computed = TRUE]
      /\ UNCHANGED cache

CommitPrefill_BeforeForward(s) ==
  /\ s \in DOMAIN request
  /\ cache' = commit_prefill(cache, s, request[s].prompt)
  /\ UNCHANGED <<kv, request>>
CommitPrefill(s) ==
  /\ s \in DOMAIN request /\ request[s].computed
  /\ cache' = commit_prefill(cache, s, request[s].prompt)
  /\ UNCHANGED <<kv, request>>

\* A decode step: reserve the slot, then the forward pass writes it.
AppendToken(s) ==
  /\ s \in DOMAIN request /\ request[s].computed
  /\ cache.tables[s].num_tokens < MaxTokens
  /\ append_ok(cache, s)
  /\ cache' = append_token(cache, s)
  /\ LET table == cache'.tables[s].blocks
     IN  kv' = [kv EXCEPT ![table[Len(table)]] =
                  Append(request[s].prompt, Generated)]
  /\ UNCHANGED request

Free(s) ==
  /\ cache' = free(cache, s)
  /\ request' = Without(request, {s})
  /\ UNCHANGED kv

EvictCached(n) ==
  /\ cache' = evict_cached(cache, n)
  /\ UNCHANGED <<kv, request>>

ClearPrefixCache ==
  /\ cache' = clear_prefix_cache(cache)
  /\ UNCHANGED <<kv, request>>

CacheNext ==
  \/ \E s \in SequenceIds :
        \/ \E p \in Prompts : Allocate(s, p)
        \/ Prefill(s)
        \/ CommitPrefill(s)
        \/ AppendToken(s)
        \/ Free(s)
  \/ \E n \in 1..num_blocks : EvictCached(n)
  \/ ClearPrefixCache

CacheSpec == CacheInit /\ [][CacheNext]_cacheVars

-----------------------------------------------------------------------------
(* Properties.                                                              *)

\* The types of KvCacheManager's fields and of what its callers keep.
CacheTypeOK ==
  /\ CacheType(cache)
  /\ kv \in [BlockId -> Seq(Int)]
  /\ DOMAIN request = DOMAIN cache.tables
  /\ request \in [DOMAIN request -> Request]

\* A block's ref_count (block.rs) is the number of sequences whose table holds
\* it: no path of allocate, append_token, free or preempt leaks a reference or
\* drops one twice, however prefixes are shared between them.
RefCountsExact == CountsMatch(cache)

\* The free list holds each unreferenced block once and no other block: what
\* free returns is allocatable again, and no block is handed out twice.
FreeListExact == FreeListMatches(cache)

\* A table holds exactly the blocks its tokens need, each once: append_token
\* finds the slot it reserves, and never a block past the end.
TablesExact == TablesFit(cache)

\* Every entry of the prefix index names a full block that still carries the
\* entry's hash: recycling or evicting a block dropped the entry first.
IndexNotStale == IndexMatches(cache)

\* A hashed block holds what every sequence holding it expects at that place of
\* its prompt, and only hashed blocks are held twice: append_token never drops
\* the hash of a block somebody else relies on, nor commit_prefill replaces it.
HashesMatchHolders ==
  /\ HashesOwned(cache, [s \in DOMAIN request |-> request[s].prompt])
  /\ SharedHashed(cache)

\* What the index hands out was computed under the very prefix it is looked up
\* by, although the block may have been freed, revived and shared since.
PublishedContentsMatch ==
  \A p \in Prompts : \A i \in 1..FullChunks(p) :
     LET h == chain_hash(p)[i] IN
       h \in DOMAIN cache.entries => kv[cache.entries[h].block] = Prefix(p, i)

\* A sequence's adopted blocks (cached_tokens of AllocationOutcome) hold its
\* own prefix from the moment it adopts them, and all its full prompt blocks do
\* from its prefill on, whatever the other sequences do meanwhile.
OwnPrefixIntact ==
  \A s \in DOMAIN request : LET r == request[s] IN
     \A i \in 1..FullChunks(r.prompt) :
        (r.computed \/ i <= r.reused) =>
          kv[cache.tables[s].blocks[i]] = Prefix(r.prompt, i)

\* allocate's admission check counts blocks without looking for reuse; after
\* adoption has taken its blocks off the free list the fresh ones are still
\* there, so the rollback path of allocate is never taken.
AllocationNeverRollsBack ==
  \A p \in Prompts : can_allocate(cache, Len(p)) =>
     FreshNeeded(cache, p) \in 0..Len(FreeAfterAdoption(cache, p))

\* An index entry disappears only together with the contents of the block it
\* names, or when the whole index is cleared: the identity check of
\* PrefixCache::remove never discards another block's valid entry.
EntriesOutliveOtherBlocks ==
  [][\A h \in DOMAIN cache.entries \ DOMAIN cache'.entries :
        cache'.hash[cache.entries[h].block] # h \/ cache'.entries = Empty]_cacheVars

\* A block that two sequences hold, or that the index offers, is not rewritten
\* with anything else: decode writes land in blocks of their writer alone.
SharedBlocksFrozen ==
  [][\A b \in BlockId : kv'[b] # kv[b] =>
        /\ cache'.ref_count[b] = 1
        /\ \A h \in DOMAIN cache'.entries : cache'.entries[h].block # b]_cacheVars

\* Both at once: no interleaving of sequences lets a block be published, adopted
\* or kept with the contents of another prefix.
ContentsExact == PublishedContentsMatch /\ OwnPrefixIntact
============================================================================
