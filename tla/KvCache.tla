------------------------------ MODULE KvCache ------------------------------
(***************************************************************************)
(* The paged KV cache of crates/orion-kv-cache: the block pool (block.rs), *)
(* the block tables (table.rs), the prefix index (prefix.rs) and the       *)
(* manager that ties them together (manager.rs), as operators.             *)
(*                                                                         *)
(* The manager's state is one record and each of its methods an operator   *)
(* from that record to the one the method leaves, so that a caller can     *)
(* make several calls in one of its own steps.  KvCacheManager puts the    *)
(* operators to work on their own; Scheduler calls them.                   *)
(*                                                                         *)
(* Left out: the hit and miss counters, and chain_tips, which manager.rs   *)
(* writes and never reads.                                                 *)
(***************************************************************************)
EXTENDS SeqFilter

CONSTANTS
  num_blocks, block_size, prefix_caching_enabled, \* KvCacheManager::new
  Hash, NoHash,           \* BlockHash values, and Option<BlockHash>::None
  hash_block(_, _),       \* table.rs: chained hash of (parent, chunk)
  SequenceIds,            \* the sequences of this instance
  Prompts                 \* the prompts they may carry

ASSUME SizesAssumption ==
  num_blocks \in Nat /\ block_size \in Nat \ {0}
ASSUME EnabledAssumption == prefix_caching_enabled \in BOOLEAN
ASSUME PromptsAssumption == \A p \in Prompts : p \in Seq(Int)

BlockId == 0..num_blocks - 1

-----------------------------------------------------------------------------
(* Prompts, chunks and chained hashes (table.rs).                           *)

blocks_required(n) == (n + block_size - 1) \div block_size

FullChunks(p) == Len(p) \div block_size
Chunk(p, i) == SubSeq(p, (i - 1) * block_size + 1, i * block_size)
\* The tokens through the end of the i-th block.
Prefix(p, i) ==
  SubSeq(p, 1, IF i * block_size <= Len(p) THEN i * block_size ELSE Len(p))

\* The chained hash of each full chunk; entry 0 is the parent of the first.
chain_hash(p) ==
  LET h[i \in 0..FullChunks(p)] ==
        IF i = 0 THEN NoHash ELSE hash_block(h[i - 1], Chunk(p, i))
  IN  h

ASSUME HashAssumption ==
  /\ NoHash \notin Hash
  /\ \A p \in Prompts : \A i \in 1..FullChunks(p) : chain_hash(p)[i] \in Hash

(* No two prefixes share a digest.  lookup compares the tokens of one block *)
(* only, so what it returns rests on this for the blocks before it.         *)
ASSUME CollisionFreeAssumption ==
  \A p, q \in Prompts : \A i \in 1..FullChunks(p), j \in 1..FullChunks(q) :
     chain_hash(p)[i] = chain_hash(q)[j] => i = j /\ Prefix(p, i) = Prefix(q, j)

-----------------------------------------------------------------------------
(* The state of KvCacheManager and of the BlockPool and PrefixCache in it.  *)

Fields == {"ref_count", "num_tokens", "hash", "free_list", "tables", "entries"}

Table == [blocks : Seq(BlockId), num_tokens : Nat]     \* BlockTable
Entry == [block : BlockId, tokens : Seq(Int)]          \* CacheEntry

\* f maps some of D into R.
PartialFunction(f, D, R) == DOMAIN f \subseteq D /\ f \in [DOMAIN f -> R]

CacheType(c) ==
  /\ DOMAIN c = Fields /\ c = [f \in Fields |-> c[f]]
  /\ c.ref_count \in [BlockId -> Nat]
  /\ c.num_tokens \in [BlockId -> 0..block_size]
  /\ c.hash \in [BlockId -> Hash \cup {NoHash}]
  /\ c.free_list \in Seq(BlockId)
  /\ PartialFunction(c.tables, SequenceIds, Table)
  /\ PartialFunction(c.entries, Hash, Entry)

Empty == [x \in {} |-> x]

new ==
  [ref_count  |-> [b \in BlockId |-> 0],
   num_tokens |-> [b \in BlockId |-> 0],
   hash       |-> [b \in BlockId |-> NoHash],
   free_list  |-> [i \in 1..num_blocks |-> i - 1],
   tables     |-> Empty,
   entries    |-> Empty]

Without(f, S) == Restrict(f, DOMAIN f \ S)

num_free(c) == Len(c.free_list)
can_allocate_OffByOne(c, n) == blocks_required(n) <= num_free(c) + 1
can_allocate(c, n) == blocks_required(n) <= num_free(c)

Unindexed_Never(c, B) == c.entries
Unindexed_ByHashAlone(c, B) == Without(c.entries, {c.hash[b] : b \in B})
\* PrefixCache::remove(hash, b) for each block b of B: an entry goes only if
\* it still names the block that carried its hash.
Unindexed(c, B) ==
  Without(c.entries,
    {h \in DOMAIN c.entries : c.entries[h].block \in B
                                 /\ c.hash[c.entries[h].block] = h})

-----------------------------------------------------------------------------
(* allocate: adopt the cached prefix, then take fresh blocks.               *)

lookup(c, p, i) ==
  /\ chain_hash(p)[i] \in DOMAIN c.entries
  /\ c.entries[chain_hash(p)[i]].tokens = Chunk(p, i)

\* Lookups stop at the first miss (still_matching).
Reused(c, p) ==
  IF prefix_caching_enabled
    THEN CHOOSE k \in 0..FullChunks(p) :
            /\ \A i \in 1..k : lookup(c, p, i)
            /\ k < FullChunks(p) => ~lookup(c, p, k + 1)
    ELSE 0

Adopted(c, p) == [i \in 1..Reused(c, p) |-> c.entries[chain_hash(p)[i]].block]

FreeAfterAdoption_StillListed(c, p) == c.free_list
\* add_ref revives a free block: it leaves the free list, contents kept.
FreeAfterAdoption(c, p) ==
  Filter(c.free_list, BlockId \ Range(Adopted(c, p)))

FreshNeeded(c, p) == blocks_required(Len(p)) - Reused(c, p)
Fresh(c, p) == SubSeq(FreeAfterAdoption(c, p), 1, FreshNeeded(c, p))

allocate_ok(c, s, p) == s \notin DOMAIN c.tables /\ can_allocate(c, Len(p))

ChunkLen_WholePrefix(p, i) == Len(Prefix(p, i))
\* Tokens recorded for the fresh block at position i of the table.
ChunkLen(p, i) == Len(Prefix(p, i)) - (i - 1) * block_size

allocate(c, s, p) ==
  LET adopted == Adopted(c, p)
      fresh   == Fresh(c, p)
      table   == adopted \o fresh
      Pos(b)  == CHOOSE i \in 1..Len(table) : table[i] = b
  IN  [c EXCEPT
        !.ref_count = [b \in BlockId |->
             IF b \in Range(fresh) THEN 1
             ELSE IF b \in Range(adopted) THEN @[b] + 1 ELSE @[b]],
        !.num_tokens = [b \in BlockId |->
             IF b \in Range(fresh) THEN ChunkLen(p, Pos(b)) ELSE @[b]],
        !.hash = [b \in BlockId |-> IF b \in Range(fresh) THEN NoHash ELSE @[b]],
        !.free_list = SubSeq(FreeAfterAdoption(c, p), FreshNeeded(c, p) + 1,
                             Len(FreeAfterAdoption(c, p))),
        !.entries = Unindexed(c, Range(fresh)),
        !.tables = [t \in DOMAIN c.tables \cup {s} |->
             IF t = s THEN [blocks |-> table, num_tokens |-> Len(p)] ELSE @[t]]]

-----------------------------------------------------------------------------
(* commit_prefill: hash the full blocks of the prompt and publish them;     *)
(* insert keeps the entry that is already there.                            *)

commit_prefill(c, s, p) ==
  LET full  == FullChunks(p)
      h     == chain_hash(p)
      table == c.tables[s].blocks
      Pos(b) == CHOOSE i \in 1..full : table[i] = b
      At(x)  == CHOOSE i \in 1..full : h[i] = x
      published == {h[i] : i \in 1..full}
      B == {table[i] : i \in 1..full}
  IN  IF ~prefix_caching_enabled \/ s \notin DOMAIN c.tables \/ full = 0 THEN c
      ELSE [c EXCEPT
        !.num_tokens = [b \in BlockId |-> IF b \in B THEN block_size ELSE @[b]],
        !.hash = [b \in BlockId |-> IF b \in B THEN h[Pos(b)] ELSE @[b]],
        !.entries = [x \in DOMAIN c.entries \cup published |->
             IF x \in DOMAIN c.entries THEN c.entries[x]
             ELSE [block |-> table[At(x)], tokens |-> Chunk(p, At(x))]]]

-----------------------------------------------------------------------------
(* append_token: room for one more token, in a new block if the last is     *)
(* full.  The new block is the oldest free one.                             *)

NeedsBlock_OffByOne(c, s) ==
  blocks_required(c.tables[s].num_tokens) > Len(c.tables[s].blocks)
NeedsBlock(c, s) ==
  blocks_required(c.tables[s].num_tokens + 1) > Len(c.tables[s].blocks)

append_ok(c, s) ==
  s \in DOMAIN c.tables /\ (NeedsBlock(c, s) => c.free_list # << >>)

append_token(c, s) ==
  LET grow  == NeedsBlock(c, s)
      taken == IF grow THEN {Head(c.free_list)} ELSE {}
      table == c.tables[s].blocks \o
                 (IF grow THEN <<Head(c.free_list)>> ELSE << >>)
      last  == table[Len(table)]
      len   == c.tables[s].num_tokens + 1
  IN  [c EXCEPT
        !.ref_count = [b \in BlockId |-> IF b \in taken THEN 1 ELSE @[b]],
        !.num_tokens = [@ EXCEPT ![last] = len - (Len(table) - 1) * block_size],
        !.hash = [@ EXCEPT ![last] = NoHash],
        !.free_list = IF grow THEN Tail(@) ELSE @,
        !.entries = Unindexed(c, taken),
        !.tables = [@ EXCEPT ![s] = [blocks |-> table, num_tokens |-> len]]]

-----------------------------------------------------------------------------
(* free, and preempt, which is free today: drop one reference to each block *)
(* of the table; the blocks nobody else holds go to the back of the free    *)
(* list in table order and keep their contents and hash.                    *)

free_WithoutRelease(c, s) == [c EXCEPT !.tables = Without(@, {s})]
free(c, s) ==
  LET table == c.tables[s].blocks
      freed == {b \in Range(table) : c.ref_count[b] = 1}
  IN  IF s \notin DOMAIN c.tables THEN c
      ELSE [c EXCEPT
        !.ref_count = [b \in BlockId |-> IF b \in Range(table) THEN @[b] - 1 ELSE @[b]],
        !.free_list = @ \o Filter(table, freed),
        !.tables = Without(@, {s})]

-----------------------------------------------------------------------------
(* evict_cached(n): forget the n oldest free blocks that hold contents.     *)

Evictable(c) == Filter(c.free_list, {b \in BlockId : c.hash[b] # NoHash})

evict_cached(c, n) ==
  LET victims == SubSeq(Evictable(c), 1,
                        IF n <= Len(Evictable(c)) THEN n ELSE Len(Evictable(c)))
  IN  [c EXCEPT
        !.num_tokens = [b \in BlockId |-> IF b \in Range(victims) THEN 0 ELSE @[b]],
        !.hash = [b \in BlockId |-> IF b \in Range(victims) THEN NoHash ELSE @[b]],
        !.entries = Unindexed(c, Range(victims))]

clear_prefix_cache(c) ==
  [evict_cached(c, Len(Evictable(c))) EXCEPT !.entries = Empty]

-----------------------------------------------------------------------------
(* What holds of the record between calls.                                  *)

Holders(c, b) == {s \in DOMAIN c.tables : b \in Range(c.tables[s].blocks)}

CountsMatch(c) ==
  \A b \in BlockId : c.ref_count[b] = Cardinality(Holders(c, b))

FreeListMatches(c) ==
  /\ IsInjective(c.free_list)
  /\ Range(c.free_list) = {b \in BlockId : c.ref_count[b] = 0}

TablesFit(c) ==
  \A s \in DOMAIN c.tables :
     /\ IsInjective(c.tables[s].blocks)
     /\ Len(c.tables[s].blocks) = blocks_required(c.tables[s].num_tokens)

IndexMatches(c) ==
  \A h \in DOMAIN c.entries :
     /\ c.hash[c.entries[h].block] = h
     /\ c.num_tokens[c.entries[h].block] = block_size

(* The table of s covers its prompt p, and a block in it that carries a     *)
(* hash carries that of the prompt through there.                           *)
OwnHashes(c, s, p) ==
  /\ p \in Prompts /\ Len(p) <= c.tables[s].num_tokens
  /\ \A i \in 1..Len(c.tables[s].blocks) :
       c.hash[c.tables[s].blocks[i]] # NoHash =>
         i <= FullChunks(p) /\ c.hash[c.tables[s].blocks[i]] = chain_hash(p)[i]

(* P: sequence -> its prompt.                                               *)
HashesOwned(c, P) == \A s \in DOMAIN c.tables : OwnHashes(c, s, P[s])

(* A block in two tables carries a hash.                                    *)
SharedHashed(c) ==
  \A s, t \in DOMAIN c.tables : s # t =>
     \A b \in Range(c.tables[s].blocks) \cap Range(c.tables[t].blocks) :
        c.hash[b] # NoHash
============================================================================
