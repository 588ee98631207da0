---------------------------- MODULE KvCacheLemmas ---------------------------
(***************************************************************************)
(* What each method of the cache manager does to the record, for whoever   *)
(* calls it: KvCacheProofs and EngineProofs rest on these lemmas.          *)
(*                                                                         *)
(* The books of the manager (reference counts, free list, tables, prefix   *)
(* index) are kept by every method.  The invariant is inductive only with  *)
(* what hashes mean to the tables: a hashed block carries the hash of its  *)
(* holders' prompts (HashesOwned), and only hashed blocks are held twice   *)
(* (SharedHashed).  Without it append_token might write a shared block and *)
(* commit_prefill replace the hash an index entry relies on.               *)
(***************************************************************************)
EXTENDS KvCache, SequenceLemmas

CacheInv(c, P) ==
  /\ CacheType(c)
  /\ IsFiniteSet(DOMAIN c.tables)
  /\ CountsMatch(c)
  /\ FreeListMatches(c)
  /\ TablesFit(c)
  /\ IndexMatches(c)
  /\ HashesOwned(c, P)
  /\ SharedHashed(c)

\* From c to d the index only loses entries, each with the hash of its block.
OnlyForgets(c, d) ==
  /\ \A h \in DOMAIN d.entries : h \in DOMAIN c.entries /\ d.entries[h] = c.entries[h]
  /\ \A h \in DOMAIN c.entries \ DOMAIN d.entries : d.hash[c.entries[h].block] = NoHash

-----------------------------------------------------------------------------
(* Arithmetic of blocks.                                                    *)

\* The blocks n tokens need hold them, with less than a block to spare.
LEMMA BlocksRequired ==
  ASSUME NEW n \in Nat
  PROVE  /\ blocks_required(n) \in Nat
         /\ n <= blocks_required(n) * block_size
         /\ blocks_required(n) * block_size < n + block_size
BY SizesAssumption DEF blocks_required

\* One more token needs at most one more block, and needs some block.
LEMMA OneMoreToken ==
  ASSUME NEW n \in Nat
  PROVE  /\ blocks_required(n + 1) \in {blocks_required(n), blocks_required(n) + 1}
         /\ blocks_required(n + 1) > 0
<1> DEFINE d == block_size
           a == blocks_required(n)
           b == blocks_required(n + 1)
<1>1. /\ a \in Nat /\ n <= a * d /\ a * d < n + d
      /\ b \in Nat /\ n + 1 <= b * d /\ b * d < n + 1 + d
      /\ d \in Nat /\ d > 0
  BY BlocksRequired, SizesAssumption
<1> HIDE DEF a, b, d
<1>2. b > 0
  BY <1>1
<1>3. ~(b < a)
  <2> SUFFICES ASSUME b <= a - 1 PROVE FALSE
    BY <1>1
  <2>1. b * d <= (a - 1) * d
    BY <1>1
  <2>2. (a - 1) * d = a * d - d
    BY <1>1
  <2> QED BY <1>1, <2>1, <2>2
<1>4. ~(b > a + 1)
  <2> SUFFICES ASSUME a + 2 <= b PROVE FALSE
    BY <1>1
  <2>1. (a + 2) * d <= b * d
    BY <1>1
  <2>2. (a + 2) * d = a * d + d + d
    BY <1>1
  <2> QED BY <1>1, <2>1, <2>2
<1> QED BY <1>1, <1>2, <1>3, <1>4 DEF a, b

\* The full chunks of a prompt are among the blocks it needs.
LEMMA FullChunksBound ==
  ASSUME NEW p \in Seq(Int)
  PROVE  /\ FullChunks(p) \in Nat /\ Len(p) \in Nat
         /\ FullChunks(p) * block_size <= Len(p)
         /\ FullChunks(p) <= blocks_required(Len(p))
<1> DEFINE d == block_size
           n == Len(p)
           f == FullChunks(p)
           a == blocks_required(n)
<1>1. /\ d \in Nat /\ d > 0 /\ n \in Nat
      /\ a \in Nat /\ n <= a * d
  BY BlocksRequired, SizesAssumption
<1>2. f \in Nat /\ f * d <= n
  BY SizesAssumption DEF FullChunks
<1> HIDE DEF a, d, n, f
<1>3. f <= a
  <2> SUFFICES ASSUME a + 1 <= f PROVE FALSE
    BY <1>1, <1>2
  <2>1. (a + 1) * d <= f * d
    BY <1>1, <1>2
  <2>2. (a + 1) * d = a * d + d
    BY <1>1
  <2> QED BY <1>1, <1>2, <2>1, <2>2
<1> QED BY <1>1, <1>2, <1>3 DEF a, d, n, f

-----------------------------------------------------------------------------
(* The empty cache.                                                         *)

LEMMA NewInv == ASSUME NEW P PROVE CacheInv(new, P)
<1> DEFINE L == [i \in 1..num_blocks |-> i - 1]
<1>1. /\ new.ref_count = [b \in BlockId |-> 0] /\ new.hash = [b \in BlockId |-> NoHash]
      /\ new.num_tokens = [b \in BlockId |-> 0] /\ new.free_list = L
      /\ new.tables = Empty /\ new.entries = Empty
      /\ DOMAIN new = Fields /\ new = [f \in Fields |-> new[f]]
  BY DEF new, Fields
<1>2. DOMAIN Empty = {}
  BY DEF Empty
<1>3. L \in Seq(BlockId) /\ IsInjective(L) /\ Range(L) = BlockId
  <2>1. /\ num_blocks \in Nat /\ DOMAIN L = 1..num_blocks
        /\ \A i \in 1..num_blocks : L[i] = i - 1 /\ L[i] \in BlockId
    BY SizesAssumption DEF BlockId
  <2>2. L \in Seq(BlockId)
    BY <2>1
  <2>3. IsInjective(L)
    BY <2>1 DEF IsInjective
  <2>4. ASSUME NEW b \in BlockId PROVE \E i \in 1..num_blocks : L[i] = b
    <3>1. b + 1 \in 1..num_blocks /\ (b + 1) - 1 = b
      BY <2>1 DEF BlockId
    <3> QED BY <2>1, <3>1
  <2> QED BY <2>1, <2>2, <2>3, <2>4 DEF Range
<1> HIDE DEF L
<1>4. CacheType(new)
  <2>1. 0 \in 0..block_size
    BY SizesAssumption
  <2>2. \A f : DOMAIN f = {} /\ f = Empty => f \in [{} -> {}]
    BY DEF Empty
  <2> QED BY <1>1, <1>2, <1>3, <2>1 DEF CacheType, PartialFunction, Empty
<1>5. IsFiniteSet(DOMAIN new.tables) /\ CountsMatch(new)
  BY <1>1, <1>2, FS_EmptySet DEF CountsMatch, Holders
<1>6. FreeListMatches(new)
  BY <1>1, <1>3 DEF FreeListMatches
<1> QED
  BY <1>1, <1>2, <1>4, <1>5, <1>6
     DEF CacheInv, TablesFit, IndexMatches, HashesOwned, SharedHashed

-----------------------------------------------------------------------------
(* free.                                                                    *)

\* What the invariant says of a table's blocks.
LEMMA TableBlocks ==
  ASSUME NEW c, NEW P, CacheInv(c, P), NEW s \in DOMAIN c.tables
  PROVE  /\ s \in SequenceIds /\ c.tables[s] \in Table
         /\ c.tables[s].blocks \in Seq(BlockId) /\ c.tables[s].num_tokens \in Nat
         /\ Range(c.tables[s].blocks) \subseteq BlockId
         /\ \A b \in Range(c.tables[s].blocks) :
              c.ref_count[b] > 0 /\ b \notin Range(c.free_list)
<1>1. /\ s \in SequenceIds /\ c.tables[s] \in Table
      /\ c.ref_count \in [BlockId -> Nat]
  BY DEF CacheInv, CacheType, PartialFunction
<1>2. c.tables[s].blocks \in Seq(BlockId) /\ c.tables[s].num_tokens \in Nat
  BY <1>1 DEF Table
<1>3. Range(c.tables[s].blocks) \subseteq BlockId
  BY <1>2 DEF Range
<1>4. ASSUME NEW b \in Range(c.tables[s].blocks)
      PROVE  c.ref_count[b] > 0 /\ b \notin Range(c.free_list)
  <2>1. Holders(c, b) \in SUBSET DOMAIN c.tables /\ s \in Holders(c, b)
    BY DEF Holders
  <2>2. IsFiniteSet(Holders(c, b))
    BY <2>1, FS_Subset DEF CacheInv
  <2>3. Cardinality(Holders(c, b)) # 0
    BY <2>1, <2>2, FS_EmptySet
  <2>4. c.ref_count[b] = Cardinality(Holders(c, b)) /\ c.ref_count[b] \in Nat
    BY <1>1, <1>3 DEF CacheInv, CountsMatch
  <2> QED BY <1>3, <2>3, <2>4 DEF CacheInv, FreeListMatches
<1> QED BY <1>1, <1>2, <1>3, <1>4

\* A table keeps its hashes as long as its blocks keep theirs.
LEMMA OwnHashesKept ==
  ASSUME NEW c, NEW d, NEW P, CacheInv(c, P), NEW s \in DOMAIN c.tables, NEW p,
         OwnHashes(c, s, p), d.tables[s] = c.tables[s],
         \A b \in Range(c.tables[s].blocks) : d.hash[b] = c.hash[b]
  PROVE  OwnHashes(d, s, p)
<1> DEFINE q == c.tables[s].blocks
<1>1. q \in Seq(BlockId)
  BY TableBlocks
<1>2. \A i \in 1..Len(q) : q[i] \in Range(q)
  BY <1>1 DEF Range
<1> QED BY <1>2 DEF OwnHashes

\* The holders of a block are counted by its ref_count.
LEMMA HolderCount ==
  ASSUME NEW c, NEW P, CacheInv(c, P), NEW b \in BlockId
  PROVE  /\ IsFiniteSet(Holders(c, b)) /\ c.ref_count[b] = Cardinality(Holders(c, b))
         /\ c.ref_count[b] \in Nat /\ (c.ref_count[b] = 0 <=> b \in Range(c.free_list))
         /\ (c.ref_count[b] = 0 <=> Holders(c, b) = {})
<1>1. Holders(c, b) \in SUBSET DOMAIN c.tables
  BY DEF Holders
<1>2. IsFiniteSet(Holders(c, b))
  BY <1>1, FS_Subset DEF CacheInv
<1>3. c.ref_count[b] = Cardinality(Holders(c, b)) /\ c.ref_count[b] \in Nat
  BY DEF CacheInv, CountsMatch, CacheType
<1>4. c.ref_count[b] = 0 <=> b \in Range(c.free_list)
  BY DEF CacheInv, FreeListMatches
<1> QED BY <1>2, <1>3, <1>4, FS_EmptySet

LEMMA FreeInv ==
  ASSUME NEW c, NEW P, CacheInv(c, P), NEW s
  PROVE  /\ CacheInv(free(c, s), P) /\ DOMAIN free(c, s).tables = DOMAIN c.tables \ {s}
         /\ \A x \in DOMAIN c.tables \ {s} : free(c, s).tables[x] = c.tables[x]
         /\ free(c, s).hash = c.hash /\ free(c, s).entries = c.entries
<1>1. CASE s \notin DOMAIN c.tables
  BY <1>1 DEF free
<1>2. CASE s \in DOMAIN c.tables
  <2> DEFINE table == c.tables[s].blocks
             R == Range(table)
             freed == {b \in R : c.ref_count[b] = 1}
             F == Filter(table, freed)
             d == free(c, s)
  <2>1. /\ d.ref_count = [b \in BlockId |->
              IF b \in R THEN c.ref_count[b] - 1 ELSE c.ref_count[b]]
        /\ d.num_tokens = c.num_tokens /\ d.hash = c.hash /\ d.entries = c.entries
        /\ d.free_list = c.free_list \o F
        /\ d.tables = [t \in DOMAIN c.tables \ {s} |-> c.tables[t]]
        /\ DOMAIN d = Fields /\ d = [f \in Fields |-> d[f]]
    <3>1. DOMAIN c = Fields
      BY DEF CacheInv, CacheType
    <3> QED BY <1>2, <3>1 DEF free, Without, Restrict, Fields
  <2>2. /\ table \in Seq(BlockId) /\ R \subseteq BlockId
        /\ \A b \in R : c.ref_count[b] > 0 /\ b \notin Range(c.free_list)
    BY <1>2, TableBlocks
  <2>3. /\ F \in Seq(BlockId) /\ Range(F) = freed /\ IsInjective(F)
    <3>1. F \in Seq(BlockId) /\ Range(F) = R \cap freed
      BY <2>2, FilterType
    <3>2. IsInjective(table)
      BY <1>2 DEF CacheInv, TablesFit
    <3> QED BY <2>2, <3>1, <3>2, FilterInjective
  <2>4. /\ c.free_list \in Seq(BlockId) /\ IsInjective(c.free_list)
        /\ c.ref_count \in [BlockId -> Nat]
    BY DEF CacheInv, CacheType, FreeListMatches
  <2> HIDE DEF d, F, R, table
  <2>5. /\ d.free_list \in Seq(BlockId)
        /\ Range(d.free_list) = Range(c.free_list) \cup freed
        /\ IsInjective(d.free_list)
    BY <2>1, <2>2, <2>3, <2>4, InjectiveConcat, RangeConcat
  <2>6. CacheType(d)
    <3>1. d.ref_count \in [BlockId -> Nat]
      BY <2>1, <2>2, <2>4
    <3>2. PartialFunction(d.tables, SequenceIds, Table)
      BY <2>1, ZenonT(40) DEF CacheInv, CacheType, PartialFunction
    <3> QED BY <2>1, <2>5, <3>1, <3>2 DEF CacheInv, CacheType
  <2>7. IsFiniteSet(DOMAIN d.tables)
    BY <2>1, FS_RemoveElement DEF CacheInv
  <2>8. CountsMatch(d)
    <3> SUFFICES ASSUME NEW b \in BlockId
                 PROVE  d.ref_count[b] = Cardinality(Holders(d, b))
      BY DEF CountsMatch
    <3>1. Holders(d, b) = Holders(c, b) \ {s} /\ (s \in Holders(c, b) <=> b \in R)
      BY <1>2, <2>1 DEF Holders, R, table
    <3>2. IsFiniteSet(Holders(c, b)) /\ c.ref_count[b] = Cardinality(Holders(c, b))
      BY HolderCount
    <3>3. Cardinality(Holders(c, b) \ {s})
             = IF s \in Holders(c, b) THEN Cardinality(Holders(c, b)) - 1
               ELSE Cardinality(Holders(c, b))
      BY <3>2, FS_RemoveElement
    <3> QED BY <2>1, <3>1, <3>2, <3>3
  <2>9. FreeListMatches(d)
    <3>1. \A b \in BlockId : d.ref_count[b] = 0 <=> b \in Range(c.free_list) \cup freed
      BY <2>1, <2>2, <2>4, HolderCount
    <3>2. Range(d.free_list) \subseteq BlockId
      BY <2>5 DEF Range
    <3> QED BY <2>5, <3>1, <3>2 DEF FreeListMatches
  <2>10. TablesFit(d)
    BY <2>1 DEF CacheInv, TablesFit
  <2>11. IndexMatches(d)
    BY <2>1 DEF CacheInv, IndexMatches
  <2>12. HashesOwned(d, P)
    BY <2>1, OwnHashesKept DEF CacheInv, HashesOwned
  <2>13. SharedHashed(d)
    BY <2>1 DEF CacheInv, SharedHashed
  <2> QED BY <2>1, <2>6, <2>7, <2>8, <2>9, <2>10, <2>11, <2>12, <2>13 DEF CacheInv, d
<1> QED BY <1>1, <1>2

-----------------------------------------------------------------------------
(* Taking blocks out of the index.                                          *)

\* Unindexed drops the entries of the blocks in B and no others, so an index
\* that matched still does when only blocks of B have changed.
LEMMA UnindexedKeeps ==
  ASSUME NEW c, NEW P, CacheInv(c, P), NEW B, NEW d,
         d.entries = Unindexed(c, B),
         \A b \in BlockId \ B : d.hash[b] = c.hash[b] /\ d.num_tokens[b] = c.num_tokens[b]
  PROVE  PartialFunction(d.entries, Hash, Entry) /\ IndexMatches(d)
<1>1. /\ DOMAIN c.entries \subseteq Hash /\ c.entries \in [DOMAIN c.entries -> Entry]
      /\ \A h \in DOMAIN c.entries :
           /\ c.hash[c.entries[h].block] = h
           /\ c.num_tokens[c.entries[h].block] = block_size
  BY DEF CacheInv, CacheType, PartialFunction, IndexMatches
<1> DEFINE K == {h \in DOMAIN c.entries : c.entries[h].block \notin B}
<1>2. d.entries = [h \in K |-> c.entries[h]]
  BY <1>1 DEF Unindexed, Without, Restrict
<1>3. \A h \in K : c.entries[h].block \in BlockId
  BY <1>1 DEF Entry
<1> QED BY <1>1, <1>2, <1>3 DEF PartialFunction, IndexMatches

\* ... and it only forgets, when the blocks of B lose their hash.
LEMMA UnindexedForgets ==
  ASSUME NEW c, NEW P, CacheInv(c, P), NEW B, NEW d,
         d.entries = Unindexed(c, B), \A b \in BlockId \cap B : d.hash[b] = NoHash
  PROVE  OnlyForgets(c, d) /\ \A h \in DOMAIN d.entries : d.entries[h].block \notin B
<1>1. \A h \in DOMAIN c.entries :
         c.entries[h].block \in BlockId /\ c.hash[c.entries[h].block] = h
  BY DEF CacheInv, CacheType, PartialFunction, IndexMatches, Entry
<1> DEFINE K == {h \in DOMAIN c.entries : c.entries[h].block \notin B}
<1>2. d.entries = [h \in K |-> c.entries[h]]
  BY <1>1 DEF Unindexed, Without, Restrict
<1> QED BY <1>1, <1>2 DEF OnlyForgets

-----------------------------------------------------------------------------
(* evict_cached and clear_prefix_cache.                                     *)

\* Forgetting the contents of free blocks.
LEMMA ForgetInv ==
  ASSUME NEW c, NEW P, CacheInv(c, P), NEW B \in SUBSET Range(c.free_list), NEW d,
         DOMAIN d = Fields, d = [f \in Fields |-> d[f]],
         d.ref_count = c.ref_count, d.free_list = c.free_list, d.tables = c.tables,
         d.num_tokens = [b \in BlockId |-> IF b \in B THEN 0 ELSE c.num_tokens[b]],
         d.hash = [b \in BlockId |-> IF b \in B THEN NoHash ELSE c.hash[b]],
         PartialFunction(d.entries, Hash, Entry), IndexMatches(d)
  PROVE  CacheInv(d, P)
<1>1. \A s \in DOMAIN c.tables : \A b \in Range(c.tables[s].blocks) :
         b \in BlockId /\ b \notin B /\ d.hash[b] = c.hash[b]
  BY TableBlocks
<1>2. CacheType(d)
  <2>1. 0 \in 0..block_size
    BY SizesAssumption
  <2>2. c.num_tokens \in [BlockId -> 0..block_size] /\ c.hash \in [BlockId -> Hash \cup {NoHash}]
    BY DEF CacheInv, CacheType
  <2>3. d.num_tokens \in [BlockId -> 0..block_size]
    BY <2>1, <2>2
  <2>4. d.hash \in [BlockId -> Hash \cup {NoHash}]
    BY <2>2
  <2> QED BY <2>3, <2>4 DEF CacheInv, CacheType
<1>3. CountsMatch(d) /\ IsFiniteSet(DOMAIN d.tables)
  BY DEF CacheInv, CountsMatch, Holders
<1>4. FreeListMatches(d)
  BY DEF CacheInv, FreeListMatches
<1>5. TablesFit(d)
  BY DEF CacheInv, TablesFit
<1>6. HashesOwned(d, P)
  BY <1>1, OwnHashesKept DEF CacheInv, HashesOwned
<1>7. SharedHashed(d)
  BY <1>1 DEF CacheInv, SharedHashed
<1> QED BY <1>2, <1>3, <1>4, <1>5, <1>6, <1>7 DEF CacheInv

LEMMA EvictInv ==
  ASSUME NEW c, NEW P, CacheInv(c, P), NEW n \in Nat
  PROVE  /\ CacheInv(evict_cached(c, n), P) /\ evict_cached(c, n).tables = c.tables
         /\ OnlyForgets(c, evict_cached(c, n))
         /\ \A b \in BlockId : evict_cached(c, n).hash[b] \in {c.hash[b], NoHash}
<1> DEFINE E == Evictable(c)
           m == IF n <= Len(E) THEN n ELSE Len(E)
           B == Range(SubSeq(E, 1, m))
           d == evict_cached(c, n)
<1>1. DOMAIN c = Fields /\ c.free_list \in Seq(BlockId)
  BY DEF CacheInv, CacheType
<1>2. E \in Seq(BlockId) /\ Range(E) \subseteq Range(c.free_list) /\ Len(E) \in Nat
  BY <1>1, FilterType DEF Evictable
<1>3. B \subseteq Range(c.free_list)
  <2> HIDE DEF E
  <2>1. /\ m \in 0..Len(E) /\ Len(SubSeq(E, 1, m)) = m
        /\ SubSeq(E, 1, m) \in Seq(BlockId)
        /\ \A i \in 1..m : SubSeq(E, 1, m)[i] = E[i] /\ i \in 1..Len(E)
    BY <1>2
  <2>2. \A i \in 1..Len(E) : E[i] \in Range(E)
    BY <1>2 DEF Range
  <2> DEFINE v == SubSeq(E, 1, m)
  <2>3. DOMAIN v = 1..m
    BY <2>1, LenProperties
  <2> HIDE DEF m, v
  <2>4. \A x \in Range(v) : \E i \in 1..m : x = v[i]
    BY <2>3 DEF Range
  <2> QED BY <1>2, <2>1, <2>2, <2>4 DEF v
<1>4. /\ d.ref_count = c.ref_count /\ d.free_list = c.free_list /\ d.tables = c.tables
      /\ d.num_tokens = [b \in BlockId |-> IF b \in B THEN 0 ELSE c.num_tokens[b]]
      /\ d.hash = [b \in BlockId |-> IF b \in B THEN NoHash ELSE c.hash[b]]
      /\ d.entries = Unindexed(c, B)
      /\ DOMAIN d = Fields /\ d = [f \in Fields |-> d[f]]
  BY <1>1 DEF evict_cached, Fields
<1> HIDE DEF d, B
<1>5. PartialFunction(d.entries, Hash, Entry) /\ IndexMatches(d)
  BY <1>4, UnindexedKeeps
<1>6. CacheInv(d, P)
  BY <1>3, <1>4, <1>5, ForgetInv
<1>7. \A b \in BlockId : /\ d.hash[b] \in {c.hash[b], NoHash}
                        /\ b \in B => d.hash[b] = NoHash
  BY <1>4
<1>8. OnlyForgets(c, d)
  BY <1>4, <1>7, UnindexedForgets
<1> QED BY <1>4, <1>6, <1>7, <1>8 DEF d

LEMMA ClearInv ==
  ASSUME NEW c, NEW P, CacheInv(c, P)
  PROVE  /\ CacheInv(clear_prefix_cache(c), P) /\ clear_prefix_cache(c).tables = c.tables
         /\ clear_prefix_cache(c).entries = Empty
         /\ \A b \in BlockId : clear_prefix_cache(c).hash[b] \in {c.hash[b], NoHash}
<1> DEFINE e == evict_cached(c, Len(Evictable(c)))
           g == clear_prefix_cache(c)
<1>1. Len(Evictable(c)) \in Nat
  <2>1. c.free_list \in Seq(BlockId)
    BY DEF CacheInv, CacheType
  <2>2. Evictable(c) \in Seq(BlockId)
    BY <2>1, FilterType DEF Evictable
  <2> QED BY <2>2
<1>2. /\ CacheInv(e, P) /\ e.tables = c.tables
      /\ \A b \in BlockId : e.hash[b] \in {c.hash[b], NoHash}
  BY <1>1, EvictInv
<1>3. g = [e EXCEPT !.entries = Empty]
  BY DEF clear_prefix_cache
<1> HIDE DEF e, g
<1>4. /\ g.ref_count = e.ref_count /\ g.free_list = e.free_list /\ g.tables = e.tables
      /\ g.num_tokens = e.num_tokens /\ g.hash = e.hash /\ g.entries = Empty
      /\ DOMAIN g = Fields /\ g = [f \in Fields |-> g[f]]
  <2>1. DOMAIN e = Fields
    BY <1>2 DEF CacheInv, CacheType
  <2> QED BY <1>3, <2>1 DEF Fields
<1>5. PartialFunction(g.entries, Hash, Entry) /\ IndexMatches(g)
  BY <1>4 DEF PartialFunction, IndexMatches, Empty
<1>6. CacheType(g)
  BY <1>2, <1>4, <1>5 DEF CacheInv, CacheType
<1>7. CountsMatch(g) /\ FreeListMatches(g) /\ TablesFit(g)
  BY <1>2, <1>4 DEF CacheInv, CountsMatch, Holders, FreeListMatches, TablesFit
<1>8. HashesOwned(g, P) /\ SharedHashed(g)
  BY <1>2, <1>4, OwnHashesKept DEF CacheInv, HashesOwned, SharedHashed
<1>9. CacheInv(g, P)
  BY <1>2, <1>4, <1>5, <1>6, <1>7, <1>8 DEF CacheInv
<1> QED BY <1>2, <1>4, <1>9 DEF g

-----------------------------------------------------------------------------
(* append_token.                                                            *)

\* The block the token goes to lies past the full chunks of the prompt.
LEMMA PastThePrompt ==
  ASSUME NEW p \in Seq(Int), NEW n \in Nat, Len(p) <= n, NEW k \in Nat,
         k = blocks_required(n + 1)
  PROVE  FullChunks(p) < k
<1> DEFINE d == block_size
           f == FullChunks(p)
<1>1. d \in Nat /\ d > 0 /\ f \in Nat /\ f * d <= Len(p) /\ Len(p) \in Nat
  BY FullChunksBound, SizesAssumption
<1>2. n + 1 <= k * d
  BY BlocksRequired
<1> HIDE DEF d, f
<1>3. ASSUME k <= f PROVE FALSE
  <2>1. k * d <= f * d /\ k * d \in Int /\ f * d \in Int
    BY <1>1, <1>3
  <2>2. n + 1 <= f * d
    BY <1>2, <2>1
  <2> QED BY <1>1, <2>1, <2>2
<1> QED BY <1>1, <1>3 DEF f

\* d is c after a token for s: its slot is in a block past the first full ones,
\* without a hash, and nothing else moves.
AppendsTo(c, d, s, full) ==
  LET old  == c.tables[s].blocks
      t    == d.tables[s].blocks
      last == t[Len(t)]
  IN  /\ OnlyForgets(c, d)
      /\ \A x \in DOMAIN c.tables \ {s} : d.tables[x] = c.tables[x]
      /\ d.tables[s].num_tokens = c.tables[s].num_tokens + 1
      /\ Len(t) \in Nat /\ full < Len(t) /\ last \in Range(t) /\ last \in BlockId
      /\ \A i \in 1..Len(old) : t[i] = old[i]
      /\ \A i \in 1..Len(t) : i < Len(t) => i \in 1..Len(old)
      /\ d.hash[last] = NoHash
      /\ \A b \in BlockId \ {last} : d.hash[b] = c.hash[b]

LEMMA AppendInv ==
  ASSUME NEW c, NEW P, CacheInv(c, P), NEW s, append_ok(c, s)
  PROVE  /\ CacheInv(append_token(c, s), P)
         /\ DOMAIN append_token(c, s).tables = DOMAIN c.tables
         /\ AppendsTo(c, append_token(c, s), s, FullChunks(P[s]))
<1> DEFINE d == append_token(c, s)
           n == c.tables[s].num_tokens
           q == c.tables[s].blocks
           grow == NeedsBlock(c, s)
           b0 == Head(c.free_list)
           taken == IF grow THEN {b0} ELSE {}
           t == q \o (IF grow THEN <<b0>> ELSE << >>)
           k == Len(t)
           last == t[k]
           used == (n + 1) - (k - 1) * block_size
<1>1. /\ s \in DOMAIN c.tables /\ s \in SequenceIds
      /\ q \in Seq(BlockId) /\ n \in Nat /\ Range(q) \subseteq BlockId
      /\ \A b \in Range(q) : b \notin Range(c.free_list)
      /\ IsInjective(q) /\ Len(q) = blocks_required(n)
  BY TableBlocks DEF append_ok, CacheInv, TablesFit
<1>2. /\ DOMAIN c = Fields /\ c.free_list \in Seq(BlockId) /\ IsInjective(c.free_list)
      /\ c.ref_count \in [BlockId -> Nat] /\ c.hash \in [BlockId -> Hash \cup {NoHash}]
      /\ c.num_tokens \in [BlockId -> 0..block_size]
      /\ DOMAIN c.tables \subseteq SequenceIds /\ c.tables \in [DOMAIN c.tables -> Table]
      /\ Range(c.free_list) = {b \in BlockId : c.ref_count[b] = 0}
  BY DEF CacheInv, CacheType, FreeListMatches, PartialFunction
<1>3. grow => /\ b0 \in BlockId /\ b0 \in Range(c.free_list)
              /\ Tail(c.free_list) \in Seq(BlockId)
              /\ Range(Tail(c.free_list)) = Range(c.free_list) \ {b0}
              /\ IsInjective(Tail(c.free_list))
  <2> SUFFICES ASSUME grow
               PROVE  /\ b0 \in BlockId /\ b0 \in Range(c.free_list)
                      /\ Tail(c.free_list) \in Seq(BlockId)
                      /\ Range(Tail(c.free_list)) = Range(c.free_list) \ {b0}
                      /\ IsInjective(Tail(c.free_list))
    OBVIOUS
  <2>1. c.free_list # << >>
    BY DEF append_ok
  <2> QED BY <1>2, <2>1, TailOfInjective
<1>4. /\ DOMAIN d = Fields /\ d = [f \in Fields |-> d[f]]
      /\ d.ref_count = [b \in BlockId |-> IF b \in taken THEN 1 ELSE c.ref_count[b]]
      /\ d.num_tokens = [c.num_tokens EXCEPT ![last] = used]
      /\ d.hash = [c.hash EXCEPT ![last] = NoHash]
      /\ d.free_list = IF grow THEN Tail(c.free_list) ELSE c.free_list
      /\ d.entries = Unindexed(c, taken)
      /\ d.tables = [c.tables EXCEPT ![s] = [blocks |-> t, num_tokens |-> n + 1]]
  <2> DEFINE X1 == [b \in BlockId |-> IF b \in taken THEN 1 ELSE c.ref_count[b]]
             X2 == [c.num_tokens EXCEPT ![last] = used]
             X3 == [c.hash EXCEPT ![last] = NoHash]
             X4 == IF grow THEN Tail(c.free_list) ELSE c.free_list
             X5 == Unindexed(c, taken)
             X6 == [c.tables EXCEPT ![s] = [blocks |-> t, num_tokens |-> n + 1]]
  <2>1. d = [c EXCEPT !.ref_count = X1, !.num_tokens = X2, !.hash = X3,
                      !.free_list = X4, !.entries = X5, !.tables = X6]
    BY DEF append_token
  <2> HIDE DEF d, X1, X2, X3, X4, X5, X6
  <2>2. /\ DOMAIN d = Fields /\ d = [f \in Fields |-> d[f]]
        /\ d.ref_count = X1 /\ d.num_tokens = X2 /\ d.hash = X3
        /\ d.free_list = X4 /\ d.entries = X5 /\ d.tables = X6
    BY <1>2, <2>1 DEF Fields
  <2> QED BY <2>2 DEF X1, X2, X3, X4, X5, X6
<1>5. /\ t \in Seq(BlockId) /\ k \in Nat /\ k = blocks_required(n + 1) /\ k > 0
      /\ Range(t) = Range(q) \cup taken /\ IsInjective(t)
      /\ \A i \in 1..Len(q) : t[i] = q[i]
      /\ Len(q) <= k /\ (grow => Len(q) = k - 1 /\ last = b0) /\ (~grow => t = q)
  <2>1. /\ Len(q) \in Nat /\ Len(q) = blocks_required(n) /\ q \in Seq(BlockId)
        /\ blocks_required(n + 1) \in {Len(q), Len(q) + 1}
        /\ blocks_required(n + 1) > 0
    <3>1. n \in Nat /\ Len(q) \in Nat /\ Len(q) = blocks_required(n) /\ q \in Seq(BlockId)
      BY <1>1
    <3> HIDE DEF n, q, d, t
    <3> QED BY <3>1, OneMoreToken
  <2>2. grow <=> blocks_required(n + 1) = Len(q) + 1
    BY <2>1 DEF NeedsBlock
  <2>3. CASE ~grow
    <3>1. t = q /\ taken = {}
      BY <1>1, <2>3
    <3> HIDE DEF t, taken
    <3> QED BY <1>1, <2>1, <2>2, <2>3, <3>1
  <2>4. CASE grow
    <3>1. t = q \o <<b0>> /\ taken = {b0} /\ b0 \in BlockId
      BY <1>3, <2>4
    <3>2. /\ <<b0>> \in Seq(BlockId) /\ IsInjective(<<b0>>) /\ Range(<<b0>>) = {b0}
      BY <3>1 DEF IsInjective, Range
    <3>3. Range(q) \cap Range(<<b0>>) = {}
      BY <1>1, <1>3, <2>4, <3>2
    <3> HIDE DEF t, taken, b0, q
    <3>4. IsInjective(q \o <<b0>>) /\ Range(q \o <<b0>>) = Range(q) \cup {b0}
      <4>1. q \in Seq(BlockId) /\ <<b0>> \in Seq(BlockId) /\ IsInjective(q)
        BY <1>1, <3>2
      <4>2. IsInjective(q \o <<b0>>)
        BY <3>2, <3>3, <4>1, InjectiveConcat
      <4>3. Range(q \o <<b0>>) = Range(q) \cup Range(<<b0>>)
        BY <4>1, RangeConcat
      <4> QED BY <3>2, <4>2, <4>3
    <3>5. /\ Len(q \o <<b0>>) = Len(q) + 1 /\ q \o <<b0>> \in Seq(BlockId)
          /\ (q \o <<b0>>)[Len(q) + 1] = b0
          /\ \A i \in 1..Len(q) : (q \o <<b0>>)[i] = q[i]
      BY <2>1, <3>1
    <3> QED BY <2>1, <2>2, <2>4, <3>1, <3>4, <3>5
  <2> QED BY <2>3, <2>4
<1>6. last \in BlockId /\ last \in Range(t) /\ used \in 0..block_size
  <2>1. last \in BlockId /\ last \in Range(t)
    <3> HIDE DEF t
    <3> QED BY <1>5 DEF Range
  <2>2. /\ n + 1 <= k * block_size /\ k * block_size < n + 1 + block_size
        /\ block_size \in Nat
    <3> HIDE DEF k, n
    <3>1. n + 1 \in Nat /\ k = blocks_required(n + 1)
      BY <1>1, <1>5
    <3> QED BY <3>1, BlocksRequired, SizesAssumption
  <2>3. (k - 1) * block_size = k * block_size - block_size /\ k * block_size \in Int
    <3> HIDE DEF k
    <3> QED BY <1>5, <2>2
  <2> HIDE DEF k, n
  <2>4. used \in 0..block_size
    BY <1>1, <1>5, <2>2, <2>3
  <2> QED BY <2>1, <2>4
<1>7. /\ P[s] \in Seq(Int) /\ OwnHashes(c, s, P[s]) /\ Len(P[s]) <= n
      /\ FullChunks(P[s]) < k /\ FullChunks(P[s]) \in Nat
  <2>1. OwnHashes(c, s, P[s]) /\ Len(P[s]) <= n /\ P[s] \in Prompts
    BY <1>1 DEF CacheInv, HashesOwned, OwnHashes
  <2>2. P[s] \in Seq(Int)
    BY <2>1, PromptsAssumption
  <2> QED BY <1>1, <1>5, <2>1, <2>2, PastThePrompt, FullChunksBound
\* The block the token goes to is fresh, or the unhashed last one of the table.
<1>8. /\ c.hash[last] # NoHash => last \in taken
      /\ \A x \in DOMAIN c.tables \ {s} : last \notin Range(c.tables[x].blocks)
  <2>1. CASE grow
    BY <1>3, <1>5, <2>1, TableBlocks
  <2>2. CASE ~grow
    <3>1. t = q /\ k = Len(q) /\ last = q[k] /\ k \in 1..Len(q)
      BY <1>5, <2>2
    <3>2. c.hash[last] = NoHash
      <4>1. \A i \in 1..Len(q) : c.hash[q[i]] # NoHash => i <= FullChunks(P[s])
        BY <1>7 DEF OwnHashes
      <4> HIDE DEF last, k, q
      <4> QED BY <1>5, <1>7, <3>1, <4>1
    <3>3. last \in Range(q)
      BY <1>6, <3>1
    <3> QED BY <1>1, <3>2, <3>3 DEF CacheInv, SharedHashed
  <2> QED BY <2>1, <2>2
<1> HIDE DEF d, n, q, grow, b0, taken, t, k, last, used
<1>9. PartialFunction(d.entries, Hash, Entry) /\ IndexMatches(d)
  <2>1. Unindexed(c, taken) = Unindexed(c, {last})
    <3>1. CASE grow
      BY <1>5, <3>1 DEF taken
    <3>2. CASE ~grow
      <4>1. taken = {} /\ c.hash[last] = NoHash
        BY <1>8, <3>2 DEF taken
      <4>2. \A h \in DOMAIN c.entries : h \in Hash /\ c.hash[c.entries[h].block] = h
        BY DEF CacheInv, CacheType, PartialFunction, IndexMatches
      <4>3. \A h \in DOMAIN c.entries : c.entries[h].block # last
        BY <4>1, <4>2, HashAssumption
      <4> QED BY <4>1, <4>3 DEF Unindexed
    <3> QED BY <3>1, <3>2
  <2>2. \A b \in BlockId \ {last} :
           d.hash[b] = c.hash[b] /\ d.num_tokens[b] = c.num_tokens[b]
    BY <1>2, <1>4
  <2>3. d.entries = Unindexed(c, {last})
    BY <1>4, <2>1
  <2> QED BY <2>2, <2>3, UnindexedKeeps
<1>10. CacheType(d)
  <2>1. d.ref_count \in [BlockId -> Nat]
    <3>1. /\ d.ref_count = [b \in BlockId |-> IF b \in taken THEN 1 ELSE c.ref_count[b]]
          /\ c.ref_count \in [BlockId -> Nat] /\ 1 \in Nat
      BY <1>2, <1>4
    <3> QED BY <3>1
  <2>2. d.num_tokens \in [BlockId -> 0..block_size]
    BY <1>2, <1>4, <1>6, ZenonT(40)
  <2>3. d.hash \in [BlockId -> Hash \cup {NoHash}]
    BY <1>2, <1>4, ZenonT(40)
  <2>4. d.free_list \in Seq(BlockId)
    BY <1>2, <1>3, <1>4
  <2>5. PartialFunction(d.tables, SequenceIds, Table)
    <3>1. [blocks |-> t, num_tokens |-> n + 1] \in Table
      BY <1>1, <1>5 DEF Table
    <3>2. /\ d.tables = [c.tables EXCEPT ![s] = [blocks |-> t, num_tokens |-> n + 1]]
          /\ DOMAIN c.tables \subseteq SequenceIds /\ c.tables \in [DOMAIN c.tables -> Table]
      BY <1>2, <1>4
    <3> QED BY <3>1, <3>2 DEF PartialFunction
  <2>6. PartialFunction(d.entries, Hash, Entry)
    BY <1>9
  <2> QED BY <1>4, <2>1, <2>2, <2>3, <2>4, <2>5, <2>6 DEF CacheType
<1>11. \A x \in DOMAIN c.tables \ {s} : d.tables[x] = c.tables[x]
  BY <1>1, <1>4
<1>12. /\ d.tables[s] = [blocks |-> t, num_tokens |-> n + 1]
       /\ d.tables[s].blocks = t /\ d.tables[s].num_tokens = n + 1
       /\ DOMAIN d.tables = DOMAIN c.tables
  BY <1>1, <1>4
<1>13. CountsMatch(d) /\ IsFiniteSet(DOMAIN d.tables)
  <2>1. IsFiniteSet(DOMAIN d.tables)
    BY <1>12 DEF CacheInv
  <2>2. ASSUME NEW b \in BlockId
        PROVE  d.ref_count[b] = Cardinality(Holders(d, b))
    <3>1. Holders(d, b) = IF b \in Range(t) THEN Holders(c, b) \cup {s}
                          ELSE Holders(c, b) \ {s}
      BY <1>1, <1>11, <1>12 DEF Holders
    <3>2. s \in Holders(c, b) <=> b \in Range(q)
      BY <1>1 DEF Holders, q
    <3>3. CASE b \notin taken
      <4>1. Holders(d, b) = Holders(c, b)
        BY <1>5, <3>1, <3>2, <3>3
      <4> QED BY <1>4, <3>3, <4>1, HolderCount
    <3>4. CASE b \in taken
      <4>1. b \in Range(c.free_list) /\ b \in Range(t)
        BY <1>3, <1>5, <3>4 DEF taken
      <4>2. Holders(c, b) = {}
        BY <4>1, HolderCount
      <4>3. Holders(d, b) = {s}
        BY <3>1, <4>1, <4>2
      <4> QED BY <1>4, <3>4, <4>3, FS_Singleton
    <3> QED BY <3>3, <3>4
  <2> QED BY <2>1, <2>2 DEF CountsMatch
<1>14. FreeListMatches(d)
  <2>1. IsInjective(d.free_list) /\ Range(d.free_list) = Range(c.free_list) \ taken
    BY <1>2, <1>3, <1>4 DEF taken
  <2>2. taken \subseteq BlockId /\ Range(c.free_list) \subseteq BlockId
    BY <1>2, <1>3 DEF taken
  <2>3. \A b \in BlockId : d.ref_count[b] = 0 <=> b \in Range(c.free_list) \ taken
    BY <1>2, <1>4
  <2> QED BY <2>1, <2>2, <2>3 DEF FreeListMatches
<1>15. TablesFit(d)
  <2>1. IsInjective(d.tables[s].blocks)
        /\ Len(d.tables[s].blocks) = blocks_required(d.tables[s].num_tokens)
    BY <1>5, <1>12 DEF k
  <2> QED BY <1>11, <1>12, <2>1 DEF CacheInv, TablesFit
<1>16. \A b \in BlockId \ {last} : d.hash[b] = c.hash[b]
  BY <1>2, <1>4
<1>17. HashesOwned(d, P)
  <2>1. ASSUME NEW x \in DOMAIN c.tables, x # s PROVE OwnHashes(d, x, P[x])
    <3>1. OwnHashes(c, x, P[x]) /\ d.tables[x] = c.tables[x]
      BY <1>11, <2>1 DEF CacheInv, HashesOwned
    <3>2. \A b \in Range(c.tables[x].blocks) : d.hash[b] = c.hash[b]
      BY <1>8, <1>16, <2>1, TableBlocks
    <3> QED BY <3>1, <3>2, OwnHashesKept
  <2>2. OwnHashes(d, s, P[s])
    <3>1. P[s] \in Prompts /\ Len(P[s]) \in Nat /\ Len(P[s]) <= n + 1
      BY <1>1, <1>7 DEF OwnHashes
    <3>2. ASSUME NEW i \in 1..Len(t), d.hash[t[i]] # NoHash
          PROVE  i <= FullChunks(P[s]) /\ d.hash[t[i]] = chain_hash(P[s])[i]
      <4>1. t[i] # last /\ t[i] \in BlockId
        BY <1>2, <1>4, <1>5, <1>6, <3>2
      <4>2. i \in 1..Len(q) /\ t[i] = q[i]
        <5>1. i # k
          BY <4>1 DEF last
        <5>2. Len(q) = k \/ Len(q) = k - 1
          <6>1. ~grow => Len(q) = k
            BY <1>5 DEF k
          <6> QED BY <1>5, <6>1
        <5> QED BY <1>5, <5>1, <5>2 DEF k
      <4>3. c.hash[q[i]] # NoHash => i <= FullChunks(P[s]) /\ c.hash[q[i]] = chain_hash(P[s])[i]
        BY <1>7, <4>2 DEF OwnHashes, q
      <4> QED BY <1>16, <3>2, <4>1, <4>2, <4>3
    <3> QED BY <1>12, <3>1, <3>2 DEF OwnHashes
  <2> QED BY <1>12, <2>1, <2>2 DEF HashesOwned
<1>18. SharedHashed(d)
  <2> SUFFICES ASSUME NEW x \in DOMAIN c.tables, NEW y \in DOMAIN c.tables, x # y,
                      NEW b \in Range(d.tables[x].blocks) \cap Range(d.tables[y].blocks)
               PROVE  d.hash[b] # NoHash
    BY <1>12 DEF SharedHashed
  <2>1. \A z \in DOMAIN c.tables \ {s} :
           b \in Range(d.tables[z].blocks) =>
              /\ b \in Range(c.tables[z].blocks) /\ b \in BlockId
              /\ b # last /\ b \notin Range(c.free_list)
    BY <1>8, <1>11, TableBlocks
  <2>2. b \in BlockId /\ b # last /\ b \notin taken
    BY <1>3, <2>1 DEF taken
  <2>3. b \in Range(d.tables[s].blocks) => b \in Range(c.tables[s].blocks)
    BY <1>5, <1>12, <2>2 DEF q
  <2>4. b \in Range(c.tables[x].blocks) \cap Range(c.tables[y].blocks)
    BY <2>1, <2>3
  <2>5. c.hash[b] # NoHash
    BY <2>4 DEF CacheInv, SharedHashed
  <2> QED BY <1>16, <2>2, <2>5
<1>19. CacheInv(d, P)
  BY <1>9, <1>10, <1>13, <1>14, <1>15, <1>17, <1>18 DEF CacheInv
<1>20. AppendsTo(c, d, s, FullChunks(P[s]))
  <2>1. d.hash[last] = NoHash
    BY <1>2, <1>4, <1>6
  <2>2. OnlyForgets(c, d)
    <3>1. \A b \in BlockId \cap taken : d.hash[b] = NoHash
      BY <1>5, <2>1 DEF taken
    <3> QED BY <1>4, <3>1, UnindexedForgets
  <2>3. \A i \in 1..k : i < k => i \in 1..Len(q)
    <3>1. Len(q) = k \/ Len(q) = k - 1
      <4>1. ~grow => Len(q) = k
        BY <1>5 DEF k
      <4> QED BY <1>5, <4>1
    <3> QED BY <1>5, <3>1
  <2>4. /\ k = Len(t) /\ last = t[Len(t)] /\ q = c.tables[s].blocks
        /\ n = c.tables[s].num_tokens
    BY DEF k, last, q, n
  <2> QED BY <1>5, <1>6, <1>7, <1>11, <1>12, <1>16, <2>1, <2>2, <2>3, <2>4 DEF AppendsTo
<1> QED BY <1>12, <1>19, <1>20 DEF d

-----------------------------------------------------------------------------
(* commit_prefill.                                                          *)

\* A table that covers the prompt has a block for each of its full chunks.
LEMMA ChunksHaveBlocks ==
  ASSUME NEW p \in Seq(Int), NEW n \in Nat, Len(p) <= n
  PROVE  FullChunks(p) <= blocks_required(n)
<1> DEFINE d == block_size
           f == FullChunks(p)
           a == blocks_required(n)
<1>1. /\ d \in Nat /\ d > 0 /\ f \in Nat /\ f * d <= Len(p) /\ Len(p) \in Nat
      /\ a \in Nat /\ n <= a * d
  BY FullChunksBound, BlocksRequired, SizesAssumption
<1> HIDE DEF d, f, a
<1>2. ASSUME a + 1 <= f PROVE FALSE
  <2>1. (a + 1) * d <= f * d
    BY <1>1, <1>2
  <2>2. (a + 1) * d = a * d + d /\ a * d \in Int /\ f * d \in Int
    BY <1>1
  <2>3. a * d + d <= n
    BY <1>1, <2>1, <2>2
  <2> QED BY <1>1, <2>2, <2>3
<1>3. f <= a
  BY <1>1, <1>2
<1> QED BY <1>3 DEF f, a

\* A full chunk lies inside the prompt.
LEMMA ChunkType ==
  ASSUME NEW p \in Seq(Int), NEW i \in 1..FullChunks(p)
  PROVE  Chunk(p, i) \in Seq(Int)
<1> DEFINE d == block_size
           f == FullChunks(p)
<1>1. /\ d \in Nat /\ d > 0 /\ f \in Nat /\ f * d <= Len(p) /\ Len(p) \in Nat
      /\ i \in Nat /\ 1 <= i /\ i <= f
  BY FullChunksBound, SizesAssumption
<1> HIDE DEF d, f
<1>2. i * d <= f * d /\ i * d \in Nat /\ (i - 1) * d \in Nat
  BY <1>1
<1> DEFINE lo == (i - 1) * d + 1
           hi == i * d
<1>3. lo \in Nat /\ lo >= 1 /\ hi \in Nat /\ hi <= Len(p)
  BY <1>1, <1>2
<1> HIDE DEF lo, hi
<1>4. SubSeq(p, lo, hi) \in Seq(Int)
  BY <1>3
<1> QED BY <1>4 DEF lo, hi, d, Chunk

\* d is c after the full blocks of s, whose prompt is p, were published: the
\* index keeps what it has, and what it gains names those blocks.
CommitsPrompt(c, d, s, p) ==
  /\ \A h \in DOMAIN c.entries : h \in DOMAIN d.entries /\ d.entries[h] = c.entries[h]
  /\ \A h \in DOMAIN d.entries \ DOMAIN c.entries :
        /\ s \in DOMAIN c.tables
        /\ \E i \in 1..FullChunks(p) :
              h = chain_hash(p)[i] /\ d.entries[h].block = c.tables[s].blocks[i]
  /\ \A b \in BlockId : d.hash[b] # c.hash[b] =>
        s \in DOMAIN c.tables /\ b \in Range(c.tables[s].blocks)
  /\ \A b \in BlockId : c.hash[b] # NoHash => d.hash[b] = c.hash[b]

LEMMA CommitInv ==
  ASSUME NEW c, NEW P, CacheInv(c, P), NEW s
  PROVE  /\ CacheInv(commit_prefill(c, s, P[s]), P)
         /\ commit_prefill(c, s, P[s]).tables = c.tables
         /\ CommitsPrompt(c, commit_prefill(c, s, P[s]), s, P[s])
<1> DEFINE p == P[s]
           d == commit_prefill(c, s, p)
           full == FullChunks(p)
           h == chain_hash(p)
           q == c.tables[s].blocks
           n == c.tables[s].num_tokens
           Pos(b) == CHOOSE i \in 1..full : q[i] = b
           At(x) == CHOOSE i \in 1..full : h[i] = x
           published == {h[i] : i \in 1..full}
           B == {q[i] : i \in 1..full}
<1>1. CASE ~prefix_caching_enabled \/ s \notin DOMAIN c.tables \/ full = 0
  <2>1. d = c
    BY <1>1 DEF commit_prefill
  <2> HIDE DEF d
  <2>2. CommitsPrompt(c, d, s, p)
    BY <2>1 DEF CommitsPrompt
  <2> QED BY <2>1, <2>2 DEF d
<1>2. CASE ~(~prefix_caching_enabled \/ s \notin DOMAIN c.tables \/ full = 0)
  <2>1. /\ s \in DOMAIN c.tables /\ DOMAIN c = Fields
        /\ q \in Seq(BlockId) /\ n \in Nat /\ IsInjective(q) /\ Len(q) = blocks_required(n)
        /\ c.num_tokens \in [BlockId -> 0..block_size]
        /\ c.hash \in [BlockId -> Hash \cup {NoHash}]
        /\ c.entries \in [DOMAIN c.entries -> Entry] /\ DOMAIN c.entries \subseteq Hash
    BY <1>2, TableBlocks DEF CacheInv, TablesFit, CacheType, PartialFunction
  <2>2. p \in Prompts /\ p \in Seq(Int) /\ Len(p) <= n /\ OwnHashes(c, s, p)
    BY <2>1, PromptsAssumption DEF CacheInv, HashesOwned, OwnHashes
  <2>3. full \in Nat /\ full <= Len(q) /\ Len(q) \in Nat
    BY <2>1, <2>2, FullChunksBound, ChunksHaveBlocks
  <2>4. \A i \in 1..full : q[i] \in BlockId /\ h[i] \in Hash /\ Chunk(p, i) \in Seq(Int)
    BY <2>1, <2>2, <2>3, HashAssumption, ChunkType
  <2>5. \A i \in 1..full : c.hash[q[i]] \in {NoHash, h[i]}
    BY <2>2, <2>3 DEF OwnHashes
  <2>6. \A i \in 1..full, j \in 1..Len(q) : q[i] = q[j] => i = j
    BY <2>1, <2>3 DEF IsInjective
  <2> DEFINE X1 == [b \in BlockId |-> IF b \in B THEN block_size ELSE c.num_tokens[b]]
             X2 == [b \in BlockId |-> IF b \in B THEN h[Pos(b)] ELSE c.hash[b]]
             X3 == [x \in DOMAIN c.entries \cup published |->
                      IF x \in DOMAIN c.entries THEN c.entries[x]
                      ELSE [block |-> q[At(x)], tokens |-> Chunk(p, At(x))]]
  <2>7. d = [c EXCEPT !.num_tokens = X1, !.hash = X2, !.entries = X3]
    BY <1>2 DEF commit_prefill
  <2> HIDE DEF d, X1, X2, X3
  <2>8. /\ DOMAIN d = Fields /\ d = [f \in Fields |-> d[f]]
        /\ d.num_tokens = X1 /\ d.hash = X2 /\ d.entries = X3
        /\ d.ref_count = c.ref_count /\ d.free_list = c.free_list /\ d.tables = c.tables
    BY <2>1, <2>7 DEF Fields
  <2>9. /\ \A i \in 1..full : Pos(q[i]) = i
        /\ \A x \in published : At(x) \in 1..full /\ h[At(x)] = x
    <3>1. ASSUME NEW i \in 1..full PROVE Pos(q[i]) = i
      <4>1. \E j \in 1..full : q[j] = q[i]
        OBVIOUS
      <4>2. Pos(q[i]) \in 1..full /\ q[Pos(q[i])] = q[i]
        BY <4>1
      <4> HIDE DEF Pos, full, q
      <4> QED BY <2>3, <2>6, <4>2
    <3>2. ASSUME NEW x \in published PROVE At(x) \in 1..full /\ h[At(x)] = x
      <4>1. \E j \in 1..full : h[j] = x
        OBVIOUS
      <4> QED BY <4>1
    <3> QED BY <3>1, <3>2
  <2> HIDE DEF p, full, h, q, n, Pos, At
  <2>10. /\ \A i \in 1..full : q[i] \in B /\ d.hash[q[i]] = h[i] /\ d.num_tokens[q[i]] = block_size
         /\ \A b \in BlockId \ B : d.hash[b] = c.hash[b] /\ d.num_tokens[b] = c.num_tokens[b]
    BY <2>4, <2>8, <2>9, SMTT(30) DEF X1, X2
  \* A hash that was there stays.
  <2>11. \A b \in BlockId : /\ c.hash[b] # NoHash => d.hash[b] = c.hash[b]
                            /\ c.num_tokens[b] = block_size => d.num_tokens[b] = block_size
    BY <2>5, <2>10
  <2>12. PartialFunction(d.entries, Hash, Entry) /\ IndexMatches(d)
    <3>1. \A x \in published : [block |-> q[At(x)], tokens |-> Chunk(p, At(x))] \in Entry
      BY <2>4, <2>9 DEF Entry
    <3>2. published \subseteq Hash
      BY <2>4
    <3>3. PartialFunction(d.entries, Hash, Entry)
      <4>1. d.entries \in [DOMAIN c.entries \cup published -> Entry]
        <5> DEFINE e(x) == [block |-> q[At(x)], tokens |-> Chunk(p, At(x))]
        <5>1. d.entries = [x \in DOMAIN c.entries \cup published |->
                             IF x \in DOMAIN c.entries THEN c.entries[x] ELSE e(x)]
          BY <2>8 DEF X3
        <5>2. \A x \in published : e(x) \in Entry
          BY <3>1
        <5>3. \A x \in DOMAIN c.entries : c.entries[x] \in Entry
          BY <2>1
        <5> HIDE DEF e, published
        <5> QED BY <5>1, <5>2, <5>3
      <4> QED BY <2>1, <3>2, <4>1 DEF PartialFunction
    <3>4. ASSUME NEW x \in DOMAIN c.entries
          PROVE  d.hash[d.entries[x].block] = x /\ d.num_tokens[d.entries[x].block] = block_size
      <4>1. d.entries[x] = c.entries[x]
        BY <2>8 DEF X3
      <4>2. /\ c.entries[x].block \in BlockId /\ x # NoHash
            /\ c.hash[c.entries[x].block] = x /\ c.num_tokens[c.entries[x].block] = block_size
        BY <2>1, HashAssumption DEF Entry, CacheInv, IndexMatches
      <4> QED BY <2>11, <4>1, <4>2
    <3>5. ASSUME NEW x \in published \ DOMAIN c.entries
          PROVE  d.hash[d.entries[x].block] = x /\ d.num_tokens[d.entries[x].block] = block_size
      <4>1. d.entries[x].block = q[At(x)]
        BY <2>8 DEF X3
      <4> QED BY <2>9, <2>10, <4>1
    <3>6. DOMAIN d.entries = DOMAIN c.entries \cup published
      BY <2>8 DEF X3
    <3> QED BY <3>3, <3>4, <3>5, <3>6 DEF IndexMatches
  <2>13. CacheType(d)
    <3>1. block_size \in 0..block_size
      BY SizesAssumption
    <3>2. d.num_tokens \in [BlockId -> 0..block_size]
      BY <2>1, <2>8, <3>1 DEF X1
    <3>3. d.hash \in [BlockId -> Hash \cup {NoHash}]
      <4>1. \A b \in B : h[Pos(b)] \in Hash
        BY <2>4, <2>9
      <4> QED BY <2>1, <2>8, <4>1 DEF X2
    <3> QED BY <2>8, <2>12, <3>2, <3>3 DEF CacheInv, CacheType
  <2>14. /\ CountsMatch(d) /\ FreeListMatches(d) /\ TablesFit(d)
         /\ IsFiniteSet(DOMAIN d.tables)
    BY <2>8 DEF CacheInv, CountsMatch, Holders, FreeListMatches, TablesFit
  <2>15. OwnHashes(d, s, P[s])
    <3>1. ASSUME NEW i \in 1..Len(q), d.hash[q[i]] # NoHash
          PROVE  i <= full /\ d.hash[q[i]] = h[i]
      <4>1. CASE i \in 1..full
        BY <2>3, <2>10, <4>1
      <4>2. CASE i \notin 1..full
        <5>1. q[i] \notin B /\ q[i] \in BlockId
          BY <2>1, <2>6, <4>2
        <5>2. c.hash[q[i]] # NoHash
          BY <2>10, <3>1, <5>1
        <5>3. i <= full
          BY <2>2, <5>2 DEF OwnHashes, full, q
        <5> QED BY <2>3, <4>2, <5>3
      <4> QED BY <4>1, <4>2
    <3> QED BY <2>2, <2>8, <3>1 DEF OwnHashes, p, full, h, q, n
  <2>16. ASSUME NEW x \in DOMAIN c.tables, x # s PROVE OwnHashes(d, x, P[x])
    <3>1. \A b \in Range(c.tables[x].blocks) : d.hash[b] = c.hash[b]
      <4> SUFFICES ASSUME NEW b \in Range(c.tables[x].blocks), c.hash[b] = NoHash
                   PROVE  d.hash[b] = c.hash[b]
        BY <2>11, TableBlocks
      <4>1. b \notin Range(q) /\ b \in BlockId
        BY <2>1, <2>16, TableBlocks DEF CacheInv, SharedHashed, q
      <4>2. \A i \in 1..full : q[i] \in Range(q)
        BY <2>1, <2>3 DEF Range
      <4> QED BY <2>10, <4>1, <4>2
    <3> QED BY <2>8, <3>1, OwnHashesKept DEF CacheInv, HashesOwned
  <2>17. HashesOwned(d, P)
    BY <2>8, <2>15, <2>16 DEF HashesOwned
  <2>18. SharedHashed(d)
    <3>1. \A x \in DOMAIN c.tables : Range(c.tables[x].blocks) \subseteq BlockId
      BY TableBlocks
    <3> QED BY <2>8, <2>11, <3>1 DEF CacheInv, SharedHashed
  <2>19. CacheInv(d, P)
    BY <2>12, <2>13, <2>14, <2>17, <2>18 DEF CacheInv
  <2>20. CommitsPrompt(c, d, s, p)
    <3>1. /\ DOMAIN d.entries = DOMAIN c.entries \cup published
          /\ \A x \in DOMAIN c.entries : d.entries[x] = c.entries[x]
          /\ \A x \in published \ DOMAIN c.entries : d.entries[x].block = q[At(x)]
      BY <2>8 DEF X3
    <3>2. \A x \in published \ DOMAIN c.entries :
             At(x) \in 1..full /\ x = h[At(x)] /\ d.entries[x].block = q[At(x)]
      BY <2>9, <3>1
    <3>3. B \subseteq Range(q)
      BY <2>1, <2>3 DEF Range
    <3>4. \A b \in BlockId : d.hash[b] # c.hash[b] => b \in Range(q)
      BY <2>10, <3>3
    <3> HIDE DEF published, B
    <3> QED BY <2>1, <2>11, <3>1, <3>2, <3>4 DEF CommitsPrompt, full, h, q
  <2> QED BY <2>8, <2>19, <2>20 DEF d, p
<1> QED BY <1>1, <1>2

-----------------------------------------------------------------------------
(* allocate.                                                                *)

\* A nonempty set of indices has a smallest member.
LEMMA SmallestIndex ==
  ASSUME NEW n \in Nat, NEW I \in SUBSET (1..n), I # {}
  PROVE  \E m \in I : \A i \in I : m <= i
<1>1. /\ Cardinality(I) \in Nat
      /\ \A k \in 1..Cardinality(I) : Nth(I, k) \in I
      /\ \A k, l \in 1..Cardinality(I) : k < l => Nth(I, k) < Nth(I, l)
      /\ \A i \in I : \E k \in 1..Cardinality(I) : Nth(I, k) = i
  BY NthProperties
<1>2. 1 \in 1..Cardinality(I)
  <2>1. PICK i \in I : TRUE
    OBVIOUS
  <2>2. PICK k \in 1..Cardinality(I) : Nth(I, k) = i
    BY <1>1, <2>1
  <2> QED BY <1>1, <2>2
<1>3. ASSUME NEW i \in I PROVE Nth(I, 1) <= i
  <2>1. PICK k \in 1..Cardinality(I) : Nth(I, k) = i
    BY <1>1
  <2>2. k = 1 \/ 1 < k
    BY <1>1
  <2>3. Nth(I, 1) \in Int /\ i \in Int
    <3>1. Nth(I, 1) \in I /\ i \in I
      BY <1>1, <1>2
    <3>2. \A x \in I : x \in Int
      OBVIOUS
    <3> QED BY <3>1, <3>2
  <2> QED BY <1>1, <1>2, <2>1, <2>2, <2>3
<1> QED BY <1>1, <1>2, <1>3

\* Where still_matching stops: every lookup up to there was a hit.
LEMMA ReusedHits ==
  ASSUME NEW c, NEW p \in Seq(Int)
  PROVE  /\ Reused(c, p) \in 0..FullChunks(p)
         /\ \A i \in 1..Reused(c, p) : lookup(c, p, i)
<1> DEFINE f == FullChunks(p)
           Hit(i) == lookup(c, p, i)
           Stop(k) == /\ \A i \in 1..k : Hit(i)
                      /\ k < f => ~Hit(k + 1)
           I == {i \in 1..f : ~Hit(i)}
<1>1. f \in Nat
  BY FullChunksBound
<1>2. CASE ~prefix_caching_enabled
  BY <1>1, <1>2 DEF Reused
<1>3. CASE prefix_caching_enabled
  <2>1. \E k \in 0..f : Stop(k)
    <3> HIDE DEF f, Hit
    <3>1. CASE I = {}
      <4>1. f \in 0..f /\ Stop(f)
        BY <1>1, <3>1
      <4> QED BY <4>1
    <3>2. CASE I # {}
      <4>1. PICK m \in I : \A i \in I : m <= i
        BY <1>1, <3>2, SmallestIndex
      <4>2. m \in 1..f /\ ~Hit(m) /\ m - 1 \in 0..f /\ (m - 1) + 1 = m
        BY <1>1, <4>1
      <4>3. \A i \in 1..(m - 1) : Hit(i)
        BY <1>1, <4>1, <4>2
      <4>4. Stop(m - 1)
        BY <4>2, <4>3
      <4> QED BY <4>2, <4>4
    <3> QED BY <3>1, <3>2
  <2>2. Reused(c, p) = CHOOSE k \in 0..f : Stop(k)
    BY <1>3 DEF Reused
  <2> HIDE DEF f, Hit
  <2>3. Reused(c, p) \in 0..f /\ Stop(Reused(c, p))
    BY <2>1, <2>2
  <2> QED BY <2>3 DEF f, Hit
<1> QED BY <1>2, <1>3

\* Cutting a sequence without repetitions in two.
LEMMA SplitInjective ==
  ASSUME NEW S, NEW q \in Seq(S), IsInjective(q), NEW m \in 0..Len(q)
  PROVE  LET a == SubSeq(q, 1, m)
             b == SubSeq(q, m + 1, Len(q))
         IN  /\ a \in Seq(S) /\ b \in Seq(S) /\ Len(a) = m
             /\ IsInjective(a) /\ IsInjective(b)
             /\ Range(a) \cap Range(b) = {} /\ Range(a) \cup Range(b) = Range(q)
<1> DEFINE a == SubSeq(q, 1, m)
           b == SubSeq(q, m + 1, Len(q))
           l == Len(q)
<1>1. /\ l \in Nat /\ m \in Nat /\ m <= l /\ DOMAIN q = 1..l
      /\ \A i, j \in 1..l : q[i] = q[j] => i = j
      /\ \A i \in 1..l : q[i] \in S
  BY LenProperties DEF IsInjective
<1>2. /\ a \in Seq(S) /\ Len(a) = m /\ DOMAIN a = 1..m
      /\ \A i \in 1..m : a[i] = q[i]
  BY <1>1
<1>3. /\ b \in Seq(S) /\ Len(b) = l - m /\ DOMAIN b = 1..(l - m)
      /\ \A i \in 1..(l - m) : b[i] = q[m + i]
  <2>1. m + 1 \in Int /\ l \in Int /\ m + 1 >= 1 /\ l <= Len(q)
    BY <1>1
  <2> HIDE DEF l
  <2>2. SubSeq(q, m + 1, l) = [i \in 1..(l - (m + 1) + 1) |-> q[i + (m + 1) - 1]]
    BY <2>1 DEF l
  <2>3. \A i \in 1..(l - m) : i + (m + 1) - 1 = m + i /\ m + i \in 1..l
    BY <1>1
  <2>4. l - (m + 1) + 1 = l - m /\ l - m \in Nat
    BY <1>1
  <2>5. b = [i \in 1..(l - m) |-> q[i + (m + 1) - 1]]
    BY <2>2, <2>4 DEF l
  <2> HIDE DEF b
  <2>6. DOMAIN b = 1..(l - m) /\ \A i \in 1..(l - m) : b[i] = q[m + i] /\ b[i] \in S
    BY <1>1, <2>3, <2>5
  <2>7. b \in [1..(l - m) -> S]
    BY <2>5, <2>6
  <2> QED BY <2>4, <2>6, <2>7
<1> HIDE DEF a, b, l
<1>4. IsInjective(a)
  BY <1>1, <1>2 DEF IsInjective
<1>5. IsInjective(b)
  <2> SUFFICES ASSUME NEW i \in 1..(l - m), NEW j \in 1..(l - m), b[i] = b[j]
               PROVE  i = j
    BY <1>3 DEF IsInjective
  <2>1. m + i \in 1..l /\ m + j \in 1..l /\ q[m + i] = q[m + j]
    BY <1>1, <1>3
  <2> QED BY <1>1, <2>1
<1>6. /\ Range(a) = {q[i] : i \in 1..m}
      /\ Range(b) = {q[i] : i \in (m + 1)..l}
      /\ Range(q) = {q[i] : i \in 1..l}
  <2>1. Range(a) = {q[i] : i \in 1..m}
    BY <1>2 DEF Range
  <2>2. Range(b) = {q[i] : i \in (m + 1)..l}
    <3>1. \A i \in 1..(l - m) : m + i \in (m + 1)..l /\ b[i] = q[m + i]
      BY <1>1, <1>3
    <3>2. \A j \in (m + 1)..l : j - m \in 1..(l - m) /\ q[j] = b[j - m]
      BY <1>1, <1>3
    <3>3. Range(b) = {b[i] : i \in 1..(l - m)}
      BY <1>3 DEF Range
    <3>4. \A x \in Range(b) : x \in {q[i] : i \in (m + 1)..l}
      BY <3>1, <3>3
    <3>5. \A x \in {q[i] : i \in (m + 1)..l} : x \in Range(b)
      BY <3>2, <3>3
    <3> QED BY <3>4, <3>5
  <2>3. Range(q) = {q[i] : i \in 1..l}
    BY <1>1 DEF Range
  <2> QED BY <2>1, <2>2, <2>3
<1>7. Range(a) \cap Range(b) = {}
  BY <1>1, <1>6
<1>8. Range(a) \cup Range(b) = Range(q)
  BY <1>1, <1>6
<1> QED BY <1>2, <1>3, <1>4, <1>5, <1>7, <1>8 DEF a, b, l

\* The adopted blocks carry the prompt's hashes, one block each.
LEMMA AdoptedBlocks ==
  ASSUME NEW c, NEW P, CacheInv(c, P), NEW p \in Prompts
  PROVE  LET a == Adopted(c, p)
             r == Reused(c, p)
         IN  /\ a \in Seq(BlockId) /\ Len(a) = r /\ r \in Nat /\ r <= FullChunks(p)
             /\ IsInjective(a) /\ Range(a) \subseteq BlockId
             /\ \A i \in 1..r : c.hash[a[i]] = chain_hash(p)[i]
             /\ \A b \in Range(a) : c.hash[b] # NoHash
<1> DEFINE a == Adopted(c, p)
           r == Reused(c, p)
           h == chain_hash(p)
           f == FullChunks(p)
<1>1. /\ p \in Seq(Int) /\ f \in Nat /\ r \in 0..f
      /\ \A i \in 1..r : lookup(c, p, i)
  BY PromptsAssumption, FullChunksBound, ReusedHits
<1>2. /\ a = [i \in 1..r |-> c.entries[h[i]].block]
      /\ \A i \in 1..r : h[i] \in DOMAIN c.entries
  BY <1>1 DEF Adopted, lookup
<1>3. \A x \in DOMAIN c.entries : /\ c.entries[x].block \in BlockId
                                  /\ c.hash[c.entries[x].block] = x /\ x \in Hash
  BY DEF CacheInv, CacheType, PartialFunction, IndexMatches, Entry
<1>4. \A i, j \in 1..f : h[i] = h[j] => i = j
  BY CollisionFreeAssumption
<1> HIDE DEF a, r, h, f
<1>5. /\ DOMAIN a = 1..r /\ r \in Nat /\ r <= f
      /\ \A i \in 1..r : a[i] \in BlockId /\ c.hash[a[i]] = h[i] /\ h[i] \in Hash
  BY <1>1, <1>2, <1>3
<1>6. a \in Seq(BlockId) /\ Len(a) = r
  <2>1. a \in [1..r -> BlockId]
    BY <1>2, <1>5
  <2> QED BY <1>5, <2>1
<1>7. IsInjective(a)
  <2>1. \A i, j \in 1..r : a[i] = a[j] => i = j
    BY <1>1, <1>4, <1>5
  <2> QED BY <1>5, <2>1 DEF IsInjective
<1>8. \A b \in Range(a) : b \in BlockId /\ c.hash[b] # NoHash
  <2>1. \A b \in Range(a) : \E i \in 1..r : b = a[i]
    BY <1>5 DEF Range
  <2> QED BY <1>5, <2>1, HashAssumption
<1> QED BY <1>5, <1>6, <1>7, <1>8 DEF a, r, h, f

\* The admission check counts no reuse, and is enough: adoption takes at most
\* as many blocks off the free list as it saves.
LEMMA AllocationRoom ==
  ASSUME NEW c, NEW P, CacheInv(c, P), NEW p \in Prompts, can_allocate(c, Len(p))
  PROVE  LET F == FreeAfterAdoption(c, p)
         IN  /\ F \in Seq(BlockId) /\ IsInjective(F)
             /\ Range(F) = Range(c.free_list) \ Range(Adopted(c, p))
             /\ FreshNeeded(c, p) \in 0..Len(F)
<1> DEFINE F == FreeAfterAdoption(c, p)
           A == Range(Adopted(c, p))
           r == Reused(c, p)
           k == blocks_required(Len(p))
           L == c.free_list
<1>1. L \in Seq(BlockId) /\ IsInjective(L)
  BY DEF CacheInv, CacheType, FreeListMatches
<1>2. /\ Adopted(c, p) \in Seq(BlockId) /\ IsInjective(Adopted(c, p))
      /\ Len(Adopted(c, p)) = r /\ r \in Nat /\ r <= FullChunks(p)
  BY AdoptedBlocks
<1>3. F \in Seq(BlockId) /\ Range(F) = Range(L) \ A /\ IsInjective(F)
  <2>1. /\ F \in Seq(BlockId) /\ Range(F) = Range(L) \cap (BlockId \ A)
        /\ IsInjective(F)
    BY <1>1, FilterType, FilterInjective DEF FreeAfterAdoption
  <2>2. Range(L) \subseteq BlockId
    BY <1>1 DEF Range
  <2> QED BY <2>1, <2>2
<1>4. /\ IsFiniteSet(Range(L)) /\ Cardinality(Range(L)) = Len(L)
      /\ IsFiniteSet(A) /\ Cardinality(A) = r
      /\ Cardinality(Range(F)) = Len(F)
  BY <1>1, <1>2, <1>3, InjectiveLength
<1>5. k \in Nat /\ r <= k /\ k <= Len(L) /\ Len(L) \in Nat /\ Len(F) \in Nat
  <2>1. p \in Seq(Int)
    BY PromptsAssumption
  <2>2. /\ FullChunks(p) \in Nat /\ FullChunks(p) <= k /\ Len(p) \in Nat
    BY <2>1, FullChunksBound
  <2>3. k \in Nat
    BY <2>2, BlocksRequired
  <2>4. k <= Len(L)
    BY DEF can_allocate, num_free
  <2>5. Len(L) \in Nat /\ Len(F) \in Nat
    BY <1>1, <1>3
  <2> HIDE DEF k, r
  <2> QED BY <1>2, <2>2, <2>3, <2>4, <2>5
<1>6. /\ Cardinality(Range(L) \ A) = Cardinality(Range(L)) - Cardinality(Range(L) \cap A)
      /\ Cardinality(Range(L) \cap A) <= Cardinality(A)
      /\ Cardinality(Range(L) \cap A) \in Nat
  <2> HIDE DEF A, L
  <2>1. Range(L) \cap A \in SUBSET A
    OBVIOUS
  <2> QED BY <1>4, <2>1, FS_Difference, FS_Subset, FS_CardinalityType
<1>7. FreshNeeded(c, p) = k - r
  BY DEF FreshNeeded
<1> HIDE DEF F, A, r, k, L
<1>8. Len(F) >= Len(L) - r
  BY <1>2, <1>3, <1>4, <1>5, <1>6
<1>9. FreshNeeded(c, p) \in 0..Len(F)
  BY <1>2, <1>5, <1>7, <1>8
<1> QED BY <1>3, <1>9 DEF F, A, L

\* The tokens recorded for a fresh block fit in it.
LEMMA ChunkLenType ==
  ASSUME NEW p \in Seq(Int), NEW i \in 1..blocks_required(Len(p))
  PROVE  ChunkLen(p, i) \in 0..block_size
<1> DEFINE d == block_size
           n == Len(p)
           k == blocks_required(n)
           m == IF i * d <= n THEN i * d ELSE n
<1>1. /\ d \in Nat /\ d > 0 /\ n \in Nat /\ k \in Nat /\ i \in Nat /\ 1 <= i /\ i <= k
      /\ k * d < n + d
  BY BlocksRequired, SizesAssumption
<1>2. Prefix(p, i) = SubSeq(p, 1, m)
  BY DEF Prefix
<1> HIDE DEF d, n, k
<1>3. /\ i * d \in Nat /\ i * d <= k * d /\ (i - 1) * d = i * d - d /\ k * d \in Nat
      /\ (i - 1) * d \in Nat
  BY <1>1
<1>4. m \in 0..n /\ m - (i - 1) * d \in 0..d
  BY <1>1, <1>3
<1> HIDE DEF m
<1>5. Len(SubSeq(p, 1, m)) = m
  BY <1>1, <1>4 DEF n
<1>6. ChunkLen(p, i) = m - (i - 1) * d
  BY <1>2, <1>5 DEF ChunkLen, d
<1> QED BY <1>4, <1>6 DEF d

\* d is c after s was given a table for p: the blocks the index offered, then
\* fresh ones, and nothing else moves.
Adopts(c, d, s, p) ==
  LET t == d.tables[s].blocks IN
  /\ OnlyForgets(c, d)
  /\ \A x \in DOMAIN c.tables :
        /\ x # s /\ d.tables[x] = c.tables[x]
        /\ \A b \in Range(c.tables[x].blocks) : d.hash[b] = c.hash[b]
  /\ d.tables[s].num_tokens = Len(p)
  /\ \A i \in 1..Reused(c, p) :
        /\ chain_hash(p)[i] \in DOMAIN c.entries
        /\ t[i] = c.entries[chain_hash(p)[i]].block
  /\ \A i \in 1..Len(t) : i > Reused(c, p) => d.hash[t[i]] = NoHash

LEMMA AllocateInv ==
  ASSUME NEW c, NEW P, CacheInv(c, P), NEW s \in SequenceIds, NEW p \in Prompts,
         allocate_ok(c, s, p), NEW Q, Q[s] = p, \A x \in DOMAIN c.tables : Q[x] = P[x]
  PROVE  /\ CacheInv(allocate(c, s, p), Q)
         /\ DOMAIN allocate(c, s, p).tables = DOMAIN c.tables \cup {s}
         /\ Adopts(c, allocate(c, s, p), s, p)
<1> DEFINE a == Adopted(c, p)
           r == Reused(c, p)
           F == FreeAfterAdoption(c, p)
           m == FreshNeeded(c, p)
           e == SubSeq(F, 1, m)
           g == SubSeq(F, m + 1, Len(F))
           t == a \o e
           Pos(b) == CHOOSE i \in 1..Len(t) : t[i] = b
           h == chain_hash(p)
           d == allocate(c, s, p)
<1>1. /\ s \notin DOMAIN c.tables /\ can_allocate(c, Len(p))
      /\ p \in Seq(Int) /\ Len(p) \in Nat
  BY PromptsAssumption DEF allocate_ok
<1>2. /\ a \in Seq(BlockId) /\ Len(a) = r /\ r \in Nat /\ r <= FullChunks(p)
      /\ IsInjective(a) /\ Range(a) \subseteq BlockId
      /\ \A i \in 1..r : c.hash[a[i]] = h[i]
      /\ \A b \in Range(a) : c.hash[b] # NoHash
  BY AdoptedBlocks
<1>3. /\ F \in Seq(BlockId) /\ IsInjective(F) /\ Range(F) = Range(c.free_list) \ Range(a)
      /\ m \in 0..Len(F)
  BY <1>1, AllocationRoom
<1>4. /\ e \in Seq(BlockId) /\ g \in Seq(BlockId) /\ Len(e) = m
      /\ IsInjective(e) /\ IsInjective(g)
      /\ Range(e) \cap Range(g) = {} /\ Range(e) \cup Range(g) = Range(F)
  <2> HIDE DEF F, m
  <2> QED BY <1>3, SplitInjective
<1>5. /\ DOMAIN c = Fields /\ c.free_list \in Seq(BlockId)
      /\ c.ref_count \in [BlockId -> Nat] /\ c.hash \in [BlockId -> Hash \cup {NoHash}]
      /\ c.num_tokens \in [BlockId -> 0..block_size]
      /\ DOMAIN c.tables \subseteq SequenceIds /\ c.tables \in [DOMAIN c.tables -> Table]
      /\ Range(c.free_list) = {b \in BlockId : c.ref_count[b] = 0}
  BY DEF CacheInv, CacheType, FreeListMatches, PartialFunction
<1>6. /\ DOMAIN d = Fields /\ d = [f \in Fields |-> d[f]]
      /\ d.ref_count = [b \in BlockId |-> IF b \in Range(e) THEN 1
            ELSE IF b \in Range(a) THEN c.ref_count[b] + 1 ELSE c.ref_count[b]]
      /\ d.num_tokens = [b \in BlockId |->
            IF b \in Range(e) THEN ChunkLen(p, Pos(b)) ELSE c.num_tokens[b]]
      /\ d.hash = [b \in BlockId |-> IF b \in Range(e) THEN NoHash ELSE c.hash[b]]
      /\ d.free_list = g
      /\ d.entries = Unindexed(c, Range(e))
      /\ d.tables = [x \in DOMAIN c.tables \cup {s} |->
            IF x = s THEN [blocks |-> t, num_tokens |-> Len(p)] ELSE c.tables[x]]
  <2> DEFINE X1 == [b \in BlockId |-> IF b \in Range(e) THEN 1
                      ELSE IF b \in Range(a) THEN c.ref_count[b] + 1 ELSE c.ref_count[b]]
             X2 == [b \in BlockId |->
                      IF b \in Range(e) THEN ChunkLen(p, Pos(b)) ELSE c.num_tokens[b]]
             X3 == [b \in BlockId |-> IF b \in Range(e) THEN NoHash ELSE c.hash[b]]
             X4 == g
             X5 == Unindexed(c, Range(e))
             X6 == [x \in DOMAIN c.tables \cup {s} |->
                      IF x = s THEN [blocks |-> t, num_tokens |-> Len(p)] ELSE c.tables[x]]
  <2>1. d = [c EXCEPT !.ref_count = X1, !.num_tokens = X2, !.hash = X3,
                      !.free_list = X4, !.entries = X5, !.tables = X6]
    BY DEF allocate, Fresh
  <2> HIDE DEF d, X1, X2, X3, X4, X5, X6
  <2>2. /\ DOMAIN d = Fields /\ d = [f \in Fields |-> d[f]]
        /\ d.ref_count = X1 /\ d.num_tokens = X2 /\ d.hash = X3
        /\ d.free_list = X4 /\ d.entries = X5 /\ d.tables = X6
    BY <1>5, <2>1 DEF Fields
  <2> QED BY <2>2 DEF X1, X2, X3, X4, X5, X6
<1>7. m = blocks_required(Len(p)) - r /\ blocks_required(Len(p)) \in Nat
  BY <1>1, BlocksRequired DEF FreshNeeded
<1> HIDE DEF a, r, F, m, e, g, h, d
<1>8. Range(e) \subseteq Range(c.free_list) \ Range(a) /\ Range(e) \subseteq BlockId
  BY <1>3, <1>4, <1>5
<1>9. /\ t \in Seq(BlockId) /\ Len(t) = blocks_required(Len(p)) /\ IsInjective(t)
      /\ Range(t) = Range(a) \cup Range(e) /\ Len(t) \in Nat
      /\ \A i \in 1..r : t[i] = a[i]
      /\ \A i \in 1..Len(t) : i > r => t[i] \in Range(e)
  <2>1. Range(a) \cap Range(e) = {}
    BY <1>8
  <2>2. IsInjective(t) /\ Range(t) = Range(a) \cup Range(e) /\ t \in Seq(BlockId)
    BY <1>2, <1>4, <2>1, InjectiveConcat, RangeConcat
  <2>3. m \in Nat
    BY <1>3, <1>4
  <2>4. /\ Len(t) = r + m /\ \A i \in 1..r : t[i] = a[i]
        /\ \A i \in 1..m : t[r + i] = e[i]
    BY <1>2, <1>4, SMTT(30)
  <2>5. \A i \in 1..m : e[i] \in Range(e)
    BY <1>4 DEF Range
  <2> HIDE DEF t
  <2>6. ASSUME NEW i \in 1..Len(t), i > r PROVE t[i] \in Range(e)
    <3>1. i - r \in 1..m /\ r + (i - r) = i
      BY <1>2, <2>3, <2>4, <2>6
    <3>2. t[r + (i - r)] = e[i - r]
      BY <2>4, <3>1
    <3> QED BY <2>5, <3>1, <3>2
  <2> QED BY <1>2, <1>7, <2>2, <2>3, <2>4, <2>6
<1>10. \A b \in Range(t) : Pos(b) \in 1..blocks_required(Len(p))
  <2>1. \A b \in Range(t) : \E i \in 1..Len(t) : t[i] = b
    <3> HIDE DEF t
    <3> QED BY <1>9 DEF Range
  <2> HIDE DEF t
  <2> QED BY <1>9, <2>1
<1> HIDE DEF t, Pos
<1>11. /\ DOMAIN d.tables = DOMAIN c.tables \cup {s}
       /\ d.tables[s].blocks = t /\ d.tables[s].num_tokens = Len(p)
       /\ \A x \in DOMAIN c.tables : d.tables[x] = c.tables[x] /\ x # s
  BY <1>1, <1>6, SMTT(30)
\* The blocks of the other tables are not free, so not among the fresh ones.
<1>12. \A x \in DOMAIN c.tables : \A b \in Range(c.tables[x].blocks) :
          b \in BlockId /\ b \notin Range(e) /\ d.hash[b] = c.hash[b]
  BY <1>6, <1>8, TableBlocks
<1>13. PartialFunction(d.entries, Hash, Entry) /\ IndexMatches(d)
  <2>1. \A b \in BlockId \ Range(e) :
           d.hash[b] = c.hash[b] /\ d.num_tokens[b] = c.num_tokens[b]
    BY <1>6
  <2>2. d.entries = Unindexed(c, Range(e))
    BY <1>6
  <2> QED BY <2>1, <2>2, UnindexedKeeps
<1>14. CacheType(d)
  <2>1. d.ref_count \in [BlockId -> Nat]
    <3>1. /\ DOMAIN d.ref_count = BlockId
          /\ d.ref_count = [b \in BlockId |-> d.ref_count[b]]
      BY <1>6
    <3>2. \A b \in BlockId : d.ref_count[b] \in {1, c.ref_count[b], c.ref_count[b] + 1}
      BY <1>6
    <3>3. \A b \in BlockId : c.ref_count[b] \in Nat
      BY <1>5
    <3>4. \A b \in BlockId : d.ref_count[b] \in Nat
      BY <3>2, <3>3
    <3> QED BY <3>1, <3>4
  <2>2. d.num_tokens \in [BlockId -> 0..block_size]
    <3>1. \A b \in Range(e) : ChunkLen(p, Pos(b)) \in 0..block_size
      BY <1>1, <1>9, <1>10, ChunkLenType
    <3>2. \A b \in BlockId : c.num_tokens[b] \in 0..block_size
      BY <1>5
    <3>3. d.num_tokens = [b \in BlockId |->
             IF b \in Range(e) THEN ChunkLen(p, Pos(b)) ELSE c.num_tokens[b]]
      BY <1>6
    <3> QED BY <3>1, <3>2, <3>3
  <2>3. d.hash \in [BlockId -> Hash \cup {NoHash}]
    BY <1>5, <1>6
  <2>4. PartialFunction(d.tables, SequenceIds, Table)
    <3>1. [blocks |-> t, num_tokens |-> Len(p)] \in Table
      BY <1>1, <1>9 DEF Table
    <3>2. d.tables \in [DOMAIN c.tables \cup {s} -> Table]
      <4> DEFINE v == [blocks |-> t, num_tokens |-> Len(p)]
      <4>1. \A x \in DOMAIN c.tables : c.tables[x] \in Table
        BY <1>5
      <4>2. d.tables = [x \in DOMAIN c.tables \cup {s} |-> IF x = s THEN v ELSE c.tables[x]]
        BY <1>6
      <4>3. v \in Table
        BY <3>1
      <4> HIDE DEF v
      <4> QED BY <4>1, <4>2, <4>3
    <3> QED BY <1>5, <1>11, <3>2 DEF PartialFunction
  <2> QED BY <1>4, <1>6, <1>13, <2>1, <2>2, <2>3, <2>4 DEF CacheType
<1>15. IsFiniteSet(DOMAIN d.tables)
  BY <1>11, FS_AddElement DEF CacheInv
<1>16. CountsMatch(d)
  <2> SUFFICES ASSUME NEW b \in BlockId
               PROVE  d.ref_count[b] = Cardinality(Holders(d, b))
    BY DEF CountsMatch
  <2>1. Holders(d, b) = IF b \in Range(t) THEN Holders(c, b) \cup {s} ELSE Holders(c, b)
    BY <1>1, <1>11 DEF Holders
  <2>2. /\ IsFiniteSet(Holders(c, b)) /\ c.ref_count[b] = Cardinality(Holders(c, b))
        /\ (b \in Range(c.free_list) => Holders(c, b) = {}) /\ s \notin Holders(c, b)
    BY <1>1, HolderCount DEF Holders
  <2>3. Cardinality(Holders(c, b) \cup {s}) = Cardinality(Holders(c, b)) + 1
    BY <2>2, FS_AddElement
  <2>4. CASE b \in Range(e)
    <3>1. Holders(d, b) = {s}
      BY <1>8, <1>9, <2>1, <2>2, <2>4
    <3> QED BY <1>6, <2>4, <3>1, FS_Singleton
  <2>5. CASE b \notin Range(e)
    BY <1>6, <1>9, <2>1, <2>2, <2>3, <2>5
  <2> QED BY <2>4, <2>5
<1>17. FreeListMatches(d)
  <2>1. Range(g) = (Range(c.free_list) \ Range(a)) \ Range(e)
    BY <1>3, <1>4
  <2>2. \A b \in BlockId : d.ref_count[b] = 0 <=> b \in Range(g)
    BY <1>5, <1>6, <2>1
  <2>3. Range(g) \subseteq BlockId
    BY <1>5, <2>1
  <2> QED BY <1>4, <1>6, <2>2, <2>3, ZenonT(40) DEF FreeListMatches
<1>18. TablesFit(d)
  BY <1>9, <1>11 DEF CacheInv, TablesFit
<1>19. OwnHashes(d, s, Q[s])
  <2>1. ASSUME NEW i \in 1..Len(t), d.hash[t[i]] # NoHash
        PROVE  i <= FullChunks(p) /\ d.hash[t[i]] = h[i]
    <3>1. t[i] \notin Range(e) /\ t[i] \in BlockId
      BY <1>6, <1>8, <1>9, <2>1
    <3>2. i \in 1..r
      BY <1>2, <1>9, <3>1
    <3>3. d.hash[t[i]] = c.hash[a[i]] /\ c.hash[a[i]] = h[i]
      BY <1>2, <1>6, <1>9, <3>1, <3>2
    <3>4. FullChunks(p) \in Nat
      BY <1>1, FullChunksBound
    <3> QED BY <1>2, <3>2, <3>3, <3>4
  <2> QED BY <1>1, <1>11, <2>1 DEF OwnHashes, h
<1>20. HashesOwned(d, Q)
  <2>1. ASSUME NEW x \in DOMAIN c.tables PROVE OwnHashes(d, x, Q[x])
    <3>1. OwnHashes(c, x, P[x]) /\ Q[x] = P[x] /\ d.tables[x] = c.tables[x]
      BY <1>11 DEF CacheInv, HashesOwned
    <3> QED BY <1>12, <3>1, OwnHashesKept
  <2> QED BY <1>11, <1>19, <2>1 DEF HashesOwned
<1>21. SharedHashed(d)
  <2> SUFFICES ASSUME NEW x \in DOMAIN c.tables \cup {s}, NEW y \in DOMAIN c.tables \cup {s},
                      x # y,
                      NEW b \in Range(d.tables[x].blocks) \cap Range(d.tables[y].blocks)
               PROVE  d.hash[b] # NoHash
    BY <1>11 DEF SharedHashed
  <2>1. \A z \in DOMAIN c.tables : b \in Range(d.tables[z].blocks) =>
           b \in Range(c.tables[z].blocks) /\ b \notin Range(e) /\ d.hash[b] = c.hash[b]
    BY <1>11, <1>12
  <2>2. CASE x = s \/ y = s
    <3>1. b \in Range(t) /\ b \notin Range(e) /\ d.hash[b] = c.hash[b]
      BY <1>11, <2>1, <2>2
    <3>2. b \in Range(a)
      BY <1>9, <3>1
    <3> QED BY <1>2, <3>1, <3>2
  <2>3. CASE x # s /\ y # s
    <3>1. b \in Range(c.tables[x].blocks) \cap Range(c.tables[y].blocks)
      BY <2>1, <2>3
    <3> QED BY <2>1, <2>3, <3>1 DEF CacheInv, SharedHashed
  <2> QED BY <2>2, <2>3
<1>22. CacheInv(d, Q)
  BY <1>13, <1>14, <1>15, <1>16, <1>17, <1>18, <1>20, <1>21 DEF CacheInv
<1>23. Adopts(c, d, s, p)
  <2>1. \A b \in Range(e) : b \in BlockId /\ d.hash[b] = NoHash
    BY <1>6, <1>8
  <2>2. OnlyForgets(c, d)
    BY <1>6, <2>1, UnindexedForgets
  <2>3. \A i \in 1..r : h[i] \in DOMAIN c.entries /\ a[i] = c.entries[h[i]].block
    BY <1>1, ReusedHits DEF lookup, a, r, h, Adopted
  <2> QED BY <1>9, <1>11, <1>12, <2>1, <2>2, <2>3 DEF Adopts, r, h
<1> QED BY <1>11, <1>22, <1>23 DEF d

-----------------------------------------------------------------------------
(* Callers.                                                                 *)

\* The invariant looks only at the prompts of the sequences that have a table.
LEMMA PromptsOfTables ==
  ASSUME NEW c, NEW P, CacheInv(c, P), NEW Q, \A s \in DOMAIN c.tables : Q[s] = P[s]
  PROVE  CacheInv(c, Q)
BY DEF CacheInv, HashesOwned

\* What the backend writes under a position of a prompt.
LEMMA PrefixType ==
  ASSUME NEW p \in Seq(Int), NEW i \in Nat
  PROVE  Prefix(p, i) \in Seq(Int)
<1> DEFINE d == block_size
           m == IF i * d <= Len(p) THEN i * d ELSE Len(p)
<1>1. d \in Nat /\ Len(p) \in Nat
  BY SizesAssumption
<1> HIDE DEF d
<1>2. i * d \in Nat
  BY <1>1
<1>3. m \in 0..Len(p)
  BY <1>1, <1>2
<1> HIDE DEF m
<1>4. SubSeq(p, 1, m) \in Seq(Int)
  BY <1>1, <1>3
<1> QED BY <1>4 DEF m, d, Prefix
=============================================================================
