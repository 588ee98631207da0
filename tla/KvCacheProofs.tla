--------------------------- MODULE KvCacheProofs ---------------------------
(***************************************************************************)
(* Proofs about the cache manager under its callers.                       *)
(***************************************************************************)
EXTENDS KvCacheManager, KvCacheLemmas

-----------------------------------------------------------------------------
(* The invariant of the state machine.                                      *)

PromptOf == [s \in DOMAIN request |-> request[s].prompt]

CacheInd ==
  /\ CacheInv(cache, PromptOf)
  /\ DOMAIN request = DOMAIN cache.tables
  /\ request \in [DOMAIN request -> Request]
  /\ kv \in [BlockId -> Seq(Int)]

LEMMA InitInd == CacheInit => CacheInd
<1> SUFFICES ASSUME CacheInit PROVE CacheInd
  OBVIOUS
<1>1. CacheInv(cache, PromptOf)
  BY NewInv DEF CacheInit
<1>2. DOMAIN request = {} /\ DOMAIN cache.tables = {}
  BY DEF CacheInit, new, Empty
<1>3. request \in [DOMAIN request -> Request]
  BY <1>2 DEF CacheInit, Empty
<1>4. << >> \in Seq(Int)
  OBVIOUS
<1>5. kv \in [BlockId -> Seq(Int)]
  BY <1>4 DEF CacheInit
<1> QED BY <1>1, <1>2, <1>3, <1>5 DEF CacheInd

LEMMA NextInd == CacheInd /\ [CacheNext]_cacheVars => CacheInd'
<1> SUFFICES ASSUME CacheInd, [CacheNext]_cacheVars PROVE CacheInd'
  OBVIOUS
<1>0. /\ CacheInv(cache, PromptOf) /\ DOMAIN request = DOMAIN cache.tables
      /\ request \in [DOMAIN request -> Request] /\ kv \in [BlockId -> Seq(Int)]
      /\ \A s \in DOMAIN request : PromptOf[s] = request[s].prompt
                                   /\ request[s].prompt \in Prompts
                                   /\ request[s].prompt \in Seq(Int)
  <2>1. \A s \in DOMAIN request : request[s].prompt \in Prompts
    BY DEF CacheInd, Request
  <2> QED BY <2>1, PromptsAssumption DEF CacheInd, PromptOf
<1>1. ASSUME NEW s \in SequenceIds, NEW p \in Prompts, Allocate(s, p) PROVE CacheInd'
  <2> DEFINE v == [prompt |-> p, reused |-> Reused(cache, p), computed |-> FALSE]
  <2>1. /\ allocate_ok(cache, s, p) /\ cache' = allocate(cache, s, p) /\ kv' = kv
        /\ request' = [t \in DOMAIN request \cup {s} |-> IF t = s THEN v ELSE request[t]]
    BY <1>1 DEF Allocate
  <2>2. v \in Request /\ v.prompt = p
    <3>1. p \in Seq(Int) /\ FullChunks(p) \in Nat
      BY PromptsAssumption, FullChunksBound
    <3>2. Reused(cache, p) \in Nat
      BY <3>1, ReusedHits
    <3> QED BY <3>2 DEF Request
  <2> HIDE DEF v
  <2>3. /\ DOMAIN request' = DOMAIN request \cup {s}
        /\ request' \in [DOMAIN request \cup {s} -> Request]
        /\ PromptOf'[s] = p
        /\ \A x \in DOMAIN request : x # s => PromptOf'[x] = PromptOf[x]
    BY <1>0, <2>1, <2>2 DEF PromptOf
  <2>4. s \notin DOMAIN cache.tables
    BY <2>1 DEF allocate_ok
  <2>5. CacheInv(cache', PromptOf') /\ DOMAIN cache'.tables = DOMAIN cache.tables \cup {s}
    BY <1>0, <2>1, <2>3, <2>4, AllocateInv
  <2> QED BY <1>0, <2>1, <2>3, <2>5 DEF CacheInd
<1>2. ASSUME NEW s \in SequenceIds, Prefill(s) PROVE CacheInd'
  <2> DEFINE table == cache.tables[s].blocks
             p == request[s].prompt
             Pos(b) == CHOOSE i \in 1..Len(table) : table[i] = b
  <2>1. /\ s \in DOMAIN request /\ cache' = cache
        /\ kv' = [b \in BlockId |-> IF b \in Range(table) THEN Prefix(p, Pos(b)) ELSE kv[b]]
        /\ request' = [request EXCEPT ![s].computed = TRUE]
    BY <1>2 DEF Prefill
  <2>2. table \in Seq(BlockId) /\ p \in Seq(Int)
    BY <1>0, <2>1, TableBlocks
  <2>3. \A b \in Range(table) : Pos(b) \in Nat
    <3>1. \A b \in Range(table) : \E i \in 1..Len(table) : table[i] = b
      BY <2>2 DEF Range
    <3> HIDE DEF table
    <3>2. \A b \in Range(table) : Pos(b) \in 1..Len(table)
      BY <3>1
    <3> QED BY <3>2
  <2> HIDE DEF table, p, Pos
  <2>4. \A b \in Range(table) : Prefix(p, Pos(b)) \in Seq(Int)
    BY <2>2, <2>3, PrefixType
  <2>5. kv' \in [BlockId -> Seq(Int)]
    BY <1>0, <2>1, <2>4
  <2>6. /\ DOMAIN request' = DOMAIN request /\ request' \in [DOMAIN request -> Request]
        /\ \A x \in DOMAIN request : request'[x].prompt = request[x].prompt
    BY <1>0, <2>1 DEF Request
  <2>7. PromptOf' = PromptOf
    BY <2>6 DEF PromptOf
  <2> QED BY <1>0, <2>1, <2>5, <2>6, <2>7 DEF CacheInd
<1>3. ASSUME NEW s \in SequenceIds, CommitPrefill(s) PROVE CacheInd'
  <2>1. /\ cache' = commit_prefill(cache, s, PromptOf[s]) /\ kv' = kv /\ request' = request
    BY <1>0, <1>3 DEF CommitPrefill
  <2>2. CacheInv(cache', PromptOf) /\ cache'.tables = cache.tables
    BY <1>0, <2>1, CommitInv
  <2>3. PromptOf' = PromptOf
    BY <2>1 DEF PromptOf
  <2> QED BY <1>0, <2>1, <2>2, <2>3 DEF CacheInd
<1>4. ASSUME NEW s \in SequenceIds, AppendToken(s) PROVE CacheInd'
  <2>1. /\ append_ok(cache, s) /\ cache' = append_token(cache, s) /\ request' = request
        /\ s \in DOMAIN request
        /\ kv' = [kv EXCEPT ![cache'.tables[s].blocks[Len(cache'.tables[s].blocks)]] =
                    Append(request[s].prompt, Generated)]
    BY <1>4 DEF AppendToken
  <2>2. CacheInv(cache', PromptOf) /\ DOMAIN cache'.tables = DOMAIN cache.tables
    BY <1>0, <2>1, AppendInv
  <2>3. PromptOf' = PromptOf
    BY <2>1 DEF PromptOf
  <2>4. Append(request[s].prompt, Generated) \in Seq(Int)
    BY <1>0, <2>1, GeneratedAssumption
  <2>5. kv' \in [BlockId -> Seq(Int)]
    BY <1>0, <2>1, <2>4
  <2> QED BY <1>0, <2>1, <2>2, <2>3, <2>5 DEF CacheInd
<1>5. ASSUME NEW s \in SequenceIds, Free(s) PROVE CacheInd'
  <2>1. /\ cache' = free(cache, s) /\ kv' = kv
        /\ request' = [x \in DOMAIN request \ {s} |-> request[x]]
    BY <1>5 DEF Free, Without, Restrict
  <2>2. /\ CacheInv(cache', PromptOf) /\ DOMAIN cache'.tables = DOMAIN cache.tables \ {s}
    BY <1>0, <2>1, FreeInv
  <2>3. /\ DOMAIN request' = DOMAIN request \ {s}
        /\ request' \in [DOMAIN request \ {s} -> Request]
        /\ \A x \in DOMAIN request \ {s} : PromptOf'[x] = PromptOf[x]
    BY <1>0, <2>1 DEF PromptOf
  <2>4. CacheInv(cache', PromptOf')
    BY <1>0, <2>2, <2>3, PromptsOfTables
  <2> QED BY <1>0, <2>1, <2>2, <2>3, <2>4 DEF CacheInd
<1>6. ASSUME NEW n \in 1..num_blocks, EvictCached(n) PROVE CacheInd'
  <2>1. cache' = evict_cached(cache, n) /\ kv' = kv /\ request' = request /\ n \in Nat
    BY <1>6, SizesAssumption DEF EvictCached
  <2>2. CacheInv(cache', PromptOf) /\ cache'.tables = cache.tables
    BY <1>0, <2>1, EvictInv
  <2>3. PromptOf' = PromptOf
    BY <2>1 DEF PromptOf
  <2> QED BY <1>0, <2>1, <2>2, <2>3 DEF CacheInd
<1>7. ASSUME ClearPrefixCache PROVE CacheInd'
  <2>1. cache' = clear_prefix_cache(cache) /\ kv' = kv /\ request' = request
    BY <1>7 DEF ClearPrefixCache
  <2>2. CacheInv(cache', PromptOf) /\ cache'.tables = cache.tables
    BY <1>0, <2>1, ClearInv
  <2>3. PromptOf' = PromptOf
    BY <2>1 DEF PromptOf
  <2> QED BY <1>0, <2>1, <2>2, <2>3 DEF CacheInd
<1>8. CASE UNCHANGED cacheVars
  <2>1. cache' = cache /\ kv' = kv /\ request' = request
    BY <1>8 DEF cacheVars
  <2>2. PromptOf' = PromptOf
    BY <2>1 DEF PromptOf
  <2> QED BY <1>0, <2>1, <2>2 DEF CacheInd
<1> QED BY <1>1, <1>2, <1>3, <1>4, <1>5, <1>6, <1>7, <1>8 DEF CacheNext

LEMMA CacheIndHolds == CacheSpec => []CacheInd
BY InitInd, NextInd, PTL DEF CacheSpec

-----------------------------------------------------------------------------
(* What the blocks hold.                                                    *)

\* A block of a table that carries a hash was adopted with it or computed by
\* the sequence itself.
HashedAreOwn ==
  \A s \in DOMAIN request : \A i \in 1..Len(cache.tables[s].blocks) :
     cache.hash[cache.tables[s].blocks[i]] # NoHash =>
        request[s].computed \/ i <= request[s].reused

ContentInd == CacheInd /\ PublishedContentsMatch /\ OwnPrefixIntact /\ HashedAreOwn

\* A request and its table.
LEMMA RequestTable ==
  ASSUME CacheInd, NEW s \in DOMAIN request
  PROVE  LET p == request[s].prompt
             t == cache.tables[s].blocks
         IN  /\ s \in DOMAIN cache.tables /\ PromptOf[s] = p
             /\ p \in Prompts /\ p \in Seq(Int) /\ FullChunks(p) \in Nat
             /\ t \in Seq(BlockId) /\ IsInjective(t) /\ FullChunks(p) <= Len(t)
             /\ OwnHashes(cache, s, p)
<1>1. /\ s \in DOMAIN cache.tables /\ CacheInv(cache, PromptOf)
      /\ request[s].prompt \in Prompts /\ PromptOf[s] = request[s].prompt
  BY DEF CacheInd, PromptOf, Request
<1>2. OwnHashes(cache, s, request[s].prompt) /\ IsInjective(cache.tables[s].blocks)
      /\ Len(cache.tables[s].blocks) = blocks_required(cache.tables[s].num_tokens)
  BY <1>1 DEF CacheInv, HashesOwned, TablesFit
<1>3. /\ cache.tables[s].blocks \in Seq(BlockId) /\ cache.tables[s].num_tokens \in Nat
  BY <1>1, TableBlocks
<1>4. request[s].prompt \in Seq(Int) /\ Len(request[s].prompt) <= cache.tables[s].num_tokens
  BY <1>1, <1>2, PromptsAssumption DEF OwnHashes
<1> QED BY <1>1, <1>2, <1>3, <1>4, FullChunksBound, ChunksHaveBlocks

\* A held block with a hash is a full block of its holder's prompt, and its
\* contents are computed.
LEMMA HashedContents ==
  ASSUME ContentInd, NEW s \in DOMAIN request,
         NEW i \in 1..Len(cache.tables[s].blocks),
         cache.hash[cache.tables[s].blocks[i]] # NoHash
  PROVE  LET p == request[s].prompt
             b == cache.tables[s].blocks[i]
         IN  /\ i \in 1..FullChunks(p) /\ cache.hash[b] = chain_hash(p)[i]
             /\ kv[b] = Prefix(p, i)
<1>1. /\ FullChunks(request[s].prompt) \in Nat
      /\ i <= FullChunks(request[s].prompt)
      /\ cache.hash[cache.tables[s].blocks[i]] = chain_hash(request[s].prompt)[i]
  BY RequestTable DEF ContentInd, OwnHashes
<1>2. request[s].computed \/ i <= request[s].reused
  BY DEF ContentInd, HashedAreOwn
<1> QED BY <1>1, <1>2 DEF ContentInd, OwnPrefixIntact

\* Two requests expect the same of a block that carries a hash.
LEMMA SameExpectation ==
  ASSUME NEW p \in Prompts, NEW q \in Prompts,
         NEW i \in 1..FullChunks(p), NEW j \in 1..FullChunks(q),
         chain_hash(p)[i] = chain_hash(q)[j]
  PROVE  Prefix(p, i) = Prefix(q, j)
BY CollisionFreeAssumption

\* An index that only loses entries is right as long as the contents of the
\* blocks it still names stay.
LEMMA ForgettingKeepsPublished ==
  ASSUME ContentInd, OnlyForgets(cache, cache'),
         \A h \in DOMAIN cache'.entries :
            kv'[cache'.entries[h].block] = kv[cache'.entries[h].block]
  PROVE  PublishedContentsMatch'
BY DEF ContentInd, PublishedContentsMatch, OnlyForgets

\* What each step of the callers does, in the terms of the lemmas.
LEMMA AllocateStep ==
  ASSUME CacheInd, NEW s \in SequenceIds, NEW p \in Prompts, Allocate(s, p)
  PROVE  /\ s \notin DOMAIN request /\ kv' = kv
         /\ Adopts(cache, cache', s, p)
         /\ DOMAIN request' = DOMAIN request \cup {s}
         /\ request'[s].prompt = p /\ ~request'[s].computed
         /\ request'[s].reused = Reused(cache, p)
         /\ \A x \in DOMAIN request : request'[x] = request[x]
<1> DEFINE Q == [x \in DOMAIN request \cup {s} |-> IF x = s THEN p ELSE PromptOf[x]]
<1>1. /\ allocate_ok(cache, s, p) /\ cache' = allocate(cache, s, p)
      /\ s \notin DOMAIN request /\ CacheInv(cache, PromptOf)
      /\ DOMAIN request = DOMAIN cache.tables
  BY DEF Allocate, allocate_ok, CacheInd
<1>2. Q[s] = p /\ \A x \in DOMAIN cache.tables : Q[x] = PromptOf[x]
  BY <1>1
<1> HIDE DEF Q
<1>3. Adopts(cache, cache', s, p)
  BY <1>1, <1>2, AllocateInv
<1> QED BY <1>1, <1>3 DEF Allocate

LEMMA AppendStep ==
  ASSUME CacheInd, CacheInd', NEW s \in SequenceIds, AppendToken(s)
  PROVE  LET t    == cache'.tables[s].blocks
             last == t[Len(t)]
         IN  /\ s \in DOMAIN request /\ request[s].computed /\ request' = request
             /\ AppendsTo(cache, cache', s, FullChunks(request[s].prompt))
             /\ \A b \in BlockId \ {last} : kv'[b] = kv[b]
             /\ DOMAIN cache'.tables = DOMAIN cache.tables
             /\ \A h \in DOMAIN cache'.entries : cache'.entries[h].block \in BlockId \ {last}
             /\ \A x \in DOMAIN request \ {s} : last \notin Range(cache'.tables[x].blocks)
             /\ cache'.ref_count[last] = 1
<1> DEFINE t == cache'.tables[s].blocks
           last == t[Len(t)]
<1>1. /\ s \in DOMAIN request /\ request[s].computed /\ request' = request
      /\ append_ok(cache, s) /\ cache' = append_token(cache, s)
      /\ kv' = [kv EXCEPT ![last] = Append(request[s].prompt, Generated)]
      /\ kv \in [BlockId -> Seq(Int)]
  BY DEF AppendToken, CacheInd
<1>2. CacheInv(cache, PromptOf) /\ PromptOf[s] = request[s].prompt
  BY <1>1, RequestTable DEF CacheInd
<1>3. /\ AppendsTo(cache, cache', s, FullChunks(request[s].prompt))
      /\ DOMAIN cache'.tables = DOMAIN cache.tables
  BY <1>1, <1>2, AppendInv
<1>4. /\ last \in BlockId /\ last \in Range(t) /\ cache'.hash[last] = NoHash
      /\ DOMAIN request = DOMAIN cache'.tables
  BY <1>1, <1>3 DEF AppendsTo, CacheInd
<1>5. \A b \in BlockId \ {last} : kv'[b] = kv[b]
  BY <1>1
<1> DEFINE P == PromptOf'
<1>6. CacheInv(cache', P)
  BY DEF CacheInd
<1> HIDE DEF last, P
<1>7. ASSUME NEW h \in DOMAIN cache'.entries
      PROVE  cache'.entries[h].block \in BlockId \ {last}
  <2>1. /\ h \in Hash /\ cache'.entries[h].block \in BlockId
        /\ cache'.hash[cache'.entries[h].block] = h
    BY <1>6 DEF CacheInv, CacheType, PartialFunction, Entry, IndexMatches
  <2> QED BY <1>4, <2>1, HashAssumption
<1>8. \A x \in DOMAIN request \ {s} : last \notin Range(cache'.tables[x].blocks)
  BY <1>1, <1>4, <1>6 DEF CacheInv, SharedHashed
<1>9. cache'.ref_count[last] = 1
  <2>1. Holders(cache', last) = {s}
    BY <1>1, <1>4, <1>8 DEF Holders
  <2> QED BY <1>4, <1>6, <2>1, HolderCount, FS_Singleton
<1> QED BY <1>1, <1>3, <1>5, <1>7, <1>8, <1>9 DEF last

\* The forward pass changes no block that carries a hash: it finds there what it
\* computes.  Every other block of the table is the sequence's alone.
LEMMA PrefillStep ==
  ASSUME ContentInd, NEW s \in SequenceIds, Prefill(s)
  PROVE  LET p == request[s].prompt
             t == cache.tables[s].blocks
         IN  /\ s \in DOMAIN request /\ cache' = cache
             /\ DOMAIN request' = DOMAIN request /\ request'[s].computed
             /\ \A x \in DOMAIN request :
                   /\ request'[x].prompt = request[x].prompt
                   /\ request'[x].reused = request[x].reused
                   /\ x # s => request'[x] = request[x]
             /\ \A i \in 1..Len(t) : kv'[t[i]] = Prefix(p, i)
             /\ \A b \in BlockId : kv'[b] # kv[b] =>
                   /\ cache.hash[b] = NoHash /\ b \in Range(t)
                   /\ \A x \in DOMAIN request \ {s} : b \notin Range(cache.tables[x].blocks)
<1> DEFINE p == request[s].prompt
           t == cache.tables[s].blocks
           Pos(b) == CHOOSE i \in 1..Len(t) : t[i] = b
<1>1. /\ s \in DOMAIN request /\ cache' = cache
      /\ kv' = [b \in BlockId |-> IF b \in Range(t) THEN Prefix(p, Pos(b)) ELSE kv[b]]
      /\ request' = [request EXCEPT ![s].computed = TRUE]
  BY DEF Prefill
<1>2. /\ t \in Seq(BlockId) /\ IsInjective(t) /\ CacheInd
      /\ request \in [DOMAIN request -> Request] /\ DOMAIN request = DOMAIN cache.tables
      /\ SharedHashed(cache)
  BY <1>1, RequestTable DEF ContentInd, CacheInd, CacheInv
<1>3. /\ DOMAIN request' = DOMAIN request /\ request'[s].computed
      /\ \A x \in DOMAIN request : /\ request'[x].prompt = request[x].prompt
                                   /\ request'[x].reused = request[x].reused
                                   /\ x # s => request'[x] = request[x]
  BY <1>1, <1>2 DEF Request
<1>4. ASSUME NEW i \in 1..Len(t) PROVE kv'[t[i]] = Prefix(p, i)
  <2>1. t[i] \in BlockId /\ t[i] \in Range(t) /\ \E j \in 1..Len(t) : t[j] = t[i]
    <3> HIDE DEF t
    <3> QED BY <1>2 DEF Range
  <2>2. Pos(t[i]) \in 1..Len(t) /\ t[Pos(t[i])] = t[i]
    BY <2>1
  <2>3. kv'[t[i]] = Prefix(p, Pos(t[i]))
    BY <1>1, <2>1
  <2> HIDE DEF t, Pos, p
  <2>4. Pos(t[i]) = i
    BY <1>2, <2>2 DEF IsInjective
  <2> QED BY <2>3, <2>4
<1>5. ASSUME NEW b \in BlockId, kv'[b] # kv[b]
      PROVE  /\ cache.hash[b] = NoHash /\ b \in Range(t)
             /\ \A x \in DOMAIN request \ {s} : b \notin Range(cache.tables[x].blocks)
  <2>1. b \in Range(t)
    BY <1>1, <1>5
  <2>2. PICK i \in 1..Len(t) : t[i] = b
    <3> HIDE DEF t
    <3> QED BY <1>2, <2>1 DEF Range
  <2>3. cache.hash[b] = NoHash
    <3> SUFFICES ASSUME cache.hash[t[i]] # NoHash PROVE FALSE
      BY <2>2
    <3>1. kv[t[i]] = Prefix(p, i)
      BY <1>1, HashedContents
    <3> QED BY <1>4, <1>5, <2>2, <3>1
  <2> QED BY <1>1, <1>2, <2>1, <2>3 DEF SharedHashed
<1> QED BY <1>1, <1>3, <1>4, <1>5

LEMMA ContentNext == ContentInd /\ [CacheNext]_cacheVars => ContentInd'
<1> SUFFICES ASSUME ContentInd, [CacheNext]_cacheVars PROVE ContentInd'
  OBVIOUS
<1>0. /\ CacheInd /\ CacheInd' /\ CacheInv(cache, PromptOf)
      /\ DOMAIN request = DOMAIN cache.tables
      /\ PublishedContentsMatch /\ OwnPrefixIntact /\ HashedAreOwn
      /\ \A s \in DOMAIN request :
           /\ Range(cache.tables[s].blocks) \subseteq BlockId
           /\ \A i \in 1..Len(cache.tables[s].blocks) :
                cache.tables[s].blocks[i] \in Range(cache.tables[s].blocks)
           /\ FullChunks(request[s].prompt) \in Nat
           /\ Len(cache.tables[s].blocks) \in Nat
           /\ FullChunks(request[s].prompt) <= Len(cache.tables[s].blocks)
  <2>1. CacheInd /\ CacheInd'
    BY NextInd DEF ContentInd
  <2>2. ASSUME NEW s \in DOMAIN request
        PROVE  /\ cache.tables[s].blocks \in Seq(BlockId)
               /\ FullChunks(request[s].prompt) \in Nat
               /\ FullChunks(request[s].prompt) <= Len(cache.tables[s].blocks)
    BY <2>1, RequestTable
  <2> QED BY <2>1, <2>2 DEF ContentInd, CacheInd, Range
<1>1. ASSUME NEW s \in SequenceIds, NEW p \in Prompts, Allocate(s, p)
      PROVE  ContentInd'
  <2>1. /\ s \notin DOMAIN request /\ kv' = kv
        /\ Adopts(cache, cache', s, p)
        /\ DOMAIN request' = DOMAIN request \cup {s}
        /\ request'[s].prompt = p /\ ~request'[s].computed
        /\ request'[s].reused = Reused(cache, p)
        /\ \A x \in DOMAIN request : request'[x] = request[x]
    BY <1>0, <1>1, AllocateStep
  <2>2. PublishedContentsMatch'
    BY <2>1, ForgettingKeepsPublished DEF Adopts
  <2>3. OwnPrefixIntact'
    <3>1. ASSUME NEW x \in DOMAIN request, NEW i \in 1..FullChunks(request'[x].prompt),
                 request'[x].computed \/ i <= request'[x].reused
          PROVE  kv'[cache'.tables[x].blocks[i]] = Prefix(request'[x].prompt, i)
      BY <1>0, <2>1, <3>1 DEF Adopts, OwnPrefixIntact
    <3>2. ASSUME NEW i \in 1..FullChunks(p), i <= Reused(cache, p)
          PROVE  kv'[cache'.tables[s].blocks[i]] = Prefix(p, i)
      <4>1. i \in 1..Reused(cache, p)
        BY <3>2, PromptsAssumption, ReusedHits
      <4> QED BY <1>0, <2>1, <4>1 DEF Adopts, PublishedContentsMatch
    <3> QED BY <2>1, <3>1, <3>2 DEF OwnPrefixIntact
  <2>4. HashedAreOwn'
    <3>1. ASSUME NEW x \in DOMAIN request, NEW i \in 1..Len(cache'.tables[x].blocks),
                 cache'.hash[cache'.tables[x].blocks[i]] # NoHash
          PROVE  request'[x].computed \/ i <= request'[x].reused
      <4>1. cache'.tables[x] = cache.tables[x] /\ request'[x] = request[x]
        BY <1>0, <2>1 DEF Adopts
      <4>2. cache.tables[x].blocks[i] \in Range(cache.tables[x].blocks)
        BY <1>0, <4>1
      <4>3. cache.hash[cache.tables[x].blocks[i]] # NoHash
        BY <1>0, <2>1, <3>1, <4>1, <4>2 DEF Adopts
      <4> QED BY <1>0, <4>1, <4>3 DEF HashedAreOwn
    <3>2. ASSUME NEW i \in 1..Len(cache'.tables[s].blocks),
                 cache'.hash[cache'.tables[s].blocks[i]] # NoHash
          PROVE  i <= request'[s].reused
      <4>1. Reused(cache, p) \in Int
        BY ReusedHits, PromptsAssumption
      <4> QED BY <2>1, <3>2, <4>1 DEF Adopts
    <3> QED BY <2>1, <3>1, <3>2 DEF HashedAreOwn
  <2> QED BY <1>0, <2>2, <2>3, <2>4 DEF ContentInd
<1>2. ASSUME NEW s \in SequenceIds, Prefill(s) PROVE ContentInd'
  <2> DEFINE p == request[s].prompt
             t == cache.tables[s].blocks
  <2>1. /\ s \in DOMAIN request /\ cache' = cache
        /\ DOMAIN request' = DOMAIN request /\ request'[s].computed
        /\ \A x \in DOMAIN request :
              /\ request'[x].prompt = request[x].prompt
              /\ request'[x].reused = request[x].reused
              /\ x # s => request'[x] = request[x]
        /\ \A i \in 1..Len(t) : kv'[t[i]] = Prefix(p, i)
        /\ \A b \in BlockId : kv'[b] # kv[b] =>
              /\ cache.hash[b] = NoHash /\ b \in Range(t)
              /\ \A x \in DOMAIN request \ {s} : b \notin Range(cache.tables[x].blocks)
    BY <1>2, PrefillStep
  <2>2. PublishedContentsMatch'
    <3>1. \A h \in DOMAIN cache.entries :
             /\ cache.entries[h].block \in BlockId /\ h # NoHash
             /\ cache.hash[cache.entries[h].block] = h
      BY <1>0, HashAssumption
         DEF CacheInv, CacheType, PartialFunction, Entry, IndexMatches
    <3>2. \A h \in DOMAIN cache'.entries :
             kv'[cache'.entries[h].block] = kv[cache'.entries[h].block]
      BY <2>1, <3>1
    <3>3. OnlyForgets(cache, cache')
      BY <2>1 DEF OnlyForgets
    <3> QED BY <3>2, <3>3, ForgettingKeepsPublished
  <2>3. OwnPrefixIntact'
    <3> SUFFICES ASSUME NEW x \in DOMAIN request,
                        NEW i \in 1..FullChunks(request[x].prompt),
                        request'[x].computed \/ i <= request[x].reused
                 PROVE  kv'[cache.tables[x].blocks[i]] = Prefix(request[x].prompt, i)
      BY <2>1 DEF OwnPrefixIntact
    <3>1. i \in 1..Len(cache.tables[x].blocks)
      BY <1>0
    <3>2. CASE x = s
      BY <2>1, <3>1, <3>2
    <3>3. CASE x # s
      <4>1. kv[cache.tables[x].blocks[i]] = Prefix(request[x].prompt, i)
        BY <1>0, <2>1, <3>3 DEF OwnPrefixIntact
      <4>2. cache.tables[x].blocks[i] \in Range(cache.tables[x].blocks)
            /\ cache.tables[x].blocks[i] \in BlockId
        BY <1>0, <3>1
      <4> QED BY <2>1, <3>3, <4>1, <4>2
    <3> QED BY <3>2, <3>3
  <2>4. HashedAreOwn'
    BY <1>0, <2>1 DEF HashedAreOwn
  <2> QED BY <1>0, <2>2, <2>3, <2>4 DEF ContentInd
<1>3. ASSUME NEW s \in SequenceIds, CommitPrefill(s) PROVE ContentInd'
  <2> DEFINE p == request[s].prompt
  <2>1. /\ s \in DOMAIN request /\ request[s].computed /\ kv' = kv /\ request' = request
        /\ cache' = commit_prefill(cache, s, PromptOf[s]) /\ PromptOf[s] = p
        /\ p \in Prompts
    BY <1>0, <1>3, RequestTable DEF CommitPrefill
  <2>2. cache'.tables = cache.tables /\ CommitsPrompt(cache, cache', s, p)
    BY <1>0, <2>1, CommitInv
  <2>3. PublishedContentsMatch'
    <3> SUFFICES ASSUME NEW q \in Prompts, NEW j \in 1..FullChunks(q),
                        chain_hash(q)[j] \in DOMAIN cache'.entries
                 PROVE  kv[cache'.entries[chain_hash(q)[j]].block] = Prefix(q, j)
      BY <2>1 DEF PublishedContentsMatch
    <3>1. CASE chain_hash(q)[j] \in DOMAIN cache.entries
      BY <1>0, <2>2, <3>1 DEF CommitsPrompt, PublishedContentsMatch
    <3>2. CASE chain_hash(q)[j] \notin DOMAIN cache.entries
      <4>1. PICK i \in 1..FullChunks(p) :
               /\ chain_hash(q)[j] = chain_hash(p)[i]
               /\ cache'.entries[chain_hash(q)[j]].block = cache.tables[s].blocks[i]
        BY <2>2, <3>2 DEF CommitsPrompt
      <4>2. kv[cache.tables[s].blocks[i]] = Prefix(p, i)
        BY <1>0, <2>1 DEF OwnPrefixIntact
      <4>3. Prefix(p, i) = Prefix(q, j)
        BY <2>1, <4>1, SameExpectation
      <4> QED BY <4>1, <4>2, <4>3
    <3> QED BY <3>1, <3>2
  <2>4. OwnPrefixIntact'
    BY <1>0, <2>1, <2>2 DEF OwnPrefixIntact
  <2>5. HashedAreOwn'
    <3> SUFFICES ASSUME NEW x \in DOMAIN request, x # s,
                        NEW i \in 1..Len(cache.tables[x].blocks),
                        cache'.hash[cache.tables[x].blocks[i]] # NoHash
                 PROVE  request[x].computed \/ i <= request[x].reused
      BY <2>1, <2>2 DEF HashedAreOwn
    <3> DEFINE b == cache.tables[x].blocks[i]
    <3>1. b \in Range(cache.tables[x].blocks) /\ b \in BlockId
      BY <1>0
    <3>2. cache.hash[b] # NoHash
      <4>1. b \in Range(cache.tables[s].blocks) => cache.hash[b] # NoHash
        BY <1>0, <2>1, <3>1 DEF CacheInv, SharedHashed
      <4> HIDE DEF b
      <4> QED BY <2>2, <3>1, <4>1 DEF CommitsPrompt, b
    <3> QED BY <1>0, <3>2 DEF HashedAreOwn
  <2> QED BY <1>0, <2>3, <2>4, <2>5 DEF ContentInd
<1>4. ASSUME NEW s \in SequenceIds, AppendToken(s) PROVE ContentInd'
  <2> DEFINE p    == request[s].prompt
             t    == cache'.tables[s].blocks
             last == t[Len(t)]
  <2>1. /\ s \in DOMAIN request /\ request[s].computed /\ request' = request
        /\ AppendsTo(cache, cache', s, FullChunks(p))
        /\ \A b \in BlockId \ {last} : kv'[b] = kv[b]
        /\ DOMAIN cache'.tables = DOMAIN cache.tables
        /\ \A h \in DOMAIN cache'.entries : cache'.entries[h].block \in BlockId \ {last}
        /\ \A x \in DOMAIN request \ {s} : last \notin Range(cache'.tables[x].blocks)
    BY <1>0, <1>4, AppendStep
  <2>2. PublishedContentsMatch'
    BY <2>1, ForgettingKeepsPublished DEF AppendsTo
  <2>3. OwnPrefixIntact'
    <3> SUFFICES ASSUME NEW x \in DOMAIN request,
                        NEW i \in 1..FullChunks(request[x].prompt),
                        request[x].computed \/ i <= request[x].reused
                 PROVE  kv'[cache'.tables[x].blocks[i]] = Prefix(request[x].prompt, i)
      BY <2>1 DEF OwnPrefixIntact
    <3>1. /\ i \in 1..Len(cache.tables[x].blocks)
          /\ kv[cache.tables[x].blocks[i]] = Prefix(request[x].prompt, i)
          /\ cache.tables[x].blocks[i] \in Range(cache.tables[x].blocks)
          /\ cache.tables[x].blocks[i] \in BlockId
      BY <1>0 DEF OwnPrefixIntact
    <3>2. CASE x # s
      <4>1. cache'.tables[x] = cache.tables[x]
        BY <1>0, <2>1, <3>2 DEF AppendsTo
      <4> QED BY <2>1, <3>1, <3>2, <4>1
    <3>3. CASE x = s
      <4>1. t[i] = cache.tables[s].blocks[i] /\ Len(t) \in Nat /\ FullChunks(p) < Len(t)
        BY <2>1, <3>1, <3>3 DEF AppendsTo
      <4>2. IsInjective(t) /\ t \in Seq(BlockId)
        <5> DEFINE P == PromptOf'
        <5>1. CacheInv(cache', P) /\ s \in DOMAIN cache'.tables
          BY <1>0, <2>1 DEF CacheInd
        <5> HIDE DEF P
        <5> QED BY <5>1, TableBlocks DEF CacheInv, TablesFit
      <4>3. i \in 1..Len(t) /\ i # Len(t) /\ Len(t) \in 1..Len(t)
        BY <1>0, <2>1, <3>3, <4>1
      <4> HIDE DEF t
      <4>4. t[i] # t[Len(t)]
        BY <4>2, <4>3 DEF IsInjective
      <4> QED BY <2>1, <3>1, <3>3, <4>1, <4>4 DEF t
    <3> QED BY <3>2, <3>3
  <2>4. HashedAreOwn'
    <3> SUFFICES ASSUME NEW x \in DOMAIN request, x # s,
                        NEW i \in 1..Len(cache'.tables[x].blocks),
                        cache'.hash[cache'.tables[x].blocks[i]] # NoHash
                 PROVE  request[x].computed \/ i <= request[x].reused
      BY <2>1 DEF HashedAreOwn
    <3>1. cache'.tables[x] = cache.tables[x]
      BY <1>0, <2>1 DEF AppendsTo
    <3>2. /\ cache.tables[x].blocks[i] \in Range(cache.tables[x].blocks)
          /\ cache.tables[x].blocks[i] \in BlockId
      BY <1>0, <3>1
    <3>3. cache.hash[cache.tables[x].blocks[i]] # NoHash
      BY <2>1, <3>1, <3>2 DEF AppendsTo
    <3> QED BY <1>0, <3>1, <3>3 DEF HashedAreOwn
  <2> QED BY <1>0, <2>2, <2>3, <2>4 DEF ContentInd
<1>5. ASSUME NEW s \in SequenceIds, Free(s) PROVE ContentInd'
  <2>1. /\ kv' = kv /\ DOMAIN request' = DOMAIN request \ {s}
        /\ \A x \in DOMAIN request \ {s} : request'[x] = request[x]
        /\ cache' = free(cache, s)
    BY <1>5 DEF Free, Without, Restrict
  <2>2. /\ cache'.entries = cache.entries /\ cache'.hash = cache.hash
        /\ \A x \in DOMAIN request \ {s} : cache'.tables[x] = cache.tables[x]
    BY <1>0, <2>1, FreeInv
  <2>3. PublishedContentsMatch'
    BY <1>0, <2>1, <2>2 DEF PublishedContentsMatch
  <2>4. OwnPrefixIntact'
    BY <1>0, <2>1, <2>2 DEF OwnPrefixIntact
  <2>5. HashedAreOwn'
    BY <1>0, <2>1, <2>2 DEF HashedAreOwn
  <2> QED BY <1>0, <2>3, <2>4, <2>5 DEF ContentInd
<1>6. ASSUME NEW n \in 1..num_blocks, EvictCached(n) PROVE ContentInd'
  <2>1. kv' = kv /\ request' = request /\ cache' = evict_cached(cache, n) /\ n \in Nat
    BY <1>6, SizesAssumption DEF EvictCached
  <2>2. /\ cache'.tables = cache.tables /\ OnlyForgets(cache, cache')
        /\ \A b \in BlockId : cache'.hash[b] \in {cache.hash[b], NoHash}
    BY <1>0, <2>1, EvictInv
  <2>3. PublishedContentsMatch'
    BY <2>1, <2>2, ForgettingKeepsPublished
  <2> QED BY <1>0, <2>1, <2>2, <2>3 DEF ContentInd, OwnPrefixIntact, HashedAreOwn
<1>7. ASSUME ClearPrefixCache PROVE ContentInd'
  <2>1. kv' = kv /\ request' = request /\ cache' = clear_prefix_cache(cache)
    BY <1>7 DEF ClearPrefixCache
  <2>2. /\ cache'.tables = cache.tables /\ DOMAIN cache'.entries = {}
        /\ \A b \in BlockId : cache'.hash[b] \in {cache.hash[b], NoHash}
    BY <1>0, <2>1, ClearInv DEF Empty
  <2>3. PublishedContentsMatch'
    BY <2>2 DEF PublishedContentsMatch
  <2> QED BY <1>0, <2>1, <2>2, <2>3 DEF ContentInd, OwnPrefixIntact, HashedAreOwn
<1>8. CASE UNCHANGED cacheVars
  BY <1>0, <1>8 DEF cacheVars, ContentInd, PublishedContentsMatch, OwnPrefixIntact, HashedAreOwn
<1> QED BY <1>1, <1>2, <1>3, <1>4, <1>5, <1>6, <1>7, <1>8 DEF CacheNext

LEMMA ContentIndHolds == CacheSpec => []ContentInd
<1>1. CacheInit => ContentInd
  <2> SUFFICES ASSUME CacheInit PROVE ContentInd
    OBVIOUS
  <2>1. DOMAIN request = {} /\ DOMAIN cache.entries = {}
    BY DEF CacheInit, new, Empty
  <2> QED
    BY <2>1, InitInd DEF ContentInd, PublishedContentsMatch, OwnPrefixIntact, HashedAreOwn
<1> QED BY <1>1, ContentNext, PTL DEF CacheSpec

-----------------------------------------------------------------------------
(* The theorems.                                                            *)

\* The fields of KvCacheManager keep their types, whatever is called.
THEOREM CacheTypeHolds == CacheSpec => []CacheTypeOK
<1>1. CacheInd => CacheTypeOK
  BY DEF CacheInd, CacheInv, CacheTypeOK
<1> QED BY <1>1, CacheIndHolds, PTL

\* For every number and size of blocks, every set of sequences and prompts: the
\* reference counts of block.rs are exact, and so are the free list and the
\* block tables.
THEOREM RefCountsHold == CacheSpec => []RefCountsExact
<1>1. CacheInd => RefCountsExact
  BY DEF CacheInd, CacheInv, RefCountsExact
<1> QED BY <1>1, CacheIndHolds, PTL

\* The free list holds each unreferenced block once, and no other.
THEOREM FreeListHolds == CacheSpec => []FreeListExact
<1>1. CacheInd => FreeListExact
  BY DEF CacheInd, CacheInv, FreeListExact
<1> QED BY <1>1, CacheIndHolds, PTL

\* A table has exactly the blocks that its tokens need.
THEOREM TablesHold == CacheSpec => []TablesExact
<1>1. CacheInd => TablesExact
  BY DEF CacheInd, CacheInv, TablesExact
<1> QED BY <1>1, CacheIndHolds, PTL

\* The prefix index never names a block that was recycled or evicted.
THEOREM IndexHolds == CacheSpec => []IndexNotStale
<1>1. CacheInd => IndexNotStale
  BY DEF CacheInd, CacheInv, IndexNotStale
<1> QED BY <1>1, CacheIndHolds, PTL

\* Every hashed block is what all its holders expect, and sharing needs a hash.
THEOREM HashesHold == CacheSpec => []HashesMatchHolders
<1>1. CacheInd => HashesMatchHolders
  BY DEF CacheInd, CacheInv, HashesMatchHolders, PromptOf
<1> QED BY <1>1, CacheIndHolds, PTL

\* The rollback of allocate is dead code.
THEOREM NeverRollsBack == CacheSpec => []AllocationNeverRollsBack
<1>1. CacheInd => AllocationNeverRollsBack
  BY AllocationRoom DEF CacheInd, AllocationNeverRollsBack
<1> QED BY <1>1, CacheIndHolds, PTL

\* No interleaving of sequences makes the index hand out, or a sequence keep, a
\* block with the contents of another prefix: adoption, recycling, eviction and
\* publication in manager.rs never mix up two prefixes that hash apart.
THEOREM ContentsHold == CacheSpec => []ContentsExact
<1>1. ContentInd => ContentsExact
  BY DEF ContentInd, ContentsExact
<1> QED BY <1>1, ContentIndHolds, PTL

\* The forward pass and the decode writes leave alone every block that the
\* index offers or that two sequences hold.
THEOREM SharedBlocksStayFrozen == CacheSpec => SharedBlocksFrozen
<1> DEFINE Frozen == \A b \in BlockId : kv'[b] # kv[b] =>
             /\ cache'.ref_count[b] = 1
             /\ \A h \in DOMAIN cache'.entries : cache'.entries[h].block # b
<1>1. ContentInd /\ [CacheNext]_cacheVars => [Frozen]_cacheVars
  <2> SUFFICES ASSUME ContentInd, [CacheNext]_cacheVars PROVE Frozen
    OBVIOUS
  <2>0. /\ CacheInd /\ CacheInd' /\ CacheInv(cache, PromptOf)
        /\ DOMAIN request = DOMAIN cache.tables
    BY NextInd DEF ContentInd, CacheInd
  <2>1. CASE kv' = kv
    BY <2>1
  <2>2. ASSUME NEW s \in SequenceIds, Prefill(s) PROVE Frozen
    <3> SUFFICES ASSUME NEW b \in BlockId, kv'[b] # kv[b]
                 PROVE  /\ cache'.ref_count[b] = 1
                        /\ \A h \in DOMAIN cache'.entries : cache'.entries[h].block # b
      OBVIOUS
    <3>1. /\ s \in DOMAIN request /\ cache' = cache
          /\ cache.hash[b] = NoHash /\ b \in Range(cache.tables[s].blocks)
          /\ \A x \in DOMAIN request \ {s} : b \notin Range(cache.tables[x].blocks)
      BY <2>2, PrefillStep
    <3>2. Holders(cache, b) = {s}
      BY <2>0, <3>1 DEF Holders
    <3>3. cache.ref_count[b] = 1
      BY <2>0, <3>2, HolderCount, FS_Singleton
    <3>4. \A h \in DOMAIN cache.entries : cache.entries[h].block # b
      <4>1. \A h \in DOMAIN cache.entries :
               h \in Hash /\ cache.hash[cache.entries[h].block] = h
        BY <2>0 DEF CacheInv, CacheType, PartialFunction, IndexMatches
      <4> QED BY <3>1, <4>1, HashAssumption
    <3> QED BY <3>1, <3>3, <3>4
  <2>3. ASSUME NEW s \in SequenceIds, AppendToken(s) PROVE Frozen
    BY <2>0, <2>3, AppendStep
  <2> QED
    BY <2>1, <2>2, <2>3
       DEF CacheNext, cacheVars, Allocate, CommitPrefill, Free, EvictCached, ClearPrefixCache
<1> QED BY <1>1, ContentIndHolds, PTL DEF CacheSpec, SharedBlocksFrozen

\* PrefixCache::remove never drops the entry of a block that keeps its hash: an
\* entry goes with the contents it names, or with the whole index.
THEOREM EntriesOutlive == CacheSpec => EntriesOutliveOtherBlocks
<1> DEFINE Outlive == \A h \in DOMAIN cache.entries \ DOMAIN cache'.entries :
             cache'.hash[cache.entries[h].block] # h \/ cache'.entries = Empty
<1>1. CacheInd /\ [CacheNext]_cacheVars => [Outlive]_cacheVars
  <2> SUFFICES ASSUME CacheInd, [CacheNext]_cacheVars PROVE Outlive
    OBVIOUS
  <2>0. CacheInv(cache, PromptOf) /\ DOMAIN cache.entries \subseteq Hash
    BY DEF CacheInd, CacheInv, CacheType, PartialFunction
  <2>1. OnlyForgets(cache, cache') => Outlive
    BY <2>0, HashAssumption DEF OnlyForgets
  <2>2. ASSUME NEW s \in SequenceIds, NEW p \in Prompts, Allocate(s, p) PROVE Outlive
    BY <2>1, <2>2, AllocateStep DEF Adopts
  <2>3. ASSUME NEW s \in SequenceIds, CommitPrefill(s) PROVE Outlive
    <3>1. /\ s \in DOMAIN request /\ PromptOf[s] = request[s].prompt
          /\ cache' = commit_prefill(cache, s, PromptOf[s])
      BY <2>3, RequestTable DEF CommitPrefill
    <3>2. CommitsPrompt(cache, cache', s, PromptOf[s])
      BY <2>0, <3>1, CommitInv
    <3> QED BY <3>2 DEF CommitsPrompt
  <2>4. ASSUME NEW s \in SequenceIds, AppendToken(s) PROVE Outlive
    <3>1. CacheInd'
      BY NextInd
    <3> QED BY <2>1, <2>4, <3>1, AppendStep DEF AppendsTo
  <2>5. ASSUME NEW s \in SequenceIds, Free(s) PROVE Outlive
    BY <2>0, <2>5, FreeInv DEF Free
  <2>6. ASSUME NEW n \in 1..num_blocks, EvictCached(n) PROVE Outlive
    <3>1. n \in Nat /\ cache' = evict_cached(cache, n)
      BY <2>6, SizesAssumption DEF EvictCached
    <3> QED BY <2>0, <2>1, <3>1, EvictInv
  <2>7. ASSUME ClearPrefixCache PROVE Outlive
    BY <2>0, <2>7, ClearInv DEF ClearPrefixCache
  <2>8. CASE cache' = cache
    BY <2>8
  <2> QED
    BY <2>2, <2>3, <2>4, <2>5, <2>6, <2>7, <2>8 DEF CacheNext, cacheVars, Prefill
<1> QED BY <1>1, CacheIndHolds, PTL DEF CacheSpec, EntriesOutliveOtherBlocks
============================================================================
