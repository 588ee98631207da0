--------------------------- MODULE NumericsProofs ---------------------------
(* Theorems about the pure algorithms: how a group of ranks shares out a model, *)
(* what a kernel's report says, how close a quantized tensor comes, and which   *)
(* tokens the sampler may draw.                                                 *)
EXTENDS Numerics, SequenceLemmas

-----------------------------------------------------------------------------
(* Division, as shard_dimension uses it.                                        *)
LEMMA DivisionExact ==
    ASSUME NEW n \in Nat, NEW d \in Nat \ {0}
    PROVE  /\ n \div d \in Nat
           /\ d * (n \div d) <= n /\ n < d * ((n \div d) + 1)
           /\ n % d = 0 => n = d * (n \div d)
OBVIOUS

(* A product grows with its factor.                                             *)
LEMMA MoreIsMore ==
    ASSUME NEW w \in Nat \ {0}, NEW a \in Nat, NEW b \in Nat, a + 1 <= b
    PROVE  w * a # w * b
<1>1. w * (a + 1) <= w * b /\ w * (a + 1) = w * a + w
  OBVIOUS
<1> QED
  BY <1>1

(* The quotient is the number of the block of d that i lies in.                 *)
LEMMA QuotientIs ==
    ASSUME NEW i \in Nat, NEW d \in Nat \ {0}, NEW k \in Int
    PROVE  (k * d <= i /\ i < k * d + d) <=> (k = i \div d)
<1>1. PICK q \in Nat : q = i \div d /\ d * q <= i /\ i < d * (q + 1)
  BY DivisionExact
<1>2. d * (q + 1) = q * d + d /\ d * q = q * d
  BY <1>1
<1>3. ASSUME k < q PROVE ~(i < k * d + d)
  <2>1. k + 1 <= q
    BY <1>1, <1>3
  <2>2. (k + 1) * d <= q * d /\ (k + 1) * d = k * d + d
    BY <1>1, <2>1
  <2> QED
    BY <1>1, <1>2, <2>2
<1>4. ASSUME q < k PROVE ~(k * d <= i)
  <2>1. q + 1 <= k
    BY <1>1, <1>4
  <2>2. (q + 1) * d <= k * d /\ (q + 1) * d = q * d + d
    BY <1>1, <2>1
  <2> QED
    BY <1>1, <1>2, <2>2
<1>5. ASSUME k = q PROVE k * d <= i /\ i < k * d + d
  BY <1>1, <1>2, <1>5
<1> QED
  BY <1>1, <1>3, <1>4, <1>5

(* In w runs of len indices every index belongs to one run (shard_dimension).   *)
LEMMA OneOwner ==
    ASSUME NEW w \in Nat, NEW len \in Nat, NEW i \in Nat, i < w * len
    PROVE  \E q \in 0 .. w - 1 : \A r \in Int : (r * len <= i /\ i < r * len + len) <=> r = q
<1>1. len # 0
  OBVIOUS
<1>2. PICK q \in Nat : q = i \div len /\ len * q <= i
  BY <1>1, DivisionExact
<1>3. q < w
  <2>1. SUFFICES ASSUME w <= q PROVE FALSE
    BY <1>2
  <2>2. len * w <= len * q
    BY <1>1, <1>2, <2>1
  <2> QED
    BY <1>2, <2>2
<1>4. \A r \in Int : (r * len <= i /\ i < r * len + len) <=> r = q
  BY <1>1, <1>2, QuotientIs
<1>5. q \in 0 .. w - 1
  BY <1>2, <1>3
<1> QED
  BY <1>4, <1>5

(* A query head that lies in a run of m groups of g heads has its KV head in    *)
(* the run of m KV heads with the same number.                                  *)
LEMMA HeadsFollow ==
    ASSUME NEW g \in Nat \ {0}, NEW m \in Nat, NEW r \in Nat, NEW h \in Nat,
           r * (m * g) <= h, h < r * (m * g) + m * g
    PROVE  r * m <= h \div g /\ h \div g < r * m + m
<1>1. PICK k \in Nat : k = h \div g /\ g * k <= h /\ h < g * (k + 1)
  BY DivisionExact
<1>2. PICK a \in Nat, b \in Nat : a = r * m /\ b = r * m + m
  OBVIOUS
<1>3. r * (m * g) = g * a /\ r * (m * g) + m * g = g * b
  BY <1>2
<1>4. a <= k
  <2>1. SUFFICES ASSUME k + 1 <= a PROVE FALSE
    BY <1>1, <1>2
  <2>2. g * (k + 1) <= g * a
    BY <1>1, <1>2, <2>1
  <2> QED
    BY <1>1, <1>2, <1>3, <2>2
<1>5. k < b
  <2>1. SUFFICES ASSUME b <= k PROVE FALSE
    BY <1>1, <1>2
  <2>2. g * b <= g * k
    BY <1>1, <1>2, <2>1
  <2> QED
    BY <1>1, <1>2, <1>3, <2>2
<1> QED
  BY <1>1, <1>2, <1>4, <1>5

-----------------------------------------------------------------------------
(* The inductive invariant: the layouts computed so far are those of the first  *)
(* ranks, each of which found that the model can be split.                      *)
RankOf(i) == [index |-> i, world_size |-> job.world_size]

LayoutInd ==
    pc \in {"rank", "laid_out"}
    => /\ job \in LayoutJobs
       /\ out \in Seq({compute(job.meta, RankOf(i)) : i \in Nat})
       /\ Len(out) <= job.world_size
       /\ \A r \in 1 .. Len(out) : /\ out[r] = compute(job.meta, RankOf(r - 1))
                                   /\ LayoutOk(job.meta, RankOf(r - 1))
       /\ pc = "laid_out" => Len(out) = job.world_size /\ job.world_size # 0

(* One rank more (ParallelLayout::compute).                                     *)
LEMMA RankAdded ==
    ASSUME LayoutInd, ComputeLayout PROVE LayoutInd'
<1>1. PICK n : n = Len(out)
  OBVIOUS
<1>2. PICK S : S = {compute(job.meta, RankOf(i)) : i \in Nat}
  OBVIOUS
<1>3. /\ pc = "rank" /\ pc' = pc /\ job' = job /\ job \in LayoutJobs
      /\ out \in Seq(S) /\ n \in Nat
      /\ \A r \in 1 .. n : out[r] = compute(job.meta, RankOf(r - 1)) /\ LayoutOk(job.meta, RankOf(r - 1))
  BY <1>1, <1>2 DEF LayoutInd, ComputeLayout
<1>4. RankOf(n) = NextRank /\ compute(job.meta, RankOf(n)) \in S
  BY <1>1, <1>2, <1>3 DEF NextRank, RankOf
<1>5. out' = Append(out, compute(job.meta, RankOf(n))) /\ LayoutOk(job.meta, RankOf(n))
      /\ n < job.world_size
  BY <1>4, <1>1 DEF ComputeLayout, RankOk, RankOf
<1>6. /\ out' \in Seq(S) /\ Len(out') = n + 1
      /\ \A r \in 1 .. n : out'[r] = out[r]
      /\ out'[n + 1] = compute(job.meta, RankOf(n))
  BY <1>1, <1>3, <1>4, <1>5
<1>7. job.world_size \in Nat
  BY <1>3, JobsAssumption
<1>8. ASSUME NEW r \in 1 .. n + 1
      PROVE  out'[r] = compute(job.meta, RankOf(r - 1)) /\ LayoutOk(job.meta, RankOf(r - 1))
  <2>1. CASE r \in 1 .. n
    BY <1>3, <1>6, <2>1
  <2>2. CASE r = n + 1
    <3>1. r - 1 = n
      BY <1>3, <2>2
    <3> QED
      BY <1>5, <1>6, <2>2, <3>1
  <2> QED
    BY <1>3, <2>1, <2>2
<1>9. \A i : RankOf(i)' = RankOf(i)
  BY <1>3 DEF RankOf
<1>10. n + 1 <= job.world_size
  BY <1>3, <1>5, <1>7
<1> QED
  BY <1>2, <1>3, <1>6, <1>8, <1>9, <1>10 DEF LayoutInd

(* Every step keeps the invariant; only the ranks' own steps matter to it.      *)
LEMMA LayoutStep == LayoutInd /\ [Next]_vars => LayoutInd'
<1> SUFFICES ASSUME LayoutInd, [Next]_vars PROVE LayoutInd'
  OBVIOUS
<1>1. CASE EmptyRow \/ Penalise \/ Greedy \/ Temperature \/ TopK \/ TopP \/ Draw
  BY <1>1 DEF EmptyRow, Penalise, Greedy, Temperature, TopK, TopP, Draw, Finish, LayoutInd
<1>2. CASE Quantize \/ Dequantize \/ RefuseLayout \/ CompareKernel
  BY <1>2 DEF Quantize, Dequantize, RefuseLayout, CompareKernel, Finish, LayoutInd
<1>3. CASE ComputeLayout
  BY <1>3, RankAdded
<1>4. CASE RanksDone
  <2>1. /\ pc = "rank" /\ job' = job /\ out' = out
        /\ job.world_size # 0 => Len(out) >= job.world_size
        /\ pc' = IF job.world_size = 0 THEN "refused" ELSE "laid_out"
    <3>1. /\ pc = "rank" /\ job' = job /\ out' = out
          /\ ~RankOk(NextRank.index, NextRank.world_size)
          /\ pc' = IF job.world_size = 0 THEN "refused" ELSE "laid_out"
      BY <1>4 DEF RanksDone
    <3>2. job.world_size \in Nat /\ Len(out) \in Nat
      BY <3>1, JobsAssumption DEF LayoutInd
    <3> QED
      BY <3>1, <3>2 DEF RankOk, NextRank
  <2>2. /\ job \in LayoutJobs
        /\ out \in Seq({compute(job.meta, RankOf(i)) : i \in Nat})
        /\ Len(out) <= job.world_size
        /\ \A r \in 1 .. Len(out) : /\ out[r] = compute(job.meta, RankOf(r - 1))
                                    /\ LayoutOk(job.meta, RankOf(r - 1))
    BY <2>1 DEF LayoutInd
  <2>3. job.world_size \in Nat /\ Len(out) \in Nat
    BY <2>2, JobsAssumption
  <2>4. job.world_size # 0 => Len(out) = job.world_size
    BY <2>1, <2>2, <2>3
  <2>5. \A i : RankOf(i)' = RankOf(i)
    BY <2>1 DEF RankOf
  <2> QED
    BY <2>1, <2>2, <2>4, <2>5 DEF LayoutInd
<1>5. CASE UNCHANGED vars
  BY <1>5 DEF vars, LayoutInd, RankOf
<1> QED
  BY <1>1, <1>2, <1>3, <1>4, <1>5 DEF Next

(* Nothing is laid out at first.                                                *)
LEMMA LayoutStart == Init => LayoutInd
<1> SUFFICES ASSUME Init, pc \in {"rank", "laid_out"} PROVE LayoutInd
  BY DEF LayoutInd
<1>1. job.kind = "layout" /\ job \in LayoutJobs /\ pc = "rank"
  BY JobsAssumption DEF Init, FirstStep
<1>2. out = << >> /\ job.world_size \in Nat
  BY <1>1, JobsAssumption DEF Init
<1> QED
  BY <1>1, <1>2 DEF LayoutInd

(* What the invariant says once every rank has its layout.                      *)
LEMMA LaidOutFacts ==
    ASSUME LayoutInd, pc = "laid_out"
    PROVE  \E w \in Nat \ {0} :
              /\ w = Len(out) /\ w = job.world_size /\ job \in LayoutJobs
              /\ \A r \in 1 .. w : out[r] = compute(job.meta, RankOf(r - 1))
              /\ w > 1 => /\ job.meta.num_attention_heads % w = 0
                          /\ job.meta.num_kv_heads % w = 0
                          /\ job.meta.ffn_dim % w = 0
<1>1. /\ job \in LayoutJobs /\ Len(out) = job.world_size /\ job.world_size # 0
      /\ \A r \in 1 .. Len(out) : /\ out[r] = compute(job.meta, RankOf(r - 1))
                                  /\ LayoutOk(job.meta, RankOf(r - 1))
  BY DEF LayoutInd
<1>2. PICK w : w = Len(out)
  OBVIOUS
<1>3. w \in Nat \ {0} /\ w = job.world_size
  BY <1>1, <1>2, JobsAssumption
<1>4. LayoutOk(job.meta, RankOf(0))
  <2>1. 1 \in 1 .. w /\ 1 - 1 = 0
    BY <1>3
  <2> QED
    BY <1>1, <1>2, <2>1
<1>5. w > 1 => /\ job.meta.num_attention_heads % w = 0
               /\ job.meta.num_kv_heads % w = 0
               /\ job.meta.ffn_dim % w = 0
  BY <1>3, <1>4 DEF LayoutOk, is_distributed, Splits, RankOf
<1> QED
  BY <1>1, <1>2, <1>3, <1>5

(* A shard of every rank is a partition, whether the group is one or many.      *)
LEMMA EachOwnedOnce ==
    ASSUME NEW total \in Nat, NEW field, NEW w \in Nat, w # 0, w = Len(out),
           w > 1 => total % w = 0,
           \A r \in 1 .. w : out[r][field] = IF w > 1
                                             THEN shard_dimension(total, [index |-> r - 1, world_size |-> w])
                                             ELSE Shard(0, total)
    PROVE  OwnedOnce(total, field)
<1> SUFFICES ASSUME NEW i \in 0 .. total - 1
             PROVE  Cardinality({r \in Ranks : Owns(out[r][field], i)}) = 1
  BY DEF OwnedOnce
<1>1. PICK k \in 1 .. w : \A r \in 1 .. w : Owns(out[r][field], i) <=> r = k
  <2>1. CASE w = 1
    <3>1. Owns(Shard(0, total), i)
      BY DEF Owns, Shard, end
    <3>2. \A r \in 1 .. w : r = 1 /\ out[r][field] = Shard(0, total)
      BY <2>1
    <3> QED
      BY <2>1, <3>1, <3>2
  <2>2. CASE w # 1
    <3>1. PICK len \in Nat : len = total \div w /\ total = w * len
      BY <2>2, DivisionExact, SMTT(30)
    <3>2. PICK q \in 0 .. w - 1 :
             \A r \in Int : (r * len <= i /\ i < r * len + len) <=> r = q
      <4>1. i \in Nat /\ i < w * len
        BY <3>1
      <4> QED
        BY <4>1, OneOwner
    <3>3. q + 1 \in 1 .. w
      OBVIOUS
    <3>4. ASSUME NEW r \in 1 .. w PROVE Owns(out[r][field], i) <=> r = q + 1
      <4>1. out[r][field] = Shard((r - 1) * len, len)
        BY <2>2, <3>1 DEF shard_dimension
      <4>2. Owns(out[r][field], i) <=> ((r - 1) * len <= i /\ i < (r - 1) * len + len)
        BY <4>1 DEF Owns, Shard, end
      <4>3. r - 1 \in Int /\ (r - 1 = q <=> r = q + 1)
        BY <3>2
      <4> QED
        BY <3>2, <4>2, <4>3
    <3> QED
      BY <3>3, <3>4
  <2> QED
    BY <2>1, <2>2
<1>2. {r \in Ranks : Owns(out[r][field], i)} = {k}
  BY <1>1 DEF Ranks
<1> QED
  BY <1>2, FS_Singleton

(* Every head and column has its rank (ParallelLayout::compute).                *)
LEMMA PartitionFollows == LayoutInd => ShardsPartition
<1> SUFFICES ASSUME LayoutInd, pc = "laid_out" PROVE ShardsPartition
  BY DEF ShardsPartition
<1>1. PICK w \in Nat \ {0} :
         /\ w = Len(out) /\ w = job.world_size /\ job \in LayoutJobs
         /\ \A r \in 1 .. w : out[r] = compute(job.meta, RankOf(r - 1))
         /\ w > 1 => /\ job.meta.num_attention_heads % w = 0
                     /\ job.meta.num_kv_heads % w = 0
                     /\ job.meta.ffn_dim % w = 0
  BY LaidOutFacts
<1>2. /\ job.meta.num_attention_heads \in Nat /\ job.meta.num_kv_heads \in Nat
      /\ job.meta.ffn_dim \in Nat /\ job.meta.head_dim \in Nat
  BY <1>1, JobsAssumption
<1>3. ASSUME NEW r \in 1 .. w
      PROVE  LET rank == [index |-> r - 1, world_size |-> w]
             IN  /\ out[r]["query_heads"] = IF w > 1 THEN shard_dimension(job.meta.num_attention_heads, rank)
                                            ELSE Shard(0, job.meta.num_attention_heads)
                 /\ out[r]["kv_heads"] = IF w > 1 THEN shard_dimension(job.meta.num_kv_heads, rank)
                                         ELSE Shard(0, job.meta.num_kv_heads)
                 /\ out[r]["ffn"] = IF w > 1 THEN shard_dimension(job.meta.ffn_dim, rank)
                                    ELSE Shard(0, job.meta.ffn_dim)
  <2>1. PICK rank : rank = [index |-> r - 1, world_size |-> w]
    OBVIOUS
  <2>2. out[r] = compute(job.meta, rank)
    BY <1>1, <1>3, <2>1 DEF RankOf
  <2>3. is_distributed(rank) <=> w > 1
    BY <2>1 DEF is_distributed
  <2> QED
    BY <2>1, <2>2, <2>3 DEF compute
<1>4. OwnedOnce(job.meta.num_attention_heads, "query_heads")
  <2>1. PICK total : total = job.meta.num_attention_heads
    OBVIOUS
  <2>2. /\ total \in Nat /\ w # 0 /\ w = Len(out)
        /\ w > 1 => total % w = 0
    BY <1>1, <1>2, <2>1
  <2>3. \A r \in 1 .. w : out[r]["query_heads"] = IF w > 1
                                           THEN shard_dimension(total, [index |-> r - 1, world_size |-> w])
                                           ELSE Shard(0, total)
    BY <1>3, <2>1
  <2>4. OwnedOnce(total, "query_heads")
    BY <2>2, <2>3, EachOwnedOnce
  <2> QED
    BY <2>1, <2>4
<1>5. OwnedOnce(job.meta.num_kv_heads, "kv_heads")
  <2>1. PICK total : total = job.meta.num_kv_heads
    OBVIOUS
  <2>2. /\ total \in Nat /\ w # 0 /\ w = Len(out)
        /\ w > 1 => total % w = 0
    BY <1>1, <1>2, <2>1
  <2>3. \A r \in 1 .. w : out[r]["kv_heads"] = IF w > 1
                                           THEN shard_dimension(total, [index |-> r - 1, world_size |-> w])
                                           ELSE Shard(0, total)
    BY <1>3, <2>1
  <2>4. OwnedOnce(total, "kv_heads")
    BY <2>2, <2>3, EachOwnedOnce
  <2> QED
    BY <2>1, <2>4
<1>6. OwnedOnce(job.meta.ffn_dim, "ffn")
  <2>1. PICK total : total = job.meta.ffn_dim
    OBVIOUS
  <2>2. /\ total \in Nat /\ w # 0 /\ w = Len(out)
        /\ w > 1 => total % w = 0
    BY <1>1, <1>2, <2>1
  <2>3. \A r \in 1 .. w : out[r]["ffn"] = IF w > 1
                                           THEN shard_dimension(total, [index |-> r - 1, world_size |-> w])
                                           ELSE Shard(0, total)
    BY <1>3, <2>1
  <2>4. OwnedOnce(total, "ffn")
    BY <2>2, <2>3, EachOwnedOnce
  <2> QED
    BY <2>1, <2>4
<1>7. ASSUME NEW r \in Ranks
      PROVE  Len(out) * local_kv_elems(out[r], job.meta) = 2 * job.meta.num_kv_heads * job.meta.head_dim
  <2>1. r \in 1 .. w
    BY <1>1, <1>7 DEF Ranks
  <2>2. PICK len \in Nat : len = out[r].kv_heads.len /\ w * len = job.meta.num_kv_heads
    <3>1. CASE w = 1
      BY <1>2, <1>3, <2>1, <3>1 DEF Shard
    <3>2. CASE w # 1
      <4>1. out[r].kv_heads = shard_dimension(job.meta.num_kv_heads, [index |-> r - 1, world_size |-> w])
        BY <1>3, <2>1, <3>2
      <4>2. out[r].kv_heads.len = job.meta.num_kv_heads \div w
        BY <4>1 DEF shard_dimension, Shard
      <4>3. job.meta.num_kv_heads % w = 0
        BY <1>1, <3>2
      <4> QED
        BY <1>2, <4>3, <4>2, DivisionExact
    <3> QED
      BY <3>1, <3>2
  <2>3. w * (2 * len * job.meta.head_dim) = 2 * (w * len) * job.meta.head_dim
    BY <1>2, <2>2
  <2> QED
    BY <1>1, <2>2, <2>3 DEF local_kv_elems
<1> QED
  BY <1>4, <1>5, <1>6, <1>7 DEF ShardsPartition

(* Every query head has its KV head on its rank (ParallelLayout::compute).      *)
LEMMA TogetherFollows == LayoutInd => HeadsStayTogether
<1> SUFFICES ASSUME LayoutInd, pc = "laid_out", NEW r \in Ranks,
                    NEW h \in 0 .. job.meta.num_attention_heads - 1, Owns(out[r].query_heads, h)
             PROVE  Owns(out[r].kv_heads,
                         h \div (job.meta.num_attention_heads \div job.meta.num_kv_heads))
  BY DEF HeadsStayTogether
<1>1. PICK w \in Nat \ {0} :
         /\ w = Len(out) /\ w = job.world_size /\ job \in LayoutJobs
         /\ \A s \in 1 .. w : out[s] = compute(job.meta, RankOf(s - 1))
         /\ w > 1 => /\ job.meta.num_attention_heads % w = 0
                     /\ job.meta.num_kv_heads % w = 0
                     /\ job.meta.ffn_dim % w = 0
  BY LaidOutFacts
<1>2. PICK H \in Nat, K \in Nat \ {0} : H = job.meta.num_attention_heads
                                        /\ K = job.meta.num_kv_heads /\ H % K = 0
  BY <1>1, JobsAssumption
<1>3. PICK g \in Nat : g = H \div K /\ H = K * g
  BY <1>2, DivisionExact
<1>4. g \in Nat \ {0} /\ h \in Nat /\ h < H
  BY <1>2, <1>3
<1>5. r \in 1 .. w /\ r - 1 \in 0 .. w - 1
  BY <1>1 DEF Ranks
<1>6. PICK m \in Nat : /\ out[r].kv_heads = Shard((r - 1) * m, m)
                       /\ out[r].query_heads = Shard((r - 1) * (m * g), m * g)
  <2>1. CASE w = 1
    <3>1. r - 1 = 0
      BY <1>5, <2>1
    <3>2. out[r].kv_heads = Shard(0, K) /\ out[r].query_heads = Shard(0, H)
      BY <1>1, <1>2, <1>5, <2>1 DEF compute, is_distributed, RankOf
    <3>3. (r - 1) * K = 0 /\ (r - 1) * (K * g) = 0
      BY <1>2, <1>3, <3>1
    <3> QED
      BY <1>2, <1>3, <3>2, <3>3
  <2>2. CASE w # 1
    <3>1. K % w = 0 /\ H % w = 0
      BY <1>1, <1>2, <2>2
    <3>2. PICK m \in Nat : m = K \div w /\ K = w * m
      BY <1>2, <3>1, DivisionExact
    <3>3. PICK n \in Nat : n = H \div w /\ H = w * n
      BY <1>2, <3>1, DivisionExact
    <3>4. n = m * g
      <4>1. PICK p \in Nat : p = m * g
        BY <1>3
      <4>2. w * n = w * p
        <5>1. w * (m * g) = (w * m) * g
          BY <1>3, <3>2
        <5> QED
          BY <1>3, <3>2, <3>3, <4>1, <5>1
      <4>3. ~(n + 1 <= p) /\ ~(p + 1 <= n)
        BY <4>2, MoreIsMore
      <4> QED
        BY <4>1, <4>3
    <3>5. /\ out[r].kv_heads = Shard((r - 1) * m, m)
          /\ out[r].query_heads = Shard((r - 1) * n, n)
      <4>1. out[r] = compute(job.meta, RankOf(r - 1)) /\ is_distributed(RankOf(r - 1))
        BY <1>1, <1>5, <2>2 DEF is_distributed, RankOf
      <4>2. /\ out[r].kv_heads = shard_dimension(K, RankOf(r - 1))
            /\ out[r].query_heads = shard_dimension(H, RankOf(r - 1))
        BY <1>2, <4>1 DEF compute
      <4> QED
        BY <1>1, <3>2, <3>3, <4>2 DEF shard_dimension, RankOf
    <3> QED
      BY <3>2, <3>4, <3>5
  <2> QED
    BY <2>1, <2>2
<1>7. (r - 1) * (m * g) <= h /\ h < (r - 1) * (m * g) + m * g
  BY <1>6 DEF Owns, Shard, end
<1>8. r - 1 \in Nat
  BY <1>5
<1>9. (r - 1) * m <= h \div g /\ h \div g < (r - 1) * m + m
  BY <1>4, <1>7, <1>8, HeadsFollow
<1>10. Owns(Shard((r - 1) * m, m), h \div g)
  BY <1>9 DEF Owns, Shard, end
<1> QED
  BY <1>2, <1>3, <1>6, <1>10

(* For every size of the model and of the group, the ranks share out its heads  *)
(* and columns without overlap, and attend to KV heads of their own only        *)
(* (orion-distributed: ParallelLayout::compute).                                *)
THEOREM LayoutHolds == Spec => []LayoutExact
<1>1. LayoutInd => LayoutExact
  BY PartitionFollows, TogetherFollows DEF LayoutExact
<1> QED
  BY LayoutStart, LayoutStep, <1>1, PTL DEF Spec

-----------------------------------------------------------------------------
(* The check of a kernel.  The report grows with each element compared.         *)
Reports == [status : {"ok"}, mismatches : Nat, max_abs : Nat, worst_index : Nat]
Outputs == Seq(Int \cup Special)

(* Comparing goes from the first element to the last (validate).                *)
LEMMA ReportGrows ==
    ASSUME NEW expected \in Outputs, NEW actual \in Outputs, Len(actual) = Len(expected)
    PROVE  \E h \in [0 .. Len(expected) -> Reports] :
              /\ h[0] = Report(0, 0, 0)
              /\ \A i \in 1 .. Len(expected) : h[i] = Compared(h[i - 1], expected, actual, i)
              /\ h[Len(expected)] = validate_kernel(expected, actual)
<1>1. PICK N, S, none, seq : /\ N = Len(expected) /\ S = Reports /\ none = Report(0, 0, 0)
                             /\ seq = [i \in 1 .. N |-> i]
  OBVIOUS
<1>2. /\ N \in Nat /\ none \in S /\ DOMAIN seq = 1 .. N /\ \A i \in 1 .. N : seq[i] = i
  BY <1>1 DEF Outputs, Reports, Report
<1>3. ASSUME NEW i \in 1 .. N, NEW r \in S PROVE Compared(r, expected, actual, i) \in S
  <2>1. expected[i] \in Int \cup Special /\ actual[i] \in Int \cup Special
    BY <1>1 DEF Outputs
  <2>2. r.mismatches \in Nat /\ r.max_abs \in Nat /\ r.worst_index \in Nat /\ i \in Nat
    BY <1>1 DEF Reports
  <2>3. expected[i] \notin Special /\ actual[i] \notin Special
        => Distance(expected[i], actual[i]) \in Nat
    BY <2>1 DEF Distance
  <2>4. ASSUME NEW m \in Nat, NEW x \in Nat, NEW w \in Nat PROVE Report(m, x, w) \in Reports
    BY DEF Report, Reports
  <2> QED
    BY <1>1, <2>2, <2>3, <2>4 DEF Compared
<1> DEFINE F == [i \in 1 .. N |-> [r \in S |-> Compared(r, expected, actual, i)]]
           Body(g) == [D \in SUBSET (1 .. N) |->
                         IF D = {} THEN none
                         ELSE Compared(g[D \ {Max(D)}], expected, actual, seq[Max(D)])]
           iter == CHOOSE g : g = Body(g)
<1>4. F \in [1 .. N -> [S -> S]]
  BY <1>3
<1>5. \A i \in 1 .. N, r \in S : F[i][r] = Compared(r, expected, actual, i)
  OBVIOUS
<1>6. validate_kernel(expected, actual) = iter[1 .. N]
  <2>1. FoldLeft(LAMBDA r, i : Compared(r, expected, actual, i), none, seq) = iter[1 .. N]
    BY <1>2 DEF FoldLeft, MapThenFoldSet
  <2> HIDE DEF iter
  <2> QED
    BY <1>1, <2>1 DEF validate_kernel
<1> HIDE DEF F
<1>7. iter = Body(iter)
  <2>1. PICK g : g \in FoldsOf(S, N, none, F)
    <3> HIDE DEF Body
    <3>1. N \in Nat /\ none \in S
      BY <1>2
    <3>2. FoldsOf(S, N, none, F) # {}
      BY <3>1, <1>4, FoldExists
    <3> QED
      BY <3>2
  <2>2. ASSUME NEW D \in SUBSET (1 .. N)
        PROVE  g[D] = IF D = {} THEN none
                      ELSE Compared(g[D \ {Max(D)}], expected, actual, seq[Max(D)])
    <3> HIDE DEF Body
    <3>1. CASE D # {}
      <4>1. /\ Max(D) \in 1 .. N /\ g[D \ {Max(D)}] \in S
            /\ g[D] = F[Max(D)][g[D \ {Max(D)}]] /\ seq[Max(D)] = Max(D)
        BY <3>1, <2>1, <1>2, FoldDomain DEF FoldsOf
      <4> QED
        BY <4>1, <3>1, <1>5
    <3> QED
      BY <3>1, <2>1 DEF FoldsOf
  <2>3. g = Body(g)
    BY <2>1, <2>2 DEF FoldsOf
  <2> HIDE DEF Body
  <2> QED
    BY <2>3
<1> HIDE DEF iter
<1>8. \A D \in SUBSET (1 .. N) :
         iter[D] = IF D = {} THEN none
                   ELSE Compared(iter[D \ {Max(D)}], expected, actual, seq[Max(D)])
  BY <1>7
<1> HIDE DEF Body
<1>9. Iterates(S, N, none, F, iter)
  <2>1. iter[{}] = none
    BY <1>8
  <2>2. ASSUME NEW D \in (SUBSET (1 .. N)) \ {{}}
        PROVE  iter[D \ {Max(D)}] \in S => iter[D] = F[Max(D)][iter[D \ {Max(D)}]]
    <3>1. Max(D) \in 1 .. N /\ seq[Max(D)] = Max(D)
      BY <1>2, FoldDomain
    <3> QED
      BY <3>1, <1>5, <1>8, ZenonT(40)
  <2> QED
    BY <2>1, <2>2 DEF Iterates
<1>10. PICK h \in StepsOf(S, N, none, F) : h[N] = iter[1 .. N]
  BY <1>2, <1>4, <1>9, FoldPrefixes
<1>11. /\ h \in [0 .. N -> S] /\ h[0] = none
       /\ \A i \in 1 .. N : h[i] = Compared(h[i - 1], expected, actual, i)
  BY <1>2, <1>5, <1>10, FoldDomain DEF StepsOf
<1> QED
  BY <1>1, <1>6, <1>10, <1>11

(* What the report says of the elements compared so far.                        *)
FiniteIn(expected, actual, n) ==
    {i \in 1 .. n : expected[i] \notin Special /\ actual[i] \notin Special}
Sound(r, expected, actual, n) ==
    /\ (r.mismatches = 0) <=> \A i \in 1 .. n : matches(expected[i], actual[i])
    /\ \A i \in FiniteIn(expected, actual, n) : Distance(expected[i], actual[i]) <= r.max_abs
    /\ \/ r.worst_index = 0 /\ r.max_abs = 0
       \/ /\ r.worst_index \in FiniteIn(expected, actual, n) /\ r.max_abs > 0
          /\ Distance(expected[r.worst_index], actual[r.worst_index]) = r.max_abs

LEMMA ReportStaysSound ==
    ASSUME NEW expected \in Outputs, NEW actual \in Outputs, Len(actual) = Len(expected),
           NEW n \in Nat, n + 1 <= Len(expected), NEW r \in Reports, Sound(r, expected, actual, n)
    PROVE  Sound(Compared(r, expected, actual, n + 1), expected, actual, n + 1)
<1> DEFINE e == expected[n + 1]
           a == actual[n + 1]
           finite == e \notin Special /\ a \notin Special
           worse == finite /\ Distance(e, a) > r.max_abs
           q == Compared(r, expected, actual, n + 1)
<1>1. /\ q.mismatches = r.mismatches + (IF matches(e, a) THEN 0 ELSE 1)
      /\ q.max_abs = IF worse THEN Distance(e, a) ELSE r.max_abs
      /\ q.worst_index = IF worse THEN n + 1 ELSE r.worst_index
  BY DEF Compared, Report
<1>2. r.mismatches \in Nat /\ r.max_abs \in Nat /\ r.worst_index \in Nat
  BY DEF Reports
<1>3. finite => Distance(e, a) \in Nat
  BY DEF Outputs, Distance
<1>4. FiniteIn(expected, actual, n + 1)
      = FiniteIn(expected, actual, n) \cup (IF finite THEN {n + 1} ELSE {})
  BY DEF FiniteIn
<1>5. \A i \in 1 .. n + 1 : i \in 1 .. n \/ i = n + 1
  OBVIOUS
<1>6. \A i \in 1 .. n : i \in 1 .. n + 1
  OBVIOUS
<1>7. (q.mismatches = 0) <=> \A i \in 1 .. n + 1 : matches(expected[i], actual[i])
  <2>1. (q.mismatches = 0) <=> r.mismatches = 0 /\ matches(e, a)
    BY <1>1, <1>2
  <2>2. (r.mismatches = 0) <=> \A i \in 1 .. n : matches(expected[i], actual[i])
    BY DEF Sound
  <2>3. n + 1 \in 1 .. n + 1
    OBVIOUS
  <2> HIDE DEF q
  <2> QED
    BY <2>1, <2>2, <2>3, <1>5, <1>6
<1> HIDE DEF q, e, a
<1>8. /\ \A i \in FiniteIn(expected, actual, n) : Distance(expected[i], actual[i]) <= r.max_abs
      /\ \A i \in FiniteIn(expected, actual, n) : Distance(expected[i], actual[i]) \in Nat
  <2>1. ASSUME NEW i \in FiniteIn(expected, actual, n) PROVE Distance(expected[i], actual[i]) \in Nat
    BY DEF FiniteIn, Outputs, Distance
  <2> QED
    BY <2>1 DEF Sound
<1>9. \A i \in FiniteIn(expected, actual, n + 1) : Distance(expected[i], actual[i]) <= q.max_abs
  <2>1. CASE worse
    <3>1. Distance(e, a) \in Nat /\ Distance(e, a) > r.max_abs /\ q.max_abs = Distance(e, a)
      BY <2>1, <1>1, <1>3
    <3> HIDE DEF worse, finite
    <3> QED
      BY <3>1, <1>2, <1>4, <1>8 DEF e, a
  <2>2. CASE ~worse
    <3>1. q.max_abs = r.max_abs /\ (finite => Distance(e, a) <= r.max_abs)
      BY <2>2, <1>1, <1>2, <1>3
    <3> HIDE DEF worse, finite
    <3> QED
      BY <3>1, <1>4, <1>8 DEF e, a
  <2> QED
    BY <2>1, <2>2
<1>10. \/ q.worst_index = 0 /\ q.max_abs = 0
       \/ /\ q.worst_index \in FiniteIn(expected, actual, n + 1) /\ q.max_abs > 0
          /\ Distance(expected[q.worst_index], actual[q.worst_index]) = q.max_abs
  <2>1. CASE worse
    <3>1. q.worst_index = n + 1 /\ q.max_abs = Distance(e, a) /\ q.max_abs > 0 /\ finite
      BY <2>1, <1>1, <1>2, <1>3
    <3> HIDE DEF worse, finite
    <3> QED
      BY <3>1, <1>4 DEF e, a
  <2>2. CASE ~worse
    <3> HIDE DEF worse, finite
    <3> QED
      BY <2>2, <1>1, <1>4 DEF Sound
  <2> QED
    BY <2>1, <2>2
<1> QED
  BY <1>7, <1>9, <1>10 DEF Sound, q

LEMMA ReportIsSound ==
    ASSUME NEW expected \in Outputs, NEW actual \in Outputs, Len(actual) = Len(expected)
    PROVE  /\ validate_kernel(expected, actual) \in Reports
           /\ Sound(validate_kernel(expected, actual), expected, actual, Len(expected))
<1>1. PICK N : N = Len(expected) /\ N \in Nat
  BY DEF Outputs
<1>2. PICK h \in [0 .. N -> Reports] :
         /\ h[0] = Report(0, 0, 0)
         /\ \A i \in 1 .. N : h[i] = Compared(h[i - 1], expected, actual, i)
         /\ h[N] = validate_kernel(expected, actual)
  BY <1>1, ReportGrows
<1> DEFINE Good == {n \in Nat : n <= N => Sound(h[n], expected, actual, n)}
<1>3. 0 \in Good
  <2>1. FiniteIn(expected, actual, 0) = {} /\ 1 .. 0 = {}
    BY DEF FiniteIn
  <2> QED
    BY <1>2, <2>1 DEF Sound, Report
<1>4. \A n \in Nat : n \in Good => n + 1 \in Good
  <2> SUFFICES ASSUME NEW n \in Nat, Sound(h[n], expected, actual, n), n + 1 <= N
               PROVE  Sound(h[n + 1], expected, actual, n + 1)
    BY <1>1
  <2>1. n \in 0 .. N /\ n + 1 \in 1 .. N /\ (n + 1) - 1 = n
    BY <1>1
  <2>2. h[n] \in Reports /\ h[n + 1] = Compared(h[n], expected, actual, n + 1)
    BY <1>2, <2>1
  <2> QED
    BY <1>1, <2>2, ReportStaysSound
<1> HIDE DEF Good
<1>5. N \in Good
  BY <1>1, <1>3, <1>4, NatInductionOn
<1> QED
  BY <1>1, <1>2, <1>5 DEF Good

(* A tolerance that is the larger of two bounds.                                *)
LEMMA WithinTolerance ==
    ASSUME NEW x \in Nat, NEW a \in Nat, NEW n \in Nat, NEW d \in Nat \ {0}
    PROVE  x <= Max({a, n \div d}) <=> x <= a \/ x * d <= n
<1>1. PICK q \in Nat : q = n \div d /\ d * q <= n /\ n < d * (q + 1)
  BY DivisionExact
<1>2. x <= q <=> x * d <= n
  <2>1. ASSUME x <= q PROVE x * d <= n
    <3>1. x * d <= q * d /\ q * d = d * q
      BY <2>1
    <3> QED
      BY <1>1, <3>1
  <2>2. ASSUME x > q PROVE x * d > n
    <3>1. q + 1 <= x
      BY <2>2
    <3>2. (q + 1) * d <= x * d /\ (q + 1) * d = d * (q + 1)
      BY <3>1
    <3> QED
      BY <1>1, <3>2
  <2> QED
    BY <2>1, <2>2
<1>3. Max({a, q}) = IF a >= q THEN a ELSE q
  <2>1. \A y \in {a, q} : (\A z \in {a, q} : y >= z) <=> y = (IF a >= q THEN a ELSE q)
    OBVIOUS
  <2>2. (IF a >= q THEN a ELSE q) \in {a, q}
    OBVIOUS
  <2> QED
    BY <2>1, <2>2 DEF Max
<1> QED
  BY <1>1, <1>2, <1>3

(* A kernel's job goes through one step, which leaves its report.               *)
KernelInd ==
    /\ job \in SampleJobs \cup QuantizeJobs \cup LayoutJobs \cup KernelJobs
    /\ job.kind = "kernel"
       => /\ pc \in {"compare", "done"}
          /\ pc = "done" => out = validate_kernel(job.expected, job.actual)

LEMMA KernelStarts == Init => KernelInd
BY DEF Init, KernelInd, FirstStep

LEMMA KernelSteps == KernelInd /\ [Next]_vars => KernelInd'
<1> SUFFICES ASSUME KernelInd, [Next]_vars PROVE KernelInd'
  OBVIOUS
<1> USE DEF KernelInd
<1>1. CASE UNCHANGED vars
  BY <1>1 DEF vars
<1>2. CASE CompareKernel
  BY <1>2 DEF CompareKernel, Finish
<1>3. ASSUME pc \notin {"compare", "done"}, job' = job PROVE KernelInd'
  BY <1>3
<1>4. CASE EmptyRow \/ Penalise \/ Greedy \/ Temperature \/ TopK \/ TopP \/ Draw
  <2>1. pc \in {"penalty", "greedy", "temperature", "top_k", "top_p", "draw"} /\ job' = job
    BY <1>4 DEF EmptyRow, Penalise, Greedy, Temperature, TopK, TopP, Draw
  <2> QED
    BY <1>3, <2>1
<1>5. CASE Quantize \/ Dequantize \/ ComputeLayout \/ RefuseLayout \/ RanksDone
  <2>1. pc \in {"quantize", "dequantize", "rank"} /\ job' = job
    BY <1>5 DEF Quantize, Dequantize, ComputeLayout, RefuseLayout, RanksDone
  <2> QED
    BY <1>3, <2>1
<1> QED
  BY <1>1, <1>2, <1>4, <1>5 DEF Next

LEMMA ReportFollows == KernelInd => ReportExact
<1> SUFFICES ASSUME KernelInd, pc = "done", job.kind = "kernel", out # Error
             PROVE  ReportExact
  BY DEF ReportExact
<1>1. PICK e, a, n : e = job.expected /\ a = job.actual /\ n = Len(e)
  OBVIOUS
<1>2. e \in Outputs /\ a \in Outputs /\ n \in Nat
  <2>1. job \in KernelJobs
    BY JobsAssumption DEF KernelInd
  <2> QED
    BY <1>1, <2>1, JobsAssumption DEF Outputs
<1>3. Len(a) = Len(e) /\ out \in Reports /\ Sound(out, e, a, n)
  <2>1. out = validate_kernel(e, a)
    BY <1>1 DEF KernelInd
  <2>2. Len(a) = Len(e)
    BY <2>1 DEF validate_kernel, Error
  <2> QED
    BY <1>1, <1>2, <2>1, <2>2, ReportIsSound
<1> DEFINE Finite == {i \in 1 .. n : e[i] \notin Special /\ a[i] \notin Special}
           Off(i) == Distance(e[i], a[i])
           Close(i) == IF i \in Finite
                       THEN Off(i) <= Max({TolAbs, (TolRel[1] * Size(e[i])) \div TolRel[2]})
                       ELSE e[i] = a[i]
<1>4. \A i \in Finite : Off(i) \in Nat /\ Size(e[i]) \in Nat
  BY <1>1, <1>2, <1>3 DEF Outputs, Distance, Size
<1>5. ASSUME NEW i \in 1 .. n PROVE Close(i) <=> matches(e[i], a[i])
  <2>1. CASE i \in Finite
    <3>1. /\ TolAbs \in Nat /\ TolRel[1] * Size(e[i]) \in Nat /\ TolRel[2] \in Nat \ {0}
          /\ Off(i) \in Nat
      BY <1>4, <2>1, ToleranceAssumption
    <3>2. Off(i) <= Max({TolAbs, (TolRel[1] * Size(e[i])) \div TolRel[2]})
          <=> Off(i) <= TolAbs \/ Off(i) * TolRel[2] <= TolRel[1] * Size(e[i])
      <4> HIDE DEF Off
      <4> QED
        BY <3>1, WithinTolerance
    <3> QED
      BY <2>1, <3>2 DEF matches
  <2>2. CASE i \notin Finite
    BY <1>5, <2>2 DEF matches
  <2> QED
    BY <2>1, <2>2
<1>6. (out.mismatches = 0) <=> \A i \in 1 .. n : Close(i)
  <2> HIDE DEF Close
  <2> QED
    BY <1>3, <1>5 DEF Sound
<1>7. Finite = FiniteIn(e, a, n)
  BY DEF FiniteIn
<1>8. IF \A i \in Finite : Off(i) = 0 THEN out.worst_index = 0
      ELSE /\ out.worst_index \in Finite
           /\ \A i \in Finite : Off(i) <= Off(out.worst_index)
           /\ out.max_abs = Off(out.worst_index)
  <2>1. /\ \A i \in Finite : Off(i) <= out.max_abs
        /\ \/ out.worst_index = 0 /\ out.max_abs = 0
           \/ /\ out.worst_index \in Finite /\ out.max_abs > 0
              /\ Off(out.worst_index) = out.max_abs
    BY <1>3, <1>7 DEF Sound
  <2>2. out.max_abs \in Nat
    BY <1>3 DEF Reports
  <2> HIDE DEF Off, Finite
  <2> QED
    BY <1>4, <2>1, <2>2
<1> QED
  BY <1>1, <1>6, <1>8 DEF ReportExact

(* For outputs of any length and any tolerance, the report of a kernel check is *)
(* that of its elements: none is missed, none is blamed wrongly, and the worst  *)
(* is one with the largest error (orion-cuda: validate).                        *)
THEOREM ReportHolds == Spec => []ReportExact
BY KernelStarts, KernelSteps, ReportFollows, PTL DEF Spec

-----------------------------------------------------------------------------
(* Quantization.  A weight's group, and its place in the group.                 *)
Part(i, size) == (i - 1) \div size + 1
Place(i, size) == i - ((i - 1) \div size) * size

(* The number of groups is the least that is enough (chunks).                   *)
LEMMA Ceiling ==
    ASSUME NEW n \in Nat, NEW d \in Nat \ {0}
    PROVE  div_ceil(n, d) \in Nat /\ n <= div_ceil(n, d) * d /\ div_ceil(n, d) * d < n + d
<1>1. n + d - 1 \in Nat /\ div_ceil(n, d) = (n + d - 1) \div d
  BY DEF div_ceil
<1>2. PICK m \in Nat : m = div_ceil(n, d) /\ d * m <= n + d - 1 /\ n + d - 1 < d * (m + 1)
  BY <1>1, DivisionExact
<1>3. d * (m + 1) = m * d + d /\ d * m = m * d
  BY <1>2
<1> QED
  BY <1>2, <1>3

LEMMA SliceIs ==
    ASSUME NEW X, NEW s \in Seq(X), NEW a \in Nat, NEW e \in Nat, a <= e, e <= Len(s)
    PROVE  /\ SubSeq(s, a + 1, e) \in Seq(X) /\ Len(SubSeq(s, a + 1, e)) = e - a
           /\ \A k \in 1 .. e - a : SubSeq(s, a + 1, e)[k] = s[a + k]
<1>1. Len(SubSeq(s, a + 1, e)) = e - a
  BY SubSeqProperties
<1>2. SubSeq(s, a + 1, e) \in Seq(X)
  <2>1. a + 1 \in 1 .. Len(s) + 1 /\ e \in 0 .. Len(s)
    BY LenProperties
  <2> QED
    BY <2>1, SubSeqProperties
<1>3. ASSUME NEW k \in 1 .. e - a PROVE SubSeq(s, a + 1, e)[k] = s[a + k]
  <2>1. a + 1 \in 1 .. Len(s) + 1 /\ e \in 0 .. Len(s)
    BY LenProperties
  <2>2. SubSeq(s, a + 1, e)[k] = s[a + 1 + k - 1] /\ a + 1 + k - 1 = a + k
    BY <1>1, <2>1, SubSeqProperties, SMTT(30)
  <2> QED
    BY <2>2
<1> QED
  BY <1>1, <1>2, <1>3

LEMMA SequenceOf ==
    ASSUME NEW T, NEW n \in Nat, NEW f, f = [i \in 1 .. n |-> f[i]], \A i \in 1 .. n : f[i] \in T
    PROVE  f \in Seq(T) /\ Len(f) = n
OBVIOUS

(* Where group g begins: every group before it is full.                         *)
LEMMA GroupBounds ==
    ASSUME NEW n \in Nat, NEW d \in Nat \ {0}, NEW g \in 1 .. div_ceil(n, d)
    PROVE  g \in Nat \ {0} /\ (g - 1) * d \in Nat /\ (g - 1) * d < n /\ (g - 1) * d + d = g * d
<1>1. PICK m \in Nat : m = div_ceil(n, d) /\ n <= m * d /\ m * d < n + d
  BY Ceiling
<1>2. g - 1 \in Nat /\ g \in Nat \ {0} /\ g <= m
  BY <1>1
<1>3. (g - 1) * d \in Nat /\ (g - 1) * d + d = g * d
  BY <1>2
<1>4. g * d <= m * d
  BY <1>1, <1>2
<1> QED
  BY <1>1, <1>2, <1>3, <1>4

(* What a group holds (chunks).                                                 *)
Grouped(c, s, size, X) ==
    /\ c \in Seq(Seq(X)) /\ Len(c) = div_ceil(Len(s), size)
    /\ \A g \in 1 .. div_ceil(Len(s), size) :
          /\ Len(c[g]) = IF g * size < Len(s) THEN size ELSE Len(s) - (g - 1) * size
          /\ \A k \in 1 .. Len(c[g]) : c[g][k] = s[(g - 1) * size + k]

LEMMA ChunkIs ==
    ASSUME NEW X, NEW s \in Seq(X), NEW size \in Nat \ {0}
    PROVE  Grouped(chunks(s, size), s, size, X)
<1>1. PICK n, m, c : n = Len(s) /\ m = div_ceil(n, size) /\ c = chunks(s, size)
  OBVIOUS
<1>2. n \in Nat /\ m \in Nat
  BY <1>1, Ceiling
<1>3. c = [g \in 1 .. m |-> SubSeq(s, (g - 1) * size + 1, IF g * size < n THEN g * size ELSE n)]
  BY <1>1 DEF chunks
<1>4. ASSUME NEW g \in 1 .. m
      PROVE  /\ c[g] \in Seq(X)
             /\ Len(c[g]) = IF g * size < n THEN size ELSE n - (g - 1) * size
             /\ \A k \in 1 .. Len(c[g]) : c[g][k] = s[(g - 1) * size + k]
  <2>1. PICK a \in Nat, b \in Nat : a = (g - 1) * size /\ b = g * size /\ a < n /\ a + size = b
    BY <1>1, <1>2, GroupBounds
  <2>2. PICK e \in Nat : e = (IF b < n THEN b ELSE n)
    BY <1>2, <2>1
  <2>3. e <= n /\ a < e
    BY <1>2, <2>1, <2>2
  <2>4. c[g] = SubSeq(s, a + 1, e)
    BY <1>3, <2>1, <2>2
  <2>5. /\ c[g] \in Seq(X) /\ Len(c[g]) = e - a
        /\ \A k \in 1 .. e - a : c[g][k] = s[a + k]
    <3>1. a <= e /\ e <= Len(s)
      BY <1>1, <2>1, <2>3
    <3>2. /\ SubSeq(s, a + 1, e) \in Seq(X) /\ Len(SubSeq(s, a + 1, e)) = e - a
          /\ \A k \in 1 .. e - a : SubSeq(s, a + 1, e)[k] = s[a + k]
      BY <3>1, SliceIs
    <3> QED
      BY <2>4, <3>2
  <2>6. Len(c[g]) = IF b < n THEN size ELSE n - a
    BY <1>2, <2>1, <2>2, <2>5
  <2> QED
    BY <2>1, <2>5, <2>6
<1>5. c \in Seq(Seq(X)) /\ Len(c) = m
  <2>1. DOMAIN c = 1 .. m /\ c = [g \in 1 .. m |-> c[g]] /\ \A g \in 1 .. m : c[g] \in Seq(X)
    BY <1>3, <1>4
  <2> QED
    BY <1>2, <2>1, SequenceOf
<1> QED
  BY <1>1, <1>4, <1>5 DEF Grouped

(* Every position is in one group, at one place.                                *)
LEMMA PartAndPlace ==
    ASSUME NEW n \in Nat, NEW d \in Nat \ {0}, NEW i \in 1 .. n
    PROVE  /\ Part(i, d) \in 1 .. div_ceil(n, d)
           /\ Place(i, d) \in 1 .. d
           /\ Place(i, d) <= n - (Part(i, d) - 1) * d
           /\ (Part(i, d) - 1) * d + Place(i, d) = i
<1>1. PICK m \in Nat : m = div_ceil(n, d) /\ n <= m * d
  BY Ceiling
<1>2. i - 1 \in Nat
  OBVIOUS
<1>3. PICK q \in Nat : q = (i - 1) \div d /\ d * q <= i - 1 /\ i - 1 < d * (q + 1)
  BY <1>2, DivisionExact
<1>4. PICK a \in Nat : a = q * d /\ d * q = a /\ d * (q + 1) = a + d
  BY <1>3
<1>5. q < m
  <2>1. SUFFICES ASSUME m <= q PROVE FALSE
    BY <1>1, <1>3
  <2>2. m * d <= q * d
    BY <1>1, <1>3, <2>1
  <2> QED
    BY <1>1, <1>3, <1>4, <2>2
<1>6. Part(i, d) = q + 1 /\ Place(i, d) = i - a /\ (q + 1) - 1 = q
  BY <1>3, <1>4 DEF Part, Place
<1> QED
  BY <1>1, <1>3, <1>4, <1>5, <1>6

(* Sequences as long as the groups, put end to end.                             *)
SameShape(R, s, size) ==
    /\ Len(R) = div_ceil(Len(s), size)
    /\ \A g \in 1 .. Len(R) : Len(R[g]) = Len(chunks(s, size)[g])
EndToEnd(f, R, n, size, Y) ==
    /\ f \in Seq(Y) /\ Len(f) = n
    /\ \A i \in 1 .. n : /\ Part(i, size) \in 1 .. Len(R)
                         /\ Place(i, size) \in 1 .. Len(R[Part(i, size)])
                         /\ f[i] = R[Part(i, size)][Place(i, size)]

LEMMA Regrouped ==
    ASSUME NEW X, NEW s \in Seq(X), NEW size \in Nat \ {0}, NEW Y, NEW R \in Seq(Seq(Y)),
           SameShape(R, s, size)
    PROVE  EndToEnd(FlattenSeq(R), R, Len(s), size, Y)
<1>1. PICK n \in Nat : n = Len(s)
  OBVIOUS
<1>2. PICK m \in Nat : n = Len(s) /\ m = div_ceil(n, size) /\ n \in Nat
                  /\ n <= m * size /\ m * size < n + size
  BY <1>1, Ceiling DEF SameShape
<1>3. PICK o : o = [g \in 0 .. m |-> IF g * size < n THEN g * size ELSE n]
  OBVIOUS
<1>4. \A g \in 1 .. m : Len(R[g]) = IF g * size < n THEN size ELSE n - (g - 1) * size
  BY <1>2, ChunkIs, ZenonT(40) DEF Grouped, SameShape
<1>5. \A g \in 1 .. m : o[g - 1] = (g - 1) * size
  <2> SUFFICES ASSUME NEW g \in 1 .. m PROVE o[g - 1] = (g - 1) * size
    OBVIOUS
  <2>1. (g - 1) * size < n
    BY <1>2, GroupBounds
  <2>2. g - 1 \in 0 .. m
    BY <1>2
  <2> QED
    BY <1>3, <2>1, <2>2
<1>6. Sums(o, R)
  <2>1. o \in [0 .. m -> Nat]
    <3>1. ASSUME NEW g \in 0 .. m PROVE g * size \in Nat
      BY <1>2
    <3> QED
      BY <1>2, <1>3, <3>1
  <2>2. o[0] = 0
    BY <1>2, <1>3
  <2>3. ASSUME NEW g \in 1 .. m PROVE o[g] = o[g - 1] + Len(R[g])
    <3>1. PICK a \in Nat, b \in Nat : a = (g - 1) * size /\ b = g * size /\ a < n /\ a + size = b
      BY <1>2, GroupBounds
    <3>2. o[g - 1] = a /\ o[g] = (IF b < n THEN b ELSE n) /\ Len(R[g]) = (IF b < n THEN size ELSE n - a)
      BY <1>2, <1>3, <1>4, <1>5, <3>1
    <3>3. (IF b < n THEN b ELSE n) = a + (IF b < n THEN size ELSE n - a)
      <4>1. a + size = b /\ a + (n - a) = n
        BY <1>1, <3>1
      <4> QED
        BY <4>1
    <3> QED
      BY <3>2, <3>3
  <2> QED
    BY <1>2, <2>1, <2>2, <2>3 DEF Sums, SameShape
<1>7. FlattenSeq(R) \in Seq(Y) /\ Joins(FlattenSeq(R), o, R)
  BY <1>6, Flattened
<1>8. Len(FlattenSeq(R)) = n
  <2>1. o[m] = n
    BY <1>2, <1>3
  <2> QED
    BY <1>2, <1>7, <2>1 DEF Joins, SameShape
<1>9. ASSUME NEW i \in 1 .. n
      PROVE  /\ Part(i, size) \in 1 .. m
             /\ Place(i, size) \in 1 .. Len(R[Part(i, size)])
             /\ FlattenSeq(R)[i] = R[Part(i, size)][Place(i, size)]
  <2>1. PICK p, k : p = Part(i, size) /\ k = Place(i, size)
    OBVIOUS
  <2>2. p \in 1 .. m /\ k \in 1 .. size /\ k <= n - (p - 1) * size /\ (p - 1) * size + k = i
    BY <1>2, <2>1, PartAndPlace
  <2>3. k \in 1 .. Len(R[p])
    BY <1>2, <1>4, <2>2, SMTT(30)
  <2>4. FlattenSeq(R)[o[p - 1] + k] = R[p][k]
    BY <1>2, <1>7, <2>2, <2>3 DEF Joins, SameShape
  <2> QED
    BY <1>5, <2>1, <2>2, <2>3, <2>4
<1> QED
  BY <1>2, <1>7, <1>8, <1>9 DEF EndToEnd, SameShape

LEMMA PairsJoined ==
    ASSUME NEW Y, NEW R \in Seq(Seq(Y)), \A g \in 1 .. Len(R) : Len(R[g]) = 2
    PROVE  /\ FlattenSeq(R) \in Seq(Y) /\ Len(FlattenSeq(R)) = 2 * Len(R)
           /\ \A g \in 1 .. Len(R), k \in 1 .. 2 : FlattenSeq(R)[(g - 1) * 2 + k] = R[g][k]
<1>1. PICK m \in Nat : m = Len(R)
  OBVIOUS
<1>2. PICK o : o = [g \in 0 .. m |-> g * 2]
  OBVIOUS
<1>3. o \in [0 .. m -> Nat] /\ \A g \in 1 .. m : o[g - 1] = (g - 1) * 2 /\ o[g] = g * 2
  BY <1>1, <1>2
<1>4. Sums(o, R)
  <2>1. o[0] = 0 /\ \A g \in 1 .. m : g * 2 = (g - 1) * 2 + 2
    BY <1>1, <1>2
  <2> QED
    BY <1>1, <1>3, <2>1 DEF Sums
<1>5. FlattenSeq(R) \in Seq(Y) /\ Joins(FlattenSeq(R), o, R)
  BY <1>4, Flattened
<1>6. o[m] = 2 * m
  BY <1>1, <1>2
<1> QED
  BY <1>1, <1>3, <1>5, <1>6 DEF Joins

(* A byte holds two nibbles.                                                    *)
LEMMA ByteHolds ==
    ASSUME NEW a \in 0 .. 15, NEW b \in 0 .. 15
    PROVE  /\ Nibble(a) + 16 * Nibble(b) \in Nat /\ Nibble(a) \in Nat
           /\ (Nibble(a) + 16 * Nibble(b)) % 16 = a /\ (Nibble(a) + 16 * Nibble(b)) \div 16 = b
BY DEF Nibble

LEMMA Levels ==
    ASSUME NEW q \in {"int8", "int4"}
    PROVE  max_value(q) \in Nat \ {0} /\ (q = "int4" => max_value(q) = 15)
<1>1. 2 ^ 8 = 256 /\ 2 ^ 4 = 16
  OBVIOUS
<1> QED
  BY <1>1 DEF max_value, bits

(* What is packed is unpacked, an odd number of nibbles included.               *)
LEMMA PackedIsUnpacked ==
    ASSUME NEW q \in {"int8", "int4"}, NEW v \in Seq(0 .. max_value(q))
    PROVE  unpack(pack(v, q), q, Len(v)) = v
<1>1. PICK n \in Nat : n = Len(v)
  OBVIOUS
<1>2. CASE q = "int8"
  <2>1. unpack(pack(v, q), q, Len(v)) = SubSeq(v, 1, n)
    BY <1>1, <1>2 DEF unpack, pack
  <2> QED
    BY <1>1, <2>1
<1>3. CASE q = "int4"
  <2>1. v \in Seq(0 .. 15)
    BY <1>3, Levels
  <2>2. PICK two \in Nat \ {0} : two = 2
    OBVIOUS
  <2>3. PICK m \in Nat : m = div_ceil(n, 2) /\ n <= m * 2
    <3>1. div_ceil(n, two) \in Nat /\ n <= div_ceil(n, two) * two
      BY <1>1, Ceiling
    <3> QED
      BY <2>2, <3>1
  <2>4. PICK c : c = chunks(v, 2)
    OBVIOUS
  <2>5. /\ c \in Seq(Seq(0 .. 15)) /\ Len(c) = m
        /\ \A g \in 1 .. m : /\ Len(c[g]) = IF g * 2 < n THEN 2 ELSE n - (g - 1) * 2
                             /\ \A k \in 1 .. Len(c[g]) : c[g][k] = v[(g - 1) * 2 + k]
    <3>1. /\ chunks(v, two) \in Seq(Seq(0 .. 15)) /\ Len(chunks(v, two)) = div_ceil(Len(v), two)
          /\ \A g \in 1 .. div_ceil(Len(v), two) :
                /\ Len(chunks(v, two)[g])
                      = IF g * two < Len(v) THEN two ELSE Len(v) - (g - 1) * two
                /\ \A k \in 1 .. Len(chunks(v, two)[g]) :
                       chunks(v, two)[g][k] = v[(g - 1) * two + k]
      <4>1. PICK X : X = 0 .. 15
        OBVIOUS
      <4>2. v \in Seq(X)
        BY <2>1, <4>1
      <4>3. Grouped(chunks(v, two), v, two, X)
        BY <4>2, ChunkIs
      <4> QED
        BY <4>1, <4>3 DEF Grouped
    <3> QED
      BY <1>1, <2>2, <2>3, <2>4, <3>1
  <2>6. PICK hi : hi = [g \in 1 .. m |-> IF Len(c[g]) > 1 THEN Nibble(c[g][2]) ELSE 0]
    OBVIOUS
  <2>7. PICK data : data = [g \in 1 .. m |-> Nibble(c[g][1]) + 16 * hi[g]]
    OBVIOUS
  <2>8. data = pack(v, q)
    BY <1>1, <1>3, <2>3, <2>4, <2>6, <2>7 DEF pack
  <2>9. ASSUME NEW g \in 1 .. m
        PROVE  /\ data[g] \in Nat /\ data[g] % 16 = c[g][1]
               /\ Len(c[g]) > 1 => data[g] \div 16 = c[g][2]
               /\ data[g] \div 16 \in Nat /\ data[g] % 16 \in Nat
    <3>1. (g - 1) * two < n
      BY <1>1, <2>2, <2>3, GroupBounds
    <3>2. (g - 1) * 2 < n /\ c[g] \in Seq(0 .. 15) /\ Len(c[g]) \in Nat
      BY <2>2, <2>5, <3>1
    <3>3. Len(c[g]) >= 1
      <4>1. Len(c[g]) = IF g * 2 < n THEN 2 ELSE n - (g - 1) * 2
        BY <2>5
      <4> QED
        BY <1>1, <3>2, <4>1
    <3>4. c[g][1] \in 0 .. 15
      <4>1. 1 \in 1 .. Len(c[g])
        BY <3>2, <3>3
      <4> QED
        BY <3>2, <4>1
    <3>5. CASE Len(c[g]) > 1
      <4>1. c[g][2] \in 0 .. 15
        BY <3>2, <3>5
      <4>2. data[g] = Nibble(c[g][1]) + 16 * Nibble(c[g][2])
        BY <2>6, <2>7, <3>5
      <4>3. PICK a \in 0 .. 15, b \in 0 .. 15 : a = c[g][1] /\ b = c[g][2]
        BY <3>4, <4>1
      <4>4. data[g] = Nibble(a) + 16 * Nibble(b)
        BY <4>2, <4>3
      <4>5. /\ Nibble(a) + 16 * Nibble(b) \in Nat
            /\ (Nibble(a) + 16 * Nibble(b)) % 16 = a /\ (Nibble(a) + 16 * Nibble(b)) \div 16 = b
        BY ByteHolds
      <4>6. data[g] \in Nat /\ data[g] % 16 = a /\ data[g] \div 16 = b
        BY <4>4, <4>5
      <4> QED
        BY <4>3, <4>6
    <3>6. CASE ~(Len(c[g]) > 1)
      <4>1. data[g] = Nibble(c[g][1]) + 16 * Nibble(0)
        BY <2>6, <2>7, <3>6 DEF Nibble
      <4>2. PICK a \in 0 .. 15, b \in 0 .. 15 : a = c[g][1] /\ b = 0
        BY <3>4
      <4>3. data[g] = Nibble(a) + 16 * Nibble(b)
        BY <4>1, <4>2
      <4>4. /\ Nibble(a) + 16 * Nibble(b) \in Nat
            /\ (Nibble(a) + 16 * Nibble(b)) % 16 = a /\ (Nibble(a) + 16 * Nibble(b)) \div 16 = b
        BY ByteHolds
      <4>5. data[g] \in Nat /\ data[g] % 16 = a /\ data[g] \div 16 = b
        BY <4>3, <4>4
      <4> QED
        BY <3>6, <4>2, <4>5
    <3> QED
      BY <3>5, <3>6
  <2>10. PICK R : R = [b \in 1 .. m |-> <<data[b] % 16, data[b] \div 16>>]
    OBVIOUS
  <2>11. Len(data) = m
    BY <2>3, <2>7
  <2>12. unpack(data, q, n) = SubSeq(FlattenSeq(R), 1, n)
    BY <1>3, <2>10, <2>11 DEF unpack
  <2>13. R \in Seq(Seq(Nat)) /\ Len(R) = m /\ \A g \in 1 .. m : Len(R[g]) = 2
    <3>1. \A g \in 1 .. m : R[g] \in Seq(Nat) /\ Len(R[g]) = 2
      BY <2>9, <2>10
    <3>2. R = [g \in 1 .. m |-> R[g]]
      BY <2>10
    <3> QED
      BY <2>3, <3>1, <3>2, SequenceOf
  <2>14. PICK f : f = FlattenSeq(R)
    OBVIOUS
  <2>15. /\ f \in Seq(Nat) /\ Len(f) = 2 * m
         /\ \A g \in 1 .. m, k \in 1 .. 2 : f[(g - 1) * 2 + k] = R[g][k]
    <3>1. R \in Seq(Seq(Nat)) /\ \A g \in 1 .. Len(R) : Len(R[g]) = 2
      BY <2>13
    <3>2. /\ FlattenSeq(R) \in Seq(Nat) /\ Len(FlattenSeq(R)) = 2 * Len(R)
          /\ \A g \in 1 .. Len(R), k \in 1 .. 2 : FlattenSeq(R)[(g - 1) * 2 + k] = R[g][k]
      BY <3>1, PairsJoined
    <3> QED
      BY <2>13, <2>14, <3>2
  <2>16. ASSUME NEW i \in 1 .. n PROVE f[i] = v[i]
    <3>1. PICK g, k : g = Part(i, 2) /\ k = Place(i, 2)
      OBVIOUS
    <3>2. g \in 1 .. m /\ k \in 1 .. 2 /\ k <= n - (g - 1) * 2 /\ (g - 1) * 2 + k = i
      <4>1. /\ Part(i, two) \in 1 .. div_ceil(n, two) /\ Place(i, two) \in 1 .. two
            /\ Place(i, two) <= n - (Part(i, two) - 1) * two
            /\ (Part(i, two) - 1) * two + Place(i, two) = i
        BY <1>1, PartAndPlace, ZenonT(40)
      <4> QED
        BY <2>2, <2>3, <3>1, <4>1
    <3>3. k \in 1 .. Len(c[g])
      <4>1. Len(c[g]) = IF g * 2 < n THEN 2 ELSE n - (g - 1) * 2
        BY <2>5, <3>2
      <4> QED
        BY <1>1, <3>2, <4>1
    <3>4. c[g][k] = v[i] /\ f[i] = R[g][k]
      BY <2>5, <2>15, <3>2, <3>3
    <3>5. R[g][k] = c[g][k]
      <4>1. R[g] = <<data[g] % 16, data[g] \div 16>>
        BY <2>10, <3>2
      <4>2. CASE k = 1
        BY <2>9, <3>2, <4>1, <4>2
      <4>3. CASE k = 2
        <5>1. Len(c[g]) > 1
          BY <2>5, <3>2, <3>3, <4>3
        <5> QED
          BY <2>9, <3>2, <4>1, <4>3, <5>1
      <4> QED
        BY <3>2, <4>2, <4>3
    <3> QED
      BY <3>4, <3>5
  <2>17. SubSeq(f, 1, n) = v
    <3>1. /\ SubSeq(f, 0 + 1, n) \in Seq(Nat) /\ Len(SubSeq(f, 0 + 1, n)) = n - 0
          /\ \A k \in 1 .. n - 0 : SubSeq(f, 0 + 1, n)[k] = f[0 + k]
      <4>1. 0 <= n /\ n <= Len(f)
        BY <1>1, <2>3, <2>15
      <4> QED
        BY <2>15, <4>1, SliceIs
    <3>2. /\ SubSeq(f, 1, n) \in Seq(Nat) /\ Len(SubSeq(f, 1, n)) = n
          /\ \A k \in 1 .. n : SubSeq(f, 1, n)[k] = f[k]
      BY <3>1
    <3>3. v \in Seq(Nat)
      BY <2>1
    <3> QED
      BY <1>1, <2>16, <3>2, <3>3, SeqEqual
  <2> QED
    BY <1>1, <2>8, <2>12, <2>14, <2>17
<1> QED
  BY <1>2, <1>3

(* Rounding is off by at most half.                                             *)
LEMMA RoundingError ==
    ASSUME NEW n \in Int, NEW d \in Nat \ {0}
    PROVE  /\ round(n, d) \in Int
           /\ 2 * (round(n, d) * d) <= 2 * n + d /\ 2 * n - d <= 2 * (round(n, d) * d)
<1>1. ASSUME NEW p \in Nat
      PROVE  \E r \in Nat : /\ r = (2 * p + d) \div (2 * d)
                            /\ 2 * (r * d) <= 2 * p + d /\ 2 * p - d <= 2 * (r * d)
  <2>1. PICK w \in Nat \ {0}, s \in Nat : w = 2 * d /\ s = 2 * p + d
    OBVIOUS
  <2>2. PICK r \in Nat : r = s \div w /\ w * r <= s /\ s < w * (r + 1)
    BY <2>1, DivisionExact
  <2>3. w * r = 2 * (r * d) /\ w * (r + 1) = 2 * (r * d) + 2 * d
    <3>1. (2 * d) * r = 2 * (d * r) /\ d * r = r * d
      OBVIOUS
    <3>2. w * (r + 1) = w * r + w
      BY <2>1
    <3> QED
      BY <2>1, <3>1, <3>2
  <2>4. r * d \in Nat
    BY <2>2
  <2> QED
    BY <2>1, <2>2, <2>3, <2>4
<1>2. CASE n >= 0
  <2>1. n \in Nat /\ round(n, d) = (2 * n + d) \div (2 * d)
    BY <1>2 DEF round
  <2> QED
    BY <1>1, <2>1
<1>3. CASE n < 0
  <2>1. PICK p \in Nat : p = -n
    BY <1>3
  <2>2. PICK r \in Nat : /\ r = (2 * p + d) \div (2 * d)
                         /\ 2 * (r * d) <= 2 * p + d /\ 2 * p - d <= 2 * (r * d)
    BY <1>1
  <2>3. round(n, d) = -r
    BY <1>3, <2>1, <2>2 DEF round
  <2>4. (-r) * d = -(r * d) /\ r * d \in Nat
    BY <2>2
  <2> QED
    BY <2>1, <2>2, <2>3, <2>4
<1> QED
  BY <1>2, <1>3

LEMMA ProductsInOrder ==
    ASSUME NEW a \in Int, NEW b \in Int, NEW d \in Nat
    PROVE  a * d \in Int /\ b * d \in Int /\ (a <= b => a * d <= b * d)
           /\ (a + 1) * d = a * d + d /\ (-a) * d = -(a * d) /\ (a + b) * d = a * d + b * d
<1>1. /\ a * d \in Int /\ b * d \in Int
      /\ (a + 1) * d = a * d + d /\ (-a) * d = -(a * d) /\ (a + b) * d = a * d + b * d
  OBVIOUS
<1>2. ASSUME a <= b PROVE a * d <= b * d
  <2>1. PICK c \in Nat : b = a + c
    <3>1. b - a \in Nat /\ b = a + (b - a)
      BY <1>2
    <3> QED
      BY <3>1
  <2>2. b * d = a * d + c * d /\ c * d \in Nat
    BY <2>1
  <2> QED
    BY <1>1, <2>2
<1> QED
  BY <1>1, <1>2

(* An integer that fits does not wrap (i32).                                    *)
LEMMA FitsWithoutWrap ==
    ASSUME NEW y \in Int, -I32 <= y, y < I32
    PROVE  WrapI32(y) = y
<1>1. PICK w \in Nat \ {0}, x \in Nat : w = 2 * I32 /\ x = y + I32 /\ x < w
  BY QuantAssumption
<1>2. x % w = x
  <2>1. PICK k \in Int : k = 0
    OBVIOUS
  <2>2. k * w <= x /\ x < k * w + w
    BY <1>1, <2>1
  <2>3. k = x \div w
    BY <2>2, QuotientIs
  <2>4. x = w * (x \div w) + (x % w) /\ w * 0 = 0
    BY <1>1
  <2>5. x % w \in Int
    BY <1>1
  <2> QED
    BY <2>1, <2>3, <2>4, <2>5
<1> QED
  BY <1>1, <1>2, QuantAssumption DEF WrapI32

(* What a saturated i32 is worth: it loses at most one step (quantize).         *)
LEMMA SaturationError ==
    ASSUME NEW R \in Nat \ {0}, NEW V \in Int, -(I32 * R) < V, V < I32 * R
    PROVE  /\ AsI32(round(V, R)) \in Int
           /\ -I32 <= AsI32(round(V, R)) /\ AsI32(round(V, R)) < I32
           /\ 2 * (AsI32(round(V, R)) * R) <= 2 * V + R
           /\ V - R <= AsI32(round(V, R)) * R
           /\ AsI32(round(V, R)) <= round(V, R)
<1>1. PICK L \in Nat \ {0} : L = I32
  BY QuantAssumption
<1>2. PICK r \in Int : /\ r = round(V, R)
                       /\ 2 * (r * R) <= 2 * V + R /\ 2 * V - R <= 2 * (r * R)
  BY RoundingError
<1>3. /\ r * R \in Int /\ L * R \in Int /\ (-L) * R = -(L * R)
      /\ (L + 1) * R = L * R + R /\ (L + (-1)) * R = L * R + (-1) * R /\ (-1) * R = -R
  <2>1. L \in Int /\ -1 \in Int
    OBVIOUS
  <2> QED
    BY <2>1, ProductsInOrder
<1>4. r <= L
  <2>1. SUFFICES ASSUME L + 1 <= r PROVE FALSE
    BY <1>1, <1>2
  <2>2. (L + 1) * R <= r * R
    <3>1. L + 1 \in Int
      OBVIOUS
    <3> QED
      BY <2>1, <3>1, ProductsInOrder
  <2> QED
    BY <1>1, <1>2, <1>3, <2>2
<1>5. -L <= r
  <2>1. SUFFICES ASSUME r <= -L + (-1) PROVE FALSE
    BY <1>1, <1>2
  <2>2. r * R <= (-L + (-1)) * R /\ (-L + (-1)) * R = (-L) * R + (-1) * R
    <3>1. -L \in Int /\ -1 \in Int /\ -L + (-1) \in Int
      OBVIOUS
    <3> QED
      BY <2>1, <3>1, ProductsInOrder
  <2> QED
    BY <1>1, <1>2, <1>3, <2>2
<1>6. AsI32(r) = IF r = L THEN L + (-1) ELSE r
  BY <1>1, <1>4, <1>5 DEF AsI32
<1>7. CASE r = L
  BY <1>1, <1>2, <1>3, <1>6, <1>7
<1>8. CASE r # L
  BY <1>1, <1>2, <1>3, <1>4, <1>5, <1>6, <1>8
<1> QED
  BY <1>7, <1>8

(* A weight is rebuilt to within a step: rounding, saturating and clamping      *)
(* lose no more, and the subtraction of the zero point does not wrap.           *)
LEMMA RebuiltWithin ==
    ASSUME NEW R \in Nat \ {0}, NEW M \in Nat \ {0}, NEW Lo \in Int, NEW V \in Int,
           -(I32 * R) < Lo, Lo <= V, V <= Lo + M * R, Lo + M * R < I32 * R,
           NEW z, z = AsI32(round(-Lo, R)),
           NEW x, x = clamp(AsI32(round(V, R)) + z, M)
    PROVE  x \in 0 .. M /\ z \in Int /\ Abs(V - WrapI32(x - z) * R) <= R
<1>1. PICK L \in Nat \ {0} : L = I32
  BY QuantAssumption
<1>2. PICK a \in Int : /\ a = AsI32(round(V, R)) /\ -L <= a /\ a < L
                       /\ 2 * (a * R) <= 2 * V + R /\ V - R <= a * R
  <2>1. M * R \in Nat /\ L * R \in Nat
    OBVIOUS
  <2>2. -(I32 * R) < V /\ V < I32 * R
    BY <1>1, <2>1
  <2> QED
    BY <1>1, <2>2, SaturationError
<1>3. PICK P \in Nat, Q \in Nat : P = M * R /\ Q = L * R
  OBVIOUS
<1>4. /\ z \in Int /\ -L <= z /\ z < L /\ 2 * (z * R) <= 2 * (-Lo) + R /\ -Lo - R <= z * R
      /\ z <= round(-Lo, R)
  <2>1. -Lo \in Int /\ -(I32 * R) < -Lo /\ -Lo < I32 * R
    BY <1>1, <1>3
  <2>2. /\ AsI32(round(-Lo, R)) \in Int
        /\ -I32 <= AsI32(round(-Lo, R)) /\ AsI32(round(-Lo, R)) < I32
        /\ 2 * (AsI32(round(-Lo, R)) * R) <= 2 * (-Lo) + R
        /\ -Lo - R <= AsI32(round(-Lo, R)) * R
        /\ AsI32(round(-Lo, R)) <= round(-Lo, R)
    BY <2>1, SaturationError
  <2> QED
    BY <1>1, <2>2
<1>5. PICK A \in Int, Z \in Int : A = a * R /\ Z = z * R
  BY <1>2, <1>4
(* The largest weight still fits, so the zero point stays M away from the end.  *)
<1>6. M - L <= z
  <2>1. PICK r \in Int : /\ r = round(-Lo, R)
                         /\ 2 * (r * R) <= 2 * (-Lo) + R /\ 2 * (-Lo) - R <= 2 * (r * R)
    <3>1. -Lo \in Int
      OBVIOUS
    <3> QED
      BY <3>1, RoundingError
  <2>2. M - L <= r
    <3>1. SUFFICES ASSUME r + 1 <= M + (-L) PROVE FALSE
      BY <2>1
    <3>2. /\ (r + 1) * R <= (M + (-L)) * R /\ (r + 1) * R = r * R + R
          /\ (M + (-L)) * R = M * R + (-L) * R /\ (-L) * R = -(L * R)
      <4>1. r + 1 \in Int /\ M \in Int /\ L \in Int /\ -L \in Int /\ M + (-L) \in Int
        OBVIOUS
      <4> QED
        BY <3>1, <4>1, ProductsInOrder
    <3>3. r * R \in Int
      BY <2>1
    <3> QED
      BY <1>1, <1>3, <2>1, <3>2, <3>3
  <2>3. z = IF r >= L THEN L - 1 ELSE IF r < -L THEN -L ELSE r
    BY <1>1, <2>1 DEF AsI32
  <2>4. M - L <= L - 1
    <3>1. SUFFICES ASSUME L + L <= M PROVE FALSE
      OBVIOUS
    <3>2. (L + L) * R <= M * R /\ (L + L) * R = L * R + L * R
      <4>1. L + L \in Int /\ M \in Int /\ L \in Int
        OBVIOUS
      <4> QED
        BY <3>1, <4>1, ProductsInOrder
    <3> QED
      BY <1>1, <1>3, <3>2
  <2> QED
    BY <2>1, <2>2, <2>3, <2>4
<1>7. x = IF a + z < 0 THEN 0 ELSE IF a + z > M THEN M ELSE a + z
  BY <1>2, <1>4 DEF clamp
<1>8. x \in 0 .. M
  BY <1>2, <1>4, <1>7
<1>9. PICK y \in Int : y = x - z
  BY <1>4, <1>8
<1>10. -L <= y /\ y < L /\ V - R <= y * R /\ y * R <= V + R
  <2>1. CASE a + z < 0
    <3>1. y = -z /\ a + 1 <= y
      BY <1>2, <1>4, <1>7, <1>9, <2>1
    <3>2. -L <= y /\ y < L
      BY <1>2, <1>4, <1>6, <3>1
    <3>3. (a + 1) * R <= y * R /\ (a + 1) * R = A + R
      <4>1. a + 1 \in Int /\ y \in Int
        BY <1>2
      <4> QED
        BY <1>2, <1>5, <3>1, <4>1, ProductsInOrder
    <3>4. y * R = -Z
      BY <1>4, <1>5, <3>1, ProductsInOrder
    <3> QED
      BY <1>2, <1>4, <1>5, <3>2, <3>3, <3>4
  <2>2. CASE a + z > M
    <3>1. y = M + (-z) /\ y + 1 <= a
      BY <1>2, <1>4, <1>7, <1>9, <2>2
    <3>2. -L <= y /\ y < L
      BY <1>2, <1>4, <3>1
    <3>3. (y + 1) * R <= a * R /\ (y + 1) * R = y * R + R
      <4>1. y + 1 \in Int
        OBVIOUS
      <4> QED
        BY <1>2, <3>1, <4>1, ProductsInOrder
    <3>4. y * R = P + (-Z)
      <4>1. M \in Int /\ -z \in Int
        BY <1>4
      <4>2. (M + (-z)) * R = M * R + (-z) * R
        BY <4>1, ProductsInOrder
      <4>3. (-z) * R = -(z * R)
        BY <1>4, ProductsInOrder
      <4> QED
        BY <1>3, <1>5, <3>1, <4>2, <4>3
    <3> QED
      BY <1>2, <1>3, <1>4, <1>5, <3>2, <3>3, <3>4
  <2>3. CASE ~(a + z < 0) /\ ~(a + z > M)
    <3>1. y = a
      BY <1>2, <1>4, <1>7, <1>9, <2>3
    <3> QED
      BY <1>2, <1>5, <3>1
  <2> QED
    BY <2>1, <2>2, <2>3
<1>11. WrapI32(x - z) = y
  BY <1>1, <1>9, <1>10, FitsWithoutWrap
<1>12. Abs(V - y * R) <= R
  <2>1. PICK Y \in Int : Y = y * R
    OBVIOUS
  <2> QED
    BY <1>10, <2>1 DEF Abs
<1> QED
  BY <1>4, <1>8, <1>11, <1>12

(* A group has a largest and a smallest weight (quantize).                      *)
LEMMA LargestOf ==
    ASSUME NEW n \in Nat \ {0}, NEW c \in [1 .. n -> Int]
    PROVE  \E m \in 1 .. n : \A j \in 1 .. n : c[j] <= c[m]
<1> DEFINE Good == {k \in Nat : k + 1 <= n => \E m \in 1 .. k + 1 : \A j \in 1 .. k + 1 : c[j] <= c[m]}
<1>1. 0 \in Good
  <2>1. c[1] \in Int /\ \A j \in 1 .. 0 + 1 : j = 1
    OBVIOUS
  <2>2. 1 \in 1 .. 0 + 1 /\ \A j \in 1 .. 0 + 1 : c[j] <= c[1]
    BY <2>1
  <2> QED
    BY <2>2
<1>2. \A k \in Nat : k \in Good => k + 1 \in Good
  <2> SUFFICES ASSUME NEW k \in Nat, k + 1 + 1 <= n,
                      \E m \in 1 .. k + 1 : \A j \in 1 .. k + 1 : c[j] <= c[m]
               PROVE  \E m \in 1 .. k + 1 + 1 : \A j \in 1 .. k + 1 + 1 : c[j] <= c[m]
    BY SMTT(30)
  <2>1. PICK m \in 1 .. k + 1 : \A j \in 1 .. k + 1 : c[j] <= c[m]
    OBVIOUS
  <2>2. PICK l : l = k + 1 + 1
    OBVIOUS
  <2>3. c[m] \in Int /\ c[l] \in Int /\ m \in 1 .. l /\ l \in 1 .. l
        /\ \A j \in 1 .. l : j \in 1 .. k + 1 \/ j = l
    BY <2>2
  <2>4. \A j \in 1 .. k + 1 : c[j] \in Int
    OBVIOUS
  <2>5. CASE c[l] <= c[m]
    <3>1. \A j \in 1 .. l : c[j] <= c[m]
      BY <2>1, <2>3, <2>5
    <3> QED
      BY <2>2, <2>3, <3>1
  <2>6. CASE ~(c[l] <= c[m])
    <3>1. \A j \in 1 .. l : c[j] <= c[l]
      BY <2>1, <2>3, <2>4, <2>6
    <3> QED
      BY <2>2, <2>3, <3>1
  <2> QED
    BY <2>5, <2>6
<1> HIDE DEF Good
<1>3. PICK l \in Nat : l + 1 = n
  <2>1. n - 1 \in Nat /\ n - 1 + 1 = n
    OBVIOUS
  <2> QED
    BY <2>1
<1>4. l \in Good
  BY <1>1, <1>2, NatInductionOn
<1>5. l + 1 <= n => \E m \in 1 .. l + 1 : \A j \in 1 .. l + 1 : c[j] <= c[m]
  BY <1>4 DEF Good
<1>6. l + 1 <= n /\ 1 .. l + 1 = 1 .. n
  BY <1>3
<1> QED
  BY <1>5, <1>6

LEMMA Extremes ==
    ASSUME NEW c \in Seq(Int), Len(c) # 0
    PROVE  LET hi == Max(ToSet(c))
               lo == Min(ToSet(c))
           IN  /\ hi \in Int /\ lo \in Int /\ range(c) = hi - lo /\ hi - lo \in Nat
               /\ \A j \in 1 .. Len(c) : lo <= c[j] /\ c[j] <= hi
               /\ \E a, b \in 1 .. Len(c) : c[a] = hi /\ c[b] = lo
<1>1. PICK n \in Nat \ {0} : n = Len(c) /\ c \in [1 .. n -> Int]
  OBVIOUS
<1>2. PICK S : S = ToSet(c)
  OBVIOUS
<1>3. S = ToSet(c) /\ \A x : x \in S <=> \E j \in 1 .. n : x = c[j]
  <2>1. DOMAIN c = 1 .. n
    BY <1>1
  <2> QED
    BY <1>2, <2>1 DEF ToSet
<1>4. PICK a \in 1 .. n : \A j \in 1 .. n : c[j] <= c[a]
  BY <1>1, LargestOf
<1>5. PICK b \in 1 .. n : \A j \in 1 .. n : c[b] <= c[j]
  <2>1. PICK d : d = [j \in 1 .. n |-> -c[j]]
    OBVIOUS
  <2>2. d \in [1 .. n -> Int]
    BY <1>1, <2>1
  <2>3. PICK b \in 1 .. n : \A j \in 1 .. n : d[j] <= d[b]
    BY <2>2, LargestOf
  <2>4. \A j \in 1 .. n : c[j] \in Int /\ d[j] = -c[j]
    BY <1>1, <2>1
  <2>5. \A j \in 1 .. n : c[b] <= c[j]
    BY <2>3, <2>4
  <2> QED
    BY <2>5
<1>6. S \subseteq Int /\ c[a] \in S /\ c[b] \in S
  BY <1>1, <1>3
<1>7. Max(S) \in S /\ \A x \in S : Max(S) >= x
  <2>1. \A x \in S : c[a] >= x
    BY <1>1, <1>3, <1>4
  <2> QED
    BY <1>6, <2>1 DEF Max
<1>8. Min(S) \in S /\ \A x \in S : Min(S) <= x
  <2>1. \A x \in S : c[b] <= x
    BY <1>1, <1>3, <1>5
  <2> QED
    BY <1>6, <2>1 DEF Min
<1>9. Max(S) \in Int /\ Min(S) \in Int /\ Min(S) <= Max(S) /\ range(c) = Max(S) - Min(S)
  BY <1>3, <1>6, <1>7, <1>8 DEF range
<1>10. \A j \in 1 .. n : c[j] \in S
  BY <1>3
<1>11. \A j \in 1 .. n : Min(S) <= c[j] /\ c[j] <= Max(S)
  <2> SUFFICES ASSUME NEW j \in 1 .. n PROVE Min(S) <= c[j] /\ c[j] <= Max(S)
    OBVIOUS
  <2>1. c[j] \in S /\ c[j] \in Int
    BY <1>1, <1>10
  <2> QED
    BY <1>7, <1>8, <1>9, <2>1
<1>12. \E k, l \in 1 .. n : c[k] = Max(S) /\ c[l] = Min(S)
  BY <1>3, <1>7, <1>8
<1> QED
  BY <1>1, <1>3, <1>9, <1>11, <1>12

LEMMA LevelTypes ==
    ASSUME NEW c \in Seq(Int), Len(c) # 0, NEW q \in {"int8", "int4"}
    PROVE  /\ range(c) \in Nat /\ zero_point_of(c, q) \in Int
           /\ Min(ToSet(c)) \in Int
           /\ QuantizedGroup(c, q) \in Seq(0 .. max_value(q))
           /\ Len(QuantizedGroup(c, q)) = Len(c)
<1>1. PICK n \in Nat \ {0}, M \in Nat \ {0}, R \in Nat, lo \in Int :
         n = Len(c) /\ M = max_value(q) /\ R = range(c) /\ lo = Min(ToSet(c))
  BY Levels, Extremes
<1>2. \A v \in Int : AsI32(v) \in Int
  BY QuantAssumption DEF AsI32
<1>3. zero_point_of(c, q) \in Int
  <2>1. CASE R > 0
    <3>1. R \in Nat \ {0} /\ -lo * M \in Int
      BY <2>1
    <3>2. round(-lo * M, R) \in Int
      BY <3>1, RoundingError
    <3> QED
      BY <1>1, <1>2, <2>1, <3>2 DEF zero_point_of
  <2>2. CASE ~(R > 0)
    BY <1>1, <2>2 DEF zero_point_of
  <2> QED
    BY <2>1, <2>2
<1>4. PICK f : f = QuantizedGroup(c, q)
  OBVIOUS
<1>5. f = [i \in 1 .. n |-> IF R > 0
                            THEN clamp(AsI32(round(c[i] * M, R)) + zero_point_of(c, q), M) ELSE 0]
  BY <1>1, <1>4 DEF QuantizedGroup
<1>6. ASSUME NEW i \in 1 .. n PROVE f[i] \in 0 .. M
  <2>1. CASE R > 0
    <3>1. R \in Nat \ {0} /\ c[i] * M \in Int
      <4>1. c[i] \in Int
        BY <1>1
      <4> QED
        BY <2>1, <4>1
    <3>2. PICK w \in Int : w = AsI32(round(c[i] * M, R)) + zero_point_of(c, q)
      <4>1. round(c[i] * M, R) \in Int
        BY <3>1, RoundingError
      <4> QED
        BY <1>2, <1>3, <4>1
    <3>3. f[i] = clamp(w, M)
      BY <1>5, <2>1, <3>2
    <3> QED
      BY <3>3 DEF clamp
  <2>2. CASE ~(R > 0)
    BY <1>5, <2>2
  <2> QED
    BY <2>1, <2>2
<1>7. f = [i \in 1 .. n |-> f[i]]
  BY <1>5
<1>8. f \in Seq(0 .. M) /\ Len(f) = n
  <2>1. PICK T : T = 0 .. M
    OBVIOUS
  <2>2. \A i \in 1 .. n : f[i] \in T
    BY <1>6, <2>1
  <2>3. f \in Seq(T) /\ Len(f) = n
    BY <1>7, <2>2, SequenceOf
  <2> QED
    BY <2>1, <2>3
<1> QED
  BY <1>1, <1>3, <1>4, <1>8

(* What a weight is rebuilt from: its own level and its own group's scale and   *)
(* zero point (quantize, pack, unpack, dequantize).                             *)
Rebuilt(values, q, i) ==
    LET c == chunks(values, GROUP_SIZE)[Part(i, GROUP_SIZE)]
        z == zero_point_of(c, q)
        x == clamp(AsI32(round(values[i] * max_value(q), range(c))) + z, max_value(q))
    IN  IF range(c) > 0 THEN <<WrapI32(x - z) * range(c), max_value(q)>>
        ELSE <<Min(ToSet(c)), 1>>

RebuiltAs(rebuilt, values, q) ==
    /\ rebuilt \in Seq(Int \X (Nat \ {0})) /\ Len(rebuilt) = Len(values)
    /\ \A i \in 1 .. Len(values) : rebuilt[i] = Rebuilt(values, q, i)

LEMMA RebuiltIs ==
    ASSUME NEW values \in Seq(Int), NEW q \in {"int8", "int4"}, NotFinite \notin ToSet(values),
           NEW tensor, tensor = quantize(values, q)
    PROVE  RebuiltAs(dequantize(tensor), values, q)
<1>1. PICK G \in Nat \ {0} : G = GROUP_SIZE
  BY QuantAssumption
<1>2. PICK M \in Nat \ {0} : M = max_value(q)
  BY Levels
<1>3. PICK n, V, Z :
         /\ n \in Nat /\ n = Len(values) /\ G = GROUP_SIZE /\ M = max_value(q) /\ V = 0 .. M
         /\ Z = Int /\ values \in Seq(Z)
  BY <1>1, <1>2
<1>4. PICK m \in Nat : m = div_ceil(n, G)
  BY <1>3, Ceiling
<1>5. PICK groups : groups = chunks(values, G)
  OBVIOUS
<1>6. /\ groups \in Seq(Seq(Int)) /\ Len(groups) = m
      /\ \A g \in 1 .. m : \A k \in 1 .. Len(groups[g]) : groups[g][k] = values[(g - 1) * G + k]
  <2>1. Grouped(groups, values, G, Z)
    BY <1>3, <1>5, ChunkIs
  <2> QED
    BY <1>3, <1>4, <2>1 DEF Grouped
<1>7. \A g \in 1 .. m : Len(groups[g]) = IF g * G < n THEN G ELSE n - (g - 1) * G
  <2>1. Grouped(groups, values, G, Z)
    BY <1>3, <1>5, ChunkIs
  <2> QED
    BY <1>3, <1>4, <2>1 DEF Grouped
<1>8. \A g \in 1 .. m : groups[g] \in Seq(Int) /\ Len(groups[g]) # 0
  <2> SUFFICES ASSUME NEW g \in 1 .. m PROVE groups[g] \in Seq(Int) /\ Len(groups[g]) # 0
    OBVIOUS
  <2>1. PICK a \in Nat : a = (g - 1) * G /\ a < n
    BY <1>3, <1>4, GroupBounds
  <2>2. Len(groups[g]) = IF g * G < n THEN G ELSE n - a
    BY <1>7, <2>1
  <2> QED
    BY <1>3, <1>6, <2>1, <2>2
<1>9. PICK QG : QG = [g \in 1 .. m |-> QuantizedGroup(groups[g], q)]
  OBVIOUS
<1>10. \A g \in 1 .. m : QG[g] \in Seq(V) /\ Len(QG[g]) = Len(groups[g])
  BY <1>3, <1>8, <1>9, LevelTypes
<1>11. QG \in Seq(Seq(V)) /\ Len(QG) = m
  <2>1. QG = [g \in 1 .. m |-> QG[g]]
    BY <1>9
  <2> QED
    BY <1>10, <2>1, SequenceOf
<1>12. PICK levels : levels = FlattenSeq(QG)
  OBVIOUS
<1>13. /\ levels \in Seq(V) /\ Len(levels) = n
       /\ \A i \in 1 .. n : /\ Part(i, G) \in 1 .. m
                            /\ Place(i, G) \in 1 .. Len(groups[Part(i, G)])
                            /\ levels[i] = QG[Part(i, G)][Place(i, G)]
  <2>1. SameShape(QG, values, G)
    BY <1>3, <1>4, <1>5, <1>10, <1>11 DEF SameShape
  <2>2. EndToEnd(levels, QG, n, G, V)
    BY <1>3, <1>11, <1>12, <2>1, Regrouped
  <2> QED
    BY <1>3, <1>10, <1>11, <2>2 DEF EndToEnd
<1>14. /\ tensor.data = pack(levels, q) /\ tensor.num_elements = n /\ tensor.bits = q
       /\ tensor.scales = [g \in 1 .. m |-> scale_of(groups[g], q)]
       /\ tensor.zero_points = [g \in 1 .. m |-> zero_point_of(groups[g], q)]
  <2>1. tensor = [status |-> "ok",
                  data |-> pack(FlattenSeq([g \in 1 .. Len(groups) |-> QuantizedGroup(groups[g], q)]), q),
                  scales |-> [g \in 1 .. Len(groups) |-> scale_of(groups[g], q)],
                  zero_points |-> [g \in 1 .. Len(groups) |-> zero_point_of(groups[g], q)],
                  num_elements |-> Len(values),
                  bits |-> q]
    BY <1>3, <1>5 DEF quantize
  <2>2. FlattenSeq([g \in 1 .. Len(groups) |-> QuantizedGroup(groups[g], q)]) = levels
    BY <1>6, <1>9, <1>12
  <2> QED
    BY <1>3, <1>6, <2>1, <2>2
<1>15. unpack(tensor.data, tensor.bits, tensor.num_elements) = levels
  <2>1. levels \in Seq(0 .. max_value(q))
    BY <1>3, <1>13
  <2>2. unpack(pack(levels, q), q, Len(levels)) = levels
    BY <2>1, PackedIsUnpacked
  <2> QED
    BY <1>13, <1>14, <2>2
<1>16. PICK again : again = chunks(levels, G)
  OBVIOUS
<1>17. /\ Len(again) = m
       /\ \A g \in 1 .. m : /\ Len(again[g]) = Len(groups[g])
                            /\ \A k \in 1 .. Len(again[g]) : again[g][k] = levels[(g - 1) * G + k]
  <2>1. Grouped(again, levels, G, V)
    BY <1>13, <1>16, ChunkIs
  <2>2. \A g \in 1 .. m : /\ Len(again[g]) = IF g * G < n THEN G ELSE n - (g - 1) * G
                          /\ \A k \in 1 .. Len(again[g]) : again[g][k] = levels[(g - 1) * G + k]
    BY <1>4, <1>13, <2>1 DEF Grouped
  <2>3. Len(again) = m
    BY <1>4, <1>13, <2>1 DEF Grouped
  <2> QED
    BY <1>7, <2>2, <2>3
<1>18. PICK W : W = [g \in 1 .. m |-> [v \in V |->
                        IF range(groups[g]) > 0
                        THEN <<WrapI32(v - zero_point_of(groups[g], q)) * range(groups[g]), M>>
                        ELSE <<Min(ToSet(groups[g])), 1>>]]
  OBVIOUS
<1>19. ASSUME NEW g \in 1 .. m, NEW v \in V
       PROVE  /\ W[g][v] \in Int \X (Nat \ {0})
              /\ W[g][v] = IF scale_of(groups[g], q)[1] = 0 THEN <<zero_point_of(groups[g], q), 1>>
                           ELSE <<WrapI32(v - zero_point_of(groups[g], q)) * scale_of(groups[g], q)[1],
                                  scale_of(groups[g], q)[2]>>
  <2>1. PICK R \in Nat, z \in Int, lo \in Int :
           R = range(groups[g]) /\ z = zero_point_of(groups[g], q) /\ lo = Min(ToSet(groups[g]))
    BY <1>8, LevelTypes
  <2>2. CASE R > 0
    <3>1. scale_of(groups[g], q) = <<R, M>>
      BY <1>3, <2>1, <2>2 DEF scale_of
    <3>2. W[g][v] = <<WrapI32(v - z) * R, M>>
      BY <1>18, <2>1, <2>2
    <3>3. WrapI32(v - z) \in Int
      <4>1. v - z \in Int /\ I32 \in Nat \ {0}
        BY <1>3, QuantAssumption
      <4> QED
        BY <4>1 DEF WrapI32
    <3>4. WrapI32(v - z) * R \in Int
      BY <3>3
    <3> QED
      BY <2>1, <2>2, <3>1, <3>2, <3>4
  <2>3. CASE ~(R > 0)
    <3>1. scale_of(groups[g], q) = <<0, 1>>
      BY <2>1, <2>3 DEF scale_of
    <3>2. zero_point_of(groups[g], q) = lo
      BY <2>1, <2>3 DEF zero_point_of
    <3>3. W[g][v] = <<lo, 1>>
      BY <1>18, <2>1, <2>3
    <3> QED
      BY <3>1, <3>2, <3>3
  <2> QED
    BY <2>2, <2>3
<1>20. PICK DQ : DQ = [g \in 1 .. m |-> [i \in 1 .. Len(again[g]) |-> W[g][again[g][i]]]]
  OBVIOUS
<1>21. \A g \in 1 .. m : \A i \in 1 .. Len(again[g]) : again[g][i] \in V
  <2> SUFFICES ASSUME NEW g \in 1 .. m, NEW i \in 1 .. Len(again[g]) PROVE again[g][i] \in V
    OBVIOUS
  <2>1. again \in Seq(Seq(V))
    <3>1. Grouped(again, levels, G, V)
      BY <1>13, <1>16, ChunkIs
    <3> QED
      BY <3>1 DEF Grouped
  <2>2. again[g] \in Seq(V)
    BY <1>17, <2>1
  <2> QED
    BY <2>2
<1>22. dequantize(tensor) = FlattenSeq(DQ)
  <2>1. ASSUME NEW g \in 1 .. m, NEW i \in 1 .. Len(again[g])
        PROVE  W[g][again[g][i]]
               = IF tensor.scales[g][1] = 0 THEN <<tensor.zero_points[g], 1>>
                 ELSE <<WrapI32(again[g][i] - tensor.zero_points[g]) * tensor.scales[g][1],
                        tensor.scales[g][2]>>
    BY <1>14, <1>19, <1>21
  <2>2. DQ = [g \in 1 .. m |-> [i \in 1 .. Len(again[g]) |->
                IF tensor.scales[g][1] = 0 THEN <<tensor.zero_points[g], 1>>
                ELSE <<WrapI32(again[g][i] - tensor.zero_points[g]) * tensor.scales[g][1],
                       tensor.scales[g][2]>>]]
    BY <1>20, <2>1
  <2> QED
    BY <1>3, <1>15, <1>16, <1>17, <2>2 DEF dequantize
<1>23. PICK T : T = Int \X (Nat \ {0})
  OBVIOUS
<1>24. \A g \in 1 .. m : DQ[g] \in Seq(T) /\ Len(DQ[g]) = Len(groups[g])
  <2> SUFFICES ASSUME NEW g \in 1 .. m PROVE DQ[g] \in Seq(T) /\ Len(DQ[g]) = Len(groups[g])
    OBVIOUS
  <2>1. PICK l \in Nat : l = Len(again[g]) /\ l = Len(groups[g])
    BY <1>6, <1>17
  <2>2. DQ[g] = [i \in 1 .. l |-> DQ[g][i]] /\ \A i \in 1 .. l : DQ[g][i] \in T
    BY <1>19, <1>20, <1>21, <1>23, <2>1
  <2> QED
    BY <2>1, <2>2, SequenceOf
<1>25. DQ \in Seq(Seq(T)) /\ Len(DQ) = m
  <2>1. DQ = [g \in 1 .. m |-> DQ[g]]
    BY <1>20
  <2> QED
    BY <1>24, <2>1, SequenceOf
<1>26. /\ FlattenSeq(DQ) \in Seq(T) /\ Len(FlattenSeq(DQ)) = n
       /\ \A i \in 1 .. n : FlattenSeq(DQ)[i] = DQ[Part(i, G)][Place(i, G)]
  <2>1. SameShape(DQ, values, G)
    BY <1>3, <1>4, <1>5, <1>24, <1>25 DEF SameShape
  <2>2. EndToEnd(FlattenSeq(DQ), DQ, n, G, T)
    BY <1>3, <1>25, <2>1, Regrouped
  <2> QED
    BY <2>2 DEF EndToEnd
<1>27. ASSUME NEW i \in 1 .. n PROVE FlattenSeq(DQ)[i] = Rebuilt(values, q, i)
  <2>1. PICK g, k : g = Part(i, G) /\ k = Place(i, G)
    OBVIOUS
  <2>2. /\ g \in 1 .. m /\ k \in 1 .. Len(groups[g]) /\ levels[i] = QG[g][k]
        /\ (g - 1) * G + k = i /\ levels[i] \in V
    <3>1. (Part(i, G) - 1) * G + Place(i, G) = i
      BY PartAndPlace
    <3>2. levels[i] \in V
      BY <1>13
    <3> QED
      BY <1>13, <2>1, <3>1, <3>2
  <2>3. again[g][k] = levels[i] /\ groups[g][k] = values[i] /\ k \in 1 .. Len(again[g])
    BY <1>6, <1>17, <2>2
  <2>4. FlattenSeq(DQ)[i] = W[g][levels[i]]
    BY <1>20, <1>26, <2>1, <2>2, <2>3
  <2>5. PICK R, z : R = range(groups[g]) /\ z = zero_point_of(groups[g], q)
    OBVIOUS
  <2>6. R > 0 => levels[i] = clamp(AsI32(round(values[i] * M, R)) + z, M)
    BY <1>3, <1>9, <2>2, <2>3, <2>5 DEF QuantizedGroup
  <2>7. W[g][levels[i]] = IF R > 0 THEN <<WrapI32(levels[i] - z) * R, M>> ELSE <<Min(ToSet(groups[g])), 1>>
    BY <1>18, <2>2, <2>5
  <2> QED
    BY <1>3, <1>5, <2>1, <2>4, <2>5, <2>6, <2>7 DEF Rebuilt
<1> QED
  BY <1>3, <1>22, <1>23, <1>26, <1>27 DEF RebuiltAs

(* A group as the positions of its members.                                     *)
Members(values, i) ==
    {j \in 1 .. Len(values) : (j - 1) \div GROUP_SIZE = (i - 1) \div GROUP_SIZE}

GroupHolds(c, values, i) ==
    /\ c \in Seq(Int) /\ Len(c) # 0
    /\ Place(i, GROUP_SIZE) \in 1 .. Len(c) /\ c[Place(i, GROUP_SIZE)] = values[i]
    /\ \A k \in 1 .. Len(c) : \E j \in Members(values, i) : c[k] = values[j]
    /\ \A j \in Members(values, i) : \E k \in 1 .. Len(c) : c[k] = values[j]

LEMMA GroupMembers ==
    ASSUME NEW values \in Seq(Int), NEW i \in 1 .. Len(values),
           NEW c, c = chunks(values, GROUP_SIZE)[Part(i, GROUP_SIZE)]
    PROVE  GroupHolds(c, values, i)
<1>1. PICK G \in Nat \ {0} : G = GROUP_SIZE
  BY QuantAssumption
<1>2. PICK n, Z : n \in Nat /\ n = Len(values) /\ Z = Int /\ values \in Seq(Z)
  OBVIOUS
<1>3. PICK g, m : g = Part(i, G) /\ m = div_ceil(n, G)
  OBVIOUS
<1>4. Grouped(chunks(values, G), values, G, Z)
  BY <1>2, ChunkIs
<1>5. /\ g \in 1 .. m /\ Place(i, G) \in 1 .. G /\ Place(i, G) <= n - (g - 1) * G
      /\ (g - 1) * G + Place(i, G) = i
  BY <1>2, <1>3, PartAndPlace
<1>6. m \in Nat /\ g \in Nat \ {0}
  <2>1. div_ceil(n, G) \in Nat
    BY <1>2, Ceiling
  <2> QED
    BY <1>3, <1>5, <2>1, SMTT(30)
<1>7. PICK a \in Nat, b \in Nat : a = (g - 1) * G /\ b = g * G /\ a < n /\ a + G = b
  <2>1. g \in 1 .. div_ceil(n, G)
    BY <1>3, <1>5
  <2>2. (g - 1) * G \in Nat /\ (g - 1) * G < n /\ (g - 1) * G + G = g * G
    BY <1>2, <2>1, GroupBounds
  <2> QED
    BY <1>6, <2>2
<1>8. /\ c \in Seq(Int) /\ Len(c) = (IF b < n THEN G ELSE n - a)
      /\ \A k \in 1 .. Len(c) : c[k] = values[a + k]
  <2>1. PICK d : d = chunks(values, G)
    OBVIOUS
  <2>2. Grouped(d, values, G, Z) /\ c = d[g]
    BY <1>1, <1>3, <1>4, <2>1
  <2>3. g \in 1 .. div_ceil(Len(values), G)
    BY <1>2, <1>3, <1>5
  <2>4. d \in Seq(Seq(Z)) /\ Len(d) = div_ceil(Len(values), G)
    BY <2>2 DEF Grouped
  <2>5. d[g] \in Seq(Z)
    BY <2>3, <2>4
  <2>6. /\ Len(d[g]) = IF g * G < Len(values) THEN G ELSE Len(values) - (g - 1) * G
        /\ \A k \in 1 .. Len(d[g]) : d[g][k] = values[(g - 1) * G + k]
    BY <2>2, <2>3 DEF Grouped
  <2> QED
    BY <1>2, <1>7, <2>2, <2>5, <2>6
<1>9. PICK l \in Nat : l = Len(c) /\ l = (IF b < n THEN G ELSE n - a) /\ l # 0 /\ l <= G /\ a + l <= n
  BY <1>2, <1>7, <1>8
<1>10. Place(i, G) \in 1 .. l
  BY <1>5, <1>7, <1>9
<1>11. g - 1 = (i - 1) \div G /\ g - 1 \in Int
  BY <1>3, <1>6 DEF Part
<1>12. ASSUME NEW k \in 1 .. l PROVE \E j \in Members(values, i) : c[k] = values[j]
  <2>1. PICK j \in 1 .. n : j = a + k
    BY <1>2, <1>7, <1>9
  <2>2. j - 1 \in Nat /\ (g - 1) * G <= j - 1 /\ j - 1 < (g - 1) * G + G
    BY <1>7, <1>9, <2>1, SMTT(30)
  <2>3. g - 1 = (j - 1) \div G
    BY <1>11, <2>2, QuotientIs
  <2>4. j \in Members(values, i)
    BY <1>1, <1>2, <1>11, <2>1, <2>3 DEF Members
  <2> QED
    BY <1>8, <1>9, <2>1, <2>4
<1>13. ASSUME NEW j \in Members(values, i) PROVE \E k \in 1 .. l : c[k] = values[j]
  <2>1. j \in 1 .. n /\ (j - 1) \div G = g - 1 /\ j - 1 \in Nat
    BY <1>1, <1>2, <1>11 DEF Members
  <2>2. (g - 1) * G <= j - 1 /\ j - 1 < (g - 1) * G + G
    BY <1>11, <2>1, QuotientIs
  <2>3. PICK k \in 1 .. l : j = a + k
    <3>1. a <= j - 1 /\ j - 1 < a + G /\ j \in 1 .. n
      BY <1>7, <2>1, <2>2
    <3>2. j - a \in 1 .. l /\ j = a + (j - a)
      <4>1. CASE l = G
        BY <3>1, <4>1
      <4>2. CASE l = n - a
        BY <1>2, <3>1, <4>2
      <4> QED
        BY <1>9, <4>1, <4>2
    <3> QED
      BY <3>2
  <2> QED
    BY <1>8, <1>9, <2>3
<1>14. Len(c) # 0 /\ c[Place(i, G)] = values[i]
  BY <1>5, <1>7, <1>8, <1>9, <1>10
<1> QED
  BY <1>1, <1>8, <1>9, <1>10, <1>12, <1>13, <1>14 DEF GroupHolds

LEMMA RebuiltClose ==
    ASSUME NEW values \in Seq(Int), NEW q \in {"int8", "int4"}, NEW i \in 1 .. Len(values),
           NEW R, R = range(chunks(values, GROUP_SIZE)[Part(i, GROUP_SIZE)])
    PROVE  LET e == Rebuilt(values, q, i)
           IN  /\ R = 0 => e[1] = values[i] * e[2]
               /\ (R # 0 /\ \A j \in Members(values, i) : Abs(values[j]) * max_value(q) < I32 * R)
                  => Abs(values[i] * e[2] - e[1]) <= R
<1>1. PICK c : c = chunks(values, GROUP_SIZE)[Part(i, GROUP_SIZE)]
  OBVIOUS
<1>2. PICK k : /\ k = Place(i, GROUP_SIZE) /\ c \in Seq(Int) /\ Len(c) # 0
               /\ k \in 1 .. Len(c) /\ c[k] = values[i]
               /\ \A l \in 1 .. Len(c) : \E j \in Members(values, i) : c[l] = values[j]
  <2>1. GroupHolds(c, values, i)
    BY <1>1, GroupMembers
  <2> QED
    BY <2>1 DEF GroupHolds
<1>3. PICK hi \in Int, lo \in Int :
         /\ hi = Max(ToSet(c)) /\ lo = Min(ToSet(c)) /\ range(c) = hi - lo /\ hi - lo \in Nat
         /\ lo <= values[i] /\ values[i] <= hi
         /\ \E a, b \in 1 .. Len(c) : c[a] = hi /\ c[b] = lo
  BY <1>2, Extremes
<1>4. PICK M \in Nat \ {0} : M = max_value(q)
  BY Levels
<1>5. PICK v \in Int : v = values[i]
  OBVIOUS
<1>6. CASE R = 0
  <2>1. Rebuilt(values, q, i) = <<lo, 1>>
    BY <1>1, <1>3, <1>6 DEF Rebuilt
  <2>2. lo = v
    BY <1>1, <1>3, <1>5, <1>6
  <2> QED
    BY <1>5, <1>6, <2>1, <2>2
<1>7. CASE R # 0
  <2>1. R \in Nat \ {0} /\ R = range(c) /\ hi = lo + R
    BY <1>1, <1>3, <1>7
  <2>2. PICK z : z = zero_point_of(c, q)
    OBVIOUS
  <2>3. PICK x : x = clamp(AsI32(round(v * M, R)) + z, M)
    OBVIOUS
  <2>4. Rebuilt(values, q, i) = <<WrapI32(x - z) * R, M>>
    BY <1>1, <1>4, <1>5, <2>1, <2>2, <2>3 DEF Rebuilt
  <2>5. z = AsI32(round(-(lo * M), R))
    <3>1. range(c) > 0
      BY <2>1
    <3>2. z = AsI32(round(-Min(ToSet(c)) * max_value(q), range(c)))
      BY <2>2, <3>1 DEF zero_point_of
    <3>3. -lo * M = -(lo * M)
      OBVIOUS
    <3> QED
      BY <1>3, <1>4, <2>1, <3>2, <3>3
  <2>6. SUFFICES ASSUME \A j \in Members(values, i) : Abs(values[j]) * M < I32 * R
                 PROVE  Abs(v * M - WrapI32(x - z) * R) <= R
    BY <1>4, <1>5, <1>7, <2>4
  <2>7. Abs(hi) * M < I32 * R /\ Abs(lo) * M < I32 * R
    BY <1>2, <1>3, <2>6
  <2>8. PICK Lo \in Int, V \in Int, Hi \in Int : Lo = lo * M /\ V = v * M /\ Hi = hi * M
    OBVIOUS
  <2>9. I32 * R \in Nat
    BY <2>1, QuantAssumption
  <2>10. -(I32 * R) < Lo /\ Hi < I32 * R
    <3>1. (-lo) * M = -(lo * M) /\ (Abs(lo) = lo \/ Abs(lo) = -lo) /\ (Abs(hi) = hi \/ Abs(hi) = -hi)
      BY DEF Abs
    <3>2. (-hi) * M = -(hi * M)
      OBVIOUS
    <3>3. Abs(lo) * M = Lo \/ Abs(lo) * M = -Lo
      BY <2>8, <3>1
    <3>4. Abs(hi) * M = Hi \/ Abs(hi) * M = -Hi
      BY <2>8, <3>1, <3>2
    <3>5. Abs(lo) * M >= 0 /\ Abs(hi) * M >= 0
      <4>1. Abs(lo) \in Nat /\ Abs(hi) \in Nat
        BY DEF Abs
      <4> QED
        BY <4>1
    <3> QED
      BY <2>7, <2>9, <3>3, <3>4, <3>5
  <2>11. Lo <= V /\ V <= Hi
    <3>1. lo <= v /\ v <= hi
      BY <1>3, <1>5
    <3> QED
      BY <2>8, <3>1, ProductsInOrder
  <2>12. Hi = Lo + M * R
    <3>1. (lo + R) * M = lo * M + R * M /\ R * M = M * R
      BY <2>1
    <3> QED
      BY <2>1, <2>8, <3>1
  <2>13. /\ Lo + M * R < I32 * R /\ V <= Lo + M * R
         /\ z = AsI32(round(-Lo, R)) /\ x = clamp(AsI32(round(V, R)) + z, M)
    BY <2>3, <2>5, <2>8, <2>10, <2>11, <2>12
  <2>14. Abs(V - WrapI32(x - z) * R) <= R
    BY <2>1, <2>10, <2>11, <2>13, RebuiltWithin
  <2> QED
    BY <2>8, <2>14
<1> QED
  BY <1>6, <1>7

-----------------------------------------------------------------------------
(* The error of a round trip.  Fractions <<n, d>> are compared crosswise.       *)
Fraction == Nat \X (Nat \ {0})
Worse(a, b) == IF b[1] * a[2] > a[1] * b[2] THEN b ELSE a
Offs(original, rebuilt) ==
    [i \in 1 .. Len(original) |-> <<Abs(original[i] * rebuilt[i][2] - rebuilt[i][1]), rebuilt[i][2]>>]

(* Measuring goes from the first weight to the last (measure_error).            *)
Measures(h, seq, N) ==
    /\ h \in [0 .. N -> Fraction]
    /\ h[0] = <<0, 1>>
    /\ \A i \in 1 .. N : h[i] = Worse(h[i - 1], seq[i])

LEMMA ErrorGrows ==
    ASSUME NEW original, NEW rebuilt, original # << >>, Len(original) = Len(rebuilt),
           NEW N \in Nat, N = Len(original),
           NEW seq, seq = Offs(original, rebuilt), \A i \in 1 .. N : seq[i] \in Fraction
    PROVE  \E h : Measures(h, seq, N) /\ h[N] = max_abs_error(original, rebuilt)
<1>1. PICK S, base : S = Fraction /\ base = <<0, 1>>
  OBVIOUS
<1>2. base \in S /\ DOMAIN seq = 1 .. N /\ Len(seq) = N
  <2>1. 0 \in Nat /\ 1 \in Nat \ {0}
    OBVIOUS
  <2> QED
    BY <1>1, <2>1 DEF Fraction, Offs
<1>3. ASSUME NEW i \in 1 .. N, NEW x \in S PROVE Worse(x, seq[i]) \in S
  BY <1>1 DEF Worse
<1> DEFINE F == [i \in 1 .. N |-> [x \in S |-> Worse(x, seq[i])]]
           Body(g) == [D \in SUBSET (1 .. N) |->
                         IF D = {} THEN base
                         ELSE Worse(g[D \ {Max(D)}], seq[Max(D)])]
           iter == CHOOSE g : g = Body(g)
<1>4. F \in [1 .. N -> [S -> S]]
  BY <1>3
<1>5. \A i \in 1 .. N, x \in S : F[i][x] = Worse(x, seq[i])
  OBVIOUS
<1>6. max_abs_error(original, rebuilt) = iter[1 .. N]
  <2>1. FoldLeft(LAMBDA a, b : IF b[1] * a[2] > a[1] * b[2] THEN b ELSE a, base, seq) = iter[1 .. N]
    BY <1>2 DEF FoldLeft, MapThenFoldSet, Worse
  <2> HIDE DEF iter
  <2> QED
    BY <1>1, <2>1 DEF max_abs_error, Offs
<1> HIDE DEF F
<1>7. iter = Body(iter)
  <2>1. PICK g : g \in FoldsOf(S, N, base, F)
    <3> HIDE DEF Body
    <3>1. FoldsOf(S, N, base, F) # {}
      BY <1>2, <1>4, FoldExists
    <3> QED
      BY <3>1
  <2>2. ASSUME NEW D \in SUBSET (1 .. N)
        PROVE  g[D] = IF D = {} THEN base ELSE Worse(g[D \ {Max(D)}], seq[Max(D)])
    <3> HIDE DEF Body
    <3>1. CASE D # {}
      <4>1. /\ Max(D) \in 1 .. N /\ g[D \ {Max(D)}] \in S
            /\ g[D] = F[Max(D)][g[D \ {Max(D)}]]
        BY <3>1, <2>1, <1>2, FoldDomain DEF FoldsOf
      <4> QED
        BY <4>1, <3>1, <1>5
    <3> QED
      BY <3>1, <2>1 DEF FoldsOf
  <2>3. g = Body(g)
    BY <2>1, <2>2 DEF FoldsOf
  <2> HIDE DEF Body
  <2> QED
    BY <2>3
<1> HIDE DEF iter
<1>8. \A D \in SUBSET (1 .. N) :
         iter[D] = IF D = {} THEN base ELSE Worse(iter[D \ {Max(D)}], seq[Max(D)])
  BY <1>7
<1> HIDE DEF Body
<1>9. Iterates(S, N, base, F, iter)
  <2>1. iter[{}] = base
    BY <1>8
  <2>2. ASSUME NEW D \in (SUBSET (1 .. N)) \ {{}}
        PROVE  iter[D \ {Max(D)}] \in S => iter[D] = F[Max(D)][iter[D \ {Max(D)}]]
    <3>1. Max(D) \in 1 .. N
      BY FoldDomain
    <3> QED
      BY <3>1, <1>5, <1>8, ZenonT(40)
  <2> QED
    BY <2>1, <2>2 DEF Iterates
<1>10. PICK h \in StepsOf(S, N, base, F) : h[N] = iter[1 .. N]
  BY <1>2, <1>4, <1>9, FoldPrefixes
<1>11. /\ h \in [0 .. N -> S] /\ h[0] = base
       /\ \A i \in 1 .. N : h[i] = Worse(h[i - 1], seq[i])
  BY <1>2, <1>5, <1>10, FoldDomain DEF StepsOf
<1> QED
  BY <1>1, <1>6, <1>10, <1>11 DEF Measures

(* Comparing crosswise is transitive.                                           *)
LEMMA Crosswise ==
    ASSUME NEW a \in Nat, NEW b \in Nat \ {0}, NEW c \in Nat, NEW d \in Nat \ {0},
           NEW e \in Nat, NEW f \in Nat \ {0}, a * d <= c * b, c * f <= e * d
    PROVE  a * f <= e * b
<1>1. PICK p \in Nat, q \in Nat, r \in Nat, s \in Nat : p = a * d /\ q = c * b /\ r = c * f /\ s = e * d
  OBVIOUS
<1>2. p * f <= q * f /\ r * b <= s * b
  <2>1. p \in Int /\ q \in Int /\ r \in Int /\ s \in Int /\ p <= q /\ r <= s
    BY <1>1
  <2> QED
    BY <2>1, ProductsInOrder
<1>3. p * f = (a * f) * d /\ q * f = r * b /\ s * b = (e * b) * d
  <2>1. (a * d) * f = (a * f) * d
    OBVIOUS
  <2>2. (c * b) * f = (c * f) * b
    OBVIOUS
  <2>3. (e * d) * b = (e * b) * d
    OBVIOUS
  <2> QED
    BY <1>1, <2>1, <2>2, <2>3
<1>4. PICK u \in Nat, v \in Nat : u = a * f /\ v = e * b
  OBVIOUS
<1>5. u * d <= v * d
  <2>1. p * f \in Nat /\ q * f \in Nat /\ s * b \in Nat
    BY <1>1
  <2> QED
    BY <1>2, <1>3, <1>4, <2>1
<1>6. SUFFICES ASSUME v + 1 <= u PROVE FALSE
  BY <1>4
<1>7. (v + 1) * d <= u * d /\ (v + 1) * d = v * d + d /\ v * d \in Int
  <2>1. v + 1 \in Int /\ u \in Int /\ v \in Int
    OBVIOUS
  <2> QED
    BY <1>6, <2>1, ProductsInOrder
<1> QED
  BY <1>5, <1>7

(* The error so far is the largest of the weights measured, or zero.            *)
WorstOf(e, seq, n) ==
    /\ \A i \in 1 .. n : seq[i][1] * e[2] <= e[1] * seq[i][2]
    /\ e = <<0, 1>> \/ \E i \in 1 .. n : e = seq[i]

LEMMA WorstStays ==
    ASSUME NEW n \in Nat, NEW seq, \A i \in 1 .. n + 1 : seq[i] \in Fraction,
           NEW e \in Fraction, WorstOf(e, seq, n)
    PROVE  WorstOf(Worse(e, seq[n + 1]), seq, n + 1)
<1>1. PICK b : b = seq[n + 1]
  OBVIOUS
<1>2. b \in Fraction /\ n + 1 \in 1 .. n + 1
  BY <1>1
<1>3. /\ b[1] \in Nat /\ b[2] \in Nat \ {0} /\ e[1] \in Nat /\ e[2] \in Nat \ {0}
      /\ b[1] * e[2] \in Nat /\ e[1] * b[2] \in Nat
  <2>1. b[1] \in Nat /\ b[2] \in Nat \ {0} /\ e[1] \in Nat /\ e[2] \in Nat \ {0}
    BY <1>2 DEF Fraction
  <2> QED
    BY <2>1
<1>4. \A i \in 1 .. n + 1 : i \in 1 .. n \/ i = n + 1
  OBVIOUS
<1>5. CASE b[1] * e[2] > e[1] * b[2]
  <2>1. Worse(e, seq[n + 1]) = b
    BY <1>1, <1>5 DEF Worse
  <2>2. ASSUME NEW i \in 1 .. n PROVE seq[i][1] * b[2] <= b[1] * seq[i][2]
    <3>1. seq[i] \in Fraction
      OBVIOUS
    <3>2. seq[i][1] \in Nat /\ seq[i][2] \in Nat \ {0}
      BY <3>1 DEF Fraction
    <3>3. seq[i][1] * e[2] <= e[1] * seq[i][2]
      BY DEF WorstOf
    <3>4. e[1] * b[2] <= b[1] * e[2]
      BY <1>3, <1>5
    <3> QED
      BY <1>3, <3>2, <3>3, <3>4, Crosswise
  <2>3. seq[n + 1][1] * b[2] <= b[1] * seq[n + 1][2]
    <3>1. b[1] * b[2] \in Nat
      BY <1>3
    <3> QED
      BY <1>1, <3>1
  <2> QED
    BY <1>1, <1>2, <1>4, <2>1, <2>2, <2>3 DEF WorstOf
<1>6. CASE ~(b[1] * e[2] > e[1] * b[2])
  <2>1. Worse(e, seq[n + 1]) = e
    BY <1>1, <1>6 DEF Worse
  <2>2. seq[n + 1][1] * e[2] <= e[1] * seq[n + 1][2]
    BY <1>1, <1>3, <1>6
  <2>3. e = <<0, 1>> \/ \E i \in 1 .. n + 1 : e = seq[i]
    BY DEF WorstOf
  <2>4. \A i \in 1 .. n : seq[i][1] * e[2] <= e[1] * seq[i][2]
    BY DEF WorstOf
  <2> QED
    BY <1>4, <2>1, <2>2, <2>3, <2>4 DEF WorstOf
<1> QED
  BY <1>5, <1>6

ErrorOf(e, original, rebuilt) ==
    LET Off(i) == Abs(original[i] * rebuilt[i][2] - rebuilt[i][1])
    IN  /\ \A i \in 1 .. Len(original) : Off(i) * e[2] <= e[1] * rebuilt[i][2]
        /\ \E i \in 1 .. Len(original) : Off(i) * e[2] = e[1] * rebuilt[i][2]

LEMMA ErrorIs ==
    ASSUME NEW original \in Seq(Int), NEW rebuilt \in Seq(Int \X (Nat \ {0})),
           original # << >>, Len(original) = Len(rebuilt),
           NEW e, e = max_abs_error(original, rebuilt)
    PROVE  ErrorOf(e, original, rebuilt)
<1>1. PICK seq : seq = Offs(original, rebuilt)
  OBVIOUS
<1>2. PICK N \in Nat : N = Len(original) /\ seq = Offs(original, rebuilt)
  BY <1>1
<1>3. N # 0
  BY <1>2
<1>4. ASSUME NEW i \in 1 .. N
      PROVE  /\ seq[i] \in Fraction /\ seq[i][2] = rebuilt[i][2]
             /\ seq[i][1] = Abs(original[i] * rebuilt[i][2] - rebuilt[i][1])
  <2>1. original[i] \in Int /\ rebuilt[i][1] \in Int /\ rebuilt[i][2] \in Nat \ {0}
    <3>1. rebuilt[i] \in Int \X (Nat \ {0}) /\ original[i] \in Int
      BY <1>2
    <3> QED
      BY <3>1
  <2>2. original[i] * rebuilt[i][2] - rebuilt[i][1] \in Int
    BY <2>1, SMTT(30)
  <2>3. Abs(original[i] * rebuilt[i][2] - rebuilt[i][1]) \in Nat
    BY <2>2 DEF Abs
  <2>4. seq[i] = <<Abs(original[i] * rebuilt[i][2] - rebuilt[i][1]), rebuilt[i][2]>>
    BY <1>2 DEF Offs
  <2> QED
    BY <2>1, <2>3, <2>4 DEF Fraction
<1>5. PICK h \in [0 .. N -> Fraction] :
         /\ h[0] = <<0, 1>>
         /\ \A i \in 1 .. N : h[i] = Worse(h[i - 1], seq[i])
         /\ h[N] = e
  <2>1. \A i \in 1 .. N : seq[i] \in Fraction
    BY <1>4
  <2>2. \E h : Measures(h, seq, N) /\ h[N] = max_abs_error(original, rebuilt)
    BY <1>2, <2>1, ErrorGrows
  <2> QED
    BY <2>2 DEF Measures
<1> DEFINE Good == {n \in Nat : n <= N => WorstOf(h[n], seq, n)}
<1>6. 0 \in Good
  BY <1>5 DEF WorstOf
<1>7. ASSUME NEW n \in Nat, n \in Good, n + 1 <= N PROVE WorstOf(h[n + 1], seq, n + 1)
  <2>1. WorstOf(h[n], seq, n)
    BY <1>2, <1>7
  <2>2. n \in 0 .. N /\ n + 1 \in 1 .. N /\ n + 1 - 1 = n /\ \A i \in 1 .. n + 1 : i \in 1 .. N
    BY <1>2, <1>7
  <2>3. h[n] \in Fraction /\ h[n + 1] = Worse(h[n], seq[n + 1])
    BY <1>5, <2>2
  <2>4. \A i \in 1 .. n + 1 : seq[i] \in Fraction
    BY <1>4, <2>2
  <2> QED
    BY <2>1, <2>3, <2>4, WorstStays
<1>8. N \in Good
  <2>1. \A n \in Nat : n \in Good => n + 1 \in Good
    BY <1>7, SMTT(30)
  <2> HIDE DEF Good
  <2>2. Nat \subseteq Good
    BY <1>6, <2>1, NatInductionOn
  <2> QED
    BY <1>2, <2>2
<1> HIDE DEF Good
<1>9. WorstOf(e, seq, N)
  BY <1>5, <1>8 DEF Good
<1>10. \E i \in 1 .. N : seq[i][1] * e[2] = e[1] * seq[i][2]
  <2>1. CASE e = <<0, 1>>
    <3>1. 1 \in 1 .. N
      BY <1>3
    <3>2. seq[1][1] * e[2] <= e[1] * seq[1][2]
      BY <1>9, <3>1 DEF WorstOf
    <3>3. seq[1][1] \in Nat /\ seq[1][2] \in Nat /\ e[1] = 0 /\ e[2] = 1
      BY <1>4, <2>1, <3>1 DEF Fraction
    <3>4. seq[1][1] * 1 = seq[1][1] /\ 0 * seq[1][2] = 0
      BY <3>3
    <3>5. seq[1][1] * e[2] = e[1] * seq[1][2]
      BY <3>2, <3>3, <3>4
    <3> QED
      BY <3>1, <3>5
  <2>2. ASSUME NEW i \in 1 .. N, e = seq[i] PROVE seq[i][1] * e[2] = e[1] * seq[i][2]
    BY <2>2
  <2> QED
    BY <1>9, <2>1, <2>2 DEF WorstOf
<1> QED
  BY <1>2, <1>4, <1>9, <1>10 DEF WorstOf, ErrorOf

(* A tensor's job: what the first step leaves and what the second makes of it.  *)
RoundTrip(values, q) == dequantize(quantize(values, q))

QuantInd ==
    /\ job \in SampleJobs \cup QuantizeJobs \cup LayoutJobs \cup KernelJobs
    /\ job.kind = "quantize"
       => /\ pc \in {"quantize", "dequantize", "done"}
          /\ pc = "dequantize" =>
                NotFinite \notin ToSet(job.values) /\ out = quantize(job.values, job.bits)
          /\ pc = "done" =>
                IF NotFinite \in ToSet(job.values) THEN out = Error
                ELSE out = [status |-> "ok", values |-> RoundTrip(job.values, job.bits),
                            max_abs_error |->
                               max_abs_error(job.values, RoundTrip(job.values, job.bits))]

LEMMA QuantStarts == Init => QuantInd
BY DEF Init, QuantInd, FirstStep

LEMMA QuantSteps == QuantInd /\ [Next]_vars => QuantInd'
<1> SUFFICES ASSUME QuantInd, [Next]_vars PROVE QuantInd'
  OBVIOUS
<1>1. ASSUME pc \notin {"quantize", "dequantize", "done"}, job' = job PROVE QuantInd'
  BY <1>1 DEF QuantInd
<1>2. CASE UNCHANGED vars
  BY <1>2 DEF vars, QuantInd
<1>3. CASE Quantize
  <2>1. PICK tensor : tensor = quantize(job.values, job.bits)
    OBVIOUS
  <2>2. /\ pc = "quantize" /\ job' = job
        /\ \/ tensor.status = "error" /\ pc' = "done" /\ out' = Error
           \/ tensor.status = "ok" /\ pc' = "dequantize" /\ out' = tensor
    BY <1>3, <2>1 DEF Quantize, Finish
  <2>3. CASE NotFinite \in ToSet(job.values)
    <3>1. tensor.status = "error"
      BY <2>1, <2>3 DEF quantize
    <3> QED
      BY <2>2, <2>3, <3>1 DEF QuantInd
  <2>4. CASE NotFinite \notin ToSet(job.values)
    <3>1. tensor.status = "ok"
      BY <2>1, <2>4 DEF quantize
    <3> QED
      BY <2>1, <2>2, <2>4, <3>1 DEF QuantInd
  <2> QED
    BY <2>3, <2>4
<1>4. CASE Dequantize
  <2>1. /\ pc = "dequantize" /\ job' = job /\ pc' = "done"
        /\ out' = [status |-> "ok", values |-> dequantize(out),
                   max_abs_error |-> max_abs_error(job.values, dequantize(out))]
    BY <1>4 DEF Dequantize, Finish
  <2>2. job.kind = "quantize" =>
           NotFinite \notin ToSet(job.values) /\ dequantize(out) = RoundTrip(job.values, job.bits)
    BY <2>1 DEF QuantInd, RoundTrip
  <2> QED
    BY <2>1, <2>2 DEF QuantInd
<1>5. CASE EmptyRow \/ Penalise \/ Greedy \/ Temperature \/ TopK \/ TopP \/ Draw
  <2>1. pc \in {"penalty", "greedy", "temperature", "top_k", "top_p", "draw"} /\ job' = job
    BY <1>5 DEF EmptyRow, Penalise, Greedy, Temperature, TopK, TopP, Draw
  <2> QED
    BY <1>1, <2>1
<1>6. CASE ComputeLayout \/ RefuseLayout \/ RanksDone \/ CompareKernel
  <2>1. pc \in {"rank", "compare"} /\ job' = job
    BY <1>6 DEF ComputeLayout, RefuseLayout, RanksDone, CompareKernel
  <2> QED
    BY <1>1, <2>1
<1> QED
  BY <1>2, <1>3, <1>4, <1>5, <1>6 DEF Next

LEMMA RoundTripFollows == QuantInd => QuantizationExact
<1> SUFFICES ASSUME QuantInd, pc = "done", job.kind = "quantize" PROVE QuantizationExact
  BY DEF QuantizationExact, RebuiltWithinOneStep, ErrorReportedExactly
<1>1. PICK v, q, n : v = job.values /\ q = job.bits /\ n = Len(v)
  OBVIOUS
<1>2. v \in Seq(Int \cup {NotFinite}) /\ q \in {"int8", "int4"} /\ n \in Nat
  <2>1. job \in QuantizeJobs
    BY JobsAssumption DEF QuantInd
  <2> QED
    BY <1>1, <2>1, JobsAssumption
<1>3. NotFinite \in ToSet(v) <=> \E i \in 1 .. n : v[i] = NotFinite
  <2>1. DOMAIN v = 1 .. n
    BY <1>1, <1>2
  <2> QED
    BY <2>1 DEF ToSet
<1>4. CASE NotFinite \in ToSet(v)
  <2>1. out = Error
    BY <1>1, <1>4 DEF QuantInd
  <2> QED
    BY <1>1, <1>3, <1>4, <2>1 DEF QuantizationExact, RebuiltWithinOneStep, ErrorReportedExactly
<1>5. CASE NotFinite \notin ToSet(v)
  <2>1. PICK r : r = RoundTrip(v, q)
    OBVIOUS
  <2>2. /\ out = [status |-> "ok", values |-> r, max_abs_error |-> max_abs_error(v, r)]
        /\ out.values = r /\ out.max_abs_error = max_abs_error(v, r)
    BY <1>1, <1>5, <2>1 DEF QuantInd
  <2>3. v \in Seq(Int)
    <3>1. \A i \in 1 .. n : v[i] \in Int
      BY <1>1, <1>2, <1>3, <1>5
    <3> QED
      BY <1>1, <1>2, <3>1
  <2>4. /\ r \in Seq(Int \X (Nat \ {0})) /\ Len(r) = n
        /\ \A i \in 1 .. n : r[i] = Rebuilt(v, q, i)
    <3>1. PICK tensor : tensor = quantize(v, q)
      OBVIOUS
    <3>2. r = dequantize(tensor)
      BY <2>1, <3>1 DEF RoundTrip
    <3>3. RebuiltAs(dequantize(tensor), v, q)
      BY <1>2, <1>5, <2>3, <3>1, RebuiltIs
    <3> QED
      BY <1>1, <3>2, <3>3 DEF RebuiltAs
  <2>5. ASSUME NEW i \in 1 .. n
        PROVE  IF Spread(i) = 0 THEN r[i][1] = v[i] * r[i][2]
               ELSE Countable(i) => Abs(v[i] * r[i][2] - r[i][1]) <= Spread(i)
    <3>1. PICK c : c = chunks(v, GROUP_SIZE)[Part(i, GROUP_SIZE)]
      OBVIOUS
    <3>2. GroupHolds(c, v, i)
      BY <1>1, <2>3, <3>1, GroupMembers
    <3>3. GroupOf(i) = Members(v, i)
      BY <1>1 DEF GroupOf, Members
    <3>4. ToSet(c) = {job.values[j] : j \in GroupOf(i)}
      <4>1. DOMAIN c = 1 .. Len(c)
        BY <3>2 DEF GroupHolds
      <4>2. ASSUME NEW x PROVE x \in ToSet(c) <=> \E k \in 1 .. Len(c) : x = c[k]
        BY <4>1 DEF ToSet
      <4>3. ASSUME NEW x
            PROVE  x \in {job.values[j] : j \in GroupOf(i)} <=> \E j \in Members(v, i) : x = v[j]
        BY <1>1, <3>3
      <4>4. /\ \A k \in 1 .. Len(c) : \E j \in Members(v, i) : c[k] = v[j]
            /\ \A j \in Members(v, i) : \E k \in 1 .. Len(c) : c[k] = v[j]
        BY <3>2 DEF GroupHolds
      <4>5. PICK A, B : A = ToSet(c) /\ B = {job.values[j] : j \in GroupOf(i)}
        OBVIOUS
      <4>6. ASSUME NEW x PROVE x \in A <=> \E k \in 1 .. Len(c) : x = c[k]
        BY <4>2, <4>5
      <4>7. ASSUME NEW x PROVE x \in B <=> \E j \in Members(v, i) : x = v[j]
        BY <4>3, <4>5
      <4>8. A = B
        BY <4>4, <4>6, <4>7, ZenonT(40)
      <4> QED
        BY <4>5, <4>8
    <3>5. PICK R : R = Spread(i)
      OBVIOUS
    <3>6. R = range(chunks(v, GROUP_SIZE)[Part(i, GROUP_SIZE)])
      BY <3>1, <3>4, <3>5 DEF Spread, range
    <3>7. PICK e : e = Rebuilt(v, q, i) /\ r[i] = e
      BY <2>4
    <3>8. /\ R = 0 => e[1] = v[i] * e[2]
          /\ (R # 0 /\ \A j \in Members(v, i) : Abs(v[j]) * max_value(q) < I32 * R)
             => Abs(v[i] * e[2] - e[1]) <= R
      BY <1>1, <1>2, <2>3, <3>6, <3>7, RebuiltClose
    <3>9. Countable(i) <=> \A j \in Members(v, i) : Abs(v[j]) * max_value(q) < I32 * R
      BY <1>1, <3>3, <3>5 DEF Countable
    <3> QED
      BY <3>5, <3>7, <3>8, <3>9
  <2>6. RebuiltWithinOneStep
    BY <1>1, <1>3, <1>5, <2>2, <2>4, <2>5 DEF RebuiltWithinOneStep
  <2>7. ErrorReportedExactly
    <3>1. SUFFICES ASSUME v # << >> PROVE ErrorReportedExactly
      BY <1>1 DEF ErrorReportedExactly
    <3>2. PICK e : e = max_abs_error(v, r)
      OBVIOUS
    <3>3. Len(v) = Len(r) /\ r \in Seq(Int \X (Nat \ {0}))
      BY <1>1, <2>4
    <3>4. ErrorOf(e, v, r)
      BY <2>3, <3>1, <3>2, <3>3, ErrorIs
    <3> QED
      BY <1>1, <2>2, <3>2, <3>4 DEF ErrorReportedExactly, ErrorOf
  <2> QED
    BY <2>6, <2>7 DEF QuantizationExact
<1> QED
  BY <1>4, <1>5

(* For any weights, group size and integer width, a weight that is not finite   *)
(* is refused; otherwise the tensor has every weight back, a constant group     *)
(* exactly and the others to within a step of their own group's scale as long   *)
(* as it counts them in range, and the error reported is the error made         *)
(* (orion-models: quantize, dequantize, measure_error).                         *)
THEOREM QuantizationHolds == Spec => []QuantizationExact
BY QuantStarts, QuantSteps, RoundTripFollows, PTL DEF Spec

-----------------------------------------------------------------------------
(* Sampling.  The numbers a row may hold, and the factors that scale them.      *)
Numbers == (-Inf) .. Inf
Factors == (Nat \ {0}) \X (Nat \ {0})

(* Rounding down keeps a bound.                                                 *)
LEMMA FloorKeeps ==
    ASSUME NEW y \in Int, NEW x \in Int, NEW b \in Nat \ {0}
    PROVE  /\ y \div b \in Int
           /\ y <= x * b => y \div b <= x
           /\ x * b <= y => x <= y \div b
<1>1. PICK q \in Int : q = y \div b /\ q * b <= y /\ y < q * b + b
  OBVIOUS
<1>2. ASSUME y <= x * b, x + 1 <= q PROVE FALSE
  <2>1. (x + 1) * b <= q * b /\ (x + 1) * b = x * b + b /\ x * b \in Int
    <3>1. x + 1 \in Int
      OBVIOUS
    <3> QED
      BY <1>2, <3>1, ProductsInOrder
  <2> QED
    BY <1>1, <1>2, <2>1
<1>3. ASSUME x * b <= y, q + 1 <= x PROVE FALSE
  <2>1. (q + 1) * b <= x * b /\ (q + 1) * b = q * b + b /\ x * b \in Int
    <3>1. q + 1 \in Int
      OBVIOUS
    <3> QED
      BY <1>3, <3>1, ProductsInOrder
  <2> QED
    BY <1>1, <1>3, <2>1
<1> QED
  BY <1>1, <1>2, <1>3

LEMMA SaturateIs ==
    ASSUME NEW y \in Int
    PROVE  /\ Saturate(y) \in Numbers
           /\ \A x \in Numbers : /\ IsFinite(x) /\ y <= x => Saturate(y) <= x
                                 /\ IsFinite(x) /\ x <= y => x <= Saturate(y)
BY FloatAssumption DEF Saturate, Numbers, IsFinite, Inf

(* Scaling by at least, or at most, one.                                        *)
LEMMA TimesIs ==
    ASSUME NEW x \in Numbers, NEW q \in Factors
    PROVE  /\ Times(x, q) \in Numbers
           /\ (q[1] <= q[2] /\ x >= 0) \/ (q[1] >= q[2] /\ x <= 0) => Times(x, q) <= x
           /\ (q[1] >= q[2] /\ x >= 0) \/ (q[1] <= q[2] /\ x <= 0) => x <= Times(x, q)
<1>1. PICK a \in Nat \ {0}, b \in Nat \ {0} : a = q[1] /\ b = q[2]
  BY DEF Factors
<1>2. x \in Int /\ FMax \in Nat
  BY FloatAssumption DEF Numbers, Inf
<1>3. CASE ~IsFinite(x)
  BY <1>2, <1>3 DEF Times
<1>4. CASE IsFinite(x)
  <2>1. PICK y \in Int : y = x * a
    BY <1>2
  <2>2. Times(x, q) = Saturate(y \div b)
    BY <1>1, <1>4, <2>1 DEF Times
  <2>3. PICK z \in Int : z = y \div b /\ (y <= x * b => z <= x) /\ (x * b <= y => x <= z)
    BY <1>2, FloorKeeps
  <2>4. /\ (a <= b /\ x >= 0) \/ (a >= b /\ x <= 0) => y <= x * b
        /\ (a >= b /\ x >= 0) \/ (a <= b /\ x <= 0) => x * b <= y
    <3>1. CASE x >= 0
      <4>1. /\ a * x \in Int /\ b * x \in Int
            /\ (a <= b => a * x <= b * x) /\ (b <= a => b * x <= a * x)
        BY <1>2, <3>1, ProductsInOrder
      <4>2. a * x = x * a /\ b * x = x * b
        BY <1>2
      <4>3. x = 0 => x * a = 0 /\ x * b = 0
        OBVIOUS
      <4> QED
        BY <1>2, <2>1, <3>1, <4>1, <4>2, <4>3
    <3>2. CASE x < 0
      <4>1. PICK w \in Nat : w = -x /\ x = -w
        BY <1>2, <3>2
      <4>2. /\ a * w \in Int /\ b * w \in Int
            /\ (a <= b => a * w <= b * w) /\ (b <= a => b * w <= a * w)
        BY <4>1, ProductsInOrder
      <4>3. x * a = -(a * w) /\ x * b = -(b * w)
        BY <4>1
      <4> QED
        BY <1>2, <2>1, <3>2, <4>2, <4>3
    <3> QED
      BY <1>2, <3>1, <3>2
  <2>5. Saturate(z) \in Numbers /\ (z <= x => Saturate(z) <= x) /\ (x <= z => x <= Saturate(z))
    BY <1>4, SaturateIs
  <2> QED
    BY <1>1, <2>2, <2>3, <2>4, <2>5
<1> QED
  BY <1>3, <1>4

LEMMA InverseIs ==
    ASSUME NEW q \in Factors
    PROVE  Inverse2(q) \in Factors /\ Inverse2(q)[1] = q[2] /\ Inverse2(q)[2] = q[1]
BY DEF Factors, Inverse2

LEMMA PenalisedIs ==
    ASSUME NEW l \in Numbers, NEW q \in Factors
    PROVE  /\ Penalised(l, q) \in Numbers
           /\ q[1] >= q[2] => Penalised(l, q) <= l
           /\ q[1] <= q[2] => l <= Penalised(l, q)
<1>1. PICK p : p = Inverse2(q)
  OBVIOUS
<1>2. /\ p \in Factors /\ p[1] = q[2] /\ p[2] = q[1] /\ l \in Int
      /\ q[1] \in Nat /\ q[2] \in Nat
  BY <1>1, InverseIs, FloatAssumption DEF Numbers, Inf, Factors
<1>3. CASE l > 0
  <2>1. Penalised(l, q) = Times(l, p)
    BY <1>1, <1>3 DEF Penalised
  <2> QED
    BY <1>2, <1>3, <2>1, TimesIs
<1>4. CASE ~(l > 0)
  <2>1. Penalised(l, q) = Times(l, q)
    BY <1>4 DEF Penalised
  <2> QED
    BY <1>2, <1>4, <2>1, TimesIs
<1> QED
  BY <1>3, <1>4

(* Rows: a penalty and a temperature change the numbers and not their number.   *)
Row(s, n) == s \in Seq(Numbers) /\ Len(s) = n

RowPenalised(p, s, previous, q) ==
    \A t \in 1 .. Len(s) :
       IF t \in ToSet(previous) THEN /\ q[1] >= q[2] => p[t] <= s[t]
                                     /\ q[1] <= q[2] => s[t] <= p[t]
       ELSE p[t] = s[t]

LEMMA PenaltyRow ==
    ASSUME NEW n \in Nat, NEW s, Row(s, n), NEW previous, NEW q \in Factors,
           NEW p, p = apply_repetition_penalty(s, previous, q)
    PROVE  Row(p, n) /\ RowPenalised(p, s, previous, q)
<1>1. s \in Seq(Numbers) /\ Len(s) = n /\ Numbers \subseteq Int
  BY FloatAssumption DEF Row, Numbers, Inf
<1>2. CASE q = One
  <2>1. p = s
    BY <1>2 DEF apply_repetition_penalty
  <2>2. \A t \in 1 .. n : s[t] \in Numbers
    BY <1>1
  <2>3. \A t \in 1 .. n : s[t] \in Int
    BY <1>1, <2>2
  <2> QED
    BY <1>1, <2>1, <2>3 DEF Row, RowPenalised
<1>3. CASE q # One
  <2>1. p = [t \in 1 .. n |-> IF t \in ToSet(previous) THEN Penalised(s[t], q) ELSE s[t]]
    BY <1>1, <1>3 DEF apply_repetition_penalty
  <2>2. ASSUME NEW t \in 1 .. n
        PROVE  /\ p[t] \in Numbers
               /\ IF t \in ToSet(previous) THEN /\ q[1] >= q[2] => p[t] <= s[t]
                                                /\ q[1] <= q[2] => s[t] <= p[t]
                  ELSE p[t] = s[t]
    <3>1. s[t] \in Numbers
      BY <1>1
    <3> QED
      BY <2>1, <3>1, PenalisedIs
  <2>3. p = [t \in 1 .. n |-> p[t]]
    BY <2>1
  <2>4. p \in Seq(Numbers) /\ Len(p) = n
    BY <2>2, <2>3, SequenceOf
  <2> QED
    BY <1>1, <2>2, <2>4 DEF Row, RowPenalised
<1> QED
  BY <1>2, <1>3

LEMMA TemperatureRow ==
    ASSUME NEW n \in Nat, NEW s, Row(s, n), NEW q \in Factors
    PROVE  Row(apply_temperature(s, q), n)
<1>1. s \in Seq(Numbers) /\ Len(s) = n
  BY DEF Row
<1>2. PICK p : p = apply_temperature(s, q)
  OBVIOUS
<1>3. CASE q = One
  BY <1>3 DEF apply_temperature
<1>4. CASE q # One
  <2>1. p = [t \in 1 .. n |-> Times(s[t], Inverse2(q))]
    BY <1>1, <1>2, <1>4 DEF apply_temperature
  <2>2. \A t \in 1 .. n : p[t] \in Numbers
    <3>1. \A t \in 1 .. n : s[t] \in Numbers
      BY <1>1
    <3> QED
      BY <2>1, <3>1, InverseIs, TimesIs
  <2>3. p = [t \in 1 .. n |-> p[t]]
    BY <2>1
  <2> QED
    BY <1>2, <2>2, <2>3, SequenceOf DEF Row
<1> QED
  BY <1>3, <1>4

(* A sum of natural numbers counts a pile of pairs, whatever the order.         *)
Pile(f, S) == {p \in S \X Nat : p[2] >= 1 /\ p[2] <= f[p[1]]}
Heap(f, S) == Cardinality(Pile(f, S))

Heaps(f, U) ==
    /\ Heap(f, {}) = 0
    /\ \A S \in SUBSET U :
         /\ Heap(f, S) \in Nat
         /\ \A T \in SUBSET S : Heap(f, T) <= Heap(f, S)
         /\ \A x \in S : Heap(f, S) = f[x] + Heap(f, S \ {x})

LEMMA HeapIs ==
    ASSUME NEW U, IsFiniteSet(U), NEW f, \A x \in U : f[x] \in Nat
    PROVE  Heaps(f, U)
<1>1. Heap(f, {}) = 0
  <2>1. Pile(f, {}) = {}
    BY DEF Pile
  <2> QED
    BY <2>1, FS_EmptySet DEF Heap
<1> DEFINE Column(x) == {<<x, k>> : k \in 1 .. f[x]}
<1>2. ASSUME NEW x \in U
      PROVE  IsFiniteSet(Column(x)) /\ Cardinality(Column(x)) = f[x]
  <2>1. PICK m \in Nat : m = f[x]
    OBVIOUS
  <2>2. IsFiniteSet(1 .. m) /\ Cardinality(1 .. m) = m
    BY FS_Interval
  <2> DEFINE g == [k \in 1 .. m |-> <<x, k>>]
  <2>3. g \in Bijection(1 .. m, Column(x))
    <3>1. g \in [1 .. m -> Column(x)]
      BY <2>1
    <3>2. \A a, b \in 1 .. m : g[a] = g[b] => a = b
      OBVIOUS
    <3>3. \A y \in Column(x) : \E a \in 1 .. m : g[a] = y
      BY <2>1
    <3> HIDE DEF g, Column
    <3> QED
      BY <3>1, <3>2, <3>3 DEF Bijection, Injection, Surjection, IsInjective
  <2> HIDE DEF g, Column
  <2>4. ExistsBijection(1 .. m, Column(x))
    BY <2>3 DEF ExistsBijection
  <2> QED
    BY <2>1, <2>2, <2>4, FS_Bijection
<1>3. ASSUME NEW S \in SUBSET U, NEW x \in S
      PROVE  /\ Pile(f, S) = Pile(f, S \ {x}) \cup Column(x)
             /\ Pile(f, S \ {x}) \cap Column(x) = {}
  <2>1. f[x] \in Nat
    OBVIOUS
  <2>2. \A y, k : <<y, k>> \in Pile(f, S) <=> y \in S /\ k \in Nat /\ k >= 1 /\ k <= f[y]
    BY DEF Pile
  <2>3. \A y, k : <<y, k>> \in Pile(f, S \ {x})
                  <=> y \in S /\ y # x /\ k \in Nat /\ k >= 1 /\ k <= f[y]
    BY DEF Pile
  <2>4. \A y, k : <<y, k>> \in Column(x) <=> y = x /\ k \in Nat /\ k >= 1 /\ k <= f[x]
    BY <2>1
  <2>5. /\ \A p \in Pile(f, S) : \E y, k : p = <<y, k>>
        /\ \A p \in Pile(f, S \ {x}) : \E y, k : p = <<y, k>>
        /\ \A p \in Column(x) : \E y, k : p = <<y, k>>
    BY DEF Pile
  <2> HIDE DEF Column
  <2>6. Pile(f, S) \subseteq Pile(f, S \ {x}) \cup Column(x)
    <3> SUFFICES ASSUME NEW p \in Pile(f, S) PROVE p \in Pile(f, S \ {x}) \cup Column(x)
      OBVIOUS
    <3>1. PICK y, k : p = <<y, k>>
      BY <2>5
    <3> QED
      BY <3>1, <2>2, <2>3, <2>4
  <2>7. Pile(f, S \ {x}) \cup Column(x) \subseteq Pile(f, S)
    <3>1. ASSUME NEW p \in Pile(f, S \ {x}) PROVE p \in Pile(f, S)
      <4>1. PICK y, k : p = <<y, k>>
        BY <2>5
      <4>2. <<y, k>> \in Pile(f, S \ {x})
        BY <4>1
      <4> QED
        BY <4>1, <4>2, <2>2, <2>3
    <3>2. ASSUME NEW p \in Column(x) PROVE p \in Pile(f, S)
      <4>1. PICK y, k : p = <<y, k>>
        BY <2>5
      <4>2. <<y, k>> \in Column(x)
        BY <4>1
      <4> QED
        BY <4>1, <4>2, <2>2, <2>4
    <3> QED
      BY <3>1, <3>2
  <2>8. ASSUME NEW p \in Pile(f, S \ {x}), p \in Column(x) PROVE FALSE
    BY <2>8, <2>3, <2>4, <2>5
  <2> QED
    BY <2>6, <2>7, <2>8
<1>4. ASSUME NEW T, NEW S \in SUBSET U, T \in SUBSET S PROVE Pile(f, T) \in SUBSET Pile(f, S)
  BY <1>4 DEF Pile
<1> DEFINE Good == {n \in Nat : \A S \in SUBSET U : Cardinality(S) = n => IsFiniteSet(Pile(f, S))}
<1>5. \A S \in SUBSET U : IsFiniteSet(S) /\ Cardinality(S) \in Nat
  BY FS_Subset, FS_CardinalityType
<1>6. 0 \in Good
  <2> SUFFICES ASSUME NEW S \in SUBSET U, Cardinality(S) = 0 PROVE IsFiniteSet(Pile(f, S))
    OBVIOUS
  <2>1. S = {}
    BY <1>5, FS_EmptySet
  <2>2. Pile(f, {}) = {}
    BY DEF Pile
  <2> QED
    BY <2>1, <2>2, FS_EmptySet
<1>7. ASSUME NEW n \in Nat, n \in Good PROVE n + 1 \in Good
  <2> SUFFICES ASSUME NEW S \in SUBSET U, Cardinality(S) = n + 1 PROVE IsFiniteSet(Pile(f, S))
    OBVIOUS
  <2>1. PICK x : x \in S
    BY <1>5, FS_EmptySet
  <2>2. Cardinality(S \ {x}) = n /\ S \ {x} \in SUBSET U
    <3>1. IsFiniteSet(S)
      BY <1>5
    <3>2. Cardinality(S \ {x}) = Cardinality(S) - 1
      BY <2>1, <3>1, FS_RemoveElement
    <3> QED
      BY <3>2
  <2>3. IsFiniteSet(Pile(f, S \ {x}))
    BY <1>7, <2>2
  <2> HIDE DEF Column
  <2>4. IsFiniteSet(Pile(f, S \ {x}) \cup Column(x))
    BY <1>2, <2>1, <2>3, FS_Union
  <2> QED
    BY <1>3, <2>1, <2>4
<1>8. \A S \in SUBSET U : IsFiniteSet(Pile(f, S))
  <2>1. \A n \in Nat : n \in Good => n + 1 \in Good
    BY <1>7
  <2> HIDE DEF Good
  <2>2. \A n \in Nat : n \in Good
    BY <1>6, <2>1, NatInductionOn
  <2> USE DEF Good
  <2> QED
    BY <1>5, <2>2
<1> HIDE DEF Good, Column
<1>9. ASSUME NEW S \in SUBSET U PROVE Heap(f, S) \in Nat
  BY <1>8, FS_CardinalityType DEF Heap
<1>10. ASSUME NEW S \in SUBSET U, NEW T \in SUBSET S PROVE Heap(f, T) <= Heap(f, S)
  <2>1. Pile(f, T) \in SUBSET Pile(f, S) /\ IsFiniteSet(Pile(f, S))
    BY <1>4, <1>8
  <2> QED
    BY <2>1, FS_Subset DEF Heap
<1>11. ASSUME NEW S \in SUBSET U, NEW x \in S PROVE Heap(f, S) = f[x] + Heap(f, S \ {x})
  <2>1. IsFiniteSet(Pile(f, S \ {x})) /\ IsFiniteSet(Column(x)) /\ Cardinality(Column(x)) = f[x]
    BY <1>2, <1>8
  <2>2. Cardinality(Pile(f, S \ {x}) \cap Column(x)) = 0
    BY <1>3, FS_EmptySet
  <2>3. Heap(f, S) = Heap(f, S \ {x}) + f[x] - 0
    BY <1>3, <2>1, <2>2, FS_Union DEF Heap
  <2>4. f[x] \in Nat /\ Heap(f, S \ {x}) \in Nat
    BY <1>9
  <2> QED
    BY <2>3, <2>4
<1> QED
  BY <1>1, <1>9, <1>10, <1>11 DEF Heaps

(* Whoever takes the elements one by one and adds arrives at the same sum.      *)
Adds(g, f, c, U) ==
    \A S \in SUBSET U : IF S = {} THEN g[S] = 0
                        ELSE /\ c[S] \in S
                             /\ g[S \ {c[S]}] \in Nat => g[S] = f[c[S]] + g[S \ {c[S]}]

LEMMA HeapUnique ==
    ASSUME NEW U, IsFiniteSet(U), NEW f, \A x \in U : f[x] \in Nat,
           NEW g, NEW c, Adds(g, f, c, U)
    PROVE  \A S \in SUBSET U : g[S] = Heap(f, S)
<1> USE DEF Adds
<1>1. Heaps(f, U)
  BY HeapIs
<1> DEFINE Good == {n \in Nat : \A S \in SUBSET U : Cardinality(S) = n => g[S] = Heap(f, S)}
<1>2. \A S \in SUBSET U : IsFiniteSet(S) /\ Cardinality(S) \in Nat
  BY FS_Subset, FS_CardinalityType
<1>3. 0 \in Good
  <2> SUFFICES ASSUME NEW S \in SUBSET U, Cardinality(S) = 0 PROVE g[S] = Heap(f, S)
    OBVIOUS
  <2>1. S = {}
    BY <1>2, FS_EmptySet
  <2> QED
    BY <1>1, <2>1 DEF Heaps
<1>4. ASSUME NEW n \in Nat, n \in Good PROVE n + 1 \in Good
  <2> SUFFICES ASSUME NEW S \in SUBSET U, Cardinality(S) = n + 1 PROVE g[S] = Heap(f, S)
    OBVIOUS
  <2>1. S # {} /\ IsFiniteSet(S)
    BY <1>2, FS_EmptySet
  <2>2. PICK x \in S : x = c[S] /\ (g[S \ {x}] \in Nat => g[S] = f[x] + g[S \ {x}])
    BY <2>1
  <2>3. Cardinality(S \ {x}) = Cardinality(S) - 1
    BY <2>1, FS_RemoveElement
  <2>4. g[S \ {x}] = Heap(f, S \ {x})
    <3>1. S \ {x} \in SUBSET U /\ Cardinality(S \ {x}) = n
      BY <2>3
    <3> QED
      BY <1>4, <3>1
  <2>5. Heap(f, S) = f[x] + Heap(f, S \ {x}) /\ Heap(f, S \ {x}) \in Nat
    BY <1>1 DEF Heaps
  <2> QED
    BY <2>2, <2>4, <2>5
<1>5. \A n \in Nat : n \in Good
  <2>1. \A n \in Nat : n \in Good => n + 1 \in Good
    BY <1>4
  <2> HIDE DEF Good
  <2> QED
    BY <1>3, <2>1, NatInductionOn
<1> QED
  BY <1>2, <1>5

LEMMA TotalIs ==
    ASSUME NEW s \in Seq(Nat)
    PROVE  Total(s) = Heap(s, 1 .. Len(s))
<1>1. PICK N \in Nat : N = Len(s) /\ DOMAIN s = 1 .. N
  OBVIOUS
<1>2. IsFiniteSet(1 .. N) /\ Heaps(s, 1 .. N) /\ \A x \in 1 .. N : s[x] \in Nat
  <2>1. IsFiniteSet(1 .. N)
    BY FS_Interval
  <2>2. \A x \in 1 .. N : s[x] \in Nat
    BY <1>1
  <2> QED
    BY <2>1, <2>2, HeapIs
<1> DEFINE Body(g) == [D \in SUBSET (1 .. N) |-> IF D = {} THEN 0 ELSE g[D \ {Max(D)}] + s[Max(D)]]
           iter == CHOOSE g : g = Body(g)
           heaps == [D \in SUBSET (1 .. N) |-> Heap(s, D)]
<1>3. Total(s) = iter[1 .. N]
  <2>1. FoldLeft(LAMBDA a, b : a + b, 0, s) = iter[1 .. N]
    BY <1>1 DEF FoldLeft, MapThenFoldSet
  <2> HIDE DEF iter
  <2> QED
    BY <2>1 DEF Total
<1>4. \A D \in SUBSET (1 .. N) : D # {} => Max(D) \in D /\ D \ {Max(D)} \in SUBSET (1 .. N)
  BY MaxIn
<1>5. heaps = Body(heaps)
  <2>1. ASSUME NEW D \in SUBSET (1 .. N)
        PROVE  heaps[D] = IF D = {} THEN 0 ELSE heaps[D \ {Max(D)}] + s[Max(D)]
    <3>1. CASE D = {}
      BY <1>2, <3>1 DEF Heaps
    <3>2. CASE D # {}
      <4>1. PICK m \in D : m = Max(D) /\ D \ {m} \in SUBSET (1 .. N)
        BY <1>4, <3>2
      <4>2. /\ Heap(s, D) = s[m] + Heap(s, D \ {m}) /\ s[m] \in Nat
            /\ Heap(s, D \ {m}) \in Nat
        BY <1>2, <4>1 DEF Heaps
      <4> QED
        BY <3>2, <4>1, <4>2
    <3> QED
      BY <3>1, <3>2
  <2> HIDE DEF heaps
  <2>2. heaps = [D \in SUBSET (1 .. N) |-> heaps[D]]
    BY DEF heaps
  <2> QED
    BY <2>1, <2>2
<1>6. iter = Body(iter)
  <2> HIDE DEF Body, heaps
  <2> QED
    BY <1>5
<1> HIDE DEF iter, heaps
<1>7. \A D \in SUBSET (1 .. N) : iter[D] = IF D = {} THEN 0 ELSE iter[D \ {Max(D)}] + s[Max(D)]
  BY <1>6
<1> HIDE DEF Body
<1>8. PICK c : c = [D \in SUBSET (1 .. N) |-> Max(D)]
  OBVIOUS
<1>9. Adds(iter, s, c, 1 .. N)
  <2> SUFFICES ASSUME NEW D \in SUBSET (1 .. N), D # {}
               PROVE  /\ c[D] \in D
                      /\ iter[D \ {c[D]}] \in Nat => iter[D] = s[c[D]] + iter[D \ {c[D]}]
    BY <1>7 DEF Adds
  <2>1. PICK m \in D : m = Max(D) /\ c[D] = m
    BY <1>4, <1>8
  <2>2. iter[D] = iter[D \ {m}] + s[m] /\ s[m] \in Nat
    BY <1>2, <1>7, <2>1
  <2> QED
    BY <2>1, <2>2
<1>10. \A D \in SUBSET (1 .. N) : iter[D] = Heap(s, D)
  <2>1. PICK U : U = 1 .. N
    OBVIOUS
  <2>2. IsFiniteSet(U) /\ (\A x \in U : s[x] \in Nat) /\ Adds(iter, s, c, U)
    BY <1>2, <1>9, <2>1
  <2>3. \A D \in SUBSET U : iter[D] = Heap(s, D)
    BY <2>2, HeapUnique
  <2> QED
    BY <2>1, <2>3
<1> QED
  BY <1>1, <1>3, <1>10

(* Powers of two count subsets.                                                 *)
LEMMA PowerIs ==
    ASSUME NEW a \in Nat
    PROVE  /\ 2 ^ a \in Nat \ {0}
           /\ \A b \in Nat : a < b => 2 ^ a < 2 ^ b
<1>1. ASSUME NEW n \in Nat
      PROVE  /\ IsFiniteSet(SUBSET (1 .. n)) /\ Cardinality(SUBSET (1 .. n)) = 2 ^ n
             /\ 2 ^ n \in Nat
  <2>1. IsFiniteSet(1 .. n) /\ Cardinality(1 .. n) = n
    BY FS_Interval
  <2>2. IsFiniteSet(SUBSET (1 .. n)) /\ Cardinality(SUBSET (1 .. n)) = 2 ^ Cardinality(1 .. n)
    BY <2>1, FS_SUBSET
  <2> QED
    BY <2>1, <2>2, FS_CardinalityType
<1>2. 2 ^ a # 0
  <2>1. {} \in SUBSET (1 .. a)
    OBVIOUS
  <2>2. SUBSET (1 .. a) # {}
    BY <2>1
  <2>3. Cardinality(SUBSET (1 .. a)) # 0
    BY <1>1, <2>2, FS_EmptySet
  <2> QED
    BY <1>1, <2>3
<1>3. ASSUME NEW b \in Nat, a < b PROVE 2 ^ a < 2 ^ b
  <2>1. PICK A, B : A = SUBSET (1 .. a) /\ B = SUBSET (1 .. b)
    OBVIOUS
  <2>2. A \in SUBSET B
    BY <1>3, <2>1
  <2>3. b \in 1 .. b /\ b \notin 1 .. a
    BY <1>3
  <2>4. A # B
    <3>1. {b} \in B /\ {b} \notin A
      BY <2>1, <2>3
    <3> QED
      BY <3>1
  <2>5. IsFiniteSet(B) /\ Cardinality(A) = 2 ^ a /\ Cardinality(B) = 2 ^ b
    BY <1>1, <2>1
  <2>6. Cardinality(A) <= Cardinality(B) /\ Cardinality(A) # Cardinality(B)
    BY <2>2, <2>4, <2>5, FS_Subset
  <2>7. 2 ^ a \in Nat /\ 2 ^ b \in Nat
    BY <1>1
  <2> QED
    BY <2>5, <2>6, <2>7
<1> QED
  BY <1>1, <1>2, <1>3

LEMMA ExpIs ==
    ASSUME NEW d \in Nat
    PROVE  /\ Exp(d) \in Nat /\ Exp(0) # 0
           /\ \A e \in Nat : d < e => Exp(e) < Exp(d) \/ Exp(e) = 0
<1>1. PICK g \in Nat : g = Gap
  BY FloatAssumption
<1>2. ASSUME NEW e \in Nat, e <= g PROVE Exp(e) = 2 ^ (g - e) /\ g - e \in Nat
  BY <1>1, <1>2 DEF Exp
<1>3. ASSUME NEW e \in Nat, ~(e <= g) PROVE Exp(e) = 0
  BY <1>1, <1>3 DEF Exp
<1>4. Exp(d) \in Nat
  <2>1. CASE d <= g
    BY <1>2, <2>1, PowerIs
  <2> QED
    BY <1>3, <2>1
<1>5. Exp(0) # 0
  <2>1. Exp(0) = 2 ^ (g - 0) /\ g - 0 \in Nat
    BY <1>2
  <2> QED
    BY <2>1, PowerIs
<1>6. ASSUME NEW e \in Nat, d < e PROVE Exp(e) < Exp(d) \/ Exp(e) = 0
  <2>1. CASE e <= g
    <3>1. PICK m \in Nat, k \in Nat : m = g - e /\ k = g - d /\ m < k
      BY <1>6, <2>1
    <3>2. Exp(e) = 2 ^ m /\ Exp(d) = 2 ^ k
      BY <1>2, <1>6, <2>1, <3>1
    <3> QED
      BY <3>1, <3>2, PowerIs
  <2> QED
    BY <1>3, <2>1
<1> QED
  BY <1>4, <1>5, <1>6

(* The largest of a row.                                                        *)
Larger(a, b) == IF b > a THEN b ELSE a
Runs(h, s, N) ==
    /\ h \in [0 .. N -> Numbers] /\ h[0] = -Inf
    /\ \A i \in 1 .. N : h[i] = Larger(h[i - 1], s[i])

LEMMA LargestGrows ==
    ASSUME NEW N \in Nat, NEW s, Row(s, N)
    PROVE  \E h : Runs(h, s, N) /\ h[N] = Largest(s)
<1>1. PICK S, base, seq : S = Numbers /\ base = -Inf /\ seq = s
  OBVIOUS
<1>2. base \in S /\ DOMAIN seq = 1 .. N /\ Len(seq) = N
  BY <1>1, FloatAssumption DEF Row, Numbers, Inf
<1>3. ASSUME NEW i \in 1 .. N, NEW x \in S PROVE Larger(x, seq[i]) \in S
  BY <1>1 DEF Larger, Row
<1> DEFINE F == [i \in 1 .. N |-> [x \in S |-> Larger(x, seq[i])]]
           Body(g) == [D \in SUBSET (1 .. N) |->
                         IF D = {} THEN base
                         ELSE Larger(g[D \ {Max(D)}], seq[Max(D)])]
           iter == CHOOSE g : g = Body(g)
<1>4. F \in [1 .. N -> [S -> S]]
  BY <1>3
<1>5. \A i \in 1 .. N, x \in S : F[i][x] = Larger(x, seq[i])
  OBVIOUS
<1>6. Largest(s) = iter[1 .. N]
  <2>1. FoldLeft(LAMBDA a, b : IF b > a THEN b ELSE a, base, seq) = iter[1 .. N]
    BY <1>2 DEF FoldLeft, MapThenFoldSet, Larger
  <2> HIDE DEF iter
  <2> QED
    BY <1>1, <2>1 DEF Largest
<1> HIDE DEF F
<1>7. iter = Body(iter)
  <2>1. PICK g : g \in FoldsOf(S, N, base, F)
    <3> HIDE DEF Body
    <3>1. FoldsOf(S, N, base, F) # {}
      BY <1>2, <1>4, FoldExists
    <3> QED
      BY <3>1
  <2>2. ASSUME NEW D \in SUBSET (1 .. N)
        PROVE  g[D] = IF D = {} THEN base ELSE Larger(g[D \ {Max(D)}], seq[Max(D)])
    <3> HIDE DEF Body
    <3>1. CASE D # {}
      <4>1. /\ Max(D) \in 1 .. N /\ g[D \ {Max(D)}] \in S
            /\ g[D] = F[Max(D)][g[D \ {Max(D)}]]
        BY <3>1, <2>1, <1>2, FoldDomain DEF FoldsOf
      <4> QED
        BY <4>1, <3>1, <1>5
    <3> QED
      BY <3>1, <2>1 DEF FoldsOf
  <2>3. g = Body(g)
    BY <2>1, <2>2 DEF FoldsOf
  <2> HIDE DEF Body
  <2> QED
    BY <2>3
<1> HIDE DEF iter
<1>8. \A D \in SUBSET (1 .. N) :
         iter[D] = IF D = {} THEN base ELSE Larger(iter[D \ {Max(D)}], seq[Max(D)])
  BY <1>7
<1> HIDE DEF Body
<1>9. Iterates(S, N, base, F, iter)
  <2>1. iter[{}] = base
    BY <1>8
  <2>2. ASSUME NEW D \in (SUBSET (1 .. N)) \ {{}}
        PROVE  iter[D \ {Max(D)}] \in S => iter[D] = F[Max(D)][iter[D \ {Max(D)}]]
    <3>1. Max(D) \in 1 .. N
      BY FoldDomain
    <3> QED
      BY <3>1, <1>5, <1>8, ZenonT(40)
  <2> QED
    BY <2>1, <2>2 DEF Iterates
<1>10. PICK h \in StepsOf(S, N, base, F) : h[N] = iter[1 .. N]
  BY <1>2, <1>4, <1>9, FoldPrefixes
<1>11. /\ h \in [0 .. N -> S] /\ h[0] = base
       /\ \A i \in 1 .. N : h[i] = Larger(h[i - 1], seq[i])
  BY <1>2, <1>5, <1>10, FoldDomain DEF StepsOf
<1> QED
  BY <1>1, <1>6, <1>10, <1>11 DEF Runs

LEMMA LargestIs ==
    ASSUME NEW N \in Nat, NEW s, Row(s, N)
    PROVE  /\ Largest(s) \in Numbers /\ \A i \in 1 .. N : s[i] \in Numbers /\ s[i] <= Largest(s)
           /\ Largest(s) = -Inf \/ \E i \in 1 .. N : s[i] = Largest(s)
<1>1. PICK h : Runs(h, s, N) /\ h[N] = Largest(s)
  BY LargestGrows
<1>2. /\ \A i \in 1 .. N : s[i] \in Numbers /\ s[i] \in Int
      /\ \A i \in 0 .. N : h[i] \in Numbers /\ h[i] \in Int
  <2>1. \A x \in Numbers : x \in Int
    BY FloatAssumption DEF Numbers, Inf
  <2>2. \A i \in 1 .. N : s[i] \in Numbers
    BY DEF Row
  <2>3. \A i \in 0 .. N : h[i] \in Numbers
    BY <1>1 DEF Runs
  <2> QED
    BY <2>1, <2>2, <2>3
<1> DEFINE Good == {n \in Nat : n <= N =>
                       /\ \A i \in 1 .. n : s[i] <= h[n]
                       /\ h[n] = -Inf \/ \E i \in 1 .. n : s[i] = h[n]}
<1>3. 0 \in Good
  BY <1>1 DEF Runs
<1>4. ASSUME NEW n \in Nat, n \in Good, n + 1 <= N PROVE n + 1 \in Good
  <2>1. /\ \A i \in 1 .. n : s[i] <= h[n]
        /\ h[n] = -Inf \/ \E i \in 1 .. n : s[i] = h[n]
    BY <1>4
  <2>2. n \in 0 .. N /\ n + 1 \in 1 .. N /\ n + 1 - 1 = n
    BY <1>4
  <2>3. h[n + 1] = Larger(h[n], s[n + 1])
    BY <1>1, <2>2 DEF Runs
  <2>4. \A i \in 1 .. n + 1 : i \in 1 .. n \/ i = n + 1
    OBVIOUS
  <2>5. h[n] \in Int /\ s[n + 1] \in Int /\ \A i \in 1 .. n : i \in 1 .. N /\ s[i] \in Int
    BY <1>2, <2>2
  <2>6. CASE s[n + 1] > h[n]
    <3>1. h[n + 1] = s[n + 1]
      BY <2>3, <2>6 DEF Larger
    <3>2. \A i \in 1 .. n + 1 : s[i] <= h[n + 1]
      BY <2>1, <2>4, <2>5, <2>6, <3>1
    <3> QED
      BY <1>4, <3>1, <3>2
  <2>7. CASE ~(s[n + 1] > h[n])
    <3>1. h[n + 1] = h[n]
      BY <2>3, <2>7 DEF Larger
    <3>2. \A i \in 1 .. n + 1 : s[i] <= h[n + 1]
      BY <2>1, <2>4, <2>5, <2>7, <3>1
    <3>3. h[n + 1] = -Inf \/ \E i \in 1 .. n + 1 : s[i] = h[n + 1]
      BY <2>1, <3>1
    <3> QED
      BY <3>2, <3>3
  <2> QED
    BY <2>6, <2>7
<1>5. N \in Good
  <2>1. \A n \in Nat : n \in Good => n + 1 \in Good
    BY <1>4
  <2> HIDE DEF Good
  <2> QED
    BY <1>3, <2>1, NatInductionOn
<1> QED
  BY <1>1, <1>2, <1>5

(* The first of the largest.                                                    *)
Better(s, best, t) == IF s[t] > (IF best = 0 THEN -Inf ELSE s[best]) THEN t ELSE best
Picks(h, s, N) ==
    /\ h \in [0 .. N -> 0 .. N] /\ h[0] = 0
    /\ \A i \in 1 .. N : h[i] = Better(s, h[i - 1], i)

LEMMA ArgmaxGrows ==
    ASSUME NEW N \in Nat, NEW s, Row(s, N)
    PROVE  \E h : Picks(h, s, N) /\ h[N] = argmax(s)
<1>1. PICK S, base, seq : S = 0 .. N /\ base = 0 /\ seq = [t \in 1 .. N |-> t]
  OBVIOUS
<1>2. base \in S /\ DOMAIN seq = 1 .. N /\ Len(seq) = N
  BY <1>1
<1>3. ASSUME NEW i \in 1 .. N, NEW x \in S PROVE Better(s, x, seq[i]) \in S
  BY <1>1 DEF Better
<1> DEFINE F == [i \in 1 .. N |-> [x \in S |-> Better(s, x, seq[i])]]
           Body(g) == [D \in SUBSET (1 .. N) |->
                         IF D = {} THEN base
                         ELSE Better(s, g[D \ {Max(D)}], seq[Max(D)])]
           iter == CHOOSE g : g = Body(g)
<1>4. F \in [1 .. N -> [S -> S]]
  BY <1>3
<1>5. \A i \in 1 .. N, x \in S : F[i][x] = Better(s, x, seq[i])
  OBVIOUS
<1>6. argmax(s) = iter[1 .. N]
  <2>1. FoldLeft(LAMBDA best, t : IF s[t] > (IF best = 0 THEN -Inf ELSE s[best]) THEN t ELSE best, base, seq) = iter[1 .. N]
    BY <1>2 DEF FoldLeft, MapThenFoldSet, Better
  <2> HIDE DEF iter
  <2> QED
    BY <1>1, <2>1 DEF argmax, Row
<1> HIDE DEF F
<1>7. iter = Body(iter)
  <2>1. PICK g : g \in FoldsOf(S, N, base, F)
    <3> HIDE DEF Body
    <3>1. FoldsOf(S, N, base, F) # {}
      BY <1>2, <1>4, FoldExists
    <3> QED
      BY <3>1
  <2>2. ASSUME NEW D \in SUBSET (1 .. N)
        PROVE  g[D] = IF D = {} THEN base ELSE Better(s, g[D \ {Max(D)}], seq[Max(D)])
    <3> HIDE DEF Body
    <3>1. CASE D # {}
      <4>1. /\ Max(D) \in 1 .. N /\ g[D \ {Max(D)}] \in S
            /\ g[D] = F[Max(D)][g[D \ {Max(D)}]]
        BY <3>1, <2>1, <1>2, FoldDomain DEF FoldsOf
      <4> QED
        BY <4>1, <3>1, <1>5
    <3> QED
      BY <3>1, <2>1 DEF FoldsOf
  <2>3. g = Body(g)
    BY <2>1, <2>2 DEF FoldsOf
  <2> HIDE DEF Body
  <2> QED
    BY <2>3
<1> HIDE DEF iter
<1>8. \A D \in SUBSET (1 .. N) :
         iter[D] = IF D = {} THEN base ELSE Better(s, iter[D \ {Max(D)}], seq[Max(D)])
  BY <1>7
<1> HIDE DEF Body
<1>9. Iterates(S, N, base, F, iter)
  <2>1. iter[{}] = base
    BY <1>8
  <2>2. ASSUME NEW D \in (SUBSET (1 .. N)) \ {{}}
        PROVE  iter[D \ {Max(D)}] \in S => iter[D] = F[Max(D)][iter[D \ {Max(D)}]]
    <3>1. Max(D) \in 1 .. N
      BY FoldDomain
    <3> QED
      BY <3>1, <1>5, <1>8, ZenonT(40)
  <2> QED
    BY <2>1, <2>2 DEF Iterates
<1>10. PICK h \in StepsOf(S, N, base, F) : h[N] = iter[1 .. N]
  BY <1>2, <1>4, <1>9, FoldPrefixes
<1>11. /\ h \in [0 .. N -> S] /\ h[0] = base
       /\ \A i \in 1 .. N : h[i] = Better(s, h[i - 1], seq[i])
  BY <1>2, <1>5, <1>10, FoldDomain DEF StepsOf
<1>12. \A i \in 1 .. N : seq[i] = i
  BY <1>1
<1> QED
  BY <1>1, <1>6, <1>10, <1>11, <1>12 DEF Picks

LEMMA ArgmaxIs ==
    ASSUME NEW N \in Nat, NEW s, Row(s, N), NEW m, m = Largest(s)
    PROVE  IF m = -Inf THEN argmax(s) = 0
           ELSE /\ argmax(s) \in 1 .. N /\ s[argmax(s)] = m
                /\ \A t \in 1 .. N : s[t] = m => argmax(s) <= t
<1>1. PICK h : Picks(h, s, N) /\ h[N] = argmax(s)
  BY ArgmaxGrows
<1>2. /\ \A i \in 1 .. N : s[i] \in Int /\ -Inf <= s[i]
      /\ \A i \in 0 .. N : h[i] \in 0 .. N
      /\ -Inf \in Int
  <2>1. \A x \in Numbers : x \in Int /\ -Inf <= x
    BY FloatAssumption DEF Numbers, Inf
  <2>2. \A i \in 1 .. N : s[i] \in Numbers
    BY DEF Row
  <2>3. -Inf \in Int
    BY FloatAssumption DEF Inf
  <2> QED
    BY <1>1, <2>1, <2>2, <2>3 DEF Picks
<1> DEFINE Best(n, b) == IF b = 0 THEN \A i \in 1 .. n : s[i] = -Inf
                         ELSE /\ b \in 1 .. n /\ s[b] > -Inf
                              /\ \A i \in 1 .. n : s[i] <= s[b]
                              /\ \A i \in 1 .. n : i < b => s[i] < s[b]
           Good == {n \in Nat : n <= N => Best(n, h[n])}
<1>3. 0 \in Good
  BY <1>1 DEF Picks
<1>4. ASSUME NEW n \in Nat, n \in Good, n + 1 <= N PROVE Best(n + 1, h[n + 1])
  <2>1. Best(n, h[n])
    BY <1>4
  <2>2. n \in 0 .. N /\ n + 1 \in 1 .. N /\ n + 1 - 1 = n /\ h[n] \in 0 .. N
    BY <1>2, <1>4
  <2>3. h[n + 1] = Better(s, h[n], n + 1)
    BY <1>1, <2>2 DEF Picks
  <2>4. \A i \in 1 .. n + 1 : i \in 1 .. n \/ i = n + 1
    OBVIOUS
  <2>5. \A i \in 1 .. n + 1 : i \in 1 .. N /\ s[i] \in Int /\ -Inf <= s[i]
    BY <1>2, <2>2
  <2>6. CASE h[n] = 0
    <3>1. h[n + 1] = IF s[n + 1] > -Inf THEN n + 1 ELSE 0
      BY <2>3, <2>6 DEF Better
    <3>2. \A i \in 1 .. n : s[i] = -Inf
      BY <2>1, <2>6
    <3> QED
      BY <1>2, <2>2, <2>4, <2>5, <3>1, <3>2
  <2>7. CASE h[n] # 0
    <3>1. h[n + 1] = IF s[n + 1] > s[h[n]] THEN n + 1 ELSE h[n]
      BY <2>3, <2>7 DEF Better
    <3>2. PICK b : b = h[n] /\ b # 0
      BY <2>7
    <3>3. /\ b \in 1 .. n /\ s[b] > -Inf
          /\ \A i \in 1 .. n : s[i] <= s[b]
          /\ \A i \in 1 .. n : i < b => s[i] < s[b]
      BY <2>1, <3>2
    <3>4. CASE s[n + 1] > s[b]
      BY <1>2, <2>2, <2>4, <2>5, <3>1, <3>2, <3>3, <3>4
    <3>5. CASE ~(s[n + 1] > s[b])
      BY <1>2, <2>2, <2>4, <2>5, <3>1, <3>2, <3>3, <3>5
    <3> QED
      BY <3>4, <3>5
  <2> QED
    BY <2>6, <2>7
<1>5. Best(N, h[N])
  <2>1. \A n \in Nat : n \in Good => n + 1 \in Good
    BY <1>4
  <2>2. N \in Good
    <3> HIDE DEF Good
    <3> QED
      BY <1>3, <2>1, NatInductionOn
  <2> QED
    BY <2>2
<1>6. PICK b : b = argmax(s) /\ b \in 0 .. N
  <2>1. N \in 0 .. N
    OBVIOUS
  <2> QED
    BY <1>1, <1>2, <2>1
<1>7. /\ m \in Int /\ \A i \in 1 .. N : s[i] <= m
      /\ m = -Inf \/ \E i \in 1 .. N : s[i] = m
  <2>1. m \in Numbers /\ (\A i \in 1 .. N : s[i] <= m) /\ (m = -Inf \/ \E i \in 1 .. N : s[i] = m)
    BY LargestIs
  <2> QED
    BY <2>1, FloatAssumption DEF Numbers, Inf
<1>8. CASE b = 0
  <2>1. \A i \in 1 .. N : s[i] = -Inf
    BY <1>1, <1>5, <1>6, <1>8
  <2>2. m = -Inf
    BY <1>7, <2>1
  <2> QED
    BY <1>6, <1>8, <2>2
<1>9. CASE b # 0
  <2>1. /\ b \in 1 .. N /\ s[b] > -Inf
        /\ \A i \in 1 .. N : s[i] <= s[b]
        /\ \A i \in 1 .. N : i < b => s[i] < s[b]
    BY <1>1, <1>5, <1>6, <1>9
  <2>2. m # -Inf /\ m = s[b]
    BY <1>2, <1>7, <2>1
  <2>3. \A i \in 1 .. N : s[i] = m => b <= i
    BY <1>2, <2>1, <2>2
  <2> QED
    BY <1>6, <2>1, <2>2, <2>3
<1> QED
  BY <1>6, <1>8, <1>9

(* Fewer than k others beat a token exactly when it reaches the k-th largest.   *)
Beat(s, x) == {u \in 1 .. Len(s) : s[u] > x}
Reach(s, x) == {u \in 1 .. Len(s) : s[u] >= x}

LEMMA CountedIs ==
    ASSUME NEW N \in Nat, NEW S \in SUBSET (1 .. N), NEW T \in SUBSET S
    PROVE  /\ IsFiniteSet(S) /\ Cardinality(S) \in Nat /\ Cardinality(T) \in Nat
           /\ Cardinality(T) <= Cardinality(S)
           /\ T # S => Cardinality(T) < Cardinality(S)
           /\ Cardinality(S) <= N /\ (S = 1 .. N => Cardinality(S) = N)
           /\ Cardinality({}) = 0
<1>1. IsFiniteSet(1 .. N) /\ Cardinality(1 .. N) = N
  BY FS_Interval
<1>2. IsFiniteSet(S) /\ Cardinality(S) <= Cardinality(1 .. N)
  BY <1>1, FS_Subset
<1>3. /\ IsFiniteSet(T) /\ Cardinality(T) <= Cardinality(S)
      /\ Cardinality(S) = Cardinality(T) => S = T
  BY <1>2, FS_Subset
<1>4. Cardinality(S) \in Nat /\ Cardinality(T) \in Nat /\ Cardinality({}) = 0
  BY <1>2, <1>3, FS_CardinalityType, FS_EmptySet
<1> QED
  BY <1>1, <1>2, <1>3, <1>4

LEMMA KthIs ==
    ASSUME NEW N \in Nat, NEW s, Row(s, N), NEW k \in Nat \ {0}, k <= N, NEW t \in 1 .. N
    PROVE  s[t] < kth(s, k) <=> ~(Cardinality(Beat(s, s[t])) < k)
<1>1. DOMAIN s = 1 .. N /\ Len(s) = N /\ \A i \in 1 .. N : s[i] \in Int /\ -Inf <= s[i]
  <2>1. \A x \in Numbers : x \in Int /\ -Inf <= x
    BY FloatAssumption DEF Numbers, Inf
  <2>2. Len(s) = N /\ \A i \in 1 .. N : s[i] \in Numbers
    BY DEF Row
  <2> QED
    BY <2>1, <2>2 DEF Row
<1>2. \A x : Beat(s, x) \in SUBSET (1 .. N) /\ Reach(s, x) \in SUBSET (1 .. N)
  BY <1>1 DEF Beat, Reach
<1>3. \A S \in SUBSET (1 .. N) : Cardinality(S) \in Nat /\ Cardinality(S) <= N
  BY CountedIs
<1> DEFINE Fits(x) == Cardinality(Reach(s, x)) >= k
(* The largest of those that k reach: there is one, as N reach the least.       *)
<1>4. PICK z \in Nat : z = Inf /\ -Inf = -z
  BY FloatAssumption DEF Inf
<1>5. \E v \in 1 .. N : Fits(s[v])
  <2> DEFINE Above == {s[i] + z : i \in 1 .. N}
  <2>1. PICK y \in Above : \A w \in Above : y <= w
    <3>1. \A i \in 1 .. N : s[i] + z \in Nat
      BY <1>1, <1>4
    <3>2. Above \in SUBSET Nat /\ Above # {}
      BY <3>1
    <3> HIDE DEF Above
    <3> QED
      BY <3>2, LeastOf
  <2>2. PICK v \in 1 .. N : y = s[v] + z
    OBVIOUS
  <2>3. \A i \in 1 .. N : s[v] <= s[i]
    <3>1. \A i \in 1 .. N : s[v] + z <= s[i] + z
      BY <2>1, <2>2
    <3>2. \A i \in 1 .. N : s[i] \in Int
      BY <1>1
    <3> QED
      BY <1>4, <3>1, <3>2
  <2>4. Reach(s, s[v]) = 1 .. N
    BY <1>1, <2>3 DEF Reach
  <2>5. Cardinality(Reach(s, s[v])) = N
    BY <2>4, CountedIs
  <2> QED
    BY <2>5
<1>6. PICK v \in 1 .. N : Fits(s[v]) /\ \A i \in 1 .. N : Fits(s[i]) => s[i] <= s[v]
  <2>1. PICK M \in Nat : \A i \in 1 .. N : s[i] <= M
    <3>1. \A i \in 1 .. N : s[i] <= z
      <4>1. \A i \in 1 .. N : s[i] \in Numbers
        BY DEF Row
      <4> QED
        BY <1>4, <4>1 DEF Numbers
    <3> QED
      BY <3>1
  <2> DEFINE Below == {M - s[i] : i \in {j \in 1 .. N : Fits(s[j])}}
  <2>2. PICK y \in Below : \A w \in Below : y <= w
    <3>1. \A i \in 1 .. N : M - s[i] \in Nat
      BY <1>1, <2>1
    <3>2. Below \in SUBSET Nat /\ Below # {}
      <4> HIDE DEF Fits
      <4> QED
        BY <1>5, <3>1
    <3> HIDE DEF Below
    <3> QED
      BY <3>2, LeastOf
  <2> HIDE DEF Fits
  <2>3. PICK v \in 1 .. N : Fits(s[v]) /\ y = M - s[v]
    OBVIOUS
  <2>4. \A i \in 1 .. N : Fits(s[i]) => M - s[v] <= M - s[i]
    BY <2>2, <2>3
  <2>5. \A i \in 1 .. N : Fits(s[i]) => s[i] <= s[v]
    BY <1>1, <2>4
  <2> QED
    BY <2>3, <2>5
<1>7. Cardinality(Beat(s, s[v])) < k
  <2>1. CASE Beat(s, s[v]) = {}
    BY <2>1, CountedIs
  <2>2. CASE Beat(s, s[v]) # {}
    <3>1. PICK w \in 1 .. N : w \in Beat(s, s[v]) /\ \A i \in Beat(s, s[v]) : s[w] <= s[i]
      <4> DEFINE Above == {s[i] + z : i \in Beat(s, s[v])}
      <4>1. \A i \in Beat(s, s[v]) : i \in 1 .. N /\ s[i] + z \in Nat
        BY <1>1, <1>2, <1>4
      <4>2. PICK y \in Above : \A w \in Above : y <= w
        <5>1. Above \in SUBSET Nat /\ Above # {}
          BY <2>2, <4>1
        <5> HIDE DEF Above
        <5> QED
          BY <5>1, LeastOf
      <4>3. PICK w \in Beat(s, s[v]) : y = s[w] + z
        OBVIOUS
      <4>4. \A i \in Beat(s, s[v]) : s[w] + z <= s[i] + z
        BY <4>2, <4>3
      <4>5. \A i \in Beat(s, s[v]) : s[w] <= s[i]
        BY <1>1, <1>4, <4>1, <4>4, SMTT(30)
      <4> QED
        BY <4>1, <4>3, <4>5
    <3>2. Beat(s, s[v]) \subseteq Reach(s, s[w])
      BY <1>2, <3>1 DEF Reach, Beat
    <3>3. ~Fits(s[w])
      BY <1>1, <1>6, <3>1 DEF Beat
    <3>4. Cardinality(Beat(s, s[v])) <= Cardinality(Reach(s, s[w]))
      BY <1>2, <3>2, CountedIs
    <3> QED
      BY <1>2, <1>3, <3>3, <3>4
  <2> QED
    BY <2>1, <2>2
<1>8. PICK x : /\ x = kth(s, k) /\ x \in Int /\ Cardinality(Beat(s, x)) < k
               /\ Cardinality(Reach(s, x)) >= k
  <2>1. kth(s, k) = CHOOSE x \in ToSet(s) : Cardinality(Beat(s, x)) < k /\ Cardinality(Reach(s, x)) >= k
    BY DEF kth, Beat, Reach
  <2>2. s[v] \in ToSet(s) /\ \A x \in ToSet(s) : x \in Int
    BY <1>1 DEF ToSet
  <2> QED
    BY <1>6, <1>7, <2>1, <2>2
<1>9. CASE s[t] < x
  <2>1. Reach(s, x) \subseteq Beat(s, s[t])
    BY <1>1, <1>8, <1>9 DEF Reach, Beat
  <2>2. Cardinality(Reach(s, x)) <= Cardinality(Beat(s, s[t]))
    BY <1>2, <2>1, CountedIs
  <2> QED
    BY <1>2, <1>3, <1>8, <1>9, <2>2
<1>10. CASE ~(s[t] < x)
  <2>1. Beat(s, s[t]) \subseteq Beat(s, x)
    BY <1>1, <1>8, <1>10 DEF Beat
  <2>2. Cardinality(Beat(s, s[t])) <= Cardinality(Beat(s, x))
    BY <1>2, <2>1, CountedIs
  <2> QED
    BY <1>2, <1>3, <1>8, <1>10, <2>2
<1> QED
  BY <1>9, <1>10

(* The k that are kept keep their numbers.                                      *)
Tops(s, k) == {t \in 1 .. Len(s) : k = 0 \/ Cardinality(Beat(s, s[t])) < k}
Keeps(y, s, A) == \A t \in 1 .. Len(s) : y[t] = IF t \in A THEN s[t] ELSE Masked

LEMMA TopKRow ==
    ASSUME NEW N \in Nat, NEW s, Row(s, N), NEW k \in Nat
    PROVE  Row(apply_top_k(s, k), N) /\ Keeps(apply_top_k(s, k), s, Tops(s, k))
<1>1. s \in Seq(Numbers) /\ Len(s) = N /\ (\A t \in 1 .. N : s[t] \in Numbers) /\ Masked \in Numbers
  BY FloatAssumption DEF Row, Numbers, Inf
<1>2. PICK y : y = apply_top_k(s, k)
  OBVIOUS
<1>3. CASE k = 0 \/ k >= N
  <2>1. y = s
    BY <1>1, <1>2, <1>3 DEF apply_top_k
  <2>2. ASSUME NEW t \in 1 .. N PROVE t \in Tops(s, k)
    <3>1. SUFFICES ASSUME k >= N PROVE Cardinality(Beat(s, s[t])) < k
      BY <1>1, <1>3 DEF Tops
    <3>2. Beat(s, s[t]) \in SUBSET (1 .. N) /\ t \notin Beat(s, s[t])
      <4>1. s[t] \in Int
        BY <1>1, FloatAssumption DEF Numbers, Inf
      <4> QED
        BY <1>1, <4>1 DEF Beat
    <3>3. PICK U : U = 1 .. N
      OBVIOUS
    <3>4. U \in SUBSET (1 .. N) /\ Beat(s, s[t]) \in SUBSET U /\ Beat(s, s[t]) # U
      BY <3>2, <3>3
    <3>5. Cardinality(Beat(s, s[t])) < Cardinality(U) /\ Cardinality(U) = N
      BY <3>3, <3>4, CountedIs
    <3>6. Cardinality(Beat(s, s[t])) \in Nat
      BY <3>2, CountedIs
    <3> QED
      BY <3>1, <3>5, <3>6
  <2> QED
    BY <1>1, <1>2, <2>1, <2>2 DEF Row, Keeps
<1>4. CASE ~(k = 0 \/ k >= N)
  <2>1. y = [t \in 1 .. N |-> IF s[t] < kth(s, k) THEN Masked ELSE s[t]]
    BY <1>1, <1>2, <1>4 DEF apply_top_k
  <2>2. ASSUME NEW t \in 1 .. N PROVE s[t] < kth(s, k) <=> t \notin Tops(s, k)
    <3>1. s[t] < kth(s, k) <=> ~(Cardinality(Beat(s, s[t])) < k)
      BY <1>4, KthIs
    <3> QED
      BY <1>1, <1>4, <3>1 DEF Tops
  <2>3. ASSUME NEW t \in 1 .. N
        PROVE  y[t] \in Numbers /\ y[t] = IF t \in Tops(s, k) THEN s[t] ELSE Masked
    BY <1>1, <2>1, <2>2
  <2>4. y = [t \in 1 .. N |-> y[t]]
    BY <2>1
  <2>5. y \in Seq(Numbers) /\ Len(y) = N
    BY <2>3, <2>4, SequenceOf
  <2> QED
    BY <1>1, <1>2, <2>3, <2>5 DEF Row, Keeps
<1> QED
  BY <1>3, <1>4

(* The weight of a token: it falls with the distance to the largest, which is   *)
(* in the range of the numbers and above the sentinel.                          *)
Sane(s) == IsFinite(Largest(s)) /\ Largest(s) > Masked
Weights(s) == [t \in 1 .. Len(s) |-> IF s[t] <= Masked THEN 0 ELSE Exp(Largest(s) - s[t])]

Fall(s, W, n) ==
    /\ W \in [1 .. n -> Nat] /\ W \in Seq(Nat) /\ Len(W) = n
    /\ \A t \in 1 .. n : /\ W[t] # 0 => s[t] > Masked
                         /\ s[t] = Largest(s) => W[t] # 0
    /\ \A t, u \in 1 .. n : s[u] > s[t] => W[t] < W[u] \/ W[t] = 0

LEMMA WeightsFall ==
    ASSUME NEW n \in Nat, NEW s, Row(s, n), Sane(s), NEW W, W = Weights(s)
    PROVE  Fall(s, W, n)
<1>1. PICK m \in Int : m = Largest(s) /\ m > Masked
  BY FloatAssumption, LargestIs DEF Sane, Numbers, Inf
<1>2. Len(s) = n /\ Masked \in Int /\ \A t \in 1 .. n : s[t] \in Int /\ s[t] <= m
  <2>1. \A x \in Numbers : x \in Int
    BY FloatAssumption DEF Numbers, Inf
  <2>2. \A t \in 1 .. n : s[t] \in Numbers /\ s[t] <= m
    BY <1>1, LargestIs
  <2> QED
    BY <2>1, <2>2, FloatAssumption DEF Row
<1>3. \A t \in 1 .. n : W[t] = IF s[t] <= Masked THEN 0 ELSE Exp(m - s[t])
  BY <1>1, <1>2 DEF Weights
<1>4. \A t \in 1 .. n : m - s[t] \in Nat
  BY <1>1, <1>2
<1>5. ASSUME NEW t \in 1 .. n PROVE W[t] \in Nat /\ (W[t] # 0 => s[t] > Masked)
  <2>1. Exp(m - s[t]) \in Nat
    BY <1>4, ExpIs
  <2> QED
    BY <1>2, <1>3, <2>1
<1>6. ASSUME NEW t \in 1 .. n, s[t] = m PROVE W[t] # 0
  <2>1. W[t] = Exp(0)
    BY <1>1, <1>2, <1>3, <1>6
  <2> QED
    BY <2>1, ExpIs
<1>7. ASSUME NEW t \in 1 .. n, NEW u \in 1 .. n, s[u] > s[t] PROVE W[t] < W[u] \/ W[t] = 0
  <2>1. SUFFICES ASSUME s[t] > Masked PROVE W[t] < W[u] \/ W[t] = 0
    BY <1>2, <1>3
  <2>2. PICK d \in Nat, e \in Nat : d = m - s[u] /\ e = m - s[t]
    BY <1>4
  <2>3. d < e
    BY <1>1, <1>2, <1>7, <2>2
  <2>4. W[t] = Exp(e) /\ W[u] = Exp(d)
    BY <1>2, <1>3, <1>7, <2>1, <2>2
  <2> QED
    BY <2>3, <2>4, ExpIs
<1>8. W = [t \in 1 .. n |-> W[t]]
  BY <1>2 DEF Weights
<1>9. W \in Seq(Nat) /\ Len(W) = n
  BY <1>5, <1>8, SequenceOf, SMTT(30)
<1> QED
  BY <1>1, <1>5, <1>6, <1>7, <1>8, <1>9 DEF Fall

(* Masking tokens does not change the weight of the others, as long as one with *)
(* the largest number is left.                                                  *)
LEMMA SoftmaxIs ==
    ASSUME NEW n \in Nat, NEW s, Row(s, n), Sane(s), NEW y, Row(y, n),
           NEW A, Keeps(y, s, A), \E t \in 1 .. n : t \in A /\ s[t] = Largest(s)
    PROVE  /\ softmax(y) \in Seq(Nat) /\ Len(softmax(y)) = n
           /\ \A t \in 1 .. n : softmax(y)[t] = IF t \in A THEN Weights(s)[t] ELSE 0
<1>1. PICK m \in Int : m = Largest(s) /\ m > Masked /\ IsFinite(m)
  BY FloatAssumption, LargestIs DEF Sane, Numbers, Inf
<1>2. /\ Len(s) = n /\ Len(y) = n /\ Masked \in Int
      /\ \A t \in 1 .. n : s[t] \in Int /\ s[t] <= m
  <2>1. \A x \in Numbers : x \in Int
    BY FloatAssumption DEF Numbers, Inf
  <2>2. \A t \in 1 .. n : s[t] \in Numbers /\ s[t] <= m
    BY <1>1, LargestIs
  <2> QED
    BY <2>1, <2>2, FloatAssumption DEF Row
<1>3. \A t \in 1 .. n : y[t] = IF t \in A THEN s[t] ELSE Masked
  BY <1>2 DEF Keeps
<1>4. Largest(y) = m
  <2>1. PICK l \in Int : /\ l = Largest(y) /\ (\A t \in 1 .. n : y[t] <= l)
                         /\ l = -Inf \/ \E t \in 1 .. n : y[t] = l
    BY FloatAssumption, LargestIs DEF Numbers, Inf
  <2>2. m <= l
    BY <1>1, <1>3, <2>1
  <2>3. l <= m
    <3>1. CASE l = -Inf
      <4>1. -Inf < Masked
        BY FloatAssumption DEF Inf
      <4>2. l < Masked
        BY <3>1, <4>1
      <4> QED
        BY <1>1, <1>2, <4>2
    <3>2. CASE \E t \in 1 .. n : y[t] = l
      BY <1>1, <1>2, <1>3, <3>2
    <3> QED
      BY <2>1, <3>1, <3>2
  <2> QED
    BY <2>1, <2>2, <2>3
<1>5. softmax(y) = [t \in 1 .. n |-> IF y[t] <= Masked THEN 0 ELSE Exp(m - y[t])]
  <2>1. ~(~IsFinite(m) \/ m <= Masked)
    BY <1>1, <1>2
  <2> QED
    BY <1>2, <1>4, <2>1 DEF softmax
<1>6. PICK W : W = Weights(s) /\ Fall(s, W, n)
  BY WeightsFall
<1>7. ASSUME NEW t \in 1 .. n
      PROVE  softmax(y)[t] = (IF t \in A THEN W[t] ELSE 0) /\ softmax(y)[t] \in Nat
  <2>1. W[t] = (IF s[t] <= Masked THEN 0 ELSE Exp(m - s[t])) /\ W[t] \in Nat
    BY <1>1, <1>2, <1>6 DEF Weights, Fall
  <2> QED
    BY <1>2, <1>3, <1>5, <2>1
<1>8. softmax(y) = [t \in 1 .. n |-> softmax(y)[t]]
  BY <1>5
<1>9. softmax(y) \in Seq(Nat) /\ Len(softmax(y)) = n
  <2>1. PICK w : w = softmax(y)
    OBVIOUS
  <2>2. w = [t \in 1 .. n |-> w[t]] /\ \A t \in 1 .. n : w[t] \in Nat
    BY <1>7, <1>8, <2>1
  <2>3. w \in Seq(Nat) /\ Len(w) = n
    BY <2>2, SequenceOf
  <2> QED
    BY <2>1, <2>3
<1> QED
  BY <1>6, <1>7, <1>9

(* The mass of the first tokens of an order is the sum over them.               *)
Firsts(q, i) == {q[j] : j \in 1 .. i}

OrderOf(q, l, n) == /\ \A i \in 1 .. l : q[i] \in 1 .. n
                    /\ \A i, j \in 1 .. l : i # j => q[i] # q[j]

LEMMA MassIs ==
    ASSUME NEW n \in Nat, NEW w \in Seq(Nat), Len(w) = n, NEW l \in Nat,
           NEW q, OrderOf(q, l, n), NEW i \in 0 .. l
    PROVE  Mass(w, q, i) = Heap(w, Firsts(q, i)) /\ Firsts(q, i) \in SUBSET (1 .. n)
<1> USE DEF OrderOf
<1>1. PICK v : v = [j \in 1 .. i |-> w[q[j]]]
  OBVIOUS
<1>2. /\ v \in Seq(Nat) /\ Len(v) = i /\ \A j \in 1 .. i : v[j] \in Nat /\ v[j] = w[q[j]]
  <2>1. \A j \in 1 .. i : v[j] \in Nat /\ v[j] = w[q[j]]
    <3>1. \A j \in 1 .. i : q[j] \in 1 .. n
      OBVIOUS
    <3>2. \A t \in 1 .. n : w[t] \in Nat
      OBVIOUS
    <3> QED
      BY <1>1, <3>1, <3>2
  <2>2. v = [j \in 1 .. i |-> v[j]] /\ i \in Nat
    BY <1>1
  <2> QED
    BY <2>1, <2>2, SequenceOf
<1>3. Mass(w, q, i) = Heap(v, 1 .. i)
  <2>1. Mass(w, q, i) = Total(v)
    BY <1>1 DEF Mass
  <2> QED
    BY <1>2, <2>1, TotalIs
<1>4. PICK D, U : D = 1 .. i /\ U = 1 .. n
  OBVIOUS
<1>5. Heaps(v, D) /\ Heaps(w, U)
  <2>1. IsFiniteSet(D) /\ IsFiniteSet(U)
    BY <1>4, FS_Interval
  <2>2. (\A x \in D : v[x] \in Nat) /\ \A x \in U : w[x] \in Nat
    BY <1>2, <1>4
  <2> QED
    BY <2>1, <2>2, HeapIs
<1>6. \A j \in 0 .. l : Firsts(q, j) \in SUBSET (1 .. n)
  BY DEF Firsts
<1> DEFINE Good == {j \in Nat : j <= i => Heap(v, 1 .. j) = Heap(w, Firsts(q, j))}
<1>7. 0 \in Good
  <2>1. 1 .. 0 = {} /\ Firsts(q, 0) = {}
    BY DEF Firsts
  <2> QED
    BY <1>5, <2>1 DEF Heaps
<1>8. ASSUME NEW j \in Nat, j \in Good, j + 1 <= i
      PROVE  Heap(v, 1 .. j + 1) = Heap(w, Firsts(q, j + 1))
  <2>1. Heap(v, 1 .. j) = Heap(w, Firsts(q, j))
    BY <1>8
  <2>2. j + 1 \in 1 .. i /\ j + 1 \in 0 .. l /\ j \in 0 .. l /\ j + 1 \in 1 .. l
    BY <1>8
  <2>3. PICK S, x : S = 1 .. j + 1 /\ x = j + 1 /\ x \in S /\ S \in SUBSET D /\ S \ {x} = 1 .. j
    BY <1>4, <2>2
  <2>4. Heap(v, S) = v[x] + Heap(v, S \ {x})
    BY <1>5, <2>3 DEF Heaps
  <2>5. PICK T, y : T = Firsts(q, j + 1) /\ y = q[j + 1]
    OBVIOUS
  <2>6. y \in T /\ T \in SUBSET U
    BY <1>4, <1>6, <2>2, <2>5 DEF Firsts
  <2>7. T \ {y} = Firsts(q, j)
    <3>1. \A a \in 1 .. j + 1 : a \in 1 .. l /\ (a \in 1 .. j \/ a = j + 1)
      BY <2>2
    <3>2. \A a \in 1 .. j : a \in 1 .. j + 1 /\ a \in 1 .. l /\ a # j + 1
      BY <2>2
    <3>3. T \ {y} \subseteq Firsts(q, j)
      BY <2>5, <3>1 DEF Firsts
    <3>4. \A a \in 1 .. j : q[a] # q[j + 1] /\ q[a] \in T
      BY <2>2, <2>5, <3>2 DEF Firsts
    <3>5. Firsts(q, j) \subseteq T \ {y}
      BY <2>5, <3>4 DEF Firsts
    <3> QED
      BY <3>3, <3>5
  <2>8. Heap(w, T) = w[y] + Heap(w, T \ {y})
    BY <1>5, <2>6 DEF Heaps
  <2>9. v[x] = w[y]
    BY <1>2, <2>2, <2>3, <2>5
  <2> QED
    BY <2>1, <2>3, <2>4, <2>5, <2>7, <2>8, <2>9
<1>9. i \in Good
  <2>1. \A j \in Nat : j \in Good => j + 1 \in Good
    BY <1>8
  <2>2. i \in Nat
    OBVIOUS
  <2> HIDE DEF Good
  <2> QED
    BY <1>7, <2>1, <2>2, NatInductionOn
<1> QED
  BY <1>3, <1>6, <1>9

(* Zero weights add nothing.                                                    *)
Ignores(f, S, g, T) == T \subseteq S /\ (\A x \in T : f[x] = g[x]) /\ \A x \in S \ T : f[x] = 0

LEMMA HeapIgnores ==
    ASSUME NEW S, NEW T, NEW f, NEW g, Ignores(f, S, g, T)
    PROVE  Heap(f, S) = Heap(g, T)
<1> USE DEF Ignores
<1>1. \A p : p \in Pile(f, S) <=> p \in Pile(g, T)
  <2>1. ASSUME NEW p \in Pile(f, S) PROVE p \in Pile(g, T)
    <3>1. p \in S \X Nat /\ p[2] >= 1 /\ p[2] <= f[p[1]]
      BY DEF Pile
    <3>2. p[1] \in S /\ p[2] \in Nat
      BY <3>1
    <3>3. p[1] \in T
      BY <3>1, <3>2
    <3>4. p \in T \X Nat
      BY <3>1, <3>3
    <3> QED
      BY <3>1, <3>3, <3>4 DEF Pile
  <2>2. ASSUME NEW p \in Pile(g, T) PROVE p \in Pile(f, S)
    <3>1. p \in T \X Nat /\ p[2] >= 1 /\ p[2] <= g[p[1]]
      BY DEF Pile
    <3>2. p[1] \in T
      BY <3>1
    <3>3. p \in S \X Nat
      BY <3>1
    <3> QED
      BY <3>1, <3>2, <3>3 DEF Pile
  <2> QED
    BY <2>1, <2>2
<1>2. Pile(f, S) = Pile(g, T)
  BY <1>1
<1> QED
  BY <1>2 DEF Heap

(* A token is only drawn if it has a probability.                               *)
LEMMA DrawnIs ==
    ASSUME NEW n \in Nat, NEW w \in Seq(Nat), Len(w) = n, \E t \in 1 .. n : w[t] # 0,
           NEW r \in Nat
    PROVE  sample_from(w, r) \in 1 .. n /\ w[sample_from(w, r)] # 0
<1> DEFINE q == [i \in 1 .. n |-> i]
           hit == {t \in 1 .. n : r < Mass(w, q, t)}
           live == {t \in 1 .. n : w[t] > 0}
<1>1. sample_from(w, r) = IF hit # {} THEN CHOOSE t \in hit : \A u \in hit : t <= u
                          ELSE CHOOSE t \in live : \A u \in live : t >= u
  BY DEF sample_from
<1>2. \A i \in 0 .. n : Mass(w, q, i) = Heap(w, 1 .. i)
  <2>1. OrderOf(q, n, n)
    BY DEF OrderOf
  <2>2. ASSUME NEW i \in 0 .. n PROVE Firsts(q, i) = 1 .. i
    <3>1. \A j \in 1 .. i : q[j] = j
      OBVIOUS
    <3> HIDE DEF q
    <3> QED
      BY <3>1 DEF Firsts
  <2> HIDE DEF q
  <2> QED
    BY <2>1, <2>2, MassIs
<1>3. \A t \in 1 .. n : w[t] \in Nat
  OBVIOUS
<1> HIDE DEF q
<1>4. CASE hit # {}
  <2>1. PICK t \in hit : \A u \in hit : t <= u
    <3>1. hit \in SUBSET Nat
      OBVIOUS
    <3> HIDE DEF hit
    <3> QED
      BY <1>4, <3>1, LeastOf
  <2>2. t \in 1 .. n /\ r < Mass(w, q, t)
    OBVIOUS
  <2>3. sample_from(w, r) = t
    <3>1. PICK c : c = CHOOSE t_1 \in hit : \A u \in hit : t_1 <= u
      OBVIOUS
    <3>2. c \in hit /\ \A u \in hit : c <= u
      <4> HIDE DEF hit
      <4> QED
        BY <2>1, <3>1
    <3>3. c \in 1 .. n /\ c <= t /\ t <= c
      BY <2>1, <3>2
    <3>4. c = t
      BY <2>2, <3>3
    <3> HIDE DEF hit
    <3> QED
      BY <1>1, <1>4, <3>1, <3>4
  <2>4. w[t] # 0
    <3>1. SUFFICES ASSUME w[t] = 0 PROVE FALSE
      OBVIOUS
    <3>2. PICK U, S : U = 1 .. n /\ S = 1 .. t
      OBVIOUS
    <3>3. Heaps(w, U)
      <4>1. IsFiniteSet(U)
        BY <3>2, FS_Interval
      <4>2. \A x \in U : w[x] \in Nat
        BY <1>3, <3>2
      <4> QED
        BY <4>1, <4>2, HeapIs
    <3>4. S \in SUBSET U /\ t \in S /\ S \ {t} = 1 .. t - 1
      BY <2>2, <3>2
    <3>5. Heap(w, S) = w[t] + Heap(w, S \ {t}) /\ Heap(w, S \ {t}) \in Nat
      BY <3>3, <3>4 DEF Heaps
    <3>6. Heap(w, 1 .. t) = Heap(w, 1 .. t - 1)
      <4>1. Heap(w, S) = Heap(w, S \ {t})
        BY <3>1, <3>5
      <4> QED
        BY <3>2, <3>4, <4>1
    <3>7. Mass(w, q, t) = Heap(w, 1 .. t)
      BY <1>2, <2>2
    <3>8. CASE t = 1
      <4>1. 1 .. t - 1 = {}
        BY <3>8
      <4>2. Heap(w, 1 .. t - 1) = 0
        BY <3>3, <4>1 DEF Heaps
      <4> QED
        BY <2>2, <3>6, <3>7, <4>2
    <3>9. CASE t # 1
      <4>1. t - 1 \in 1 .. n /\ t - 1 \in 0 .. n /\ ~(t <= t - 1)
        BY <2>2, <3>9
      <4>2. r < Mass(w, q, t - 1)
        BY <1>2, <2>2, <3>6, <3>7, <4>1
      <4>3. t - 1 \in hit
        BY <4>1, <4>2
      <4> QED
        BY <2>1, <4>1, <4>3
    <3> QED
      BY <3>8, <3>9
  <2> QED
    BY <2>2, <2>3, <2>4
<1>5. CASE hit = {}
  <2>1. \E t \in live : \A u \in live : t >= u
    <3>1. live \in SUBSET (1 .. n) /\ live # {}
      BY <1>3
    <3> DEFINE Up == {n - t : t \in live}
    <3>2. Up \in SUBSET Nat /\ Up # {}
      BY <3>1
    <3>3. PICK y \in Up : \A z \in Up : y <= z
      <4> HIDE DEF Up
      <4> QED
        BY <3>2, LeastOf
    <3>4. PICK t \in live : y = n - t
      OBVIOUS
    <3>5. \A u \in live : n - t <= n - u
      BY <3>3, <3>4
    <3>6. \A u \in live : t >= u
      <4>1. \A u \in live : u \in Nat
        OBVIOUS
      <4> HIDE DEF live
      <4> QED
        BY <3>4, <3>5, <4>1
    <3> QED
      BY <3>4, <3>6
  <2>2. sample_from(w, r) \in live
    <3> HIDE DEF live
    <3> QED
      BY <1>1, <1>5, <2>1
  <2> QED
    BY <1>3, <2>2
<1> QED
  BY <1>4, <1>5

(* The likeliest token is among the top k, and the tokens likelier than one of  *)
(* the top k are too.                                                           *)
Pyramid(s, A, n) ==
    /\ A \in SUBSET (1 .. n) /\ \E t \in A : s[t] = Largest(s)
    /\ \A t \in A : Beat(s, s[t]) \subseteq A /\ t \notin Beat(s, s[t])

LEMMA PyramidIs ==
    ASSUME NEW n \in Nat, NEW s, Row(s, n), Sane(s), NEW k \in Nat
    PROVE  Pyramid(s, Tops(s, k), n)
<1>1. Len(s) = n /\ \A i \in 1 .. n : s[i] \in Int /\ s[i] <= Largest(s)
  <2>1. \A x \in Numbers : x \in Int
    BY FloatAssumption DEF Numbers, Inf
  <2> QED
    BY <2>1, LargestIs DEF Row
<1>2. Tops(s, k) \in SUBSET (1 .. n)
  BY <1>1 DEF Tops
<1>3. PICK top \in 1 .. n : s[top] = Largest(s)
  <2>1. Largest(s) # -Inf
    BY FloatAssumption DEF Sane, Inf
  <2> QED
    BY <2>1, LargestIs
<1>4. top \in Tops(s, k)
  <2>1. Beat(s, s[top]) = {}
    BY <1>1, <1>3 DEF Beat
  <2>2. Cardinality({}) = 0
    BY FS_EmptySet
  <2> QED
    BY <1>1, <2>1, <2>2 DEF Tops
<1>5. ASSUME NEW t \in Tops(s, k), NEW u \in Beat(s, s[t]) PROVE u \in Tops(s, k)
  <2>1. t \in 1 .. n /\ u \in 1 .. n /\ s[u] > s[t] /\ s[u] \in Int /\ s[t] \in Int
    BY <1>1, <1>2 DEF Beat
  <2>2. Beat(s, s[u]) \subseteq Beat(s, s[t]) /\ Beat(s, s[t]) \in SUBSET (1 .. n)
    BY <1>1, <2>1 DEF Beat
  <2>3. /\ Cardinality(Beat(s, s[u])) <= Cardinality(Beat(s, s[t]))
        /\ Cardinality(Beat(s, s[u])) \in Nat /\ Cardinality(Beat(s, s[t])) \in Nat
    BY <2>2, CountedIs
  <2>4. k = 0 \/ Cardinality(Beat(s, s[t])) < k
    BY DEF Tops
  <2> QED
    BY <1>1, <2>1, <2>3, <2>4 DEF Tops
<1>6. \A t \in Tops(s, k) : t \notin Beat(s, s[t])
  BY <1>1, <1>2 DEF Beat
<1> QED
  BY <1>2, <1>3, <1>4, <1>5, <1>6 DEF Pyramid

(* The tokens still to draw from, in the order they are sorted into.            *)
LEMMA LiveIs ==
    ASSUME NEW n \in Nat, NEW s, Row(s, n), Sane(s), NEW y, Row(y, n),
           NEW A, Keeps(y, s, A), Pyramid(s, A, n)
    PROVE  Live(y) = {t \in A : Weights(s)[t] # 0}
<1>1. PICK W : W = Weights(s) /\ Fall(s, W, n)
  BY WeightsFall
<1>2. PICK w : w = softmax(y)
  OBVIOUS
<1>3. /\ Len(s) = n /\ Len(y) = n /\ \A t \in 1 .. n : w[t] = IF t \in A THEN W[t] ELSE 0
      /\ A \in SUBSET (1 .. n)
  <2>1. \E t \in 1 .. n : t \in A /\ s[t] = Largest(s)
    BY DEF Pyramid
  <2> QED
    BY <1>1, <1>2, <2>1, SoftmaxIs DEF Pyramid, Row
<1>4. \A t \in 1 .. n : W[t] \in Nat /\ (W[t] # 0 => s[t] > Masked)
  BY <1>1 DEF Fall
<1>5. \A t \in A : y[t] = s[t]
  BY <1>3 DEF Keeps
<1>6. Live(y) = {t \in 1 .. n : w[t] > 0 /\ y[t] > Masked}
  BY <1>2, <1>3 DEF Live
<1>7. ASSUME NEW t \in 1 .. n, w[t] > 0 PROVE t \in A /\ W[t] # 0
  BY <1>3, <1>4, <1>7
<1>8. ASSUME NEW t \in A, W[t] # 0 PROVE t \in 1 .. n /\ w[t] > 0 /\ y[t] > Masked
  BY <1>3, <1>4, <1>5, <1>8
<1> QED
  BY <1>1, <1>6, <1>7, <1>8

SortedBy(q, w, l) == \A i, j \in 1 .. l : i < j => w[q[i]] >= w[q[j]]

LEMMA SortedIs ==
    ASSUME NEW n \in Nat, NEW y, Live(y) \in SUBSET (1 .. n), NEW q \in Sorted(y)
    PROVE  \E l \in Nat : /\ Len(q) = l /\ OrderOf(q, l, n) /\ Firsts(q, l) = Live(y)
                          /\ ToSet(q) = Live(y) /\ SortedBy(q, softmax(y), l)
<1>1. PICK L : L = Live(y) /\ L \in SUBSET (1 .. n)
  OBVIOUS
<1>2. IsFiniteSet(L)
  BY <1>1, CountedIs
<1>3. PICK l \in Nat : l = Cardinality(L)
  BY <1>2, FS_CardinalityType
<1>4. q \in [1 .. l -> L] /\ \A i, j \in 1 .. l : i # j => q[i] # q[j]
  BY <1>1, <1>3 DEF Sorted, SetToSeqs
<1>5. Len(q) = l /\ DOMAIN q = 1 .. l
  BY <1>4
<1>6. SortedBy(q, softmax(y), l)
  BY <1>5 DEF Sorted, SortedBy
<1>7. OrderOf(q, l, n)
  BY <1>1, <1>4 DEF OrderOf
<1>8. q \in Surjection(1 .. l, L)
  <2>1. PICK D : D = 1 .. l
    OBVIOUS
  <2>2. q \in Injection(D, L)
    BY <1>4, <2>1 DEF Injection, IsInjective
  <2>3. Cardinality(D) = Cardinality(L)
    BY <1>3, <2>1, FS_Interval
  <2> QED
    BY <1>2, <2>1, <2>2, <2>3, FS_Injection
<1>9. \A t \in L : \E i \in 1 .. l : q[i] = t
  BY <1>8 DEF Surjection
<1>10. Firsts(q, l) = L /\ ToSet(q) = L
  BY <1>4, <1>5, <1>9 DEF Firsts, ToSet
<1> QED
  BY <1>1, <1>5, <1>6, <1>7, <1>10

(* What a nucleus keeps: the likeliest token, at least p of the mass of the     *)
(* tokens before it, and no token that those likelier than it make dispensable. *)
NucleusOf(s, W, A, p, K) ==
    /\ K \subseteq A /\ \E t \in K : s[t] = Largest(s)
    /\ Heap(W, K) * p[2] >= p[1] * Heap(W, A)
    /\ \A t \in K : W[t] # 0 /\ Beat(s, s[t]) # {} => Heap(W, Beat(s, s[t])) * p[2] < p[1] * Heap(W, A)

Nucleus(z, s, A, p) == \E K : Keeps(z, s, K) /\ NucleusOf(s, Weights(s), A, p, K)

LEMMA WholeNucleus ==
    ASSUME NEW n \in Nat, NEW s, Row(s, n), Sane(s), NEW A, Pyramid(s, A, n)
    PROVE  NucleusOf(s, Weights(s), A, One, A)
<1>1. PICK W : W = Weights(s) /\ Fall(s, W, n)
  BY WeightsFall
<1>2. PICK U : U = 1 .. n
  OBVIOUS
<1>3. Heaps(W, U) /\ A \in SUBSET U /\ \A t \in U : W[t] \in Nat
  <2>1. IsFiniteSet(U)
    BY <1>2, FS_Interval
  <2>2. \A t \in U : W[t] \in Nat
    BY <1>1, <1>2 DEF Fall
  <2> QED
    BY <1>2, <2>1, <2>2, HeapIs DEF Pyramid
<1>4. One[1] = 1 /\ One[2] = 1
  BY DEF One
<1>5. ASSUME NEW t \in A, W[t] # 0 PROVE Heap(W, Beat(s, s[t])) < Heap(W, A)
  <2>1. Beat(s, s[t]) \in SUBSET (A \ {t}) /\ A \ {t} \in SUBSET U
    BY <1>3 DEF Pyramid
  <2>2. Heap(W, Beat(s, s[t])) <= Heap(W, A \ {t}) /\ Heap(W, A \ {t}) \in Nat
    BY <1>3, <2>1 DEF Heaps
  <2>3. Heap(W, A) = W[t] + Heap(W, A \ {t}) /\ W[t] \in Nat
    BY <1>3 DEF Heaps
  <2>4. Heap(W, Beat(s, s[t])) \in Nat
    BY <1>3, <2>1 DEF Heaps
  <2> QED
    BY <1>5, <2>2, <2>3, <2>4
<1>6. Heap(W, A) \in Nat /\ \A t \in A : Heap(W, Beat(s, s[t])) \in Nat
  <2>1. \A t \in A : Beat(s, s[t]) \in SUBSET U
    BY <1>3 DEF Pyramid
  <2> QED
    BY <1>3, <2>1 DEF Heaps
<1>7. Heap(W, A) * One[2] >= One[1] * Heap(W, A)
  BY <1>4, <1>6
<1>8. ASSUME NEW t \in A, W[t] # 0
      PROVE  Heap(W, Beat(s, s[t])) * One[2] < One[1] * Heap(W, A)
  BY <1>4, <1>5, <1>6, <1>8
<1>9. \E t \in A : s[t] = Largest(s)
  BY DEF Pyramid
<1> QED
  BY <1>1, <1>7, <1>8, <1>9 DEF NucleusOf

(* Where the sorted weights cross p: after the cutoff there is enough, and      *)
(* nowhere before it.                                                           *)
Crosses(H, l, p, c) ==
    /\ c \in 1 .. l /\ H[c] * p[2] >= p[1] * H[l]
    /\ \A i \in 1 .. l : i < c => H[i] * p[2] < p[1] * H[l]

LEMMA CutoffIs ==
    ASSUME NEW l \in Nat \ {0}, NEW H, \A i \in 1 .. l : H[i] \in Nat,
           NEW w, NEW q, Len(q) = l, \A i \in 1 .. l : Mass(w, q, i) = H[i], Total(w) = H[l],
           NEW p \in Factors, p[1] <= p[2]
    PROVE  Crosses(H, l, p, cutoff(w, q, p))
<1>1. PICK a \in Nat, b \in Nat, T \in Nat : a = p[1] /\ b = p[2] /\ a <= b /\ T = H[l]
  BY DEF Factors
<1> DEFINE crossing == {i \in 1 .. l : H[i] * b >= a * T}
<1>2. cutoff(w, q, p) = IF crossing = {} THEN l
                        ELSE CHOOSE i \in crossing : \A m \in crossing : i <= m
  <2> DEFINE raw == {i \in 1 .. Len(q) : Mass(w, q, i) * p[2] >= p[1] * Total(w)}
  <2>1. cutoff(w, q, p) = IF raw = {} THEN Len(q)
                          ELSE CHOOSE i \in raw : \A m \in raw : i <= m
    BY DEF cutoff
  <2>2. raw = crossing
    BY <1>1
  <2> HIDE DEF raw, crossing
  <2> QED
    BY <2>1, <2>2
<1>3. crossing # {}
  <2>1. T * b >= a * T
    BY <1>1, Z3
  <2>2. H[l] * b >= a * T /\ l \in 1 .. l
    BY <1>1, <2>1
  <2> QED
    BY <2>2
<1>4. \E i \in crossing : \A m \in crossing : i <= m
  <2>1. crossing \in SUBSET Nat
    OBVIOUS
  <2> HIDE DEF crossing
  <2> QED
    BY <1>3, <2>1, LeastOf
<1>5. PICK c \in crossing : c = cutoff(w, q, p) /\ \A m \in crossing : c <= m
  <2> HIDE DEF crossing
  <2> QED
    BY <1>2, <1>3, <1>4
<1>6. c \in 1 .. l /\ H[c] * b >= a * T
  OBVIOUS
<1>7. ASSUME NEW i \in 1 .. l, i < c PROVE H[i] * b < a * T
  <2>1. i \notin crossing
    <3> HIDE DEF crossing
    <3> QED
      BY <1>5, <1>6, <1>7
  <2>2. H[i] \in Nat
    OBVIOUS
  <2>3. H[i] * b \in Nat /\ a * T \in Nat
    BY <2>2
  <2> QED
    BY <2>1, <2>3
<1> QED
  BY <1>1, <1>5, <1>6, <1>7 DEF Crosses

(* The sorted prefix that apply_top_p keeps is a nucleus.                       *)
LEMMA TopPNucleus ==
    ASSUME NEW n \in Nat, NEW s, Row(s, n), Sane(s), NEW y, Row(y, n),
           NEW A, Keeps(y, s, A), Pyramid(s, A, n),
           NEW p \in Factors, p[1] <= p[2], NEW q \in Sorted(y)
    PROVE  Nucleus(apply_top_p(y, p, q), s, A, p)
<1>1. PICK W : W = Weights(s) /\ Fall(s, W, n)
  BY WeightsFall
<1>2. PICK w, L, U : w = softmax(y) /\ L = Live(y) /\ U = 1 .. n
  OBVIOUS
<1>3. /\ Len(s) = n /\ Len(y) = n /\ A \in SUBSET U
      /\ w \in Seq(Nat) /\ Len(w) = n /\ \A t \in 1 .. n : w[t] = IF t \in A THEN W[t] ELSE 0
  <2>1. \E t \in 1 .. n : t \in A /\ s[t] = Largest(s)
    BY DEF Pyramid
  <2> QED
    BY <1>1, <1>2, <2>1, SoftmaxIs DEF Pyramid, Row
<1>4. L = {t \in A : W[t] # 0}
  BY <1>1, <1>2, LiveIs
<1>5. /\ \A t \in 1 .. n : /\ W[t] \in Nat /\ w[t] \in Nat /\ s[t] \in Int /\ s[t] <= Largest(s)
                           /\ s[t] = Largest(s) => W[t] # 0
      /\ \A t, u \in 1 .. n : s[u] > s[t] => W[t] < W[u] \/ W[t] = 0
      /\ Largest(s) \in Int
  <2>1. \A x \in Numbers : x \in Int
    BY FloatAssumption DEF Numbers, Inf
  <2>2. \A t \in 1 .. n : s[t] \in Int /\ s[t] <= Largest(s)
    BY <2>1, LargestIs
  <2>3. Largest(s) \in Int
    BY <2>1, LargestIs
  <2>4. \A t \in 1 .. n : w[t] \in Nat
    BY <1>3
  <2> QED
    BY <1>1, <2>2, <2>3, <2>4 DEF Fall
<1>6. L \in SUBSET (1 .. n) /\ \A t \in L : w[t] = W[t] /\ W[t] # 0 /\ t \in A
  BY <1>2, <1>3, <1>4
<1>7. PICK l \in Nat : /\ Len(q) = l /\ OrderOf(q, l, n) /\ Firsts(q, l) = L
                       /\ ToSet(q) = L /\ SortedBy(q, w, l)
  BY <1>2, <1>6, SortedIs
<1>8. /\ Heaps(W, U) /\ Heaps(w, U)
      /\ \A S \in SUBSET A : Heap(w, S) = Heap(W, S) /\ Heap(W, S) \in Nat
      /\ Heap(w, U) = Heap(W, A) /\ Heap(w, L) = Heap(W, A)
  <2>1. IsFiniteSet(U)
    BY <1>2, FS_Interval
  <2>2. Heaps(W, U) /\ Heaps(w, U)
    BY <1>2, <1>5, <2>1, HeapIs
  <2>3. ASSUME NEW S \in SUBSET A PROVE Heap(w, S) = Heap(W, S) /\ Heap(W, S) \in Nat
    <3>1. (\A x \in S : w[x] = W[x]) /\ S \in SUBSET U
      BY <1>2, <1>3
    <3>2. \A x \in S \ S : w[x] = 0
      OBVIOUS
    <3> QED
      BY <2>2, <3>1, <3>2, HeapIgnores DEF Heaps, Ignores
  <2>4. Heap(w, U) = Heap(W, A)
    <3>1. (\A x \in A : w[x] = W[x]) /\ (\A x \in U \ A : w[x] = 0) /\ A \subseteq U
      BY <1>2, <1>3
    <3> QED
      BY <3>1, HeapIgnores DEF Ignores
  <2>5. Heap(W, A) = Heap(w, L)
    <3>1. (\A x \in L : W[x] = w[x]) /\ (\A x \in A \ L : W[x] = 0) /\ L \subseteq A
      BY <1>4, <1>6
    <3> QED
      BY <3>1, HeapIgnores DEF Ignores
  <2> QED
    BY <2>2, <2>3, <2>4, <2>5
<1>9. PICK H : H = [i \in 1 .. l |-> Mass(w, q, i)]
  OBVIOUS
<1>10. ASSUME NEW i \in 1 .. l PROVE H[i] = Heap(W, Firsts(q, i)) /\ Firsts(q, i) \in SUBSET L
  <2>1. i \in 0 .. l
    OBVIOUS
  <2>2. Mass(w, q, i) = Heap(w, Firsts(q, i))
    BY <1>3, <1>7, <2>1, MassIs
  <2>3. Firsts(q, i) \in SUBSET L
    <3>1. Firsts(q, i) \in SUBSET Firsts(q, l)
      BY DEF Firsts
    <3> QED
      BY <1>7, <3>1
  <2> QED
    BY <1>6, <1>8, <1>9, <2>2, <2>3
<1>11. PICK t0 \in L : s[t0] = Largest(s)
  <2>1. PICK t \in A : s[t] = Largest(s)
    BY DEF Pyramid
  <2>2. t \in 1 .. n
    BY <1>2, <1>3
  <2> QED
    BY <1>4, <1>5, <2>1, <2>2
<1>12. PICK j0 \in 1 .. l : q[j0] = t0
  BY <1>7 DEF Firsts
<1>13. PICK c : c = cutoff(w, q, p) /\ Crosses(H, l, p, c)
  <2>1. l \in Nat \ {0}
    BY <1>12
  <2>2. \A i \in 1 .. l : H[i] \in Nat /\ Mass(w, q, i) = H[i]
    <3>1. ASSUME NEW i \in 1 .. l PROVE H[i] \in Nat
      <4>1. Firsts(q, i) \in SUBSET A
        BY <1>6, <1>10
      <4> QED
        BY <1>8, <1>10, <4>1
    <3> QED
      BY <1>9, <3>1
  <2>3. Total(w) = H[l]
    <3>1. Total(w) = Heap(w, U)
      BY <1>2, <1>3, TotalIs
    <3>2. l \in 0 .. l /\ l \in 1 .. l
      BY <2>1
    <3>3. Mass(w, q, l) = Heap(w, L)
      BY <1>3, <1>7, <3>2, MassIs
    <3> QED
      BY <1>8, <1>9, <3>1, <3>2, <3>3
  <2> QED
    BY <1>7, <2>1, <2>2, <2>3, CutoffIs
<1>14. H[l] = Heap(W, A) /\ l \in 1 .. l
  <2>1. l \in 1 .. l
    BY <1>12
  <2>2. H[l] = Heap(W, L) /\ L \in SUBSET A
    BY <1>6, <1>7, <1>10, <2>1
  <2> QED
    BY <1>8, <2>1, <2>2
<1>15. c \in 1 .. l /\ 1 \in 1 .. l
  BY <1>12, <1>13 DEF Crosses
<1> DEFINE kept == Firsts(q, c)
           K == A \ (L \ kept)
<1>16. kept \in SUBSET L /\ kept \in SUBSET K /\ K \in SUBSET A
  BY <1>6, <1>10, <1>15
<1>17. Keeps(apply_top_p(y, p, q), s, K)
  <2>1. PICK z : z = apply_top_p(y, p, q)
    OBVIOUS
  <2>2. z = [t \in 1 .. n |-> IF t \in L \ kept THEN Masked ELSE y[t]]
    BY <1>2, <1>3, <1>7, <1>13, <2>1 DEF apply_top_p, Firsts
  <2>3. \A t \in 1 .. n : y[t] = IF t \in A THEN s[t] ELSE Masked
    BY <1>3 DEF Keeps
  <2> HIDE DEF kept
  <2>4. \A t \in 1 .. n : z[t] = IF t \in K THEN s[t] ELSE Masked
    BY <1>6, <2>2, <2>3
  <2> HIDE DEF K
  <2> QED
    BY <1>3, <2>1, <2>4 DEF Keeps
<1>18. \E t \in K : s[t] = Largest(s)
  <2>1. CASE t0 \in kept
    BY <1>11, <1>16, <2>1
  <2>2. CASE t0 \notin kept
    <3>1. PICK u : u = q[1] /\ u \in kept /\ u \in L
      BY <1>15, <1>16 DEF Firsts
    <3>2. 1 < j0
      <4>1. j0 # 1
        BY <1>12, <2>2, <3>1
      <4> QED
        BY <4>1
    <3>3. w[u] >= w[t0]
      BY <1>7, <1>12, <1>15, <3>1, <3>2 DEF SortedBy
    <3>4. W[u] >= W[t0] /\ W[u] # 0 /\ u \in 1 .. n /\ t0 \in 1 .. n
      BY <1>6, <3>1, <3>3
    <3>5. ~(s[t0] > s[u])
      BY <1>5, <3>4
    <3>6. s[u] = Largest(s)
      BY <1>5, <1>11, <3>4, <3>5
    <3> QED
      BY <1>16, <3>1, <3>6
  <2> QED
    BY <2>1, <2>2
<1>19. Heap(W, K) * p[2] >= p[1] * Heap(W, A)
  <2>1. PICK a \in Nat, b \in Nat : a = p[1] /\ b = p[2]
    BY DEF Factors
  <2>2. PICK M : M = Heap(W, kept) /\ M * b >= a * Heap(W, A)
    BY <1>10, <1>13, <1>14, <1>15, <2>1 DEF Crosses
  <2>3. PICK G \in Nat, T \in Nat : G = Heap(W, K) /\ T = Heap(W, A)
    BY <1>8, <1>16
  <2>4. M \in Nat /\ M <= G
    <3>1. K \in SUBSET U /\ kept \in SUBSET K /\ kept \in SUBSET U
      BY <1>3, <1>16
    <3> HIDE DEF kept, K
    <3> QED
      BY <1>8, <2>2, <2>3, <3>1 DEF Heaps
  <2>5. G * b >= M * b
    BY <2>4, Z3
  <2>6. G * b \in Nat /\ M * b \in Nat /\ a * T \in Nat
    BY <2>4
  <2>7. M * b >= a * T
    BY <2>2, <2>3
  <2>8. G * b >= a * T
    BY <2>5, <2>6, <2>7
  <2> QED
    BY <2>1, <2>3, <2>8
<1>20. ASSUME NEW t \in K, W[t] # 0, Beat(s, s[t]) # {}
       PROVE  Heap(W, Beat(s, s[t])) * p[2] < p[1] * Heap(W, A)
  <2>1. t \in L /\ t \in kept
    BY <1>4, <1>16, <1>20
  <2>2. PICK j \in 1 .. c : t = q[j]
    BY <2>1 DEF Firsts
  <2>3. PICK R : R = Beat(s, s[t]) /\ R \in SUBSET A /\ R # {}
    BY <1>16, <1>20 DEF Pyramid
  <2>4. ASSUME NEW u \in R PROVE \E i \in 1 .. l : i < j /\ u = q[i]
    <3>1. u \in 1 .. n /\ t \in 1 .. n /\ s[u] > s[t] /\ u \in A
      BY <1>3, <1>6, <2>1, <2>3 DEF Beat
    <3>2. W[t] < W[u]
      BY <1>5, <1>20, <3>1
    <3>3. u \in L
      BY <1>4, <1>5, <3>1, <3>2
    <3>4. PICK i \in 1 .. l : u = q[i]
      BY <1>7, <3>3 DEF Firsts
    <3>5. w[u] = W[u] /\ w[t] = W[t] /\ W[u] \in Int /\ W[t] \in Int
      BY <1>5, <1>6, <2>1, <3>1, <3>3
    <3>6. i # j
      BY <2>2, <3>2, <3>4, <3>5
    <3>7. ~(j < i)
      <4>1. SUFFICES ASSUME j < i PROVE FALSE
        OBVIOUS
      <4>2. j \in 1 .. l
        BY <1>15
      <4>3. w[t] >= w[u]
        BY <1>7, <2>2, <3>4, <4>1, <4>2 DEF SortedBy
      <4> QED
        BY <3>2, <3>5, <4>3
    <3> QED
      BY <3>4, <3>6, <3>7
  <2>5. PICK d : d = j - 1 /\ d \in 1 .. l /\ d < c
    <3>1. PICK i \in 1 .. l : i < j
      BY <2>3, <2>4
    <3> QED
      BY <1>15, <3>1
  <2>6. R \in SUBSET Firsts(q, d)
    <3>1. \A i \in 1 .. l : i < j => i \in 1 .. d
      BY <2>5
    <3> QED
      BY <2>4, <3>1 DEF Firsts
  <2>7. PICK a \in Nat, b \in Nat, T \in Nat : a = p[1] /\ b = p[2] /\ T = Heap(W, A)
    BY <1>8 DEF Factors
  <2>8. PICK F : F = Firsts(q, d) /\ F \in SUBSET A /\ F \in SUBSET U /\ Heap(W, F) = H[d]
    <3>1. Firsts(q, d) \in SUBSET L /\ Heap(W, Firsts(q, d)) = H[d]
      BY <1>10, <2>5
    <3>2. \A S \in SUBSET L : S \in SUBSET A /\ S \in SUBSET U
      BY <1>3, <1>6
    <3> QED
      BY <3>1, <3>2
  <2>9. PICK M \in Nat, G \in Nat : M = Heap(W, R) /\ G = Heap(W, F) /\ M <= G
    <3>1. R \in SUBSET F
      BY <2>6, <2>8
    <3> QED
      BY <1>8, <2>3, <2>8, <3>1 DEF Heaps
  <2>10. G * b < a * T
    BY <1>13, <1>14, <2>5, <2>7, <2>8, <2>9 DEF Crosses
  <2>11. M * b <= G * b
    BY <2>9, Z3
  <2>12. M * b \in Nat /\ G * b \in Nat /\ a * T \in Nat
    BY <2>9
  <2>13. M * b < a * T
    BY <2>10, <2>11, <2>12
  <2> QED
    BY <2>3, <2>7, <2>9, <2>13
<1> HIDE DEF K
<1>21. NucleusOf(s, W, A, p, K)
  BY <1>16, <1>18, <1>19, <1>20 DEF NucleusOf
<1> QED
  BY <1>1, <1>17, <1>21 DEF Nucleus

(* A row ready to draw from has nothing but the nucleus left.                   *)
LEMMA DrawnFromNucleus ==
    ASSUME NEW n \in Nat, NEW s, Row(s, n), Sane(s), NEW z, Row(z, n), NEW A,
           A \in SUBSET (1 .. n), NEW p, Nucleus(z, s, A, p),
           NEW r \in 0 .. Total(softmax(z)), NEW t, t = sample_from(softmax(z), r)
    PROVE  /\ t \in A /\ Weights(s)[t] # 0
           /\ Beat(s, s[t]) # {} => Heap(Weights(s), Beat(s, s[t])) * p[2] < p[1] * Heap(Weights(s), A)
<1>1. PICK W : W = Weights(s) /\ Fall(s, W, n)
  BY WeightsFall
<1>2. PICK K : Keeps(z, s, K) /\ NucleusOf(s, W, A, p, K)
  BY <1>1 DEF Nucleus
<1>3. PICK top \in K : top \in 1 .. n /\ s[top] = Largest(s)
  BY <1>2 DEF NucleusOf
<1>4. PICK w : w = softmax(z)
  OBVIOUS
<1>5. w \in Seq(Nat) /\ Len(w) = n /\ \A u \in 1 .. n : w[u] = IF u \in K THEN W[u] ELSE 0
  BY <1>1, <1>2, <1>3, <1>4, SoftmaxIs
<1>6. w[top] # 0
  BY <1>1, <1>3, <1>5 DEF Fall
<1>7. r \in Nat
  <2>1. Total(w) = Heap(w, 1 .. n)
    BY <1>5, TotalIs
  <2>2. PICK U : U = 1 .. n
    OBVIOUS
  <2>3. IsFiniteSet(U) /\ \A u \in U : w[u] \in Nat
    <3>1. \A u \in 1 .. n : w[u] \in Nat
      BY <1>5
    <3> QED
      BY <2>2, <3>1, FS_Interval
  <2>4. Heap(w, U) \in Nat
    BY <2>3, HeapIs DEF Heaps
  <2> QED
    BY <1>4, <2>1, <2>2, <2>4
<1>8. t \in 1 .. n /\ w[t] # 0
  BY <1>3, <1>4, <1>5, <1>6, <1>7, DrawnIs
<1>9. t \in K /\ W[t] # 0
  BY <1>5, <1>8
<1> QED
  BY <1>1, <1>2, <1>9 DEF NucleusOf

(* What is left above the sentinel weighs as much as the nucleus.               *)
LEMMA LeftWeighs ==
    ASSUME NEW n \in Nat, NEW s, Row(s, n), Sane(s), NEW z, Row(z, n), NEW A,
           A \in SUBSET (1 .. n), NEW p, Nucleus(z, s, A, p),
           NEW left, left = {t \in 1 .. n : z[t] > Masked}
    PROVE  /\ Heap(Weights(s), left) > 0
           /\ Heap(Weights(s), left) * p[2] >= p[1] * Heap(Weights(s), A)
<1>1. PICK W : W = Weights(s) /\ Fall(s, W, n)
  BY WeightsFall
<1>2. PICK K : Keeps(z, s, K) /\ NucleusOf(s, W, A, p, K)
  BY <1>1 DEF Nucleus
<1>3. PICK top \in K : top \in 1 .. n /\ s[top] = Largest(s)
  BY <1>2 DEF NucleusOf
<1>4. PICK U : U = 1 .. n
  OBVIOUS
<1>5. Heaps(W, U) /\ K \in SUBSET U /\ \A t \in U : W[t] \in Nat
  <2>1. IsFiniteSet(U)
    BY <1>4, FS_Interval
  <2>2. \A t \in U : W[t] \in Nat
    BY <1>1, <1>4 DEF Fall
  <2> QED
    BY <1>2, <1>4, <2>1, <2>2, HeapIs DEF NucleusOf
<1>6. \A t \in U : z[t] = IF t \in K THEN s[t] ELSE Masked
  BY <1>2, <1>4 DEF Keeps, Row
<1>7. \A t \in U : W[t] # 0 => s[t] > Masked
  BY <1>1, <1>4 DEF Fall
<1>8. left \subseteq K
  <2>1. ~(Masked > Masked)
    BY FloatAssumption
  <2> QED
    BY <1>4, <1>6, <2>1
<1>9. \A t \in K \ left : W[t] = 0
  BY <1>4, <1>5, <1>6, <1>7
<1>10. Heap(W, K) = Heap(W, left)
  <2>1. PICK V : V = W
    OBVIOUS
  <2>2. Ignores(W, K, V, left)
    BY <1>8, <1>9, <2>1 DEF Ignores
  <2>3. Heap(W, K) = Heap(V, left)
    BY <2>2, HeapIgnores
  <2> QED
    BY <2>1, <2>3
<1>11. Heap(W, K) > 0
  <2>1. W[top] # 0
    BY <1>1, <1>3 DEF Fall
  <2>2. K \ {top} \in SUBSET U
    BY <1>5
  <2>3. Heap(W, K) = W[top] + Heap(W, K \ {top}) /\ Heap(W, K \ {top}) \in Nat /\ W[top] \in Nat
    BY <1>5, <2>2 DEF Heaps
  <2> QED
    BY <2>1, <2>3
<1> QED
  BY <1>1, <1>2, <1>10, <1>11 DEF NucleusOf

(* The rows of a job that samples, and what is ready to draw from.              *)
PenalisedOf(j) == apply_repetition_penalty(j.logits, j.previous, j.params.repetition_penalty)
TemperedOf(j) == apply_temperature(PenalisedOf(j), j.params.temperature)

SampleParams(j) ==
    /\ j.kind = "sample" /\ Len(j.logits) \in Nat /\ Row(j.logits, Len(j.logits))
    /\ j.params.top_p \in Factors /\ j.params.top_p[1] <= j.params.top_p[2]
    /\ j.params.repetition_penalty \in Factors /\ j.params.top_k \in Nat

LEMMA RowsOfJob ==
    ASSUME NEW j \in SampleJobs
    PROVE  /\ SampleParams(j) /\ Row(PenalisedOf(j), Len(j.logits))
           /\ RowPenalised(PenalisedOf(j), j.logits, j.previous, j.params.repetition_penalty)
           /\ ~is_greedy(j.params) => Row(TemperedOf(j), Len(j.logits))
<1>1. /\ j.kind = "sample" /\ j.logits \in Seq((-FMax) .. FMax) /\ Len(j.logits) \in Nat
      /\ j.params.temperature \in Nat \X (Nat \ {0}) /\ j.params.top_k \in Nat
      /\ j.params.top_p \in Factors /\ j.params.repetition_penalty \in Factors
      /\ j.params.top_p[1] <= j.params.top_p[2]
  BY JobsAssumption DEF Factors
<1>2. PICK n \in Nat : n = Len(j.logits)
  BY <1>1
<1>3. Row(j.logits, n)
  <2>1. \A x \in (-FMax) .. FMax : x \in Numbers
    BY FloatAssumption DEF Numbers, Inf
  <2>2. \A i \in 1 .. n : j.logits[i] \in Numbers
    <3>1. PICK F : F = (-FMax) .. FMax
      OBVIOUS
    <3>2. PICK l : l = j.logits /\ l \in Seq(F) /\ Len(l) = n
      BY <1>1, <1>2, <3>1
    <3>3. \A i \in 1 .. n : l[i] \in F
      BY <3>2
    <3> QED
      BY <2>1, <3>1, <3>2, <3>3
  <2>3. j.logits = [i \in 1 .. n |-> j.logits[i]]
    BY <1>1, <1>2
  <2> QED
    BY <2>2, <2>3, SequenceOf DEF Row
<1>4. /\ Row(PenalisedOf(j), n)
      /\ RowPenalised(PenalisedOf(j), j.logits, j.previous, j.params.repetition_penalty)
  BY <1>1, <1>3, PenaltyRow DEF PenalisedOf
<1>5. ASSUME ~is_greedy(j.params) PROVE Row(TemperedOf(j), n)
  <2>1. j.params.temperature \in Factors
    BY <1>1, <1>5 DEF Factors, is_greedy
  <2> QED
    BY <1>4, <2>1, TemperatureRow DEF TemperedOf
<1> QED
  BY <1>1, <1>2, <1>3, <1>4, <1>5 DEF SampleParams

Ready(j, z) ==
    Sane(TemperedOf(j)) =>
       /\ Row(z, Len(j.logits))
       /\ Nucleus(z, TemperedOf(j), Tops(TemperedOf(j), j.params.top_k), j.params.top_p)

LEMMA WeightSumIs ==
    ASSUME NEW n \in Nat, Row(tempered, n), InRange, NEW S \in SUBSET (1 .. n)
    PROVE  WeightSum(S) = Heap(Weights(tempered), S)
<1>1. PICK W : W = Weights(tempered) /\ Fall(tempered, W, n)
  BY WeightsFall DEF InRange, Sane
<1>2. Len(tempered) = n /\ \A t \in 1 .. n : W[t] = WeightOf(t) /\ W[t] \in Nat
  BY <1>1 DEF Row, Weights, WeightOf, Fall
<1>3. IsFiniteSet(1 .. n) /\ Heaps(W, 1 .. n)
  <2>1. IsFiniteSet(1 .. n)
    BY FS_Interval
  <2> QED
    BY <1>2, <2>1, HeapIs
<1> DEFINE Member(D) == CHOOSE x \in D : TRUE
           Body(g) == [D \in SUBSET S |-> IF D = {} THEN 0 ELSE WeightOf(Member(D)) + g[D \ {Member(D)}]]
           iter == CHOOSE g : g = Body(g)
           heaps == [D \in SUBSET S |-> Heap(W, D)]
<1>4. WeightSum(S) = iter[S]
  BY DEF WeightSum, MapThenSumSet, MapThenFoldSet
<1>5. \A D \in SUBSET S : D # {} => Member(D) \in D /\ D \ {Member(D)} \in SUBSET S
  OBVIOUS
<1> HIDE DEF Member
<1>6. heaps = Body(heaps)
  <2>1. ASSUME NEW D \in SUBSET S
        PROVE  heaps[D] = IF D = {} THEN 0 ELSE WeightOf(Member(D)) + heaps[D \ {Member(D)}]
    <3>1. CASE D = {}
      BY <1>3, <3>1 DEF Heaps
    <3>2. CASE D # {}
      <4>1. PICK m \in D : m = Member(D) /\ D \ {m} \in SUBSET S /\ m \in 1 .. n
        BY <1>5, <3>2
      <4>2. Heap(W, D) = W[m] + Heap(W, D \ {m})
        BY <1>3, <4>1 DEF Heaps
      <4>3. W[m] = WeightOf(m)
        BY <1>2, <4>1
      <4> QED
        BY <3>2, <4>1, <4>2, <4>3
    <3> QED
      BY <3>1, <3>2
  <2> HIDE DEF heaps
  <2>2. heaps = [D \in SUBSET S |-> heaps[D]]
    BY DEF heaps
  <2> QED
    BY <2>1, <2>2
<1>7. iter = Body(iter)
  <2> HIDE DEF Body, heaps
  <2> QED
    BY <1>6
<1> HIDE DEF iter, heaps
<1>8. \A D \in SUBSET S : iter[D] = IF D = {} THEN 0 ELSE WeightOf(Member(D)) + iter[D \ {Member(D)}]
  BY <1>7
<1> HIDE DEF Body
<1>9. PICK c : c = [D \in SUBSET S |-> Member(D)]
  OBVIOUS
<1>10. Adds(iter, W, c, S)
  <2> SUFFICES ASSUME NEW D \in SUBSET S, D # {}
               PROVE  /\ c[D] \in D
                      /\ iter[D \ {c[D]}] \in Nat => iter[D] = W[c[D]] + iter[D \ {c[D]}]
    BY <1>8 DEF Adds
  <2>1. PICK m \in D : m = Member(D) /\ c[D] = m /\ m \in 1 .. n
    BY <1>5, <1>9
  <2>2. iter[D] = WeightOf(m) + iter[D \ {m}] /\ WeightOf(m) = W[m]
    BY <1>2, <1>8, <2>1
  <2> QED
    BY <2>1, <2>2
<1>11. IsFiniteSet(S) /\ (\A x \in S : W[x] \in Nat)
  BY <1>2, CountedIs
<1>12. iter[S] = Heap(W, S)
  <2>1. PICK g, U : g = iter /\ U = S
    OBVIOUS
  <2>2. IsFiniteSet(U) /\ (\A x \in U : W[x] \in Nat) /\ Adds(g, W, c, U)
    BY <1>10, <1>11, <2>1
  <2>3. \A D \in SUBSET U : g[D] = Heap(W, D)
    BY <2>2, HeapUnique
  <2> QED
    BY <2>1, <2>3
<1> QED
  BY <1>1, <1>4, <1>12

(* Both ways of leaving the last filter leave a nucleus.                        *)
LEMMA TopPReady ==
    ASSUME NEW j \in SampleJobs, ~is_greedy(j.params),
           NEW y, y = apply_top_k(TemperedOf(j), j.params.top_k), NEW z,
           \/ (j.params.top_p = One \/ Live(y) = {}) /\ z = y
           \/ \E q \in Sorted(y) : z = apply_top_p(y, j.params.top_p, q)
    PROVE  Ready(j, z)
<1> SUFFICES ASSUME Sane(TemperedOf(j))
             PROVE  /\ Row(z, Len(j.logits))
                    /\ Nucleus(z, TemperedOf(j), Tops(TemperedOf(j), j.params.top_k), j.params.top_p)
  BY DEF Ready
<1>1. PICK n \in Nat, k \in Nat, p \in Factors :
         n = Len(j.logits) /\ k = j.params.top_k /\ p = j.params.top_p /\ p[1] <= p[2]
  <2>1. SampleParams(j)
    BY RowsOfJob
  <2> QED
    BY <2>1 DEF SampleParams
<1>2. PICK s, A : s = TemperedOf(j) /\ A = Tops(s, k)
  OBVIOUS
<1>3. Row(s, n) /\ Sane(s)
  BY <1>1, <1>2, RowsOfJob
<1>4. Row(y, n) /\ Keeps(y, s, A) /\ Pyramid(s, A, n)
  <2>1. y = apply_top_k(s, k)
    BY <1>1, <1>2
  <2> QED
    BY <1>2, <1>3, <2>1, TopKRow, PyramidIs
<1>5. CASE (p = One \/ Live(y) = {}) /\ z = y
  <2>1. Live(y) # {}
    <3>1. PICK W : W = Weights(s) /\ Fall(s, W, n)
      BY <1>3, WeightsFall
    <3>2. PICK t \in A : t \in 1 .. n /\ s[t] = Largest(s)
      BY <1>4 DEF Pyramid
    <3>3. W[t] # 0
      BY <3>1, <3>2 DEF Fall
    <3>4. Live(y) = {u \in A : W[u] # 0}
      BY <1>3, <1>4, <3>1, LiveIs
    <3> QED
      BY <3>2, <3>3, <3>4
  <2>2. NucleusOf(s, Weights(s), A, p, A)
    BY <1>3, <1>4, <1>5, <2>1, WholeNucleus
  <2>3. Nucleus(z, s, A, p)
    BY <1>4, <1>5, <2>2 DEF Nucleus
  <2> QED
    BY <1>1, <1>2, <1>4, <1>5, <2>3
<1>6. CASE \E q \in Sorted(y) : z = apply_top_p(y, p, q)
  <2>1. PICK q \in Sorted(y) : z = apply_top_p(y, p, q)
    BY <1>6
  <2>2. Nucleus(z, s, A, p)
    BY <1>1, <1>3, <1>4, <2>1, TopPNucleus
  <2>3. Row(z, n)
    <3>1. PICK D : z = [t \in 1 .. n |-> IF t \in D THEN Masked ELSE y[t]]
      <4>1. Len(y) = n
        BY <1>4 DEF Row
      <4>2. PICK D : D = ToSet(q) \ {q[i] : i \in 1 .. cutoff(softmax(y), q, p)}
        OBVIOUS
      <4>3. z = [t \in 1 .. n |-> IF t \in D THEN Masked ELSE y[t]]
        BY <2>1, <4>1, <4>2 DEF apply_top_p
      <4> QED
        BY <4>3
    <3>2. Masked \in Numbers /\ \A t \in 1 .. n : y[t] \in Numbers
      BY <1>4, FloatAssumption DEF Row, Numbers, Inf
    <3>3. (\A t \in 1 .. n : z[t] \in Numbers) /\ z = [t \in 1 .. n |-> z[t]]
      BY <3>1, <3>2
    <3> QED
      BY <3>3, SequenceOf DEF Row
  <2> QED
    BY <1>1, <1>2, <2>2, <2>3
<1> QED
  BY <1>1, <1>5, <1>6

(* A sampling job's invariant: which row each step works on.                    *)
SamplerSteps == {"penalty", "greedy", "temperature", "top_k", "top_p", "draw"}

Greatest(p) == IF argmax(p) = 0 THEN Error ELSE Sampled(argmax(p))
Drawn(z, o) == \E r \in 0 .. Total(softmax(z)) : o = Sampled(sample_from(softmax(z), r))

SamplerAt(j, at, r, o) ==
    /\ at \in SamplerSteps \cup {"done"}
    /\ at = "penalty" => r = j.logits
    /\ at = "greedy" => is_greedy(j.params) /\ r = PenalisedOf(j)
    /\ at = "temperature" => r = PenalisedOf(j)
    /\ at = "top_k" => r = TemperedOf(j)
    /\ at = "top_p" => r = apply_top_k(TemperedOf(j), j.params.top_k)
    /\ at = "draw" => Ready(j, r)
    /\ at \in {"temperature", "top_k", "top_p", "draw"} => ~is_greedy(j.params)
    /\ at = "done" /\ j.logits # << >> =>
          IF is_greedy(j.params) THEN o = Greatest(PenalisedOf(j))
          ELSE Ready(j, r) /\ Drawn(r, o)

SampleInd ==
    /\ job \in SampleJobs \cup QuantizeJobs \cup LayoutJobs \cup KernelJobs
    /\ pc \in SamplerSteps => job.kind = "sample"
    /\ job.kind = "sample" => SamplerAt(job, pc, row, out)

LEMMA SampleJobIs ==
    ASSUME job \in SampleJobs \cup QuantizeJobs \cup LayoutJobs \cup KernelJobs
    PROVE  job.kind \in {"sample", "quantize", "layout", "kernel"}
           /\ (job.kind = "sample" => job \in SampleJobs)
BY JobsAssumption

LEMMA SampleStarts == Init => SampleInd
<1> SUFFICES ASSUME Init PROVE SampleInd
  OBVIOUS
<1>1. job.kind \in {"sample", "quantize", "layout", "kernel"} /\ pc = FirstStep(job.kind)
  BY SampleJobIs DEF Init
<1>2. CASE job.kind = "sample"
  <2>1. pc = "penalty" /\ row = job.logits
    BY <1>1, <1>2 DEF Init, FirstStep
  <2>2. SamplerAt(job, pc, row, out)
    BY <2>1 DEF SamplerAt, SamplerSteps
  <2> QED
    BY <1>2, <2>2 DEF SampleInd, Init
<1>3. CASE job.kind # "sample"
  <2>1. pc \in {"quantize", "rank", "compare"}
    BY <1>1, <1>3 DEF FirstStep
  <2> QED
    BY <1>3, <2>1 DEF SampleInd, Init, SamplerSteps
<1> QED
  BY <1>2, <1>3

LEMMA SampleSteps == SampleInd /\ [Next]_vars => SampleInd'
<1> SUFFICES ASSUME SampleInd, [Next]_vars PROVE SampleInd'
  OBVIOUS
<1>1. ASSUME pc \in SamplerSteps, job' = job, SamplerAt(job, pc', row', out') PROVE SampleInd'
  BY <1>1 DEF SampleInd
<1>2. ASSUME pc \in SamplerSteps
      PROVE  job.kind = "sample" /\ job \in SampleJobs /\ SamplerAt(job, pc, row, out)
  BY <1>2, SampleJobIs DEF SampleInd
<1>3. CASE UNCHANGED vars
  BY <1>3 DEF vars, SampleInd
<1>4. CASE EmptyRow
  <2>1. pc = "penalty" /\ job.logits = << >> /\ pc' = "done" /\ job' = job
    BY <1>4 DEF EmptyRow, Finish
  <2>2. SamplerAt(job, pc', row', out')
    BY <2>1 DEF SamplerAt, SamplerSteps
  <2> QED
    BY <1>1, <2>1, <2>2 DEF SamplerSteps
<1>5. CASE Penalise
  <2>1. /\ pc = "penalty" /\ job' = job
        /\ row' = apply_repetition_penalty(row, job.previous, job.params.repetition_penalty)
        /\ pc' = IF is_greedy(job.params) THEN "greedy" ELSE "temperature"
    BY <1>5 DEF Penalise
  <2>2. row = job.logits
    BY <1>2, <2>1 DEF SamplerAt, SamplerSteps
  <2>3. row' = PenalisedOf(job)
    BY <2>1, <2>2 DEF PenalisedOf
  <2>4. SamplerAt(job, pc', row', out')
    BY <2>1, <2>3 DEF SamplerAt, SamplerSteps
  <2> QED
    BY <1>1, <2>1, <2>4 DEF SamplerSteps
<1>6. CASE Greedy
  <2>1. pc = "greedy" /\ job' = job /\ pc' = "done" /\ out' = Greatest(row)
    BY <1>6 DEF Greedy, Finish, Greatest
  <2>2. is_greedy(job.params) /\ row = PenalisedOf(job)
    BY <1>2, <2>1 DEF SamplerAt, SamplerSteps
  <2>3. SamplerAt(job, pc', row', out')
    BY <2>1, <2>2 DEF SamplerAt, SamplerSteps
  <2> QED
    BY <1>1, <2>1, <2>3 DEF SamplerSteps
<1>7. CASE Temperature
  <2>1. /\ pc = "temperature" /\ job' = job /\ pc' = "top_k"
        /\ row' = apply_temperature(row, job.params.temperature)
    BY <1>7 DEF Temperature
  <2>2. ~is_greedy(job.params) /\ row = PenalisedOf(job)
    BY <1>2, <2>1 DEF SamplerAt, SamplerSteps
  <2>3. row' = TemperedOf(job)
    BY <2>1, <2>2 DEF TemperedOf
  <2>4. SamplerAt(job, pc', row', out')
    BY <2>1, <2>2, <2>3 DEF SamplerAt, SamplerSteps
  <2> QED
    BY <1>1, <2>1, <2>4 DEF SamplerSteps
<1>8. CASE TopK
  <2>1. /\ pc = "top_k" /\ job' = job /\ pc' = "top_p"
        /\ row' = apply_top_k(row, job.params.top_k)
    BY <1>8 DEF TopK
  <2>2. ~is_greedy(job.params) /\ row = TemperedOf(job)
    BY <1>2, <2>1 DEF SamplerAt, SamplerSteps
  <2>3. row' = apply_top_k(TemperedOf(job), job.params.top_k)
    BY <2>1, <2>2
  <2>4. SamplerAt(job, pc', row', out')
    BY <2>1, <2>2, <2>3 DEF SamplerAt, SamplerSteps
  <2> QED
    BY <1>1, <2>1, <2>4 DEF SamplerSteps
<1>9. CASE TopP
  <2>1. /\ pc = "top_p" /\ job' = job /\ pc' = "draw"
        /\ \/ (job.params.top_p = One \/ Live(row) = {}) /\ row' = row
           \/ \E q \in Sorted(row) : row' = apply_top_p(row, job.params.top_p, q)
    BY <1>9 DEF TopP
  <2>2. /\ ~is_greedy(job.params) /\ row = apply_top_k(TemperedOf(job), job.params.top_k)
        /\ job \in SampleJobs
    BY <1>2, <2>1 DEF SamplerAt, SamplerSteps
  <2>3. Ready(job, row')
    <3>1. PICK j \in SampleJobs : j = job
      BY <2>2
    <3>2. PICK y, z : y = row /\ z = row'
      OBVIOUS
    <3>3. /\ ~is_greedy(j.params) /\ y = apply_top_k(TemperedOf(j), j.params.top_k)
          /\ \/ (j.params.top_p = One \/ Live(y) = {}) /\ z = y
             \/ \E q \in Sorted(y) : z = apply_top_p(y, j.params.top_p, q)
      BY <2>1, <2>2, <3>1, <3>2
    <3>4. Ready(j, z)
      BY <3>3, TopPReady
    <3> QED
      BY <3>1, <3>2, <3>4
  <2>4. SamplerAt(job, pc', row', out')
    BY <2>1, <2>2, <2>3 DEF SamplerAt, SamplerSteps
  <2> QED
    BY <1>1, <2>1, <2>4 DEF SamplerSteps
<1>10. CASE Draw
  <2>1. pc = "draw" /\ job' = job /\ pc' = "done" /\ row' = row /\ Drawn(row', out')
    BY <1>10 DEF Draw, Finish, Drawn
  <2>2. ~is_greedy(job.params) /\ Ready(job, row)
    BY <1>2, <2>1 DEF SamplerAt, SamplerSteps
  <2>3. SamplerAt(job, pc', row', out')
    BY <2>1, <2>2 DEF SamplerAt, SamplerSteps
  <2> QED
    BY <1>1, <2>1, <2>3 DEF SamplerSteps
<1>11. CASE Quantize \/ Dequantize \/ ComputeLayout \/ RefuseLayout \/ RanksDone \/ CompareKernel
  <2>1. /\ pc \in {"quantize", "dequantize", "rank", "compare"} /\ job' = job
        /\ pc' \in {"dequantize", "done", "rank", "refused", "laid_out"}
    BY <1>11 DEF Quantize, Dequantize, ComputeLayout, RefuseLayout, RanksDone, CompareKernel, Finish
  <2>2. job.kind # "sample"
    BY <2>1 DEF SampleInd, SamplerAt, SamplerSteps
  <2> QED
    BY <2>1, <2>2 DEF SampleInd, SamplerSteps
<1> QED
  BY <1>3, <1>4, <1>5, <1>6, <1>7, <1>8, <1>9, <1>10, <1>11 DEF Next

(* The four properties, from the invariant.                                     *)
LEMMA GreedyFollows == SampleInd => GreedyIsDeterministic
<1> SUFFICES ASSUME SampleInd, pc = "done", job.kind = "sample", job.logits # << >>,
                    is_greedy(params)
             PROVE  LET best == {t \in 1..Len(penalised) : penalised[t] = Largest(penalised)}
                    IN  out = IF Largest(penalised) = -Inf THEN Error ELSE Sampled(Min(best))
  BY DEF GreedyIsDeterministic
<1>1. job \in SampleJobs /\ out = Greatest(PenalisedOf(job))
  <2>1. job \in SampleJobs /\ SamplerAt(job, pc, row, out) /\ is_greedy(job.params)
    BY SampleJobIs DEF SampleInd, params
  <2> QED
    BY <2>1 DEF SamplerAt, SamplerSteps
<1>2. PICK n, s : n \in Nat /\ s = penalised /\ s = PenalisedOf(job) /\ Row(s, n)
  <2>1. penalised = PenalisedOf(job)
    BY DEF penalised, PenalisedOf, params
  <2> QED
    BY <1>1, <2>1, RowsOfJob DEF SampleParams
<1>3. PICK m, a : m = Largest(s) /\ a = argmax(s)
  OBVIOUS
<1>4. IF m = -Inf THEN a = 0
      ELSE a \in 1 .. n /\ s[a] = m /\ \A t \in 1 .. n : s[t] = m => a <= t
  BY <1>2, <1>3, ArgmaxIs
<1>5. out = IF a = 0 THEN Error ELSE Sampled(a)
  BY <1>1, <1>2, <1>3 DEF Greatest
<1>6. CASE m = -Inf
  BY <1>2, <1>3, <1>4, <1>5, <1>6
<1>7. CASE m # -Inf
  <2>1. PICK best : best = {t \in 1 .. n : s[t] = m}
    OBVIOUS
  <2>2. a \in best /\ a # 0 /\ \A t \in best : a <= t
    BY <1>4, <1>7, <2>1
  <2>3. Min(best) \in best /\ \A t \in best : Min(best) <= t
    <3>1. Min(best) = CHOOSE x \in best : \A t \in best : x <= t
      BY DEF Min
    <3> QED
      BY <2>2, <3>1
  <2>4. Min(best) = a
    <3>1. PICK b \in 1 .. n : b = Min(best) /\ b <= a /\ a <= b
      BY <2>1, <2>2, <2>3
    <3> QED
      BY <1>4, <1>7, <3>1
  <2>5. best = {t \in 1..Len(penalised) : penalised[t] = Largest(penalised)}
    BY <1>2, <1>3, <2>1 DEF Row
  <2> QED
    BY <1>2, <1>3, <1>5, <1>7, <2>2, <2>4, <2>5
<1> QED
  BY <1>6, <1>7

LEMMA PenaltyFollows == SampleInd => PenaltyDiscourages
<1> SUFFICES ASSUME SampleInd, pc \in {"greedy", "temperature"},
                    NEW t \in ToSet(job.previous) \cap 1..Len(row),
                    NEW u \in (1..Len(row)) \ ToSet(job.previous)
             PROVE  LET q == params.repetition_penalty
                    IN  /\ (q[1] >= q[2] /\ job.logits[t] <= job.logits[u]) => row[t] <= row[u]
                        /\ (q[1] <= q[2] /\ job.logits[t] >= job.logits[u]) => row[t] >= row[u]
  BY DEF PenaltyDiscourages
<1>1. job \in SampleJobs /\ row = PenalisedOf(job)
  <2>1. pc \in SamplerSteps
    BY DEF SamplerSteps
  <2>2. job \in SampleJobs /\ SamplerAt(job, pc, row, out)
    BY <2>1, SampleJobIs DEF SampleInd
  <2> QED
    BY <2>2 DEF SamplerAt
<1>2. PICK n, s, q :
         /\ n \in Nat /\ s = job.logits /\ q = params.repetition_penalty
         /\ Row(s, n) /\ Row(row, n) /\ RowPenalised(row, s, job.previous, q)
  <2>1. /\ SampleParams(job) /\ Row(row, Len(job.logits))
        /\ RowPenalised(row, job.logits, job.previous, job.params.repetition_penalty)
    BY <1>1, RowsOfJob
  <2>2. PICK n \in Nat : n = Len(job.logits) /\ Row(job.logits, n)
    BY <2>1 DEF SampleParams
  <2>3. PICK s, q : s = job.logits /\ q = job.params.repetition_penalty
    OBVIOUS
  <2>4. /\ s = job.logits /\ q = params.repetition_penalty
        /\ Row(s, n) /\ Row(row, n) /\ RowPenalised(row, s, job.previous, q)
    BY <2>1, <2>2, <2>3 DEF params
  <2> QED
    BY <2>4
<1>3. /\ t \in 1 .. n /\ u \in 1 .. n /\ t \in ToSet(job.previous) /\ u \notin ToSet(job.previous)
  BY <1>2 DEF Row
<1>4. /\ s[t] \in Int /\ s[u] \in Int /\ row[t] \in Int /\ row[u] \in Int
  <2>1. \A x \in Numbers : x \in Int
    BY FloatAssumption DEF Numbers, Inf
  <2>2. s[t] \in Numbers /\ s[u] \in Numbers /\ row[t] \in Numbers /\ row[u] \in Numbers
    BY <1>2, <1>3 DEF Row
  <2> QED
    BY <2>1, <2>2
<1>5. /\ q[1] >= q[2] => row[t] <= s[t]
      /\ q[1] <= q[2] => s[t] <= row[t]
      /\ row[u] = s[u]
  BY <1>2, <1>3 DEF Row, RowPenalised
<1>6. (q[1] >= q[2] /\ s[t] <= s[u]) => row[t] <= row[u]
  BY <1>4, <1>5
<1>7. (q[1] <= q[2] /\ s[t] >= s[u]) => row[t] >= row[u]
  BY <1>4, <1>5
<1> QED
  BY <1>2, <1>6, <1>7

LEMMA NucleusFollows == SampleInd => NucleusKeepsMass /\ TokenInNucleus
<1> SUFFICES ASSUME SampleInd, InRange, NEW s, s = tempered
             PROVE  NucleusKeepsMass /\ TokenInNucleus
  BY DEF NucleusKeepsMass, TokenInNucleus
<1>1. s = TemperedOf(job) /\ Sane(s)
  BY DEF tempered, penalised, params, TemperedOf, PenalisedOf, InRange, Sane
<1>2. PICK k, A, p, W : k = params.top_k /\ A = Tops(s, k) /\ p = params.top_p /\ W = Weights(s)
  OBVIOUS
<1>3. TopTokens = A /\ \A t : Rivals(t) = Beat(s, s[t])
  BY <1>2 DEF TopTokens, Tops, Rivals, Beat
<1>4. ASSUME job.kind = "sample", ~is_greedy(params), Ready(job, row)
      PROVE  \E n \in Nat : /\ Row(s, n) /\ Row(row, n) /\ A \in SUBSET (1 .. n)
                            /\ Nucleus(row, s, A, p)
                            /\ \A S \in SUBSET (1 .. n) : WeightSum(S) = Heap(W, S)
                            /\ \A t \in 1 .. n : WeightOf(t) = W[t]
  <2>1. PICK n \in Nat : n = Len(job.logits) /\ Row(s, n)
    <3>1. job \in SampleJobs
      BY <1>4, SampleJobIs DEF SampleInd
    <3>2. SampleParams(job) /\ Row(TemperedOf(job), Len(job.logits))
      BY <1>4, <3>1, RowsOfJob DEF params
    <3> QED
      BY <1>1, <3>2 DEF SampleParams
  <2>2. Row(row, n) /\ Nucleus(row, s, A, p)
    BY <1>1, <1>2, <1>4, <2>1 DEF Ready, params
  <2>3. A \in SUBSET (1 .. n)
    BY <1>2, <2>1 DEF Tops, Row
  <2>4. \A S \in SUBSET (1 .. n) : WeightSum(S) = Heap(W, S)
    BY <1>2, <2>1, WeightSumIs
  <2>5. \A t \in 1 .. n : WeightOf(t) = W[t]
    BY <1>2, <2>1 DEF WeightOf, Weights, Row
  <2> QED
    BY <2>1, <2>2, <2>3, <2>4, <2>5
<1>5. NucleusKeepsMass
  <2> SUFFICES ASSUME pc = "draw", NEW left, left = {t \in 1..Len(row) : row[t] > Masked}
               PROVE  /\ WeightSum(left) > 0
                      /\ WeightSum(left) * params.top_p[2] >= params.top_p[1] * WeightSum(TopTokens)
    BY DEF NucleusKeepsMass
  <2>1. job.kind = "sample" /\ ~is_greedy(params) /\ Ready(job, row)
    BY DEF SampleInd, SamplerAt, SamplerSteps, params
  <2>2. PICK n \in Nat : /\ Row(s, n) /\ Row(row, n) /\ A \in SUBSET (1 .. n)
                         /\ Nucleus(row, s, A, p)
                         /\ \A S \in SUBSET (1 .. n) : WeightSum(S) = Heap(W, S)
    BY <1>4, <2>1
  <2>3. left = {t \in 1 .. n : row[t] > Masked} /\ left \in SUBSET (1 .. n)
    BY <2>2 DEF Row
  <2>4. Heap(W, left) > 0 /\ Heap(W, left) * p[2] >= p[1] * Heap(W, A)
    BY <1>1, <1>2, <2>2, <2>3, LeftWeighs
  <2>5. WeightSum(left) = Heap(W, left) /\ WeightSum(A) = Heap(W, A)
    BY <2>2, <2>3
  <2> QED
    BY <1>2, <1>3, <2>4, <2>5
<1>6. TokenInNucleus
  <2> SUFFICES ASSUME pc = "done", job.kind = "sample", job.logits # << >>, ~is_greedy(params),
                      NEW t, t = out.token
               PROVE  /\ t \in TopTokens /\ WeightOf(t) > 0
                      /\ (Rivals(t) # {}) =>
                            WeightSum(Rivals(t)) * params.top_p[2]
                            < params.top_p[1] * WeightSum(TopTokens)
    BY DEF TokenInNucleus
  <2>1. Ready(job, row) /\ Drawn(row, out)
    BY DEF SampleInd, SamplerAt, SamplerSteps, params
  <2>2. PICK n \in Nat : /\ Row(s, n) /\ Row(row, n) /\ A \in SUBSET (1 .. n)
                         /\ Nucleus(row, s, A, p)
                         /\ \A S \in SUBSET (1 .. n) : WeightSum(S) = Heap(W, S)
                         /\ \A t_1 \in 1 .. n : WeightOf(t_1) = W[t_1]
    BY <1>4, <2>1
  <2>3. PICK r \in 0 .. Total(softmax(row)) : t = sample_from(softmax(row), r)
    BY <2>1 DEF Drawn, Sampled
  <2>4. /\ t \in A /\ W[t] # 0
        /\ Beat(s, s[t]) # {} => Heap(W, Beat(s, s[t])) * p[2] < p[1] * Heap(W, A)
    <3>1. PICK z : z = row
      OBVIOUS
    <3>2. PICK r_1 \in 0 .. Total(softmax(z)) : t = sample_from(softmax(z), r_1)
      BY <2>3, <3>1
    <3>3. Row(s, n) /\ Sane(s) /\ Row(z, n) /\ A \in SUBSET (1 .. n) /\ Nucleus(z, s, A, p)
      BY <1>1, <2>2, <3>1
    <3>4. /\ t \in A /\ Weights(s)[t] # 0
          /\ Beat(s, s[t]) # {} =>
                Heap(Weights(s), Beat(s, s[t])) * p[2] < p[1] * Heap(Weights(s), A)
      BY <3>2, <3>3, DrawnFromNucleus
    <3> QED
      BY <1>2, <3>4
  <2>5. WeightOf(t) = W[t] /\ W[t] \in Nat
    <3>1. t \in 1 .. n
      BY <2>2, <2>4
    <3>2. Fall(s, W, n)
      BY <1>1, <1>2, <2>2, WeightsFall
    <3> QED
      BY <2>2, <3>1, <3>2 DEF Fall
  <2>6. Beat(s, s[t]) \in SUBSET (1 .. n)
    BY <2>2 DEF Beat, Row
  <2>7. WeightSum(Rivals(t)) = Heap(W, Beat(s, s[t])) /\ WeightSum(A) = Heap(W, A)
    BY <1>3, <2>2, <2>6
  <2> QED
    BY <1>2, <1>3, <2>4, <2>5, <2>7
<1> QED
  BY <1>5, <1>6

(* However long the row and whatever its numbers and parameters, a token is     *)
(* drawn from the top k and from the nucleus, the nucleus holds its share of    *)
(* the mass, greedy decoding takes the first of the best, and a penalty never   *)
(* works backwards (sampling.rs: Sampler::sample and every filter it calls).    *)
THEOREM SampleHolds == Spec => []SampleExact
<1>1. Spec => []SampleInd
  BY SampleStarts, SampleSteps, PTL DEF Spec
<1>2. SampleInd => SampleExact
  BY GreedyFollows, PenaltyFollows, NucleusFollows DEF SampleExact
<1> QED
  BY <1>1, <1>2, PTL
=============================================================================
