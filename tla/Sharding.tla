------------------------------ MODULE Sharding ------------------------------
(* The tensor-parallel layout of orion-distributed: which heads and which part  *)
(* of the feed-forward dimension each rank owns.                                *)
EXTENDS Integers

Shard(start, len) == [start |-> start, len |-> len]
end(shard) == shard.start + shard.len
Owns(shard, i) == shard.start <= i /\ i < end(shard)

RankOk(index, world_size) == world_size # 0 /\ index < world_size
is_distributed(rank) == rank.world_size > 1

Splits(total, rank) == total % rank.world_size = 0

shard_dimension_Strided(total, rank) ==
    Shard(rank.index, total \div rank.world_size)

shard_dimension(total, rank) ==
    LET len == total \div rank.world_size
    IN  Shard(rank.index * len, len)

(* Whether the model can be split: a layout or an error for every rank alike.   *)
LayoutOk(meta, rank) ==
    \/ ~is_distributed(rank)
    \/ /\ meta.num_kv_heads >= rank.world_size
       /\ Splits(meta.num_attention_heads, rank)
       /\ Splits(meta.num_kv_heads, rank)
       /\ Splits(meta.ffn_dim, rank)

compute(meta, rank) ==
    IF ~is_distributed(rank)
    THEN [query_heads |-> Shard(0, meta.num_attention_heads),
          kv_heads |-> Shard(0, meta.num_kv_heads),
          ffn |-> Shard(0, meta.ffn_dim)]
    ELSE [query_heads |-> shard_dimension(meta.num_attention_heads, rank),
          kv_heads |-> shard_dimension(meta.num_kv_heads, rank),
          ffn |-> shard_dimension(meta.ffn_dim, rank)]

(* Elements of the KV cache per token; every layer and head is alike.           *)
local_kv_elems(layout, meta) == 2 * layout.kv_heads.len * meta.head_dim

all_reduce_count(meta, world_size) == IF world_size <= 1 THEN 0 ELSE 2 * meta.num_layers
=============================================================================
