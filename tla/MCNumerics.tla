----------------------------- MODULE MCNumerics -----------------------------
(* Small domains for Numerics.  Logits are chosen so that every product and     *)
(* quotient is exact; a temperature of 1/32 and a penalty of 32 leave the       *)
(* finite range.  With 2^4 integers for the weights and 2^11 for i32 the        *)
(* relation between the precision of f32 and the width of i32 is the code's.    *)
EXTENDS Numerics

CONSTANTS NaN, Infinite

Rows == UNION {[1..n -> {-4, 0, 8}] : n \in {0, 1, 3}}
Temperatures == {<<0, 1>>, <<1, 32>>, <<1, 2>>, <<2, 1>>}
Penalties == {<<1, 2>>, <<1, 1>>, <<2, 1>>, <<32, 1>>}

MCSampleJobs ==
    [kind : {"sample"},
     logits : Rows,
     previous : {<< >>, <<2>>, <<1, 2, 1>>, <<3, 1, 2, 4>>},
     params : [temperature : Temperatures, top_k : 0..2,
               top_p : {<<1, 2>>, <<9, 10>>, <<1, 1>>}, repetition_penalty : Penalties]]

MCQuantizeJobs ==
    [kind : {"quantize"},
     values : UNION {[1..n -> {-6, 0, 1, 5}] : n \in 0..5}
              \cup [1..3 -> {14, 15, NotFinite}],
     bits : {"int8", "int4"}]

MCLayoutJobs ==
    [kind : {"layout"},
     meta : {m \in [num_attention_heads : 1..8, num_kv_heads : 1..4, ffn_dim : {4, 6},
                    num_layers : {2}, head_dim : {2}] :
                m.num_attention_heads % m.num_kv_heads = 0},
     world_size : 0..4]

Outputs == UNION {[1..n -> {-8, -6, 0, 1, NaN, Infinite}] : n \in 0..2}

MCKernelJobs == [kind : {"kernel"}, expected : Outputs, actual : Outputs]

MCSpecial == {NaN, Infinite}
MCTolRel == <<1, 4>>
MCMasked == -48
=============================================================================
