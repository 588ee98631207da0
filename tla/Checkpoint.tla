----------------------------- MODULE Checkpoint -----------------------------
(* Loading a model directory (orion-models): config.json and its                *)
(* normalisation, the index over the safetensors shards, and the weights, by    *)
(* their shapes.  A shard is a function from tensor names to [shape, dtype], or *)
(* Corrupt; the files of a directory are numbered in the order of their names.  *)
EXTENDS Integers, Sequences, FiniteSets

CONSTANTS Absent,             \* a field config.json does not have
          Corrupt,            \* a shard whose header does not parse
          DefaultPositions   \* max_position_embeddings of a config without one

Or(option, default) == IF option = Absent THEN default ELSE option

LlamaNames == {"LlamaForCausalLM", "MistralForCausalLM"}
Known == LlamaNames \cup {"Qwen2ForCausalLM"}

(* The first known architecture decides, then the model type.                   *)
detect(config) ==
    LET known == {i \in 1..Len(config.architectures) : config.architectures[i] \in Known}
    IN  IF known # {}
        THEN LET first == CHOOSE i \in known : \A j \in known : i <= j
             IN  IF config.architectures[first] \in LlamaNames THEN "llama" ELSE "qwen2"
        ELSE IF config.model_type \in {"llama", "mistral"} THEN "llama"
        ELSE IF config.model_type = "qwen2" THEN "qwen2" ELSE "unsupported"

has_qkv_bias(arch) == arch = "qwen2"

DtypeOk(dtype) == dtype \in {Absent, "float32", "float", "float16", "half", "bfloat16"}

num_kv_heads(config) == Or(config.num_key_value_heads, config.num_attention_heads)
head_dim(config) ==
    Or(config.head_dim,
       config.hidden_size \div (IF config.num_attention_heads = 0 THEN 1
                                ELSE config.num_attention_heads))

MetadataOk(config) ==
    /\ detect(config) # "unsupported"
    /\ config.num_attention_heads # 0
    /\ config.num_hidden_layers # 0
    /\ num_kv_heads(config) # 0
    /\ config.num_attention_heads % num_kv_heads(config) = 0
    /\ head_dim(config) # 0
    /\ config.vocab_size # 0
    /\ DtypeOk(config.torch_dtype)

to_metadata(config) ==
    [architecture |-> detect(config),
     hidden_size |-> config.hidden_size,
     num_layers |-> config.num_hidden_layers,
     num_attention_heads |-> config.num_attention_heads,
     num_kv_heads |-> num_kv_heads(config),
     head_dim |-> head_dim(config),
     vocab_size |-> config.vocab_size,
     max_position_embeddings |-> Or(config.max_position_embeddings, DefaultPositions)]

ffn_dim(config) == Or(config.intermediate_size, 4 * config.hidden_size)

(* HfConfig::load: the file may be missing or not parse.                        *)
ConfigReads(dir) == dir.config_file = "ok"

-----------------------------------------------------------------------------
(* The index: a tensor is found in the first shard opened that names it.        *)
Indexed(index, i, shard) ==
    [t \in DOMAIN index \cup DOMAIN shard |-> IF t \in DOMAIN index THEN index[t] ELSE i]

contains(index, t) == t \in DOMAIN index

(* view_to_f32 *)
Converts(tensor) == tensor.dtype \in {"F32", "F16", "BF16"}

TensorOf(files, index, t) == files[index[t]][t]

(* CheckpointLoader::matrix or vector: the named tensor has this very shape.    *)
Size(shape) == IF Len(shape) = 1 THEN shape[1] ELSE shape[1] * shape[2]

Fits_SizeOnly(files, index, t, shape) ==
    /\ contains(index, t)
    /\ Converts(TensorOf(files, index, t))
    /\ Size(TensorOf(files, index, t).shape) = Size(shape)

Fits(files, index, t, shape) ==
    /\ contains(index, t)
    /\ Converts(TensorOf(files, index, t))
    /\ TensorOf(files, index, t).shape = shape

(* The tensors of a layer and of the whole model, with the shapes expected.     *)
LayerShapes(config, meta) ==
    LET hidden == meta.hidden_size
        ffn == ffn_dim(config)
        q_dim == meta.num_attention_heads * meta.head_dim
        kv_dim == meta.num_kv_heads * meta.head_dim
    IN  [input_norm |-> <<hidden>>, post_attn_norm |-> <<hidden>>,
         q_proj |-> <<q_dim, hidden>>, k_proj |-> <<kv_dim, hidden>>,
         v_proj |-> <<kv_dim, hidden>>, o_proj |-> <<hidden, q_dim>>,
         gate_proj |-> <<ffn, hidden>>, up_proj |-> <<ffn, hidden>>,
         down_proj |-> <<hidden, ffn>>]

BiasShapes(meta) ==
    LET kv_dim == meta.num_kv_heads * meta.head_dim
    IN  [q_bias |-> <<meta.num_attention_heads * meta.head_dim>>,
         k_bias |-> <<kv_dim>>, v_bias |-> <<kv_dim>>]

Layers(meta) == 0 .. meta.num_layers - 1

ModelShapes(config, meta) ==
    LET embedding == <<meta.vocab_size, meta.hidden_size>>
        layer == LayerShapes(config, meta)
    IN  [t \in {<<"embed_tokens">>, <<"final_norm">>} \cup (Layers(meta) \X DOMAIN layer) |->
            IF t = <<"embed_tokens">> THEN embedding
            ELSE IF t = <<"final_norm">> THEN <<meta.hidden_size>> ELSE layer[t[2]]]

(* Loaded when present: the biases of an architecture that has them, and a head *)
(* that is not tied to the embedding.                                           *)
OptionalShapes(config, meta) ==
    LET bias == BiasShapes(meta)
        biases == IF has_qkv_bias(meta.architecture) THEN Layers(meta) \X DOMAIN bias ELSE {}
        heads == IF config.tie_word_embeddings THEN {} ELSE {<<"lm_head">>}
    IN  [t \in biases \cup heads |->
            IF t = <<"lm_head">> THEN <<meta.vocab_size, meta.hidden_size>> ELSE bias[t[2]]]

(* ModelWeights::load: every tensor is there and fits, optional ones if there.  *)
WeightsOk(files, index, config, meta) ==
    LET required == ModelShapes(config, meta)
        optional == OptionalShapes(config, meta)
    IN  /\ \A t \in DOMAIN required : Fits(files, index, t, required[t])
        /\ \A t \in DOMAIN optional : contains(index, t) => Fits(files, index, t, optional[t])

(* The shapes of the weights that are kept.                                     *)
load(files, index, config, meta) ==
    LET optional == {t \in DOMAIN OptionalShapes(config, meta) : contains(index, t)}
    IN  [t \in DOMAIN ModelShapes(config, meta) \cup optional |-> TensorOf(files, index, t).shape]

(* RopeTable::new *)
RopeOk(meta) == meta.head_dim % 2 = 0

-----------------------------------------------------------------------------
(* The shape checks a forward pass makes, and the sums over two rows that stop  *)
(* at the shorter one without a check.                                          *)
LinearOk(features, w, bias) == w[2] = features /\ (bias # << >> => bias[1] = w[1])

(* rms_norm: one scale for each feature; rows of no features cannot be cut.     *)
NormOk(features, w) == w = <<features>> /\ features # 0

(* swiglu: gate and up of one shape.                                            *)
SwigluOk(gate, up) == gate[1] = up[1]

BiasOf(weights, i, name) == IF <<i, name>> \in DOMAIN weights THEN weights[<<i, name>>] ELSE << >>

LayerRuns(weights, meta, i) ==
    LET W(name) == weights[<<i, name>>]
        hidden == weights[<<"embed_tokens">>][2]
        heads == meta.num_attention_heads * meta.head_dim
        kv == meta.num_kv_heads * meta.head_dim
    IN  /\ NormOk(hidden, W("input_norm")) /\ NormOk(hidden, W("post_attn_norm"))
        /\ LinearOk(hidden, W("q_proj"), BiasOf(weights, i, "q_bias")) /\ W("q_proj")[1] = heads
        /\ LinearOk(hidden, W("k_proj"), BiasOf(weights, i, "k_bias")) /\ W("k_proj")[1] = kv
        /\ LinearOk(hidden, W("v_proj"), BiasOf(weights, i, "v_bias")) /\ W("v_proj")[1] = kv
        /\ LinearOk(heads, W("o_proj"), << >>) /\ W("o_proj")[1] = hidden
        /\ LinearOk(hidden, W("gate_proj"), << >>)
        /\ LinearOk(hidden, W("up_proj"), << >>) /\ SwigluOk(W("gate_proj"), W("up_proj"))
        /\ LinearOk(W("gate_proj")[1], W("down_proj"), << >>) /\ W("down_proj")[1] = hidden

HeadOf(weights) ==
    IF <<"lm_head">> \in DOMAIN weights THEN weights[<<"lm_head">>] ELSE weights[<<"embed_tokens">>]

ForwardRuns(weights, meta) ==
    LET hidden == weights[<<"embed_tokens">>][2]
    IN  /\ weights[<<"embed_tokens">>][1] = meta.vocab_size
        /\ \A i \in Layers(meta) : LayerRuns(weights, meta, i)
        /\ NormOk(hidden, weights[<<"final_norm">>])
        /\ LinearOk(hidden, HeadOf(weights), << >>) /\ HeadOf(weights)[1] = meta.vocab_size
        /\ meta.head_dim % 2 = 0
        /\ meta.num_attention_heads % meta.num_kv_heads = 0
=============================================================================
