----------------------------- MODULE MCStartup -----------------------------
(* Launches with sound flags and many directories, and with many flags and a    *)
(* sound directory.  A directory differs from a sound one in its config.json,   *)
(* in one tensor, or in a second copy of one tensor.                            *)
EXTENDS Startup

Llama == [architectures |-> <<"LlamaForCausalLM">>, model_type |-> Absent, hidden_size |-> 4,
          num_hidden_layers |-> 2, num_attention_heads |-> 2, num_key_value_heads |-> 1,
          head_dim |-> Absent, vocab_size |-> 5, intermediate_size |-> 6,
          max_position_embeddings |-> 8, torch_dtype |-> "bfloat16",
          tie_word_embeddings |-> FALSE]

Qwen == [Llama EXCEPT !.architectures = <<"Qwen2Model", "Qwen2ForCausalLM">>,
                      !.num_key_value_heads = Absent, !.torch_dtype = Absent]

Configs ==
    {Llama, Qwen,
     [Llama EXCEPT !.architectures = << >>, !.model_type = "mistral"],
     [Llama EXCEPT !.architectures = <<"GPT2LMHeadModel">>, !.model_type = "qwen2"],
     [Llama EXCEPT !.architectures = <<"GPT2LMHeadModel">>],
     [Llama EXCEPT !.max_position_embeddings = Absent],
     [Llama EXCEPT !.max_position_embeddings = 0],
     [Llama EXCEPT !.tie_word_embeddings = TRUE],
     [Llama EXCEPT !.intermediate_size = Absent],
     [Llama EXCEPT !.head_dim = 4],
     [Llama EXCEPT !.head_dim = 3],
     [Llama EXCEPT !.num_key_value_heads = 0],
     [Llama EXCEPT !.num_attention_heads = 3, !.num_key_value_heads = 2],
     [Llama EXCEPT !.num_attention_heads = 0],
     [Llama EXCEPT !.hidden_size = 0, !.head_dim = 2],
     [Llama EXCEPT !.vocab_size = 0],
     [Llama EXCEPT !.torch_dtype = "int8"]}

Tensor(shape) == [shape |-> shape, dtype |-> "F16"]

(* Every tensor a directory may hold, with the shape its config asks for.       *)
Sound(config) ==
    LET m == to_metadata(config)
        all == [t \in Layers(m) \X DOMAIN BiasShapes(m) |-> BiasShapes(m)[t[2]]]
        head == [t \in {<<"lm_head">>} |-> <<m.vocab_size, m.hidden_size>>]
        required == ModelShapes(config, m)
    IN  [t \in DOMAIN all \cup DOMAIN head \cup DOMAIN required |->
            Tensor(IF t \in DOMAIN required THEN required[t]
                   ELSE IF t \in DOMAIN head THEN head[t] ELSE all[t])]

Without(f, S) == [t \in DOMAIN f \ S |-> f[t]]
Transposed(shape) == IF Len(shape) = 1 THEN <<shape[1] + 1>> ELSE <<shape[2], shape[1]>>
Wrong(f, t) == [f EXCEPT ![t].shape = Transposed(f[t].shape)]

Dir(config, files) == [config_file |-> "ok", config |-> config, files |-> files, tokenizer |-> TRUE]

InShards(f) == <<Without(f, {<<"embed_tokens">>}), Without(f, DOMAIN f \ {<<"embed_tokens">>})>>

SoundDir(config) == Dir(config, InShards(Sound(config)))

Flawed(config) ==
    LET f == Sound(config)
    IN  UNION {{Dir(config, <<Without(f, {t})>>),
                Dir(config, <<Wrong(f, t)>>),
                Dir(config, <<[f EXCEPT ![t].dtype = "I8"]>>),
                Dir(config, <<f, Wrong(f, t)>>),
                Dir(config, <<Wrong(f, t), f>>)} : t \in DOMAIN f}

Dirs == {SoundDir(c) : c \in Configs} \cup Flawed(Llama) \cup Flawed(Qwen)
        \cup {[SoundDir(Llama) EXCEPT !.config_file = "missing"],
              [SoundDir(Llama) EXCEPT !.tokenizer = FALSE],
              Dir(Llama, << >>), Dir(Llama, <<Sound(Llama), Corrupt>>)}

Args == [host |-> "127.0.0.1", port |-> 8000, num_blocks |-> 2, block_size |-> 4,
         max_num_seqs |-> 2, max_num_batched_tokens |-> 4, max_model_len |-> None,
         chunked_prefill |-> TRUE]

ArgSets ==
    {Args,
     [Args EXCEPT !.port = 0], [Args EXCEPT !.host = ""], [Args EXCEPT !.host = " "],
     [Args EXCEPT !.num_blocks = 0],
     [Args EXCEPT !.block_size = 2], [Args EXCEPT !.block_size = 6],
     [Args EXCEPT !.max_num_seqs = 0], [Args EXCEPT !.max_num_seqs = 5]}
    \cup {[Args EXCEPT !.max_model_len = len, !.chunked_prefill = chunked,
                       !.max_num_batched_tokens = budget] :
              len \in {None, 0, 4, 16}, chunked \in BOOLEAN, budget \in {0, 4, 8}}

MCLaunches ==
    [command : {"serve"}, args : {Args}, dir : Dirs]
    \cup [command : {"serve"}, args : ArgSets,
          dir : {SoundDir(Llama), SoundDir([Llama EXCEPT !.max_position_embeddings = Absent])}]
    \cup [command : {"inspect"}, args : {Args}, dir : Dirs]
=============================================================================
