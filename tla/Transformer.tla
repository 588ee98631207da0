---------------------------- MODULE Transformer ----------------------------
(***************************************************************************)
(* The forward pass of crates/orion-models: the KV arena and paged         *)
(* attention (attention.rs), the layers and the batch (transformer.rs,     *)
(* orion-core traits.rs), as operators.                                    *)
(*                                                                         *)
(* Numbers are replaced by where they come from.  The hidden state of a    *)
(* row is the sequence of tokens it is a function of: its own token after  *)
(* the embedding, the whole context after a layer whose attention read the *)
(* keys and values of exactly that context; anything else is Noise.  An    *)
(* element of the arena is the layer, key or value, head, dimension,       *)
(* rotary position and hidden state it was projected from.  What shapes,   *)
(* weights and arithmetic do to the numbers is left out; which cell is     *)
(* written and read, in which order, and when the pass is refused is not.  *)
(***************************************************************************)
EXTENDS KvCache, SequencesExt

CONSTANTS
  num_layers, num_attention_heads, num_kv_heads, head_dim,  \* ModelMetadata
  vocab_size,
  max_positions     \* entries of the RopeTable

ASSUME ModelAssumption ==
  /\ {num_layers, num_attention_heads, num_kv_heads, head_dim, vocab_size}
        \subseteq Nat \ {0}
  /\ max_positions \in Nat
  /\ num_attention_heads % num_kv_heads = 0

-----------------------------------------------------------------------------
(* KvStore: [layer][block][key or value][slot][head][dim] in one array.     *)

Layers == 0..num_layers - 1
KvHeads == 0..num_kv_heads - 1

ArenaLen == num_layers * num_blocks * 2 * block_size * num_kv_heads * head_dim
Zero == << >>
NewStore == [o \in 0..ArenaLen - 1 |-> Zero]

block_stride == block_size * num_kv_heads * head_dim

region_offset(layer, block, is_value) ==
  layer * num_blocks * 2 * block_stride + block * 2 * block_stride
    + (IF is_value THEN block_stride ELSE 0)

slot_offset(layer, block, is_value, slot, head) ==
  region_offset(layer, block, is_value) + (slot * num_kv_heads + head) * head_dim

check_bounds(layer, block, slot, head, vector) ==
  /\ layer < num_layers /\ block < num_blocks /\ slot < block_size
  /\ head < num_kv_heads /\ Len(vector) = head_dim

write(store, layer, at, head, is_value, vector) ==
  LET off == slot_offset(layer, at.block, is_value, at.slot, head)
  IN  [o \in DOMAIN store |->
         IF o \in off..off + head_dim - 1 THEN vector[o - off + 1] ELSE store[o]]

read(store, layer, at, head, is_value) ==
  LET off == slot_offset(layer, at.block, is_value, at.slot, head)
  IN  [d \in 1..head_dim |-> store[off + d - 1]]

HasBlock(table, position) == position \div block_size < Len(table)
locate(table, position) ==
  [block |-> table[position \div block_size + 1], slot |-> position % block_size]

-----------------------------------------------------------------------------
(* A ragged batch (ForwardBatch): the rows of its sequences end to end.     *)

\* Tokens contributed by the sequences before the i-th.
Offset(b, i) ==
  LET sum[n \in 0..Len(b.slot_token_counts)] ==
        IF n = 0 THEN 0 ELSE sum[n - 1] + b.slot_token_counts[n]
  IN  sum[i - 1]

validate(b) ==
  LET n == Len(b.sequence_ids) IN
  /\ Len(b.slot_token_counts) = n /\ Len(b.context_lens) = n
  /\ Len(b.block_tables) = n
  /\ Len(b.positions) = Len(b.tokens)
  /\ Offset(b, n + 1) = Len(b.tokens)

Rows(b) == 1..Len(b.tokens)

\* The sequence that contributed a row.
seq_of_row(b, row) ==
  CHOOSE i \in 1..Len(b.sequence_ids) :
     row \in Offset(b, i) + 1..Offset(b, i) + b.slot_token_counts[i]

TableOf(b, row) == b.block_tables[seq_of_row(b, row)]

last_row_First(b, i) == Offset(b, i) + 1
last_row(b, i) == Offset(b, i) + b.slot_token_counts[i]

-----------------------------------------------------------------------------
(* Hidden states and what is projected from them.                           *)

Noise == << >>

\* The hidden state that enters a layer for the last token of a context.
Hidden(layer, ctx) == IF layer = 0 THEN <<Last(ctx)>> ELSE ctx

\* A key is rotated to its position; a value carries none.
Key(layer, head, position, h) ==
  [d \in 1..head_dim |-> <<layer, "k", head, d, position, h>>]
Value(layer, head, h) == [d \in 1..head_dim |-> <<layer, "v", head, d, 0, h>>]

embed(b) == [row \in Rows(b) |-> <<b.tokens[row]>>]

\* Each row's keys and values, in every head of the layer.
WriteHead(store, layer, b, hidden, row, head) ==
  LET position == b.positions[row]
      at == locate(TableOf(b, row), position)
  IN  write(write(store, layer, at, head, FALSE, Key(layer, head, position, hidden[row])),
            layer, at, head, TRUE, Value(layer, head, hidden[row]))
WriteRow(store, layer, b, hidden, row) ==
  FoldLeft(LAMBDA st, head : WriteHead(st, layer, b, hidden, row, head),
           store, [g \in 1..num_kv_heads |-> g - 1])

group_size == num_attention_heads \div num_kv_heads
kv_head_Modulo(qh) == qh % num_kv_heads
kv_head(qh) == qh \div group_size

\* Causal: positions up to and including the query's are visited, no others.
attend_len(position) == position + 1

\* The key and value a query head reads at each position it attends to.
Attended(store, layer, table, qh, position) ==
  [j \in 1..attend_len(position) |->
     LET at == locate(table, j - 1) IN
     [k |-> read(store, layer, at, kv_head(qh), FALSE),
      v |-> read(store, layer, at, kv_head(qh), TRUE)]]

\* What a query head should have read for a context: query heads come in equal
\* consecutive groups, one KV head to each.
Faithful(layer, qh, ctx) ==
  LET g == CHOOSE h \in KvHeads : qh \in h * group_size..(h + 1) * group_size - 1
  IN  [j \in 1..Len(ctx) |->
         LET h == Hidden(layer, SubSeq(ctx, 1, j)) IN
         [k |-> Key(layer, g, j - 1, h), v |-> Value(layer, g, h)]]

paged_attention(store, layer, table, token, position) ==
  LET seen(qh) == Attended(store, layer, table, qh, position)
      TokenAt(j) == LET v == seen(0)[j].v[1] IN
                      IF v = Zero \/ v[6] = Noise THEN token ELSE Last(v[6])
      ctx == [j \in 1..Len(seen(0)) |-> TokenAt(j)]
  IN  IF ctx # << >> /\ Last(ctx) = token
         /\ \A qh \in 0..num_attention_heads - 1 : seen(qh) = Faithful(layer, qh, ctx)
      THEN ctx ELSE Noise

\* Every row is written before any row attends.
layer_forward(layer, b, s) ==
  LET store == FoldLeft(LAMBDA st, row : WriteRow(st, layer, b, s.hidden, row),
                        s.store, [i \in Rows(b) |-> i])
  IN  [store  |-> store,
       hidden |-> [row \in Rows(b) |->
          IF s.hidden[row] = Noise THEN Noise
          ELSE paged_attention(store, layer, TableOf(b, row), b.tokens[row],
                               b.positions[row])]]

-----------------------------------------------------------------------------
(* forward.  The pass is refused before the arena is touched, but for a     *)
(* sequence without tokens, which is noticed after the layers.              *)

Located(b) == \A row \in Rows(b) : HasBlock(TableOf(b, row), b.positions[row])
InVocabulary(b) == \A row \in Rows(b) : b.tokens[row] < vocab_size
InRope(b) == \A row \in Rows(b) : b.positions[row] < max_positions

AfterLayers(store, b) ==
  LET s[n \in 0..num_layers] ==
        IF n = 0 THEN [store |-> store, hidden |-> embed(b)]
        ELSE layer_forward(n - 1, b, s[n - 1])
  IN  s[num_layers]

Refused(store) == [ok |-> FALSE, store |-> store, logits |-> << >>]

\* The logits of each sequence's last row.
Answer(store, b) ==
  LET s == AfterLayers(store, b)
      n == Len(b.sequence_ids)
  IN  IF \E i \in 1..n : b.slot_token_counts[i] = 0 THEN Refused(s.store)
      ELSE [ok |-> TRUE, store |-> s.store,
            logits |-> [i \in 1..n |-> s.hidden[last_row(b, i)]]]

forward_RopeCheckedLast(store, b) ==
  IF ~(validate(b) /\ Located(b) /\ InVocabulary(b)) THEN Refused(store)
  ELSE IF ~InRope(b) THEN Refused(Answer(store, b).store) ELSE Answer(store, b)
forward(store, b) ==
  IF ~validate(b) THEN Refused(store)
  ELSE IF b.tokens = << >> THEN [ok |-> TRUE, store |-> store, logits |-> << >>]
  ELSE IF ~(Located(b) /\ InVocabulary(b) /\ InRope(b)) THEN Refused(store)
  ELSE Answer(store, b)
=============================================================================
