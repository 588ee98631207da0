----------------------------- MODULE Inference -----------------------------
(***************************************************************************)
(* Engine steps over a real model: what Engine leaves to the backend.  A   *)
(* step grants rows (scheduler.rs), builds the ragged batch (engine.rs,    *)
(* build_batch), runs Transformer's forward on it, then records the tokens *)
(* and publishes the prefills.                                             *)
(*                                                                         *)
(* The scheduler is reduced to what it may grant: any chunks of any of the *)
(* running prompts and one token to any of the decoding sequences, each    *)
(* sequence once.  Sequences are admitted, preempted and dropped between   *)
(* steps, in any order.  Sampled tokens are Generated.  After a refused    *)
(* pass the model waits until the cache has emptied: a scheduler that goes *)
(* on counts the refused rows as computed (README, known departures).      *)
(***************************************************************************)
EXTENDS Transformer

CONSTANTS
  Generated,     \* the token the sampler returns, in no prompt
  MaxOutput,     \* SamplingParams::max_tokens of every request
  MaxRows,       \* bound: sequences in a batch
  MaxPreemptions \* bound: preemptions in a behaviour

ASSUME InferenceAssumption ==
  /\ Generated \in 0..vocab_size - 1 /\ {MaxOutput, MaxRows, MaxPreemptions} \subseteq Nat
  /\ \A p \in Prompts : p # << >> /\ Range(p) \subseteq 0..vocab_size - 1 \ {Generated}

VARIABLES
  cache,     \* KvCacheManager
  arena,     \* KvStore of the model
  seqs,      \* id -> [prompt, output, computed] of the sequences in the queues
  scheduled, \* SchedulerOutput of the step under way
  result,    \* what forward returned in it
  phase,     \* "idle", "batched" or "forwarded"
  spoiled,   \* whether a pass was refused since the cache was last empty
  preemptions \* how many there have been

inferVars == <<cache, arena, seqs, scheduled, result, phase, spoiled, preemptions>>

NoResult == [ok |-> TRUE, logits |-> << >>]

NewSequence(p) == [prompt |-> p, output |-> << >>, computed |-> 0]

\* Every request waits from the start: a step never looks at a waiting one.
InferInit ==
  /\ cache = new /\ arena = NewStore
  /\ seqs \in [SequenceIds -> {NewSequence(p) : p \in Prompts}]
  /\ scheduled = << >> /\ result = NoResult /\ phase = "idle" /\ spoiled = FALSE
  /\ preemptions = 0

total_len(q) == Len(q.prompt) + Len(q.output)
Running == DOMAIN cache.tables
Decoding(id) == id \in Running /\ seqs[id].computed = Len(seqs[id].prompt)

-----------------------------------------------------------------------------
(* Between steps: sequences are admitted, preempted and dropped.            *)

Admit(id) ==
  /\ phase = "idle" /\ id \in DOMAIN seqs \ Running
  /\ allocate_ok(cache, id, seqs[id].prompt)
  /\ cache' = allocate(cache, id, seqs[id].prompt)
  /\ spoiled' = (spoiled /\ Running # {})
  /\ UNCHANGED <<arena, seqs, scheduled, result, phase, preemptions>>

Preempt(id) ==
  /\ phase = "idle" /\ id \in Running
  /\ preemptions < MaxPreemptions /\ preemptions' = preemptions + 1
  /\ cache' = free(cache, id)
  /\ seqs' = [seqs EXCEPT ![id].computed = 0]
  /\ UNCHANGED <<arena, scheduled, result, phase, spoiled>>

Drop(id) ==
  /\ phase = "idle" /\ id \in DOMAIN seqs
  /\ cache' = free(cache, id)
  /\ seqs' = Without(seqs, {id})
  /\ UNCHANGED <<arena, scheduled, result, phase, spoiled, preemptions>>

-----------------------------------------------------------------------------
(* A step.                                                                  *)

PrefillRow(id, n) ==
  [id |-> id, num_tokens |-> n, start_position |-> seqs[id].computed, is_prefill |-> TRUE]
DecodeRow(id) ==
  [id |-> id, num_tokens |-> 1, start_position |-> total_len(seqs[id]), is_prefill |-> FALSE]

Grants(id) ==
  IF Decoding(id)
    THEN IF Len(seqs[id].output) < MaxOutput THEN {DecodeRow(id)} ELSE {}
    ELSE {PrefillRow(id, n) : n \in 1..Len(seqs[id].prompt) - seqs[id].computed}

\* The rows of a pass: a sequence of grants to different sequences.
Batches ==
  {r \in UNION {[1..n -> UNION {Grants(id) : id \in Running}] : n \in 1..MaxRows} :
     \A i, j \in DOMAIN r : r[i].id = r[j].id => i = j}

DecodeRows(r) == Filter(r, {x \in Range(r) : ~x.is_prefill})

\* A decode row reserves its slot as it is granted, after those before it.
Reserve(c, x) ==
  IF c.ok /\ append_ok(c.cache, x.id)
    THEN [ok |-> TRUE, cache |-> append_token(c.cache, x.id)]
    ELSE [ok |-> FALSE, cache |-> c.cache]

\* Prefill rows count as computed from here on, before the pass has run.
Schedule(r) ==
  LET grown == FoldLeft(Reserve, [ok |-> TRUE, cache |-> cache], DecodeRows(r))
  IN  /\ phase = "idle" /\ grown.ok
      /\ ~spoiled                  \* bound: no pass follows a refused one
      /\ cache' = grown.cache
      /\ seqs' = [id \in DOMAIN seqs |->
            IF \E i \in DOMAIN r : r[i].id = id /\ r[i].is_prefill
              THEN [seqs[id] EXCEPT !.computed = @ +
                      r[CHOOSE i \in DOMAIN r : r[i].id = id].num_tokens]
              ELSE seqs[id]]
      /\ scheduled' = r /\ phase' = "batched"
      /\ UNCHANGED <<arena, result, spoiled, preemptions>>

\* The prompt's slice for a prefill row; the newest token for a decode row.
RowTokens(r) ==
  LET q == seqs[r.id] IN
  IF r.is_prefill
    THEN SubSeq(q.prompt, r.start_position + 1, r.start_position + r.num_tokens)
    ELSE <<Last(q.prompt \o q.output)>>

Batch ==
  LET n == Len(scheduled)
      toks == [i \in 1..n |-> RowTokens(scheduled[i])]
  IN  [tokens    |-> FlattenSeq(toks),
       positions |-> FlattenSeq([i \in 1..n |->
            [k \in 1..Len(toks[i]) |-> scheduled[i].start_position + k - 1]]),
       sequence_ids |-> [i \in 1..n |-> scheduled[i].id],
       slot_token_counts |-> [i \in 1..n |-> Len(toks[i])],
       context_lens |-> [i \in 1..n |-> scheduled[i].start_position + Len(toks[i])],
       block_tables |-> [i \in 1..n |-> cache.tables[scheduled[i].id].blocks]]

Forward ==
  LET out == forward(arena, Batch) IN
  /\ phase = "batched"
  /\ arena' = out.store
  /\ result' = [ok |-> out.ok, logits |-> out.logits]
  /\ phase' = "forwarded"
  /\ spoiled' = (spoiled \/ ~out.ok)
  /\ UNCHANGED <<cache, seqs, scheduled, preemptions>>

\* The step ends in an error: nothing is taken back.
StepFails ==
  /\ phase = "forwarded" /\ ~result.ok
  /\ phase' = "idle" /\ scheduled' = << >> /\ result' = NoResult
  /\ UNCHANGED <<cache, arena, seqs, spoiled, preemptions>>

\* A prompt is published once it is complete.
Publish(c, r) ==
  IF r.is_prefill /\ Decoding(r.id) THEN commit_prefill(c, r.id, seqs[r.id].prompt) ELSE c

\* A token for every sequence whose prefill is complete, then its prompt is
\* published; a sequence at its limit only waits to be dropped.
StepEnds ==
  LET ids == {scheduled[i].id : i \in DOMAIN scheduled}
  IN  /\ phase = "forwarded" /\ result.ok
      /\ seqs' = [id \in DOMAIN seqs |->
            IF id \in ids /\ Decoding(id)
              THEN [seqs[id] EXCEPT !.output =
                      IF Len(@) < MaxOutput THEN Append(@, Generated) ELSE @]
              ELSE seqs[id]]
      /\ cache' = FoldLeft(Publish, cache, scheduled)
      /\ phase' = "idle" /\ scheduled' = << >> /\ result' = NoResult
      /\ UNCHANGED <<arena, spoiled, preemptions>>

InferNext ==
  \/ \E id \in SequenceIds : Admit(id) \/ Preempt(id) \/ Drop(id)
  \/ \E r \in Batches : Schedule(r)
  \/ Forward \/ StepFails \/ StepEnds

InferSpec == InferInit /\ [][InferNext]_inferVars

-----------------------------------------------------------------------------
(* Properties.                                                              *)

\* The types of the arena, the sequences and the step's locals.
InferTypeOK ==
  /\ CacheType(cache)
  /\ DOMAIN arena = 0..ArenaLen - 1
  /\ \A id \in DOMAIN seqs : LET q == seqs[id] IN
       /\ q.prompt \in Prompts /\ q.computed \in 0..Len(q.prompt)
       /\ Range(q.output) \subseteq {Generated} /\ Len(q.output) <= MaxOutput
  /\ DOMAIN seqs \subseteq SequenceIds /\ Running \subseteq DOMAIN seqs
  /\ phase \in {"idle", "batched", "forwarded"} /\ spoiled \in BOOLEAN /\ preemptions \in 0..MaxPreemptions
  /\ (phase = "idle") = (scheduled = << >>)

\* The keys and values the model would have at a position of a context.
CellsExact(table, ctx, j) ==
  \A l \in Layers, g \in KvHeads :
     LET at == locate(table, j - 1)
         h  == Hidden(l, SubSeq(ctx, 1, j))
     IN  /\ read(arena, l, at, g, FALSE) = Key(l, g, j - 1, h)
         /\ read(arena, l, at, g, TRUE) = Value(l, g, h)

\* As long as no pass was refused, the arena holds, for every sequence and every
\* prompt position a pass has covered, what a model run over that prompt alone
\* would have computed there: in every layer and head, whatever chunks the
\* prompt was cut into, whoever shares its blocks, and whatever other rows of
\* the batch, preempted sequences and recycled blocks left behind.
PromptCellsExact ==
  phase # "batched" /\ ~spoiled => \A id \in Running :
     \A j \in 1..seqs[id].computed :
        CellsExact(cache.tables[id].blocks, seqs[id].prompt, j)

\* Then the logits of a prefill row are those of its own sequence at the end of
\* the chunk, not of another row of the batch nor of a shorter context.  It
\* speaks of sequences without output: the prompt of one that was preempted
\* after its first token is processed again without its output.
PrefillLogitsExact ==
  phase = "forwarded" /\ result.ok /\ ~spoiled => \A i \in DOMAIN scheduled :
     LET r == scheduled[i] IN r.is_prefill /\ seqs[r.id].output = << >> =>
       result.logits[i] = SubSeq(seqs[r.id].prompt, 1, r.start_position + r.num_tokens)

\* No row of a batch fails in the middle of a layer: every position that has a
\* block passes KvStore::check_bounds, so write and read never return early and
\* leave a layer half written.
BoundsHold ==
  phase = "batched" /\ Located(Batch) => \A row \in Rows(Batch), g \in KvHeads :
     LET at == locate(TableOf(Batch, row), Batch.positions[row]) IN
     check_bounds(0, at.block, at.slot, g, Value(0, g, Noise))

\* A refused pass has not touched the arena: the checks on positions, tokens and
\* the rotary table all come before the first write.
RefusedPassWritesNothing == [][phase' = "forwarded" /\ ~result'.ok => arena' = arena]_inferVars

\* A pass does not change what the sequences outside its batch have stored, even
\* where they share blocks with the batch: an adopter rewrites shared blocks with
\* the very same contents, and decode rows write into blocks of their own.
BystandersUndisturbed ==
  [][~spoiled /\ arena' # arena => \A id \in Running :
       (\A i \in DOMAIN scheduled : scheduled[i].id # id) =>
         \A j \in 1..seqs[id].computed, l \in Layers, g \in KvHeads :
            LET at == locate(cache.tables[id].blocks, j - 1) IN
            /\ read(arena', l, at, g, FALSE) = read(arena, l, at, g, FALSE)
            /\ read(arena', l, at, g, TRUE) = read(arena, l, at, g, TRUE)]_inferVars

\* The arena holds what it should, wherever passes have been, and no pass can
\* stop half way through a layer.
ArenaExact == InferTypeOK /\ BoundsHold /\ PromptCellsExact
=============================================================================
