# OrionServe-RS: a TLA+ model of the server

OrionServe-RS is an LLM inference server in Rust. HTTP handlers submit requests
to one engine thread. The thread asks a continuous-batching scheduler which
sequences run in the next step, runs the model over them, samples a token for
each, and sends the tokens to the callers over bounded channels. The scheduler
pays for every sequence with blocks of a paged KV cache, which also keeps the
blocks of old prompts and shares them with new sequences that start alike.

This directory models the server from the command line to the arena of keys and
values, model-checks each part on small instances, and proves every safety
property of the passing runs, and the refinements between the parts, for every
value of the constants. Paths below are relative to `src/crates`.

## 1. Inventory

| part | state | operations | met by |
|---|---|---|---|
| block pool (`orion-kv-cache/block.rs`) | reference counts, free list, token count and hash of each block | allocate, add_ref (revives a free block), release, set_contents, evict_oldest_cached | cache manager |
| block tables (`table.rs`) | blocks and token count of a sequence | push_block, grow, blocks_required; `hash_block` chains the hash of a block to its parent's | cache manager |
| prefix index (`prefix.rs`) | hash to (block, tokens) | lookup, insert, remove, clear | cache manager |
| cache manager (`manager.rs`) | the three above | can_allocate, allocate, commit_prefill, append_token, free, preempt, evict_cached, clear_prefix_cache | scheduler |
| sequence (`orion-core/sequence.rs`) | state, prefill progress, output, finish reason | transition_to, advance_prefill, push_token, finish, preempt | scheduler |
| queues (`orion-scheduler/queue.rs`) | waiting (FIFO) and running (newest last) | push, push_front, pop_newest, remove, drain_where, take_finished | scheduler |
| scheduler (`scheduler.rs`) | queues, cache, configuration | add_request, cancel, schedule, on_token, commit_prefill, reap_finished, expire_timeouts | engine |
| engine (`orion-runtime/engine.rs`) | scheduler, callers' channels | commands (submit, cancel, stats, shutdown), step | API handlers, one thread |
| forward pass (`orion-models/transformer.rs`, `attention.rs`, batch in `orion-core/traits.rs`) | KV arena, one flat array | forward: check the batch, then per layer write and read cells; refuses what does not fit | engine |
| sampling (`orion-runtime/sampling.rs`) | random generators | repetition penalty, greedy, temperature, top-k, top-p, draw | engine |
| API (`orion-api`, parameters in `orion-core/sampling.rs`) | one handler's decoder, matcher and text | validate, submit, collect into a response or an SSE stream, usage | HTTP clients |
| tokenizer (`orion-tokenizer`) | window of an incremental decoder, tail of a stop matcher | push, finish, check | API |
| model files (`orion-models/config.rs`, `loader.rs`, `tensor.rs`) | shards, index, weights | read config.json, list and index shards, load | CLI |
| CLI (`orion-cli`), configuration (`orion-core/config.rs`) | stage, engine thread, open requests, exit code | inspect, serve, signals, draining, join | operator |
| sharding (`orion-distributed`) | none | layout of heads and feed-forward rows for a rank | model |
| quantization (`orion-models/quantization.rs`) | none | quantize, dequantize, error | model |
| kernel check (`orion-cuda`) | none | compare a kernel's output with the reference | tests |
| metrics, benchmarks | counters | | |

Interaction. Everything from the engine inwards runs on one thread, by plain
calls. Concurrency is at the engine's edge: commands arrive over a queue at any
time, callers read their bounded channels slowly or go away, deadlines pass,
signals arrive, the backend fails in the middle of a step. Inside, the
difficulty is sequences that interact through shared blocks, one token budget,
preemption and one arena: a pass of `schedule` is three loops that evict each
other's candidates. Further out it is texts cut at every possible place.

What makes each part correct:

* cache: reference counts equal to holders, free list equal to the unreferenced
  blocks, an index that never names a recycled block, shared blocks that are
  never rewritten, an admission check that is enough;
* scheduler: nobody overtaken, nobody lost, blocks, progress and state that
  agree, the budget kept, no allocation race;
* engine: each caller gets its tokens once and in order and at most one terminal
  event, nobody waits for ever, the scheduler is only called as it expects;
* forward pass: a cell of the arena holds what the position it is read for put
  there, no sequence disturbs another, a refused batch changes nothing;
* API and tokenizer: the text is what the tokens decode to in one piece, however
  it was cut, and ends before the first stop string;
* start-up: what is served is safe to run, and a shutdown cuts nobody off.

Everything found hard to test is listed in `PROJECT.json` under `hazards`, with
the line where it bites and the properties that cover it.

## 2. Modules

| module | models |
|---|---|
| `SeqFilter` | keeping the members of a queue that satisfy a condition (`WaitingQueue::remove`, `drain_where`, `take_finished`, free-list filtering) |
| `KvCache` | the cache manager as operators from one record to the next: `allocate(c, s, p)`, `append_token(c, s)`, `free(c, s)`, ... |
| `KvCacheManager` | the cache as a state machine under the calling protocol of scheduler and engine, plus what each block contains |
| `Sequence` | one sequence as a record: transitions, progress, finish, preempt, the stop test of the scheduler |
| `Scheduler` | the queues and every state-changing method; extends `KvCache` and `Sequence` |
| `RequestStream` | abstract: what the engine promises the caller of one request |
| `Engine` | the engine thread and its callers; extends `Scheduler`, implements `RequestStream` for every request |
| `Transformer` | the forward pass as operators on the arena and the batch; extends `KvCache` |
| `Inference` | engine steps over `Transformer`: admit, grant rows, forward, record tokens, commit, preempt |
| `Tokenizer` | decode, the incremental decoder and the stop matcher as operators |
| `Api` | one HTTP request from its validation to its answer; extends `Tokenizer` and takes `RequestStream` as the engine's side of the channel |
| `Sampler`, `Quantization`, `Sharding`, `KernelCheck` | the pure algorithms |
| `Numerics` | runs each of them on every small input, one step per filter, rank or phase |
| `Configuration` | the validations, the flags, the limit in force |
| `Checkpoint` | config.json to metadata, shards, index, weights by their shapes, the shape checks of the forward pass |
| `Startup` | the process from its arguments to its exit code; extends the last two |
| `MC...` | the small instances |
| `EngineClaims`, `InferenceClaims`, `ApiClaims` | statements of comments and documents that the code does not satisfy |
| `SequenceLemmas`, `KvCacheLemmas`, `KvCacheProofs`, `EngineProofs`, `ApiProofs`, `StartupProofs`, `NumericsProofs`, `InferenceProofs` | lemmas and theorems |

`RequestStream` joins the two halves of the system: `Engine` implements it
(`KeepsPromise`, with the events sent and the state of the sender as the
mapping), and `Api` assumes nothing of the engine but it. In the same way
`Engine` takes only steps that `Scheduler` has (`DrivesScheduler`), so what is
checked and proved of the scheduler holds inside the engine. Both refinements
are checked by TLC and proved.

How the code is read:

* The cache is a record so that one step of the scheduler can make several
  calls (`preempt_one` then `append_token`). `allocate` is the method with its
  two loops (adopt, then take fresh blocks) and its duplicates check. Its
  rollback is not a branch of the operator: `AllocationNeverRollsBack` is the
  statement that it is dead code, and `Allocate` of the state machine would
  produce an ill-typed cache if it were not.
* `hash_block` is a constant. `CollisionFreeAssumption` says that no two
  prefixes of the prompts share a digest. `lookup` compares the tokens of one
  block only, so nothing could be said without it. In the instances a hash is
  the prefix itself.
* A scheduling pass is one step per loop iteration (`pc`, `todo`). `todo` is the
  vector of candidates the code collects before it starts evicting. Nothing
  comes between the steps of a pass, as the methods take `&mut self`.
* Iteration over a Rust hash map is never observable in the modelled code, so no
  order is chosen. Statistics counters, logging and wall-clock times are left
  out; a deadline is the action `expire_timeouts(d)`: requests arrive in order
  and share one timeout, so those past it are a prefix `1..d` of the arrivals.
* In the scheduler an output is its length, since nothing there reads the
  tokens. The token being a stop token is a free choice (`is_stop`).
* The engine's step is its phases with every early return: `ForwardFails`,
  `RowMissing`, `StepEmpty`. A failed step leaves what `schedule` did.
  Channels are the sequence of everything sent, a count
  of what was taken, and whether the receiver lives; `try_send` loses the event
  when the channel is full or closed, as in the code.
* In `Transformer` a number is what it was computed from. A hidden state is the
  tokens it is a function of, an element of the arena is the layer, key or
  value, head, dimension, rotary position and hidden state it was projected
  from; attention that reads anything but the keys and values of its exact
  context yields `Noise`. Offsets into the flat array are the code's, so a wrong
  stride writes where the code would write. `Inference` replaces the scheduler
  by everything it could grant.
* A text is a sequence of abstract characters with byte widths; U+FFFD stands
  for an incomplete character and is wider than it, which is what makes byte
  offsets difficult. The vocabulary file is a function from tokens to bytes.
* A tokenizer may strip the space that begins a text (`strips_first_space`), as
  those of Llama and Mistral do. `push` then decodes a window that begins with a
  space without it. `Intact` says when this cannot have happened: the window
  starts where the text does, or no token begins with a space. What `push` does
  otherwise is modelled too, the panic of a slice inside a character included
  (`PushPanics`); it is the exactness of the text that is stated for an `Intact`
  decoder.
* `Sampler` and `Quantization` use integers and exact fractions. A range beyond
  which numbers become infinite, a masked value that is finite, and an `exp`
  that underflows stand for what floats do at the edges; i32 saturates and wraps.
* A step of `Startup` is a stage of `serve` up to its next early return. The
  sorted list of shards is the listing that increases, whatever order
  `read_dir` gave it. `shutdown_signal()` is polled only once the server runs;
  `AwaitSignal` installs its handlers, or fails to: either failure makes it ready
  at once. `Signal(s)` resolves it or, without a handler, kills the process. A
  request is `arriving` until its body is complete (the `Json` extractor waits
  for it without a deadline), and only then `open`, that is with the engine.
* `ReportExact` and the other properties of `Numerics` are stated over sets of
  positions, never by the loop they check; that the KV cache is shared equally
  is stated per rank, times the number of ranks.
* Definitions whose name is another's with a suffix (`NeedsBlock_OffByOne`,
  `Requeued_AtBack`, ...) are deliberate bugs. They are used by no
  specification: each property of a passing run is shown to fail when one of
  them replaces the definition it is named after.

## 3. Runs

Passing:

| run | instance | shows |
|---|---|---|
| `cache` | 3 sequences, 3 blocks of 2 tokens, three prompts (equal first block, repeated block, partial last block), tables up to 5 tokens | books exact, index never stale, published and adopted contents right, shared blocks never rewritten, no rollback |
| `scheduler` | 3 requests, 3 blocks, budget 4, decode first, chunked, prefix cache, timeouts | FIFO, nobody lost, blocks and progress match the state, budget, admission, limits and finality of outputs |
| `engine` | 2 requests, prefill first, channels of 2, 1 backend fault, timeouts, cancellation, shutdown | callers served once, in order and closed for good; the engine implements `RequestStream` for each and refines `SchedSpec`; the budget and the match of blocks, progress and state under this order of the scheduler's loops and after failed steps |
| `engine_live` | 2 requests, 6 blocks, channels of 1, 1 fault | every accepted request ends |
| `api` | a chat request with two stop strings, streamed or not, a completion with echo, and the odd requests; a tokenizer that strips the first space; tokens of two characters, of a space and a letter, and of half a character each; 6 tokens; a channel of 2; a decoder window of 2 | decoded text exact while the decoder is `Intact`, stop strings found exactly, answers and their usage exact, streams exact up to a stop string in two pieces and what is held back to the end, no handler stuck although `push` may panic |
| `forward` | 2 sequences, 3 blocks of 2, 2 layers, 4 query heads over 2 KV heads of 2 dimensions, 4 rotary positions, 1 preemption | prompt cells exact through sharing, recycling, chunks and preemption; prefill logits of sequences without output exact; refusals write nothing; other sequences undisturbed |
| `numerics` | up to 3 logits of three values with four temperatures, three top-k, three top-p, four penalties; up to 5 weights in groups of 2; up to 8 heads over up to 4 ranks; up to 2 outputs with a NaN and an infinity | each algorithm agrees with what it is for |
| `startup` | good and bad flags with good directories, good flags with directories with one flaw each; 2 requests whose bodies may never arrive; handlers that fail to install; signals at any time | limits safe for the scheduler, and past the model's rotary table only when `--max-model-len` is; a loaded model runs and does not depend on the listing order; shutdown orderly; a signal ends the server unless a client keeps it waiting |

Some properties are conjunctions of named parts, which is how they are checked
and how a reader should look them up: `ContentsExact`, `BlocksMatchState`,
`OutputsFinal`, `CallersServed`, `DecoderExact`, `AnswerExact`, `ArenaExact`,
`SampleExact`, `QuantizationExact`, `LayoutExact`, `LimitsSafe`,
`CheckpointSound`, `ShutdownOrderly`.

Bounds.

* Block size 2 is the smallest for which a block can be empty, partial and full;
  the configuration's own minimum (4) is checked at start-up and plays no part
  in the logic. Three blocks are fewer than two or three of the requests need,
  so sharing, revival, recycling, preemption and failure to admit all happen.
  Three sequences are what it takes for a block to be shared by two, freed and
  adopted by a third. A budget of 4 splits the longer prompt when two are
  waiting. `MaxRequests`, `MaxTokens`, `MaxFaults`, `BufferSize`,
  `MaxPreemptions`, `MaxRows` and `MaxOutput` bound the counters.
* `api`: six tokens are what it takes for a window of 2 to move to a token that
  begins with a space, for its text to come out one byte short, and for a later
  token to be cut or to make `push` panic; a window also starts inside a
  character. Tokens of two characters let a stop string begin and end anywhere
  in them and come in two or three pieces; one stop string holds a character
  that is split over tokens, the other ends with the space that may be stripped.
  `Capacity` 2 makes the channel full.
* `forward`: four rotary positions let a refusal for a position happen beside
  refusals for a missing slot; two layers show a refusal after a layer was
  written; four query heads over two KV heads tell every head mapping apart.
  After a refused pass the model waits until the cache has emptied (`spoiled`):
  see the known departures for what the code does instead.
* Whole prompts (without chunked prefill) are in no run; the theorems about the
  scheduler cover them, as they do every order and limit.
* `numerics`: a finite range of 64 with a temperature of 1/32 and a penalty of
  32 leaves it; the masked value -48 lies among scaled logits, which is what
  `InRange` guards against in the code's terms. Weights below 2^4 and an i32 of
  2^11 keep the relation of f32's precision to the width of i32; `Countable`
  says a group's weights, counted in steps of its scale, fit.
* `startup`: each directory has at most one flaw, as a stage stops at the first.

Deadlock is checked in `scheduler` and in `api`, where it means that
every request that arrives is answered or abandoned by its client. The others
may legitimately have nothing to do.

Fairness. `FairEngineSpec` adds weak fairness of `Step` only: the thread loops
without waiting while there is work, and commands, being finite in number,
cannot keep it from its step. Nothing is assumed of callers; one that never
reads is let go of when its channel is full. The liveness run gives every
request its blocks, because without that the property is false (see
`claim_never_livelocks`). `Startup` assumes that the process and the engine
thread are scheduled and that every request the engine has ends, by its timeout
if by nothing else (the engine retires what is past its deadline in every step).
A request whose body has not arrived is not with the engine and nothing is
assumed of it, nor of clients who do not read, nor of signals. So
`SignalEndsServer` allows for a server that waits for such a client, and for
nothing else: the graceful shutdown has no deadline.

Violations. Each of these runs checks what a comment or document says, and TLC
finds the behaviour of the code against it; `findings` quotes the lines.

| run | what happens |
|---|---|
| `claim_never_livelocks` | two requests do not fit together: the loop over decodes evicts the newer for the older, then the older for the newer, whose entry among the candidates is stale (`scheduler.rs:288`); both are admitted again in the same pass, and the older one's decode row, one past its reserved slot, makes every forward pass fail |
| `claim_sampled_from_context` | a token is drawn from logits that are not those of its context: the first decode pass after a prefill puts the newest token one position too far and attends to a slot no pass has written. The statement has a second part, which the code fails too: after a preemption the prompt is prefilled without the tokens produced before (`preempt_one`, `engine.rs:459`) |
| `claim_decodes_in_context` | the window moves to a token whose space the tokenizer strips; the offset is then too large and later text is never emitted |
| `claim_streaming_agrees` | a stop string comes in two pieces: a stream sends all of it, a whole answer is cut before it |

Known departures without a run of their own, met while modelling. Where one
concerns what a passing run checks, the property is stated so as to hold of the
code as it is.

Scheduler and engine:

* `schedule` advances `computed_prefix_len` before the forward pass and nothing
  takes it back when the pass fails. After a failed first chunk the second
  completes the prompt, and blocks are published that no pass has written
  (`engine.rs:310`; `docs/inference-runtime.md:62` says publishing comes after
  the forward pass, lest another sequence "adopt blocks holding uninitialized
  memory"). `Inference` therefore stops at a refused pass.
* A sequence that timed out in its prefill and is then preempted comes back to
  the running queue without blocks (`scheduler.rs:319`; `queue.rs:97` says the
  running set holds blocks).
* Prefill first, a sequence can have a prefill row and a decode row in one batch
  (`scheduler.rs:245`, against the one token each of `scheduler.rs:12`).
* The decode row's position is one past the slot reserved for it, so at a block
  boundary the batch is refused (`scheduler.rs:283` after `:278`).
* The engine's shutdown drops what is in flight (`engine.rs:518`, against "after
  draining in-flight work", `engine.rs:172`). The server stops it only when its
  requests are done, which is what `ShutdownOrderly` shows.
* The terminal event is dropped when the last token fills a slow caller's
  channel (`engine.rs:403`).
* An empty prompt is never granted a chunk and blocks the head of the queue until
  its timeout (`scheduler.rs:194`).
* `prompt_len + max_tokens` is unchecked and wraps in a release build
  (`scheduler.rs:184`).

API and tokenizer:

* What was held back to the end of a stream is sent unexamined: a stop string
  completed by it is not cut (`routes.rs:351`).
* A request the engine drops is answered as a success that ended with "length"
  (against `error.rs:126`, "Every in-flight request fails this way").
* `/v1/completions` ignores `stream`; tokenizer errors are answered with status
  400 and the type "server_error"; `StreamEvent::Error` is built by nobody.

Start-up and numbers:

* `--max-model-len` may be greater than the model's own length (`main.rs:206`; the
  comment at `main.rs:203` speaks of a smaller one). Requests that use the
  difference fail in the middle of their generation, at the first position past
  the rotary table.
* A signal handler that cannot be installed shuts the server down at once and
  with success (`main.rs:279` discards the error, `main.rs:288` warns; either
  completes the select), where `main.rs:272` says the future resolves on a
  signal. `AwaitSignal` models it; `ShutdownOrderly` holds of it as well.
* `config.rs:225` documents `shutdown_grace_secs` as the grace period for requests
  in flight. Nothing reads it: a client that never sends the rest of its request,
  or never reads the response, keeps a server that was told to stop draining.
* Qwen2 weights without their biases load (`config.rs:130` of `orion-models`).
  The arena is reserved before the second validation.
* `max_request_bytes`, `enable_metrics`,
  `gpu_memory_utilization` and the swap mode of preemption are validated and
  never used; `max_concurrent_requests` is only the depth of the command
  channel; the metrics' recording functions are called by nobody.
* A tiny temperature sends the scaled logits out of range and the draw is uniform
  or fails, where `sampling.rs:64` says lower sharpens.
* In INT8, a group whose spread is tiny against its magnitude saturates an i32.
* `hidden_size` 0 with an explicit `head_dim` loads and panics in `rms_norm`
  (`tensor.rs:145`): `CheckpointSound` speaks of models that have features. A tokenizer
  with more tokens than the model is not refused; such a token fails whole
  batches until its request times out.

## 4. Proofs

The proofs hold for every value of the constants the named assumptions allow:
any number and size of blocks, any prompts, any configuration, any number of
requests, any model directory, any number of ranks, layers and heads, any
vocabulary and texts, logits and weights of any length. `tlapm` checks each of
them to the last leaf.

| module | proves |
|---|---|
| `SequenceLemmas` | `Filter` keeps the elements of a queue that pass a test: its type, order, injectivity and length; a fold over a sequence goes from one element to the next; partial sums and what a flattened sequence has where; induction on the naturals, over a set |
| `KvCacheLemmas` | one lemma per method of the cache manager: the invariant of the cache is kept |
| `KvCacheProofs`, about `KvCacheManager` | `CacheTypeHolds`, `RefCountsHold`, `FreeListHolds`, `TablesHold`, `IndexHolds`, `HashesHold`, `NeverRollsBack`, `ContentsHold`, `SharedBlocksStayFrozen`, `EntriesOutlive` |
| `EngineProofs`, about `Scheduler` | `ArrivalOrderHolds`, `NobodyLostHolds`, `SchedTypes`, `BudgetHolds`, `BlocksMatchStateHolds`, `AdmissionSafe`, `OutputsAreFinal` |
| `EngineProofs`, about `Engine` | `EngineTypes`, `CallersAreServed`, and the refinements `EngineDrivesScheduler`, `EngineKeepsPromise` |
| `StartupProofs`, about `Startup` | `StartIndHolds`, `LimitsHold`, `ShutdownHolds`, `CheckpointHolds` |
| `ApiProofs`, about `Api` and `Tokenizer` | `ApiInvariant`, `ApiTypesHold`, `StopFoundHolds`, `UsageHolds`, `DecoderHolds`, `AnswerHolds`, `StreamHolds`, all for any tokenizer |
| `NumericsProofs`, about `Numerics` | `LayoutHolds`, `ReportHolds`, `QuantizationHolds`, `SampleHolds` |
| `InferenceProofs`, about `Inference` | `ArenaHolds`, `LogitsHold`, `RefusalWritesNothing`, `BystandersHold` |

`Filter` is defined by ranks of indices rather than by recursion, so that it can
be reasoned about; TLC checks on every run of `MCKvCache` that it equals
`SelectSeq`.

**The cache.** The inductive invariant `CacheInd` is `CacheInv` of the cache
with the prompts of the live sequences (`KvCacheLemmas`), plus the types and
domains of the recorded requests and of the written contents. None of its parts is inductive alone. Reference counts are
right only while tables are duplicate-free; the free list is right only while
counts are; a table keeps its length only while its last block is its own.
Two parts, which together are `HashesMatchHolders`, carry the argument:

- `HashesOwned`: the hash of a prompt block that is published is the hash of
  its holder's prefix. Without it `commit_prefill` by a second holder could
  replace the hash of a block and leave a stale index entry behind.
- `SharedHashed`: a block with two holders is published. Since only full prompt
  blocks are, `append_token`, which clears the hash of the block it writes
  (`manager.rs:333`), never writes a shared one.

There is one lemma per method: `NewInv`, `AllocateInv`, `CommitInv`,
`AppendInv`, `FreeInv`, `EvictInv`, `ClearInv`. `AllocateInv` rests on
`ReusedHits` (what the loop adopts is a run of the prompt's own prefix),
`AdoptedBlocks` (it adopts no block twice) and `AllocationRoom` (the check at
`manager.rs:176` leaves enough free blocks for the rest, adoption included), of
which `NeverRollsBack` is the consequence: the roll-back at
`manager.rs:235-241` is dead code. `ContentsHold` adds what has been written: a
block of a table holds its sequence's tokens, and an indexed block the tokens
its key stands for, because every write of a step goes to a block that step's
sequence holds alone. Assumptions used: `SizesAssumption`,
`PromptsAssumption`, `HashAssumption`, `GeneratedAssumption` and
`CollisionFreeAssumption` (the code compares the tokens of a hit, see section
2, but not those of the blocks before it, so a 64-bit collision is excluded by
assumption and not by the code).

**The scheduler.** `LineInv`: the running queue followed by the waiting queue is
a strictly increasing list of ids whose elements are exactly the sequences that
exist. Admission moves the boundary by one, preemption moves it back, removal
filters the list: each keeps it sorted, which is why preempting the newest and
re-queueing at the front never lets a request overtake an earlier one. It needs
`IdsAssumption` only: no bound of the configuration matters. The other theorems
need more, which `SchedInd` collects:

- `CacheInv` of the cache inside the scheduler, kept by the lemmas of
  `KvCacheLemmas`: each method of the scheduler calls the manager as that
  method's lemma requires.
- `SeqOK`, for each sequence: its state against its progress, its output
  against `max_tokens` and the reason it ended with, and that its prompt fits
  the whole pool. The last part is what makes admission of the head of an empty
  batch certain (`AdmissionSafe`).
- `Located`: only running sequences have tables, what is `Waiting` is in the
  waiting queue, and a sequence that prefills or decodes has a table for its
  whole prompt. The candidates of the loop over partial prefills are collected
  before it starts, so that they still run is a part of its own.
- `BudgetKept` itself, as `used` is the number of tokens of the rows only if
  each row is counted as it is appended.

Further assumptions: `ConfigAssumption`, `ParamsAssumption` and
`NoReasonAssumption`.

**The engine.** `EngineInd` is `SchedInd` and what the engine adds: where in
its step it is and what the scheduler may then be in the middle of (`Control`),
whose channels it keeps (`CallersExact`), and what each channel carries
(`Channels`: what was sent to a kept caller is exactly the output of its
sequence, but for the token that has just failed to go). `CallsAllowed` shows
that every step of the engine is a step of the scheduler or leaves it alone; it
is both the refinement `DrivesScheduler` and the reason that `SchedInd` need not
be proved again. `KeepsPromise` then follows request by request, since a step
of the engine changes each channel in one of the ways of `RequestStream` or not
at all. Assumption: `EngineAssumption`.

**A request.** Three invariants, one on top of the other:

- `DecoderOK`, of the decoder between two calls: what it has emitted is the text
  of the tokens that left the window, which ends in no open character, and of
  the window's text all but the characters held back; `window_emitted` is the
  width of the latter. It rests on `LossyJoined`: lossy UTF-8 can be cut between
  any two bytes but the two of one character, so text without its open end only
  grows (`DecodeGrows`). `PushOK` takes the two halves of `push` in turn. The
  window may move while a character is half in and half out of it; between the
  halves only `Partly` holds, and the slice still falls on a boundary.
- `MatcherOK`, of the matcher against the text so far: its buffer is an end of
  the text, and either all of it or at least as wide as the longest stop string.
  A stop string that the next piece completes and that was not there before then
  lies in the buffer and the piece (`OccursInEnd`), whatever the two byte counts
  cut (`FeedOK`).
- `ApiInd`, of the handler: in its loop it has taken tokens only, as many as it
  counts, its text is what the decoder emitted and has no stop string; on the way
  out the text is whole, or whole but for an unfinished character if no terminal
  event came. `RequestInd` is the part that holds of any tokenizer; `TextInd` is
  the part about what text it is.

With a tokenizer that strips a first space, `DecoderOK` is kept as long as the
decoder is `Intact`. In a window that starts where the text does, stripping is
what `decode` of the whole does too (`DecodeGrows`, `KeptParts`); if no token begins
with a space, no window begins with one that stripping could take
(`LossyUnspaced`, `CleanBytes`). `Intact` is never regained
(`IntactKept`), so an intact decoder has been so all along and nothing need be
assumed of the tokenizer. That no stop string is missed or invented in what was
emitted, and the usage, hold of any decoder. `StreamExact` says when a stream
has sent more than a whole answer would hold (`CutPieces`); that it does is
`claim_streaming_agrees`. The engine's side of
the channel is `RequestStream`, which `EngineKeepsPromise` says the engine
implements. Assumptions: `TokenizerAssumption` (a token is a sequence of bytes,
the window is at least 1), `RequestsAssumption`, `BoundAssumption`.

**Start-up.** `StartInd` records what each stage of `serve` leaves for the
later ones: the metadata is that of the directory's config (`HasMetadata`), the
index maps each name to the first shard, in file order, that has it
(`HasIndex`), the weights are those the index finds and passed every check of
`load` (`HasWeights`), the limits are those the flag and the model give
(`HasLimits`), and the engine is not told to stop, for whatever reason
`shutdown_signal()` was ready, before the last request has its answer or its
client has gone (`Orderly`). `CheckpointHolds` does not
follow from one step: it joins the checks of `load`, made at one stage, to the
shape checks of every layer, made at another. Assumption: `LaunchAssumption`
(what clap and serde parse into a `usize` is a natural number; a directory has
finitely many shards).

**The layout.** `LayoutInd`: the layouts computed so far are those of the first
ranks, each of which `compute` accepted. The rest is arithmetic: exact division
gives every index exactly one owner (`OneOwner`), and a query head's group lies
in the span of its rank because the group size divides the span (`HeadsFollow`).
Assumption: `JobsAssumption` (the metadata has passed its own validation).

**Quantization.** `QuantInd` says only what each of the two steps computes; the
rest is about the operators. Writing a nibble and reading it back is the
identity, for an odd number of them too (`PackedIsUnpacked`), and position `i`
of the output belongs to the group and the place that `i` was put in
(`PartAndPlace`, `Regrouped`). Within a group a rounded level is at most half a
step off (`RoundingError`), one that saturates the i32 at most one step too low
(`SaturationError`), and the subtraction of the zero point does not wrap in a
`Countable` group (`FitsWithoutWrap`): together one step of the scale
(`RebuiltWithin`).
`ErrorGrows` is the induction along the fold of `max_abs_error`. Assumptions:
`QuantAssumption`, `JobsAssumption`.

**Sampling.** `SampleInd` says which row each filter works on. Per filter: a
penalty moves no logit the wrong way (`PenalisedIs`); the fold of `argmax` ends
at the first of the largest (`ArgmaxIs`); the k-th largest leaves at most k
above it and its ties (`KthIs`, by counting); weights fall as logits do
(`WeightsFall`, `SoftmaxIs`); a prefix of the sorted weights that crosses
`top_p` is a nucleus, whatever the order among equals (`CutoffIs`,
`TopPNucleus`). The filters and the properties sum weights along sequences and
over sets. `HeapIs` counts a sum as the pairs below its terms, so that a sum does
not depend on the order it was made in (`MassIs`). Assumptions:
`FloatAssumption`, and `JobsAssumption`: logits are finite and the parameters
passed `SamplingParams::validate`.

**The forward pass.** `InferInd` says what the arena holds (`Known`: under every
position that an earlier pass covered, the keys and values of a run over that
prompt alone), with `CacheInv` of the block tables and the shape of the granted
rows (`Granted`: each sequence at most once, a chunk that ends where its prompt
now counts as computed, a decode row only past its prompt). While a batch is
under way its own chunks count as computed although they are not, hence `Done`.
The argument has four parts, each for every shape:

- the offsets of `slot_offset` are numbers in a mixed base, so two different
  places never share an element (`OffsetsDistinct`), and a read returns exactly
  what was last written to its place (`ReadAfterWrite`);
- rows, offsets and sequences of the ragged batch correspond (`OffsetsAddUp`,
  `BatchRows`);
- two block tables give a position of a prompt the same cell only if it is the
  same position after the same tokens (`TablesMeet`, from `HashesOwned`,
  `SharedHashed` and `CollisionFreeAssumption`). So whoever writes a covered
  position of another prompt writes what is there already (`WriteKeepsRight`);
- in a layer all rows are written before any attends, and what a row attends to
  was done by earlier passes or is a row of the batch (`EarlierRows`), so
  attention sees exactly its context (`AttentionExact`) and the next layer gets
  the right hidden states (`LayerStep`, and `LayersExact` by induction).

`BystandersHold` follows from `Known` before and after. Assumptions:
`ModelAssumption`, `InferenceAssumption` and those of the cache. As in the runs,
nothing is said of the arena after a refused pass until the cache has emptied,
nor of decode positions or prefills after output (`claim_sampled_from_context`).

**Folds.** The library's induction theorems take an operator, which no backend
can instantiate. `NatInductionOn` is induction over a set, from the
well-foundedness of the naturals (`LeastOf`); `FoldExists` shows that the
recursive function a fold chooses exists, and `FoldPrefixes` that it goes from
one element to the next. `ReportGrows` is the comparison of a kernel in that
form; `ReportStaysSound` is the induction step, and `WithinTolerance` relates
the larger of two tolerances to the two tests of the code. Assumption:
`ToleranceAssumption`.

**Only model-checked.** Liveness (`EveryRequestEnds`, `SignalEndsServer`) and the
absence of deadlock: fairness and ENABLED are out of the prover's reach. So is what
the recursive `chain_hash` of the instances computes; the proofs use hashes only
through the assumptions on them. The `claim_` runs show counterexamples and have
nothing to prove. Every other property of a passing run is stated by a theorem.

## 5. Not modelled, and the plan

Not modelled: the arithmetic of the model (norms, products, softmax are numbers
TLC has no use for; their shapes are in `Checkpoint` and their inputs in
`Transformer`), the formats of safetensors and of the vocabulary file, the chat
template, the repeatability of a seeded generator, the collectives of a
distributed group (only a group of one exists, where they are the identity), the
CUDA device (opening one always fails), metrics and benchmarks (they count and
measure), the read-only endpoints.

Possible extensions:

1. `Inference` under the scheduler's own grants instead of any grants, on an
   instance that TLC still finishes;
2. `Api` over `Engine` itself instead of over its promise, for two requests.
