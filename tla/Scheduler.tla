----------------------------- MODULE Scheduler -----------------------------
(***************************************************************************)
(* The continuous-batching scheduler: crates/orion-scheduler, with the     *)
(* sequences of orion-core and the block cache of orion-kv-cache.          *)
(*                                                                         *)
(* schedule() is a pass of several steps, one for each iteration of its    *)
(* loops; `pc' says which loop it is in.  The methods are called from one  *)
(* thread, so between passes (pc = "idle") any of them may come next, and  *)
(* during a pass none.  The statistics counters are left out.              *)
(***************************************************************************)
EXTENDS KvCache, Sequence

CONSTANTS
  max_num_seqs, max_num_batched_tokens, max_waiting_requests, max_model_len,
  enable_chunked_prefill, prioritize_decode, timeouts_enabled,
  Params,        \* what requests ask for: [max_tokens, min_tokens]
  MaxRequests    \* bound: requests accepted in a behaviour

\* SchedulerConfig::validate, and SamplingParams::validate for Params.
ASSUME ConfigAssumption ==
  /\ max_num_seqs \in Nat \ {0} /\ max_waiting_requests \in Nat \ {0}
  /\ max_num_batched_tokens \in Nat /\ max_num_batched_tokens >= max_num_seqs
  /\ max_model_len \in Nat \ {0}
  /\ {enable_chunked_prefill, prioritize_decode, timeouts_enabled} \subseteq BOOLEAN
  /\ ~enable_chunked_prefill => max_model_len <= max_num_batched_tokens
ASSUME ParamsAssumption ==
  \A r \in Params : /\ r \in [max_tokens : Nat \ {0}, min_tokens : Nat]
                    /\ r.min_tokens <= r.max_tokens
ASSUME IdsAssumption == MaxRequests \in Nat /\ SequenceIds = 1..MaxRequests

VARIABLES
  cache,        \* the KvCacheManager
  seqs,         \* id -> Sequence, for those the scheduler has not let go of
  next_id,      \* SequenceId::next
  waiting,      \* WaitingQueue: ids, next to admit first
  running,      \* RunningQueue: ids, newest last
  expired,      \* the requests 1..expired are past their deadline
  pc,           \* the loop of schedule() or reap_finished() in progress
  todo,         \* ids that loop has still to visit (candidates)
  scheduled,    \* SchedulerOutput::scheduled
  used          \* tokens of the budget given out in this pass

queueVars == <<cache, seqs, waiting, running>>
schedVars == <<cache, seqs, next_id, waiting, running, expired,
               pc, todo, scheduled, used>>

budget == max_num_batched_tokens

Row(id, n, start, prefill) ==
  [id |-> id, num_tokens |-> n, start_position |-> start, is_prefill |-> prefill]

SchedInit ==
  /\ cache = new /\ seqs = Empty /\ next_id = 1
  /\ waiting = << >> /\ running = << >>
  /\ expired = 0
  /\ pc = "idle" /\ todo = << >> /\ scheduled = << >> /\ used = 0

-----------------------------------------------------------------------------
(* The methods called between passes.                                       *)

Accepts(p, r) ==
  /\ Len(waiting) < max_waiting_requests
  /\ Len(p) + r.max_tokens <= max_model_len
  /\ blocks_required(Len(p)) <= num_blocks

\* A refused request changes nothing but a counter.
add_request(p, r) ==
  /\ pc = "idle" /\ next_id <= MaxRequests
  /\ Accepts(p, r)
  /\ seqs' = [id \in DOMAIN seqs \cup {next_id} |->
        IF id = next_id THEN NewSequence(p, r.max_tokens, r.min_tokens)
        ELSE seqs[id]]
  /\ waiting' = Append(waiting, next_id)
  /\ next_id' = next_id + 1
  /\ UNCHANGED <<cache, running, expired, pc, todo, scheduled, used>>

Dropped_KeepsBlocks(id) ==
  /\ waiting' = Filter(waiting, SequenceIds \ {id})
  /\ running' = Filter(running, SequenceIds \ {id})
  /\ seqs' = Without(seqs, {id}) /\ UNCHANGED cache
\* Only a running sequence has blocks to give back.
Dropped(id) ==
  /\ waiting' = Filter(waiting, SequenceIds \ {id})
  /\ running' = Filter(running, SequenceIds \ {id})
  /\ cache' = IF id \in Range(running) THEN free(cache, id) ELSE cache
  /\ seqs' = Without(seqs, {id})

cancel(id) ==
  /\ pc = "idle" /\ id \in DOMAIN seqs
  /\ Dropped(id)
  /\ UNCHANGED <<next_id, expired, pc, todo, scheduled, used>>

\* Running sequences past the deadline are finished where they are, to be
\* reaped; waiting ones are dropped.
expire_timeouts(d) ==
  LET late == 1..d IN
  /\ pc = "idle" /\ timeouts_enabled
  /\ d \in expired..next_id - 1 /\ expired' = d
  /\ waiting' = Filter(waiting, SequenceIds \ late)
  /\ seqs' = [id \in DOMAIN seqs \ (Range(waiting) \cap late) |->
        IF id \in Range(running) \cap late THEN finish(seqs[id], "Timeout")
        ELSE seqs[id]]
  /\ UNCHANGED <<cache, next_id, running, pc, todo, scheduled, used>>

on_token(id, is_stop) ==
  LET q == push_token(seqs[id])
      r == stop_reason(q, is_stop)
  IN  /\ pc = "idle" /\ id \in Range(running)
      /\ seqs' = [seqs EXCEPT ![id] = IF r # NoReason THEN finish(q, r) ELSE q]
      /\ UNCHANGED <<cache, next_id, waiting, running, expired, pc, todo,
                     scheduled, used>>

CommitPrefill(id) ==
  /\ pc = "idle" /\ id \in Range(running) /\ is_prefill_complete(seqs[id])
  /\ cache' = commit_prefill(cache, id, seqs[id].prompt)
  /\ UNCHANGED <<seqs, next_id, waiting, running, expired, pc, todo,
                 scheduled, used>>

-----------------------------------------------------------------------------
(* reap_finished: take the finished sequences out of the running queue and  *)
(* free their blocks in that order.                                         *)

FinishedRunning == Filter(running, {id \in DOMAIN seqs : is_finished(seqs[id])})

reap_finished ==
  /\ pc = "idle" /\ FinishedRunning # << >>
  /\ pc' = "reap" /\ todo' = FinishedRunning
  /\ UNCHANGED <<queueVars, next_id, expired, scheduled, used>>

ReapOne ==
  /\ pc = "reap" /\ todo # << >>
  /\ Dropped(Head(todo))
  /\ todo' = Tail(todo)
  /\ UNCHANGED <<next_id, expired, pc, scheduled, used>>

ReapDone ==
  /\ pc = "reap" /\ todo = << >>
  /\ pc' = "idle"
  /\ UNCHANGED <<queueVars, next_id, expired, todo, scheduled, used>>

-----------------------------------------------------------------------------
(* schedule(): decodes, then partial prefills and admissions, or the other  *)
(* way round.  A loop over running sequences visits those that were in the  *)
(* queue, in the right state, when it began.                                *)

Candidates_NoPartials(loop) ==
  IF loop = "decodes"
    THEN Filter(running, {id \in DOMAIN seqs : seqs[id].state = "Decoding"})
    ELSE << >>
Candidates(loop) ==
  CASE loop = "decodes"  ->
         Filter(running, {id \in DOMAIN seqs : seqs[id].state = "Decoding"})
    [] loop = "partials" ->
         Filter(running, {id \in DOMAIN seqs :
                            /\ seqs[id].state = "Prefilling"
                            /\ ~is_prefill_complete(seqs[id])})
    [] OTHER -> << >>

Enter(loop) == pc' = loop /\ todo' = Candidates(loop)

schedule ==
  /\ pc = "idle"
  /\ Enter(IF prioritize_decode THEN "decodes" ELSE "partials")
  /\ scheduled' = << >> /\ used' = 0
  /\ UNCHANGED <<queueVars, next_id, expired>>

\* preempt_one: the newest running sequence, back to the front of the queue.
Victim == running[Len(running)]

Requeued_AtBack(q, id) == Append(q, id)
Requeued_Forgotten(q, id) == q
Requeued(q, id) == <<id>> \o q

\* c is the cache preempt_one leaves.
preempt_one(c) ==
  /\ running # << >>
  /\ c = free(cache, Victim)
  /\ running' = SubSeq(running, 1, Len(running) - 1)
  /\ waiting' = Requeued(waiting, Victim)
  /\ seqs' = [seqs EXCEPT ![Victim] = preempt(@)]

DecodeRow(id) == Row(id, 1, total_len(seqs[id]), FALSE)

Granted(row) == scheduled' = Append(scheduled, row) /\ used' = used + row.num_tokens

\* One iteration of schedule_decodes: the slot is there, ...
DecodeGrant ==
  /\ pc = "decodes" /\ todo # << >> /\ used < budget
  /\ append_ok(cache, Head(todo))
  /\ cache' = append_token(cache, Head(todo))
  /\ Granted(DecodeRow(Head(todo)))
  /\ todo' = Tail(todo)
  /\ UNCHANGED <<seqs, next_id, waiting, running, expired, pc>>

\* ... or somebody is preempted and the slot tried for once more.
DecodePreempt ==
  LET id == Head(todo) IN
  /\ pc = "decodes" /\ todo # << >> /\ used < budget
  /\ ~append_ok(cache, id)
  /\ \E c \in {free(cache, Victim)} :
        /\ preempt_one(c)
        /\ \/ /\ append_ok(c, id)
              /\ cache' = append_token(c, id)
              /\ Granted(DecodeRow(id))
           \/ /\ ~append_ok(c, id)
              /\ cache' = c
              /\ UNCHANGED <<scheduled, used>>
  /\ todo' = Tail(todo)
  /\ UNCHANGED <<next_id, expired, pc>>

DecodesDone ==
  /\ pc = "decodes"
  /\ todo # << >> /\ used < budget =>
       ~append_ok(cache, Head(todo)) /\ running = << >>
  /\ Enter(IF prioritize_decode THEN "partials" ELSE "idle")
  /\ UNCHANGED <<queueVars, next_id, expired, scheduled, used>>

\* How much of the prompt the rest of the budget takes; 0 if none may run now.
ChunkFor_NoBudget(q) == remaining_prefill(q)
ChunkFor(q) ==
  LET room == budget - used IN
  IF remaining_prefill(q) <= room THEN remaining_prefill(q)
  ELSE IF enable_chunked_prefill THEN room ELSE 0

\* The sequence after n more tokens of prefill; it decodes once it has all.
Prefilled(q, n) ==
  LET q1 == transition_to(advance_prefill(q, n), "Prefilling")
  IN  IF is_prefill_complete(q1) THEN transition_to(q1, "Decoding") ELSE q1

\* schedule_partial_prefills.  Only chunking leaves a prompt half done, and then
\* some of the budget is left here: the chunk is never 0, the code's `continue'
\* never taken.
PartialPrefill ==
  LET id == Head(todo)
      n  == ChunkFor(seqs[id])
  IN  /\ pc = "partials" /\ todo # << >> /\ used < budget
      /\ n > 0
      /\ seqs' = [seqs EXCEPT ![id] = Prefilled(@, n)]
      /\ Granted(Row(id, n, seqs[id].computed, TRUE))
      /\ todo' = Tail(todo)
      /\ UNCHANGED <<cache, next_id, waiting, running, expired, pc>>

PartialsDone ==
  /\ pc = "partials" /\ (todo = << >> \/ used >= budget)
  /\ Enter("admits")
  /\ UNCHANGED <<queueVars, next_id, expired, scheduled, used>>

\* The conditions under which schedule_prefills looks at the head of the queue.
CanAdmit ==
  /\ Len(running) < max_num_seqs /\ used < budget /\ waiting # << >>
  /\ ChunkFor(seqs[Head(waiting)]) > 0

FitsCache ==
  LET q == seqs[Head(waiting)] IN q.computed = 0 => can_allocate(cache, Len(q.prompt))

\* The head joins the running set.  Its allocation cannot fail here, see
\* AdmissionNeverRaces; a sequence with progress keeps the table it has.
Admit ==
  LET id == Head(waiting)
      q  == seqs[id]
      n  == ChunkFor(q)
  IN  /\ pc = "admits" /\ CanAdmit /\ FitsCache
      /\ cache' = IF q.computed = 0 THEN allocate(cache, id, q.prompt) ELSE cache
      /\ seqs' = [seqs EXCEPT ![id] = Prefilled(q, n)]
      /\ Granted(Row(id, n, q.computed, TRUE))
      /\ running' = Append(running, id)
      /\ waiting' = Tail(waiting)
      /\ UNCHANGED <<next_id, expired, pc, todo>>

AdmitPreempt ==
  /\ pc = "admits" /\ CanAdmit /\ ~FitsCache
  /\ preempt_one(cache')
  /\ UNCHANGED <<next_id, expired, pc, todo, scheduled, used>>

AdmitsDone ==
  /\ pc = "admits"
  /\ CanAdmit => ~FitsCache /\ running = << >>
  /\ Enter(IF prioritize_decode THEN "idle" ELSE "decodes")
  /\ UNCHANGED <<queueVars, next_id, expired, scheduled, used>>

-----------------------------------------------------------------------------

Pass ==
  \/ schedule
  \/ DecodeGrant \/ DecodePreempt \/ DecodesDone
  \/ PartialPrefill \/ PartialsDone
  \/ Admit \/ AdmitPreempt \/ AdmitsDone

Reap == reap_finished \/ ReapOne \/ ReapDone

\* The callers record tokens only for these: engine.rs skips the rows that are
\* still in prefill, and the sequences whose stream has been closed.
TokenDue(id) ==
  id \in DOMAIN seqs /\ is_prefill_complete(seqs[id]) /\ ~is_finished(seqs[id])

SchedNext ==
  \/ \E p \in Prompts, r \in Params : add_request(p, r)
  \/ \E id \in SequenceIds : cancel(id) \/ CommitPrefill(id)
  \/ \E id \in SequenceIds, is_stop \in BOOLEAN :
        TokenDue(id) /\ on_token(id, is_stop)
  \/ \E d \in 0..MaxRequests : expire_timeouts(d)
  \/ Pass
  \/ Reap

SchedSpec == SchedInit /\ [][SchedNext]_schedVars

-----------------------------------------------------------------------------
(* Properties.                                                              *)

\* The types of the scheduler's fields and of the locals of schedule().
SchedTypeOK ==
  /\ CacheType(cache)
  /\ PartialFunction(seqs, 1..next_id - 1, SequenceRecord(Prompts))
  /\ next_id \in 1..MaxRequests + 1 /\ expired \in 0..next_id - 1
  /\ waiting \in Seq(SequenceIds) /\ running \in Seq(SequenceIds)
  /\ pc \in {"idle", "decodes", "partials", "admits", "reap"}
  /\ todo \in Seq(SequenceIds)
  /\ scheduled \in Seq([id : SequenceIds, num_tokens : Nat,
                        start_position : Nat, is_prefill : BOOLEAN])
  /\ used \in Nat

\* The running sequences, oldest first, then the waiting ones, next first.
Line == running \o waiting

Sorted(q) == \A i, j \in 1..Len(q) : i < j => q[i] < q[j]

\* Strict FIFO (queue.rs): the line is in order of arrival.  Preemption,
\* cancellation, timeouts and reaping never let a request overtake another.
ArrivalOrder == Sorted(Line)

\* A sequence is in one of the two queues until it is cancelled, timed out or
\* reaped: no path through preemption and re-admission drops it.
NobodyLost == Range(Line) = DOMAIN seqs

\* The cache's books balance under the scheduler's calls, and only running
\* sequences hold blocks (scheduler.rs cancel: "a waiting sequence holds
\* none"): when nothing runs, every block is free.
BlocksOnlyForRunning ==
  /\ CountsMatch(cache) /\ FreeListMatches(cache)
  /\ TablesFit(cache) /\ IndexMatches(cache)
  /\ DOMAIN cache.tables \subseteq Range(running)

\* The tokens of the pass's rows, one by one.
GrantedTokens == UNION {{i} \X (1..scheduled[i].num_tokens) : i \in DOMAIN scheduled}

\* schedule() hands out exactly what it counts, within the token budget and
\* the batch slots.
BudgetKept ==
  /\ used <= budget /\ Len(running) <= max_num_seqs
  /\ used = Cardinality(GrantedTokens)

\* Where a sequence is in its life is what its prefill progress says, and a
\* running one that is not finished has a table for its whole prompt, which is
\* what build_batch of engine.rs needs.
ProgressMatchesState ==
  \A id \in DOMAIN seqs : LET q == seqs[id] IN
     /\ q.state = "Waiting" => q.computed = 0 /\ id \in Range(waiting)
     /\ q.state = "Prefilling" => q.computed \in 1..Len(q.prompt) - 1
     /\ q.state = "Decoding" => q.computed = Len(q.prompt)
     /\ q.state \in {"Prefilling", "Decoding"} =>
          /\ id \in DOMAIN cache.tables
          /\ cache.tables[id].num_tokens >= Len(q.prompt)

\* Inside schedule_prefills the allocation that follows a successful
\* can_allocate succeeds ("Allocation raced the availability check" does not
\* happen), and an empty running set always leaves room for the head.
AdmissionNeverRaces ==
  pc = "admits" /\ CanAdmit =>
     /\ FitsCache /\ seqs[Head(waiting)].computed = 0 =>
          allocate_ok(cache, Head(waiting), seqs[Head(waiting)].prompt)
     /\ running = << >> => FitsCache

\* No sequence is given more tokens than it asked for, nor stopped by a stop
\* token before its minimum.
OutputWithinLimits ==
  \A id \in DOMAIN seqs : LET q == seqs[id] IN
     /\ q.output <= q.max_tokens
     /\ q.reason = "Stop" => q.output >= q.min_tokens
     /\ q.reason = "Length" => q.output = q.max_tokens

\* Finishing is final (sequence.rs: "the first reason wins"): while the
\* scheduler still holds a finished sequence, even one that was preempted
\* afterwards, its reason and its output stay as they are.
FinishedIsFinal ==
  \A id \in DOMAIN seqs \cap DOMAIN seqs' : is_finished(seqs[id]) =>
     /\ is_finished(seqs'[id]) /\ seqs'[id].reason = seqs[id].reason
     /\ seqs'[id].output = seqs[id].output

\* A sequence's state, its prefill progress and its blocks agree, and the books
\* of the cache balance, in every interleaving of admission, preemption,
\* cancellation and timeouts.
BlocksMatchState == BlocksOnlyForRunning /\ ProgressMatchesState

\* The output of a sequence respects its limits, and is final once it finished.
OutputsFinal == [][OutputWithinLimits' /\ FinishedIsFinal]_schedVars
=============================================================================
