------------------------------- MODULE Engine -------------------------------
(***************************************************************************)
(* The engine thread of crates/orion-runtime/src/engine.rs around the      *)
(* scheduler, and the callers at the other end of its channels.            *)
(*                                                                         *)
(* The thread handles commands, then runs a step: retire what timed out,   *)
(* schedule, build the batch, forward, sample and emit a token for each    *)
(* row, publish the prefills, reap.  `phase' is where it is.  A step that  *)
(* fails returns at once and the thread goes on with the commands.         *)
(*                                                                         *)
(* Callers receive and disconnect whenever they like.  Of the model        *)
(* backend only its refusals are kept here: it may fail, and it fails on a *)
(* position outside the block table of its sequence; what a pass computes  *)
(* is in Inference.  Commands that change nothing (statistics, a refused   *)
(* request, a late cancellation) are left out.                             *)
(***************************************************************************)
EXTENDS Scheduler

CONSTANTS
  BufferSize,   \* capacity of a caller's event channel
  MaxFaults     \* bound: times the backend fails

ASSUME EngineAssumption == BufferSize \in Nat \ {0} /\ MaxFaults \in Nat

VARIABLES
  phase,       \* what the engine thread does next
  rows,        \* ids it has still to sample, or to publish
  active,      \* Engine::active: the sequences with a caller to tell
  stream,      \* id -> what was put in its channel, how much of it was taken,
               \*       and whether the receiver is still there
  faults       \* times the backend has failed

engineVars == <<schedVars, phase, rows, active, stream, faults>>

EngineInit ==
  /\ SchedInit
  /\ phase = "commands" /\ rows = << >> /\ active = {} /\ stream = Empty
  /\ faults = 0

-----------------------------------------------------------------------------
(* A caller's channel.                                                      *)

NewStream == [events |-> << >>, taken |-> 0, open |-> TRUE]
Token(n) == [kind |-> "Token", n |-> n]
Done(reason, n) == [kind |-> reason, n |-> n]

CanSend(s) == s.open /\ Len(s.events) - s.taken < BufferSize
\* An event that cannot be put in the channel is lost.
try_send(s, e) == IF CanSend(s) THEN [s EXCEPT !.events = Append(@, e)] ELSE s

\* Tokens a terminal event reports: those of the running sequence, if it runs.
CompletionTokens_ExcludingLast(id) ==
  IF id \in Range(running) THEN seqs[id].output - 1 ELSE 0
CompletionTokens(id) == IF id \in Range(running) THEN seqs[id].output ELSE 0

-----------------------------------------------------------------------------
(* Commands.                                                                *)

submit(p, r) ==
  /\ phase = "commands" /\ add_request(p, r)
  /\ active' = active \cup {next_id}
  /\ stream' = [id \in DOMAIN stream \cup {next_id} |->
        IF id = next_id THEN NewStream ELSE stream[id]]
  /\ UNCHANGED <<phase, rows, faults>>

CancelCommand(id) ==
  /\ phase = "commands" /\ cancel(id)
  /\ active' = active \ {id}
  /\ stream' = IF id \in active
        THEN [stream EXCEPT ![id] = try_send(@, Done("Cancelled", 0))] ELSE stream
  /\ UNCHANGED <<phase, rows, faults>>

\* The thread returns at once; the channels close as their senders are dropped.
Shutdown ==
  /\ phase = "commands"
  /\ phase' = "stopped" /\ active' = {}
  /\ UNCHANGED <<schedVars, rows, stream, faults>>

-----------------------------------------------------------------------------
(* The step.                                                                *)

has_work == Line # << >>

\* Terminal events for what timed out, the waiting requests included.
StepBegin(d) ==
  /\ phase = "commands" /\ has_work
  /\ IF timeouts_enabled THEN expire_timeouts(d) ELSE d = expired /\ UNCHANGED schedVars
  /\ active' = active \ 1..d
  /\ stream' = [id \in DOMAIN stream |->
        IF id \in active \cap 1..d
          THEN try_send(stream[id], Done("Timeout", CompletionTokens(id)))
          ELSE stream[id]]
  /\ phase' = "schedule"
  /\ UNCHANGED <<rows, faults>>

StepSchedule ==
  /\ phase = "schedule" /\ schedule
  /\ phase' = "pass"
  /\ UNCHANGED <<rows, active, stream, faults>>

StepPass ==
  /\ phase = "pass" /\ pc # "idle" /\ Pass
  /\ UNCHANGED <<phase, rows, active, stream, faults>>

StepEmpty ==
  /\ phase = "pass" /\ pc = "idle" /\ scheduled = << >>
  /\ phase' = "reap"
  /\ UNCHANGED <<schedVars, rows, active, stream, faults>>

\* build_batch: the scheduled rows of the sequences still running.
Batch == Filter(scheduled, {r \in Range(scheduled) : r.id \in Range(running)})

HasSlots(r) ==
  /\ r.id \in DOMAIN cache.tables
  /\ r.start_position + r.num_tokens <= Len(cache.tables[r.id].blocks) * block_size

ForwardOk == \A r \in Range(Batch) : HasSlots(r)

IdsOf(q) == [i \in 1..Len(q) |-> q[i].id]

Forward ==
  /\ phase = "pass" /\ pc = "idle" /\ scheduled # << >> /\ ForwardOk
  /\ rows' = IdsOf(Batch) /\ phase' = "rows"
  /\ UNCHANGED <<schedVars, active, stream, faults>>

\* A row without a table or a slot, or a fault of the backend.
ForwardFails ==
  /\ phase = "pass" /\ pc = "idle" /\ scheduled # << >>
  /\ \/ ~ForwardOk /\ UNCHANGED faults
     \/ ForwardOk /\ faults < MaxFaults /\ faults' = faults + 1
  /\ phase' = "commands"
  /\ UNCHANGED <<schedVars, rows, active, stream>>

Samples_WithoutCaller(id) ==
  id \in Range(running) /\ is_prefill_complete(seqs[id])
Samples(id) ==
  id \in Range(running) /\ is_prefill_complete(seqs[id]) /\ id \in active

\* Still in prefill, gone from the running queue, or without a caller.
SkipRow ==
  /\ phase = "rows" /\ rows # << >> /\ ~Samples(Head(rows))
  /\ rows' = Tail(rows)
  /\ UNCHANGED <<schedVars, phase, active, stream, faults>>

\* sample_and_emit; finish_request follows if the token was the last.
EmitToken(is_stop) ==
  LET id == Head(rows)
      q  == seqs'[id]
      s  == try_send(stream[id], Token(seqs[id].output))
  IN  /\ phase = "rows" /\ rows # << >> /\ Samples(id) /\ CanSend(stream[id])
      /\ on_token(id, is_stop)
      /\ stream' = [stream EXCEPT ![id] =
            IF is_finished(q) THEN try_send(s, Done(q.reason, q.output)) ELSE s]
      /\ active' = IF is_finished(q) THEN active \ {id} ELSE active
      /\ rows' = Tail(rows)
      /\ UNCHANGED <<phase, faults>>

\* The token is recorded and cannot be sent: the caller is gone or too slow.
EmitFails(is_stop) ==
  /\ phase = "rows" /\ rows # << >>
  /\ Samples(Head(rows)) /\ ~CanSend(stream[Head(rows)])
  /\ on_token(Head(rows), is_stop)
  /\ phase' = "drop"
  /\ UNCHANGED <<rows, active, stream, faults>>

cancel_silently ==
  /\ phase = "drop" /\ cancel(Head(rows))
  /\ active' = active \ {Head(rows)}
  /\ rows' = Tail(rows) /\ phase' = "rows"
  /\ UNCHANGED <<stream, faults>>

\* The backend returned no row for the sequence; the rest of the step is lost.
RowMissing ==
  /\ phase = "rows" /\ rows # << >> /\ Samples(Head(rows))
  /\ faults < MaxFaults /\ faults' = faults + 1
  /\ phase' = "commands" /\ rows' = << >>
  /\ UNCHANGED <<schedVars, active, stream>>

PrefillRows == Filter(scheduled, {r \in Range(scheduled) : r.is_prefill})

RowsDone ==
  /\ phase = "rows" /\ rows = << >>
  /\ phase' = "commit" /\ rows' = IdsOf(PrefillRows)
  /\ UNCHANGED <<schedVars, active, stream, faults>>

Publishes(id) == id \in Range(running) /\ is_prefill_complete(seqs[id])

CommitRow ==
  /\ phase = "commit" /\ rows # << >>
  /\ IF Publishes(Head(rows)) THEN CommitPrefill(Head(rows)) ELSE UNCHANGED schedVars
  /\ rows' = Tail(rows)
  /\ UNCHANGED <<phase, active, stream, faults>>

CommitsDone ==
  /\ phase = "commit" /\ rows = << >>
  /\ phase' = "reap"
  /\ UNCHANGED <<schedVars, rows, active, stream, faults>>

\* The caller of a reaped sequence has always been told: see CallersExact.
StepReap ==
  /\ phase = "reap"
  /\ IF FinishedRunning # << >> \/ pc = "reap" THEN Reap ELSE UNCHANGED schedVars
  /\ phase' = IF pc' = "reap" THEN phase ELSE "commands"
  /\ UNCHANGED <<rows, active, stream, faults>>

-----------------------------------------------------------------------------
(* Callers.                                                                 *)

Receive(id) ==
  /\ stream[id].open /\ stream[id].taken < Len(stream[id].events)
  /\ stream' = [stream EXCEPT ![id].taken = @ + 1]
  /\ UNCHANGED <<schedVars, phase, rows, active, faults>>

Disconnect(id) ==
  /\ stream[id].open
  /\ stream' = [stream EXCEPT ![id].open = FALSE]
  /\ UNCHANGED <<schedVars, phase, rows, active, faults>>

-----------------------------------------------------------------------------

Command ==
  \/ \E p \in Prompts, r \in Params : submit(p, r)
  \/ \E id \in SequenceIds : CancelCommand(id)
  \/ Shutdown

Step ==
  \/ \E d \in 0..MaxRequests : StepBegin(d)
  \/ StepSchedule \/ StepPass \/ StepEmpty \/ Forward \/ ForwardFails
  \/ SkipRow \/ cancel_silently \/ RowMissing \/ RowsDone
  \/ \E is_stop \in BOOLEAN : EmitToken(is_stop) \/ EmitFails(is_stop)
  \/ CommitRow \/ CommitsDone \/ StepReap

Caller == \E id \in DOMAIN stream : Receive(id) \/ Disconnect(id)

EngineNext == Command \/ Step \/ Caller

EngineSpec == EngineInit /\ [][EngineNext]_engineVars

\* The thread never rests while there is work: commands are finite in number.
\* Nothing is assumed of the callers.
FairEngineSpec == EngineSpec /\ WF_engineVars(Step)

-----------------------------------------------------------------------------
(* Properties.                                                              *)

\* The types of Engine's fields, of the channels and of the step's locals.
EngineTypeOK ==
  /\ phase \in {"commands", "schedule", "pass", "rows", "drop", "commit",
                "reap", "stopped"}
  /\ rows \in Seq(SequenceIds) /\ (phase = "drop" => rows # << >>)
  /\ active \subseteq DOMAIN stream /\ DOMAIN stream = 1..next_id - 1
  /\ \A id \in DOMAIN stream : LET s == stream[id] IN
       /\ s.events \in Seq([kind : {"Token", "Cancelled"} \cup Reasons, n : Nat])
       /\ s.taken \in 0..Len(s.events) /\ s.open \in BOOLEAN
       /\ Len(s.events) - s.taken <= BufferSize
  /\ faults \in 0..MaxFaults

\* The callers the engine keeps are those of the sequences the scheduler holds
\* unfinished, whatever failed, was cancelled, preempted or timed out on the
\* way: nobody waits on a channel that no sequence will ever feed or close, and
\* reap never finds a caller that has not been told.
CallersExact ==
  phase # "stopped" =>
     active = {id \in DOMAIN seqs : ~is_finished(seqs[id])}
                \cup (IF phase = "drop" THEN {Head(rows)} ELSE {})

TokensOf(s) ==
  IF s.events # << >> /\ s.events[Len(s.events)].kind # "Token"
    THEN Len(s.events) - 1 ELSE Len(s.events)

\* A caller receives the tokens of its sequence numbered 0, 1, 2, ... without a
\* gap or a repetition, across preemptions and failed steps, then at most one
\* terminal event; while it is kept it has been sent every token there is, and
\* a Stop or Length event reports as many as were sent.
StreamsInOrder ==
  \A id \in DOMAIN stream : LET s == stream[id] IN
     /\ \A i \in 1..TokensOf(s) : s.events[i] = Token(i - 1)
     /\ TokensOf(s) < Len(s.events) =>
          /\ id \notin active
          /\ s.events[Len(s.events)].kind \in {"Stop", "Length"} =>
               s.events[Len(s.events)].n = TokensOf(s)
     /\ id \in active /\ phase # "drop" => TokensOf(s) = seqs[id].output

\* The engine keeps exactly the callers it still owes something, and each has
\* been sent what its sequence has produced.
CallersServed == CallersExact /\ StreamsInOrder

Stream(id) == INSTANCE RequestStream WITH
  events <- IF id \in DOMAIN stream THEN stream[id].events ELSE << >>,
  sender <- IF id \notin DOMAIN stream THEN "none"
            ELSE IF id \in active THEN "held" ELSE "dropped"

\* What the engine does to a caller's channel is what RequestStream promises:
\* tokens in order, at most one terminal event with the right count, and not a
\* word once the engine has let go of the caller.  This is StreamSpec of every
\* request, with the quantifier inside the box.
KeepsPromise ==
  /\ \A id \in SequenceIds : Stream(id)!StreamInit
  /\ [][\A id \in SequenceIds :
          Stream(id)!StreamNext \/ UNCHANGED Stream(id)!streamVars]_engineVars

\* The engine drives the scheduler as Scheduler assumes of its callers: every
\* step of the engine is a call the scheduler allows or leaves it alone.
DrivesScheduler == SchedSpec

\* Every accepted request ends: its caller is told or let go of.
EveryRequestEnds ==
  \A id \in SequenceIds : id \in active ~> id \notin active
=============================================================================
