-------------------------- MODULE InferenceClaims --------------------------
(***************************************************************************)
(* What comments of the repository say of the batch the engine builds and  *)
(* the code does not do; a run finds the batch against it.                 *)
(***************************************************************************)
EXTENDS MCInference

Context(id) == seqs[id].prompt \o seqs[id].output

\* orion-core/src/traits.rs:196: the batch carries the "absolute position of each
\* entry in `tokens`": the newest token is a decode row at the end of its context.
DecodesAtEnd ==
  \A i \in DOMAIN scheduled : LET r == scheduled[i] IN
     ~r.is_prefill => result.logits[i] = Context(r.id)

\* scheduler.rs:317, of a preempted sequence: "on restart the prompt is prompt +
\* tokens-so-far": a complete prefill covers the tokens it produced before.
RestartsWithOutput ==
  \A i \in DOMAIN scheduled : LET r == scheduled[i] IN
     r.is_prefill /\ Decoding(r.id) => result.logits[i] = Context(r.id)

\* Every token is drawn from the logits of all that precedes it: by a decode row
\* (scheduler.rs: schedule_decodes) and after a preemption (preempt_one; engine.rs:
\* build_batch).
SampledFromContext ==
  phase = "forwarded" /\ result.ok => DecodesAtEnd /\ RestartsWithOutput
=============================================================================
