------------------------------ MODULE Sequence ------------------------------
(***************************************************************************)
(* One decoding sequence (crates/orion-core/src/sequence.rs) as operators  *)
(* on its record.  The output is kept as its length: no property tells two *)
(* generated tokens apart.  The identifier is the key the record is kept   *)
(* under and, because SequenceId::next counts up, its rank of arrival.     *)
(***************************************************************************)
EXTENDS Integers, Sequences

CONSTANT NoReason    \* Option<FinishReason>::None

States == {"Waiting", "Prefilling", "Decoding", "Finished"}
Reasons == {"Stop", "Length", "Timeout"}

ASSUME NoReasonAssumption == NoReason \notin Reasons

SequenceRecord(Prompts) ==
  [prompt : Prompts, max_tokens : Nat, min_tokens : Nat, output : Nat,
   computed : Nat, state : States, reason : Reasons \cup {NoReason}]

NewSequence(p, max, min) ==
  [prompt |-> p, max_tokens |-> max, min_tokens |-> min, output |-> 0,
   computed |-> 0, state |-> "Waiting", reason |-> NoReason]

total_len(q) == Len(q.prompt) + q.output
\* The code saturates at 0; computed never passes the prompt.
remaining_prefill(q) == Len(q.prompt) - q.computed
is_prefill_complete(q) == q.computed >= Len(q.prompt)
is_finished(q) == q.state = "Finished"

can_transition_to(a, b) ==
  CASE a = "Waiting"    -> b \in {"Prefilling", "Finished"}
    [] a = "Prefilling" -> TRUE
    [] a = "Decoding"   -> b # "Prefilling"
    [] a = "Finished"   -> FALSE

\* An illegal transition is refused and leaves the sequence as it is.
transition_to(q, b) ==
  IF can_transition_to(q.state, b) THEN [q EXCEPT !.state = b] ELSE q

advance_prefill(q, n) ==
  [q EXCEPT !.computed = IF @ + n <= Len(q.prompt) THEN @ + n ELSE Len(q.prompt)]

finish_LastReasonWins(q, r) == [q EXCEPT !.state = "Finished", !.reason = r]
\* The first reason wins.
finish(q, r) ==
  IF is_finished(q) THEN q ELSE [q EXCEPT !.state = "Finished", !.reason = r]

preempt_DropsOutput(q) ==
  IF can_transition_to(q.state, "Waiting")
    THEN [q EXCEPT !.state = "Waiting", !.computed = 0, !.output = 0] ELSE q
preempt_KeepsProgress(q) == transition_to(q, "Waiting")
preempt(q) ==
  IF can_transition_to(q.state, "Waiting")
    THEN [q EXCEPT !.state = "Waiting", !.computed = 0] ELSE q

push_token(q) == [q EXCEPT !.output = @ + 1]

\* Scheduler::stop_reason; is_stop: the token is an EOS or stop token.
stop_reason(q, is_stop) ==
  IF is_stop /\ q.output >= q.min_tokens THEN "Stop"
  ELSE IF q.output >= q.max_tokens THEN "Length" ELSE NoReason
=============================================================================
