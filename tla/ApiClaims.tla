----------------------------- MODULE ApiClaims ------------------------------
(***************************************************************************)
(* What comments and documents of the repository say of the text of an     *)
(* answer and the code does not do.  Each property quotes its line; each   *)
(* has a run that finds the behaviour against it.                          *)
(***************************************************************************)
EXTENDS MCApi

\* orion-tokenizer/src/lib.rs:19: "[`IncrementalDecoder`] solves both", the second
\* being that a "detokenizer strips prefix markers based on surrounding context":
\* what was emitted is the decode of all the tokens, whatever the tokenizer strips.
DecodesInContext ==
  phase = "receiving" => decoder.emitted = TrimEnd(decode(decoder.tokens))

\* docs/inference-runtime.md:118: "The SSE path and the collected path produce the
\* same text byte for byte": a stream sends what a whole answer would hold.
StreamingAgrees ==
  phase = "answered" /\ reply.status = 200 /\ Streams =>
     reply.text = truncate_at_stop(matcher, decoder.emitted)
=============================================================================
