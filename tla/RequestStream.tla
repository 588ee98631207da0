--------------------------- MODULE RequestStream ----------------------------
(***************************************************************************)
(* What the engine promises the caller of one accepted request             *)
(* (crates/orion-runtime/src/engine.rs): tokens numbered from 0 without a  *)
(* gap, then at most one terminal event, then silence.  Engine implements  *)
(* it for every request; Api relies on it.                                 *)
(*                                                                         *)
(* The engine lets go of a caller that is gone or too slow, and of every   *)
(* caller when it stops, without a terminal event.  A terminal event that  *)
(* does not fit in the channel is lost.                                    *)
(***************************************************************************)
EXTENDS Integers, Sequences

VARIABLES
  events,   \* StreamEvents put in the channel, in order
  sender    \* "none" before the request is accepted, "held", "dropped"

streamVars == <<events, sender>>

Token(n) == [kind |-> "Token", n |-> n]
Done(reason, n) == [kind |-> reason, n |-> n]
is_terminal(e) == e.kind # "Token"

StreamInit == events = << >> /\ sender = "none"

Accept == sender = "none" /\ sender' = "held" /\ UNCHANGED events

SendToken ==
  /\ sender = "held" /\ events' = Append(events, Token(Len(events)))
  /\ UNCHANGED sender

\* The last token, and the reason it was the last.
SendLast(reason) ==
  /\ sender = "held" /\ sender' = "dropped"
  /\ LET n == Len(events) IN
       \/ events' = Append(events, Token(n))
       \/ events' = events \o <<Token(n), Done(reason, n + 1)>>

\* A timeout reports the tokens of a running request, none of a waiting one.
TimeOut ==
  /\ sender = "held" /\ sender' = "dropped"
  /\ \/ UNCHANGED events
     \/ \E n \in {0, Len(events)} : events' = Append(events, Done("Timeout", n))

CancelStream ==
  /\ sender = "held" /\ sender' = "dropped"
  /\ events' = Append(events, Done("Cancelled", 0))

\* The caller was gone or slow, or the engine has stopped.
DropSender ==
  /\ sender = "held" /\ sender' = "dropped" /\ UNCHANGED events

StreamNext ==
  \/ Accept \/ SendToken \/ TimeOut \/ CancelStream \/ DropSender
  \/ \E reason \in {"Stop", "Length"} : SendLast(reason)

StreamSpec == StreamInit /\ [][StreamNext]_streamVars
=============================================================================
