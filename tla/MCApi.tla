------------------------------- MODULE MCApi --------------------------------
(***************************************************************************)
(* Requests and a vocabulary for Api: tokens that end in the middle of a   *)
(* character, complete one, hold several characters, or begin with a space *)
(* that the tokenizer strips from the front of a text.                     *)
(***************************************************************************)
EXTENDS Api

MCVocab == [ab |-> <<"a", "b">>, spb |-> <<" ", "b">>, half |-> <<"lead">>, rest |-> <<"cont">>]

Plain == [endpoint |-> "chat", stream |-> FALSE, echo |-> FALSE, n |-> None,
          inputs |-> 1, temperature |-> None, top_p |-> None,
          repetition_penalty |-> None, presence_penalty |-> None,
          frequency_penalty |-> None, max_tokens |-> None,
          max_completion_tokens |-> None, min_tokens |-> None, stop |-> << >>]

Completion == [Plain EXCEPT !.endpoint = "completions"]

Stops == <<(<<"b", "wide", "a">>), (<<"a", "b", " ">>)>>

\* On the edge of what is accepted.
Edge == [Plain EXCEPT !.temperature = 0, !.top_p = 1, !.frequency_penalty = -3,
                      !.max_completion_tokens = 6, !.min_tokens = 6]

MCGood ==
  {[Edge EXCEPT !.stop = Stops, !.stream = b] : b \in BOOLEAN}
    \cup {[Completion EXCEPT !.echo = TRUE, !.stream = TRUE]}

\* Fields out of range, one or more at a time.
MCOdd ==
  {r \in
    {[Plain EXCEPT !.n = n, !.inputs = i] : n \in {None, 1, 2}, i \in 0..2}
      \cup {[Completion EXCEPT !.inputs = i] : i \in 0..2}
      \cup {[Plain EXCEPT !.temperature = t, !.top_p = p] :
              t \in {None, -1, 0, Infinity}, p \in {None, 0, 11, Infinity}}
      \cup {[Plain EXCEPT !.repetition_penalty = r, !.presence_penalty = p,
                          !.frequency_penalty = f] :
              r \in {None, 0, 12}, p \in {None, -3, Infinity}, f \in {None, 5}}
      \cup {[Plain EXCEPT !.max_tokens = x, !.max_completion_tokens = y, !.min_tokens = z] :
              x \in {None, 0, 1}, y \in {None, 0, 3}, z \in {None, 2}}
      \cup {[Plain EXCEPT !.stop = s] : s \in {<<(<< >>)>>, [i \in 1..3 |-> <<"a">>]}}
    : ~Valid(r)}

MCRequests == MCGood \cup MCOdd
MCPrompt == <<"b", "b">>
=============================================================================
