----------------------------- MODULE Tokenizer ------------------------------
(***************************************************************************)
(* crates/orion-tokenizer: incremental decoding of a token stream, and the *)
(* search for stop strings in it.                                          *)
(*                                                                         *)
(* A text is a sequence of characters.  A character has a width in bytes,  *)
(* because both structures keep byte offsets, and U+FFFD, three bytes      *)
(* wide, stands in for one or two bytes that are not yet a character.      *)
(* The Hugging Face tokenizer is external: a token is the bytes it stands  *)
(* for, and decode concatenates them and reads them as lossy UTF-8.  Some  *)
(* detokenizers also drop the space before the first word they are given.  *)
(***************************************************************************)
EXTENDS Integers, SequencesExt

CONSTANTS
  Vocab,                \* token -> its bytes: "a", "b", " ", or of a 2-byte
                        \*   character, "lead" and "cont"
  strips_first_space,   \* whether decode drops a leading space
  window                \* IncrementalDecoder::window

Tokens == DOMAIN Vocab
Byte == {"a", "b", " ", "lead", "cont"}

ASSUME TokenizerAssumption ==
  /\ \A token \in Tokens : Vocab[token] \in Seq(Byte)
  /\ strips_first_space \in BOOLEAN /\ window \in Nat \ {0}

(* Text.                                                                    *)
FFFD == "FFFD"
Char == {"a", "b", " ", "wide", FFFD}
Width(c) == IF c = FFFD THEN 3 ELSE IF c = "wide" THEN 2 ELSE 1
Text == Seq(Char)
TextLen(t) == FoldLeft(LAMBDA n, c : n + Width(c), 0, t)

\* t up to, and from, the last character boundary at or before byte n.
Boundary(t, n) ==
  Max({i \in 0..Len(t) : TextLen(SubSeq(t, 1, i)) <= n})
Upto(t, n) == SubSeq(t, 1, Boundary(t, n))
From(t, n) == SubSeq(t, Boundary(t, n) + 1, Len(t))
is_char_boundary(t, n) == TextLen(Upto(t, n)) = n

TrimEnd(t) ==
  SubSeq(t, 1, Max({0} \cup {i \in 1..Len(t) : t[i] # FFFD}))

EndsOpen(t) == t # << >> /\ Last(t) = FFFD

Positions(t, s) ==
  {i \in 1..Len(t) - Len(s) + 1 : SubSeq(t, i, i + Len(s) - 1) = s}
Occurs(t, s) == Positions(t, s) # {}

-----------------------------------------------------------------------------
(* Tokenizer::decode.                                                       *)

\* The i-th byte completes a character; what each byte becomes.
Completes(bytes, i) == i > 1 /\ bytes[i - 1] = "lead" /\ bytes[i] = "cont"
Becomes(bytes, i) ==
  IF i < Len(bytes) /\ Completes(bytes, i + 1) THEN << >>
  ELSE IF Completes(bytes, i) THEN <<"wide">>
  ELSE <<IF bytes[i] \in {"lead", "cont"} THEN FFFD ELSE bytes[i]>>
Lossy(bytes) == FlattenSeq([i \in 1..Len(bytes) |-> Becomes(bytes, i)])

Bytes(tokens) == FlattenSeq([i \in 1..Len(tokens) |-> Vocab[tokens[i]]])

decode(tokens) ==
  LET t == Lossy(Bytes(tokens))
  IN  IF strips_first_space /\ t # << >> /\ t[1] = " " THEN Tail(t) ELSE t

-----------------------------------------------------------------------------
(* IncrementalDecoder.  `out' is what the last call returned.               *)

NewDecoder ==
  [tokens |-> << >>, emitted |-> << >>, window_start |-> 0,
   window_emitted |-> 0, out |-> << >>]

\* The window moves when it has grown past twice its size and what leaves it
\* was all emitted; the offset is rebased, not reset.
Reanchored_Reset(d) ==
  IF Len(d.tokens) - d.window_start > 2 * window
    THEN [d EXCEPT !.window_start = Len(d.tokens) - window, !.window_emitted = 0]
    ELSE d
Reanchored(d) ==
  LET new_start == Len(d.tokens) - window
      dropped   == decode(SubSeq(d.tokens, d.window_start + 1, new_start))
  IN  IF /\ Len(d.tokens) - d.window_start > 2 * window
         /\ ~EndsOpen(dropped) /\ d.window_emitted >= TextLen(dropped)
        THEN [d EXCEPT !.window_start = new_start,
                       !.window_emitted = @ - TextLen(dropped)]
        ELSE d

WindowText(d) == decode(SubSeq(d.tokens, d.window_start + 1, Len(d.tokens)))

\* Characters that may still change are held back.
Stable_All(t) == t
Stable(t) == TrimEnd(t)

push(d0, token) ==
  LET d   == Reanchored([d0 EXCEPT !.tokens = Append(@, token)])
      t   == WindowText(d)
      out == IF TextLen(t) <= d.window_emitted THEN << >>
             ELSE Stable(From(t, d.window_emitted))
  IN  [d EXCEPT !.window_emitted = @ + TextLen(out),
                !.emitted = @ \o out, !.out = out]

\* The index push slices the window's text at: inside a character it panics.
SlicesAt(d0, token) ==
  LET d == Reanchored([d0 EXCEPT !.tokens = Append(@, token)])
  IN  TextLen(WindowText(d)) > d.window_emitted =>
        is_char_boundary(WindowText(d), d.window_emitted)

\* Only the window's first token can lose its leading space.  It does no harm
\* while the window has not moved, and none later if no token begins with one.
Clean(tokens) ==
  \A i \in 1..Len(tokens) : Vocab[tokens[i]] = << >> \/ Vocab[tokens[i]][1] # " "
Intact(d) == strips_first_space => d.window_start = 0 \/ Clean(d.tokens)

flush(d) ==
  LET full   == decode(d.tokens)
      common == LongestCommonPrefix({full, d.emitted})
      tail   == SubSeq(full, Len(common) + 1, Len(full))
  IN  IF tail = << >> THEN [d EXCEPT !.out = << >>]
      ELSE [d EXCEPT !.emitted = full, !.out = tail,
                     !.window_emitted = @ + TextLen(tail)]

-----------------------------------------------------------------------------
(* StopSequenceMatcher.                                                     *)

NewMatcher(sequences) == [sequences |-> sequences, buffer |-> << >>, found |-> FALSE]

max_len(m) == Max({0} \cup {TextLen(s) : s \in Range(m.sequences)})

\* Enough of the end to see a stop string that the next text completes.
Retained_HalfTail(m, b) ==
  IF TextLen(b) > 2 * max_len(m) THEN From(b, TextLen(b) - max_len(m) \div 2) ELSE b
Retained(m, b) ==
  IF TextLen(b) > 2 * max_len(m) THEN From(b, TextLen(b) - max_len(m)) ELSE b

feed(m, text) ==
  LET b == m.buffer \o text IN
  IF m.sequences = << >> \/ text = << >> THEN [m EXCEPT !.found = FALSE]
  ELSE [m EXCEPT !.found = \E s \in Range(m.sequences) : Occurs(b, s),
                 !.buffer = Retained(m, b)]

truncate_at_stop(m, t) ==
  LET starts == UNION {Positions(t, s) : s \in Range(m.sequences)}
  IN  IF starts = {} THEN t ELSE SubSeq(t, 1, Min(starts) - 1)
=============================================================================
