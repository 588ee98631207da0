---------------------------- MODULE EngineProofs ----------------------------
(***************************************************************************)
(* Proofs about the scheduler, and about the engine thread that drives it  *)
(* and its callers.                                                        *)
(*                                                                         *)
(* The queues: admission and preemption move one sequence between the end  *)
(* of the running queue and the front of the waiting one, and so leave the *)
(* line, running \o waiting, as it is; an arrival is appended to it with   *)
(* the largest identifier so far; everything else only removes members,    *)
(* and Filter keeps the order of those that stay.                          *)
(*                                                                         *)
(* The rest of the scheduler: each method of a sequence keeps what SeqOK   *)
(* says of it alone, each method of the cache keeps CacheInv               *)
(* (KvCacheLemmas), and what ties the two together is which of the queues  *)
(* a sequence with blocks, or in a given state, is in.                     *)
(*                                                                         *)
(* The engine: the scheduler takes tokens only for sequences that are not  *)
(* finished, and the engine samples only for those that have a caller.     *)
(* What makes the calls of the one legal for the other is that the callers *)
(* the engine keeps are exactly those of the unfinished sequences          *)
(* (CallersExact).  That is inductive together with the invariant of the   *)
(* scheduler, with where in a step the thread may be while the scheduler   *)
(* is in the middle of a call, and with what has been put in each caller's *)
(* channel so far.                                                         *)
(***************************************************************************)
EXTENDS Engine, KvCacheLemmas

-----------------------------------------------------------------------------
(* Sorted sequences.                                                        *)

\* A concatenation is sorted iff its parts are and the first is below the second.
LEMMA SortedConcat ==
  ASSUME NEW r \in Seq(Int), NEW w \in Seq(Int)
  PROVE  Sorted(r \o w) <=>
           /\ Sorted(r) /\ Sorted(w)
           /\ \A x \in Range(r), y \in Range(w) : x < y
<1>1. /\ Len(r) \in Nat /\ Len(w) \in Nat /\ Len(r \o w) = Len(r) + Len(w)
      /\ \A i \in 1..Len(r) : (r \o w)[i] = r[i] /\ r[i] \in Int
      /\ \A i \in 1..Len(w) : (r \o w)[Len(r) + i] = w[i] /\ w[i] \in Int
      /\ Range(r) = {r[i] : i \in 1..Len(r)}
      /\ Range(w) = {w[i] : i \in 1..Len(w)}
  BY DEF Range
<1>2. ASSUME Sorted(r \o w)
      PROVE  /\ Sorted(r) /\ Sorted(w)
             /\ \A x \in Range(r), y \in Range(w) : x < y
  <2>1. Sorted(r)
    <3> SUFFICES ASSUME NEW i \in 1..Len(r), NEW j \in 1..Len(r), i < j
                 PROVE  r[i] < r[j]
      BY DEF Sorted
    <3>1. i \in 1..Len(r \o w) /\ j \in 1..Len(r \o w)
      BY <1>1
    <3>2. (r \o w)[i] < (r \o w)[j]
      BY <1>2, <3>1 DEF Sorted
    <3> QED BY <1>1, <3>2
  <2>2. Sorted(w)
    <3> SUFFICES ASSUME NEW i \in 1..Len(w), NEW j \in 1..Len(w), i < j
                 PROVE  w[i] < w[j]
      BY DEF Sorted
    <3>1. /\ Len(r) + i \in 1..Len(r \o w) /\ Len(r) + j \in 1..Len(r \o w)
          /\ Len(r) + i < Len(r) + j
      BY <1>1
    <3>2. (r \o w)[Len(r) + i] < (r \o w)[Len(r) + j]
      BY <1>2, <3>1 DEF Sorted
    <3> QED BY <1>1, <3>2
  <2>3. ASSUME NEW i \in 1..Len(r), NEW j \in 1..Len(w)
        PROVE  r[i] < w[j]
    <3>1. /\ i \in 1..Len(r \o w) /\ Len(r) + j \in 1..Len(r \o w)
          /\ i < Len(r) + j
      BY <1>1
    <3>2. (r \o w)[i] < (r \o w)[Len(r) + j]
      BY <1>2, <3>1 DEF Sorted
    <3> QED BY <1>1, <3>2
  <2> QED BY <1>1, <2>1, <2>2, <2>3
<1>3. ASSUME Sorted(r), Sorted(w),
             \A x \in Range(r), y \in Range(w) : x < y
      PROVE  Sorted(r \o w)
  <2> SUFFICES ASSUME NEW i \in 1..Len(r \o w), NEW j \in 1..Len(r \o w), i < j
               PROVE  (r \o w)[i] < (r \o w)[j]
    BY DEF Sorted
  <2>1. CASE j <= Len(r)
    BY <1>1, <1>3, <2>1 DEF Sorted
  <2>2. CASE i > Len(r)
    <3>1. /\ i - Len(r) \in 1..Len(w) /\ j - Len(r) \in 1..Len(w)
          /\ i - Len(r) < j - Len(r)
          /\ i = Len(r) + (i - Len(r)) /\ j = Len(r) + (j - Len(r))
      BY <1>1, <2>2
    <3>2. w[i - Len(r)] < w[j - Len(r)]
      BY <1>3, <3>1 DEF Sorted
    <3> QED BY <1>1, <3>1, <3>2
  <2>3. CASE i <= Len(r) /\ j > Len(r)
    <3>1. /\ i \in 1..Len(r) /\ j - Len(r) \in 1..Len(w)
          /\ j = Len(r) + (j - Len(r))
      BY <1>1, <2>3
    <3>2. r[i] \in Range(r) /\ w[j - Len(r)] \in Range(w)
      BY <1>1, <3>1
    <3>3. r[i] < w[j - Len(r)]
      BY <1>3, <3>2
    <3> QED BY <1>1, <3>1, <3>3
  <2> QED BY <1>1, <2>1, <2>2, <2>3
<1> QED BY <1>2, <1>3

\* Removing elements keeps a sequence sorted.
LEMMA SortedFilter ==
  ASSUME NEW s \in Seq(Int), NEW T, Sorted(s)
  PROVE  Sorted(Filter(s, T))
<1>1. \A k, l \in 1..Len(Filter(s, T)) : k < l =>
         \E i, j \in 1..Len(s) :
            i < j /\ Filter(s, T)[k] = s[i] /\ Filter(s, T)[l] = s[j]
  BY FilterOrder
<1> QED BY <1>1 DEF Sorted

\* Filtering both queues keeps the line sorted and removes what it should.
LEMMA FilteredLine ==
  ASSUME NEW r \in Seq(SequenceIds), NEW w \in Seq(SequenceIds), NEW S, NEW T,
         Sorted(r \o w)
  PROVE  /\ Filter(r, S) \in Seq(SequenceIds) /\ Filter(w, T) \in Seq(SequenceIds)
         /\ Sorted(Filter(r, S) \o Filter(w, T)) /\ Sorted(r \o Filter(w, T))
         /\ Range(Filter(r, S) \o Filter(w, T)) = (Range(r) \cap S) \cup (Range(w) \cap T)
         /\ Range(r \o Filter(w, T)) = Range(r) \cup (Range(w) \cap T)
         /\ Range(r) \cap Range(w) = {}
<1> DEFINE fr == Filter(r, S)
           fw == Filter(w, T)
<1>1. SequenceIds \subseteq Int
  BY IdsAssumption
<1>2. /\ fr \in Seq(SequenceIds) /\ fw \in Seq(SequenceIds)
      /\ Range(fr) = Range(r) \cap S /\ Range(fw) = Range(w) \cap T
  BY FilterType
<1>3. /\ r \in Seq(Int) /\ w \in Seq(Int) /\ fr \in Seq(Int) /\ fw \in Seq(Int)
      /\ Range(r) \subseteq Int /\ Range(w) \subseteq Int
  <2>1. ASSUME NEW s \in Seq(SequenceIds)
        PROVE  s \in Seq(Int) /\ Range(s) \subseteq Int
    BY <1>1, SeqMonotonic, LenProperties DEF Range
  <2> HIDE DEF fr, fw
  <2> QED BY <1>2, <2>1
<1>4. Sorted(r) /\ Sorted(w) /\ \A x \in Range(r), y \in Range(w) : x < y
  BY <1>3, SortedConcat
<1>5. Sorted(fr) /\ Sorted(fw)
  BY <1>3, <1>4, SortedFilter
<1> HIDE DEF fr, fw
<1>6. Sorted(fr \o fw) /\ Sorted(r \o fw)
  BY <1>2, <1>3, <1>4, <1>5, SortedConcat
<1>7. /\ Range(fr \o fw) = Range(fr) \cup Range(fw)
      /\ Range(r \o fw) = Range(r) \cup Range(fw)
  BY <1>2, RangeConcat
<1>8. Range(r) \cap Range(w) = {}
  BY <1>3, <1>4
<1> QED BY <1>2, <1>6, <1>7, <1>8 DEF fr, fw

-----------------------------------------------------------------------------
(* The inductive invariant.                                                 *)

LineInv ==
  /\ running \in Seq(SequenceIds) /\ waiting \in Seq(SequenceIds)
  /\ next_id \in Nat \ {0} /\ \A id \in Range(Line) : id < next_id
  /\ ArrivalOrder
  /\ NobodyLost

\* Dropping a sequence from wherever it is.
LEMMA DroppedLine ==
  ASSUME LineInv, NEW id, Dropped(id), next_id' = next_id
  PROVE  LineInv'
<1> DEFINE S == SequenceIds \ {id}
<1>1. /\ running' = Filter(running, S) /\ waiting' = Filter(waiting, S)
      /\ DOMAIN seqs' = DOMAIN seqs \ {id}
  BY DEF Dropped, Without, Restrict
<1>2. /\ running \in Seq(SequenceIds) /\ waiting \in Seq(SequenceIds)
      /\ Sorted(running \o waiting)
      /\ Range(running \o waiting) = Range(running) \cup Range(waiting)
  BY RangeConcat DEF LineInv, ArrivalOrder, Line
<1>3. /\ running' \in Seq(SequenceIds) /\ waiting' \in Seq(SequenceIds)
      /\ Sorted(running' \o waiting')
      /\ Range(running' \o waiting') = (Range(running) \cap S) \cup (Range(waiting) \cap S)
  BY <1>1, <1>2, FilteredLine
<1>4. Range(running) \subseteq SequenceIds /\ Range(waiting) \subseteq SequenceIds
  BY <1>2 DEF Range
<1> QED BY <1>1, <1>2, <1>3, <1>4 DEF LineInv, ArrivalOrder, NobodyLost, Line

\* A step that leaves the line, the clock of identifiers and the domain of
\* seqs as they are.
LEMMA SameLine ==
  ASSUME LineInv, Line' = Line, next_id' = next_id, DOMAIN seqs' = DOMAIN seqs,
         running' \in Seq(SequenceIds), waiting' \in Seq(SequenceIds)
  PROVE  LineInv'
BY DEF LineInv, ArrivalOrder, NobodyLost

\* Preemption moves the boundary between the queues, not the line.
LEMMA PreemptLine ==
  ASSUME LineInv, NEW c, preempt_one(c), next_id' = next_id
  PROVE  LineInv'
<1> DEFINE n == Len(running)
<1>1. /\ running \in Seq(SequenceIds) /\ waiting \in Seq(SequenceIds)
      /\ running # << >> /\ n \in Nat /\ n > 0 /\ running[n] \in SequenceIds
  BY DEF LineInv, preempt_one
<1>2. /\ running' = SubSeq(running, 1, n - 1)
      /\ waiting' = <<running[n]>> \o waiting
      /\ DOMAIN seqs' = DOMAIN seqs
  BY DEF preempt_one, Victim, Requeued
<1>3. running' \in Seq(SequenceIds) /\ waiting' \in Seq(SequenceIds)
  BY <1>1, <1>2
<1>4. running' \o waiting' = running \o waiting
  <2>1. running = running' \o <<running[n]>>
    BY <1>1, <1>2, SubSeqRecursiveSecond, SubSeqFull
  <2>2. <<running[n]>> \in Seq(SequenceIds)
    BY <1>1
  <2>3. (running' \o <<running[n]>>) \o waiting
           = running' \o (<<running[n]>> \o waiting)
    BY <1>1, <1>3, <2>2, ConcatAssociative
  <2> QED BY <1>2, <2>1, <2>3
<1> QED BY <1>2, <1>3, <1>4, SameLine DEF Line

\* Every step of the scheduler keeps the invariant.
LEMMA LineStep == LineInv /\ [SchedNext]_schedVars => LineInv'
<1> SUFFICES ASSUME LineInv, [SchedNext]_schedVars PROVE LineInv'
  OBVIOUS
<1>0. /\ running \in Seq(SequenceIds) /\ waiting \in Seq(SequenceIds)
      /\ Sorted(running \o waiting) /\ Range(running \o waiting) = DOMAIN seqs
      /\ Range(running \o waiting) = Range(running) \cup Range(waiting)
      /\ Range(running) \subseteq SequenceIds /\ Range(waiting) \subseteq SequenceIds
  <2>1. running \in Seq(SequenceIds) /\ waiting \in Seq(SequenceIds)
    BY DEF LineInv
  <2>2. Range(running \o waiting) = Range(running) \cup Range(waiting)
    BY <2>1, RangeConcat
  <2>3. Range(running) \subseteq SequenceIds /\ Range(waiting) \subseteq SequenceIds
    BY <2>1 DEF Range
  <2>4. Sorted(running \o waiting) /\ Range(running \o waiting) = DOMAIN seqs
    BY DEF LineInv, ArrivalOrder, NobodyLost, Line
  <2> QED BY <2>1, <2>2, <2>3, <2>4
<1>1. ASSUME NEW p \in Prompts, NEW r \in Params, add_request(p, r)
      PROVE  LineInv'
  <2> DEFINE q == running \o waiting
  <2>1. /\ running' = running /\ waiting' = Append(waiting, next_id)
        /\ next_id' = next_id + 1 /\ next_id \in SequenceIds
        /\ DOMAIN seqs' = DOMAIN seqs \cup {next_id}
    <3>1. next_id \in 1..MaxRequests
      BY <1>1, IdsAssumption DEF add_request, LineInv
    <3> QED BY <1>1, <3>1, IdsAssumption DEF add_request
  <2>2. running' \in Seq(SequenceIds) /\ waiting' \in Seq(SequenceIds)
    BY <1>0, <2>1
  <2>3. /\ <<next_id>> \in Seq(SequenceIds) /\ <<next_id>> \in Seq(Int)
        /\ Range(<<next_id>>) = {next_id}
    BY <2>1, IdsAssumption DEF Range
  <2>4. q \in Seq(SequenceIds) /\ q \in Seq(Int)
    BY <1>0, IdsAssumption, SeqMonotonic, ConcatProperties
  <2>5. running' \o waiting' = q \o <<next_id>>
    <3>1. waiting' = waiting \o <<next_id>>
      BY <1>0, <2>1
    <3> QED BY <1>0, <2>1, <2>3, <3>1, ConcatAssociative
  <2>6. \A id \in Range(q) : id < next_id
    BY DEF LineInv, Line
  <2> HIDE DEF q
  <2>7. Sorted(<<next_id>>)
    BY DEF Sorted
  <2>8. Sorted(q \o <<next_id>>) /\ Range(q \o <<next_id>>) = Range(q) \cup {next_id}
    <3>1. Sorted(q)
      BY <1>0 DEF q
    <3>2. Sorted(q \o <<next_id>>)
      BY <2>3, <2>4, <2>6, <2>7, <3>1, SortedConcat
    <3>3. Range(q \o <<next_id>>) = Range(q) \cup Range(<<next_id>>)
      <4>1. q \in Seq(SequenceIds) /\ <<next_id>> \in Seq(SequenceIds)
        BY <2>3, <2>4
      <4> QED BY <4>1, RangeConcat, ZenonT(40)
    <3> QED BY <2>3, <3>2, <3>3
  <2>9. next_id \in Nat \ {0} /\ \A id \in Range(q) : id \in Int
    BY <2>4 DEF LineInv, Range
  <2>10. \A id \in Range(q) \cup {next_id} : id < next_id + 1
    BY <2>6, <2>9
  <2>11. Line' = q \o <<next_id>> /\ Range(q) = DOMAIN seqs
    BY <1>0, <2>5 DEF Line, q
  <2> QED
    BY <2>1, <2>2, <2>8, <2>9, <2>10, <2>11 DEF LineInv, ArrivalOrder, NobodyLost
<1>2. ASSUME NEW id \in SequenceIds, cancel(id) PROVE LineInv'
  BY <1>2, DroppedLine DEF cancel
<1>3. ASSUME NEW id \in SequenceIds, CommitPrefill(id) PROVE LineInv'
  BY <1>3, <1>0, SameLine DEF CommitPrefill, Line
<1>4. ASSUME NEW id \in SequenceIds, NEW is_stop \in BOOLEAN, on_token(id, is_stop)
      PROVE  LineInv'
  BY <1>4, <1>0, SameLine DEF on_token, Line
<1>5. ASSUME NEW d \in 0..MaxRequests, expire_timeouts(d) PROVE LineInv'
  <2> DEFINE late == 1..d
             T == SequenceIds \ late
  <2>1. /\ running' = running /\ waiting' = Filter(waiting, T) /\ next_id' = next_id
        /\ DOMAIN seqs' = DOMAIN seqs \ (Range(waiting) \cap late)
    BY <1>5 DEF expire_timeouts
  <2> HIDE DEF late
  <2>2. /\ waiting' \in Seq(SequenceIds) /\ Sorted(running' \o waiting')
        /\ Range(running' \o waiting') = Range(running) \cup (Range(waiting) \cap T)
        /\ Range(running) \cap Range(waiting) = {}
    BY <1>0, <2>1, FilteredLine
  <2> QED BY <1>0, <2>1, <2>2 DEF LineInv, ArrivalOrder, NobodyLost, Line
<1>6. CASE Pass
  <2>1. CASE DecodePreempt
    BY <2>1, PreemptLine DEF DecodePreempt
  <2>2. CASE AdmitPreempt
    BY <2>2, PreemptLine DEF AdmitPreempt
  <2>3. CASE Admit
    <3>1. /\ waiting # << >> /\ running' = Append(running, Head(waiting))
          /\ waiting' = Tail(waiting) /\ next_id' = next_id
          /\ DOMAIN seqs' = DOMAIN seqs
      BY <2>3 DEF Admit, CanAdmit
    <3>2. /\ running' \in Seq(SequenceIds) /\ waiting' \in Seq(SequenceIds)
          /\ Head(waiting) \in SequenceIds
      BY <1>0, <3>1
    <3>3. running' \o waiting' = running \o waiting
      <4>1. running' = running \o <<Head(waiting)>>
        BY <1>0, <3>1, <3>2
      <4>2. waiting = <<Head(waiting)>> \o waiting'
        BY <1>0, <3>1, <3>2
      <4>3. (running \o <<Head(waiting)>>) \o waiting'
               = running \o (<<Head(waiting)>> \o waiting')
        BY <1>0, <3>2, ConcatAssociative
      <4> QED BY <4>1, <4>2, <4>3
    <3> QED BY <3>1, <3>2, <3>3, SameLine DEF Line
  <2>4. CASE DecodeGrant \/ DecodesDone \/ PartialsDone \/ AdmitsDone \/ schedule
    BY <1>0, <2>4, SameLine
       DEF DecodeGrant, DecodesDone, PartialsDone, AdmitsDone, schedule,
           queueVars, Line
  <2>5. CASE PartialPrefill
    BY <1>0, <2>5, SameLine DEF PartialPrefill, Line
  <2> QED BY <1>6, <2>1, <2>2, <2>3, <2>4, <2>5 DEF Pass
<1>7. CASE Reap
  <2>1. CASE reap_finished \/ ReapDone
    BY <1>0, <2>1, SameLine DEF reap_finished, ReapDone, queueVars, Line
  <2>2. CASE ReapOne
    BY <2>2, DroppedLine DEF ReapOne
  <2> QED BY <1>7, <2>1, <2>2 DEF Reap
<1>8. CASE UNCHANGED schedVars
  BY <1>0, <1>8, SameLine DEF schedVars, Line
<1> QED BY <1>1, <1>2, <1>3, <1>4, <1>5, <1>6, <1>7, <1>8 DEF SchedNext

LEMMA LineInvariant == SchedSpec => []LineInv
<1>1. SchedInit => LineInv
  <2> SUFFICES ASSUME SchedInit PROVE LineInv
    OBVIOUS
  <2>1. running \o waiting = << >> /\ Range(<< >>) = {} /\ DOMAIN seqs = {}
    BY DEF SchedInit, Empty, Range
  <2> QED
    BY <2>1 DEF SchedInit, LineInv, ArrivalOrder, NobodyLost, Line, Sorted
<1> QED BY <1>1, LineStep, PTL DEF SchedSpec

-----------------------------------------------------------------------------
(* One sequence.                                                            *)

\* What holds of a sequence, wherever it is.
SeqOK(q) ==
  /\ q \in SequenceRecord(Prompts)
  /\ blocks_required(Len(q.prompt)) <= num_blocks
  /\ q.state = "Waiting" => q.computed = 0
  /\ q.state = "Prefilling" => q.computed \in 1..Len(q.prompt) - 1
  /\ q.state = "Decoding" => q.computed = Len(q.prompt)
  /\ q.output <= q.max_tokens
  /\ ~is_finished(q) => q.output < q.max_tokens /\ q.reason = NoReason
  /\ q.reason = "Stop" => q.output >= q.min_tokens
  /\ q.reason = "Length" => q.output = q.max_tokens

\* q and r are the same request, and r is as finished as q was.
SameRequest(q, r) ==
  /\ r.prompt = q.prompt
  /\ is_finished(q) => is_finished(r) /\ r.reason = q.reason /\ r.output = q.output

LEMMA SeqFields ==
  ASSUME NEW q, SeqOK(q)
  PROVE  /\ q.prompt \in Prompts /\ q.prompt \in Seq(Int) /\ Len(q.prompt) \in Nat
         /\ q.computed \in Nat /\ q.output \in Nat /\ q.max_tokens \in Nat
         /\ q.min_tokens \in Nat /\ q.state \in States /\ q.reason \in Reasons \cup {NoReason}
BY PromptsAssumption, LenProperties DEF SeqOK, SequenceRecord

LEMMA NewSeqOK ==
  ASSUME NEW p \in Prompts, NEW r \in Params, blocks_required(Len(p)) <= num_blocks
  PROVE  SeqOK(NewSequence(p, r.max_tokens, r.min_tokens))
BY ParamsAssumption, NoReasonAssumption
   DEF SeqOK, NewSequence, SequenceRecord, States, Reasons, is_finished

\* finish, from wherever the sequence is, for a reason that is true.
LEMMA FinishOK ==
  ASSUME NEW q, SeqOK(q), NEW r \in Reasons,
         r = "Stop" => q.output >= q.min_tokens,
         r = "Length" => q.output = q.max_tokens
  PROVE  /\ SeqOK(finish(q, r)) /\ SameRequest(q, finish(q, r))
         /\ is_finished(finish(q, r))
BY SeqFields DEF finish, SeqOK, SameRequest, SequenceRecord, States, is_finished

\* on_token: the sequence has room for the token, and finishes if it was the
\* last it may have.
LEMMA TokenOK ==
  ASSUME NEW q, SeqOK(q), ~is_finished(q), NEW is_stop \in BOOLEAN
  PROVE  LET m == push_token(q)
             r == stop_reason(m, is_stop)
             n == IF r # NoReason THEN finish(m, r) ELSE m
         IN  /\ SeqOK(n) /\ n.prompt = q.prompt /\ n.output = q.output + 1
             /\ n.state \in {q.state, "Finished"} /\ n.computed = q.computed
             /\ (is_finished(n) <=> r # NoReason)
             /\ r # NoReason => n.reason = r
<1> DEFINE m == push_token(q)
           r == stop_reason(m, is_stop)
<1>1. /\ m \in SequenceRecord(Prompts) /\ m.output = q.output + 1
      /\ m.prompt = q.prompt /\ m.max_tokens = q.max_tokens /\ m.min_tokens = q.min_tokens
      /\ m.computed = q.computed /\ m.state = q.state /\ m.reason = q.reason
  BY DEF push_token, SeqOK, SequenceRecord
<1>2. q.output < q.max_tokens /\ q.output \in Nat /\ q.max_tokens \in Nat
      /\ q.min_tokens \in Nat /\ q.reason = NoReason /\ q.state # "Finished"
  BY SeqFields DEF SeqOK, is_finished
<1>3. /\ r \in {"Stop", "Length", NoReason}
      /\ r = "Stop" => m.output >= m.min_tokens
      /\ r = "Length" => m.output = m.max_tokens
      /\ r = NoReason => m.output < m.max_tokens
  BY <1>1, <1>2, NoReasonAssumption DEF stop_reason, Reasons
<1> HIDE DEF m, r
<1>4. CASE r = NoReason
  BY <1>1, <1>2, <1>3, <1>4, NoReasonAssumption DEF SeqOK, is_finished, Reasons, m, r
<1>5. CASE r # NoReason
  <2> DEFINE n == finish(m, r)
  <2>1. r \in {"Stop", "Length"} /\ r \in Reasons
    BY <1>3, <1>5 DEF Reasons
  <2>2. /\ n \in SequenceRecord(Prompts) /\ n.output = q.output + 1
        /\ n.prompt = q.prompt /\ n.max_tokens = q.max_tokens /\ n.min_tokens = q.min_tokens
        /\ n.computed = q.computed /\ n.state = "Finished" /\ n.reason = r
    BY <1>1, <1>2, <2>1 DEF finish, is_finished, SequenceRecord, States
  <2> HIDE DEF n
  <2>3. SeqOK(n)
    BY <1>1, <1>2, <1>3, <2>1, <2>2 DEF SeqOK, is_finished
  <2> QED BY <1>5, <2>2, <2>3 DEF n, m, r, is_finished
<1> QED BY <1>4, <1>5

LEMMA PreemptOK ==
  ASSUME NEW q, SeqOK(q)
  PROVE  /\ SeqOK(preempt(q)) /\ SameRequest(q, preempt(q))
         /\ preempt(q).output = q.output
         /\ (is_finished(preempt(q)) <=> is_finished(q))
         /\ preempt(q).state \in {"Waiting", "Finished"}
BY SeqFields
   DEF preempt, can_transition_to, SeqOK, SameRequest, SequenceRecord, States, is_finished

\* n more tokens of a prompt that has as many left.
LEMMA PrefilledOK ==
  ASSUME NEW q, SeqOK(q), NEW n \in Nat \ {0}, n <= remaining_prefill(q)
  PROVE  /\ SeqOK(Prefilled(q, n)) /\ SameRequest(q, Prefilled(q, n))
         /\ Prefilled(q, n).output = q.output
         /\ (is_finished(Prefilled(q, n)) <=> is_finished(q))
         /\ Prefilled(q, n).state # "Waiting"
<1> DEFINE a == advance_prefill(q, n)
           m == transition_to(a, "Prefilling")
           r == Prefilled(q, n)
<1>1. /\ q.computed \in Nat /\ Len(q.prompt) \in Nat /\ q.computed + n <= Len(q.prompt)
      /\ q.state \in States /\ q.state # "Decoding" /\ q \in SequenceRecord(Prompts)
  BY SeqFields DEF SeqOK, remaining_prefill
<1>2. /\ a \in SequenceRecord(Prompts) /\ a.computed = q.computed + n
      /\ a.prompt = q.prompt /\ a.max_tokens = q.max_tokens /\ a.min_tokens = q.min_tokens
      /\ a.output = q.output /\ a.state = q.state /\ a.reason = q.reason
  BY <1>1 DEF advance_prefill, SequenceRecord
<1> HIDE DEF a
<1>3. /\ m \in SequenceRecord(Prompts) /\ m.computed = q.computed + n
      /\ m.prompt = q.prompt /\ m.max_tokens = q.max_tokens /\ m.min_tokens = q.min_tokens
      /\ m.output = q.output /\ m.reason = q.reason
      /\ m.state = IF is_finished(q) THEN "Finished" ELSE "Prefilling"
  BY <1>1, <1>2
     DEF transition_to, can_transition_to, is_finished, SequenceRecord, States
<1>4. r = IF is_prefill_complete(m) THEN transition_to(m, "Decoding") ELSE m
  BY DEF Prefilled, a
<1> HIDE DEF m, r
<1>5. /\ r \in SequenceRecord(Prompts) /\ r.computed = q.computed + n
      /\ r.prompt = q.prompt /\ r.max_tokens = q.max_tokens /\ r.min_tokens = q.min_tokens
      /\ r.output = q.output /\ r.reason = q.reason
      /\ r.state = IF is_finished(q) THEN "Finished"
                   ELSE IF q.computed + n >= Len(q.prompt) THEN "Decoding" ELSE "Prefilling"
  BY <1>1, <1>3, <1>4
     DEF transition_to, can_transition_to, is_prefill_complete, is_finished,
         SequenceRecord, States
<1>6. SeqOK(r)
  BY <1>1, <1>5 DEF SeqOK, is_finished
<1> QED BY <1>5, <1>6 DEF r, SameRequest, is_finished

-----------------------------------------------------------------------------
(* The invariant of the scheduler.                                          *)

RowType == [id : SequenceIds, num_tokens : Nat, start_position : Nat,
            is_prefill : BOOLEAN]

\* The tokens of some rows, one by one.
TokensIn(granted) == UNION {{i} \X (1..granted[i].num_tokens) : i \in DOMAIN granted}

\* The prompts of the sequences the scheduler holds.
PromptIn == [id \in DOMAIN seqs |-> seqs[id].prompt]

\* Which queue a sequence of S is in, r running and w waiting, by its state and
\* by its blocks in the cache c.
Located(c, S, r, w) ==
  /\ DOMAIN c.tables \subseteq Range(r)
  /\ \A id \in DOMAIN S :
       /\ S[id].state = "Waiting" => id \in Range(w)
       /\ S[id].state \in {"Prefilling", "Decoding"} =>
            /\ id \in DOMAIN c.tables
            /\ c.tables[id].num_tokens >= Len(S[id].prompt)

SchedInd ==
  /\ LineInv
  /\ SchedTypeOK
  /\ \A id \in DOMAIN seqs : SeqOK(seqs[id])
  /\ CacheInv(cache, PromptIn)
  /\ Located(cache, seqs, running, waiting)
  /\ pc = "partials" => Range(todo) \subseteq Range(running)
  /\ BudgetKept /\ IsFiniteSet(TokensIn(scheduled))

\* One more row adds its tokens.
LEMMA TokensOfRow ==
  ASSUME NEW S, NEW granted \in Seq(S), NEW row \in S, row.num_tokens \in Nat,
         IsFiniteSet(TokensIn(granted))
  PROVE  /\ IsFiniteSet(TokensIn(Append(granted, row)))
         /\ Cardinality(TokensIn(Append(granted, row)))
              = Cardinality(TokensIn(granted)) + row.num_tokens
<1> DEFINE k == Len(granted) + 1
           A == TokensIn(granted)
           B == {k} \X (1..row.num_tokens)
           all == Append(granted, row)
<1>1. /\ Len(granted) \in Nat /\ DOMAIN granted = 1..Len(granted) /\ DOMAIN all = 1..k
      /\ all[k] = row /\ \A i \in 1..Len(granted) : all[i] = granted[i]
  OBVIOUS
<1> HIDE DEF all
<1>2. TokensIn(all) = A \cup B /\ A \cap B = {}
  <2>1. DOMAIN all = DOMAIN granted \cup {k} /\ k \notin DOMAIN granted
    BY <1>1
  <2>2. \A i \in DOMAIN granted : all[i] = granted[i]
    BY <1>1
  <2>3. TokensIn(all) = A \cup B
    BY <1>1, <2>1, <2>2 DEF TokensIn
  <2>4. \A x \in A : x[1] \in DOMAIN granted
    BY DEF TokensIn
  <2>5. \A x \in B : x[1] = k
    OBVIOUS
  <2> HIDE DEF k, A, B
  <2> QED BY <2>1, <2>3, <2>4, <2>5
<1>3. IsFiniteSet(B) /\ Cardinality(B) = row.num_tokens
  <2>1. IsFiniteSet({k}) /\ Cardinality({k}) = 1
    BY FS_Singleton
  <2>2. IsFiniteSet(1..row.num_tokens) /\ Cardinality(1..row.num_tokens) = row.num_tokens
    <3> DEFINE n == row.num_tokens
    <3> HIDE DEF n
    <3>1. n \in Nat
      BY DEF n
    <3>2. /\ IsFiniteSet(1..n)
          /\ Cardinality(1..n) = IF 1 > n THEN 0 ELSE n - 1 + 1
      <4>1. 1 \in Int /\ n \in Int
        BY <3>1
      <4> QED BY <4>1, FS_Interval, Zenon
    <3> QED BY <3>1, <3>2 DEF n
  <2> HIDE DEF k
  <2>3. IsFiniteSet(B) /\ Cardinality(B) = 1 * row.num_tokens
    BY <2>1, <2>2, FS_Product, ZenonT(40)
  <2> QED BY <2>3
<1> HIDE DEF A, B
<1>4. IsFiniteSet(A \cup B) /\ Cardinality(A \cup B) = Cardinality(A) + Cardinality(B) - 0
  <2>1. IsFiniteSet(A)
    BY DEF A
  <2>2. /\ IsFiniteSet(A \cup B)
        /\ Cardinality(A \cup B) = Cardinality(A) + Cardinality(B) - Cardinality(A \cap B)
    BY <1>3, <2>1, FS_Union
  <2> QED BY <1>2, <2>2, FS_EmptySet
<1>5. Cardinality(A) \in Nat
  BY FS_CardinalityType DEF A
<1> QED BY <1>2, <1>3, <1>4, <1>5 DEF A, all

\* The queues share nobody and hold nobody twice.
LEMMA QueueFacts ==
  ASSUME LineInv
  PROVE  /\ running \in Seq(SequenceIds) /\ waiting \in Seq(SequenceIds)
         /\ Range(running) \cup Range(waiting) = DOMAIN seqs
         /\ Range(running) \cap Range(waiting) = {}
         /\ IsInjective(running) /\ IsInjective(waiting)
         /\ DOMAIN seqs \subseteq SequenceIds
<1>1. /\ running \in Seq(SequenceIds) /\ waiting \in Seq(SequenceIds)
      /\ Sorted(running \o waiting) /\ Range(running \o waiting) = DOMAIN seqs
  BY DEF LineInv, ArrivalOrder, NobodyLost, Line
<1>2. /\ running \o waiting \in Seq(SequenceIds)
      /\ Range(running \o waiting) = Range(running) \cup Range(waiting)
  <2>1. running \in Seq(SequenceIds) /\ waiting \in Seq(SequenceIds)
    BY <1>1
  <2> QED BY <2>1, RangeConcat
<1>3. Range(running) \cap Range(waiting) = {}
  BY <1>1, FilteredLine
<1>4. Sorted(running) /\ Sorted(waiting)
  <2>1. running \in Seq(Int) /\ waiting \in Seq(Int)
    BY <1>1, IdsAssumption, SeqMonotonic
  <2> QED BY <1>1, <2>1, SortedConcat
<1>5. ASSUME NEW q \in Seq(SequenceIds), Sorted(q) PROVE IsInjective(q)
  <2>1. q \in Seq(Int) /\ Len(q) \in Nat /\ DOMAIN q = 1..Len(q)
    BY IdsAssumption, SeqMonotonic
  <2>2. \A i \in 1..Len(q) : q[i] \in Int
    BY <2>1
  <2> QED BY <1>5, <2>1, <2>2 DEF Sorted, IsInjective
<1>6. Range(running) \subseteq SequenceIds /\ Range(waiting) \subseteq SequenceIds
  BY <1>1 DEF Range
<1> QED BY <1>1, <1>2, <1>3, <1>4, <1>5, <1>6

\* A cache whose tables are those of sequences that stay is right about them.
LEMMA PromptsStay ==
  ASSUME NEW c, CacheInv(c, PromptIn), DOMAIN c.tables \subseteq DOMAIN seqs \cap DOMAIN seqs',
         \A id \in DOMAIN c.tables : seqs'[id].prompt = seqs[id].prompt
  PROVE  CacheInv(c, PromptIn')
<1> DEFINE Q == PromptIn'
<1>1. \A id \in DOMAIN c.tables : Q[id] = PromptIn[id]
  BY DEF PromptIn
<1> HIDE DEF Q
<1>2. CacheInv(c, Q)
  BY <1>1, PromptsOfTables
<1> QED BY <1>2 DEF Q

\* One sequence moves on.
LEMMA OneUpdated ==
  ASSUME SchedInd, NEW id \in DOMAIN seqs, NEW q, SeqOK(q), q.prompt = seqs[id].prompt,
         seqs' = [seqs EXCEPT ![id] = q]
  PROVE  /\ DOMAIN seqs' = DOMAIN seqs /\ seqs' \in [DOMAIN seqs -> SequenceRecord(Prompts)]
         /\ \A x \in DOMAIN seqs : /\ SeqOK(seqs'[x]) /\ seqs'[x].prompt = seqs[x].prompt
                                   /\ x # id => seqs'[x] = seqs[x]
         /\ seqs'[id] = q /\ PromptIn' = PromptIn
<1>1. /\ seqs \in [DOMAIN seqs -> SequenceRecord(Prompts)]
      /\ \A x \in DOMAIN seqs : SeqOK(seqs[x])
  BY DEF SchedInd, SchedTypeOK, PartialFunction
<1>2. q \in SequenceRecord(Prompts)
  BY DEF SeqOK
<1>3. /\ DOMAIN seqs' = DOMAIN seqs /\ seqs' \in [DOMAIN seqs -> SequenceRecord(Prompts)]
      /\ seqs'[id] = q /\ \A x \in DOMAIN seqs : x # id => seqs'[x] = seqs[x]
  BY <1>1, <1>2
<1>4. \A x \in DOMAIN seqs : SeqOK(seqs'[x]) /\ seqs'[x].prompt = seqs[x].prompt
  BY <1>1, <1>3
<1> QED BY <1>3, <1>4 DEF PromptIn

\* A step that only moves the loops of a pass on.
LEMMA OnlyLoops ==
  ASSUME SchedInd, UNCHANGED <<queueVars, next_id, expired>>,
         pc' \in {"idle", "decodes", "partials", "admits", "reap"},
         todo' \in Seq(SequenceIds), pc' = "partials" => Range(todo') \subseteq Range(running),
         \/ UNCHANGED <<scheduled, used>>
         \/ scheduled' = << >> /\ used' = 0
  PROVE  SchedInd'
<1>1. /\ cache' = cache /\ seqs' = seqs /\ waiting' = waiting /\ running' = running
      /\ next_id' = next_id /\ expired' = expired
  BY DEF queueVars
<1>2. LineInv'
  BY <1>1, QueueFacts, SameLine DEF SchedInd, Line
<1>3. PromptIn' = PromptIn
  BY <1>1 DEF PromptIn
<1>4. /\ scheduled' \in Seq(RowType) /\ used' \in Nat /\ used' <= budget
      /\ IsFiniteSet(TokensIn(scheduled')) /\ used' = Cardinality(TokensIn(scheduled'))
  <2>1. CASE UNCHANGED <<scheduled, used>>
    BY <2>1 DEF SchedInd, SchedTypeOK, BudgetKept, GrantedTokens, TokensIn, RowType
  <2>2. CASE scheduled' = << >> /\ used' = 0
    <3>1. TokensIn(<< >>) = {}
      BY DEF TokensIn
    <3>2. << >> \in Seq(RowType) /\ IsFiniteSet({}) /\ Cardinality({}) = 0
      BY FS_EmptySet
    <3>3. 0 \in Nat /\ 0 <= budget
      BY ConfigAssumption DEF budget
    <3> QED BY <2>2, <3>1, <3>2, <3>3
  <2> QED BY <2>1, <2>2
<1>5. SchedTypeOK'
  BY <1>1, <1>4 DEF SchedInd, SchedTypeOK, RowType
<1>6. BudgetKept'
  BY <1>1, <1>4 DEF SchedInd, BudgetKept, GrantedTokens, TokensIn, budget
<1> QED BY <1>1, <1>2, <1>3, <1>4, <1>5, <1>6 DEF SchedInd

\* What the loops visit is in the running queue.
LEMMA CandidatesRun ==
  ASSUME SchedInd, NEW loop
  PROVE  Candidates(loop) \in Seq(SequenceIds) /\ Range(Candidates(loop)) \subseteq Range(running)
<1>1. running \in Seq(SequenceIds)
  BY QueueFacts DEF SchedInd
<1>2. \A T : Filter(running, T) \in Seq(SequenceIds) /\ Range(Filter(running, T)) \subseteq Range(running)
  BY <1>1, FilterType
<1>3. << >> \in Seq(SequenceIds) /\ Range(<< >>) = {}
  BY DEF Range
<1> QED BY <1>2, <1>3 DEF Candidates

\* preempt_one: the victim loses its blocks with its place.
LEMMA PreemptKeeps ==
  ASSUME SchedInd, NEW c, preempt_one(c)
  PROVE  /\ CacheInv(c, PromptIn') /\ Located(c, seqs', running', waiting')
         /\ DOMAIN seqs' = DOMAIN seqs /\ seqs' \in [DOMAIN seqs -> SequenceRecord(Prompts)]
         /\ \A x \in DOMAIN seqs : /\ SeqOK(seqs'[x]) /\ SameRequest(seqs[x], seqs'[x])
                                   /\ seqs'[x].output = seqs[x].output
                                   /\ (is_finished(seqs'[x]) <=> is_finished(seqs[x]))
         /\ running' \in Seq(SequenceIds) /\ waiting' \in Seq(SequenceIds)
         /\ Len(running') <= Len(running) /\ DOMAIN c.tables \subseteq DOMAIN seqs
<1> DEFINE n == Len(running)
           v == running[n]
           rest == SubSeq(running, n, n)
<1>0. /\ running \in Seq(SequenceIds) /\ waiting \in Seq(SequenceIds)
      /\ Range(running) \cup Range(waiting) = DOMAIN seqs
      /\ Range(running) \cap Range(waiting) = {} /\ IsInjective(running)
  BY QueueFacts DEF SchedInd
<1>1. /\ running # << >> /\ n \in Nat /\ n > 0 /\ n - 1 \in 0..n
      /\ v \in SequenceIds /\ v \in Range(running)
  BY <1>0 DEF preempt_one, Range
<1>2. /\ c = free(cache, v) /\ running' = SubSeq(running, 1, n - 1)
      /\ waiting' = <<v>> \o waiting /\ seqs' = [seqs EXCEPT ![v] = preempt(@)]
  BY DEF preempt_one, Victim, Requeued
<1>3. running' \in Seq(SequenceIds) /\ Range(running') = Range(running) \ {v} /\ Len(running') = n - 1
  <2>1. /\ running' \in Seq(SequenceIds) /\ Len(running') = n - 1
        /\ Range(running') \cap Range(rest) = {}
        /\ Range(running') \cup Range(rest) = Range(running)
    <3>1. (n - 1) + 1 = n
      BY <1>1
    <3> QED BY <1>0, <1>1, <1>2, <3>1, SplitInjective
  <2>2. Range(rest) = {v}
    <3>1. rest \in Seq(SequenceIds) /\ Len(rest) = 1 /\ rest[1] = v
      BY <1>0, <1>1
    <3>2. DOMAIN rest = {1}
      BY <3>1, LenProperties
    <3> QED BY <3>1, <3>2 DEF Range
  <2> QED BY <2>1, <2>2
<1>4. waiting' \in Seq(SequenceIds) /\ Range(waiting') = Range(waiting) \cup {v}
  <2>1. <<v>> \in Seq(SequenceIds) /\ Range(<<v>>) = {v}
    BY <1>1 DEF Range
  <2> HIDE DEF v
  <2>2. <<v>> \o waiting \in Seq(SequenceIds)
        /\ Range(<<v>> \o waiting) = Range(<<v>>) \cup Range(waiting)
    <3>1. <<v>> \in Seq(SequenceIds) /\ waiting \in Seq(SequenceIds)
      BY <1>0, <2>1
    <3> QED BY <3>1, RangeConcat, ZenonT(40)
  <2> QED BY <1>2, <2>1, <2>2
<1>5. /\ v \in DOMAIN seqs /\ SeqOK(preempt(seqs[v])) /\ SameRequest(seqs[v], preempt(seqs[v]))
      /\ preempt(seqs[v]).output = seqs[v].output
      /\ (is_finished(preempt(seqs[v])) <=> is_finished(seqs[v]))
      /\ preempt(seqs[v]).state \in {"Waiting", "Finished"}
  BY <1>0, <1>1, PreemptOK DEF SchedInd
<1> HIDE DEF v
<1>6. /\ DOMAIN seqs' = DOMAIN seqs /\ seqs' \in [DOMAIN seqs -> SequenceRecord(Prompts)]
      /\ seqs'[v] = preempt(seqs[v]) /\ PromptIn' = PromptIn
      /\ \A x \in DOMAIN seqs : SeqOK(seqs'[x]) /\ (x # v => seqs'[x] = seqs[x])
  BY <1>2, <1>5, OneUpdated DEF SameRequest
<1>7. /\ CacheInv(c, PromptIn) /\ DOMAIN c.tables = DOMAIN cache.tables \ {v}
      /\ \A x \in DOMAIN cache.tables \ {v} : c.tables[x] = cache.tables[x]
  BY <1>2, FreeInv DEF SchedInd
<1>8. Located(cache, seqs, running, waiting)
  BY DEF SchedInd
<1>9. Located(c, seqs', running', waiting')
  BY <1>3, <1>4, <1>5, <1>6, <1>7, <1>8 DEF Located
<1>10. \A x \in DOMAIN seqs : /\ SameRequest(seqs[x], seqs'[x]) /\ seqs'[x].output = seqs[x].output
                              /\ (is_finished(seqs'[x]) <=> is_finished(seqs[x]))
  BY <1>5, <1>6 DEF SameRequest
<1>11. CacheInv(c, PromptIn')
  BY <1>6, <1>7
<1>12. DOMAIN c.tables \subseteq DOMAIN seqs
  BY <1>0, <1>7, <1>8 DEF Located
<1>13. Len(running') <= Len(running)
  BY <1>1, <1>3
<1>14. \A x \in DOMAIN seqs : /\ SeqOK(seqs'[x]) /\ SameRequest(seqs[x], seqs'[x])
                              /\ seqs'[x].output = seqs[x].output
                              /\ (is_finished(seqs'[x]) <=> is_finished(seqs[x]))
  BY <1>6, <1>10
<1>15. running' \in Seq(SequenceIds) /\ waiting' \in Seq(SequenceIds)
  BY <1>3, <1>4
<1>16. DOMAIN seqs' = DOMAIN seqs /\ seqs' \in [DOMAIN seqs -> SequenceRecord(Prompts)]
  BY <1>6
<1> QED
  BY <1>9, <1>11, <1>12, <1>13, <1>14, <1>15, <1>16

\* A longer table is still a table.
LEMMA AppendKeeps ==
  ASSUME NEW c, NEW P, NEW S, NEW r, NEW w, CacheInv(c, P), Located(c, S, r, w),
         \A x \in DOMAIN S : S[x].prompt \in Seq(Int), NEW id, append_ok(c, id)
  PROVE  /\ CacheInv(append_token(c, id), P)
         /\ Located(append_token(c, id), S, r, w)
         /\ DOMAIN append_token(c, id).tables = DOMAIN c.tables
         /\ id \in DOMAIN c.tables
<1> DEFINE d == append_token(c, id)
<1>1. /\ CacheInv(d, P) /\ DOMAIN d.tables = DOMAIN c.tables
      /\ AppendsTo(c, d, id, FullChunks(P[id])) /\ id \in DOMAIN c.tables
  BY AppendInv DEF append_ok
<1> HIDE DEF d
<1>2. ASSUME NEW x \in DOMAIN S, x \in DOMAIN c.tables,
             c.tables[x].num_tokens >= Len(S[x].prompt)
      PROVE  d.tables[x].num_tokens >= Len(S[x].prompt)
  <2>1. c.tables[x].num_tokens \in Nat /\ Len(S[x].prompt) \in Nat
    BY <1>2, TableBlocks, LenProperties
  <2>2. d.tables[x].num_tokens \in {c.tables[x].num_tokens, c.tables[x].num_tokens + 1}
    BY <1>1, <1>2 DEF AppendsTo
  <2> QED BY <1>2, <2>1, <2>2
<1>3. Located(d, S, r, w)
  BY <1>1, <1>2 DEF Located
<1> QED BY <1>1, <1>3 DEF d

\* A row joins the pass.
LEMMA GrantKeeps ==
  ASSUME SchedInd, NEW row \in RowType, Granted(row), used + row.num_tokens <= budget,
         Len(running') \in Nat, Len(running') <= max_num_seqs
  PROVE  /\ scheduled' \in Seq(RowType) /\ used' \in Nat
         /\ BudgetKept' /\ IsFiniteSet(TokensIn(scheduled'))
<1>1. /\ scheduled \in Seq(RowType) /\ used \in Nat /\ IsFiniteSet(TokensIn(scheduled))
      /\ used = Cardinality(TokensIn(scheduled)) /\ row.num_tokens \in Nat
  BY DEF SchedInd, SchedTypeOK, BudgetKept, GrantedTokens, TokensIn, RowType
<1>2. scheduled' = Append(scheduled, row) /\ used' = used + row.num_tokens
  BY DEF Granted
<1>3. /\ IsFiniteSet(TokensIn(scheduled'))
      /\ Cardinality(TokensIn(scheduled')) = Cardinality(TokensIn(scheduled)) + row.num_tokens
  BY <1>1, <1>2, TokensOfRow
<1>4. scheduled' \in Seq(RowType) /\ used' \in Nat /\ used' <= budget
  BY <1>1, <1>2
<1>5. GrantedTokens' = TokensIn(scheduled')
  BY DEF GrantedTokens, TokensIn
<1> QED BY <1>1, <1>2, <1>3, <1>4, <1>5 DEF BudgetKept, budget

\* How much of a prompt is prefilled at once: no more than it has left, and no
\* more than the budget has.
LEMMA ChunkBounds ==
  ASSUME NEW q, SeqOK(q), used \in Nat, used < budget, ChunkFor(q) > 0
  PROVE  /\ ChunkFor(q) \in Nat \ {0} /\ ChunkFor(q) <= remaining_prefill(q)
         /\ used + ChunkFor(q) <= budget
<1>1. remaining_prefill(q) \in Int /\ budget \in Nat
  BY SeqFields, ConfigAssumption DEF remaining_prefill, budget
<1> QED BY <1>1 DEF ChunkFor

-----------------------------------------------------------------------------
(* The steps.                                                               *)

\* What a step may do to the requests it does not let go of.
RequestsStay == \A id \in DOMAIN seqs \cap DOMAIN seqs' : SameRequest(seqs[id], seqs'[id])

\* A step that lets go of nobody, finishes nobody and produces nothing.
SameOutputs ==
  /\ DOMAIN seqs' = DOMAIN seqs
  /\ \A id \in DOMAIN seqs :
       /\ SameRequest(seqs[id], seqs'[id]) /\ seqs'[id].output = seqs[id].output
       /\ (is_finished(seqs'[id]) <=> is_finished(seqs[id]))

\* What is left to show of a step once the line is known to be in order.
LEMMA Assemble ==
  ASSUME LineInv', next_id' \in 1..MaxRequests + 1, expired' \in 0..next_id' - 1,
         seqs' \in [DOMAIN seqs' -> SequenceRecord(Prompts)],
         \A id \in DOMAIN seqs' : SeqOK(seqs'[id]),
         CacheInv(cache', PromptIn'), Located(cache', seqs', running', waiting'),
         pc' \in {"idle", "decodes", "partials", "admits", "reap"},
         todo' \in Seq(SequenceIds), pc' = "partials" => Range(todo') \subseteq Range(running'),
         scheduled' \in Seq(RowType), used' \in Nat, BudgetKept',
         IsFiniteSet(TokensIn(scheduled'))
  PROVE  SchedInd'
<1>1. /\ running' \in Seq(SequenceIds) /\ waiting' \in Seq(SequenceIds)
      /\ Range(running' \o waiting') = DOMAIN seqs'
      /\ \A id \in Range(running' \o waiting') : id < next_id'
  BY DEF LineInv, NobodyLost, Line
<1>2. DOMAIN seqs' \subseteq 1..next_id' - 1
  <2>1. running' \o waiting' \in Seq(SequenceIds)
    BY <1>1, RangeConcat
  <2>2. \A q \in Seq(SequenceIds) : Range(q) \subseteq SequenceIds
    BY DEF Range
  <2>3. DOMAIN seqs' \subseteq SequenceIds
    BY <1>1, <2>1, <2>2
  <2> QED BY <1>1, <2>3, IdsAssumption
<1>3. CacheType(cache')
  BY DEF CacheInv
<1>4. SchedTypeOK'
  BY <1>1, <1>2, <1>3 DEF SchedTypeOK, PartialFunction, RowType
<1> QED BY <1>4 DEF SchedInd

\* The facts of the invariant that the steps below keep using.
LEMMA IndFacts ==
  ASSUME SchedInd
  PROVE  /\ LineInv
         /\ running \in Seq(SequenceIds) /\ waiting \in Seq(SequenceIds)
         /\ Range(running) \cup Range(waiting) = DOMAIN seqs
         /\ Range(running) \cap Range(waiting) = {}
         /\ IsInjective(running) /\ IsInjective(waiting)
         /\ DOMAIN seqs \subseteq SequenceIds
         /\ seqs \in [DOMAIN seqs -> SequenceRecord(Prompts)]
         /\ \A id \in DOMAIN seqs : SeqOK(seqs[id])
         /\ \A id \in DOMAIN seqs : seqs[id].prompt \in Seq(Int)
         /\ CacheInv(cache, PromptIn) /\ Located(cache, seqs, running, waiting)
         /\ next_id \in 1..MaxRequests + 1 /\ expired \in 0..next_id - 1
         /\ pc \in {"idle", "decodes", "partials", "admits", "reap"}
         /\ todo \in Seq(SequenceIds)
         /\ scheduled \in Seq(RowType) /\ used \in Nat /\ used <= budget
         /\ BudgetKept /\ IsFiniteSet(TokensIn(scheduled))
         /\ Len(running) \in Nat /\ Len(running) <= max_num_seqs
<1>1. LineInv /\ SchedTypeOK /\ \A id \in DOMAIN seqs : SeqOK(seqs[id])
  BY DEF SchedInd
<1>2. \A id \in DOMAIN seqs : seqs[id].prompt \in Seq(Int)
  BY <1>1, SeqFields
<1>3. /\ seqs \in [DOMAIN seqs -> SequenceRecord(Prompts)]
      /\ next_id \in 1..MaxRequests + 1 /\ expired \in 0..next_id - 1
      /\ pc \in {"idle", "decodes", "partials", "admits", "reap"}
      /\ todo \in Seq(SequenceIds) /\ scheduled \in Seq(RowType) /\ used \in Nat
  BY <1>1 DEF SchedTypeOK, PartialFunction, RowType
<1>4. /\ BudgetKept /\ IsFiniteSet(TokensIn(scheduled)) /\ CacheInv(cache, PromptIn)
      /\ Located(cache, seqs, running, waiting)
  BY DEF SchedInd
<1>5. /\ used <= budget /\ Len(running) <= max_num_seqs
  BY <1>4 DEF BudgetKept
<1>6. /\ running \in Seq(SequenceIds) /\ waiting \in Seq(SequenceIds)
      /\ Range(running) \cup Range(waiting) = DOMAIN seqs
      /\ Range(running) \cap Range(waiting) = {}
      /\ IsInjective(running) /\ IsInjective(waiting)
      /\ DOMAIN seqs \subseteq SequenceIds
  BY <1>1, QueueFacts
<1>7. Len(running) \in Nat
  BY <1>6, LenProperties
<1> QED BY <1>1, <1>2, <1>3, <1>4, <1>5, <1>6, <1>7

\* A step that schedules nothing and makes the batch no larger.
LEMMA RowsStay ==
  ASSUME SchedInd, UNCHANGED <<scheduled, used>>, Len(running') \in Nat,
         Len(running') <= Len(running)
  PROVE  /\ scheduled' \in Seq(RowType) /\ used' \in Nat
         /\ BudgetKept' /\ IsFiniteSet(TokensIn(scheduled'))
<1>1. /\ scheduled' = scheduled /\ used' = used /\ scheduled \in Seq(RowType)
      /\ used \in Nat /\ IsFiniteSet(TokensIn(scheduled)) /\ BudgetKept
      /\ Len(running) \in Nat /\ Len(running) <= max_num_seqs
  BY IndFacts
<1>2. Len(running') <= max_num_seqs
  BY <1>1, ConfigAssumption
<1>3. BudgetKept'
  BY <1>1, <1>2 DEF BudgetKept, GrantedTokens, budget
<1> QED BY <1>1, <1>3

LEMMA AddKeeps ==
  ASSUME SchedInd, LineInv', NEW p \in Prompts, NEW r \in Params, add_request(p, r)
  PROVE  SchedInd' /\ RequestsStay
<1> DEFINE q == NewSequence(p, r.max_tokens, r.min_tokens)
<1>0. /\ running \in Seq(SequenceIds) /\ waiting \in Seq(SequenceIds)
      /\ Range(running) \cup Range(waiting) = DOMAIN seqs
      /\ DOMAIN seqs \subseteq SequenceIds
      /\ seqs \in [DOMAIN seqs -> SequenceRecord(Prompts)]
      /\ \A id \in DOMAIN seqs : SeqOK(seqs[id])
      /\ CacheInv(cache, PromptIn) /\ Located(cache, seqs, running, waiting)
      /\ next_id \in 1..MaxRequests + 1 /\ expired \in 0..next_id - 1
      /\ todo \in Seq(SequenceIds) /\ LineInv /\ Len(running) \in Nat
  BY IndFacts
<1>1. /\ next_id \in 1..MaxRequests /\ next_id' = next_id + 1 /\ expired' = expired
      /\ running' = running /\ waiting' = Append(waiting, next_id) /\ cache' = cache
      /\ pc' = "idle" /\ todo' = todo /\ UNCHANGED <<scheduled, used>>
      /\ blocks_required(Len(p)) <= num_blocks
      /\ seqs' = [id \in DOMAIN seqs \cup {next_id} |-> IF id = next_id THEN q ELSE seqs[id]]
  BY <1>0 DEF add_request, Accepts
<1>2. SeqOK(q) /\ q.state = "Waiting"
  BY <1>1, NewSeqOK DEF NewSequence
<1>3. next_id \notin DOMAIN seqs
  <2>1. \A id \in DOMAIN seqs : id < next_id
    BY <1>0 DEF LineInv, NobodyLost
  <2> QED BY <1>0, <1>1, <2>1
<1> HIDE DEF q
<1>4. /\ DOMAIN seqs' = DOMAIN seqs \cup {next_id} /\ seqs'[next_id] = q
      /\ \A id \in DOMAIN seqs : seqs'[id] = seqs[id]
  BY <1>1, <1>3
<1>5. /\ seqs' \in [DOMAIN seqs' -> SequenceRecord(Prompts)]
      /\ \A id \in DOMAIN seqs' : SeqOK(seqs'[id])
  <2>1. q \in SequenceRecord(Prompts)
    BY <1>2 DEF SeqOK
  <2> QED BY <1>0, <1>1, <1>2, <1>4, <2>1
<1>6. CacheInv(cache', PromptIn')
  <2>1. DOMAIN cache.tables \subseteq DOMAIN seqs \cap DOMAIN seqs'
    BY <1>0, <1>4 DEF Located
  <2>2. \A id \in DOMAIN cache.tables : seqs'[id].prompt = seqs[id].prompt
    BY <1>4, <2>1
  <2> QED BY <1>0, <1>1, <2>1, <2>2, PromptsStay
<1>7. Located(cache', seqs', running', waiting')
  <2>1. Range(waiting') = Range(waiting) \cup {next_id}
    <3>1. <<next_id>> \in Seq(SequenceIds) /\ Range(<<next_id>>) = {next_id}
      BY <1>1, IdsAssumption DEF Range
    <3>2. waiting' = waiting \o <<next_id>>
      BY <1>0, <1>1
    <3>3. waiting \in Seq(SequenceIds) /\ <<next_id>> \in Seq(SequenceIds)
      BY <1>0, <3>1
    <3>4. Range(waiting \o <<next_id>>) = Range(waiting) \cup Range(<<next_id>>)
      BY <3>3, RangeConcat
    <3> QED BY <3>1, <3>2, <3>4
  <2> QED BY <1>0, <1>1, <1>2, <1>4, <2>1 DEF Located
<1>8. /\ scheduled' \in Seq(RowType) /\ used' \in Nat /\ BudgetKept'
      /\ IsFiniteSet(TokensIn(scheduled'))
  BY <1>0, <1>1, RowsStay
<1>9. next_id' \in 1..MaxRequests + 1 /\ expired' \in 0..next_id' - 1
  BY <1>0, <1>1, IdsAssumption
<1>10. SchedInd'
  BY <1>0, <1>1, <1>5, <1>6, <1>7, <1>8, <1>9, Assemble
<1> QED BY <1>4, <1>10 DEF RequestsStay, SameRequest

\* A sequence leaves with its blocks, if it runs and has some.
LEMMA DroppedKeeps ==
  ASSUME SchedInd, LineInv', NEW id, Dropped(id), UNCHANGED <<next_id, expired, scheduled, used>>,
         pc' \in {"idle", "reap"}, todo' \in Seq(SequenceIds)
  PROVE  SchedInd' /\ RequestsStay /\ DOMAIN seqs' = DOMAIN seqs \ {id}
<1> DEFINE S == SequenceIds \ {id}
<1>0. /\ running \in Seq(SequenceIds) /\ waiting \in Seq(SequenceIds)
      /\ Range(running) \cup Range(waiting) = DOMAIN seqs
      /\ DOMAIN seqs \subseteq SequenceIds
      /\ seqs \in [DOMAIN seqs -> SequenceRecord(Prompts)]
      /\ \A x \in DOMAIN seqs : SeqOK(seqs[x])
      /\ CacheInv(cache, PromptIn) /\ Located(cache, seqs, running, waiting)
      /\ next_id \in 1..MaxRequests + 1 /\ expired \in 0..next_id - 1
  BY IndFacts
<1>1. /\ running' = Filter(running, S) /\ waiting' = Filter(waiting, S)
      /\ DOMAIN seqs' = DOMAIN seqs \ {id} /\ \A x \in DOMAIN seqs' : seqs'[x] = seqs[x]
      /\ seqs' = [x \in DOMAIN seqs' |-> seqs[x]]
      /\ cache' = IF id \in Range(running) THEN free(cache, id) ELSE cache
  BY DEF Dropped, Without, Restrict
<1> HIDE DEF S
<1>2. /\ Range(running') = Range(running) \cap S /\ Range(waiting') = Range(waiting) \cap S
      /\ Len(running') \in Nat /\ Len(running') <= Len(running)
  BY <1>0, <1>1, FilterType, FilterLength
<1>3. /\ CacheInv(cache', PromptIn) /\ DOMAIN cache'.tables = DOMAIN cache.tables \ {id}
      /\ \A x \in DOMAIN cache.tables \ {id} : cache'.tables[x] = cache.tables[x]
  <2>1. CASE id \in Range(running)
    BY <1>0, <1>1, <2>1, FreeInv
  <2>2. CASE id \notin Range(running)
    <3>1. id \notin DOMAIN cache.tables
      BY <1>0, <2>2 DEF Located
    <3> QED BY <1>0, <1>1, <2>2, <3>1
  <2> QED BY <2>1, <2>2
<1>4. CacheInv(cache', PromptIn')
  <2>1. DOMAIN cache'.tables \subseteq DOMAIN seqs \cap DOMAIN seqs'
    BY <1>0, <1>1, <1>3 DEF Located
  <2>2. \A x \in DOMAIN cache'.tables : seqs'[x].prompt = seqs[x].prompt
    BY <1>1, <2>1
  <2> QED BY <1>3, <2>1, <2>2, PromptsStay
<1>5. Located(cache', seqs', running', waiting')
  <2>1. \A x \in SequenceIds : x \in S <=> x # id
    BY DEF S
  <2>2. Located(cache, seqs, running, waiting) /\ Range(running) \subseteq SequenceIds
        /\ Range(waiting) \subseteq SequenceIds
    BY <1>0
  <2> QED BY <1>1, <1>2, <1>3, <2>1, <2>2 DEF Located
<1>6. /\ seqs' \in [DOMAIN seqs' -> SequenceRecord(Prompts)]
      /\ \A x \in DOMAIN seqs' : SeqOK(seqs'[x])
  BY <1>0, <1>1
<1>7. /\ scheduled' \in Seq(RowType) /\ used' \in Nat /\ BudgetKept'
      /\ IsFiniteSet(TokensIn(scheduled'))
  BY <1>2, RowsStay
<1>8. SchedInd'
  BY <1>0, <1>4, <1>5, <1>6, <1>7, Assemble
<1> QED BY <1>1, <1>8 DEF RequestsStay, SameRequest

\* Deadlines: waiting sequences leave, and have no blocks; running ones finish.
LEMMA ExpireKeeps ==
  ASSUME SchedInd, LineInv', NEW d \in 0..MaxRequests, expire_timeouts(d)
  PROVE  SchedInd' /\ RequestsStay
<1> DEFINE late == 1..d
           gone == Range(waiting) \cap late
           stopped == Range(running) \cap late
           T == SequenceIds \ late
<1>0. /\ running \in Seq(SequenceIds) /\ waiting \in Seq(SequenceIds)
      /\ Range(running) \cup Range(waiting) = DOMAIN seqs
      /\ Range(running) \cap Range(waiting) = {}
      /\ seqs \in [DOMAIN seqs -> SequenceRecord(Prompts)]
      /\ \A x \in DOMAIN seqs : SeqOK(seqs[x])
      /\ CacheInv(cache, PromptIn) /\ Located(cache, seqs, running, waiting)
      /\ next_id \in 1..MaxRequests + 1 /\ expired \in 0..next_id - 1
      /\ todo \in Seq(SequenceIds) /\ Len(running) \in Nat
  BY IndFacts
<1>1. /\ d \in expired..next_id - 1 /\ expired' = d /\ next_id' = next_id
      /\ waiting' = Filter(waiting, T) /\ running' = running /\ cache' = cache
      /\ seqs' = [x \in DOMAIN seqs \ gone |->
                    IF x \in stopped THEN finish(seqs[x], "Timeout") ELSE seqs[x]]
      /\ pc' = "idle" /\ todo' = todo /\ UNCHANGED <<scheduled, used>>
  BY DEF expire_timeouts
<1>2. Range(waiting') = Range(waiting) \ late
  <2>1. Range(waiting) \subseteq SequenceIds
    BY <1>0 DEF Range
  <2>2. Range(waiting') = Range(waiting) \cap T
    <3> HIDE DEF T
    <3> QED BY <1>0, <1>1, FilterType, ZenonT(40)
  <2> QED BY <2>1, <2>2
<1> HIDE DEF late, T
<1>3. \A x \in DOMAIN seqs : /\ SeqOK(finish(seqs[x], "Timeout"))
                             /\ SameRequest(seqs[x], finish(seqs[x], "Timeout"))
                             /\ is_finished(finish(seqs[x], "Timeout"))
  <2>1. "Timeout" \in Reasons /\ "Timeout" # "Stop" /\ "Timeout" # "Length"
    BY DEF Reasons
  <2> QED BY <1>0, <2>1, FinishOK
<1>4. \A x \in DOMAIN seqs : SameRequest(seqs[x], seqs[x])
  BY DEF SameRequest
<1>5. /\ DOMAIN seqs' = DOMAIN seqs \ gone
      /\ \A x \in DOMAIN seqs' : /\ SeqOK(seqs'[x]) /\ SameRequest(seqs[x], seqs'[x])
                                 /\ seqs'[x] # seqs[x] => is_finished(seqs'[x])
  BY <1>0, <1>1, <1>3, <1>4
<1>6. seqs' \in [DOMAIN seqs' -> SequenceRecord(Prompts)]
  <2>1. \A x \in DOMAIN seqs' : seqs'[x] \in SequenceRecord(Prompts)
    BY <1>5 DEF SeqOK
  <2>2. seqs' = [x \in DOMAIN seqs' |-> seqs'[x]]
    BY <1>1
  <2> QED BY <2>1, <2>2
<1>7. CacheInv(cache', PromptIn')
  <2>1. DOMAIN cache.tables \subseteq DOMAIN seqs \cap DOMAIN seqs'
    BY <1>0, <1>5 DEF Located
  <2>2. \A x \in DOMAIN cache.tables : seqs'[x].prompt = seqs[x].prompt
    BY <1>5, <2>1 DEF SameRequest
  <2> QED BY <1>0, <1>1, <2>1, <2>2, PromptsStay
<1>8. Located(cache', seqs', running', waiting')
  <2>1. \A x \in DOMAIN seqs' : is_finished(seqs'[x]) \/ seqs'[x] = seqs[x]
    BY <1>5
  <2> QED BY <1>0, <1>1, <1>2, <1>5, <2>1 DEF Located, is_finished
<1>9. /\ scheduled' \in Seq(RowType) /\ used' \in Nat /\ BudgetKept'
      /\ IsFiniteSet(TokensIn(scheduled'))
  BY <1>0, <1>1, RowsStay
<1>10. expired' \in 0..next_id' - 1
  BY <1>0, <1>1
<1>11. SchedInd'
  BY <1>0, <1>1, <1>5, <1>6, <1>7, <1>8, <1>9, <1>10, Assemble
<1> QED BY <1>5, <1>11 DEF RequestsStay

\* A token for a running sequence that is due one.
LEMMA TokenKeeps ==
  ASSUME SchedInd, LineInv', NEW id \in SequenceIds, NEW is_stop \in BOOLEAN,
         TokenDue(id), on_token(id, is_stop)
  PROVE  /\ SchedInd' /\ RequestsStay
         /\ DOMAIN seqs' = DOMAIN seqs /\ seqs'[id].output = seqs[id].output + 1
         /\ is_finished(seqs'[id]) => seqs'[id].reason \in {"Stop", "Length"}
         /\ \A x \in DOMAIN seqs : x # id => seqs'[x] = seqs[x]
<1> DEFINE m == push_token(seqs[id])
           r == stop_reason(m, is_stop)
           n == IF r # NoReason THEN finish(m, r) ELSE m
<1>0. /\ running \in Seq(SequenceIds) /\ waiting \in Seq(SequenceIds)
      /\ \A x \in DOMAIN seqs : SeqOK(seqs[x])
      /\ CacheInv(cache, PromptIn) /\ Located(cache, seqs, running, waiting)
      /\ next_id \in 1..MaxRequests + 1 /\ expired \in 0..next_id - 1
      /\ todo \in Seq(SequenceIds) /\ Len(running) \in Nat
  BY IndFacts
<1>1. /\ pc' = "idle" /\ seqs' = [seqs EXCEPT ![id] = n] /\ cache' = cache
      /\ next_id' = next_id /\ waiting' = waiting /\ running' = running
      /\ expired' = expired /\ todo' = todo /\ UNCHANGED <<scheduled, used>>
  BY DEF on_token
<1>2. id \in DOMAIN seqs /\ ~is_finished(seqs[id]) /\ SeqOK(seqs[id])
  BY <1>0 DEF TokenDue
<1>3. /\ SeqOK(n) /\ n.prompt = seqs[id].prompt /\ n.output = seqs[id].output + 1
      /\ n.state \in {seqs[id].state, "Finished"}
      /\ is_finished(n) => n.reason \in {"Stop", "Length"}
  <2>1. r \in {"Stop", "Length", NoReason}
    BY DEF stop_reason
  <2> QED BY <1>2, <2>1, TokenOK
<1> HIDE DEF n
<1>4. /\ DOMAIN seqs' = DOMAIN seqs /\ seqs' \in [DOMAIN seqs -> SequenceRecord(Prompts)]
      /\ \A x \in DOMAIN seqs : SeqOK(seqs'[x]) /\ (x # id => seqs'[x] = seqs[x])
      /\ seqs'[id] = n /\ PromptIn' = PromptIn
  BY <1>1, <1>2, <1>3, OneUpdated
<1>5. Located(cache', seqs', running', waiting')
  BY <1>0, <1>1, <1>3, <1>4 DEF Located
<1>6. /\ scheduled' \in Seq(RowType) /\ used' \in Nat /\ BudgetKept'
      /\ IsFiniteSet(TokensIn(scheduled'))
  BY <1>0, <1>1, RowsStay
<1>7. SchedInd'
  BY <1>0, <1>1, <1>4, <1>5, <1>6, Assemble
<1>8. RequestsStay
  BY <1>2, <1>3, <1>4 DEF RequestsStay, SameRequest
<1> QED BY <1>3, <1>4, <1>7, <1>8

\* Publishing a prompt moves no block.
LEMMA CommitKeeps ==
  ASSUME SchedInd, LineInv', NEW id \in SequenceIds, CommitPrefill(id)
  PROVE  SchedInd' /\ SameOutputs
<1>0. /\ running \in Seq(SequenceIds) /\ waiting \in Seq(SequenceIds)
      /\ Range(running) \cup Range(waiting) = DOMAIN seqs
      /\ seqs \in [DOMAIN seqs -> SequenceRecord(Prompts)]
      /\ \A x \in DOMAIN seqs : SeqOK(seqs[x])
      /\ CacheInv(cache, PromptIn) /\ Located(cache, seqs, running, waiting)
      /\ next_id \in 1..MaxRequests + 1 /\ expired \in 0..next_id - 1
      /\ todo \in Seq(SequenceIds) /\ Len(running) \in Nat
  BY IndFacts
<1>1. /\ pc' = "idle" /\ seqs' = seqs /\ id \in DOMAIN seqs
      /\ cache' = commit_prefill(cache, id, seqs[id].prompt)
      /\ next_id' = next_id /\ waiting' = waiting /\ running' = running
      /\ expired' = expired /\ todo' = todo /\ UNCHANGED <<scheduled, used>>
  BY <1>0 DEF CommitPrefill
<1>2. PromptIn' = PromptIn /\ PromptIn[id] = seqs[id].prompt
  BY <1>1 DEF PromptIn
<1>3. CacheInv(cache', PromptIn') /\ cache'.tables = cache.tables
  BY <1>0, <1>1, <1>2, CommitInv
<1>4. Located(cache', seqs', running', waiting')
  BY <1>0, <1>1, <1>3 DEF Located
<1>5. /\ scheduled' \in Seq(RowType) /\ used' \in Nat /\ BudgetKept'
      /\ IsFiniteSet(TokensIn(scheduled'))
  BY <1>0, <1>1, RowsStay
<1>6. SchedInd'
  BY <1>0, <1>1, <1>3, <1>4, <1>5, Assemble
<1> QED BY <1>1, <1>6 DEF SameOutputs, SameRequest

\* The starts and the ends of the loops.
LEMMA LoopsKeep ==
  ASSUME SchedInd,
         schedule \/ DecodesDone \/ PartialsDone \/ AdmitsDone \/ reap_finished \/ ReapDone
  PROVE  SchedInd' /\ SameOutputs
<1>0. /\ running \in Seq(SequenceIds) /\ todo \in Seq(SequenceIds)
  BY IndFacts
<1>1. /\ UNCHANGED <<queueVars, next_id, expired>>
      /\ UNCHANGED <<scheduled, used>> \/ (scheduled' = << >> /\ used' = 0)
  BY DEF schedule, DecodesDone, PartialsDone, AdmitsDone, reap_finished, ReapDone
<1>2. /\ pc' \in {"idle", "decodes", "partials", "admits", "reap"}
      /\ todo' \in Seq(SequenceIds) /\ (pc' = "partials" => Range(todo') \subseteq Range(running))
  <2>1. CASE schedule \/ DecodesDone \/ PartialsDone \/ AdmitsDone
    <3>1. \E loop \in {"idle", "decodes", "partials", "admits"} : Enter(loop)
      BY <2>1 DEF schedule, DecodesDone, PartialsDone, AdmitsDone
    <3> QED BY <3>1, CandidatesRun DEF Enter
  <2>2. CASE reap_finished
    BY <1>0, <2>2, FilterType DEF reap_finished, FinishedRunning
  <2>3. CASE ReapDone
    BY <1>0, <2>3 DEF ReapDone
  <2> QED BY <2>1, <2>2, <2>3
<1>3. SchedInd'
  BY <1>1, <1>2, OnlyLoops
<1>4. seqs' = seqs
  BY <1>1 DEF queueVars
<1> QED BY <1>3, <1>4 DEF SameOutputs, SameRequest

LEMMA ReapKeeps ==
  ASSUME SchedInd, LineInv', Reap
  PROVE  SchedInd' /\ RequestsStay
<1>1. CASE ReapOne
  <2>1. /\ Dropped(Head(todo)) /\ todo # << >> /\ todo' = Tail(todo) /\ pc' = "reap"
        /\ UNCHANGED <<next_id, expired, scheduled, used>>
    BY <1>1 DEF ReapOne
  <2>2. todo' \in Seq(SequenceIds)
    BY <2>1, IndFacts
  <2> QED BY <2>1, <2>2, DroppedKeeps
<1>2. CASE reap_finished \/ ReapDone
  BY <1>2, LoopsKeep DEF SameOutputs, RequestsStay
<1> QED BY <1>1, <1>2 DEF Reap

\* A decode row, with the slot it was given.
LEMMA DecodeGrantKeeps ==
  ASSUME SchedInd, LineInv', DecodeGrant
  PROVE  SchedInd' /\ SameOutputs
<1> DEFINE id == Head(todo)
<1>0. /\ running \in Seq(SequenceIds) /\ waiting \in Seq(SequenceIds)
      /\ Range(running) \subseteq DOMAIN seqs
      /\ seqs \in [DOMAIN seqs -> SequenceRecord(Prompts)]
      /\ \A x \in DOMAIN seqs : SeqOK(seqs[x])
      /\ \A x \in DOMAIN seqs : seqs[x].prompt \in Seq(Int)
      /\ CacheInv(cache, PromptIn) /\ Located(cache, seqs, running, waiting)
      /\ next_id \in 1..MaxRequests + 1 /\ expired \in 0..next_id - 1
      /\ todo \in Seq(SequenceIds) /\ Len(running) \in Nat /\ Len(running) <= max_num_seqs
      /\ used \in Nat
  BY IndFacts
<1>1. /\ todo # << >> /\ used < budget /\ append_ok(cache, id)
      /\ cache' = append_token(cache, id) /\ Granted(DecodeRow(id)) /\ todo' = Tail(todo)
      /\ seqs' = seqs /\ next_id' = next_id /\ waiting' = waiting /\ running' = running
      /\ expired' = expired /\ pc' = "decodes"
  BY DEF DecodeGrant
<1>2. id \in SequenceIds /\ todo' \in Seq(SequenceIds)
  BY <1>0, <1>1
<1> HIDE DEF id
<1>3. /\ CacheInv(cache', PromptIn) /\ Located(cache', seqs, running, waiting)
      /\ id \in DOMAIN cache.tables
  BY <1>0, <1>1, AppendKeeps
<1>4. PromptIn' = PromptIn
  BY <1>1 DEF PromptIn
<1>5. id \in DOMAIN seqs
  BY <1>0, <1>3 DEF Located
<1>6. DecodeRow(id) \in RowType /\ DecodeRow(id).num_tokens = 1
  <2>1. total_len(seqs[id]) \in Nat
    BY <1>0, <1>5, SeqFields DEF total_len
  <2> QED BY <1>2, <2>1 DEF DecodeRow, Row, RowType
<1>7. used + 1 <= budget
  BY <1>0, <1>1, ConfigAssumption DEF budget
<1>8. /\ scheduled' \in Seq(RowType) /\ used' \in Nat /\ BudgetKept'
      /\ IsFiniteSet(TokensIn(scheduled'))
  BY <1>0, <1>1, <1>6, <1>7, GrantKeeps
<1>9. SchedInd'
  BY <1>0, <1>1, <1>2, <1>3, <1>4, <1>8, Assemble
<1> QED BY <1>1, <1>9 DEF SameOutputs, SameRequest

\* A decode whose slot costs the newest sequence its place, be it its own.
LEMMA DecodePreemptKeeps ==
  ASSUME SchedInd, LineInv', DecodePreempt
  PROVE  SchedInd' /\ SameOutputs
<1> DEFINE id == Head(todo)
<1>0. /\ next_id \in 1..MaxRequests + 1 /\ expired \in 0..next_id - 1
      /\ todo \in Seq(SequenceIds) /\ Len(running) \in Nat /\ Len(running) <= max_num_seqs
      /\ used \in Nat
  BY IndFacts
<1>1. PICK c : /\ preempt_one(c)
               /\ \/ /\ append_ok(c, id)
                     /\ cache' = append_token(c, id)
                     /\ Granted(DecodeRow(id))
                  \/ /\ ~append_ok(c, id)
                     /\ cache' = c
                     /\ UNCHANGED <<scheduled, used>>
  BY DEF DecodePreempt
<1>2. /\ todo # << >> /\ used < budget /\ todo' = Tail(todo) /\ pc' = "decodes"
      /\ next_id' = next_id /\ expired' = expired
  BY DEF DecodePreempt
<1>3. id \in SequenceIds /\ todo' \in Seq(SequenceIds)
  BY <1>0, <1>2
<1> HIDE DEF id
<1>4. /\ CacheInv(c, PromptIn') /\ Located(c, seqs', running', waiting')
      /\ DOMAIN seqs' = DOMAIN seqs /\ seqs' \in [DOMAIN seqs -> SequenceRecord(Prompts)]
      /\ \A x \in DOMAIN seqs : /\ SeqOK(seqs'[x]) /\ SameRequest(seqs[x], seqs'[x])
                                /\ seqs'[x].output = seqs[x].output
                                /\ (is_finished(seqs'[x]) <=> is_finished(seqs[x]))
      /\ running' \in Seq(SequenceIds) /\ waiting' \in Seq(SequenceIds)
      /\ Len(running') <= Len(running) /\ DOMAIN c.tables \subseteq DOMAIN seqs
  BY <1>1, PreemptKeeps
<1>5. Len(running') \in Nat /\ Len(running') <= max_num_seqs
  <2>1. Len(running') \in Nat
    BY <1>4, LenProperties
  <2> QED BY <1>0, <1>4, <2>1, ConfigAssumption
<1>6. \A x \in DOMAIN seqs' : SeqOK(seqs'[x]) /\ seqs'[x].prompt \in Seq(Int)
  BY <1>4, SeqFields
<1>7. /\ CacheInv(cache', PromptIn') /\ Located(cache', seqs', running', waiting')
      /\ scheduled' \in Seq(RowType) /\ used' \in Nat /\ BudgetKept'
      /\ IsFiniteSet(TokensIn(scheduled'))
  <2>1. CASE append_ok(c, id) /\ cache' = append_token(c, id) /\ Granted(DecodeRow(id))
    <3>1. /\ CacheInv(cache', PromptIn') /\ Located(cache', seqs', running', waiting')
          /\ id \in DOMAIN c.tables
      BY <1>4, <1>6, <2>1, AppendKeeps
    <3>2. DecodeRow(id) \in RowType /\ DecodeRow(id).num_tokens = 1
      <4>1. id \in DOMAIN seqs /\ SeqOK(seqs[id])
        BY <1>4, <3>1, IndFacts
      <4>2. total_len(seqs[id]) \in Nat
        BY <4>1, SeqFields DEF total_len
      <4> QED BY <1>3, <4>2 DEF DecodeRow, Row, RowType
    <3>3. used + 1 <= budget
      BY <1>0, <1>2, ConfigAssumption DEF budget
    <3>4. /\ scheduled' \in Seq(RowType) /\ used' \in Nat /\ BudgetKept'
          /\ IsFiniteSet(TokensIn(scheduled'))
      BY <1>5, <2>1, <3>2, <3>3, GrantKeeps
    <3> QED BY <3>1, <3>4
  <2>2. CASE cache' = c /\ UNCHANGED <<scheduled, used>>
    BY <1>4, <1>5, <2>2, RowsStay
  <2> QED BY <1>1, <2>1, <2>2
<1>8. SchedInd'
  BY <1>0, <1>2, <1>3, <1>4, <1>6, <1>7, Assemble
<1> QED BY <1>4, <1>8 DEF SameOutputs

\* The next piece of a prompt that is running already.
LEMMA PartialKeeps ==
  ASSUME SchedInd, LineInv', PartialPrefill
  PROVE  SchedInd' /\ SameOutputs
<1> DEFINE id == Head(todo)
           q == seqs[id]
           n == ChunkFor(q)
           r == Prefilled(q, n)
<1>0. /\ running \in Seq(SequenceIds) /\ waiting \in Seq(SequenceIds)
      /\ Range(running) \cup Range(waiting) = DOMAIN seqs
      /\ Range(running) \cap Range(waiting) = {}
      /\ \A x \in DOMAIN seqs : SeqOK(seqs[x])
      /\ CacheInv(cache, PromptIn) /\ Located(cache, seqs, running, waiting)
      /\ next_id \in 1..MaxRequests + 1 /\ expired \in 0..next_id - 1
      /\ todo \in Seq(SequenceIds) /\ Len(running) \in Nat /\ Len(running) <= max_num_seqs
      /\ used \in Nat
  BY IndFacts
<1>1. /\ pc = "partials" /\ todo # << >> /\ used < budget /\ n > 0
      /\ seqs' = [seqs EXCEPT ![id] = r] /\ Granted(Row(id, n, q.computed, TRUE))
      /\ todo' = Tail(todo) /\ cache' = cache /\ next_id' = next_id
      /\ waiting' = waiting /\ running' = running /\ expired' = expired /\ pc' = "partials"
  BY DEF PartialPrefill
<1>2. /\ id \in SequenceIds /\ id \in Range(running) /\ todo' \in Seq(SequenceIds)
      /\ Range(todo') \subseteq Range(running)
  <2>1. Range(todo) \subseteq Range(running)
    BY <1>1 DEF SchedInd
  <2>2. /\ Head(todo) \in SequenceIds /\ Tail(todo) \in Seq(SequenceIds)
        /\ Head(todo) \in Range(todo) /\ Range(Tail(todo)) \subseteq Range(todo)
    BY <1>0, <1>1, HeadAndTail
  <2> QED BY <1>1, <2>1, <2>2
<1>3. id \in DOMAIN seqs /\ SeqOK(q)
  BY <1>0, <1>2
<1>4. n \in Nat \ {0} /\ n <= remaining_prefill(q) /\ used + n <= budget
  BY <1>0, <1>1, <1>3, ChunkBounds
<1> HIDE DEF n
<1>5. /\ SeqOK(r) /\ SameRequest(q, r) /\ r.output = q.output
      /\ (is_finished(r) <=> is_finished(q)) /\ r.state # "Waiting"
  BY <1>3, <1>4, PrefilledOK
<1> HIDE DEF r, id
<1>6. /\ DOMAIN seqs' = DOMAIN seqs /\ seqs' \in [DOMAIN seqs -> SequenceRecord(Prompts)]
      /\ \A x \in DOMAIN seqs : SeqOK(seqs'[x]) /\ (x # id => seqs'[x] = seqs[x])
      /\ seqs'[id] = r /\ PromptIn' = PromptIn
  BY <1>1, <1>3, <1>5, OneUpdated DEF SameRequest
<1>7. Located(cache', seqs', running', waiting')
  <2>1. r.state \in {"Prefilling", "Decoding"} => q.state \in {"Prefilling", "Decoding"}
    <3>1. q.state \in States /\ q.state # "Waiting"
      BY <1>0, <1>2, <1>3, SeqFields DEF Located
    <3> QED BY <1>5, <3>1 DEF is_finished, States
  <2>2. r.prompt = q.prompt
    BY <1>5 DEF SameRequest
  <2> QED BY <1>0, <1>1, <1>3, <1>5, <1>6, <2>1, <2>2 DEF Located
<1>8. Row(id, n, q.computed, TRUE) \in RowType
  BY <1>2, <1>3, <1>4, SeqFields DEF Row, RowType
<1>9. Row(id, n, q.computed, TRUE).num_tokens = n
  BY DEF Row
<1>10. /\ scheduled' \in Seq(RowType) /\ used' \in Nat /\ BudgetKept'
       /\ IsFiniteSet(TokensIn(scheduled'))
  BY <1>0, <1>1, <1>4, <1>8, <1>9, GrantKeeps
<1>11. SchedInd'
  BY <1>0, <1>1, <1>2, <1>6, <1>7, <1>10, Assemble
<1>12. SameOutputs
  BY <1>5, <1>6 DEF SameOutputs, SameRequest
<1> QED BY <1>11, <1>12

\* The head of the queue is admitted.  It is in no table, because only running
\* sequences are, so the allocation the check allows succeeds.
LEMMA AdmitKeeps ==
  ASSUME SchedInd, LineInv', Admit
  PROVE  SchedInd' /\ SameOutputs
<1> DEFINE id == Head(waiting)
           q == seqs[id]
           n == ChunkFor(q)
           r == Prefilled(q, n)
<1>0. /\ running \in Seq(SequenceIds) /\ waiting \in Seq(SequenceIds)
      /\ Range(running) \cup Range(waiting) = DOMAIN seqs
      /\ Range(running) \cap Range(waiting) = {} /\ IsInjective(waiting)
      /\ \A x \in DOMAIN seqs : SeqOK(seqs[x])
      /\ CacheInv(cache, PromptIn) /\ Located(cache, seqs, running, waiting)
      /\ next_id \in 1..MaxRequests + 1 /\ expired \in 0..next_id - 1
      /\ todo \in Seq(SequenceIds) /\ Len(running) \in Nat /\ used \in Nat
  BY IndFacts
<1>1. /\ Len(running) < max_num_seqs /\ used < budget /\ waiting # << >> /\ n > 0
      /\ q.computed = 0 => can_allocate(cache, Len(q.prompt))
      /\ cache' = IF q.computed = 0 THEN allocate(cache, id, q.prompt) ELSE cache
      /\ seqs' = [seqs EXCEPT ![id] = r] /\ Granted(Row(id, n, q.computed, TRUE))
      /\ running' = Append(running, id) /\ waiting' = Tail(waiting)
      /\ next_id' = next_id /\ expired' = expired /\ pc' = "admits" /\ todo' = todo
  BY DEF Admit, CanAdmit, FitsCache
<1>2. /\ id \in SequenceIds /\ id \in Range(waiting) /\ waiting' \in Seq(SequenceIds)
      /\ Range(waiting') = Range(waiting) \ {id}
  BY <1>0, <1>1, TailOfInjective
<1>3. /\ id \in DOMAIN seqs /\ SeqOK(q) /\ id \notin Range(running)
      /\ id \notin DOMAIN cache.tables
  BY <1>0, <1>2 DEF Located
<1>4. n \in Nat \ {0} /\ n <= remaining_prefill(q) /\ used + n <= budget
  BY <1>0, <1>1, <1>3, ChunkBounds
<1> HIDE DEF n
<1>5. /\ SeqOK(r) /\ SameRequest(q, r) /\ r.output = q.output
      /\ (is_finished(r) <=> is_finished(q)) /\ r.state # "Waiting"
  BY <1>3, <1>4, PrefilledOK
<1> HIDE DEF r, id
<1>6. /\ DOMAIN seqs' = DOMAIN seqs /\ seqs' \in [DOMAIN seqs -> SequenceRecord(Prompts)]
      /\ \A x \in DOMAIN seqs : /\ SeqOK(seqs'[x]) /\ seqs'[x].prompt = seqs[x].prompt
                                /\ (x # id => seqs'[x] = seqs[x])
      /\ seqs'[id] = r /\ PromptIn' = PromptIn
  BY <1>1, <1>3, <1>5, OneUpdated DEF SameRequest
<1>7. /\ running' \in Seq(SequenceIds) /\ Range(running') = Range(running) \cup {id}
      /\ Len(running') \in Nat /\ Len(running') <= max_num_seqs
  <2>1. /\ <<id>> \in Seq(SequenceIds) /\ Range(<<id>>) = {id}
        /\ running' = running \o <<id>>
    BY <1>0, <1>1, <1>2 DEF Range
  <2>2. running \in Seq(SequenceIds) /\ <<id>> \in Seq(SequenceIds)
    BY <1>0, <2>1
  <2>3. Range(running \o <<id>>) = Range(running) \cup Range(<<id>>)
    BY <2>2, RangeConcat, ZenonT(40)
  <2>4. /\ running' \in Seq(SequenceIds) /\ Len(running') = Len(running) + 1
    BY <1>0, <1>1, <1>2
  <2>5. Len(running) + 1 \in Nat /\ Len(running) + 1 <= max_num_seqs
    BY <1>0, <1>1, ConfigAssumption
  <2>6. Range(running') = Range(running) \cup {id}
    BY <2>1, <2>3
  <2> QED BY <2>4, <2>5, <2>6
<1>8. /\ CacheInv(cache', PromptIn')
      /\ \A x \in DOMAIN cache.tables :
            x \in DOMAIN cache'.tables /\ cache'.tables[x] = cache.tables[x]
      /\ DOMAIN cache'.tables \subseteq DOMAIN cache.tables \cup {id}
      /\ q.computed = 0 => /\ id \in DOMAIN cache'.tables
                           /\ cache'.tables[id].num_tokens = Len(q.prompt)
  <2>1. CASE q.computed = 0
    <3> DEFINE c == allocate(cache, id, q.prompt)
    <3>1. allocate_ok(cache, id, q.prompt) /\ q.prompt \in Prompts
      BY <1>1, <1>3, <2>1, SeqFields DEF allocate_ok
    <3>2. PromptIn[id] = q.prompt
      BY <1>3 DEF PromptIn
    <3>3. /\ CacheInv(c, PromptIn) /\ DOMAIN c.tables = DOMAIN cache.tables \cup {id}
          /\ Adopts(cache, c, id, q.prompt)
      BY <1>0, <1>2, <3>1, <3>2, AllocateInv
    <3> HIDE DEF c
    <3>4. /\ \A x \in DOMAIN cache.tables : c.tables[x] = cache.tables[x]
          /\ c.tables[id].num_tokens = Len(q.prompt)
      BY <3>3 DEF Adopts
    <3>5. cache' = c
      BY <1>1, <2>1 DEF c
    <3> QED BY <1>6, <3>3, <3>4, <3>5
  <2>2. CASE q.computed # 0
    BY <1>0, <1>1, <1>6, <2>2
  <2> QED BY <2>1, <2>2
<1>9. Located(cache', seqs', running', waiting')
  <2>1. q.state \in {"Waiting", "Finished"} /\ (q.state = "Waiting" => q.computed = 0)
    <3>1. q.state \in States
      BY <1>3, SeqFields
    <3>2. ~(q.state \in {"Prefilling", "Decoding"})
      BY <1>0, <1>3 DEF Located
    <3> QED BY <1>3, <3>1, <3>2 DEF SeqOK, States
  <2>2. r.state \in {"Prefilling", "Decoding"} => q.computed = 0
    BY <1>5, <2>1 DEF is_finished
  <2>3. Len(r.prompt) \in Nat /\ r.prompt = q.prompt
    BY <1>5, SeqFields DEF SameRequest
  <2>4. r.state \in {"Prefilling", "Decoding"} =>
          id \in DOMAIN cache'.tables /\ cache'.tables[id].num_tokens >= Len(r.prompt)
    BY <1>8, <2>2, <2>3
  <2>5. DOMAIN cache'.tables \subseteq Range(running')
    BY <1>0, <1>7, <1>8 DEF Located
  <2>6. ASSUME NEW x \in DOMAIN seqs, x # id
        PROVE  /\ seqs'[x].state = "Waiting" => x \in Range(waiting')
               /\ seqs'[x].state \in {"Prefilling", "Decoding"} =>
                    /\ x \in DOMAIN cache'.tables
                    /\ cache'.tables[x].num_tokens >= Len(seqs'[x].prompt)
    <3>1. seqs'[x] = seqs[x]
      BY <1>6, <2>6
    <3>2. /\ seqs[x].state = "Waiting" => x \in Range(waiting)
          /\ seqs[x].state \in {"Prefilling", "Decoding"} =>
               /\ x \in DOMAIN cache.tables
               /\ cache.tables[x].num_tokens >= Len(seqs[x].prompt)
      BY <1>0 DEF Located
    <3> QED BY <1>2, <1>8, <2>6, <3>1, <3>2
  <2> QED BY <1>5, <1>6, <2>4, <2>5, <2>6 DEF Located
<1>10. Row(id, n, q.computed, TRUE) \in RowType
  BY <1>2, <1>3, <1>4, SeqFields DEF Row, RowType
<1>11. Row(id, n, q.computed, TRUE).num_tokens = n
  BY DEF Row
<1>12. /\ scheduled' \in Seq(RowType) /\ used' \in Nat /\ BudgetKept'
       /\ IsFiniteSet(TokensIn(scheduled'))
  BY <1>1, <1>4, <1>7, <1>10, <1>11, GrantKeeps
<1>13. SchedInd'
  BY <1>0, <1>1, <1>6, <1>8, <1>9, <1>12, Assemble
<1>14. SameOutputs
  BY <1>5, <1>6 DEF SameOutputs, SameRequest
<1> QED BY <1>13, <1>14

\* The head of the queue does not fit: the newest running sequence makes room.
LEMMA AdmitPreemptKeeps ==
  ASSUME SchedInd, LineInv', AdmitPreempt
  PROVE  SchedInd' /\ SameOutputs
<1>1. /\ preempt_one(cache') /\ next_id' = next_id /\ expired' = expired
      /\ pc' = "admits" /\ todo' = todo /\ UNCHANGED <<scheduled, used>>
  BY DEF AdmitPreempt
<1>2. /\ next_id \in 1..MaxRequests + 1 /\ expired \in 0..next_id - 1
      /\ todo \in Seq(SequenceIds)
  BY IndFacts
<1>3. /\ CacheInv(cache', PromptIn') /\ Located(cache', seqs', running', waiting')
      /\ DOMAIN seqs' = DOMAIN seqs /\ seqs' \in [DOMAIN seqs -> SequenceRecord(Prompts)]
      /\ \A x \in DOMAIN seqs : /\ SeqOK(seqs'[x]) /\ SameRequest(seqs[x], seqs'[x])
                                /\ seqs'[x].output = seqs[x].output
                                /\ (is_finished(seqs'[x]) <=> is_finished(seqs[x]))
      /\ running' \in Seq(SequenceIds) /\ Len(running') <= Len(running)
  BY <1>1, PreemptKeeps
<1>4. Len(running') \in Nat
  BY <1>3, LenProperties
<1>5. /\ scheduled' \in Seq(RowType) /\ used' \in Nat /\ BudgetKept'
      /\ IsFiniteSet(TokensIn(scheduled'))
  BY <1>1, <1>3, <1>4, RowsStay
<1>6. SchedInd'
  BY <1>1, <1>2, <1>3, <1>5, Assemble
<1> QED BY <1>3, <1>6 DEF SameOutputs

\* A pass of schedule() lets go of nobody, and produces and finishes nothing.
LEMMA PassKeeps ==
  ASSUME SchedInd, LineInv', Pass
  PROVE  SchedInd' /\ SameOutputs
BY LoopsKeep, DecodeGrantKeeps, DecodePreemptKeeps, PartialKeeps, AdmitKeeps,
   AdmitPreemptKeeps
   DEF Pass

LEMMA SchedStep ==
  ASSUME SchedInd, [SchedNext]_schedVars
  PROVE  SchedInd' /\ RequestsStay
<1>1. LineInv'
  BY LineStep DEF SchedInd
<1>2. ASSUME NEW p \in Prompts, NEW r \in Params, add_request(p, r)
      PROVE  SchedInd' /\ RequestsStay
  BY <1>1, <1>2, AddKeeps
<1>3. ASSUME NEW id \in SequenceIds, cancel(id)
      PROVE  SchedInd' /\ RequestsStay
  <2>1. /\ Dropped(id) /\ UNCHANGED <<next_id, expired, scheduled, used>>
        /\ pc' = "idle" /\ todo' = todo
    BY <1>3 DEF cancel
  <2>2. todo' \in Seq(SequenceIds)
    BY <2>1, IndFacts
  <2> QED BY <1>1, <2>1, <2>2, DroppedKeeps
<1>4. ASSUME NEW id \in SequenceIds, CommitPrefill(id)
      PROVE  SchedInd' /\ RequestsStay
  BY <1>1, <1>4, CommitKeeps DEF SameOutputs, RequestsStay
<1>5. ASSUME NEW id \in SequenceIds, NEW is_stop \in BOOLEAN,
             TokenDue(id), on_token(id, is_stop)
      PROVE  SchedInd' /\ RequestsStay
  BY <1>1, <1>5, TokenKeeps
<1>6. ASSUME NEW d \in 0..MaxRequests, expire_timeouts(d)
      PROVE  SchedInd' /\ RequestsStay
  BY <1>1, <1>6, ExpireKeeps
<1>7. CASE Pass
  BY <1>1, <1>7, PassKeeps DEF SameOutputs, RequestsStay
<1>8. CASE Reap
  BY <1>1, <1>8, ReapKeeps
<1>9. CASE UNCHANGED schedVars
  <2>1. /\ UNCHANGED <<queueVars, next_id, expired>> /\ UNCHANGED <<scheduled, used>>
        /\ pc' = pc /\ todo' = todo /\ seqs' = seqs
    BY <1>9 DEF schedVars, queueVars
  <2>2. /\ pc' \in {"idle", "decodes", "partials", "admits", "reap"}
        /\ todo' \in Seq(SequenceIds)
        /\ pc' = "partials" => Range(todo') \subseteq Range(running)
    <3>1. pc = "partials" => Range(todo) \subseteq Range(running)
      BY DEF SchedInd
    <3> QED BY <2>1, <3>1, IndFacts
  <2>3. SchedInd'
    BY <2>1, <2>2, OnlyLoops
  <2> QED BY <2>1, <2>3 DEF RequestsStay, SameRequest
<1> QED
  BY <1>2, <1>3, <1>4, <1>5, <1>6, <1>7, <1>8, <1>9 DEF SchedNext

LEMMA SchedStart == SchedInit => SchedInd
<1> SUFFICES ASSUME SchedInit PROVE SchedInd
  OBVIOUS
<1>1. /\ cache = new /\ seqs = Empty /\ next_id = 1 /\ waiting = << >> /\ running = << >>
      /\ expired = 0 /\ pc = "idle" /\ todo = << >> /\ scheduled = << >> /\ used = 0
  BY DEF SchedInit
<1>2. DOMAIN seqs = {} /\ DOMAIN cache.tables = {}
  BY <1>1 DEF Empty, new
<1>3. LineInv
  <2>1. running \o waiting = << >> /\ Range(<< >>) = {}
    BY <1>1 DEF Range
  <2> QED
    BY <1>1, <1>2, <2>1 DEF LineInv, ArrivalOrder, NobodyLost, Line, Sorted
<1>4. CacheInv(cache, PromptIn)
  BY <1>1, NewInv
<1>5. BudgetKept /\ IsFiniteSet(TokensIn(scheduled))
  <2>1. TokensIn(<< >>) = {} /\ GrantedTokens = TokensIn(scheduled)
    BY DEF TokensIn, GrantedTokens
  <2>2. IsFiniteSet({}) /\ Cardinality({}) = 0
    BY FS_EmptySet
  <2>3. 0 <= budget /\ Len(running) = 0 /\ 0 <= max_num_seqs
    BY <1>1, ConfigAssumption DEF budget
  <2> QED BY <1>1, <2>1, <2>2, <2>3 DEF BudgetKept
<1>6. SchedTypeOK
  <2>1. CacheType(cache)
    BY <1>4 DEF CacheInv
  <2>2. PartialFunction(seqs, 1..next_id - 1, SequenceRecord(Prompts))
    BY <1>1, <1>2 DEF PartialFunction, Empty
  <2>3. next_id \in 1..MaxRequests + 1 /\ expired \in 0..next_id - 1
    BY <1>1, IdsAssumption
  <2> QED BY <1>1, <2>1, <2>2, <2>3 DEF SchedTypeOK
<1>7. Located(cache, seqs, running, waiting)
  BY <1>2 DEF Located
<1> QED BY <1>1, <1>2, <1>3, <1>4, <1>5, <1>6, <1>7 DEF SchedInd

LEMMA SchedIndHolds == SchedSpec => []SchedInd
<1>1. SchedInd /\ [SchedNext]_schedVars => SchedInd'
  BY SchedStep
<1> QED BY <1>1, SchedStart, PTL DEF SchedSpec

-----------------------------------------------------------------------------
(* The invariant implies the properties.                                    *)

\* With nothing running no sequence has a table, so every block is free.
LEMMA AllFree ==
  ASSUME SchedInd, running = << >>
  PROVE  num_free(cache) = num_blocks
<1>1. CacheInv(cache, PromptIn) /\ DOMAIN cache.tables = {}
  <2>1. Range(<< >>) = {}
    BY DEF Range
  <2> QED BY <2>1, IndFacts DEF Located
<1>2. /\ cache.free_list \in Seq(BlockId) /\ IsInjective(cache.free_list)
      /\ Range(cache.free_list) = {b \in BlockId : cache.ref_count[b] = 0}
  BY <1>1 DEF CacheInv, CacheType, FreeListMatches
<1>3. \A b \in BlockId : cache.ref_count[b] = 0
  <2>1. \A b \in BlockId : Holders(cache, b) = {}
    BY <1>1 DEF Holders
  <2> QED BY <1>1, <2>1, HolderCount
<1>4. Cardinality(BlockId) = Len(cache.free_list)
  <2>1. Range(cache.free_list) = BlockId
    BY <1>2, <1>3
  <2> QED BY <1>2, <2>1, InjectiveLength
<1>5. Cardinality(BlockId) = num_blocks
  <2>1. num_blocks \in Nat /\ 0 \in Int /\ num_blocks - 1 \in Int
    BY SizesAssumption
  <2>2. Cardinality(BlockId) = IF 0 > num_blocks - 1 THEN 0 ELSE (num_blocks - 1) - 0 + 1
    BY <2>1, FS_Interval, Zenon DEF BlockId
  <2> QED BY <2>1, <2>2
<1> QED BY <1>4, <1>5 DEF num_free

LEMMA IndImplies ==
  ASSUME SchedInd
  PROVE  SchedTypeOK /\ BudgetKept /\ BlocksMatchState /\ AdmissionNeverRaces
         /\ OutputWithinLimits
<1>0. /\ Range(running) \cup Range(waiting) = DOMAIN seqs
      /\ \A id \in DOMAIN seqs : SeqOK(seqs[id])
      /\ CacheInv(cache, PromptIn) /\ Located(cache, seqs, running, waiting)
      /\ waiting \in Seq(SequenceIds) /\ Range(running) \cap Range(waiting) = {}
      /\ IsInjective(waiting)
  BY IndFacts
<1>1. SchedTypeOK /\ BudgetKept
  BY DEF SchedInd
<1>2. BlocksOnlyForRunning
  BY <1>0 DEF BlocksOnlyForRunning, CacheInv, Located
<1>3. ProgressMatchesState
  BY <1>0 DEF ProgressMatchesState, SeqOK, Located
<1>4. OutputWithinLimits
  BY <1>0 DEF OutputWithinLimits, SeqOK
<1>5. AdmissionNeverRaces
  <2> SUFFICES ASSUME pc = "admits", CanAdmit
               PROVE  /\ FitsCache /\ seqs[Head(waiting)].computed = 0 =>
                           allocate_ok(cache, Head(waiting), seqs[Head(waiting)].prompt)
                      /\ running = << >> => FitsCache
    BY DEF AdmissionNeverRaces
  <2> DEFINE id == Head(waiting)
  <2>1. waiting # << >>
    BY DEF CanAdmit
  <2>2. id \in Range(waiting)
    BY <1>0, <2>1, TailOfInjective
  <2> HIDE DEF id
  <2>3. id \in DOMAIN seqs /\ id \notin DOMAIN cache.tables /\ SeqOK(seqs[id])
    BY <1>0, <2>2 DEF Located
  <2>4. FitsCache /\ seqs[id].computed = 0 => allocate_ok(cache, id, seqs[id].prompt)
    BY <2>3 DEF FitsCache, allocate_ok, id
  <2>5. running = << >> => can_allocate(cache, Len(seqs[id].prompt))
    BY <2>3, AllFree DEF can_allocate, SeqOK
  <2> QED BY <2>4, <2>5 DEF FitsCache, id
<1> QED BY <1>1, <1>2, <1>3, <1>4, <1>5 DEF BlocksMatchState

-----------------------------------------------------------------------------
(* The theorems.                                                            *)

\* Strict FIFO of queue.rs, for every configuration, cache size and number of
\* requests: running sequences followed by waiting ones are always in order of
\* arrival.
THEOREM ArrivalOrderHolds == SchedSpec => []ArrivalOrder
BY LineInvariant, PTL DEF LineInv

\* Every sequence the scheduler has accepted and not let go of is in exactly
\* one of its queues.
THEOREM NobodyLostHolds == SchedSpec => []NobodyLost
BY LineInvariant, PTL DEF LineInv

\* The fields of the scheduler and the locals of schedule() have their types.
THEOREM SchedTypes == SchedSpec => []SchedTypeOK
<1>1. SchedInd => SchedTypeOK
  BY IndImplies
<1> QED BY <1>1, SchedIndHolds, PTL

\* schedule() hands out exactly the tokens it counts, within the token budget
\* and the batch slots, for every budget and every mix of decodes, chunks,
\* admissions and preemptions.
THEOREM BudgetHolds == SchedSpec => []BudgetKept
<1>1. SchedInd => BudgetKept
  BY IndImplies
<1> QED BY <1>1, SchedIndHolds, PTL

\* The state of each sequence, its prefill progress, the queue it is in and the
\* blocks it holds agree, and the books of the cache balance, through
\* scheduler.rs: admission, preemption, cancellation, timeouts and reaping.
THEOREM BlocksMatchStateHolds == SchedSpec => []BlocksMatchState
<1>1. SchedInd => BlocksMatchState
  BY IndImplies
<1> QED BY <1>1, SchedIndHolds, PTL

\* The allocation after a successful can_allocate in schedule_prefills never
\* fails, and with nothing running the head of the queue always fits: the
\* check of add_request against the whole pool is enough for it.
THEOREM AdmissionSafe == SchedSpec => []AdmissionNeverRaces
<1>1. SchedInd => AdmissionNeverRaces
  BY IndImplies
<1> QED BY <1>1, SchedIndHolds, PTL

\* Every sequence stays within the number of tokens it asked for, is stopped by
\* a stop token only after its minimum, and once finished keeps its reason and
\* its output, whatever preempts or times it out afterwards.
THEOREM OutputsAreFinal == SchedSpec => OutputsFinal
<1>1. SchedInd /\ [SchedNext]_schedVars => [OutputWithinLimits' /\ FinishedIsFinal]_schedVars
  <2> SUFFICES ASSUME SchedInd, [SchedNext]_schedVars
               PROVE  OutputWithinLimits' /\ FinishedIsFinal
    OBVIOUS
  <2>1. SchedInd' /\ RequestsStay
    BY SchedStep
  <2>2. \A id \in DOMAIN seqs' : SeqOK(seqs'[id])
    BY <2>1 DEF SchedInd
  <2>3. OutputWithinLimits'
    BY <2>2 DEF OutputWithinLimits, SeqOK
  <2> QED BY <2>1, <2>3 DEF FinishedIsFinal, RequestsStay, SameRequest
<1> QED BY <1>1, SchedIndHolds, PTL DEF SchedSpec, OutputsFinal

-----------------------------------------------------------------------------
(***************************************************************************)
(* The engine.                                                             *)
(***************************************************************************)

-----------------------------------------------------------------------------
(* One channel.                                                             *)

EventType == [kind : {"Token", "Cancelled"} \cup Reasons, n : Nat]
StreamType == [events : Seq(EventType), taken : Nat, open : BOOLEAN]

LastEvent(s) == s.events[Len(s.events)]

\* What holds of a channel, whoever is still at its ends.
StreamOK(s) ==
  /\ s \in StreamType
  /\ s.taken <= Len(s.events) /\ Len(s.events) - s.taken <= BufferSize
  /\ \A i \in 1..TokensOf(s) : s.events[i] = Token(i - 1)
  /\ TokensOf(s) < Len(s.events) /\ LastEvent(s).kind \in {"Stop", "Length"} =>
       LastEvent(s).n = TokensOf(s)

\* A channel with no terminal event.
OnlyTokens(s) == TokensOf(s) = Len(s.events)

LEMMA NewStreamOK ==
  StreamOK(NewStream) /\ OnlyTokens(NewStream) /\ Len(NewStream.events) = 0
<1>1. NewStream \in StreamType /\ NewStream.events = << >> /\ NewStream.taken = 0
  BY DEF NewStream, StreamType
<1>2. TokensOf(NewStream) = 0 /\ Len(<< >>) = 0
  BY <1>1 DEF TokensOf
<1> QED BY <1>1, <1>2, EngineAssumption DEF StreamOK, OnlyTokens

LEMMA StreamFields ==
  ASSUME NEW s, StreamOK(s)
  PROVE  /\ s.events \in Seq(EventType) /\ Len(s.events) \in Nat /\ s.taken \in Nat
         /\ s.open \in BOOLEAN
         /\ TokensOf(s) \in Nat /\ TokensOf(s) <= Len(s.events)
         /\ ~OnlyTokens(s) => TokensOf(s) = Len(s.events) - 1
<1>1. /\ s.events \in Seq(EventType) /\ s.taken \in Nat /\ s.open \in BOOLEAN
      /\ Len(s.events) \in Nat
  BY LenProperties DEF StreamOK, StreamType
<1>2. s.events # << >> => Len(s.events) > 0
  BY <1>1
<1> QED BY <1>1, <1>2 DEF TokensOf, OnlyTokens

\* One more event in a channel with room.
LEMMA AppendedStream ==
  ASSUME NEW s, StreamOK(s), CanSend(s), NEW e \in EventType
  PROVE  LET t == try_send(s, e)
             n == Len(s.events)
         IN  /\ t \in StreamType /\ t.taken = s.taken /\ t.open = s.open
             /\ t.events = Append(s.events, e)
             /\ t.taken <= Len(t.events) /\ Len(t.events) - t.taken <= BufferSize
             /\ Len(t.events) = n + 1 /\ t.events[n + 1] = e /\ t.events # << >>
             /\ \A i \in 1..n : t.events[i] = s.events[i]
<1> DEFINE t == try_send(s, e)
           n == Len(s.events)
<1>1. /\ s.events \in Seq(EventType) /\ n \in Nat /\ s.taken \in Nat /\ s \in StreamType
      /\ s.taken <= n /\ n - s.taken < BufferSize /\ BufferSize \in Nat
  BY StreamFields, EngineAssumption DEF StreamOK, CanSend
<1>2. /\ t.events = Append(s.events, e) /\ t.taken = s.taken /\ t.open = s.open
      /\ t \in StreamType
  BY <1>1 DEF try_send, StreamType
<1> HIDE DEF t
<1>3. /\ Len(t.events) = n + 1 /\ t.events[n + 1] = e /\ t.events # << >>
      /\ \A i \in 1..n : t.events[i] = s.events[i]
  BY <1>1, <1>2
<1> HIDE DEF n
<1>4. t.taken <= Len(t.events) /\ Len(t.events) - t.taken <= BufferSize
  BY <1>1, <1>2, <1>3
<1> QED BY <1>2, <1>3, <1>4 DEF t, n

\* The next token.
LEMMA TokenSent ==
  ASSUME NEW s, StreamOK(s), OnlyTokens(s), CanSend(s)
  PROVE  LET t == try_send(s, Token(Len(s.events)))
         IN  /\ StreamOK(t) /\ OnlyTokens(t) /\ Len(t.events) = Len(s.events) + 1
             /\ t.events = Append(s.events, Token(Len(s.events)))
<1> DEFINE n == Len(s.events)
           e == Token(n)
           t == try_send(s, e)
<1>1. n \in Nat /\ \A i \in 1..n : s.events[i] = Token(i - 1)
  BY StreamFields DEF StreamOK, OnlyTokens
<1>2. e \in EventType /\ e.kind = "Token"
  BY <1>1 DEF EventType, Token
<1>3. /\ t \in StreamType /\ t.events = Append(s.events, e)
      /\ t.taken <= Len(t.events) /\ Len(t.events) - t.taken <= BufferSize
      /\ Len(t.events) = n + 1 /\ t.events[n + 1] = e /\ t.events # << >>
      /\ \A i \in 1..n : t.events[i] = s.events[i]
  BY <1>2, AppendedStream
<1> HIDE DEF t
<1>4. TokensOf(t) = n + 1
  BY <1>2, <1>3 DEF TokensOf
<1>5. ASSUME NEW i \in 1..n + 1 PROVE t.events[i] = Token(i - 1)
  <2>1. CASE i = n + 1
    <3>1. i - 1 = n
      BY <1>1, <2>1
    <3> QED BY <1>3, <2>1, <3>1
  <2>2. CASE i # n + 1
    <3>1. i \in 1..n
      BY <1>1, <2>2
    <3> QED BY <1>1, <1>3, <3>1
  <2> QED BY <2>1, <2>2
<1>6. ~(TokensOf(t) < Len(t.events))
  BY <1>1, <1>3, <1>4
<1> QED BY <1>3, <1>4, <1>5, <1>6 DEF StreamOK, OnlyTokens, t

\* A terminal event, or what is left when it does not fit.
LEMMA DoneSent ==
  ASSUME NEW s, StreamOK(s), OnlyTokens(s), NEW reason \in {"Cancelled"} \cup Reasons,
         NEW n \in Nat, reason \in {"Stop", "Length"} => n = Len(s.events)
  PROVE  LET t == try_send(s, Done(reason, n))
         IN  /\ StreamOK(t) /\ t.events \in {s.events, Append(s.events, Done(reason, n))}
             /\ TokensOf(t) = TokensOf(s)
<1> DEFINE k == Len(s.events)
           e == Done(reason, n)
           t == try_send(s, e)
<1>1. k \in Nat /\ TokensOf(s) = k /\ \A i \in 1..k : s.events[i] = Token(i - 1)
  BY StreamFields DEF StreamOK, OnlyTokens
<1>2. e \in EventType /\ e.kind # "Token" /\ e.kind = reason /\ e.n = n
  BY DEF EventType, Done, Reasons
<1> HIDE DEF e
<1>3. CASE CanSend(s)
  <2>1. /\ t \in StreamType /\ t.events = Append(s.events, e)
        /\ t.taken <= Len(t.events) /\ Len(t.events) - t.taken <= BufferSize
        /\ Len(t.events) = k + 1 /\ t.events[k + 1] = e /\ t.events # << >>
        /\ \A i \in 1..k : t.events[i] = s.events[i]
    BY <1>2, <1>3, AppendedStream
  <2> HIDE DEF t
  <2>2. TokensOf(t) = k
    <3>1. (k + 1) - 1 = k
      BY <1>1
    <3> QED BY <1>2, <2>1, <3>1 DEF TokensOf
  <2>3. LastEvent(t) = e
    BY <2>1 DEF LastEvent
  <2> QED BY <1>1, <1>2, <2>1, <2>2, <2>3 DEF StreamOK, t, e
<1>4. CASE ~CanSend(s)
  <2>1. t = s
    BY <1>4 DEF try_send
  <2> QED BY <2>1 DEF e
<1> QED BY <1>3, <1>4

\* What a caller does to its channel leaves the events in it.
LEMMA CallerMoves ==
  ASSUME NEW s, StreamOK(s)
  PROVE  /\ s.taken < Len(s.events) => StreamOK([s EXCEPT !.taken = @ + 1])
         /\ [s EXCEPT !.taken = @ + 1].events = s.events
         /\ StreamOK([s EXCEPT !.open = FALSE])
         /\ [s EXCEPT !.open = FALSE].events = s.events
<1>1. /\ s.taken \in Nat /\ Len(s.events) \in Nat /\ BufferSize \in Nat /\ s \in StreamType
  BY StreamFields, EngineAssumption DEF StreamOK
<1>2. ASSUME NEW t \in StreamType, t.events = s.events, t.taken <= Len(s.events),
             Len(s.events) - t.taken <= BufferSize
      PROVE  StreamOK(t)
  <2>1. TokensOf(t) = TokensOf(s) /\ LastEvent(t) = LastEvent(s)
    BY <1>2 DEF TokensOf, LastEvent
  <2> QED BY <1>2, <2>1 DEF StreamOK
<1>3. s.taken <= Len(s.events) /\ Len(s.events) - s.taken <= BufferSize
  BY DEF StreamOK
<1>4. s.taken < Len(s.events) => StreamOK([s EXCEPT !.taken = @ + 1])
  <2> DEFINE t == [s EXCEPT !.taken = @ + 1]
  <2>1. t \in StreamType /\ t.events = s.events /\ t.taken = s.taken + 1
    BY <1>1 DEF StreamType
  <2> HIDE DEF t
  <2>2. s.taken < Len(s.events) =>
          t.taken <= Len(s.events) /\ Len(s.events) - t.taken <= BufferSize
    BY <1>1, <1>3, <2>1
  <2>3. s.taken < Len(s.events) => StreamOK(t)
    BY <1>2, <2>1, <2>2
  <2> QED BY <2>3 DEF t
<1>5. StreamOK([s EXCEPT !.open = FALSE])
  <2> DEFINE t == [s EXCEPT !.open = FALSE]
  <2>1. t \in StreamType /\ t.events = s.events /\ t.taken = s.taken
    BY <1>1 DEF StreamType
  <2> HIDE DEF t
  <2> QED BY <1>2, <1>3, <2>1 DEF t
<1> QED BY <1>1, <1>4, <1>5 DEF StreamType

-----------------------------------------------------------------------------
(* The invariant.                                                           *)

Phases == {"commands", "schedule", "pass", "rows", "drop", "commit", "reap", "stopped"}

\* Where the thread is, and what the scheduler may be doing there: only the
\* calls of schedule() and of reap_finished() take several steps.
Control ==
  /\ phase \in Phases /\ rows \in Seq(SequenceIds)
  /\ phase = "drop" => rows # << >>
  /\ faults \in 0..MaxFaults
  /\ ~timeouts_enabled => expired = 0
  /\ phase \notin {"pass", "reap"} => pc = "idle"
  /\ pc = "reap" => /\ phase = "reap"
                    /\ \A id \in Range(todo) \cap DOMAIN seqs : is_finished(seqs[id])
  /\ phase = "reap" => pc \in {"idle", "reap"}

Unfinished == {id \in DOMAIN seqs : ~is_finished(seqs[id])}

\* The channels, and for a caller the engine keeps: it was told every token of
\* its sequence and no ending, but for the token that has just failed to go.
Channels ==
  /\ stream \in [1..next_id - 1 -> StreamType] /\ active \subseteq DOMAIN stream
  /\ \A id \in DOMAIN stream : StreamOK(stream[id])
  /\ \A id \in active :
       /\ OnlyTokens(stream[id])
       /\ \/ Len(stream[id].events) = seqs[id].output
          \/ phase = "drop" /\ id = Head(rows)

EngineInd == SchedInd /\ Control /\ CallersExact /\ Channels

LEMMA CallersAre ==
  ASSUME EngineInd
  PROVE  /\ phase \notin {"stopped", "drop"} => active = Unfinished
         /\ phase = "drop" => active = Unfinished \cup {Head(rows)}
BY DEF EngineInd, CallersExact, Unfinished

\* The engine calls on_token only for sequences with a caller, hence unfinished
\* ones, and no method of the scheduler in the middle of another.
LEMMA CallsAllowed ==
  ASSUME EngineInd, [EngineNext]_engineVars
  PROVE  [SchedNext]_schedVars
<1>1. Control
  BY DEF EngineInd
<1>2. ASSUME NEW p \in Prompts, NEW r \in Params, submit(p, r) PROVE SchedNext
  BY <1>2 DEF submit, SchedNext
<1>3. ASSUME NEW id \in SequenceIds, CancelCommand(id) PROVE SchedNext
  BY <1>3 DEF CancelCommand, SchedNext
<1>4. ASSUME NEW d \in 0..MaxRequests, StepBegin(d) PROVE [SchedNext]_schedVars
  BY <1>4 DEF StepBegin, SchedNext
<1>5. CASE StepSchedule \/ StepPass
  BY <1>5 DEF StepSchedule, StepPass, SchedNext, Pass
<1>6. ASSUME NEW is_stop \in BOOLEAN, EmitToken(is_stop) \/ EmitFails(is_stop)
      PROVE  SchedNext
  <2> DEFINE id == Head(rows)
  <2>1. phase = "rows" /\ rows # << >> /\ Samples(id) /\ on_token(id, is_stop)
    BY <1>6 DEF EmitToken, EmitFails
  <2>2. id \in SequenceIds
    BY <1>1, <2>1 DEF Control
  <2> HIDE DEF id
  <2>3. TokenDue(id)
    BY <2>1, CallersAre DEF Samples, TokenDue, Unfinished
  <2> QED BY <2>1, <2>2, <2>3 DEF SchedNext
<1>7. CASE cancel_silently
  <2>1. Head(rows) \in SequenceIds
    BY <1>1, <1>7 DEF Control, cancel_silently
  <2> QED BY <1>7, <2>1 DEF cancel_silently, SchedNext
<1>8. CASE CommitRow
  <2>1. Head(rows) \in SequenceIds
    BY <1>1, <1>8 DEF Control, CommitRow
  <2> QED BY <1>8, <2>1 DEF CommitRow, SchedNext
<1>9. CASE StepReap
  BY <1>9 DEF StepReap, SchedNext
<1>10. CASE StepEmpty \/ Forward \/ ForwardFails \/ SkipRow \/ RowMissing
             \/ RowsDone \/ CommitsDone \/ Shutdown
  BY <1>10 DEF StepEmpty, Forward, ForwardFails, SkipRow, RowMissing, RowsDone,
               CommitsDone, Shutdown
<1>11. CASE Caller
  BY <1>11 DEF Caller, Receive, Disconnect
<1>12. CASE UNCHANGED engineVars
  BY <1>12 DEF engineVars
<1> QED
  BY <1>2, <1>3, <1>4, <1>5, <1>6, <1>7, <1>8, <1>9, <1>10, <1>11, <1>12
     DEF EngineNext, Command, Step

LEMMA IdsOfRows ==
  ASSUME NEW q \in Seq(RowType)
  PROVE  IdsOf(q) \in Seq(SequenceIds)
<1>1. Len(q) \in Nat /\ \A i \in 1..Len(q) : q[i].id \in SequenceIds
  <2>1. \A i \in 1..Len(q) : q[i] \in RowType
    OBVIOUS
  <2> QED BY <2>1, LenProperties DEF RowType
<1> QED BY <1>1 DEF IdsOf

\* The rows that go to the backend, and those of a pass that are prefills.
LEMMA BatchType ==
  ASSUME SchedInd
  PROVE  Batch \in Seq(RowType) /\ PrefillRows \in Seq(RowType)
<1>1. scheduled \in Seq(RowType)
  BY IndFacts
<1> QED BY <1>1, FilterType DEF Batch, PrefillRows

LEMMA ControlStep ==
  ASSUME EngineInd, [EngineNext]_engineVars
  PROVE  Control'
<1>1. /\ phase \in Phases /\ rows \in Seq(SequenceIds)
      /\ faults \in 0..MaxFaults /\ MaxFaults \in Nat
      /\ ~timeouts_enabled => expired = 0
      /\ phase \notin {"pass", "reap"} => pc = "idle"
      /\ pc = "reap" => phase = "reap"
      /\ phase = "reap" => pc \in {"idle", "reap"}
      /\ phase = "drop" => rows # << >>
  BY EngineAssumption DEF EngineInd, Control
<1>2. SchedInd /\ SchedInd'
  BY CallsAllowed, SchedStep DEF EngineInd
<1>3. rows # << >> => Tail(rows) \in Seq(SequenceIds)
  BY <1>1
<1>4. /\ IdsOf(Batch) \in Seq(SequenceIds) /\ IdsOf(PrefillRows) \in Seq(SequenceIds)
      /\ << >> \in Seq(SequenceIds)
  BY <1>2, BatchType, IdsOfRows
<1>5. ASSUME NEW p \in Prompts, NEW r \in Params, submit(p, r) PROVE Control'
  BY <1>1, <1>5 DEF submit, add_request, Control, Phases
<1>6. ASSUME NEW id \in SequenceIds, CancelCommand(id) PROVE Control'
  BY <1>1, <1>6 DEF CancelCommand, cancel, Control, Phases
<1>7. ASSUME NEW d \in 0..MaxRequests, StepBegin(d) PROVE Control'
  BY <1>1, <1>7 DEF StepBegin, expire_timeouts, schedVars, Control, Phases
<1>8. CASE StepSchedule
  <2>1. pc' \in {"decodes", "partials"} /\ phase' = "pass" /\ expired' = expired
    BY <1>8 DEF StepSchedule, schedule, Enter
  <2> QED BY <1>1, <1>8, <2>1 DEF StepSchedule, Control, Phases
<1>9. CASE StepPass
  <2>1. pc' \in {"idle", "decodes", "partials", "admits"} /\ expired' = expired
    BY <1>1, <1>9
       DEF StepPass, Pass, schedule, DecodeGrant, DecodePreempt, DecodesDone,
           PartialPrefill, PartialsDone, Admit, AdmitPreempt, AdmitsDone, Enter
  <2> QED BY <1>1, <1>9, <2>1 DEF StepPass, Control, Phases
<1>10. CASE StepEmpty \/ SkipRow \/ RowsDone \/ CommitsDone
  BY <1>1, <1>3, <1>4, <1>10
     DEF StepEmpty, SkipRow, RowsDone, CommitsDone, schedVars, Control, Phases
<1>11. CASE Forward \/ ForwardFails \/ RowMissing
  <2>1. CASE Forward
    BY <1>1, <1>4, <2>1 DEF Forward, schedVars, Control, Phases
  <2>2. faults < MaxFaults => faults + 1 \in 0..MaxFaults
    BY <1>1
  <2>3. CASE ForwardFails
    <3>1. /\ phase = "pass" /\ pc = "idle" /\ phase' = "commands" /\ rows' = rows
          /\ faults' \in 0..MaxFaults
          /\ UNCHANGED schedVars
      BY <1>1, <1>4, <2>2, <2>3 DEF ForwardFails
    <3> QED BY <1>1, <3>1 DEF schedVars, Control, Phases
  <2>4. CASE RowMissing
    BY <1>1, <1>4, <2>2, <2>4 DEF RowMissing, schedVars, Control, Phases
  <2> QED BY <1>11, <2>1, <2>3, <2>4
<1>12. ASSUME NEW is_stop \in BOOLEAN, EmitToken(is_stop) \/ EmitFails(is_stop)
       PROVE  Control'
  BY <1>1, <1>3, <1>12 DEF EmitToken, EmitFails, on_token, Control, Phases
<1>13. CASE cancel_silently
  BY <1>1, <1>3, <1>13 DEF cancel_silently, cancel, Control, Phases
<1>14. CASE CommitRow
  BY <1>1, <1>3, <1>14 DEF CommitRow, CommitPrefill, schedVars, Control, Phases
<1>15. CASE StepReap
  <2>1. CASE UNCHANGED schedVars /\ pc # "reap"
    BY <1>1, <1>15, <2>1 DEF StepReap, schedVars, Control, Phases
  <2>2. CASE reap_finished
    <3>1. \A id \in Range(FinishedRunning) : is_finished(seqs[id])
      <4>1. running \in Seq(SequenceIds)
        BY <1>2, IndFacts
      <4> QED BY <4>1, FilterType DEF FinishedRunning
    <3>2. /\ pc' = "reap" /\ seqs' = seqs /\ expired' = expired
          /\ todo' = FinishedRunning
      BY <2>2 DEF reap_finished, queueVars
    <3> QED BY <1>1, <1>15, <3>1, <3>2 DEF StepReap, Control, Phases
  <2>3. CASE ReapOne
    <3>1. /\ todo # << >> /\ todo' = Tail(todo) /\ pc' = pc /\ pc = "reap" /\ expired' = expired
          /\ DOMAIN seqs' \subseteq DOMAIN seqs /\ \A x \in DOMAIN seqs' : seqs'[x] = seqs[x]
      BY <2>3 DEF ReapOne, Dropped, Without, Restrict
    <3>2. Range(todo') \subseteq Range(todo)
      <4>1. todo \in Seq(SequenceIds)
        BY <1>2, IndFacts
      <4> QED BY <3>1, <4>1, HeadAndTail
    <3>3. \A id \in Range(todo) \cap DOMAIN seqs : is_finished(seqs[id])
      BY <3>1 DEF EngineInd, Control
    <3> QED BY <1>1, <1>15, <3>1, <3>2, <3>3 DEF StepReap, Control, Phases
  <2>4. CASE ReapDone
    BY <1>1, <1>15, <2>4 DEF StepReap, ReapDone, Control, Phases
  <2> QED BY <1>15, <2>1, <2>2, <2>3, <2>4 DEF StepReap, Reap
<1>16. CASE Shutdown \/ Caller \/ UNCHANGED engineVars
  <2>1. /\ phase' \in {phase, "stopped"} /\ (phase' # phase => phase = "commands")
        /\ rows' = rows /\ faults' = faults
        /\ UNCHANGED schedVars
    BY <1>16 DEF Shutdown, Caller, Receive, Disconnect, engineVars
  <2>2. pc' = pc /\ todo' = todo /\ seqs' = seqs /\ expired' = expired
    BY <2>1 DEF schedVars
  <2> QED BY <1>1, <2>1, <2>2 DEF EngineInd, Control, Phases
<1> QED
  BY <1>5, <1>6, <1>7, <1>8, <1>9, <1>10, <1>11, <1>12, <1>13, <1>14, <1>15, <1>16
     DEF EngineNext, Command, Step

-----------------------------------------------------------------------------
(* The promise to one caller, in terms of the engine's variables.           *)

EventsOf(id) == IF id \in DOMAIN stream THEN stream[id].events ELSE << >>
SenderOf(id) ==
  IF id \notin DOMAIN stream THEN "none" ELSE IF id \in active THEN "held" ELSE "dropped"

Promised(id) == Stream(id)!StreamNext \/ UNCHANGED Stream(id)!streamVars

LEMMA PromiseKept ==
  ASSUME NEW id, UNCHANGED <<EventsOf(id), SenderOf(id)>>
  PROVE  Promised(id)
BY DEF Promised, Stream!streamVars, EventsOf, SenderOf

LEMMA PromiseAccepted ==
  ASSUME NEW id, SenderOf(id) = "none", SenderOf(id)' = "held",
         EventsOf(id)' = EventsOf(id)
  PROVE  Promised(id)
BY DEF Promised, Stream!StreamNext, Stream!Accept, EventsOf, SenderOf

LEMMA PromiseToken ==
  ASSUME NEW id, SenderOf(id) = "held", SenderOf(id)' = "held",
         EventsOf(id)' = Append(EventsOf(id), Token(Len(EventsOf(id))))
  PROVE  Promised(id)
BY DEF Promised, Stream!StreamNext, Stream!SendToken, EventsOf, SenderOf,
       Token, Stream!Token

LEMMA PromiseLast ==
  ASSUME NEW id, SenderOf(id) = "held", SenderOf(id)' = "dropped",
         NEW reason \in {"Stop", "Length"}, NEW n, n = Len(EventsOf(id)),
         \/ EventsOf(id)' = Append(EventsOf(id), Token(n))
         \/ EventsOf(id)' = EventsOf(id) \o <<Token(n), Done(reason, n + 1)>>
  PROVE  Promised(id)
<1>1. Stream(id)!SendLast(reason)
  BY DEF Stream!SendLast, EventsOf, SenderOf, Token, Stream!Token, Done, Stream!Done
<1> QED BY <1>1 DEF Promised, Stream!StreamNext

LEMMA PromiseTimeOut ==
  ASSUME NEW id, SenderOf(id) = "held", SenderOf(id)' = "dropped",
         NEW n \in {0, Len(EventsOf(id))},
         EventsOf(id)' \in {EventsOf(id), Append(EventsOf(id), Done("Timeout", n))}
  PROVE  Promised(id)
<1>1. Stream(id)!TimeOut
  BY DEF Stream!TimeOut, EventsOf, SenderOf, Done, Stream!Done
<1> QED BY <1>1 DEF Promised, Stream!StreamNext

LEMMA PromiseCancel ==
  ASSUME NEW id, SenderOf(id) = "held", SenderOf(id)' = "dropped",
         EventsOf(id)' \in {EventsOf(id), Append(EventsOf(id), Done("Cancelled", 0))}
  PROVE  Promised(id)
BY DEF Promised, Stream!StreamNext, Stream!CancelStream, Stream!DropSender,
       EventsOf, SenderOf, Done, Stream!Done

Promises == \A id \in SequenceIds : Promised(id)

-----------------------------------------------------------------------------
(* The steps.                                                               *)

Callers == CallersExact' /\ Channels' /\ Promises

LEMMA ChannelFacts ==
  ASSUME EngineInd
  PROVE  /\ stream \in [1..next_id - 1 -> StreamType] /\ DOMAIN stream = 1..next_id - 1
         /\ active \subseteq DOMAIN stream
         /\ \A id \in DOMAIN stream : StreamOK(stream[id])
         /\ \A id \in active : OnlyTokens(stream[id])
         /\ phase # "drop" => \A id \in active : Len(stream[id].events) = seqs[id].output
         /\ next_id \in 1..MaxRequests + 1 /\ DOMAIN stream \subseteq SequenceIds
         /\ DOMAIN seqs \subseteq DOMAIN stream
         /\ Range(running) \cup Range(waiting) = DOMAIN seqs
         /\ \A id \in DOMAIN seqs : SeqOK(seqs[id])
<1>1. /\ SchedInd /\ stream \in [1..next_id - 1 -> StreamType] /\ active \subseteq DOMAIN stream
      /\ \A id \in DOMAIN stream : StreamOK(stream[id])
      /\ \A id \in active : OnlyTokens(stream[id])
      /\ phase # "drop" => \A id \in active : Len(stream[id].events) = seqs[id].output
  BY DEF EngineInd, Channels
<1>2. /\ DOMAIN stream = 1..next_id - 1 /\ next_id \in 1..MaxRequests + 1
      /\ DOMAIN seqs \subseteq 1..next_id - 1
      /\ Range(running) \cup Range(waiting) = DOMAIN seqs
      /\ \A id \in DOMAIN seqs : SeqOK(seqs[id])
  BY <1>1, IndFacts DEF SchedInd, SchedTypeOK, PartialFunction
<1>3. DOMAIN stream \subseteq SequenceIds
  BY <1>2, IdsAssumption
<1> QED BY <1>1, <1>2, <1>3

\* A step that sends nothing and lets go of nobody.
LEMMA QuietKeeps ==
  ASSUME EngineInd, phase \notin {"drop", "stopped"}, phase' \notin {"drop", "stopped"},
         stream' = stream, active' = active, next_id' = next_id, Unfinished' = Unfinished,
         \A id \in Unfinished : seqs'[id].output = seqs[id].output
  PROVE  Callers
<1>1. /\ stream \in [1..next_id - 1 -> StreamType] /\ active \subseteq DOMAIN stream
      /\ \A id \in DOMAIN stream : StreamOK(stream[id])
      /\ \A id \in active : OnlyTokens(stream[id])
      /\ \A id \in active : Len(stream[id].events) = seqs[id].output
  BY ChannelFacts
<1>2. active = Unfinished
  BY CallersAre
<1>3. CallersExact'
  BY <1>2 DEF CallersExact, Unfinished
<1>4. Channels'
  BY <1>1, <1>2 DEF Channels
<1>5. Promises
  BY PromiseKept DEF Promises, EventsOf, SenderOf
<1> QED BY <1>3, <1>4, <1>5 DEF Callers

\* Steps that leave the scheduler alone, and passes of it.
LEMMA QuietSteps ==
  ASSUME EngineInd,
         \/ StepSchedule \/ StepPass \/ StepEmpty \/ Forward \/ ForwardFails
         \/ SkipRow \/ RowMissing \/ RowsDone \/ CommitRow \/ CommitsDone
  PROVE  Callers
<1>1. [EngineNext]_engineVars
  BY DEF EngineNext, Step
<1>2. SchedInd /\ SchedInd' /\ LineInv'
  BY <1>1, CallsAllowed, SchedStep DEF EngineInd, SchedInd
<1>3. /\ phase \notin {"drop", "stopped"} /\ phase' \notin {"drop", "stopped"}
      /\ stream' = stream /\ active' = active
  BY DEF StepSchedule, StepPass, StepEmpty, Forward, ForwardFails, SkipRow,
         RowMissing, RowsDone, CommitRow, CommitsDone
<1>4. next_id' = next_id /\ SameOutputs
  <2>1. CASE UNCHANGED schedVars
    BY <2>1 DEF schedVars, SameOutputs, SameRequest
  <2>2. CASE Pass
    <3>1. next_id' = next_id
      BY <2>2
         DEF Pass, schedule, DecodeGrant, DecodePreempt, DecodesDone, PartialPrefill,
             PartialsDone, Admit, AdmitPreempt, AdmitsDone
    <3> QED BY <1>2, <2>2, <3>1, PassKeeps
  <2>3. CASE rows # << >> /\ CommitPrefill(Head(rows))
    <3>1. Head(rows) \in SequenceIds
      BY <2>3 DEF EngineInd, Control
    <3> QED BY <1>2, <2>3, <3>1, CommitKeeps DEF CommitPrefill
  <2>4. UNCHANGED schedVars \/ Pass \/ (rows # << >> /\ CommitPrefill(Head(rows)))
    BY DEF StepSchedule, StepPass, StepEmpty, Forward, ForwardFails, SkipRow,
           RowMissing, RowsDone, CommitRow, CommitsDone, Pass
  <2> QED BY <2>1, <2>2, <2>3, <2>4
<1>5. Unfinished' = Unfinished
  BY <1>4 DEF SameOutputs, Unfinished
<1>6. \A id \in Unfinished : seqs'[id].output = seqs[id].output
  BY <1>4 DEF SameOutputs, Unfinished
<1> QED BY <1>3, <1>4, <1>5, <1>6, QuietKeeps

\* What is reaped is finished, so its caller has been told already.
LEMMA ReapCallers ==
  ASSUME EngineInd, StepReap
  PROVE  Callers
<1>1. /\ phase = "reap" /\ phase' \in {"reap", "commands"} /\ stream' = stream
      /\ active' = active
  BY DEF StepReap
<1>2. next_id' = next_id
  BY DEF StepReap, Reap, reap_finished, ReapOne, ReapDone, schedVars
<1>3. /\ \A x \in DOMAIN seqs' : x \in DOMAIN seqs /\ seqs'[x] = seqs[x]
      /\ \A x \in DOMAIN seqs \ DOMAIN seqs' : is_finished(seqs[x])
  <2>1. CASE ReapOne
    <3>1. /\ todo # << >> /\ pc = "reap" /\ DOMAIN seqs' = DOMAIN seqs \ {Head(todo)}
          /\ \A x \in DOMAIN seqs' : seqs'[x] = seqs[x]
      BY <2>1 DEF ReapOne, Dropped, Without, Restrict
    <3>2. Head(todo) \in Range(todo)
      <4>1. todo \in Seq(SequenceIds)
        BY IndFacts DEF EngineInd
      <4> QED BY <3>1, <4>1, HeadAndTail
    <3>3. \A id \in Range(todo) \cap DOMAIN seqs : is_finished(seqs[id])
      BY <3>1 DEF EngineInd, Control
    <3> QED BY <3>1, <3>2, <3>3
  <2>2. CASE reap_finished \/ ReapDone \/ UNCHANGED schedVars
    BY <2>2 DEF reap_finished, ReapDone, schedVars, queueVars
  <2> QED BY <2>1, <2>2 DEF StepReap, Reap
<1>4. Unfinished' = Unfinished
  BY <1>3 DEF Unfinished
<1>5. \A id \in Unfinished : seqs'[id].output = seqs[id].output
  BY <1>3, <1>4 DEF Unfinished
<1> QED BY <1>1, <1>2, <1>4, <1>5, QuietKeeps

\* A request is accepted: its channel is empty, and so is its output.
LEMMA SubmitCallers ==
  ASSUME EngineInd, NEW p \in Prompts, NEW r \in Params, submit(p, r)
  PROVE  Callers
<1> DEFINE new_id == next_id
<1>0. /\ stream \in [1..next_id - 1 -> StreamType] /\ DOMAIN stream = 1..next_id - 1
      /\ active \subseteq DOMAIN stream
      /\ \A id \in DOMAIN stream : StreamOK(stream[id])
      /\ \A id \in active : OnlyTokens(stream[id])
      /\ phase # "drop" => \A id \in active : Len(stream[id].events) = seqs[id].output
      /\ next_id \in 1..MaxRequests + 1 /\ DOMAIN seqs \subseteq DOMAIN stream
  BY ChannelFacts
<1>1. /\ phase = "commands" /\ phase' = "commands" /\ next_id' = next_id + 1
      /\ active' = active \cup {new_id}
      /\ stream' = [id \in DOMAIN stream \cup {new_id} |->
                      IF id = new_id THEN NewStream ELSE stream[id]]
      /\ seqs' = [id \in DOMAIN seqs \cup {new_id} |->
                    IF id = new_id THEN NewSequence(p, r.max_tokens, r.min_tokens)
                    ELSE seqs[id]]
  BY DEF submit, add_request
<1>2. /\ new_id \notin DOMAIN stream /\ DOMAIN stream \cup {new_id} = 1..next_id' - 1
  BY <1>0, <1>1, IdsAssumption
<1> HIDE DEF new_id
<1>3. /\ DOMAIN stream' = 1..next_id' - 1 /\ stream'[new_id] = NewStream
      /\ \A id \in DOMAIN stream : stream'[id] = stream[id]
      /\ DOMAIN seqs' = DOMAIN seqs \cup {new_id}
      /\ seqs'[new_id].output = 0 /\ ~is_finished(seqs'[new_id])
      /\ \A id \in DOMAIN seqs : seqs'[id] = seqs[id]
  BY <1>0, <1>1, <1>2 DEF NewSequence, is_finished
<1>4. active = Unfinished
  BY <1>1, CallersAre
<1>5. CallersExact'
  BY <1>1, <1>3, <1>4 DEF CallersExact, Unfinished
<1>6. Channels'
  <2>1. \A id \in DOMAIN stream' : StreamOK(stream'[id])
    BY <1>0, <1>2, <1>3, NewStreamOK
  <2>2. stream' \in [1..next_id' - 1 -> StreamType]
    <3>1. stream' = [id \in DOMAIN stream' |-> stream'[id]]
      BY <1>1
    <3> QED BY <1>3, <2>1, <3>1 DEF StreamOK
  <2>3. active' \subseteq DOMAIN stream'
    BY <1>0, <1>1, <1>2, <1>3
  <2>4. \A id \in active' : OnlyTokens(stream'[id])
                            /\ Len(stream'[id].events) = seqs'[id].output
    BY <1>0, <1>1, <1>3, <1>4, NewStreamOK DEF Unfinished
  <2> QED BY <2>1, <2>2, <2>3, <2>4 DEF Channels
<1>7. Promises
  <2> SUFFICES ASSUME NEW id \in SequenceIds PROVE Promised(id)
    BY DEF Promises
  <2>1. CASE id = new_id
    <3>1. SenderOf(id) = "none" /\ SenderOf(id)' = "held" /\ EventsOf(id)' = EventsOf(id)
      BY <1>1, <1>2, <1>3, <2>1 DEF SenderOf, EventsOf, NewStream
    <3> QED BY <3>1, PromiseAccepted
  <2>2. CASE id # new_id
    <3>1. UNCHANGED <<EventsOf(id), SenderOf(id)>>
      BY <1>1, <1>2, <1>3, <2>2 DEF SenderOf, EventsOf
    <3> QED BY <3>1, PromiseKept
  <2> QED BY <2>1, <2>2
<1> QED BY <1>5, <1>6, <1>7 DEF Callers

\* Cancelled or timed out: the callers in gone are told, if there is room, and
\* let go of.
LEMMA ToldAndGone ==
  ASSUME EngineInd, phase = "commands", phase' \notin {"drop", "stopped"}, next_id' = next_id,
         NEW gone \in SUBSET active, active' = active \ gone,
         NEW reason \in {"Cancelled", "Timeout"}, NEW count \in [gone -> Nat],
         stream' = [id \in DOMAIN stream |->
                      IF id \in gone THEN try_send(stream[id], Done(reason, count[id]))
                      ELSE stream[id]],
         Unfinished' = Unfinished \ gone,
         \A id \in Unfinished' : seqs'[id].output = seqs[id].output
  PROVE  /\ CallersExact' /\ Channels'
         /\ \A id \in SequenceIds \ gone : Promised(id)
         /\ \A id \in gone :
              /\ SenderOf(id) = "held" /\ SenderOf(id)' = "dropped"
              /\ EventsOf(id)' \in {EventsOf(id), Append(EventsOf(id), Done(reason, count[id]))}
<1>0. /\ stream \in [1..next_id - 1 -> StreamType] /\ DOMAIN stream = 1..next_id - 1
      /\ active \subseteq DOMAIN stream
      /\ \A id \in DOMAIN stream : StreamOK(stream[id])
      /\ \A id \in active : OnlyTokens(stream[id])
      /\ \A id \in active : Len(stream[id].events) = seqs[id].output
  BY ChannelFacts
<1>1. active = Unfinished
  BY CallersAre
<1>2. ASSUME NEW id \in gone
      PROVE  /\ StreamOK(stream'[id])
             /\ stream'[id].events \in {stream[id].events,
                                        Append(stream[id].events, Done(reason, count[id]))}
  <2>1. StreamOK(stream[id]) /\ OnlyTokens(stream[id]) /\ id \in DOMAIN stream
    BY <1>0
  <2>2. /\ reason \in {"Cancelled"} \cup Reasons /\ reason \notin {"Stop", "Length"}
        /\ count[id] \in Nat
    BY DEF Reasons
  <2>3. stream'[id] = try_send(stream[id], Done(reason, count[id]))
    BY <2>1
  <2> QED BY <2>1, <2>2, <2>3, DoneSent
<1>3. /\ DOMAIN stream' = DOMAIN stream
      /\ \A id \in DOMAIN stream \ gone : stream'[id] = stream[id]
  OBVIOUS
<1>4. CallersExact'
  BY <1>1 DEF CallersExact, Unfinished
<1>5. Channels'
  <2>1. \A id \in DOMAIN stream' : StreamOK(stream'[id])
    BY <1>0, <1>2, <1>3
  <2>2. stream' \in [1..next_id' - 1 -> StreamType]
    <3>1. stream' = [id \in DOMAIN stream' |-> stream'[id]]
      BY <1>3
    <3> QED BY <1>0, <1>3, <2>1, <3>1 DEF StreamOK
  <2>3. \A id \in active' : /\ id \in DOMAIN stream \ gone /\ id \in Unfinished'
                            /\ id \in active
    BY <1>0, <1>1
  <2>4. \A id \in active' : OnlyTokens(stream'[id])
                            /\ Len(stream'[id].events) = seqs'[id].output
    BY <1>0, <1>3, <2>3
  <2>5. active' \subseteq DOMAIN stream'
    BY <1>3, <2>3
  <2> QED BY <2>1, <2>2, <2>4, <2>5 DEF Channels
<1>6. \A id \in SequenceIds \ gone : Promised(id)
  <2> SUFFICES ASSUME NEW id \in SequenceIds \ gone PROVE Promised(id)
    OBVIOUS
  <2>1. UNCHANGED <<EventsOf(id), SenderOf(id)>>
    BY <1>3 DEF SenderOf, EventsOf
  <2> QED BY <2>1, PromiseKept
<1>7. \A id \in gone :
        /\ SenderOf(id) = "held" /\ SenderOf(id)' = "dropped"
        /\ EventsOf(id)' \in {EventsOf(id), Append(EventsOf(id), Done(reason, count[id]))}
  BY <1>0, <1>2, <1>3 DEF SenderOf, EventsOf
<1> QED BY <1>4, <1>5, <1>6, <1>7

LEMMA CancelCallers ==
  ASSUME EngineInd, NEW id \in SequenceIds, CancelCommand(id)
  PROVE  Callers
<1> DEFINE gone == active \cap {id}
           count == [x \in gone |-> 0]
<1>1. /\ phase = "commands" /\ phase' = "commands" /\ cancel(id)
      /\ active' = active \ gone
  BY DEF CancelCommand
<1>2. stream' = [x \in DOMAIN stream |->
                   IF x \in gone THEN try_send(stream[x], Done("Cancelled", count[x]))
                   ELSE stream[x]]
  <2>1. stream = [x \in DOMAIN stream |-> stream[x]] /\ active \subseteq DOMAIN stream
    BY ChannelFacts
  <2>2. CASE id \in active
    BY <2>1, <2>2 DEF CancelCommand
  <2>3. CASE id \notin active
    BY <2>1, <2>3 DEF CancelCommand
  <2> QED BY <2>2, <2>3
<1>3. /\ DOMAIN seqs' = DOMAIN seqs \ {id} /\ next_id' = next_id
      /\ \A x \in DOMAIN seqs' : seqs'[x] = seqs[x]
  BY <1>1 DEF cancel, Dropped, Without, Restrict
<1>4. Unfinished' = Unfinished \ gone /\ \A x \in Unfinished' : seqs'[x].output = seqs[x].output
  <2>1. active = Unfinished
    BY <1>1, CallersAre
  <2> QED BY <1>3, <2>1 DEF Unfinished
<1>5. /\ gone \in SUBSET active /\ count \in [gone -> Nat]
      /\ phase' \notin {"drop", "stopped"} /\ "Cancelled" \in {"Cancelled", "Timeout"}
      /\ \A x \in gone : count[x] = 0
  BY <1>1
<1> HIDE DEF count, gone
<1>6. /\ CallersExact' /\ Channels'
      /\ \A x \in SequenceIds \ gone : Promised(x)
      /\ \A x \in gone :
           /\ SenderOf(x) = "held" /\ SenderOf(x)' = "dropped"
           /\ EventsOf(x)' \in {EventsOf(x), Append(EventsOf(x), Done("Cancelled", count[x]))}
  BY <1>1, <1>2, <1>3, <1>4, <1>5, ToldAndGone
<1>7. \A x \in gone : Promised(x)
  BY <1>5, <1>6, PromiseCancel
<1> QED BY <1>6, <1>7 DEF Callers, Promises

\* The deadlines at the start of a step.
LEMMA TimeoutCallers ==
  ASSUME EngineInd, NEW d \in 0..MaxRequests, StepBegin(d)
  PROVE  Callers
<1> DEFINE gone == active \cap (1..d)
           count == [x \in gone |-> CompletionTokens(x)]
<1>0. /\ \A x \in active : Len(stream[x].events) = seqs[x].output
      /\ Range(running) \cup Range(waiting) = DOMAIN seqs
      /\ \A x \in DOMAIN seqs : SeqOK(seqs[x]) /\ active \subseteq DOMAIN stream
  BY ChannelFacts DEF StepBegin
<1>1. /\ phase = "commands" /\ phase' = "schedule" /\ active' = active \ gone
      /\ stream' = [x \in DOMAIN stream |->
                      IF x \in gone THEN try_send(stream[x], Done("Timeout", count[x]))
                      ELSE stream[x]]
  BY DEF StepBegin
<1>2. active = Unfinished
  BY <1>1, CallersAre
<1>3. /\ next_id' = next_id /\ Unfinished' = Unfinished \ gone
      /\ \A x \in Unfinished' : seqs'[x].output = seqs[x].output
  <2>1. CASE timeouts_enabled
    <3> DEFINE late == 1..d
    <3>1. /\ seqs' = [x \in DOMAIN seqs \ (Range(waiting) \cap late) |->
                        IF x \in Range(running) \cap late THEN finish(seqs[x], "Timeout")
                        ELSE seqs[x]]
          /\ next_id' = next_id /\ gone = Unfinished \cap late
      BY <1>2, <2>1 DEF StepBegin, expire_timeouts
    <3>2. \A x \in DOMAIN seqs : is_finished(finish(seqs[x], "Timeout"))
      <4>1. "Timeout" \in Reasons /\ "Timeout" # "Stop" /\ "Timeout" # "Length"
        BY DEF Reasons
      <4> QED BY <1>0, <4>1, FinishOK
    <3> HIDE DEF late, gone
    <3>3. \A x \in DOMAIN seqs' : /\ x \in DOMAIN seqs /\ ~(x \in Range(waiting) \cap late)
                                  /\ x \in late => is_finished(seqs'[x])
                                  /\ x \notin late => seqs'[x] = seqs[x]
      BY <1>0, <3>1, <3>2
    <3>4. \A x \in DOMAIN seqs \ late : x \in DOMAIN seqs'
      BY <3>1
    <3> QED BY <3>1, <3>3, <3>4 DEF Unfinished
  <2>2. CASE ~timeouts_enabled
    <3>1. d = 0 /\ UNCHANGED schedVars
      BY <2>2 DEF StepBegin, EngineInd, Control
    <3>2. seqs' = seqs /\ next_id' = next_id
      BY <3>1 DEF schedVars
    <3>3. gone = {}
      BY <3>1
    <3> HIDE DEF gone
    <3> QED BY <3>2, <3>3 DEF Unfinished
  <2> QED BY <2>1, <2>2
<1>4. count \in [gone -> Nat] /\ \A x \in gone : count[x] \in {0, Len(EventsOf(x))}
  <2> SUFFICES ASSUME NEW x \in gone
               PROVE  /\ CompletionTokens(x) \in Nat
                      /\ CompletionTokens(x) \in {0, Len(EventsOf(x))}
    OBVIOUS
  <2>1. x \in active /\ x \in DOMAIN seqs /\ x \in DOMAIN stream
    BY <1>0, <1>2 DEF Unfinished
  <2>2. seqs[x].output \in Nat /\ Len(EventsOf(x)) = seqs[x].output
    BY <1>0, <2>1, SeqFields DEF EventsOf
  <2> QED BY <2>2 DEF CompletionTokens
<1>5. /\ gone \in SUBSET active /\ phase' \notin {"drop", "stopped"}
      /\ "Timeout" \in {"Cancelled", "Timeout"}
  BY <1>1
<1> HIDE DEF count, gone
<1>6. /\ CallersExact' /\ Channels'
      /\ \A x \in SequenceIds \ gone : Promised(x)
      /\ \A x \in gone :
           /\ SenderOf(x) = "held" /\ SenderOf(x)' = "dropped"
           /\ EventsOf(x)' \in {EventsOf(x), Append(EventsOf(x), Done("Timeout", count[x]))}
  BY <1>1, <1>3, <1>4, <1>5, ToldAndGone
<1>7. \A x \in gone : Promised(x)
  BY <1>4, <1>6, PromiseTimeOut
<1> QED BY <1>6, <1>7 DEF Callers, Promises

\* The next token of a running sequence, and its last with the reason.
LEMMA EmitCallers ==
  ASSUME EngineInd, NEW is_stop \in BOOLEAN, EmitToken(is_stop)
  PROVE  Callers
<1>a. PICK id : id = Head(rows)
  OBVIOUS
<1> DEFINE q == seqs'[id]
           n == seqs[id].output
           s == try_send(stream[id], Token(n))
           t == try_send(s, Done(q.reason, q.output))
<1>0. /\ stream \in [1..next_id - 1 -> StreamType] /\ DOMAIN stream = 1..next_id - 1
      /\ active \subseteq DOMAIN stream
      /\ \A x \in DOMAIN stream : StreamOK(stream[x])
      /\ \A x \in active : OnlyTokens(stream[x])
      /\ phase # "drop" => \A x \in active : Len(stream[x].events) = seqs[x].output
      /\ DOMAIN stream \subseteq SequenceIds
  BY ChannelFacts
<1>1. /\ phase = "rows" /\ phase' = "rows" /\ Samples(id) /\ CanSend(stream[id])
      /\ on_token(id, is_stop)
      /\ stream' = [stream EXCEPT ![id] = IF is_finished(q) THEN t ELSE s]
      /\ active' = IF is_finished(q) THEN active \ {id} ELSE active
  BY <1>a DEF EmitToken
<1>2. [EngineNext]_engineVars
  BY DEF EngineNext, Step
<1>3. SchedInd /\ LineInv'
  BY <1>2, CallsAllowed, SchedStep DEF EngineInd, SchedInd
<1>4. active = Unfinished /\ id \in active /\ id \in DOMAIN stream /\ id \in DOMAIN seqs
  BY <1>0, <1>1, CallersAre DEF Samples, Unfinished
<1>5. TokenDue(id) /\ id \in SequenceIds
  BY <1>0, <1>1, <1>4 DEF TokenDue, Samples, Unfinished
<1>6. /\ DOMAIN seqs' = DOMAIN seqs /\ q.output = n + 1
      /\ is_finished(q) => q.reason \in {"Stop", "Length"}
      /\ \A x \in DOMAIN seqs : x # id => seqs'[x] = seqs[x]
  BY <1>1, <1>3, <1>5, TokenKeeps
<1>7. next_id' = next_id
  BY <1>1 DEF on_token
<1>8. StreamOK(stream[id]) /\ OnlyTokens(stream[id]) /\ Len(stream[id].events) = n /\ n \in Nat
  <2>1. StreamOK(stream[id]) /\ OnlyTokens(stream[id]) /\ Len(stream[id].events) = n
    BY <1>0, <1>1, <1>4
  <2> QED BY <2>1, StreamFields
<1>9. /\ StreamOK(s) /\ OnlyTokens(s) /\ Len(s.events) = n + 1
      /\ s.events = Append(stream[id].events, Token(n))
  BY <1>1, <1>8, TokenSent
<1> HIDE DEF s
<1>10. ASSUME is_finished(q)
       PROVE  /\ StreamOK(t)
              /\ t.events \in {s.events, Append(s.events, Done(q.reason, q.output))}
  <2>1. /\ q.reason \in {"Cancelled"} \cup Reasons /\ q.output \in Nat
        /\ q.output = Len(s.events)
    BY <1>6, <1>8, <1>9, <1>10 DEF Reasons
  <2> QED BY <1>9, <2>1, DoneSent
<1> HIDE DEF q, t
<1>11. /\ DOMAIN stream' = DOMAIN stream
       /\ stream'[id] = IF is_finished(q) THEN t ELSE s
       /\ \A x \in DOMAIN stream : x # id => stream'[x] = stream[x]
  BY <1>0, <1>1, <1>4
<1>12. CallersExact'
  <2>1. Unfinished' = IF is_finished(q) THEN Unfinished \ {id} ELSE Unfinished
    BY <1>4, <1>6 DEF Unfinished, q
  <2> QED BY <1>1, <1>4, <2>1 DEF CallersExact, Unfinished
<1>13. Channels'
  <2>1. \A x \in DOMAIN stream' : StreamOK(stream'[x])
    BY <1>0, <1>9, <1>10, <1>11
  <2>2. stream' \in [1..next_id' - 1 -> StreamType]
    <3>1. stream' = [x \in DOMAIN stream' |-> stream'[x]]
      BY <1>0, <1>1
    <3> QED BY <1>0, <1>7, <1>11, <2>1, <3>1 DEF StreamOK
  <2>3. active' \subseteq DOMAIN stream'
    BY <1>0, <1>1, <1>11
  <2>4. ASSUME NEW x \in active'
        PROVE  OnlyTokens(stream'[x]) /\ Len(stream'[x].events) = seqs'[x].output
    <3>1. CASE x = id
      <4>1. ~is_finished(q)
        BY <1>1, <2>4, <3>1
      <4> QED BY <1>6, <1>9, <1>11, <3>1, <4>1 DEF q
    <3>2. CASE x # id
      <4>1. x \in active /\ x \in DOMAIN seqs
        BY <1>1, <1>4, <2>4 DEF Unfinished
      <4> QED BY <1>0, <1>1, <1>6, <1>11, <3>2, <4>1
    <3> QED BY <3>1, <3>2
  <2> QED BY <2>1, <2>2, <2>3, <2>4 DEF Channels
<1>14. Promised(id)
  <2>1. /\ SenderOf(id) = "held" /\ EventsOf(id) = stream[id].events
        /\ EventsOf(id)' = stream'[id].events
        /\ SenderOf(id)' = IF is_finished(q) THEN "dropped" ELSE "held"
    BY <1>1, <1>4, <1>11 DEF SenderOf, EventsOf
  <2>2. CASE ~is_finished(q)
    <3>1. EventsOf(id)' = Append(EventsOf(id), Token(Len(EventsOf(id))))
      BY <1>8, <1>9, <1>11, <2>1, <2>2
    <3> QED BY <2>1, <2>2, <3>1, PromiseToken
  <2>3. CASE is_finished(q)
    <3> DEFINE e == stream[id].events
               done == Done(q.reason, n + 1)
    <3>1. e \in Seq(EventType) /\ q.reason \in {"Stop", "Length"} /\ Token(n) \in EventType
          /\ done \in EventType
      <4>1. e \in Seq(EventType) /\ q.reason \in {"Stop", "Length"}
        BY <1>6, <1>8, <2>3, StreamFields DEF q
      <4> QED BY <1>8, <4>1 DEF EventType, Token, Done, Reasons
    <3>2. Append(s.events, done) = e \o <<Token(n), done>>
      <4> DEFINE a == Token(n)
      <4> HIDE DEF a, done, e
      <4>1. s.events = Append(e, a)
        BY <1>9 DEF a, e
      <4>2. Append(Append(e, a), done) = e \o <<a, done>>
        BY <3>1 DEF a
      <4> QED BY <4>1, <4>2 DEF a
    <3>3. \/ EventsOf(id)' = Append(EventsOf(id), Token(n))
          \/ EventsOf(id)' = EventsOf(id) \o <<Token(n), Done(q.reason, n + 1)>>
      BY <1>6, <1>9, <1>10, <1>11, <2>1, <2>3, <3>2 DEF q
    <3>4. n = Len(EventsOf(id)) /\ SenderOf(id) = "held" /\ SenderOf(id)' = "dropped"
      BY <1>8, <2>1, <2>3
    <3> QED BY <3>1, <3>3, <3>4, PromiseLast
  <2> QED BY <2>2, <2>3
<1>15. \A x \in SequenceIds \ {id} : Promised(x)
  <2> SUFFICES ASSUME NEW x \in SequenceIds \ {id} PROVE Promised(x)
    OBVIOUS
  <2>1. UNCHANGED <<EventsOf(x), SenderOf(x)>>
    BY <1>1, <1>11 DEF SenderOf, EventsOf
  <2> QED BY <2>1, PromiseKept
<1> QED BY <1>12, <1>13, <1>14, <1>15 DEF Callers, Promises

\* The token is recorded and cannot be sent.
LEMMA EmitFailsCallers ==
  ASSUME EngineInd, NEW is_stop \in BOOLEAN, EmitFails(is_stop)
  PROVE  Callers
<1> DEFINE id == Head(rows)
<1>0. /\ stream \in [1..next_id - 1 -> StreamType] /\ DOMAIN stream = 1..next_id - 1
      /\ active \subseteq DOMAIN stream
      /\ \A x \in DOMAIN stream : StreamOK(stream[x])
      /\ \A x \in active : OnlyTokens(stream[x])
      /\ phase # "drop" => \A x \in active : Len(stream[x].events) = seqs[x].output
      /\ DOMAIN stream \subseteq SequenceIds
  BY ChannelFacts
<1>1. /\ phase = "rows" /\ phase' = "drop" /\ Samples(id) /\ on_token(id, is_stop)
      /\ rows' = rows /\ stream' = stream /\ active' = active
  BY DEF EmitFails
<1>2. [EngineNext]_engineVars
  BY DEF EngineNext, Step
<1>3. SchedInd /\ LineInv'
  BY <1>2, CallsAllowed, SchedStep DEF EngineInd, SchedInd
<1>4. active = Unfinished
  BY <1>1, CallersAre
<1>5. TokenDue(id) /\ id \in SequenceIds /\ id \in active
  BY <1>0, <1>1, <1>4 DEF TokenDue, Samples, Unfinished
<1>6. /\ DOMAIN seqs' = DOMAIN seqs
      /\ \A x \in DOMAIN seqs : x # id => seqs'[x] = seqs[x]
  BY <1>1, <1>3, <1>5, TokenKeeps
<1>7. next_id' = next_id /\ Head(rows') = id
  BY <1>1 DEF on_token
<1> HIDE DEF id
<1>8. active' = {x \in DOMAIN seqs' : ~is_finished(seqs'[x])} \cup {id}
  <2>1. \A x : x \in active <=> (x \in DOMAIN seqs' /\ ~is_finished(seqs'[x])) \/ x = id
    BY <1>4, <1>5, <1>6 DEF Unfinished
  <2> QED BY <1>1, <2>1
<1>9. CallersExact'
  BY <1>1, <1>7, <1>8 DEF CallersExact
<1>10. Channels'
  <2>1. \A x \in active : Len(stream[x].events) = seqs'[x].output \/ x = id
    BY <1>0, <1>1, <1>4, <1>6 DEF Unfinished
  <2> QED BY <1>0, <1>1, <1>7, <2>1 DEF Channels
<1>11. Promises
  BY <1>1, PromiseKept DEF Promises, EventsOf, SenderOf
<1> QED BY <1>9, <1>10, <1>11 DEF Callers

\* Its sequence is cancelled and its caller let go of.
LEMMA DropCallers ==
  ASSUME EngineInd, cancel_silently
  PROVE  Callers
<1> DEFINE id == Head(rows)
<1>0. /\ stream \in [1..next_id - 1 -> StreamType] /\ active \subseteq DOMAIN stream
      /\ \A x \in DOMAIN stream : StreamOK(stream[x])
      /\ \A x \in active : OnlyTokens(stream[x])
      /\ \A x \in active : Len(stream[x].events) = seqs[x].output \/ x = id
  BY ChannelFacts DEF EngineInd, Channels
<1>1. /\ phase = "drop" /\ phase' = "rows" /\ cancel(id) /\ stream' = stream
      /\ active' = active \ {id}
  BY DEF cancel_silently
<1> HIDE DEF id
<1>2. active = Unfinished \cup {id}
  BY <1>1, CallersAre DEF id
<1>3. /\ DOMAIN seqs' = DOMAIN seqs \ {id} /\ next_id' = next_id
      /\ \A x \in DOMAIN seqs' : seqs'[x] = seqs[x]
  BY <1>1 DEF cancel, Dropped, Without, Restrict
<1>4. CallersExact'
  BY <1>1, <1>2, <1>3 DEF CallersExact, Unfinished
<1>5. Channels'
  <2>1. \A x \in active' : x \in active /\ Len(stream[x].events) = seqs'[x].output
    BY <1>0, <1>1, <1>2, <1>3 DEF Unfinished
  <2> QED BY <1>0, <1>1, <1>3, <2>1 DEF Channels
<1>6. Promises
  <2> SUFFICES ASSUME NEW x \in SequenceIds PROVE Promised(x)
    BY DEF Promises
  <2>1. EventsOf(x)' = EventsOf(x)
    BY <1>1 DEF EventsOf
  <2>2. CASE SenderOf(x)' = SenderOf(x)
    BY <2>1, <2>2, PromiseKept
  <2>3. CASE SenderOf(x)' # SenderOf(x)
    <3>1. SenderOf(x) = "held" /\ SenderOf(x)' = "dropped"
      BY <1>1, <2>3 DEF SenderOf
    <3> QED BY <2>1, <3>1, PromiseCancel
  <2> QED BY <2>2, <2>3
<1> QED BY <1>4, <1>5, <1>6 DEF Callers

\* The thread ends, and with it the senders.
LEMMA ShutdownCallers ==
  ASSUME EngineInd, Shutdown
  PROVE  Callers
<1>1. phase' = "stopped" /\ active' = {} /\ stream' = stream /\ next_id' = next_id
  BY DEF Shutdown, schedVars
<1>2. CallersExact' /\ Channels'
  BY <1>1, ChannelFacts DEF CallersExact, Channels
<1>3. Promises
  <2> SUFFICES ASSUME NEW x \in SequenceIds PROVE Promised(x)
    BY DEF Promises
  <2>1. EventsOf(x)' = EventsOf(x)
    BY <1>1 DEF EventsOf
  <2>2. CASE SenderOf(x)' = SenderOf(x)
    BY <2>1, <2>2, PromiseKept
  <2>3. CASE SenderOf(x)' # SenderOf(x)
    <3>1. SenderOf(x) = "held" /\ SenderOf(x)' = "dropped"
      BY <1>1, <2>3 DEF SenderOf
    <3> QED BY <2>1, <3>1, PromiseCancel
  <2> QED BY <2>2, <2>3
<1> QED BY <1>2, <1>3 DEF Callers

\* Callers take what is there or leave; what was put there stays.
LEMMA CallerCallers ==
  ASSUME EngineInd, Caller
  PROVE  Callers
<1>0. /\ stream \in [1..next_id - 1 -> StreamType] /\ DOMAIN stream = 1..next_id - 1
      /\ active \subseteq DOMAIN stream
      /\ \A x \in DOMAIN stream : StreamOK(stream[x])
      /\ \A x \in active : /\ OnlyTokens(stream[x])
                           /\ \/ Len(stream[x].events) = seqs[x].output
                              \/ phase = "drop" /\ x = Head(rows)
  BY ChannelFacts DEF EngineInd, Channels
<1>1. /\ UNCHANGED schedVars /\ phase' = phase /\ rows' = rows /\ active' = active
      /\ DOMAIN stream' = DOMAIN stream
      /\ stream' = [x \in DOMAIN stream |-> stream'[x]]
      /\ \A x \in DOMAIN stream : StreamOK(stream'[x]) /\ stream'[x].events = stream[x].events
  <2>1. PICK id \in DOMAIN stream : Receive(id) \/ Disconnect(id)
    BY DEF Caller
  <2>2. StreamOK(stream[id])
    BY <1>0
  <2>3. CASE Receive(id)
    <3> DEFINE s == [stream[id] EXCEPT !.taken = @ + 1]
    <3>1. StreamOK(s) /\ s.events = stream[id].events
      BY <2>2, <2>3, CallerMoves DEF Receive
    <3>2. stream' = [stream EXCEPT ![id] = s]
      BY <2>3 DEF Receive
    <3> HIDE DEF s
    <3> QED BY <1>0, <2>3, <3>1, <3>2 DEF Receive
  <2>4. CASE Disconnect(id)
    <3> DEFINE s == [stream[id] EXCEPT !.open = FALSE]
    <3>1. StreamOK(s) /\ s.events = stream[id].events
      BY <2>2, CallerMoves
    <3>2. stream' = [stream EXCEPT ![id] = s]
      BY <2>4 DEF Disconnect
    <3> HIDE DEF s
    <3> QED BY <1>0, <2>4, <3>1, <3>2 DEF Disconnect
  <2> QED BY <2>1, <2>3, <2>4
<1>2. seqs' = seqs /\ next_id' = next_id
  BY <1>1 DEF schedVars
<1>3. CallersExact'
  BY <1>1, <1>2 DEF EngineInd, CallersExact
<1>4. Channels'
  <2>1. stream' \in [1..next_id' - 1 -> StreamType]
    BY <1>0, <1>1, <1>2 DEF StreamOK
  <2>2. \A x \in active' : OnlyTokens(stream'[x])
    BY <1>0, <1>1 DEF OnlyTokens, TokensOf
  <2> QED BY <1>0, <1>1, <1>2, <2>1, <2>2 DEF Channels
<1>5. Promises
  <2> SUFFICES ASSUME NEW x \in SequenceIds PROVE Promised(x)
    BY DEF Promises
  <2>1. UNCHANGED <<EventsOf(x), SenderOf(x)>>
    BY <1>1 DEF EventsOf, SenderOf
  <2> QED BY <2>1, PromiseKept
<1> QED BY <1>3, <1>4, <1>5 DEF Callers

LEMMA EngineStep ==
  ASSUME EngineInd, [EngineNext]_engineVars
  PROVE  EngineInd' /\ Promises
<1>1. SchedInd' /\ Control'
  BY CallsAllowed, SchedStep, ControlStep DEF EngineInd
<1>2. Callers
  <2>1. CASE Command
    BY <2>1, SubmitCallers, CancelCallers, ShutdownCallers DEF Command
  <2>2. CASE Step
    <3>1. CASE \E d \in 0..MaxRequests : StepBegin(d)
      BY <3>1, TimeoutCallers
    <3>2. CASE \/ StepSchedule \/ StepPass \/ StepEmpty \/ Forward \/ ForwardFails
               \/ SkipRow \/ RowMissing \/ RowsDone \/ CommitRow \/ CommitsDone
      BY <3>2, QuietSteps
    <3>3. CASE \E is_stop \in BOOLEAN : EmitToken(is_stop) \/ EmitFails(is_stop)
      BY <3>3, EmitCallers, EmitFailsCallers
    <3>4. CASE cancel_silently
      BY <3>4, DropCallers
    <3>5. CASE StepReap
      BY <3>5, ReapCallers
    <3> QED BY <2>2, <3>1, <3>2, <3>3, <3>4, <3>5 DEF Step
  <2>3. CASE Caller
    BY <2>3, CallerCallers
  <2>4. CASE UNCHANGED engineVars
    <3>1. /\ seqs' = seqs /\ next_id' = next_id /\ phase' = phase /\ rows' = rows
          /\ active' = active /\ stream' = stream
      BY <2>4 DEF engineVars, schedVars
    <3>2. CallersExact' /\ Channels'
      BY <3>1 DEF EngineInd, CallersExact, Channels
    <3>3. Promises
      BY <3>1, PromiseKept DEF Promises, EventsOf, SenderOf
    <3> QED BY <3>2, <3>3 DEF Callers
  <2> QED BY <2>1, <2>2, <2>3, <2>4 DEF EngineNext
<1> QED BY <1>1, <1>2 DEF EngineInd, Callers

LEMMA EngineStart == EngineInit => EngineInd
<1> SUFFICES ASSUME EngineInit PROVE EngineInd
  OBVIOUS
<1>1. /\ SchedInit /\ phase = "commands" /\ rows = << >> /\ active = {}
      /\ stream = Empty /\ faults = 0
  BY DEF EngineInit
<1>2. SchedInd
  BY <1>1, SchedStart
<1>3. seqs = Empty /\ next_id = 1 /\ expired = 0 /\ pc = "idle"
  BY <1>1 DEF SchedInit
<1>4. Control
  BY <1>1, <1>3, EngineAssumption DEF Control, Phases
<1>5. CallersExact
  BY <1>1, <1>3 DEF CallersExact, Empty
<1>6. Channels
  BY <1>1, <1>3 DEF Channels, Empty
<1> QED BY <1>2, <1>4, <1>5, <1>6 DEF EngineInd

LEMMA EngineIndHolds == EngineSpec => []EngineInd
<1>1. EngineInd /\ [EngineNext]_engineVars => EngineInd'
  BY EngineStep
<1> QED BY <1>1, EngineStart, PTL DEF EngineSpec

LEMMA EngineIndImplies ==
  ASSUME EngineInd
  PROVE  EngineTypeOK /\ CallersServed
<1>0. /\ DOMAIN stream = 1..next_id - 1 /\ active \subseteq DOMAIN stream
      /\ \A id \in DOMAIN stream : StreamOK(stream[id])
      /\ \A id \in active : OnlyTokens(stream[id])
      /\ phase # "drop" => \A id \in active : Len(stream[id].events) = seqs[id].output
  BY ChannelFacts
<1>1. EngineTypeOK
  <2>1. /\ phase \in Phases /\ rows \in Seq(SequenceIds) /\ (phase = "drop" => rows # << >>)
        /\ faults \in 0..MaxFaults
    BY DEF EngineInd, Control
  <2>2. ASSUME NEW s, StreamOK(s)
        PROVE  /\ s.events \in Seq([kind : {"Token", "Cancelled"} \cup Reasons, n : Nat])
               /\ s.taken \in 0..Len(s.events) /\ s.open \in BOOLEAN
               /\ Len(s.events) - s.taken <= BufferSize
    <3>1. /\ s.events \in Seq(EventType) /\ Len(s.events) \in Nat /\ s.taken \in Nat
          /\ s.open \in BOOLEAN
      BY <2>2, StreamFields
    <3> QED BY <2>2, <3>1 DEF StreamOK, EventType
  <2> QED BY <1>0, <2>1, <2>2 DEF EngineTypeOK, Phases
<1>2. StreamsInOrder
  <2>1. ASSUME NEW id \in DOMAIN stream
        PROVE  LET s == stream[id] IN
               /\ \A i \in 1..TokensOf(s) : s.events[i] = Token(i - 1)
               /\ TokensOf(s) < Len(s.events) =>
                    /\ id \notin active
                    /\ s.events[Len(s.events)].kind \in {"Stop", "Length"} =>
                         s.events[Len(s.events)].n = TokensOf(s)
               /\ id \in active /\ phase # "drop" => TokensOf(s) = seqs[id].output
    <3> DEFINE s == stream[id]
    <3>1. /\ \A i \in 1..TokensOf(s) : s.events[i] = Token(i - 1)
          /\ TokensOf(s) < Len(s.events) /\ LastEvent(s).kind \in {"Stop", "Length"} =>
               LastEvent(s).n = TokensOf(s)
          /\ Len(s.events) \in Nat
      BY <1>0, StreamFields DEF StreamOK
    <3>2. id \in active => TokensOf(s) = Len(s.events)
      BY <1>0 DEF OnlyTokens
    <3>3. id \in active /\ phase # "drop" => TokensOf(s) = seqs[id].output
      BY <1>0, <3>2
    <3> HIDE DEF s
    <3>4. TokensOf(s) < Len(s.events) => id \notin active
      BY <3>1, <3>2
    <3> QED BY <3>1, <3>3, <3>4 DEF LastEvent, s
  <2> QED BY <2>1 DEF StreamsInOrder
<1> QED BY <1>1, <1>2 DEF CallersServed, EngineInd

-----------------------------------------------------------------------------
(* The theorems.                                                            *)

\* The fields of Engine, the channels and the locals of step() have their types,
\* and no channel ever holds more than its capacity.
THEOREM EngineTypes == EngineSpec => []EngineTypeOK
<1>1. EngineInd => EngineTypeOK
  BY EngineIndImplies
<1> QED BY <1>1, EngineIndHolds, PTL

\* The engine keeps exactly the callers of unfinished sequences, and each caller
\* has been sent what its sequence has produced, in order and once: across
\* preemption, cancellation, timeouts, failed steps, callers that stall or leave,
\* and shutdown.
THEOREM CallersAreServed == EngineSpec => []CallersServed
<1>1. EngineInd => CallersServed
  BY EngineIndImplies
<1> QED BY <1>1, EngineIndHolds, PTL

\* The engine drives the scheduler as the scheduler assumes of its callers:
\* Engine implements Scheduler, step by step.  Every theorem about SchedSpec is
\* thereby one about the engine.
THEOREM EngineDrivesScheduler == EngineSpec => DrivesScheduler
<1>1. EngineInit => SchedInit
  BY DEF EngineInit
<1>2. EngineInd /\ [EngineNext]_engineVars => [SchedNext]_schedVars
  BY CallsAllowed
<1> QED BY <1>1, <1>2, EngineIndHolds, PTL DEF EngineSpec, SchedSpec, DrivesScheduler

\* Every caller's channel carries what RequestStream promises: tokens numbered
\* from 0, at most one terminal event with the right count, then silence.  This
\* refinement is what Api assumes of the engine.
THEOREM EngineKeepsPromise == EngineSpec => KeepsPromise
<1>1. EngineInit => \A id \in SequenceIds : Stream(id)!StreamInit
  BY DEF EngineInit, Stream!StreamInit, Empty
<1>2. EngineInd /\ [EngineNext]_engineVars =>
        [\A id \in SequenceIds :
            Stream(id)!StreamNext \/ UNCHANGED Stream(id)!streamVars]_engineVars
  BY EngineStep DEF Promises, Promised
<1> QED BY <1>1, <1>2, EngineIndHolds, PTL DEF EngineSpec, KeepsPromise
=============================================================================
