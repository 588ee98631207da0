------------------------------- MODULE Sampler -------------------------------
(* The sampling engine of orion-runtime: the filters a row of logits goes       *)
(* through before a token is drawn from it.                                     *)
(*                                                                              *)
(* Numbers are integers that saturate at the two infinities, as the products    *)
(* of f32 do; scale factors and probabilities are pairs <<n, d>> for n/d.       *)
(* Rows are finite when they reach the sampler.  Token ids count from 1.        *)
(* exp is any function that decreases with the distance to the maximum and is   *)
(* zero from some distance on: only the order and the underflow matter.         *)
EXTENDS Integers, Sequences, FiniteSets, SequencesExt

CONSTANTS FMax,     \* the largest finite number
          Masked,   \* the sentinel of filtered tokens, finite and very negative
          Gap       \* exp underflows to zero beyond this distance

ASSUME FloatAssumption == /\ FMax \in Nat /\ Gap \in Nat
                          /\ Masked \in (-FMax) .. -1

Inf == FMax + 1
IsFinite(x) == -FMax <= x /\ x <= FMax
Saturate(x) == IF x > FMax THEN Inf ELSE IF x < -FMax THEN -Inf ELSE x
Times(x, q) == IF IsFinite(x) THEN Saturate((x * q[1]) \div q[2]) ELSE x
Inverse2(q) == <<q[2], q[1]>>
One == <<1, 1>>

Exp(d) == IF d > Gap THEN 0 ELSE 2 ^ (Gap - d)

Total(s) == FoldLeft(LAMBDA a, b : a + b, 0, s)
Largest(s) == FoldLeft(LAMBDA a, b : IF b > a THEN b ELSE a, -Inf, s)

Penalised(l, penalty) == IF l > 0 THEN Times(l, Inverse2(penalty)) ELSE Times(l, penalty)

(* One penalty for each distinct token of the context.                          *)
apply_repetition_penalty(logits, previous, penalty) ==
    IF penalty = One THEN logits
    ELSE [t \in 1..Len(logits) |->
             IF t \in ToSet(previous) THEN Penalised(logits[t], penalty) ELSE logits[t]]

apply_temperature(logits, temperature) ==
    IF temperature = One THEN logits
    ELSE [t \in 1..Len(logits) |-> Times(logits[t], Inverse2(temperature))]

(* The k-th largest value: what index k-1 holds after the partition.            *)
kth(logits, k) ==
    CHOOSE x \in ToSet(logits) :
        /\ Cardinality({t \in 1..Len(logits) : logits[t] > x}) < k
        /\ Cardinality({t \in 1..Len(logits) : logits[t] >= x}) >= k

apply_top_k(logits, k) ==
    IF k = 0 \/ k >= Len(logits) THEN logits
    ELSE [t \in 1..Len(logits) |->
             IF logits[t] < kth(logits, k) THEN Masked ELSE logits[t]]

(* Weights over a common denominator; all equal when every logit is masked or   *)
(* the largest is infinite.                                                     *)
softmax(logits) ==
    LET max == Largest(logits)
    IN  IF ~IsFinite(max) \/ max <= Masked
        THEN [t \in 1..Len(logits) |-> 1]
        ELSE [t \in 1..Len(logits) |->
                 IF logits[t] <= Masked THEN 0 ELSE Exp(max - logits[t])]

Live(logits) == {t \in 1..Len(logits) : softmax(logits)[t] > 0 /\ logits[t] > Masked}

(* The orders an unstable descending sort may leave the candidates in.          *)
Sorted(logits) ==
    {s \in SetToSeqs(Live(logits)) :
        \A i, j \in 1..Len(s) : i < j => softmax(logits)[s[i]] >= softmax(logits)[s[j]]}

Mass(w, s, n) == Total([i \in 1..n |-> w[s[i]]])

cutoff_DropsCrossing(w, s, p) ==
    Cardinality({n \in 1..Len(s) : Mass(w, s, n) * p[2] < p[1] * Total(w)})

(* Candidates kept: through the one that crosses p, or all if none does.        *)
cutoff(w, s, p) ==
    LET crossing == {n \in 1..Len(s) : Mass(w, s, n) * p[2] >= p[1] * Total(w)}
    IN  IF crossing = {} THEN Len(s) ELSE CHOOSE n \in crossing : \A m \in crossing : n <= m

apply_top_p(logits, p, s) ==
    LET kept == {s[i] : i \in 1..cutoff(softmax(logits), s, p)}
    IN  [t \in 1..Len(logits) |->
            IF t \in ToSet(s) \ kept THEN Masked ELSE logits[t]]

(* The first largest logit, 0 when no logit exceeds minus infinity.             *)
argmax(logits) ==
    FoldLeft(LAMBDA best, t : IF logits[t] > (IF best = 0 THEN -Inf ELSE logits[best])
                              THEN t ELSE best,
             0, [t \in 1..Len(logits) |-> t])

(* Rounding can leave the random number at the total: the last token with a     *)
(* probability is taken then.                                                   *)
sample_from(w, r) ==
    LET hit == {t \in 1..Len(w) : r < Mass(w, [i \in 1..Len(w) |-> i], t)}
        live == {t \in 1..Len(w) : w[t] > 0}
    IN  IF hit # {} THEN CHOOSE t \in hit : \A u \in hit : t <= u
        ELSE CHOOSE t \in live : \A u \in live : t >= u

is_greedy(params) == params.temperature[1] = 0
=============================================================================
