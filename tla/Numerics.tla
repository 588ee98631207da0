------------------------------ MODULE Numerics ------------------------------
(* The pure algorithms around the engine, each run on every input of a small    *)
(* domain and compared with a definition that does not share its method: the    *)
(* sampler, filter by filter, as Sampler::sample calls them; a quantization     *)
(* round trip; the layout of every rank of a group; the check of a kernel.      *)
EXTENDS Sampler, Quantization, Sharding, KernelCheck

CONSTANTS SampleJobs,     \* [kind, logits, previous, params]
          QuantizeJobs,   \* [kind, values, bits]
          LayoutJobs,     \* [kind, meta, world_size]
          KernelJobs      \* [kind, expected, actual]

(* A job says what it is for; a row of logits is finite, its parameters and the *)
(* model of a layout have passed their validation.                              *)
ASSUME JobsAssumption ==
    /\ \A j \in SampleJobs :
          /\ j.kind = "sample" /\ j.logits \in Seq((-FMax) .. FMax)
          /\ j.params.temperature \in Nat \X (Nat \ {0}) /\ j.params.top_k \in Nat
          /\ {j.params.top_p, j.params.repetition_penalty} \subseteq (Nat \ {0}) \X (Nat \ {0})
          /\ j.params.top_p[1] <= j.params.top_p[2]
    /\ \A j \in QuantizeJobs :
          /\ j.kind = "quantize" /\ j.values \in Seq(Int \cup {NotFinite})
          /\ j.bits \in {"int8", "int4"}
    /\ \A j \in KernelJobs :
          j.kind = "kernel" /\ {j.expected, j.actual} \subseteq Seq(Int \cup Special)
    /\ \A j \in LayoutJobs :
          /\ j.kind = "layout" /\ j.world_size \in Nat
          /\ j.meta.num_attention_heads \in Nat /\ j.meta.num_kv_heads \in Nat \ {0}
          /\ j.meta.num_attention_heads % j.meta.num_kv_heads = 0
          /\ j.meta.ffn_dim \in Nat /\ j.meta.head_dim \in Nat

VARIABLES job,    \* the inputs
          pc,     \* the next step, or "done"
          row,    \* the logits as the filters have left them so far
          out     \* the result

vars == <<job, pc, row, out>>

Nothing == [status |-> "none"]
Error == [status |-> "error"]
Sampled(t) == [status |-> "ok", token |-> t]

FirstStep(kind) == CASE kind = "sample" -> "penalty"
                     [] kind = "quantize" -> "quantize"
                     [] kind = "layout" -> "rank"
                     [] kind = "kernel" -> "compare"

Init ==
    /\ job \in SampleJobs \cup QuantizeJobs \cup LayoutJobs \cup KernelJobs
    /\ pc = FirstStep(job.kind)
    /\ row = IF job.kind = "sample" THEN job.logits ELSE << >>
    /\ out = IF job.kind = "layout" THEN << >> ELSE Nothing

Finish(result) == pc' = "done" /\ out' = result

(* Sampler::sample, step by step. *)
EmptyRow ==
    /\ pc = "penalty" /\ job.logits = << >>
    /\ Finish(Error)
    /\ UNCHANGED <<job, row>>

Penalise ==
    /\ pc = "penalty" /\ job.logits # << >>
    /\ row' = apply_repetition_penalty(row, job.previous, job.params.repetition_penalty)
    /\ pc' = IF is_greedy(job.params) THEN "greedy" ELSE "temperature"
    /\ UNCHANGED <<job, out>>

Greedy ==
    /\ pc = "greedy"
    /\ Finish(IF argmax(row) = 0 THEN Error ELSE Sampled(argmax(row)))
    /\ UNCHANGED <<job, row>>

Temperature ==
    /\ pc = "temperature"
    /\ row' = apply_temperature(row, job.params.temperature)
    /\ pc' = "top_k"
    /\ UNCHANGED <<job, out>>

TopK ==
    /\ pc = "top_k"
    /\ row' = apply_top_k(row, job.params.top_k)
    /\ pc' = "top_p"
    /\ UNCHANGED <<job, out>>

TopP ==
    /\ pc = "top_p"
    /\ \/ /\ job.params.top_p = One \/ Live(row) = {}
          /\ UNCHANGED row
       \/ /\ job.params.top_p # One /\ Live(row) # {}
          /\ \E s \in Sorted(row) : row' = apply_top_p(row, job.params.top_p, s)
    /\ pc' = "draw"
    /\ UNCHANGED <<job, out>>

Draw ==
    /\ pc = "draw"
    /\ \E r \in 0 .. Total(softmax(row)) : Finish(Sampled(sample_from(softmax(row), r)))
    /\ UNCHANGED <<job, row>>

(* Quantize, then rebuild and measure what was lost. *)
Quantize ==
    /\ pc = "quantize"
    /\ LET tensor == quantize(job.values, job.bits)
       IN  \/ /\ tensor.status = "error"
              /\ Finish(Error)
           \/ /\ tensor.status = "ok"
              /\ pc' = "dequantize"
              /\ out' = tensor
    /\ UNCHANGED <<job, row>>

Dequantize ==
    /\ pc = "dequantize"
    /\ LET rebuilt == dequantize(out)
       IN  Finish([status |-> "ok", values |-> rebuilt,
                   max_abs_error |-> max_abs_error(job.values, rebuilt)])
    /\ UNCHANGED <<job, row>>

(* One rank after another computes its own layout. *)
NextRank == [index |-> Len(out), world_size |-> job.world_size]

ComputeLayout ==
    /\ pc = "rank"
    /\ RankOk(NextRank.index, NextRank.world_size) /\ LayoutOk(job.meta, NextRank)
    /\ out' = Append(out, compute(job.meta, NextRank))
    /\ UNCHANGED <<job, pc, row>>

RefuseLayout ==
    /\ pc = "rank"
    /\ RankOk(NextRank.index, NextRank.world_size) /\ ~LayoutOk(job.meta, NextRank)
    /\ pc' = "refused"
    /\ UNCHANGED <<job, row, out>>

RanksDone ==
    /\ pc = "rank" /\ ~RankOk(NextRank.index, NextRank.world_size)
    /\ pc' = IF job.world_size = 0 THEN "refused" ELSE "laid_out"
    /\ UNCHANGED <<job, row, out>>

CompareKernel ==
    /\ pc = "compare"
    /\ Finish(validate_kernel(job.expected, job.actual))
    /\ UNCHANGED <<job, row>>

Next == \/ EmptyRow \/ Penalise \/ Greedy \/ Temperature \/ TopK \/ TopP \/ Draw
        \/ Quantize \/ Dequantize
        \/ ComputeLayout \/ RefuseLayout \/ RanksDone
        \/ CompareKernel

Spec == Init /\ [][Next]_vars

-----------------------------------------------------------------------------
(* Reference definitions. *)
params == job.params
penalised == apply_repetition_penalty(job.logits, job.previous, params.repetition_penalty)
tempered == apply_temperature(penalised, params.temperature)

(* The temperature has not driven the largest logit out of the range in which   *)
(* the sentinel and the infinities mean what they should.                       *)
InRange == IsFinite(Largest(tempered)) /\ Largest(tempered) > Masked

Rivals(t) == {u \in 1..Len(tempered) : tempered[u] > tempered[t]}

(* Tokens that fewer than k others beat: with ties there may be more than k.    *)
TopTokens == {t \in 1..Len(tempered) : params.top_k = 0 \/ Cardinality(Rivals(t)) < params.top_k}

WeightOf(t) == IF tempered[t] <= Masked THEN 0 ELSE Exp(Largest(tempered) - tempered[t])
WeightSum(S) == MapThenSumSet(WeightOf, S)

(* A drawn token has a probability, is one of the top k of the scaled logits,   *)
(* and the tokens strictly likelier than it do not make up top_p by themselves  *)
(* (sampling.rs: sample and the filters it calls, ties and underflow included). *)
TokenInNucleus ==
    (pc = "done" /\ job.kind = "sample" /\ job.logits # << >> /\ ~is_greedy(params) /\ InRange)
    => LET t == out.token
       IN  /\ t \in TopTokens
           /\ WeightOf(t) > 0
           /\ (Rivals(t) # {}) =>
                WeightSum(Rivals(t)) * params.top_p[2] < params.top_p[1] * WeightSum(TopTokens)

(* The tokens left to draw from hold at least top_p of the mass of the top k,   *)
(* and never none of it (apply_top_p keeps the token that crosses).             *)
NucleusKeepsMass ==
    (pc = "draw" /\ InRange)
    => LET left == {t \in 1..Len(row) : row[t] > Masked}
       IN  /\ WeightSum(left) > 0
           /\ WeightSum(left) * params.top_p[2] >= params.top_p[1] * WeightSum(TopTokens)

(* A penalty of 1 or more never lets a repeated token overtake a new one, and   *)
(* one of 1 or less never lets a new one overtake it, whatever the signs, the   *)
(* repetitions and the ids outside the vocabulary (apply_repetition_penalty).   *)
PenaltyDiscourages ==
    (pc \in {"greedy", "temperature"})
    => \A t \in ToSet(job.previous) \cap 1..Len(row), u \in (1..Len(row)) \ ToSet(job.previous) :
          LET q == params.repetition_penalty
          IN  /\ (q[1] >= q[2] /\ job.logits[t] <= job.logits[u]) => row[t] <= row[u]
              /\ (q[1] <= q[2] /\ job.logits[t] >= job.logits[u]) => row[t] >= row[u]

(* Greedy decoding returns the lowest token id with the largest penalised       *)
(* logit, and fails only when every logit is minus infinity (argmax).           *)
GreedyIsDeterministic ==
    (pc = "done" /\ job.kind = "sample" /\ job.logits # << >> /\ is_greedy(params))
    => LET best == {t \in 1..Len(penalised) : penalised[t] = Largest(penalised)}
       IN  out = IF Largest(penalised) = -Inf THEN Error ELSE Sampled(Min(best))

(* The group a weight belongs to, as the positions of its members.              *)
GroupOf(i) == {j \in 1..Len(job.values) : (j - 1) \div GROUP_SIZE = (i - 1) \div GROUP_SIZE}
Spread(i) == Max({job.values[j] : j \in GroupOf(i)}) - Min({job.values[j] : j \in GroupOf(i)})

(* The group's weights, counted in steps of its scale, fit in an i32.           *)
Countable(i) == \A j \in GroupOf(i) :
                    Abs(job.values[j]) * max_value(job.bits) < I32 * Spread(i)

(* Quantization keeps the number of weights, rebuilds a constant group exactly  *)
(* and every other weight to within one step of its own group's scale, short    *)
(* last groups and odd INT4 counts included; a weight that is not finite is     *)
(* refused (quantize, pack, unpack, dequantize).                                *)
RebuiltWithinOneStep ==
    (pc = "done" /\ job.kind = "quantize")
    => IF \E i \in 1..Len(job.values) : job.values[i] = NotFinite
       THEN out = Error
       ELSE /\ Len(out.values) = Len(job.values)
            /\ \A i \in 1..Len(job.values) :
                  LET n == out.values[i][1]
                      d == out.values[i][2]
                  IN  IF Spread(i) = 0 THEN n = job.values[i] * d
                      ELSE Countable(i) => Abs(job.values[i] * d - n) <= Spread(i)

(* The error that is reported is reached by some weight and exceeded by none    *)
(* (measure_error).                                                             *)
ErrorReportedExactly ==
    (pc = "done" /\ job.kind = "quantize" /\ out # Error /\ job.values # << >>)
    => LET e == out.max_abs_error
           Off(i) == Abs(job.values[i] * out.values[i][2] - out.values[i][1])
       IN  /\ \A i \in 1..Len(job.values) : Off(i) * e[2] <= e[1] * out.values[i][2]
           /\ \E i \in 1..Len(job.values) : Off(i) * e[2] = e[1] * out.values[i][2]

Ranks == 1..Len(out)
OwnedOnce(total, field) ==
    \A i \in 0 .. total - 1 : Cardinality({r \in Ranks : Owns(out[r][field], i)}) = 1

(* The ranks of a group share out every query head, KV head and feed-forward    *)
(* column exactly once, and every rank keeps the same share of the KV cache     *)
(* (ParallelLayout::compute, local_kv_bytes_per_token).                         *)
ShardsPartition ==
    (pc = "laid_out")
    => /\ OwnedOnce(job.meta.num_attention_heads, "query_heads")
       /\ OwnedOnce(job.meta.num_kv_heads, "kv_heads")
       /\ OwnedOnce(job.meta.ffn_dim, "ffn")
       /\ \A r \in Ranks : Len(out) * local_kv_elems(out[r], job.meta)
                           = 2 * job.meta.num_kv_heads * job.meta.head_dim

(* A rank never needs another rank's KV heads: the KV head that a query head    *)
(* reads in paged attention lives on the query head's own rank.                 *)
HeadsStayTogether ==
    (pc = "laid_out")
    => \A r \in Ranks, h \in 0 .. job.meta.num_attention_heads - 1 :
          Owns(out[r].query_heads, h)
          => Owns(out[r].kv_heads, h \div (job.meta.num_attention_heads \div job.meta.num_kv_heads))

(* A kernel passes exactly when every element is the reference's bit pattern or *)
(* within tolerance of it, and the worst element named is one with the largest  *)
(* finite error (Tolerance::matches, validate).                                 *)
ReportExact ==
    (pc = "done" /\ job.kind = "kernel" /\ out # Error)
    => LET n == Len(job.expected)
           Finite == {i \in 1..n : job.expected[i] \notin Special /\ job.actual[i] \notin Special}
           Off(i) == Distance(job.expected[i], job.actual[i])
           Close(i) == IF i \in Finite
                       THEN Off(i) <= Max({TolAbs, (TolRel[1] * Size(job.expected[i])) \div TolRel[2]})
                       ELSE job.expected[i] = job.actual[i]
       IN  /\ (out.mismatches = 0) <=> \A i \in 1..n : Close(i)
           /\ IF \A i \in Finite : Off(i) = 0 THEN out.worst_index = 0
              ELSE /\ out.worst_index \in Finite
                   /\ \A i \in Finite : Off(i) <= Off(out.worst_index)
                   /\ out.max_abs = Off(out.worst_index)

(* A sample comes from the nucleus, which keeps its mass; a greedy one is the   *)
(* first of the best; and penalties push repeated tokens down (sampling.rs).    *)
SampleExact == /\ TokenInNucleus /\ NucleusKeepsMass
               /\ GreedyIsDeterministic /\ PenaltyDiscourages

(* A quantized tensor is rebuilt to within a step, and the error that is        *)
(* reported is the error that was made (quantization.rs).                       *)
QuantizationExact == RebuiltWithinOneStep /\ ErrorReportedExactly

(* The ranks share out the model and attend without each other's KV heads       *)
(* (orion-distributed, ParallelLayout::compute).                                *)
LayoutExact == ShardsPartition /\ HeadsStayTogether
=============================================================================
