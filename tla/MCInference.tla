---------------------------- MODULE MCInference ----------------------------
(***************************************************************************)
(* Engine steps on a small model: two layers, two KV heads of two          *)
(* dimensions under four query heads, and prompts that share a block or    *)
(* two and end in a partial one.                                           *)
(***************************************************************************)
EXTENDS Inference

MCHashBlock(parent, chunk) == parent \o chunk
MCNoHash == << >>
MCPrompts == {<<1, 2>>, <<1, 2, 1, 1>>, <<2, 1, 1>>}
MCHash == {Prefix(p, i) : p \in MCPrompts, i \in 1..2}
Symmetry == Permutations(SequenceIds)
=============================================================================
