----------------------------- MODULE MCKvCache -----------------------------
(***************************************************************************)
(* The cache manager on a small instance.  A hash is the whole prefix it   *)
(* stands for; the prompts share a first block, share two, repeat a block  *)
(* at another position and end in partial blocks.                          *)
(***************************************************************************)
EXTENDS KvCacheManager, TLC

MCHashBlock(parent, chunk) == parent \o chunk
MCNoHash == << >>
MCPrompts == {<<1, 1>>, <<1, 1, 1, 1>>, <<2, 2, 1>>}
MCHash == {Prefix(p, i) : p \in MCPrompts, i \in 1..2}
MCGenerated == 9
Symmetry == Permutations(SequenceIds)

\* Filter is SelectSeq.
ASSUME FilterIsSelectSeq ==
  \A n \in 0..4 : \A s \in [1..n -> 1..3], T \in SUBSET (1..3) :
     LET In(x) == x \in T IN Filter(s, T) = SelectSeq(s, In)
============================================================================
