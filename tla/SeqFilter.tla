----------------------------- MODULE SeqFilter -----------------------------
(***************************************************************************)
(* Removing elements from the middle of a queue, as VecDeque and Vec do in *)
(* block.rs (remove_from_free_list) and queue.rs (remove, drain_where,     *)
(* take_finished).  Filter is SelectSeq without recursion, so that the     *)
(* provers can reason about it: the k-th element kept is the one at the    *)
(* k-th smallest index whose element is in T.                              *)
(***************************************************************************)
EXTENDS Integers, Sequences, FiniteSets, Functions

\* The indices of s whose elements are in T.
Kept(s, T) == {i \in 1..Len(s) : s[i] \in T}

\* How many indices of I are at most i: 1 for the smallest member of I.
Rank(I, i) == Cardinality({j \in I : j <= i})

\* The member of I that has rank k.
Nth(I, k) == CHOOSE i \in I : Rank(I, i) = k

\* s without the elements that are not in T, the others in their order.
Filter(s, T) ==
  [k \in 1..Cardinality(Kept(s, T)) |-> s[Nth(Kept(s, T), k)]]
============================================================================
