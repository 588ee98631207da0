---------------------------- MODULE MCScheduler ----------------------------
(***************************************************************************)
(* The scheduler on small instances.  A hash is the prefix it stands for.  *)
(***************************************************************************)
EXTENDS Scheduler

CONSTANT MinTokens

MCHashBlock(parent, chunk) == parent \o chunk
MCNoHash == << >>
\* One prompt is a full block and a half, the other half a block.
MCPrompts == {<<1, 1, 1>>, <<1>>}
MCHash == {Prefix(p, 1) : p \in MCPrompts}
MCParams == {[max_tokens |-> 2, min_tokens |-> MinTokens]}
MCIds == 1..MaxRequests
============================================================================
