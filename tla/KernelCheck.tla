----------------------------- MODULE KernelCheck -----------------------------
(* The comparison of a kernel's output with the CPU reference (orion-cuda).  A  *)
(* number is an integer or a member of Special, one member for each bit         *)
(* pattern that is not finite; the tolerance is an absolute bound and a         *)
(* relative one, a pair <<n, d>>.                                               *)
EXTENDS Integers, Sequences, SequencesExt

CONSTANTS Special, TolAbs, TolRel

ASSUME ToleranceAssumption == TolAbs \in Nat /\ TolRel \in Nat \X (Nat \ {0})

Distance(e, a) == IF e > a THEN e - a ELSE a - e
Size(e) == IF e < 0 THEN -e ELSE e

matches_RelativeToActual(e, a) ==
    IF e \in Special \/ a \in Special THEN e = a
    ELSE \/ Distance(e, a) <= TolAbs
         \/ Distance(e, a) * TolRel[2] <= TolRel[1] * Size(a)

matches(e, a) ==
    IF e \in Special \/ a \in Special THEN e = a
    ELSE \/ Distance(e, a) <= TolAbs
         \/ Distance(e, a) * TolRel[2] <= TolRel[1] * Size(e)

Report(mismatches, max_abs, worst_index) ==
    [status |-> "ok", mismatches |-> mismatches, max_abs |-> max_abs, worst_index |-> worst_index]

(* One element of the comparison: worst_index 0 is None.                        *)
Compared(report, expected, actual, i) ==
    LET e == expected[i]
        a == actual[i]
        finite == e \notin Special /\ a \notin Special
        worse == finite /\ Distance(e, a) > report.max_abs
    IN  Report(report.mismatches + (IF matches(e, a) THEN 0 ELSE 1),
               IF worse THEN Distance(e, a) ELSE report.max_abs,
               IF worse THEN i ELSE report.worst_index)

validate_kernel(expected, actual) ==
    IF Len(expected) # Len(actual) THEN [status |-> "error"]
    ELSE FoldLeft(LAMBDA r, i : Compared(r, expected, actual, i), Report(0, 0, 0),
                  [i \in 1..Len(expected) |-> i])
=============================================================================
