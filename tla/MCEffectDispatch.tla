-------------------------- MODULE MCEffectDispatch --------------------------
(* Small steps and environments for EffectDispatch. *)
EXTENDS EffectDispatch

Effect(recovery, mutates, bound) == [recovery |-> recovery, mutates |-> mutates, bound |-> bound]
Read == Effect("Retry", FALSE, FALSE)

\* A mutation only an operator may resolve, then a read.
Operator ==
    [program |-> <<Effect("RequiresOperator", TRUE, FALSE), Read>>, attempts |-> 2,
     ceilings |-> {9}, denials |-> FALSE, faults |-> FALSE, passes |-> 3, records |-> 8]

\* A mutation declared safe to repeat, on a store that may fail.
Retry == [Operator EXCEPT !.program = <<Effect("Retry", TRUE, FALSE)>>, !.faults = TRUE]

\* The same behind every gate, so that a retry may be refused, withheld or
\* denied, then a read.
GatedRetry ==
    [Operator EXCEPT !.program = <<Effect("Retry", TRUE, TRUE), Read>>, !.ceilings = {1, 9},
                     !.denials = TRUE, !.passes = 2, !.records = 7]

\* A mutation that can be asked about and acts for a subject, behind every gate.
Gate ==
    [program |-> <<Effect("Reconcile", TRUE, TRUE)>>, attempts |-> 1, ceilings |-> {0, 1},
     denials |-> TRUE, faults |-> TRUE, passes |-> 4, records |-> 7]

\* A mutation that can be asked about.
Reconcile == [Operator EXCEPT !.program = <<Effect("Reconcile", TRUE, FALSE)>>]

AllSettings == {Operator, Retry, GatedRetry, Gate}
ReconcileSettings == {Reconcile}
=============================================================================
