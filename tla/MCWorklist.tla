----------------------------- MODULE MCWorklist -----------------------------
(* Small instances of Worklist: two people, one of them a candidate only     *)
(* after an escalation.                                                      *)
EXTENDS Worklist

Case(onExpiry, stops, n) ==
    [policy |-> onExpiry, stoppable |-> stops, faults |-> n]

\* A policy that answers for nobody, through stops and faults; and one that
\* asks more people.
MCScenarios == {Case("Deny", TRUE, 1), Case("Proceed", FALSE, 2), Case("Escalate", TRUE, 0)}
Quiet == {Case("Deny", FALSE, 0)}
Dying == {Case("Deny", FALSE, 1)}
=============================================================================
