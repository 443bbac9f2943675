--------------------------- MODULE MCGroupFrontier ---------------------------
(* Instances of GroupFrontier. *)
EXTENDS GroupFrontier

Plain ==
    [eager |-> <<"a", "b">>, atomic |-> <<>>, deferred |-> <<"c">>,
     commits |-> TRUE, holds |-> TRUE, undoRepeats |-> FALSE, compensates |-> TRUE,
     crashes |-> 1, faults |-> 0, refusals |-> 0, decisions |-> 1, stops |-> TRUE]

\* A wait inside the group, and a budget that refuses.
Paused == [Plain EXCEPT !.eager = <<"a", Wait, "b">>, !.refusals = 1, !.decisions = 0]

\* An invariant that fails, reversals declared safe to repeat, store faults.
Broken == [Plain EXCEPT !.holds = FALSE, !.undoRepeats = TRUE, !.faults = 1]

\* A group the step forgets.
Forgotten == [Plain EXCEPT !.eager = <<"a", Wait, "b">>, !.commits = FALSE, !.compensates = FALSE]

\* Two deferred members.
Two == [Plain EXCEPT !.eager = <<"a">>, !.deferred = <<"c", "d">>, !.faults = 1, !.refusals = 1]

\* Members that commit with the journal.
Atomic == [Plain EXCEPT !.eager = <<"a">>, !.atomic = <<"t", "u">>, !.faults = 1, !.refusals = 2]

MCSettings == {Plain, Paused, Broken, Forgotten, Two, Atomic}

\* Two deferred members, a budget that runs out between them, and a stop.
MCStopped == {[Two EXCEPT !.faults = 0, !.crashes = 0, !.decisions = 0]}
=============================================================================
