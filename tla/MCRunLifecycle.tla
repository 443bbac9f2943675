--------------------------- MODULE MCRunLifecycle ---------------------------
(* Small plans for RunLifecycle. *)
EXTENDS RunLifecycle

Plan(deps, compensation, forward, undo) ==
    [deps |-> deps, compensation |-> compensation, forward |-> forward, undo |-> undo]

Act == <<"act">>
Wait == <<"wait">>

\* A step and one that builds on it; undoing the first waits.
Chain ==
    Plan(<<{}, {1}>>, <<"Compensatable", "Compensatable">>, <<Act, Act>>, <<Act \o Wait, Act>>)

\* Work before a point of no return, and work after it.
Pivoted ==
    Plan(<<{}, {1}, {2}>>, <<"Compensatable", "Pivot", "Compensatable">>,
         <<Act, Act, Act>>, <<Act, <<>>, Act>>)

\* Work nobody said how to undo, then work that needs no undoing.
Unplanned ==
    Plan(<<{}, {1}>>, <<"Undeclared", "Unnecessary">>, <<Act, Act>>, <<<<>>, <<>>>>)

\* A step two siblings build on.
Fan ==
    Plan(<<{}, {1}, {1}>>, <<"Compensatable", "Compensatable", "Unnecessary">>,
         <<Act, Wait, Act>>, <<Act, Act, <<>>>>)

AllPlans == {Fan, Chain, Pivoted, Unplanned}

\* One act, then a wait.
Waiting == {Plan(<<{}>>, <<"Compensatable">>, <<Act \o Wait>>, <<Act>>)}

\* Two steps, each undone by one act.
TwoActs == {Plan(<<{}, {1}>>, <<"Compensatable", "Compensatable">>, <<Act, Act>>, <<Act, Act>>)}

\* Two siblings, one of which acts again after its wait.
ActsAgain ==
    {Plan(<<{}, {}>>, <<"Compensatable", "Compensatable">>,
          <<Act \o Wait \o Act, Act>>, <<Act \o Wait, Act>>)}

\* A step that builds on one declared after it, and then waits.
Backward ==
    {Plan(<<{2}, {}>>, <<"Compensatable", "Compensatable">>, <<Act \o Wait, Act>>, <<Act, Act>>)}
=============================================================================
