------------------------------- MODULE MCInbox -------------------------------
EXTENDS Inbox, TLC
CONSTANTS e1, e2, e3, r1, r2, w1, w2, h1, h2

MCMatches == {w1, w2} \X {e1, e2, e3}

ToAll == [e \in Event |-> None]
OneEach == (r1 :> <<{w1}>>) @@ (r2 :> <<{w2}>>)
InTurn == (r1 :> <<{w1}, {w2}>>) @@ (r2 :> <<>>)
AtOnce == (r1 :> <<{w1, w2}>>) @@ (r2 :> <<>>)

\* Two runs wait for one key; the first may be stopped.
Contended == [plan |-> OneEach, to |-> ToAll, sent |-> {e1, e2}, handlers |-> {h1}, stoppable |-> {r1},
              erasable |-> {}, deaths |-> 0]
\* The same with one message, and a process may die.
Fragile == [Contended EXCEPT !.sent = {e1}, !.deaths = 1]
\* The message is addressed to the run that may be stopped.
Addressed == [Fragile EXCEPT !.to[e1] = r1]
\* One run waits twice on one key, and a process may die.
Twice == [plan |-> InTurn, to |-> ToAll, sent |-> {e1, e2}, handlers |-> {h1}, stoppable |-> {},
          erasable |-> {}, deaths |-> 1]
\* The same run with both waits open at once, and a message may be erased.
Parallel == [Twice EXCEPT !.plan = AtOnce, !.erasable = {e1}, !.deaths = 0]

MCScenarios == {Fragile, Addressed, Twice, Parallel}
StopScenarios == {Contended}
EraseScenarios == {[Parallel EXCEPT !.sent = {e1, e2, e3}]}
=============================================================================
