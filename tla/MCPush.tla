------------------------------- MODULE MCPush -------------------------------
(* Instances of Push for TLC.                                              *)
EXTENDS Push

CONSTANTS w1, w2

(* An operator's destination with one sweep that meets failures: it is told *)
(* of a withheld run as of a failed one.                                   *)
Operator == [kind |-> "operator", workers |-> {w1}, mishaps |-> 3, asks |-> 1,
             stops |-> {"failed", "quarantined"}]
Caller == [kind |-> "caller", workers |-> {w1}, mishaps |-> 2, asks |-> 2,
           stops |-> {"withheld", "quarantined"}]

(* Two sweeps over one row.  A quarantined run does what a failed one does, *)
(* or is abandoned.                                                        *)
OperatorTwice == [Operator EXCEPT !.workers = {w1, w2}, !.mishaps = 2,
                                  !.stops = {"quarantined"}]
CallerTwice == [Caller EXCEPT !.workers = {w1, w2}, !.mishaps = 1, !.asks = 1]

(* A caller registers again, or the run is resumed, while the sweeps drain *)
(* its first row.                                                          *)
CallerAgain == [CallerTwice EXCEPT !.mishaps = 0, !.asks = 2,
                                   !.stops = {"failed", "withheld"}]

MCSettings == {Operator, Caller, OperatorTwice, CallerTwice, CallerAgain}

(* Nothing goes wrong at all.                                              *)
MCSmooth == {[Operator EXCEPT !.mishaps = 0]}
=============================================================================
