------------------------------ MODULE MCQuota ------------------------------
(* Instances of Quota for TLC.                                             *)
EXTENDS Quota

CONSTANTS r1, r2

(* Two runs contending for one period's ceiling: it fits one worst case,   *)
(* and a second once the first has ended.                                  *)
Contended == [bounds |-> TRUE, limit |-> 4, slots |-> 2, bare |-> FALSE,
              failing |-> {"settle", "release"}, ceiling |-> 1,
              call |-> 2, runs |-> {r1, r2}, periods |-> 1, resumes |-> 0,
              mishaps |-> 1]

(* One run through several passes, over a period's end.                    *)
Resumed == [Contended EXCEPT !.runs = {r1}, !.periods = 2, !.ceiling = 1, !.call = 1,
                             !.failing = {"register"}, !.resumes = 1]

(* A resume overtaken at any point, before it has read the records too,    *)
(* by a pass of two operations.                                            *)
Overtaken == [Resumed EXCEPT !.periods = 1, !.ceiling = 2, !.failing = {}]

(* Two things go wrong and nobody but the sweep resumes.                   *)
Battered == [Overtaken EXCEPT !.resumes = 0, !.mishaps = 2, !.failing = {"settle"}]

(* One period and one thing going wrong, with a cost that was lost.        *)
Overrun == [Resumed EXCEPT !.periods = 1, !.ceiling = 1, !.call = 2,
                           !.failing = {"lost"}]

(* Admissions that die before their first record, and their sweep.         *)
Unborn == [Contended EXCEPT !.runs = {r1}, !.ceiling = 0, !.failing = {"release"},
                            !.mishaps = 3]

(* A tenant bounded in concurrency only, with an instance that has no      *)
(* quota store resuming what the others admitted.                          *)
Slots == [Contended EXCEPT !.bounds = FALSE, !.slots = 1, !.bare = TRUE,
                           !.ceiling = 0, !.resumes = 1, !.mishaps = 0]
BareSettles == [Slots EXCEPT !.runs = {r1}, !.mishaps = 1, !.failing = {"settle"}]

(* The same instance asked to resume a run that accrued spend.             *)
BareRefused == [BareSettles EXCEPT !.bounds = TRUE, !.ceiling = 1, !.call = 1, !.slots = 2]

MCSettings ==
    {Contended, Resumed, Overtaken, Battered, Overrun, Unborn, Slots, BareSettles, BareRefused}
MCOvertaken == {Overtaken}
=============================================================================
