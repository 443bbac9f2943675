------------------------------ MODULE RunLifecycle ------------------------------
(***************************************************************************)
(* The life of one run: the executor's loop over its plan, suspension and   *)
(* wake-up, an operator's stop, the unwind, the conclusion and its seal, and*)
(* the parties that drive a run (its admission, a resume, a delivery, the   *)
(* recovery sweep and the operators' verbs), with crashes between any two   *)
(* durable writes.                                                          *)
(*                                                                          *)
(* A step's code is a sequence of operations: "act" is a mutating effect    *)
(* that only a person may resolve and that is tried once, "wait" a durable  *)
(* wait.  How one effect is announced, retried and probed is EffectDispatch;*)
(* that one executor at a time writes under the lease is JournalStore.      *)
(***************************************************************************)
EXTENDS Naturals, Sequences, FiniteSets, SequencesExt, FiniteSetsExt

CONSTANTS
    Plans,       \* the plans a run may be admitted with
    Answers,     \* what a performed call may answer
    Halts,       \* whether the run's authority may be found withdrawn
    Foreign,     \* whether planes that hold no agent for the run take part
    MaxCrashes,  \* bound on executor deaths
    MaxCalls,    \* bound on the operators' resumes, decisions and lookups
    None         \* no value

VARIABLES
    plan,        \* the plan frozen at admission
    journal,     \* the run's own records at 0, each step's at the step
    last,        \* the kind of the latest record
    landed,      \* ground truth: the effects that took place
    standing,    \* ground truth: forward effects not undone since
    cancel,      \* the durable stop request, kept beside the chain
    asker,       \* the request_cancel call: "idle", about to "record" or to "drive"
    sealed,      \* the chain is closed
    lease,       \* "held" (by a pass, or owned and left to lapse) or "released"
    pass,        \* the executing pass, or None
    crashes,     \* deaths so far
    calls        \* operators' calls so far

vars == <<plan, journal, last, landed, standing, cancel, asker, sealed, lease, pass, crashes, calls>>
world == <<landed, standing>>
written == <<journal, last>>
chain == <<plan, written, sealed>>
callers == <<cancel, asker, crashes, calls>>

Steps == DOMAIN plan.deps
Phases == {"Forward", "Compensating"}
Outcomes == {"succeeded", "failed", "suspended", "quarantined"}

\* A performed call's answer: done; failed before it took effect; failed
\* having taken effect; or nobody knows.
Dispositions == {"Done", "DidNotHappen", "Landed", "InDoubt"}

ASSUME BoundsAssumption ==
    /\ MaxCrashes \in Nat /\ MaxCalls \in Nat
    /\ Answers \subseteq Dispositions
    /\ Halts \in BOOLEAN /\ Foreign \in BOOLEAN

\* A plan's steps are numbered from one on; each says what it builds on, how it
\* is undone, and its code both ways.
Declarations == {"Compensatable", "Undeclared", "Unnecessary", "Pivot"}
Operations == {"act", "wait"}

ASSUME PlansAssumption ==
    \A p \in Plans :
        /\ DOMAIN p.deps \subseteq Nat \ {0} /\ IsFiniteSet(DOMAIN p.deps)
        /\ p.deps \in [DOMAIN p.deps -> SUBSET DOMAIN p.deps]
        /\ p.compensation \in [DOMAIN p.deps -> Declarations]
        /\ p.forward \in [DOMAIN p.deps -> Seq(Operations)]
        /\ p.undo \in [DOMAIN p.deps -> Seq(Operations)]

-----------------------------------------------------------------------------
(* Records, and what is read back from them *)

Rec(kind, step, phase, at, says) ==
    [kind |-> kind, step |-> step, phase |-> phase, at |-> at, says |-> says]
RunRec(kind, says) == Rec(kind, 0, "Forward", 0, says)
StepRec(kind, s, says) == Rec(kind, s, "Forward", 0, says)

\* One chain, kept as one sequence per step and one for the run: nobody reads
\* the order of two steps' records.  That a step was compensated is weighed
\* against the run's conclusions and kept with them.
Home(r) == IF r.kind = "StepCompensated" THEN 0 ELSE r.step
Write(r) ==
    /\ journal' = [journal EXCEPT ![Home(r)] = Append(@, r)]
    /\ last' = r.kind

\* The latest of some places in a sequence of records, 0 when there is none, and
\* what the record there says.
Latest(places) == Max({0} \cup places)
Says(s, at) == IF at = 0 THEN None ELSE journal[s][at].says
LastKind(kind) == Latest({i \in DOMAIN journal[0] : journal[0][i].kind = kind})
Recorded(kind) == LastKind(kind) > 0

\* recorded_conclusion: the latest one, wherever it stands in the chain.
Conclusion == Says(0, LastKind("RunConcluded"))

\* quarantine_decision: an answer given since the last conclusion.
Decision ==
    IF LastKind("QuarantineDecided") > LastKind("RunConcluded")
    THEN journal[0][LastKind("QuarantineDecided")].says ELSE None

Seals(outcome) == outcome \in {"succeeded", "cancelled", "abandoned"}

\* resume_is_closed.
ResumeIsClosed ==
    \/ Seals(Conclusion)
    \/ Conclusion = "quarantined" /\ Decision = None

\* standing_withholding.
Withheld == LastKind("AuthorityWithheld") > LastKind("AuthorityRestored")

Has(s, kind) == \E i \in DOMAIN journal[s] : journal[s][i].kind = kind
Started(s) == Has(s, "StepStarted")
Finished(s) == Has(s, "StepFinished")
Compensated(s) == \E r \in ToSet(journal[0]) : r.kind = "StepCompensated" /\ r.step = s
Ending(s) == Says(s, Latest({i \in DOMAIN journal[s] : journal[s][i].kind = "StepFinished"}))
Succeeded == {s \in Steps : Ending(s) = "succeeded"}

Code(s, phase) == IF phase = "Forward" THEN plan.forward[s] ELSE plan.undo[s]
Keys == UNION {{<<s, phase, i>> : i \in DOMAIN Code(s, phase)} : s \in Steps, phase \in Phases}
IsAct(k) == Code(k[1], k[2])[k[3]] = "act"

\* What the record says of one effect: nothing, announced, or an answer.
Slot(s, phase, i) ==
    Says(s, Latest({n \in DOMAIN journal[s] : journal[s][n].phase = phase /\ journal[s][n].at = i}))
SlotOf(k) == Slot(k[1], k[2], k[3])

\* undecided_effects: mutations of either phase announced and never answered,
\* or answered in doubt.
Undecided == {k \in Keys : IsAct(k) /\ SlotOf(k) \in {"Announced", "InDoubt"}}

\* unwind_evidence: the steps whose forward mutations may have touched the world.
Mutated ==
    {s \in Steps : \E i \in DOMAIN plan.forward[s] :
        IsAct(<<s, "Forward", i>>) /\ Slot(s, "Forward", i) \notin {None, "DidNotHappen"}}

-----------------------------------------------------------------------------
(* The pass *)

At(pc) == pass # None /\ pass.pc = pc
To(pc) == [pass EXCEPT !.pc = pc]
StopAs(status) == [pass EXCEPT !.pc = "conclude", !.status = status]

Fresh(claim) ==
    [claim |-> claim, pc |-> "judge", done |-> {}, completed |-> <<>>, deferred |-> {},
     at |-> [s \in Steps |-> "idle"], wrote |-> {}, status |-> None, list |-> <<>>]

\* acquire succeeds: nobody executes the run, and a dead owner's lease lapses.
Claims(claim) ==
    /\ pass = None
    /\ pass' = Fresh(claim)
    /\ lease' = "held"

\* The frame executing step s, and where its code stands: the first operation
\* the record does not show done.
Phase == IF At("walk") THEN "Compensating" ELSE "Forward"
Runs(s) ==
    \/ At("running") /\ pass.at[s] # "idle"
    \/ /\ At("walk") /\ pass.list # <<>> /\ s = Head(pass.list)
       /\ plan.compensation[s] = "Compensatable"
Position(s) ==
    1 + Cardinality({i \in DOMAIN Code(s, Phase) : Slot(s, Phase, i) = "Done"})
Operation(s) ==
    IF Position(s) > Len(Code(s, Phase)) THEN None ELSE Code(s, Phase)[Position(s)]
SlotNow(s) == Slot(s, Phase, Position(s))
Stage(s) == IF Runs(s) THEN pass.at[s] ELSE "idle"
Stages(s, stage) == pass' = [pass EXCEPT !.at[s] = stage, !.wrote = @ \cup {s}]

\* How the step's code ends here: it ran out, it waits, it failed, or nobody
\* can say.
Outcome(s) ==
    CASE Operation(s) = None -> "succeeded"
      [] Operation(s) = "wait" /\ SlotNow(s) = "Announced" -> "suspended"
      [] Operation(s) = "act" /\ SlotNow(s) \in {"DidNotHappen", "Landed"} -> "failed"
      [] Operation(s) = "act" /\ SlotNow(s) \in {"Announced", "InDoubt"} -> "quarantined"
      [] OTHER -> None

-----------------------------------------------------------------------------
(* Admission and the parties that drive a run *)

\* A run just admitted, executing under its first lease.
Init ==
    /\ plan \in Plans
    /\ journal = [s \in {0} \cup Steps |-> IF s = 0 THEN <<RunRec("RunAdmitted", None)>> ELSE <<>>]
    /\ last = "RunAdmitted"
    /\ landed = {} /\ standing = {}
    /\ cancel = FALSE /\ asker = "idle" /\ sealed = FALSE
    /\ lease = "held"
    /\ pass = [Fresh("Standing") EXCEPT !.pc = "boundary"]
    /\ crashes = 0 /\ calls = 0

\* An operator's or an API caller's resume.
Resume ==
    /\ calls < MaxCalls /\ calls' = calls + 1
    /\ Claims("Standing")
    /\ UNCHANGED <<chain, world, cancel, asker, crashes>>

\* The sweep takes over a lease that lapsed while it named an owner.
RecoverAbandoned ==
    /\ lease = "held"
    /\ Claims("Recovering")
    /\ UNCHANGED <<chain, world, callers>>

\* The awaited event arrives: recorded as the wait's result, unless the run is
\* closed, and the run resumed under the same lease.
Deliver(s, phase, i) ==
    /\ ~sealed /\ Code(s, phase)[i] = "wait" /\ Slot(s, phase, i) = "Announced"
    /\ Claims("Unlisted")
    /\ IF ResumeIsClosed THEN UNCHANGED written
       ELSE Write(Rec("EffectDone", s, phase, i, "Done"))
    /\ UNCHANGED <<plan, sealed, world, callers>>

\* request_cancel reads the run first: refused for a quarantined or closed one.
AskToStop ==
    /\ asker = "idle" /\ ~cancel /\ Conclusion # "quarantined" /\ ~ResumeIsClosed
    /\ asker' = "record"
    /\ UNCHANGED <<chain, world, lease, pass, cancel, crashes, calls>>

\* ... then records the request, beside the chain and whatever the run did since.
RequestCancel ==
    /\ asker = "record"
    /\ cancel' = TRUE
    /\ asker' = "drive"
    /\ UNCHANGED <<chain, world, lease, pass, crashes, calls>>

\* request_cancel, the other half: drive the stop if the run is idle.
DriveStop ==
    /\ asker = "drive" /\ asker' = "idle"
    /\ Claims("Standing")
    /\ UNCHANGED <<chain, world, cancel, crashes, calls>>

\* ... or leave it to whoever holds the lease.
StopHeld ==
    /\ asker = "drive" /\ lease = "held"
    /\ asker' = "idle"
    /\ UNCHANGED <<chain, world, lease, pass, cancel, crashes, calls>>

\* decide_quarantine: the decision is recorded, then the run resumed;
\* record_quarantine_decision leaves that to somebody else.
DecideQuarantine(decision) ==
    /\ calls < MaxCalls /\ calls' = calls + 1
    /\ pass = None /\ Conclusion = "quarantined"
    /\ Write(RunRec("QuarantineDecided", decision))
    /\ \/ Claims("Standing")
       \/ lease' = "released" /\ UNCHANGED pass
    /\ UNCHANGED <<plan, sealed, world, cancel, asker, crashes>>

\* reconcile_effect: a person looks an undecided effect up and records what
\* they found.  The lease is given back whatever it was.
ReconcileEffect(k) ==
    /\ calls < MaxCalls /\ calls' = calls + 1
    /\ pass = None /\ ~sealed /\ k \in Undecided
    /\ Write(Rec("EffectReconciled", k[1], k[2], k[3],
                 IF k \in landed THEN "Done" ELSE "DidNotHappen"))
    /\ lease' = "released"
    /\ UNCHANGED <<plan, sealed, world, pass, cancel, asker, crashes>>

\* decide_quarantine, refused because the run is not quarantined: the lease it
\* claimed is given back.
DecisionRefused ==
    /\ calls < MaxCalls /\ calls' = calls + 1
    /\ pass = None /\ Conclusion # "quarantined"
    /\ lease' = "released"
    /\ UNCHANGED <<chain, world, pass, cancel, asker, crashes>>

\* The process executing the run dies; its lease stays and will lapse.
Crash ==
    /\ pass # None /\ crashes < MaxCrashes
    /\ crashes' = crashes + 1
    /\ pass' = None
    /\ UNCHANGED <<chain, world, lease, cancel, asker, calls>>

\* The process asking for the stop dies.
AskerDies ==
    /\ asker # "idle" /\ crashes < MaxCrashes
    /\ crashes' = crashes + 1
    /\ asker' = "idle"
    /\ UNCHANGED <<chain, world, lease, pass, cancel, calls>>

-----------------------------------------------------------------------------
(* Judging a resume, before anything runs *)

\* A conclusion its owner died after, found by the sweep, or a closed run:
\* repair the seal and hand the run back.
ClosesOut ==
    \/ ResumeIsClosed
    \/ pass.claim = "Recovering" /\ last = "RunConcluded"
CloseOut ==
    /\ At("judge") /\ ClosesOut
    /\ pass' = To(IF Seals(Conclusion) THEN "seal" ELSE "release")
    /\ UNCHANGED <<chain, world, lease, callers>>

\* An abandonment decided and not yet carried out.
AbandonIfDecided ==
    /\ At("judge") /\ ~ClosesOut /\ Decision = "Abandon"
    /\ pass' = StopAs("abandoned")
    /\ UNCHANGED <<chain, world, lease, callers>>

OverUndoneWork == Conclusion # None /\ Recorded("StepCompensated")

\* Defect: a refused resume always gives its lease back.
RefusedReleases ==
    /\ pass' = None
    /\ lease' = "released"
    /\ UNCHANGED <<chain, world, callers>>
\* The resume ends in an error before it dispatched anything: the lease goes
\* back only where the claim says the run is listed without it.
Refused ==
    /\ pass' = None
    /\ lease' = IF pass.claim = "Standing" THEN "released" ELSE lease
    /\ UNCHANGED <<chain, world, callers>>

\* refuse_resume_over_undone_work.
RefuseUndoneWork ==
    /\ At("judge") /\ ~ClosesOut /\ Decision # "Abandon" /\ OverUndoneWork
    /\ Refused

\* refuse_undrivable: this plane holds no agent for the run.
RefuseUndrivable ==
    /\ Foreign
    /\ At("judge") /\ ~ClosesOut /\ Decision # "Abandon" /\ ~OverUndoneWork
    /\ Refused

Begin ==
    /\ At("judge") /\ ~ClosesOut /\ Decision # "Abandon" /\ ~OverUndoneWork
    /\ pass' = To("boundary")
    /\ UNCHANGED <<chain, world, lease, callers>>

-----------------------------------------------------------------------------
(* The step boundary *)

\* PlanIR::ready.
Ready == {s \in Steps \ pass.done : plan.deps[s] \subseteq pass.done}

\* The ready set, or the part of it held back while recorded steps replayed;
\* recorded successes replay first, on their own.
Held == IF Ready \cap pass.deferred # {} THEN Ready \cap pass.deferred ELSE Ready
Mixed == Held \cap Succeeded # {} /\ ~(Held \subseteq Succeeded)
Batch == IF Mixed THEN Held \cap Succeeded ELSE Held
AtFrontier == Batch = {} \/ ~(Batch \subseteq Succeeded)

\* The stop check: a request is acted on at the frontier.
Stopping == AtFrontier /\ cancel

\* The stop goes on the record before anything is undone.
ObserveStop ==
    /\ At("boundary") /\ Stopping
    /\ Write(RunRec("RunCancelled", None))
    /\ pass' = [pass EXCEPT !.pc = "stop", !.status = "cancelled"]
    /\ UNCHANGED <<plan, sealed, world, lease, callers>>

\* The withdrawal check: a pause, recorded once.
Withhold ==
    /\ Halts
    /\ At("boundary") /\ AtFrontier /\ ~Stopping
    /\ IF Withheld THEN UNCHANGED written ELSE Write(RunRec("AuthorityWithheld", None))
    /\ pass' = [pass EXCEPT !.pc = "stop", !.status = "withheld"]
    /\ UNCHANGED <<plan, sealed, world, lease, callers>>

\* The authority stands: a withholding on the record is superseded there, and
\* the batch is dispatched, or the plan has run out.
Proceed ==
    /\ At("boundary") /\ ~Stopping
    /\ IF AtFrontier /\ Withheld THEN Write(RunRec("AuthorityRestored", None))
       ELSE UNCHANGED written
    /\ pass' = IF Batch = {} THEN StopAs("succeeded")
               ELSE [pass EXCEPT !.pc = "running",
                                 !.deferred = IF Mixed THEN Held \ Succeeded ELSE {},
                                 !.at = [s \in Steps |-> IF s \in Batch THEN "ready" ELSE "idle"],
                                 !.wrote = {}]
    /\ UNCHANGED <<plan, sealed, world, lease, callers>>

-----------------------------------------------------------------------------
(* Running a batch of steps, or one compensation *)

\* StepStarted, once.
StartStep(s) ==
    /\ Stage(s) = "ready"
    /\ IF Started(s) THEN UNCHANGED written /\ pass' = [pass EXCEPT !.at[s] = "go"]
       ELSE Write(StepRec("StepStarted", s, None)) /\ Stages(s, "go")
    /\ UNCHANGED <<plan, sealed, world, lease, callers>>

\* The next operation is announced: a call is then made, a wait looks for its event.
Announce(s) ==
    /\ Stage(s) = "go" /\ Operation(s) # None /\ SlotNow(s) = None
    /\ Write(Rec("EffectStarted", s, Phase, Position(s), "Announced"))
    /\ Stages(s, IF Operation(s) = "act" THEN "called" ELSE "go")
    /\ UNCHANGED <<plan, sealed, world, lease, callers>>

\* The call: it takes effect or not, and answers.  A compensation that takes
\* effect undoes what its step has standing.
Takes(s) ==
    /\ landed' = landed \cup {<<s, Phase, Position(s)>>}
    /\ standing' = IF Phase = "Forward" THEN standing \cup {<<s, Position(s)>>}
                   ELSE {k \in standing : k[1] # s}
Perform(s, answer) ==
    /\ Stage(s) = "called"
    /\ \/ answer \in {"Done", "Landed", "InDoubt"} /\ Takes(s)
       \/ answer \in {"DidNotHappen", "InDoubt"} /\ UNCHANGED world
    /\ Stages(s, answer)
    /\ UNCHANGED <<chain, lease, callers>>

RecordAnswer(s) ==
    /\ Stage(s) \in Dispositions
    /\ Write(Rec(IF pass.at[s] = "Done" THEN "EffectDone" ELSE "EffectFailed",
                 s, Phase, Position(s), pass.at[s]))
    /\ Stages(s, "go")
    /\ UNCHANGED <<plan, sealed, world, lease, callers>>

\* The awaited event was already in the buffer.
TakeBuffered(s) ==
    /\ Stage(s) = "go" /\ Operation(s) = "wait" /\ SlotNow(s) = "Announced"
    /\ Write(Rec("EffectDone", s, Phase, Position(s), "Done"))
    /\ Stages(s, "go")
    /\ UNCHANGED <<plan, sealed, world, lease, callers>>

\* The step's code returned.  Its ending is recorded unless the journal
\* already holds it and the step did nothing new.
FinishStep(s) ==
    /\ At("running") /\ Stage(s) = "go" /\ Outcome(s) # None
    /\ IF s \notin pass.wrote /\ Finished(s) THEN UNCHANGED written
       ELSE Write(IF Outcome(s) = "suspended" THEN StepRec("RunSuspended", s, None)
                  ELSE StepRec("StepFinished", s, Outcome(s)))
    /\ pass' = [pass EXCEPT !.at[s] = Outcome(s)]
    /\ UNCHANGED <<plan, sealed, world, lease, callers>>

InBatch == {s \in Steps : pass.at[s] # "idle"}
EndedAs(outcome) == {s \in InBatch : pass.at[s] = outcome}

\* Steps in the plan's order: each after those numbered below it.
InPlanOrder(S) ==
    [i \in 1 .. Cardinality(S) |-> CHOOSE s \in S : Cardinality({t \in S : t < s}) = i - 1]

\* apply: every success counts, in plan order, and the gravest stop decides.
Worst ==
    IF EndedAs("quarantined") # {} THEN "quarantined"
    ELSE IF EndedAs("failed") # {} THEN "failed"
    ELSE IF EndedAs("suspended") # {} THEN "suspended" ELSE None
Apply ==
    /\ At("running") /\ \A s \in InBatch : pass.at[s] \in Outcomes
    /\ pass' = [pass EXCEPT !.done = @ \cup EndedAs("succeeded"),
                            !.completed = @ \o InPlanOrder(EndedAs("succeeded")),
                            !.at = [s \in Steps |-> "idle"],
                            !.status = Worst,
                            !.pc = IF Worst = None THEN "boundary" ELSE "stop"]
    /\ UNCHANGED <<chain, world, lease, callers>>

-----------------------------------------------------------------------------
(* The unwind *)

Completed == ToSet(pass.completed)

\* Defect: a step that did not finish is nobody's to undo.
InterruptedForgotten == {}
\* with_interrupted_steps: steps that mutated without completing.
Interrupted == {s \in Mutated \ Completed : Started(s)}

\* will_compensate, asked of the completed steps and of the interrupted
\* siblings that did not fail themselves.
WillCompensate ==
    \E s \in Completed \cup {t \in Interrupted : Ending(t) \in {None, "succeeded"}} :
        \/ plan.compensation[s] = "Compensatable"
        \/ plan.compensation[s] = "Undeclared" /\ s \in Mutated

\* The conclusion this unwind leads to closes the run to resume.
Gated == pass.status = "cancelled" \/ WillCompensate

\* Defect: the gate stands before failures and not before stops.
DoubtfulFailures == pass.status = "failed" /\ Gated /\ Undecided # {}
\* An outcome nobody knows forbids such an unwind.
Doubtful == Gated /\ Undecided # {}

\* Defect: the steps are undone in the order they were taken.
UnwindListForward ==
    pass.completed \o (IF Gated THEN InPlanOrder(Interrupted) ELSE <<>>)
\* What the walk undoes: the steps it interrupted, then the completed ones,
\* latest first.
UnwindList ==
    Reverse(pass.completed \o (IF Gated THEN InPlanOrder(Interrupted) ELSE <<>>))

\* maybe_unwind up to its walk.  Only a failure and a stop unwind.
GatedUnwindList ==
    /\ At("stop")
    /\ pass' =
        IF pass.status \notin {"failed", "cancelled"} THEN To("conclude")
        ELSE IF Doubtful THEN StopAs("quarantined")
        ELSE [pass EXCEPT !.pc = "walk", !.at = [s \in Steps |-> "go"], !.list = UnwindList]
    /\ UNCHANGED <<chain, world, lease, callers>>

Walks(s) == At("walk") /\ pass.list # <<>> /\ s = Head(pass.list)

\* Nothing left to walk, or a point of no return.
WalkEnds ==
    /\ At("walk")
    /\ pass.list # <<>> => plan.compensation[Head(pass.list)] = "Pivot"
    /\ pass' = To("conclude")
    /\ UNCHANGED <<chain, world, lease, callers>>

SkipStep(s) ==
    /\ Walks(s)
    /\ \/ plan.compensation[s] = "Unnecessary"
       \/ plan.compensation[s] = "Undeclared" /\ s \notin Mutated
    /\ pass' = [pass EXCEPT !.list = Tail(@)]
    /\ UNCHANGED <<chain, world, lease, callers>>

\* It changed something and nobody said how to undo it.
EscalateStep(s) ==
    /\ Walks(s) /\ plan.compensation[s] = "Undeclared" /\ s \in Mutated
    /\ pass' = StopAs("quarantined")
    /\ UNCHANGED <<chain, world, lease, callers>>

\* The compensation waits: so does the run.
SuspendUndo(s) ==
    /\ Walks(s) /\ Stage(s) = "go" /\ Outcome(s) = "suspended"
    /\ pass' = StopAs("suspended")
    /\ UNCHANGED <<chain, world, lease, callers>>

\* The compensation ended, on the record once; one that failed stops the walk.
FinishUndo(s) ==
    /\ Walks(s) /\ Stage(s) = "go" /\ Outcome(s) \in {"succeeded", "failed", "quarantined"}
    /\ IF Compensated(s) THEN UNCHANGED written
       ELSE Write(Rec("StepCompensated", s, "Compensating", 0, Outcome(s)))
    /\ pass' = IF Outcome(s) = "succeeded" THEN [pass EXCEPT !.list = Tail(@)]
               ELSE StopAs("quarantined")
    /\ UNCHANGED <<plan, sealed, world, lease, callers>>

-----------------------------------------------------------------------------
(* The conclusion *)

\* A suspension is no conclusion, and an open one is not repeated.
Conclude ==
    /\ At("conclude")
    /\ IF \/ pass.status = "suspended"
          \/ /\ ~Seals(pass.status) /\ last = "RunConcluded"
             /\ Conclusion = pass.status
       THEN UNCHANGED written
       ELSE Write(RunRec("RunConcluded", pass.status))
    /\ pass' = To(IF Seals(pass.status) THEN "seal" ELSE "release")
    /\ UNCHANGED <<plan, sealed, world, lease, callers>>

Seal ==
    /\ At("seal")
    /\ sealed' = TRUE
    /\ pass' = To("release")
    /\ UNCHANGED <<plan, written, world, lease, callers>>

ReleaseLease ==
    /\ At("release")
    /\ lease' = "released"
    /\ pass' = None
    /\ UNCHANGED <<chain, world, callers>>

-----------------------------------------------------------------------------

\* What an executing pass does by itself.
PassStep ==
    \/ CloseOut \/ AbandonIfDecided \/ RefuseUndoneWork \/ RefuseUndrivable \/ Begin
    \/ ObserveStop \/ Withhold \/ Proceed \/ Apply
    \/ \E s \in Steps : \/ StartStep(s) \/ Announce(s) \/ RecordAnswer(s)
                        \/ TakeBuffered(s) \/ FinishStep(s)
                        \/ \E answer \in Answers : Perform(s, answer)
                        \/ SkipStep(s) \/ EscalateStep(s) \/ SuspendUndo(s) \/ FinishUndo(s)
    \/ GatedUnwindList \/ WalkEnds \/ Conclude \/ Seal \/ ReleaseLease

Next ==
    \/ PassStep
    \/ Resume \/ RecoverAbandoned \/ AskToStop \/ RequestCancel \/ DriveStop \/ StopHeld
    \/ \E s \in Steps, phase \in Phases : \E i \in DOMAIN Code(s, phase) : Deliver(s, phase, i)
    \/ \E decision \in {"Reopen", "Abandon"} : DecideQuarantine(decision)
    \/ \E k \in Keys : ReconcileEffect(k)
    \/ DecisionRefused
    \/ Crash \/ AskerDies

Spec == Init /\ [][Next]_vars

\* The executor is polled, the sweep ticks and the asker's call returns.
FairSpec ==
    /\ Spec
    /\ WF_vars(PassStep)
    /\ WF_vars(RecoverAbandoned)
    /\ WF_vars(RequestCancel \/ DriveStop \/ StopHeld)

-----------------------------------------------------------------------------
(* Properties *)

Frames == {"idle", "ready", "go", "called"} \cup Dispositions \cup Outcomes
Points == {"judge", "boundary", "running", "stop", "walk", "conclude", "seal", "release"}

\* The shape of the run's state; a pass has completed each done step once, and
\* a sealed chain holds the conclusion that sealed it.
TypeOK ==
    /\ plan \in Plans
    /\ landed \subseteq Keys
    /\ standing \subseteq {<<k[1], k[3]>> : k \in Keys}
    /\ cancel \in BOOLEAN /\ sealed \in BOOLEAN
    /\ asker \in {"idle", "record", "drive"} /\ lease \in {"held", "released"}
    /\ pass # None =>
        /\ pass.pc \in Points /\ pass.claim \in {"Standing", "Unlisted", "Recovering"}
        /\ pass.at \in [Steps -> Frames]
        /\ IsInjective(pass.completed) /\ ToSet(pass.completed) = pass.done
    /\ sealed => Seals(Conclusion)

\* What a step of the system writes.
Appends(s, Test(_)) == Len(journal[s]') > Len(journal[s]) /\ Test(Last(journal[s]'))
Undoes(s) == Appends(s, LAMBDA r : r.kind = "EffectStarted" /\ r.phase = "Compensating")

\* A step is undone only after the steps that built on it: when a compensation
\* is announced, nothing that depends on its step still stands, unless that
\* was declared not to need undoing.
UndoneInReverse ==
    [][\A s \in Steps : Undoes(s) =>
        \A k \in standing :
            s \in plan.deps[k[1]] => plan.compensation[k[1]] = "Unnecessary"]_vars

\* Work of s may stay when a point of no return was reached that s did not
\* build on.
BehindPivot(s) ==
    \E p \in (Succeeded \cup Mutated) \ plan.deps[s] : plan.compensation[p] = "Pivot"
PutBack ==
    \A k \in standing :
        plan.compensation[k[1]] \in {"Compensatable", "Undeclared"} => BehindPivot(k[1])

\* A stop puts the world back: once a run is concluded cancelled, whatever the
\* crashes and waits on the way, nothing it could take back still stands.
StoppedMeansPutBack == Conclusion = "cancelled" => PutBack

\* A failure is whole or untouched: a run concluded failed that took anything
\* back took everything back, the steps the failure interrupted included.
MidUnwind == LastKind("StepCompensated") > LastKind("RunConcluded")
FailureWholeOrUntouched ==
    Conclusion = "failed" /\ Recorded("StepCompensated") /\ ~MidUnwind => PutBack

\* Nothing is undone around a call nobody can account for: no compensation is
\* announced while the record leaves a forward effect's outcome open.
NeverUnwindsAroundDoubt == [][\A s \in Steps : Undoes(s) => Undecided = {}]_vars

\* A recorded stop is final for forward work: no later pass announces a forward
\* effect, however often the run is resumed, delivered to or recovered.
NothingForwardAfterStop ==
    [][\A s \in Steps :
        Appends(s, LAMBDA r : r.kind = "EffectStarted" /\ r.phase = "Forward") =>
            ~Recorded("RunCancelled")]_vars

\* A conclusion that closes the run is its last word, also when the process
\* dies before the seal: only an operator's late answer to a doubt follows it.
NothingAfterTheEnd ==
    [][\A s \in DOMAIN journal :
        Appends(s, LAMBDA r : r.kind # "EffectReconciled") => ~Seals(Conclusion)]_vars

\* Somebody can still find the run: it is sealed, listed by its conclusion, or
\* waits for an event.
Waits ==
    \E k \in Keys : ~IsAct(k) /\ SlotOf(k) = "Announced"
Findable == sealed \/ Conclusion # None \/ Waits

\* A wake, a delivery or a recovery that gives its lease back, refused or not,
\* leaves the run where somebody can find it.
HandsBackListed ==
    [][/\ pass # None /\ pass' = None /\ lease' = "released"
       /\ pass.claim # "Standing" \/ pass.pc = "release"
       => Findable']_vars

\* No run is on no listing with no driver: one whose lease was given back can
\* be found.
NeverStranded == pass = None /\ lease = "released" => Findable

\* A stop that was asked for arrives: the run records it or is closed.
StopArrives == cancel ~> (Recorded("RunCancelled") \/ ResumeIsClosed)

\* An unwind that began finishes: a step compensated is followed by a
\* conclusion.
UnwindFinishes == MidUnwind ~> ~MidUnwind

\* What a run that ended leaves behind.
EndedMeansPutBack == TypeOK /\ StoppedMeansPutBack /\ FailureWholeOrUntouched

\* What a run that is stopped or ended may still do.
EndsAreFinal == NothingForwardAfterStop /\ NothingAfterTheEnd

\* No pass acts against what the record already says: not past a recorded stop
\* or end, and not around a call it leaves open.
RecordIsHeeded == EndsAreFinal /\ NeverUnwindsAroundDoubt

-----------------------------------------------------------------------------
(* The inductive invariant *)

Statuses == Outcomes \cup {"cancelled", "withheld", "abandoned"}
Decisions == {"Reopen", "Abandon"}
Kinds ==
    {"RunAdmitted", "RunSuspended", "RunConcluded", "RunCancelled", "QuarantineDecided",
     "AuthorityWithheld", "AuthorityRestored", "StepStarted", "StepFinished", "StepCompensated",
     "EffectStarted", "EffectDone", "EffectFailed", "EffectReconciled"}
Sayings == Statuses \cup Decisions \cup Dispositions \cup {"Announced"}
Record ==
    [kind : Kinds, step : {0} \cup Steps, phase : Phases, at : Nat, says : Sayings \cup {None}]

ASSUME NoneAssumption == None \notin Statuses \cup Decisions \cup Dispositions \cup Operations \cup {"Announced"}

AllDone(s) == \A i \in DOMAIN plan.forward[s] : Slot(s, "Forward", i) = "Done"
WaitsIn(s) ==
    \E phase \in Phases : \E i \in DOMAIN Code(s, phase) :
        Code(s, phase)[i] = "wait" /\ Slot(s, phase, i) = "Announced"

\* What the records say of one another: a conclusion says how the run ended, a
\* recorded stop was asked for, and a step that succeeded ran to its end.
RecordsAreSound ==
    /\ plan \in Plans
    /\ journal \in [{0} \cup Steps -> Seq(Record)]
    /\ Conclusion \in Statuses \cup {None}
    /\ last = "RunConcluded" => Conclusion # None
    /\ Recorded("RunCancelled") => cancel
    /\ \A s \in Steps : Ending(s) = "succeeded" => AllDone(s)

\* Where a step's code stands while its batch runs: a call under way is not
\* answered on the record, a suspension has its wait there, and after a recorded
\* stop only what had succeeded is replayed.
StepsAreSound ==
    \A s \in Steps :
        /\ pass.at[s] \in {"called"} \cup Dispositions => ~AllDone(s)
        /\ pass.at[s] = "suspended" => WaitsIn(s)
        /\ Recorded("RunCancelled") /\ pass.at[s] # "idle" => s \in Succeeded

\* Where a pass stands says what it found or made sure of.
PassFields == {"claim", "pc", "done", "completed", "deferred", "at", "wrote", "status", "list"}
PassIsSound ==
    pass # None =>
        /\ DOMAIN pass = PassFields /\ pass.at \in [Steps -> Frames] /\ pass.pc \in Points
        /\ lease = "held"
        /\ Seals(Conclusion) => pass.pc \in {"judge", "seal", "release"}
        /\ pass.pc = "running" => StepsAreSound
        /\ pass.pc \in {"stop", "conclude"} => pass.status \in Statuses
        /\ pass.pc \in {"stop", "conclude"} /\ pass.status = "suspended" => Waits
        /\ pass.pc = "walk" => pass.status \in {"failed", "cancelled"}
        /\ pass.pc = "release" => Findable

LifecycleInv == RecordsAreSound /\ PassIsSound

\* A walk that has something to undo began with no effect in doubt: whatever is
\* undecided since is the call of the compensation it is at, and a call under
\* way is on the record.
NothingToUndo == \A i \in DOMAIN pass.list : plan.compensation[pass.list[i]] # "Compensatable"
DoubtIsAtHand ==
    \A k \in Undecided : Runs(k[1]) /\ k[2] = "Compensating" /\ k[3] = Position(k[1])
CallsAreAnnounced ==
    \A s \in Steps :
        pass.at[s] \in {"called"} \cup Dispositions => Runs(s) /\ SlotNow(s) = "Announced"
WalkIsSound ==
    pass # None =>
        /\ pass.completed \in Seq(ToSet(pass.completed))
        /\ pass.pc = "walk" =>
            /\ pass.list \in Seq(ToSet(pass.list))
            /\ CallsAreAnnounced
            /\ NothingToUndo \/ DoubtIsAtHand

=============================================================================
