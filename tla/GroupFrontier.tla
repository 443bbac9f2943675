---------------------------- MODULE GroupFrontier ----------------------------
(***************************************************************************)
(* Effect groups (src/src/runtime/group.rs): several effects that take     *)
(* together or not at all.  One step opens a group, performs its eager     *)
(* members with the reversal of each, may pause in a durable wait or for   *)
(* want of budget, and crosses the frontier: the atomic members commit in  *)
(* the journal's own transaction, then the deferred ones are released.     *)
(* The executor settles a group the step left open, a resume rebuilds it   *)
(* from the journal, and a stop runs the step once more to abandon it.     *)
(*                                                                         *)
(* Every effect is tried once; how attempts are retried and probed is      *)
(* EffectDispatch, and how a run is claimed, stopped and unwound over its  *)
(* other steps is RunLifecycle.  Drivers and operators are honest.  Group  *)
(* reads change nothing and are left out, as are footprints: a member      *)
(* outside them is refused before it runs, like any refused member.        *)
(***************************************************************************)
EXTENDS Naturals, Sequences, FiniteSets, SequencesExt

CONSTANTS
    Settings,   \* the settings a behaviour may have, see IsSetting
    None

VARIABLES
    setting,    \* the step and its environment, chosen once
    journal,    \* the step's records
    did,        \* how often each call took effect outside
    standing,   \* members that took effect and were not taken back
    run,        \* how the run stands when no pass is executing
    cancel,     \* a stop was requested
    pass,       \* the executing pass, or None
    spare       \* crashes, faults, refusals and decisions left

vars == <<setting, journal, did, standing, run, cancel, pass, spare>>

Outcomes == {"Committed", "Aborted", "Quarantined"}
Wait == "wait"
Running == "running"
Closed == {"succeeded", "cancelled", "abandoned"}
Rests == {"fresh", "crashed", "paused", "failed", "quarantined"} \cup Closed

\* A step and its environment: eager members and waits in order, the members
\* that commit with the journal, the deferred members; whether the step
\* commits or forgets to, and whether its invariants hold; whether repeating a
\* reversal is declared safe; whether the step declares a compensation; how
\* often the process may die, the store fail, the budget refuse and an operator
\* answer; and whether the run may be stopped.
IsSetting(x) ==
    /\ \A f \in {x.eager, x.atomic, x.deferred} : IsInjective(f)
    /\ x.commits \in BOOLEAN /\ x.holds \in BOOLEAN /\ x.undoRepeats \in BOOLEAN
    /\ x.compensates \in BOOLEAN /\ x.stops \in BOOLEAN
    /\ {x.crashes, x.faults, x.refusals, x.decisions} \subseteq Nat

ASSUME GroupAssumption == \A x \in Settings : IsSetting(x)

Eager == ToSet(setting.eager) \ {Wait}
Gated == ToSet(setting.deferred) \cup ToSet(setting.atomic)
Members == Eager \cup Gated

Do(m) == <<"do", m>>
Undo(m) == <<"undo", m>>
Calls == {Do(m) : m \in Members} \cup {Undo(m) : m \in Eager}

\* A position of the step: the effect's ordinal and the call made there.
Keys == (Nat \ {0}) \X (Calls \cup {Do(Wait)})

-----------------------------------------------------------------------------
(* Records, and what is read back from them *)

Rec(kind, key, says) == [kind |-> kind, key |-> key, says |-> says]

Write(r) == journal' = Append(journal, r)

Count(kind) == Cardinality({i \in DOMAIN journal : journal[i].kind = kind})

\* The replay cursor's slots, one record: a position is announced or refused,
\* and its newest terminal record is what it replays as.
Slotted(slots, r) ==
    CASE r.kind = "EffectStarted" -> Append(slots, [key |-> r.key, state |-> "Orphan"])
      [] r.kind = "BudgetRefused" -> Append(slots, [key |-> r.key, state |-> "Refused"])
      [] r.kind = "BudgetReadmitted" -> SelectSeq(slots, LAMBDA s : s.key # r.key)
      [] r.kind \in {"EffectDone", "EffectFailed", "EffectReconciled"} ->
            [i \in DOMAIN slots |-> IF slots[i].key = r.key
                                    THEN [slots[i] EXCEPT !.state = r.says] ELSE slots[i]]
      [] OTHER -> slots

Slots == FoldLeft(Slotted, <<>>, journal)

\* The mutating calls the journal cannot decide the outcome of.
UndecidedEffects ==
    {slot.key : slot \in {s \in ToSet(Slots) : /\ s.key[2] # Do(Wait)
                                                /\ s.state \in {"Orphan", "InDoubt"}}}

\* Defect: a failed call is taken for one that changed nothing.
EvidenceOfSuccess(e, r) ==
    CASE r.kind = "EffectStarted" /\ r.key[2] # Do(Wait) ->
            [e EXCEPT !.known = @ \cup {r.key}, !.touched = @ \cup {r.key}]
      [] r.kind = "EffectFailed" -> [e EXCEPT !.touched = @ \ {r.key}]
      [] OTHER -> e

\* unwind_evidence, one record: the mutating calls known, those that may have
\* changed something, and those of the open group, which an abort discounts.
Evidence(e, r) ==
    CASE r.kind = "EffectStarted" /\ r.key[2] # Do(Wait) ->
            [e EXCEPT !.known = @ \cup {r.key}, !.touched = @ \cup {r.key},
                      !.group = IF e.open THEN @ \cup {r.key} ELSE @]
      [] r.kind = "GroupOpened" -> [e EXCEPT !.open = TRUE, !.group = {}]
      [] r.kind = "GroupSettled" ->
            LET gone == IF r.says = "Aborted" THEN e.group ELSE {}
            IN  [open |-> FALSE, group |-> {}, known |-> e.known \ gone, touched |-> e.touched \ gone]
      [] r.kind \in {"EffectFailed", "EffectReconciled"} /\ r.key \in e.known ->
            [e EXCEPT !.touched = IF r.says = "DidNotHappen" THEN @ \ {r.key} ELSE @ \cup {r.key}]
      [] OTHER -> e

\* The journal shows the step as having changed the world.
Mutated ==
    FoldLeft(Evidence, [open |-> FALSE, group |-> {}, known |-> {}, touched |-> {}], journal).touched # {}

-----------------------------------------------------------------------------
(* The pass *)

\* A fresh pass of the step.  `excuseOpen` and `excuseSettled` are the group
\* records the journal already holds, each excusing one more; `abandoning` is
\* the pass a stop makes to take an open group back.
Fresh(abandoning, pc) ==
    [slots |-> Slots, pos |-> 0, ord |-> 0, pc |-> pc, at |-> "eager", i |-> 1,
     excuseOpen |-> Count("GroupOpened"), excuseSettled |-> Count("GroupSettled"),
     abandoning |-> abandoning, reversals |-> <<>>, outputs |-> 0, keyed |-> <<>>,
     call |-> None, settle |-> None, result |-> None]

At(pc) == pass # None /\ pass.pc = pc

\* The item the pass dispatches, and its key.
Target ==
    CASE pass.at = "eager" -> Do(setting.eager[pass.i])
      [] pass.at = "deferred" -> Do(setting.deferred[pass.i])
      [] OTHER -> Undo(Last(pass.reversals))
Here == <<pass.ord, Target>>

\* The next dispatch takes the next ordinal.
Dispatching(p) == [p EXCEPT !.pc = "consult", !.ord = @ + 1]

\* What a dispatch returns: "ok"; "refused" before it left the process; a
\* failure that did not happen ("failed"), "landed" or is "undecidable"; an
\* answer the store did not take ("unrecorded"); a "pause"; or "diverged", a
\* history that parted from the code.

\* Defect: a doubtful failure is taken for one that did not happen.
MayHaveExternalisedLandedOnly(r) == r \in {"landed", "unrecorded"}

\* The failure leaves open that the call reached the outside world.
MayHaveExternalised(r) == r \in {"landed", "undecidable", "unrecorded"}

\* How the run ends when the step returns this error.
Classify(r) ==
    CASE r = "ok" -> "succeeded"
      [] r = "pause" -> "paused"
      [] r \in {"undecidable", "diverged"} -> "quarantined"
      [] OTHER -> "failed"

Ends(p, result) == [p EXCEPT !.pc = "end", !.result = result]
Settles(p, outcome, result) == [p EXCEPT !.pc = "settle", !.settle = outcome, !.result = result]

\* Defect: members are taken back oldest first.
AbortOldestFirst(p, result) ==
    IF p.reversals = <<>> THEN Settles(p, "Aborted", result)
    ELSE Dispatching([p EXCEPT !.at = "reverse", !.result = result, !.reversals = Reverse(@)])

\* Reverse every landed member, newest first; the step then ends as `result`.
AbortOpenGroup(p, result) ==
    IF p.reversals = <<>> THEN Settles(p, "Aborted", result)
    ELSE Dispatching([p EXCEPT !.at = "reverse", !.result = result])

\* The step ended and left its group open.
SettleAbandonedGroup(p, r) ==
    CASE r = "pause" /\ ~p.abandoning -> Ends(p, "paused")
      [] MayHaveExternalised(r) -> Settles(p, "Quarantined", Classify(r))
      [] OTHER -> AbortOpenGroup(p, IF r = "ok" THEN "failed" ELSE Classify(r))

\* The next deferred member, or the group's commitment.
Release(p) ==
    IF p.i <= Len(setting.deferred) THEN Dispatching([p EXCEPT !.at = "deferred"])
    ELSE Settles(p, "Committed", "succeeded")

\* A deferred member did not answer.
DeferredFails(p, r) ==
    CASE r = "pause" -> SettleAbandonedGroup(p, r)
      [] /\ r # "pause" /\ p.outputs = 0
         /\ setting.atomic = <<>> /\ ~MayHaveExternalised(r) -> AbortOpenGroup(p, "failed")
      [] OTHER -> Settles(p, "Quarantined", "quarantined")

\* The step past its i-th eager item, its reversal captured.
EagerDone(p) ==
    LET item == setting.eager[p.i]
    IN  [p EXCEPT !.i = @ + 1, !.pc = "item",
                  !.reversals = IF item = Wait THEN @ ELSE Append(@, item)]

\* One reversal came back: the next newest, or the settlement.
ReverseEach(p) ==
    LET left == Front(p.reversals)
    IN  IF left = <<>> THEN Settles([p EXCEPT !.reversals = left], "Aborted", p.result)
        ELSE Dispatching([p EXCEPT !.reversals = left])

\* What the group does with a dispatch's return.
Return(p, r) ==
    CASE p.at = "eager" -> IF r = "ok" THEN EagerDone(p) ELSE SettleAbandonedGroup(p, r)
      [] p.at = "deferred" /\ r = "ok" ->
            Release([p EXCEPT !.i = @ + 1, !.outputs = @ + 1])
      [] p.at = "deferred" /\ r # "ok" -> DeferredFails(p, r)
      [] OTHER -> IF r = "ok" THEN ReverseEach(p) ELSE Settles(p, "Quarantined", "quarantined")

-----------------------------------------------------------------------------
(* One dispatch *)

Exhausted == pass.pos >= Len(pass.slots)
Past == [pass EXCEPT !.pos = @ + 1]
Reads(states) ==
    /\ At("consult") /\ ~Exhausted
    /\ pass.slots[pass.pos + 1].key = Here
    /\ pass.slots[pass.pos + 1].state \in states

Undoing == pass.at = "reverse"
Waiting == Target = Do(Wait)

Only(changed) == UNCHANGED <<setting, run, cancel>> /\ UNCHANGED changed

\* What a recorded answer replays as.
Recorded(d) ==
    CASE d = "Done" -> "ok" [] d = "Landed" -> "landed"
      [] d = "InDoubt" -> "undecidable" [] OTHER -> "failed"

ReplayAnswer ==
    /\ Reads({"Done", "Landed", "InDoubt", "DidNotHappen"})
    /\ pass' = Return(Past, Recorded(pass.slots[pass.pos + 1].state))
    /\ Only(<<journal, did, standing, spare>>)

ReplayDiverges ==
    /\ At("consult") /\ ~Exhausted /\ pass.slots[pass.pos + 1].key # Here
    /\ pass' = Return(pass, "diverged")
    /\ Only(<<journal, did, standing, spare>>)

\* An announcement with no outcome: a wait is waited on again, a reversal
\* declared safe to repeat is repeated, any other call is left to a person.
ReplayOrphan ==
    /\ Reads({"Orphan"})
    /\ pass' = CASE Waiting -> Return(Past, "pause")
                 [] Undoing /\ setting.undoRepeats -> [Past EXCEPT !.pc = "act"]
                 [] OTHER -> Return(Past, "undecidable")
    /\ Only(<<journal, did, standing, spare>>)

\* A refusal past the end of history is asked again of the ledger in force,
\* unless the pass is there to take work back; elsewhere it stands.
ReplayRefusal ==
    /\ Reads({"Refused"})
    /\ \/ /\ pass' = Return(Past, "pause")
          /\ UNCHANGED journal
       \/ /\ Len(pass.slots) = pass.pos + 1 /\ ~pass.abandoning
          /\ Write(Rec("BudgetReadmitted", Here, None))
          /\ pass' = [Past EXCEPT !.pc = "announce"]
    /\ Only(<<did, standing, spare>>)

\* History is used up: the call is made live, unless the run is being stopped.
StartWork ==
    /\ At("consult") /\ Exhausted /\ ~Waiting
    /\ pass' = IF pass.abandoning /\ ~Undoing THEN Return(pass, "refused")
               ELSE [pass EXCEPT !.pc = "gate"]
    /\ Only(<<journal, did, standing, spare>>)

\* A wait is announced and the step pauses.
StartWait ==
    /\ At("consult") /\ Exhausted /\ Waiting
    /\ Write(Rec("EffectStarted", Here, None))
    /\ pass' = Return(pass, "pause")
    /\ Only(<<did, standing, spare>>)

\* The budget refuses a forward call; an undo is exempt.
Refuse ==
    /\ At("gate") /\ ~Undoing /\ spare.refusals > 0
    /\ Write(Rec("BudgetRefused", Here, None))
    /\ pass' = Return(pass, "pause")
    /\ spare' = [spare EXCEPT !.refusals = @ - 1]
    /\ Only(<<did, standing>>)

Announce ==
    /\ At("gate") \/ At("announce")
    /\ Write(Rec("EffectStarted", Here, None))
    /\ pass' = [pass EXCEPT !.pc = "act"]
    /\ Only(<<did, standing, spare>>)

\* The store does not take the announcement: nothing was called.
FailToAnnounce ==
    /\ At("gate") \/ At("announce")
    /\ spare.faults > 0
    /\ pass' = Return(pass, "refused")
    /\ spare' = [spare EXCEPT !.faults = @ - 1]
    /\ Only(<<journal, did, standing>>)

\* Answers a driver may give about a call that did or did not land.
Answers(landed) == IF landed THEN {"Done", "Landed", "InDoubt"} ELSE {"InDoubt", "DidNotHappen"}

\* The members standing once a call took effect.
After(call) == IF call[1] = "do" THEN standing \cup {call[2]} ELSE standing \ {call[2]}

Perform ==
    /\ At("act")
    /\ \E landed \in BOOLEAN : \E d \in Answers(landed) :
        /\ did' = IF landed THEN [did EXCEPT ![Target] = @ + 1] ELSE did
        /\ standing' = IF landed THEN After(Target) ELSE standing
        /\ pass' = [pass EXCEPT !.call = d, !.pc = "record"]
    /\ Only(<<journal, spare>>)

RecordOutcome ==
    /\ At("record")
    /\ Write(Rec(IF pass.call = "Done" THEN "EffectDone" ELSE "EffectFailed", Here, pass.call))
    /\ pass' = Return([pass EXCEPT !.call = None], Recorded(pass.call))
    /\ Only(<<did, standing, spare>>)

\* The store does not take the terminal record.
FailToRecord ==
    /\ At("record") /\ spare.faults > 0
    /\ pass' = Return([pass EXCEPT !.call = None],
                      IF pass.call = "DidNotHappen" THEN "failed" ELSE "unrecorded")
    /\ spare' = [spare EXCEPT !.faults = @ - 1]
    /\ Only(<<journal, did, standing>>)

-----------------------------------------------------------------------------
(* The group *)

OpenGroup ==
    /\ At("open")
    /\ IF pass.excuseOpen > 0 THEN UNCHANGED journal ELSE Write(Rec("GroupOpened", None, None))
    /\ pass' = [pass EXCEPT !.pc = "item"]
    /\ Only(<<did, standing, spare>>)

NextItem ==
    /\ At("item") /\ pass.i <= Len(setting.eager)
    /\ pass' = Dispatching(pass)
    /\ Only(<<journal, did, standing, spare>>)

\* The step's end: it forgot the group, an invariant fails, or the frontier is
\* crossed, the database part first.
Commit ==
    /\ At("item") /\ pass.i > Len(setting.eager)
    /\ pass' = CASE ~setting.commits -> SettleAbandonedGroup(pass, "ok")
                 [] setting.commits /\ ~setting.holds -> AbortOpenGroup(pass, "failed")
                 [] setting.commits /\ setting.holds /\ setting.atomic = <<>> ->
                        Release([pass EXCEPT !.i = 1])
                 [] OTHER -> [pass EXCEPT !.pc = "atomic", !.i = 1]
    /\ Only(<<journal, did, standing, spare>>)

AtomicKey(j) == <<pass.ord + j, Do(setting.atomic[j])>>
Peeks(j) == ~Exhausted /\ pass.slots[pass.pos + 1].key = AtomicKey(j)

\* Every atomic member's ordinal was taken before the first was looked up.
Prepared(p) == [p EXCEPT !.ord = @ + Len(setting.atomic)]
AtomicRefused(p) == AbortOpenGroup(Prepared(p), "failed")

\* Commit what was gated: nothing, if every member was read back.
Gate(p) ==
    IF p.i <= Len(setting.atomic) THEN p
    ELSE IF p.keyed = <<>> THEN Release([Prepared(p) EXCEPT !.i = 1])
    ELSE [p EXCEPT !.pc = "transact"]

\* A member read back from history, one passed over for a later member's
\* refusal, or a history that parted from the code.
AtomicReplay ==
    /\ At("atomic") /\ ~Exhausted
    /\ LET slot == pass.slots[pass.pos + 1]
       IN  pass' = CASE Peeks(pass.i) /\ slot.state = "Done" -> Gate([Past EXCEPT !.i = @ + 1])
                     [] ~Peeks(pass.i) /\ \E j \in pass.i + 1 .. Len(setting.atomic) : Peeks(j) ->
                            [pass EXCEPT !.i = @ + 1, !.keyed = Append(@, pass.i)]
                     [] OTHER -> AtomicRefused(pass)
    /\ ~(Peeks(pass.i) /\ pass.slots[pass.pos + 1].state = "Refused")
    /\ Only(<<journal, did, standing, spare>>)

\* A recorded refusal stands, or is re-admitted at the end of history and its
\* member gated with those passed over for it.
AtomicReplayRefusal ==
    /\ At("atomic") /\ Peeks(pass.i) /\ pass.slots[pass.pos + 1].state = "Refused"
    /\ \/ /\ pass' = AtomicRefused(Past)
          /\ UNCHANGED journal
       \/ /\ Len(pass.slots) = pass.pos + 1 /\ ~pass.abandoning
          /\ Write(Rec("BudgetReadmitted", AtomicKey(pass.i), None))
          /\ pass' = Gate([Past EXCEPT !.i = @ + 1, !.keyed = Append(@, pass.i)])
    /\ Only(<<did, standing, spare>>)

\* The re-admission leaves no room for the members that go before it.
AtomicRefusedAgain ==
    /\ At("atomic") /\ Peeks(pass.i) /\ pass.slots[pass.pos + 1].state = "Refused"
    /\ Len(pass.slots) = pass.pos + 1 /\ ~pass.abandoning /\ spare.refusals > 0
    /\ \E j \in ToSet(Append(pass.keyed, pass.i)) :
        journal' = journal \o <<Rec("BudgetReadmitted", AtomicKey(pass.i), None),
                               Rec("BudgetRefused", AtomicKey(j), None)>>
    /\ pass' = AtomicRefused(Past)
    /\ spare' = [spare EXCEPT !.refusals = @ - 1]
    /\ Only(<<did, standing>>)

\* A member not in history passes the gate, or the budget refuses it.
AtomicGate ==
    /\ At("atomic") /\ Exhausted
    /\ pass' = Gate([pass EXCEPT !.i = @ + 1, !.keyed = Append(@, pass.i)])
    /\ Only(<<journal, did, standing, spare>>)

AtomicRefuse ==
    /\ At("atomic") /\ Exhausted /\ spare.refusals > 0
    /\ Write(Rec("BudgetRefused", AtomicKey(pass.i), None))
    /\ pass' = AtomicRefused(pass)
    /\ spare' = [spare EXCEPT !.refusals = @ - 1]
    /\ Only(<<did, standing>>)

\* The members' writes and their records, in one transaction.
Committed ==
    LET members == {setting.atomic[j] : j \in ToSet(pass.keyed)}
        pair(j) == <<Rec("EffectStarted", AtomicKey(j), None), Rec("EffectDone", AtomicKey(j), "Done")>>
    IN  /\ journal' = journal \o FoldLeft(LAMBDA s, j : s \o pair(j), <<>>, pass.keyed)
        /\ did' = [c \in DOMAIN did |-> IF c[1] = "do" /\ c[2] \in members THEN did[c] + 1 ELSE did[c]]
        /\ standing' = standing \cup members

AppendAtomic ==
    /\ At("transact")
    /\ Committed
    /\ pass' = Release([Prepared(pass) EXCEPT !.i = 1])
    /\ Only(<<spare>>)

\* The server refuses the transaction: nothing in it happened.
AppendAtomicRefused ==
    /\ At("transact") /\ spare.faults > 0
    /\ pass' = AtomicRefused(pass)
    /\ spare' = [spare EXCEPT !.faults = @ - 1]
    /\ Only(<<journal, did, standing>>)

\* The acknowledgement is lost, and with it the knowledge of what happened.
CommitUnknown ==
    /\ At("transact") /\ spare.faults > 0
    /\ Committed \/ UNCHANGED <<journal, did, standing>>
    /\ pass' = Settles(pass, "Quarantined", "quarantined")
    /\ spare' = [spare EXCEPT !.faults = @ - 1]
    /\ Only(<<>>)

\* Write the group's ending, unless a recorded settlement excuses it.
SettleOpenGroup ==
    /\ At("settle")
    /\ IF pass.excuseSettled > 0 THEN UNCHANGED journal
       ELSE Write(Rec("GroupSettled", None, pass.settle))
    /\ pass' = [pass EXCEPT !.pc = "end"]
    /\ Only(<<did, standing, spare>>)

\* The store does not take the settlement.
FailToSettle ==
    /\ At("settle") /\ pass.excuseSettled = 0 /\ spare.faults > 0
    /\ pass' = Ends(pass, "failed")
    /\ spare' = [spare EXCEPT !.faults = @ - 1]
    /\ Only(<<journal, did, standing>>)

-----------------------------------------------------------------------------
(* The run around the step *)

Unsettled == Count("GroupOpened") > Count("GroupSettled")

\* The run is executed, resumed, woken or recovered.  A stop is observed before
\* the step is dispatched: a group left open is abandoned first.
Resume ==
    /\ pass = None /\ run \notin Closed \cup {"quarantined"}
    /\ pass' = CASE ~cancel -> Fresh(FALSE, "open")
                 [] cancel /\ Unsettled -> Fresh(TRUE, "open")
                 [] OTHER -> Fresh(FALSE, "unwind")
    /\ run' = Running
    /\ UNCHANGED <<setting, journal, did, standing, cancel, spare>>

\* The step has ended.  An abandoned one is unwound whatever it returned, and so
\* is one that succeeded while a stop was recorded.
EndStep ==
    /\ At("end")
    /\ IF pass.abandoning \/ (pass.result = "succeeded" /\ cancel)
       THEN pass' = [pass EXCEPT !.pc = "unwind"] /\ UNCHANGED run
       ELSE pass' = None /\ run' = pass.result
    /\ UNCHANGED <<setting, journal, did, standing, cancel, spare>>

\* The stop's unwind of this step: behind a doubt it quarantines, and a step the
\* journal shows as untouched is left alone.
Unwind ==
    /\ At("unwind")
    /\ pass' = None
    /\ run' = IF UndecidedEffects # {} \/ (Mutated /\ ~setting.compensates)
              THEN "quarantined" ELSE "cancelled"
    /\ IF UndecidedEffects = {} /\ Mutated /\ setting.compensates
       THEN standing' = {} /\ Write(Rec("StepCompensated", None, None))
       ELSE UNCHANGED <<standing, journal>>
    /\ UNCHANGED <<setting, did, cancel, spare>>

\* The process dies; dying while it reads the journal is dying before it.
Crash ==
    /\ pass # None /\ pass.pc \notin {"open", "item", "consult", "atomic"} /\ spare.crashes > 0
    /\ pass' = None /\ run' = "crashed"
    /\ spare' = [spare EXCEPT !.crashes = @ - 1]
    /\ UNCHANGED <<setting, journal, did, standing, cancel>>

\* The event the step waits on is delivered and recorded.
Deliver ==
    /\ pass = None /\ run \notin Closed
    /\ \E slot \in ToSet(Slots) :
        /\ slot.key[2] = Do(Wait) /\ slot.state = "Orphan"
        /\ Write(Rec("EffectDone", slot.key, "Done"))
    /\ UNCHANGED <<setting, did, standing, run, cancel, pass, spare>>

\* A stop is recorded, beside a pass or between two.
RequestCancel ==
    /\ setting.stops /\ ~cancel /\ run \notin Closed \cup {"quarantined"}
    /\ cancel' = TRUE
    /\ UNCHANGED <<setting, journal, did, standing, run, pass, spare>>

\* A person supplies the outcome of a call the journal cannot decide.
ReconcileEffect(k) ==
    /\ pass = None /\ run \notin Closed /\ k \in UndecidedEffects
    /\ Write(Rec("EffectReconciled", k, IF did[k[2]] > 0 THEN "Done" ELSE "DidNotHappen"))
    /\ UNCHANGED <<setting, did, standing, run, cancel, pass, spare>>

\* A person reopens a quarantined run for one pass, or writes it off.
DecideQuarantine ==
    /\ run = "quarantined" /\ spare.decisions > 0
    /\ run' \in {"paused", "abandoned"}
    /\ spare' = [spare EXCEPT !.decisions = @ - 1]
    /\ UNCHANGED <<setting, journal, did, standing, cancel, pass>>

-----------------------------------------------------------------------------

Init ==
    /\ setting \in Settings
    /\ journal = <<>> /\ did = [c \in Calls |-> 0] /\ standing = {}
    /\ run = "fresh" /\ cancel = FALSE /\ pass = None
    /\ spare = [crashes |-> setting.crashes, faults |-> setting.faults,
                refusals |-> setting.refusals, decisions |-> setting.decisions]

Dispatch ==
    \/ ReplayAnswer \/ ReplayDiverges \/ ReplayOrphan \/ ReplayRefusal
    \/ StartWork \/ StartWait \/ Refuse \/ Announce \/ FailToAnnounce
    \/ Perform \/ RecordOutcome \/ FailToRecord

Group ==
    \/ OpenGroup \/ NextItem \/ Commit
    \/ AtomicReplay \/ AtomicReplayRefusal \/ AtomicRefusedAgain \/ AtomicGate \/ AtomicRefuse
    \/ AppendAtomic \/ AppendAtomicRefused \/ CommitUnknown
    \/ SettleOpenGroup \/ FailToSettle

PassStep == Dispatch \/ Group \/ EndStep \/ Unwind

Operator ==
    \/ RequestCancel \/ DecideQuarantine
    \/ \E k \in UndecidedEffects : ReconcileEffect(k)

Next == PassStep \/ Resume \/ Crash \/ Deliver \/ Operator

Spec == Init /\ [][Next]_vars

-----------------------------------------------------------------------------
(* Properties *)

\* Every value has the shape the code gives it.
TypeOK ==
    /\ \A i \in DOMAIN journal : journal[i].key \in Keys \cup {None}
    /\ did \in [Calls -> Nat] /\ standing \subseteq Members
    /\ run \in Rests \cup {Running} /\ (run = Running <=> pass # None)
    /\ cancel \in BOOLEAN
    /\ pass # None =>
        /\ pass.pos \in 0 .. Len(pass.slots)
        /\ ToSet(pass.reversals) \subseteq Eager
        /\ pass.settle \in Outcomes \cup {None}
        /\ pass.result \in Rests \cup {None}

\* The step that records the group's ending as `outcome`.
Records(outcome) ==
    Len(journal') > Len(journal) /\ Last(journal') = Rec("GroupSettled", None, outcome)

\* A stop abandoned the group over a pause that came after part of it was
\* released: the pause hides what the commit had already let out.
PausedPastFrontier ==
    /\ cancel /\ Gated \cap standing # {}
    /\ \E s \in ToSet(Slots) : s.state = "Refused" /\ s.key[2] \in {Do(m) : m \in Gated}

\* `Aborted` says the group was taken back whole: no member stands when it is
\* written, eager, deferred or atomic.
AbortLeavesNothing ==
    [][Records("Aborted") /\ ~PausedPastFrontier => standing = {}]_vars

\* The published table of settlements, with no exception made for a stop.
AbortedMeansNothing == [][Records("Aborted") => standing = {}]_vars

\* `Committed` is written only when the invariants held, every member took
\* effect and none was taken back, however many passes it took to get there.
CommitIsWhole ==
    [][Records("Committed") => setting.commits /\ setting.holds /\ standing = Members]_vars

\* The group goes one way: no member is taken back while a released one stands,
\* and none is released once a member was taken back.
OneWay ==
    [][/\ (\E m \in Eager : did'[Undo(m)] > did[Undo(m)]) /\ ~PausedPastFrontier
            => Gated \cap standing = {}
       /\ (\E m \in Gated : did'[Do(m)] > did[Do(m)])
            => \A m \in Eager : did[Undo(m)] = 0]_vars

\* A member is taken back only after everything that came to rest on it.
NewestFirst ==
    [][\A i, j \in DOMAIN setting.eager :
            /\ i < j /\ setting.eager[i] # Wait
            /\ did'[Undo(setting.eager[i])] > did[Undo(setting.eager[i])]
            => setting.eager[j] \notin standing]_vars

\* Nothing is taken back around a call whose outcome nobody knows.  (A driver's
\* word that nothing happened is acted on also when the store did not take it.)
DoubtStopsTheUndo ==
    [][/\ spare.faults = setting.faults
       /\ Len(journal') > Len(journal) /\ Last(journal').kind = "EffectStarted"
       /\ Last(journal').key[2][1] = "undo"
       => \A k \in UndecidedEffects : k = Last(journal').key]_vars

\* A group's members take effect once and are taken back once, and its opening
\* and its ending are each recorded once, whatever the passes repeated.
TakesOnce ==
    /\ \A m \in Members : did[Do(m)] <= 1
    /\ ~setting.undoRepeats => \A m \in Eager : did[Undo(m)] <= 1
    /\ Count("GroupOpened") <= 1 /\ Count("GroupSettled") <= 1

\* A run reported stopped left nothing standing, and one reported successful
\* left everything.
EndIsTheTruth ==
    /\ run = "cancelled" /\ ~PausedPastFrontier => standing = {}
    /\ run = "succeeded" => standing = Members

\* A closed run holds no group whose ending was never recorded: nothing could
\* settle it any more.
ClosedIsSettled == run \in Closed /\ spare.faults = setting.faults => ~Unsettled

\* What the journal and the run's ending say of the group is what became of it.
EndingIsTrue == TypeOK /\ TakesOnce /\ EndIsTheTruth /\ ClosedIsSettled

\* The group takes effect whole, or not at all, and never turns back.
AllOrNothing == AbortLeavesNothing /\ CommitIsWhole /\ OneWay

\* How members are taken back.
UndoIsOrderly == NewestFirst /\ DoubtStopsTheUndo

=============================================================================
