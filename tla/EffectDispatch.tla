--------------------------- MODULE EffectDispatch ---------------------------
(***************************************************************************)
(* The effect protocol (src/src/runtime/ctx.rs) and the replay cursor      *)
(* (src/src/journal/replay.rs): how one step's effects are announced,      *)
(* performed, recorded, retried, probed, refused, replayed after a crash   *)
(* and answered by an operator.                                            *)
(*                                                                         *)
(* The step is a fixed program of effects called in order, and an error    *)
(* ends it, so the run ends as the error says.  One executor holds the run *)
(* at a time (JournalStore is about how that is enforced); it may die      *)
(* between any two actions and be replaced by one that resumes.  A strict  *)
(* pass verifies the record and may start whenever no pass is running.     *)
(*                                                                         *)
(* The outside world is the number of times each attempt took effect.      *)
(* Drivers, probes and operators are honest: `landed` and `did not happen` *)
(* are said only when true, and anything may be left in doubt.             *)
(*                                                                         *)
(* Abstracted: an effect's arguments, output, label and waiting time; the  *)
(* manifest, sink and policy gates are one gate that may deny; spend is    *)
(* one unit for a call whose answer is not `did not happen`.               *)
(***************************************************************************)
EXTENDS Integers, Sequences, FiniteSets, SequencesExt

CONSTANTS
    Settings,      \* the settings a behaviour may have, see Setting
    None

VARIABLES
    setting,   \* the step and its environment, chosen once
    journal,   \* the run's records
    world,     \* how often each attempt took effect outside
    pass,      \* the executing pass, or None
    ceiling,   \* the budget in force
    halted,    \* the subject's authority is withdrawn
    passes     \* writing passes started

execution == <<journal, world, pass, ceiling, halted, passes>>
vars == <<setting, execution>>

Recoveries == {"Retry", "Reconcile", "RequiresOperator"}
Dispositions == {"Done", "Landed", "InDoubt", "DidNotHappen"}
Modes == {"Live", "Resume", "Strict"}
Statuses == {"succeeded", "failed", "exhausted", "quarantined", "withheld", "abandoned"}

\* A step and its environment: the effects in order (recovery, mutates, bound
\* to a subject), RetryPolicy::max_attempts, the values Budget::max_effects may
\* be raised through, whether the gate may deny and the store may fail to take
\* a terminal record, and two bounds: the passes that may write, and the
\* records after which no decision is taken.
IsSetting(x) ==
    /\ x.program \in Seq([recovery : Recoveries, mutates : BOOLEAN, bound : BOOLEAN]) \ {<<>>}
    /\ x.attempts \in Nat \ {0} /\ x.passes \in Nat \ {0} /\ x.records \in Nat
    /\ x.ceilings \subseteq Nat /\ x.ceilings # {}
    /\ x.denials \in BOOLEAN /\ x.faults \in BOOLEAN

\* What the cursor says of a position, and what a pass has in memory.
States == Dispositions \cup {"Orphan", "Refused", "Withheld", "Denied"}
Slots == [key : Nat \X Nat, state : States, perm : BOOLEAN, spend : Nat]
Calls == [says : Dispositions, perm : BOOLEAN]
Passes ==
    [mode : Modes, slots : Seq(Slots), pos : Nat, e : Nat, a : Nat,
     pc : {"consult", "gate", "act", "record", "ask", "probe", "conclude"},
     used : Nat, spent : Nat, call : Calls \cup {None},
     status : Statuses \cup {None}, diverged : BOOLEAN]

ASSUME DispatchAssumption ==
    /\ \A x \in Settings : IsSetting(x)
    /\ None \notin (Nat \X Nat) \cup Statuses \cup Dispositions \cup Passes

Program == setting.program
Effects == DOMAIN Program
MaxAttempts == setting.attempts
Attempts == 1 .. MaxAttempts
Keys == Effects \X Attempts

-----------------------------------------------------------------------------
(* Records *)

\* A record: its kind, the effect key it is about, what it says of it (a
\* disposition, a status or a decision), whether a failure is an answer, and
\* what the call spent.
Rec(kind, key, says, perm, spend) ==
    [kind |-> kind, key |-> key, says |-> says, perm |-> perm, spend |-> spend]

Plain(kind, key, says) == Rec(kind, key, says, FALSE, 0)

Write(r) == journal' = Append(journal, r)

Declared(k) == Program[k[1]]

\* What a call answering d spends.
Spend(d) == IF d = "DidNotHappen" THEN 0 ELSE 1

\* The last conclusion on the record, and the operator's answer after it.
Positions(kind) == {i \in DOMAIN journal : journal[i].kind = kind}
LastAt(kind) == CHOOSE i \in Positions(kind) : \A j \in Positions(kind) : j <= i
Conclusion ==
    IF Positions("RunConcluded") = {} THEN None ELSE journal[LastAt("RunConcluded")].says
Decision ==
    LET later == {i \in Positions("QuarantineDecided") :
                    Positions("RunConcluded") # {} => i > LastAt("RunConcluded")}
    IN  IF later = {} THEN None ELSE journal[LastAt("QuarantineDecided")].says

-----------------------------------------------------------------------------
(* The replay cursor: what the journal says of each announced or refused    *)
(* position, folded in record order.                                        *)

Slot(key, state, perm, spend) == [key |-> key, state |-> state, perm |-> perm, spend |-> spend]

\* The newest slot of a key in one of some states, 0 if there is none.
Newest(slots, key, states) ==
    Max({0} \cup {i \in DOMAIN slots : slots[i].key = key /\ slots[i].state \in states})

\* The slots without the newest of a key in one of some states.
Dropped(slots, key, states) ==
    LET at == Newest(slots, key, states)
    IN  [i \in 1 .. Len(slots) - (IF at = 0 THEN 0 ELSE 1) |->
            slots[IF at = 0 \/ i < at THEN i ELSE i + 1]]

\* The slots without the withholdings at a key: the hop was reached again.  There
\* is at most one to drop: a key has one slot (OneSlotPerKey, proved).
SupersedeWithheld(slots, key) == Dropped(slots, key, {"Withheld"})

\* A position the run stopped at before a call was made.
Open(slots, key, state) ==
    Append(SupersedeWithheld(slots, key), Slot(key, state, FALSE, 0))

\* A terminal record overwrites its attempt's slot and adds to its spend.
Settle(slots, key, state, perm, spend) ==
    [i \in DOMAIN slots |-> IF i = Newest(slots, key, States)
                            THEN Slot(key, state, perm, spend + slots[i].spend)
                            ELSE slots[i]]

\* A re-admission removes the refusal it was journaled beside.
Readmit(slots, key) == Dropped(SupersedeWithheld(slots, key), key, {"Refused"})

\* Fold one record into the cursor.
Apply(slots, r) ==
    CASE r.kind = "EffectStarted"     -> Open(slots, r.key, "Orphan")
      [] r.kind = "EffectDone"        -> Settle(slots, r.key, "Done", FALSE, r.spend)
      [] r.kind = "EffectFailed"      -> Settle(slots, r.key, r.says, r.perm, r.spend)
      [] r.kind = "EffectReconciled"  ->
            Settle(slots, r.key, IF r.says = "Landed" THEN "Done" ELSE r.says, FALSE, r.spend)
      [] r.kind = "BudgetRefused"     -> Open(slots, r.key, "Refused")
      [] r.kind = "BudgetReadmitted"  -> Readmit(slots, r.key)
      [] r.kind = "AuthorityWithheld" -> Open(slots, r.key, "Withheld")
      [] r.kind = "PolicyDenied"      -> Open(slots, r.key, "Denied")
      [] OTHER                        -> slots

\* The cursor after each prefix of the records, and after all of them.
CursorAfter(records) ==
    LET after[n \in 0 .. Len(records)] == IF n = 0 THEN <<>> ELSE Apply(after[n - 1], records[n])
    IN  after
FromRecords(records) == CursorAfter(records)[Len(records)]

-----------------------------------------------------------------------------
(* What is in doubt, and what the run is known to have changed *)

\* The effects that change the world.
Mutating == {e \in Effects : Program[e].mutates}

\* undecided_effects, one record: `open` are announcements of mutating effects not
\* terminated, `doubts` attempts that terminated with nothing established.
DoubtAfter(mutating, d, r) ==
    LET was   == r.key \in d.open
        rest  == d.open \ {r.key}
        same  == {k \in d.doubts : k[1] = r.key[1]}
    IN  CASE r.kind = "EffectStarted" /\ r.key[1] \in mutating ->
                [d EXCEPT !.open = @ \cup {r.key}]
          [] r.kind = "EffectDone" ->
                [open |-> rest, doubts |-> IF was THEN d.doubts \ same ELSE d.doubts]
          [] r.kind = "EffectFailed" ->
                [open |-> rest,
                 doubts |-> IF was /\ r.says = "InDoubt" THEN d.doubts \cup {r.key} ELSE d.doubts]
          [] r.kind = "EffectReconciled" ->
                [open |-> rest,
                 doubts |-> CASE r.says # "InDoubt" -> d.doubts \ {r.key}
                              [] r.says = "InDoubt" /\ was -> d.doubts \cup {r.key}
                              [] OTHER -> d.doubts]
          [] OTHER -> d

\* What is in doubt after each prefix of the records, and now.
Undecided(mutating, records) ==
    LET after[n \in 0 .. Len(records)] ==
            IF n = 0 THEN [open |-> {}, doubts |-> {}]
            ELSE DoubtAfter(mutating, after[n - 1], records[n])
    IN  after
Listed == Undecided(Mutating, journal)[Len(journal)]
UndecidedEffects == Listed.open \cup Listed.doubts

\* Defect: an attempt with a recorded answer is settled business.
TouchAfterSettled(mutating, t, r) ==
    CASE r.kind = "EffectStarted" /\ r.key[1] \in mutating ->
            [known |-> t.known \cup {r.key}, touched |-> t.touched \cup {r.key}]
      [] r.kind \in {"EffectDone", "EffectFailed", "EffectReconciled"} /\ r.key \in t.known ->
            [t EXCEPT !.touched = IF r.says # "InDoubt" THEN @ \ {r.key} ELSE @ \cup {r.key}]
      [] OTHER -> t

\* unwind_evidence, one record: the announced mutating attempts, and those
\* the record leaves capable of having touched the world.
TouchAfter(mutating, t, r) ==
    CASE r.kind = "EffectStarted" /\ r.key[1] \in mutating ->
            [known |-> t.known \cup {r.key}, touched |-> t.touched \cup {r.key}]
      [] r.kind \in {"EffectFailed", "EffectReconciled"} /\ r.key \in t.known ->
            [t EXCEPT !.touched = IF r.says = "DidNotHappen" THEN @ \ {r.key} ELSE @ \cup {r.key}]
      [] OTHER -> t

\* The evidence after each prefix of the records, and what is touched now.
Evidence(mutating, records) ==
    LET after[n \in 0 .. Len(records)] ==
            IF n = 0 THEN [known |-> {}, touched |-> {}]
            ELSE TouchAfter(mutating, after[n - 1], records[n])
    IN  after
Told == Evidence(Mutating, journal)[Len(journal)]
Touched == Told.touched

-----------------------------------------------------------------------------
(* Verdicts *)

Permits(a) == a < MaxAttempts

\* Whether to stop after a failed attempt and how the run ends then; None
\* permits another attempt.
StopReason(d, perm, k) ==
    CASE d = "Landed" /\ (Declared(k).mutates \/ perm) -> "failed"
      [] d = "InDoubt" /\ Declared(k).recovery # "Retry" -> "quarantined"
      [] d = "InDoubt" /\ Declared(k).mutates /\ ~Permits(k[2]) -> "quarantined"
      [] d = "DidNotHappen" /\ perm -> "failed"
      [] OTHER -> IF Permits(k[2]) THEN None ELSE "failed"

-----------------------------------------------------------------------------
(* The pass *)

Here == <<pass.e, pass.a>>
Exhausted == pass.pos >= Len(pass.slots)

\* Bookkeeping records are written live, or past the end of history.
WritesEnabled(p) == p.mode = "Live" \/ (p.mode = "Resume" /\ p.pos >= Len(p.slots))

\* The pass p carries on with the next effect, or the step has finished; a
\* strict pass that finished owes a fully read history.
Answered(p) ==
    IF p.e < Len(Program) THEN [p EXCEPT !.e = @ + 1, !.a = 1, !.pc = "consult"]
    ELSE [p EXCEPT !.pc = "conclude",
                   !.status = IF p.mode = "Strict" /\ p.pos < Len(p.slots)
                              THEN "quarantined" ELSE "succeeded",
                   !.diverged = p.mode = "Strict" /\ p.pos < Len(p.slots)]

Ends(p, status) == [p EXCEPT !.pc = "conclude", !.status = status]
Diverges(p) == [Ends(p, "quarantined") EXCEPT !.diverged = TRUE]
Retries(p) == [p EXCEPT !.a = @ + 1, !.pc = "consult"]

\* What a failed attempt of disposition d means for the pass.
FailedVerdict(p, d, perm) ==
    LET stop == StopReason(d, perm, <<p.e, p.a>>)
    IN  IF stop = None THEN Retries(p) ELSE Ends(p, stop)

Bill(p, slots, spend) == [p EXCEPT !.used = @ + slots, !.spent = @ + spend]

At(pc) == pass # None /\ pass.pc = pc

\* The cursor's next slot, consumed: the pass past it.
NextSlot == pass.slots[pass.pos + 1]
Past == [pass EXCEPT !.pos = @ + 1]
Reads(state) ==
    /\ At("consult") /\ ~Exhausted
    /\ NextSlot.key = Here /\ NextSlot.state \in state

-----------------------------------------------------------------------------
(* Starting and ending a pass *)

\* A fresh pass in a mode, its cursor folded from the journal.
Fresh(mode) ==
    [mode |-> mode, slots |-> FromRecords(journal), pos |-> 0, e |-> 1, a |-> 1,
     pc |-> "consult", used |-> 0, spent |-> 0, call |-> None,
     status |-> None, diverged |-> FALSE]

\* A recorded ending that a resume may not go past.
ResumeIsClosed ==
    \/ Conclusion \in {"succeeded", "abandoned"}
    \/ Conclusion = "quarantined" /\ Decision = None

Execute ==
    /\ pass = None /\ passes = 0
    /\ pass' = Fresh("Live")
    /\ passes' = passes + 1
    /\ UNCHANGED <<journal, world, ceiling, halted>>

\* A resume.  An abandonment decided and not yet carried out is concluded
\* without running anything; a withdrawn authority pauses the run before its
\* step.
Resume ==
    /\ pass = None /\ passes \in 1 .. setting.passes - 1 /\ ~ResumeIsClosed
    /\ passes' = passes + 1
    /\ pass' = IF Decision = "Abandon" THEN Ends(Fresh("Resume"), "abandoned")
               ELSE IF halted THEN Ends(Fresh("Resume"), "withheld")
               ELSE Fresh("Resume")
    /\ UNCHANGED <<journal, world, ceiling, halted>>

\* A strict pass: a replay that verifies the record.
Verify ==
    /\ pass = None /\ passes > 0
    /\ pass' = Fresh("Strict")
    /\ UNCHANGED <<journal, world, ceiling, halted, passes>>

\* The run's conclusion, with what the pass billed.  A resume that did
\* nothing new does not repeat an open conclusion; a strict pass reports its
\* verdict and writes nothing.
Conclude ==
    /\ At("conclude")
    /\ IF \/ pass.mode = "Strict"
          \/ Last(journal).kind = "RunConcluded" /\ Last(journal).says = pass.status
       THEN UNCHANGED journal
       ELSE Write(Rec("RunConcluded", <<pass.used, pass.spent>>, pass.status, pass.diverged, 0))
    /\ pass' = None
    /\ UNCHANGED <<world, ceiling, halted, passes>>

\* The process dies.  Dying while it only reads the journal is dying before it.
Crash ==
    /\ pass # None /\ pass.pc # "consult"
    /\ pass' = None
    /\ UNCHANGED <<journal, world, ceiling, halted, passes>>

-----------------------------------------------------------------------------
(* Replaying one attempt *)

\* Defect: a replayed answer leaves the cursor where it was.
ReplayDoneUnread ==
    /\ Reads({"Done"})
    /\ pass' = Answered(Bill(pass, 1, NextSlot.spend))
    /\ UNCHANGED <<journal, world, ceiling, halted, passes>>

ReplayDone ==
    /\ Reads({"Done"})
    /\ pass' = Answered(Bill(Past, 1, NextSlot.spend))
    /\ UNCHANGED <<journal, world, ceiling, halted, passes>>

\* The recorded key is not the one this pass asks for.
ReplayDiverges ==
    /\ At("consult") /\ ~Exhausted /\ NextSlot.key # Here
    /\ pass' = Diverges(pass)
    /\ UNCHANGED <<journal, world, ceiling, halted, passes>>

\* A recorded denial stands.
ReplayDenial ==
    /\ Reads({"Denied"})
    /\ pass' = Ends(Past, "failed")
    /\ UNCHANGED <<journal, world, ceiling, halted, passes>>

\* Defect: a withholding lifted is looked up again without being consumed.
ReplayWithheldUnread ==
    /\ Reads({"Withheld"})
    /\ pass' = IF WritesEnabled(Past) THEN pass ELSE Ends(Past, "withheld")
    /\ UNCHANGED <<journal, world, ceiling, halted, passes>>

\* A withholding: raised again inside the replayed prefix, dispatched live at
\* the frontier.
ReplayWithheld ==
    /\ Reads({"Withheld"})
    /\ pass' = IF WritesEnabled(Past) THEN Past ELSE Ends(Past, "withheld")
    /\ UNCHANGED <<journal, world, ceiling, halted, passes>>

\* A budget refusal: asked again only past the end of history, where it is
\* re-admitted on the record or stands without a second record.
ReplayRefusal ==
    /\ Reads({"Refused"})
    /\ IF WritesEnabled(Past) /\ pass.used < ceiling
       THEN /\ Write(Plain("BudgetReadmitted", Here, None))
            /\ pass' = Past
       ELSE /\ UNCHANGED journal
            /\ pass' = Ends(Past, "exhausted")
    /\ UNCHANGED <<world, ceiling, halted, passes>>

\* A recorded failure: follow the retry history holds, or decide as the
\* recorded run would have.
ReplayFailed ==
    /\ Reads({"Landed", "InDoubt", "DidNotHappen"})
    /\ LET p       == Bill(Past, 1, NextSlot.spend)
           retried == p.pos < Len(p.slots) /\ p.slots[p.pos + 1].key = <<p.e, p.a + 1>>
           stop    == StopReason(NextSlot.state, NextSlot.perm, Here)
       IN  pass' = CASE retried -> Retries(p)
                     [] ~retried /\ stop # None -> Ends(p, stop)
                     [] OTHER -> IF p.mode = "Strict" THEN Diverges(p) ELSE Retries(p)
    /\ UNCHANGED <<journal, world, ceiling, halted, passes>>

\* Defect: a strict pass resolves the orphan it meets.
ReplayOrphanStrictly ==
    /\ Reads({"Orphan"})
    /\ LET p == Bill(Past, 1, 0) IN
       pass' = CASE Declared(Here).recovery = "Retry" -> [p EXCEPT !.pc = "act"]
                 [] Declared(Here).recovery = "Reconcile" -> [p EXCEPT !.pc = "ask"]
                 [] OTHER -> Ends(p, "quarantined")
    /\ UNCHANGED <<journal, world, ceiling, halted, passes>>

\* An announcement with no outcome: the declared recovery decides.  It is
\* performed again under its own announcement, asked about, or left to an
\* operator.
ReplayOrphan ==
    /\ Reads({"Orphan"})
    /\ LET p == Bill(Past, 1, 0) IN
       pass' = CASE p.mode = "Strict" -> Ends(p, "quarantined")
                 [] p.mode # "Strict" /\ Declared(Here).recovery = "Retry" -> [p EXCEPT !.pc = "act"]
                 [] p.mode # "Strict" /\ Declared(Here).recovery = "Reconcile" -> [p EXCEPT !.pc = "ask"]
                 [] OTHER -> Ends(p, "quarantined")
    /\ UNCHANGED <<journal, world, ceiling, halted, passes>>

\* History is used up: the attempt runs live, unless a pass is verifying.
HistoryEnds ==
    /\ At("consult") /\ Exhausted
    /\ pass' = IF pass.mode = "Strict" THEN Diverges(pass) ELSE [pass EXCEPT !.pc = "gate"]
    /\ UNCHANGED <<journal, world, ceiling, halted, passes>>

-----------------------------------------------------------------------------
(* One live attempt *)

\* A hop that carries a subject's credential reads the halts afresh.
Withhold ==
    /\ At("gate") /\ Declared(Here).bound /\ halted
    /\ Write(Plain("AuthorityWithheld", Here, None))
    /\ pass' = Ends(pass, "withheld")
    /\ UNCHANGED <<world, ceiling, halted, passes>>

Cleared == At("gate") /\ ~(Declared(Here).bound /\ halted)

Deny ==
    /\ Cleared /\ setting.denials
    /\ Write(Plain("PolicyDenied", Here, None))
    /\ pass' = Ends(pass, "failed")
    /\ UNCHANGED <<world, ceiling, halted, passes>>

Refuse ==
    /\ Cleared /\ pass.used >= ceiling
    /\ Write(Plain("BudgetRefused", Here, None))
    /\ pass' = Ends(pass, "exhausted")
    /\ UNCHANGED <<world, ceiling, halted, passes>>

\* The attempt takes its slot and is announced durably before the call.
Announce ==
    /\ Cleared /\ pass.used < ceiling
    /\ Write(Plain("EffectStarted", Here, None))
    /\ pass' = [Bill(pass, 1, 0) EXCEPT !.pc = "act"]
    /\ UNCHANGED <<world, ceiling, halted, passes>>

\* Answers a driver may give about a call that did or did not land.
Answers(landed) == IF landed THEN {"Done", "Landed", "InDoubt"} ELSE {"InDoubt", "DidNotHappen"}

Perform ==
    /\ At("act")
    /\ \E landed \in BOOLEAN : \E d \in Answers(landed), perm \in BOOLEAN :
        /\ perm => d \in {"Landed", "DidNotHappen"}
        /\ world' = IF landed THEN [world EXCEPT ![Here] = @ + 1] ELSE world
        /\ pass' = [pass EXCEPT !.call = [says |-> d, perm |-> perm], !.pc = "record"]
    /\ UNCHANGED <<journal, ceiling, halted, passes>>

\* The outcome is billed and recorded; what a failure means is decided next.
RecordOutcome ==
    /\ At("record")
    /\ LET d == pass.call.says
           p == [Bill(pass, 0, Spend(d)) EXCEPT !.call = None]
       IN /\ Write(Rec(IF d = "Done" THEN "EffectDone" ELSE "EffectFailed", Here, d,
                       pass.call.perm, Spend(d)))
          /\ pass' = CASE d = "Done" -> Answered(p)
                       [] d = "InDoubt" /\ Declared(Here).recovery = "Reconcile" ->
                            [p EXCEPT !.pc = "probe"]
                       [] OTHER -> FailedVerdict(p, d, pass.call.perm)
    /\ UNCHANGED <<world, ceiling, halted, passes>>

\* The store does not take the terminal record: the step ends `Unrecorded`,
\* which ends the run as a failure, and the announcement stays an orphan.
FailToRecord ==
    /\ At("record") /\ setting.faults
    /\ pass' = Ends([Bill(pass, 0, Spend(pass.call.says)) EXCEPT !.call = None], "failed")
    /\ UNCHANGED <<journal, world, ceiling, halted, passes>>

\* Whether any attempt of the effect took effect.
HasLanded(e) == \E a \in Attempts : world[<<e, a>>] > 0

\* What an honest look at the provider can say.
Findings(landed) == {"InDoubt", IF landed THEN "Landed" ELSE "DidNotHappen"}

\* Defect: a probe's `did not happen` is recorded and not acted on.
AfterProbeRepeats(p, d) ==
    CASE d = "Landed" -> Answered(Bill(p, 0, 1))
      [] p.pc = "ask" -> [p EXCEPT !.pc = "act"]
      [] OTHER -> FailedVerdict(p, d, FALSE)

\* What a probe's answer means: an orphan that did not happen is performed
\* again under its announcement, one still in doubt is left to an operator;
\* a failure is judged by what the probe said of it.
AfterProbe(p, d) ==
    CASE d = "Landed" -> Answered(Bill(p, 0, 1))
      [] p.pc = "ask" /\ d = "DidNotHappen" -> [p EXCEPT !.pc = "act"]
      [] p.pc = "ask" /\ d = "InDoubt" -> Ends(p, "quarantined")
      [] OTHER -> FailedVerdict(p, d, FALSE)

\* The provider is asked and its answer journaled, an inconclusive one too.
Probe ==
    /\ At("ask") \/ At("probe")
    /\ \E d \in Findings(HasLanded(pass.e)) :
        /\ Write(Rec("EffectReconciled", Here, d, FALSE, IF d = "Landed" THEN 1 ELSE 0))
        /\ pass' = AfterProbe(pass, d)
    /\ UNCHANGED <<world, ceiling, halted, passes>>

-----------------------------------------------------------------------------
(* Operators *)

Sealed == Conclusion \in {"succeeded", "abandoned"}

\* A person supplies the outcome of an attempt the journal cannot decide.
ReconcileEffect(k) ==
    /\ pass = None /\ ~Sealed
    /\ k \in UndecidedEffects
    /\ Write(Plain("EffectReconciled", k, IF world[k] > 0 THEN "Landed" ELSE "DidNotHappen"))
    /\ UNCHANGED <<world, pass, ceiling, halted, passes>>

\* A person reopens a quarantined run for one pass, or writes it off.
DecideQuarantine(decision) ==
    /\ pass = None /\ Conclusion = "quarantined" /\ Len(journal) < setting.records
    /\ Write(Plain("QuarantineDecided", None, decision))
    /\ UNCHANGED <<world, pass, ceiling, halted, passes>>

\* An operator raises the ceiling; a pass reads it when it starts.
RaiseCeiling ==
    /\ pass = None
    /\ ceiling' \in {c \in setting.ceilings : c > ceiling}
    /\ UNCHANGED <<journal, world, pass, halted, passes>>

\* An operator withdraws the subject's authority, or lifts the withdrawal.
SetHalt ==
    /\ \E e \in Effects : Program[e].bound
    /\ halted' = ~halted
    /\ UNCHANGED <<journal, world, pass, ceiling, passes>>

-----------------------------------------------------------------------------
\* The run is admitted, its plan frozen, and no effect dispatched.
Init ==
    /\ setting \in Settings
    /\ journal = <<Plain("RunAdmitted", None, None)>>
    /\ world = [k \in Keys |-> 0]
    /\ pass = None
    /\ ceiling = Min(setting.ceilings)
    /\ halted = FALSE
    /\ passes = 0

\* What the executing task does when it is scheduled.
Step ==
    \/ ReplayDone \/ ReplayDiverges \/ ReplayDenial \/ ReplayWithheld
    \/ ReplayRefusal \/ ReplayFailed \/ ReplayOrphan \/ HistoryEnds
    \/ Withhold \/ Deny \/ Refuse \/ Announce
    \/ Perform \/ RecordOutcome \/ FailToRecord \/ Probe \/ Conclude

Moves ==
    \/ Execute \/ Resume \/ Verify \/ Step \/ Crash
    \/ \E k \in Keys : ReconcileEffect(k)
    \/ \E decision \in {"Reopen", "Abandon"} : DecideQuarantine(decision)
    \/ RaiseCeiling \/ SetHalt

Next == Moves /\ UNCHANGED setting

Spec == Init /\ [][Next]_vars

\* A task that can take its next step is eventually scheduled.
FairSpec == Spec /\ WF_execution(Step)

-----------------------------------------------------------------------------
(* Properties *)

\* A record, what it is about, and what an outcome or a conclusion says.
Outcomes == {"EffectDone", "EffectFailed", "EffectReconciled"}
OfEffects == Outcomes \cup {"EffectStarted", "BudgetRefused", "BudgetReadmitted",
                            "AuthorityWithheld", "PolicyDenied"}
Records ==
    [kind : OfEffects \cup {"RunAdmitted", "RunConcluded", "QuarantineDecided"},
     key : (Nat \X Nat) \cup {None},
     says : Dispositions \cup Statuses \cup {"Reopen", "Abandon", None},
     perm : BOOLEAN, spend : Nat]
RecordOK(r) ==
    /\ r.kind \in OfEffects => r.key \in Keys
    /\ r.kind \in Outcomes => r.says \in Dispositions
    /\ r.kind = "RunConcluded" => r.says \in Statuses

\* The shape of the journal, the world and the pass.
TypeOK ==
    /\ setting \in Settings
    /\ journal \in Seq(Records) /\ \A i \in DOMAIN journal : RecordOK(journal[i])
    /\ world \in [Keys -> Nat]
    /\ pass # None => /\ pass \in Passes /\ Here \in Keys
                      /\ pass.pos \in 0 .. Len(pass.slots)
                      /\ pass.pc = "conclude" <=> pass.status # None
    /\ ceiling \in setting.ceilings
    /\ passes \in 0 .. setting.passes

\* Intent is durable before anything visible happens: every call that reached
\* the world is announced on the journal, whoever made it and whenever it died.
AnnouncedFirst ==
    \A k \in Keys : world[k] > 0 =>
        \E i \in DOMAIN journal : journal[i].kind = "EffectStarted" /\ journal[i].key = k

\* Verifying a run performs nothing and writes nothing.
StrictIsPure ==
    [][pass # None /\ pass.mode = "Strict" => UNCHANGED <<journal, world>>]_vars

\* An operator settled as landed an attempt the run had gone past: its retry
\* was announced, or met a gate.
SettledBehindRetry ==
    \E i \in Positions("EffectReconciled"), j \in DOMAIN journal :
        /\ j < i /\ journal[i].says = "Landed"
        /\ journal[j].kind \in OfEffects \ Outcomes
        /\ journal[i].key[1] = journal[j].key[1] /\ journal[i].key[2] < journal[j].key[2]

\* A resumed run whose code did not change never disagrees with its own
\* history, crashes, retries, refusals and operators' answers included; the one
\* exception is an answer about an attempt the run had gone past.
NeverDiverges ==
    pass # None /\ pass.diverged /\ pass.mode = "Resume" => SettledBehindRetry

\* Verifying a run that succeeded succeeds and bills what its last pass billed,
\* with the same exception.
StrictReproduces ==
    At("conclude") /\ pass.mode = "Strict" /\ Conclusion = "succeeded" /\ ~SettledBehindRetry =>
        /\ pass.status = "succeeded"
        /\ <<pass.used, pass.spent>> = journal[LastAt("RunConcluded")].key

\* A mutation declared to need an operator takes effect at most once.
OperatorEffectsLandOnce ==
    \A e \in Effects : Program[e].recovery = "RequiresOperator" /\ Program[e].mutates =>
        \A a, b \in Attempts : world[<<e, a>>] > 0 /\ world[<<e, b>>] > 0 =>
            a = b /\ world[<<e, a>>] = 1

\* A mutation that can be asked about takes effect at most once.
ReconciledEffectsLandOnce ==
    \A e \in Effects : Program[e].recovery = "Reconcile" /\ Program[e].mutates =>
        \A a, b \in Attempts : world[<<e, a>>] > 0 /\ world[<<e, b>>] > 0 =>
            a = b /\ world[<<e, a>>] = 1

\* What the last outcome recorded of effect e says.
LastSaid(e) ==
    LET said == {i \in DOMAIN journal :
                    /\ journal[i].kind \in {"EffectDone", "EffectFailed", "EffectReconciled"}
                    /\ journal[i].key[1] = e}
    IN  IF said = {} THEN None ELSE journal[Max(said)].says

\* What the last record about effect e says: None for an announcement.
LastAbout(e) ==
    LET about == {i \in DOMAIN journal :
                    /\ journal[i].kind \in {"EffectStarted", "EffectDone", "EffectFailed",
                                            "EffectReconciled"}
                    /\ journal[i].key[1] = e}
    IN  IF about = {} THEN None ELSE journal[Max(about)].says

\* A mutation that repeating could duplicate is called again only on recorded
\* evidence that it did not happen; an attempt a dead executor announced, only
\* when its provider has just said so.
RepeatsOnEvidence ==
    At("act") /\ Declared(Here).mutates /\ Declared(Here).recovery # "Retry" =>
        /\ LastSaid(pass.e) \in {None, "DidNotHappen"}
        /\ (\E i \in DOMAIN pass.slots : pass.slots[i].key = Here /\ pass.slots[i].state = "Orphan")
            => Last(journal).kind = "EffectReconciled" /\ Last(journal).says = "DidNotHappen"

\* A mutation whose last answer is doubt never ends its run as a plain failure,
\* which would unwind around it; what may is policy denying the retry of one
\* declared safe to repeat, since the denial and not the doubt fails the run.
DoubtIsNotFailure ==
    Last(journal).kind = "RunConcluded" /\ Last(journal).says = "failed" =>
        \A e \in Effects : Program[e].mutates /\ LastAbout(e) = "InDoubt" =>
            /\ Program[e].recovery = "Retry"
            /\ \E i \in Positions("PolicyDenied") : journal[i].key[1] = e

\* A denied effect stays denied: nothing is performed at its key afterwards.
DenialStands ==
    \A i \in DOMAIN journal : journal[i].kind = "PolicyDenied" => world[journal[i].key] = 0

\* A key has at most one standing budget refusal however often it is resumed.
OneStandingRefusal ==
    \A k \in Keys :
        LET n(kind) == Cardinality({i \in Positions(kind) : journal[i].key = k})
        IN  n("BudgetRefused") - n("BudgetReadmitted") \in {0, 1}

\* Every mutating attempt the replay cursor cannot answer, and no later attempt
\* completed, is listed for the operator who must look it up.  (A probe that
\* clears an attempt ends the listing, so probed effects are left out.)
DoubtsAreListed ==
    pass = None =>
        LET slots == FromRecords(journal) IN
        \A i \in DOMAIN slots :
            /\ slots[i].state \in {"Orphan", "InDoubt"} /\ Declared(slots[i].key).mutates
            /\ Declared(slots[i].key).recovery # "Reconcile"
            /\ \A j \in DOMAIN slots : slots[j].key[1] = slots[i].key[1] => slots[j].state # "Done"
            => slots[i].key \in UndecidedEffects

\* A mutation no executor repeats and that took effect is evidence for the
\* unwind: with no pass running, the record never says the step left the world
\* untouched.
LandedWorkIsEvidence ==
    pass = None =>
        \A e \in Effects :
            Program[e].mutates /\ Program[e].recovery = "RequiresOperator" /\ HasLanded(e) =>
                \E k \in Touched : k[1] = e

\* Recorded landings of mutations with some recoveries are evidence.
EvidenceOf(recoveries) ==
    \A i \in Positions("EffectDone") :
        Declared(journal[i].key).mutates /\ Declared(journal[i].key).recovery \in recoveries
            => journal[i].key \in Touched

\* A mutation recorded as done is evidence for the unwind, however many
\* executors it took to perform it, where no probe is asked about it.
RecordedLandingIsEvidence == EvidenceOf({"Retry", "RequiresOperator"})

\* The same of a mutation its provider is asked about: a landing recorded
\* after a probe that found nothing is evidence too.
ProbedLandingIsEvidence == EvidenceOf({"Reconcile"})

\* A pass always ends: the protocol cannot loop over its own history.
PassEnds == pass # None ~> pass = None

\* What reaches the world: each call announced first, an operator's once, none
\* repeated but on recorded evidence, and nothing that was denied.
LandsOnEvidence ==
    TypeOK /\ AnnouncedFirst /\ OperatorEffectsLandOnce /\ RepeatsOnEvidence /\ DenialStands

\* What later passes make of the journal: they follow it, bill as it says, keep
\* doubt apart from failure, and do not stack its refusals.
HistoryIsFollowed ==
    NeverDiverges /\ StrictReproduces /\ DoubtIsNotFailure /\ OneStandingRefusal

\* What operators and the unwind are told: every doubt is listed, and work that
\* landed is evidence.
DoubtIsKnown ==
    DoubtsAreListed /\ LandedWorkIsEvidence /\ RecordedLandingIsEvidence

-----------------------------------------------------------------------------
(* Why calls land on evidence: the inductive invariant *)

\* The cursor as the journal has it now, and its slots.
Cursor == FromRecords(journal)
Known == ToSet(Cursor)
Answerable == Dispositions \cup {"Orphan"}
Announced(k) == \E i \in Positions("EffectStarted") : journal[i].key = k

\* A mutation that repeating could duplicate.
Guarded(k) == Declared(k).mutates /\ Declared(k).recovery # "Retry"
OnlyOperator(k) == Declared(k).mutates /\ Declared(k).recovery = "RequiresOperator"

OneSlotPerKey(slots) == \A i, j \in DOMAIN slots : slots[i].key = slots[j].key => i = j

\* The cursor has one slot a key; an announced attempt has one that is answered
\* or an orphan.
CursorIsSound ==
    /\ Cursor \in Seq(Slots) /\ \A s \in Known : s.key \in Keys
    /\ OneSlotPerKey(Cursor)
    /\ \A k \in Keys : Announced(k) <=> \E s \in Known : s.key = k /\ s.state \in Answerable

\* An outcome of the attempt is recorded; the last one says it did not happen.
OutcomeOf(i, k) == journal[i].kind \in Outcomes /\ journal[i].key = k
HasOutcome(k) == \E i \in DOMAIN journal : OutcomeOf(i, k)
LastDenied(k) ==
    \E i \in DOMAIN journal :
        /\ OutcomeOf(i, k) /\ journal[i].says = "DidNotHappen"
        /\ \A j \in DOMAIN journal : OutcomeOf(j, k) => j <= i

\* A slot that says the attempt did not happen has it from the last outcome
\* recorded, and a recorded outcome has a slot.
CursorHasOutcomes ==
    /\ \A s \in Known : s.state = "DidNotHappen" => LastDenied(s.key)
    /\ \A k \in Keys : HasOutcome(k) =>
            \E s \in Known : s.key = k /\ s.state \in Dispositions

\* A guarded mutation came to a later attempt only when the earlier ones did
\* not happen.
RetriedOnEvidence ==
    \A s, t \in Known :
        Guarded(s.key) /\ s.key[1] = t.key[1] /\ s.key[2] < t.key[2] => s.state = "DidNotHappen"

\* What is listed as undecided is undecided in the cursor.
DoubtsAreSlots ==
    /\ Listed \in [open : SUBSET Keys, doubts : SUBSET Keys]
    /\ \A k \in UndecidedEffects : Announced(k)
    /\ \A s \in Known : Guarded(s.key) =>
            /\ s.key \in Listed.open => s.state = "Orphan"
            /\ s.key \in Listed.doubts => s.state = "InDoubt"

\* An operator's mutation recorded as not having happened did not.
DidNotHappenIsTrue ==
    \A s \in Known : OnlyOperator(s.key) /\ s.state = "DidNotHappen" => world[s.key] = 0

Before(k, h) == k[1] < h[1] \/ (k[1] = h[1] /\ k[2] < h[2])
Unread == {pass.slots[i] : i \in pass.pos + 1 .. Len(pass.slots)}

\* A writing pass has read its history in order: what it has not read is as the
\* journal has it, and what the journal has is unread, behind it, or here.
ReadInOrder ==
    /\ OneSlotPerKey(pass.slots)
    /\ Unread \subseteq Known
    /\ \A s \in Known :
            \/ \E u \in Unread : u.key = s.key
            \/ Before(s.key, Here)
            \/ s.key = Here /\ (pass.pc \in {"consult", "gate"} => s.state = "Withheld")
    /\ \A i \in 1 .. pass.pos :
            \/ Before(pass.slots[i].key, Here)
            \/ /\ pass.slots[i].key = Here
               /\ pass.pc \in {"consult", "gate"} => pass.slots[i].state \in {"Withheld", "Refused"}
    /\ pass.pc = "gate" => Exhausted

\* The attempts behind a guarded mutation did not happen.
BehindDidNotHappen ==
    Guarded(Here) =>
        \A s \in Known : s.key[1] = pass.e /\ s.key[2] < pass.a => s.state = "DidNotHappen"

\* An attempt under way is announced, has no later one, and is called only while
\* it is an orphan nobody called before, or its provider has just denied it.
UnderWay ==
    pass.pc \in {"act", "record", "ask", "probe"} =>
        /\ \A u \in Unread : u.key # Here
        /\ \E s \in Known :
                /\ s.key = Here /\ s.state \in Answerable
                /\ pass.pc = "ask" => s.state = "Orphan"
                /\ pass.pc = "probe" => s.state = "InDoubt"
                /\ pass.pc \in {"act", "record"} /\ Guarded(Here) =>
                        s.state = "Orphan" \/ (s.state = "DidNotHappen" /\ ~OnlyOperator(Here))
        /\ Guarded(Here) => \A s \in Known : s.key[1] = pass.e => s.key[2] <= pass.a
        /\ pass.pc \in {"ask", "probe"} => Declared(Here).recovery = "Reconcile"
        /\ pass.pc = "record" => pass.call \in Calls
        /\ OnlyOperator(Here) =>
                /\ pass.pc = "act" => world[Here] = 0
                /\ pass.pc = "record" /\ pass.call.says = "DidNotHappen" => world[Here] = 0

\* A guarded call that another executor announced is made only on its provider's
\* denial just recorded.
JustDenied ==
    pass.pc = "act" /\ Guarded(Here)
    /\ (\E i \in DOMAIN pass.slots : pass.slots[i].key = Here /\ pass.slots[i].state = "Orphan")
        => Last(journal).kind = "EffectReconciled" /\ Last(journal).says = "DidNotHappen"

PassIsSound ==
    pass # None =>
        /\ \A i \in DOMAIN pass.slots : pass.slots[i].key \in Keys
        /\ pass.mode = "Strict" => pass.pc \in {"consult", "conclude"}
        /\ pass.mode # "Strict" /\ pass.pc # "conclude" =>
                ReadInOrder /\ BehindDidNotHappen /\ UnderWay /\ JustDenied

DispatchInv ==
    /\ TypeOK /\ CursorIsSound /\ CursorHasOutcomes /\ RetriedOnEvidence /\ DoubtsAreSlots
    /\ AnnouncedFirst /\ OperatorEffectsLandOnce /\ DidNotHappenIsTrue /\ PassIsSound

-----------------------------------------------------------------------------
(* Why doubts are told: what the cursor, the list of doubts and the evidence *)
(* say of one attempt                                                        *)

\* A mutation whose provider is not asked about it.
Unprobed(k) == Declared(k).mutates /\ Declared(k).recovery # "Reconcile"

\* An attempt that may have landed is evidence; one announced and not ended is
\* listed as open, and one in doubt as a doubt, unless the effect was done since.
Overtaken(k) == \E t \in Known : t.key[1] = k[1] /\ t.state = "Done"
IsTold(s) ==
    /\ s.state \in {"Orphan", "Done", "Landed", "InDoubt"} => s.key \in Touched
    /\ s.state = "Orphan" <=> s.key \in Listed.open
    /\ s.key \in Listed.doubts => s.state = "InDoubt"
    /\ s.state = "InDoubt" => s.key \in Listed.doubts \/ Overtaken(s.key)
AttemptsAreTold ==
    /\ Told \in [known : SUBSET Keys, touched : SUBSET Keys]
    /\ \A s \in Known : Unprobed(s.key) => IsTold(s)

\* A recorded landing, and a recorded denial, is what the cursor says for good.
LandingsStay ==
    \A i \in Positions("EffectDone") : Unprobed(journal[i].key) =>
        \E s \in Known : s.key = journal[i].key /\ s.state = "Done"
DenialsStay ==
    \A i \in Positions("PolicyDenied") :
        \E s \in Known : s.key = journal[i].key /\ s.state = "Denied"

\* Such a mutation is called only while no outcome of the attempt is recorded.
CalledAsOrphan ==
    pass # None /\ pass.pc \in {"act", "record"} /\ Unprobed(Here) =>
        \E s \in Known : s.key = Here /\ s.state = "Orphan"

EvidenceInv == AttemptsAreTold /\ LandingsStay /\ DenialsStay /\ CalledAsOrphan
-----------------------------------------------------------------------------
(* Why a resume follows its history, and a verification bills it: the order *)
(* of the cursor, and what reading it costs                                 *)

\* The position a pass asks for after an answered one.
KeyAfter(s) == IF s.state = "Done" THEN <<s.key[1] + 1, 1>> ELSE <<s.key[1], s.key[2] + 1>>

\* Each position comes after an answered one: where that answer leads, or at the
\* retry made before the answer came.
LeadsTo(s, k) == k = KeyAfter(s) \/ k = <<s.key[1], s.key[2] + 1>>
InCallOrder(slots) ==
    /\ slots # <<>> => slots[1].key = <<1, 1>>
    /\ \A i \in 1 .. Len(slots) - 1 :
            slots[i].state \in Dispositions /\ LeadsTo(slots[i], slots[i + 1].key)
Unbroken(slots) == \A i \in 1 .. Len(slots) - 1 : slots[i + 1].key = KeyAfter(slots[i])

\* The position a pass asks for when it has read some slots, or used all up.
Asked(slots, pos) == IF pos = 0 THEN <<1, 1>> ELSE KeyAfter(slots[pos])
AtFrontier(slots, k) ==
    \/ slots = <<>> /\ k = <<1, 1>>
    \/ slots # <<>> /\ slots[Len(slots)].state \in Dispositions /\ k = KeyAfter(slots[Len(slots)])
    \/ slots # <<>> /\ slots[Len(slots)].state = "Withheld" /\ k = slots[Len(slots)].key

\* What the first slots spent, and a pass that has billed the first n: a
\* withholding at the frontier is billed when it is lifted.
Costs(slots) ==
    LET after[n \in 0 .. Len(slots)] == IF n = 0 THEN 0 ELSE after[n - 1] + slots[n].spend
    IN  after
HasBilled(n) == pass.used = n /\ pass.spent = Costs(Cursor)[n]
Behind(slots) ==
    IF slots # <<>> /\ slots[Len(slots)].state = "Withheld" THEN Len(slots) - 1 ELSE Len(slots)

\* A pass asks for what the slots it has read lead to, having billed them; a
\* writing one is then at the frontier, or works at the last position.
Consulting == pass.pc = "consult" /\ (pass.mode = "Strict" \/ ~Exhausted)
AtEdge == (pass.pc = "consult" /\ ~Consulting) \/ pass.pc = "gate"
Working == {"act", "record", "ask", "probe"}
ReadsItsHistory ==
    pass # None =>
        /\ Consulting =>
                pass.slots = Cursor /\ Here = Asked(Cursor, pass.pos) /\ HasBilled(pass.pos)
        /\ AtEdge => AtFrontier(Cursor, Here) /\ HasBilled(Behind(Cursor))
        /\ pass.pc \in Working =>
                /\ Exhausted /\ Cursor # <<>> /\ Cursor[Len(Cursor)].key = Here
                /\ HasBilled(Len(Cursor))

\* A slot was opened by a record that is not an outcome, and nothing is spent
\* before one; a doubt is a mutation.
SlotsAreOpened ==
    \A s \in Known : \E j \in DOMAIN journal :
        journal[j].kind \in OfEffects \ Outcomes /\ journal[j].key = s.key
NothingPrepaid == \A s \in Known : s.state \notin Dispositions => s.spend = 0
DoubtsMutate == \A k \in UndecidedEffects : Declared(k).mutates

HistoryInv ==
    /\ SlotsAreOpened /\ NothingPrepaid /\ DoubtsMutate /\ NeverDiverges
    /\ InCallOrder(Cursor) /\ ReadsItsHistory
    /\ SettledBehindRetry \/ Unbroken(Cursor)

\* The history of a step that finished: its last effect is done.
Complete(slots) ==
    slots # <<>> /\ slots[Len(slots)].state = "Done" /\ slots[Len(slots)].key[1] = Len(Program)

\* A pass that finished the step has billed its whole history.  A run that
\* succeeded is only verified, and its record says what reading it costs.
SuccessIsBilled ==
    pass # None /\ pass.status = "succeeded" /\ ~SettledBehindRetry =>
        Complete(Cursor) /\ HasBilled(Len(Cursor))
SuccessIsRecorded ==
    Conclusion = "succeeded" /\ ~SettledBehindRetry =>
        /\ Complete(Cursor)
        /\ journal[LastAt("RunConcluded")].key = <<Len(Cursor), Costs(Cursor)[Len(Cursor)]>>
        /\ pass # None /\ pass.pc = "conclude" => pass.status = "succeeded"
SuccessInv ==
    /\ passes = 0 => pass = None /\ Conclusion = None
    /\ Conclusion = "succeeded" /\ pass # None => pass.mode = "Strict"
    /\ SuccessIsBilled /\ SuccessIsRecorded

-----------------------------------------------------------------------------
(* Why doubt is not failure, and refusals do not stack *)

\* An effect whose last answer is doubt is the last the run came to: nothing but
\* a gate was met since.
EndsInDoubt(slots, e) ==
    \E n \in DOMAIN slots :
        /\ slots[n].key[1] = e /\ slots[n].state = "InDoubt"
        /\ n = Len(slots) \/ (n = Len(slots) - 1 /\ slots[Len(slots)].state \notin Answerable)
DoubtsAreLast == \A e \in Effects : LastAbout(e) = "InDoubt" => EndsInDoubt(Cursor, e)
DeniedIsRecorded ==
    \A s \in Known : s.state = "Denied" => \E i \in Positions("PolicyDenied") : journal[i].key = s.key

\* A pass fails over a doubt only where policy denied what may be repeated.
ExcusedDoubts ==
    \A e \in Effects : Program[e].mutates /\ LastAbout(e) = "InDoubt" =>
        /\ Program[e].recovery = "Retry"
        /\ \E i \in Positions("PolicyDenied") : journal[i].key[1] = e
FailsWithoutDoubt ==
    pass # None /\ pass.mode # "Strict" /\ pass.status = "failed" => ExcusedDoubts

DoubtInv == DoubtsAreLast /\ DeniedIsRecorded /\ FailsWithoutDoubt /\ DoubtIsNotFailure

\* A refusal stands exactly while the cursor shows it.
Count(kind, k) == Cardinality({i \in Positions(kind) : journal[i].key = k})
Refusing(k) == \E s \in Known : s.key = k /\ s.state = "Refused"
RefusalInv ==
    \A k \in Keys :
        Count("BudgetRefused", k) = Count("BudgetReadmitted", k) + (IF Refusing(k) THEN 1 ELSE 0)

=============================================================================
