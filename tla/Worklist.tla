------------------------------ MODULE Worklist ------------------------------
(***************************************************************************)
(* Waits the plane answers itself: a durable sleep, woken by the sweep's    *)
(* timer pass, and a human task, decided by a person or by the policy it    *)
(* declared for the case that nobody answers.                               *)
(*                                                                          *)
(* One run sleeps, then asks, then concludes.  Around it move the people    *)
(* of the worklist, the phases of the sweep (timers, overdue tasks,         *)
(* redelivery, recovery), an operator's stop, processes that die and a pass *)
(* whose lease lapses while it is still between two store calls.  A store   *)
(* call is one action.  The pass that holds the lease runs on behalf of the *)
(* actor that started it, whose own call goes on when the pass ends.        *)
(*                                                                          *)
(* The buffer and the waits are those of Inbox, cut down to the one event   *)
(* that can answer the one task.  Time is a flag per instant that passes.   *)
(***************************************************************************)
EXTENDS Naturals, Sequences, FiniteSets

CONSTANTS
    Person,      \* who may be asked
    Candidate,   \* those with a candidate role
    Scenarios,   \* the settings a behaviour may have, see Scenario
    None

\* The phases of a tick that call into the run.
Timers == "timers"
Tasks == "tasks"
Redelivery == "redelivery"
Starter == "starter"
Sweep == {Timers, Tasks, Redelivery}
Actor == Person \cup Sweep \cup {Starter}

\* What the task declares for the case that nobody answers, whether an operator
\* may stop the run, and a bound on processes that die and leases that lapse
\* under a live pass.
Scenario == [policy : {"Escalate", "Deny", "Proceed"}, stoppable : BOOLEAN, faults : Nat]

ASSUME WorklistAssumption ==
    /\ Candidate \subseteq Person
    /\ Scenarios \subseteq Scenario
    /\ Person \cap (Sweep \cup {Starter, None}) = {}
    /\ None \notin Sweep \cup {Starter, "Resumed", "Buffered", "Own", "AlreadyAnswered", "NotPending"}

VARIABLES
    setting,     \* the scenario, chosen once
    \* the journal
    asleep,      \* the sleep is announced
    wakes,       \* how many wakes are recorded
    asked,       \* the task's wait is announced
    answers,     \* who minted each recorded answer
    ended,       \* the run's conclusion and its seal
    stop,        \* a durable stop request
    \* the stores
    timer,       \* none, armed, claimed by a sweep, or with a claim that lapsed
    task,        \* state, assignee, and whether the audience was widened
    waiting,     \* the task's wait is registered
    decision,    \* who minted the buffered decision
    place,       \* the decision's row: none, live, held for the wait, or read
    \* who is doing what
    lease,       \* the run's pass: where it is, and for whom it runs
    ghost,       \* the store call of a pass that lost its lease
    hand,        \* each actor's call in progress
    told,        \* what each person's last decision returned
    \* time and faults
    passed,      \* instants that have passed: the wake, the task's window
    faulted

records == <<asleep, wakes, asked, answers, ended>>
events == <<waiting, decision, place>>
faults == <<ghost, faulted>>
calls == <<hand, told>>
state == <<records, stop, timer, task, events, lease, calls, passed, faults>>
vars == <<setting, state>>

\* Task::on_expiry.
policy == setting.policy

Pending == {"Open", "Claimed", "Escalated"}
AwaitsExpiry == {"Open", "Claimed"}
TaskStates == Pending \cup {"None", "Completed", "Expired", "Withdrawn"}
Verdicts == {"Resumed", "Buffered", "Own", "AlreadyAnswered", "NotPending"}
Unfenced == {"arm", "disarm", "open"}
PassPoints == Unfenced \cup
    {"none", "dead", "wake", "record", "plan", "subscribe", "claim", "append",
     "unsubscribe", "seal", "disarmRun", "unsubscribeRun", "withdrawRun", "release"}

Idle == [pc |-> "idle", delivery |-> None]
NoPass == [pc |-> "none", by |-> None]

\* The shape of the stores, the calls and the pass.
TypeOK ==
    /\ setting \in Scenarios
    /\ wakes \in 0 .. 2 /\ answers \in Seq(Person \cup {Tasks}) /\ Len(answers) <= 2
    /\ {asleep, asked, stop, waiting} \subseteq BOOLEAN
    /\ ended \in {"no", "concluded", "sealed"}
    /\ timer \in {"none", "armed", "claimed", "lapsed"}
    /\ task \in [state : TaskStates, assignee : Person \cup {None}, wide : BOOLEAN]
    /\ task.state \in {"None", "Open", "Escalated"} => task.assignee = None
    /\ task.state = "Claimed" => task.assignee # None
    /\ decision \in Person \cup {Tasks, None} /\ place \in {"none", "live", "held", "read"}
    /\ lease \in [pc : PassPoints, by : Actor \cup {None}]
    /\ ghost \in Unfenced \cup {None}
    /\ hand \in [Actor -> [pc : {"idle", "due", "note", "answer", "offer", "wake", "pass", "settle", "duplicate"},
                           delivery : {"Resumed", "Buffered", None}]]
    /\ told \in [Person -> Verdicts \cup {None}]
    /\ passed \subseteq {"wake", "window"}
    /\ faulted \in 0 .. setting.faults

Init ==
    /\ setting \in Scenarios
    /\ asleep = FALSE /\ wakes = 0 /\ asked = FALSE /\ answers = <<>> /\ ended = "no"
    /\ stop = FALSE
    /\ timer = "none"
    /\ task = [state |-> "None", assignee |-> None, wide |-> FALSE]
    /\ waiting = FALSE /\ decision = None /\ place = "none"
    /\ lease = [pc |-> "plan", by |-> Starter]
    /\ ghost = None
    /\ hand = [[a \in Actor |-> Idle] EXCEPT ![Starter].pc = "pass"]
    /\ told = [p \in Person |-> None]
    /\ passed = {} /\ faulted = 0

-----------------------------------------------------------------------------
(* Store calls *)

resume_is_closed == ended # "no"
SetHand(a, pc) == hand' = [hand EXCEPT ![a] = [@ EXCEPT !.pc = pc]]
SetPass(pc) == lease' = [lease EXCEPT !.pc = pc]

\* First arming wins.
arm == timer' = IF timer = "none" THEN "armed" ELSE timer

\* First open wins.
open == task' = IF task.state = "None" THEN [task EXCEPT !.state = "Open"] ELSE task

\* A pending task moves; a settled one stays as it is.
settle(to) == task' = IF task.state \in Pending THEN [task EXCEPT !.state = to] ELSE task

\* The claim's ladder: a candidate role, widened by an escalation, and a task
\* still pending.
eligible(p) ==
    /\ p \in Candidate \/ task.wide
    /\ task.state \in Pending

Taken(p) == [task EXCEPT !.state = "Claimed", !.assignee = p]

\* The lease can be taken: handed back, or owned by the dead and lapsed.
Free == lease.pc \in {"none", "dead"}

\* An acquisition is refused: a live pass, or a dead owner's unlapsed lease.
Held == lease.pc # "none"

\* The pass ends: its caller goes on.
PassEnds ==
    /\ lease' = NoPass
    /\ SetHand(lease.by, IF lease.by \in Person \cup {Tasks} THEN "settle" ELSE "idle")

-----------------------------------------------------------------------------
(* The run's pass *)

\* The end of the plan, or a standing stop, concludes the run; a conclusion
\* found on the record is finished.
conclude ==
    /\ lease.pc = "plan"
    /\ resume_is_closed \/ stop \/ (wakes > 0 /\ answers # <<>>)
    /\ ended' = IF resume_is_closed THEN ended ELSE "concluded"
    /\ SetPass("seal")
    /\ UNCHANGED <<asleep, wakes, asked, answers, stop, timer, task, events, calls, passed, faults>>

\* Defect: a sleep already announced is not armed again.
SleepAnnouncedOnce ==
    /\ lease.pc = "plan" /\ ~resume_is_closed /\ ~stop /\ wakes = 0
    /\ asleep' = TRUE
    /\ IF asleep THEN PassEnds ELSE SetPass("arm") /\ UNCHANGED hand
    /\ UNCHANGED <<wakes, asked, answers, ended, stop, timer, task, events, told, passed, faults>>

\* The sleep is announced, unless an earlier pass announced it, and armed.
sleep_until ==
    /\ lease.pc = "plan" /\ ~resume_is_closed /\ ~stop /\ wakes = 0
    /\ asleep' = TRUE
    /\ SetPass("arm")
    /\ UNCHANGED <<wakes, asked, answers, ended, stop, timer, task, events, calls, passed, faults>>

\* Armed, the pass suspends and hands the lease back.
arm_timer ==
    /\ lease.pc = "arm"
    /\ arm
    /\ PassEnds
    /\ UNCHANGED <<records, stop, task, events, told, passed, faults>>

\* The task's wait is announced once, ...
announce_wait ==
    /\ lease.pc = "plan" /\ ~resume_is_closed /\ ~stop /\ wakes > 0 /\ answers = <<>>
    /\ asked' = TRUE
    /\ SetPass("subscribe")
    /\ UNCHANGED <<asleep, wakes, answers, ended, stop, timer, task, events, calls, passed, faults>>

\* ... registered, ...
subscribe ==
    /\ lease.pc = "subscribe"
    /\ waiting' = TRUE
    /\ SetPass("open")
    /\ UNCHANGED <<records, stop, timer, task, decision, place, calls, passed, faults>>

\* ... and the task opened for a decision to attach to, ...
open_task ==
    /\ lease.pc = "open"
    /\ open
    /\ SetPass("claim")
    /\ UNCHANGED <<records, stop, timer, events, calls, passed, faults>>

\* ... before the buffer is consulted: a decision may be there already.
claim_for ==
    /\ lease.pc = "claim"
    /\ IF place \in {"live", "held"}
       THEN place' = "held" /\ SetPass("append") /\ UNCHANGED hand
       ELSE PassEnds /\ UNCHANGED place
    /\ UNCHANGED <<records, stop, timer, task, waiting, decision, told, passed, faults>>

append_answer ==
    /\ lease.pc = "append"
    /\ answers' = Append(answers, decision)
    /\ SetPass("unsubscribe")
    /\ UNCHANGED <<asleep, wakes, asked, ended, stop, timer, task, events, calls, passed, faults>>

\* The registration goes, and with it what the row held.
unsubscribe ==
    /\ lease.pc = "unsubscribe"
    /\ waiting' = FALSE
    /\ place' = IF place = "held" THEN "read" ELSE place
    /\ SetPass("plan")
    /\ UNCHANGED <<records, stop, timer, task, decision, calls, passed, faults>>

seal ==
    /\ lease.pc = "seal"
    /\ ended' = "sealed"
    /\ SetPass("disarmRun")
    /\ UNCHANGED <<asleep, wakes, asked, answers, stop, timer, task, events, calls, passed, faults>>

\* retire_waits, one store after the other.
disarm_run ==
    /\ lease.pc = "disarmRun"
    /\ timer' = "none"
    /\ SetPass("unsubscribeRun")
    /\ UNCHANGED <<records, stop, task, events, calls, passed, faults>>

\* A decision held for the unanswered wait goes back to the buffer.
unsubscribe_run ==
    /\ lease.pc = "unsubscribeRun"
    /\ waiting' = FALSE
    /\ place' = IF place # "held" THEN place ELSE IF answers = <<>> THEN "live" ELSE "read"
    /\ SetPass("withdrawRun")
    /\ UNCHANGED <<records, stop, timer, task, decision, calls, passed, faults>>

\* Only the tasks of waits that were announced and never answered.
withdraw_run ==
    /\ lease.pc = "withdrawRun"
    /\ IF asked /\ answers = <<>> THEN settle("Withdrawn") ELSE UNCHANGED task
    /\ SetPass("release")
    /\ UNCHANGED <<records, stop, timer, events, calls, passed, faults>>

release_lease ==
    /\ lease.pc = "release"
    /\ PassEnds
    /\ UNCHANGED <<records, stop, timer, task, events, told, passed, faults>>

-----------------------------------------------------------------------------
(* The timer pass *)

\* A due timer without a live claim is claimed; a sealed run's is retired.
claim_due ==
    /\ hand[Timers].pc = "idle" /\ "wake" \in passed /\ timer # "none"
    /\ IF ended = "sealed"
       THEN timer' = "none" /\ UNCHANGED hand
       ELSE timer # "claimed" /\ timer' = "claimed" /\ SetHand(Timers, "due")
    /\ UNCHANGED <<records, stop, task, events, lease, told, passed, faults>>

\* fire_one: under the run's lease, or not at all on this tick.
acquire_to_fire ==
    /\ hand[Timers].pc = "due"
    /\ \/ Free /\ lease' = [pc |-> "wake", by |-> Timers] /\ SetHand(Timers, "pass")
       \/ Held /\ SetHand(Timers, "idle") /\ UNCHANGED lease
    /\ UNCHANGED <<records, stop, timer, task, events, told, passed, faults>>

\* The wake is recorded unless it is there or the run's conclusion is, ...
record_wake ==
    /\ lease.pc = "wake"
    /\ wakes' = IF wakes = 0 /\ ~resume_is_closed THEN wakes + 1 ELSE wakes
    /\ SetPass("disarm")
    /\ UNCHANGED <<asleep, asked, answers, ended, stop, timer, task, events, calls, passed, faults>>

\* ... the timer is retired, and the run resumed under the same lease.
disarm ==
    /\ lease.pc = "disarm"
    /\ timer' = "none"
    /\ SetPass("plan")
    /\ UNCHANGED <<records, stop, task, events, calls, passed, faults>>

-----------------------------------------------------------------------------
(* The worklist: people *)

\* decide_task: the claim comes first, and refuses who may not decide.
decide_task(p) ==
    /\ hand[p].pc = "idle"
    /\ eligible(p) /\ task.assignee \in {None, p}
    /\ task' = Taken(p)
    /\ hand' = [hand EXCEPT ![p] = [pc |-> "answer", delivery |-> None]]
    /\ told' = [told EXCEPT ![p] = None]
    /\ UNCHANGED <<records, stop, timer, events, lease, passed, faults>>

\* A reservation is handed on only by naming who holds it.
take_over(p, from) ==
    /\ hand[p].pc = "idle" /\ p # from
    /\ eligible(p) /\ task.assignee = from
    /\ task' = Taken(p)
    /\ UNCHANGED <<records, stop, timer, events, lease, calls, passed, faults>>

\* Only what one holds.
release(p) ==
    /\ hand[p].pc = "idle"
    /\ task.state = "Claimed" /\ task.assignee = p
    /\ task' = [task EXCEPT !.state = "Open", !.assignee = None]
    /\ UNCHANGED <<records, stop, timer, events, lease, calls, passed, faults>>

\* Defect: the newest decision stands.
AnswerOver(a) ==
    /\ hand[a].pc = "answer"
    /\ decision' = a
    /\ place' = IF decision = None THEN "live" ELSE place
    /\ SetHand(a, "offer")
    /\ UNCHANGED <<records, stop, timer, task, waiting, lease, told, passed, faults>>

\* answer_task: one event per task, so a second answer is a duplicate, which
\* is not offered again.
answer_task(a) ==
    /\ hand[a].pc = "answer"
    /\ IF decision = None
       THEN decision' = a /\ place' = "live" /\ SetHand(a, "offer")
       ELSE SetHand(a, "duplicate") /\ UNCHANGED <<decision, place>>
    /\ UNCHANGED <<records, stop, timer, task, waiting, lease, told, passed, faults>>

\* The decision is claimed for the wait if it is registered, or stays buffered.
match_waiter(a) ==
    /\ hand[a].pc = "offer"
    /\ IF waiting /\ place = "live" /\ ended # "sealed"
       THEN place' = "held" /\ SetHand(a, "wake")
       ELSE hand' = [hand EXCEPT ![a] = [pc |-> "settle", delivery |-> "Buffered"]] /\ UNCHANGED place
    /\ UNCHANGED <<records, stop, timer, task, waiting, decision, lease, told, passed, faults>>

\* resume_subscription: under the lease once its owner hands it back, ...
acquire_to_deliver(a) ==
    /\ hand[a].pc = "wake" /\ Free
    /\ lease' = [pc |-> "record", by |-> a]
    /\ SetHand(a, "pass")
    /\ UNCHANGED <<records, stop, timer, task, events, told, passed, faults>>

\* ... or, when the retry window closes first, parked for the redelivery pass.
park_wait(a) ==
    /\ hand[a].pc = "wake" /\ Held
    /\ waiting' = TRUE
    /\ hand' = [hand EXCEPT ![a] = IF a = Redelivery THEN Idle
                                   ELSE [pc |-> "settle", delivery |-> "Buffered"]]
    /\ UNCHANGED <<records, stop, timer, task, decision, place, lease, told, passed, faults>>

\* Defect: an answer is recorded whatever the history ends with.
RecordAfterEnd ==
    /\ lease.pc = "record"
    /\ answers' = IF answers = <<>> THEN Append(answers, decision) ELSE answers
    /\ SetPass(IF resume_is_closed THEN "seal" ELSE "unsubscribe")
    /\ hand' = [hand EXCEPT ![lease.by].delivery = "Resumed"]
    /\ UNCHANGED <<asleep, wakes, asked, ended, stop, timer, task, events, told, passed, faults>>

\* The answer is recorded unless it is there or the run's conclusion is; a
\* concluded run is finished instead.
record_delivery ==
    /\ lease.pc = "record"
    /\ answers' = IF answers = <<>> /\ ~resume_is_closed THEN Append(answers, decision) ELSE answers
    /\ SetPass(IF resume_is_closed THEN "seal" ELSE "unsubscribe")
    /\ hand' = [hand EXCEPT ![lease.by].delivery = IF resume_is_closed THEN "Buffered" ELSE "Resumed"]
    /\ UNCHANGED <<asleep, wakes, asked, ended, stop, timer, task, events, told, passed, faults>>

\* The decider's task is completed; one that left pending meanwhile is
\* reported, unless the run was resumed with this answer.
settle_decided(p) ==
    /\ hand[p].pc = "settle"
    /\ settle("Completed")
    /\ told' = [told EXCEPT ![p] =
                    IF task.state \notin Pending /\ hand[p].delivery # "Resumed"
                    THEN "NotPending" ELSE hand[p].delivery]
    /\ hand' = [hand EXCEPT ![p] = Idle]
    /\ UNCHANGED <<records, stop, timer, events, lease, passed, faults>>

\* An answer on record settles the task as what it is.
settle_answered == settle(IF decision \in Person THEN "Completed" ELSE "Expired")

\* A decider who met an answer already on record: their own, or another's.
duplicate_decision(p) ==
    /\ hand[p].pc = "duplicate"
    /\ settle_answered
    /\ told' = [told EXCEPT ![p] = IF decision = p THEN "Own" ELSE "AlreadyAnswered"]
    /\ hand' = [hand EXCEPT ![p] = Idle]
    /\ UNCHANGED <<records, stop, timer, events, lease, passed, faults>>

-----------------------------------------------------------------------------
(* The worklist: the sweep *)

\* The overdue listing is read; what it names is acted on later.
overdue ==
    /\ hand[Tasks].pc = "idle"
    /\ "window" \in passed /\ task.state \in AwaitsExpiry
    /\ SetHand(Tasks, IF policy = "Escalate" THEN "note" ELSE "answer")
    /\ UNCHANGED <<records, stop, timer, task, events, lease, told, passed, faults>>

\* Noted first; then the audience is widened and the reservation cleared, if
\* the task is still pending.
escalate ==
    /\ hand[Tasks].pc = "note"
    /\ task' = IF task.state \in Pending
               THEN [state |-> "Escalated", assignee |-> None, wide |-> TRUE] ELSE task
    /\ SetHand(Tasks, "idle")
    /\ UNCHANGED <<records, stop, timer, events, lease, told, passed, faults>>

\* The declared policy was applied.
settle_expired ==
    /\ hand[Tasks].pc = "settle"
    /\ settle("Expired")
    /\ hand' = [hand EXCEPT ![Tasks] = Idle]
    /\ UNCHANGED <<records, stop, timer, events, lease, told, passed, faults>>

\* An answer was on record before the policy's: the task is settled to it.
duplicate_expiry ==
    /\ hand[Tasks].pc = "duplicate"
    /\ settle_answered
    /\ hand' = [hand EXCEPT ![Tasks] = Idle]
    /\ UNCHANGED <<records, stop, timer, events, lease, told, passed, faults>>

\* The redelivery pass finds a wait holding a claimed decision.
redeliver_claimed ==
    /\ hand[Redelivery].pc = "idle"
    /\ waiting /\ place = "held" /\ ended # "sealed"
    /\ SetHand(Redelivery, "wake")
    /\ UNCHANGED <<records, stop, timer, task, events, lease, told, passed, faults>>

\* The recovery pass takes over a run whose owner died.
recover_abandoned ==
    /\ lease.pc = "dead" /\ hand[Starter].pc = "idle"
    /\ lease' = [pc |-> "plan", by |-> Starter]
    /\ SetHand(Starter, "pass")
    /\ UNCHANGED <<records, stop, timer, task, events, told, passed, faults>>

-----------------------------------------------------------------------------
(* Operators, time and faults *)

\* A stop request; an idle run is driven to its end by the caller.
request_cancel ==
    /\ setting.stoppable /\ ~stop /\ ~resume_is_closed
    /\ stop' = TRUE
    /\ IF lease.pc = "none" /\ hand[Starter].pc = "idle"
       THEN lease' = [pc |-> "plan", by |-> Starter] /\ SetHand(Starter, "pass")
       ELSE UNCHANGED <<lease, hand>>
    /\ UNCHANGED <<records, timer, task, events, told, passed, faults>>

\* An instant passes; a timer's claim lapses.
Tick ==
    /\ \/ /\ timer # "none" /\ "wake" \notin passed
          /\ passed' = passed \cup {"wake"} /\ UNCHANGED timer
       \/ /\ task.state # "None" /\ "window" \notin passed
          /\ passed' = passed \cup {"window"} /\ UNCHANGED timer
       \/ /\ timer = "claimed" /\ hand[Timers].pc = "idle"
          /\ timer' = "lapsed" /\ UNCHANGED passed
    /\ UNCHANGED <<records, stop, task, events, lease, calls, faults>>

\* The process of an actor dies: its call is lost, and its pass leaves the
\* lease owned by the dead.
Crash(a) ==
    /\ faulted < setting.faults /\ hand[a].pc # "idle"
    /\ faulted' = faulted + 1
    /\ hand' = [hand EXCEPT ![a] = Idle]
    /\ lease' = IF hand[a].pc = "pass" /\ lease.by = a THEN [pc |-> "dead", by |-> None] ELSE lease
    /\ UNCHANGED <<records, stop, timer, task, events, told, passed, ghost>>

\* A live pass is slower than its lease: its next append would be refused, but
\* a store call it is about to make is not fenced.
Lapse ==
    /\ faulted < setting.faults /\ lease.pc \in Unfenced /\ ghost = None
    /\ faulted' = faulted + 1
    /\ ghost' = lease.pc
    /\ lease' = [pc |-> "dead", by |-> None]
    /\ hand' = [hand EXCEPT ![lease.by].pc = IF lease.by \in Person \cup {Tasks} THEN "settle" ELSE "idle"]
    /\ UNCHANGED <<records, stop, timer, task, events, told, passed>>

GhostWrites ==
    /\ ghost # None
    /\ ghost' = None
    /\ IF ghost = "arm" THEN arm /\ UNCHANGED task
       ELSE IF ghost = "disarm" THEN timer' = "none" /\ UNCHANGED task
       ELSE open /\ UNCHANGED timer
    /\ UNCHANGED <<records, stop, events, lease, calls, passed, faulted>>

-----------------------------------------------------------------------------
Pass ==
    \/ conclude \/ sleep_until \/ arm_timer \/ announce_wait \/ subscribe \/ open_task
    \/ claim_for \/ append_answer \/ unsubscribe \/ seal \/ disarm_run
    \/ unsubscribe_run \/ withdraw_run \/ release_lease
    \/ record_wake \/ disarm \/ record_delivery

\* A person's call, the sweep's answer to an overdue task, or a redelivery.
Deliver(a) == answer_task(a) \/ match_waiter(a) \/ acquire_to_deliver(a) \/ park_wait(a)

TaskPass == overdue \/ escalate \/ settle_expired \/ duplicate_expiry \/ Deliver(Tasks)
TimerPass == claim_due \/ acquire_to_fire
RedeliveryPass == redeliver_claimed \/ Deliver(Redelivery)
Decide(p) == settle_decided(p) \/ duplicate_decision(p) \/ Deliver(p)

Moves ==
    \/ Pass \/ TimerPass \/ TaskPass \/ RedeliveryPass \/ recover_abandoned
    \/ \E p \in Person : decide_task(p) \/ Decide(p) \/ release(p)
    \/ \E p, q \in Person : take_over(p, q)
    \/ request_cancel \/ Tick \/ Lapse \/ GhostWrites
    \/ \E a \in Actor : Crash(a)

Next == Moves /\ UNCHANGED setting
Spec == Init /\ [][Next]_vars

\* Tasks the async runtime can poll are polled, the sweep ticks, and clocks
\* advance.  Nothing is assumed of people and operators, nor of a slow pass.
FairSpec ==
    /\ Spec
    /\ WF_state(Pass) /\ WF_state(TimerPass) /\ WF_state(TaskPass) /\ WF_state(RedeliveryPass)
    /\ WF_state(recover_abandoned) /\ WF_state(Tick)
    /\ \A p \in Person : WF_state(Decide(p))

-----------------------------------------------------------------------------
(* Properties *)

\* fire_one: however often a timer is claimed and re-armed, and whoever dies in
\* between, its run is woken once.
WokenOnce == wakes <= 1

\* A task has one answer: what the run acted on is the first decision recorded,
\* by whichever path and after however many deliveries it arrived.
OneAnswer == answers # <<>> => answers = <<decision>>

\* settle_answered: a settled task says what its answer was: completed by a
\* person, expired by its policy; and a withdrawn one was never answered.
SettledAsDecided ==
    /\ task.state = "Completed" => decision \in Person
    /\ task.state = "Expired" => decision = Tasks
    /\ task.state = "Withdrawn" => answers = <<>> /\ ended = "sealed"

\* A run's answer comes from its policy, a candidate, or somebody the
\* escalation added.
AnsweredByTheEligible ==
    \A p \in Person : answers = <<p>> => p \in Candidate \/ task.wide

\* decide_task: a decider told that the run resumed is the one it obeyed, and
\* one told that another answered first is not.
DecidersAreToldTheTruth ==
    \A p \in Person :
        /\ told[p] \in {"Resumed", "Own"} => decision = p
        /\ told[p] = "Resumed" => answers = <<p>>
        /\ told[p] = "AlreadyAnswered" => answers # <<p>>

\* Nothing is delivered to a run whose conclusion is durable.
NothingAfterTheEnd == [][resume_is_closed => UNCHANGED <<wakes, answers>>]_vars

\* Every sleep ends, whatever dies between the announcement, the arming, the
\* claim and the wake.
SleepEnds == asleep ~> wakes > 0 \/ resume_is_closed

\* A task with a policy is settled once its window has passed, also when the
\* settlement of its answer was lost or its run has ended.
TaskIsSettled ==
    task.state \in Pending /\ policy # "Escalate" ~> task.state \notin Pending

\* A decision claimed for the run's wait reaches the run.
ClaimedDecisionArrives == place = "held" ~> answers # <<>> \/ resume_is_closed

\* decide_task: "a decision no waiting run received is not one": a decider who
\* was refused was not obeyed.
RefusedIsNotApplied == \A p \in Person : told[p] = "NotPending" => answers # <<p>>

\* answer_task: a recorded decision resumes the run that waits for it.
DecisionArrives == decision # None ~> answers # <<>> \/ resume_is_closed

\* One wake and one answer, from somebody who may give it, and everybody told
\* the same of it.
DecisionStands ==
    /\ TypeOK /\ WokenOnce /\ OneAnswer /\ SettledAsDecided
    /\ AnsweredByTheEligible /\ DecidersAreToldTheTruth

\* Every sleep, overdue task and claimed decision comes to its end.
WaitsEnd == SleepEnds /\ TaskIsSettled /\ ClaimedDecisionArrives

-----------------------------------------------------------------------------
(* Why a decision stands: the inductive invariant *)

\* The lease is held for exactly the actor whose call is in a pass, and the
\* phases of the sweep are only ever in calls of their own.
PassHasACaller ==
    /\ lease.pc \notin {"none", "dead"} => lease.by \in Actor /\ hand[lease.by].pc = "pass"
    /\ \A a \in Actor : hand[a].pc = "pass" => lease.by = a /\ lease.pc \notin {"none", "dead"}
    /\ hand[Timers].pc \in {"idle", "due", "pass"}
    /\ hand[Starter].pc \in {"idle", "pass"}
    /\ hand[Redelivery].pc \in {"idle", "wake", "pass"}

\* There is one decision, of whoever's call went on past recording it, and a
\* delivery in progress delivers it.
FirstDecision ==
    /\ place = "none" <=> decision = None
    /\ answers = <<>> \/ (answers = <<decision>> /\ decision # None)
    /\ \A a \in Person \cup {Tasks} :
            hand[a].pc \in {"offer", "wake", "pass", "settle"} => decision = a
    /\ \A a \in Person \cup {Tasks} : hand[a].pc = "duplicate" => decision # None
    /\ hand[Redelivery].pc = "wake" => decision # None
    /\ lease.pc \in {"record", "append"} => decision # None

\* A pass asks only before there is an answer or an end, and tidies up after.
PassKnowsTheEnd ==
    /\ lease.pc \in {"subscribe", "open", "claim", "append"} => answers = <<>> /\ ended = "no"
    /\ lease.pc = "seal" => ended # "no"
    /\ lease.pc \in {"disarmRun", "unsubscribeRun", "withdrawRun", "release"} => ended = "sealed"

\* Who is answering was eligible when they set out, and stays so.
DeciderWasEligible ==
    /\ \A p \in Person : hand[p].pc = "answer" => p \in Candidate \/ task.wide
    /\ decision \in Person => decision \in Candidate \/ task.wide

\* What a decider heard, or is about to, is settled.
ToldAsDecided ==
    \A p \in Person :
        /\ hand[p].delivery = "Resumed" => answers # <<>>
        /\ told[p] \in {"Resumed", "Own"} => decision = p
        /\ told[p] = "Resumed" => answers # <<>>
        /\ told[p] = "AlreadyAnswered" => decision \notin {None, p}

WorkInv ==
    /\ TypeOK /\ WokenOnce /\ SettledAsDecided
    /\ PassHasACaller /\ FirstDecision /\ PassKnowsTheEnd /\ DeciderWasEligible /\ ToldAsDecided

=============================================================================
