--------------------------- MODULE WorklistProofs ---------------------------
(***************************************************************************)
(* The worklist for any number of people, any policy and any number of     *)
(* deaths and lapsed leases: a run is woken once and answered once, by     *)
(* somebody who may answer, and nothing is delivered past its end.         *)
(***************************************************************************)
EXTENDS Worklist, TLAPS

Hands ==
    [pc : {"idle", "due", "note", "answer", "offer", "wake", "pass", "settle", "duplicate"},
     delivery : {"Resumed", "Buffered", None}]
Leases == [pc : PassPoints, by : Actor \cup {None}]
Rows == [state : TaskStates, assignee : Person \cup {None}, wide : BOOLEAN]

-----------------------------------------------------------------------------
(* What the small updates do, field by field *)

LEMMA SetHandEffect ==
    ASSUME hand \in [Actor -> Hands], NEW a \in Actor,
           NEW pc \in {"idle", "due", "note", "answer", "offer", "wake", "pass", "settle",
                       "duplicate"},
           SetHand(a, pc)
    PROVE  /\ hand' \in [Actor -> Hands]
           /\ hand'[a].pc = pc /\ hand'[a].delivery = hand[a].delivery
           /\ \A b \in Actor \ {a} : hand'[b] = hand[b]
<1> DEFINE h == [hand[a] EXCEPT !.pc = pc]
<1>1. hand[a] \in Hands
  OBVIOUS
<1>2. h \in Hands /\ h.pc = pc /\ h.delivery = hand[a].delivery
  BY <1>1 DEF Hands
<1>3. hand' = [hand EXCEPT ![a] = h]
  BY DEF SetHand
<1> HIDE DEF h
<1> QED
  BY <1>2, <1>3

\* A hand replaced as a whole.
LEMMA HandEffect ==
    ASSUME hand \in [Actor -> Hands], NEW a \in Actor, NEW h \in Hands,
           hand' = [hand EXCEPT ![a] = h]
    PROVE  /\ hand' \in [Actor -> Hands]
           /\ hand'[a] = h
           /\ \A b \in Actor \ {a} : hand'[b] = hand[b]
OBVIOUS

LEMMA IdleFacts == Idle \in Hands /\ Idle.pc = "idle" /\ Idle.delivery = None
BY DEF Idle, Hands

LEMMA SetPassEffect ==
    ASSUME lease \in Leases, NEW pc \in PassPoints, SetPass(pc)
    PROVE  lease' \in Leases /\ lease'.pc = pc /\ lease'.by = lease.by
BY DEF SetPass, Leases

LEMMA NoPassFacts == NoPass \in Leases /\ NoPass.pc = "none"
BY DEF NoPass, Leases, PassPoints

\* A pending task settles and keeps its assignee and its audience.
LEMMA SettleEffect ==
    ASSUME task \in Rows, NEW to \in TaskStates, settle(to)
    PROVE  /\ task' \in Rows /\ task'.wide = task.wide /\ task'.assignee = task.assignee
           /\ task'.state = IF task.state \in Pending THEN to ELSE task.state
BY DEF settle, Rows

LEMMA OpenEffect ==
    ASSUME task \in Rows, open
    PROVE  /\ task' \in Rows /\ task'.wide = task.wide /\ task'.assignee = task.assignee
           /\ task'.state = IF task.state = "None" THEN "Open" ELSE task.state
BY DEF open, Rows, TaskStates, Pending

LEMMA TakenEffect ==
    ASSUME task \in Rows, NEW p \in Person, task' = Taken(p)
    PROVE  /\ task' \in Rows /\ task'.wide = task.wide /\ task'.assignee = p
           /\ task'.state = "Claimed"
BY DEF Taken, Rows, TaskStates, Pending

\* The pieces of the invariant, for citing.
LEMMA InvParts ==
    ASSUME WorkInv
    PROVE  /\ TypeOK /\ WokenOnce /\ SettledAsDecided
           /\ PassHasACaller /\ FirstDecision /\ PassKnowsTheEnd
           /\ DeciderWasEligible /\ ToldAsDecided
           /\ hand \in [Actor -> Hands] /\ lease \in Leases /\ task \in Rows
BY DEF WorkInv, TypeOK, Hands, Leases, Rows

LEMMA Names ==
    /\ Person \subseteq Actor /\ {Tasks, Timers, Redelivery, Starter} \subseteq Actor
    /\ Tasks \notin Person /\ Timers \notin Person /\ Redelivery \notin Person
    /\ Starter \notin Person /\ None \notin Person /\ None # Tasks
    /\ Tasks # Timers /\ Tasks # Redelivery /\ Tasks # Starter
    /\ Timers # Redelivery /\ Timers # Starter /\ Redelivery # Starter
    /\ Actor = Person \cup {Tasks, Timers, Redelivery, Starter}
    /\ None \notin {"Resumed", "Buffered", "Own", "AlreadyAnswered", "NotPending"}
    /\ None \notin Actor
BY WorklistAssumption DEF Actor, Sweep, Tasks, Timers, Redelivery, Starter

-----------------------------------------------------------------------------
(* The pass *)

\* Steps of a pass that record nothing a decision rests on.
Bookkeeping ==
    sleep_until \/ disarm_run \/ disarm \/ record_wake \/ conclude \/ seal

LEMMA BookkeepingKeeps ==
    ASSUME WorkInv, UNCHANGED setting, Bookkeeping
    PROVE  WorkInv'
<1>0. /\ TypeOK /\ WokenOnce /\ SettledAsDecided
      /\ PassHasACaller /\ FirstDecision /\ PassKnowsTheEnd
      /\ DeciderWasEligible /\ ToldAsDecided /\ lease \in Leases
  BY InvParts
<1>1. /\ UNCHANGED <<setting, asked, answers, stop, task, events, calls, passed, faults>>
      /\ lease' \in Leases /\ lease'.by = lease.by
      /\ asleep' \in BOOLEAN /\ timer' \in {"none", timer}
      /\ wakes' \in 0 .. 1
      /\ ended' \in {"no", "concluded", "sealed"}
      /\ ended = "sealed" => ended' = "sealed"
      /\ ended # "no" => ended' # "no"
      /\ lease.pc \notin {"none", "dead"}
      /\ lease'.pc \in {"seal", "arm", "unsubscribeRun", "plan", "disarm", "disarmRun"}
      /\ lease'.pc = "seal" => ended' # "no"
      /\ lease'.pc \in {"disarmRun", "unsubscribeRun"} => ended' = "sealed"
  <2> USE <1>0 DEF PassPoints, Unfenced
  <2>1. CASE sleep_until
    BY <2>1, SetPassEffect DEF sleep_until, TypeOK, WokenOnce
  <2>2. CASE disarm_run
    BY <2>2, SetPassEffect DEF disarm_run, TypeOK, WokenOnce, records, PassKnowsTheEnd
  <2>3. CASE disarm
    BY <2>3, SetPassEffect DEF disarm, TypeOK, WokenOnce, records
  <2>4. CASE record_wake
    BY <2>4, SetPassEffect DEF record_wake, TypeOK, WokenOnce
  <2>5. CASE conclude
    BY <2>5, SetPassEffect DEF conclude, TypeOK, WokenOnce, resume_is_closed
  <2>6. CASE seal
    BY <2>6, SetPassEffect DEF seal, TypeOK, WokenOnce
  <2> QED
    BY <2>1, <2>2, <2>3, <2>4, <2>5, <2>6 DEF Bookkeeping
<1>2. TypeOK' /\ WokenOnce'
  BY <1>0, <1>1 DEF TypeOK, WokenOnce, Leases, events, calls, faults
<1>3. SettledAsDecided'
  BY <1>0, <1>1 DEF SettledAsDecided, events
<1>4. PassHasACaller'
  BY <1>0, <1>1 DEF PassHasACaller, calls
<1>5. FirstDecision'
  BY <1>0, <1>1 DEF FirstDecision, calls, events
<1>6. PassKnowsTheEnd'
  BY <1>0, <1>1 DEF PassKnowsTheEnd
<1>7. DeciderWasEligible' /\ ToldAsDecided'
  BY <1>0, <1>1 DEF DeciderWasEligible, ToldAsDecided, calls, events
<1> QED
  BY <1>2, <1>3, <1>4, <1>5, <1>6, <1>7 DEF WorkInv

\* Steps of a pass on the task's wait.
WaitSteps ==
    announce_wait \/ subscribe \/ open_task \/ append_answer \/ unsubscribe \/ unsubscribe_run
        \/ withdraw_run

LEMMA WaitStepsKeep ==
    ASSUME WorkInv, UNCHANGED setting, WaitSteps
    PROVE  WorkInv'
<1>0. /\ TypeOK /\ WokenOnce /\ SettledAsDecided
      /\ PassHasACaller /\ FirstDecision /\ PassKnowsTheEnd
      /\ DeciderWasEligible /\ ToldAsDecided /\ lease \in Leases /\ task \in Rows
  BY InvParts
<1>1. /\ UNCHANGED <<setting, asleep, wakes, ended, stop, timer, decision, calls, passed, faults>>
      /\ lease' \in Leases /\ lease'.by = lease.by /\ lease.pc \notin {"none", "dead"}
      /\ asked' \in BOOLEAN /\ waiting' \in BOOLEAN
      /\ place' \in {"none", "live", "held", "read"} /\ (place' = "none" <=> place = "none")
      /\ task' \in Rows /\ task'.wide = task.wide /\ task'.assignee = task.assignee
      /\ \/ task'.state = task.state
         \/ task.state = "None" /\ task'.state = "Open"
         \/ task'.state = "Withdrawn" /\ answers = <<>> /\ answers' = <<>> /\ ended = "sealed"
      /\ \/ answers' = answers
         \/ /\ answers = <<>> /\ answers' = <<decision>> /\ decision # None /\ ended = "no"
            /\ lease'.pc = "unsubscribe"
      /\ lease'.pc \in {"subscribe", "open", "claim", "unsubscribe", "plan", "withdrawRun", "release"}
      /\ lease'.pc \in {"subscribe", "open", "claim"} => answers' = <<>> /\ ended = "no"
      /\ lease'.pc \in {"withdrawRun", "release"} => ended = "sealed"
  <2> USE <1>0 DEF PassPoints, Unfenced
  <2>1. CASE announce_wait
    BY <2>1, SetPassEffect DEF announce_wait, TypeOK, resume_is_closed, events
  <2>2. CASE subscribe
    BY <2>2, SetPassEffect DEF subscribe, TypeOK, records, PassKnowsTheEnd
  <2>3. CASE open_task
    BY <2>3, SetPassEffect, OpenEffect DEF open_task, TypeOK, records, events, PassKnowsTheEnd
  <2>4. CASE append_answer
    <3>1. answers = <<>> /\ decision # None /\ ended = "no"
      BY <2>4 DEF append_answer, PassKnowsTheEnd, FirstDecision
    <3>2. Append(<<>>, decision) = <<decision>>
      OBVIOUS
    <3> QED
      BY <2>4, <3>1, <3>2, SetPassEffect DEF append_answer, TypeOK, events
  <2>5. CASE unsubscribe
    <3>1. lease' \in Leases /\ lease'.by = lease.by /\ lease'.pc = "plan"
      BY <2>5, SetPassEffect DEF unsubscribe
    <3>2. /\ place' \in {"none", "live", "held", "read"} /\ (place' = "none" <=> place = "none")
          /\ asked \in BOOLEAN /\ waiting' \in BOOLEAN
      BY <2>5 DEF unsubscribe, TypeOK
    <3> QED
      BY <2>5, <3>1, <3>2 DEF unsubscribe, records
  <2>6. CASE unsubscribe_run
    <3>1. lease' \in Leases /\ lease'.by = lease.by /\ lease'.pc = "withdrawRun"
      BY <2>6, SetPassEffect DEF unsubscribe_run
    <3>2. /\ place' \in {"none", "live", "held", "read"} /\ (place' = "none" <=> place = "none")
          /\ asked \in BOOLEAN /\ waiting' \in BOOLEAN
      BY <2>6 DEF unsubscribe_run, TypeOK
    <3> QED
      BY <2>6, <3>1, <3>2 DEF unsubscribe_run, records, PassKnowsTheEnd
  <2>7. CASE withdraw_run
    <3>1. CASE asked /\ answers = <<>>
      BY <2>7, <3>1, SetPassEffect, SettleEffect
         DEF withdraw_run, TypeOK, records, events, PassKnowsTheEnd, TaskStates
    <3>2. CASE ~(asked /\ answers = <<>>)
      BY <2>7, <3>2, SetPassEffect DEF withdraw_run, TypeOK, records, events, PassKnowsTheEnd
    <3> QED
      BY <3>1, <3>2
  <2> QED
    BY <2>1, <2>2, <2>3, <2>4, <2>5, <2>6, <2>7 DEF WaitSteps
<1>2. TypeOK' /\ WokenOnce'
  <2>1. answers' \in Seq(Person \cup {Tasks}) /\ Len(answers') <= 2
    <3>1. CASE answers' = answers
      BY <1>0, <3>1 DEF TypeOK
    <3>2. CASE answers' = <<decision>> /\ decision # None
      <4>1. decision \in Person \cup {Tasks}
        BY <1>0, <3>2 DEF TypeOK
      <4>2. <<decision>> \in Seq(Person \cup {Tasks}) /\ Len(<<decision>>) = 1
        BY <4>1
      <4> QED
        BY <3>2, <4>2
    <3> QED
      BY <1>1, <3>1, <3>2
  <2> QED
    BY <1>0, <1>1, <2>1 DEF TypeOK, WokenOnce, Leases, Rows, calls, faults
<1>3. SettledAsDecided'
  BY <1>0, <1>1 DEF SettledAsDecided
<1>4. PassHasACaller'
  BY <1>0, <1>1 DEF PassHasACaller, calls
<1>5. FirstDecision'
  BY <1>0, <1>1 DEF FirstDecision, calls
<1>6. PassKnowsTheEnd'
  BY <1>0, <1>1 DEF PassKnowsTheEnd
<1>7. DeciderWasEligible'
  BY <1>0, <1>1 DEF DeciderWasEligible, calls
<1>8. ToldAsDecided'
  BY <1>0, <1>1 DEF ToldAsDecided, calls
<1> QED
  BY <1>2, <1>3, <1>4, <1>5, <1>6, <1>7, <1>8 DEF WorkInv

\* The end of a pass, seen from its caller.
LEMMA PassEndsEffect ==
    ASSUME WorkInv, PassEnds, lease.pc \notin {"none", "dead"}
    PROVE  /\ lease.by \in Actor /\ hand[lease.by].pc = "pass"
           /\ lease' \in Leases /\ lease'.pc = "none"
           /\ hand' \in [Actor -> Hands]
           /\ hand'[lease.by].delivery = hand[lease.by].delivery
           /\ hand'[lease.by].pc = IF lease.by \in Person \cup {Tasks} THEN "settle" ELSE "idle"
           /\ \A b \in Actor \ {lease.by} : hand'[b] = hand[b]
<1>1. PassHasACaller /\ hand \in [Actor -> Hands]
  BY InvParts
<1>2. PICK a \in Actor : a = lease.by
  BY <1>1 DEF PassHasACaller
<1>3. SetHand(a, IF a \in Person \cup {Tasks} THEN "settle" ELSE "idle")
  BY <1>2 DEF PassEnds
<1>4. /\ hand' \in [Actor -> Hands]
      /\ hand'[a].pc = IF a \in Person \cup {Tasks} THEN "settle" ELSE "idle"
      /\ hand'[a].delivery = hand[a].delivery
      /\ \A b \in Actor \ {a} : hand'[b] = hand[b]
  <2>1. CASE a \in Person \cup {Tasks}
    BY <1>1, <1>3, <2>1, SetHandEffect
  <2>2. CASE a \notin Person \cup {Tasks}
    BY <1>1, <1>3, <2>2, SetHandEffect
  <2> QED
    BY <2>1, <2>2
<1> QED
  BY <1>1, <1>2, <1>4, NoPassFacts DEF PassEnds, PassHasACaller

\* A pass that suspends or has finished hands the lease back.
PassSteps == arm_timer \/ claim_for \/ release_lease

LEMMA PassStepsKeep ==
    ASSUME WorkInv, UNCHANGED setting, PassSteps
    PROVE  WorkInv'
<1>0. /\ TypeOK /\ WokenOnce /\ SettledAsDecided
      /\ PassHasACaller /\ FirstDecision /\ PassKnowsTheEnd
      /\ DeciderWasEligible /\ ToldAsDecided /\ lease \in Leases
  BY InvParts
<1>1. CASE claim_for /\ place \in {"live", "held"}
  <2>1. /\ UNCHANGED <<setting, records, stop, timer, task, waiting, decision, calls, passed, faults>>
        /\ lease' \in Leases /\ lease'.by = lease.by /\ lease'.pc = "append" /\ lease.pc = "claim"
        /\ place' = "held" /\ decision # None
    BY <1>0, <1>1, SetPassEffect DEF claim_for, calls, PassPoints, Unfenced, FirstDecision
  <2>2. TypeOK' /\ WokenOnce'
    BY <1>0, <2>1 DEF TypeOK, WokenOnce, Leases, records, calls, faults
  <2>3. SettledAsDecided' /\ PassHasACaller' /\ PassKnowsTheEnd'
    BY <1>0, <2>1 DEF SettledAsDecided, PassHasACaller, PassKnowsTheEnd, records, calls
  <2>4. FirstDecision'
    BY <1>0, <1>1, <2>1 DEF FirstDecision, records, calls
  <2>5. DeciderWasEligible' /\ ToldAsDecided'
    BY <1>0, <2>1 DEF DeciderWasEligible, ToldAsDecided, records, calls
  <2> QED
    BY <2>2, <2>3, <2>4, <2>5 DEF WorkInv
<1>2. CASE arm_timer \/ release_lease \/ (claim_for /\ place \notin {"live", "held"})
  <2>1. /\ UNCHANGED <<setting, records, stop, task, events, told, passed, faults>>
        /\ PassEnds /\ lease.pc \notin {"none", "dead"}
        /\ timer' \in {"armed", timer}
    <3>1. CASE arm_timer
      BY <3>1 DEF arm_timer, arm
    <3>2. CASE release_lease
      BY <3>2 DEF release_lease
    <3>3. CASE claim_for /\ place \notin {"live", "held"}
      BY <3>3 DEF claim_for, events
    <3> QED
      BY <1>2, <3>1, <3>2, <3>3
  <2>2. PICK a \in Actor : a = lease.by
    BY <2>1, PassEndsEffect
  <2>3. /\ hand[a].pc = "pass"
        /\ lease' \in Leases /\ lease'.pc = "none"
        /\ hand' \in [Actor -> Hands]
        /\ hand'[a].delivery = hand[a].delivery
        /\ hand'[a].pc = IF a \in Person \cup {Tasks} THEN "settle" ELSE "idle"
        /\ \A b \in Actor \ {a} : hand'[b] = hand[b]
    BY <2>1, <2>2, PassEndsEffect
  <2>4. TypeOK' /\ WokenOnce'
    BY <1>0, <2>1, <2>3 DEF TypeOK, WokenOnce, Leases, Hands, records, events, faults
  <2>5. SettledAsDecided' /\ PassKnowsTheEnd'
    BY <1>0, <2>1, <2>3 DEF SettledAsDecided, PassKnowsTheEnd, records, events
  <2>6. PassHasACaller'
    BY <1>0, <2>2, <2>3, Names DEF PassHasACaller
  <2>7. FirstDecision'
    BY <1>0, <2>1, <2>3, Names DEF FirstDecision, records, events
  <2>8. DeciderWasEligible'
    BY <1>0, <2>1, <2>3, Names DEF DeciderWasEligible, events
  <2>9. ToldAsDecided'
    BY <1>0, <2>1, <2>3, Names DEF ToldAsDecided, records, events
  <2> QED
    BY <2>4, <2>5, <2>6, <2>7, <2>8, <2>9 DEF WorkInv
<1> QED
  BY <1>1, <1>2 DEF PassSteps

\* The delivery's record: the decision, unless an answer or the end is there.
LEMMA RecordDeliveryKeeps ==
    ASSUME WorkInv, UNCHANGED setting, record_delivery
    PROVE  WorkInv'
<1>0. /\ TypeOK /\ WokenOnce /\ SettledAsDecided
      /\ PassHasACaller /\ FirstDecision /\ PassKnowsTheEnd
      /\ DeciderWasEligible /\ ToldAsDecided /\ lease \in Leases /\ hand \in [Actor -> Hands]
  BY InvParts
<1>1. PICK a \in Actor : a = lease.by /\ hand[a].pc = "pass"
  BY <1>0 DEF record_delivery, PassHasACaller
<1>2. /\ hand' \in [Actor -> Hands] /\ hand'[a].pc = "pass"
      /\ hand'[a].delivery = IF resume_is_closed THEN "Buffered" ELSE "Resumed"
      /\ \A b \in Actor \ {a} : hand'[b] = hand[b]
  <2> DEFINE h == [hand[a] EXCEPT !.delivery = IF resume_is_closed THEN "Buffered" ELSE "Resumed"]
  <2>1. hand[a] \in Hands
    BY <1>0
  <2>2. /\ h \in Hands /\ h.pc = "pass"
        /\ h.delivery = IF resume_is_closed THEN "Buffered" ELSE "Resumed"
    BY <1>1, <2>1 DEF Hands
  <2>3. hand' = [hand EXCEPT ![a] = h]
    BY <1>1 DEF record_delivery
  <2> HIDE DEF h
  <2> QED
    BY <1>0, <2>2, <2>3, HandEffect
<1>3. /\ UNCHANGED <<setting, asleep, wakes, asked, ended, stop, timer, task, events, told, passed, faults>>
      /\ lease' \in Leases /\ lease'.by = a /\ lease.pc = "record"
      /\ lease'.pc = IF ended # "no" THEN "seal" ELSE "unsubscribe"
      /\ decision # None
      /\ answers' = IF answers = <<>> /\ ended = "no" THEN <<decision>> ELSE answers
  <2>1. Append(<<>>, decision) = <<decision>>
    OBVIOUS
  <2>2. lease' \in Leases /\ lease'.by = a /\ lease'.pc = IF ended # "no" THEN "seal" ELSE "unsubscribe"
    BY <1>0, <1>1, SetPassEffect DEF record_delivery, resume_is_closed, PassPoints, Unfenced
  <2> QED
    BY <1>0, <2>1, <2>2 DEF record_delivery, resume_is_closed, FirstDecision
<1>4. TypeOK' /\ WokenOnce'
  <2>1. answers' \in Seq(Person \cup {Tasks}) /\ Len(answers') <= 2
    <3>1. CASE answers' = answers
      BY <1>0, <3>1 DEF TypeOK
    <3>2. CASE answers' = <<decision>>
      <4>1. decision \in Person \cup {Tasks}
        BY <1>0, <1>3 DEF TypeOK
      <4>2. <<decision>> \in Seq(Person \cup {Tasks}) /\ Len(<<decision>>) = 1
        BY <4>1
      <4> QED
        BY <3>2, <4>2
    <3> QED
      BY <1>3, <3>1, <3>2
  <2> QED
    BY <1>0, <1>2, <1>3, <2>1 DEF TypeOK, WokenOnce, Leases, Hands, events, faults
<1>5. SettledAsDecided'
  BY <1>0, <1>3 DEF SettledAsDecided, events
<1>6. PassHasACaller'
  BY <1>0, <1>1, <1>2, <1>3, Names DEF PassHasACaller
<1>7. FirstDecision'
  BY <1>0, <1>1, <1>2, <1>3, Names DEF FirstDecision, events
<1>8. PassKnowsTheEnd'
  BY <1>0, <1>3 DEF PassKnowsTheEnd
<1>9. DeciderWasEligible'
  BY <1>0, <1>1, <1>2, <1>3, Names DEF DeciderWasEligible, events
<1>10. ToldAsDecided'
  <2>1. answers # <<>> => answers' # <<>>
    BY <1>3
  <2>2. ended = "no" => answers' # <<>>
    BY <1>3
  <2>3. ~resume_is_closed => ended = "no"
    BY DEF resume_is_closed
  <2> QED
    BY <1>0, <1>2, <1>3, <2>1, <2>2, <2>3, Names DEF ToldAsDecided, events
<1> QED
  BY <1>4, <1>5, <1>6, <1>7, <1>8, <1>9, <1>10 DEF WorkInv

-----------------------------------------------------------------------------
(* Calls of one actor *)

\* A call that leaves journal and lease alone: what it must respect.
LEMMA CallKeeps ==
    ASSUME WorkInv, NEW a \in Actor, NEW h \in Hands,
           UNCHANGED <<setting, records, stop, lease, passed, faults>>,
           hand' = [hand EXCEPT ![a] = h], hand[a].pc # "pass", h.pc # "pass",
           h.delivery = "Resumed" => hand[a].delivery = "Resumed",
           h.pc = "due" => a = Timers,
           h.pc = "wake" => a \notin {Timers, Starter},
           h.pc \notin {"idle", "due", "wake"} => a \in Person \cup {Tasks},
           a \in Person \cup {Tasks} /\ h.pc \in {"offer", "wake", "settle"} => decision' = a,
           h.pc \in {"duplicate", "wake"} => decision' # None,
           a \in Person /\ h.pc = "answer" => a \in Candidate \/ task'.wide,
           timer' \in {"none", "armed", "claimed", "lapsed"}, waiting' \in BOOLEAN,
           place' \in {"none", "live", "held", "read"}, place' = "none" <=> decision' = None,
           decision' \in Person \cup {Tasks, None}, decision # None => decision' = decision,
           decision = None /\ decision' \in Person => decision' \in Candidate \/ task'.wide,
           task' \in Rows, task.wide => task'.wide,
           task'.state \in {"None", "Open", "Escalated"} => task'.assignee = None,
           task'.state = "Claimed" => task'.assignee # None,
           task'.state = "Completed" => decision' \in Person,
           task'.state = "Expired" => decision' = Tasks,
           task'.state = "Withdrawn" => task.state = "Withdrawn",
           told' \in [Person -> Verdicts \cup {None}],
           \A p \in Person \ {a} : told'[p] = told[p],
           a \in Person => /\ told'[a] \in {"Resumed", "Own"} => decision' = a
                           /\ told'[a] = "Resumed" => answers # <<>>
                           /\ told'[a] = "AlreadyAnswered" => decision' \notin {None, a}
    PROVE  WorkInv'
<1>0. /\ TypeOK /\ WokenOnce /\ SettledAsDecided
      /\ PassHasACaller /\ FirstDecision /\ PassKnowsTheEnd
      /\ DeciderWasEligible /\ ToldAsDecided /\ hand \in [Actor -> Hands]
  BY InvParts
<1>1. /\ hand' \in [Actor -> Hands] /\ hand'[a] = h
      /\ \A b \in Actor \ {a} : hand'[b] = hand[b]
  BY <1>0, HandEffect
<1>2. TypeOK' /\ WokenOnce'
  BY <1>0, <1>1 DEF TypeOK, WokenOnce, Rows, Hands, records, faults
<1>3. SettledAsDecided' /\ PassKnowsTheEnd'
  BY <1>0 DEF SettledAsDecided, PassKnowsTheEnd, records
<1>4. PassHasACaller'
  BY <1>0, <1>1, Names DEF PassHasACaller, Hands
<1>5. FirstDecision'
  <2>1. /\ \A b \in Person \cup {Tasks} :
             hand'[b].pc \in {"offer", "wake", "pass", "settle"} => decision' = b
        /\ \A b \in Person \cup {Tasks} : hand'[b].pc = "duplicate" => decision' # None
        /\ hand'[Redelivery].pc = "wake" => decision' # None
    BY <1>0, <1>1, Names DEF FirstDecision
  <2>2. /\ answers' = <<>> \/ (answers' = <<decision'>> /\ decision' # None)
        /\ lease'.pc \in {"record", "append"} => decision' # None
    BY <1>0 DEF FirstDecision, records
  <2> QED
    BY <2>1, <2>2 DEF FirstDecision
<1>6. DeciderWasEligible'
  BY <1>0, <1>1, Names DEF DeciderWasEligible
<1>7. ToldAsDecided'
  <2>1. SUFFICES ASSUME NEW p \in Person
                 PROVE  /\ hand'[p].delivery = "Resumed" => answers # <<>>
                        /\ told'[p] \in {"Resumed", "Own"} => decision' = p
                        /\ told'[p] = "Resumed" => answers # <<>>
                        /\ told'[p] = "AlreadyAnswered" => decision' \notin {None, p}
    BY DEF ToldAsDecided, records
  <2>2. hand'[p].delivery = "Resumed" => answers # <<>>
    BY <1>0, <1>1, Names DEF ToldAsDecided
  <2>3. CASE p = a
    BY <2>2, <2>3
  <2>4. CASE p # a
    BY <1>0, <2>2, <2>4, Names DEF ToldAsDecided
  <2> QED
    BY <2>3, <2>4
<1> QED
  BY <1>2, <1>3, <1>4, <1>5, <1>6, <1>7 DEF WorkInv

\* What a call may rely on, said of the stores alone.
LEMMA StoreFacts ==
    ASSUME WorkInv
    PROVE  /\ decision \in Person \cup {Tasks, None} /\ waiting \in BOOLEAN
           /\ place \in {"none", "live", "held", "read"} /\ (place = "none" <=> decision = None)
           /\ timer \in {"none", "armed", "claimed", "lapsed"}
           /\ told \in [Person -> Verdicts \cup {None}]
           /\ hand \in [Actor -> Hands] /\ task \in Rows
           /\ task.state \in {"None", "Open", "Escalated"} => task.assignee = None
           /\ task.state = "Claimed" => task.assignee # None
           /\ task.state = "Completed" => decision \in Person
           /\ task.state = "Expired" => decision = Tasks
           /\ \A p \in Person : /\ told[p] \in {"Resumed", "Own"} => decision = p
                                /\ told[p] = "Resumed" => answers # <<>>
                                /\ told[p] = "AlreadyAnswered" => decision \notin {None, p}
BY InvParts DEF TypeOK, SettledAsDecided, FirstDecision, ToldAsDecided

LEMMA ClaimDueKeeps ==
    ASSUME WorkInv, UNCHANGED setting, claim_due
    PROVE  WorkInv'
<1>1. hand \in [Actor -> Hands] /\ hand[Timers] \in Hands /\ Timers \in Actor
  BY InvParts, Names
<1> DEFINE h == IF ended = "sealed" THEN hand[Timers] ELSE [hand[Timers] EXCEPT !.pc = "due"]
<1>2. h \in Hands /\ h.pc \in {"idle", "due"} /\ h.delivery = hand[Timers].delivery
  BY <1>1 DEF claim_due, Hands
<1>3. /\ hand' = [hand EXCEPT ![Timers] = h] /\ hand[Timers].pc = "idle"
      /\ UNCHANGED <<setting, records, stop, lease, passed, faults, task, waiting, decision, place, told>>
      /\ timer' \in {"none", "claimed"}
  BY <1>1 DEF claim_due, SetHand, events
<1> HIDE DEF h
<1> QED
  BY <1>1, <1>2, <1>3, StoreFacts, CallKeeps, Names, ZenonT(30)

LEMMA OverdueKeeps ==
    ASSUME WorkInv, UNCHANGED setting, overdue
    PROVE  WorkInv'
<1>1. hand \in [Actor -> Hands] /\ hand[Tasks] \in Hands /\ Tasks \in Actor
  BY InvParts, Names
<1> DEFINE h == [hand[Tasks] EXCEPT !.pc = IF policy = "Escalate" THEN "note" ELSE "answer"]
<1>2. h \in Hands /\ h.pc \in {"note", "answer"} /\ h.delivery = hand[Tasks].delivery
  BY <1>1 DEF Hands
<1>3. /\ hand' = [hand EXCEPT ![Tasks] = h] /\ hand[Tasks].pc = "idle"
      /\ UNCHANGED <<setting, records, stop, lease, passed, faults, task, waiting, decision, place, told, timer>>
  BY <1>1 DEF overdue, SetHand, events
<1> HIDE DEF h
<1> QED
  BY <1>1, <1>2, <1>3, StoreFacts, CallKeeps, Names, ZenonT(30)

LEMMA EscalateKeeps ==
    ASSUME WorkInv, UNCHANGED setting, escalate
    PROVE  WorkInv'
<1>1. hand \in [Actor -> Hands] /\ hand[Tasks] \in Hands /\ Tasks \in Actor
  BY InvParts, Names
<1> DEFINE h == [hand[Tasks] EXCEPT !.pc = "idle"]
<1>2. h \in Hands /\ h.pc = "idle" /\ h.delivery = hand[Tasks].delivery
  BY <1>1 DEF Hands
<1>3. /\ hand' = [hand EXCEPT ![Tasks] = h] /\ hand[Tasks].pc = "note"
      /\ UNCHANGED <<setting, records, stop, lease, passed, faults, waiting, decision, place, told, timer>>
  BY <1>1 DEF escalate, SetHand, events
<1>4. /\ task' \in Rows /\ (task.wide => task'.wide)
      /\ \/ task' = task
         \/ task'.state = "Escalated" /\ task'.assignee = None
  BY StoreFacts DEF escalate, Rows, TaskStates, Pending
<1> HIDE DEF h
<1>5. /\ timer' \in {"none", "armed", "claimed", "lapsed"} /\ waiting' \in BOOLEAN
      /\ place' \in {"none", "live", "held", "read"} /\ (place' = "none" <=> decision' = None)
      /\ decision' \in Person \cup {Tasks, None} /\ (decision # None => decision' = decision)
      /\ task' \in Rows /\ (task.wide => task'.wide)
      /\ task'.state \in {"None", "Open", "Escalated"} => task'.assignee = None
      /\ task'.state = "Claimed" => task'.assignee # None
      /\ task'.state = "Completed" => decision' \in Person
      /\ task'.state = "Expired" => decision' = Tasks
      /\ task'.state = "Withdrawn" => task.state = "Withdrawn"
      /\ told' \in [Person -> Verdicts \cup {None}]
      /\ \A q \in Person \ {Tasks} : told'[q] = told[q]
  BY <1>3, <1>4, StoreFacts, Names
<1> QED
  BY <1>1, <1>2, <1>3, <1>5, CallKeeps, Names

LEMMA RedeliverKeeps ==
    ASSUME WorkInv, UNCHANGED setting, redeliver_claimed
    PROVE  WorkInv'
<1>1. hand \in [Actor -> Hands] /\ hand[Redelivery] \in Hands /\ Redelivery \in Actor
  BY InvParts, Names
<1> DEFINE h == [hand[Redelivery] EXCEPT !.pc = "wake"]
<1>2. h \in Hands /\ h.pc = "wake" /\ h.delivery = hand[Redelivery].delivery
  BY <1>1 DEF Hands
<1>3. /\ hand' = [hand EXCEPT ![Redelivery] = h] /\ hand[Redelivery].pc = "idle"
      /\ UNCHANGED <<setting, records, stop, lease, passed, faults, task, waiting, decision, place, told, timer>>
      /\ decision # None
  BY <1>1, StoreFacts DEF redeliver_claimed, SetHand, events
<1> HIDE DEF h
<1> QED
  BY <1>1, <1>2, <1>3, StoreFacts, CallKeeps, Names, ZenonT(30)

LEMMA DecideKeeps ==
    ASSUME WorkInv, UNCHANGED setting, NEW p \in Person, decide_task(p)
    PROVE  WorkInv'
<1>1. hand \in [Actor -> Hands] /\ p \in Actor
  BY InvParts, Names
<1> DEFINE h == [pc |-> "answer", delivery |-> None]
<1>2. h \in Hands /\ h.pc = "answer" /\ h.delivery = None
  BY DEF Hands
<1>3. /\ hand' = [hand EXCEPT ![p] = h] /\ hand[p].pc = "idle"
      /\ UNCHANGED <<setting, records, stop, lease, passed, faults, waiting, decision, place, timer>>
      /\ p \in Candidate \/ task.wide
  BY <1>1 DEF decide_task, events, eligible
<1>4. /\ told' \in [Person -> Verdicts \cup {None}] /\ told'[p] = None
      /\ \A q \in Person \ {p} : told'[q] = told[q]
  BY StoreFacts DEF decide_task
<1>5. task' \in Rows /\ task'.wide = task.wide /\ task'.assignee = p /\ task'.state = "Claimed"
  BY StoreFacts, TakenEffect DEF decide_task
<1> HIDE DEF h
<1> QED
  BY <1>1, <1>2, <1>3, <1>4, <1>5, StoreFacts, CallKeeps, Names, ZenonT(30)

\* One event per task: the first answer is recorded, the next is a duplicate.
LEMMA AnswerKeeps ==
    ASSUME WorkInv, UNCHANGED setting, NEW a \in Actor, answer_task(a)
    PROVE  WorkInv'
<1>1. hand \in [Actor -> Hands] /\ hand[a] \in Hands /\ a \in Person \cup {Tasks}
  BY InvParts, Names DEF answer_task, PassHasACaller
<1> DEFINE h == [hand[a] EXCEPT !.pc = IF decision = None THEN "offer" ELSE "duplicate"]
<1>2. /\ h \in Hands /\ h.pc = IF decision = None THEN "offer" ELSE "duplicate"
      /\ h.delivery = hand[a].delivery
  BY <1>1 DEF Hands
<1>3. /\ hand' = [hand EXCEPT ![a] = h] /\ hand[a].pc = "answer"
      /\ UNCHANGED <<setting, records, stop, lease, passed, faults, waiting, task, told, timer>>
      /\ decision' = IF decision = None THEN a ELSE decision
      /\ place' = IF decision = None THEN "live" ELSE place
  BY <1>1 DEF answer_task, SetHand
<1>4. a \in Person => a \in Candidate \/ task.wide
  BY <1>3, InvParts DEF DeciderWasEligible
<1> HIDE DEF h
<1>5. CASE decision = None
  <2>1. decision' = a /\ place' = "live" /\ h.pc = "offer"
    BY <1>2, <1>3, <1>5
  <2>2. /\ task.state \notin {"Completed", "Expired"}
        /\ \A p \in Person : told[p] \notin {"Resumed", "Own", "AlreadyAnswered"}
    BY <1>5, StoreFacts, Names
  <2> QED
    BY <1>1, <1>2, <1>3, <1>4, <1>5, <2>1, <2>2, StoreFacts, CallKeeps, Names, ZenonT(30)
<1>6. CASE decision # None
  <2>1. decision' = decision /\ place' = place /\ h.pc = "duplicate"
    BY <1>2, <1>3, <1>6
  <2>2. /\ timer' \in {"none", "armed", "claimed", "lapsed"} /\ waiting' \in BOOLEAN
        /\ place' \in {"none", "live", "held", "read"} /\ (place' = "none" <=> decision' = None)
        /\ decision' \in Person \cup {Tasks, None} /\ (decision # None => decision' = decision)
        /\ task' \in Rows /\ (task.wide => task'.wide)
        /\ task'.state \in {"None", "Open", "Escalated"} => task'.assignee = None
        /\ task'.state = "Claimed" => task'.assignee # None
        /\ task'.state = "Completed" => decision' \in Person
        /\ task'.state = "Expired" => decision' = Tasks
        /\ task'.state = "Withdrawn" => task.state = "Withdrawn"
        /\ told' \in [Person -> Verdicts \cup {None}]
        /\ \A q \in Person \ {a} : told'[q] = told[q]
    BY <1>3, <2>1, StoreFacts, Names
  <2> QED
    BY <1>1, <1>2, <1>3, <1>6, <2>1, <2>2, CallKeeps, StoreFacts, Names, ZenonT(30)
<1> QED
  BY <1>5, <1>6

LEMMA MatchKeeps ==
    ASSUME WorkInv, UNCHANGED setting, NEW a \in Actor, match_waiter(a)
    PROVE  WorkInv'
<1>1. /\ hand \in [Actor -> Hands] /\ hand[a] \in Hands /\ a \in Person \cup {Tasks}
      /\ decision = a /\ hand[a].pc = "offer"
  BY InvParts, Names DEF match_waiter, PassHasACaller, FirstDecision
<1>2. PICK h \in Hands : /\ hand' = [hand EXCEPT ![a] = h] /\ h.pc \in {"wake", "settle"}
                         /\ h.delivery \in {hand[a].delivery, "Buffered"}
  <2>1. CASE waiting /\ place = "live" /\ ended # "sealed"
    <3> DEFINE g == [hand[a] EXCEPT !.pc = "wake"]
    <3>1. g \in Hands /\ g.pc = "wake" /\ g.delivery = hand[a].delivery
      BY <1>1 DEF Hands
    <3>2. hand' = [hand EXCEPT ![a] = g]
      BY <2>1 DEF match_waiter, SetHand
    <3> HIDE DEF g
    <3> QED
      BY <3>1, <3>2
  <2>2. CASE ~(waiting /\ place = "live" /\ ended # "sealed")
    <3> DEFINE g == [pc |-> "settle", delivery |-> "Buffered"]
    <3>1. g \in Hands /\ g.pc = "settle" /\ g.delivery = "Buffered"
      BY DEF Hands
    <3>2. hand' = [hand EXCEPT ![a] = g]
      BY <2>2 DEF match_waiter
    <3> HIDE DEF g
    <3> QED
      BY <3>1, <3>2
  <2> QED
    BY <2>1, <2>2
<1>3. /\ UNCHANGED <<setting, records, stop, lease, passed, faults, waiting, task, told, timer, decision>>
      /\ place' \in {"held", place}
  BY DEF match_waiter
<1>4. /\ timer' \in {"none", "armed", "claimed", "lapsed"} /\ waiting' \in BOOLEAN
      /\ place' \in {"none", "live", "held", "read"} /\ (place' = "none" <=> decision' = None)
      /\ decision' \in Person \cup {Tasks, None} /\ (decision # None => decision' = decision)
      /\ task' \in Rows /\ (task.wide => task'.wide)
      /\ task'.state \in {"None", "Open", "Escalated"} => task'.assignee = None
      /\ task'.state = "Claimed" => task'.assignee # None
      /\ task'.state = "Completed" => decision' \in Person
      /\ task'.state = "Expired" => decision' = Tasks
      /\ task'.state = "Withdrawn" => task.state = "Withdrawn"
      /\ told' \in [Person -> Verdicts \cup {None}]
      /\ \A q \in Person \ {a} : told'[q] = told[q]
  BY <1>1, <1>3, StoreFacts, Names
<1> QED
  BY <1>1, <1>2, <1>3, <1>4, CallKeeps, StoreFacts, Names

LEMMA ParkKeeps ==
    ASSUME WorkInv, UNCHANGED setting, NEW a \in Actor, park_wait(a)
    PROVE  WorkInv'
<1>1. /\ hand \in [Actor -> Hands] /\ hand[a].pc = "wake"
      /\ a # Redelivery => a \in Person \cup {Tasks} /\ decision = a
  BY InvParts, Names DEF park_wait, PassHasACaller, FirstDecision
<1>2. PICK h \in Hands : /\ hand' = [hand EXCEPT ![a] = h]
                         /\ h.pc \in {"idle", "settle"} /\ (h.pc = "settle" => a # Redelivery)
                         /\ h.delivery # "Resumed"
  <2> DEFINE g == IF a = Redelivery THEN Idle ELSE [pc |-> "settle", delivery |-> "Buffered"]
  <2>1. /\ g \in Hands /\ g.pc \in {"idle", "settle"} /\ (g.pc = "settle" => a # Redelivery)
        /\ g.delivery # "Resumed"
    BY IdleFacts, Names DEF Hands
  <2>2. hand' = [hand EXCEPT ![a] = g]
    BY DEF park_wait
  <2> HIDE DEF g
  <2> QED
    BY <2>1, <2>2
<1>3. /\ UNCHANGED <<setting, records, stop, lease, passed, faults, place, task, told, timer, decision>>
      /\ waiting' = TRUE
  BY DEF park_wait
<1> QED
  BY <1>1, <1>2, <1>3, StoreFacts, CallKeeps, Names, ZenonT(30)

LEMMA SettleDecidedKeeps ==
    ASSUME WorkInv, UNCHANGED setting, NEW p \in Person, settle_decided(p)
    PROVE  WorkInv'
<1>1. /\ hand \in [Actor -> Hands] /\ hand[p] \in Hands /\ p \in Actor /\ hand[p].pc = "settle"
      /\ decision = p /\ (hand[p].delivery = "Resumed" => answers # <<>>)
  BY InvParts, Names DEF settle_decided, FirstDecision, ToldAsDecided
<1>2. /\ hand' = [hand EXCEPT ![p] = Idle]
      /\ UNCHANGED <<setting, records, stop, lease, passed, faults, waiting, decision, place, timer>>
  BY DEF settle_decided, events
<1>3. /\ told' \in [Person -> Verdicts \cup {None}]
      /\ told'[p] \in {"NotPending", hand[p].delivery}
      /\ \A q \in Person \ {p} : told'[q] = told[q]
  BY <1>1, StoreFacts DEF settle_decided, Verdicts, Hands
<1>4. /\ task' \in Rows /\ task'.wide = task.wide /\ task'.assignee = task.assignee
      /\ task'.state = IF task.state \in Pending THEN "Completed" ELSE task.state
  BY StoreFacts, SettleEffect DEF settle_decided, TaskStates
<1>5. /\ told'[p] \in {"NotPending", "Resumed", "Buffered", None}
      /\ told'[p] = "Resumed" => answers # <<>>
  BY <1>1, <1>3 DEF Hands
<1>6. /\ timer' \in {"none", "armed", "claimed", "lapsed"} /\ waiting' \in BOOLEAN
      /\ place' \in {"none", "live", "held", "read"} /\ (place' = "none" <=> decision' = None)
      /\ decision' \in Person \cup {Tasks, None} /\ (decision # None => decision' = decision)
      /\ task' \in Rows /\ (task.wide => task'.wide)
      /\ task'.state \in {"None", "Open", "Escalated"} => task'.assignee = None
      /\ task'.state = "Claimed" => task'.assignee # None
      /\ task'.state = "Completed" => decision' \in Person
      /\ task'.state = "Expired" => decision' = Tasks
      /\ task'.state = "Withdrawn" => task.state = "Withdrawn"
      /\ told' \in [Person -> Verdicts \cup {None}]
      /\ \A q \in Person \ {p} : told'[q] = told[q]
  BY <1>1, <1>2, <1>3, <1>4, StoreFacts, Names DEF Pending
<1> QED
  BY <1>1, <1>2, <1>5, <1>6, CallKeeps, IdleFacts, Names

LEMMA DuplicateDecisionKeeps ==
    ASSUME WorkInv, UNCHANGED setting, NEW p \in Person, duplicate_decision(p)
    PROVE  WorkInv'
<1>1. hand \in [Actor -> Hands] /\ p \in Actor /\ hand[p].pc = "duplicate" /\ decision # None
  BY InvParts, Names DEF duplicate_decision, FirstDecision
<1>2. /\ hand' = [hand EXCEPT ![p] = Idle]
      /\ UNCHANGED <<setting, records, stop, lease, passed, faults, waiting, decision, place, timer>>
  BY DEF duplicate_decision, events
<1>3. /\ told' \in [Person -> Verdicts \cup {None}]
      /\ told'[p] = IF decision = p THEN "Own" ELSE "AlreadyAnswered"
      /\ \A q \in Person \ {p} : told'[q] = told[q]
  BY StoreFacts DEF duplicate_decision, Verdicts
<1>4. /\ task' \in Rows /\ task'.wide = task.wide /\ task'.assignee = task.assignee
      /\ task'.state = IF task.state \in Pending
                       THEN IF decision \in Person THEN "Completed" ELSE "Expired"
                       ELSE task.state
  BY StoreFacts, SettleEffect DEF duplicate_decision, settle_answered, TaskStates
<1>5. /\ timer' \in {"none", "armed", "claimed", "lapsed"} /\ waiting' \in BOOLEAN
      /\ place' \in {"none", "live", "held", "read"} /\ (place' = "none" <=> decision' = None)
      /\ decision' \in Person \cup {Tasks, None} /\ (decision # None => decision' = decision)
      /\ task' \in Rows /\ (task.wide => task'.wide)
      /\ task'.state \in {"None", "Open", "Escalated"} => task'.assignee = None
      /\ task'.state = "Claimed" => task'.assignee # None
      /\ task'.state = "Completed" => decision' \in Person
      /\ task'.state = "Expired" => decision' = Tasks
      /\ task'.state = "Withdrawn" => task.state = "Withdrawn"
      /\ told' \in [Person -> Verdicts \cup {None}]
      /\ \A q \in Person \ {p} : told'[q] = told[q]
  BY <1>1, <1>2, <1>3, <1>4, StoreFacts, Names DEF Pending
<1> QED
  BY <1>1, <1>2, <1>3, <1>5, CallKeeps, IdleFacts, Names

LEMMA ExpiryKeeps ==
    ASSUME WorkInv, UNCHANGED setting, settle_expired \/ duplicate_expiry
    PROVE  WorkInv'
<1>1. /\ hand \in [Actor -> Hands] /\ Tasks \in Actor /\ hand[Tasks].pc \in {"settle", "duplicate"}
      /\ decision # None /\ (settle_expired => decision = Tasks)
  BY InvParts, Names DEF settle_expired, duplicate_expiry, FirstDecision
<1>2. /\ hand' = [hand EXCEPT ![Tasks] = Idle]
      /\ UNCHANGED <<setting, records, stop, lease, passed, faults, waiting, decision, place, timer, told>>
  BY DEF settle_expired, duplicate_expiry, events
<1>3. /\ task' \in Rows /\ task'.wide = task.wide /\ task'.assignee = task.assignee
      /\ task'.state = IF task.state \in Pending
                       THEN IF decision \in Person THEN "Completed" ELSE "Expired"
                       ELSE task.state
  <2>1. CASE settle_expired
    BY <1>1, <2>1, StoreFacts, SettleEffect, Names DEF settle_expired, TaskStates
  <2>2. CASE duplicate_expiry
    BY <2>2, StoreFacts, SettleEffect DEF duplicate_expiry, settle_answered, TaskStates
  <2> QED
    BY <2>1, <2>2
<1> QED
  BY <1>1, <1>2, <1>3, StoreFacts, CallKeeps, IdleFacts, Names, ZenonT(60)

-----------------------------------------------------------------------------
(* The lease changes hands *)

LEMMA TakingKeeps ==
    ASSUME WorkInv, NEW a \in Actor, NEW pc \in {"wake", "record", "plan"},
           UNCHANGED <<setting, records, timer, task, events, told, passed, faults>>,
           stop' \in BOOLEAN,
           Free, lease' = [pc |-> pc, by |-> a], SetHand(a, "pass"), hand[a].pc # "pass",
           a \in Person \cup {Tasks} => decision = a,
           pc = "record" => decision # None
    PROVE  WorkInv'
<1>0. /\ TypeOK /\ WokenOnce /\ SettledAsDecided
      /\ PassHasACaller /\ FirstDecision /\ PassKnowsTheEnd
      /\ DeciderWasEligible /\ ToldAsDecided /\ hand \in [Actor -> Hands]
  BY InvParts
<1>1. /\ hand' \in [Actor -> Hands] /\ hand'[a].pc = "pass"
      /\ hand'[a].delivery = hand[a].delivery
      /\ \A b \in Actor \ {a} : hand'[b] = hand[b]
  BY <1>0, SetHandEffect
<1>2. lease' \in Leases /\ lease'.pc = pc /\ lease'.by = a /\ lease.pc \in {"none", "dead"}
  BY DEF Leases, PassPoints, Free
<1>3. TypeOK' /\ WokenOnce'
  BY <1>0, <1>1, <1>2 DEF TypeOK, WokenOnce, Leases, Hands, records, events, faults
<1>4. SettledAsDecided' /\ PassKnowsTheEnd'
  BY <1>0, <1>2 DEF SettledAsDecided, PassKnowsTheEnd, records, events
<1>5. PassHasACaller'
  BY <1>0, <1>1, <1>2, Names DEF PassHasACaller
<1>6. FirstDecision'
  BY <1>0, <1>1, <1>2, Names DEF FirstDecision, records, events
<1>7. DeciderWasEligible'
  BY <1>0, <1>1, Names DEF DeciderWasEligible, events
<1>8. ToldAsDecided'
  BY <1>0, <1>1, Names DEF ToldAsDecided, records, events
<1> QED
  BY <1>3, <1>4, <1>5, <1>6, <1>7, <1>8 DEF WorkInv

LEMMA FireKeeps ==
    ASSUME WorkInv, UNCHANGED setting, acquire_to_fire
    PROVE  WorkInv'
<1>1. hand \in [Actor -> Hands] /\ hand[Timers] \in Hands /\ hand[Timers].pc = "due"
  BY InvParts, Names DEF acquire_to_fire
<1>2. CASE Free /\ lease' = [pc |-> "wake", by |-> Timers] /\ SetHand(Timers, "pass")
  <2>1. UNCHANGED <<setting, records, timer, task, events, told, passed, faults>> /\ stop' \in BOOLEAN
    BY InvParts DEF acquire_to_fire, TypeOK
  <2> QED
    BY <1>1, <1>2, <2>1, TakingKeeps, Names
<1>3. CASE Held /\ SetHand(Timers, "idle") /\ UNCHANGED lease
  <2> DEFINE h == [hand[Timers] EXCEPT !.pc = "idle"]
  <2>1. h \in Hands /\ h.pc = "idle" /\ h.delivery = hand[Timers].delivery
    BY <1>1 DEF Hands
  <2>2. /\ hand' = [hand EXCEPT ![Timers] = h]
        /\ UNCHANGED <<setting, records, stop, lease, passed, faults, task, waiting, decision, place, told, timer>>
    BY <1>3 DEF acquire_to_fire, SetHand, events
  <2> HIDE DEF h
  <2> QED
    BY <1>1, <2>1, <2>2, StoreFacts, CallKeeps, Names, ZenonT(30)
<1> QED
  BY <1>2, <1>3 DEF acquire_to_fire

LEMMA DeliverKeeps ==
    ASSUME WorkInv, UNCHANGED setting, NEW a \in Actor, acquire_to_deliver(a)
    PROVE  WorkInv'
<1>1. /\ UNCHANGED <<setting, records, timer, task, events, told, passed, faults>> /\ stop' \in BOOLEAN
      /\ Free /\ lease' = [pc |-> "record", by |-> a] /\ SetHand(a, "pass") /\ hand[a].pc = "wake"
  BY InvParts DEF acquire_to_deliver, TypeOK
<1>2. (a \in Person \cup {Tasks} => decision = a) /\ decision # None
  BY <1>1, InvParts, Names DEF FirstDecision, PassHasACaller
<1> QED
  BY <1>1, <1>2, TakingKeeps

LEMMA RecoverKeeps ==
    ASSUME WorkInv, UNCHANGED setting, recover_abandoned
    PROVE  WorkInv'
<1>1. /\ UNCHANGED <<setting, records, timer, task, events, told, passed, faults>> /\ stop' \in BOOLEAN
      /\ Free /\ lease' = [pc |-> "plan", by |-> Starter] /\ SetHand(Starter, "pass")
      /\ hand[Starter].pc = "idle"
  BY InvParts DEF recover_abandoned, TypeOK, Free
<1> QED
  BY <1>1, TakingKeeps, Names

-----------------------------------------------------------------------------
(* Steps that leave every call where it is *)

\* The stop's flag, the clock, a reservation handed on or given back, and what
\* a pass that lost its lease still writes.
LEMMA StoreStepKeeps ==
    ASSUME WorkInv,
           UNCHANGED <<setting, records, lease, calls, events>>,
           stop' \in BOOLEAN, timer' \in {"none", "armed", "claimed", "lapsed"},
           passed' \subseteq {"wake", "window"},
           ghost' \in Unfenced \cup {None}, faulted' = faulted,
           task' \in Rows, task.wide => task'.wide,
           task'.state \in {"None", "Open", "Escalated"} => task'.assignee = None,
           task'.state = "Claimed" => task'.assignee # None,
           task'.state \in {"Completed", "Expired", "Withdrawn"} => task'.state = task.state
    PROVE  WorkInv'
<1>0. /\ TypeOK /\ WokenOnce /\ SettledAsDecided
      /\ PassHasACaller /\ FirstDecision /\ PassKnowsTheEnd
      /\ DeciderWasEligible /\ ToldAsDecided
  BY InvParts
<1>1. TypeOK' /\ WokenOnce'
  BY <1>0 DEF TypeOK, WokenOnce, Rows, records, events, calls
<1>2. SettledAsDecided' /\ PassKnowsTheEnd'
  BY <1>0 DEF SettledAsDecided, PassKnowsTheEnd, records, events
<1>3. PassHasACaller' /\ FirstDecision'
  BY <1>0 DEF PassHasACaller, FirstDecision, records, events, calls
<1>4. DeciderWasEligible' /\ ToldAsDecided'
  BY <1>0 DEF DeciderWasEligible, ToldAsDecided, records, events, calls
<1> QED
  BY <1>1, <1>2, <1>3, <1>4 DEF WorkInv

LEMMA TypeFacts ==
    ASSUME WorkInv
    PROVE  /\ stop \in BOOLEAN /\ timer \in {"none", "armed", "claimed", "lapsed"}
           /\ passed \subseteq {"wake", "window"} /\ ghost \in Unfenced \cup {None}
           /\ task \in Rows
           /\ task.state \in {"None", "Open", "Escalated"} => task.assignee = None
           /\ task.state = "Claimed" => task.assignee # None
BY InvParts DEF TypeOK

LEMMA TakeOverKeeps ==
    ASSUME WorkInv, UNCHANGED setting, NEW p \in Person, NEW q \in Person, take_over(p, q)
    PROVE  WorkInv'
<1>1. UNCHANGED <<setting, records, lease, calls, events, stop, timer, passed, ghost, faulted>>
  BY DEF take_over, faults
<1>2. task' \in Rows /\ task'.wide = task.wide /\ task'.assignee = p /\ task'.state = "Claimed"
  BY TypeFacts, TakenEffect DEF take_over
<1> QED
  BY <1>1, <1>2, TypeFacts, StoreStepKeeps, Names

LEMMA ReleaseKeeps ==
    ASSUME WorkInv, UNCHANGED setting, NEW p \in Person, release(p)
    PROVE  WorkInv'
<1>1. UNCHANGED <<setting, records, lease, calls, events, stop, timer, passed, ghost, faulted>>
  BY DEF release, faults
<1>2. task' \in Rows /\ task'.wide = task.wide /\ task'.assignee = None /\ task'.state = "Open"
  BY TypeFacts DEF release, Rows, TaskStates, Pending
<1> QED
  BY <1>1, <1>2, TypeFacts, StoreStepKeeps, Names

LEMMA TickKeeps ==
    ASSUME WorkInv, UNCHANGED setting, Tick
    PROVE  WorkInv'
<1>1. /\ UNCHANGED <<setting, records, lease, calls, events, stop, task, ghost, faulted>>
      /\ timer' \in {timer, "lapsed"} /\ passed' \subseteq {"wake", "window"}
  BY TypeFacts DEF Tick, faults
<1> QED
  BY <1>1, TypeFacts, StoreStepKeeps

LEMMA CancelKeeps ==
    ASSUME WorkInv, UNCHANGED setting, request_cancel
    PROVE  WorkInv'
<1>1. /\ UNCHANGED <<setting, records, timer, task, events, told, passed, faults>>
      /\ stop' \in BOOLEAN
  BY DEF request_cancel
<1>2. CASE lease.pc = "none" /\ hand[Starter].pc = "idle"
  <2>1. lease' = [pc |-> "plan", by |-> Starter] /\ SetHand(Starter, "pass") /\ Free
    BY <1>2 DEF request_cancel, Free
  <2> QED
    BY <1>1, <1>2, <2>1, TakingKeeps, Names
<1>3. CASE ~(lease.pc = "none" /\ hand[Starter].pc = "idle")
  <2>1. UNCHANGED <<lease, calls, ghost, faulted>>
    BY <1>1, <1>3 DEF request_cancel, calls, faults
  <2> QED
    BY <1>1, <2>1, TypeFacts, StoreStepKeeps
<1> QED
  BY <1>2, <1>3

LEMMA GhostKeeps ==
    ASSUME WorkInv, UNCHANGED setting, GhostWrites
    PROVE  WorkInv'
<1>1. /\ UNCHANGED <<setting, records, lease, calls, events, stop, passed, faulted>>
      /\ ghost' = None
  BY DEF GhostWrites
<1>2. timer' \in {"none", "armed", timer}
  BY DEF GhostWrites, arm
<1>3. /\ task' \in Rows /\ task'.wide = task.wide /\ task'.assignee = task.assignee
      /\ task'.state = task.state \/ (task.state = "None" /\ task'.state = "Open")
  BY TypeFacts, OpenEffect DEF GhostWrites
<1> QED
  BY <1>1, <1>2, <1>3, TypeFacts, StoreStepKeeps

LEMMA StutterKeeps ==
    ASSUME WorkInv, UNCHANGED vars
    PROVE  WorkInv'
BY TypeFacts, StoreStepKeeps DEF vars, state, calls, faults

-----------------------------------------------------------------------------
(* Faults *)

\* A process dies, with or without the lease.
LEMMA CrashKeeps ==
    ASSUME WorkInv, UNCHANGED setting, NEW a \in Actor, Crash(a)
    PROVE  WorkInv'
<1>0. /\ TypeOK /\ WokenOnce /\ SettledAsDecided
      /\ PassHasACaller /\ FirstDecision /\ PassKnowsTheEnd
      /\ DeciderWasEligible /\ ToldAsDecided /\ hand \in [Actor -> Hands] /\ lease \in Leases
  BY InvParts
<1>1. /\ hand' \in [Actor -> Hands] /\ hand'[a] = Idle
      /\ \A b \in Actor \ {a} : hand'[b] = hand[b]
  BY <1>0, HandEffect, IdleFacts DEF Crash
<1>2. /\ UNCHANGED <<setting, records, stop, timer, task, events, told, passed, ghost>>
      /\ faulted' \in 0 .. setting.faults
  <2>1. setting.faults \in Nat
    BY <1>0, WorklistAssumption DEF TypeOK, Scenario
  <2> QED
    BY <1>0, <2>1 DEF Crash, TypeOK
<1>3. /\ lease' \in Leases
      /\ \/ lease' = lease /\ hand[a].pc # "pass"
         \/ lease'.pc = "dead" /\ hand[a].pc = "pass" /\ lease.by = a
  BY <1>0 DEF Crash, PassHasACaller, Leases, PassPoints
<1>4. TypeOK' /\ WokenOnce'
  BY <1>0, <1>1, <1>2, <1>3 DEF TypeOK, WokenOnce, Leases, Hands, records, events
<1>5. SettledAsDecided' /\ PassKnowsTheEnd'
  BY <1>0, <1>2, <1>3 DEF SettledAsDecided, PassKnowsTheEnd, records, events
<1>6. PassHasACaller'
  <2>1. CASE lease' = lease /\ hand[a].pc # "pass"
    BY <1>0, <1>1, <2>1, IdleFacts, Names DEF PassHasACaller
  <2>2. CASE lease'.pc = "dead" /\ hand[a].pc = "pass" /\ lease.by = a
    BY <1>0, <1>1, <2>2, IdleFacts, Names DEF PassHasACaller
  <2> QED
    BY <1>3, <2>1, <2>2
<1>7. FirstDecision'
  BY <1>0, <1>1, <1>2, <1>3, IdleFacts, Names DEF FirstDecision, records, events
<1>8. DeciderWasEligible'
  BY <1>0, <1>1, <1>2, IdleFacts, Names DEF DeciderWasEligible, events
<1>9. ToldAsDecided'
  BY <1>0, <1>1, <1>2, IdleFacts, Names DEF ToldAsDecided, records, events
<1> QED
  BY <1>4, <1>5, <1>6, <1>7, <1>8, <1>9 DEF WorkInv

\* A live pass loses its lease; its caller goes on, and one store call of its
\* is still to come.
LEMMA LapseKeeps ==
    ASSUME WorkInv, UNCHANGED setting, Lapse
    PROVE  WorkInv'
<1>0. /\ TypeOK /\ WokenOnce /\ SettledAsDecided
      /\ PassHasACaller /\ FirstDecision /\ PassKnowsTheEnd
      /\ DeciderWasEligible /\ ToldAsDecided /\ hand \in [Actor -> Hands] /\ lease \in Leases
  BY InvParts
<1>1. PICK a \in Actor : a = lease.by /\ hand[a].pc = "pass"
  BY <1>0 DEF Lapse, PassHasACaller, Unfenced
<1>2. PICK h \in Hands : /\ hand' = [hand EXCEPT ![a] = h]
                         /\ h.pc = (IF a \in Person \cup {Tasks} THEN "settle" ELSE "idle")
                         /\ h.delivery = hand[a].delivery
  <2> DEFINE g == [hand[a] EXCEPT !.pc = IF a \in Person \cup {Tasks} THEN "settle" ELSE "idle"]
  <2>1. hand[a] \in Hands
    BY <1>0
  <2>2. /\ g \in Hands /\ g.pc = (IF a \in Person \cup {Tasks} THEN "settle" ELSE "idle")
        /\ g.delivery = hand[a].delivery
    BY <2>1 DEF Hands
  <2>3. hand' = [hand EXCEPT ![a] = g]
    BY <1>1 DEF Lapse
  <2> HIDE DEF g
  <2> QED
    BY <2>2, <2>3
<1>3. /\ hand' \in [Actor -> Hands] /\ hand'[a] = h
      /\ \A b \in Actor \ {a} : hand'[b] = hand[b]
  BY <1>0, <1>2, HandEffect
<1>4. /\ UNCHANGED <<setting, records, stop, timer, task, events, told, passed>>
      /\ ghost' \in Unfenced \cup {None} /\ faulted' \in 0 .. setting.faults
      /\ lease' \in Leases /\ lease'.pc = "dead"
  <2>1. setting.faults \in Nat
    BY <1>0, WorklistAssumption DEF TypeOK, Scenario
  <2> QED
    BY <1>0, <2>1 DEF Lapse, TypeOK, Leases, PassPoints
<1>5. TypeOK' /\ WokenOnce'
  BY <1>0, <1>3, <1>4 DEF TypeOK, WokenOnce, Leases, Hands, records, events
<1>6. SettledAsDecided' /\ PassKnowsTheEnd'
  BY <1>0, <1>4 DEF SettledAsDecided, PassKnowsTheEnd, records, events
<1>7. PassHasACaller'
  BY <1>0, <1>1, <1>2, <1>3, <1>4, Names DEF PassHasACaller
<1>8. FirstDecision'
  BY <1>0, <1>1, <1>2, <1>3, <1>4, Names DEF FirstDecision, records, events
<1>9. DeciderWasEligible'
  BY <1>0, <1>2, <1>3, <1>4, Names DEF DeciderWasEligible, events
<1>10. ToldAsDecided'
  BY <1>0, <1>2, <1>3, <1>4, Names DEF ToldAsDecided, records, events
<1> QED
  BY <1>5, <1>6, <1>7, <1>8, <1>9, <1>10 DEF WorkInv

-----------------------------------------------------------------------------
(* The theorems *)

LEMMA InitWork == Init => WorkInv
<1> SUFFICES ASSUME Init PROVE WorkInv
  OBVIOUS
<1>1. /\ hand \in [Actor -> Hands] /\ hand[Starter].pc = "pass"
      /\ \A b \in Actor \ {Starter} : hand[b] = Idle
  BY IdleFacts, Names DEF Init, Hands, Idle
<1>2. \A p \in Person : hand[p].pc = "idle" /\ hand[p].delivery = None
  BY <1>1, IdleFacts, Names
<1>3. TypeOK /\ WokenOnce
  <2>1. setting.faults \in Nat
    BY WorklistAssumption DEF Init, Scenario
  <2>2. task \in Rows /\ task.state = "None" /\ task.assignee = None
    BY DEF Init, Rows, TaskStates
  <2>3. lease \in Leases
    BY Names DEF Init, Leases, PassPoints
  <2>4. told \in [Person -> Verdicts \cup {None}]
    BY DEF Init
  <2>5. answers \in Seq(Person \cup {Tasks}) /\ Len(answers) <= 2
    BY DEF Init
  <2>6. /\ setting \in Scenarios /\ {asleep, asked, stop, waiting} \subseteq BOOLEAN
        /\ wakes = 0 /\ ended = "no" /\ timer = "none" /\ decision = None /\ place = "none"
        /\ ghost = None /\ passed = {} /\ faulted = 0
    BY DEF Init
  <2> QED
    BY <1>1, <2>1, <2>2, <2>3, <2>4, <2>5, <2>6 DEF TypeOK, WokenOnce, Hands, Rows, Leases
<1>4. SettledAsDecided /\ PassKnowsTheEnd
  BY DEF Init, SettledAsDecided, PassKnowsTheEnd
<1>5. PassHasACaller
  BY <1>1, IdleFacts, Names DEF Init, PassHasACaller
<1>6. FirstDecision
  BY <1>1, <1>2, IdleFacts, Names DEF Init, FirstDecision
<1>7. DeciderWasEligible /\ ToldAsDecided
  BY <1>2, Names DEF Init, DeciderWasEligible, ToldAsDecided
<1> QED
  BY <1>3, <1>4, <1>5, <1>6, <1>7 DEF WorkInv

LEMMA NextWork == WorkInv /\ [Next]_vars => WorkInv'
<1> SUFFICES ASSUME WorkInv, [Next]_vars PROVE WorkInv'
  OBVIOUS
<1>1. CASE UNCHANGED vars
  BY <1>1, StutterKeeps
<1>2. CASE Pass /\ UNCHANGED setting
  BY <1>2, BookkeepingKeeps, WaitStepsKeep, PassStepsKeep, RecordDeliveryKeeps
     DEF Pass, Bookkeeping, WaitSteps, PassSteps
<1>3. CASE TimerPass /\ UNCHANGED setting
  BY <1>3, ClaimDueKeeps, FireKeeps DEF TimerPass
<1>4. ASSUME NEW a \in Actor, Deliver(a), UNCHANGED setting PROVE WorkInv'
  BY <1>4, AnswerKeeps, MatchKeeps, DeliverKeeps, ParkKeeps DEF Deliver
<1>5. CASE TaskPass /\ UNCHANGED setting
  BY <1>4, <1>5, OverdueKeeps, EscalateKeeps, ExpiryKeeps, Names DEF TaskPass
<1>6. CASE RedeliveryPass /\ UNCHANGED setting
  BY <1>4, <1>6, RedeliverKeeps, Names DEF RedeliveryPass
<1>7. CASE recover_abandoned /\ UNCHANGED setting
  BY <1>7, RecoverKeeps
<1>8. CASE (\E p \in Person : decide_task(p) \/ Decide(p) \/ release(p)) /\ UNCHANGED setting
  <2>1. PICK p \in Person : decide_task(p) \/ Decide(p) \/ release(p)
    BY <1>8
  <2> QED
    BY <1>4, <1>8, <2>1, DecideKeeps, SettleDecidedKeeps, DuplicateDecisionKeeps, ReleaseKeeps, Names
       DEF Decide
<1>9. CASE (\E p, q \in Person : take_over(p, q)) /\ UNCHANGED setting
  BY <1>9, TakeOverKeeps
<1>10. CASE (request_cancel \/ Tick \/ Lapse \/ GhostWrites) /\ UNCHANGED setting
  BY <1>10, CancelKeeps, TickKeeps, LapseKeeps, GhostKeeps
<1>11. CASE (\E a \in Actor : Crash(a)) /\ UNCHANGED setting
  BY <1>11, CrashKeeps
<1> QED
  BY <1>1, <1>2, <1>3, <1>5, <1>6, <1>7, <1>8, <1>9, <1>10, <1>11 DEF Next, Moves

LEMMA WorkHolds == Spec => []WorkInv
BY InitWork, NextWork, PTL DEF Spec

LEMMA InvMeansStands == WorkInv => DecisionStands
<1> SUFFICES ASSUME WorkInv PROVE DecisionStands
  OBVIOUS
<1>0. /\ TypeOK /\ WokenOnce /\ SettledAsDecided /\ FirstDecision
      /\ DeciderWasEligible /\ ToldAsDecided
  BY InvParts
<1>1. OneAnswer
  BY <1>0 DEF OneAnswer, FirstDecision
<1>2. \A p : answers = <<p>> => decision = p
  <2>1. SUFFICES ASSUME NEW p, answers = <<p>> PROVE decision = p
    OBVIOUS
  <2>2. answers # <<>>
    BY <2>1
  <2>3. answers[1] = p /\ answers = <<decision>>
    BY <1>0, <2>1, <2>2 DEF FirstDecision
  <2> QED
    BY <2>3
<1>3. AnsweredByTheEligible
  BY <1>0, <1>2 DEF AnsweredByTheEligible, DeciderWasEligible
<1>4. DecidersAreToldTheTruth
  <2>1. SUFFICES ASSUME NEW p \in Person
                 PROVE  /\ told[p] \in {"Resumed", "Own"} => decision = p
                        /\ told[p] = "Resumed" => answers = <<p>>
                        /\ told[p] = "AlreadyAnswered" => answers # <<p>>
    BY DEF DecidersAreToldTheTruth
  <2>2. /\ told[p] \in {"Resumed", "Own"} => decision = p
        /\ told[p] = "Resumed" => answers # <<>>
        /\ told[p] = "AlreadyAnswered" => decision \notin {None, p}
    BY <1>0 DEF ToldAsDecided
  <2>3. answers # <<>> => answers = <<decision>>
    BY <1>0 DEF FirstDecision
  <2> QED
    BY <1>2, <2>2, <2>3
<1> QED
  BY <1>0, <1>1, <1>3, <1>4 DEF DecisionStands

\* However many people decide at once, take tasks over and are overtaken by
\* the policy, and however many processes die or leases lapse in between: the
\* run is woken once, answered once, by its policy or by somebody who may
\* decide, its task says what the answer was, and nobody is told otherwise.
THEOREM DecisionsStand == Spec => []DecisionStands
BY WorkHolds, InvMeansStands, PTL

\* A timer's wake, a pass that finds a buffered decision and a delivery that was
\* claimed before the end all leave the record of a concluded run alone.
LEMMA EndIsEnd ==
    ASSUME WorkInv, [Next]_vars, resume_is_closed
    PROVE  UNCHANGED <<wakes, answers>>
<1>1. CASE UNCHANGED vars
  BY <1>1 DEF vars, state, records
<1>2. CASE Pass
  <2>1. ended # "no" /\ PassKnowsTheEnd
    BY InvParts DEF resume_is_closed
  <2> QED
    BY <1>2, <2>1
       DEF Pass, conclude, sleep_until, arm_timer, announce_wait, subscribe, open_task, claim_for,
           append_answer, unsubscribe, seal, disarm_run, unsubscribe_run, withdraw_run,
           release_lease, record_wake, disarm, record_delivery, resume_is_closed,
           PassKnowsTheEnd, records
<1>3. ASSUME NEW a \in Actor, Deliver(a) PROVE UNCHANGED <<wakes, answers>>
  BY <1>3 DEF Deliver, answer_task, match_waiter, acquire_to_deliver, park_wait, records
<1>4. CASE TimerPass \/ TaskPass \/ RedeliveryPass
  BY <1>3, <1>4, Names
     DEF TimerPass, TaskPass, RedeliveryPass, claim_due, acquire_to_fire, overdue, escalate,
         settle_expired, duplicate_expiry, redeliver_claimed, records
<1>5. CASE \E p \in Person : decide_task(p) \/ Decide(p) \/ release(p)
  <2>1. PICK p \in Person : decide_task(p) \/ Decide(p) \/ release(p)
    BY <1>5
  <2> QED
    BY <1>3, <2>1, Names
       DEF Decide, decide_task, settle_decided, duplicate_decision, release, records
<1>6. CASE (\E p, q \in Person : take_over(p, q)) \/ (\E a \in Actor : Crash(a))
  BY <1>6 DEF take_over, Crash, records
<1>7. CASE request_cancel \/ Tick \/ Lapse \/ GhostWrites \/ recover_abandoned
  BY <1>7 DEF request_cancel, Tick, Lapse, GhostWrites, recover_abandoned, records
<1> QED
  BY <1>1, <1>2, <1>4, <1>5, <1>6, <1>7 DEF Next, Moves

\* Once the run's conclusion is durable nothing more is delivered to it: no
\* wake and no answer is recorded, whichever delivery was under way.
THEOREM EndedRunsHearNothing == Spec => NothingAfterTheEnd
<1>1. WorkInv /\ [Next]_vars => [resume_is_closed => UNCHANGED <<wakes, answers>>]_vars
  BY EndIsEnd
<1> QED
  BY WorkHolds, <1>1, PTL DEF Spec, NothingAfterTheEnd
=============================================================================
