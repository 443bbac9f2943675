-------------------------------- MODULE Inbox --------------------------------
(***************************************************************************)
(* Inbound messages and the runs that wait for them: the event buffer and   *)
(* the waits of redb_events.rs, the deliveries that meet them, the run's own*)
(* wait in its step code, the sweep's redelivery of a claimed message, the  *)
(* retirement of a concluded run's waits, dead-lettering and erasure.       *)
(*                                                                          *)
(* Every store call is one transaction and one action.  Between two of them *)
(* anything may move: another delivery, the sweep, the run's owner, a crash.*)
(* A run's plan is a sequence of ready sets, one wait per step; a pass      *)
(* visits the steps of a ready set in any order.  The lease is held by the  *)
(* run's pass, free ("none"), or owned by a dead process until it lapses    *)
(* ("dead").                                                                *)
(***************************************************************************)
EXTENDS Naturals, Sequences, FiniteSets, SequencesExt

CONSTANTS
    Event,       \* messages, by their deduplication key
    Run,
    Wait,        \* awaited effects, by their effect key
    Matches,     \* the pairs <<wait, event>> that agree on kind, sender and key
    Handler,     \* concurrent deliveries from outside
    Sweeper,     \* the sweep's redelivery pass
    Scenarios,   \* the settings a behaviour may have, see Scenario
    MaxCrashes,  \* bound on processes that die
    None         \* no value

VARIABLES
    setting,     \* the scenario, chosen once
    stored,      \* EVENTS in order of arrival
    live,        \* EVENTS_LIVE: what the dead-letter sweep walks
    dead,        \* rows dead-lettered
    payload,     \* rows whose content has not been stripped
    targeted,    \* EVENTS_TARGETED: rows addressed to one run
    erased,      \* EVENTS_ERASED
    owner,       \* the run a row is claimed by
    held,        \* EVENTS_CLAIMED: the wait a claim is undelivered for
    subs,        \* SUBS
    older,       \* the order of registration: pairs <<earlier, later>> of SUBS
    parked,      \* PARKED: waits holding an undelivered claim
    announced,   \* journal: EffectStarted of a wait
    answers,     \* journal: EffectDone of a wait, every one
    ended,       \* journal: the run's conclusion and its seal
    stop,        \* durable stop requests
    pass,        \* the pass that holds the run's lease
    hand,        \* deliveries in flight: from outside, the sweep's, a closing pass's own
    listed,      \* what the redelivery pass read and has not visited
    shedFor,     \* history: the wait a row's content was shed for
    unoffered,   \* history: rows whose offer died with its process
    crashes      \* deaths so far

rows == <<stored, dead, payload, targeted, erased, shedFor>>
claims == <<live, owner, held>>
waits == <<subs, older, parked>>
journal == <<announced, answers, ended, stop>>
actors == <<pass, hand, listed>>
history == <<unoffered, crashes>>
state == <<rows, claims, waits, journal, actors, history>>
vars == <<setting, state>>

Deliverer == Handler \cup Run \cup {Sweeper}

\* The waits of each run's ready sets, in order; the messages that are sent, each
\* to whoever waits (None) or to one run; the runs an operator may cancel; the
\* messages whose payload may be erased; how many deliveries run side by side and
\* how many processes die.
Scenario ==
    [plan : [Run -> Seq(SUBSET Wait)], to : [Event -> Run \cup {None}], sent : SUBSET Event,
     handlers : SUBSET Handler, stoppable : SUBSET Run, erasable : SUBSET Event, deaths : 0..MaxCrashes]

ASSUME ScenariosAssumption ==
    /\ MaxCrashes \in Nat
    /\ None \notin Wait \cup Event \cup Run
    /\ Sweeper \notin Handler \cup Run /\ Handler \cap Run = {}
    /\ Matches \subseteq Wait \X Event
    /\ \A sc \in Scenarios :
        /\ sc \in Scenario
        /\ \A r, s \in Run : \A i \in DOMAIN sc.plan[r], j \in DOMAIN sc.plan[s] :
                <<r, i>> # <<s, j>> => sc.plan[r][i] \cap sc.plan[s][j] = {}

Plan == setting.plan
WaitsOf(r) == UNION Range(Plan[r])
RunOf(w) == CHOOSE r \in Run : w \in WaitsOf(r)

NoPass == [pc |-> "none", wait |-> None, event |-> None, seen |-> {}, released |-> {}]
Idle == [pc |-> "idle", wait |-> None, event |-> None]

\* A run's pass: a delivery that took the lease ("record", "retire"), the run's
\* own code ("step" to "unsubscribe", the waits it has suspended on "seen"), its
\* conclusion ("seal" to "release", what it hands back "released").
PassPoints == {"none", "dead", "record", "retire", "step", "subscribe", "claim",
               "append", "unsubscribe", "seal", "retireWaits", "release"}

RegistrationOrder ==
    /\ older \subseteq subs \X subs
    /\ \A v, w \in subs : <<v, w>> \in older <=> v # w /\ <<w, v>> \notin older
    /\ \A u, v, w \in subs : <<u, v>> \in older /\ <<v, w>> \in older => <<u, w>> \in older

TypeOK ==
    /\ setting \in Scenarios
    /\ stored \in Seq(Event) /\ IsInjective(stored)
    /\ live \subseteq Event /\ dead \subseteq Event /\ payload \subseteq Event
    /\ targeted \subseteq Event /\ erased \subseteq Event /\ unoffered \subseteq Event
    /\ owner \in [Event -> Run \cup {None}]
    /\ held \in [Event -> Wait \cup {None}]
    /\ shedFor \in [Event -> Wait \cup {None}]
    /\ subs \subseteq Wait /\ RegistrationOrder
    /\ parked \subseteq Wait /\ announced \subseteq Wait /\ listed \subseteq Wait
    /\ answers \in [Wait -> Seq(Event)]
    /\ ended \in [Run -> {"no", "concluded", "sealed"}]
    /\ stop \subseteq setting.stoppable
    /\ pass \in [Run -> [pc : PassPoints, wait : Wait \cup {None},
                         event : Event \cup {None}, seen : SUBSET Wait,
                         released : SUBSET Event]]
    /\ hand \in [Deliverer -> [pc : {"idle", "offer", "wake"}, wait : Wait \cup {None},
                               event : Event \cup {None}]]
    /\ crashes \in 0..MaxCrashes

Init ==
    /\ setting \in Scenarios
    /\ stored = <<>> /\ live = {} /\ dead = {} /\ payload = {} /\ targeted = {} /\ erased = {}
    /\ owner = [e \in Event |-> None]
    /\ held = [e \in Event |-> None]
    /\ shedFor = [e \in Event |-> None]
    /\ subs = {} /\ older = {} /\ parked = {}
    /\ announced = {}
    /\ answers = [w \in Wait |-> <<>>]
    /\ ended = [r \in Run |-> "no"]
    /\ stop = {}
    /\ pass = [r \in Run |-> [NoPass EXCEPT !.pc = IF Plan[r] = <<>> THEN "none" ELSE "step"]]
    /\ hand = [h \in Deliverer |-> Idle]
    /\ listed = {} /\ unoffered = {} /\ crashes = 0

-----------------------------------------------------------------------------
(* What the journal says *)

Answered(w) == answers[w] # <<>>
Recorded(e) == \E w \in Wait : e \in Range(answers[w])
resume_is_closed(r) == ended[r] # "no"
unanswered_waits(r) == {w \in announced : RunOf(w) = r /\ ~Answered(w)}

-----------------------------------------------------------------------------
(* The event store *)

Stored(e) == e \in Range(stored)
Agree(w, e) == <<w, e>> \in Matches

\* Insert under the deduplication key; the first copy stands.
buffer(e) ==
    IF Stored(e)
    THEN UNCHANGED <<stored, live, payload>>
    ELSE /\ stored' = Append(stored, e)
         /\ live' = live \cup {e}
         /\ payload' = payload \cup {e}

register_wait(w) ==
    /\ subs' = subs \cup {w}
    /\ older' = IF w \in subs THEN older ELSE older \cup (subs \X {w})

\* Defect: a parked wait is matchable.
WaitersParkedToo(e) == {w \in subs : Agree(w, e) /\ ended[RunOf(w)] # "sealed"}

\* Waits an event may be claimed for: not of a sealed run, not parked.
waiters(e) == {w \in subs : Agree(w, e) /\ w \notin parked /\ ended[RunOf(w)] # "sealed"}

\* The one of them registered first.
oldest_waiter(e) == {w \in waiters(e) : \A v \in waiters(e) : <<v, w>> \notin older}

\* Claimed, off the sweepable index, findable by its wait, and the wait parked,
\* in the transaction that selected the row.
Claim(e, w) ==
    /\ owner' = [owner EXCEPT ![e] = RunOf(w)]
    /\ held' = [held EXCEPT ![e] = w]
    /\ live' = live \ {e}
    /\ parked' = parked \cup {w}

\* Defect: a claim already made for the wait is not recovered.
ClaimableAnew(w) ==
    {e \in Event : /\ Stored(e) /\ Agree(w, e) /\ e \notin dead /\ e \notin erased
                   /\ owner[e] = None /\ w \notin parked}

\* A parked wait recovers its own claim alone.
claimable(w) ==
    {e \in Event : /\ Stored(e) /\ Agree(w, e) /\ e \notin dead /\ e \notin erased
                   /\ held[e] = w \/ (owner[e] = None /\ w \notin parked)}

\* The one of them that arrived first.
claimable_for(w) ==
    {e \in claimable(w) : \E i \in DOMAIN stored :
        stored[i] = e /\ \A j \in 1..(i - 1) : stored[j] \notin claimable(w)}

drop_waits(W) ==
    /\ subs' = subs \ W
    /\ older' = older \cap (subs' \X subs')
    /\ parked' = parked \ W

\* Strip what the claims in E hold and consume the claims.
shed_claimed(E) ==
    /\ payload' = payload \ E
    /\ shedFor' = [e \in Event |-> IF e \in E THEN held[e] ELSE shedFor[e]]

\* What is held undelivered for one of the waits.
HeldFor(W) == {e \in Event : held[e] \in W}

unsubscribe(w) ==
    /\ drop_waits({w})
    /\ shed_claimed(HeldFor({w}))
    /\ held' = [e \in Event |-> IF held[e] = w THEN None ELSE held[e]]
    /\ UNCHANGED <<stored, dead, targeted, erased, live, owner>>

\* What a claim for an unanswered wait of r holds: handed back, or
\* dead-lettered when it was addressed to r alone.
HandedBack(r) == {e \in HeldFor(unanswered_waits(r)) : e \notin dead}

unsubscribe_run(r) ==
    LET back == HandedBack(r)
        rest == HeldFor(WaitsOf(r)) \ HeldFor(unanswered_waits(r))
    IN  /\ drop_waits(WaitsOf(r) \cap subs)
        /\ shed_claimed(rest)
        /\ owner' = [e \in Event |-> IF e \in back THEN None ELSE owner[e]]
        /\ held' = [e \in Event |-> IF held[e] \in WaitsOf(r) THEN None ELSE held[e]]
        /\ dead' = dead \cup (back \cap targeted)
        /\ live' = live \cup (back \ targeted)
        /\ UNCHANGED <<stored, targeted, erased>>

-----------------------------------------------------------------------------
(* Deliveries *)

SetHand(h, pc, w, e) == hand' = [hand EXCEPT ![h] = [pc |-> pc, wait |-> w, event |-> e]]

\* Runtime::deliver: durable first; a duplicate is offered again.
deliver(h, e) ==
    /\ hand[h].pc = "idle"
    /\ e \in setting.sent /\ setting.to[e] = None
    /\ buffer(e)
    /\ SetHand(h, "offer", None, e)
    /\ UNCHANGED <<dead, targeted, erased, shedFor, owner, held, waits, journal, pass, listed, history>>

\* The second write of a delivery: the oldest eligible waiter, if the row is
\* unclaimed and live.
match_waiter(h) ==
    LET e == hand[h].event
    IN  /\ hand[h].pc = "offer"
        /\ IF waiters(e) # {} /\ owner[e] = None /\ e \notin dead
           THEN \E w \in oldest_waiter(e) : Claim(e, w) /\ SetHand(h, "wake", w, e)
           ELSE /\ hand' = [hand EXCEPT ![h] = Idle]
                /\ UNCHANGED <<claims, parked>>
        /\ UNCHANGED <<rows, subs, older, journal, pass, listed, history>>

\* A message addressed to one run: claimed for a wait of that run and stored,
\* in one transaction, or not stored at all.
deliver_to(h, r, e) ==
    /\ hand[h].pc = "idle"
    /\ e \in setting.sent /\ setting.to[e] = r
    /\ IF Stored(e)
       THEN /\ owner[e] = r /\ held[e] \in subs
            /\ SetHand(h, "wake", held[e], e)
            /\ UNCHANGED <<rows, claims, parked>>
       ELSE \E w \in subs \ parked :
            /\ RunOf(w) = r /\ Agree(w, e)
            /\ stored' = Append(stored, e)
            /\ payload' = payload \cup {e}
            /\ targeted' = targeted \cup {e}
            /\ Claim(e, w)
            /\ SetHand(h, "wake", w, e)
            /\ UNCHANGED <<dead, erased, shedFor>>
    /\ UNCHANGED <<subs, older, journal, pass, listed, history>>

\* resume_subscription: the lease is taken once its owner hands it back or
\* lapses, ...
acquire_for_delivery(h) ==
    LET r == RunOf(hand[h].wait)
    IN  /\ hand[h].pc = "wake"
        /\ pass[r].pc \in {"none", "dead"}
        /\ pass' = [pass EXCEPT ![r] = [NoPass EXCEPT !.pc = "record", !.wait = hand[h].wait,
                                                      !.event = hand[h].event]]
        /\ hand' = [hand EXCEPT ![h] = Idle]
        /\ UNCHANGED <<rows, claims, waits, journal, listed, history>>

\* ... or the retry window closes first and the pair is parked for the sweep.
park_wait(h) ==
    /\ hand[h].pc = "wake"
    /\ pass[RunOf(hand[h].wait)].pc # "none"
    /\ register_wait(hand[h].wait)
    /\ parked' = parked \cup {hand[h].wait}
    /\ hand' = [hand EXCEPT ![h] = Idle]
    /\ UNCHANGED <<rows, claims, journal, pass, listed, history>>

\* A pass at another point, with what it has seen and hands back.
Moved(r, pc, w, e) ==
    [pc |-> pc, wait |-> w, event |-> e, seen |-> pass[r].seen, released |-> pass[r].released]
SetPass(r, pc, w, e) == pass' = [pass EXCEPT ![r] = Moved(r, pc, w, e)]

\* The answer is appended unless it is there or the run's conclusion is.
record_delivery(r) ==
    LET w == pass[r].wait
    IN  /\ pass[r].pc = "record"
        /\ IF ~Answered(w) /\ ~resume_is_closed(r)
           THEN answers' = [answers EXCEPT ![w] = Append(@, pass[r].event)]
           ELSE UNCHANGED answers
        /\ IF resume_is_closed(r)
           THEN SetPass(r, "seal", None, None)
           ELSE SetPass(r, "retire", w, pass[r].event)
        /\ UNCHANGED <<rows, claims, waits, announced, ended, stop, hand, listed, history>>

\* The wait is retired and the run resumed under the same lease.
retire_delivered(r) ==
    /\ pass[r].pc = "retire"
    /\ unsubscribe(pass[r].wait)
    /\ SetPass(r, "step", None, None)
    /\ UNCHANGED <<journal, hand, listed, history>>

-----------------------------------------------------------------------------
(* The run's own pass: replay to the first unanswered wait *)

\* The ready sets with a wait unanswered, and what is left of the first of them.
Unfinished(r) == {i \in DOMAIN Plan[r] : \E w \in Plan[r][i] : ~Answered(w)}
Ready(r) ==
    {w \in WaitsOf(r) \ pass[r].seen :
        /\ ~Answered(w)
        /\ \E i \in Unfinished(r) : w \in Plan[r][i] /\ \A j \in Unfinished(r) : i <= j}

\* A standing stop, or the end of the plan, concludes the run.
conclude(r) ==
    /\ pass[r].pc = "step"
    /\ Unfinished(r) = {} \/ (r \in stop /\ pass[r].seen = {})
    /\ ended' = [ended EXCEPT ![r] = "concluded"]
    /\ SetPass(r, "seal", None, None)
    /\ UNCHANGED <<rows, claims, waits, announced, answers, stop, hand, listed, history>>

\* The next wait is announced, unless an earlier pass announced it.
announce(r) ==
    /\ pass[r].pc = "step"
    /\ r \in stop => pass[r].seen # {}
    /\ \E w \in Ready(r) :
        /\ announced' = announced \cup {w}
        /\ SetPass(r, "subscribe", w, None)
    /\ UNCHANGED <<rows, claims, waits, answers, ended, stop, hand, listed, history>>

\* Defect: the run suspends on its subscription without a look at the buffer.
SubscribeOnly(r) ==
    /\ pass[r].pc = "subscribe"
    /\ register_wait(pass[r].wait)
    /\ pass' = [pass EXCEPT ![r] = [NoPass EXCEPT !.pc = "step", !.seen = @ \cup {pass[r].wait}]]
    /\ UNCHANGED <<rows, claims, parked, journal, hand, listed, history>>

subscribe(r) ==
    /\ pass[r].pc = "subscribe"
    /\ register_wait(pass[r].wait)
    /\ SetPass(r, "claim", pass[r].wait, None)
    /\ UNCHANGED <<rows, claims, parked, journal, hand, listed, history>>

\* The buffer is consulted after the wait is durable.
claim_for(r) ==
    LET w == pass[r].wait
    IN  /\ pass[r].pc = "claim"
        /\ IF claimable(w) # {}
           THEN \E e \in claimable_for(w) : Claim(e, w) /\ SetPass(r, "append", w, e)
           ELSE /\ pass' = [pass EXCEPT ![r] = [pc |-> "step", wait |-> None, event |-> None,
                                               seen |-> pass[r].seen \cup {w}, released |-> {}]]
                /\ UNCHANGED <<claims, parked>>
        /\ UNCHANGED <<rows, subs, older, journal, hand, listed, history>>

\* Journaled before it is unsubscribed: unsubscribing sheds the payload.
append_answer(r) ==
    LET w == pass[r].wait
    IN  /\ pass[r].pc = "append"
        /\ answers' = [answers EXCEPT ![w] = Append(@, pass[r].event)]
        /\ SetPass(r, "unsubscribe", w, pass[r].event)
        /\ UNCHANGED <<rows, claims, waits, announced, ended, stop, hand, listed, history>>

unsubscribe_answered(r) ==
    /\ pass[r].pc = "unsubscribe"
    /\ unsubscribe(pass[r].wait)
    /\ SetPass(r, "step", None, None)
    /\ UNCHANGED <<journal, hand, listed, history>>

\* Every ready step has suspended: the lease is handed back.
suspend(r) ==
    /\ pass[r].pc = "step" /\ Ready(r) = {} /\ Unfinished(r) # {}
    /\ pass' = [pass EXCEPT ![r] = NoPass]
    /\ UNCHANGED <<rows, claims, waits, journal, hand, listed, history>>

\* The conclusion's seal, or its repair.
seal(r) ==
    /\ pass[r].pc = "seal"
    /\ ended' = [ended EXCEPT ![r] = "sealed"]
    /\ SetPass(r, "retireWaits", None, None)
    /\ UNCHANGED <<rows, claims, waits, announced, answers, stop, hand, listed, history>>

\* A sealed run's waits go; what it held unread is offered to the next waiter.
retire_waits(r) ==
    /\ pass[r].pc = "retireWaits"
    /\ unsubscribe_run(r)
    /\ pass' = [pass EXCEPT ![r] = [NoPass EXCEPT !.pc = "release",
                                                  !.released = HandedBack(r) \ targeted]]
    /\ UNCHANGED <<journal, hand, listed, history>>

\* One delivery of its own after another, inside the closing pass.
offer_released(r) ==
    /\ pass[r].pc = "release" /\ hand[r].pc = "idle"
    /\ \E e \in pass[r].released :
        /\ pass' = [pass EXCEPT ![r] = [NoPass EXCEPT !.pc = "release",
                                                      !.released = pass[r].released \ {e}]]
        /\ SetHand(r, "offer", None, e)
    /\ UNCHANGED <<rows, claims, waits, journal, listed, history>>

release_lease(r) ==
    /\ pass[r].pc = "release" /\ pass[r].released = {} /\ hand[r].pc = "idle"
    /\ pass' = [pass EXCEPT ![r] = NoPass]
    /\ UNCHANGED <<rows, claims, waits, journal, hand, listed, history>>

-----------------------------------------------------------------------------
(* Operators, the sweep, erasure, crashes *)

\* A stop request; an idle run is driven by the caller, a held one by its owner.
request_cancel(r) ==
    /\ r \in setting.stoppable \ stop /\ ~resume_is_closed(r)
    /\ stop' = stop \cup {r}
    /\ IF pass[r].pc = "none"
       THEN SetPass(r, "step", None, None)
       ELSE UNCHANGED pass
    /\ UNCHANGED <<rows, claims, waits, announced, answers, ended, hand, listed, history>>

\* The sweep takes a lapsed run over: it finishes a conclusion, or resumes.
recover_abandoned(r) ==
    /\ pass[r].pc = "dead"
    /\ SetPass(r, IF resume_is_closed(r) THEN "seal" ELSE "step", None, None)
    /\ UNCHANGED <<rows, claims, waits, journal, hand, listed, history>>

Sealed == {r \in Run : ended[r] = "sealed"}

\* The redelivery pass reads the parked waits; a sealed run's are dropped, and
\* everything that run held claimed is shed.
parked_waits ==
    LET gone == {w \in parked : RunOf(w) \in Sealed}
        shed == {e \in Event : held[e] # None /\ \E w \in gone : RunOf(held[e]) = RunOf(w)}
    IN  /\ parked # {} /\ listed = {}
        /\ drop_waits(gone)
        /\ shed_claimed(shed)
        /\ held' = [e \in Event |-> IF e \in shed THEN None ELSE held[e]]
        /\ listed' = (parked \ gone) \cap subs
        /\ UNCHANGED <<stored, dead, targeted, erased, live, owner, journal, pass, hand, history>>

\* Each listed wait is re-claimed and its delivery finished.
redeliver_claimed ==
    /\ hand[Sweeper].pc = "idle"
    /\ \E w \in listed :
        /\ listed' = listed \ {w}
        /\ IF claimable(w) # {}
           THEN \E e \in claimable_for(w) : Claim(e, w) /\ SetHand(Sweeper, "wake", w, e)
           ELSE UNCHANGED <<claims, parked, hand>>
    /\ UNCHANGED <<rows, subs, older, journal, pass, history>>

\* Every live row older than the grace window is dead-lettered.
sweep_unclaimed ==
    \E n \in DOMAIN stored :
        LET old == Range(SubSeq(stored, 1, n)) \cap live
        IN  /\ stored[n] \in live
            /\ dead' = dead \cup old
            /\ live' = live \ old
            /\ UNCHANGED <<stored, payload, targeted, erased, shedFor, owner, held, waits,
                           journal, actors, history>>

\* A dead-lettered or an undelivered row is retired as erased; the claimant's
\* parked waits the row agrees with are waits again.
erase_payload(e) ==
    LET undelivered == held[e] # None
        unclaimed == owner[e] = None /\ e \notin dead
    IN  /\ e \in setting.erasable \ erased /\ Stored(e)
        /\ payload' = payload \ {e}
        /\ erased' = erased \cup {e}
        /\ IF undelivered \/ unclaimed
           THEN /\ dead' = dead \cup {e}
                /\ owner' = [owner EXCEPT ![e] = None]
                /\ live' = live \ {e}
           ELSE UNCHANGED <<dead, owner, live>>
        /\ held' = [held EXCEPT ![e] = None]
        /\ parked' = IF undelivered
                     THEN parked \ {w \in WaitsOf(owner[e]) \cap subs : Agree(w, e)}
                     ELSE parked
        /\ UNCHANGED <<stored, targeted, shedFor, subs, older, journal, actors, history>>

\* A process dies: the owner of a run, leaving its lease to lapse, ...
crash_owner(r) ==
    /\ pass[r].pc \notin {"none", "dead"}
    /\ crashes < setting.deaths /\ crashes' = crashes + 1
    /\ pass' = [pass EXCEPT ![r] = [NoPass EXCEPT !.pc = "dead"]]
    /\ hand' = [hand EXCEPT ![r] = Idle]
    /\ unoffered' = unoffered \cup pass[r].released
                     \cup (IF hand[r].pc = "offer" THEN {hand[r].event} ELSE {})
    /\ UNCHANGED <<rows, claims, waits, journal, listed>>

\* ... or a delivery.
crash_delivery(h) ==
    /\ hand[h].pc # "idle"
    /\ crashes < setting.deaths /\ crashes' = crashes + 1
    /\ hand' = [hand EXCEPT ![h] = Idle]
    /\ unoffered' = IF hand[h].pc = "offer" THEN unoffered \cup {hand[h].event} ELSE unoffered
    /\ UNCHANGED <<rows, claims, waits, journal, pass, listed>>

-----------------------------------------------------------------------------

PassStep(r) ==
    \/ record_delivery(r) \/ retire_delivered(r)
    \/ conclude(r) \/ announce(r) \/ subscribe(r) \/ claim_for(r) \/ append_answer(r)
    \/ unsubscribe_answered(r) \/ suspend(r)
    \/ seal(r) \/ retire_waits(r) \/ release_lease(r)
    \/ offer_released(r)

HandStep(h) == match_waiter(h) \/ acquire_for_delivery(h) \/ park_wait(h)

Outside ==
    \/ \E h \in setting.handlers, e \in Event : deliver(h, e) \/ \E r \in Run : deliver_to(h, r, e)
    \/ \E r \in Run : request_cancel(r) \/ crash_owner(r)
    \/ \E e \in Event : erase_payload(e)
    \/ \E h \in Handler \cup {Sweeper} : crash_delivery(h)
    \/ sweep_unclaimed

Next ==
    /\ UNCHANGED setting
    /\ \/ \E r \in Run : PassStep(r) \/ recover_abandoned(r)
       \/ \E h \in Deliverer : HandStep(h)
       \/ parked_waits \/ redeliver_claimed
       \/ Outside

Spec == Init /\ [][Next]_vars

\* A pass that holds a lease runs on until its process dies; a delivery in
\* flight does too; the sweep recovers, lists and redelivers on every tick.
\* Messages, stops, erasures, deaths and the grace window owe nothing.
FairSpec ==
    /\ Spec
    /\ \A r \in Run : WF_state(PassStep(r) \/ recover_abandoned(r))
    /\ \A h \in Deliverer : WF_state(HandStep(h))
    /\ WF_state(parked_waits \/ redeliver_claimed)


-----------------------------------------------------------------------------
(* Properties *)

\* Exactly one message answers a wait and a message answers one wait, whatever
\* deliveries, redeliveries, retries and takeovers do (resume_subscription and
\* wait_on append EffectDone; claim_for and match_waiter elect the message).
AnsweredOnce ==
    /\ \A w \in Wait : Len(answers[w]) <= 1
    /\ \A w, v \in Wait : w # v => Range(answers[w]) \cap Range(answers[v]) = {}

\* The buffer sheds a message's content only once a run has it: "Shedding it
\* would lose a message that arrived in time" (case/events.rs).
ShedIsRead == \A e \in Range(stored) : e \in payload \cup erased \/ Recorded(e)

\* While a wait is unanswered and its run open, no message taken for it loses
\* its content: a crash, a late delivery or a sweep between the claim and the
\* append leaves the buffer's copy to deliver again.
UnreadIsKept ==
    \A e \in Range(stored) : shedFor[e] # None /\ ~Recorded(e) =>
        Answered(shedFor[e]) \/ ended[RunOf(shedFor[e])] = "sealed"

\* A message claimed for an unanswered wait of an open run is on the list the
\* redelivery pass walks (PARKED, with its subscription), so that a claim whose
\* delivery died is found without anybody sending the message again: "a crash
\* before the resume leaves a pair the redelivery pass finds and finishes"
\* (match_waiter, redb_events.rs:1139).  The comment of redeliver_claimed says
\* the opposite of that crash, see CrashRetiresClaim.  An erasure unparks every
\* wait of the run that shares the erased message's key.
ClaimIsFindable ==
    erased = {} =>
    \A e \in Event : held[e] # None =>
        \/ Answered(held[e]) \/ resume_is_closed(RunOf(held[e]))
        \/ held[e] \in parked \cap subs

\* "A wait holding an undelivered message takes no second one" (claim_for), not
\* even when the message of another wait of its run is erased.
NoSecondClaim ==
    \A e, f \in Event : held[e] # None /\ held[e] = held[f] /\ ~Answered(held[e]) => e = f

\* A wait holds one undelivered message at a time: a second one taken for it
\* would be shed unread with the first (claim_for's comment).
OneClaimPerWait ==
    erased = {} => NoSecondClaim

\* The sweepable index is the rows nobody claimed and nobody retired, through
\* every claim, release, erasure and dead-lettering.
LiveIsUnclaimed == live = {e \in Range(stored) : owner[e] = None /\ e \notin dead}

\* A message addressed to one run answers that run or nobody.
AddressedStays ==
    \A w \in Wait : \A e \in Range(answers[w]) \cap targeted : setting.to[e] = RunOf(w)

\* Somebody is about to bring the two together: a delivery offers the message,
\* a closing pass will, or the wait's own pass has not suspended on it.
AboutToLook(w, e) ==
    \/ \E h \in Deliverer : hand[h].pc = "offer" /\ hand[h].event = e
    \/ \E r \in Run : e \in pass[r].released
    \/ pass[RunOf(w)].pc # "none" /\ w \notin pass[RunOf(w)].seen

\* A buffered message and a wait it agrees with do not pass each other by: the
\* wait is registered before the buffer is consulted and the message is stored
\* before the waits are, so one of the two is about to look.  What a process
\* died before offering waits for the sender's retry; an erasure that frees a
\* parked wait offers it the next message only.
NobodyPassedBy ==
    erased = {} =>
    \A e \in live \ unoffered, w \in subs \ parked :
        Agree(w, e) /\ ~resume_is_closed(RunOf(w)) => AboutToLook(w, e)

\* "A crash inside the store commit between an event's claim and the resume
\* retires the subscription with nothing left to re-register it" (the comment of
\* redeliver_claimed, executor.rs:12395), of a delivery that dies before it wakes
\* the run it claimed a message for.  The comment is older than the code: the
\* claim parks the wait in its own transaction and leaves it registered
\* (match_waiter, redb_events.rs:1139).
CrashRetiresClaim ==
    [][\A h \in Deliverer :
        crash_delivery(h) /\ hand[h].pc = "wake" /\ ~Answered(hand[h].wait) =>
            hand[h].wait \notin subs']_vars

\* A message claimed for an open wait reaches it, however often its deliveries
\* meet a held lease or die: "the delivery's retry bound bounds latency, never
\* delivery" (redeliver_claimed, executor.rs:12392).  That comment goes on to
\* except a crash between the claim and the resume; the code does not, and
\* neither does this property (CrashRetiresClaim).
ClaimIsDelivered ==
    \A w \in Wait :
        (~Answered(w) /\ \E e \in Event : held[e] = w) ~>
            (Answered(w) \/ resume_is_closed(RunOf(w)) \/ erased # {})

\* One message per wait, one wait per message, claimed or answered.
OneAnswerEach == TypeOK /\ AnsweredOnce /\ OneClaimPerWait

\* No message an open wait could have is lost, hidden or given elsewhere.
NothingIsLost ==
    UnreadIsKept /\ ClaimIsFindable /\ LiveIsUnclaimed /\ AddressedStays /\ NobodyPassedBy

-----------------------------------------------------------------------------
(* The inductive invariant *)

Planned == UNION {WaitsOf(r) : r \in Run}
Open(w) == ~Answered(w) /\ ~resume_is_closed(RunOf(w))

\* Somebody is about to record e as the answer of w.
InFlight(w, e) ==
    \/ \E h \in Deliverer : hand[h] = [pc |-> "wake", wait |-> w, event |-> e]
    \/ \E r \in Run : /\ pass[r].pc \in {"record", "append"}
                      /\ pass[r].wait = w /\ pass[r].event = e

\* A wait is announced before anything else knows of it, and a pass is about a
\* wait of its own run.
WaitsArePlanned ==
    /\ announced \subseteq Planned
    /\ subs \cup parked \cup listed \subseteq announced
    /\ \A e \in Event : held[e] \in announced \cup {None} /\ shedFor[e] \in announced \cup {None}
    /\ \A h \in Deliverer :
        /\ hand[h].pc = "wake" => hand[h].wait \in announced /\ hand[h].event \in Event
        /\ hand[h].pc = "offer" => hand[h].event \in Event /\ Stored(hand[h].event)
    /\ \A r \in Run :
        /\ pass[r].pc \in {"record", "retire", "subscribe", "claim", "append", "unsubscribe"} =>
                pass[r].wait \in announced \cap WaitsOf(r)
        /\ pass[r].pc \in {"record", "append"} => pass[r].event \in Event
        /\ \A e \in pass[r].released : Stored(e)

\* Where a pass stands says what it has made sure of.
PassesAreSound ==
    \A r \in Run :
        /\ pass[r].pc \in {"step", "retire", "subscribe", "claim", "append", "unsubscribe"} =>
                ended[r] = "no"
        /\ pass[r].pc \in {"retireWaits", "release"} => ended[r] = "sealed"
        /\ pass[r].pc \in {"subscribe", "claim", "append"} =>
                ~Answered(pass[r].wait) /\ pass[r].wait \notin pass[r].seen
        /\ pass[r].pc \in {"claim", "append"} => pass[r].wait \in subs
        /\ pass[r].pc \in {"unsubscribe", "retire"} => Answered(pass[r].wait)
        /\ pass[r].pc # "release" => pass[r].released = {}

\* What the columns of a row say of one another.
RowsAreSound ==
    \A e \in Event :
        /\ ~Stored(e) => owner[e] = None /\ shedFor[e] = None /\ e \notin dead \cup targeted \cup erased
        /\ e \in dead => owner[e] = None
        /\ held[e] # None => owner[e] = RunOf(held[e])
        /\ e \in erased => held[e] = None /\ (owner[e] # None \/ e \in dead)
        /\ e \in targeted =>
            /\ owner[e] = None => e \in dead
            /\ owner[e] # None => owner[e] = setting.to[e]

\* While nothing was erased, a wait that holds a message is parked and holds one.
ClaimsAreApart ==
    erased = {} =>
        /\ \A e \in Event : held[e] # None => held[e] \in parked
        /\ \A e, f \in Event : held[e] # None /\ held[e] = held[f] => e = f

\* A message that answered is claimed for its wait, or nobody's to claim again.
AnswersAreClaims ==
    \A w \in Wait : \A e \in Range(answers[w]) :
        /\ w \in Planned /\ Stored(e)
        /\ e \in dead \/ (owner[e] = RunOf(w) /\ held[e] \in {w, None})

\* What is about to answer an open wait is claimed for it, or was erased since,
\* and answers nobody else.
FlightsAreClaims ==
    \A w \in Planned, e \in Event : InFlight(w, e) =>
        /\ Stored(e)
        /\ e \in targeted => setting.to[e] = RunOf(w)
        /\ Open(w) => /\ ~Recorded(e)
                      /\ held[e] = w \/ e \in dead \cap erased
                      /\ \A v \in Planned : InFlight(v, e) /\ Open(v) => v = w

\* What the redelivery pass read is still registered while it matters.
ListedAreKept == \A w \in listed : Open(w) => w \in subs

AnsweredAreParked == erased = {} => \A w \in subs : Answered(w) => w \in parked

\* A wait is announced once the ready sets before its own are answered.
InOrder ==
    \A r \in Run : \A i, j \in DOMAIN Plan[r] :
        \A w \in Plan[r][i] \cap announced, v \in Plan[r][j] : j < i => Answered(v)

InboxInv ==
    /\ TypeOK /\ WaitsArePlanned /\ PassesAreSound /\ RowsAreSound /\ ClaimsAreApart
    /\ AnswersAreClaims /\ FlightsAreClaims /\ ListedAreKept /\ AnsweredAreParked /\ InOrder
    /\ AnsweredOnce /\ NothingIsLost

=============================================================================
