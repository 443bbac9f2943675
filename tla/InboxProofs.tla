---------------------------- MODULE InboxProofs ----------------------------
(***************************************************************************)
(* Proofs about Inbox, for any messages, runs, waits, deliveries, plans    *)
(* and deaths: one message answers one wait (OneAnswerEach), and no message*)
(* an open wait could have is lost, hidden or given elsewhere              *)
(* (NothingIsLost).  The inductive invariant is InboxInv.                  *)
(***************************************************************************)
EXTENDS Inbox, SequenceTheorems, TLAPS

-----------------------------------------------------------------------------
(* Runs and their waits *)

LEMMA ScenarioShape ==
    ASSUME setting \in Scenarios
    PROVE  /\ setting.plan \in [Run -> Seq(SUBSET Wait)]
           /\ setting.to \in [Event -> Run \cup {None}]
           /\ setting.stoppable \subseteq Run
           /\ setting.handlers \subseteq Handler
           /\ setting.deaths \in 0..MaxCrashes
  BY ScenariosAssumption DEF Scenario

LEMMA WaitsOfFacts ==
    ASSUME setting \in Scenarios, NEW r \in Run
    PROVE  /\ WaitsOf(r) \subseteq Wait
           /\ \A w : w \in WaitsOf(r) <=> \E i \in DOMAIN Plan[r] : w \in Plan[r][i]
<1>1. Plan[r] \in Seq(SUBSET Wait)
  BY ScenarioShape DEF Plan
<1>2. \A w : w \in WaitsOf(r) <=> \E i \in DOMAIN Plan[r] : w \in Plan[r][i]
  BY DEF WaitsOf, Range
<1> QED
  BY <1>1, <1>2

LEMMA OneRunOf ==
    ASSUME setting \in Scenarios, NEW r \in Run, NEW w \in WaitsOf(r)
    PROVE  RunOf(w) = r
<1>1. ASSUME NEW s \in Run, w \in WaitsOf(s) PROVE s = r
  <2>1. PICK i \in DOMAIN Plan[r] : w \in Plan[r][i]
    BY WaitsOfFacts
  <2>2. PICK j \in DOMAIN Plan[s] : w \in Plan[s][j]
    BY <1>1, WaitsOfFacts
  <2>3. <<r, i>> # <<s, j>> => Plan[r][i] \cap Plan[s][j] = {}
    BY <1>1, <2>1, <2>2, ScenariosAssumption DEF Plan
  <2> QED
    BY <2>1, <2>2, <2>3
<1> QED
  BY <1>1 DEF RunOf

LEMMA OneSetOf ==
    ASSUME setting \in Scenarios, NEW r \in Run, NEW i \in DOMAIN Plan[r], NEW j \in DOMAIN Plan[r],
           NEW w, w \in Plan[r][i], w \in Plan[r][j]
    PROVE  i = j
<1>1. <<r, i>> # <<r, j>> => Plan[r][i] \cap Plan[r][j] = {}
  BY ScenariosAssumption DEF Plan
<1> QED
  BY <1>1

LEMMA PlannedFacts ==
    ASSUME setting \in Scenarios, NEW w \in Planned
    PROVE  w \in Wait /\ RunOf(w) \in Run /\ w \in WaitsOf(RunOf(w))
<1>1. PICK r \in Run : w \in WaitsOf(r)
  BY DEF Planned
<1> QED
  BY <1>1, OneRunOf, WaitsOfFacts

\* What depends on the setting alone stays.
LEMMA SettingStays ==
    ASSUME setting' = setting
    PROVE  /\ Plan' = Plan
           /\ \A r : WaitsOf(r)' = WaitsOf(r)
           /\ \A w : RunOf(w)' = RunOf(w)
           /\ Planned' = Planned
<1>1. Plan' = Plan
  BY DEF Plan
<1>2. \A r : WaitsOf(r)' = WaitsOf(r)
  BY <1>1 DEF WaitsOf
<1>3. \A w : RunOf(w)' = RunOf(w)
  BY <1>2 DEF RunOf
<1>4. Planned' = Planned
  BY <1>2 DEF Planned
<1> QED
  BY <1>1, <1>2, <1>3, <1>4

-----------------------------------------------------------------------------
(* Rows and answers *)

LEMMA StoredAppend ==
    ASSUME stored \in Seq(Event), IsInjective(stored), NEW e \in Event, ~Stored(e),
           stored' = Append(stored, e)
    PROVE  /\ stored' \in Seq(Event) /\ IsInjective(stored)'
           /\ \A f : Stored(f)' <=> Stored(f) \/ f = e
<1>1. /\ stored' \in Seq(Event)
      /\ DOMAIN stored = 1..Len(stored) /\ Len(stored) \in Nat
      /\ DOMAIN stored' = 1..(Len(stored) + 1)
      /\ \A i \in 1..Len(stored) : stored'[i] = stored[i]
      /\ stored'[Len(stored) + 1] = e
  OBVIOUS
<1>2. \A f : Stored(f)' <=> Stored(f) \/ f = e
  BY <1>1 DEF Stored, Range
<1>3. IsInjective(stored)'
  BY <1>1 DEF IsInjective, Stored, Range
<1> QED
  BY <1>1, <1>2, <1>3

LEMMA AnswerAppend ==
    ASSUME answers \in [Wait -> Seq(Event)], NEW w \in Wait, ~Answered(w), NEW e \in Event,
           answers' = [answers EXCEPT ![w] = Append(@, e)]
    PROVE  /\ answers' \in [Wait -> Seq(Event)]
           /\ \A v \in Wait : v # w => answers'[v] = answers[v]
           /\ Range(answers'[w]) = {e} /\ Len(answers'[w]) = 1
           /\ \A v \in Wait : Answered(v)' <=> Answered(v) \/ v = w
           /\ \A f : Recorded(f)' <=> Recorded(f) \/ f = e
<1>1. answers[w] = <<>>
  BY DEF Answered
<1>2. answers'[w] = <<e>> /\ answers' \in [Wait -> Seq(Event)]
  BY <1>1
<1>3. \A v \in Wait : v # w => answers'[v] = answers[v]
  OBVIOUS
<1>4. Range(answers'[w]) = {e} /\ Len(answers'[w]) = 1
  BY <1>2 DEF Range
<1>5. \A v \in Wait : Answered(v)' <=> Answered(v) \/ v = w
  BY <1>2, <1>3 DEF Answered
<1>6. Range(answers[w]) = {}
  BY <1>1 DEF Range
<1>7. \A f : Recorded(f)' <=> Recorded(f) \/ f = e
  BY <1>3, <1>4, <1>6 DEF Recorded
<1> QED
  BY <1>2, <1>3, <1>4, <1>5, <1>7

-----------------------------------------------------------------------------
(* The parts of the invariant, and what keeps them *)

LEMMA InvParts ==
    InboxInv =>
        /\ TypeOK /\ WaitsArePlanned /\ PassesAreSound /\ RowsAreSound /\ ClaimsAreApart
        /\ AnswersAreClaims /\ FlightsAreClaims /\ ListedAreKept /\ AnsweredAreParked /\ InOrder
        /\ AnsweredOnce /\ UnreadIsKept /\ ClaimIsFindable /\ LiveIsUnclaimed /\ AddressedStays
        /\ NobodyPassedBy
  BY DEF InboxInv, NothingIsLost

LEMMA AnswersStay ==
    ASSUME answers' = answers
    PROVE  /\ \A w : Answered(w)' <=> Answered(w)
           /\ \A e : Recorded(e)' <=> Recorded(e)
  BY DEF Answered, Recorded

LEMMA EndsStay ==
    ASSUME setting' = setting, answers' = answers, ended' = ended
    PROVE  /\ \A r : resume_is_closed(r)' <=> resume_is_closed(r)
           /\ \A w : Open(w)' <=> Open(w)
<1>1. \A r : resume_is_closed(r)' <=> resume_is_closed(r)
  BY DEF resume_is_closed
<1>2. \A w : RunOf(w)' = RunOf(w)
  BY SettingStays
<1>3. \A w : Open(w)' <=> Open(w)
  BY <1>1, <1>2, AnswersStay DEF Open
<1> QED
  BY <1>1, <1>3

LEMMA RowsStayStored ==
    ASSUME stored' = stored
    PROVE  \A e : Stored(e)' <=> Stored(e)
  BY DEF Stored

\* Nothing new is about to be recorded.
NoNewFlight == \A w, e : InFlight(w, e)' => InFlight(w, e)

LEMMA FlightsKept ==
    ASSUME FlightsAreClaims, setting' = setting, NoNewFlight,
           \A f \in Event : Stored(f) => Stored(f)' /\ (f \in targeted' => f \in targeted),
           \A v \in Planned : Open(v)' => Open(v),
           \A f \in Event : Recorded(f)' => Recorded(f),
           \A v \in Planned, f \in Event : Open(v)' /\ held[f] = v => held'[f] = v \/ f \in dead' \cap erased',
           dead \subseteq dead', erased \subseteq erased'
    PROVE  FlightsAreClaims'
<1>1. Planned' = Planned /\ (\A w : RunOf(w)' = RunOf(w)) /\ setting'.to = setting.to
  BY SettingStays
<1> SUFFICES ASSUME NEW w \in Planned, NEW e \in Event, InFlight(w, e)'
             PROVE  /\ Stored(e)'
                    /\ e \in targeted' => setting.to[e] = RunOf(w)
                    /\ Open(w)' => /\ ~Recorded(e)'
                                   /\ held'[e] = w \/ e \in dead' \cap erased'
                                   /\ \A v \in Planned : InFlight(v, e)' /\ Open(v)' => v = w
  BY <1>1, Zenon DEF FlightsAreClaims
<1>2. InFlight(w, e)
  BY DEF NoNewFlight
<1>3. /\ Stored(e)
      /\ e \in targeted => setting.to[e] = RunOf(w)
      /\ Open(w) => /\ ~Recorded(e)
                    /\ held[e] = w \/ e \in dead \cap erased
                    /\ \A v \in Planned : InFlight(v, e) /\ Open(v) => v = w
  BY <1>2, Zenon DEF FlightsAreClaims
<1> QED
  BY <1>3 DEF NoNewFlight

\* A step of the runs' passes and of the deliveries that writes neither the
\* store nor the journal.
StoreStays == UNCHANGED <<setting, rows, claims, waits, announced, answers, ended, listed>>

LEMMA ControlKeeps ==
    ASSUME InboxInv, StoreStays
    PROVE  /\ RowsAreSound' /\ ClaimsAreApart' /\ AnswersAreClaims' /\ ListedAreKept'
           /\ AnsweredAreParked' /\ InOrder' /\ AnsweredOnce' /\ UnreadIsKept'
           /\ ClaimIsFindable' /\ LiveIsUnclaimed' /\ AddressedStays'
<1>1. /\ setting' = setting /\ stored' = stored /\ dead' = dead /\ targeted' = targeted
      /\ erased' = erased /\ shedFor' = shedFor /\ live' = live /\ owner' = owner /\ held' = held
      /\ subs' = subs /\ parked' = parked /\ announced' = announced /\ answers' = answers
      /\ ended' = ended /\ listed' = listed
  BY DEF StoreStays, rows, claims, waits
<1>2. /\ \A w : RunOf(w)' = RunOf(w) /\ (Answered(w)' <=> Answered(w)) /\ (Open(w)' <=> Open(w))
      /\ \A e : (Recorded(e)' <=> Recorded(e)) /\ (Stored(e)' <=> Stored(e))
      /\ \A r : resume_is_closed(r)' <=> resume_is_closed(r)
      /\ Planned' = Planned /\ Plan' = Plan
  BY <1>1, SettingStays, AnswersStay, EndsStay, RowsStayStored
<1>3. RowsAreSound' /\ ClaimsAreApart'
  BY <1>1, <1>2, InvParts DEF RowsAreSound, ClaimsAreApart
<1>4. AnswersAreClaims' /\ ListedAreKept' /\ AnsweredAreParked'
  BY <1>1, <1>2, InvParts DEF AnswersAreClaims, ListedAreKept, AnsweredAreParked
<1>5. InOrder' /\ AnsweredOnce'
  BY <1>1, <1>2, InvParts DEF InOrder, AnsweredOnce
<1>6. UnreadIsKept' /\ ClaimIsFindable'
  BY <1>1, <1>2, InvParts DEF UnreadIsKept, ClaimIsFindable
<1>7. LiveIsUnclaimed' /\ AddressedStays'
  BY <1>1, <1>2, InvParts DEF LiveIsUnclaimed, AddressedStays
<1> QED
  BY <1>3, <1>4, <1>5, <1>6, <1>7

LEMMA ControlStep ==
    ASSUME InboxInv, StoreStays, NoNewFlight,
           TypeOK', WaitsArePlanned', PassesAreSound', NobodyPassedBy'
    PROVE  InboxInv'
<1>1. /\ setting' = setting /\ stored' = stored /\ targeted' = targeted /\ dead' = dead
      /\ erased' = erased /\ held' = held /\ answers' = answers /\ ended' = ended
  BY DEF StoreStays, rows, claims, waits
<1>2. FlightsAreClaims'
  BY <1>1, InvParts, FlightsKept, AnswersStay, EndsStay, RowsStayStored
<1> QED
  BY <1>2, ControlKeeps DEF InboxInv, NothingIsLost

LEMMA LookKept ==
    ASSUME InboxInv, StoreStays, unoffered \subseteq unoffered',
           erased = {} => \A e \in live \ unoffered', w \in subs \ parked :
               Agree(w, e) /\ ~resume_is_closed(RunOf(w)) /\ AboutToLook(w, e) => AboutToLook(w, e)'
    PROVE  NobodyPassedBy'
<1>1. /\ setting' = setting /\ erased' = erased /\ live' = live /\ subs' = subs /\ parked' = parked
      /\ answers' = answers /\ ended' = ended
  BY DEF StoreStays, rows, claims, waits
<1>2. (\A r : resume_is_closed(r)' <=> resume_is_closed(r)) /\ (\A w : RunOf(w)' = RunOf(w))
  BY <1>1, EndsStay, SettingStays
<1> QED
  BY <1>1, <1>2, InvParts DEF NobodyPassedBy, Agree

\* What TypeOK says of the actors.
LEMMA ActorTypes ==
    ASSUME TypeOK
    PROVE  /\ \A h \in Deliverer :
                /\ hand[h] = [pc |-> hand[h].pc, wait |-> hand[h].wait, event |-> hand[h].event]
                /\ hand[h].pc \in {"idle", "offer", "wake"}
                /\ hand[h].wait \in Wait \cup {None} /\ hand[h].event \in Event \cup {None}
           /\ \A r \in Run :
                /\ pass[r] = [pc |-> pass[r].pc, wait |-> pass[r].wait, event |-> pass[r].event,
                              seen |-> pass[r].seen, released |-> pass[r].released]
                /\ pass[r].pc \in PassPoints
                /\ pass[r].wait \in Wait \cup {None} /\ pass[r].event \in Event \cup {None}
                /\ pass[r].seen \subseteq Wait /\ pass[r].released \subseteq Event
           /\ DOMAIN hand = Deliverer /\ DOMAIN pass = Run
  BY DEF TypeOK

LEMMA SetPassEffect ==
    ASSUME TypeOK, NEW r \in Run, NEW pc, NEW w, NEW e, SetPass(r, pc, w, e)
    PROVE  /\ pass' = [pass EXCEPT ![r] = Moved(r, pc, w, e)]
           /\ pass'[r] = Moved(r, pc, w, e)
           /\ \A s \in Run : s # r => pass'[s] = pass[s]
           /\ pc \in PassPoints /\ w \in Wait \cup {None} /\ e \in Event \cup {None} =>
                 /\ Moved(r, pc, w, e) \in
                        [pc : PassPoints, wait : Wait \cup {None}, event : Event \cup {None},
                         seen : SUBSET Wait, released : SUBSET Event]
                 /\ pass' \in [Run -> [pc : PassPoints, wait : Wait \cup {None},
                         event : Event \cup {None}, seen : SUBSET Wait, released : SUBSET Event]]
<1>1. pass \in [Run -> [pc : PassPoints, wait : Wait \cup {None},
                         event : Event \cup {None}, seen : SUBSET Wait, released : SUBSET Event]]
  BY DEF TypeOK
<1>2. pass' = [pass EXCEPT ![r] = Moved(r, pc, w, e)]
  BY DEF SetPass
<1>3. pass[r] \in [pc : PassPoints, wait : Wait \cup {None},
                   event : Event \cup {None}, seen : SUBSET Wait, released : SUBSET Event]
  BY <1>1
<1>4. pc \in PassPoints /\ w \in Wait \cup {None} /\ e \in Event \cup {None} =>
        Moved(r, pc, w, e) \in
            [pc : PassPoints, wait : Wait \cup {None}, event : Event \cup {None},
             seen : SUBSET Wait, released : SUBSET Event]
  BY <1>3 DEF Moved
<1> QED
  BY <1>1, <1>2, <1>4

\* The parts of TypeOK that the actors do not touch.
LEMMA TypeKept ==
    ASSUME TypeOK, StoreStays, stop' \subseteq setting.stoppable, unoffered' \subseteq Event,
           pass' \in [Run -> [pc : PassPoints, wait : Wait \cup {None},
                         event : Event \cup {None}, seen : SUBSET Wait,
                         released : SUBSET Event]],
           hand' \in [Deliverer -> [pc : {"idle", "offer", "wake"}, wait : Wait \cup {None},
                               event : Event \cup {None}]],
           crashes' \in 0..MaxCrashes
    PROVE  TypeOK'
  BY DEF TypeOK, StoreStays, rows, claims, waits, RegistrationOrder

LEMMA PlannedKept ==
    ASSUME InboxInv, StoreStays,
           \A h \in Deliverer : \/ hand'[h] = hand[h] \/ hand'[h].pc = "idle"
                                \/ hand'[h].pc = "offer" /\ hand'[h].event \in Event /\ Stored(hand'[h].event),
           \A r \in Run : \/ pass'[r] = pass[r]
                          \/ /\ pass'[r].pc \in {"none", "dead", "step", "seal", "release"}
                             /\ pass'[r].released \subseteq pass[r].released
                          \/ /\ pass'[r].pc = "record" /\ pass'[r].released = {}
                             /\ pass'[r].wait \in announced \cap WaitsOf(r) /\ pass'[r].event \in Event
    PROVE  WaitsArePlanned'
<1>1. /\ setting' = setting /\ stored' = stored /\ announced' = announced /\ subs' = subs
      /\ parked' = parked /\ listed' = listed /\ held' = held /\ shedFor' = shedFor
  BY DEF StoreStays, rows, claims, waits
<1>2. Planned' = Planned /\ (\A r : WaitsOf(r)' = WaitsOf(r)) /\ (\A e : Stored(e)' <=> Stored(e))
  BY <1>1, SettingStays, RowsStayStored
<1> QED
  BY <1>1, <1>2, InvParts DEF WaitsArePlanned

-----------------------------------------------------------------------------
(* Steps of the actors alone *)

LEMMA AcquireStep ==
    ASSUME InboxInv, setting' = setting, NEW h \in Deliverer, acquire_for_delivery(h)
    PROVE  InboxInv'
<1> DEFINE w == hand[h].wait
           e == hand[h].event
           r == RunOf(w)
<1>1. /\ hand[h].pc = "wake" /\ pass[r].pc \in {"none", "dead"}
      /\ pass' = [pass EXCEPT ![r] = [NoPass EXCEPT !.pc = "record", !.wait = w, !.event = e]]
      /\ hand' = [hand EXCEPT ![h] = Idle]
      /\ UNCHANGED <<stop, history>> /\ StoreStays
  BY DEF acquire_for_delivery, StoreStays, journal
<1>2. TypeOK /\ w \in announced /\ w \in Planned /\ e \in Event /\ setting \in Scenarios
  BY <1>1, InvParts DEF WaitsArePlanned, TypeOK
<1>3. r \in Run /\ w \in Wait /\ w \in WaitsOf(r)
  BY <1>2, PlannedFacts
<1> HIDE DEF w, e, r
<1>4. /\ pass'[r] = [pc |-> "record", wait |-> w, event |-> e, seen |-> {}, released |-> {}]
      /\ \A s \in Run : s # r => pass'[s] = pass[s]
      /\ hand'[h] = Idle /\ \A g \in Deliverer : g # h => hand'[g] = hand[g]
  BY <1>1, <1>2, <1>3, ActorTypes DEF NoPass
<1>5. TypeOK'
  <2>1. /\ pass' \in [Run -> [pc : PassPoints, wait : Wait \cup {None},
                         event : Event \cup {None}, seen : SUBSET Wait, released : SUBSET Event]]
        /\ hand' \in [Deliverer -> [pc : {"idle", "offer", "wake"}, wait : Wait \cup {None},
                               event : Event \cup {None}]]
    BY <1>1, <1>2, <1>3 DEF TypeOK, NoPass, Idle, PassPoints
  <2> QED
    BY <1>1, <1>2, <2>1, TypeKept DEF TypeOK, history
<1>6. WaitsArePlanned'
  <2>1. \A g \in Deliverer : hand'[g] = hand[g] \/ hand'[g].pc = "idle"
    BY <1>4 DEF Idle
  <2>2. \A s \in Run : \/ pass'[s] = pass[s]
                       \/ /\ pass'[s].pc = "record" /\ pass'[s].released = {}
                          /\ pass'[s].wait \in announced \cap WaitsOf(s) /\ pass'[s].event \in Event
    BY <1>2, <1>3, <1>4
  <2> QED
    BY <1>1, <2>1, <2>2, PlannedKept
<1>7. PassesAreSound'
  <2>1. subs' = subs /\ answers' = answers /\ ended' = ended
    BY <1>1 DEF StoreStays, waits
  <2>2. \A v : Answered(v)' <=> Answered(v)
    BY <2>1, AnswersStay
  <2> QED
    BY <1>4, <2>1, <2>2, InvParts DEF PassesAreSound
<1>8. NoNewFlight
  <2>1. hand[h] = [pc |-> "wake", wait |-> w, event |-> e]
    BY <1>1, <1>2, ActorTypes DEF w, e
  <2> SUFFICES ASSUME NEW v, NEW f, InFlight(v, f)' PROVE InFlight(v, f)
    BY DEF NoNewFlight
  <2> QED
    BY <1>3, <1>4, <2>1 DEF InFlight, Idle
<1>9. NobodyPassedBy'
  <2>1. pass[r].released = {}
    BY <1>1, <1>3, InvParts DEF PassesAreSound
  <2>2. \A v : RunOf(v)' = RunOf(v)
    BY <1>1, SettingStays
  <2>3. ASSUME NEW f, NEW v \in subs, AboutToLook(v, f) PROVE AboutToLook(v, f)'
    <3>1. RunOf(v) \in Run
      BY <1>2, InvParts, PlannedFacts DEF WaitsArePlanned
    <3>2. CASE \E g \in Deliverer : hand[g].pc = "offer" /\ hand[g].event = f
      BY <1>1, <1>4, <3>2 DEF AboutToLook
    <3>3. CASE \E s \in Run : f \in pass[s].released
      BY <1>4, <2>1, <3>3 DEF AboutToLook
    <3>4. CASE pass[RunOf(v)].pc # "none" /\ v \notin pass[RunOf(v)].seen
      BY <1>4, <2>2, <3>1, <3>4 DEF AboutToLook
    <3> QED
      BY <2>3, <3>2, <3>3, <3>4 DEF AboutToLook
  <2> QED
    BY <1>1, <2>3, LookKept DEF history
<1> QED
  BY <1>1, <1>5, <1>6, <1>7, <1>8, <1>9, ControlStep

\* One run's pass moves on, with the waits it has not suspended on.
LEMMA PassMoves ==
    ASSUME InboxInv, StoreStays, NEW r \in Run, UNCHANGED <<hand, history>>,
           stop' \subseteq setting.stoppable,
           NEW p, pass' = [pass EXCEPT ![r] = p],
           p \in [pc : PassPoints, wait : Wait \cup {None}, event : Event \cup {None},
                  seen : SUBSET Wait, released : SUBSET Event],
           p.pc \in {"none", "dead", "step", "seal"}, p.pc = "step" => ended[r] = "no",
           p.released = {}, pass[r].released = {},
           erased = {} => \A w \in subs \ parked :
               /\ RunOf(w) = r /\ ~resume_is_closed(r)
               /\ pass[r].pc # "none" /\ w \notin pass[r].seen
               => p.pc # "none" /\ w \notin p.seen
    PROVE  InboxInv'
<1>1. TypeOK /\ setting \in Scenarios /\ setting' = setting
  BY InvParts DEF TypeOK, StoreStays
<1>2. pass'[r] = p /\ (\A s \in Run : s # r => pass'[s] = pass[s]) /\ hand' = hand
  BY <1>1, ActorTypes
<1>3. TypeOK'
  BY <1>1, TypeKept DEF TypeOK, history
<1>4. WaitsArePlanned'
  <2>1. \A s \in Run : \/ pass'[s] = pass[s]
                       \/ /\ pass'[s].pc \in {"none", "dead", "step", "seal", "release"}
                          /\ pass'[s].released \subseteq pass[s].released
    BY <1>2
  <2> QED
    BY <1>2, <2>1, PlannedKept
<1>5. PassesAreSound'
  <2>1. subs' = subs /\ answers' = answers /\ ended' = ended
    BY <1>1 DEF StoreStays, waits
  <2>2. \A v : Answered(v)' <=> Answered(v)
    BY <2>1, AnswersStay
  <2> QED
    BY <1>2, <2>1, <2>2, InvParts DEF PassesAreSound
<1>6. NoNewFlight
  BY <1>2 DEF NoNewFlight, InFlight
<1>7. NobodyPassedBy'
  <2>1. \A v : RunOf(v)' = RunOf(v)
    BY <1>1, SettingStays
  <2>2. ASSUME NEW e, NEW w \in subs \ parked, erased = {}, ~resume_is_closed(RunOf(w)),
               AboutToLook(w, e)
        PROVE  AboutToLook(w, e)'
    <3>1. RunOf(w) \in Run
      BY <1>1, InvParts, PlannedFacts DEF WaitsArePlanned
    <3>2. CASE \E g \in Deliverer : hand[g].pc = "offer" /\ hand[g].event = e
      BY <1>2, <3>2 DEF AboutToLook
    <3>3. CASE \E s \in Run : e \in pass[s].released
      BY <1>2, <3>3 DEF AboutToLook
    <3>4. CASE pass[RunOf(w)].pc # "none" /\ w \notin pass[RunOf(w)].seen
      <4>1. pass'[RunOf(w)].pc # "none" /\ w \notin pass'[RunOf(w)].seen
        BY <1>2, <2>2, <3>1, <3>4
      <4> QED
        BY <2>1, <4>1 DEF AboutToLook
    <3> QED
      BY <2>2, <3>2, <3>3, <3>4 DEF AboutToLook
  <2> QED
    BY <2>2, LookKept DEF history
<1> QED
  BY <1>3, <1>4, <1>5, <1>6, <1>7, ControlStep

\* Every ready wait was suspended on, and no later one is registered.
LEMMA SuspendStep ==
    ASSUME InboxInv, setting' = setting, NEW r \in Run, suspend(r)
    PROVE  InboxInv'
<1>1. /\ pass[r].pc = "step" /\ Ready(r) = {} /\ Unfinished(r) # {}
      /\ pass' = [pass EXCEPT ![r] = NoPass]
      /\ UNCHANGED <<hand, stop, history>> /\ StoreStays
  BY DEF suspend, StoreStays, journal
<1>2. TypeOK /\ setting \in Scenarios /\ stop \subseteq setting.stoppable
  BY InvParts DEF TypeOK
<1>3. pass[r].released = {}
  BY <1>1, InvParts DEF PassesAreSound
<1>4. NoPass \in [pc : PassPoints, wait : Wait \cup {None}, event : Event \cup {None},
                  seen : SUBSET Wait, released : SUBSET Event]
  BY DEF NoPass, PassPoints
<1>5. ASSUME erased = {}, NEW w \in subs \ parked, RunOf(w) = r PROVE w \in pass[r].seen
  <2>1. w \in announced /\ w \in WaitsOf(r) /\ w \in Wait
    BY <1>2, <1>5, InvParts, PlannedFacts DEF WaitsArePlanned
  <2>2. ~Answered(w)
    BY <1>5, InvParts DEF AnsweredAreParked
  <2>3. PICK i \in DOMAIN Plan[r] : w \in Plan[r][i]
    BY <1>2, <2>1, WaitsOfFacts
  <2>4. i \in Unfinished(r)
    BY <2>2, <2>3 DEF Unfinished
  <2>5. ASSUME NEW j \in Unfinished(r) PROVE i <= j
    <3>1. j \in DOMAIN Plan[r] /\ \E v \in Plan[r][j] : ~Answered(v)
      BY DEF Unfinished
    <3>2. ~(j < i)
      BY <2>1, <2>3, <3>1, InvParts DEF InOrder
    <3>3. Plan[r] \in Seq(SUBSET Wait)
      BY <1>2, ScenarioShape DEF Plan
    <3>4. i \in Nat /\ j \in Nat
      BY <2>3, <3>1, <3>3
    <3> QED
      BY <3>2, <3>4
  <2> QED
    BY <1>1, <2>1, <2>2, <2>3, <2>4, <2>5 DEF Ready
<1>6. NoPass.pc = "none" /\ NoPass.released = {}
  BY DEF NoPass
<1> QED
  BY <1>1, <1>2, <1>3, <1>4, <1>5, <1>6, PassMoves

LEMMA ReleaseStep ==
    ASSUME InboxInv, setting' = setting, NEW r \in Run, release_lease(r)
    PROVE  InboxInv'
<1>1. /\ pass[r].pc = "release" /\ pass[r].released = {}
      /\ pass' = [pass EXCEPT ![r] = NoPass]
      /\ UNCHANGED <<hand, stop, history>> /\ StoreStays
  BY DEF release_lease, StoreStays, journal
<1>2. TypeOK /\ stop \subseteq setting.stoppable
  BY InvParts DEF TypeOK
<1>3. resume_is_closed(r)
  BY <1>1, InvParts DEF PassesAreSound, resume_is_closed
<1>4. NoPass \in [pc : PassPoints, wait : Wait \cup {None}, event : Event \cup {None},
                  seen : SUBSET Wait, released : SUBSET Event]
  BY DEF NoPass, PassPoints
<1>5. NoPass.pc = "none" /\ NoPass.released = {}
  BY DEF NoPass
<1> QED
  BY <1>1, <1>2, <1>3, <1>4, <1>5, PassMoves

LEMMA RecoverStep ==
    ASSUME InboxInv, setting' = setting, NEW r \in Run, recover_abandoned(r)
    PROVE  InboxInv'
<1> DEFINE pc == IF resume_is_closed(r) THEN "seal" ELSE "step"
           p == Moved(r, pc, None, None)
<1>1. /\ pass[r].pc = "dead" /\ SetPass(r, pc, None, None)
      /\ UNCHANGED <<hand, stop, history>> /\ StoreStays
  BY DEF recover_abandoned, StoreStays, journal
<1>2. TypeOK /\ stop \subseteq setting.stoppable /\ pc \in PassPoints
  BY InvParts DEF TypeOK, PassPoints
<1>3. pass[r].released = {}
  BY <1>1, InvParts DEF PassesAreSound
<1>4. p.pc \in {"step", "seal"} /\ p.released = {} /\ p.seen = pass[r].seen
      /\ (p.pc = "step" => ended[r] = "no")
  BY <1>3 DEF Moved, resume_is_closed
<1> HIDE DEF pc
<1>5. /\ pass' = [pass EXCEPT ![r] = p]
      /\ p \in [pc : PassPoints, wait : Wait \cup {None}, event : Event \cup {None},
                seen : SUBSET Wait, released : SUBSET Event]
  BY <1>1, <1>2, SetPassEffect
<1> HIDE DEF p
<1> QED
  BY <1>1, <1>2, <1>3, <1>4, <1>5, PassMoves

LEMMA CancelStep ==
    ASSUME InboxInv, setting' = setting, NEW r \in Run, request_cancel(r)
    PROVE  InboxInv'
<1>1. /\ r \in setting.stoppable /\ ~resume_is_closed(r) /\ stop' = stop \cup {r}
      /\ UNCHANGED <<hand, history>> /\ StoreStays
      /\ pass[r].pc = "none" => SetPass(r, "step", None, None)
      /\ pass[r].pc # "none" => pass' = pass
  BY DEF request_cancel, StoreStays
<1>2. TypeOK /\ stop' \subseteq setting.stoppable
  BY <1>1, InvParts DEF TypeOK
<1>3. CASE pass[r].pc = "none"
  <2> DEFINE q == Moved(r, "step", None, None)
  <2>1. pass[r].released = {}
    BY <1>3, InvParts DEF PassesAreSound
  <2>2. q.pc = "step" /\ q.released = {} /\ q.seen = pass[r].seen /\ ended[r] = "no"
    BY <1>1, <2>1 DEF Moved, resume_is_closed
  <2>3. /\ pass' = [pass EXCEPT ![r] = q]
        /\ q \in [pc : PassPoints, wait : Wait \cup {None}, event : Event \cup {None},
                  seen : SUBSET Wait, released : SUBSET Event]
    BY <1>1, <1>2, <1>3, SetPassEffect DEF PassPoints
  <2> HIDE DEF q
  <2> QED
    BY <1>1, <1>2, <2>1, <2>2, <2>3, PassMoves
<1>4. CASE pass[r].pc # "none"
  <2>1. pass' = pass /\ hand' = hand
    BY <1>1, <1>4
  <2>2. TypeOK'
    BY <1>1, <1>2, <2>1, TypeKept DEF TypeOK, history
  <2>3. WaitsArePlanned'
    BY <1>1, <2>1, PlannedKept
  <2>4. PassesAreSound'
    <3>1. subs' = subs /\ answers' = answers /\ ended' = ended
      BY <1>1 DEF StoreStays, waits
    <3>2. \A v : Answered(v)' <=> Answered(v)
      BY <3>1, AnswersStay
    <3> QED
      BY <2>1, <3>1, <3>2, InvParts DEF PassesAreSound
  <2>5. NoNewFlight
    BY <2>1 DEF NoNewFlight, InFlight
  <2>6. NobodyPassedBy'
    <3>1. \A v : RunOf(v)' = RunOf(v)
      BY SettingStays
    <3>2. \A v, e : AboutToLook(v, e) => AboutToLook(v, e)'
      BY <2>1, <3>1 DEF AboutToLook
    <3> QED
      BY <1>1, <3>2, LookKept DEF history
  <2> QED
    BY <1>1, <2>2, <2>3, <2>4, <2>5, <2>6, ControlStep
<1> QED
  BY <1>3, <1>4

LEMMA OfferStep ==
    ASSUME InboxInv, setting' = setting, NEW r \in Run, offer_released(r)
    PROVE  InboxInv'
<1>1. PICK e \in pass[r].released :
        /\ pass' = [pass EXCEPT ![r] = [NoPass EXCEPT !.pc = "release", !.released = pass[r].released \ {e}]]
        /\ SetHand(r, "offer", None, e)
  BY Zenon DEF offer_released
<1>2. /\ pass[r].pc = "release" /\ hand[r].pc = "idle"
      /\ UNCHANGED <<stop, history>> /\ StoreStays
  BY DEF offer_released, StoreStays, journal
<1>3. TypeOK /\ r \in Deliverer /\ e \in Event /\ Stored(e)
  BY <1>1, InvParts, ActorTypes DEF Deliverer, WaitsArePlanned
<1>4. /\ pass'[r] = [pc |-> "release", wait |-> None, event |-> None, seen |-> {},
                     released |-> pass[r].released \ {e}]
      /\ \A s \in Run : s # r => pass'[s] = pass[s]
      /\ pass' \in [Run -> [pc : PassPoints, wait : Wait \cup {None},
                         event : Event \cup {None}, seen : SUBSET Wait, released : SUBSET Event]]
  BY <1>1, <1>2, <1>3, ActorTypes DEF TypeOK, NoPass, PassPoints
<1>5. /\ hand'[r] = [pc |-> "offer", wait |-> None, event |-> e]
      /\ \A g \in Deliverer : g # r => hand'[g] = hand[g]
      /\ hand' \in [Deliverer -> [pc : {"idle", "offer", "wake"}, wait : Wait \cup {None},
                               event : Event \cup {None}]]
  BY <1>1, <1>3 DEF TypeOK, SetHand
<1>6. TypeOK'
  BY <1>2, <1>3, <1>4, <1>5, TypeKept DEF TypeOK, history
<1>7. WaitsArePlanned'
  <2>1. \A s \in Run : \/ pass'[s] = pass[s]
                       \/ pass'[s].pc = "release" /\ pass'[s].released \subseteq pass[s].released
    BY <1>4
  <2>2. \A g \in Deliverer :
            \/ hand'[g] = hand[g]
            \/ hand'[g].pc = "offer" /\ hand'[g].event \in Event /\ Stored(hand'[g].event)
    BY <1>3, <1>5
  <2> QED
    BY <1>2, <2>1, <2>2, PlannedKept
<1>8. PassesAreSound'
  <2>1. subs' = subs /\ answers' = answers /\ ended' = ended
    BY <1>2 DEF StoreStays, waits
  <2>2. \A v : Answered(v)' <=> Answered(v)
    BY <2>1, AnswersStay
  <2>3. \A s \in Run : s # r => pass'[s] = pass[s]
    BY <1>4
  <2> QED
    BY <1>2, <1>4, <2>1, <2>2, <2>3, InvParts DEF PassesAreSound
<1>9. NoNewFlight
  <2> SUFFICES ASSUME NEW v, NEW f, InFlight(v, f)' PROVE InFlight(v, f)
    BY DEF NoNewFlight
  <2>1. CASE \E h \in Deliverer : hand'[h] = [pc |-> "wake", wait |-> v, event |-> f]
    BY <1>5, <2>1 DEF InFlight
  <2>2. CASE \E s \in Run : /\ pass'[s].pc \in {"record", "append"}
                            /\ pass'[s].wait = v /\ pass'[s].event = f
    BY <1>4, <2>2 DEF InFlight
  <2> QED
    BY <2>1, <2>2 DEF InFlight
<1>10. NobodyPassedBy'
  <2>1. \A v : RunOf(v)' = RunOf(v)
    BY SettingStays
  <2>2. ASSUME NEW f, NEW v \in subs, AboutToLook(v, f) PROVE AboutToLook(v, f)'
    <3>1. RunOf(v) \in Run
      BY <1>3, InvParts, PlannedFacts DEF WaitsArePlanned, TypeOK
    <3>2. CASE \E g \in Deliverer : hand[g].pc = "offer" /\ hand[g].event = f
      BY <1>2, <1>5, <3>2 DEF AboutToLook
    <3>3. CASE \E s \in Run : f \in pass[s].released
      <4>1. CASE f = e
        BY <1>3, <1>5, <4>1 DEF AboutToLook
      <4>2. CASE f # e
        BY <1>4, <3>3, <4>2 DEF AboutToLook
      <4> QED
        BY <4>1, <4>2
    <3>4. CASE pass[RunOf(v)].pc # "none" /\ v \notin pass[RunOf(v)].seen
      BY <1>4, <2>1, <3>1, <3>4 DEF AboutToLook
    <3> QED
      BY <2>2, <3>2, <3>3, <3>4 DEF AboutToLook
  <2> QED
    BY <1>2, <2>2, LookKept DEF history
<1> QED
  BY <1>2, <1>6, <1>7, <1>8, <1>9, <1>10, ControlStep

LEMMA CrashDeliveryStep ==
    ASSUME InboxInv, setting' = setting, NEW h \in Deliverer, crash_delivery(h)
    PROVE  InboxInv'
<1>1. /\ crashes < setting.deaths /\ crashes' = crashes + 1
      /\ hand' = [hand EXCEPT ![h] = Idle]
      /\ unoffered' = IF hand[h].pc = "offer" THEN unoffered \cup {hand[h].event} ELSE unoffered
      /\ UNCHANGED <<stop, pass>> /\ StoreStays
  BY DEF crash_delivery, StoreStays, journal
<1>2. TypeOK /\ (hand[h].pc = "offer" => hand[h].event \in Event)
  BY InvParts DEF WaitsArePlanned
<1>3. /\ hand'[h] = Idle /\ \A g \in Deliverer : g # h => hand'[g] = hand[g]
      /\ hand' \in [Deliverer -> [pc : {"idle", "offer", "wake"}, wait : Wait \cup {None},
                               event : Event \cup {None}]]
  BY <1>1, <1>2 DEF TypeOK, Idle
<1>4. TypeOK'
  <2>1. crashes' \in 0..MaxCrashes
    BY <1>1, <1>2, ScenarioShape, ScenariosAssumption DEF TypeOK
  <2>2. unoffered' \subseteq Event
    BY <1>1, <1>2 DEF TypeOK
  <2> QED
    BY <1>1, <1>2, <1>3, <2>1, <2>2, TypeKept DEF TypeOK
<1>5. WaitsArePlanned'
  <2>1. \A g \in Deliverer : hand'[g] = hand[g] \/ hand'[g].pc = "idle"
    BY <1>3 DEF Idle
  <2> QED
    BY <1>1, <2>1, PlannedKept
<1>6. PassesAreSound'
  <2>1. subs' = subs /\ answers' = answers /\ ended' = ended
    BY <1>1 DEF StoreStays, waits
  <2>2. \A v : Answered(v)' <=> Answered(v)
    BY <2>1, AnswersStay
  <2> QED
    BY <1>1, <2>1, <2>2, InvParts DEF PassesAreSound
<1>7. NoNewFlight
  BY <1>1, <1>3 DEF NoNewFlight, InFlight, Idle
<1>8. NobodyPassedBy'
  <2>1. \A v : RunOf(v)' = RunOf(v)
    BY SettingStays
  <2>2. ASSUME NEW f, f \notin unoffered', NEW v, AboutToLook(v, f) PROVE AboutToLook(v, f)'
    BY <1>1, <1>3, <2>1, <2>2 DEF AboutToLook
  <2>3. unoffered \subseteq unoffered'
    BY <1>1
  <2> QED
    BY <1>1, <2>2, <2>3, LookKept
<1> QED
  BY <1>1, <1>4, <1>5, <1>6, <1>7, <1>8, ControlStep

LEMMA CrashOwnerStep ==
    ASSUME InboxInv, setting' = setting, NEW r \in Run, crash_owner(r)
    PROVE  InboxInv'
<1> DEFINE gone == [NoPass EXCEPT !.pc = "dead"]
<1>1. /\ pass[r].pc # "none"
      /\ crashes < setting.deaths /\ crashes' = crashes + 1
      /\ pass' = [pass EXCEPT ![r] = gone]
      /\ hand' = [hand EXCEPT ![r] = Idle]
      /\ unoffered' = unoffered \cup pass[r].released
                       \cup (IF hand[r].pc = "offer" THEN {hand[r].event} ELSE {})
      /\ UNCHANGED stop /\ StoreStays
  BY DEF crash_owner, StoreStays, journal
<1>2. TypeOK /\ r \in Deliverer /\ (hand[r].pc = "offer" => hand[r].event \in Event)
  BY InvParts DEF WaitsArePlanned, Deliverer
<1>3. /\ hand'[r] = Idle /\ \A g \in Deliverer : g # r => hand'[g] = hand[g]
      /\ hand' \in [Deliverer -> [pc : {"idle", "offer", "wake"}, wait : Wait \cup {None},
                               event : Event \cup {None}]]
  BY <1>1, <1>2 DEF TypeOK, Idle
<1>4. gone = [pc |-> "dead", wait |-> None, event |-> None, seen |-> {}, released |-> {}]
  BY DEF NoPass
<1> HIDE DEF gone
<1>5. /\ pass'[r] = gone /\ \A s \in Run : s # r => pass'[s] = pass[s]
      /\ pass' \in [Run -> [pc : PassPoints, wait : Wait \cup {None},
                         event : Event \cup {None}, seen : SUBSET Wait, released : SUBSET Event]]
  BY <1>1, <1>2, <1>4 DEF TypeOK, PassPoints
<1>6. TypeOK'
  <2>1. crashes' \in 0..MaxCrashes
    BY <1>1, <1>2, ScenarioShape, ScenariosAssumption DEF TypeOK
  <2>2. unoffered' \subseteq Event
    BY <1>1, <1>2, ActorTypes DEF TypeOK
  <2> QED
    BY <1>1, <1>2, <1>3, <1>5, <2>1, <2>2, TypeKept DEF TypeOK
<1>7. WaitsArePlanned'
  <2>1. \A g \in Deliverer : hand'[g] = hand[g] \/ hand'[g].pc = "idle"
    BY <1>3 DEF Idle
  <2>2. \A s \in Run : \/ pass'[s] = pass[s]
                       \/ pass'[s].pc = "dead" /\ pass'[s].released \subseteq pass[s].released
    BY <1>4, <1>5
  <2> QED
    BY <1>1, <2>1, <2>2, PlannedKept
<1>8. PassesAreSound'
  <2>1. subs' = subs /\ answers' = answers /\ ended' = ended
    BY <1>1 DEF StoreStays, waits
  <2>2. \A v : Answered(v)' <=> Answered(v)
    BY <2>1, AnswersStay
  <2> QED
    BY <1>4, <1>5, <2>1, <2>2, InvParts DEF PassesAreSound
<1>9. NoNewFlight
  BY <1>3, <1>4, <1>5 DEF NoNewFlight, InFlight, Idle
<1>10. NobodyPassedBy'
  <2>1. \A v : RunOf(v)' = RunOf(v)
    BY SettingStays
  <2>2. ASSUME NEW f, f \notin unoffered', NEW v \in subs, AboutToLook(v, f) PROVE AboutToLook(v, f)'
    <3>1. RunOf(v) \in Run
      BY <1>2, InvParts, PlannedFacts DEF WaitsArePlanned, TypeOK
    <3>2. CASE \E g \in Deliverer : hand[g].pc = "offer" /\ hand[g].event = f
      BY <1>1, <1>3, <2>2, <3>2 DEF AboutToLook
    <3>3. CASE \E s \in Run : f \in pass[s].released
      BY <1>1, <1>5, <2>2, <3>3 DEF AboutToLook
    <3>4. CASE pass[RunOf(v)].pc # "none" /\ v \notin pass[RunOf(v)].seen
      BY <1>4, <1>5, <2>1, <3>1, <3>4 DEF AboutToLook
    <3> QED
      BY <2>2, <3>2, <3>3, <3>4 DEF AboutToLook
  <2>3. unoffered \subseteq unoffered'
    BY <1>1
  <2> QED
    BY <1>1, <2>2, <2>3, LookKept
<1> QED
  BY <1>1, <1>6, <1>7, <1>8, <1>9, <1>10, ControlStep

-----------------------------------------------------------------------------
(* Claims *)

\* A message is claimed for a wait that may have it.
Elects(e, w) ==
    /\ Claim(e, w)
    /\ e \notin dead /\ e \notin erased
    /\ owner[e] = None \/ held[e] = w
    /\ held[e] = w \/ w \notin parked
    /\ Open(w) => w \in subs
    /\ \A f : Stored(f)' <=> Stored(f) \/ f = e
    /\ targeted \subseteq targeted' /\ targeted' \subseteq targeted \cup {e}
    /\ e \in targeted' \ targeted => ~Stored(e) /\ setting.to[e] = RunOf(w)
    /\ UNCHANGED <<setting, dead, erased, shedFor, subs, older, journal, history>>
    /\ listed' \subseteq listed

LEMMA ClaimFacts ==
    ASSUME InboxInv, NEW e \in Event, NEW w \in announced, Elects(e, w)
    PROVE  /\ RunOf(w) \in Run /\ RunOf(w) # None /\ w \in Wait /\ w # None
           /\ owner'[e] = RunOf(w) /\ held'[e] = w /\ live' = live \ {e} /\ parked' = parked \cup {w}
           /\ \A f \in Event : f # e => owner'[f] = owner[f] /\ held'[f] = held[f]
           /\ owner' \in [Event -> Run \cup {None}] /\ held' \in [Event -> Wait \cup {None}]
           /\ e \in targeted' => setting.to[e] = RunOf(w)
           /\ setting' = setting /\ dead' = dead /\ erased' = erased /\ shedFor' = shedFor
           /\ subs' = subs /\ older' = older /\ announced' = announced /\ answers' = answers
           /\ ended' = ended /\ stop' = stop /\ unoffered' = unoffered
           /\ Open(w) => ~Recorded(e)
<1>1. TypeOK /\ setting \in Scenarios /\ w \in Planned /\ RowsAreSound /\ AnswersAreClaims
  BY InvParts DEF TypeOK, WaitsArePlanned
<1>2. RunOf(w) \in Run /\ RunOf(w) # None /\ w \in Wait /\ w # None
  BY <1>1, PlannedFacts, ScenariosAssumption
<1>3. /\ owner' = [owner EXCEPT ![e] = RunOf(w)] /\ held' = [held EXCEPT ![e] = w]
      /\ live' = live \ {e} /\ parked' = parked \cup {w}
  BY DEF Elects, Claim
<1>4. /\ setting' = setting /\ dead' = dead /\ erased' = erased /\ shedFor' = shedFor
      /\ subs' = subs /\ older' = older /\ announced' = announced /\ answers' = answers
      /\ ended' = ended /\ stop' = stop /\ unoffered' = unoffered
  BY DEF Elects, journal, history
<1>5. e \in targeted' => setting.to[e] = RunOf(w)
  BY <1>1, <1>2 DEF Elects, RowsAreSound
<1>6. Open(w) => ~Recorded(e)
  <2> SUFFICES ASSUME Open(w), NEW v \in Wait, e \in Range(answers[v]) PROVE FALSE
    BY DEF Recorded
  <2>1. v \in Planned /\ owner[e] = RunOf(v) /\ held[e] \in {v, None}
    BY <1>1 DEF AnswersAreClaims, Elects
  <2>2. RunOf(v) # None
    BY <1>1, <2>1, PlannedFacts, ScenariosAssumption
  <2>3. held[e] = w
    BY <2>1, <2>2 DEF Elects
  <2>4. v = w
    BY <1>2, <2>1, <2>3
  <2>5. answers[w] # <<>>
    BY <2>4 DEF Range
  <2> QED
    BY <2>5 DEF Open, Answered
<1> QED
  BY <1>1, <1>2, <1>3, <1>4, <1>5, <1>6 DEF TypeOK

LEMMA ClaimKeeps ==
    ASSUME InboxInv, NEW e \in Event, NEW w \in announced, Elects(e, w),
           \A v, f : InFlight(v, f)' => InFlight(v, f) \/ (v = w /\ f = e)
    PROVE  /\ RowsAreSound' /\ ClaimsAreApart' /\ AnswersAreClaims' /\ ListedAreKept'
           /\ AnsweredAreParked' /\ InOrder' /\ AnsweredOnce' /\ UnreadIsKept'
           /\ ClaimIsFindable' /\ LiveIsUnclaimed' /\ AddressedStays' /\ FlightsAreClaims'
<1>1. /\ RunOf(w) \in Run /\ RunOf(w) # None /\ w \in Wait /\ w # None
      /\ owner'[e] = RunOf(w) /\ held'[e] = w /\ live' = live \ {e} /\ parked' = parked \cup {w}
      /\ \A f \in Event : f # e => owner'[f] = owner[f] /\ held'[f] = held[f]
      /\ e \in targeted' => setting.to[e] = RunOf(w)
      /\ setting' = setting /\ dead' = dead /\ erased' = erased /\ shedFor' = shedFor
      /\ subs' = subs /\ announced' = announced /\ answers' = answers /\ ended' = ended
      /\ Open(w) => ~Recorded(e)
  BY ClaimFacts
<1>2. /\ \A v : RunOf(v)' = RunOf(v) /\ (Answered(v)' <=> Answered(v)) /\ (Open(v)' <=> Open(v))
      /\ \A f : (Recorded(f)' <=> Recorded(f))
      /\ \A r : resume_is_closed(r)' <=> resume_is_closed(r)
      /\ Planned' = Planned /\ Plan' = Plan /\ setting'.to = setting.to
  BY <1>1, SettingStays, AnswersStay, EndsStay
<1>3. /\ e \notin dead /\ e \notin erased /\ (owner[e] = None \/ held[e] = w)
      /\ (held[e] = w \/ w \notin parked) /\ (Open(w) => w \in subs)
      /\ \A f : Stored(f)' <=> Stored(f) \/ f = e
      /\ targeted \subseteq targeted' /\ targeted' \subseteq targeted \cup {e}
      /\ e \in targeted' \ targeted => ~Stored(e)
      /\ listed' \subseteq listed
  BY DEF Elects
<1>4. setting \in Scenarios /\ \A f : Stored(f) => f \in Event
  BY InvParts DEF TypeOK, Stored, Range
<1>5. RowsAreSound'
  BY <1>1, <1>2, <1>3, InvParts DEF RowsAreSound
<1>6. ClaimsAreApart'
  BY <1>1, <1>3, InvParts DEF ClaimsAreApart
<1>7. AnswersAreClaims'
  <2> SUFFICES ASSUME NEW v \in Wait, NEW f \in Range(answers[v])
               PROVE  /\ v \in Planned /\ Stored(f)'
                      /\ f \in dead \/ (owner'[f] = RunOf(v) /\ held'[f] \in {v, None})
    BY <1>1, <1>2 DEF AnswersAreClaims
  <2>1. /\ v \in Planned /\ Stored(f) /\ f \in Event
        /\ f \in dead \/ (owner[f] = RunOf(v) /\ held[f] \in {v, None})
    BY <1>4, InvParts DEF AnswersAreClaims
  <2>2. RunOf(v) # None
    BY <1>4, <2>1, PlannedFacts, ScenariosAssumption
  <2> QED
    BY <1>1, <1>3, <2>1, <2>2
<1>8. ListedAreKept' /\ AnsweredAreParked'
  BY <1>1, <1>2, <1>3, InvParts DEF ListedAreKept, AnsweredAreParked
<1>9. InOrder' /\ AnsweredOnce'
  BY <1>1, <1>2, InvParts DEF InOrder, AnsweredOnce
<1>10. UnreadIsKept'
  <2> SUFFICES ASSUME NEW f, Stored(f)', shedFor[f] # None, ~Recorded(f)
               PROVE  Answered(shedFor[f]) \/ ended[RunOf(shedFor[f])] = "sealed"
    BY <1>1, <1>2 DEF UnreadIsKept, Stored
  <2>1. f \in Event
    BY <1>3, <1>4
  <2>2. Stored(f)
    BY <2>1, InvParts DEF RowsAreSound
  <2> QED
    BY <2>2, InvParts DEF UnreadIsKept, Stored
<1>11. ClaimIsFindable'
  BY <1>1, <1>2, <1>3, InvParts DEF ClaimIsFindable, Open
<1>12. LiveIsUnclaimed'
  <2>1. \A f : f \in live <=> Stored(f) /\ owner[f] = None /\ f \notin dead
    BY InvParts DEF LiveIsUnclaimed, Stored
  <2>2. \A f : f \in live' <=> Stored(f)' /\ owner'[f] = None /\ f \notin dead'
    BY <1>1, <1>3, <1>4, <2>1
  <2> QED
    BY <2>2 DEF LiveIsUnclaimed, Stored
<1>13. AddressedStays'
  <2> SUFFICES ASSUME NEW v \in Wait, NEW f \in Range(answers[v]), f \in targeted'
               PROVE  setting.to[f] = RunOf(v)
    BY <1>1, <1>2 DEF AddressedStays
  <2>1. Stored(f)
    BY InvParts DEF AnswersAreClaims
  <2>2. f \in targeted
    BY <1>3, <2>1
  <2> QED
    BY <2>2, InvParts DEF AddressedStays
<1>14. FlightsAreClaims'
  <2> SUFFICES ASSUME NEW v \in Planned, NEW f \in Event, InFlight(v, f)'
               PROVE  /\ Stored(f)'
                      /\ f \in targeted' => setting.to[f] = RunOf(v)
                      /\ Open(v) => /\ ~Recorded(f)
                                    /\ held'[f] = v \/ f \in dead \cap erased
                                    /\ \A u \in Planned : InFlight(u, f)' /\ Open(u) => u = v
    BY <1>1, <1>2, Zenon DEF FlightsAreClaims
  <2>1. ASSUME NEW u \in Planned, NEW g \in Event, InFlight(u, g)
        PROVE  /\ Stored(g)
               /\ g \in targeted => setting.to[g] = RunOf(u)
               /\ Open(u) => /\ ~Recorded(g)
                             /\ held[g] = u \/ g \in dead \cap erased
                             /\ \A x \in Planned : InFlight(x, g) /\ Open(x) => x = u
    BY <2>1, InvParts, Zenon DEF FlightsAreClaims
  <2>2. w \in Planned
    BY InvParts DEF WaitsArePlanned
  <2>3. ASSUME NEW u \in Planned, InFlight(u, e), Open(u) PROVE u = w
    <3>1. held[e] = u
      BY <1>3, <2>1, <2>3
    <3>2. u # None
      BY <1>4, PlannedFacts, ScenariosAssumption
    <3>3. owner[e] = RunOf(u)
      BY <3>1, <3>2, InvParts DEF RowsAreSound
    <3>4. RunOf(u) # None
      BY <1>4, PlannedFacts, ScenariosAssumption
    <3> QED
      BY <1>3, <3>1, <3>3, <3>4
  <2>4. CASE f = e
    <3>1. ASSUME NEW u \in Planned, InFlight(u, e)', Open(u) PROVE u = w
      BY <2>3, <3>1
    <3>2. e \in targeted' => setting.to[e] = RunOf(v)
      <4>1. CASE v = w
        BY <1>1, <4>1
      <4>2. CASE v # w
        BY <1>3, <2>1, <2>4, <4>2
      <4> QED
        BY <4>1, <4>2
    <3>3. ASSUME Open(v) PROVE v = w
      BY <2>4, <3>1, <3>3
    <3> QED
      BY <1>1, <1>3, <2>4, <3>1, <3>2, <3>3
  <2>5. CASE f # e
    BY <1>1, <1>3, <2>1, <2>5
  <2> QED
    BY <2>4, <2>5
<1> QED
  BY <1>5, <1>6, <1>7, <1>8, <1>9, <1>10, <1>11, <1>12, <1>13, <1>14

\* A claim disturbs neither the waits' and the passes' parts nor who is about
\* to look, beyond what its actor does.
LEMMA ClaimStep ==
    ASSUME InboxInv, NEW e \in Event, NEW w \in announced, Elects(e, w),
           \A v, f : InFlight(v, f)' => InFlight(v, f) \/ (v = w /\ f = e),
           stored' \in Seq(Event), IsInjective(stored)', payload' \subseteq Event,
           pass' \in [Run -> [pc : PassPoints, wait : Wait \cup {None},
                         event : Event \cup {None}, seen : SUBSET Wait, released : SUBSET Event]],
           hand' \in [Deliverer -> [pc : {"idle", "offer", "wake"}, wait : Wait \cup {None},
                               event : Event \cup {None}]],
           crashes' = crashes,
           \A h \in Deliverer : hand'[h] = hand[h] \/ hand'[h] = [pc |-> "wake", wait |-> w, event |-> e],
           \A r \in Run : \/ pass'[r] = pass[r]
                          \/ /\ pass[r].pc = "claim" /\ pass[r].wait = w
                             /\ pass'[r] = Moved(r, "append", w, e),
           \A v \in subs \ parked, f \in live \ {e} :
               AboutToLook(v, f) => AboutToLook(v, f)'
    PROVE  InboxInv'
<1>1. /\ RunOf(w) \in Run /\ w \in Wait /\ w # None
      /\ owner'[e] = RunOf(w) /\ held'[e] = w /\ live' = live \ {e} /\ parked' = parked \cup {w}
      /\ \A f \in Event : f # e => held'[f] = held[f]
      /\ owner' \in [Event -> Run \cup {None}] /\ held' \in [Event -> Wait \cup {None}]
      /\ setting' = setting /\ dead' = dead /\ erased' = erased /\ shedFor' = shedFor
      /\ subs' = subs /\ older' = older /\ announced' = announced /\ answers' = answers
      /\ ended' = ended /\ stop' = stop /\ unoffered' = unoffered
  BY ClaimFacts
<1>2. /\ \A v : RunOf(v)' = RunOf(v) /\ (Answered(v)' <=> Answered(v))
      /\ \A r : (resume_is_closed(r)' <=> resume_is_closed(r)) /\ WaitsOf(r)' = WaitsOf(r)
      /\ Planned' = Planned
  BY <1>1, SettingStays, AnswersStay, EndsStay
<1>3. /\ \A f : Stored(f)' <=> Stored(f) \/ f = e
      /\ targeted' \subseteq targeted \cup {e} /\ listed' \subseteq listed
  BY DEF Elects
<1>4. TypeOK'
  <2>1. TypeOK
    BY InvParts
  <2>2. RegistrationOrder'
    BY <1>1, <2>1 DEF TypeOK, RegistrationOrder
  <2>3. targeted' \subseteq Event /\ listed' \subseteq Wait /\ live' \subseteq Event /\ parked' \subseteq Wait
    BY <1>1, <1>3, <2>1 DEF TypeOK
  <2> QED
    BY <1>1, <2>1, <2>2, <2>3 DEF TypeOK
<1>5. WaitsArePlanned'
  <2>1. WaitsArePlanned
    BY InvParts
  <2>2. /\ announced' \subseteq Planned'
        /\ subs' \cup parked' \cup listed' \subseteq announced'
        /\ \A f \in Event : held'[f] \in announced' \cup {None} /\ shedFor'[f] \in announced' \cup {None}
    BY <1>1, <1>2, <1>3, <2>1 DEF WaitsArePlanned
  <2>3. ASSUME NEW h \in Deliverer
        PROVE  /\ hand'[h].pc = "wake" => hand'[h].wait \in announced' /\ hand'[h].event \in Event
               /\ hand'[h].pc = "offer" => hand'[h].event \in Event /\ Stored(hand[h].event)'
    <3>1. CASE hand'[h] = hand[h]
      BY <1>1, <1>3, <2>1, <3>1 DEF WaitsArePlanned
    <3>2. CASE hand'[h] = [pc |-> "wake", wait |-> w, event |-> e]
      BY <1>1, <3>2
    <3> QED
      BY <3>1, <3>2
  <2>4. ASSUME NEW r \in Run
        PROVE  /\ pass'[r].pc \in {"record", "retire", "subscribe", "claim", "append", "unsubscribe"} =>
                    pass'[r].wait \in announced' \cap WaitsOf(r)'
               /\ pass'[r].pc \in {"record", "append"} => pass'[r].event \in Event
               /\ \A f \in pass'[r].released : Stored(f)'
    <3>1. CASE pass'[r] = pass[r]
      BY <1>1, <1>2, <1>3, <2>1, <3>1 DEF WaitsArePlanned
    <3>2. CASE /\ pass[r].pc = "claim" /\ pass[r].wait = w
               /\ pass'[r] = Moved(r, "append", w, e)
      BY <1>1, <1>2, <1>3, <2>1, <3>2 DEF WaitsArePlanned, Moved
    <3> QED
      BY <3>1, <3>2
  <2> QED
    BY <2>2, <2>3, <2>4 DEF WaitsArePlanned
<1>6. PassesAreSound'
  <2>1. PassesAreSound
    BY InvParts
  <2>2. ASSUME NEW r \in Run
        PROVE  /\ pass'[r].pc \in {"step", "retire", "subscribe", "claim", "append", "unsubscribe"} =>
                    ended'[r] = "no"
               /\ pass'[r].pc \in {"retireWaits", "release"} => ended'[r] = "sealed"
               /\ pass'[r].pc \in {"subscribe", "claim", "append"} =>
                    ~Answered(pass[r].wait)' /\ pass'[r].wait \notin pass'[r].seen
               /\ pass'[r].pc \in {"claim", "append"} => pass'[r].wait \in subs'
               /\ pass'[r].pc \in {"unsubscribe", "retire"} => Answered(pass[r].wait)'
               /\ pass'[r].pc # "release" => pass'[r].released = {}
    <3>1. CASE pass'[r] = pass[r]
      BY <1>1, <1>2, <2>1, <3>1 DEF PassesAreSound
    <3>2. CASE /\ pass[r].pc = "claim" /\ pass[r].wait = w
               /\ pass'[r] = Moved(r, "append", w, e)
      BY <1>1, <1>2, <2>1, <3>2 DEF PassesAreSound, Moved
    <3> QED
      BY <3>1, <3>2
  <2> QED
    BY <2>2 DEF PassesAreSound
<1>7. NobodyPassedBy'
  BY <1>1, <1>2, InvParts DEF NobodyPassedBy, Agree
<1> QED
  BY <1>4, <1>5, <1>6, <1>7, ClaimKeeps DEF InboxInv, NothingIsLost

\* What is claimable is a row nobody retired, of nobody or of the wait.
LEMMA ClaimableFacts ==
    ASSUME InboxInv, NEW w \in announced, NEW e \in claimable_for(w),
           Open(w) => w \in subs, Claim(e, w), setting' = setting,
           UNCHANGED <<rows, subs, older, journal, history>>, listed' \subseteq listed
    PROVE  e \in Event /\ Elects(e, w)
<1>1. e \in Event /\ e \in claimable(w)
  BY DEF claimable_for, claimable
<1>2. /\ Stored(e) /\ e \notin dead /\ e \notin erased
      /\ held[e] = w \/ (owner[e] = None /\ w \notin parked)
  BY <1>1 DEF claimable
<1>3. \A f : Stored(f)' <=> Stored(f) \/ f = e
  BY <1>2, RowsStayStored DEF rows
<1> QED
  BY <1>1, <1>2, <1>3 DEF Elects, rows

LEMMA ClaimForFound ==
    ASSUME InboxInv, setting' = setting, NEW r \in Run, claim_for(r), claimable(pass[r].wait) # {}
    PROVE  InboxInv'
<1> DEFINE w == pass[r].wait
<1>1. PICK e \in claimable_for(w) : Claim(e, w) /\ SetPass(r, "append", w, e)
  BY DEF claim_for
<1>2. pass[r].pc = "claim" /\ UNCHANGED <<rows, subs, older, journal, hand, listed, history>>
  BY DEF claim_for
<1>3. TypeOK /\ w \in announced /\ w \in Wait /\ w \in subs
  BY <1>2, InvParts DEF WaitsArePlanned, PassesAreSound, TypeOK
<1> HIDE DEF w
<1>4. e \in Event /\ Elects(e, w)
  BY <1>1, <1>2, <1>3, ClaimableFacts
<1>5. /\ pass'[r] = Moved(r, "append", w, e) /\ \A s \in Run : s # r => pass'[s] = pass[s]
      /\ pass' \in [Run -> [pc : PassPoints, wait : Wait \cup {None},
                         event : Event \cup {None}, seen : SUBSET Wait, released : SUBSET Event]]
  BY <1>1, <1>3, <1>4, SetPassEffect DEF PassPoints
<1>6. ASSUME NEW v, NEW f, InFlight(v, f)' PROVE InFlight(v, f) \/ (v = w /\ f = e)
  BY <1>2, <1>5, <1>6 DEF InFlight, Moved
<1>7. \A v, f : AboutToLook(v, f) => AboutToLook(v, f)'
  <2>1. \A v : RunOf(v)' = RunOf(v)
    BY SettingStays
  <2>2. /\ hand' = hand
        /\ \A s : pass[s].pc # "none" => pass'[s].pc # "none" /\ pass'[s].seen = pass[s].seen
        /\ \A s \in Run : pass'[s].released = pass[s].released
    BY <1>2, <1>3, <1>5, SetPassEffect, <1>1 DEF Moved, SetPass, TypeOK
  <2> QED
    BY <2>1, <2>2 DEF AboutToLook
<1>8. \A s \in Run : \/ pass'[s] = pass[s]
                     \/ /\ pass[s].pc = "claim" /\ pass[s].wait = w
                        /\ pass'[s] = Moved(s, "append", w, e)
  BY <1>2, <1>5 DEF w
<1>9. /\ stored' \in Seq(Event) /\ IsInjective(stored)' /\ payload' \subseteq Event
      /\ hand' \in [Deliverer -> [pc : {"idle", "offer", "wake"}, wait : Wait \cup {None},
                               event : Event \cup {None}]]
      /\ crashes' = crashes
  BY <1>2, <1>3 DEF TypeOK, rows, history
<1> QED
  BY <1>2, <1>3, <1>4, <1>5, <1>6, <1>7, <1>8, <1>9, ClaimStep

\* Nothing is there for the wait: it is registered, so whatever comes looks at it.
LEMMA ClaimForNone ==
    ASSUME InboxInv, setting' = setting, NEW r \in Run, claim_for(r), claimable(pass[r].wait) = {}
    PROVE  InboxInv'
<1> DEFINE w == pass[r].wait
           p == [pc |-> "step", wait |-> None, event |-> None, seen |-> pass[r].seen \cup {w},
                 released |-> {}]
<1>1. /\ pass[r].pc = "claim" /\ claimable(w) = {} /\ pass' = [pass EXCEPT ![r] = p]
      /\ UNCHANGED <<hand, stop, history>> /\ StoreStays
  BY DEF claim_for, StoreStays, journal, waits
<1>2. TypeOK /\ setting \in Scenarios /\ stop \subseteq setting.stoppable
  BY InvParts DEF TypeOK
<1>3. /\ pass[r].released = {} /\ ended[r] = "no" /\ w \in announced /\ w \in Wait /\ w \in WaitsOf(r)
  BY <1>1, InvParts DEF PassesAreSound, WaitsArePlanned, TypeOK
<1>4. p = [pc |-> "step", wait |-> None, event |-> None, seen |-> pass[r].seen \cup {w}, released |-> {}]
  OBVIOUS
<1> HIDE DEF w, p
<1>5. /\ pass'[r] = p /\ \A s \in Run : s # r => pass'[s] = pass[s]
      /\ pass' \in [Run -> [pc : PassPoints, wait : Wait \cup {None},
                         event : Event \cup {None}, seen : SUBSET Wait, released : SUBSET Event]]
  BY <1>1, <1>2, <1>3, <1>4, ActorTypes DEF TypeOK, PassPoints
<1>6. TypeOK'
  BY <1>1, <1>2, <1>5, TypeKept DEF TypeOK, history
<1>7. WaitsArePlanned'
  <2>1. \A s \in Run : \/ pass'[s] = pass[s]
                       \/ pass'[s].pc = "step" /\ pass'[s].released \subseteq pass[s].released
    BY <1>4, <1>5
  <2> QED
    BY <1>1, <2>1, PlannedKept
<1>8. PassesAreSound'
  <2>1. subs' = subs /\ answers' = answers /\ ended' = ended
    BY <1>1 DEF StoreStays, waits
  <2>2. \A v : Answered(v)' <=> Answered(v)
    BY <2>1, AnswersStay
  <2> QED
    BY <1>3, <1>4, <1>5, <2>1, <2>2, InvParts DEF PassesAreSound
<1>9. NoNewFlight
  BY <1>1, <1>4, <1>5 DEF NoNewFlight, InFlight
<1>10. NobodyPassedBy'
  <2>1. \A v : RunOf(v)' = RunOf(v)
    BY SettingStays
  <2>2. ASSUME NEW f \in live, NEW v \in subs \ parked, erased = {}, Agree(v, f), AboutToLook(v, f)
        PROVE  AboutToLook(v, f)'
    <3>1. RunOf(v) \in Run
      BY <1>2, InvParts, PlannedFacts DEF WaitsArePlanned
    <3>2. CASE \E g \in Deliverer : hand[g].pc = "offer" /\ hand[g].event = f
      BY <1>1, <3>2 DEF AboutToLook
    <3>3. CASE \E s \in Run : f \in pass[s].released
      BY <1>3, <1>5, <3>3 DEF AboutToLook
    <3>4. CASE pass[RunOf(v)].pc # "none" /\ v \notin pass[RunOf(v)].seen
      <4>1. v # w
        <5>1. Stored(f) /\ owner[f] = None /\ f \notin dead /\ f \in Event
          BY <1>2, InvParts DEF LiveIsUnclaimed, Stored, TypeOK
        <5>2. v = w => f \in claimable(w)
          BY <2>2, <5>1 DEF claimable
        <5> QED
          BY <1>1, <5>2
      <4>2. pass'[RunOf(v)].pc # "none" /\ v \notin pass'[RunOf(v)].seen
        BY <1>4, <1>5, <3>1, <3>4, <4>1
      <4> QED
        BY <2>1, <4>2 DEF AboutToLook
    <3> QED
      BY <2>2, <3>2, <3>3, <3>4 DEF AboutToLook
  <2> QED
    BY <1>1, <2>2, LookKept DEF history
<1> QED
  BY <1>1, <1>6, <1>7, <1>8, <1>9, <1>10, ControlStep

\* A delivery's hand set.
LEMMA SetHandEffect ==
    ASSUME TypeOK, NEW h \in Deliverer, NEW pc, NEW w, NEW e, SetHand(h, pc, w, e)
    PROVE  /\ hand'[h] = [pc |-> pc, wait |-> w, event |-> e]
           /\ \A g \in Deliverer : g # h => hand'[g] = hand[g]
           /\ pc \in {"idle", "offer", "wake"} /\ w \in Wait \cup {None} /\ e \in Event \cup {None} =>
                hand' \in [Deliverer -> [pc : {"idle", "offer", "wake"}, wait : Wait \cup {None},
                                         event : Event \cup {None}]]
  BY DEF TypeOK, SetHand

\* A delivery claims its message for a wait.
LEMMA HandClaimStep ==
    ASSUME InboxInv, NEW h \in Deliverer, NEW e \in Event, NEW w \in announced, Elects(e, w),
           SetHand(h, "wake", w, e), hand[h].pc = "offer" => hand[h].event = e,
           UNCHANGED pass,
           stored' \in Seq(Event), IsInjective(stored)', payload' \subseteq Event
    PROVE  InboxInv'
<1>1. TypeOK /\ w \in Wait /\ setting' = setting /\ crashes' = crashes
  BY InvParts DEF TypeOK, Elects, history
<1>2. /\ hand'[h] = [pc |-> "wake", wait |-> w, event |-> e]
      /\ \A g \in Deliverer : g # h => hand'[g] = hand[g]
      /\ hand' \in [Deliverer -> [pc : {"idle", "offer", "wake"}, wait : Wait \cup {None},
                               event : Event \cup {None}]]
  BY <1>1, SetHandEffect
<1>3. ASSUME NEW v, NEW f, InFlight(v, f)' PROVE InFlight(v, f) \/ (v = w /\ f = e)
  <2>1. CASE \E g \in Deliverer : hand'[g] = [pc |-> "wake", wait |-> v, event |-> f]
    <3>1. PICK g \in Deliverer : hand'[g] = [pc |-> "wake", wait |-> v, event |-> f]
      BY <2>1
    <3>2. CASE g = h
      BY <1>2, <3>1, <3>2
    <3>3. CASE g # h
      BY <1>2, <3>1, <3>3 DEF InFlight
    <3> QED
      BY <3>2, <3>3
  <2>2. CASE \E s \in Run : /\ pass'[s].pc \in {"record", "append"}
                            /\ pass'[s].wait = v /\ pass'[s].event = f
    BY <2>2 DEF InFlight
  <2> QED
    BY <1>3, <2>1, <2>2 DEF InFlight
<1>4. \A v : RunOf(v)' = RunOf(v)
  BY <1>1, SettingStays
<1>5. ASSUME NEW v, NEW f, f # e, AboutToLook(v, f) PROVE AboutToLook(v, f)'
  BY <1>2, <1>4, <1>5 DEF AboutToLook
<1>6. pass' \in [Run -> [pc : PassPoints, wait : Wait \cup {None},
                         event : Event \cup {None}, seen : SUBSET Wait, released : SUBSET Event]]
  BY <1>1 DEF TypeOK
<1>7. \A g \in Deliverer : hand'[g] = hand[g] \/ hand'[g] = [pc |-> "wake", wait |-> w, event |-> e]
  BY <1>2
<1> QED
  BY <1>1, <1>2, <1>3, <1>5, <1>6, <1>7, ClaimStep

\* A delivery is over: what it offered is nobody's who waits, or is claimed.
LEMMA HandIdles ==
    ASSUME InboxInv, StoreStays, NEW h \in Deliverer, hand' = [hand EXCEPT ![h] = Idle],
           UNCHANGED <<stop, pass, history>>,
           hand[h].pc = "offer" => \A w \in subs \ parked :
               Agree(w, hand[h].event) /\ hand[h].event \in live => resume_is_closed(RunOf(w))
    PROVE  InboxInv'
<1>1. TypeOK /\ setting' = setting
  BY InvParts DEF StoreStays
<1>2. /\ hand'[h] = Idle /\ \A g \in Deliverer : g # h => hand'[g] = hand[g]
      /\ hand' \in [Deliverer -> [pc : {"idle", "offer", "wake"}, wait : Wait \cup {None},
                               event : Event \cup {None}]]
  BY <1>1 DEF TypeOK, Idle
<1>3. TypeOK'
  BY <1>1, <1>2, TypeKept DEF TypeOK, history
<1>4. WaitsArePlanned'
  <2>1. \A g \in Deliverer : hand'[g] = hand[g] \/ hand'[g].pc = "idle"
    BY <1>2 DEF Idle
  <2> QED
    BY <2>1, PlannedKept
<1>5. PassesAreSound'
  <2>1. subs' = subs /\ answers' = answers /\ ended' = ended
    BY DEF StoreStays, waits
  <2>2. \A v : Answered(v)' <=> Answered(v)
    BY <2>1, AnswersStay
  <2> QED
    BY <2>1, <2>2, InvParts DEF PassesAreSound
<1>6. NoNewFlight
  BY <1>2 DEF NoNewFlight, InFlight, Idle
<1>7. NobodyPassedBy'
  <2>1. \A v : RunOf(v)' = RunOf(v)
    BY <1>1, SettingStays
  <2>2. ASSUME NEW f \in live, NEW v \in subs \ parked, Agree(v, f), ~resume_is_closed(RunOf(v)),
               AboutToLook(v, f)
        PROVE  AboutToLook(v, f)'
    BY <1>2, <2>1, <2>2 DEF AboutToLook
  <2> QED
    BY <2>2, LookKept DEF history
<1> QED
  BY <1>3, <1>4, <1>5, <1>6, <1>7, ControlStep

LEMMA MatchStep ==
    ASSUME InboxInv, setting' = setting, NEW h \in Deliverer, match_waiter(h)
    PROVE  InboxInv'
<1> DEFINE e == hand[h].event
<1>1. /\ hand[h].pc = "offer" /\ UNCHANGED <<rows, subs, older, journal, pass, listed, history>>
  BY DEF match_waiter
<1>2. TypeOK /\ e \in Event /\ Stored(e)
  BY <1>1, InvParts DEF WaitsArePlanned
<1>3. CASE waiters(e) # {} /\ owner[e] = None /\ e \notin dead
  <2>1. PICK w \in oldest_waiter(e) : Claim(e, w) /\ SetHand(h, "wake", w, e)
    BY <1>3 DEF match_waiter
  <2>2. w \in subs /\ w \notin parked /\ w \in announced
    BY InvParts DEF oldest_waiter, waiters, WaitsArePlanned
  <2> HIDE DEF e
  <2>3. Elects(e, w)
    <3>1. e \notin erased
      BY <1>2, <1>3, InvParts DEF RowsAreSound
    <3>2. \A f : Stored(f)' <=> Stored(f) \/ f = e
      BY <1>1, <1>2, RowsStayStored DEF rows
    <3> QED
      BY <1>1, <1>3, <2>1, <2>2, <3>1, <3>2 DEF Elects, rows
  <2>4. stored' \in Seq(Event) /\ IsInjective(stored)' /\ payload' \subseteq Event
    BY <1>1, <1>2 DEF TypeOK, rows
  <2>5. hand[h].event = e
    BY DEF e
  <2> QED
    BY <1>1, <1>2, <2>1, <2>2, <2>3, <2>4, <2>5, HandClaimStep
<1>4. CASE ~(waiters(e) # {} /\ owner[e] = None /\ e \notin dead)
  <2>1. hand' = [hand EXCEPT ![h] = Idle] /\ UNCHANGED <<claims, parked>>
    BY <1>4 DEF match_waiter
  <2>2. StoreStays /\ UNCHANGED <<stop, pass, history>>
    BY <1>1, <2>1 DEF StoreStays, journal, waits
  <2>3. ASSUME NEW w \in subs \ parked, Agree(w, e), e \in live PROVE resume_is_closed(RunOf(w))
    <3>1. owner[e] = None /\ e \notin dead
      BY <2>3, InvParts DEF LiveIsUnclaimed
    <3>2. w \notin waiters(e)
      BY <1>4, <3>1
    <3> QED
      BY <2>3, <3>2 DEF waiters, resume_is_closed
  <2> QED
    BY <2>1, <2>2, <2>3, HandIdles
<1> QED
  BY <1>3, <1>4

LEMMA RedeliverStep ==
    ASSUME InboxInv, setting' = setting, redeliver_claimed
    PROVE  InboxInv'
<1>1. PICK w \in listed :
        /\ listed' = listed \ {w}
        /\ IF claimable(w) # {}
           THEN \E e \in claimable_for(w) : Claim(e, w) /\ SetHand(Sweeper, "wake", w, e)
           ELSE UNCHANGED <<claims, parked, hand>>
  BY DEF redeliver_claimed
<1>2. hand[Sweeper].pc = "idle" /\ UNCHANGED <<rows, subs, older, journal, pass, history>>
  BY DEF redeliver_claimed
<1>3. TypeOK /\ w \in announced /\ Sweeper \in Deliverer /\ (Open(w) => w \in subs)
  BY InvParts DEF WaitsArePlanned, Deliverer, ListedAreKept
<1>4. CASE claimable(w) # {}
  <2>1. PICK e \in claimable_for(w) : Claim(e, w) /\ SetHand(Sweeper, "wake", w, e)
    BY <1>1, <1>4
  <2>2. e \in Event /\ Elects(e, w)
    <3>1. listed' \subseteq listed
      BY <1>1
    <3> QED
      BY <1>2, <1>3, <2>1, <3>1, ClaimableFacts
  <2>3. stored' \in Seq(Event) /\ IsInjective(stored)' /\ payload' \subseteq Event
    BY <1>2, <1>3 DEF TypeOK, rows
  <2> QED
    BY <1>2, <1>3, <2>1, <2>2, <2>3, HandClaimStep
<1>5. CASE claimable(w) = {}
  <2>1. UNCHANGED <<claims, parked, hand>> /\ listed' = listed \ {w}
    BY <1>1, <1>5
  <2>2. /\ setting' = setting /\ stored' = stored /\ dead' = dead /\ targeted' = targeted
        /\ payload' = payload
        /\ erased' = erased /\ shedFor' = shedFor /\ live' = live /\ owner' = owner /\ held' = held
        /\ subs' = subs /\ older' = older /\ parked' = parked /\ announced' = announced
        /\ answers' = answers /\ ended' = ended /\ stop' = stop /\ pass' = pass /\ hand' = hand
        /\ unoffered' = unoffered /\ crashes' = crashes
    BY <1>2, <2>1 DEF rows, claims, journal, history
  <2>3. /\ \A v : RunOf(v)' = RunOf(v) /\ (Answered(v)' <=> Answered(v)) /\ (Open(v)' <=> Open(v))
        /\ \A f : (Recorded(f)' <=> Recorded(f)) /\ (Stored(f)' <=> Stored(f))
        /\ \A r : (resume_is_closed(r)' <=> resume_is_closed(r)) /\ WaitsOf(r)' = WaitsOf(r)
        /\ Planned' = Planned /\ Plan' = Plan
    BY <2>2, SettingStays, AnswersStay, EndsStay, RowsStayStored
  <2>4. TypeOK'
    BY <1>3, <2>1, <2>2 DEF TypeOK, RegistrationOrder
  <2>5. WaitsArePlanned' /\ PassesAreSound'
    BY <2>1, <2>2, <2>3, InvParts DEF WaitsArePlanned, PassesAreSound
  <2>6. RowsAreSound' /\ ClaimsAreApart' /\ AnswersAreClaims'
    BY <2>2, <2>3, InvParts DEF RowsAreSound, ClaimsAreApart, AnswersAreClaims
  <2>7. ListedAreKept' /\ AnsweredAreParked' /\ InOrder' /\ AnsweredOnce'
    BY <2>1, <2>2, <2>3, InvParts DEF ListedAreKept, AnsweredAreParked, InOrder, AnsweredOnce
  <2>8. UnreadIsKept' /\ ClaimIsFindable' /\ LiveIsUnclaimed' /\ AddressedStays'
    BY <2>2, <2>3, InvParts DEF UnreadIsKept, ClaimIsFindable, LiveIsUnclaimed, AddressedStays
  <2>9. NoNewFlight /\ \A v, f : AboutToLook(v, f) => AboutToLook(v, f)'
    BY <2>2, <2>3 DEF NoNewFlight, InFlight, AboutToLook
  <2>10. NobodyPassedBy'
    BY <2>2, <2>3, <2>9, InvParts DEF NobodyPassedBy, Agree
  <2>11. FlightsAreClaims'
    BY <2>2, <2>3, <2>9, InvParts, FlightsKept
  <2> QED
    BY <2>4, <2>5, <2>6, <2>7, <2>8, <2>10, <2>11 DEF InboxInv, NothingIsLost
<1> QED
  BY <1>4, <1>5

\* A message addressed to one run is claimed as it is stored.
LEMMA DeliverToStep ==
    ASSUME InboxInv, setting' = setting, NEW h \in Deliverer, NEW r \in Run, NEW e \in Event,
           deliver_to(h, r, e)
    PROVE  InboxInv'
<1>1. /\ hand[h].pc = "idle" /\ setting.to[e] = r
      /\ UNCHANGED <<subs, older, journal, pass, listed, history>>
  BY DEF deliver_to
<1>2. TypeOK /\ setting \in Scenarios
  BY InvParts DEF TypeOK
<1>3. CASE ~Stored(e)
  <2>1. PICK w \in subs \ parked :
            /\ RunOf(w) = r /\ Agree(w, e)
            /\ stored' = Append(stored, e)
            /\ payload' = payload \cup {e}
            /\ targeted' = targeted \cup {e}
            /\ Claim(e, w)
            /\ SetHand(h, "wake", w, e)
            /\ UNCHANGED <<dead, erased, shedFor>>
    BY <1>3 DEF deliver_to
  <2>2. w \in announced
    BY InvParts DEF WaitsArePlanned
  <2>3. /\ stored' \in Seq(Event) /\ IsInjective(stored)'
        /\ \A f : Stored(f)' <=> Stored(f) \/ f = e
    BY <1>2, <1>3, <2>1, StoredAppend DEF TypeOK
  <2>4. owner[e] = None /\ e \notin dead /\ e \notin erased
    BY <1>3, InvParts DEF RowsAreSound
  <2>5. Elects(e, w)
    BY <1>1, <1>3, <2>1, <2>3, <2>4 DEF Elects
  <2>6. payload' \subseteq Event
    BY <1>2, <2>1 DEF TypeOK
  <2> QED
    BY <1>1, <2>1, <2>2, <2>3, <2>5, <2>6, HandClaimStep
<1>4. CASE Stored(e)
  <2> DEFINE w == held[e]
  <2>1. /\ owner[e] = r /\ w \in subs /\ SetHand(h, "wake", w, e)
        /\ UNCHANGED <<rows, claims, parked>>
    BY <1>4 DEF deliver_to
  <2>2. w \in announced /\ w \in Wait /\ w \in Planned
    BY <1>2, <2>1, InvParts DEF WaitsArePlanned, TypeOK
  <2>3. w # None
    BY <2>2, ScenariosAssumption
  <2> HIDE DEF w
  <2>4. /\ hand'[h] = [pc |-> "wake", wait |-> w, event |-> e]
        /\ \A g \in Deliverer : g # h => hand'[g] = hand[g]
        /\ hand' \in [Deliverer -> [pc : {"idle", "offer", "wake"}, wait : Wait \cup {None},
                                 event : Event \cup {None}]]
    BY <1>2, <2>1, <2>2, SetHandEffect
  <2>5. StoreStays /\ stop' = stop /\ pass' = pass /\ unoffered' = unoffered /\ crashes' = crashes
    BY <1>1, <2>1 DEF StoreStays, journal, waits, history
  <2>6. /\ stored' = stored /\ announced' = announced /\ subs' = subs /\ dead' = dead
        /\ erased' = erased /\ targeted' = targeted /\ shedFor' = shedFor
        /\ parked' = parked /\ listed' = listed /\ held' = held /\ answers' = answers /\ ended' = ended
    BY <2>5 DEF StoreStays, rows, claims, waits
  <2>7. /\ \A v : RunOf(v)' = RunOf(v) /\ (Answered(v)' <=> Answered(v)) /\ (Open(v)' <=> Open(v))
        /\ \A f : (Recorded(f)' <=> Recorded(f)) /\ (Stored(f)' <=> Stored(f))
        /\ \A s : WaitsOf(s)' = WaitsOf(s)
        /\ Planned' = Planned /\ setting'.to = setting.to
    BY <2>6, SettingStays, AnswersStay, EndsStay, RowsStayStored
  <2>8. TypeOK'
    BY <1>2, <2>4, <2>5, TypeKept DEF TypeOK
  <2>9. WaitsArePlanned'
    <3>1. ASSUME NEW g \in Deliverer
          PROVE  /\ hand'[g].pc = "wake" => hand'[g].wait \in announced' /\ hand'[g].event \in Event
                 /\ hand'[g].pc = "offer" => hand'[g].event \in Event /\ Stored(hand[g].event)'
      <4>1. CASE g = h
        BY <2>2, <2>4, <2>6, <4>1
      <4>2. CASE g # h
        BY <2>4, <2>6, <2>7, <4>2, InvParts DEF WaitsArePlanned
      <4> QED
        BY <4>1, <4>2
    <3> QED
      BY <2>5, <2>6, <2>7, <3>1, InvParts DEF WaitsArePlanned
  <2>10. PassesAreSound'
    BY <2>5, <2>6, <2>7, InvParts DEF PassesAreSound
  <2>11. NobodyPassedBy'
    <3>1. ASSUME NEW v, NEW f, AboutToLook(v, f) PROVE AboutToLook(v, f)'
      BY <1>1, <2>4, <2>5, <2>7, <3>1 DEF AboutToLook
    <3> QED
      BY <2>5, <3>1, LookKept
  <2>12. FlightsAreClaims'
    <3>1. ASSUME NEW v, NEW f, InFlight(v, f)' PROVE InFlight(v, f) \/ (v = w /\ f = e)
      <4>1. CASE \E g \in Deliverer : hand'[g] = [pc |-> "wake", wait |-> v, event |-> f]
        <5>1. PICK g \in Deliverer : hand'[g] = [pc |-> "wake", wait |-> v, event |-> f]
          BY <4>1
        <5>2. CASE g = h
          BY <2>4, <5>1, <5>2
        <5>3. CASE g # h
          BY <2>4, <5>1, <5>3 DEF InFlight
        <5> QED
          BY <5>2, <5>3
      <4>2. CASE \E s \in Run : /\ pass'[s].pc \in {"record", "append"}
                                /\ pass'[s].wait = v /\ pass'[s].event = f
        BY <2>5, <4>2 DEF InFlight
      <4> QED
        BY <3>1, <4>1, <4>2 DEF InFlight
    <3>2. held[e] = w /\ owner[e] = RunOf(w) /\ e \notin dead
      <4>1. held[e] = w
        BY DEF w
      <4> QED
        BY <1>2, <2>1, <2>2, <2>3, <4>1, InvParts, PlannedFacts, ScenariosAssumption DEF RowsAreSound
    <3>3. Open(w) => ~Recorded(e)
      <4> SUFFICES ASSUME NEW v \in Wait, e \in Range(answers[v]), Open(w) PROVE FALSE
        BY DEF Recorded
      <4>1. v = w
        BY <2>3, <3>2, InvParts DEF AnswersAreClaims
      <4>2. answers[w] # <<>>
        BY <4>1 DEF Range
      <4> QED
        BY <4>2 DEF Open, Answered
    <3>4. ASSUME NEW u \in Planned, InFlight(u, e), Open(u) PROVE u = w
      BY <3>2, <3>4, InvParts DEF FlightsAreClaims
    <3> SUFFICES ASSUME NEW v \in Planned, NEW f \in Event, InFlight(v, f)'
                 PROVE  /\ Stored(f)
                        /\ f \in targeted => setting.to[f] = RunOf(v)
                        /\ Open(v) => /\ ~Recorded(f)
                                      /\ held[f] = v \/ f \in dead \cap erased
                                      /\ \A u \in Planned : InFlight(u, f)' /\ Open(u) => u = v
      BY <2>6, <2>7, Zenon DEF FlightsAreClaims
    <3>5. ASSUME NEW u \in Planned, NEW g \in Event, InFlight(u, g)
          PROVE  /\ Stored(g)
                 /\ g \in targeted => setting.to[g] = RunOf(u)
                 /\ Open(u) => /\ ~Recorded(g)
                               /\ held[g] = u \/ g \in dead \cap erased
                               /\ \A x \in Planned : InFlight(x, g) /\ Open(x) => x = u
      BY <3>5, InvParts, Zenon DEF FlightsAreClaims
    <3>6. CASE f # e
      BY <3>1, <3>5, <3>6
    <3>7. CASE f = e
      <4>1. ASSUME NEW u \in Planned, InFlight(u, e)', Open(u) PROVE u = w
        BY <3>1, <3>4, <4>1
      <4>2. e \in targeted => setting.to[e] = RunOf(v)
        <5>1. CASE v = w
          BY <1>1, <2>1, <3>2, <5>1
        <5>2. CASE v # w
          BY <3>1, <3>5, <3>7, <5>2
        <5> QED
          BY <5>1, <5>2
      <4>3. ASSUME Open(v) PROVE v = w
        BY <3>7, <4>1, <4>3
      <4> QED
        BY <1>4, <3>2, <3>3, <3>7, <4>1, <4>2, <4>3
    <3> QED
      BY <3>6, <3>7
  <2> QED
    BY <2>5, <2>8, <2>9, <2>10, <2>11, <2>12, ControlKeeps DEF InboxInv, NothingIsLost
<1> QED
  BY <1>3, <1>4

-----------------------------------------------------------------------------
(* Registrations *)

LEMMA RegisterOrder ==
    ASSUME RegistrationOrder, NEW w, register_wait(w)
    PROVE  RegistrationOrder'
<1>1. subs' = subs \cup {w} /\ older' = IF w \in subs THEN older ELSE older \cup (subs \X {w})
  BY DEF register_wait
<1>2. CASE w \in subs
  BY <1>1, <1>2 DEF RegistrationOrder
<1>3. CASE w \notin subs
  <2>1. \A u, v : <<u, v>> \in older => u \in subs /\ v \in subs
    BY DEF RegistrationOrder
  <2>2. \A u, v : <<u, v>> \in older' <=> <<u, v>> \in older \/ (u \in subs /\ v = w)
    BY <1>1, <1>3
  <2>3. older' \subseteq subs' \X subs'
    BY <1>1, <1>3 DEF RegistrationOrder
  <2>4. ASSUME NEW u \in subs', NEW v \in subs'
        PROVE  <<u, v>> \in older' <=> u # v /\ <<v, u>> \notin older'
    <3>1. <<u, v>> \in older' <=> <<u, v>> \in older \/ (u \in subs /\ v = w)
      BY <2>2
    <3>2. <<v, u>> \in older' <=> <<v, u>> \in older \/ (v \in subs /\ u = w)
      BY <2>2
    <3>3. CASE u \in subs /\ v \in subs
      BY <1>3, <3>1, <3>2, <3>3 DEF RegistrationOrder
    <3>4. CASE u \in subs /\ v = w
      BY <1>3, <2>1, <3>1, <3>2, <3>4
    <3>5. CASE u = w
      BY <1>1, <1>3, <2>1, <3>1, <3>2, <3>5
    <3> QED
      BY <1>1, <3>3, <3>4, <3>5
  <2>5. ASSUME NEW t \in subs', NEW u \in subs', NEW v \in subs',
               <<t, u>> \in older', <<u, v>> \in older'
        PROVE  <<t, v>> \in older'
    <3>1. u \in subs /\ t \in subs
      BY <1>3, <2>1, <2>2, <2>5
    <3>2. CASE v = w
      BY <2>2, <3>1, <3>2
    <3>3. CASE v # w
      BY <1>1, <2>1, <2>2, <2>5, <3>1, <3>3 DEF RegistrationOrder
    <3> QED
      BY <3>2, <3>3
  <2> QED
    BY <2>3, <2>4, <2>5 DEF RegistrationOrder
<1> QED
  BY <1>2, <1>3

LEMMA DropOrder ==
    ASSUME RegistrationOrder, NEW W, drop_waits(W)
    PROVE  RegistrationOrder'
<1>1. subs' = subs \ W /\ older' = older \cap (subs' \X subs')
  BY DEF drop_waits
<1>2. \A u, v \in subs' : <<u, v>> \in older' <=> <<u, v>> \in older
  BY <1>1
<1>3. older' \subseteq subs' \X subs'
  BY <1>1
<1> QED
  BY <1>1, <1>2, <1>3 DEF RegistrationOrder

LEMMA ParkStep ==
    ASSUME InboxInv, setting' = setting, NEW h \in Deliverer, park_wait(h)
    PROVE  InboxInv'
<1> DEFINE w == hand[h].wait
<1>1. /\ hand[h].pc = "wake" /\ register_wait(w) /\ parked' = parked \cup {w}
      /\ hand' = [hand EXCEPT ![h] = Idle]
      /\ UNCHANGED <<rows, claims, journal, pass, listed, history>>
  BY DEF park_wait
<1>2. TypeOK /\ w \in announced /\ w \in Wait
  BY <1>1, InvParts DEF WaitsArePlanned, TypeOK
<1> HIDE DEF w
<1>3. /\ stored' = stored /\ dead' = dead /\ targeted' = targeted /\ payload' = payload
      /\ erased' = erased /\ shedFor' = shedFor /\ live' = live /\ owner' = owner /\ held' = held
      /\ subs' = subs \cup {w} /\ parked' = parked \cup {w} /\ announced' = announced
      /\ answers' = answers /\ ended' = ended /\ stop' = stop /\ pass' = pass /\ listed' = listed
      /\ unoffered' = unoffered /\ crashes' = crashes
  BY <1>1 DEF rows, claims, journal, history, register_wait
<1>4. /\ \A v : RunOf(v)' = RunOf(v) /\ (Answered(v)' <=> Answered(v)) /\ (Open(v)' <=> Open(v))
      /\ \A f : (Recorded(f)' <=> Recorded(f)) /\ (Stored(f)' <=> Stored(f))
      /\ \A r : (resume_is_closed(r)' <=> resume_is_closed(r)) /\ WaitsOf(r)' = WaitsOf(r)
      /\ Planned' = Planned /\ Plan' = Plan
  BY <1>3, SettingStays, AnswersStay, EndsStay, RowsStayStored
<1>5. /\ hand'[h] = Idle /\ \A g \in Deliverer : g # h => hand'[g] = hand[g]
      /\ hand' \in [Deliverer -> [pc : {"idle", "offer", "wake"}, wait : Wait \cup {None},
                               event : Event \cup {None}]]
  BY <1>1, <1>2 DEF TypeOK, Idle
<1>6. TypeOK'
  <2>1. RegistrationOrder'
    BY <1>1, <1>2, RegisterOrder DEF TypeOK
  <2> QED
    BY <1>2, <1>3, <1>5, <2>1 DEF TypeOK
<1>7. WaitsArePlanned'
  <2>1. ASSUME NEW g \in Deliverer
        PROVE  /\ hand'[g].pc = "wake" => hand'[g].wait \in announced' /\ hand'[g].event \in Event
               /\ hand'[g].pc = "offer" => hand'[g].event \in Event /\ Stored(hand[g].event)'
    <3>1. CASE g = h
      BY <1>5, <3>1 DEF Idle
    <3>2. CASE g # h
      BY <1>3, <1>4, <1>5, <3>2, InvParts DEF WaitsArePlanned
    <3> QED
      BY <3>1, <3>2
  <2> QED
    BY <1>2, <1>3, <1>4, <2>1, InvParts DEF WaitsArePlanned
<1>8. PassesAreSound'
  BY <1>3, <1>4, InvParts DEF PassesAreSound
<1>9. RowsAreSound' /\ ClaimsAreApart' /\ AnswersAreClaims'
  BY <1>3, <1>4, InvParts DEF RowsAreSound, ClaimsAreApart, AnswersAreClaims
<1>10. ListedAreKept' /\ AnsweredAreParked' /\ InOrder' /\ AnsweredOnce'
  BY <1>3, <1>4, InvParts DEF ListedAreKept, AnsweredAreParked, InOrder, AnsweredOnce
<1>11. UnreadIsKept' /\ ClaimIsFindable' /\ LiveIsUnclaimed' /\ AddressedStays'
  BY <1>3, <1>4, InvParts DEF UnreadIsKept, ClaimIsFindable, LiveIsUnclaimed, AddressedStays
<1>12. NoNewFlight
  BY <1>3, <1>5 DEF NoNewFlight, InFlight, Idle
<1>13. NobodyPassedBy'
  <2>1. ASSUME NEW v, NEW f, AboutToLook(v, f) PROVE AboutToLook(v, f)'
    BY <1>1, <1>3, <1>4, <1>5, <2>1 DEF AboutToLook
  <2> QED
    BY <1>3, <1>4, <2>1, InvParts DEF NobodyPassedBy, Agree
<1>14. FlightsAreClaims'
  BY <1>3, <1>4, <1>12, InvParts, FlightsKept
<1> QED
  BY <1>6, <1>7, <1>8, <1>9, <1>10, <1>11, <1>13, <1>14 DEF InboxInv, NothingIsLost

LEMMA SubscribeStep ==
    ASSUME InboxInv, setting' = setting, NEW r \in Run, subscribe(r)
    PROVE  InboxInv'
<1>0. PICK w : w = pass[r].wait
  OBVIOUS
<1>1. /\ pass[r].pc = "subscribe" /\ register_wait(w) /\ SetPass(r, "claim", w, None)
      /\ UNCHANGED <<rows, claims, parked, journal, hand, listed, history>>
  BY <1>0 DEF subscribe
<1>2. /\ TypeOK /\ setting \in Scenarios /\ w \in announced /\ w \in Wait /\ w \in WaitsOf(r)
      /\ ~Answered(w) /\ w \notin pass[r].seen /\ ended[r] = "no" /\ pass[r].released = {}
  BY <1>0, <1>1, InvParts DEF WaitsArePlanned, TypeOK, PassesAreSound
<1>3. /\ stored' = stored /\ dead' = dead /\ targeted' = targeted /\ payload' = payload
      /\ erased' = erased /\ shedFor' = shedFor /\ live' = live /\ owner' = owner /\ held' = held
      /\ subs' = subs \cup {w} /\ parked' = parked /\ announced' = announced
      /\ answers' = answers /\ ended' = ended /\ stop' = stop /\ hand' = hand /\ listed' = listed
      /\ unoffered' = unoffered /\ crashes' = crashes
  BY <1>1 DEF rows, claims, journal, history, register_wait
<1>4. /\ \A v : RunOf(v)' = RunOf(v) /\ (Answered(v)' <=> Answered(v)) /\ (Open(v)' <=> Open(v))
      /\ \A f : (Recorded(f)' <=> Recorded(f)) /\ (Stored(f)' <=> Stored(f))
      /\ \A s : (resume_is_closed(s)' <=> resume_is_closed(s)) /\ WaitsOf(s)' = WaitsOf(s)
      /\ Planned' = Planned /\ Plan' = Plan
  BY <1>3, SettingStays, AnswersStay, EndsStay, RowsStayStored
<1>5. /\ pass'[r] = Moved(r, "claim", w, None) /\ \A s \in Run : s # r => pass'[s] = pass[s]
      /\ pass' \in [Run -> [pc : PassPoints, wait : Wait \cup {None},
                         event : Event \cup {None}, seen : SUBSET Wait, released : SUBSET Event]]
  BY <1>1, <1>2, SetPassEffect DEF PassPoints
<1>6. TypeOK'
  <2>1. RegistrationOrder'
    BY <1>1, <1>2, RegisterOrder DEF TypeOK
  <2> QED
    BY <1>2, <1>3, <1>5, <2>1 DEF TypeOK
<1>7. WaitsArePlanned'
  <2>1. ASSUME NEW s \in Run
        PROVE  /\ pass'[s].pc \in {"record", "retire", "subscribe", "claim", "append", "unsubscribe"} =>
                    pass'[s].wait \in announced' \cap WaitsOf(s)'
               /\ pass'[s].pc \in {"record", "append"} => pass'[s].event \in Event
               /\ \A f \in pass'[s].released : Stored(f)'
    <3>1. CASE s = r
      BY <1>2, <1>3, <1>4, <1>5, <3>1 DEF Moved
    <3>2. CASE s # r
      BY <1>3, <1>4, <1>5, <3>2, InvParts DEF WaitsArePlanned
    <3> QED
      BY <3>1, <3>2
  <2> QED
    BY <1>2, <1>3, <1>4, <2>1, InvParts DEF WaitsArePlanned
<1>8. PassesAreSound'
  <2>1. ASSUME NEW s \in Run
        PROVE  /\ pass'[s].pc \in {"step", "retire", "subscribe", "claim", "append", "unsubscribe"} =>
                    ended'[s] = "no"
               /\ pass'[s].pc \in {"retireWaits", "release"} => ended'[s] = "sealed"
               /\ pass'[s].pc \in {"subscribe", "claim", "append"} =>
                    ~Answered(pass[s].wait)' /\ pass'[s].wait \notin pass'[s].seen
               /\ pass'[s].pc \in {"claim", "append"} => pass'[s].wait \in subs'
               /\ pass'[s].pc \in {"unsubscribe", "retire"} => Answered(pass[s].wait)'
               /\ pass'[s].pc # "release" => pass'[s].released = {}
    <3>1. CASE s = r
      BY <1>2, <1>3, <1>4, <1>5, <3>1 DEF Moved
    <3>2. CASE s # r
      BY <1>3, <1>4, <1>5, <3>2, InvParts DEF PassesAreSound
    <3> QED
      BY <3>1, <3>2
  <2> QED
    BY <2>1 DEF PassesAreSound
<1>9. RowsAreSound' /\ ClaimsAreApart' /\ AnswersAreClaims'
  BY <1>3, <1>4, InvParts DEF RowsAreSound, ClaimsAreApart, AnswersAreClaims
<1>10. ListedAreKept' /\ AnsweredAreParked' /\ InOrder' /\ AnsweredOnce'
  BY <1>2, <1>3, <1>4, InvParts DEF ListedAreKept, AnsweredAreParked, InOrder, AnsweredOnce
<1>11. UnreadIsKept' /\ ClaimIsFindable' /\ LiveIsUnclaimed' /\ AddressedStays'
  BY <1>3, <1>4, InvParts DEF UnreadIsKept, ClaimIsFindable, LiveIsUnclaimed, AddressedStays
<1>12. NoNewFlight
  BY <1>3, <1>5 DEF NoNewFlight, InFlight, Moved
<1>13. NobodyPassedBy'
  <2>1. ASSUME NEW v \in subs, NEW f, AboutToLook(v, f) PROVE AboutToLook(v, f)'
    <3>1. RunOf(v) \in Run
      BY <1>2, InvParts, PlannedFacts DEF WaitsArePlanned
    <3> QED
      BY <1>1, <1>3, <1>4, <1>5, <2>1, <3>1 DEF AboutToLook, Moved
  <2>2. ASSUME NEW f PROVE AboutToLook(w, f)'
    <3>1. RunOf(w) = r
      BY <1>2, OneRunOf
    <3> QED
      BY <1>2, <1>4, <1>5, <3>1 DEF AboutToLook, Moved
  <2> QED
    BY <1>3, <1>4, <2>1, <2>2, InvParts DEF NobodyPassedBy, Agree
<1>14. FlightsAreClaims'
  BY <1>3, <1>4, <1>12, InvParts, FlightsKept
<1> QED
  BY <1>6, <1>7, <1>8, <1>9, <1>10, <1>11, <1>13, <1>14 DEF InboxInv, NothingIsLost

-----------------------------------------------------------------------------
(* The journal's records *)

\* A run's pass moves on to a point that is about one of the run's waits.
LEMMA PassTurns ==
    ASSUME InboxInv, setting' = setting, NEW r \in Run, NEW w \in announced', w \in WaitsOf(r),
           NEW e \in Event \cup {None}, NEW pc \in {"retire", "unsubscribe", "subscribe"},
           SetPass(r, pc, w, e), ended[r] = "no", ended' = ended, pass[r].pc # "none",
           pass[r].released = {}, announced \subseteq announced', subs' = subs, UNCHANGED stored,
           pc = "subscribe" => ~Answered(w)' /\ w \notin pass[r].seen,
           pc # "subscribe" => Answered(w)',
           \A s \in Run : \A v \in WaitsOf(s) : s # r => (Answered(v)' <=> Answered(v))
    PROVE  /\ pass'[r] = Moved(r, pc, w, e) /\ \A s \in Run : s # r => pass'[s] = pass[s]
           /\ pass' \in [Run -> [pc : PassPoints, wait : Wait \cup {None},
                         event : Event \cup {None}, seen : SUBSET Wait, released : SUBSET Event]]
           /\ PassesAreSound'
           /\ \A s \in Run :
                /\ pass'[s].pc \in {"record", "retire", "subscribe", "claim", "append", "unsubscribe"} =>
                        pass'[s].wait \in announced' \cap WaitsOf(s)
                /\ pass'[s].pc \in {"record", "append"} => pass'[s].event \in Event
                /\ \A f \in pass'[s].released : Stored(f)'
           /\ hand' = hand => NoNewFlight
           /\ hand' = hand => \A v \in subs : \A f : AboutToLook(v, f) => AboutToLook(v, f)'
<1>1. TypeOK /\ setting \in Scenarios /\ w \in Wait
  BY InvParts, WaitsOfFacts DEF TypeOK
<1>2. /\ pass'[r] = Moved(r, pc, w, e) /\ \A s \in Run : s # r => pass'[s] = pass[s]
      /\ pass' \in [Run -> [pc : PassPoints, wait : Wait \cup {None},
                         event : Event \cup {None}, seen : SUBSET Wait, released : SUBSET Event]]
  BY <1>1, SetPassEffect DEF PassPoints
<1>3. PassesAreSound'
  <2>1. ASSUME NEW s \in Run
        PROVE  /\ pass'[s].pc \in {"step", "retire", "subscribe", "claim", "append", "unsubscribe"} =>
                    ended'[s] = "no"
               /\ pass'[s].pc \in {"retireWaits", "release"} => ended'[s] = "sealed"
               /\ pass'[s].pc \in {"subscribe", "claim", "append"} =>
                    ~Answered(pass[s].wait)' /\ pass'[s].wait \notin pass'[s].seen
               /\ pass'[s].pc \in {"claim", "append"} => pass'[s].wait \in subs'
               /\ pass'[s].pc \in {"unsubscribe", "retire"} => Answered(pass[s].wait)'
               /\ pass'[s].pc # "release" => pass'[s].released = {}
    <3>1. CASE s = r
      BY <1>2, <3>1 DEF Moved
    <3>2. CASE s # r
      <4>1. pass[s].pc \in {"retire", "subscribe", "claim", "append", "unsubscribe"} =>
                pass[s].wait \in WaitsOf(s)
        BY InvParts DEF WaitsArePlanned
      <4>2. pass'[s] = pass[s]
        BY <1>2, <3>2
      <4>3. pass[s].pc \in {"retire", "subscribe", "claim", "append", "unsubscribe"} =>
                (Answered(pass[s].wait)' <=> Answered(pass[s].wait))
        <5>1. PICK v : v = pass[s].wait
          OBVIOUS
        <5>2. pass[s].pc \in {"retire", "subscribe", "claim", "append", "unsubscribe"} =>
                (Answered(v)' <=> Answered(v))
          BY <3>2, <4>1, <5>1
        <5> QED
          BY <4>2, <5>1, <5>2 DEF Answered
      <4> QED
        BY <4>2, <4>3, InvParts DEF PassesAreSound
    <3> QED
      BY <3>1, <3>2
  <2> QED
    BY <2>1 DEF PassesAreSound
<1>4. ASSUME NEW s \in Run
      PROVE  /\ pass'[s].pc \in {"record", "retire", "subscribe", "claim", "append", "unsubscribe"} =>
                    pass'[s].wait \in announced' \cap WaitsOf(s)
             /\ pass'[s].pc \in {"record", "append"} => pass'[s].event \in Event
             /\ \A f \in pass'[s].released : Stored(f)'
  <2>1. CASE s = r
    BY <1>2, <2>1 DEF Moved
  <2>2. CASE s # r
    BY <1>2, <2>2, InvParts DEF WaitsArePlanned, Stored
  <2> QED
    BY <2>1, <2>2
<1>5. hand' = hand => NoNewFlight
  BY <1>2 DEF NoNewFlight, InFlight, Moved
<1>6. ASSUME hand' = hand, NEW v \in subs, NEW f, AboutToLook(v, f) PROVE AboutToLook(v, f)'
  <2>1. RunOf(v) \in Run /\ RunOf(v)' = RunOf(v)
    BY <1>1, InvParts, PlannedFacts, SettingStays DEF WaitsArePlanned
  <2>2. CASE \E g \in Deliverer : hand[g].pc = "offer" /\ hand[g].event = f
    BY <1>6, <2>2 DEF AboutToLook
  <2>3. CASE \E s \in Run : f \in pass[s].released
    BY <1>2, <2>3 DEF AboutToLook
  <2>4. CASE pass[RunOf(v)].pc # "none" /\ v \notin pass[RunOf(v)].seen
    BY <1>2, <2>1, <2>4 DEF AboutToLook, Moved
  <2> QED
    BY <1>6, <2>2, <2>3, <2>4 DEF AboutToLook
<1> QED
  BY <1>2, <1>3, <1>4, <1>5, <1>6

LEMMA AnnounceStep ==
    ASSUME InboxInv, setting' = setting, NEW r \in Run, announce(r)
    PROVE  InboxInv'
<1>1. PICK w \in Ready(r) : announced' = announced \cup {w} /\ SetPass(r, "subscribe", w, None)
  BY DEF announce
<1>2. /\ pass[r].pc = "step"
      /\ UNCHANGED <<rows, claims, waits, answers, ended, stop, hand, listed, history>>
  BY DEF announce
<1>3. /\ stored' = stored /\ dead' = dead /\ targeted' = targeted /\ payload' = payload
      /\ erased' = erased /\ shedFor' = shedFor /\ live' = live /\ owner' = owner /\ held' = held
      /\ subs' = subs /\ older' = older /\ parked' = parked
      /\ answers' = answers /\ ended' = ended /\ stop' = stop /\ hand' = hand /\ listed' = listed
      /\ unoffered' = unoffered /\ crashes' = crashes
  BY <1>2 DEF rows, claims, waits, history
<1>4. /\ \A v : RunOf(v)' = RunOf(v) /\ (Answered(v)' <=> Answered(v)) /\ (Open(v)' <=> Open(v))
      /\ \A f : (Recorded(f)' <=> Recorded(f)) /\ (Stored(f)' <=> Stored(f))
      /\ \A s : (resume_is_closed(s)' <=> resume_is_closed(s)) /\ WaitsOf(s)' = WaitsOf(s)
      /\ Planned' = Planned /\ Plan' = Plan
  BY <1>3, SettingStays, AnswersStay, EndsStay, RowsStayStored
<1>5. /\ TypeOK /\ setting \in Scenarios
      /\ w \in WaitsOf(r) /\ ~Answered(w) /\ w \notin pass[r].seen
      /\ ended[r] = "no" /\ pass[r].released = {}
  BY <1>2, InvParts DEF TypeOK, Ready, PassesAreSound
<1>6. w \in Wait /\ w \in Planned
  BY <1>5, WaitsOfFacts DEF Planned
<1>7. /\ pass' \in [Run -> [pc : PassPoints, wait : Wait \cup {None},
                         event : Event \cup {None}, seen : SUBSET Wait, released : SUBSET Event]]
      /\ PassesAreSound' /\ NoNewFlight
      /\ \A s \in Run :
            /\ pass'[s].pc \in {"record", "retire", "subscribe", "claim", "append", "unsubscribe"} =>
                    pass'[s].wait \in announced' \cap WaitsOf(s)
            /\ pass'[s].pc \in {"record", "append"} => pass'[s].event \in Event
            /\ \A f \in pass'[s].released : Stored(f)'
      /\ \A v \in subs : \A f : AboutToLook(v, f) => AboutToLook(v, f)'
  BY <1>1, <1>2, <1>3, <1>4, <1>5, <1>6, PassTurns
<1>8. TypeOK'
  <2>1. announced' \subseteq Wait
    BY <1>1, <1>5, <1>6 DEF TypeOK
  <2> QED
    BY <1>3, <1>5, <1>7, <2>1 DEF TypeOK, RegistrationOrder
<1>9. WaitsArePlanned'
  BY <1>1, <1>3, <1>4, <1>6, <1>7, InvParts DEF WaitsArePlanned
<1>10. RowsAreSound' /\ ClaimsAreApart' /\ AnswersAreClaims'
  BY <1>3, <1>4, InvParts DEF RowsAreSound, ClaimsAreApart, AnswersAreClaims
<1>11. ListedAreKept' /\ AnsweredAreParked' /\ AnsweredOnce'
  BY <1>3, <1>4, InvParts DEF ListedAreKept, AnsweredAreParked, AnsweredOnce
<1>12. InOrder'
  <2>1. PICK i \in Unfinished(r) : w \in Plan[r][i] /\ \A j \in Unfinished(r) : i <= j
    BY DEF Ready
  <2>2. \A s \in Run : \A k \in DOMAIN Plan[s] : k \in Nat
    BY <1>5, ScenarioShape DEF Plan
  <2> SUFFICES ASSUME NEW s \in Run, NEW k \in DOMAIN Plan[s], NEW j \in DOMAIN Plan[s],
                      NEW u \in Plan[s][k], u \in announced', NEW v \in Plan[s][j], j < k
               PROVE  Answered(v)
    BY <1>4 DEF InOrder
  <2>3. CASE u \in announced
    BY <2>3, InvParts DEF InOrder
  <2>4. CASE u = w
    <3>1. u \in WaitsOf(s)
      BY <1>5, WaitsOfFacts
    <3>2. s = r
      BY <1>5, <2>4, <3>1, OneRunOf
    <3>3. i \in DOMAIN Plan[r]
      BY DEF Unfinished
    <3>4. k = i
      BY <1>5, <2>1, <2>4, <3>2, <3>3, OneSetOf
    <3>5. j \notin Unfinished(r)
      BY <2>1, <2>2, <3>2, <3>3, <3>4
    <3> QED
      BY <3>2, <3>5 DEF Unfinished
  <2> QED
    BY <1>1, <2>3, <2>4
<1>13. UnreadIsKept' /\ ClaimIsFindable' /\ LiveIsUnclaimed' /\ AddressedStays'
  BY <1>3, <1>4, InvParts DEF UnreadIsKept, ClaimIsFindable, LiveIsUnclaimed, AddressedStays
<1>14. NobodyPassedBy'
  BY <1>3, <1>4, <1>7, InvParts DEF NobodyPassedBy, Agree
<1>15. FlightsAreClaims'
  BY <1>3, <1>4, <1>7, InvParts, FlightsKept
<1> QED
  BY <1>7, <1>8, <1>9, <1>10, <1>11, <1>12, <1>13, <1>14, <1>15 DEF InboxInv, NothingIsLost

\* The pass of an open run appends what it carries as the answer of its wait.
Answers(r, w, e, pc) ==
    /\ pass[r].pc \in {"record", "append"} /\ pass[r].wait = w /\ pass[r].event = e
    /\ ~Answered(w) /\ ended[r] = "no"
    /\ answers' = [answers EXCEPT ![w] = Append(@, e)]
    /\ SetPass(r, pc, w, e)
    /\ UNCHANGED <<rows, claims, waits, announced, ended, stop, hand, listed, history>>

\* What is about to answer a wait is recorded as its answer.
LEMMA AnswerStep ==
    ASSUME InboxInv, setting' = setting, NEW r \in Run, NEW w, NEW e,
           NEW pc \in {"retire", "unsubscribe"}, Answers(r, w, e, pc)
    PROVE  InboxInv'
<1>0. /\ pass[r].pc \in {"record", "append"} /\ pass[r].wait = w /\ pass[r].event = e
      /\ ~Answered(w) /\ ended[r] = "no"
      /\ answers' = [answers EXCEPT ![w] = Append(@, e)]
      /\ SetPass(r, pc, w, e)
      /\ UNCHANGED <<rows, claims, waits, announced, ended, stop, hand, listed, history>>
  BY DEF Answers
<1> USE <1>0
<1>1. /\ stored' = stored /\ dead' = dead /\ targeted' = targeted /\ payload' = payload
      /\ erased' = erased /\ shedFor' = shedFor /\ live' = live /\ owner' = owner /\ held' = held
      /\ subs' = subs /\ older' = older /\ parked' = parked /\ announced' = announced
      /\ ended' = ended /\ stop' = stop /\ hand' = hand /\ listed' = listed
      /\ unoffered' = unoffered /\ crashes' = crashes
  BY DEF rows, claims, waits, history
<1>2. TypeOK /\ setting \in Scenarios /\ w \in announced /\ w \in WaitsOf(r) /\ e \in Event
      /\ pass[r].released = {}
  BY InvParts DEF TypeOK, WaitsArePlanned, PassesAreSound
<1>3. w \in Wait /\ w \in Planned /\ RunOf(w) = r /\ Open(w)
  BY <1>2, InvParts, OneRunOf, PlannedFacts DEF WaitsArePlanned, Open, resume_is_closed
<1>4. /\ answers' \in [Wait -> Seq(Event)]
      /\ \A v \in Wait : v # w => answers'[v] = answers[v]
      /\ Range(answers'[w]) = {e} /\ Len(answers'[w]) = 1
      /\ \A v \in Wait : Answered(v)' <=> Answered(v) \/ v = w
      /\ \A f : Recorded(f)' <=> Recorded(f) \/ f = e
  <2>1. answers \in [Wait -> Seq(Event)] /\ answers' = [answers EXCEPT ![w] = Append(@, e)]
    BY <1>2 DEF TypeOK
  <2> HIDE <1>0
  <2> QED
    BY <1>0, <1>2, <1>3, <2>1, AnswerAppend
<1>5. InFlight(w, e)
  BY DEF InFlight
<1>6. /\ Stored(e) /\ ~Recorded(e) /\ (held[e] = w \/ e \in dead \cap erased)
      /\ (e \in targeted => setting.to[e] = r)
      /\ \A v \in Planned : InFlight(v, e) /\ Open(v) => v = w
  <2>1. /\ Stored(e)
        /\ e \in targeted => setting.to[e] = RunOf(w)
        /\ Open(w) => /\ ~Recorded(e)
                      /\ held[e] = w \/ e \in dead \cap erased
                      /\ \A v \in Planned : InFlight(v, e) /\ Open(v) => v = w
    BY <1>2, <1>3, <1>5, InvParts, Zenon DEF FlightsAreClaims
  <2> QED
    BY <1>3, <2>1
<1>7. /\ \A v : RunOf(v)' = RunOf(v)
      /\ \A f : Stored(f)' <=> Stored(f)
      /\ \A s : (resume_is_closed(s)' <=> resume_is_closed(s)) /\ WaitsOf(s)' = WaitsOf(s)
      /\ Planned' = Planned /\ Plan' = Plan
      /\ setting'.to = setting.to
  BY <1>1, SettingStays, RowsStayStored DEF resume_is_closed
<1>8. \A v \in Planned : v \in Wait /\ (Open(v)' <=> Open(v) /\ v # w)
  BY <1>2, <1>4, <1>7, PlannedFacts DEF Open
<1>9. /\ pass' \in [Run -> [pc : PassPoints, wait : Wait \cup {None},
                         event : Event \cup {None}, seen : SUBSET Wait, released : SUBSET Event]]
      /\ PassesAreSound' /\ NoNewFlight
      /\ \A s \in Run :
            /\ pass'[s].pc \in {"record", "retire", "subscribe", "claim", "append", "unsubscribe"} =>
                    pass'[s].wait \in announced' \cap WaitsOf(s)
            /\ pass'[s].pc \in {"record", "append"} => pass'[s].event \in Event
            /\ \A f \in pass'[s].released : Stored(f)'
      /\ \A v \in subs : \A f : AboutToLook(v, f) => AboutToLook(v, f)'
  <2>1. \A s \in Run : \A v \in WaitsOf(s) : s # r => (Answered(v)' <=> Answered(v))
    <3> SUFFICES ASSUME NEW s \in Run, NEW v \in WaitsOf(s), s # r
                 PROVE  Answered(v)' <=> Answered(v)
      OBVIOUS
    <3>1. v # w /\ v \in Wait
      BY <1>2, <1>3, OneRunOf, WaitsOfFacts
    <3> QED
      BY <1>4, <3>1
  <2>2. Answered(w)'
    BY <1>3, <1>4
  <2>3. \A v \in announced : v \in announced'
    BY <1>1
  <2> QED
    BY <1>1, <1>2, <2>1, <2>2, <2>3, PassTurns
<1>10. TypeOK'
  BY <1>1, <1>2, <1>4, <1>9 DEF TypeOK, RegistrationOrder
<1>11. WaitsArePlanned'
  BY <1>1, <1>7, <1>9, InvParts DEF WaitsArePlanned
<1>12. RowsAreSound' /\ ClaimsAreApart'
  BY <1>1, <1>7, InvParts DEF RowsAreSound, ClaimsAreApart
<1>13. AnswersAreClaims'
  <2> SUFFICES ASSUME NEW v \in Wait, NEW f \in Range(answers'[v])
               PROVE  /\ v \in Planned /\ Stored(f)
                      /\ f \in dead \/ (owner[f] = RunOf(v) /\ held[f] \in {v, None})
    BY <1>1, <1>7 DEF AnswersAreClaims
  <2>1. CASE v = w
    <3>1. f = e
      BY <1>4, <2>1
    <3>2. held[e] = w => owner[e] = RunOf(w)
      BY <1>2, <1>3, InvParts, ScenariosAssumption DEF RowsAreSound
    <3> QED
      BY <1>3, <1>6, <2>1, <3>1, <3>2
  <2>2. CASE v # w
    BY <1>4, <2>2, InvParts DEF AnswersAreClaims
  <2> QED
    BY <2>1, <2>2
<1>14. AnsweredOnce'
  <2>1. \A v \in Wait : Len(answers'[v]) <= 1
    BY <1>4, InvParts DEF AnsweredOnce
  <2>2. \A v \in Wait : e \notin Range(answers[v])
    BY <1>6 DEF Recorded
  <2>3. \A u, v \in Wait : u # v => Range(answers'[u]) \cap Range(answers'[v]) = {}
    BY <1>4, <2>2, InvParts DEF AnsweredOnce
  <2> QED
    BY <2>1, <2>3 DEF AnsweredOnce
<1>15. FlightsAreClaims'
  <2> SUFFICES ASSUME NEW v \in Planned, NEW f \in Event, InFlight(v, f)'
               PROVE  /\ Stored(f)
                      /\ f \in targeted => setting.to[f] = RunOf(v)
                      /\ Open(v)' => /\ ~Recorded(f)'
                                     /\ held[f] = v \/ f \in dead \cap erased
                                     /\ \A u \in Planned : InFlight(u, f)' /\ Open(u)' => u = v
    BY <1>1, <1>7, Zenon DEF FlightsAreClaims
  <2>1. InFlight(v, f)
    BY <1>9 DEF NoNewFlight
  <2>2. /\ Stored(f)
        /\ f \in targeted => setting.to[f] = RunOf(v)
        /\ Open(v) => /\ ~Recorded(f)
                      /\ held[f] = v \/ f \in dead \cap erased
                      /\ \A u \in Planned : InFlight(u, f) /\ Open(u) => u = v
    BY <2>1, InvParts, Zenon DEF FlightsAreClaims
  <2>3. Open(v)' => f # e
    BY <1>6, <1>8, <2>1
  <2> QED
    BY <1>4, <1>8, <1>9, <2>2, <2>3 DEF NoNewFlight
<1>16. ListedAreKept' /\ InOrder'
  <2>1. \A v \in listed : v \in Planned
    BY InvParts DEF WaitsArePlanned
  <2>2. ListedAreKept'
    BY <1>1, <1>8, <2>1, InvParts DEF ListedAreKept
  <2>3. \A s \in Run : \A j \in DOMAIN Plan[s] : Plan[s][j] \subseteq Wait
    BY <1>2, ScenarioShape DEF Plan
  <2>4. InOrder'
    BY <1>1, <1>4, <1>7, <2>3, InvParts DEF InOrder
  <2> QED
    BY <2>2, <2>4
<1>17. AnsweredAreParked'
  <2>1. ASSUME erased = {} PROVE w \in parked
    <3>1. held[e] = w /\ w # None
      BY <1>3, <1>6, <2>1, ScenariosAssumption
    <3> QED
      BY <1>2, <2>1, <3>1, InvParts DEF ClaimsAreApart
  <2>2. \A v \in subs : v \in Wait
    BY <1>2 DEF TypeOK
  <2> QED
    BY <1>1, <1>4, <2>1, <2>2, InvParts DEF AnsweredAreParked
<1>18. UnreadIsKept'
  <2> SUFFICES ASSUME NEW f \in Range(stored), shedFor[f] # None, ~Recorded(f)'
               PROVE  Answered(shedFor[f])' \/ ended[RunOf(shedFor[f])] = "sealed"
    BY <1>1, <1>7 DEF UnreadIsKept
  <2>1. ~Recorded(f)
    BY <1>4
  <2>2. PICK v : v = shedFor[f]
    OBVIOUS
  <2>3. v \in Wait
    BY <1>2, <2>2 DEF TypeOK, Range
  <2>4. Answered(v) \/ ended[RunOf(v)] = "sealed"
    BY <2>1, <2>2, InvParts DEF UnreadIsKept
  <2>5. Answered(v)' \/ ended[RunOf(v)] = "sealed"
    BY <1>4, <2>3, <2>4
  <2> QED
    BY <1>1, <2>2, <2>5 DEF Answered
<1>19. ClaimIsFindable'
  <2> SUFFICES ASSUME erased = {}, NEW f \in Event, NEW v, v = held[f], v # None
               PROVE  Answered(v)' \/ resume_is_closed(RunOf(v)) \/ v \in parked \cap subs
    BY <1>1, <1>7 DEF ClaimIsFindable, Answered
  <2>1. v \in Wait
    BY <1>2 DEF TypeOK
  <2> QED
    BY <1>4, <2>1, InvParts DEF ClaimIsFindable
<1>20. LiveIsUnclaimed'
  BY <1>1, InvParts DEF LiveIsUnclaimed
<1>21. AddressedStays'
  <2> SUFFICES ASSUME NEW v \in Wait, NEW f \in Range(answers'[v]), f \in targeted
               PROVE  setting.to[f] = RunOf(v)
    BY <1>1, <1>7 DEF AddressedStays
  <2> QED
    BY <1>3, <1>4, <1>6, InvParts DEF AddressedStays
<1>22. NobodyPassedBy'
  BY <1>1, <1>7, <1>9, InvParts DEF NobodyPassedBy, Agree
<1> QED
  BY <1>9, <1>10, <1>11, <1>12, <1>13, <1>14, <1>15, <1>16, <1>17, <1>18, <1>19, <1>20, <1>21, <1>22
     DEF InboxInv, NothingIsLost

LEMMA AppendStep ==
    ASSUME InboxInv, setting' = setting, NEW r \in Run, append_answer(r)
    PROVE  InboxInv'
<1>1. PICK w, e : w = pass[r].wait /\ e = pass[r].event
  OBVIOUS
<1>2. /\ pass[r].pc = "append" /\ answers' = [answers EXCEPT ![w] = Append(@, e)]
      /\ SetPass(r, "unsubscribe", w, e)
      /\ UNCHANGED <<rows, claims, waits, announced, ended, stop, hand, listed, history>>
  BY <1>1 DEF append_answer
<1>3. ~Answered(w) /\ ended[r] = "no"
  BY <1>1, <1>2, InvParts DEF PassesAreSound
<1>4. Answers(r, w, e, "unsubscribe")
  BY <1>1, <1>2, <1>3 DEF Answers
<1> QED
  BY <1>4, AnswerStep

LEMMA RecordStep ==
    ASSUME InboxInv, setting' = setting, NEW r \in Run, record_delivery(r)
    PROVE  InboxInv'
<1>1. PICK w, e : w = pass[r].wait /\ e = pass[r].event
  OBVIOUS
<1>2. /\ pass[r].pc = "record"
      /\ UNCHANGED <<rows, claims, waits, announced, ended, stop, hand, listed, history>>
  BY DEF record_delivery
<1>3. CASE ~Answered(w) /\ ~resume_is_closed(r)
  <2>1. answers' = [answers EXCEPT ![w] = Append(@, e)] /\ SetPass(r, "retire", w, e)
    BY <1>1, <1>3 DEF record_delivery
  <2>2. Answers(r, w, e, "retire")
    BY <1>1, <1>2, <1>3, <2>1 DEF Answers, resume_is_closed
  <2> QED
    BY <2>2, AnswerStep
<1>4. CASE resume_is_closed(r)
  <2>1. answers' = answers /\ SetPass(r, "seal", None, None)
    BY <1>1, <1>4 DEF record_delivery
  <2> DEFINE p == Moved(r, "seal", None, None)
  <2>2. TypeOK /\ pass[r].released = {} /\ stop \subseteq setting.stoppable
    BY <1>2, InvParts DEF PassesAreSound, TypeOK
  <2>3. p.pc = "seal" /\ p.released = {} /\ p.seen = pass[r].seen
    BY <2>2 DEF Moved
  <2>4. /\ pass' = [pass EXCEPT ![r] = p]
        /\ p \in [pc : PassPoints, wait : Wait \cup {None}, event : Event \cup {None},
                  seen : SUBSET Wait, released : SUBSET Event]
    BY <2>1, <2>2, SetPassEffect DEF PassPoints
  <2> HIDE DEF p
  <2>5. StoreStays /\ UNCHANGED <<hand, history>> /\ stop' \subseteq setting.stoppable
    BY <1>2, <2>1, <2>2 DEF StoreStays
  <2> QED
    BY <2>2, <2>3, <2>4, <2>5, PassMoves
<1>5. CASE Answered(w) /\ ~resume_is_closed(r)
  <2>1. answers' = answers /\ SetPass(r, "retire", w, e)
    BY <1>1, <1>5 DEF record_delivery
  <2>2. /\ TypeOK /\ pass[r].released = {} /\ w \in announced /\ w \in WaitsOf(r) /\ e \in Event
        /\ ended[r] = "no"
    BY <1>1, <1>2, <1>5, InvParts DEF PassesAreSound, WaitsArePlanned, resume_is_closed
  <2>3. StoreStays
    BY <1>2, <2>1 DEF StoreStays
  <2>4. /\ stored' = stored /\ announced' = announced /\ subs' = subs /\ ended' = ended
        /\ parked' = parked /\ listed' = listed /\ held' = held /\ hand' = hand
        /\ stop' = stop /\ unoffered' = unoffered /\ crashes' = crashes /\ shedFor' = shedFor
    BY <1>2 DEF rows, claims, waits, history
  <2>5. /\ \A v : (Answered(v)' <=> Answered(v))
        /\ \A f : Stored(f)' <=> Stored(f)
        /\ \A s : WaitsOf(s)' = WaitsOf(s)
        /\ Planned' = Planned
    BY <2>1, <2>4, SettingStays, AnswersStay, RowsStayStored
  <2>6. /\ pass' \in [Run -> [pc : PassPoints, wait : Wait \cup {None},
                         event : Event \cup {None}, seen : SUBSET Wait, released : SUBSET Event]]
        /\ PassesAreSound' /\ NoNewFlight
        /\ \A s \in Run :
            /\ pass'[s].pc \in {"record", "retire", "subscribe", "claim", "append", "unsubscribe"} =>
                    pass'[s].wait \in announced' \cap WaitsOf(s)
            /\ pass'[s].pc \in {"record", "append"} => pass'[s].event \in Event
            /\ \A f \in pass'[s].released : Stored(f)'
        /\ \A v \in subs : \A f : AboutToLook(v, f) => AboutToLook(v, f)'
    BY <1>2, <1>5, <2>1, <2>2, <2>4, <2>5, PassTurns
  <2>7. TypeOK'
    BY <2>2, <2>3, <2>4, <2>6, TypeKept DEF TypeOK
  <2>8. WaitsArePlanned'
    BY <2>4, <2>5, <2>6, InvParts DEF WaitsArePlanned
  <2>9. NobodyPassedBy'
    BY <2>3, <2>4, <2>6, LookKept
  <2> QED
    BY <2>3, <2>6, <2>7, <2>8, <2>9, ControlStep
<1> QED
  BY <1>3, <1>4, <1>5
\* The pass of r writes its conclusion, or the seal of the conclusion it found.
Ends(r, x, pc) ==
    /\ \/ pass[r].pc = "step" /\ x = "concluded" /\ pc = "seal"
       \/ pass[r].pc = "seal" /\ x = "sealed" /\ pc = "retireWaits"
    /\ ended' = [ended EXCEPT ![r] = x]
    /\ SetPass(r, pc, None, None)
    /\ UNCHANGED <<rows, claims, waits, announced, answers, stop, hand, listed, history>>

\* A conclusion and its seal close waits and open none.
LEMMA EndStep ==
    ASSUME InboxInv, setting' = setting, NEW r \in Run, NEW x, NEW pc, Ends(r, x, pc)
    PROVE  InboxInv'
<1>0. /\ \/ pass[r].pc = "step" /\ x = "concluded" /\ pc = "seal"
         \/ pass[r].pc = "seal" /\ x = "sealed" /\ pc = "retireWaits"
      /\ ended' = [ended EXCEPT ![r] = x]
      /\ SetPass(r, pc, None, None)
      /\ UNCHANGED <<rows, claims, waits, announced, answers, stop, hand, listed, history>>
  BY DEF Ends
<1>1. /\ stored' = stored /\ dead' = dead /\ targeted' = targeted /\ payload' = payload
      /\ erased' = erased /\ shedFor' = shedFor /\ live' = live /\ owner' = owner /\ held' = held
      /\ subs' = subs /\ older' = older /\ parked' = parked /\ announced' = announced
      /\ answers' = answers /\ stop' = stop /\ hand' = hand /\ listed' = listed
      /\ unoffered' = unoffered /\ crashes' = crashes
  BY <1>0 DEF rows, claims, waits, history
<1>2. TypeOK /\ setting \in Scenarios /\ pass[r].released = {} /\ (x = "concluded" => ended[r] = "no")
  BY <1>0, InvParts DEF TypeOK, PassesAreSound
<1>3. /\ pass' = [pass EXCEPT ![r] = Moved(r, pc, None, None)]
      /\ pass'[r] = Moved(r, pc, None, None) /\ \A s \in Run : s # r => pass'[s] = pass[s]
      /\ pass' \in [Run -> [pc : PassPoints, wait : Wait \cup {None},
                         event : Event \cup {None}, seen : SUBSET Wait, released : SUBSET Event]]
  BY <1>0, <1>2, SetPassEffect DEF PassPoints
<1>4. pass'[r].pc = pc /\ pass'[r].released = {}
  BY <1>2, <1>3 DEF Moved
<1>5. /\ ended' \in [Run -> {"no", "concluded", "sealed"}]
      /\ ended'[r] = x /\ \A s \in Run : s # r => ended'[s] = ended[s]
  BY <1>0, <1>2 DEF TypeOK
<1>6. /\ \A v : RunOf(v)' = RunOf(v)
      /\ \A f : Stored(f)' <=> Stored(f)
      /\ \A s : WaitsOf(s)' = WaitsOf(s)
      /\ \A v : Answered(v)' <=> Answered(v)
      /\ \A f : Recorded(f)' <=> Recorded(f)
      /\ Planned' = Planned /\ Plan' = Plan
      /\ setting'.to = setting.to
  BY <1>1, SettingStays, RowsStayStored, AnswersStay
<1>7. /\ \A s \in Run : resume_is_closed(s) => resume_is_closed(s)'
      /\ \A s \in Run : ended[s] = "sealed" => ended'[s] = "sealed"
      /\ resume_is_closed(r)'
  BY <1>0, <1>2, <1>5 DEF resume_is_closed
<1>8. \A v \in Planned : RunOf(v) \in Run /\ (Open(v)' => Open(v))
  BY <1>2, <1>6, <1>7, PlannedFacts DEF Open
<1>9. \A v \in announced : v \in Planned /\ RunOf(v) \in Run
  BY <1>2, InvParts, PlannedFacts DEF WaitsArePlanned
<1>10. TypeOK'
  <2>1. RegistrationOrder' /\ IsInjective(stored)' /\ stop' \subseteq setting'.stoppable
    BY <1>1, <1>2 DEF TypeOK, RegistrationOrder
  <2> QED
    BY <1>1, <1>2, <1>3, <1>5, <2>1 DEF TypeOK
<1>11. WaitsArePlanned'
  <2>1. \A s \in Run :
        /\ pass'[s].pc \in {"record", "retire", "subscribe", "claim", "append", "unsubscribe"} =>
                pass'[s].wait \in announced \cap WaitsOf(s)
        /\ pass'[s].pc \in {"record", "append"} => pass'[s].event \in Event
        /\ \A e \in pass'[s].released : Stored(e)
    <3> SUFFICES ASSUME NEW s \in Run
                 PROVE  /\ pass'[s].pc \in {"record", "retire", "subscribe", "claim", "append", "unsubscribe"} =>
                              pass'[s].wait \in announced \cap WaitsOf(s)
                        /\ pass'[s].pc \in {"record", "append"} => pass'[s].event \in Event
                        /\ \A e \in pass'[s].released : Stored(e)
      OBVIOUS
    <3>1. CASE s = r
      BY <1>0, <1>4, <3>1
    <3>2. CASE s # r
      BY <1>3, <3>2, InvParts DEF WaitsArePlanned
    <3> QED
      BY <3>1, <3>2
  <2> QED
    BY <1>1, <1>6, <2>1, InvParts DEF WaitsArePlanned
<1>12. PassesAreSound'
  <2> SUFFICES ASSUME NEW s \in Run
               PROVE  (/\ pass[s].pc \in {"step", "retire", "subscribe", "claim", "append", "unsubscribe"} =>
                            ended[s] = "no"
                       /\ pass[s].pc \in {"retireWaits", "release"} => ended[s] = "sealed"
                       /\ pass[s].pc \in {"subscribe", "claim", "append"} =>
                            ~Answered(pass[s].wait) /\ pass[s].wait \notin pass[s].seen
                       /\ pass[s].pc \in {"claim", "append"} => pass[s].wait \in subs
                       /\ pass[s].pc \in {"unsubscribe", "retire"} => Answered(pass[s].wait)
                       /\ pass[s].pc # "release" => pass[s].released = {})'
    BY DEF PassesAreSound
  <2>1. CASE s = r
    BY <1>0, <1>4, <1>5, <2>1
  <2>2. CASE s # r
    BY <1>1, <1>3, <1>5, <2>2, InvParts DEF PassesAreSound, Answered
  <2> QED
    BY <2>1, <2>2
<1>13. RowsAreSound' /\ ClaimsAreApart' /\ AnswersAreClaims'
  BY <1>1, <1>6, InvParts DEF RowsAreSound, ClaimsAreApart, AnswersAreClaims
<1>14. AnsweredAreParked' /\ AnsweredOnce' /\ InOrder'
  BY <1>1, <1>6, InvParts DEF AnsweredAreParked, AnsweredOnce, InOrder
<1>15. ListedAreKept'
  BY <1>1, <1>8, <1>9, InvParts DEF ListedAreKept, WaitsArePlanned
<1>16. FlightsAreClaims'
  <2>1. NoNewFlight
    <3> SUFFICES ASSUME NEW w, NEW e, NEW s \in Run, pass'[s].pc \in {"record", "append"},
                        pass'[s].wait = w, pass'[s].event = e
                 PROVE  InFlight(w, e)
      BY <1>1 DEF NoNewFlight, InFlight
    <3>1. s # r
      BY <1>0, <1>4
    <3> QED
      BY <1>3, <3>1 DEF InFlight
  <2>2. \A v \in Planned : Open(v)' => Open(v)
    BY <1>8
  <2> QED
    BY <1>1, <1>6, <2>1, <2>2, InvParts, FlightsKept
<1>17. UnreadIsKept'
  <2> SUFFICES ASSUME NEW f \in Range(stored), shedFor[f] # None, ~Recorded(f)
               PROVE  Answered(shedFor[f]) \/ ended'[RunOf(shedFor[f])] = "sealed"
    BY <1>1, <1>6 DEF UnreadIsKept, Answered
  <2>1. f \in Event
    BY <1>2 DEF TypeOK, Range
  <2>2. shedFor[f] \in announced
    BY <2>1, InvParts DEF WaitsArePlanned
  <2> QED
    BY <1>7, <1>9, <2>2, InvParts DEF UnreadIsKept
<1>18. ClaimIsFindable'
  <2> SUFFICES ASSUME erased = {}, NEW f \in Event, held[f] # None
               PROVE  \/ Answered(held[f]) \/ resume_is_closed(RunOf(held[f]))'
                      \/ held[f] \in parked \cap subs
    BY <1>1, <1>6 DEF ClaimIsFindable, Answered, resume_is_closed
  <2>1. RunOf(held[f]) \in Run
    BY <1>9, InvParts DEF WaitsArePlanned
  <2>2. \/ Answered(held[f]) \/ resume_is_closed(RunOf(held[f]))
        \/ held[f] \in parked \cap subs
    BY InvParts DEF ClaimIsFindable
  <2>3. resume_is_closed(RunOf(held[f])) => resume_is_closed(RunOf(held[f]))'
    BY <1>1, <1>6, <1>7, <2>1 DEF resume_is_closed
  <2> QED
    BY <2>2, <2>3
<1>19. LiveIsUnclaimed' /\ AddressedStays'
  BY <1>1, <1>6, InvParts DEF LiveIsUnclaimed, AddressedStays
<1>20. NobodyPassedBy'
  <2> SUFFICES ASSUME erased = {}, NEW f \in live \ unoffered, NEW v \in subs \ parked,
                      Agree(v, f), ~resume_is_closed(RunOf(v))'
               PROVE  AboutToLook(v, f)'
    BY <1>1, <1>6 DEF NobodyPassedBy, Agree
  <2>1. RunOf(v) \in Run /\ RunOf(v) # r /\ ~resume_is_closed(RunOf(v))
    <3>1. RunOf(v) \in Run
      BY <1>9, InvParts DEF WaitsArePlanned
    <3>2. ended'[RunOf(v)] = "no"
      BY <1>6 DEF resume_is_closed
    <3> QED
      BY <1>0, <1>5, <3>1, <3>2 DEF resume_is_closed
  <2>2. AboutToLook(v, f)
    BY <2>1, InvParts DEF NobodyPassedBy
  <2> QED
    BY <1>1, <1>2, <1>3, <1>6, <2>1, <2>2 DEF AboutToLook
<1> QED
  BY <1>10, <1>11, <1>12, <1>13, <1>14, <1>15, <1>16, <1>17, <1>18, <1>19, <1>20
     DEF InboxInv, NothingIsLost

LEMMA ConcludeStep ==
    ASSUME InboxInv, setting' = setting, NEW r \in Run, conclude(r)
    PROVE  InboxInv'
<1>1. Ends(r, "concluded", "seal")
  BY DEF conclude, Ends
<1> QED
  BY <1>1, EndStep

LEMMA SealStep ==
    ASSUME InboxInv, setting' = setting, NEW r \in Run, seal(r)
    PROVE  InboxInv'
<1>1. Ends(r, "sealed", "retireWaits")
  BY DEF seal, Ends
<1> QED
  BY <1>1, EndStep
\* A message is durable before it is offered, and a copy of it is offered again.
LEMMA DeliverStep ==
    ASSUME InboxInv, setting' = setting, NEW h \in Deliverer, NEW e \in Event, deliver(h, e)
    PROVE  InboxInv'
<1>1. /\ hand[h].pc = "idle" /\ buffer(e) /\ SetHand(h, "offer", None, e)
      /\ dead' = dead /\ targeted' = targeted /\ erased' = erased /\ shedFor' = shedFor
      /\ owner' = owner /\ held' = held /\ subs' = subs /\ older' = older /\ parked' = parked
      /\ announced' = announced /\ answers' = answers /\ ended' = ended /\ stop' = stop
      /\ pass' = pass /\ listed' = listed /\ unoffered' = unoffered /\ crashes' = crashes
  BY DEF deliver, waits, journal, history
<1>2. TypeOK /\ setting \in Scenarios
  BY InvParts DEF TypeOK
<1>3. /\ stored' \in Seq(Event) /\ IsInjective(stored)' /\ payload' \subseteq Event
      /\ \A f : Stored(f)' <=> Stored(f) \/ f = e
      /\ \A f : f \in live' <=> f \in live \/ (f = e /\ ~Stored(e))
  <2>1. CASE Stored(e)
    <3>1. stored' = stored /\ live' = live /\ payload' = payload
      BY <1>1, <2>1 DEF buffer
    <3> QED
      BY <1>2, <2>1, <3>1, RowsStayStored DEF TypeOK
  <2>2. CASE ~Stored(e)
    <3>1. stored' = Append(stored, e) /\ live' = live \cup {e} /\ payload' = payload \cup {e}
      BY <1>1, <2>2 DEF buffer
    <3>2. /\ stored' \in Seq(Event) /\ IsInjective(stored)'
          /\ \A f : Stored(f)' <=> Stored(f) \/ f = e
      BY <1>2, <2>2, <3>1, StoredAppend DEF TypeOK
    <3> QED
      BY <1>2, <2>2, <3>1, <3>2 DEF TypeOK
  <2> QED
    BY <2>1, <2>2
<1>4. /\ hand'[h] = [pc |-> "offer", wait |-> None, event |-> e]
      /\ \A g \in Deliverer : g # h => hand'[g] = hand[g]
      /\ hand' \in [Deliverer -> [pc : {"idle", "offer", "wake"}, wait : Wait \cup {None},
                                  event : Event \cup {None}]]
  BY <1>1, <1>2, SetHandEffect
<1>5. /\ \A v : RunOf(v)' = RunOf(v) /\ (Answered(v)' <=> Answered(v)) /\ (Open(v)' <=> Open(v))
      /\ \A f : (Recorded(f)' <=> Recorded(f))
      /\ \A s : WaitsOf(s)' = WaitsOf(s) /\ (resume_is_closed(s)' <=> resume_is_closed(s))
      /\ Planned' = Planned /\ Plan' = Plan /\ setting'.to = setting.to
  BY <1>1, SettingStays, AnswersStay, EndsStay
<1>6. TypeOK'
  <2>1. RegistrationOrder' /\ stop' \subseteq setting'.stoppable
    BY <1>1, <1>2 DEF TypeOK, RegistrationOrder
  <2>2. live' \subseteq Event
    BY <1>2, <1>3 DEF TypeOK
  <2> QED
    BY <1>1, <1>2, <1>3, <1>4, <2>1, <2>2 DEF TypeOK
<1>7. WaitsArePlanned'
  <2>1. ASSUME NEW g \in Deliverer
        PROVE  /\ hand'[g].pc = "wake" => hand'[g].wait \in announced' /\ hand'[g].event \in Event
               /\ hand'[g].pc = "offer" => hand'[g].event \in Event /\ Stored(hand[g].event)'
    <3>1. CASE g = h
      BY <1>3, <1>4, <3>1
    <3>2. CASE g # h
      BY <1>1, <1>3, <1>4, <3>2, InvParts DEF WaitsArePlanned
    <3> QED
      BY <3>1, <3>2
  <2> QED
    BY <1>1, <1>3, <1>5, <2>1, InvParts DEF WaitsArePlanned
<1>8. PassesAreSound'
  BY <1>1, <1>5, InvParts DEF PassesAreSound, Answered
<1>9. RowsAreSound' /\ ClaimsAreApart' /\ AnswersAreClaims'
  BY <1>1, <1>3, <1>5, InvParts DEF RowsAreSound, ClaimsAreApart, AnswersAreClaims
<1>10. AnsweredAreParked' /\ AnsweredOnce' /\ InOrder' /\ ListedAreKept'
  BY <1>1, <1>5, InvParts DEF AnsweredAreParked, AnsweredOnce, InOrder, ListedAreKept
<1>11. FlightsAreClaims'
  <2>1. NoNewFlight
    <3>1. \A g \in Deliverer : hand'[g] = hand[g] \/ hand'[g].pc = "offer"
      BY <1>4
    <3> QED
      BY <1>1, <3>1 DEF NoNewFlight, InFlight
  <2> QED
    BY <1>1, <1>3, <1>5, <2>1, InvParts, FlightsKept
<1>12. UnreadIsKept'
  <2> SUFFICES ASSUME NEW f, Stored(f)', shedFor[f] # None, ~Recorded(f)
               PROVE  Answered(shedFor[f]) \/ ended[RunOf(shedFor[f])] = "sealed"
    BY <1>1, <1>5 DEF UnreadIsKept, Answered, Stored
  <2>1. Stored(f)
    BY <1>3, InvParts DEF RowsAreSound
  <2> QED
    BY <2>1, InvParts DEF UnreadIsKept, Stored
<1>13. ClaimIsFindable' /\ AddressedStays'
  BY <1>1, <1>5, InvParts DEF ClaimIsFindable, AddressedStays, Answered, resume_is_closed
<1>14. LiveIsUnclaimed'
  <2>1. \A f : f \in live <=> Stored(f) /\ owner[f] = None /\ f \notin dead
    BY InvParts DEF LiveIsUnclaimed, Stored
  <2>2. ~Stored(e) => owner[e] = None /\ e \notin dead
    BY InvParts DEF RowsAreSound
  <2>3. \A f : f \in live' <=> Stored(f)' /\ owner'[f] = None /\ f \notin dead'
    BY <1>1, <1>3, <2>1, <2>2
  <2> QED
    BY <2>3 DEF LiveIsUnclaimed, Stored
<1>15. NobodyPassedBy'
  <2> SUFFICES ASSUME erased = {}, NEW f \in live' \ unoffered, NEW v \in subs \ parked,
                      Agree(v, f), ~resume_is_closed(RunOf(v))
               PROVE  AboutToLook(v, f)'
    BY <1>1, <1>5 DEF NobodyPassedBy, Agree, resume_is_closed
  <2>1. CASE f = e
    BY <1>4, <2>1 DEF AboutToLook
  <2>2. CASE f # e
    <3>1. AboutToLook(v, f)
      BY <1>3, <2>2, InvParts DEF NobodyPassedBy
    <3>2. \A g \in Deliverer : hand[g].pc = "offer" => hand'[g] = hand[g]
      BY <1>1, <1>4
    <3> QED
      BY <1>1, <1>5, <3>1, <3>2 DEF AboutToLook
  <2> QED
    BY <2>1, <2>2
<1> QED
  BY <1>6, <1>7, <1>8, <1>9, <1>10, <1>11, <1>12, <1>13, <1>14, <1>15 DEF InboxInv, NothingIsLost
\* The waits W go and the claims C for them end: E is shed, read or of a sealed
\* run, and B is handed back by a closing run, to nobody when it was addressed.
Withdraws(W, C, E, B) ==
    /\ drop_waits(W) /\ shed_claimed(E)
    /\ owner' = [e \in Event |-> IF e \in B THEN None ELSE owner[e]]
    /\ held' = [e \in Event |-> IF e \in C THEN None ELSE held[e]]
    /\ dead' = dead \cup (B \cap targeted)
    /\ live' = live \cup (B \ targeted)
    /\ UNCHANGED <<setting, stored, targeted, erased, journal, hand, history>>
    /\ listed' \subseteq announced /\ \A w \in listed' : w \in listed \/ w \in subs \ W
    /\ \A w \in W : ~Open(w)
    /\ C \subseteq Event /\ \A e \in C : held[e] # None /\ ~Open(held[e])
    /\ \A e \in Event : held[e] \in W => e \in C
    /\ E \subseteq C
    /\ \A e \in E : Answered(held[e]) \/ ended[RunOf(held[e])] = "sealed"
    /\ B \subseteq C /\ \A e \in B : e \notin dead /\ ~Answered(held[e])

\* The passes meanwhile: one goes on with its plan or hands back what B holds.
WithdrawsIn(B) ==
    /\ pass' \in [Run -> [pc : PassPoints, wait : Wait \cup {None}, event : Event \cup {None},
                          seen : SUBSET Wait, released : SUBSET Event]]
    /\ \A s \in Run : pass[s].released = {} \/ pass'[s] = pass[s]
    /\ \A s \in Run :
        \/ pass'[s] = pass[s]
        \/ /\ pass'[s].pc = "step" /\ ended[s] = "no" /\ pass'[s].released = {}
           /\ pass'[s].seen = pass[s].seen
        \/ pass'[s].pc = "release" /\ ended[s] = "sealed" /\ pass'[s].released = B \ targeted
    /\ B \ targeted = {} \/ \E s \in Run : pass'[s].released = B \ targeted

\* What a withdrawal leaves of the columns it writes.
LEMMA WithdrawFacts ==
    ASSUME InboxInv, NEW W, NEW C, NEW E, NEW B, Withdraws(W, C, E, B)
    PROVE  /\ subs' = subs \ W /\ parked' = parked \ W /\ RegistrationOrder'
           /\ payload' \subseteq payload
           /\ \A e \in Event : /\ owner'[e] = IF e \in B THEN None ELSE owner[e]
                               /\ held'[e] = IF e \in C THEN None ELSE held[e]
                               /\ shedFor'[e] = IF e \in E THEN held[e] ELSE shedFor[e]
           /\ owner' \in [Event -> Run \cup {None}] /\ held' \in [Event -> Wait \cup {None}]
           /\ shedFor' \in [Event -> Wait \cup {None}]
           /\ dead' = dead \cup (B \cap targeted) /\ live' = live \cup (B \ targeted)
           /\ setting' = setting /\ stored' = stored /\ targeted' = targeted /\ erased' = erased
           /\ announced' = announced /\ answers' = answers /\ ended' = ended /\ stop' = stop
           /\ hand' = hand /\ unoffered' = unoffered /\ crashes' = crashes
           /\ \A e \in C : e \in Event /\ held[e] \in announced /\ owner[e] = RunOf(held[e])
                           /\ owner[e] # None /\ Stored(e) /\ e \notin dead /\ e \notin erased
<1>1. TypeOK /\ setting \in Scenarios
  BY InvParts DEF TypeOK
<1>2. /\ drop_waits(W) /\ payload' = payload \ E
      /\ shedFor' = [e \in Event |-> IF e \in E THEN held[e] ELSE shedFor[e]]
      /\ owner' = [e \in Event |-> IF e \in B THEN None ELSE owner[e]]
      /\ held' = [e \in Event |-> IF e \in C THEN None ELSE held[e]]
      /\ dead' = dead \cup (B \cap targeted) /\ live' = live \cup (B \ targeted)
      /\ setting' = setting /\ stored' = stored /\ targeted' = targeted /\ erased' = erased
      /\ announced' = announced /\ answers' = answers /\ ended' = ended /\ stop' = stop
      /\ hand' = hand /\ unoffered' = unoffered /\ crashes' = crashes
      /\ C \subseteq Event /\ \A e \in C : held[e] # None
  BY DEF Withdraws, shed_claimed, journal, history
<1>3. subs' = subs \ W /\ parked' = parked \ W
  BY <1>2 DEF drop_waits
<1>4. RegistrationOrder'
  BY <1>1, <1>2, DropOrder DEF TypeOK
<1>5. ASSUME NEW e \in C
      PROVE  e \in Event /\ held[e] \in announced /\ owner[e] = RunOf(held[e])
             /\ owner[e] # None /\ Stored(e) /\ e \notin dead /\ e \notin erased
  <2>1. e \in Event /\ held[e] # None /\ held[e] \in announced
    BY <1>2, <1>5, InvParts DEF WaitsArePlanned
  <2>2. owner[e] = RunOf(held[e])
    BY <2>1, InvParts DEF RowsAreSound
  <2>3. owner[e] # None
    BY <1>1, <2>1, <2>2, InvParts, PlannedFacts, ScenariosAssumption DEF WaitsArePlanned
  <2> QED
    BY <2>1, <2>2, <2>3, InvParts DEF RowsAreSound
<1>6. /\ owner' \in [Event -> Run \cup {None}] /\ held' \in [Event -> Wait \cup {None}]
      /\ shedFor' \in [Event -> Wait \cup {None}]
  BY <1>1, <1>2 DEF TypeOK
<1> QED
  BY <1>2, <1>3, <1>4, <1>5, <1>6
\* A withdrawal takes nothing from a wait that is still open.
LEMMA WithdrawStep ==
    ASSUME InboxInv, NEW W, NEW C, NEW E, NEW B, Withdraws(W, C, E, B), WithdrawsIn(B)
    PROVE  InboxInv'
<1>1. /\ subs' = subs \ W /\ parked' = parked \ W
      /\ \A e \in Event : /\ owner'[e] = IF e \in B THEN None ELSE owner[e]
                          /\ held'[e] = IF e \in C THEN None ELSE held[e]
                          /\ shedFor'[e] = IF e \in E THEN held[e] ELSE shedFor[e]
      /\ dead' = dead \cup (B \cap targeted) /\ live' = live \cup (B \ targeted)
      /\ setting' = setting /\ stored' = stored /\ targeted' = targeted /\ erased' = erased
      /\ announced' = announced /\ answers' = answers /\ ended' = ended /\ stop' = stop
      /\ hand' = hand /\ unoffered' = unoffered /\ crashes' = crashes
      /\ \A e \in C : e \in Event /\ held[e] \in announced /\ owner[e] = RunOf(held[e])
                      /\ owner[e] # None /\ Stored(e) /\ e \notin dead /\ e \notin erased
  BY WithdrawFacts
<1>2. /\ listed' \subseteq announced /\ \A w \in listed' : w \in listed \/ w \in subs \ W
      /\ \A w \in W : ~Open(w)
      /\ C \subseteq Event /\ \A e \in C : held[e] # None /\ ~Open(held[e])
      /\ \A e \in Event : held[e] \in W => e \in C
      /\ E \subseteq C
      /\ \A e \in E : Answered(held[e]) \/ ended[RunOf(held[e])] = "sealed"
      /\ B \subseteq C /\ \A e \in B : e \notin dead /\ ~Answered(held[e])
  BY DEF Withdraws
<1>3. TypeOK /\ setting \in Scenarios
  BY InvParts DEF TypeOK
<1>4. /\ \A v : RunOf(v)' = RunOf(v) /\ (Answered(v)' <=> Answered(v)) /\ (Open(v)' <=> Open(v))
      /\ \A f : (Recorded(f)' <=> Recorded(f)) /\ (Stored(f)' <=> Stored(f))
      /\ \A s : WaitsOf(s)' = WaitsOf(s) /\ (resume_is_closed(s)' <=> resume_is_closed(s))
      /\ Planned' = Planned /\ Plan' = Plan /\ setting'.to = setting.to
  BY <1>1, SettingStays, AnswersStay, EndsStay, RowsStayStored
<1>5. /\ pass' \in [Run -> [pc : PassPoints, wait : Wait \cup {None}, event : Event \cup {None},
                          seen : SUBSET Wait, released : SUBSET Event]]
      /\ \A s \in Run : pass[s].released = {} \/ pass'[s] = pass[s]
      /\ \A s \in Run :
            \/ pass'[s] = pass[s]
            \/ /\ pass'[s].pc = "step" /\ ended[s] = "no" /\ pass'[s].released = {}
               /\ pass'[s].seen = pass[s].seen
            \/ pass'[s].pc = "release" /\ ended[s] = "sealed" /\ pass'[s].released = B \ targeted
      /\ B \ targeted = {} \/ \E s \in Run : pass'[s].released = B \ targeted
  BY DEF WithdrawsIn
<1>6. TypeOK'
  <2>1. /\ RegistrationOrder' /\ payload' \subseteq Event
        /\ owner' \in [Event -> Run \cup {None}] /\ held' \in [Event -> Wait \cup {None}]
        /\ shedFor' \in [Event -> Wait \cup {None}]
    BY <1>3, WithdrawFacts DEF TypeOK
  <2>2. /\ IsInjective(stored)' /\ stop' \subseteq setting'.stoppable
        /\ subs' \subseteq Wait /\ parked' \subseteq Wait /\ listed' \subseteq Wait
        /\ dead' \subseteq Event /\ live' \subseteq Event
    BY <1>1, <1>2, <1>3 DEF TypeOK
  <2> QED
    BY <1>1, <1>3, <1>5, <2>1, <2>2 DEF TypeOK
<1>7. WaitsArePlanned'
  <2>1. ASSUME NEW s \in Run
        PROVE  /\ pass'[s].pc \in {"record", "retire", "subscribe", "claim", "append", "unsubscribe"} =>
                    pass'[s].wait \in announced \cap WaitsOf(s)
               /\ pass'[s].pc \in {"record", "append"} => pass'[s].event \in Event
               /\ \A f \in pass'[s].released : Stored(f)
    BY <1>1, <1>2, <1>5, InvParts DEF WaitsArePlanned
  <2>2. \A e \in Event : held'[e] \in announced \cup {None} /\ shedFor'[e] \in announced \cup {None}
    BY <1>1, <1>2, InvParts DEF WaitsArePlanned
  <2>3. subs' \cup parked' \cup listed' \subseteq announced
    BY <1>1, <1>2, InvParts DEF WaitsArePlanned
  <2> QED
    BY <1>1, <1>4, <2>1, <2>2, <2>3, InvParts DEF WaitsArePlanned
<1>8. PassesAreSound'
  <2> SUFFICES ASSUME NEW s \in Run
               PROVE  (/\ pass[s].pc \in {"step", "retire", "subscribe", "claim", "append", "unsubscribe"} =>
                            ended[s] = "no"
                       /\ pass[s].pc \in {"retireWaits", "release"} => ended[s] = "sealed"
                       /\ pass[s].pc \in {"subscribe", "claim", "append"} =>
                            ~Answered(pass[s].wait) /\ pass[s].wait \notin pass[s].seen
                       /\ pass[s].pc \in {"claim", "append"} => pass[s].wait \in subs
                       /\ pass[s].pc \in {"unsubscribe", "retire"} => Answered(pass[s].wait)
                       /\ pass[s].pc # "release" => pass[s].released = {})'
    BY DEF PassesAreSound
  <2>1. CASE pass'[s] = pass[s]
    <3>1. ASSUME pass[s].pc \in {"claim", "append"} PROVE pass[s].wait \in subs'
      <4>1. /\ pass[s].wait \in subs /\ ~Answered(pass[s].wait) /\ ended[s] = "no"
            /\ pass[s].wait \in WaitsOf(s)
        BY <3>1, InvParts DEF PassesAreSound, WaitsArePlanned
      <4>2. Open(pass[s].wait)
        BY <1>3, <4>1, OneRunOf DEF Open, resume_is_closed
      <4> QED
        BY <1>1, <1>2, <4>1, <4>2
    <3> QED
      BY <1>1, <2>1, <3>1, InvParts DEF PassesAreSound, Answered
  <2>2. CASE pass'[s].pc = "step" /\ ended[s] = "no" /\ pass'[s].released = {}
    BY <1>1, <2>2
  <2>3. CASE pass'[s].pc = "release" /\ ended[s] = "sealed"
    BY <1>1, <2>3
  <2> QED
    BY <1>5, <2>1, <2>2, <2>3
<1>9. RowsAreSound'
  <2> SUFFICES ASSUME NEW e \in Event
               PROVE  (/\ ~Stored(e) => owner[e] = None /\ shedFor[e] = None /\ e \notin dead \cup targeted \cup erased
                       /\ e \in dead => owner[e] = None
                       /\ held[e] # None => owner[e] = RunOf(held[e])
                       /\ e \in erased => held[e] = None /\ (owner[e] # None \/ e \in dead)
                       /\ e \in targeted =>
                            /\ owner[e] = None => e \in dead
                            /\ owner[e] # None => owner[e] = setting.to[e])'
    BY DEF RowsAreSound
  <2>1. /\ ~Stored(e) => owner[e] = None /\ shedFor[e] = None /\ e \notin dead \cup targeted \cup erased
        /\ e \in dead => owner[e] = None
        /\ held[e] # None => owner[e] = RunOf(held[e])
        /\ e \in erased => held[e] = None /\ (owner[e] # None \/ e \in dead)
        /\ e \in targeted =>
            /\ owner[e] = None => e \in dead
            /\ owner[e] # None => owner[e] = setting.to[e]
    BY InvParts DEF RowsAreSound
  <2>2. CASE e \in C
    BY <1>1, <1>2, <1>4, <2>1, <2>2
  <2>3. CASE e \notin C
    <3>1. e \notin B /\ e \notin E
      BY <1>2, <2>3
    <3>2. /\ owner'[e] = owner[e] /\ held'[e] = held[e] /\ shedFor'[e] = shedFor[e]
          /\ (e \in dead' <=> e \in dead) /\ RunOf(held[e])' = RunOf(held[e])
      BY <1>1, <1>4, <2>3, <3>1
    <3> QED
      BY <1>1, <1>4, <2>1, <3>2
  <2> QED
    BY <2>2, <2>3
<1>10. ClaimsAreApart' /\ AnsweredAreParked'
  BY <1>1, <1>2, <1>4, InvParts DEF ClaimsAreApart, AnsweredAreParked
<1>11. AnswersAreClaims'
  <2> SUFFICES ASSUME NEW w \in Wait, NEW e \in Range(answers[w])
               PROVE  /\ w \in Planned /\ Stored(e)
                      /\ e \in dead' \/ (owner'[e] = RunOf(w) /\ held'[e] \in {w, None})
    BY <1>1, <1>4 DEF AnswersAreClaims
  <2>1. /\ w \in Planned /\ Stored(e) /\ e \in Event
        /\ e \in dead \/ (owner[e] = RunOf(w) /\ held[e] \in {w, None})
    BY <1>3, InvParts DEF AnswersAreClaims, TypeOK, Stored, Range
  <2>2. Answered(w)
    BY DEF Answered, Range
  <2>3. e \in B => e \in dead
    BY <1>2, <2>1, <2>2
  <2> QED
    BY <1>1, <1>2, <2>1, <2>3
<1>12. FlightsAreClaims'
  <2>1. NoNewFlight
    BY <1>1, <1>5 DEF NoNewFlight, InFlight
  <2>2. \A v \in Planned, f \in Event : Open(v)' /\ held[f] = v => held'[f] = v
    BY <1>1, <1>2, <1>4
  <2> QED
    BY <1>1, <1>4, <2>1, <2>2, InvParts, FlightsKept
<1>13. ListedAreKept'
  BY <1>1, <1>2, <1>4, InvParts DEF ListedAreKept
<1>14. InOrder' /\ AnsweredOnce' /\ AddressedStays'
  BY <1>1, <1>4, InvParts DEF InOrder, AnsweredOnce, AddressedStays
<1>15. UnreadIsKept'
  <2> SUFFICES ASSUME NEW f \in Range(stored), shedFor'[f] # None, ~Recorded(f)
               PROVE  Answered(shedFor[f])' \/ ended[RunOf(shedFor[f])'] = "sealed"
    BY <1>1, <1>4 DEF UnreadIsKept
  <2>1. f \in Event
    BY <1>3 DEF TypeOK, Range
  <2>2. PICK v : v = shedFor'[f]
    OBVIOUS
  <2>3. Answered(v) \/ ended[RunOf(v)] = "sealed"
    BY <1>1, <1>2, <2>1, <2>2, InvParts DEF UnreadIsKept
  <2>4. Answered(v)' \/ ended[RunOf(v)'] = "sealed"
    BY <1>4, <2>3
  <2> QED
    BY <2>2, <2>4 DEF Answered, RunOf
<1>16. ClaimIsFindable'
  <2> SUFFICES ASSUME erased = {}, NEW f \in Event, held'[f] # None
               PROVE  \/ Answered(held[f])' \/ resume_is_closed(RunOf(held[f]))'
                      \/ held'[f] \in parked' \cap subs'
    BY <1>1 DEF ClaimIsFindable
  <2>1. f \notin C /\ held'[f] = held[f] /\ held[f] \notin W
    BY <1>1, <1>2
  <2>2. \/ Answered(held[f]) \/ resume_is_closed(RunOf(held[f]))
        \/ held[f] \in parked \cap subs
    BY <2>1, InvParts DEF ClaimIsFindable
  <2>3. RunOf(held[f])' = RunOf(held[f]) /\ (Answered(held[f])' <=> Answered(held[f]))
    BY <1>1, <1>4, <2>1 DEF Answered, RunOf
  <2> QED
    BY <1>1, <2>1, <2>2, <2>3 DEF resume_is_closed
<1>17. LiveIsUnclaimed'
  <2>1. \A f : f \in live <=> Stored(f) /\ owner[f] = None /\ f \notin dead
    BY InvParts DEF LiveIsUnclaimed, Stored
  <2>2. \A f : Stored(f) => f \in Event
    BY <1>3 DEF TypeOK, Stored, Range
  <2>3. \A f : f \in live' <=> Stored(f)' /\ owner'[f] = None /\ f \notin dead'
    BY <1>1, <1>2, <1>4, <2>1, <2>2, InvParts DEF RowsAreSound
  <2> QED
    BY <2>3 DEF LiveIsUnclaimed, Stored
<1>18. NobodyPassedBy'
  <2> SUFFICES ASSUME erased = {}, NEW f \in live' \ unoffered, NEW v \in subs', v \notin parked',
                      Agree(v, f), ~resume_is_closed(RunOf(v))
               PROVE  AboutToLook(v, f)'
    BY <1>1, <1>4 DEF NobodyPassedBy, Agree, resume_is_closed
  <2>1. CASE f \in live
    <3>1. AboutToLook(v, f)
      BY <1>1, <2>1, InvParts DEF NobodyPassedBy
    <3>2. RunOf(v) \in Run
      BY <1>1, <1>3, InvParts, PlannedFacts DEF WaitsArePlanned
    <3>3. CASE \E h \in Deliverer : hand[h].pc = "offer" /\ hand[h].event = f
      BY <1>1, <3>3 DEF AboutToLook
    <3>4. CASE \E s \in Run : f \in pass[s].released
      BY <1>5, <3>4 DEF AboutToLook
    <3>5. CASE pass[RunOf(v)].pc # "none" /\ v \notin pass[RunOf(v)].seen
      <4>1. ended[RunOf(v)] = "no"
        BY DEF resume_is_closed
      <4>2. pass'[RunOf(v)].pc # "none" /\ v \notin pass'[RunOf(v)].seen
        BY <1>5, <3>2, <3>5, <4>1
      <4> QED
        BY <1>4, <4>2 DEF AboutToLook
    <3> QED
      BY <3>1, <3>3, <3>4, <3>5 DEF AboutToLook
  <2>2. CASE f \in B \ targeted
    BY <1>5, <2>2 DEF AboutToLook
  <2> QED
    BY <1>1, <2>1, <2>2
<1> QED
  BY <1>6, <1>7, <1>8, <1>9, <1>10, <1>11, <1>12, <1>13, <1>14, <1>15, <1>16, <1>17, <1>18
     DEF InboxInv, NothingIsLost
\* The answered wait goes and its claim with it, read.
LEMMA UnsubscribeStep ==
    ASSUME InboxInv, setting' = setting, NEW r \in Run,
           retire_delivered(r) \/ unsubscribe_answered(r)
    PROVE  InboxInv'
<1>1. PICK w : w = pass[r].wait
  OBVIOUS
<1>2. /\ pass[r].pc \in {"retire", "unsubscribe"} /\ unsubscribe(w)
      /\ SetPass(r, "step", None, None) /\ UNCHANGED <<journal, hand, listed, history>>
  BY <1>1 DEF retire_delivered, unsubscribe_answered
<1>3. TypeOK /\ Answered(w) /\ ended[r] = "no" /\ pass[r].released = {} /\ w \in announced /\ w # None
  <2>1. TypeOK /\ PassesAreSound /\ WaitsArePlanned
    BY InvParts
  <2>2. Answered(w) /\ ended[r] = "no" /\ pass[r].released = {}
    BY <1>1, <1>2, <2>1 DEF PassesAreSound
  <2>3. w \in announced
    BY <1>1, <1>2, <2>1 DEF WaitsArePlanned
  <2>4. announced \subseteq Wait
    BY <2>1 DEF TypeOK
  <2> QED
    BY <2>1, <2>2, <2>3, <2>4, ScenariosAssumption
<1> DEFINE C == HeldFor({w})
<1>4. /\ C \subseteq Event /\ \A e \in Event : e \in C <=> held[e] = w
  BY DEF HeldFor
<1>5. Withdraws({w}, C, C, {})
  <2>1. /\ drop_waits({w}) /\ shed_claimed(C)
        /\ dead' = dead \cup ({} \cap targeted) /\ live' = live \cup ({} \ targeted)
        /\ owner' = owner /\ UNCHANGED <<stored, targeted, erased>>
        /\ held' = [e \in Event |-> IF held[e] = w THEN None ELSE held[e]]
    BY <1>2 DEF unsubscribe
  <2>2. owner' = [e \in Event |-> IF e \in {} THEN None ELSE owner[e]]
    BY <1>3, <2>1 DEF TypeOK
  <2>3. held' = [e \in Event |-> IF e \in C THEN None ELSE held[e]]
    BY <1>4, <2>1
  <2>4. listed' = listed /\ listed \subseteq announced
    BY <1>2, InvParts DEF WaitsArePlanned
  <2> HIDE DEF C
  <2> QED
    BY <1>2, <1>3, <1>4, <2>1, <2>2, <2>3, <2>4 DEF Withdraws, Open
<1>6. WithdrawsIn({})
  <2>1. /\ pass'[r] = Moved(r, "step", None, None) /\ \A s \in Run : s # r => pass'[s] = pass[s]
        /\ pass' \in [Run -> [pc : PassPoints, wait : Wait \cup {None}, event : Event \cup {None},
                          seen : SUBSET Wait, released : SUBSET Event]]
    BY <1>2, <1>3, SetPassEffect DEF PassPoints
  <2>2. pass'[r].pc = "step" /\ pass'[r].seen = pass[r].seen /\ pass'[r].released = {}
    BY <1>3, <2>1 DEF Moved
  <2> QED
    BY <1>3, <2>1, <2>2 DEF WithdrawsIn
<1> QED
  BY <1>5, <1>6, WithdrawStep

\* A sealed run's waits go; what it had not read is handed back.
LEMMA RetireWaitsStep ==
    ASSUME InboxInv, setting' = setting, NEW r \in Run, retire_waits(r)
    PROVE  InboxInv'
<1>1. /\ pass[r].pc = "retireWaits" /\ unsubscribe_run(r)
      /\ pass' = [pass EXCEPT ![r] = [NoPass EXCEPT !.pc = "release",
                                                    !.released = HandedBack(r) \ targeted]]
      /\ UNCHANGED <<journal, hand, listed, history>>
  BY DEF retire_waits
<1>2. TypeOK /\ setting \in Scenarios /\ ended[r] = "sealed" /\ pass[r].released = {}
  BY <1>1, InvParts DEF PassesAreSound, TypeOK
<1>3. ASSUME NEW w \in WaitsOf(r) PROVE RunOf(w) = r /\ w \in Wait /\ w # None /\ ~Open(w)
  BY <1>2, <1>3, OneRunOf, WaitsOfFacts, ScenariosAssumption DEF Open, resume_is_closed
<1>4. unanswered_waits(r) \subseteq WaitsOf(r)
  BY <1>2, InvParts, PlannedFacts DEF unanswered_waits, WaitsArePlanned
<1> DEFINE W == WaitsOf(r) \cap subs
           C == HeldFor(WaitsOf(r))
           E == HeldFor(WaitsOf(r)) \ HeldFor(unanswered_waits(r))
           B == HandedBack(r)
<1>5. /\ C \subseteq Event /\ E \subseteq C /\ B \subseteq C
      /\ \A e \in Event : e \in C <=> held[e] \in WaitsOf(r)
      /\ \A e \in B : e \notin dead /\ ~Answered(held[e])
  BY <1>4 DEF HeldFor, HandedBack, unanswered_waits
<1>6. Withdraws(W, C, E, B)
  <2>1. /\ drop_waits(W) /\ shed_claimed(E)
        /\ owner' = [e \in Event |-> IF e \in B THEN None ELSE owner[e]]
        /\ dead' = dead \cup (B \cap targeted) /\ live' = live \cup (B \ targeted)
        /\ UNCHANGED <<stored, targeted, erased>>
        /\ held' = [e \in Event |-> IF held[e] \in WaitsOf(r) THEN None ELSE held[e]]
    BY <1>1 DEF unsubscribe_run
  <2>2. held' = [e \in Event |-> IF e \in C THEN None ELSE held[e]]
    BY <1>5, <2>1
  <2>3. listed' = listed /\ listed \subseteq announced
    BY <1>1, InvParts DEF WaitsArePlanned
  <2>4. /\ \A w \in W : ~Open(w)
        /\ \A e \in C : held[e] # None /\ ~Open(held[e])
        /\ \A e \in Event : held[e] \in W => e \in C
        /\ \A e \in E : ended[RunOf(held[e])] = "sealed"
    BY <1>2, <1>3, <1>5
  <2> HIDE DEF W, C, E, B
  <2> QED
    BY <1>1, <1>5, <2>1, <2>2, <2>3, <2>4 DEF Withdraws
<1>7. WithdrawsIn(B)
  <2>1. B \ targeted \subseteq Event
    BY <1>5
  <2> HIDE DEF B
  <2>2. pass' = [pass EXCEPT ![r] = [NoPass EXCEPT !.pc = "release", !.released = B \ targeted]]
    BY <1>1 DEF B
  <2>3. /\ pass'[r] = [pc |-> "release", wait |-> None, event |-> None, seen |-> {},
                       released |-> B \ targeted]
        /\ \A s \in Run : s # r => pass'[s] = pass[s]
        /\ pass' \in [Run -> [pc : PassPoints, wait : Wait \cup {None}, event : Event \cup {None},
                          seen : SUBSET Wait, released : SUBSET Event]]
    BY <1>2, <2>1, <2>2 DEF TypeOK, NoPass, PassPoints
  <2> QED
    BY <1>2, <2>3 DEF WithdrawsIn
<1> QED
  BY <1>6, <1>7, WithdrawStep

\* The redelivery pass drops the waits of sealed runs and lists the others.
LEMMA ParkedWaitsStep ==
    ASSUME InboxInv, setting' = setting, parked_waits
    PROVE  InboxInv'
<1> DEFINE W == {w \in parked : RunOf(w) \in Sealed}
           C == {e \in Event : held[e] # None /\ \E w \in W : RunOf(held[e]) = RunOf(w)}
<1>1. /\ drop_waits(W) /\ shed_claimed(C) /\ listed' = (parked \ W) \cap subs
      /\ held' = [e \in Event |-> IF e \in C THEN None ELSE held[e]]
      /\ UNCHANGED <<stored, dead, targeted, erased, live, owner, journal, pass, hand, history>>
  BY DEF parked_waits
<1>2. TypeOK /\ parked \subseteq announced
  BY InvParts DEF WaitsArePlanned
<1>3. /\ \A w \in W : w \in parked /\ ended[RunOf(w)] = "sealed"
      /\ \A e \in C : e \in Event /\ held[e] # None /\ ended[RunOf(held[e])] = "sealed"
  BY DEF Sealed
<1>4. \A e \in Event : held[e] \in W => e \in C
  <2>1. \A w \in W : w # None
    BY <1>2, ScenariosAssumption DEF TypeOK
  <2> QED
    BY <2>1
<1> HIDE DEF W, C
<1>5. Withdraws(W, C, C, {})
  <2>1. owner' = [e \in Event |-> IF e \in {} THEN None ELSE owner[e]]
    BY <1>1, <1>2 DEF TypeOK
  <2>2. dead' = dead \cup ({} \cap targeted) /\ live' = live \cup ({} \ targeted)
    BY <1>1
  <2>3. (\A w \in W : ~Open(w)) /\ (\A e \in C : ~Open(held[e]))
    BY <1>3 DEF Open, resume_is_closed
  <2>4. listed' \subseteq announced /\ (\A w \in listed' : w \in subs \ W) /\ C \subseteq Event
    BY <1>1, <1>2, <1>3
  <2> QED
    BY <1>1, <1>3, <1>4, <2>1, <2>2, <2>3, <2>4 DEF Withdraws
<1>6. WithdrawsIn({})
  BY <1>1, <1>2 DEF WithdrawsIn, TypeOK
<1> QED
  BY <1>5, <1>6, WithdrawStep
\* The sweep retires rows nobody claimed.
LEMMA SweepStep ==
    ASSUME InboxInv, setting' = setting, sweep_unclaimed
    PROVE  InboxInv'
<1>1. PICK n \in DOMAIN stored :
        /\ dead' = dead \cup (Range(SubSeq(stored, 1, n)) \cap live)
        /\ live' = live \ (Range(SubSeq(stored, 1, n)) \cap live)
        /\ UNCHANGED <<stored, payload, targeted, erased, shedFor, owner, held, waits,
                       journal, actors, history>>
  BY DEF sweep_unclaimed
<1>2. PICK old \in SUBSET live : old = Range(SubSeq(stored, 1, n)) \cap live
  OBVIOUS
<1>3. /\ dead' = dead \cup old /\ live' = live \ old
      /\ stored' = stored /\ targeted' = targeted /\ payload' = payload
      /\ erased' = erased /\ shedFor' = shedFor /\ owner' = owner /\ held' = held
      /\ subs' = subs /\ older' = older /\ parked' = parked /\ announced' = announced
      /\ answers' = answers /\ ended' = ended /\ stop' = stop /\ pass' = pass /\ hand' = hand
      /\ listed' = listed /\ unoffered' = unoffered /\ crashes' = crashes
  BY <1>1, <1>2 DEF waits, journal, actors, history
<1>4. TypeOK /\ setting \in Scenarios
  BY InvParts DEF TypeOK
<1>5. /\ \A v : RunOf(v)' = RunOf(v) /\ (Answered(v)' <=> Answered(v)) /\ (Open(v)' <=> Open(v))
      /\ \A f : (Recorded(f)' <=> Recorded(f)) /\ (Stored(f)' <=> Stored(f))
      /\ \A s : WaitsOf(s)' = WaitsOf(s) /\ (resume_is_closed(s)' <=> resume_is_closed(s))
      /\ Planned' = Planned /\ Plan' = Plan /\ setting'.to = setting.to
  BY <1>3, SettingStays, AnswersStay, EndsStay, RowsStayStored
<1>6. \A f : f \in live <=> Stored(f) /\ owner[f] = None /\ f \notin dead
  BY InvParts DEF LiveIsUnclaimed, Stored
<1>7. TypeOK'
  <2>1. RegistrationOrder' /\ IsInjective(stored)' /\ stop' \subseteq setting'.stoppable
    BY <1>3, <1>4 DEF TypeOK, RegistrationOrder
  <2>2. live' \subseteq Event /\ dead' \subseteq Event
    BY <1>3, <1>4 DEF TypeOK
  <2> QED
    BY <1>3, <1>4, <2>1, <2>2 DEF TypeOK
<1>8. WaitsArePlanned' /\ PassesAreSound'
  BY <1>3, <1>5, InvParts DEF WaitsArePlanned, PassesAreSound
<1>9. RowsAreSound'
  BY <1>3, <1>5, <1>6, InvParts DEF RowsAreSound
<1>10. ClaimsAreApart' /\ AnswersAreClaims' /\ ListedAreKept' /\ AnsweredAreParked'
  BY <1>3, <1>5, InvParts DEF ClaimsAreApart, AnswersAreClaims, ListedAreKept, AnsweredAreParked
<1>11. InOrder' /\ AnsweredOnce' /\ UnreadIsKept' /\ ClaimIsFindable' /\ AddressedStays'
  BY <1>3, <1>5, InvParts DEF InOrder, AnsweredOnce, UnreadIsKept, ClaimIsFindable, AddressedStays
<1>12. FlightsAreClaims'
  <2>1. NoNewFlight
    BY <1>3 DEF NoNewFlight, InFlight
  <2> QED
    BY <1>3, <1>5, <2>1, InvParts, FlightsKept
<1>13. LiveIsUnclaimed'
  <2>1. \A f : f \in live' <=> Stored(f)' /\ owner'[f] = None /\ f \notin dead'
    BY <1>3, <1>5, <1>6
  <2> QED
    BY <2>1 DEF LiveIsUnclaimed, Stored
<1>14. NobodyPassedBy'
  <2>1. \A v, f : AboutToLook(v, f) => AboutToLook(v, f)'
    BY <1>3, <1>5 DEF AboutToLook
  <2> QED
    BY <1>3, <1>5, <2>1, InvParts DEF NobodyPassedBy, Agree
<1> QED
  BY <1>7, <1>8, <1>9, <1>10, <1>11, <1>12, <1>13, <1>14 DEF InboxInv, NothingIsLost

\* Once a row is erased, what it answered and what it was to answer still holds.
LEMMA EraseStep ==
    ASSUME InboxInv, setting' = setting, NEW e \in Event, erase_payload(e)
    PROVE  InboxInv'
<1>1. /\ Stored(e) /\ payload' = payload \ {e} /\ erased' = erased \cup {e}
      /\ held' = [held EXCEPT ![e] = None] /\ parked' \subseteq parked
      /\ stored' = stored /\ targeted' = targeted /\ shedFor' = shedFor
      /\ subs' = subs /\ older' = older /\ announced' = announced
      /\ answers' = answers /\ ended' = ended /\ stop' = stop /\ pass' = pass /\ hand' = hand
      /\ listed' = listed /\ unoffered' = unoffered /\ crashes' = crashes
  BY DEF erase_payload, journal, actors, history
<1>2. TypeOK /\ setting \in Scenarios
  BY InvParts DEF TypeOK
<1>3. /\ held' \in [Event -> Wait \cup {None}] /\ owner' \in [Event -> Run \cup {None}]
      /\ held'[e] = None /\ \A f \in Event : f # e => held'[f] = held[f] /\ owner'[f] = owner[f]
      /\ \/ /\ held[e] # None \/ (owner[e] = None /\ e \notin dead)
            /\ dead' = dead \cup {e} /\ owner'[e] = None /\ live' = live \ {e}
         \/ /\ held[e] = None /\ (owner[e] # None \/ e \in dead)
            /\ dead' = dead /\ owner' = owner /\ live' = live
  <2>1. /\ held' \in [Event -> Wait \cup {None}] /\ held'[e] = None
        /\ \A f \in Event : f # e => held'[f] = held[f]
    BY <1>1, <1>2 DEF TypeOK
  <2>2. CASE held[e] # None \/ (owner[e] = None /\ e \notin dead)
    <3>1. dead' = dead \cup {e} /\ owner' = [owner EXCEPT ![e] = None] /\ live' = live \ {e}
      BY <2>2 DEF erase_payload
    <3> QED
      BY <1>2, <2>1, <2>2, <3>1 DEF TypeOK
  <2>3. CASE held[e] = None /\ (owner[e] # None \/ e \in dead)
    <3>1. dead' = dead /\ owner' = owner /\ live' = live
      BY <2>3 DEF erase_payload
    <3> QED
      BY <1>2, <2>1, <2>3, <3>1 DEF TypeOK
  <2> QED
    BY <2>2, <2>3
<1>4. /\ \A v : RunOf(v)' = RunOf(v) /\ (Answered(v)' <=> Answered(v)) /\ (Open(v)' <=> Open(v))
      /\ \A f : (Recorded(f)' <=> Recorded(f)) /\ (Stored(f)' <=> Stored(f))
      /\ \A s : WaitsOf(s)' = WaitsOf(s) /\ (resume_is_closed(s)' <=> resume_is_closed(s))
      /\ Planned' = Planned /\ Plan' = Plan /\ setting'.to = setting.to
  BY <1>1, SettingStays, AnswersStay, EndsStay, RowsStayStored
<1>5. TypeOK'
  <2>1. RegistrationOrder' /\ IsInjective(stored)' /\ stop' \subseteq setting'.stoppable
    BY <1>1, <1>2 DEF TypeOK, RegistrationOrder
  <2>2. live' \subseteq Event /\ dead' \subseteq Event /\ payload' \subseteq Event
        /\ erased' \subseteq Event /\ parked' \subseteq Wait
    BY <1>1, <1>2, <1>3 DEF TypeOK
  <2> QED
    BY <1>1, <1>2, <1>3, <2>1, <2>2 DEF TypeOK
<1>6. WaitsArePlanned'
  <2>1. \A f \in Event : held'[f] \in announced \cup {None}
    BY <1>3, InvParts DEF WaitsArePlanned
  <2> QED
    BY <1>1, <1>4, <2>1, InvParts DEF WaitsArePlanned
<1>7. PassesAreSound'
  BY <1>1, <1>4, InvParts DEF PassesAreSound
<1>8. RowsAreSound'
  <2> SUFFICES ASSUME NEW f \in Event
               PROVE  (/\ ~Stored(f) => owner[f] = None /\ shedFor[f] = None /\ f \notin dead \cup targeted \cup erased
                       /\ f \in dead => owner[f] = None
                       /\ held[f] # None => owner[f] = RunOf(held[f])
                       /\ f \in erased => held[f] = None /\ (owner[f] # None \/ f \in dead)
                       /\ f \in targeted =>
                            /\ owner[f] = None => f \in dead
                            /\ owner[f] # None => owner[f] = setting.to[f])'
    BY DEF RowsAreSound
  <2>1. /\ ~Stored(f) => owner[f] = None /\ shedFor[f] = None /\ f \notin dead \cup targeted \cup erased
        /\ f \in dead => owner[f] = None
        /\ held[f] # None => owner[f] = RunOf(held[f])
        /\ f \in erased => held[f] = None /\ (owner[f] # None \/ f \in dead)
        /\ f \in targeted =>
            /\ owner[f] = None => f \in dead
            /\ owner[f] # None => owner[f] = setting.to[f]
    BY InvParts DEF RowsAreSound
  <2>2. CASE f = e
    BY <1>1, <1>3, <1>4, <2>1, <2>2
  <2>3. CASE f # e
    <3>1. /\ owner'[f] = owner[f] /\ held'[f] = held[f] /\ (f \in dead' <=> f \in dead)
          /\ (f \in erased' <=> f \in erased) /\ RunOf(held[f])' = RunOf(held[f])
      BY <1>1, <1>3, <1>4, <2>3 DEF RunOf
    <3> QED
      BY <1>1, <1>4, <2>1, <3>1
  <2> QED
    BY <2>2, <2>3
<1>9. ClaimsAreApart' /\ AnsweredAreParked' /\ ClaimIsFindable' /\ NobodyPassedBy'
  BY <1>1 DEF ClaimsAreApart, AnsweredAreParked, ClaimIsFindable, NobodyPassedBy
<1>10. AnswersAreClaims'
  <2> SUFFICES ASSUME NEW w \in Wait, NEW f \in Range(answers[w])
               PROVE  /\ w \in Planned /\ Stored(f)
                      /\ f \in dead' \/ (owner'[f] = RunOf(w) /\ held'[f] \in {w, None})
    BY <1>1, <1>4 DEF AnswersAreClaims
  <2>1. /\ w \in Planned /\ Stored(f) /\ f \in Event
        /\ f \in dead \/ (owner[f] = RunOf(w) /\ held[f] \in {w, None})
    BY <1>2, InvParts DEF AnswersAreClaims, TypeOK, Stored, Range
  <2> QED
    BY <1>3, <2>1
<1>11. ListedAreKept' /\ InOrder' /\ AnsweredOnce' /\ UnreadIsKept' /\ AddressedStays'
  BY <1>1, <1>4, InvParts DEF ListedAreKept, InOrder, AnsweredOnce, UnreadIsKept, AddressedStays
<1>12. FlightsAreClaims'
  <2>1. NoNewFlight
    BY <1>1 DEF NoNewFlight, InFlight
  <2>2. \A v \in Planned, f \in Event :
            Open(v)' /\ held[f] = v => held'[f] = v \/ f \in dead' \cap erased'
    <3> SUFFICES ASSUME NEW v \in Planned, held[e] = v PROVE e \in dead' \cap erased'
      BY <1>3
    <3>1. held[e] # None
      BY <1>2, PlannedFacts, ScenariosAssumption
    <3> QED
      BY <1>1, <1>3, <3>1
  <2>3. dead \subseteq dead' /\ erased \subseteq erased'
    BY <1>1, <1>3
  <2> QED
    BY <1>1, <1>4, <2>1, <2>2, <2>3, InvParts, FlightsKept
<1>13. LiveIsUnclaimed'
  <2>1. \A f : f \in live <=> Stored(f) /\ owner[f] = None /\ f \notin dead
    BY InvParts DEF LiveIsUnclaimed, Stored
  <2>2. \A f : Stored(f) => f \in Event
    BY <1>2 DEF TypeOK, Stored, Range
  <2>3. \A f : f \in live' <=> Stored(f)' /\ owner'[f] = None /\ f \notin dead'
    BY <1>1, <1>3, <1>4, <2>1, <2>2
  <2> QED
    BY <2>3 DEF LiveIsUnclaimed, Stored
<1> QED
  BY <1>5, <1>6, <1>7, <1>8, <1>9, <1>10, <1>11, <1>12, <1>13 DEF InboxInv, NothingIsLost
LEMMA InitInv ==
    Init => InboxInv
<1> SUFFICES ASSUME Init PROVE InboxInv
  OBVIOUS
<1>1. /\ setting \in Scenarios /\ stored = <<>> /\ live = {} /\ dead = {} /\ payload = {}
      /\ targeted = {} /\ erased = {}
      /\ owner = [e \in Event |-> None] /\ held = [e \in Event |-> None]
      /\ shedFor = [e \in Event |-> None]
      /\ subs = {} /\ older = {} /\ parked = {} /\ announced = {}
      /\ answers = [w \in Wait |-> <<>>] /\ ended = [r \in Run |-> "no"] /\ stop = {}
      /\ hand = [h \in Deliverer |-> Idle] /\ listed = {} /\ unoffered = {} /\ crashes = 0
      /\ pass = [r \in Run |-> [NoPass EXCEPT !.pc = IF Plan[r] = <<>> THEN "none" ELSE "step"]]
  BY DEF Init
<1>2. \A r \in Run : /\ pass[r].pc \in {"none", "step"} /\ pass[r].wait = None
                     /\ pass[r].event = None /\ pass[r].seen = {} /\ pass[r].released = {}
  BY <1>1 DEF NoPass
<1>3. \A h \in Deliverer : hand[h].pc = "idle"
  BY <1>1 DEF Idle
<1>4. /\ \A e : ~Stored(e)
      /\ \A w \in Wait : ~Answered(w) /\ Range(answers[w]) = {} /\ Len(answers[w]) = 0
  BY <1>1 DEF Stored, Answered, Range
<1>5. TypeOK
  <2>1. stored \in Seq(Event) /\ IsInjective(stored)
    BY <1>1 DEF IsInjective
  <2>2. pass \in [Run -> [pc : PassPoints, wait : Wait \cup {None}, event : Event \cup {None},
                          seen : SUBSET Wait, released : SUBSET Event]]
    BY <1>1 DEF NoPass, PassPoints
  <2>3. hand \in [Deliverer -> [pc : {"idle", "offer", "wake"}, wait : Wait \cup {None},
                               event : Event \cup {None}]]
    BY <1>1 DEF Idle
  <2>4. answers \in [Wait -> Seq(Event)] /\ ended \in [Run -> {"no", "concluded", "sealed"}]
    BY <1>1
  <2>5. crashes \in 0..MaxCrashes
    BY <1>1, ScenariosAssumption
  <2>6. RegistrationOrder
    BY <1>1 DEF RegistrationOrder
  <2> QED
    BY <1>1, <2>1, <2>2, <2>3, <2>4, <2>5, <2>6 DEF TypeOK
<1>6. WaitsArePlanned
  BY <1>1, <1>2, <1>3 DEF WaitsArePlanned
<1>7. PassesAreSound
  BY <1>1, <1>2 DEF PassesAreSound
<1>8. RowsAreSound /\ ClaimsAreApart /\ ListedAreKept /\ AnsweredAreParked
  BY <1>1 DEF RowsAreSound, ClaimsAreApart, ListedAreKept, AnsweredAreParked
<1>9. AnswersAreClaims /\ AnsweredOnce /\ AddressedStays
  <2>1. AnswersAreClaims /\ AddressedStays
    BY <1>4 DEF AnswersAreClaims, AddressedStays
  <2>2. AnsweredOnce
    BY <1>4 DEF AnsweredOnce
  <2> QED
    BY <2>1, <2>2
<1>10. FlightsAreClaims
  <2>1. \A w, e : ~InFlight(w, e)
    BY <1>2, <1>3 DEF InFlight
  <2> QED
    BY <2>1, Zenon DEF FlightsAreClaims
<1>11. InOrder
  BY <1>1 DEF InOrder
<1>12. UnreadIsKept /\ ClaimIsFindable /\ LiveIsUnclaimed /\ NobodyPassedBy
  BY <1>1, <1>4 DEF UnreadIsKept, ClaimIsFindable, LiveIsUnclaimed, NobodyPassedBy, Stored
<1> QED
  BY <1>5, <1>6, <1>7, <1>8, <1>9, <1>10, <1>11, <1>12 DEF InboxInv, NothingIsLost

LEMMA PassStepKeeps ==
    ASSUME InboxInv, setting' = setting, NEW r \in Run, PassStep(r) \/ recover_abandoned(r)
    PROVE  InboxInv'
<1>1. CASE record_delivery(r)
  BY <1>1, RecordStep
<1>2. CASE retire_delivered(r) \/ unsubscribe_answered(r)
  BY <1>2, UnsubscribeStep
<1>3. CASE conclude(r)
  BY <1>3, ConcludeStep
<1>4. CASE announce(r)
  BY <1>4, AnnounceStep
<1>5. CASE subscribe(r)
  BY <1>5, SubscribeStep
<1>6. CASE claim_for(r)
  BY <1>6, ClaimForFound, ClaimForNone
<1>7. CASE append_answer(r)
  BY <1>7, AppendStep
<1>8. CASE suspend(r)
  BY <1>8, SuspendStep
<1>9. CASE seal(r)
  BY <1>9, SealStep
<1>10. CASE retire_waits(r)
  BY <1>10, RetireWaitsStep
<1>11. CASE release_lease(r)
  BY <1>11, ReleaseStep
<1>12. CASE offer_released(r)
  BY <1>12, OfferStep
<1>13. CASE recover_abandoned(r)
  BY <1>13, RecoverStep
<1> QED
  BY <1>1, <1>2, <1>3, <1>4, <1>5, <1>6, <1>7, <1>8, <1>9, <1>10, <1>11, <1>12, <1>13 DEF PassStep

LEMMA NextStep ==
    InboxInv /\ [Next]_vars => InboxInv'
<1> SUFFICES ASSUME InboxInv, [Next]_vars PROVE InboxInv'
  OBVIOUS
<1>1. CASE UNCHANGED vars
  <2>1. StoreStays /\ UNCHANGED <<hand, pass, stop, history>>
    BY <1>1 DEF vars, state, StoreStays, journal, actors
  <2>2. subs' = subs /\ setting' = setting /\ stored' = stored /\ answers' = answers /\ ended' = ended
    BY <2>1 DEF StoreStays, rows, waits
  <2>3. /\ TypeOK /\ NoNewFlight
        /\ \A v : RunOf(v)' = RunOf(v)
        /\ \A v, f : AboutToLook(v, f) => AboutToLook(v, f)'
    BY <2>1, <2>2, InvParts, SettingStays DEF NoNewFlight, InFlight, AboutToLook
  <2>4. TypeOK'
    BY <2>1, <2>3, TypeKept DEF TypeOK, history
  <2>5. WaitsArePlanned'
    BY <2>1, PlannedKept
  <2>6. PassesAreSound'
    BY <2>1, <2>2, InvParts DEF PassesAreSound, Answered
  <2>7. NobodyPassedBy'
    BY <2>1, <2>3, LookKept DEF history
  <2> QED
    BY <2>1, <2>3, <2>4, <2>5, <2>6, <2>7, ControlStep
<1>2. CASE Next
  <2>1. setting' = setting /\ setting \in Scenarios
    BY <1>2, InvParts DEF Next, TypeOK
  <2>2. CASE \E r \in Run : PassStep(r) \/ recover_abandoned(r)
    BY <2>1, <2>2, PassStepKeeps
  <2>3. CASE \E h \in Deliverer : HandStep(h)
    BY <2>1, <2>3, MatchStep, AcquireStep, ParkStep DEF HandStep
  <2>4. CASE parked_waits
    BY <2>1, <2>4, ParkedWaitsStep
  <2>5. CASE redeliver_claimed
    BY <2>1, <2>5, RedeliverStep
  <2>6. CASE Outside
    <3>1. \A h : h \in setting.handlers \/ h \in Handler \cup {Sweeper} => h \in Deliverer
      BY <2>1, ScenarioShape DEF Deliverer
    <3>2. CASE \E h \in setting.handlers, e \in Event : deliver(h, e)
      BY <2>1, <3>1, <3>2, DeliverStep
    <3>3. CASE \E h \in setting.handlers, e \in Event : \E r \in Run : deliver_to(h, r, e)
      BY <2>1, <3>1, <3>3, DeliverToStep
    <3>4. CASE \E r \in Run : request_cancel(r)
      BY <2>1, <3>4, CancelStep
    <3>5. CASE \E r \in Run : crash_owner(r)
      BY <2>1, <3>5, CrashOwnerStep
    <3>6. CASE \E e \in Event : erase_payload(e)
      BY <2>1, <3>6, EraseStep
    <3>7. CASE \E h \in Handler \cup {Sweeper} : crash_delivery(h)
      BY <2>1, <3>1, <3>7, CrashDeliveryStep
    <3>8. CASE sweep_unclaimed
      BY <2>1, <3>8, SweepStep
    <3> QED
      BY <2>6, <3>2, <3>3, <3>4, <3>5, <3>6, <3>7, <3>8 DEF Outside
  <2> QED
    BY <1>2, <2>2, <2>3, <2>4, <2>5, <2>6 DEF Next
<1> QED
  BY <1>1, <1>2

\* Whatever deliveries, the sweep, the runs' passes, operators, erasures and
\* deaths interleave, what each of them has established still holds when the
\* next store call reads it.
THEOREM InboxIsSound == Spec => []InboxInv
<1>1. InboxInv /\ [Next]_vars => InboxInv'
  BY NextStep
<1> QED
  BY InitInv, <1>1, PTL DEF Spec

\* One message answers a wait, a message answers one wait, and a wait holds one
\* undelivered message at a time (claim_for, match_waiter, resume_subscription
\* and wait_on), for any number of runs, deliveries and deaths.
THEOREM OneAnswerPerWait == Spec => []OneAnswerEach
<1>1. InboxInv => OneAnswerEach
  BY InvParts DEF OneAnswerEach, OneClaimPerWait, NoSecondClaim, ClaimsAreApart
<1> QED
  BY InboxIsSound, <1>1, PTL

\* No message an open wait could have is shed unread, hidden from the
\* redelivery pass or the sweep, answered to a run it was not addressed to, or
\* passed by between buffering and registration, for any number of runs,
\* deliveries and deaths.
THEOREM MessagesAreKept == Spec => []NothingIsLost
<1>1. InboxInv => NothingIsLost
  BY DEF InboxInv
<1> QED
  BY InboxIsSound, <1>1, PTL

=============================================================================
