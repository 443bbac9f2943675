------------------------------- MODULE Quota -------------------------------
(***************************************************************************)
(* The tenant's quota ledger (src/store/redb_quota.rs) and the passes that *)
(* take from it and pay into it (src/runtime/executor.rs).                 *)
(*                                                                         *)
(* Admission takes a concurrency slot and holds the run's worst case       *)
(* against the period, in one transaction, under a lease it took first.    *)
(* Every pass marks itself in the journal with its first record, settles   *)
(* what it spent under a receipt keyed by its epoch before it seals or     *)
(* hands the lease back, and a run whose owner died is settled from its    *)
(* records by whoever resumes it.  The ledger's transactions are fenced by *)
(* nothing: what keeps them straight is the order of the store calls.      *)
(*                                                                         *)
(* The journal is kept to the records the ledger reads.  A run's own       *)
(* worker admits and resumes it, Sweep is the recovery sweep of an         *)
(* instance with the ledger, Bare is an instance with no quota store.      *)
(***************************************************************************)
EXTENDS Naturals, Sequences, FiniteSets, FiniteSetsExt, SequencesExt

CONSTANTS
    Runs,        \* the runs one tenant asks to admit
    Sweep,       \* the worker that runs the recovery sweep
    Bare,        \* a worker of an instance built without a quota store
    Settings,    \* how the tenant is bounded and what may go wrong
    LastPeriod,  \* periods are 1 .. LastPeriod
    MaxEpoch,    \* bound on the claims of a run that has no journal
    MaxStuck     \* and of one its own accounting stopped

Workers == Runs \cup {Sweep, Bare}
Periods == 1 .. LastPeriod
NoPeriod == 0
NoRun == "none"

ASSUME QuotaConstants ==
    /\ Sweep \notin Runs /\ Bare \notin Runs /\ Sweep # Bare
    /\ LastPeriod \in Nat \ {0} /\ MaxEpoch \in Nat /\ MaxStuck \in Nat
    /\ \A s \in Settings :
          /\ s.bounds \in BOOLEAN     \* TenantQuota::bounds_spend
          /\ s.limit \in Nat          \* max_tokens_per_period
          /\ s.slots \in Nat          \* max_concurrent_runs
          /\ s.bare \in BOOLEAN       \* whether Bare takes part
          /\ s.failing \subseteq {"register", "lost", "settle", "release"}
          /\ s.ceiling \in Nat        \* Budget::max_tokens of every run
          /\ s.call \in Nat \ {0}     \* Budget::max_call_tokens
          /\ s.runs \subseteq Runs     \* who asks to be admitted
          /\ s.periods \in Periods     \* the last period the clock reaches
          /\ s.resumes \in Nat         \* bound on the resumes asked for
          /\ s.mishaps \in Nat         \* bound on crashes, stalls and faults

VARIABLES
    setting,   \* which tenant this is
    now,       \* the period the clock is in
    journal,   \* journal[r]: the records the ledger reads, in order
    sealed,    \* the runs whose chain is sealed
    lease,     \* lease[r]: the epoch and whether it is held
    slots,     \* RUNNING: the runs holding a concurrency slot
    hold,      \* RESERVED[r]: the period and amount still held
    spent,     \* SPENT[p]: what period p has been billed
    receipts,  \* SETTLED: one receipt for each settled pass
    worker,    \* worker[w]: what each worker has in memory
    resumes,   \* resumes and abandonments asked for
    mishaps,   \* workers that died, leases that lapsed early, calls that failed
    \* History, read by no guard.
    mismatch,  \* <<run, epoch>> of passes settled again with another payload
    ahead,     \* and of passes settled by a reader older than they are
    carriedTo, \* periods a hold was carried into
    unheld,    \* runs with records whose admission gave their hold back
    lostSpend, \* runs with an operation whose cost reached no record
    cleared,   \* runs the sweep reported recovered over an empty journal
    leaked     \* runs that reserved without a lease, or whose release failed

ledger == <<slots, hold, spent, receipts, mismatch>>
history == <<ahead, carriedTo, unheld, lostSpend, cleared, leaked>>
bounds == <<resumes, mishaps>>
state == <<now, journal, sealed, lease, ledger, worker, bounds, history>>
vars == <<setting, state>>

-----------------------------------------------------------------------------
(* Records.                                                                *)

Marker(e, p, slot) == [kind |-> "marker", epoch |-> e, period |-> p,
                       slot |-> slot, spend |-> 0, outcome |-> "none"]
Record(kind, e, spend, outcome) ==
    [kind |-> kind, epoch |-> e, period |-> NoPeriod, slot |-> FALSE,
     spend |-> spend, outcome |-> outcome]

Seals(outcome) == outcome \in {"succeeded", "abandoned"}
IsConclusion(rec) == rec.kind = "concluded"
IsSealingConclusion(rec) == IsConclusion(rec) /\ Seals(rec.outcome)

Sum(recs) == FoldSeq(LAMBDA rec, total : rec.spend + total, 0, recs)
InEpoch(recs, e) == SelectSeq(recs, LAMBDA rec : rec.epoch = e)

ConcludedIn(recs, e) ==
    \E i \in DOMAIN recs : recs[i].epoch = e /\ IsSealingConclusion(recs[i])

SpendRecordedInEpoch(recs, e) ==
    Sum(SelectSeq(InEpoch(recs, e), LAMBDA rec : rec.kind = "effect"))

(* What recovery bills a pass: the total its conclusion carries when that  *)
(* is the epoch's last record, the effects on record otherwise.            *)
RecordedSpend(recs, e) ==
    LET last == Last(InEpoch(recs, e))
    IN  IF IsConclusion(last) THEN last.spend ELSE SpendRecordedInEpoch(recs, e)

NextMarker(recs, i) ==
    LET later == {j \in i .. Len(recs) : recs[j].kind = "marker"}
    IN  IF later = {} THEN 0 ELSE Min(later)

-----------------------------------------------------------------------------
(* The ledger's transactions.                                              *)

Held(p) == MapThenSumSet(LAMBDA r : hold[r].amount,
                         {r \in Runs : hold[r].period = p})
NoHold == [period |-> NoPeriod, amount |-> 0]

(* A run's worst case: its ceiling and one operation past it for the one   *)
(* step its plan has in flight.                                            *)
Width == 1
Reservation == setting.ceiling + Width * setting.call

(* The period a pass starting now belongs to.  QuotaPass::at.              *)
PassPeriod == IF setting.bounds THEN now ELSE NoPeriod

\* Defect: what other runs hold is not counted.
CheckSpendSettled(p) == spent[p] + Reservation <= setting.limit

CheckSpend(p) == spent[p] + Held(p) + Reservation <= setting.limit

SlotFree(r) == r \in slots \/ Cardinality(slots) < setting.slots
SpendFits(r) ==
    ~setting.bounds \/ hold[r].period # NoPeriod \/ CheckSpend(now)

Reserve(r) ==
    /\ SlotFree(r) /\ SpendFits(r)
    /\ slots' = slots \cup {r}
    /\ hold' = IF setting.bounds /\ hold[r].period = NoPeriod
               THEN [hold EXCEPT ![r] = [period |-> now, amount |-> Reservation]]
               ELSE hold
    /\ UNCHANGED <<spent, receipts, mismatch>>

Release(r) ==
    /\ slots' = slots \ {r}
    /\ hold' = [hold EXCEPT ![r] = NoHold]
    /\ UNCHANGED <<spent, receipts, mismatch>>

Monus(a, b) == IF a > b THEN a - b ELSE 0

(* The receipt of a pass, and whether an earlier one disagrees with it.    *)
Receipt(r, e, p, spend, slot, concludes) ==
    [run |-> r, epoch |-> e, period |-> p, spend |-> spend, slot |-> slot,
     concludes |-> concludes]

\* Defect: no receipt is looked for.
NeverEarlier(rc) == {}

Earlier(rc) == {old \in receipts : old.run = rc.run /\ old.epoch = rc.epoch}
Disagrees(rc) == Earlier(rc) \notin {{}, {rc}}

(* A sealing pass gives back what the run still held, any other only what  *)
(* it spent.                                                               *)
SettledHold(rc) ==
    [hold EXCEPT ![rc.run] =
        IF rc.concludes \/ @.period = NoPeriod THEN NoHold
        ELSE [@ EXCEPT !.amount = Monus(@, rc.spend)]]

(* The admitting pass holds the slot, and gives it back however it ends.   *)
SettledSlots(rc) == IF rc.slot THEN slots \ {rc.run} ELSE slots

Settle(rc) ==
    IF Earlier(rc) # {}
    THEN /\ mismatch' = IF Disagrees(rc) THEN mismatch \cup {<<rc.run, rc.epoch>>} ELSE mismatch
         /\ UNCHANGED <<slots, hold, spent, receipts>>
    ELSE /\ receipts' = receipts \cup {rc}
         /\ spent' = IF rc.period = NoPeriod THEN spent
                     ELSE [spent EXCEPT ![rc.period] = @ + rc.spend]
         /\ hold' = SettledHold(rc)
         /\ slots' = SettledSlots(rc)
         /\ UNCHANGED mismatch

-----------------------------------------------------------------------------
(* Workers.                                                                *)

Idle == [at |-> "idle", run |-> NoRun, epoch |-> 0, claim |-> "none",
         enabled |-> FALSE, period |-> NoPeriod, slot |-> FALSE,
         marked |-> FALSE, live |-> 0, consumed |-> 0, lost |-> FALSE,
         outcome |-> "none", seen |-> 0, next |-> 0]

Steps == {"idle", "reserve", "admit", "register", "release", "unlease", "run",
          "conclude", "settle", "seal", "replay", "recorded", "enter", "empty"}

Init ==
    /\ setting \in Settings
    /\ now = 1
    /\ journal = [r \in Runs |-> <<>>]
    /\ sealed = {}
    /\ lease = [r \in Runs |-> [epoch |-> 0, at |-> "none"]]
    /\ slots = {} /\ receipts = {} /\ mismatch = {}
    /\ hold = [r \in Runs |-> NoHold]
    /\ spent = [p \in Periods |-> 0]
    /\ worker = [w \in Workers |-> Idle]
    /\ resumes = 0
    /\ mishaps = 0
    /\ ahead = {} /\ carriedTo = {} /\ unheld = {} /\ lostSpend = {}
    /\ cleared = {} /\ leaked = {}

Hand(w, mem) == worker' = [worker EXCEPT ![w] = mem]
At(w, step) == [worker[w] EXCEPT !.at = step]

Mishap ==
    /\ mishaps < setting.mishaps
    /\ mishaps' = mishaps + 1
    /\ UNCHANGED resumes

(* A store call that is made to fail.                                      *)
Fault(kind) == kind \in setting.failing /\ Mishap

Holds(w) == lease[worker[w].run].epoch = worker[w].epoch
Claimable(r) == lease[r].at \in {"none", "released", "lapsed"}
Acquire(r) == lease' = [lease EXCEPT ![r] = [epoch |-> @.epoch + 1, at |-> "owned"]]

(* An append is refused once a later epoch was handed out.                 *)
AppendUnder(w, recs) ==
    /\ Holds(w)
    /\ journal' = [journal EXCEPT ![worker[w].run] = @ \o recs]

(* What a pass writes: its marker rides the first batch.  PassJournal.     *)
PassMarker(w) ==
    IF worker[w].marked THEN <<>>
    ELSE <<Marker(worker[w].epoch, worker[w].period, worker[w].slot)>>
Write(w, rec) == AppendUnder(w, Append(PassMarker(w), rec))

(* A fenced writer's error leaves the pass; its lease is another's.        *)
Fenced(w) ==
    /\ ~Holds(w) /\ Hand(w, Idle)
    /\ UNCHANGED <<setting, now, journal, sealed, lease, ledger, bounds, history>>

-----------------------------------------------------------------------------
(* Admission: the lease, then the reservation, then the records.           *)

Admit(r) ==
    /\ r \in setting.runs /\ worker[r].at = "idle" /\ lease[r].at = "none"
    /\ Acquire(r)
    /\ Hand(r, [Idle EXCEPT !.at = "reserve", !.run = r, !.epoch = 1,
                            !.claim = "admission"])
    /\ UNCHANGED <<setting, now, journal, sealed, ledger, bounds, history>>

(* Refused at a ceiling, or before it by a standing halt, an unbounded     *)
(* budget or an unreachable ledger; only the lease is given back.          *)
CheckQuota(w) ==
    /\ worker[w].at = "reserve"
    /\ \/ /\ Reserve(worker[w].run)
          /\ Hand(w, [At(w, "admit") EXCEPT !.enabled = TRUE, !.slot = TRUE,
                                            !.period = PassPeriod])
          /\ leaked' = IF Holds(w) THEN leaked ELSE leaked \cup {worker[w].run}
       \/ Hand(w, At(w, "unlease")) /\ UNCHANGED <<ledger, leaked>>
    /\ UNCHANGED <<setting, now, journal, sealed, lease, bounds, ahead, carriedTo,
                   unheld, lostSpend, cleared>>

(* The admission batch carries the marker.  It is refused when the lease   *)
(* was taken meanwhile or the admission key is held by another run.        *)
AdmitUnderLease(w) ==
    /\ worker[w].at = "admit"
    /\ \/ /\ Write(w, Record("admitted", worker[w].epoch, 0, "none"))
          /\ Hand(w, [At(w, "register") EXCEPT !.marked = TRUE])
       \/ Hand(w, At(w, "release")) /\ UNCHANGED journal
    /\ UNCHANGED <<setting, now, sealed, lease, ledger, bounds, history>>

(* Registered with its case and its destinations, or concluded as failed.  *)
Register(w) ==
    LET failed == Record("concluded", worker[w].epoch, 0, "failed") IN
    /\ worker[w].at = "register"
    /\ \/ Hand(w, At(w, "run")) /\ UNCHANGED <<journal, bounds>>
       \/ /\ Fault("register")
          /\ Hand(w, At(w, "release"))
          /\ IF Holds(w) THEN AppendUnder(w, <<failed>>) ELSE UNCHANGED journal
    /\ UNCHANGED <<setting, now, sealed, lease, ledger, history>>

(* A failed admission gives back what it reserved; a failure to is logged. *)
ReleaseAdmission(w) ==
    /\ worker[w].at = "release"
    /\ \/ /\ Release(worker[w].run) /\ UNCHANGED bounds
          /\ unheld' = IF journal[worker[w].run] = <<>> THEN unheld
                       ELSE unheld \cup {worker[w].run}
          /\ UNCHANGED leaked
       \/ /\ Fault("release") /\ UNCHANGED <<ledger, unheld>>
          /\ leaked' = leaked \cup {worker[w].run}
    /\ Hand(w, At(w, "unlease"))
    /\ UNCHANGED <<setting, now, journal, sealed, lease, ahead, carriedTo, lostSpend, cleared>>

ReleaseLease(w) ==
    LET r == worker[w].run IN
    /\ worker[w].at = "unlease"
    /\ lease' = IF Holds(w) THEN [lease EXCEPT ![r].at = "released"] ELSE lease
    /\ Hand(w, Idle)
    /\ UNCHANGED <<setting, now, journal, sealed, ledger, bounds, history>>

-----------------------------------------------------------------------------
(* A pass.  An operation is admitted while the run is under its ceiling    *)
(* and what it cost is known when it returns.                              *)

Dispatch(w) ==
    /\ worker[w].at = "run" /\ ~worker[w].lost /\ worker[w].consumed < setting.ceiling
    /\ \E cost \in 1 .. setting.call :
         LET billed == [worker[w] EXCEPT !.live = @ + cost, !.consumed = @ + cost]
         IN  \/ /\ Write(w, Record("effect", worker[w].epoch, cost, "none"))
                /\ Hand(w, [billed EXCEPT !.marked = TRUE])
                /\ UNCHANGED <<lostSpend, bounds>>
             \/ /\ ~Holds(w)
                /\ Hand(w, Idle)
                /\ lostSpend' = lostSpend \cup {worker[w].run}
                /\ UNCHANGED <<journal, bounds>>
             \/ /\ Fault("lost")
                /\ Hand(w, [billed EXCEPT !.lost = TRUE])
                /\ lostSpend' = lostSpend \cup {worker[w].run}
                /\ UNCHANGED journal
    /\ UNCHANGED <<setting, now, sealed, lease, ledger, ahead, carriedTo, unheld, cleared,
                   leaked>>

(* How the pass stops.  A step whose record was refused fails the run.     *)
Stop(w) ==
    /\ worker[w].at = "run"
    /\ \E outcome \in {"succeeded", "suspended", "failed"} :
         /\ worker[w].lost => outcome = "failed"
         /\ Hand(w, [At(w, "conclude") EXCEPT !.outcome = outcome])
    /\ UNCHANGED <<setting, now, journal, sealed, lease, ledger, bounds, history>>

(* A pass that did nothing new and stops as the record already says.       *)
Repeated(w) ==
    LET last == Last(journal[worker[w].run])
        outcome == worker[w].outcome
    IN  \/ outcome = "failed" /\ IsConclusion(last) /\ last.outcome = outcome
        \/ outcome = "suspended" /\ last.kind = "suspended"

(* The ending goes in the chain.  A conclusion that would be the pass's    *)
(* first record has its marker appended alone before it.                   *)
Conclude(w) ==
    LET mem == worker[w]
        ending == IF mem.outcome = "suspended"
                  THEN Record("suspended", mem.epoch, 0, "none")
                  ELSE Record("concluded", mem.epoch, mem.live, mem.outcome)
    IN  /\ mem.at = "conclude"
        /\ \/ /\ ~mem.marked /\ Repeated(w)
              /\ Hand(w, At(w, "settle")) /\ UNCHANGED journal
           \/ /\ ~mem.marked /\ ~Repeated(w) /\ mem.outcome # "suspended"
              /\ AppendUnder(w, PassMarker(w))
              /\ Hand(w, [mem EXCEPT !.marked = TRUE])
           \/ /\ mem.marked \/ (~Repeated(w) /\ mem.outcome = "suspended")
              /\ Write(w, ending)
              /\ Hand(w, [At(w, "settle") EXCEPT !.marked = TRUE])
        /\ UNCHANGED <<setting, now, sealed, lease, ledger, bounds, history>>

ConcludeFenced(w) == worker[w].at = "conclude" /\ Fenced(w)

AfterSettling(w) == Hand(w, At(w, IF Seals(worker[w].outcome) THEN "seal" ELSE "unlease"))

\* Defect: a pass that could not settle hands its lease back.
UnsettledReleases(w) == Hand(w, At(w, "unlease"))

(* An unsettled pass keeps its lease, so that it lapses and recovery       *)
(* settles what the pass could not.                                        *)
Unsettled(w) == Hand(w, Idle)

(* Settlement precedes the seal and the release of the lease.              *)
SettleQuota(w) ==
    LET mem == worker[w]
        rc == Receipt(mem.run, mem.epoch, mem.period, mem.live, mem.slot,
                      Seals(mem.outcome))
    IN  /\ mem.at = "settle"
        /\ \/ /\ mem.enabled /\ Settle(rc)
              /\ IF Disagrees(rc) THEN Unsettled(w) ELSE AfterSettling(w)
              /\ UNCHANGED bounds
           \/ /\ ~mem.enabled /\ w # Bare /\ Seals(mem.outcome)
              /\ Release(mem.run) /\ AfterSettling(w) /\ UNCHANGED bounds
           \/ /\ ~mem.enabled /\ (w = Bare \/ ~Seals(mem.outcome))
              /\ AfterSettling(w) /\ UNCHANGED <<ledger, bounds>>
           \/ /\ w # Bare /\ Fault("settle")
              /\ Unsettled(w) /\ UNCHANGED ledger
        /\ UNCHANGED <<setting, now, journal, sealed, lease, history>>

Seal(w) ==
    /\ worker[w].at = "seal"
    /\ \/ /\ Holds(w)
          /\ sealed' = sealed \cup {worker[w].run}
          /\ Hand(w, At(w, "unlease"))
       \/ ~Holds(w) /\ Hand(w, Idle) /\ UNCHANGED sealed
    /\ UNCHANGED <<setting, now, journal, lease, ledger, bounds, history>>

-----------------------------------------------------------------------------
(* Claims: a run is resumed by a wake or by somebody's request, abandoned, *)
(* or taken over by the sweep once its owner's lease has lapsed.           *)

Claim(w, r, claim) ==
    /\ worker[w].at = "idle" /\ Claimable(r) /\ Acquire(r)
    /\ Hand(w, [Idle EXCEPT !.at = "replay", !.run = r, !.claim = claim,
                            !.epoch = lease[r].epoch + 1])

Asked(w, r) ==
    /\ w \in {r, Bare} /\ (w = Bare => setting.bare)
    /\ journal[r] # <<>> /\ r \notin sealed /\ resumes < setting.resumes
    /\ resumes' = resumes + 1
    /\ UNCHANGED mishaps

Under(r, kind) ==
    journal' = [journal EXCEPT
        ![r] = Append(@, Record(kind, lease[r].epoch + 1, 0, "none"))]

(* The awaited answer is recorded under the lease the resume then uses.    *)
Wake(w, r) ==
    /\ Asked(w, r) /\ Last(journal[r]).kind = "suspended"
    /\ Claim(w, r, "unlisted") /\ Under(r, "woken")
    /\ UNCHANGED <<setting, now, sealed, ledger, history>>

Resume(w, r) ==
    /\ Asked(w, r) /\ Claim(w, r, "standing")
    /\ UNCHANGED <<setting, now, journal, sealed, ledger, history>>

(* The answer to a quarantined run, or to one whose payloads were erased.  *)
(* The decision is journaled before it is acted on.                        *)
Abandon(w, r) ==
    /\ Asked(w, r) /\ ~\E i \in DOMAIN journal[r] : IsSealingConclusion(journal[r][i])
    /\ Claim(w, r, "standing") /\ Under(r, "abandoning")
    /\ UNCHANGED <<setting, now, sealed, ledger, history>>

(* A pass of the run was settled two ways, which every later settlement    *)
(* meets again.                                                            *)
Stuck(r) == \E pass \in mismatch : pass[1] = r

RecoverAbandoned(r) ==
    /\ lease[r].at = "lapsed"
    /\ journal[r] = <<>> => lease[r].epoch < MaxEpoch
    /\ Stuck(r) => lease[r].epoch < MaxStuck
    /\ Claim(Sweep, r, "recovering")
    /\ UNCHANGED <<setting, now, journal, sealed, ledger, bounds, history>>

(* A sealed run that still holds a slot is settled without a lease.        *)
ReleaseSealedSlot(r) ==
    /\ worker[Sweep].at = "idle" /\ r \in slots \cap sealed
    /\ Hand(Sweep, [Idle EXCEPT !.at = "recorded", !.run = r, !.claim = "sealed",
                                !.seen = Len(journal[r]), !.next = 1])
    /\ UNCHANGED <<setting, now, journal, sealed, lease, ledger, bounds, history>>

-----------------------------------------------------------------------------
(* A resume settles every pass on record before it dispatches.             *)

ReadRecords(w) ==
    LET r == worker[w].run IN
    /\ worker[w].at = "replay"
    /\ Hand(w, IF journal[r] = <<>> THEN At(w, "empty")
               ELSE [At(w, "recorded") EXCEPT !.seen = Len(journal[r]), !.next = 1])
    /\ UNCHANGED <<setting, now, journal, sealed, lease, ledger, bounds, history>>

(* A resume refused before it dispatched gives its lease back only where   *)
(* the run is still listed; otherwise the lease lapses and lists it.       *)
Refused(w) == Hand(w, IF worker[w].claim = "standing" THEN At(w, "unlease") ELSE Idle)

Seen(w) == SubSeq(journal[worker[w].run], 1, worker[w].seen)

SettleRecorded(w) ==
    LET recs == Seen(w)
        i == NextMarker(recs, worker[w].next)
        e == recs[i].epoch
        rc == Receipt(worker[w].run, e, recs[i].period, RecordedSpend(recs, e),
                      recs[i].slot, ConcludedIn(recs, e))
    IN  /\ worker[w].at = "recorded" /\ w # Bare /\ i # 0
        /\ \/ /\ Settle(rc) /\ UNCHANGED bounds
              /\ Hand(w, IF Disagrees(rc) THEN Idle
                         ELSE [worker[w] EXCEPT !.next = i + 1])
              /\ ahead' = IF worker[w].claim # "sealed" /\ e > worker[w].epoch
                          THEN ahead \cup {<<rc.run, e>>} ELSE ahead
           \/ Fault("settle") /\ Hand(w, Idle) /\ UNCHANGED <<ledger, ahead>>
        /\ UNCHANGED <<setting, now, journal, sealed, lease, carriedTo, unheld, lostSpend,
                       cleared, leaked>>

(* Where a resume goes once the passes are settled: to finish an ending    *)
(* that is on record, to abandon as decided, or to execute.                *)
Onward(w) ==
    LET recs == Seen(w)
        closed == \E i \in DOMAIN recs : IsSealingConclusion(recs[i])
        decided == \E i \in DOMAIN recs : recs[i].kind = "abandoning"
    IN  CASE worker[w].claim = "sealed" -> Idle
          [] worker[w].claim # "sealed" /\ closed -> At(w, "seal")
          [] ~closed /\ worker[w].claim = "recovering" /\ IsConclusion(Last(recs))
                -> At(w, "unlease")
          [] ~closed /\ decided
             /\ ~(worker[w].claim = "recovering" /\ IsConclusion(Last(recs)))
                -> [At(w, "conclude") EXCEPT !.outcome = "abandoned", !.marked = TRUE]
          [] OTHER -> At(w, "enter")

(* An instance with no ledger refuses a run whose passes accrued spend.    *)
Accrued(recs) == \E i \in DOMAIN recs : recs[i].period # NoPeriod

RefuseUnsettled(w) ==
    /\ worker[w].at = "recorded" /\ w = Bare /\ Accrued(Seen(w))
    /\ Refused(w)
    /\ UNCHANGED <<setting, now, journal, sealed, lease, ledger, bounds, history>>

SettledRecorded(w) ==
    LET recs == Seen(w)
        closed == \E i \in DOMAIN recs : IsSealingConclusion(recs[i])
    IN  /\ worker[w].at = "recorded"
        /\ IF w = Bare THEN ~Accrued(recs) ELSE NextMarker(recs, worker[w].next) = 0
        /\ \/ /\ closed /\ w # Bare /\ Release(worker[w].run)
              /\ Hand(w, Onward(w)) /\ UNCHANGED bounds
           \/ /\ closed /\ w # Bare /\ Fault("settle")
              /\ Hand(w, Idle) /\ UNCHANGED ledger
           \/ /\ ~closed \/ w = Bare
              /\ Hand(w, Onward(w)) /\ UNCHANGED <<ledger, bounds>>
        /\ UNCHANGED <<setting, now, journal, sealed, lease, history>>

(* Registered again, then a pass of its own: what the run still holds      *)
(* moves to the period it resumes in, and its ledger is rebuilt.           *)
StartReplayPass(w) ==
    LET r == worker[w].run
        entered == [At(w, "run") EXCEPT !.consumed = Sum(SelectSeq(Seen(w),
                        LAMBDA rec : rec.kind = "effect"))]
        moves == hold[r].period \notin {NoPeriod, PassPeriod}
    IN  /\ worker[w].at = "enter"
        /\ \/ /\ w # Bare
              /\ Hand(w, [entered EXCEPT !.enabled = TRUE, !.period = PassPeriod])
              /\ hold' = IF moves THEN [hold EXCEPT ![r].period = PassPeriod] ELSE hold
              /\ carriedTo' = IF moves THEN carriedTo \cup {PassPeriod} ELSE carriedTo
              /\ UNCHANGED bounds
           \/ /\ w = Bare
              /\ Hand(w, [entered EXCEPT !.marked = TRUE])
              /\ UNCHANGED <<hold, carriedTo, bounds>>
           \/ /\ Fault("register")
              /\ Refused(w)
              /\ UNCHANGED <<hold, carriedTo>>
        /\ UNCHANGED <<setting, now, journal, sealed, lease, slots, spent, receipts,
                       mismatch, ahead, unheld, lostSpend, cleared, leaked>>

(* A lease over an empty journal: the resume it claimed for answered that  *)
(* there is no run and kept the lease, and clearing it takes a second      *)
(* claim, which a live lease refuses.                                      *)
ClearEmpty(w) ==
    LET r == worker[w].run IN
    /\ worker[w].at = "empty"
    /\ cleared' = cleared \cup {r}
    /\ \/ /\ Claimable(r)
          /\ lease' = [lease EXCEPT ![r] = [epoch |-> @.epoch + 1, at |-> "released"]]
          /\ \/ Release(r) /\ UNCHANGED <<bounds, leaked>>
             \/ Fault("release") /\ UNCHANGED ledger /\ leaked' = leaked \cup {r}
       \/ ~Claimable(r) /\ UNCHANGED <<lease, ledger, bounds, leaked>>
    /\ Hand(w, Idle)
    /\ UNCHANGED <<setting, now, journal, sealed, ahead, carriedTo, unheld, lostSpend>>

-----------------------------------------------------------------------------
(* The environment.                                                        *)

Tick ==
    /\ setting.bounds /\ now < setting.periods
    /\ now' = now + 1
    /\ UNCHANGED <<setting, journal, sealed, lease, ledger, worker, bounds, history>>

Crash(w) ==
    /\ worker[w].at # "idle" /\ Mishap /\ Hand(w, Idle)
    /\ UNCHANGED <<setting, now, journal, sealed, lease, ledger, history>>

(* The worker whose lease on r is current, if it is still alive.           *)
Owners(r) == {w \in Workers : worker[w].run = r /\ worker[w].epoch = lease[r].epoch}

Lapse(r) ==
    /\ lease[r].at = "owned" /\ Owners(r) = {}
    /\ lease' = [lease EXCEPT ![r].at = "lapsed"]
    /\ UNCHANGED <<setting, now, journal, sealed, ledger, worker, bounds, history>>

(* The worker outlives its lease, wherever it is: no heartbeat runs before *)
(* it executes, and one that runs may fail.                                *)
Stall(r) ==
    /\ lease[r].at = "owned" /\ Owners(r) # {} /\ Mishap
    /\ lease' = [lease EXCEPT ![r].at = "lapsed"]
    /\ UNCHANGED <<setting, now, journal, sealed, ledger, worker, history>>

-----------------------------------------------------------------------------
Step(w) ==
    \/ CheckQuota(w) \/ AdmitUnderLease(w) \/ Register(w) \/ ReleaseAdmission(w)
    \/ ReleaseLease(w) \/ Dispatch(w) \/ Stop(w) \/ Conclude(w) \/ ConcludeFenced(w)
    \/ SettleQuota(w) \/ Seal(w) \/ ReadRecords(w) \/ SettleRecorded(w) \/ RefuseUnsettled(w)
    \/ SettledRecorded(w) \/ StartReplayPass(w) \/ ClearEmpty(w)

Next ==
    \/ \E w \in Workers : Step(w)
    \/ \E r \in Runs : Admit(r)
    \/ \E w \in Workers, r \in Runs : Wake(w, r) \/ Resume(w, r) \/ Abandon(w, r)
    \/ \E r \in Runs : RecoverAbandoned(r) \/ ReleaseSealedSlot(r)
    \/ Tick
    \/ \E w \in Workers : Crash(w)
    \/ \E r \in Runs : Lapse(r) \/ Stall(r)

Spec == Init /\ [][Next]_vars

(* A worker that has not crashed takes its next step, a lease nobody       *)
(* renews lapses, and the sweep is scheduled again and again.              *)
FairSpec ==
    /\ Spec
    /\ \A w \in Workers \ {Sweep} : WF_state(Step(w))
    /\ WF_state(\/ Step(Sweep)
                \/ \E r \in Runs : RecoverAbandoned(r) \/ ReleaseSealedSlot(r))
    /\ WF_state(\E r \in Runs : Lapse(r))

-----------------------------------------------------------------------------
(* The shape of every variable.                                            *)
TypeOK ==
    /\ setting \in Settings /\ now \in Periods
    /\ \A r \in Runs :
         /\ \A i \in DOMAIN journal[r] :
              journal[r][i].kind \in {"marker", "admitted", "effect", "suspended",
                                      "woken", "abandoning", "concluded"}
         /\ lease[r].at \in {"none", "owned", "lapsed", "released"}
         /\ hold[r].period \in Periods \cup {NoPeriod}
         /\ hold[r].amount \in 0 .. Reservation
    /\ sealed \subseteq Runs /\ slots \subseteq Runs
    /\ spent \in [Periods -> Nat]
    /\ \A w \in Workers : worker[w].at \in Steps

Exempt(p) == p \in carriedTo \/ unheld # {} \/ lostSpend # {}

(* A period's settled total and everything held against it stay within its *)
(* ceiling, however runs suspend, crash, resume and admit at once: the     *)
(* claim quota/mod.rs makes of reserve and settle.  Outside it are what a  *)
(* resume carried into the period, a run whose failed admission gave back  *)
(* the hold and left its records, and a cost whose record was refused.     *)
CeilingHolds ==
    setting.bounds =>
        \A p \in Periods : Exempt(p) \/ spent[p] + Held(p) <= setting.limit

(* A pass is never settled with two payloads: what its own worker settles  *)
(* and what any later reader derives from the records are the same         *)
(* receipt, so that no run is stopped by its own accounting.  Outside it   *)
(* is a pass that was settled while it ran, by a resume which had lost its *)
(* lease to that pass before it read the records: nothing renews a lease   *)
(* between the claim (executor.rs:5665) and the read (executor.rs:5746).   *)
PassesAgree == mismatch \subseteq ahead

(* No pass is settled with two payloads, whoever reads the records when:   *)
(* what redb_quota.rs means to report as a defect never happens.           *)
NoPassSettledTwice == mismatch = {}

Recorded(r) == Sum(SelectSeq(journal[r], LAMBDA rec : rec.kind = "effect"))
Billed(r) == MapThenSumSet(LAMBDA rc : rc.spend,
                           {rc \in receipts : rc.run = r /\ rc.period # NoPeriod})

(* A sealed run was billed for every operation on record and, where no     *)
(* cost was lost, for nothing else: no pass is missed and none is charged  *)
(* twice, whichever of its worker, a resume and the sweep settled it; once *)
(* every run is sealed the periods add up to what is on record.            *)
SealedIsBilled ==
    setting.bounds =>
        /\ \A r \in sealed : /\ Billed(r) >= Recorded(r)
                             /\ r \notin lostSpend => Billed(r) = Recorded(r)
        /\ (lostSpend = {} /\ \A r \in Runs : journal[r] # <<>> => r \in sealed)
           => MapThenSumSet(LAMBDA p : spent[p], Periods)
                = MapThenSumSet(Recorded, Runs)

(* A sealed run holds nothing against the period, nor a slot unless an     *)
(* instance with no quota store sealed it.                                 *)
SealedHoldsNothing ==
    \A r \in sealed : /\ hold[r] = NoHold
                      /\ ~setting.bare => r \notin slots

(* While the admitting worker owns a run it executes, the run is counted:  *)
(* nobody else gives its slot or its hold back under it.                   *)
AdmittedIsCounted ==
    \A r \in Runs :
        /\ worker[r].claim = "admission" /\ worker[r].at = "run" /\ Holds(r)
        => /\ r \in slots
           /\ setting.bounds => hold[r].period # NoPeriod

(* What a pass of the run spent and nobody has billed.  Not counted are an *)
(* instance with no quota store (refusing to resume a run whose owner died *)
(* it gives back the lease through which the sweep would have found the    *)
(* run) and a run stopped by a pass that was settled while it ran.         *)
OwesSpend(r) ==
    setting.bounds /\ ~setting.bare /\ Recorded(r) > Billed(r) /\ ~Stuck(r)

(* The slot of a run that has records; where an instance with no quota     *)
(* store may have taken the run over, of one that is sealed.               *)
OwesSlot(r) == r \in slots /\ journal[r] # <<>> /\ (setting.bare => r \in sealed)

(* What the sweep reported recovered over an empty journal is cleared: it  *)
(* holds no slot and no lease is left to be retried.                       *)
EmptyAdmissionIsCleared ==
    \A r \in cleared : journal[r] = <<>> => r \notin slots

(* A slot over an empty journal stays where somebody looks: its admission  *)
(* is under way, or died under a lease that is held or lapsed, which is    *)
(* what the sweep lists.  Outside it are an admission that reserved after  *)
(* its lease was taken and one whose release failed.                       *)
EmptySlotIsListed ==
    \A r \in slots :
        journal[r] = <<>> => lease[r].at \in {"owned", "lapsed"} \/ r \in leaked

(* What the ledger says of a run is what its records say.                  *)
LedgerIsTrue ==
    /\ TypeOK /\ PassesAgree /\ SealedIsBilled /\ SealedHoldsNothing
    /\ AdmittedIsCounted /\ EmptySlotIsListed

(* What was spent is billed and what was held is given back: when the pass *)
(* stops, or when recovery settles it, though its worker dies, stalls or   *)
(* cannot reach the ledger.                                                *)
Owes(r) == OwesSpend(r) \/ OwesSlot(r)
DebtsSettle == \A r \in Runs : Owes(r) ~> ~Owes(r)

=============================================================================
