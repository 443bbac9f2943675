# A TLA+ verification project for agentplane

agentplane is a runtime for durable, replayable, policy-governed agents. Its
claim is that the journal is the plan of record: everything a run does to the
outside world is announced in an append-only chain before it happens, recorded
after it happened, and read back, never repeated, when the run is resumed or
verified. This project models the mechanisms that claim rests on, checks them
with TLC on small instances and proves the safety of most of them with TLAPS for
every instance.

Paths below are relative to the repository root; the implementation is under
`src/`.

## 1. The system: inventory

| Part | State | Operations | Talks to |
|---|---|---|---|
| Journal store (`store/redb.rs`, `store/postgres.rs`, contract in `journal/store.rs`) | per run: record chain, lease row (owner, epoch, expiry), seal, cancellation; per tenant: exactly-once table, admission keys, outcome and waiting indexes, seal log, feed | acquire, renew, release, append, seal, request_cancel, forget_admissions, open, restore (`export.rs`) | every executor, the sweeper, the push relay |
| Replay cursor (`journal/replay.rs`) | per step: slots of announced or refused positions, in order | from_records, next, undecided_effects | effect protocol, operator verbs, audit |
| Effect protocol (`runtime/ctx.rs`) | attempt number, ledger, cursor position | gate, authorize, admit, announce, perform, record, retry, reconcile, replay | drivers of tools, models and peers; journal |
| Run lifecycle (`runtime/executor.rs`, `pass_journal.rs`) | run status, lease, plan, finished steps | execute, resume, replay, suspend, replan, cancel, conclude, seal | journal, quota, events, tasks, timers |
| Unwind (`runtime/executor.rs`) | finished steps, evidence of change, compensated steps | maybe_unwind, unwind_evidence | effect protocol |
| Effect groups (`runtime/group.rs`, `journal/atomic.rs`) | open group, reversals, deferred members | reversible, read, deferred, atomic, commit, abort | effect protocol, journal |
| Event delivery (`store/redb_events.rs`, `executor.rs::deliver`) | buffered events, subscriptions, claims, parked waits, dead letters | buffer, subscribe, claim_for, match_waiter, deliver_to, unsubscribe, park_wait, sweep_unclaimed | suspended runs |
| Human tasks (`store/redb_tasks.rs`, `core/task.rs`) | task rows and their queue | open, claim, take_over, release, escalate, decide, withdraw_run | sweeper, event delivery |
| Timers (`store/redb_timers.rs`) | armed and claimed timers | arm, claim_due, disarm | sweeper |
| Sweeper (`runtime/sweeper.rs`) | none of its own | recover_abandoned, fire_timers, sweep_deadlines, sweep_tasks, cosign | all stores |
| Quota and halts (`quota/mod.rs`, `store/redb_quota.rs`) | reservations, settled spend per period, rate windows, halts | reserve, settle, release, carry, set_halt, lift_halt | lifecycle |
| Push outbox (`push/`, `store/redb_push.rs`) | per registration: next sequence, attempts, parked | run_once, advance, retry, park, unpark | feed, HTTP |
| Keyring and sealed memory (`keyring/`, `store/redb_memory.rs`) | data keys per scope, versions, lineage, tombstones, holds, debts | remember, forget, cascade, sweep, hold, erase | lifecycle lock, key ring |
| Transparency log (`core/merkle.rs`, `journal/witness.rs`) | leaves, checkpoints | inclusion, consistency, cosign | seal log |
| Budget ledger (`core/budget.rs`) | effects, spend, steps, denials used | admit, count, record, replay | effect protocol |
| Labels (`core/label.rs`, `core/egress.rs`) | label of each value | join, gates | effect protocol |
| Batches (`runtime/batch.rs`) | cursor, items | run_batch | lifecycle |
| Cases, registry, authority, drain | rows with revisions; halts; tickets | compare-and-set updates | lifecycle |
| Policy engine, providers, tools, peers, API, CLI, media, blobs | mostly none | I/O, parsing, rendering | the outside |

### What is hard about it

* Several executors may believe they own one run. A lease lapses while its
  holder is slow, another executor takes over, and both have writes in flight;
  the wall clock that decides it may step backwards; a restore drops the lease
  table altogether.
* A process may die between announcing a call, making it, recording it, probing
  it and concluding. Each of those gaps is a different history for the next
  executor to read.
* A call may time out having landed. What may be repeated depends on the
  declared recovery (`Retry`, `Reconcile`, `RequiresOperator`) and on what has
  been *established* since.
* Records accumulate: refusals and re-admissions, withholdings, operators'
  answers and reopenings are all read back by the next pass, and a strict
  verification has to read the same history and bill the same figures.
* Indexes (outcome, waiting, feed, admission) are derived from records and are
  rebuilt by a restore in a different order from the one they were built in.
* A run that waits is woken by whoever comes first: a message, a retry of it, a
  timer, a person, the policy that answers for nobody, the sweep that redelivers
  what a dead process had claimed. Each is several store calls with others in
  between, and one of them is often a stop.
* Some ledgers are fenced by nothing. Quota slots, push cursors and key
  destructions are kept straight only by the order of the calls around them,
  and each call may fail, go unheard or outlive its caller.
* PostgreSQL instances write one tenant's journal in overlapping transactions,
  and a feed must not pass over a row that commits late.

`PROJECT.json` lists these as hazards, each at its line, with the properties
that would catch it going wrong.

### What makes each part correct

* Journal store: one writer per token, tokens never reused, effect keys started
  once, sealed chains frozen, listings equal to what the records say.
* Effect protocol and cursor: announced before performed; repeated only on
  evidence; the resumed run follows its own history; verification is pure and
  reproduces the bill; doubt is listed and is never treated as failure.
* Lifecycle and unwind: a cancellation is acted on; conclusions that seal are
  final; a step that changed the world is compensated once or escalated.
* Groups: all members stand or none does, or the group is reported unsettled;
  what was let out is never taken back.
* Events, tasks, timers: a wait is answered at most once and not lost between
  its registration and the event's arrival; one decision stands; every claim,
  sleep and overdue task comes to its end.
* Quota: no two admissions pass one ceiling on the same room; settled once, and
  everything spent or held is settled in the end.
* Push: every record is offered until acknowledged or parked, in order.
* Keyring and memory: what a verb reported erased no backup opens, what is kept
  or held stays readable, and a cascade reaches everything derived.
* Shared journal: the chains, seals and keys of overlapping transactions are
  those of one fenced log, and its feed skips nothing.

## 2. Plan

Done, in the order of importance the plan gave them:

| Module | Part | Section |
|---|---|---|
| `JournalStore`, `FencedLog`, `JournalStoreProofs` | the embedded journal store, the log it promises, proofs | 3, 14 |
| `EffectDispatch`, `EffectDispatchProofs` | the effect protocol over the replay cursor, proofs | 4, 14 |
| `RunLifecycle`, `RunLifecycleProofs` | the executor's loop, stop, unwind, recovery, proofs | 5, 14 |
| `Inbox`, `InboxProofs` | the event buffer and durable waits, proofs | 6, 14 |
| `Worklist`, `WorklistProofs` | timers and human tasks, proofs | 7, 14 |
| `Quota` | the tenant's ledger | 8 |
| `Push`, `PushProofs` | the outbox, proofs | 9, 14 |
| `GroupFrontier` | effect groups | 10 |
| `PgJournal`, `PgJournalProofs` | the journal store on PostgreSQL, against the same `FencedLog`, proofs | 11, 14 |
| `SealedMemory`, `SealedMemoryProofs` | sealed memory, its lock and its key ring, proofs | 12, 14 |

Each module takes what another one establishes as given instead of repeating
it: `JournalStore` lets the others assume one writer per run, `EffectDispatch`
lets `RunLifecycle` and `GroupFrontier` try an effect once, `Inbox` lets
`Worklist` cut the buffer down to the one event that answers the one task. The
two stores are joined by the abstract log both are shown to implement.

Left: batches (cursor order and item claims over admission keys), drain,
checkpoint cosigning, cases and the registry's compare-and-set, the quota and
push tables on PostgreSQL, Merkle proofs as a pure algorithm. Two groups of one
step with overlapping resources. Theorems worth proving next: `EndedMeansPutBack`
of `RunLifecycle`, `EndingIsTrue` of `GroupFrontier`, `CeilingHolds` of `Quota`
(section 15). Abstract specifications worth stating: an
exactly-once mailbox for `Inbox`, an all-or-nothing transaction for
`GroupFrontier`.

A property of a run is a conjunction of named parts where they concern one
question; each part has its own definition and comment in the module.
Definitions marked `Defect` are plausible mistakes in one definition: each makes
TLC violate the property it stands for.

## 3. JournalStore and FencedLog

`JournalStore` models the embedded store of one tenant. A write transaction is
one action; a call the store refuses changes nothing and is an action that is
not enabled. Tables are variables named after them (`JOURNAL` is `journal`,
`EFFECT_ONCE` is `once`, `RUN_LEASE` is `lease`, and so on). The callers are
`session`s: the `Lease` an executor keeps in memory, which stays there after it
lapsed or was taken over, so a deposed executor keeps trying to write.

| Action | Code |
|---|---|
| `Acquire`, `Renew`, `ReleaseLease` | the lease operations; `renew` wants the exact live (owner, epoch), `release_lease` blanks the row and keeps the epoch |
| `Abandon`, `Reopen` | an executor task dies; the process dies and the next one to open the file lapses every live lease |
| `AppendBatch` | `append`: fence, seal check, exactly-once, admission claims, feed, outcome and waiting indexes, in one transaction |
| `Seal`, `RequestCancel`, `ForgetAdmissions` | the operations of those names |
| `Restore` | `restore_parsed` into an empty store: records re-appended under their own epochs in file order, seals in log order |
| `Tick` | the wall clock, forwards or backwards |

A record is its kind, the one argument an index reads, and its epoch. The chain
hash is the position in the sequence. A restore lays the records out by rank: the
place of a record in the file is the number of records before it, in an order of
the runs chosen freely. The projections by case, source,
capability and activity are left out: each copies a record's field in the same
transaction.

`FencedLog` is what the store promises without leases, indexes or clocks: a log
per run, a token a write must carry, and a flag that closes the log. Under the
mapping (journal, epoch in force, sealed) every step of the store is a step of
it or a stutter.

| Run | Checks | Bounds |
|---|---|---|
| `journal_fencing` | two executors under two names compete for one run; single writer, ascending epochs, exactly-once, every listing as the records have it, tokens only grow, refinement | 3 records, 3 epochs, batches of 2, clock 0..2 with TTL 1: enough for a takeover of a takeover, a lapse with the clock stepping back, and a batch that repeats its own key |
| `journal_tenant` | two runs share admission keys, ordinals, the seal log and the feed, with retention and restore: seals are final, a key names one run, listings follow the records | one executor, 3 records a run: an admission, a conclusion and a later one |

## 4. EffectDispatch

One step of a run: a fixed program of effects called in order, where an error
ends the step. State: the run's `journal`, the `world` (how many times each
attempt took effect outside), the executing `pass` with its cursor, the budget
`ceiling`, and whether the subject's authority is `halted`. The program and its
environment are a `setting` chosen in the initial state.

| Action | Code |
|---|---|
| `Execute`, `Resume`, `Verify` | a live pass, a resume (closed by the recorded endings of `resume_is_closed`), a strict pass |
| `ReplayDone`, `ReplayDenial`, `ReplayWithheld`, `ReplayRefusal`, `ReplayFailed`, `ReplayOrphan`, `ReplayDiverges`, `HistoryEnds` | one arm each of `replayed_attempt` |
| `Withhold`, `Deny`, `Refuse`, `Announce` | the hop's halt check, the gate, the ledger, and the durable announcement |
| `Perform`, `RecordOutcome`, `FailToRecord` | `perform_once` after its announcement; the store may not take the terminal record |
| `Probe` | `reconcile_and_record`, for an orphan or for a doubtful failure |
| `Conclude`, `Crash` | the run's ending; the process dying anywhere else |
| `ReconcileEffect`, `DecideQuarantine`, `RaiseCeiling`, `SetHalt` | operators |

Three folds over the records are translated as they stand, each a recursive
function of one record more, because properties compare them: the cursor
(`FromRecords`), what is in doubt (`UndecidedEffects`), and what the unwind counts
as changed (`Touched`). The code drops every withholding at a key where `Dropped`
drops the newest; a key has one slot, which is proved, so the two agree.

Assumptions: drivers, probes and operators are honest (they say `landed` or `did
not happen` only when it is so, and may always be in doubt); the step's code
does not change between passes and passes errors on; one executor holds the run
at a time, which is what `JournalStore` establishes.

The run `dispatch` covers four settings:

| Setting | Program |
|---|---|
| `Operator` | a mutation only an operator may resolve, then a read; two attempts each, three passes |
| `Retry` | a mutation declared safe to repeat, on a store that may refuse the terminal record |
| `GatedRetry` | a safe-to-repeat mutation bound to a subject, then a read: a ceiling of 1 raised to 9, halts and denials, so that its retry may be refused, withheld or denied; two passes |
| `Gate` | one reconcilable mutation bound to a subject; denials, a ceiling of 0 raised to 1, halts, store faults, four passes |

and shows `LandsOnEvidence` (announced first, an operator's mutation lands once,
repeats only on evidence, denials stand), `HistoryIsFollowed` (a resume never
diverges, verification reproduces the bill, doubt is not failure, one standing
refusal per key), `DoubtIsKnown` (doubts are listed, landed work is evidence for
the unwind), `StrictIsPure` and `PassEnds`. Two statements of `HistoryIsFollowed`
have an exception. An operator may answer `landed` about an attempt of a
safe-to-repeat mutation that the run had gone past, its retry announced or met by
a gate: the next resume then finds a position it does not ask for. And policy may
deny the retry of a safe-to-repeat mutation in doubt: the run fails over the
denial. Neither was in the statements until a proof of them failed; `GatedRetry`
reaches both. Two attempts are enough for a
retry, and for an attempt after a retry to be refused; three passes for a crash,
a resume that crashes in turn and a third that reads both.

Fairness: weak fairness of the executing task's own steps (`FairSpec`): a task
the async runtime can poll is polled. Nothing is assumed of operators, crashes
or clocks, and nothing ensures a crashed run is resumed.

Parts that restrict themselves to some recoveries do so because the code does not
give more: after a probe cleared a key, a re-performance under the same key is
invisible to the doubt listing and to the unwind's evidence (section 13).

## 5. RunLifecycle

One run from its admission to its seal, over a plan of steps. A step's code is a
sequence of operations, `act` (a mutation only an operator may resolve, tried
once) and `wait` (a durable wait); its compensation is another. The plan is
chosen in the initial state, so one run of TLC covers several.

State: the `journal`, kept as one sequence per step and one for the run's own
records (nobody reads the order of two steps' records, except that the latest
one is remembered in `last`); the ground truth of what `landed` and is still
`standing`; the `cancel` request and its `asker`; the seal; the `lease`, either
held (by a pass, or owned by a dead one and left to lapse) or released; and the
executing `pass`.

| Actions | Code |
|---|---|
| `Resume`, `RecoverAbandoned`, `Deliver` | the three ways to claim a run, with the `Claim` that decides what a refusal does with the lease |
| `AskToStop`, `RequestCancel`, `DriveStop`, `StopHeld`, `AskerDies` | `request_cancel`: read, record, drive; three steps because the run moves in between |
| `DecideQuarantine`, `DecisionRefused`, `ReconcileEffect` | operators' verbs |
| `CloseOut`, `AbandonIfDecided`, `RefuseUndoneWork`, `RefuseUndrivable`, `Begin` | `replay_under`, in its order |
| `ObserveStop`, `Withhold`, `Proceed` | the boundary of the ready-set loop: recorded successes first, then the stop and withdrawal checks at the frontier |
| `StartStep`, `Announce`, `Perform`, `RecordAnswer`, `TakeBuffered`, `FinishStep`, `Apply` | a batch of steps, interleaved, or one compensation |
| `GatedUnwindList`, `WalkEnds`, `SkipStep`, `EscalateStep`, `SuspendUndo`, `FinishUndo` | `maybe_unwind` |
| `Conclude`, `Seal`, `ReleaseLease`, `Crash` | `conclude`; the process dying between any two writes |

A lease that lapsed under a live but deposed executor is a `Crash` here: that
its writes are refused is what `JournalStore` establishes. How an effect is
retried and probed is `EffectDispatch`.

The run `lifecycle` shows `EndedMeansPutBack` (a stop puts back everything it
could, a failure that took anything back took everything back),
`UndoneInReverse` (a step is undone after the steps that built on it),
`RecordIsHeeded` (nothing forward after a recorded stop, nothing after a closing
conclusion, no compensation while any effect's outcome is open) and
`HandsBackListed` (who gives a lease back leaves the run findable). Bounds: four
plans of two or three steps (parallel siblings, one that waits and one that acts,
a chain whose undoing
waits, a point of no return, undeclared work), every answer of a call, one crash,
one operator's call, one stop, any number of recoveries and deliveries. One crash
reaches every gap between two writes, and the recovery after it meets the stop,
the delivery and the operator in any order. The plans leave out a step that acts
again after a wait, and one numbered below a step it builds on: those are the
subjects of `UndoOutlived.cfg` and `UndoneOutOfOrder.cfg` (section 13). Safety
only; `FairSpec` is used by `StopUnobserved.cfg` and `UnwindRefused.cfg`.

## 6. Inbox

The event buffer of `store/redb_events.rs` and everything that meets it. Its
tables are variables of their own (`stored`, `live`, `held`, `subs`, `parked`,
...); the journal is reduced to which waits are announced and answered and which
runs ended; `pass` is the run's owner, `hand` the deliveries in flight, from
outside, from the sweep and from a pass that hands its messages back. The rows of
a wait are sets; which of two subscriptions is older is the order they were registered
in, kept as a relation (`older`), so that what a match picks is the least of a set
and not the head of a list.

| Actions | Code |
|---|---|
| `announce`, `subscribe`, `claim_for`, `append_answer`, `unsubscribe_answered`, `suspend` | the run's own wait (`StepCtx::wait_on`), each store call a step |
| `deliver`, `deliver_to`, `match_waiter`, `acquire_for_delivery`, `park_wait`, `record_delivery`, `retire_delivered` | a message from outside, to whoever waits or to one run (`deliver`, `resume_subscription`) |
| `parked_waits`, `redeliver_claimed` | the sweep lists what dead deliveries had claimed and delivers it |
| `conclude`, `seal`, `retire_waits`, `offer_released`, `release_lease` | the run ends, its waits are withdrawn and what it held is handed on |
| `sweep_unclaimed`, `erase_payload`, `request_cancel`, `crash_owner`, `crash_delivery`, `recover_abandoned` | retention, erasure, a stop, deaths, recovery |

The run `inbox` shows `OneAnswerEach` (one message per wait and one wait per
message, among answers and among claims), `NothingIsLost` (no content is shed
while a wait needs it, a claim is findable without its sender, a message stays
with the run it is addressed to, and a buffered message and a wait never pass
each other by) and, under fairness, `ClaimIsDelivered` (a claimed message reaches
its wait, though the delivery that claimed it dies before it resumes the run: the
comment of `redeliver_claimed` excepts that crash, the code does not, section 13).
Scenarios: two runs on
one key with a stop and a death; a targeted message; one run waiting twice on one
key with a death; two open waits with an erasure. Two waits and two messages are
the least in which a claim can go to the wrong one.

Fairness: a live pass, a delivery in flight and the sweep's phases go on;
messages, stops, erasures and deaths owe nothing.

## 7. Worklist

Waits the plane answers itself: one run sleeps, asks a person, and concludes.
`timer` and `task` are rows of `store/redb_timers.rs` and `redb_tasks.rs`;
`decision` and `place` are the buffer row that carries the answer. Actors are two
people (one a candidate only after an escalation), the phases of a sweep, and
whoever started the run; `lease` is the pass that runs on behalf of one of them,
`ghost` the one store call of a pass whose lease lapsed under it.

| Actions | Code |
|---|---|
| `sleep_until`, `arm_timer`, `claim_due`, `acquire_to_fire`, `record_wake`, `disarm` | the sleep and its timer (`ctx.rs`, `Sweeper::fire_timers`, `fire_one`) |
| `announce_wait`, `subscribe`, `open_task`, `claim_for`, `append_answer`, `unsubscribe` | the task's wait |
| `decide_task`, `answer_task`, `settle_decided`, `duplicate_decision`, `take_over`, `release` | people |
| `overdue`, `escalate`, `settle_expired`, `duplicate_expiry` | `sweep_tasks` |
| `match_waiter`, `acquire_to_deliver`, `park_wait`, `record_delivery`, `redeliver_claimed` | the delivery of a decision |
| `request_cancel`, `seal`, `disarm_run`, `unsubscribe_run`, `withdraw_run`, `recover_abandoned` | a stop, the end, recovery |
| `Tick`, `Lapse`, `GhostWrites`, `Crash` | instants that pass, a lease that lapses under a live pass, deaths |

The run `worklist` shows `DecisionStands` (one wake, one answer, the task settled
as its answer says, by somebody eligible, with every decider told the truth),
`NothingAfterTheEnd` and, under fairness, `WaitsEnd` (sleeps end, overdue tasks
are settled, claimed decisions arrive). Each expiry policy is a scenario, with a
stop and one fault, or two faults. Fairness: passes, sweep phases, calls in
progress and time; nothing of people or operators.

## 8. Quota

The ledger (`slots`, `hold`, `spent`, `receipts`: the tables of
`store/redb_quota.rs`) and the passes that take from it and pay into it. A run's
own worker admits and resumes it, `Sweep` recovers, `Bare` is an instance built
without a quota store. The journal holds what the ledger reads.

| Actions | Code |
|---|---|
| `Admit`, `CheckQuota`, `AdmitUnderLease`, `Register`, `ReleaseAdmission` | admission: check, lease, reservation, first record, and what a failed one gives back |
| `Dispatch`, `Stop`, `Conclude`, `ConcludeFenced`, `SettleQuota`, `Seal`, `ReleaseLease` | a pass and its end: settle before seal and before the lease goes back |
| `Wake`, `Resume`, `Abandon`, `ReadRecords`, `SettleRecorded`, `RefuseUnsettled`, `SettledRecorded`, `StartReplayPass` | a resume settles what earlier passes left, from their records |
| `RecoverAbandoned`, `ClearEmpty`, `ReleaseSealedSlot` | the recovery sweep |
| `Tick`, `Crash`, `Lapse`, `Stall` | the period ends; workers die; leases lapse, some under a live worker |

The run `quota` shows `CeilingHolds` (settled and held never pass a period's
ceiling), `LedgerIsTrue` (a pass has one receipt unless an overtaken resume settled
it while it ran, sealed runs are billed exactly what is on record and hold nothing,
a run being executed is counted, a slot over an empty journal is under a lease the
sweep lists) and, under fairness, `DebtsSettle` (what was spent is billed, slots
come back). Settings: two runs contending for room that fits one; one run over a
period's end; a resume overtaken by a pass of two operations; two mishaps; a cost
that was lost; admissions that die before their first record; concurrency only,
with a bare instance.

A lease may lapse under its worker wherever the worker is (`Stall`): nothing renews
it between a resume's claim (`executor.rs:5665`) and the heartbeat of its execution
(`executor.rs:5885`). A resume that lost its lease before it read the records
(`executor.rs:5746`) reads those of the pass that overtook it and settles that pass
from what it has spent so far; when the pass settles itself, with more, the ledger
reports a defect and the run is stopped by its own accounting. `PassesAgree`
excepts exactly the passes settled so (the history variable `ahead`), and
`PassSettledTwice` shows one. `MaxStuck` bounds how often such a run is tried
again; its spend is outside `DebtsSettle`, as is that of a tenant with a bare
instance. A slot over an empty journal is listed except where the admission
reserved after it lost its lease, or its release failed (`leaked`); that it is given
back is not claimed: `EmptyAdmission` shows that it need not be.

Outside `CeilingHolds` are periods a hold was carried into, a run whose failed
admission gave its hold back and left its records, and a cost whose record was
refused: in each the code lets the ceiling be passed, by design or by accident. Rates and halts are a refusal that may
happen at any time.

## 9. Push

One registration (`row`: cursor, attempts, parked, waiting), the run's `log`, and
one or two sweeps that drain it. An operator's stream ends at any conclusion
(`Projection::terminal`), a caller's at one that ends its task (`ends_task`): a
withheld run is interrupted for the peer, and its webhook stays to hear the end.

| Actions | Code |
|---|---|
| `Admit`, `Register`, `RegisterRefused`, `Execute`, `Conclude`, `Die`, `Resume`, `Abandon` | the run and its operator's registration (`push/outbox.rs`) |
| `ReadHead`, `ReadTail`, `RegisterPush` | a caller's webhook (`api/a2a.rs`): head, last record, row |
| `Sweep`, `ReadPage`, `CleanupAcknowledged`, `Accept`, `Fail`, `GiveUpOrRetry`, `Acknowledge`, `DeleteRow` | one turn of a sweep (`push/delivery.rs`) |
| `Unpark`, `Backoff`, `Crash` | an operator, time, deaths |

The run `push` shows `DeliveredInOrder` (everything before the cursor was taken,
nothing out of order, an end not left untold, retries at most the ceiling),
`NeverRewinds` and, under fairness, `EndsAndRetires` (the end of a sealed run is
delivered, where nothing ended the stream before, and its row goes). Two attempts,
pages of two, four records; five settings, each with its own bound on mishaps (three
or two with one sweep, two, one or none with two), on resumes and registrations (one,
and two in `Caller` and `CallerAgain`) and the conclusions short of a seal it may
meet (`stops`: a withheld one is to an operator what a failed one is, and a
quarantined one is a failed one that may be abandoned). Fairness: sweeps are scheduled, backoffs end, and an operator
unparks rows.

A caller that registers again, after its row went, may have read the journal's
head long before: its new row then begins below one that a sweep had already
drained, and the receiver gets older records after newer ones. That is what the
caller asked for, so order is promised from `since`, the latest sequence a row
was registered from. The case was found by the proof of section 14, which failed
without it; `CallerAgain` reaches it.

## 10. GroupFrontier

One step with one effect group: eager members with reversals, waits, atomic and
deferred members. `did` counts what happened outside, `standing` what was not
taken back.

| Actions | Code |
|---|---|
| opening, the eager members, the frontier, release of deferred members, abort and the reversals | `runtime/group.rs`, over the dispatch and replay of `ctx.rs` |
| the step's end and the settlement of a group it left open, by its end, by a resume, by the pass that abandons a stopped run | `executor.rs`: `settle_open_group`, `settle_abandoned_group`, `classify` |
| `Resume`, `Crash`, `Deliver`, `RequestCancel`, `DecideQuarantine`, `ReconcileEffect` | claims, deaths, events, operators |

The run `group` shows `EndingIsTrue` (members once, one opening and one ending,
a run reported stopped left nothing and one reported successful left all, a
closed run's group is settled), `AllOrNothing` (`Aborted` leaves nothing,
`Committed` leaves everything, and never both ways) and `UndoIsOrderly` (newest
first, never around a doubt). Six settings: a plain group, a wait with a budget
refusal, a failing invariant with store faults, a group the step forgets, two
deferred members, two atomic ones; each with a crash and a stop. Excepted: a
group paused past its frontier and then stopped, which is the finding of section
13. Safety only.

## 11. PgJournal

The journal store of `store/postgres.rs`: an append or a seal is a transaction of
several statements at READ COMMITTED, and others run between them. Clocks differ
between instances, so any lease may be claimed at any time. A COMMIT that was not
acknowledged took effect or did not.

| Actions | Code |
|---|---|
| `Acquire`, `Leave` | the claim; the task is done or dies |
| `BeginAppend`, `AppendWithin`, `BeginSeal`, `Place`, `Commit`, `Fail` | the statements of `append` and `seal`: fence under the lease row's lock, inserts under unique indexes, the tenant's seal lock and the log position, the end |
| `Branch` | two tasks share a claim |
| `ForgetAdmissions`, `Feed` | retention; one page of the feed behind the oldest running transaction |

The run `shared_journal` shows `FeedIsFaithful` (the cursor passes nothing that
commits later, each chain in order, and a quiet feed is whole), `TablesAgree`
(sealed chains end at their conclusion, a key names one run, an effect starts
once), `LogOnlyGrows` (a checkpoint is a prefix of every later one) and
`StepsAsFencedLog`: every step is one of the `FencedLog` that `JournalStore`
implements, so the two stores promise the same. Two runs, two writers, three
records a run, three transaction ids: enough for an older transaction to commit
after a younger one was read. Runs and writers are interchangeable (symmetry; no
liveness is checked). A missing lease row is met only after a restore.

`Started` is the partial unique index on started effects: it refuses a start the
journal has, and one an earlier record of the same batch has. The second half was
missing from the model until the proof of `OneStartPerKey` asked for it.
A page of the feed and the log of seals are given by rank: the place of a row is
the number of rows before it, which is what ordering by the row's key computes.
`Restored` numbers the records of an export run by run, in any order of the runs;
`Resealed` then seals the runs of its log again, at the positions they had.
What an export holds is assumed in `HistoriesAreSound`: epochs that ascend,
effects started once, one run per admission key. That is what the exporting store
is proved to keep, and what the constraints of the importing one enforce.

## 12. SealedMemory

Two instances over one memory store, one key ring and one lifecycle lock. `rows`,
`current`, `edges`, `forgotten` and `held` are the tables of
`store/redb_memory.rs`; `destroyed` is the ring; `owed` are the key destructions
an instance still has to make, in its memory; `stray` are calls whose caller gave
up and that may still be carried out.

| Actions | Code |
|---|---|
| `Remember`, `Store`, `StoreFails` | a write: seal as the next version, store, check the version |
| `Forget`, `EraseSubject` | keys before rows |
| `ForgetCascading`, `ForgetSubject`, `SweepExpired`, `OweTrimmed` | rows before keys, and a debt for what the ring refuses |
| `DestroyKey`, `KeyRefused`, `RemoveRows`, `RowsStay`, `Settled` | the calls they are made of |
| `SetLegalHold`, `Crash`, `Land` | holds; deaths; a late call is carried out |

The run `sealed_memory` shows `ErasureIsKept` (what a verb reported erased no
backup opens; what is gone is destroyed or owed; a cascade reaches through
tombstones), `KeptIsReadable` and `HeldIsKept`. `Cascade` is what the worklist of
`forget_cascading` computes, as the least set of derived versions that holds
whatever read an id it takes whole or a version it hit. `displaced` remembers the
scope of a row stored as another version than it was sealed as: a late write took
the version from under a write that had the lock, and the debt for that key is
reckoned under the wrong version. Three ids derived in a chain, the
middle one with two versions, one fault and one late call. Assumed: the lock's
session lasts as long as the operation under it; a PostgreSQL session lost while
the work goes on is not modelled. Safety only; instances are interchangeable.

## 13. Disagreements between the code and its documentation

The run `aborted_over_released` expects a violation: a group that released one
deferred member pauses for want of budget before the next and is then stopped;
the pass that abandons it reverses the eager members and records `Aborted`, which
`site/content/docs/effects.md:496` says means "Nothing. Reversible members were
reversed; deferred members never ran."

The other histories below were met while modelling. Each is a counterexample TLC
finds with the configuration named, to a sentence of a document or a comment. A
property of the passing runs that would be false for this reason states its
exception.

| Configuration (module) | History |
|---|---|
| `ReconcileTwice` (`MCEffectDispatch`) | a probe clears an orphan, the call is made again under the same key and lands, the process dies; the next resume reads `did not happen` and performs it once more |
| `UndoSkipped` (`MCEffectDispatch`) | an orphan a probe cleared is performed again and recorded as done; the unwind's evidence still says the step changed nothing |
| `StopUnobserved` (`MCRunLifecycle`) | a stop requested while the owner runs the step that then waits is told the lease is held; the owner suspends without reading it |
| `UnwindRefused` (`MCRunLifecycle`) | a run that failed without compensating is stopped and its executor dies mid-unwind; its old conclusion makes every recovery refuse it |
| `UndoOutlived` (`MCRunLifecycle`) | while an unwind waits in a compensation, an interrupted step already undone is woken by its event and acts again |
| `Stranded` (`MCRunLifecycle`) | `decide_quarantine` on a run whose owner died is refused and gives the lapsed lease back, which takes the run off the only listing it was on |
| `UndoneOutOfOrder` (`MCRunLifecycle`) | a step settled by an operator's answer keeps its old ending, so a later stop undoes the completed steps by number |
| `ShedUnread` (`MCInbox`) | a stopped run seals while holding a message nobody read, and the redelivery pass sheds it before the retirement hands it back (`redb_events.rs:1478` against the comment at `executor.rs:12313`) |
| `ClaimSurvives` (`MCInbox`) | a delivery dies between its claim and the resume: the comment at `executor.rs:12395` says this "retires the subscription with nothing left to re-register it", but the claim parks the wait in its own transaction (`redb_events.rs:1139`) and the redelivery pass finds it. Here the code is better than its comment, and `ClaimIsDelivered` and `ClaimIsFindable` hold of that crash |
| `SecondClaim` (`MCInbox`) | the erasure of one wait's message unparks another wait of the run, which takes a second message |
| `RefusedApplied` (`MCWorklist`) | the sweep settles a task to a reviewer's recorded decision between the reviewer's two writes: the reviewer is refused and obeyed |
| `DecisionStranded` (`MCWorklist`) | the process dies between buffering a decision and matching it; retries and the expiry are duplicates that are not offered again (`executor.rs:12047`) |
| `EmptyAdmission` (`MCQuota`) | an admission dies between reserving and its first record; the sweep reports it recovered, but its own lease refuses the claim that would clear it (`sweeper.rs:749` against `executor.rs:4920`) |
| `PassSettledTwice` (`MCQuota`) | a resume that loses its lease between its claim (`executor.rs:5665`) and its read (`executor.rs:5746`) settles the pass that overtook it with another payload than that pass's own worker, which `redb_quota.rs:562` reports as a defect of the store; the exception of `PassesAgree` |
| `OutcomeUntold` (`MCPush`) | a run fails, is resumed and succeeds; the sweep takes the failure for the end and deletes the row (`delivery.rs:66` against `outbox.rs:346`) |
| `TrimmedKeyKept` (`MCSealedMemory`) | the ring refuses one key of a cascade that also trims a version: the trimmed version's key is owed by nobody (`keyring/memory.rs:603`) |

Seen while modelling, and kept out of the properties by the exceptions they name:
in `Push`, a registration may be deleted under a resume that registers it again,
and a stale sweep un-parks a row another one parked; in `GroupFrontier`, the
abandoning pass may commit atomic members, a settlement the store did not take
seals a cancelled run over an unsettled group, and a budget refusal of an atomic
member aborts the group; in `SealedMemory`, a late key destruction may land after
a hold was placed, a late write displaces another write's version although
`keyring/memory.rs:446` says a disagreement "fails this write rather than leaving
a row that will never authenticate", and a `forget` retried after an erasure it
never heard of reports success while a key lives.

## 14. Proofs

Each theorem holds for every value of the constants its module's assumptions
allow: any sets of runs, executors, owners, workers, people, ids and keys, any
bounds. TLC evaluates the assumptions on the runs. The inductive invariants are
conjunctions of named parts and were checked with TLC on the run's instance
before they were proved. A proof has one lemma per action, or per group of
actions that touch the same part.

| Module | Theorem | States |
|---|---|---|
| `JournalStoreProofs` | `CoreTypeCorrect` | `CoreTypeOK` |
| | `FencingIsSound` | `SoleWriter` |
| | `ChainsAscend` | `EpochsAscend` |
| | `EffectsStartOnce` | `OneStartPerKey` |
| | `SealedRunsStayFrozen` | `SealsAreFinal` |
| | `KeysNameOneRun` | `OneRunPerKey` |
| | `TokensNeverFall` | `TokensOnlyGrow` |
| | `StoreRefinesLog` | `ImplementsFencedLog` |
| | `ListingsFollowChains` | `IndexesFollowRecords` |
| `EffectDispatchProofs` | `DispatchIsSound` | `DispatchInv`, the inductive invariant |
| | `CallsLandOnEvidence` | `LandsOnEvidence` |
| | `VerifyingIsPure` | `StrictIsPure` |
| | `EvidenceIsTold` | `EvidenceInv`, the invariant behind the next |
| | `DoubtsAreKnown` | `DoubtIsKnown` |
| | `HistoryIsInOrder` | `HistoryInv`, the invariant behind the next |
| | `HistoryIsKept` | `HistoryIsFollowed` |
| `RunLifecycleProofs` | `LifecycleIsSound` | `LifecycleInv`, the inductive invariant |
| | `EndsStayFinal` | `EndsAreFinal` |
| | `DoubtBarsTheUnwind` | `NeverUnwindsAroundDoubt` |
| | `PassesHeedTheRecord` | `RecordIsHeeded`, the two together |
| | `HandedBackIsListed` | `HandsBackListed` |
| `InboxProofs` | `InboxIsSound` | `InboxInv`, the inductive invariant |
| | `OneAnswerPerWait` | `OneAnswerEach` |
| | `MessagesAreKept` | `NothingIsLost` |
| `PgJournalProofs` | `TablesStayInAgreement` | `TablesAgree` |
| | `SharedStoreStepsAsLog` | `StepsAsFencedLog` |
| | `FeedStaysFaithful` | `FeedIsFaithful` |
| | `LogNeverForks` | `LogOnlyGrows` and `PositionsAreApart` |
| `WorklistProofs` | `DecisionsStand` | `DecisionStands` |
| | `EndedRunsHearNothing` | `NothingAfterTheEnd` |
| `PushProofs` | `DeliveryIsInOrder` | `DeliveredInOrder` |
| | `CursorNeverRewinds` | `NeverRewinds` |
| `SealedMemoryProofs` | `ErasureHolds` | `ErasureIsKept` |
| | `KeptVersionsOpen` | `KeptIsReadable` |
| | `HoldsAreHonoured` | `HeldIsKept` |

### The embedded store

`SoleWriter` and `EpochsAscend` are not inductive. `FenceInv` is: a lease row's
epoch bounds every epoch in the chain; every executor still running holds an
epoch its run's row has issued; epochs ascend; and the token's holder knows the
chain's end. The first makes a newly issued epoch fresh, the second makes a
missing lease row mean that nobody is writing. `OneStartPerKey` needs
`OnceCoversStarts`: the table holds every key the chain has started.
`OneRunPerKey` needs `KeyInv`: what a chain claims is an admission key, so that a
batch, which claims for the run it opens and for no other, and a restore write
the index row with the first record. The refinement takes each
action under the mapping. Assumed: `StoreAssumption` (a positive TTL, numeric
bounds, `None` and `Nobody` distinct from rows and names).

The listings follow the chains by `IndexInv`. `WaitingIsLastRecord` is about the
rows of the waiting index; what is inductive is that the index of each run says
what the last record of its chain says (`WaitsAreNoted`), which is what the delete
before each insert relies on. A restore lays records out by rank, and that ranks
are a numbering without gaps or repetitions is proved from cardinalities.

### The effect protocol

Nothing `LandsOnEvidence` says is inductive: it is about the journal and the
world, and what keeps it true is what a pass in memory makes of the journal.
`DispatchInv` ties the three together.

* The cursor is sound (`CursorIsSound`, `CursorHasOutcomes`): one slot a key; an
  attempt is announced exactly when its slot is an orphan or answered; a slot that
  says `did not happen` has it from the last outcome recorded.
* A mutation that repeating could duplicate came to a later attempt only when the
  earlier ones did not happen (`RetriedOnEvidence`), and what is listed as
  undecided is an orphan or in doubt (`DoubtsAreSlots`), so that an operator's
  answer is never about such an attempt already retried. For mutations declared
  safe to repeat it may be, which is the exception of `NeverDiverges`.
* What a writing pass has not read is as the journal has it, and what the journal
  has is unread, behind the pass, or here (`ReadInOrder`): at the gate, where
  history is used up, nothing is announced here or further on.
* An attempt under way is the last of its effect, and is called while it is an
  orphan nobody called, or on its provider's denial just recorded (`UnderWay`,
  `JustDenied`). An operator's mutation about to be called has not landed.

The cursor and the list of doubts are folds over the records. What is proved of
them is what one more record does (`CursorGrows`, `DoubtsGrow`), and what that
does to the set of slots (`OpenIs`, `SettleIs`, `ReadmitIs`). That the folds are
defined, and agree on a common prefix, is an induction over the records; it is
done by least counterexample, from the well-foundedness of the numbers. One lemma
each for a record that opens, settles or re-admits a position, then one per
action. `StrictIsPure` follows because a strict pass is only ever consulting or
concluding. Assumed: `DispatchAssumption` (a program of at least one effect, at
least one attempt and one pass, some ceiling; `None` is no key, status,
disposition or pass).

What operators are told rests on `EvidenceInv`, on top of `DispatchInv`: of a
mutating attempt whose provider is not asked about it, the cursor, the list of
doubts and the unwind's evidence say the same (`AttemptsAreTold`), a recorded
landing or denial is what the cursor says for good, and the attempt is called only
while it is an orphan (`CalledAsOrphan`).

### Why a resume follows its history

`HistoryInv` is about the order of the cursor and not only its set of slots. Each
position comes where the answer before it leads, or at the retry made before that
answer came (`InCallOrder`); the second only if an operator settled an attempt
gone past (`SettledBehindRetry \/ Unbroken(Cursor)`). A pass asks for what the
positions it has read lead to, having billed exactly those; at its frontier it has
billed all but a withholding; at work it is at the last position
(`ReadsItsHistory`). So what it reads next is what it asks for. `Costs` is a fourth
fold: the bill of the first n positions. Three layers stand on it.

* `SuccessInv`, for verification: a run that succeeded is only verified, its
  history is complete, and its conclusion says what reading that history costs. A
  strict pass of a complete, unbroken history can only read answers to its end.
* `DoubtInv`, for doubt and failure: an effect whose last answer is doubt is that
  of the last position, which is the doubt itself or the gate its retry stopped at
  (`DoubtsAreLast`). So whatever fails a pass (a denial read or met, a failure read
  or recorded, a probe, a record the store did not take) meets that doubt and no
  other, and none of them fails on it but a denial of what may be repeated.
* `RefusalInv`: a refusal stands, by the count of its records, exactly while the
  cursor shows it.

### The life of a run

`LifecycleInv` has what the records say of one another (a conclusion says how the
run ended, a recorded stop was asked for, a step recorded as succeeded ran to its
end) and what a pass at each point found or made sure of (`PassIsSound`): it holds
the lease; once the run has concluded for good it can only seal and go; what its
steps are doing is not answered on the record. What a record adds to each of the
readings of the journal (`Conclusion`, `Ending`, `Slot`) is proved once
(`ConclusionGrows`, `EndingGrows`, `SlotGrows`). That no compensation is announced
around a doubt needs `WalkIsSound`: an unwind that has anything to undo began with
no effect in doubt, and whatever is undecided since is the call of the compensation
it is at. Assumed: `BoundsAssumption`, `PlansAssumption` (a finite plan, its code
a sequence of operations), `NoneAssumption`.

### Messages and waits

`InboxInv` relates a row of the buffer, the pass and the deliveries in flight:
where a pass stands says what it made sure of (`PassesAreSound`); what is about to
answer an open wait is claimed for it, or was erased since, and answers nobody
else (`FlightsAreClaims`); a message that answered is claimed for its wait or is
nobody's to claim again (`AnswersAreClaims`); while nothing was erased a wait that
holds a message is parked and holds one (`ClaimsAreApart`); what the redelivery
pass listed is still registered while it matters (`ListedAreKept`); a run announces
its waits in the order of its plan (`InOrder`). Assumed: `ScenariosAssumption` (no
wait is planned twice, handlers, runs and the sweeper are distinct).

### The shared store

`PgInv` says what a transaction has established by the time it commits, although
others ran between its statements: one open transaction per run, under the run's
current epoch (`RowLocks`, which is the lock on the lease row); an append's rows
are its batch, of a run not sealed, with no effect started and no key taken, and
no other append about to commit claims its keys (`AppendsAreReady`,
`ClaimsAreApart`); a seal about to commit is alone, of a concluded run, at a
position past every one taken (`SealsAreReady`); and epochs never pass the lease
row's. With it each commit is one step of `FencedLog`, and every other statement
a stutter. Assumed: `PgAssumption` and `HistoriesAreSound` (section 11).

The feed is faithful by `FeedInv`: the order of rows is total and, along a chain,
the chain's (`OrderIsTotal`, because a run's row lock makes its transactions'
numbers ascend); an open transaction is numbered past the reader's cursor
(`NumbersAreNew`, because a page stops at the oldest open one); and the reader was
served, in order, exactly what its cursor has passed (`ReaderIsSound`). The log of
seals only grows because a seal about to commit is alone and past every position
taken (`SealsAreReady`), so no two runs share one (`PositionsAreApart`).

### Human tasks

`WorkInv` names who is in the middle of what: a pass runs for exactly one caller
(`PassHasACaller`); there is one decision, of whoever's call went on past
recording it (`FirstDecision`); a pass asks only before there is an answer or an
end (`PassKnowsTheEnd`); who answers was eligible when they set out and stays so,
as an audience is only widened (`DeciderWasEligible`); what a decider heard or is
about to hear is settled (`ToldAsDecided`). Assumed: `WorklistAssumption` (people
are not the sweep, `None` is nobody).

### The outbox

`PushInv`: every cursor, in the row and in the memory of a sweep or a caller,
points into the journal or just past it (`InReach`); whatever is about to be sent
or was, everything before it was taken (`TakenBefore`), which is what a slow
sweep's stale copy of the cursor cannot break; a row goes only for a record that
ends its stream and was taken, because a registration past the journal's end leaves
no such record behind it (`RowGoesAfterEnd`, `EndIsAhead`); a lone sweep knows at least as many
failures as the row counts (`FailuresAreKnown`).

### Sealed memory

`MemoryInv`. The lock has one holder (`OneAtATime`). What is promised or owed is
`Gone`: no row is stored under its scope and none will be, because versions only
go up while an id is there and a tombstone stays (`DebtsAreGone`, `WritesFit`).
A verb under way is ready to report what it will (`OpsAreReady`): a write is
sealed as the version it will get, an erasure that takes keys first has nothing
held and every key of what it will report is destroyed or still on its list, one
that takes rows first has only what is gone. `DebtsAreTracked` is `DebtsAreKept`
while a verb runs. `LineageIsKept` is the reason a cascade misses nothing: every
set of versions closed under derivation from an id has every row that absorbed
it, so the least one has, tombstones or not. Late calls are covered throughout,
with the exceptions the properties name.

## 15. What is only model-checked

* Liveness, and everything that rests on fairness: `PassEnds`,
  `ClaimIsDelivered`, `WaitsEnd`, `DebtsSettle`, `EndsAndRetires`. The prover has
  no support for fairness.
* `EndedMeansPutBack` and `UndoneInReverse` of `RunLifecycle`. Neither holds of every
  plan: they need steps that build on lower-numbered ones, compensations that act,
  and no step that acts again after a wait (section 13), so a theorem would carry
  the instance's plans as its hypotheses, and then what a walk has still to undo.
* `Quota` and `GroupFrontier`: their statements are sums over ledgers and orders of
  reversals, which would need lemmas about the sums and their bounds first.
* What the recursive functions over records compute for every input, beyond what
  one more record does. The runs check them where properties compare them.

## 16. What is not modelled

What the plan has left (section 2). Within the modelled parts: signatures,
hashes, labels, content rules, backoff times, rate windows, replanning, budget
exhaustion as a run's ending, quota and push tables on PostgreSQL, business
calendars, task schemas, the semantic index, key rotation, the sealed journal
and sealed cases. Labels and judgement panels are pure functions with no state.
Policy evaluation is a third-party library; its verdict is a choice. Model, tool
and peer adapters, the HTTP API, the CLI, telemetry, media and blob handling are
I/O, parsing and rendering; the test kit is test code.
