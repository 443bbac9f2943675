---------------------------- MODULE JournalStore ----------------------------
(***************************************************************************)
(* The embedded journal store (src/src/store/redb.rs): one tenant's        *)
(* append-only journal, the fencing lease that decides who may append to a *)
(* run, and the tables every append and every seal move in the same write  *)
(* transaction.                                                            *)
(*                                                                         *)
(* A write transaction is one action.  A call the store refuses (Fenced,   *)
(* RunSealed, DuplicateEffect, DuplicateAdmission, LeaseHeld,              *)
(* LeaseNotHeld) aborts its transaction and changes nothing, so it is an   *)
(* action that is not enabled.                                             *)
(*                                                                         *)
(* The callers are executor sessions: the in-memory `Lease` one executor   *)
(* got from `acquire` and presents on every write until it releases it or  *)
(* dies.  A session does not learn that its lease lapsed or was taken over *)
(* until a write is refused, so several sessions may believe they own a    *)
(* run.  The wall clock is arbitrary: it may step forwards or backwards.   *)
(*                                                                         *)
(* Abstracted: a record is its kind and the one argument an index reads,   *)
(* plus its epoch.  Hash chaining is the position in the sequence.  The    *)
(* tables that only project records as they were written (by case, by      *)
(* source, by capability) are left out, as are signatures.                 *)
(***************************************************************************)
EXTENDS Integers, Sequences, FiniteSets, SequencesExt

CONSTANTS
    Runs,            \* run ids of one tenant
    Sessions,        \* executor tasks that may hold a lease in memory
    Owners,          \* instance names an executor acquires under
    EffectKeys,      \* effect keys an EffectStarted may carry
    AdmissionKeys,   \* idempotency keys a RunAdmitted may claim
    Outcomes,        \* outcomes a RunConcluded may carry
    Untils,          \* instants a suspension may wait until
    Operators,       \* who may ask for a cancellation
    TTL,             \* lease time to live
    MaxClock,        \* bound: the wall clock reads 0 .. MaxClock
    MaxEpoch,        \* bound: epochs issued per run
    MaxRecords,      \* bound: records per run
    MaxBatch,        \* bound: records per append
    None,            \* an absent row
    Nobody           \* the blank owner of a released lease

VARIABLES
    journal,     \* JOURNAL: run -> sequence of records
    once,        \* EFFECT_ONCE: the <<run, effect key>> pairs already started
    lease,       \* RUN_LEASE: run -> owner, epoch, expiry, or None
    sealed,      \* RUN_SEAL: run -> outcome and chain head, or None
    sealLog,     \* SEAL_LOG: the sealed runs in log order
    admission,   \* RUN_ADMISSION: idempotency key -> run and claim time, or None
    outcomeOf,   \* RUN_OUTCOME: run -> outcome and ordinal, or None
    byOutcome,   \* RUN_BY_OUTCOME: rows <<outcome, ordinal, run>>
    conclusions, \* the NEXT_CONCLUSION counter
    waitingAt,   \* RUN_WAITING_AT: run -> the instant it waits until, or None
    waiting,     \* RUN_WAITING: rows <<until, run>>
    feed,        \* FEED: positions -> <<run, seq>>
    cancel,      \* RUN_CANCEL: run -> the first operator who asked, or None
    now,         \* the wall clock
    session,     \* the leases executors hold in memory, or None
    retired      \* history: admission keys retention has retired

tables == <<journal, once, sealed, sealLog, admission, outcomeOf, byOutcome,
            conclusions, waitingAt, waiting, feed, retired>>
vars == <<tables, lease, cancel, now, session>>

-----------------------------------------------------------------------------
(* Records *)

\* What a caller hands to append: a kind, and the argument the store indexes.
Bodies ==
    [kind : {"RunAdmitted"}, arg : AdmissionKeys \cup {None}]
    \cup [kind : {"EffectStarted"}, arg : EffectKeys]
    \cup [kind : {"RunSuspended"}, arg : Untils]
    \cup [kind : {"RunConcluded"}, arg : Outcomes]
    \cup [kind : {"StepRecord"}, arg : {None}]

Kinds == {"RunAdmitted", "EffectStarted", "RunSuspended", "RunConcluded", "StepRecord"}
Args == AdmissionKeys \cup EffectKeys \cup Untils \cup Outcomes \cup {None}

\* A record as stored: its body stamped with the epoch it was written under.
Records == [kind : Kinds, arg : Args, epoch : Nat]

LeaseRows == [owner : Owners \cup {Nobody}, epoch : Nat, expires : Nat]
SealRows == [outcome : Args, head : Nat]
AdmissionRows == [run : Runs, at : Nat]
OutcomeRows == [outcome : Args, ord : Nat]
SessionRows == [run : Runs, owner : Owners, epoch : Nat, known : Nat]

\* A tenant has finitely many runs, a lease lives for a while, bounds are
\* numbers, and None is no row.
ASSUME StoreAssumption ==
    /\ IsFiniteSet(Runs)
    /\ TTL \in Nat \ {0}
    /\ MaxClock \in Nat /\ MaxEpoch \in Nat /\ MaxRecords \in Nat /\ MaxBatch \in Nat
    /\ None \notin Runs \cup AdmissionKeys \cup Outcomes \cup Untils \cup Operators
    /\ None \notin LeaseRows \cup SealRows \cup AdmissionRows \cup OutcomeRows \cup SessionRows
    /\ Nobody \notin Owners

Stamp(batch, e) ==
    [i \in 1 .. Len(batch) |-> [kind |-> batch[i].kind, arg |-> batch[i].arg, epoch |-> e]]

\* The positions of a sequence of records or bodies that carry kind k.
At(seq, k) == {i \in 1 .. Len(seq) : seq[i].kind = k}

-----------------------------------------------------------------------------
(* Leases *)

\* A lease row that nobody may write past: expired or released.
Expired(l) == l.expires <= now

\* One past the epoch of the run's last record, 1 for an empty journal.
EpochAfterHistory(r) ==
    IF journal[r] = <<>> THEN 1 ELSE Last(journal[r]).epoch + 1

\* Defect: with no lease row the epoch restarts at 1.
NextEpochRestarts(r) == IF lease[r] = None THEN 1 ELSE lease[r].epoch + 1

\* The epoch the next acquire of r takes.
NextEpoch(r) ==
    IF lease[r] = None THEN EpochAfterHistory(r) ELSE lease[r].epoch + 1

\* Defect: an expired lease row no longer fences.
AdmitsWhenExpired(r, e) == lease[r] # None /\ ~Expired(lease[r]) => lease[r].epoch = e

\* The fence append and seal apply: a lease row, whatever its expiry, admits
\* only its own epoch.
Admits(r, e) == lease[r] # None => lease[r].epoch = e

Acquire(s, r, o) ==
    /\ session[s] = None
    /\ lease[r] # None => Expired(lease[r])
    /\ NextEpoch(r) <= MaxEpoch
    /\ lease' = [lease EXCEPT ![r] =
                    [owner |-> o, epoch |-> NextEpoch(r), expires |-> now + TTL]]
    /\ session' = [session EXCEPT ![s] =
                    [run |-> r, owner |-> o, epoch |-> NextEpoch(r),
                     known |-> Len(journal[r])]]
    /\ UNCHANGED <<tables, cancel, now>>

\* The heartbeat: only the exact, unexpired (owner, epoch) is extended.
Renew(s) ==
    /\ session[s] # None
    /\ LET r == session[s].run IN
        /\ lease[r] # None
        /\ lease[r].owner = session[s].owner
        /\ lease[r].epoch = session[s].epoch
        /\ ~Expired(lease[r])
        /\ lease' = [lease EXCEPT ![r].expires = now + TTL]
    /\ UNCHANGED <<tables, cancel, now, session>>

\* Defect: any epoch may free the lease, and leaves its own behind.
ReleaseLeaseUnchecked(s) ==
    /\ session[s] # None
    /\ lease' = [lease EXCEPT ![session[s].run] =
                    [owner |-> Nobody, epoch |-> session[s].epoch, expires |-> 0]]
    /\ session' = [session EXCEPT ![s] = None]
    /\ UNCHANGED <<tables, cancel, now>>

\* The executor hands its lease back and forgets it.  The row is blanked, not
\* removed, and only by the epoch it carries.
ReleaseLease(s) ==
    /\ session[s] # None
    /\ LET r == session[s].run IN
        lease' = IF lease[r] # None /\ lease[r].epoch = session[s].epoch
                 THEN [lease EXCEPT ![r] = [owner |-> Nobody, epoch |-> @.epoch, expires |-> 0]]
                 ELSE lease
    /\ session' = [session EXCEPT ![s] = None]
    /\ UNCHANGED <<tables, cancel, now>>

\* The executor's task ends without handing the lease back.
Abandon(s) ==
    /\ session[s] # None
    /\ session' = [session EXCEPT ![s] = None]
    /\ UNCHANGED <<tables, lease, cancel, now>>

\* The process dies, every session with it, and a new writer opens the file:
\* live leases lapse at the opening instant and keep their owner and epoch.
Reopen ==
    /\ session' = [s \in Sessions |-> None]
    /\ lease' = [r \in Runs |->
                    IF lease[r] # None /\ lease[r].owner # Nobody /\ ~Expired(lease[r])
                    THEN [lease[r] EXCEPT !.expires = now]
                    ELSE lease[r]]
    /\ UNCHANGED <<tables, cancel, now>>

\* The wall clock moves, in either direction.
Tick ==
    /\ now' \in 0 .. MaxClock
    /\ UNCHANGED <<tables, lease, cancel, session>>

-----------------------------------------------------------------------------
(* Append *)

\* Effect keys a batch starts, and admission keys it claims.
Starts(batch) == {batch[i].arg : i \in At(batch, "EffectStarted")}
Claims(batch) == {batch[i].arg : i \in At(batch, "RunAdmitted")} \ {None}

\* Defect: only the committed table is consulted, not the batch itself.
StartsAreNewInTable(r, batch) == \A k \in Starts(batch) : <<r, k>> \notin once

\* Exactly-once: no key of the batch was started before in the run, and none
\* twice in the batch.
StartsAreNew(r, batch) ==
    /\ \A k \in Starts(batch) : <<r, k>> \notin once
    /\ \A i, j \in At(batch, "EffectStarted") : batch[i].arg = batch[j].arg => i = j

\* Defect: a later claim overwrites an earlier one.
ClaimsOverwrite(batch) == TRUE

\* A claimed idempotency key is held by nobody, and claimed once in the batch.
ClaimsAreFree(batch) ==
    /\ \A k \in Claims(batch) : admission[k] = None
    /\ \A i, j \in At(batch, "RunAdmitted") :
            batch[i].arg = batch[j].arg /\ batch[i].arg # None => i = j

\* Defect: any suspension in the batch leaves the run listed as waiting.
WaitsUntilAny(batch) ==
    IF At(batch, "RunSuspended") = {} THEN None
    ELSE batch[CHOOSE i \in At(batch, "RunSuspended") : TRUE].arg

\* The waiting index follows the last record of the batch.
WaitsUntil(batch) ==
    IF Last(batch).kind = "RunSuspended" THEN Last(batch).arg ELSE None

IndexWaiting(r, batch) ==
    LET until == WaitsUntil(batch) IN
    /\ waitingAt' = [waitingAt EXCEPT ![r] = until]
    /\ waiting' = (waiting \ {<<waitingAt[r], r>>})
                    \cup (IF until = None THEN {} ELSE {<<until, r>>})

\* Where the last conclusion of a batch, or of a chain, stands.
FinalOf(batch) ==
    CHOOSE i \in At(batch, "RunConcluded") : \A j \in At(batch, "RunConcluded") : j <= i

\* The row a run's earlier conclusion left.
PriorRow(r) ==
    IF outcomeOf[r] = None THEN {} ELSE {<<outcomeOf[r].outcome, outcomeOf[r].ord, r>>}

\* Each conclusion of the batch takes the next ordinal and replaces the run's
\* earlier row: the last conclusion wins.
IndexOutcome(r, batch) ==
    LET ended == At(batch, "RunConcluded")
        ord   == conclusions + Cardinality(ended) - 1
        final == batch[FinalOf(batch)].arg
    IN  IF ended = {}
        THEN UNCHANGED <<outcomeOf, byOutcome, conclusions>>
        ELSE /\ outcomeOf' = [outcomeOf EXCEPT ![r] = [outcome |-> final, ord |-> ord]]
             /\ byOutcome' = (byOutcome \ PriorRow(r)) \cup {<<final, ord, r>>}
             /\ conclusions' = conclusions + Cardinality(ended)

\* Defect: a batch's positions start at the record before it.
FeedRowsEarly(r, batch) == [i \in 1 .. Len(batch) |-> <<r, Len(journal[r]) + i - 1>>]

\* The feed positions a batch takes.
FeedRows(r, batch) == [i \in 1 .. Len(batch) |-> <<r, Len(journal[r]) + i>>]

\* What an executor may put in one append: the run's admission first and only
\* there, and nothing else before it.
WellFormed(r, batch) ==
    \A i \in 1 .. Len(batch) :
        batch[i].kind = "RunAdmitted" <=> (journal[r] = <<>> /\ i = 1)

\* Defect: a sealed run still takes records.
Reopenable(r) == TRUE

\* A sealed run is frozen, for the holder of its epoch too.
NotSealed(r) == sealed[r] = None

AppendBatch(s, batch) ==
    /\ session[s] # None
    /\ LET r == session[s].run
           e == session[s].epoch
       IN /\ WellFormed(r, batch)
          /\ Len(journal[r]) + Len(batch) <= MaxRecords
          /\ Admits(r, e)
          /\ NotSealed(r)
          /\ StartsAreNew(r, batch)
          /\ ClaimsAreFree(batch)
          /\ journal' = [journal EXCEPT ![r] = @ \o Stamp(batch, e)]
          /\ once' = once \cup {<<r, k>> : k \in Starts(batch)}
          /\ admission' = [k \in AdmissionKeys |->
                             IF k \in Claims(batch) THEN [run |-> r, at |-> now]
                             ELSE admission[k]]
          /\ feed' = feed \o FeedRows(r, batch)
          /\ IndexWaiting(r, batch)
          /\ IndexOutcome(r, batch)
          /\ session' = [session EXCEPT ![s].known = Len(journal[r]) + Len(batch)]
    /\ UNCHANGED <<lease, sealed, sealLog, cancel, now, retired>>

-----------------------------------------------------------------------------
(* Seal, cancellation, retention, restore *)

\* Defect: a conclusion anywhere in the journal will do.
ConcludedOnce(r) == At(journal[r], "RunConcluded") # {}

\* The run's last record is its conclusion.
Concluded(r) == journal[r] # <<>> /\ Last(journal[r]).kind = "RunConcluded"

\* Sealing freezes the journal at its head and enters the log in the same
\* transaction; the first seal wins.
Seal(s) ==
    /\ session[s] # None
    /\ LET r == session[s].run IN
        /\ Admits(r, session[s].epoch)
        /\ Concluded(r)
        /\ IF sealed[r] = None
           THEN /\ sealed' = [sealed EXCEPT ![r] =
                                [outcome |-> Last(journal[r]).arg, head |-> Len(journal[r])]]
                /\ sealLog' = sealLog \o <<r>>
           ELSE UNCHANGED <<sealed, sealLog>>
    /\ UNCHANGED <<journal, once, admission, outcomeOf, byOutcome, conclusions,
                   waitingAt, waiting, feed, retired, lease, cancel, now, session>>

\* The first asker stays on the record.
RequestCancel(r, who) ==
    /\ cancel[r] = None
    /\ cancel' = [cancel EXCEPT ![r] = who]
    /\ UNCHANGED <<tables, lease, now, session>>

\* Retention: keys claimed before the cutoff are free again.
ForgetAdmissions(cutoff) ==
    LET stale == {k \in AdmissionKeys : admission[k] # None /\ admission[k].at < cutoff} IN
    /\ stale # {}
    /\ admission' = [k \in AdmissionKeys |-> IF k \in stale THEN None ELSE admission[k]]
    /\ retired' = retired \cup stale
    /\ UNCHANGED <<journal, once, sealed, sealLog, outcomeOf, byOutcome, conclusions,
                   waitingAt, waiting, feed, lease, cancel, now, session>>

\* An export holds every run; a run's place in the file is its number.
FileOrders ==
    {f \in [Runs -> 1 .. Cardinality(Runs)] : \A r, q \in Runs : f[r] = f[q] => r = q}

\* Every record by run and position, and the conclusions among them.
RunRows == UNION {{r} \X (1 .. Len(journal[r])) : r \in Runs}
Endings == {p \in RunRows : journal[p[1]][p[2]].kind = "RunConcluded"}

\* The rows of S a restore appends before row p.
Ahead(S, order, p) ==
    {q \in S : order[q[1]] < order[p[1]] \/ (q[1] = p[1] /\ q[2] < p[2])}

\* The rows in the order a restore appends them.
Reappended(order) ==
    [n \in 1 .. Cardinality(RunRows) |->
        CHOOSE p \in RunRows : Cardinality(Ahead(RunRows, order, p)) = n - 1]

\* The row a run's last conclusion leaves when it is appended again.
ReIndexed(order, r) ==
    LET last == FinalOf(journal[r]) IN
    [outcome |-> journal[r][last].arg, ord |-> Cardinality(Ahead(Endings, order, <<r, last>>))]

\* The key a run's admission claims, None when it claims none.
ClaimOf(r) == IF journal[r] = <<>> THEN None ELSE Head(journal[r]).arg

\* A restore into an empty store that has replaced this one: every run is
\* appended again under the epochs its records carry, then sealed again in log
\* order.  Lease rows, cancellations and sessions do not survive it.
Restore(order) ==
    LET ended == {r \in Runs : At(journal[r], "RunConcluded") # {}} IN
    /\ \A r, q \in Runs : ClaimOf(r) # None /\ ClaimOf(r) = ClaimOf(q) => r = q
    /\ feed' = Reappended(order)
    /\ admission' = [k \in AdmissionKeys |->
                        IF \E r \in Runs : ClaimOf(r) = k
                        THEN [run |-> CHOOSE r \in Runs : ClaimOf(r) = k, at |-> now]
                        ELSE None]
    /\ outcomeOf' = [r \in Runs |-> IF r \in ended THEN ReIndexed(order, r) ELSE None]
    /\ byOutcome' = {<<ReIndexed(order, r).outcome, ReIndexed(order, r).ord, r>> : r \in ended}
    /\ conclusions' = Cardinality(Endings)
    /\ lease' = [r \in Runs |-> None]
    /\ cancel' = [r \in Runs |-> None]
    /\ session' = [s \in Sessions |-> None]
    /\ UNCHANGED <<journal, once, sealed, sealLog, waitingAt, waiting, now, retired>>

-----------------------------------------------------------------------------
Init ==
    /\ journal = [r \in Runs |-> <<>>]
    /\ once = {}
    /\ lease = [r \in Runs |-> None]
    /\ sealed = [r \in Runs |-> None]
    /\ sealLog = <<>>
    /\ admission = [k \in AdmissionKeys |-> None]
    /\ outcomeOf = [r \in Runs |-> None]
    /\ byOutcome = {}
    /\ conclusions = 0
    /\ waitingAt = [r \in Runs |-> None]
    /\ waiting = {}
    /\ feed = <<>>
    /\ cancel = [r \in Runs |-> None]
    /\ now = 0
    /\ session = [s \in Sessions |-> None]
    /\ retired = {}

Batches == UNION {[1 .. n -> Bodies] : n \in 1 .. MaxBatch}

Next ==
    \/ \E s \in Sessions, r \in Runs, o \in Owners : Acquire(s, r, o)
    \/ \E s \in Sessions : Renew(s)
    \/ \E s \in Sessions : ReleaseLease(s)
    \/ \E s \in Sessions : Abandon(s)
    \/ \E s \in Sessions, batch \in Batches : AppendBatch(s, batch)
    \/ \E s \in Sessions : Seal(s)
    \/ \E r \in Runs, who \in Operators : RequestCancel(r, who)
    \/ \E cutoff \in 1 .. MaxClock : ForgetAdmissions(cutoff)
    \/ \E order \in FileOrders : Restore(order)
    \/ Reopen
    \/ Tick

Spec == Init /\ [][Next]_vars

-----------------------------------------------------------------------------
(* Properties *)

\* The shape of the journal, of the tables the fence and the seal read, and of
\* what executors hold in memory.
CoreTypeOK ==
    /\ journal \in [Runs -> Seq(Records)]
    /\ once \in SUBSET (Runs \X EffectKeys)
    /\ lease \in [Runs -> LeaseRows \cup {None}]
    /\ sealed \in [Runs -> SealRows \cup {None}]
    /\ sealLog \in Seq(Runs)
    /\ cancel \in [Runs -> Operators \cup {None}]
    /\ now \in Nat
    /\ session \in [Sessions -> SessionRows \cup {None}]
    /\ retired \in SUBSET AdmissionKeys

\* The shape of the derived indexes.
IndexTypeOK ==
    /\ admission \in [AdmissionKeys -> AdmissionRows \cup {None}]
    /\ outcomeOf \in [Runs -> OutcomeRows \cup {None}]
    /\ byOutcome \in SUBSET (Args \X Nat \X Runs)
    /\ conclusions \in Nat
    /\ waitingAt \in [Runs -> Args]
    /\ waiting \in SUBSET (Args \X Runs)
    /\ feed \in Seq(Runs \X Nat)

\* The shape of every table and of what executors hold in memory.
TypeOK == CoreTypeOK /\ IndexTypeOK

\* Epochs never decrease along a run's chain, through takeovers, reopenings
\* and restores.  epoch_after_history reads one record and relies on it.
EpochsAscend ==
    \A r \in Runs : \A i, j \in 1 .. Len(journal[r]) :
        i <= j => journal[r][i].epoch <= journal[r][j].epoch

\* Two executors never hold one fencing token, and an executor whose next
\* append would be accepted has written every record since it acquired: no
\* other executor's write is interleaved with its own.
SoleWriter ==
    /\ \A s, t \in Sessions :
        /\ session[s] # None /\ session[t] # None
        /\ session[s].run = session[t].run /\ session[s].epoch = session[t].epoch
        => s = t
    /\ \A s \in Sessions :
        session[s] # None /\ Admits(session[s].run, session[s].epoch)
            => session[s].known = Len(journal[session[s].run])

\* Exactly-once: one EffectStarted per effect key in a run, whoever wrote it
\* and in however many batches.
OneStartPerKey ==
    \A r \in Runs : \A i, j \in At(journal[r], "EffectStarted") :
        journal[r][i].arg = journal[r][j].arg => i = j

\* A sealed run's journal still ends at the head its seal committed, with the
\* conclusion the seal names; the seal log lists exactly the sealed runs, once.
SealsAreFinal ==
    /\ \A r \in Runs : sealed[r] # None =>
        /\ sealed[r].head = Len(journal[r])
        /\ Last(journal[r]).kind = "RunConcluded"
        /\ sealed[r].outcome = Last(journal[r]).arg
    /\ \A r \in Runs : sealed[r] # None <=> \E i \in 1 .. Len(sealLog) : sealLog[i] = r
    /\ \A i, j \in 1 .. Len(sealLog) : sealLog[i] = sealLog[j] => i = j

\* An idempotency key names one run: the index points at a run admitted under
\* that key, and two runs carry one key only when retention freed it between.
OneRunPerKey ==
    /\ \A k \in AdmissionKeys : admission[k] # None => ClaimOf(admission[k].run) = k
    /\ \A r \in Runs : ClaimOf(r) # None =>
        \/ admission[ClaimOf(r)] # None /\ admission[ClaimOf(r)].run = r
        \/ ClaimOf(r) \in retired

\* The outcome index answers with each run's last conclusion, holds one row a
\* run, and no two runs share an ordinal.
OutcomeIsLastConclusion ==
    /\ \A r \in Runs :
        LET ends == At(journal[r], "RunConcluded") IN
        IF ends = {} THEN outcomeOf[r] = None
        ELSE /\ outcomeOf[r] # None
             /\ \E i \in ends : /\ \A j \in ends : j <= i
                               /\ outcomeOf[r].outcome = journal[r][i].arg
    /\ byOutcome = {<<outcomeOf[r].outcome, outcomeOf[r].ord, r>> :
                        r \in {q \in Runs : outcomeOf[q] # None}}
    /\ \A x, y \in byOutcome : x[2] = y[2] => x = y
    /\ \A x \in byOutcome : x[2] < conclusions

\* The waiting listing names exactly the runs whose last record is a
\* suspension, at the instant that record says: a run that moved on is gone.
WaitingIsLastRecord ==
    waiting = {<<Last(journal[r]).arg, r>> :
                r \in {q \in Runs : journal[q] # <<>> /\ Last(journal[q]).kind = "RunSuspended"}}

\* The feed holds every record once and each run's records in chain order.
FeedIsComplete ==
    /\ {feed[p] : p \in 1 .. Len(feed)} = RunRows
    /\ \A p, q \in 1 .. Len(feed) :
            feed[p][1] = feed[q][1] /\ feed[p][2] <= feed[q][2] => p <= q

\* While lease rows survive, a run's token never falls, and a token keeps its
\* owner until the run is handed back: a lapse is not a release.
TokensOnlyGrow ==
    [][\A r \in Runs : lease[r] # None /\ lease'[r] # None =>
            \/ lease'[r].epoch > lease[r].epoch
            \/ /\ lease'[r].epoch = lease[r].epoch
               /\ lease'[r].owner \in {lease[r].owner, Nobody}]_vars

\* Every listing answers as the chains it is derived from do.
IndexesFollowRecords ==
    TypeOK /\ OutcomeIsLastConclusion /\ WaitingIsLastRecord /\ FeedIsComplete

\* The instant the chain says a run waits until, None when it does not wait.
WaitOf(r) ==
    IF journal[r] # <<>> /\ Last(journal[r]).kind = "RunSuspended" THEN Last(journal[r]).arg
    ELSE None

\* Each run's row of the waiting index is what its chain says, and a suspension
\* always says an instant.
WaitsAreNoted ==
    /\ \A r \in Runs : waitingAt[r] = WaitOf(r)
    /\ \A r \in Runs : journal[r] # <<>> /\ Last(journal[r]).kind = "RunSuspended" => WaitOf(r) # None
    /\ waiting = {<<waitingAt[r], r>> : r \in {q \in Runs : waitingAt[q] # None}}

\* Why the listings follow the records: the inductive invariant behind
\* IndexesFollowRecords.
IndexInv == OutcomeIsLastConclusion /\ WaitsAreNoted /\ FeedIsComplete

\* The exactly-once table holds every effect key a run has started.
OnceCoversStarts ==
    \A r \in Runs : \A i \in At(journal[r], "EffectStarted") :
        <<r, journal[r][i].arg>> \in once

\* A lease row's epoch bounds every epoch that wrote to the run.
LeaseCoversChain ==
    \A r \in Runs : lease[r] # None =>
        \A i \in 1 .. Len(journal[r]) : journal[r][i].epoch <= lease[r].epoch

\* Every executor still running holds an epoch its run's lease row has issued.
SessionsWereIssued ==
    \A s \in Sessions : session[s] # None =>
        /\ lease[session[s].run] # None
        /\ session[s].epoch <= lease[session[s].run].epoch

\* Why the fence holds: the inductive invariant behind SoleWriter.
FenceInv == LeaseCoversChain /\ SessionsWereIssued /\ EpochsAscend /\ SoleWriter

-----------------------------------------------------------------------------
(* What the store promises, without leases, indexes or clocks *)

\* The token a run's next write must carry, as an abstract log sees it.
TokenOf(r) ==
    IF lease[r] # None THEN lease[r].epoch
    ELSE IF journal[r] = <<>> THEN 0 ELSE Last(journal[r]).epoch

Log == INSTANCE FencedLog WITH
    log    <- journal,
    token  <- [r \in Runs |-> TokenOf(r)],
    closed <- [r \in Runs |-> sealed[r] # None]

\* The store implements a fenced, append-only, closable log for every run:
\* each step of it is a step of FencedLog or changes nothing there.
ImplementsFencedLog == Log!Spec
=============================================================================
