----------------------------- MODULE PgJournal -----------------------------
(***************************************************************************)
(* The shared journal store (src/src/store/postgres.rs): several instances *)
(* of the plane write one tenant's journal through PostgreSQL.  Unlike the *)
(* embedded store of JournalStore, an append or a seal is a transaction of *)
(* several statements at READ COMMITTED, and those of other instances run  *)
(* between them.  The lease row's lock, the unique indexes and the tenant's *)
(* seal lock keep them apart; the feed reads what all of them commit.      *)
(*                                                                         *)
(* A lease's expiry is read on the claimant's own clock, and clocks differ *)
(* between instances, so any lease may be claimed at any time; renewing    *)
(* and releasing one change nothing the journal depends on.  A COMMIT that *)
(* is refused, or sent and not acknowledged, took effect or did not: the   *)
(* writer goes on either way.  Abstracted: records to the kind and the one *)
(* argument a constraint reads; the indexes derived from a record under    *)
(* the same locks (outcomes, waits, verdicts) behave as in JournalStore.   *)
(***************************************************************************)
EXTENDS Naturals, Sequences, FiniteSets, FiniteSetsExt, SequencesExt

CONSTANTS
    Runs,            \* run ids of one tenant
    Writers,         \* tasks of any instance that write to a run
    AdmissionKeys,   \* idempotency keys a RunAdmitted may claim
    Batches,         \* what a task appends at once: sequences of records
    Histories,       \* restored exports: run -> records with their epochs
    PageLimit,       \* records in a page of the feed
    MaxEpoch,        \* bound: a lease row at this epoch is not claimed again
    MaxRecords,      \* bound: records per run
    MaxXid,          \* bound: transaction ids assigned
    None             \* an absent row

VARIABLES
    journal,     \* journal: run -> the committed records, in chain order
    lease,       \* run_lease: run -> the epoch in the row, 0 for no row
    sealed,      \* run_seal: run -> chain head and log index, or None
    admission,   \* run_admission: key -> run, or None
    session,     \* the lease each writer holds in memory, or None
    txn,         \* the transaction each writer has open, or None
    xids,        \* transaction ids assigned
    positions,   \* values the identity column has handed out
    cursor,      \* the feed reader's cursor, <<transaction, position>>
    served,      \* what the reader was handed, <<run, seq>> in order
    retired      \* history: admission keys retention has retired

tables == <<journal, lease, sealed, admission, retired>>
reader == <<cursor, served>>
vars == <<tables, session, txn, xids, positions, reader>>

\* What is written of a record: its kind and the argument a constraint reads.
Bodies ==
    (UNION {ToSet(batch) : batch \in Batches}) \cup (UNION {ToSet(h[r]) : h \in Histories, r \in Runs})
Kinds == {b.kind : b \in Bodies}
Args == {b.arg : b \in Bodies}

ASSUME PgAssumption ==
    /\ IsFiniteSet(Runs)
    /\ {PageLimit, MaxEpoch, MaxRecords, MaxXid} \subseteq Nat \ {0}
    /\ None \notin Runs \cup [head : Nat, index : Nat]
    /\ Batches \subseteq Seq(Bodies)
    /\ \A batch \in Batches : \A b \in ToSet(batch) :
            b.kind = "RunAdmitted" => b.arg \in AdmissionKeys \cup {None}

\* An export is of a store that kept its promises: a restore appends it through
\* the same constraints, which refuse a second start of an effect and a second
\* run under an admission key.
ASSUME HistoriesAreSound ==
    \A h \in Histories :
        /\ h \in [Runs -> Seq(Bodies)]
        /\ \A r \in Runs : Len(h[r]) <= MaxRecords
        /\ \A r \in Runs : \A i, j \in DOMAIN h[r] :
                /\ h[r][i].epoch \in Nat \ {0}
                /\ i <= j => h[r][i].epoch <= h[r][j].epoch
                /\ h[r][i].kind = "EffectStarted" /\ h[r][j].kind = "EffectStarted"
                   /\ h[r][i].arg = h[r][j].arg => i = j
        /\ \A r, q \in Runs :
                h[r] # <<>> /\ h[q] # <<>> =>
                    /\ Head(h[r]).arg \in AdmissionKeys \cup {None}
                    /\ Head(h[r]).arg = Head(h[q]).arg => r = q \/ Head(h[r]).arg = None

-----------------------------------------------------------------------------
(* Records and transactions *)

\* A transaction past its fence.
Opened(op, batch) == [op |-> op, batch |-> batch, pc |-> "work", xid |-> xids + 1, rows |-> <<>>, index |-> 0]

Open(w) == txn[w] # None

\* Writer w's transaction is about to execute statement pc of operation op.
At(w, op, pc) == Open(w) /\ txn[w].op = op /\ txn[w].pc = pc

Rolled(w) == txn' = [txn EXCEPT ![w] = None]
Goes(w, t) == txn' = [txn EXCEPT ![w] = t]

\* The lease row of r is locked by an open transaction.
Locked(r) == \E w \in Writers : Open(w) /\ session[w].run = r

\* Defect: a first lease is numbered 1 whatever the records say.
NextEpochFlat(r) == lease[r] + 1

\* One past the highest epoch of the run's records, or of its lease row.
NextEpoch(r) ==
    IF lease[r] = 0 THEN 1 + Max({rec.epoch : rec \in ToSet(journal[r])} \cup {0})
    ELSE lease[r] + 1

\* One guarded upsert: the claimants of a run are serialised on its row.
Acquire(w, r) ==
    /\ session[w] = None /\ ~Locked(r) /\ lease[r] < MaxEpoch
    /\ lease' = [lease EXCEPT ![r] = NextEpoch(r)]
    /\ session' = [session EXCEPT ![w] = [run |-> r, epoch |-> NextEpoch(r)]]
    /\ UNCHANGED <<journal, sealed, admission, retired, txn, xids, positions, reader>>

\* Steps of a ready set run concurrently: a second task writes under the lease.
Branch(w, v) ==
    /\ session[w] = None /\ session[v] # None
    /\ session' = [session EXCEPT ![w] = session[v]]
    /\ UNCHANGED <<tables, txn, xids, positions, reader>>

\* The executor is done with the run or its process dies; the server rolls a
\* transaction it left open back.
Leave(w) ==
    /\ session[w] # None
    /\ session' = [session EXCEPT ![w] = None]
    /\ Rolled(w)
    /\ UNCHANGED <<tables, xids, positions, reader>>

\* What an executor appends: the admission first and only there, and a
\* conclusion last.
WellFormed(r, batch) ==
    \A i \in DOMAIN batch :
        /\ batch[i].kind = "RunAdmitted" <=> (journal[r] = <<>> /\ i = 1)
        /\ batch[i].kind = "RunConcluded" => i = Len(batch)

\* BEGIN and SELECT ... FOR UPDATE on the lease row, which waits for another
\* transaction there and refuses a displaced writer; the transaction has its
\* id from the lock on.
Fence(w, op, batch) ==
    /\ session[w] # None /\ ~Open(w) /\ xids < MaxXid
    /\ ~Locked(session[w].run)
    /\ lease[session[w].run] = session[w].epoch
    /\ xids' = xids + 1
    /\ Goes(w, Opened(op, batch))
    /\ UNCHANGED <<tables, session, positions, reader>>

-----------------------------------------------------------------------------
(* Append *)

\* A task appends a batch to its run.
BeginAppend(w, batch) ==
    /\ session[w] # None
    /\ WellFormed(session[w].run, batch) /\ Len(journal[session[w].run]) + Len(batch) <= MaxRecords
    /\ Fence(w, "append", batch)

\* Defect: a sealed run takes records from the holder of its epoch.
FrozenNever(r) == FALSE

\* A sealed run is frozen.
Frozen(r) == sealed[r] # None

\* The partial unique index on started effects refuses record i of the batch:
\* the effect is started in the journal, or by an earlier record of the batch.
Started(w, batch, i) ==
    /\ batch[i].kind = "EffectStarted"
    /\ \E rec \in ToSet(journal[session[w].run]) \cup {batch[j] : j \in 1 .. i - 1} :
            rec.kind = "EffectStarted" /\ rec.arg = batch[i].arg

\* The admission keys a batch claims.
Claims(batch) == {b.arg : b \in {x \in ToSet(batch) : x.kind = "RunAdmitted"}} \ {None}

\* Another transaction has inserted the key and is still open.
Contended(w) ==
    \E v \in Writers \ {w} : At(v, "append", "commit") /\ Claims(txn[v].batch) \cap Claims(txn[w].batch) # {}

\* The batch takes the next positions and its admission key is claimed, after
\* any open transaction that claimed it.  The append is refused when the run is
\* sealed, an effect started before, or the key is taken.
AppendWithin(w) ==
    /\ At(w, "append", "work") /\ ~Contended(w)
    /\ LET t == txn[w]
           row(i) == [kind |-> t.batch[i].kind, arg |-> t.batch[i].arg, epoch |-> session[w].epoch,
                      tx |-> t.xid, pos |-> positions + i]
       IN  IF \/ Frozen(session[w].run)
              \/ \E i \in DOMAIN t.batch : Started(w, t.batch, i)
              \/ \E k \in Claims(t.batch) : admission[k] # None
           THEN Rolled(w) /\ UNCHANGED positions
           ELSE /\ positions' = positions + Len(t.batch)
                /\ Goes(w, [t EXCEPT !.rows = [i \in DOMAIN t.batch |-> row(i)], !.pc = "commit"])
    /\ UNCHANGED <<tables, session, xids, reader>>

-----------------------------------------------------------------------------
(* Seal *)

Concluded(r) == journal[r] # <<>> /\ Last(journal[r]).kind = "RunConcluded"

BeginSeal(w) == Fence(w, "seal", <<>>)

Indexes == {sealed[q].index : q \in {p \in Runs : sealed[p] # None}}

\* Defect: the position is allocated under no lock.
PlaceUnlocked(w) ==
    /\ At(w, "seal", "work")
    /\ IF Concluded(session[w].run)
       THEN Goes(w, [txn[w] EXCEPT !.pc = "commit", !.index = xids])
       ELSE Rolled(w)
    /\ UNCHANGED <<tables, session, xids, positions, reader>>

\* The run's last record has to be its conclusion.  Under the tenant's seal
\* lock, held to the commit, the seal takes the position after every committed
\* one.
Place(w) ==
    /\ At(w, "seal", "work")
    /\ IF Concluded(session[w].run)
       THEN /\ \A v \in Writers : ~At(v, "seal", "commit")
            /\ Goes(w, [txn[w] EXCEPT !.pc = "commit", !.index = 1 + Max(Indexes \cup {0})])
       ELSE Rolled(w)
    /\ UNCHANGED <<tables, session, xids, positions, reader>>

-----------------------------------------------------------------------------
(* The end of a transaction *)

\* What it wrote becomes visible at once, and its locks are released.  A run
\* sealed before keeps its first seal.
Commit(w) ==
    /\ Open(w) /\ txn[w].pc = "commit"
    /\ LET r == session[w].run
           t == txn[w]
       IN  IF t.op = "seal"
           THEN /\ sealed' = IF sealed[r] # None THEN sealed
                             ELSE [sealed EXCEPT ![r] = [head |-> Len(journal[r]), index |-> t.index]]
                /\ UNCHANGED <<journal, admission>>
           ELSE /\ journal' = [journal EXCEPT ![r] = @ \o t.rows]
                /\ admission' = [k \in AdmissionKeys |-> IF k \in Claims(t.batch) THEN r ELSE admission[k]]
                /\ UNCHANGED sealed
    /\ Rolled(w)
    /\ UNCHANGED <<lease, retired, session, xids, positions, reader>>

\* The connection or the server fails and the transaction is rolled back.
Fail(w) ==
    /\ Open(w)
    /\ Rolled(w)
    /\ UNCHANGED <<tables, session, xids, positions, reader>>

\* Retention frees a key that was claimed long ago.
ForgetAdmissions(k) ==
    /\ admission[k] # None
    /\ admission' = [admission EXCEPT ![k] = None]
    /\ retired' = retired \cup {k}
    /\ UNCHANGED <<journal, lease, sealed, session, txn, xids, positions, reader>>

-----------------------------------------------------------------------------
(* The feed *)

\* Defect: every committed record is served.
HorizonNone == xids + 1

\* The oldest transaction still running: pg_snapshot_xmin.
Horizon == Min({txn[w].xid : w \in {v \in Writers : Open(v)}} \cup {xids + 1})

\* (tx, pos) > (tx', pos')
Past(row, c) == row.tx > c[1] \/ (row.tx = c[1] /\ row.pos > c[2])

Places == {p \in Runs \X (1 .. MaxRecords) : p[2] \in DOMAIN journal[p[1]]}
Row(p) == journal[p[1]][p[2]]

\* ORDER BY tx, pos
Precedes(p, q) == Past(Row(q), <<Row(p).tx, Row(p).pos>>)

\* The committed rows behind the horizon and past the cursor, and the first of
\* them in feed order: LIMIT.
Unread == {p \in Places : Past(Row(p), cursor) /\ Row(p).tx < Horizon}
Before(p) == {q \in Unread : Precedes(q, p)}
Page ==
    [i \in 1 .. Min({PageLimit, Cardinality(Unread)}) |->
        CHOOSE p \in Unread : Cardinality(Before(p)) = i - 1]

\* One page of the feed.
Feed ==
    /\ Page # <<>>
    /\ served' = served \o Page
    /\ cursor' = <<Row(Last(Page)).tx, Row(Last(Page)).pos>>
    /\ UNCHANGED <<tables, session, txn, xids, positions>>

-----------------------------------------------------------------------------

\* A store an export was restored into: every run was appended again under the
\* epochs its records carry, run by run and before any other transaction, so the
\* records of r follow position from[r]; and its admission key was claimed
\* again.  Leases are not part of an export.
Restored(history, from, total) ==
    LET numbered(r) == {from[r] + n : n \in DOMAIN history[r]}
        row(r, n) == [kind |-> history[r][n].kind, arg |-> history[r][n].arg,
                      epoch |-> history[r][n].epoch, tx |-> 0, pos |-> from[r] + n]
        admitted(k) == {r \in Runs : history[r] # <<>> /\ Head(history[r]).arg = k}
    IN
    /\ \A r, q \in Runs : r # q => numbered(r) \cap numbered(q) = {}
    /\ UNION {numbered(r) : r \in Runs} = 1 .. total
    /\ journal = [r \in Runs |-> [n \in DOMAIN history[r] |-> row(r, n)]]
    /\ admission = [k \in AdmissionKeys |-> IF admitted(k) = {} THEN None ELSE CHOOSE r \in admitted(k) : TRUE]
    /\ positions = total

\* After the records, the runs the export has in its log are sealed again, in
\* the log's order: place[r] is the position of r, 0 when r was not sealed.
Resealed(history, place) ==
    LET ended == {r \in Runs : place[r] # 0} IN
    /\ {place[r] : r \in ended} = 1 .. Cardinality(ended)
    /\ \A r, q \in ended : place[r] = place[q] => r = q
    /\ \A r \in ended : history[r] # <<>> /\ Last(history[r]).kind = "RunConcluded"
    /\ sealed = [r \in Runs |-> IF place[r] = 0 THEN None
                                ELSE [head |-> Len(history[r]), index |-> place[r]]]

Init ==
    /\ \E history \in Histories, total \in 0 .. MaxRecords * Cardinality(Runs) :
            /\ \E from \in [Runs -> 0 .. total] : Restored(history, from, total)
            /\ \E place \in [Runs -> 0 .. Cardinality(Runs)] : Resealed(history, place)
    /\ lease = [r \in Runs |-> 0]
    /\ session = [w \in Writers |-> None] /\ txn = [w \in Writers |-> None]
    /\ xids = 0 /\ cursor = <<0, 0>> /\ served = <<>> /\ retired = {}

Next ==
    \/ \E w \in Writers, r \in Runs : Acquire(w, r)
    \/ \E w, v \in Writers : Branch(w, v)
    \/ \E w \in Writers, batch \in Batches : BeginAppend(w, batch)
    \/ \E w \in Writers :
        BeginSeal(w) \/ AppendWithin(w) \/ Place(w) \/ Commit(w) \/ Fail(w) \/ Leave(w)
    \/ \E k \in AdmissionKeys : ForgetAdmissions(k)
    \/ Feed

Spec == Init /\ [][Next]_vars

-----------------------------------------------------------------------------
(* Properties *)

\* Committed rows, and the transactions a writer may have open.
Rows == [kind : Kinds, arg : Args, epoch : Nat \ {0}, tx : 0 .. xids, pos : 1 .. positions]
Transactions ==
    [op : {"append", "seal"}, batch : Batches \cup {<<>>}, pc : {"work", "commit"},
     xid : 1 .. xids, rows : Seq(Rows), index : Nat]

\* Every value has the shape the schema and the code give it.
TypeOK ==
    /\ journal \in [Runs -> Seq(Rows)]
    /\ lease \in [Runs -> Nat]
    /\ sealed \in [Runs -> [head : Nat, index : Nat \ {0}] \cup {None}]
    /\ admission \in [AdmissionKeys -> Runs \cup {None}]
    /\ session \in [Writers -> [run : Runs, epoch : Nat \ {0}] \cup {None}]
    /\ txn \in [Writers -> Transactions \cup {None}]
    /\ xids \in Nat /\ positions \in Nat

\* The reader's cursor never passes a record: whatever is committed behind it
\* was served, however the transactions that wrote it overlapped, and nothing
\* else was.
NothingIsSkipped ==
    /\ \A p \in Places : ~Past(Row(p), cursor) => p \in ToSet(served)
    /\ ToSet(served) \subseteq Places

\* The reader sees each record once, and after those before it in its run's
\* chain.
FeedFollowsChains ==
    \A i \in DOMAIN served :
        /\ \A j \in 1 .. i - 1 : served[j] # served[i]
        /\ \A n \in 1 .. served[i][2] - 1 : \E j \in 1 .. i - 1 : served[j] = <<served[i][1], n>>

\* A sealed run's journal still ends at the conclusion its seal committed.
SealIsFinal ==
    \A r \in Runs : sealed[r] # None => sealed[r].head = Len(journal[r]) /\ Concluded(r)

\* An admission key names one run, unless retention freed it in between.
OneRunPerKey ==
    \A r, q \in Runs :
        /\ journal[r] # <<>> /\ journal[q] # <<>>
        /\ Head(journal[r]).arg = Head(journal[q]).arg
        => r = q \/ Head(journal[r]).arg \in retired \cup {None}

\* An effect key starts once in a run, whichever instances wrote it.
OneStartPerKey ==
    \A r \in Runs : \A i, j \in DOMAIN journal[r] :
        /\ journal[r][i].kind = "EffectStarted" /\ journal[r][j].kind = "EffectStarted"
        /\ journal[r][i].arg = journal[r][j].arg
        => i = j

\* The tenant's log as a checkpoint reads it, the sealed runs by position: the
\* i-th place holds the run with i - 1 before it (more than one run, if they
\* shared a position).
SealedRuns == {r \in Runs : sealed[r] # None}
Earlier(S, seals, r) == {q \in S : seals[q].index < seals[r].index}
ByIndex(S, seals) ==
    [i \in 1 .. Cardinality(S) |-> {r \in S : Cardinality(Earlier(S, seals, r)) = i - 1}]
SealLog == ByIndex(SealedRuns, sealed)

\* Every checkpoint is a prefix of every later one: no seal lands behind a
\* position already read.
LogOnlyGrows == [][IsPrefix(SealLog, SealLog')]_vars

\* A reader that finds nothing more while no transaction is open has seen every
\* record there is: no finished transaction is held back.
QuietFeedIsWhole ==
    Page = <<>> /\ (\A w \in Writers : ~Open(w)) => ToSet(served) = Places

\* The token a run's next write must carry.
TokenOf(r) ==
    IF lease[r] # 0 THEN lease[r] ELSE IF journal[r] = <<>> THEN 0 ELSE Last(journal[r]).epoch

\* A run's records without the columns the feed orders them by.
Chain(r) ==
    [n \in DOMAIN journal[r] |->
        [kind |-> journal[r][n].kind, arg |-> journal[r][n].arg, epoch |-> journal[r][n].epoch]]

Log == INSTANCE FencedLog WITH
    log    <- [r \in Runs |-> Chain(r)],
    token  <- [r \in Runs |-> TokenOf(r)],
    closed <- [r \in Runs |-> sealed[r] # None]

\* Every step of the shared store is a step of the fenced log the embedded one
\* implements, from an empty store or a restored one: the overlapping
\* transactions of the writers never show.
StepsAsFencedLog == [][Log!Next]_(Log!logVars)

\* The feed shows a reader every record, once and in order.
FeedIsFaithful == NothingIsSkipped /\ FeedFollowsChains /\ QuietFeedIsWhole

\* The tables of a tenant agree with its chains.
TablesAgree == TypeOK /\ SealIsFinal /\ OneRunPerKey /\ OneStartPerKey

-----------------------------------------------------------------------------
(* Why the tables agree: the inductive invariant *)

\* The lock on a lease row: one open transaction per run, of a writer that
\* holds the run's current epoch.
RowLocks ==
    /\ \A w \in Writers : Open(w) =>
            session[w] # None /\ lease[session[w].run] = session[w].epoch
    /\ \A w, v \in Writers : Open(w) /\ Open(v) /\ session[w].run = session[v].run => w = v

\* Epochs never fall along a chain and never pass the lease row's.
EpochsAscend ==
    \A r \in Runs :
        /\ \A i, j \in DOMAIN journal[r] : i <= j => journal[r][i].epoch <= journal[r][j].epoch
        /\ \A i \in DOMAIN journal[r] : lease[r] # 0 => journal[r][i].epoch <= lease[r]

\* What an append has established when it comes to commit.
AppendsAreReady ==
    \A w \in Writers : Open(w) /\ txn[w].op = "append" =>
        /\ WellFormed(session[w].run, txn[w].batch)
        /\ txn[w].pc = "commit" =>
            /\ sealed[session[w].run] = None
            /\ \A i \in DOMAIN txn[w].batch : ~Started(w, txn[w].batch, i)
            /\ \A k \in Claims(txn[w].batch) : admission[k] = None
            /\ DOMAIN txn[w].rows = DOMAIN txn[w].batch
            /\ \A i \in DOMAIN txn[w].batch :
                    /\ txn[w].rows[i].kind = txn[w].batch[i].kind
                    /\ txn[w].rows[i].arg = txn[w].batch[i].arg
                    /\ txn[w].rows[i].epoch = session[w].epoch

\* Two appends that are about to commit claim different keys.
ClaimsAreApart ==
    \A w, v \in Writers :
        At(w, "append", "commit") /\ At(v, "append", "commit") /\ w # v =>
            Claims(txn[w].batch) \cap Claims(txn[v].batch) = {}

\* A seal about to commit is of a concluded run; the seal lock is its alone,
\* and its position is past every one taken.
SealsAreReady ==
    /\ \A w \in Writers : At(w, "seal", "commit") =>
            /\ Concluded(session[w].run)
            /\ txn[w].index # 0 /\ \A n \in Indexes : n < txn[w].index
    /\ \A w, v \in Writers : At(w, "seal", "commit") /\ At(v, "seal", "commit") => w = v
    /\ Indexes # {} => \E m \in Indexes : \A n \in Indexes : n <= m

\* The admission table names the run whose chain carries the key.
KeysAreHeld ==
    \A r \in Runs :
        journal[r] # <<>> /\ Head(journal[r]).arg \notin retired \cup {None} =>
            /\ Head(journal[r]).arg \in AdmissionKeys
            /\ admission[Head(journal[r]).arg] = r

PgInv ==
    /\ TypeOK /\ RowLocks /\ EpochsAscend /\ AppendsAreReady /\ ClaimsAreApart
    /\ SealsAreReady /\ KeysAreHeld /\ SealIsFinal /\ OneStartPerKey

\* No two sealed runs share a position of the tenant's log.
PositionsAreApart == \A r, q \in SealedRuns : sealed[r].index = sealed[q].index => r = q

-----------------------------------------------------------------------------
(* Why the feed is faithful *)

\* The feed order is total, and along a chain it is the chain's.
OrderIsTotal ==
    \A p, q \in Places : p # q =>
        /\ Precedes(p, q) \/ Precedes(q, p)
        /\ p[1] = q[1] /\ p[2] < q[2] => Precedes(p, q)

\* An open transaction is numbered past the reader and past the records of the
\* run it has locked, and its number is nobody else's.
NumbersAreNew ==
    \A w \in Writers : Open(w) =>
        /\ cursor[1] < txn[w].xid
        /\ \A p \in Places :
                Row(p).tx # txn[w].xid /\ (p[1] = session[w].run => Row(p).tx < txn[w].xid)
        /\ \A v \in Writers \ {w} : Open(v) => txn[v].xid # txn[w].xid

\* The rows of an append about to commit carry its number, in the batch's order.
RowsAreNumbered ==
    \A w \in Writers : At(w, "append", "commit") =>
        \A i, j \in DOMAIN txn[w].rows :
            /\ txn[w].rows[i].tx = txn[w].xid
            /\ i < j => txn[w].rows[i].pos < txn[w].rows[j].pos

\* The reader was served, in feed order, exactly what its cursor has passed.
ReaderIsSound ==
    /\ cursor \in (0 .. xids) \X Nat
    /\ served \in Seq(Places)
    /\ \A p \in Places : ~Past(Row(p), cursor) <=> p \in ToSet(served)
    /\ \A i, j \in DOMAIN served : i < j => Precedes(served[i], served[j])

FeedInv == OrderIsTotal /\ NumbersAreNew /\ RowsAreNumbered /\ ReaderIsSound

=============================================================================
