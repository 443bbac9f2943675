--------------------------- MODULE PgJournalProofs ---------------------------
(***************************************************************************)
(* The shared journal for any number of runs and writers: overlapping      *)
(* transactions leave the tables in agreement with the chains, and every   *)
(* step is one of the fenced log; and a reader of the feed misses nothing  *)
(* of what they commit, in whatever order.                                 *)
(***************************************************************************)
EXTENDS PgJournal, FiniteSetTheorems, FunctionTheorems, WellFoundedInduction, NaturalsInduction, TLAPS

Sessions == [run : Runs, epoch : Nat \ {0}]
Seals == [head : Nat, index : Nat \ {0}]

-----------------------------------------------------------------------------
(* Shapes *)

\* A transaction id or a position handed out leaves what was written in shape.
LEMMA RowsGrow ==
    ASSUME xids \in Nat, positions \in Nat, xids' \in Nat, positions' \in Nat,
           xids <= xids', positions <= positions'
    PROVE  /\ Rows \subseteq Rows'
           /\ \A s \in Seq(Rows) : s \in Seq(Rows')
           /\ Transactions \subseteq Transactions'
<1>1. Rows \subseteq Rows'
  BY DEF Rows
<1>2. \A s \in Seq(Rows) : s \in Seq(Rows')
  BY <1>1
<1>3. Transactions \subseteq Transactions'
  BY <1>2 DEF Transactions
<1> QED
  BY <1>1, <1>2, <1>3

\* A batch is a sequence of bodies.
LEMMA BatchFacts ==
    ASSUME NEW batch \in Batches \cup {<<>>}
    PROVE  /\ batch \in Seq(Bodies) /\ Len(batch) \in Nat /\ DOMAIN batch = 1 .. Len(batch)
           /\ \A i \in DOMAIN batch : batch[i].kind \in Kinds /\ batch[i].arg \in Args
           /\ \A i \in DOMAIN batch : batch[i].kind = "RunAdmitted" => batch[i].arg \in AdmissionKeys \cup {None}
<1>1. batch \in Seq(Bodies)
  <2>1. CASE batch = <<>>
    BY <2>1
  <2>2. CASE batch \in Batches
    BY <2>2, PgAssumption
  <2> QED
    BY <2>1, <2>2
<1>2. \A i \in DOMAIN batch : batch[i] \in Bodies
  BY <1>1
<1>3. \A i \in DOMAIN batch : batch[i] \in ToSet(batch)
  BY DEF ToSet
<1>4. ASSUME NEW i \in DOMAIN batch, batch[i].kind = "RunAdmitted"
      PROVE  batch[i].arg \in AdmissionKeys \cup {None}
  <2>1. batch \in Batches
    OBVIOUS
  <2> QED
    BY <1>3, <1>4, <2>1, PgAssumption
<1> QED
  BY <1>1, <1>2, <1>4 DEF Kinds, Args

LEMMA OpenedFacts ==
    ASSUME xids \in Nat, positions \in Nat, NEW op \in {"append", "seal"},
           NEW batch \in Batches \cup {<<>>}, xids' = xids + 1, positions' = positions
    PROVE  /\ Opened(op, batch) \in Transactions'
           /\ Opened(op, batch).op = op /\ Opened(op, batch).batch = batch
           /\ Opened(op, batch).pc = "work"
<1>1. xids + 1 \in 1 .. xids' /\ 0 \in Nat
  OBVIOUS
<1>2. <<>> \in Seq(Rows')
  OBVIOUS
<1> QED
  BY <1>1, <1>2 DEF Opened, Transactions

\* The rows an append writes carry the batch under the writer's epoch.
LEMMA WrittenRows ==
    ASSUME TypeOK, NEW w \in Writers, At(w, "append", "work"), session[w] # None,
           positions' = positions + Len(txn[w].batch), xids' = xids,
           NEW rows,
           rows = [i \in DOMAIN txn[w].batch |->
                    [kind |-> txn[w].batch[i].kind, arg |-> txn[w].batch[i].arg,
                     epoch |-> session[w].epoch, tx |-> txn[w].xid, pos |-> positions + i]]
    PROVE  /\ rows \in Seq(Rows') /\ DOMAIN rows = DOMAIN txn[w].batch
           /\ \A i \in DOMAIN txn[w].batch :
                /\ rows[i].kind = txn[w].batch[i].kind /\ rows[i].arg = txn[w].batch[i].arg
                /\ rows[i].epoch = session[w].epoch
<1> DEFINE batch == txn[w].batch
<1>1. txn[w] \in Transactions /\ session[w] \in Sessions
  BY DEF TypeOK, At, Open, Sessions
<1>2. batch \in Batches \cup {<<>>} /\ txn[w].xid \in 1 .. xids /\ session[w].epoch \in Nat \ {0}
  BY <1>1 DEF Transactions, Sessions
<1>3. /\ Len(batch) \in Nat /\ DOMAIN batch = 1 .. Len(batch)
      /\ \A i \in DOMAIN batch : batch[i].kind \in Kinds /\ batch[i].arg \in Args
  BY <1>2, BatchFacts
<1>4. xids \in Nat /\ positions \in Nat
  BY DEF TypeOK
<1> HIDE DEF batch
<1>5. rows = [i \in 1 .. Len(batch) |->
                    [kind |-> batch[i].kind, arg |-> batch[i].arg,
                     epoch |-> session[w].epoch, tx |-> txn[w].xid, pos |-> positions + i]]
  BY <1>3 DEF batch
<1>6. ASSUME NEW i \in 1 .. Len(batch) PROVE rows[i] \in Rows'
  <2>1. positions + i \in 1 .. positions' /\ txn[w].xid \in 0 .. xids'
    BY <1>2, <1>3, <1>4 DEF batch
  <2>2. rows[i] = [kind |-> batch[i].kind, arg |-> batch[i].arg,
                   epoch |-> session[w].epoch, tx |-> txn[w].xid, pos |-> positions + i]
    BY <1>5
  <2> QED
    BY <1>2, <1>3, <2>1, <2>2 DEF Rows
<1>7. rows \in Seq(Rows')
  <2>1. rows \in [1 .. Len(batch) -> Rows']
    BY <1>5, <1>6
  <2> QED
    BY <1>3, <2>1, SMTT(30)
<1> QED
  BY <1>3, <1>5, <1>7 DEF batch

\* Updates of one writer's transaction.
LEMMA GoesEffect ==
    ASSUME txn \in [Writers -> Transactions \cup {None}], NEW w \in Writers,
           NEW t \in Transactions' \cup {None}, Goes(w, t),
           Transactions \subseteq Transactions'
    PROVE  /\ txn' \in [Writers -> Transactions' \cup {None}]
           /\ txn'[w] = t /\ \A v \in Writers \ {w} : txn'[v] = txn[v]
BY DEF Goes

LEMMA RolledEffect ==
    ASSUME txn \in [Writers -> Transactions \cup {None}], NEW w \in Writers, Rolled(w),
           Transactions \subseteq Transactions'
    PROVE  /\ txn' \in [Writers -> Transactions' \cup {None}]
           /\ txn'[w] = None /\ \A v \in Writers \ {w} : txn'[v] = txn[v]
BY DEF Rolled

-----------------------------------------------------------------------------
(* Steps that leave the tables alone *)

\* The pieces of the invariant, for citing.
LEMMA InvParts ==
    ASSUME PgInv
    PROVE  /\ TypeOK /\ RowLocks /\ EpochsAscend /\ AppendsAreReady /\ ClaimsAreApart
           /\ SealsAreReady /\ KeysAreHeld /\ SealIsFinal /\ OneStartPerKey
           /\ xids \in Nat /\ positions \in Nat
           /\ txn \in [Writers -> Transactions \cup {None}]
           /\ session \in [Writers -> Sessions \cup {None}]
BY DEF PgInv, TypeOK, Sessions

\* What is said of tables alone.
LEMMA TablesFrame ==
    ASSUME PgInv, UNCHANGED tables
    PROVE  EpochsAscend' /\ KeysAreHeld' /\ SealIsFinal' /\ OneStartPerKey' /\ Indexes' = Indexes
BY InvParts DEF tables, EpochsAscend, KeysAreHeld, SealIsFinal, OneStartPerKey, Concluded, Indexes

\* One writer's transaction moves to t, which has established what its
\* statement checks.
LEMMA MoveKeeps ==
    ASSUME PgInv, UNCHANGED <<tables, session>>,
           xids' \in Nat, positions' \in Nat, xids <= xids', positions <= positions',
           NEW w \in Writers, NEW t \in Transactions', Goes(w, t),
           session[w] # None, lease[session[w].run] = session[w].epoch,
           \A v \in Writers \ {w} : Open(v) => session[v].run # session[w].run,
           t.op = "append" => WellFormed(session[w].run, t.batch),
           t.op = "append" /\ t.pc = "commit" =>
            /\ sealed[session[w].run] = None
            /\ \A i \in DOMAIN t.batch : ~Started(w, t.batch, i)
            /\ \A k \in Claims(t.batch) : admission[k] = None
            /\ DOMAIN t.rows = DOMAIN t.batch
            /\ \A i \in DOMAIN t.batch :
                    /\ t.rows[i].kind = t.batch[i].kind /\ t.rows[i].arg = t.batch[i].arg
                    /\ t.rows[i].epoch = session[w].epoch
            /\ \A v \in Writers \ {w} : At(v, "append", "commit") =>
                    Claims(txn[v].batch) \cap Claims(t.batch) = {},
           t.op = "seal" /\ t.pc = "commit" =>
            /\ Concluded(session[w].run)
            /\ t.index # 0 /\ \A n \in Indexes : n < t.index
            /\ \A v \in Writers \ {w} : ~At(v, "seal", "commit")
    PROVE  PgInv'
<1>0. /\ TypeOK /\ RowLocks /\ AppendsAreReady /\ ClaimsAreApart /\ SealsAreReady
      /\ xids \in Nat /\ positions \in Nat
      /\ txn \in [Writers -> Transactions \cup {None}]
  BY InvParts
<1>1. Transactions \subseteq Transactions' /\ \A s \in Seq(Rows) : s \in Seq(Rows')
  BY <1>0, RowsGrow
<1>2. /\ txn' \in [Writers -> Transactions' \cup {None}]
      /\ txn'[w] = t /\ \A v \in Writers \ {w} : txn'[v] = txn[v]
  BY <1>0, <1>1, GoesEffect
<1>3. EpochsAscend' /\ KeysAreHeld' /\ SealIsFinal' /\ OneStartPerKey' /\ Indexes' = Indexes
  BY TablesFrame
<1>4. TypeOK'
  <2>1. journal' \in [Runs -> Seq(Rows')]
    BY <1>0, <1>1 DEF TypeOK, tables
  <2> QED
    BY <1>0, <1>2, <2>1 DEF TypeOK, tables
<1>5. RowLocks'
  BY <1>0, <1>2 DEF RowLocks, Open, tables
<1>6. AppendsAreReady'
  BY <1>0, <1>2 DEF AppendsAreReady, Open, tables, WellFormed, Started
<1>7. ClaimsAreApart'
  <2>1. \A v \in Writers : At(v, "append", "commit")' <=>
            IF v = w THEN t # None /\ t.op = "append" /\ t.pc = "commit" ELSE At(v, "append", "commit")
    BY <1>2 DEF At, Open
  <2>2. SUFFICES ASSUME NEW u \in Writers, NEW v \in Writers, u # v,
                        At(u, "append", "commit")', At(v, "append", "commit")'
                 PROVE  Claims(txn'[u].batch) \cap Claims(txn'[v].batch) = {}
    BY DEF ClaimsAreApart, Claims
  <2>3. CASE u = w
    BY <1>2, <2>1, <2>2, <2>3
  <2>4. CASE v = w
    BY <1>2, <2>1, <2>2, <2>4
  <2>5. CASE u # w /\ v # w
    BY <1>0, <1>2, <2>1, <2>2, <2>5 DEF ClaimsAreApart
  <2> QED
    BY <2>3, <2>4, <2>5
<1>8. SealsAreReady'
  <2>1. \A v \in Writers : At(v, "seal", "commit")' <=>
            IF v = w THEN t # None /\ t.op = "seal" /\ t.pc = "commit" ELSE At(v, "seal", "commit")
    BY <1>2 DEF At, Open
  <2>2. \A v \in Writers : Concluded(session[v].run)' <=> Concluded(session[v].run)
    BY DEF Concluded, tables
  <2> QED
    BY <1>0, <1>2, <1>3, <2>1, <2>2 DEF SealsAreReady
<1> QED
  BY <1>3, <1>4, <1>5, <1>6, <1>7, <1>8 DEF PgInv

\* A writer with no transaction after the step, whatever lease it then holds.
LEMMA DropKeeps ==
    ASSUME PgInv, UNCHANGED <<tables, xids, positions>>, NEW w \in Writers,
           txn' \in [Writers -> Transactions \cup {None}], txn'[w] = None,
           session' \in [Writers -> Sessions \cup {None}],
           \A v \in Writers \ {w} : txn'[v] = txn[v] /\ session'[v] = session[v]
    PROVE  PgInv'
<1>0. /\ TypeOK /\ RowLocks /\ AppendsAreReady /\ ClaimsAreApart /\ SealsAreReady
  BY InvParts
<1>1. EpochsAscend' /\ KeysAreHeld' /\ SealIsFinal' /\ OneStartPerKey' /\ Indexes' = Indexes
  BY TablesFrame
<1>2. TypeOK'
  BY <1>0 DEF TypeOK, tables, Sessions, Rows, Transactions
<1>3. RowLocks'
  BY <1>0 DEF RowLocks, Open, tables
<1>4. AppendsAreReady'
  BY <1>0 DEF AppendsAreReady, Open, tables, WellFormed, Started
<1>5. ClaimsAreApart'
  <2>1. \A v \in Writers : At(v, "append", "commit")' => v # w /\ At(v, "append", "commit")
    BY DEF At, Open
  <2> QED
    BY <1>0, <2>1 DEF ClaimsAreApart
<1>6. SealsAreReady'
  <2>1. \A v \in Writers : At(v, "seal", "commit")' => v # w /\ At(v, "seal", "commit")
    BY DEF At, Open
  <2>2. \A r : Concluded(r)' <=> Concluded(r)
    BY DEF Concluded, tables
  <2> QED
    BY <1>0, <1>1, <2>1, <2>2 DEF SealsAreReady
<1> QED
  BY <1>1, <1>2, <1>3, <1>4, <1>5, <1>6 DEF PgInv

\* A rollback, a death, a task that joins a lease and a page of the feed.
LEMMA FailKeeps ==
    ASSUME PgInv, NEW w \in Writers, Fail(w) \/ Leave(w)
    PROVE  PgInv'
<1>1. txn' \in [Writers -> Transactions \cup {None}] /\ txn'[w] = None
      /\ \A v \in Writers \ {w} : txn'[v] = txn[v]
  BY InvParts DEF Fail, Leave, Rolled
<1>2. session' \in [Writers -> Sessions \cup {None}] /\ \A v \in Writers \ {w} : session'[v] = session[v]
  BY InvParts DEF Fail, Leave
<1>3. UNCHANGED <<tables, xids, positions>>
  BY DEF Fail, Leave
<1> QED
  BY <1>1, <1>2, <1>3, DropKeeps

LEMMA BranchKeeps ==
    ASSUME PgInv, NEW w \in Writers, NEW u \in Writers, Branch(w, u)
    PROVE  PgInv'
<1>1. txn' \in [Writers -> Transactions \cup {None}] /\ txn'[w] = None
      /\ \A v \in Writers \ {w} : txn'[v] = txn[v]
  BY InvParts DEF Branch, RowLocks, Open
<1>2. session' \in [Writers -> Sessions \cup {None}] /\ \A v \in Writers \ {w} : session'[v] = session[v]
  BY InvParts DEF Branch
<1>3. UNCHANGED <<tables, xids, positions>>
  BY DEF Branch
<1> QED
  BY <1>1, <1>2, <1>3, DropKeeps

LEMMA QuietKeeps ==
    ASSUME PgInv, UNCHANGED <<tables, session, txn, xids, positions>>
    PROVE  PgInv'
<1>1. EpochsAscend' /\ KeysAreHeld' /\ SealIsFinal' /\ OneStartPerKey' /\ Indexes' = Indexes
  BY TablesFrame
<1>2. TypeOK' /\ RowLocks'
  BY InvParts DEF TypeOK, RowLocks, Open, tables, Rows, Transactions
<1>3. AppendsAreReady'
  BY InvParts DEF AppendsAreReady, Open, tables, WellFormed, Started
<1>4. ClaimsAreApart' /\ SealsAreReady'
  BY <1>1, InvParts DEF ClaimsAreApart, SealsAreReady, At, Open, Concluded, tables
<1> QED
  BY <1>1, <1>2, <1>3, <1>4 DEF PgInv

\* A transaction begins by locking the lease row of a writer still current.
LEMMA BeginKeeps ==
    ASSUME PgInv, NEW w \in Writers,
           (\E batch \in Batches : BeginAppend(w, batch)) \/ BeginSeal(w)
    PROVE  PgInv'
<1>1. PICK op \in {"append", "seal"}, batch \in Batches \cup {<<>>} :
        Fence(w, op, batch) /\ (op = "append" => WellFormed(session[w].run, batch))
  <2>1. CASE BeginSeal(w)
    BY <2>1 DEF BeginSeal
  <2>2. CASE \E batch \in Batches : BeginAppend(w, batch)
    BY <2>2 DEF BeginAppend
  <2> QED
    BY <2>1, <2>2
<1> DEFINE t == Opened(op, batch)
<1>2. /\ Goes(w, t) /\ xids' = xids + 1 /\ UNCHANGED <<tables, session, positions>>
      /\ session[w] # None /\ lease[session[w].run] = session[w].epoch
      /\ ~Locked(session[w].run)
  BY <1>1 DEF Fence
<1>3. xids \in Nat /\ positions \in Nat
  BY InvParts
<1>4. t \in Transactions' /\ t.op = op /\ t.batch = batch /\ t.pc = "work"
  BY <1>2, <1>3, OpenedFacts
<1>5. \A v \in Writers \ {w} : Open(v) => session[v].run # session[w].run
  BY <1>2 DEF Locked
<1> HIDE DEF t
<1> QED
  BY <1>1, <1>2, <1>3, <1>4, <1>5, MoveKeeps

\* An open transaction holds the lock and the epoch.
LEMMA OpenFacts ==
    ASSUME PgInv, NEW w \in Writers, Open(w)
    PROVE  /\ txn[w] \in Transactions /\ session[w] \in Sessions /\ session[w] # None
           /\ lease[session[w].run] = session[w].epoch
           /\ \A v \in Writers \ {w} : Open(v) => session[v].run # session[w].run
BY InvParts DEF RowLocks, Open

LEMMA AppendWithinKeeps ==
    ASSUME PgInv, NEW w \in Writers, AppendWithin(w)
    PROVE  PgInv'
<1> DEFINE batch == txn[w].batch
           refused == \/ Frozen(session[w].run)
                      \/ \E i \in DOMAIN batch : Started(w, batch, i)
                      \/ \E k \in Claims(batch) : admission[k] # None
<1>1. /\ At(w, "append", "work") /\ ~Contended(w) /\ UNCHANGED <<tables, session, xids>>
      /\ TypeOK /\ xids \in Nat /\ positions \in Nat /\ AppendsAreReady
  BY InvParts DEF AppendWithin
<1>2. /\ txn[w] \in Transactions /\ session[w] \in Sessions /\ session[w] # None
      /\ lease[session[w].run] = session[w].epoch
      /\ \A v \in Writers \ {w} : Open(v) => session[v].run # session[w].run
  BY <1>1, OpenFacts DEF At
<1>3. CASE refused
  <2>1. Rolled(w) /\ UNCHANGED positions
    BY <1>3 DEF AppendWithin
  <2>2. txn' \in [Writers -> Transactions \cup {None}] /\ txn'[w] = None
        /\ \A v \in Writers \ {w} : txn'[v] = txn[v]
    BY <2>1, InvParts DEF Rolled
  <2> QED
    BY <1>1, <2>1, <2>2, InvParts, DropKeeps
<1>4. CASE ~refused
  <2> DEFINE rows == [i \in DOMAIN batch |->
                        [kind |-> batch[i].kind, arg |-> batch[i].arg,
                         epoch |-> session[w].epoch, tx |-> txn[w].xid, pos |-> positions + i]]
             t == [txn[w] EXCEPT !.rows = rows, !.pc = "commit"]
  <2>1. Goes(w, t) /\ positions' = positions + Len(batch)
    BY <1>4 DEF AppendWithin
  <2>2. batch \in Batches \cup {<<>>} /\ Len(batch) \in Nat
    BY <1>2, BatchFacts DEF Transactions
  <2>3. /\ rows \in Seq(Rows') /\ DOMAIN rows = DOMAIN batch
        /\ \A i \in DOMAIN batch :
                /\ rows[i].kind = batch[i].kind /\ rows[i].arg = batch[i].arg
                /\ rows[i].epoch = session[w].epoch
    BY <1>1, <1>2, <2>1, WrittenRows, SMTT(30)
  <2> HIDE DEF rows
  <2>4. /\ t \in Transactions' /\ t.op = "append" /\ t.batch = batch /\ t.pc = "commit"
        /\ t.rows = rows
    <3>1. txn[w] \in Transactions' /\ txn[w].op = "append"
      BY <1>1, <1>2, <2>1, <2>2, RowsGrow, SMTT(30) DEF At
    <3> QED
      BY <2>3, <3>1 DEF Transactions
  <2>5. WellFormed(session[w].run, batch)
    BY <1>1 DEF AppendsAreReady, At
  <2>6. /\ sealed[session[w].run] = None
        /\ \A i \in DOMAIN batch : ~Started(w, batch, i)
        /\ \A k \in Claims(batch) : admission[k] = None
    BY <1>4 DEF Frozen
  <2>7. \A v \in Writers \ {w} : At(v, "append", "commit") =>
            Claims(txn[v].batch) \cap Claims(batch) = {}
    BY <1>1 DEF Contended
  <2> HIDE DEF t, batch
  <2>8. positions' \in Nat /\ positions <= positions' /\ xids' \in Nat /\ xids <= xids'
    BY <1>1, <2>1, <2>2
  <2> QED
    BY <1>1, <1>2, <2>1, <2>3, <2>4, <2>5, <2>6, <2>7, <2>8, MoveKeeps
<1> QED
  BY <1>3, <1>4

\* Under the seal lock the next position is past every one taken.
LEMMA NextIndex ==
    ASSUME PgInv
    PROVE  /\ 1 + Max(Indexes \cup {0}) \in Nat \ {0}
           /\ \A n \in Indexes : n < 1 + Max(Indexes \cup {0})
<1>1. Indexes \subseteq Nat \ {0}
  BY InvParts DEF Indexes, TypeOK
<1>2. \E m \in Indexes \cup {0} : \A n \in Indexes \cup {0} : m >= n
  <2>1. CASE Indexes = {}
    BY <2>1
  <2>2. CASE Indexes # {}
    BY <1>1, <2>2, InvParts DEF SealsAreReady
  <2> QED
    BY <2>1, <2>2
<1>3. /\ Max(Indexes \cup {0}) \in Indexes \cup {0}
      /\ \A n \in Indexes \cup {0} : Max(Indexes \cup {0}) >= n
  BY <1>2 DEF Max
<1>4. PICK m \in Nat : m = Max(Indexes \cup {0})
  BY <1>1, <1>3
<1> QED
  BY <1>1, <1>3, <1>4

LEMMA PlaceKeeps ==
    ASSUME PgInv, NEW w \in Writers, Place(w)
    PROVE  PgInv'
<1>1. /\ At(w, "seal", "work") /\ UNCHANGED <<tables, session, xids, positions>>
      /\ xids \in Nat /\ positions \in Nat
  BY InvParts DEF Place
<1>2. /\ txn[w] \in Transactions /\ session[w] \in Sessions /\ session[w] # None
      /\ lease[session[w].run] = session[w].epoch
      /\ \A v \in Writers \ {w} : Open(v) => session[v].run # session[w].run
  BY <1>1, OpenFacts DEF At
<1>3. CASE ~Concluded(session[w].run)
  <2>1. Rolled(w)
    BY <1>3 DEF Place
  <2>2. txn' \in [Writers -> Transactions \cup {None}] /\ txn'[w] = None
        /\ \A v \in Writers \ {w} : txn'[v] = txn[v]
    BY <2>1, InvParts DEF Rolled
  <2> QED
    BY <1>1, <2>2, InvParts, DropKeeps
<1>4. CASE Concluded(session[w].run)
  <2> DEFINE index == 1 + Max(Indexes \cup {0})
             t == [txn[w] EXCEPT !.pc = "commit", !.index = index]
  <2>1. Goes(w, t) /\ \A v \in Writers : ~At(v, "seal", "commit")
    BY <1>4 DEF Place
  <2>2. index \in Nat \ {0} /\ \A n \in Indexes : n < index
    BY NextIndex
  <2> HIDE DEF index
  <2>3. t \in Transactions' /\ t.op = "seal" /\ t.pc = "commit" /\ t.index = index
    <3>1. txn[w] \in Transactions' /\ txn[w].op = "seal"
      BY <1>1, <1>2, RowsGrow DEF At
    <3> QED
      BY <2>2, <3>1 DEF Transactions
  <2> HIDE DEF t
  <2> QED
    BY <1>1, <1>2, <1>4, <2>1, <2>2, <2>3, MoveKeeps
<1> QED
  BY <1>3, <1>4

-----------------------------------------------------------------------------
(* Leases *)

\* A claim is granted above every epoch of the run's records and its lease row.
LEMMA NextEpochIsNew ==
    ASSUME PgInv, NEW r \in Runs
    PROVE  /\ NextEpoch(r) \in Nat \ {0}
           /\ \A i \in DOMAIN journal[r] : journal[r][i].epoch < NextEpoch(r)
           /\ lease[r] < NextEpoch(r)
<1>1. /\ lease[r] \in Nat /\ journal[r] \in Seq(Rows) /\ EpochsAscend
  BY InvParts DEF TypeOK
<1>2. \A i \in DOMAIN journal[r] : journal[r][i] \in Rows
  BY <1>1
<1>3. \A i \in DOMAIN journal[r] : journal[r][i].epoch \in Nat \ {0}
  BY <1>2 DEF Rows
<1>4. CASE lease[r] # 0
  <2>1. NextEpoch(r) = lease[r] + 1
    BY <1>4 DEF NextEpoch
  <2> QED
    BY <1>1, <1>3, <1>4, <2>1 DEF EpochsAscend
<1>5. CASE lease[r] = 0
  <2> DEFINE E == {rec.epoch : rec \in ToSet(journal[r])} \cup {0}
  <2>1. /\ \A i \in DOMAIN journal[r] : journal[r][i].epoch \in E
        /\ \A e \in E : e = 0 \/ \E i \in DOMAIN journal[r] : e = journal[r][i].epoch
        /\ 0 \in E
    BY DEF ToSet
  <2>2. NextEpoch(r) = 1 + Max(E)
    BY <1>5 DEF NextEpoch
  <2> HIDE DEF E
  <2>3. \E m \in E : \A e \in E : m >= e
    <3>1. CASE journal[r] = <<>>
      BY <1>3, <2>1, <3>1
    <3>2. CASE journal[r] # <<>>
      <4> DEFINE n == Len(journal[r])
      <4>1. n \in DOMAIN journal[r] /\ \A i \in DOMAIN journal[r] : i <= n
        BY <1>1, <3>2
      <4>2. \A i \in DOMAIN journal[r] : journal[r][i].epoch <= journal[r][n].epoch
        BY <1>1, <4>1 DEF EpochsAscend
      <4> HIDE DEF n
      <4> QED
        BY <1>3, <2>1, <4>1, <4>2
    <3> QED
      BY <3>1, <3>2
  <2>4. Max(E) \in E /\ \A e \in E : Max(E) >= e
    BY <2>3 DEF Max
  <2>5. PICK m \in Nat : m = Max(E)
    BY <1>3, <2>1, <2>4
  <2> QED
    BY <1>3, <1>5, <2>1, <2>2, <2>4, <2>5
<1> QED
  BY <1>4, <1>5

\* The claimant's row is not locked: no open transaction is displaced.
LEMMA AcquireKeeps ==
    ASSUME PgInv, NEW w \in Writers, NEW r \in Runs, Acquire(w, r)
    PROVE  PgInv'
<1>0. /\ TypeOK /\ RowLocks /\ EpochsAscend /\ AppendsAreReady /\ ClaimsAreApart
      /\ SealsAreReady /\ KeysAreHeld /\ SealIsFinal /\ OneStartPerKey
  BY InvParts
<1>1. PICK e \in Nat \ {0} : /\ e = NextEpoch(r)
                             /\ \A i \in DOMAIN journal[r] : journal[r][i].epoch < e
  BY NextEpochIsNew
<1>2. /\ lease' \in [Runs -> Nat] /\ lease'[r] = e /\ \A q \in Runs \ {r} : lease'[q] = lease[q]
      /\ session' \in [Writers -> Sessions \cup {None}]
      /\ \A v \in Writers \ {w} : session'[v] = session[v]
      /\ UNCHANGED <<journal, sealed, admission, retired, txn, xids, positions>>
      /\ \A v \in Writers : Open(v) => session[v].run # r
  BY <1>0, <1>1, InvParts DEF Acquire, TypeOK, Sessions, Locked
<1>3. ~Open(w)
  BY <1>0 DEF Acquire, RowLocks
<1>4. \A v \in Writers : Open(v) => session[v] \in Sessions
  BY <1>0, InvParts DEF RowLocks
<1>5. TypeOK'
  BY <1>0, <1>2 DEF TypeOK, Sessions, Rows, Transactions
<1>6. RowLocks'
  BY <1>0, <1>2, <1>3, <1>4 DEF RowLocks, Open, Sessions
<1>7. EpochsAscend'
  <2>1. \A q \in Runs : \A i \in DOMAIN journal[q] : journal[q][i] \in Rows
    BY <1>0 DEF TypeOK
  <2>2. \A q \in Runs : \A i \in DOMAIN journal[q] : journal[q][i].epoch \in Nat
    BY <2>1 DEF Rows
  <2> QED
    BY <1>0, <1>1, <1>2, <2>2 DEF EpochsAscend
<1>8. AppendsAreReady'
  BY <1>0, <1>2, <1>3 DEF AppendsAreReady, Open, WellFormed, Started
<1>9. ClaimsAreApart'
  BY <1>0, <1>2 DEF ClaimsAreApart, At, Open
<1>10. SealsAreReady'
  <2>1. Indexes' = Indexes /\ \A q : Concluded(q)' <=> Concluded(q)
    BY <1>2 DEF Indexes, Concluded
  <2>2. \A v \in Writers : At(v, "seal", "commit")' <=> At(v, "seal", "commit") /\ v # w
    BY <1>2, <1>3 DEF At, Open
  <2> QED
    BY <1>0, <1>2, <2>1, <2>2 DEF SealsAreReady
<1>11. KeysAreHeld' /\ SealIsFinal' /\ OneStartPerKey'
  BY <1>0, <1>2 DEF KeysAreHeld, SealIsFinal, OneStartPerKey, Concluded
<1> QED
  BY <1>5, <1>6, <1>7, <1>8, <1>9, <1>10, <1>11 DEF PgInv

LEMMA ForgetKeeps ==
    ASSUME PgInv, NEW k \in AdmissionKeys, ForgetAdmissions(k)
    PROVE  PgInv'
<1>0. /\ TypeOK /\ RowLocks /\ EpochsAscend /\ AppendsAreReady /\ ClaimsAreApart
      /\ SealsAreReady /\ KeysAreHeld /\ SealIsFinal /\ OneStartPerKey
  BY InvParts
<1>1. /\ UNCHANGED <<journal, lease, sealed, session, txn, xids, positions>>
      /\ admission' \in [AdmissionKeys -> Runs \cup {None}]
      /\ admission'[k] = None /\ \A j \in AdmissionKeys \ {k} : admission'[j] = admission[j]
      /\ retired' = retired \cup {k}
  BY <1>0 DEF ForgetAdmissions, TypeOK
<1>2. TypeOK'
  BY <1>0, <1>1 DEF TypeOK, Rows, Transactions
<1>3. RowLocks' /\ EpochsAscend' /\ SealIsFinal' /\ OneStartPerKey'
  BY <1>0, <1>1 DEF RowLocks, Open, EpochsAscend, SealIsFinal, OneStartPerKey, Concluded
<1>4. AppendsAreReady'
  <2>1. \A w \in Writers : Open(w) => \A j \in Claims(txn[w].batch) : j \in AdmissionKeys
    <3> SUFFICES ASSUME NEW w \in Writers, Open(w), NEW j \in Claims(txn[w].batch)
                 PROVE  j \in AdmissionKeys
      OBVIOUS
    <3>1. txn[w].batch \in Batches \cup {<<>>}
      BY OpenFacts DEF Transactions
    <3>2. PICK i \in DOMAIN txn[w].batch : /\ txn[w].batch[i].kind = "RunAdmitted"
                                          /\ j = txn[w].batch[i].arg /\ j # None
      BY DEF Claims, ToSet
    <3> QED
      BY <3>1, <3>2, BatchFacts
  <2> QED
    BY <1>0, <1>1, <2>1 DEF AppendsAreReady, Open, WellFormed, Started
<1>5. ClaimsAreApart' /\ SealsAreReady'
  <2>1. Indexes' = Indexes /\ \A q : Concluded(q)' <=> Concluded(q)
    BY <1>1 DEF Indexes, Concluded
  <2> QED
    BY <1>0, <1>1, <2>1 DEF ClaimsAreApart, SealsAreReady, At, Open
<1>6. KeysAreHeld'
  BY <1>0, <1>1 DEF KeysAreHeld
<1> QED
  BY <1>2, <1>3, <1>4, <1>5, <1>6 DEF PgInv

-----------------------------------------------------------------------------
(* Commits *)

\* An append's commit to run r, record by record.
CommitFacts(w, r, batch, n, m) ==
    /\ r \in Runs /\ batch \in Batches \cup {<<>>} /\ n \in Nat /\ m \in Nat
    /\ DOMAIN journal[r] = 1 .. n /\ DOMAIN journal'[r] = 1 .. n + m
    /\ DOMAIN batch = 1 .. m
    /\ journal' \in [Runs -> Seq(Rows)] /\ \A q \in Runs \ {r} : journal'[q] = journal[q]
    /\ Len(journal'[r]) = n + m
    /\ \A i \in 1 .. n : journal'[r][i] = journal[r][i]
    /\ \A i \in 1 .. m : /\ journal'[r][n + i].kind = batch[i].kind
                         /\ journal'[r][n + i].arg = batch[i].arg
                         /\ journal'[r][n + i].epoch = lease[r]
    /\ \A i \in 1 .. n + m : i \in 1 .. n \/ \E j \in 1 .. m : i = n + j
    /\ lease[r] \in Nat \ {0}
    /\ txn' \in [Writers -> Transactions \cup {None}]
    /\ txn'[w] = None /\ \A v \in Writers \ {w} : txn'[v] = txn[v]
    /\ UNCHANGED <<lease, sealed, retired, session, xids, positions>>
    /\ admission' = [k \in AdmissionKeys |-> IF k \in Claims(batch) THEN r ELSE admission[k]]
    /\ \A k \in Claims(batch) : admission[k] = None
    /\ sealed[r] = None /\ WellFormed(r, batch)
    /\ \A i \in DOMAIN batch : ~Started(w, batch, i)
    /\ \A v \in Writers \ {w} : Open(v) => session[v].run # r

LEMMA CommitEffect ==
    ASSUME PgInv, NEW w \in Writers, Commit(w), txn[w].op = "append",
           NEW r, NEW batch, NEW n, NEW m,
           r = session[w].run, batch = txn[w].batch, n = Len(journal[r]), m = Len(batch)
    PROVE  CommitFacts(w, r, batch, n, m)
<1>1. Open(w) /\ txn[w].pc = "commit"
  BY DEF Commit
<1>2. /\ txn[w] \in Transactions /\ session[w] \in Sessions
      /\ lease[session[w].run] = session[w].epoch
      /\ \A v \in Writers \ {w} : Open(v) => session[v].run # session[w].run
  BY <1>1, OpenFacts
<1>3. r \in Runs
  BY <1>2 DEF Sessions
<1>4. PICK rows \in Seq(Rows) : rows = txn[w].rows
  BY <1>2 DEF Transactions
<1>5. batch \in Batches \cup {<<>>}
  BY <1>2 DEF Transactions
<1>6. Len(batch) \in Nat /\ DOMAIN batch = 1 .. Len(batch)
  BY <1>5, BatchFacts
<1>7. /\ WellFormed(r, batch) /\ sealed[r] = None
      /\ \A i \in DOMAIN batch : ~Started(w, batch, i)
      /\ \A k \in Claims(batch) : admission[k] = None
      /\ DOMAIN rows = DOMAIN batch
      /\ \A i \in DOMAIN batch : /\ rows[i].kind = batch[i].kind /\ rows[i].arg = batch[i].arg
                                 /\ rows[i].epoch = session[w].epoch
  BY <1>1, <1>3, <1>4, <1>5, InvParts DEF AppendsAreReady
<1>8. journal \in [Runs -> Seq(Rows)] /\ journal[r] \in Seq(Rows)
  BY <1>3, InvParts DEF TypeOK
<1>9. journal' = [journal EXCEPT ![r] = journal[r] \o rows]
  BY <1>3, <1>4 DEF Commit
<1>10. PICK c : c = journal[r] \o rows
  OBVIOUS
<1>11. /\ c \in Seq(Rows) /\ Len(journal[r]) \in Nat /\ Len(rows) \in Nat
       /\ Len(c) = Len(journal[r]) + Len(rows)
       /\ DOMAIN journal[r] = 1 .. Len(journal[r]) /\ DOMAIN rows = 1 .. Len(rows)
       /\ DOMAIN c = 1 .. Len(c)
       /\ \A i \in 1 .. Len(journal[r]) : c[i] = journal[r][i]
       /\ \A i \in 1 .. Len(rows) : c[Len(journal[r]) + i] = rows[i]
       /\ \A i \in 1 .. Len(c) : i \in 1 .. Len(journal[r])
                                 \/ \E j \in 1 .. Len(rows) : i = Len(journal[r]) + j
  <2>1. PICK S : S = Rows
    OBVIOUS
  <2>2. PICK a \in Seq(S) : a = journal[r]
    BY <1>8, <2>1
  <2>3. rows \in Seq(S) /\ c = a \o rows
    BY <1>10, <2>1, <2>2
  <2>4. /\ c \in Seq(S) /\ Len(a) \in Nat /\ Len(rows) \in Nat
        /\ Len(c) = Len(a) + Len(rows)
        /\ DOMAIN a = 1 .. Len(a) /\ DOMAIN rows = 1 .. Len(rows) /\ DOMAIN c = 1 .. Len(c)
        /\ \A i \in 1 .. Len(a) : c[i] = a[i]
        /\ \A i \in 1 .. Len(rows) : c[Len(a) + i] = rows[i]
        /\ \A i \in 1 .. Len(c) : i \in 1 .. Len(a) \/ \E j \in 1 .. Len(rows) : i = Len(a) + j
    <3>1. a \in Seq(S)
      BY <2>2
    <3>2. /\ c \in Seq(S) /\ Len(a) \in Nat /\ Len(rows) \in Nat
          /\ Len(c) = Len(a) + Len(rows)
          /\ DOMAIN a = 1 .. Len(a) /\ DOMAIN rows = 1 .. Len(rows) /\ DOMAIN c = 1 .. Len(c)
      BY <2>3, <3>1
    <3>3. /\ \A i \in 1 .. Len(a) : c[i] = a[i]
          /\ \A i \in 1 .. Len(rows) : c[Len(a) + i] = rows[i]
      BY <2>3, <3>1
    <3>4. \A i \in 1 .. Len(c) : i \notin 1 .. Len(a) => i - Len(a) \in 1 .. Len(rows)
      BY <3>2
    <3>5. \A i \in 1 .. Len(c) : i \in 1 .. Len(a) \/ \E j \in 1 .. Len(rows) : i = Len(a) + j
      <4> SUFFICES ASSUME NEW i \in 1 .. Len(c), i \notin 1 .. Len(a)
                   PROVE  \E j \in 1 .. Len(rows) : i = Len(a) + j
        OBVIOUS
      <4>1. PICK j \in 1 .. Len(rows) : j = i - Len(a)
        BY <3>4
      <4>2. i = Len(a) + j
        BY <3>2, <4>1
      <4> QED
        BY <4>2
    <3> QED
      BY <3>2, <3>3, <3>5
  <2> QED
    BY <2>1, <2>2, <2>4
<1>12. /\ journal' \in [Runs -> Seq(Rows)] /\ journal'[r] = c
       /\ \A q \in Runs \ {r} : journal'[q] = journal[q]
  <2>1. c \in Seq(Rows) /\ journal' = [journal EXCEPT ![r] = c]
    BY <1>9, <1>10, <1>11
  <2>2. r \in Runs /\ journal \in [Runs -> Seq(Rows)]
    BY <1>3, <1>8
  <2> QED
    BY <2>1, <2>2
<1>13. Len(rows) = Len(batch)
  BY <1>6, <1>7, <1>11
<1>14. n \in Nat /\ n = Len(journal[r])
  BY <1>11
<1>15. m \in Nat /\ m = Len(rows)
  BY <1>11, <1>13
<1>16. /\ \A i \in 1 .. n : journal'[r][i] = journal[r][i]
       /\ \A i \in 1 .. m : /\ journal'[r][n + i].kind = batch[i].kind
                            /\ journal'[r][n + i].arg = batch[i].arg
                            /\ journal'[r][n + i].epoch = lease[r]
       /\ \A i \in 1 .. n + m : i \in 1 .. n \/ \E j \in 1 .. m : i = n + j
       /\ Len(journal'[r]) = n + m /\ DOMAIN journal'[r] = 1 .. n + m
  <2>1. \A i \in 1 .. m : i \in DOMAIN batch
    BY <1>6, <1>13, <1>15
  <2>2. \A i \in 1 .. m : /\ rows[i].kind = batch[i].kind /\ rows[i].arg = batch[i].arg
                          /\ rows[i].epoch = lease[r]
    BY <1>2, <1>3, <1>7, <2>1
  <2>3. \A i \in 1 .. m : journal'[r][n + i] = rows[i]
    BY <1>11, <1>12, <1>14, <1>15
  <2> QED
    BY <1>11, <1>12, <1>14, <1>15, <2>2, <2>3
<1>17. lease[r] \in Nat \ {0}
  BY <1>2, <1>3 DEF Sessions
<1>18. /\ txn' \in [Writers -> Transactions \cup {None}]
       /\ txn'[w] = None /\ \A v \in Writers \ {w} : txn'[v] = txn[v]
  BY InvParts DEF Commit, Rolled
<1>19. /\ UNCHANGED <<lease, sealed, retired, session, xids, positions>>
       /\ admission' = [k \in AdmissionKeys |-> IF k \in Claims(batch) THEN r ELSE admission[k]]
  BY <1>3, <1>5 DEF Commit
<1>20. /\ DOMAIN journal[r] = 1 .. n /\ DOMAIN batch = 1 .. m
       /\ \A v \in Writers \ {w} : Open(v) => session[v].run # r
  BY <1>2, <1>3, <1>5, <1>6, <1>11, <1>13, <1>14, <1>15
<1> QED
  BY <1>3, <1>5, <1>7, <1>12, <1>14, <1>15, <1>16, <1>17, <1>18, <1>19, <1>20 DEF CommitFacts

LEMMA CommitAppendKeeps ==
    ASSUME PgInv, NEW w \in Writers, Commit(w), txn[w].op = "append"
    PROVE  PgInv'
<1>0. /\ TypeOK /\ RowLocks /\ EpochsAscend /\ AppendsAreReady /\ ClaimsAreApart
      /\ SealsAreReady /\ KeysAreHeld /\ SealIsFinal /\ OneStartPerKey
  BY InvParts
<1>1. PICK r, batch, n, m :
        r = session[w].run /\ batch = txn[w].batch /\ n = Len(journal[r]) /\ m = Len(batch)
  OBVIOUS
<1>c. CommitFacts(w, r, batch, n, m)
  BY <1>1, CommitEffect
<1>2. /\ r \in Runs /\ batch \in Batches \cup {<<>>} /\ n \in Nat /\ m \in Nat
      /\ DOMAIN journal[r] = 1 .. n /\ DOMAIN journal'[r] = 1 .. n + m
      /\ DOMAIN batch = 1 .. m
      /\ journal' \in [Runs -> Seq(Rows)] /\ \A q \in Runs \ {r} : journal'[q] = journal[q]
      /\ Len(journal'[r]) = n + m
      /\ \A i \in 1 .. n : journal'[r][i] = journal[r][i]
      /\ \A i \in 1 .. m : /\ journal'[r][n + i].kind = batch[i].kind
                           /\ journal'[r][n + i].arg = batch[i].arg
                           /\ journal'[r][n + i].epoch = lease[r]
      /\ \A i \in 1 .. n + m : i \in 1 .. n \/ \E j \in 1 .. m : i = n + j
      /\ lease[r] \in Nat \ {0}
      /\ txn' \in [Writers -> Transactions \cup {None}]
      /\ txn'[w] = None /\ \A v \in Writers \ {w} : txn'[v] = txn[v]
      /\ UNCHANGED <<lease, sealed, retired, session, xids, positions>>
      /\ admission' = [k \in AdmissionKeys |-> IF k \in Claims(batch) THEN r ELSE admission[k]]
      /\ \A k \in Claims(batch) : admission[k] = None
      /\ sealed[r] = None /\ WellFormed(r, batch)
      /\ \A i \in DOMAIN batch : ~Started(w, batch, i)
      /\ \A v \in Writers \ {w} : Open(v) => session[v].run # r
  BY <1>c DEF CommitFacts
<1>3. TypeOK'
  <2>1. admission' \in [AdmissionKeys -> Runs \cup {None}]
    BY <1>0, <1>2 DEF TypeOK
  <2>2. UNCHANGED <<Rows, Transactions>>
    BY <1>2 DEF Rows, Transactions
  <2> QED
    BY <1>0, <1>2, <2>1, <2>2 DEF TypeOK
<1>4. RowLocks'
  <2>1. \A v \in Writers : Open(v)' => v # w /\ Open(v)
    BY <1>2 DEF Open
  <2> QED
    BY <1>0, <1>2, <2>1 DEF RowLocks
<1>5. EpochsAscend'
  <2>1. \A i \in 1 .. n : journal[r][i].epoch \in Nat /\ journal[r][i].epoch <= lease[r]
    <3>1. \A i \in 1 .. n : journal[r][i] \in Rows
      BY <1>0, <1>2 DEF TypeOK
    <3> QED
      BY <1>0, <1>2, <3>1 DEF EpochsAscend, Rows
  <2>2. \A i \in 1 .. n + m : journal'[r][i].epoch <= lease[r]
    <3> SUFFICES ASSUME NEW i \in 1 .. n + m PROVE journal'[r][i].epoch <= lease[r]
      OBVIOUS
    <3>1. CASE i \in 1 .. n
      BY <1>2, <2>1, <3>1
    <3>2. CASE \E j \in 1 .. m : i = n + j
      <4>1. PICK j \in 1 .. m : i = n + j
        BY <3>2
      <4>2. journal'[r][n + j].epoch = lease[r]
        BY <1>2
      <4> QED
        BY <1>2, <4>1, <4>2
    <3> QED
      BY <1>2, <3>1, <3>2
  <2>3. \A i, j \in 1 .. n + m : i <= j => journal'[r][i].epoch <= journal'[r][j].epoch
    <3> SUFFICES ASSUME NEW i \in 1 .. n + m, NEW j \in 1 .. n + m, i <= j
                 PROVE  journal'[r][i].epoch <= journal'[r][j].epoch
      OBVIOUS
    <3>1. CASE j \in 1 .. n
      <4>1. i \in 1 .. n
        BY <1>2, <3>1
      <4> QED
        BY <1>0, <1>2, <3>1, <4>1 DEF EpochsAscend
    <3>2. CASE \E k \in 1 .. m : j = n + k
      BY <1>2, <2>2, <3>2
    <3> QED
      BY <1>2, <3>1, <3>2
  <2>4. ASSUME NEW q \in Runs
        PROVE  /\ \A i, j \in DOMAIN journal'[q] : i <= j => journal'[q][i].epoch <= journal'[q][j].epoch
               /\ \A i \in DOMAIN journal'[q] : lease'[q] # 0 => journal'[q][i].epoch <= lease'[q]
    <3>1. CASE q = r
      BY <1>2, <2>2, <2>3, <3>1
    <3>2. CASE q # r
      BY <1>0, <1>2, <3>2 DEF EpochsAscend
    <3> QED
      BY <3>1, <3>2
  <2> QED
    BY <2>4 DEF EpochsAscend
<1>6. \A k \in Claims(batch) : k \in AdmissionKeys
  <2> SUFFICES ASSUME NEW k \in Claims(batch) PROVE k \in AdmissionKeys
    OBVIOUS
  <2>1. PICK i \in DOMAIN batch : batch[i].kind = "RunAdmitted" /\ k = batch[i].arg /\ k # None
    BY DEF Claims, ToSet
  <2> QED
    BY <1>2, <2>1, BatchFacts
<1>7. AppendsAreReady'
  <2> SUFFICES ASSUME NEW v \in Writers, Open(v)', txn'[v].op = "append"
               PROVE  /\ WellFormed(session[v].run, txn[v].batch)'
                      /\ txn'[v].pc = "commit" =>
                        /\ sealed'[session'[v].run] = None
                        /\ \A i \in DOMAIN txn'[v].batch : ~Started(v, txn[v].batch, i)'
                        /\ \A k \in Claims(txn'[v].batch) : admission'[k] = None
                        /\ DOMAIN txn'[v].rows = DOMAIN txn'[v].batch
                        /\ \A i \in DOMAIN txn'[v].batch :
                                /\ txn'[v].rows[i].kind = txn'[v].batch[i].kind
                                /\ txn'[v].rows[i].arg = txn'[v].batch[i].arg
                                /\ txn'[v].rows[i].epoch = session'[v].epoch
    BY DEF AppendsAreReady, Claims
  <2>1. v # w /\ Open(v) /\ txn'[v] = txn[v] /\ session'[v] = session[v] /\ txn[v].op = "append"
    BY <1>2 DEF Open
  <2>2. journal'[session[v].run] = journal[session[v].run]
    <3>1. session[v].run \in Runs /\ session[v].run # r
      BY <1>2, <2>1, OpenFacts DEF Sessions
    <3> QED
      BY <1>2, <3>1
  <2>3. WellFormed(session[v].run, txn[v].batch)'
    BY <1>0, <2>1, <2>2 DEF AppendsAreReady, WellFormed
  <2>4. ASSUME txn[v].pc = "commit" PROVE \A k \in Claims(txn[v].batch) : admission'[k] = None
    <3> SUFFICES ASSUME NEW k \in Claims(txn[v].batch) PROVE admission'[k] = None
      OBVIOUS
    <3>1. At(w, "append", "commit") /\ At(v, "append", "commit")
      BY <2>1, <2>4 DEF Commit, At
    <3>2. k \notin Claims(batch)
      BY <1>0, <1>1, <2>1, <3>1 DEF ClaimsAreApart
    <3>3. admission[k] = None
      BY <1>0, <2>1, <2>4 DEF AppendsAreReady
    <3>4. txn[v].batch \in Batches \cup {<<>>}
      BY <2>1, OpenFacts DEF Transactions
    <3>5. k \in AdmissionKeys
      <4>1. PICK i \in DOMAIN txn[v].batch :
                txn[v].batch[i].kind = "RunAdmitted" /\ k = txn[v].batch[i].arg /\ k # None
        BY DEF Claims, ToSet
      <4> QED
        BY <3>4, <4>1, BatchFacts
    <3> QED
      BY <1>2, <3>2, <3>3, <3>5
  <2>5. ASSUME txn[v].pc = "commit", NEW i \in DOMAIN txn[v].batch PROVE ~Started(v, txn[v].batch, i)'
    BY <1>0, <2>1, <2>2, <2>5 DEF AppendsAreReady, Started
  <2> QED
    BY <1>0, <1>2, <2>1, <2>3, <2>4, <2>5 DEF AppendsAreReady
<1>8. ClaimsAreApart'
  <2>1. \A v \in Writers : At(v, "append", "commit")' => v # w /\ At(v, "append", "commit")
    BY <1>2 DEF At, Open
  <2> QED
    BY <1>0, <1>2, <2>1, ZenonT(30) DEF ClaimsAreApart
<1>9. SealsAreReady'
  <2>1. Indexes' = Indexes
    BY <1>2 DEF Indexes
  <2>2. \A v \in Writers : At(v, "seal", "commit")' => v # w /\ At(v, "seal", "commit")
    BY <1>2 DEF At, Open
  <2>3. ASSUME NEW v \in Writers, v # w, At(v, "seal", "commit")
        PROVE  Concluded(session[v].run)'
    <3>1. session[v].run \in Runs /\ session[v].run # r
      BY <1>2, <2>3, OpenFacts DEF Sessions, At
    <3>2. Concluded(session[v].run)
      BY <1>0, <2>3 DEF SealsAreReady
    <3> QED
      BY <1>2, <3>1, <3>2 DEF Concluded
  <2> QED
    BY <1>0, <1>2, <2>1, <2>2, <2>3 DEF SealsAreReady
<1>10. KeysAreHeld'
  <2> SUFFICES ASSUME NEW q \in Runs, journal'[q] # <<>>,
                      Head(journal'[q]).arg \notin retired \cup {None}
               PROVE  /\ Head(journal'[q]).arg \in AdmissionKeys
                      /\ admission'[Head(journal'[q]).arg] = q
    BY <1>2 DEF KeysAreHeld
  <2>1. CASE q # r
    <3>1. PICK k : k = Head(journal[q]).arg
      OBVIOUS
    <3>2. k \in AdmissionKeys /\ admission[k] = q /\ q # None
      BY <1>0, <1>2, <2>1, <3>1, PgAssumption DEF KeysAreHeld
    <3> QED
      BY <1>2, <2>1, <3>1, <3>2
  <2>2. CASE q = r /\ n # 0
    <3>1. journal[r] # <<>> /\ Head(journal'[r]) = journal'[r][1] /\ Head(journal[r]) = journal[r][1]
      BY <1>0, <1>1, <1>2, <2>2 DEF TypeOK
    <3>2. PICK k : k = Head(journal[r]).arg
      OBVIOUS
    <3>3. Head(journal'[r]) = Head(journal[r])
      BY <1>2, <2>2, <3>1
    <3>4. k \in AdmissionKeys /\ admission[k] = r /\ r # None
      BY <1>0, <1>2, <2>2, <3>1, <3>2, <3>3, PgAssumption DEF KeysAreHeld
    <3> QED
      BY <1>2, <2>2, <3>2, <3>3, <3>4
  <2>3. CASE q = r /\ n = 0
    <3>1. journal[r] = <<>>
      <4>1. journal[r] \in Seq(Rows) /\ Len(journal[r]) = 0
        BY <1>0, <1>1, <1>2, <2>3 DEF TypeOK
      <4> QED
        BY <4>1
    <3>2. m # 0 /\ 1 \in DOMAIN batch
      BY <1>2, <2>3
    <3>3. Head(journal'[r]).arg = batch[1].arg /\ batch[1].kind = "RunAdmitted"
      <4>1. Head(journal'[r]) = journal'[r][1] /\ 1 \in 1 .. m
        BY <1>2, <2>3, <3>2
      <4>2. journal'[r][1].arg = batch[1].arg
        BY <1>2, <2>3, <4>1
      <4> QED
        BY <1>2, <3>1, <3>2, <4>1, <4>2 DEF WellFormed
    <3>4. batch[1].arg \in Claims(batch)
      BY <2>3, <3>2, <3>3 DEF Claims, ToSet
    <3> QED
      BY <1>2, <1>6, <2>3, <3>3, <3>4
  <2> QED
    BY <2>1, <2>2, <2>3
<1>11. SealIsFinal'
  BY <1>0, <1>2, ZenonT(30) DEF SealIsFinal, Concluded
<1>12. OneStartPerKey'
  <2> SUFFICES ASSUME NEW q \in Runs, NEW i \in DOMAIN journal'[q], NEW j \in DOMAIN journal'[q],
                      journal'[q][i].kind = "EffectStarted", journal'[q][j].kind = "EffectStarted",
                      journal'[q][i].arg = journal'[q][j].arg
               PROVE  i = j
    BY DEF OneStartPerKey
  <2>1. CASE q # r
    <3>1. journal'[q] = journal[q]
      BY <1>2, <2>1
    <3> QED
      BY <1>0, <3>1 DEF OneStartPerKey
  <2>2. CASE q = r
    <3>1. ASSUME NEW x \in 1 .. n, NEW k \in 1 .. m,
                 journal'[r][x].kind = "EffectStarted", batch[k].kind = "EffectStarted",
                 journal'[r][x].arg = batch[k].arg
          PROVE  FALSE
      <4>1. journal[r][x] \in ToSet(journal[r]) /\ journal'[r][x] = journal[r][x]
        BY <1>2 DEF ToSet
      <4>2. Started(w, batch, k)
        BY <1>1, <3>1, <4>1 DEF Started
      <4> QED
        BY <1>2, <4>2
    <3>2. ASSUME NEW x \in 1 .. m, NEW k \in 1 .. m, x < k,
                 batch[x].kind = "EffectStarted", batch[k].kind = "EffectStarted",
                 batch[x].arg = batch[k].arg
          PROVE  FALSE
      <4>1. x \in 1 .. k - 1
        BY <1>2, <3>2
      <4>2. Started(w, batch, k)
        BY <3>2, <4>1 DEF Started
      <4> QED
        BY <1>2, <4>2
    <3>3. CASE i \in 1 .. n /\ j \in 1 .. n
      <4>1. journal'[r][i] = journal[r][i] /\ journal'[r][j] = journal[r][j]
            /\ i \in DOMAIN journal[r] /\ j \in DOMAIN journal[r]
        BY <1>2, <3>3
      <4> QED
        BY <1>0, <1>2, <2>2, <4>1 DEF OneStartPerKey
    <3>4. CASE i \in 1 .. n /\ \E k \in 1 .. m : j = n + k
      <4>1. PICK k \in 1 .. m : j = n + k
        BY <3>4
      <4>2. batch[k].kind = "EffectStarted" /\ batch[k].arg = journal'[r][i].arg
        BY <1>2, <2>2, <4>1
      <4> QED
        BY <2>2, <3>1, <3>4, <4>2
    <3>5. CASE j \in 1 .. n /\ \E k \in 1 .. m : i = n + k
      <4>1. PICK k \in 1 .. m : i = n + k
        BY <3>5
      <4>2. batch[k].kind = "EffectStarted" /\ batch[k].arg = journal'[r][j].arg
        BY <1>2, <2>2, <4>1
      <4> QED
        BY <2>2, <3>1, <3>5, <4>2
    <3>6. CASE (\E x \in 1 .. m : i = n + x) /\ (\E k \in 1 .. m : j = n + k)
      <4>1. PICK x \in 1 .. m : i = n + x
        BY <3>6
      <4>2. PICK k \in 1 .. m : j = n + k
        BY <3>6
      <4>3. ~(x < k) /\ ~(k < x)
        BY <1>2, <2>2, <3>2, <4>1, <4>2
      <4> QED
        BY <1>2, <4>1, <4>2, <4>3
    <3> QED
      BY <1>2, <2>2, <3>3, <3>4, <3>5, <3>6, ZenonT(30)
  <2> QED
    BY <2>1, <2>2
<1> QED
  BY <1>3, <1>4, <1>5, <1>7, <1>8, <1>9, <1>10, <1>11, <1>12 DEF PgInv

LEMMA CommitSealKeeps ==
    ASSUME PgInv, NEW w \in Writers, Commit(w), txn[w].op = "seal"
    PROVE  PgInv'
<1>0. /\ TypeOK /\ RowLocks /\ EpochsAscend /\ AppendsAreReady /\ ClaimsAreApart
      /\ SealsAreReady /\ KeysAreHeld /\ SealIsFinal /\ OneStartPerKey
  BY InvParts
<1>1. At(w, "seal", "commit") /\ Open(w)
  BY DEF Commit, At
<1>2. /\ txn[w] \in Transactions /\ session[w] \in Sessions
      /\ \A v \in Writers \ {w} : Open(v) => session[v].run # session[w].run
  BY <1>1, OpenFacts
<1>3. PICK r \in Runs : r = session[w].run
  BY <1>2 DEF Sessions
<1>4. /\ txn' \in [Writers -> Transactions \cup {None}]
      /\ txn'[w] = None /\ \A v \in Writers \ {w} : txn'[v] = txn[v]
      /\ UNCHANGED <<journal, admission, lease, retired, session, xids, positions>>
  BY InvParts DEF Commit, Rolled
<1>5. CASE sealed[r] # None
  <2>1. UNCHANGED tables
    BY <1>3, <1>4, <1>5 DEF Commit, tables
  <2> QED
    BY <1>4, <2>1, InvParts, DropKeeps
<1>6. CASE sealed[r] = None
  <2>1. PICK index \in Nat \ {0} : index = txn[w].index /\ \A n \in Indexes : n < index
    BY <1>0, <1>1, <1>2 DEF SealsAreReady, Transactions
  <2> DEFINE row == [head |-> Len(journal[r]), index |-> index]
  <2>2. Concluded(r) /\ Len(journal[r]) \in Nat
    BY <1>0, <1>1, <1>3 DEF SealsAreReady, TypeOK
  <2>3. row \in Seals /\ row.head = Len(journal[r]) /\ row.index = index /\ row # None
    <3>1. row \in [head : Nat, index : Nat]
      BY <2>1, <2>2
    <3> QED
      BY <2>1, <2>2, <3>1, PgAssumption DEF Seals
  <2>4. sealed' = [sealed EXCEPT ![r] = row]
    BY <1>3, <1>6, <2>1 DEF Commit
  <2> HIDE DEF row
  <2>5. /\ sealed' \in [Runs -> Seals \cup {None}] /\ sealed'[r] = row
        /\ \A q \in Runs \ {r} : sealed'[q] = sealed[q]
    BY <1>0, <2>3, <2>4 DEF TypeOK, Seals
  <2>6. TypeOK'
    <3>1. UNCHANGED <<Rows, Transactions>>
      BY <1>4 DEF Rows, Transactions
    <3> QED
      BY <1>0, <1>4, <2>5, <3>1 DEF TypeOK, Seals
  <2>7. RowLocks' /\ EpochsAscend' /\ KeysAreHeld' /\ OneStartPerKey'
    BY <1>0, <1>4 DEF RowLocks, Open, EpochsAscend, KeysAreHeld, OneStartPerKey
  <2>8. AppendsAreReady'
    <3>1. \A v \in Writers : Open(v)' => v # w /\ Open(v) /\ session[v].run \in Runs \ {r}
      BY <1>2, <1>3, <1>4, OpenFacts DEF Open, Sessions
    <3> QED
      BY <1>0, <1>4, <2>5, <3>1 DEF AppendsAreReady, WellFormed, Started
  <2>9. ClaimsAreApart'
    <3>1. \A v \in Writers : At(v, "append", "commit")' => v # w /\ At(v, "append", "commit")
      BY <1>4 DEF At, Open
    <3> QED
      BY <1>0, <1>4, <3>1 DEF ClaimsAreApart
  <2>10. SealsAreReady'
    <3>1. \A v \in Writers : ~At(v, "seal", "commit")'
      BY <1>0, <1>1, <1>4 DEF SealsAreReady, At, Open
    <3>2. Indexes' = Indexes \cup {index}
      BY <1>6, <2>3, <2>5 DEF Indexes
    <3>3. Indexes \subseteq Nat
      BY <1>0 DEF Indexes, TypeOK
    <3>4. index \in Indexes' /\ \A n \in Indexes' : n <= index
      <4> HIDE DEF Indexes
      <4>1. index \in Nat /\ \A n \in Indexes : n \in Nat /\ n < index
        BY <2>1, <3>3
      <4>2. index <= index /\ \A n \in Indexes : n <= index
        BY <4>1
      <4> QED
        BY <3>2, <4>2, Zenon
    <3> QED
      BY <3>1, <3>4 DEF SealsAreReady
  <2>11. SealIsFinal'
    BY <1>0, <1>4, <2>2, <2>3, <2>5 DEF SealIsFinal, Concluded
  <2> QED
    BY <2>6, <2>7, <2>8, <2>9, <2>10, <2>11 DEF PgInv
<1> QED
  BY <1>5, <1>6

-----------------------------------------------------------------------------
(* The theorems *)

LEMMA InitPg == Init => PgInv
<1> SUFFICES ASSUME Init PROVE PgInv
  OBVIOUS
<1>1. PICK h \in Histories, total \in 0 .. MaxRecords * Cardinality(Runs) :
        /\ \E from \in [Runs -> 0 .. total] : Restored(h, from, total)
        /\ \E place \in [Runs -> 0 .. Cardinality(Runs)] : Resealed(h, place)
  BY DEF Init
<1>2. PICK from \in [Runs -> 0 .. total] : Restored(h, from, total)
  BY <1>1
<1>3. /\ h \in [Runs -> Seq(Bodies)]
      /\ \A r \in Runs : \A i, j \in DOMAIN h[r] :
            /\ h[r][i].epoch \in Nat \ {0}
            /\ i <= j => h[r][i].epoch <= h[r][j].epoch
            /\ h[r][i].kind = "EffectStarted" /\ h[r][j].kind = "EffectStarted"
               /\ h[r][i].arg = h[r][j].arg => i = j
  BY HistoriesAreSound
<1>4. \A r, q \in Runs :
        h[r] # <<>> /\ h[q] # <<>> =>
            /\ Head(h[r]).arg \in AdmissionKeys \cup {None}
            /\ Head(h[r]).arg = Head(h[q]).arg => r = q \/ Head(h[r]).arg = None
  BY HistoriesAreSound
<1>5. /\ lease = [r \in Runs |-> 0]
      /\ session = [w \in Writers |-> None] /\ txn = [w \in Writers |-> None]
      /\ xids = 0 /\ retired = {} /\ positions = total /\ total \in Nat
  BY <1>2 DEF Init, Restored
<1>6. journal = [r \in Runs |-> [n \in DOMAIN h[r] |->
            [kind |-> h[r][n].kind, arg |-> h[r][n].arg, epoch |-> h[r][n].epoch,
             tx |-> 0, pos |-> from[r] + n]]]
  BY <1>2 DEF Restored
<1>7. ASSUME NEW r \in Runs
      PROVE  /\ journal[r] \in Seq(Rows) /\ DOMAIN journal[r] = DOMAIN h[r]
             /\ \A n \in DOMAIN h[r] : /\ journal[r][n].kind = h[r][n].kind
                                       /\ journal[r][n].arg = h[r][n].arg
                                       /\ journal[r][n].epoch = h[r][n].epoch
             /\ journal[r] # <<>> => h[r] # <<>> /\ Head(journal[r]).arg = Head(h[r]).arg
  <2>1. h[r] \in Seq(Bodies) /\ Len(h[r]) \in Nat /\ DOMAIN h[r] = 1 .. Len(h[r])
    BY <1>3
  <2>2. \A n \in 1 .. Len(h[r]) : from[r] + n \in 1 .. total
    <3>1. \A n \in DOMAIN h[r] : from[r] + n \in UNION {{from[q] + i : i \in DOMAIN h[q]} : q \in Runs}
      OBVIOUS
    <3>2. UNION {{from[q] + i : i \in DOMAIN h[q]} : q \in Runs} = 1 .. total
      BY <1>2 DEF Restored
    <3> QED
      BY <2>1, <3>1, <3>2
  <2>3. journal[r] = [n \in 1 .. Len(h[r]) |->
            [kind |-> h[r][n].kind, arg |-> h[r][n].arg, epoch |-> h[r][n].epoch,
             tx |-> 0, pos |-> from[r] + n]]
    BY <1>6, <2>1
  <2>4. \A n \in 1 .. Len(h[r]) : h[r][n].kind \in Kinds /\ h[r][n].arg \in Args
    BY <2>1 DEF Kinds, Args
  <2>5. \A n \in 1 .. Len(h[r]) : journal[r][n] \in Rows
    <3> SUFFICES ASSUME NEW n \in 1 .. Len(h[r]) PROVE journal[r][n] \in Rows
      OBVIOUS
    <3>1. n \in DOMAIN h[r]
      BY <2>1
    <3>2. h[r][n].epoch \in Nat \ {0}
      BY <1>3, <3>1
    <3>3. 0 \in 0 .. xids
      BY <1>5
    <3>4. from[r] + n \in 1 .. positions
      BY <1>5, <2>2
    <3> QED
      BY <2>3, <2>4, <3>2, <3>3, <3>4 DEF Rows
  <2>6. journal[r] \in Seq(Rows)
    <3>1. journal[r] \in [1 .. Len(h[r]) -> Rows]
      BY <2>3, <2>5
    <3> QED
      BY <2>1, <3>1
  <2>7. /\ DOMAIN journal[r] = DOMAIN h[r]
        /\ \A n \in DOMAIN h[r] : /\ journal[r][n].kind = h[r][n].kind
                                  /\ journal[r][n].arg = h[r][n].arg
                                  /\ journal[r][n].epoch = h[r][n].epoch
    BY <2>1, <2>3
  <2>8. ASSUME journal[r] # <<>> PROVE h[r] # <<>> /\ Head(journal[r]).arg = Head(h[r]).arg
    <3>1. 1 \in DOMAIN journal[r] /\ Head(journal[r]) = journal[r][1]
      BY <2>6, <2>8
    <3>2. h[r] # <<>> /\ Head(h[r]) = h[r][1]
      BY <2>1, <2>7, <3>1
    <3> QED
      BY <2>7, <3>1, <3>2
  <2> QED
    BY <2>6, <2>7, <2>8
<1>a. PICK place \in [Runs -> 0 .. Cardinality(Runs)] : Resealed(h, place)
  BY <1>1
<1>b. ASSUME NEW r \in Runs
      PROVE  /\ place[r] \in Nat /\ Len(h[r]) \in Nat
             /\ place[r] = 0 => sealed[r] = None
             /\ place[r] # 0 => /\ sealed[r] \in Seals /\ sealed[r] # None
                                /\ sealed[r].head = Len(h[r]) /\ sealed[r].index = place[r]
                                /\ h[r] # <<>> /\ Last(h[r]).kind = "RunConcluded"
  <2>1. place[r] \in Nat /\ Len(h[r]) \in Nat
    BY <1>3, PgAssumption, FS_CardinalityType
  <2>2. sealed[r] = IF place[r] = 0 THEN None ELSE [head |-> Len(h[r]), index |-> place[r]]
    BY <1>a DEF Resealed
  <2>3. place[r] # 0 => h[r] # <<>> /\ Last(h[r]).kind = "RunConcluded"
    BY <1>a DEF Resealed
  <2>4. ASSUME place[r] # 0
        PROVE  /\ sealed[r] \in Seals /\ sealed[r] # None
               /\ sealed[r].head = Len(h[r]) /\ sealed[r].index = place[r]
    <3>1. sealed[r] = [head |-> Len(h[r]), index |-> place[r]]
      BY <2>2, <2>4
    <3>2. sealed[r] \in Seals /\ sealed[r].head = Len(h[r]) /\ sealed[r].index = place[r]
      BY <2>1, <2>4, <3>1 DEF Seals
    <3>3. sealed[r] \in [head : Nat, index : Nat]
      BY <3>2 DEF Seals
    <3> QED
      BY <3>2, <3>3, PgAssumption
  <2> QED
    BY <2>1, <2>2, <2>3, <2>4
<1>c. SealIsFinal
  <2> SUFFICES ASSUME NEW r \in Runs, sealed[r] # None
               PROVE  sealed[r].head = Len(journal[r]) /\ Concluded(r)
    BY DEF SealIsFinal
  <2>1. /\ sealed[r].head = Len(h[r]) /\ h[r] # <<>> /\ Last(h[r]).kind = "RunConcluded"
    BY <1>b
  <2>2. /\ Len(h[r]) \in Nat /\ Len(journal[r]) \in Nat
        /\ DOMAIN journal[r] = 1 .. Len(journal[r]) /\ DOMAIN h[r] = 1 .. Len(h[r])
    BY <1>3, <1>7
  <2>3. Len(journal[r]) = Len(h[r])
    BY <1>7, <2>2
  <2>4. Len(h[r]) \in DOMAIN h[r]
    BY <1>3, <2>1, <2>2
  <2>5. journal[r] # <<>> /\ Last(journal[r]).kind = "RunConcluded"
    BY <1>7, <2>1, <2>2, <2>3, <2>4 DEF Last
  <2> QED
    BY <2>1, <2>3, <2>5 DEF Concluded
<1>d. Indexes # {} => \E m \in Indexes : \A n \in Indexes : n <= m
  <2> DEFINE ended == {r \in Runs : place[r] # 0}
  <2>1. {place[r] : r \in ended} = 1 .. Cardinality(ended)
    BY <1>a DEF Resealed
  <2>2. ended = {q \in Runs : sealed[q] # None} /\ \A r \in ended : sealed[r].index = place[r]
    BY <1>b
  <2>3. Indexes = {place[r] : r \in ended}
    BY <2>2 DEF Indexes
  <2>4. Cardinality(ended) \in Nat
    BY PgAssumption, FS_Subset, FS_CardinalityType
  <2> HIDE DEF ended
  <2> QED
    BY <2>1, <2>3, <2>4
<1>8. TypeOK
  <2>1. journal \in [Runs -> Seq(Rows)]
    BY <1>6, <1>7
  <2>2. admission \in [AdmissionKeys -> Runs \cup {None}]
    <3> DEFINE admitted(k) == {r \in Runs : h[r] # <<>> /\ Head(h[r]).arg = k}
    <3>1. admission = [k \in AdmissionKeys |-> IF admitted(k) = {} THEN None ELSE CHOOSE r \in admitted(k) : TRUE]
      BY <1>2 DEF Restored
    <3>2. \A k : admitted(k) \subseteq Runs
      OBVIOUS
    <3> HIDE DEF admitted
    <3>3. \A k : admitted(k) # {} => (CHOOSE r \in admitted(k) : TRUE) \in Runs
      BY <3>2
    <3> QED
      BY <3>1, <3>3
  <2>3. sealed \in [Runs -> Seals \cup {None}]
    <3>1. \A r \in Runs : sealed[r] \in Seals \cup {None}
      BY <1>b
    <3>2. sealed = [r \in Runs |-> sealed[r]]
      BY <1>a DEF Resealed
    <3> QED
      BY <3>1, <3>2
  <2> QED
    BY <1>5, <2>1, <2>2, <2>3 DEF TypeOK, Seals
<1>9. RowLocks /\ AppendsAreReady /\ ClaimsAreApart
  BY <1>5 DEF RowLocks, AppendsAreReady, ClaimsAreApart, At, Open
<1>10. SealsAreReady
  BY <1>5, <1>d DEF SealsAreReady, At, Open
<1>11. EpochsAscend
  BY <1>3, <1>5, <1>7 DEF EpochsAscend
<1>12. OneStartPerKey
  <2> SUFFICES ASSUME NEW r \in Runs, NEW i \in DOMAIN journal[r], NEW j \in DOMAIN journal[r],
                      journal[r][i].kind = "EffectStarted", journal[r][j].kind = "EffectStarted",
                      journal[r][i].arg = journal[r][j].arg
               PROVE  i = j
    BY DEF OneStartPerKey
  <2>1. /\ i \in DOMAIN h[r] /\ j \in DOMAIN h[r]
        /\ h[r][i].kind = "EffectStarted" /\ h[r][j].kind = "EffectStarted"
        /\ h[r][i].arg = h[r][j].arg
    BY <1>7
  <2> QED
    BY <1>3, <2>1
<1>13. KeysAreHeld
  <2> SUFFICES ASSUME NEW r \in Runs, journal[r] # <<>>, Head(journal[r]).arg \notin {None}
               PROVE  /\ Head(journal[r]).arg \in AdmissionKeys
                      /\ admission[Head(journal[r]).arg] = r
    BY <1>5 DEF KeysAreHeld
  <2>1. PICK k : k = Head(h[r]).arg
    OBVIOUS
  <2>2. h[r] # <<>> /\ Head(journal[r]).arg = k /\ k # None
    BY <1>7, <2>1
  <2>3. k \in AdmissionKeys
    BY <1>4, <2>1, <2>2
  <2> DEFINE admitted == {q \in Runs : h[q] # <<>> /\ Head(h[q]).arg = k}
  <2>4. admission[k] = IF admitted = {} THEN None ELSE CHOOSE q \in admitted : TRUE
    BY <1>2, <2>3 DEF Restored
  <2>5. admitted = {r}
    BY <1>4, <2>1, <2>2
  <2> HIDE DEF admitted
  <2>6. admission[k] = r
    BY <2>4, <2>5
  <2> QED
    BY <2>2, <2>3, <2>6
<1> QED
  BY <1>8, <1>9, <1>10, <1>11, <1>12, <1>13, <1>c DEF PgInv

LEMMA NextPg == PgInv /\ [Next]_vars => PgInv'
<1> SUFFICES ASSUME PgInv, [Next]_vars PROVE PgInv'
  OBVIOUS
<1>1. CASE UNCHANGED vars \/ Feed
  BY <1>1, QuietKeeps DEF vars, Feed
<1>2. ASSUME NEW w \in Writers, Commit(w) PROVE PgInv'
  <2>1. txn[w].op \in {"append", "seal"}
    BY <1>2, OpenFacts DEF Commit, Transactions
  <2> QED
    BY <1>2, <2>1, CommitAppendKeeps, CommitSealKeeps
<1>3. CASE \E w \in Writers :
             BeginSeal(w) \/ AppendWithin(w) \/ Place(w) \/ Commit(w) \/ Fail(w) \/ Leave(w)
  BY <1>2, <1>3, BeginKeeps, AppendWithinKeeps, PlaceKeeps, FailKeeps
<1>4. CASE \E w \in Writers, batch \in Batches : BeginAppend(w, batch)
  BY <1>4, BeginKeeps
<1>5. CASE \E w \in Writers, r \in Runs : Acquire(w, r)
  BY <1>5, AcquireKeeps
<1>6. CASE \E w, v \in Writers : Branch(w, v)
  BY <1>6, BranchKeeps
<1>7. CASE \E k \in AdmissionKeys : ForgetAdmissions(k)
  BY <1>7, ForgetKeeps
<1> QED
  BY <1>1, <1>3, <1>4, <1>5, <1>6, <1>7 DEF Next

LEMMA PgHolds == Spec => []PgInv
BY InitPg, NextPg, PTL DEF Spec

\* However the transactions of any number of writers overlap, fail and are
\* taken over: a sealed run ends at the conclusion its seal committed, an
\* admission key names one run and an effect starts once.
THEOREM TablesStayInAgreement == Spec => []TablesAgree
<1>1. PgInv => TablesAgree
  <2> SUFFICES ASSUME PgInv PROVE TablesAgree
    OBVIOUS
  <2>1. TypeOK /\ SealIsFinal /\ OneStartPerKey /\ KeysAreHeld
    BY InvParts
  <2>2. OneRunPerKey
    <3> SUFFICES ASSUME NEW r \in Runs, NEW q \in Runs, journal[r] # <<>>, journal[q] # <<>>,
                        Head(journal[r]).arg = Head(journal[q]).arg,
                        Head(journal[r]).arg \notin retired \cup {None}
                 PROVE  r = q
      BY DEF OneRunPerKey
    <3> QED
      BY <2>1 DEF KeysAreHeld
  <2> QED
    BY <2>1, <2>2 DEF TablesAgree
<1> QED
  BY <1>1, PgHolds, PTL

-----------------------------------------------------------------------------
(* The refinement of the fenced log *)

\* What the abstract log shows of a chain.
LEMMA ChainFacts ==
    ASSUME NEW j, NEW n \in Nat, DOMAIN j = 1 .. n,
           NEW c, c = [i \in DOMAIN j |-> [kind |-> j[i].kind, arg |-> j[i].arg, epoch |-> j[i].epoch]]
    PROVE  /\ Len(c) = n
           /\ \A i \in 1 .. n : c[i] = [kind |-> j[i].kind, arg |-> j[i].arg, epoch |-> j[i].epoch]
OBVIOUS

\* A run's token is the lease row's epoch, or its last record's.
LEMMA TokenFacts ==
    ASSUME PgInv, NEW r \in Runs
    PROVE  TokenOf(r) \in Nat /\ NextEpoch(r) > TokenOf(r) /\ NextEpoch(r) \in Nat \ {0}
<1>1. /\ lease[r] \in Nat /\ journal[r] \in Seq(Rows)
  BY InvParts DEF TypeOK
<1>2. /\ NextEpoch(r) \in Nat \ {0} /\ lease[r] < NextEpoch(r)
      /\ \A i \in DOMAIN journal[r] : journal[r][i].epoch < NextEpoch(r)
  BY NextEpochIsNew
<1>3. CASE lease[r] = 0 /\ journal[r] # <<>>
  <2>1. PICK n \in DOMAIN journal[r] : Last(journal[r]) = journal[r][n] /\ journal[r][n] \in Rows
    BY <1>1, <1>3 DEF Last
  <2> QED
    BY <1>2, <1>3, <2>1 DEF TokenOf, Rows
<1>4. CASE lease[r] # 0
  BY <1>1, <1>2, <1>4 DEF TokenOf
<1>5. CASE lease[r] = 0 /\ journal[r] = <<>>
  BY <1>2, <1>5 DEF TokenOf
<1> QED
  BY <1>3, <1>4, <1>5

LEMMA ShowsNothing ==
    ASSUME UNCHANGED <<journal, lease, sealed>>
    PROVE  UNCHANGED Log!logVars
<1>1. \A r \in Runs : TokenOf(r)' = TokenOf(r) /\ Chain(r)' = Chain(r)
  BY DEF TokenOf, Chain
<1>2. [r \in Runs |-> TokenOf(r)]' = [r \in Runs |-> TokenOf(r)]
  BY <1>1
<1>3. [r \in Runs |-> Chain(r)]' = [r \in Runs |-> Chain(r)]
  BY <1>1
<1>4. [r \in Runs |-> sealed[r] # None]' = [r \in Runs |-> sealed[r] # None]
  OBVIOUS
<1> QED
  BY <1>2, <1>3, <1>4 DEF Log!logVars

LEMMA AcquireGrants ==
    ASSUME PgInv, NEW w \in Writers, NEW r \in Runs, Acquire(w, r)
    PROVE  Log!Grant(r)
<1>1. PICK e \in Nat \ {0} : e = NextEpoch(r) /\ e > TokenOf(r)
  BY TokenFacts
<1>2. /\ UNCHANGED <<journal, sealed>>
      /\ lease'[r] = e /\ \A q \in Runs \ {r} : lease'[q] = lease[q]
  BY <1>1, InvParts DEF Acquire, TypeOK
<1>3. TokenOf(r)' = e /\ \A q \in Runs \ {r} : TokenOf(q)' = TokenOf(q)
  BY <1>1, <1>2 DEF TokenOf
<1>4. [q \in Runs |-> sealed[q] # None]' = [q \in Runs |-> sealed[q] # None]
  BY <1>2
<1>5. [q \in Runs |-> Chain(q)]' = [q \in Runs |-> Chain(q)]
  BY <1>2 DEF Chain
<1> QED
  BY <1>1, <1>3, <1>4, <1>5 DEF Log!Grant

LEMMA CommitAppendWrites ==
    ASSUME PgInv, NEW w \in Writers, Commit(w), txn[w].op = "append"
    PROVE  [Log!Next]_(Log!logVars)
<1>1. PICK r, batch, n, m : /\ r = session[w].run /\ batch = txn[w].batch
                            /\ n = Len(journal[r]) /\ m = Len(batch)
  OBVIOUS
<1>c. CommitFacts(w, r, batch, n, m)
  BY <1>1, CommitEffect
<1>2. /\ r \in Runs /\ n \in Nat /\ m \in Nat
      /\ DOMAIN journal[r] = 1 .. n /\ DOMAIN journal'[r] = 1 .. n + m
      /\ \A q \in Runs \ {r} : journal'[q] = journal[q]
      /\ \A i \in 1 .. n : journal'[r][i] = journal[r][i]
      /\ \A i \in 1 .. m : journal'[r][n + i].epoch = lease[r]
      /\ \A i \in 1 .. n + m : i \in 1 .. n \/ \E j \in 1 .. m : i = n + j
      /\ lease[r] \in Nat \ {0} /\ sealed[r] = None
      /\ UNCHANGED <<lease, sealed>>
  BY <1>c DEF CommitFacts
<1>3. /\ journal[r] \in Seq(Rows) /\ journal'[r] \in Seq(Rows) /\ journal \in [Runs -> Seq(Rows)]
      /\ journal' \in [Runs -> Seq(Rows)]
  BY <1>c, <1>2, InvParts DEF CommitFacts, TypeOK
<1>4. CASE m = 0
  <2>1. journal'[r] = journal[r]
    BY <1>2, <1>3, <1>4
  <2>2. journal' = journal
    BY <1>2, <1>3, <2>1
  <2> QED
    BY <1>2, <2>2, ShowsNothing
<1>5. CASE m # 0
  <2>1. PICK old : old = Chain(r)
    OBVIOUS
  <2>2. PICK new : new = Chain(r)'
    OBVIOUS
  <2>3. /\ Len(old) = n
        /\ \A i \in 1 .. n : old[i] = [kind |-> journal[r][i].kind, arg |-> journal[r][i].arg,
                                        epoch |-> journal[r][i].epoch]
    BY <1>2, <2>1, ChainFacts DEF Chain
  <2>4. n + m \in Nat
    BY <1>2
  <2>5. /\ Len(new) = n + m
        /\ \A i \in 1 .. n + m : new[i] = [kind |-> journal'[r][i].kind, arg |-> journal'[r][i].arg,
                                            epoch |-> journal'[r][i].epoch]
    BY <1>2, <2>2, <2>4, ChainFacts DEF Chain
  <2>6. Len(new) > Len(old)
    BY <1>2, <1>5, <2>3, <2>5
  <2>7. \A i \in 1 .. Len(old) : new[i] = old[i]
    <3> SUFFICES ASSUME NEW i \in 1 .. n PROVE new[i] = old[i]
      BY <2>3
    <3>1. i \in 1 .. n + m /\ journal'[r][i] = journal[r][i]
      BY <1>2
    <3> QED
      BY <2>3, <2>5, <3>1
  <2>8. \A i \in (Len(old) + 1) .. Len(new) : new[i].epoch = lease[r]
    <3> SUFFICES ASSUME NEW i \in (n + 1) .. (n + m) PROVE new[i].epoch = lease[r]
      BY <2>3, <2>5
    <3>1. i \in 1 .. n + m /\ i \notin 1 .. n
      BY <1>2
    <3>2. journal'[r][i].epoch = lease[r]
      <4>1. PICK j \in 1 .. m : i = n + j
        BY <1>2, <3>1
      <4> QED
        BY <1>2, <4>1
    <3> QED
      BY <2>5, <3>1, <3>2
  <2>9. TokenOf(r) = lease[r] /\ \A q \in Runs : TokenOf(q)' = TokenOf(q)
    BY <1>2 DEF TokenOf
  <2>10. \A q \in Runs \ {r} : Chain(q)' = Chain(q)
    BY <1>2 DEF Chain
  <2>11. [q \in Runs |-> TokenOf(q)]' = [q \in Runs |-> TokenOf(q)]
    BY <2>9
  <2>12. [q \in Runs |-> sealed[q] # None]' = [q \in Runs |-> sealed[q] # None]
    BY <1>2
  <2>13. ~[q \in Runs |-> sealed[q] # None][r]
    BY <1>2
  <2>14. [q \in Runs |-> TokenOf(q)][r] = lease[r]
    BY <1>2, <2>9
  <2>15. [q \in Runs |-> Chain(q)][r] = old /\ [q \in Runs |-> Chain(q)]'[r] = new
    BY <1>2, <2>1, <2>2
  <2>16. \A q \in Runs \ {r} : [p \in Runs |-> Chain(p)]'[q] = [p \in Runs |-> Chain(p)][q]
    BY <2>10
  <2>17. Log!Write(r)
    BY <2>6, <2>7, <2>8, <2>11, <2>12, <2>13, <2>14, <2>15, <2>16, Zenon DEF Log!Write
  <2> QED
    BY <1>2, <2>17 DEF Log!Next
<1> QED
  BY <1>2, <1>4, <1>5

LEMMA CommitSealCloses ==
    ASSUME PgInv, NEW w \in Writers, Commit(w), txn[w].op = "seal"
    PROVE  [Log!Next]_(Log!logVars)
<1>1. At(w, "seal", "commit") /\ Open(w)
  BY DEF Commit, At
<1>2. PICK r \in Runs : r = session[w].run
  BY <1>1, OpenFacts DEF Sessions
<1>3. UNCHANGED <<journal, lease>>
  BY DEF Commit
<1>4. CASE sealed[r] # None
  BY <1>2, <1>3, <1>4, ShowsNothing DEF Commit
<1>5. CASE sealed[r] = None
  <2>1. PICK row : row = [head |-> Len(journal[r]), index |-> txn[w].index]
    OBVIOUS
  <2>2. row # None
    <3>1. txn[w].index \in Nat /\ Len(journal[r]) \in Nat
      BY <1>1, OpenFacts, InvParts DEF Transactions, TypeOK
    <3> QED
      BY <2>1, <3>1, PgAssumption
  <2>3. sealed' = [sealed EXCEPT ![r] = row]
    BY <1>2, <1>5, <2>1 DEF Commit
  <2>4. sealed'[r] # None /\ \A q \in Runs \ {r} : sealed'[q] = sealed[q]
    BY <2>2, <2>3, InvParts DEF TypeOK
  <2>5. [q \in Runs |-> sealed[q] # None]' =
            [[q \in Runs |-> sealed[q] # None] EXCEPT ![r] = TRUE]
    <3>1. \A q \in Runs : (sealed'[q] # None) = (IF q = r THEN TRUE ELSE sealed[q] # None)
      BY <2>4
    <3> QED
      BY <3>1, Zenon
  <2>6. ~[q \in Runs |-> sealed[q] # None][r]
    BY <1>5
  <2>7. [q \in Runs |-> TokenOf(q)]' = [q \in Runs |-> TokenOf(q)]
    BY <1>3 DEF TokenOf
  <2>8. [q \in Runs |-> Chain(q)]' = [q \in Runs |-> Chain(q)]
    BY <1>3 DEF Chain
  <2>9. [q \in Runs |-> Chain(q)][r] # <<>>
    <3>1. journal[r] # <<>> /\ journal[r] \in Seq(Rows)
      BY <1>1, <1>2, InvParts DEF SealsAreReady, Concluded, TypeOK
    <3>2. 1 \in DOMAIN journal[r]
      BY <3>1
    <3>3. DOMAIN Chain(r) = DOMAIN journal[r]
      BY DEF Chain
    <3>4. Chain(r) # <<>>
      BY <3>2, <3>3
    <3> QED
      BY <3>4
  <2>10. Log!Close(r)
    BY <2>5, <2>6, <2>7, <2>8, <2>9, Zenon DEF Log!Close
  <2> QED
    BY <2>10 DEF Log!Next
<1> QED
  BY <1>4, <1>5

\* Every step of the shared store is a step of the abstract log or changes
\* nothing there.
LEMMA StepRefines ==
    ASSUME PgInv, [Next]_vars
    PROVE  [Log!Next]_(Log!logVars)
<1>1. ASSUME NEW w \in Writers, NEW r \in Runs, Acquire(w, r)
      PROVE  Log!Next
  BY <1>1, AcquireGrants DEF Log!Next
<1>2. ASSUME NEW w \in Writers, Commit(w)
      PROVE  [Log!Next]_(Log!logVars)
  <2>1. txn[w].op \in {"append", "seal"}
    BY <1>2, OpenFacts DEF Commit, Transactions
  <2> QED
    BY <1>2, <2>1, CommitAppendWrites, CommitSealCloses
<1>3. \/ UNCHANGED <<journal, lease, sealed>>
      \/ \E w \in Writers, r \in Runs : Acquire(w, r)
      \/ \E w \in Writers : Commit(w)
  BY ZenonT(30) DEF Next, vars, tables, Branch, BeginAppend, BeginSeal, Fence, AppendWithin, Place, Fail,
         Leave, ForgetAdmissions, Feed
<1> QED
  BY <1>1, <1>2, <1>3, ShowsNothing

\* The shared store writes, grants and closes as the embedded one does: the
\* statements of overlapping transactions never show in the log, for any
\* number of instances, from an empty store or a restored one.
THEOREM SharedStoreStepsAsLog == Spec => StepsAsFencedLog
<1>1. PgInv /\ [Next]_vars => [Log!Next]_(Log!logVars)
  BY StepRefines
<1> QED
  BY <1>1, PgHolds, PTL DEF Spec, StepsAsFencedLog

-----------------------------------------------------------------------------
(* A finite set in order *)

\* In a finite set where what is below an element is a strict total order,
\* every rank is taken and ranks rise with the order.
LEMMA RanksAreTaken ==
    ASSUME NEW S, IsFiniteSet(S), NEW B,
           \A p \in S : B[p] \subseteq S /\ p \notin B[p],
           \A p, q \in S : p # q => p \in B[q] \/ q \in B[p],
           \A p, q \in S : p \in B[q] => B[p] \subseteq B[q]
    PROVE  /\ Cardinality(S) \in Nat
           /\ \A p \in S : Cardinality(B[p]) \in Nat
           /\ \A p, q \in S : p \in B[q] => Cardinality(B[p]) < Cardinality(B[q])
           /\ \A i \in 1 .. Cardinality(S) : \E p \in S : Cardinality(B[p]) = i - 1
<1> DEFINE n == Cardinality(S)
<1>1. n \in Nat
  BY FS_CardinalityType
<1>2. ASSUME NEW p \in S PROVE IsFiniteSet(B[p]) /\ Cardinality(B[p]) \in Nat
  <2>1. IsFiniteSet(B[p])
    BY FS_Subset
  <2> QED
    BY <2>1, FS_CardinalityType
<1>3. ASSUME NEW p \in S, NEW q \in S, p \in B[q]
      PROVE  Cardinality(B[p]) < Cardinality(B[q])
  <2>1. B[p] \in SUBSET B[q] /\ B[p] # B[q]
    BY <1>3
  <2>2. /\ Cardinality(B[p]) <= Cardinality(B[q])
        /\ Cardinality(B[q]) = Cardinality(B[p]) => B[q] = B[p]
    BY <1>2, <2>1, FS_Subset
  <2> QED
    BY <1>2, <2>1, <2>2
<1>4. ASSUME NEW p \in S PROVE Cardinality(B[p]) < n
  <2>1. B[p] \in SUBSET S /\ B[p] # S
    OBVIOUS
  <2>2. /\ Cardinality(B[p]) <= Cardinality(S)
        /\ Cardinality(S) = Cardinality(B[p]) => S = B[p]
    BY <2>1, FS_Subset
  <2> QED
    BY <1>1, <1>2, <2>1, <2>2
<1> HIDE DEF n
<1> DEFINE f == [p \in S |-> Cardinality(B[p]) + 1]
<1>5. f \in [S -> 1 .. n]
  BY <1>1, <1>2, <1>4
<1>6. f \in Injection(S, 1 .. n)
  <2>1. ASSUME NEW p \in S, NEW q \in S, f[p] = f[q] PROVE p = q
    <3>1. Cardinality(B[p]) = Cardinality(B[q])
      BY <1>2, <2>1
    <3>2. p \notin B[q] /\ q \notin B[p]
      BY <1>2, <1>3, <3>1
    <3> QED
      BY <3>2
  <2> QED
    BY <1>5, <2>1 DEF Injection, IsInjective
<1>7. IsFiniteSet(1 .. n) /\ Cardinality(1 .. n) = n
  <2>1. 1 \in Int /\ n \in Int
    BY <1>1
  <2>2. IsFiniteSet(1 .. n) /\ Cardinality(1 .. n) = IF 1 > n THEN 0 ELSE n - 1 + 1
    BY <2>1, FS_Interval
  <2> QED
    BY <1>1, <2>2
<1>8. \A i \in 1 .. n : \E p \in S : f[p] = i
  <2>1. Cardinality(S) = Cardinality(1 .. n)
    BY <1>7 DEF n
  <2> HIDE DEF f
  <2>2. f \in Surjection(S, 1 .. n)
    BY <1>6, <1>7, <2>1, FS_Injection
  <2> QED
    BY <2>2 DEF Surjection
<1>9. ASSUME NEW i \in 1 .. n PROVE \E p \in S : Cardinality(B[p]) = i - 1
  <2>1. PICK p \in S : f[p] = i
    BY <1>8
  <2>2. Cardinality(B[p]) = i - 1
    BY <1>1, <1>2, <2>1
  <2> QED
    BY <2>2
<1> QED
  BY <1>1, <1>2, <1>3, <1>9 DEF n

-----------------------------------------------------------------------------
(* A page of the feed *)

\* A row of a committed record is a row.
LEMMA PlaceFacts ==
    ASSUME PgInv, NEW p \in Places
    PROVE  /\ p[1] \in Runs /\ p[2] \in Nat \ {0} /\ p = <<p[1], p[2]>> /\ p[2] \in DOMAIN journal[p[1]]
           /\ Row(p).tx \in 0 .. xids /\ Row(p).pos \in 1 .. positions
<1>1. p \in Runs \X (1 .. MaxRecords) /\ p[2] \in DOMAIN journal[p[1]]
  BY DEF Places
<1>2. p[1] \in Runs /\ p[2] \in Nat \ {0} /\ p = <<p[1], p[2]>>
  BY <1>1, PgAssumption
<1>3. journal[p[1]] \in Seq(Rows)
  BY <1>2, InvParts DEF TypeOK
<1>4. Row(p) \in Rows
  BY <1>1, <1>3 DEF Row
<1> QED
  BY <1>1, <1>2, <1>4 DEF Rows

\* The horizon is behind every open transaction.
LEMMA HorizonFacts ==
    ASSUME PgInv
    PROVE  /\ Horizon \in Nat /\ Horizon <= xids + 1
           /\ \A w \in Writers : Open(w) => Horizon <= txn[w].xid
           /\ (\A w \in Writers : ~Open(w)) => Horizon = xids + 1
<1> DEFINE T == {txn[w].xid : w \in {v \in Writers : Open(v)}} \cup {xids + 1}
<1>1. xids \in Nat /\ \A w \in Writers : Open(w) => txn[w].xid \in Nat
  BY InvParts, OpenFacts DEF Transactions
<1>2. T \subseteq Nat /\ T # {}
  BY <1>1
<1>3. Horizon = Min(T)
  BY DEF Horizon
<1>4. /\ xids + 1 \in T /\ \A w \in Writers : Open(w) => txn[w].xid \in T
      /\ (\A w \in Writers : ~Open(w)) => T = {xids + 1}
  OBVIOUS
<1> HIDE DEF T
<1>5. PICK n \in T : \A m \in T : ~ (<<m, n>> \in OpToRel(<, Nat))
  BY <1>2, WFMin, NatLessThanWellFounded, Zenon
<1>6. \A m \in T : ~(m < n)
  BY <1>2, <1>5 DEF OpToRel
<1>7. Min(T) \in T /\ \A m \in T : Min(T) <= m
  <2>1. \A m \in T : n <= m
    BY <1>2, <1>6
  <2> QED
    BY <2>1 DEF Min
<1>8. Horizon \in T /\ Horizon \in Nat
  BY <1>2, <1>3, <1>7
<1>9. \A m \in T : Horizon <= m
  BY <1>3, <1>7
<1>10. ASSUME \A w \in Writers : ~Open(w) PROVE Horizon = xids + 1
  <2>1. T = {xids + 1}
    BY <1>4, <1>10
  <2> QED
    BY <1>8, <2>1
<1>11. Horizon <= xids + 1 /\ \A w \in Writers : Open(w) => Horizon <= txn[w].xid
  BY <1>4, <1>9, Zenon
<1> QED
  BY <1>8, <1>10, <1>11, Zenon

\* The feed order is one: strict, and transitive.
LEMMA OrderFacts ==
    ASSUME PgInv
    PROVE  /\ \A p \in Places : ~Precedes(p, p)
           /\ \A p, q, o \in Places : Precedes(p, q) /\ Precedes(q, o) => Precedes(p, o)
<1>1. \A p \in Places : Row(p).tx \in Nat /\ Row(p).pos \in Nat
  BY PlaceFacts, InvParts
<1> QED
  BY <1>1 DEF Precedes, Past

\* A page holds the first of what is unread, in order, and leaves none out
\* before its last.
LEMMA PageFacts ==
    ASSUME PgInv, OrderIsTotal
    PROVE  /\ Page \in Seq(Unread)
           /\ \A i, j \in DOMAIN Page : i < j => Precedes(Page[i], Page[j])
           /\ \A j \in DOMAIN Page : \A p \in Unread :
                Precedes(p, Page[j]) => \E i \in DOMAIN Page : Page[i] = p
           /\ Unread # {} => Page # <<>>
<1> DEFINE rank(p) == Cardinality(Before(p))
           n == Cardinality(Unread)
           m == Min({PageLimit, n})
           B == [p \in Unread |-> Before(p)]
<1>1. Unread \subseteq Places /\ IsFiniteSet(Unread)
  <2>1. IsFiniteSet(Runs \X (1 .. MaxRecords))
    <3>1. 1 \in Int /\ MaxRecords \in Int
      BY PgAssumption
    <3>2. IsFiniteSet(1 .. MaxRecords)
      BY <3>1, FS_Interval
    <3> QED
      BY <3>2, PgAssumption, FS_Product
  <2>2. Unread \in SUBSET (Runs \X (1 .. MaxRecords)) /\ Unread \subseteq Places
    BY DEF Unread, Places
  <2> QED
    BY <2>1, <2>2, FS_Subset
<1>2. /\ \A p, q \in Unread : p # q => Precedes(p, q) \/ Precedes(q, p)
      /\ \A p \in Unread : ~Precedes(p, p)
      /\ \A p, q, o \in Unread : Precedes(p, q) /\ Precedes(q, o) => Precedes(p, o)
  BY <1>1, OrderFacts DEF OrderIsTotal
<1>3. /\ \A p \in Unread : B[p] = Before(p)
      /\ \A p, q \in Unread : p \in B[q] <=> Precedes(p, q)
      /\ \A p \in Unread : B[p] \subseteq Unread
  BY DEF Before
<1> HIDE DEF B
<1>4. /\ \A p \in Unread : B[p] \subseteq Unread /\ p \notin B[p]
      /\ \A p, q \in Unread : p # q => p \in B[q] \/ q \in B[p]
      /\ \A p, q \in Unread : p \in B[q] => B[p] \subseteq B[q]
  <2>1. ASSUME NEW p \in Unread, NEW q \in Unread, p \in B[q], NEW o \in B[p] PROVE o \in B[q]
    <3>1. o \in Unread /\ Precedes(o, p) /\ Precedes(p, q)
      BY <1>3, <2>1
    <3> QED
      BY <1>2, <1>3, <3>1
  <2> QED
    BY <1>2, <1>3, <2>1
<1>5. /\ n \in Nat
      /\ \A p \in Unread : rank(p) \in Nat
      /\ \A p, q \in Unread : p \in B[q] => rank(p) < rank(q)
      /\ \A i \in 1 .. n : \E p \in Unread : rank(p) = i - 1
  <2>1. /\ n \in Nat
        /\ \A p \in Unread : Cardinality(B[p]) \in Nat
        /\ \A p, q \in Unread : p \in B[q] => Cardinality(B[p]) < Cardinality(B[q])
        /\ \A i \in 1 .. n : \E p \in Unread : Cardinality(B[p]) = i - 1
    BY <1>1, <1>4, RanksAreTaken
  <2> HIDE DEF n
  <2> QED
    BY <1>3, <2>1
<1>6. /\ \A p, q \in Unread : Precedes(p, q) => rank(p) < rank(q)
      /\ \A p, q \in Unread : p # q => Precedes(p, q) \/ Precedes(q, p)
  BY <1>2, <1>3, <1>5
<1>7. /\ m \in Nat /\ m <= n /\ m <= PageLimit /\ (n # 0 => m # 0)
  <2>1. PageLimit \in Nat \ {0} /\ n \in Nat
    BY <1>5, PgAssumption
  <2> HIDE DEF n
  <2>2. \E x \in {PageLimit, n} : \A y \in {PageLimit, n} : x <= y
    BY <2>1
  <2>3. m \in {PageLimit, n} /\ \A y \in {PageLimit, n} : m <= y
    BY <2>2 DEF Min
  <2> QED
    BY <2>1, <2>3
<1> DEFINE Nth(i) == CHOOSE p \in Unread : rank(p) = i - 1
<1>8. Page = [i \in 1 .. m |-> Nth(i)]
  BY DEF Page
<1> HIDE DEF rank, n, m
<1>9. \A i \in 1 .. m : Nth(i) \in Unread /\ rank(Nth(i)) = i - 1
  <2> SUFFICES ASSUME NEW i \in 1 .. m PROVE Nth(i) \in Unread /\ rank(Nth(i)) = i - 1
    OBVIOUS
  <2>1. i \in 1 .. n
    BY <1>5, <1>7
  <2>2. \E p \in Unread : rank(p) = i - 1
    BY <1>5, <2>1
  <2> QED
    BY <2>2
<1> HIDE DEF Nth
<1>10. /\ DOMAIN Page = 1 .. m
       /\ \A i \in 1 .. m : Page[i] \in Unread /\ rank(Page[i]) = i - 1
  BY <1>8, <1>9
<1>11. Page \in Seq(Unread)
  <2>1. Page \in [1 .. m -> Unread]
    BY <1>8, <1>9
  <2> QED
    BY <1>7, <2>1
<1>12. ASSUME NEW i \in 1 .. m, NEW j \in 1 .. m, i < j
       PROVE  Precedes(Page[i], Page[j])
  <2>1. rank(Page[i]) = i - 1 /\ rank(Page[j]) = j - 1 /\ Page[i] \in Unread /\ Page[j] \in Unread
    BY <1>10
  <2>2. rank(Page[i]) # rank(Page[j]) /\ ~(rank(Page[j]) < rank(Page[i]))
    BY <1>7, <1>12, <2>1
  <2> QED
    BY <1>6, <2>1, <2>2
<1>13. ASSUME NEW j \in 1 .. m, NEW p \in Unread, Precedes(p, Page[j])
       PROVE  \E i \in 1 .. m : Page[i] = p
  <2>1. Page[j] \in Unread /\ rank(Page[j]) = j - 1
    BY <1>10
  <2>2. rank(p) \in Nat /\ rank(p) < j - 1
    BY <1>5, <1>6, <1>13, <2>1
  <2>3. PICK i \in 1 .. m : i = rank(p) + 1
    BY <1>7, <2>2
  <2>4. rank(Page[i]) = rank(p) /\ Page[i] \in Unread
    BY <1>10, <2>2, <2>3
  <2>5. Page[i] = p
    BY <1>5, <1>6, <2>2, <2>4
  <2> QED
    BY <2>5
<1>14. Unread # {} => Page # <<>>
  <2> SUFFICES ASSUME Unread # {} PROVE Page # <<>>
    OBVIOUS
  <2>1. n # 0
    BY <1>1, FS_EmptySet DEF n
  <2>2. 1 \in DOMAIN Page
    BY <1>7, <1>10, <2>1
  <2> QED
    BY <2>2
<1> QED
  BY <1>10, <1>11, <1>12, <1>13, <1>14

-----------------------------------------------------------------------------
(* The feed's invariant, step by step *)

\* Two sequences joined.
LEMMA Joined ==
    ASSUME NEW S, NEW a \in Seq(S), NEW b \in Seq(S)
    PROVE  /\ a \o b \in Seq(S) /\ Len(a) \in Nat /\ Len(b) \in Nat
           /\ DOMAIN a = 1 .. Len(a) /\ DOMAIN b = 1 .. Len(b)
           /\ DOMAIN (a \o b) = 1 .. Len(a) + Len(b) /\ Len(a \o b) = Len(a) + Len(b)
           /\ \A i \in 1 .. Len(a) : (a \o b)[i] = a[i]
           /\ \A i \in 1 .. Len(b) : (a \o b)[Len(a) + i] = b[i]
           /\ \A i \in DOMAIN (a \o b) : i \in 1 .. Len(a) \/ \E j \in 1 .. Len(b) : i = Len(a) + j
<1>1. PICK c : c = a \o b
  OBVIOUS
<1>2. /\ c \in Seq(S) /\ Len(a) \in Nat /\ Len(b) \in Nat /\ Len(c) = Len(a) + Len(b)
      /\ DOMAIN a = 1 .. Len(a) /\ DOMAIN b = 1 .. Len(b) /\ DOMAIN c = 1 .. Len(a) + Len(b)
  BY <1>1
<1>3. /\ \A i \in 1 .. Len(a) : c[i] = a[i]
      /\ \A i \in 1 .. Len(b) : c[Len(a) + i] = b[i]
  BY <1>1
<1>4. ASSUME NEW i \in 1 .. Len(a) + Len(b), i \notin 1 .. Len(a)
      PROVE  \E j \in 1 .. Len(b) : i = Len(a) + j
  <2>1. i - Len(a) \in 1 .. Len(b)
    BY <1>2, <1>4
  <2>2. PICK j \in 1 .. Len(b) : j = i - Len(a)
    BY <2>1
  <2>3. i = Len(a) + j
    BY <1>2, <2>2
  <2> QED
    BY <2>3
<1> QED
  BY <1>1, <1>2, <1>3, <1>4

\* What is said of the records and the reader alone.
LEMMA ReaderFrame ==
    ASSUME FeedInv, UNCHANGED <<journal, cursor, served>>,
           xids \in Nat, xids' \in Nat, xids <= xids'
    PROVE  /\ OrderIsTotal' /\ ReaderIsSound'
           /\ Places' = Places /\ \A p : Row(p)' = Row(p)
<1>1. Places' = Places /\ \A p : Row(p)' = Row(p)
  BY DEF Places, Row
<1>2. \A p, q : Precedes(p, q)' <=> Precedes(p, q)
  BY <1>1 DEF Precedes, Past
<1>3. \A p : Past(Row(p), cursor)' <=> Past(Row(p), cursor)
  BY <1>1 DEF Past
<1>4. OrderIsTotal'
  BY <1>1, <1>2 DEF FeedInv, OrderIsTotal
<1>5. cursor' \in (0 .. xids') \X Nat
  BY DEF FeedInv, ReaderIsSound
<1>6. ReaderIsSound'
  BY <1>1, <1>2, <1>3, <1>5 DEF FeedInv, ReaderIsSound
<1> QED
  BY <1>1, <1>4, <1>6

\* A step that writes no record and opens no transaction.
LEMMA NothingOpens ==
    ASSUME PgInv, FeedInv, UNCHANGED <<journal, cursor, served, xids>>,
           \A w \in Writers : Open(w)' =>
            /\ Open(w) /\ txn'[w].xid = txn[w].xid /\ session'[w].run = session[w].run,
           \A w \in Writers : At(w, "append", "commit")' =>
            \/ At(w, "append", "commit") /\ txn'[w].rows = txn[w].rows
            \/ \A i, j \in DOMAIN txn'[w].rows :
                /\ txn'[w].rows[i].tx = txn'[w].xid
                /\ i < j => txn'[w].rows[i].pos < txn'[w].rows[j].pos
    PROVE  FeedInv'
<1>1. xids \in Nat /\ xids' \in Nat /\ xids <= xids'
  BY InvParts
<1>2. /\ OrderIsTotal' /\ ReaderIsSound'
      /\ Places' = Places /\ \A p : Row(p)' = Row(p)
  BY <1>1, ReaderFrame
<1>3. NumbersAreNew'
  BY <1>2 DEF FeedInv, NumbersAreNew
<1>4. RowsAreNumbered'
  <2>1. \A w : At(w, "append", "commit")' => Open(w)'
    BY DEF At
  <2> QED
    BY <2>1 DEF FeedInv, RowsAreNumbered
<1> QED
  BY <1>2, <1>3, <1>4 DEF FeedInv

\* A transaction is numbered past everything there is.
LEMMA FenceFeeds ==
    ASSUME PgInv, FeedInv, NEW w \in Writers,
           (\E batch \in Batches : BeginAppend(w, batch)) \/ BeginSeal(w)
    PROVE  FeedInv'
<1>1. PICK op, batch : Fence(w, op, batch)
  BY DEF BeginAppend, BeginSeal
<1>2. /\ UNCHANGED <<journal, cursor, served, session>> /\ xids \in Nat /\ xids' = xids + 1
      /\ txn \in [Writers -> Transactions \cup {None}]
  BY <1>1, InvParts DEF Fence, tables, reader
<1>3. /\ txn'[w] = Opened(op, batch) /\ \A v \in Writers \ {w} : txn'[v] = txn[v]
  BY <1>1, <1>2 DEF Fence, Goes
<1>4. txn'[w].xid = xids + 1 /\ txn'[w].pc = "work"
  BY <1>3 DEF Opened
<1>5. /\ OrderIsTotal' /\ ReaderIsSound'
      /\ Places' = Places /\ \A p : Row(p)' = Row(p)
  BY <1>2, ReaderFrame
<1>6. NumbersAreNew'
  <2>1. cursor[1] < xids + 1
    BY <1>2 DEF FeedInv, ReaderIsSound
  <2>2. \A p \in Places : Row(p).tx < xids + 1 /\ Row(p).tx # xids + 1
    BY <1>2, PlaceFacts
  <2>3. \A v \in Writers : Open(v) => txn[v].xid # xids + 1
    BY <1>2, OpenFacts DEF Transactions
  <2>4. \A v \in Writers \ {w} : Open(v)' <=> Open(v)
    BY <1>3 DEF Open
  <2>5. SUFFICES ASSUME NEW v \in Writers, Open(v)'
                 PROVE  /\ cursor[1] < txn'[v].xid
                        /\ \A p \in Places : /\ Row(p).tx # txn'[v].xid
                                             /\ p[1] = session[v].run => Row(p).tx < txn'[v].xid
                        /\ \A u \in Writers \ {v} : Open(u)' => txn'[u].xid # txn'[v].xid
    BY <1>2, <1>5 DEF NumbersAreNew
  <2>6. CASE v = w
    BY <1>3, <1>4, <2>1, <2>2, <2>3, <2>4, <2>6
  <2>7. CASE v # w
    <3>1. Open(v) /\ txn'[v] = txn[v]
      BY <1>3, <2>4, <2>5, <2>7
    <3>2. /\ cursor[1] < txn[v].xid
          /\ \A p \in Places : /\ Row(p).tx # txn[v].xid
                               /\ p[1] = session[v].run => Row(p).tx < txn[v].xid
          /\ \A u \in Writers \ {v} : Open(u) => txn[u].xid # txn[v].xid
      BY <3>1 DEF FeedInv, NumbersAreNew
    <3>3. ASSUME NEW u \in Writers \ {v}, Open(u)' PROVE txn'[u].xid # txn'[v].xid
      BY <1>3, <1>4, <2>3, <2>4, <3>1, <3>2, <3>3
    <3> QED
      BY <3>1, <3>2, <3>3
  <2> QED
    BY <2>6, <2>7
<1>7. RowsAreNumbered'
  <2>1. \A v \in Writers : At(v, "append", "commit")' =>
            v # w /\ At(v, "append", "commit") /\ txn'[v] = txn[v]
    BY <1>3, <1>4 DEF At, Open
  <2> QED
    BY <2>1 DEF FeedInv, RowsAreNumbered
<1> QED
  BY <1>5, <1>6, <1>7 DEF FeedInv

\* The rows of an append take the batch's order under its transaction's number.
LEMMA WriteFeeds ==
    ASSUME PgInv, FeedInv, NEW w \in Writers, AppendWithin(w)
    PROVE  FeedInv'
<1>1. /\ UNCHANGED <<journal, cursor, served, xids, session>> /\ Open(w) /\ positions \in Nat
      /\ txn \in [Writers -> Transactions \cup {None}] /\ txn[w] \in Transactions
  BY InvParts, OpenFacts DEF AppendWithin, At, tables, reader
<1> DEFINE rows == [i \in DOMAIN txn[w].batch |->
                [kind |-> txn[w].batch[i].kind, arg |-> txn[w].batch[i].arg,
                 epoch |-> session[w].epoch, tx |-> txn[w].xid, pos |-> positions + i]]
<1>2. Rolled(w) \/ Goes(w, [txn[w] EXCEPT !.rows = rows, !.pc = "commit"])
  BY DEF AppendWithin
<1>3. /\ \A v \in Writers \ {w} : txn'[v] = txn[v]
      /\ \/ txn'[w] = None
         \/ txn'[w].xid = txn[w].xid /\ txn'[w].rows = rows
  <2> HIDE DEF rows
  <2> QED
    BY <1>1, <1>2 DEF Rolled, Goes, Transactions
<1>4. \A i, j \in DOMAIN rows : rows[i].tx = txn[w].xid /\ (i < j => rows[i].pos < rows[j].pos)
  <2>1. txn[w].batch \in Batches \cup {<<>>}
    BY <1>1 DEF Transactions
  <2>2. DOMAIN txn[w].batch \subseteq Nat
    BY <2>1, BatchFacts
  <2> QED
    BY <1>1, <2>2
<1> HIDE DEF rows
<1>5. \A v \in Writers : Open(v)' =>
        /\ Open(v) /\ txn'[v].xid = txn[v].xid /\ session'[v].run = session[v].run
  BY <1>1, <1>3 DEF Open
<1>6. ASSUME NEW v \in Writers, At(v, "append", "commit")'
      PROVE  \/ At(v, "append", "commit") /\ txn'[v].rows = txn[v].rows
             \/ \A i, j \in DOMAIN txn'[v].rows :
                /\ txn'[v].rows[i].tx = txn'[v].xid
                /\ i < j => txn'[v].rows[i].pos < txn'[v].rows[j].pos
  BY <1>3, <1>4, <1>6 DEF At, Open
<1> QED
  BY <1>1, <1>5, <1>6, NothingOpens

\* Steps that close a transaction, place a seal, or are nobody's record.
LEMMA QuietFeeds ==
    ASSUME PgInv, FeedInv,
           \/ UNCHANGED vars
           \/ \E w \in Writers : \/ Place(w) \/ Fail(w) \/ Leave(w)
                                 \/ Commit(w) /\ txn[w].op = "seal"
           \/ \E w \in Writers, r \in Runs : Acquire(w, r)
           \/ \E w, v \in Writers : Branch(w, v)
           \/ \E k \in AdmissionKeys : ForgetAdmissions(k)
    PROVE  FeedInv'
<1>0. /\ txn \in [Writers -> Transactions \cup {None}] /\ session \in [Writers -> Sessions \cup {None}]
      /\ \A w \in Writers : Open(w) => session[w] # None /\ txn[w] \in Transactions
  BY InvParts, OpenFacts
<1>1. ASSUME UNCHANGED <<journal, cursor, served, xids>>,
             \A w \in Writers : Open(w)' =>
                /\ Open(w) /\ txn'[w].op = txn[w].op /\ txn'[w].xid = txn[w].xid
                /\ txn'[w].rows = txn[w].rows /\ session'[w].run = session[w].run
                /\ txn[w].op = "append" => txn'[w].pc = txn[w].pc
      PROVE  FeedInv'
  <2>1. \A w \in Writers : At(w, "append", "commit")' => At(w, "append", "commit") /\ txn'[w].rows = txn[w].rows
    BY <1>1 DEF At
  <2> QED
    BY <1>1, <2>1, NothingOpens
<1>2. CASE UNCHANGED vars \/ \E k \in AdmissionKeys : ForgetAdmissions(k)
  BY <1>1, <1>2 DEF vars, tables, reader, ForgetAdmissions, Open
<1>3. ASSUME NEW w \in Writers, Fail(w) \/ Leave(w) \/ (Commit(w) /\ txn[w].op = "seal") PROVE FeedInv'
  <2>1. /\ UNCHANGED <<journal, cursor, served, xids>>
        /\ Rolled(w) /\ \A v \in Writers \ {w} : session'[v] = session[v]
    BY <1>0, <1>3 DEF Fail, Leave, Commit, tables, reader
  <2>2. txn'[w] = None /\ \A v \in Writers \ {w} : txn'[v] = txn[v]
    BY <1>0, <2>1 DEF Rolled
  <2> QED
    BY <1>1, <2>1, <2>2 DEF Open
<1>4. ASSUME NEW w \in Writers, Place(w) PROVE FeedInv'
  <2>1. UNCHANGED <<journal, cursor, served, xids, session>> /\ Open(w) /\ txn[w].op = "seal"
    BY <1>4 DEF Place, At, tables, reader
  <2>2. PICK n : Rolled(w) \/ Goes(w, [txn[w] EXCEPT !.pc = "commit", !.index = n])
    BY <1>4 DEF Place
  <2>3. /\ \A v \in Writers \ {w} : txn'[v] = txn[v]
        /\ \/ txn'[w] = None
           \/ txn'[w].op = txn[w].op /\ txn'[w].xid = txn[w].xid /\ txn'[w].rows = txn[w].rows
    <3>1. CASE Rolled(w)
      BY <1>0, <3>1 DEF Rolled
    <3>2. CASE Goes(w, [txn[w] EXCEPT !.pc = "commit", !.index = n])
      <4>1. txn[w] \in Transactions
        BY <1>0, <2>1
      <4>2. PICK t : t = [txn[w] EXCEPT !.pc = "commit", !.index = n]
        OBVIOUS
      <4>3. t.op = txn[w].op /\ t.xid = txn[w].xid /\ t.rows = txn[w].rows
        BY <4>1, <4>2 DEF Transactions
      <4> QED
        BY <1>0, <3>2, <4>2, <4>3 DEF Goes
    <3> QED
      BY <2>2, <3>1, <3>2
  <2> QED
    BY <1>1, <2>1, <2>3 DEF Open
<1>5. ASSUME NEW w \in Writers, (\E r \in Runs : Acquire(w, r)) \/ \E v \in Writers : Branch(w, v)
      PROVE  FeedInv'
  <2>1. UNCHANGED <<journal, cursor, served, xids, txn>> /\ ~Open(w)
    BY <1>0, <1>5 DEF Acquire, Branch, tables, reader
  <2>2. \A v \in Writers \ {w} : session'[v] = session[v]
    BY <1>0, <1>5 DEF Acquire, Branch
  <2> QED
    BY <1>1, <2>1, <2>2 DEF Open
<1> QED
  BY <1>2, <1>3, <1>4, <1>5

\* A commit adds rows the reader has not passed, after every record of the run.
LEMMA CommitFeeds ==
    ASSUME PgInv, PgInv', FeedInv, NEW w \in Writers, Commit(w), txn[w].op = "append"
    PROVE  FeedInv'
<1>1. PICK r, batch, n, m : /\ r = session[w].run /\ batch = txn[w].batch
                            /\ n = Len(journal[r]) /\ m = Len(batch)
  OBVIOUS
<1>c. CommitFacts(w, r, batch, n, m)
  BY <1>1, CommitEffect
<1>2. /\ r \in Runs /\ n \in Nat /\ m \in Nat
      /\ DOMAIN journal[r] = 1 .. n /\ DOMAIN journal'[r] = 1 .. n + m
      /\ \A q \in Runs \ {r} : journal'[q] = journal[q]
      /\ \A i \in 1 .. n : journal'[r][i] = journal[r][i]
      /\ \A i \in 1 .. n + m : i \in 1 .. n \/ \E j \in 1 .. m : i = n + j
      /\ txn'[w] = None /\ \A v \in Writers \ {w} : txn'[v] = txn[v]
      /\ UNCHANGED <<session, xids>>
      /\ \A v \in Writers \ {w} : Open(v) => session[v].run # r
  BY <1>c DEF CommitFacts
<1>3. At(w, "append", "commit") /\ Open(w) /\ UNCHANGED <<cursor, served>>
  BY DEF Commit, At, reader
<1>4. PICK x \in Nat : x = txn[w].xid
  BY <1>3, OpenFacts DEF Transactions
<1>5. PICK rows \in Seq(Rows) : rows = txn[w].rows /\ DOMAIN rows = 1 .. m
  <2>1. txn[w].rows \in Seq(Rows) /\ DOMAIN txn[w].rows = DOMAIN batch
    BY <1>1, <1>3, OpenFacts, InvParts DEF Transactions, AppendsAreReady, At
  <2> QED
    BY <1>c, <2>1 DEF CommitFacts
<1>6. \A i \in 1 .. m : journal'[r][n + i] = rows[i]
  <2>1. journal[r] \in Seq(Rows) /\ journal \in [Runs -> Seq(Rows)]
    BY <1>2, InvParts DEF TypeOK
  <2>2. journal'[r] = journal[r] \o rows
    BY <1>1, <1>2, <1>5, <2>1 DEF Commit
  <2>3. /\ DOMAIN rows = 1 .. Len(rows) /\ Len(rows) \in Nat
        /\ \A i \in 1 .. Len(rows) : (journal[r] \o rows)[n + i] = rows[i]
    BY <1>1, <2>1, Joined
  <2>4. Len(rows) = m
    BY <1>2, <1>5, <2>3
  <2> QED
    BY <2>2, <2>3, <2>4
<1>7. \A i, j \in 1 .. m : /\ rows[i].tx = x /\ rows[i].pos \in Nat
                           /\ i < j => rows[i].pos < rows[j].pos
  <2>1. \A i \in DOMAIN rows : rows[i] \in Rows
    OBVIOUS
  <2>2. \A i \in DOMAIN rows : rows[i].pos \in 1 .. positions
    BY <2>1 DEF Rows
  <2>3. \A i \in DOMAIN rows : rows[i].pos \in Nat
    BY <2>2, InvParts
  <2>4. \A i, j \in DOMAIN rows : rows[i].tx = x /\ (i < j => rows[i].pos < rows[j].pos)
    BY <1>3, <1>4, <1>5 DEF FeedInv, RowsAreNumbered
  <2> QED
    BY <1>5, <2>3, <2>4
<1>8. /\ cursor[1] < x /\ cursor[1] \in Nat
      /\ \A p \in Places : Row(p).tx # x /\ (p[1] = r => Row(p).tx < x)
      /\ \A v \in Writers \ {w} : Open(v) => txn[v].xid # x
  BY <1>1, <1>3, <1>4, InvParts DEF FeedInv, NumbersAreNew, ReaderIsSound
<1> DEFINE New(p) == p[1] = r /\ \E i \in 1 .. m : p[2] = n + i
<1>9. /\ Places \subseteq Places'
      /\ \A p \in Places : Row(p)' = Row(p) /\ (p[1] = r => p[2] \in 1 .. n)
      /\ \A p \in Places' : p \in Places \/ New(p)
      /\ \A p \in Places' : New(p) => p \notin Places
  <2>1. ASSUME NEW p \in Places
        PROVE  p \in Places' /\ Row(p)' = Row(p) /\ (p[1] = r => p[2] \in 1 .. n)
    <3>1. p[1] \in Runs /\ p[2] \in DOMAIN journal[p[1]] /\ p \in Runs \X (1 .. MaxRecords)
      BY DEF Places
    <3>2. p[2] \in DOMAIN journal'[p[1]] /\ journal'[p[1]][p[2]] = journal[p[1]][p[2]]
      <4>1. CASE p[1] = r
        BY <1>2, <3>1, <4>1
      <4>2. CASE p[1] # r
        BY <1>2, <3>1, <4>2
      <4> QED
        BY <4>1, <4>2
    <3> QED
      BY <1>2, <3>1, <3>2 DEF Places, Row
  <2>2. ASSUME NEW p \in Places' PROVE p \in Places \/ New(p)
    <3>1. p[1] \in Runs /\ p[2] \in DOMAIN journal'[p[1]] /\ p \in Runs \X (1 .. MaxRecords)
      BY DEF Places
    <3>2. CASE p[1] = r
      <4>1. p[2] \in 1 .. n + m
        BY <1>2, <3>1, <3>2
      <4>2. CASE p[2] \in 1 .. n
        BY <1>2, <3>1, <3>2, <4>2 DEF Places
      <4>3. CASE \E i \in 1 .. m : p[2] = n + i
        BY <3>2, <4>3
      <4> QED
        BY <1>2, <4>1, <4>2, <4>3
    <3>3. CASE p[1] # r
      BY <1>2, <3>1, <3>3 DEF Places
    <3> QED
      BY <3>2, <3>3
  <2>3. ASSUME NEW p, New(p) PROVE p \notin Places
    <3>1. PICK i \in 1 .. m : p[2] = n + i
      BY <2>3
    <3>2. p[1] = r /\ p[2] \notin 1 .. n
      BY <1>2, <2>3, <3>1
    <3> QED
      BY <2>1, <3>2
  <2> HIDE DEF New
  <2> QED
    BY <2>1, <2>2, <2>3
<1>10. ASSUME NEW p, New(p)
       PROVE  /\ p[1] = r /\ p[2] > n /\ p[2] \in Nat
              /\ Row(p)'.tx = x /\ Row(p)'.pos \in Nat
  <2>1. PICK i \in 1 .. m : p[2] = n + i
    BY <1>10
  <2>2. Row(p)' = rows[i] /\ p[1] = r
    BY <1>6, <1>10, <2>1 DEF Row
  <2>3. p[2] > n /\ p[2] \in Nat
    BY <1>2, <2>1
  <2> QED
    BY <1>7, <2>2, <2>3
<1>11. ASSUME NEW p, NEW q, New(p), New(q), p[2] < q[2]
       PROVE  Row(p)'.pos < Row(q)'.pos
  <2>1. PICK i \in 1 .. m : p[2] = n + i
    BY <1>11
  <2>2. PICK j \in 1 .. m : q[2] = n + j
    BY <1>11
  <2>3. i < j
    BY <1>2, <1>11, <2>1, <2>2
  <2>4. Row(p)' = rows[i] /\ Row(q)' = rows[j]
    BY <1>6, <1>11, <2>1, <2>2 DEF Row
  <2> QED
    BY <1>7, <2>3, <2>4
<1> HIDE DEF New
<1>12. \A p \in Places : Row(p).tx \in Nat /\ Row(p).pos \in Nat /\ p[2] \in Nat
  BY PlaceFacts, InvParts
<1>13. \A p, q : Precedes(p, q)' <=>
            Row(q)'.tx > Row(p)'.tx \/ (Row(q)'.tx = Row(p)'.tx /\ Row(q)'.pos > Row(p)'.pos)
  BY DEF Precedes, Past
<1>14. \A p, q \in Places : Precedes(p, q)' <=> Precedes(p, q)
  BY <1>9, <1>13 DEF Precedes, Past
<1>15. OrderIsTotal'
  <2> SUFFICES ASSUME NEW p \in Places', NEW q \in Places', p # q
               PROVE  /\ Precedes(p, q)' \/ Precedes(q, p)'
                      /\ p[1] = q[1] /\ p[2] < q[2] => Precedes(p, q)'
    BY DEF OrderIsTotal
  <2>1. CASE p \in Places /\ q \in Places
    BY <1>14, <2>1 DEF FeedInv, OrderIsTotal
  <2>2. CASE p \in Places /\ New(q)
    <3>1. Row(p)'.tx \in Nat /\ Row(p)'.tx # Row(q)'.tx /\ (p[1] = r => Row(p)'.tx < Row(q)'.tx)
      BY <1>8, <1>9, <1>10, <1>12, <2>2
    <3> QED
      BY <1>4, <1>10, <1>13, <2>2, <3>1
  <2>3. CASE New(p) /\ q \in Places
    <3>1. Row(q)'.tx \in Nat /\ Row(p)'.tx # Row(q)'.tx /\ (q[1] = r => q[2] <= n)
      BY <1>2, <1>8, <1>9, <1>10, <1>12, <2>3
    <3>2. p[1] = r /\ p[2] > n /\ p[2] \in Nat /\ q[2] \in Nat
      BY <1>10, <1>12, <2>3
    <3> QED
      BY <1>2, <1>4, <1>10, <1>13, <2>3, <3>1, <3>2
  <2>4. CASE New(p) /\ New(q)
    <3>1. p[1] = q[1] /\ p[2] \in Nat /\ q[2] \in Nat /\ Row(p)'.tx = Row(q)'.tx
      BY <1>10, <2>4
    <3>2. p[2] # q[2]
      <4>1. p = <<p[1], p[2]>> /\ q = <<q[1], q[2]>>
        BY DEF Places
      <4> QED
        BY <3>1, <4>1
    <3> QED
      BY <1>4, <1>10, <1>11, <1>13, <2>4, <3>1, <3>2
  <2> QED
    BY <1>9, <2>1, <2>2, <2>3, <2>4
<1>16. \A v \in Writers : Open(v)' => v # w /\ Open(v) /\ txn'[v] = txn[v]
  BY <1>2 DEF Open
<1>17. NumbersAreNew'
  <2> SUFFICES ASSUME NEW v \in Writers, Open(v)'
               PROVE  /\ cursor'[1] < txn'[v].xid
                      /\ \A p \in Places' :
                            /\ Row(p)'.tx # txn'[v].xid
                            /\ p[1] = session'[v].run => Row(p)'.tx < txn'[v].xid
                      /\ \A u \in Writers \ {v} : Open(u)' => txn'[u].xid # txn'[v].xid
    BY DEF NumbersAreNew
  <2>1. v # w /\ Open(v) /\ txn'[v] = txn[v] /\ session'[v] = session[v] /\ session[v].run # r
    BY <1>2, <1>16
  <2>2. /\ cursor[1] < txn[v].xid
        /\ \A p \in Places : /\ Row(p).tx # txn[v].xid
                             /\ p[1] = session[v].run => Row(p).tx < txn[v].xid
        /\ \A u \in Writers \ {v} : Open(u) => txn[u].xid # txn[v].xid
    BY <2>1 DEF FeedInv, NumbersAreNew
  <2>3. \A p \in Places' : /\ Row(p)'.tx # txn[v].xid
                           /\ p[1] = session[v].run => Row(p)'.tx < txn[v].xid
    BY <1>8, <1>9, <1>10, <2>1, <2>2
  <2> QED
    BY <1>3, <1>16, <2>1, <2>2, <2>3
<1>18. RowsAreNumbered'
  <2>1. \A v \in Writers : At(v, "append", "commit")' => At(v, "append", "commit") /\ txn'[v] = txn[v]
    BY <1>16 DEF At
  <2> QED
    BY <2>1 DEF FeedInv, RowsAreNumbered
<1>19. ReaderIsSound'
  <2>1. /\ cursor \in (0 .. xids) \X Nat /\ served \in Seq(Places)
        /\ \A p \in Places : ~Past(Row(p), cursor) <=> p \in ToSet(served)
        /\ \A i, j \in DOMAIN served : i < j => Precedes(served[i], served[j])
    BY DEF FeedInv, ReaderIsSound
  <2>2. served' \in Seq(Places')
    BY <1>3, <1>9, <2>1
  <2>3. \A i \in DOMAIN served : served[i] \in Places
    BY <2>1
  <2>4. ToSet(served)' = ToSet(served) /\ ToSet(served) \subseteq Places
    BY <1>3, <2>3 DEF ToSet
  <2>5. ASSUME NEW p \in Places' PROVE ~Past(Row(p), cursor)' <=> p \in ToSet(served)'
    <3>1. CASE p \in Places
      <4>1. Past(Row(p), cursor)' <=> Past(Row(p), cursor)
        BY <1>3, <1>9, <3>1 DEF Past
      <4> QED
        BY <2>1, <2>4, <3>1, <4>1
    <3>2. CASE New(p)
      <4>1. p \notin ToSet(served)'
        BY <1>9, <2>4, <3>2
      <4>2. Past(Row(p), cursor)'
        BY <1>3, <1>4, <1>8, <1>10, <3>2 DEF Past
      <4> QED
        BY <4>1, <4>2
    <3> QED
      BY <1>9, <3>1, <3>2
  <2>6. ASSUME NEW i \in DOMAIN served', NEW j \in DOMAIN served', i < j
        PROVE  Precedes(served[i], served[j])'
    BY <1>3, <1>14, <2>1, <2>3, <2>6
  <2>7. cursor' \in (0 .. xids') \X Nat
    BY <1>2, <1>3, <2>1
  <2> QED
    BY <2>2, <2>5, <2>6, <2>7 DEF ReaderIsSound
<1> QED
  BY <1>15, <1>17, <1>18, <1>19 DEF FeedInv

\* A page moves the cursor to its last record and passes none over.
LEMMA PageFeeds ==
    ASSUME PgInv, FeedInv, Feed
    PROVE  FeedInv'
<1>1. /\ UNCHANGED <<journal, session, txn, xids>> /\ Page # <<>>
      /\ served' = served \o Page /\ cursor' = <<Row(Last(Page)).tx, Row(Last(Page)).pos>>
  BY DEF Feed, tables
<1>2. /\ OrderIsTotal /\ NumbersAreNew /\ RowsAreNumbered
      /\ cursor \in (0 .. xids) \X Nat /\ served \in Seq(Places)
      /\ \A p \in Places : ~Past(Row(p), cursor) <=> p \in ToSet(served)
      /\ \A i, j \in DOMAIN served : i < j => Precedes(served[i], served[j])
      /\ xids \in Nat /\ positions \in Nat
  BY InvParts DEF FeedInv, ReaderIsSound
<1>3. /\ Page \in Seq(Unread)
      /\ \A i, j \in DOMAIN Page : i < j => Precedes(Page[i], Page[j])
      /\ \A j \in DOMAIN Page : \A p \in Unread :
            Precedes(p, Page[j]) => \E i \in DOMAIN Page : Page[i] = p
  BY <1>2, PageFacts
<1>4. PICK page \in Seq(Unread) : page = Page
  BY <1>3
<1>5. PICK k \in DOMAIN page : k = Len(page) /\ Last(page) = page[k] /\ \A i \in DOMAIN page : i <= k
  <2>1. page # <<>> /\ Len(page) \in Nat /\ DOMAIN page = 1 .. Len(page)
    BY <1>1, <1>4
  <2>2. Len(page) \in DOMAIN page /\ \A i \in DOMAIN page : i <= Len(page)
    BY <2>1
  <2> QED
    BY <2>2 DEF Last
<1>6. \A i \in DOMAIN page : page[i] \in Unread
  OBVIOUS
<1>7. PICK last \in Unread : last = page[k]
  BY <1>5, <1>6
<1>8. \A p \in Places : Row(p).tx \in 0 .. xids /\ Row(p).pos \in Nat /\ Row(p).tx \in Nat
  BY <1>2, PlaceFacts
<1>9. last \in Places /\ Past(Row(last), cursor) /\ Row(last).tx < Horizon
  BY <1>7 DEF Unread
<1>10. cursor' = <<Row(last).tx, Row(last).pos>>
  BY <1>1, <1>4, <1>5, <1>7
<1>11. Places' = Places /\ \A p : Row(p)' = Row(p)
  BY <1>1 DEF Places, Row
<1>12. \A p, q : Precedes(p, q)' <=> Precedes(p, q)
  BY <1>11 DEF Precedes, Past
<1>13. \A p : Past(Row(p), cursor)' <=> Precedes(last, p)
  BY <1>10, <1>11 DEF Past, Precedes
<1>14. OrderIsTotal'
  BY <1>2, <1>11, <1>12 DEF OrderIsTotal
<1>15. NumbersAreNew'
  <2>1. Horizon \in Nat /\ \A w \in Writers : Open(w) => Horizon <= txn[w].xid /\ txn[w].xid \in Nat
    BY HorizonFacts, OpenFacts, InvParts DEF Transactions
  <2>2. \A w \in Writers : Open(w) => cursor'[1] < txn[w].xid
    BY <1>8, <1>9, <1>10, <2>1
  <2> QED
    BY <1>1, <1>2, <1>11, <2>2 DEF NumbersAreNew, Open
<1>16. RowsAreNumbered'
  BY <1>1, <1>2 DEF RowsAreNumbered, At, Open
<1>17. /\ cursor[1] \in Nat /\ cursor[2] \in Nat
  BY <1>2
<1>18. \A p \in Places : ~Past(Row(p), cursor) => ~Precedes(last, p) /\ Precedes(p, last)
  <2> SUFFICES ASSUME NEW p \in Places, ~Past(Row(p), cursor)
               PROVE  ~Precedes(last, p) /\ Precedes(p, last)
    OBVIOUS
  <2> QED
    BY <1>8, <1>9, <1>17, SMTT(20) DEF Past, Precedes
<1>19. Unread \subseteq Places
  BY DEF Unread
<1> DEFINE next == served \o page
<1>20. /\ next \in Seq(Places) /\ Len(served) \in Nat /\ Len(page) \in Nat
       /\ DOMAIN served = 1 .. Len(served) /\ DOMAIN page = 1 .. Len(page)
       /\ DOMAIN next = 1 .. Len(served) + Len(page)
       /\ \A i \in 1 .. Len(served) : next[i] = served[i]
       /\ \A i \in 1 .. Len(page) : next[Len(served) + i] = page[i]
       /\ \A i \in DOMAIN next : i \in 1 .. Len(served) \/ \E j \in 1 .. Len(page) : i = Len(served) + j
  <2>1. page \in Seq(Places)
    BY <1>19
  <2> QED
    BY <1>2, <2>1, Joined
<1>21. served' = next
  BY <1>1, <1>4
<1> HIDE DEF next
<1>22. ToSet(next) = ToSet(served) \cup ToSet(page)
  <2>1. ASSUME NEW p \in ToSet(next) PROVE p \in ToSet(served) \cup ToSet(page)
    <3>1. PICK i \in DOMAIN next : p = next[i]
      BY <2>1 DEF ToSet
    <3>2. CASE i \in 1 .. Len(served)
      BY <1>20, <3>1, <3>2 DEF ToSet
    <3>3. CASE \E j \in 1 .. Len(page) : i = Len(served) + j
      BY <1>20, <3>1, <3>3 DEF ToSet
    <3> QED
      BY <1>20, <3>2, <3>3
  <2>2. ASSUME NEW p \in ToSet(served) PROVE p \in ToSet(next)
    <3>1. PICK i \in 1 .. Len(served) : p = served[i]
      BY <1>20, <2>2 DEF ToSet
    <3>2. i \in DOMAIN next /\ next[i] = p
      BY <1>20, <3>1
    <3> QED
      BY <3>2 DEF ToSet
  <2>3. ASSUME NEW p \in ToSet(page) PROVE p \in ToSet(next)
    <3>1. PICK i \in 1 .. Len(page) : p = page[i]
      BY <1>20, <2>3 DEF ToSet
    <3>2. Len(served) + i \in DOMAIN next /\ next[Len(served) + i] = p
      BY <1>20, <3>1
    <3> QED
      BY <3>2 DEF ToSet
  <2> QED
    BY <2>1, <2>2, <2>3
<1>23. ASSUME NEW p \in Places PROVE ~Precedes(last, p) <=> p \in ToSet(next)
  <2>1. ASSUME ~Precedes(last, p) PROVE p \in ToSet(next)
    <3>1. CASE ~Past(Row(p), cursor)
      BY <1>2, <1>22, <3>1
    <3>2. CASE Past(Row(p), cursor)
      <4>1. Row(p).tx <= Row(last).tx
        BY <1>8, <1>9, <2>1 DEF Precedes, Past
      <4>2. Row(p).tx < Horizon
        BY <1>8, <1>9, <4>1, HorizonFacts
      <4>3. p \in Unread
        BY <3>2, <4>2 DEF Unread
      <4>4. p = last \/ Precedes(p, last)
        BY <1>2, <1>9, <2>1 DEF OrderIsTotal
      <4>5. \E i \in DOMAIN page : page[i] = p
        BY <1>3, <1>4, <1>5, <1>7, <4>3, <4>4
      <4> QED
        BY <1>22, <4>5 DEF ToSet
    <3> QED
      BY <3>1, <3>2
  <2>2. ASSUME p \in ToSet(next) PROVE ~Precedes(last, p)
    <3>1. CASE p \in ToSet(served)
      BY <1>2, <1>18, <3>1
    <3>2. CASE p \in ToSet(page)
      <4>1. PICK i \in DOMAIN page : p = page[i]
        BY <3>2 DEF ToSet
      <4>2. p = last \/ Precedes(p, last)
        BY <1>3, <1>4, <1>5, <1>7, <1>20, <4>1
      <4> QED
        BY <1>9, <4>2, OrderFacts
    <3> QED
      BY <1>22, <2>2, <3>1, <3>2
  <2> QED
    BY <2>1, <2>2
<1>24. ASSUME NEW i \in DOMAIN next, NEW j \in DOMAIN next, i < j
       PROVE  Precedes(next[i], next[j])
  <2>1. CASE j \in 1 .. Len(served)
    <3>1. i \in 1 .. Len(served)
      BY <1>20, <1>24, <2>1
    <3> QED
      BY <1>2, <1>20, <1>24, <2>1, <3>1
  <2>2. CASE i \in 1 .. Len(served) /\ \E b \in 1 .. Len(page) : j = Len(served) + b
    <3>1. PICK b \in 1 .. Len(page) : j = Len(served) + b
      BY <2>2
    <3>2. next[i] = served[i] /\ next[j] = page[b]
      BY <1>20, <2>2, <3>1
    <3>3. served[i] \in Places /\ served[i] \in ToSet(served)
      BY <1>2, <1>20, <2>2 DEF ToSet
    <3>4. ~Past(Row(served[i]), cursor)
      BY <1>2, <3>3
    <3>5. page[b] \in Places /\ Past(Row(page[b]), cursor)
      BY <1>6, <1>20 DEF Unread
    <3>6. Precedes(served[i], page[b])
      <4> DEFINE p == served[i]
                 q == page[b]
      <4>1. /\ Row(p).tx \in Nat /\ Row(p).pos \in Nat /\ Row(q).tx \in Nat /\ Row(q).pos \in Nat
        BY <1>8, <3>3, <3>5
      <4> HIDE DEF p, q
      <4>2. Precedes(p, q)
        BY <1>17, <3>4, <3>5, <4>1, SMTT(20) DEF Past, Precedes, p, q
      <4> QED
        BY <4>2 DEF p, q
    <3> QED
      BY <3>2, <3>6
  <2>3. CASE /\ \E a \in 1 .. Len(page) : i = Len(served) + a
             /\ \E b \in 1 .. Len(page) : j = Len(served) + b
    <3>1. PICK a \in 1 .. Len(page) : i = Len(served) + a
      BY <2>3
    <3>2. PICK b \in 1 .. Len(page) : j = Len(served) + b
      BY <2>3
    <3>3. next[i] = page[a] /\ next[j] = page[b] /\ a < b
      BY <1>20, <1>24, <3>1, <3>2
    <3>4. a \in DOMAIN Page /\ b \in DOMAIN Page
      BY <1>4, <1>20
    <3>5. Precedes(Page[a], Page[b])
      BY <1>3, <3>3, <3>4
    <3> QED
      BY <1>4, <3>3, <3>5
  <2>4. i \in 1 .. Len(served) \/ \E a \in 1 .. Len(page) : i = Len(served) + a
    BY <1>20
  <2>5. j \in 1 .. Len(served) \/ \E b \in 1 .. Len(page) : j = Len(served) + b
    BY <1>20
  <2> QED
    BY <2>1, <2>2, <2>3, <2>4, <2>5
<1>25. ReaderIsSound'
  <2>1. cursor' \in (0 .. xids') \X Nat
    BY <1>1, <1>8, <1>9, <1>10
  <2>2. \A p \in Places' : ~Past(Row(p), cursor)' <=> p \in ToSet(served)'
    BY <1>11, <1>13, <1>21, <1>23
  <2>3. \A i, j \in DOMAIN served' : i < j => Precedes(served[i], served[j])'
    BY <1>12, <1>21, <1>24
  <2> QED
    BY <1>11, <1>20, <1>21, <2>1, <2>2, <2>3 DEF ReaderIsSound
<1> QED
  BY <1>14, <1>15, <1>16, <1>25 DEF FeedInv

\* An empty or a restored store, and a reader at its beginning.
LEMMA InitFeed == Init => FeedInv
<1> SUFFICES ASSUME Init PROVE FeedInv
  OBVIOUS
<1>0. PgInv
  BY InitPg
<1>1. PICK h \in Histories, total \in 0 .. MaxRecords * Cardinality(Runs) :
        \E from \in [Runs -> 0 .. total] : Restored(h, from, total)
  BY DEF Init
<1>2. PICK from \in [Runs -> 0 .. total] : Restored(h, from, total)
  BY <1>1
<1>3. /\ txn = [w \in Writers |-> None] /\ xids = 0 /\ cursor = <<0, 0>> /\ served = <<>>
  BY DEF Init
<1>4. journal = [r \in Runs |-> [n \in DOMAIN h[r] |->
            [kind |-> h[r][n].kind, arg |-> h[r][n].arg, epoch |-> h[r][n].epoch,
             tx |-> 0, pos |-> from[r] + n]]]
  BY <1>2 DEF Restored
<1>5. ASSUME NEW p \in Places
      PROVE  /\ p[1] \in Runs /\ p[2] \in Nat \ {0} /\ p = <<p[1], p[2]>> /\ p[2] \in DOMAIN h[p[1]]
             /\ Row(p).tx = 0 /\ Row(p).pos = from[p[1]] + p[2] /\ from[p[1]] \in Nat
  <2>1. p[1] \in Runs /\ p[2] \in Nat \ {0} /\ p = <<p[1], p[2]>> /\ p[2] \in DOMAIN journal[p[1]]
    BY <1>0, PlaceFacts
  <2>2. PICK r \in Runs, n \in Nat : r = p[1] /\ n = p[2]
    BY <2>1
  <2>3. n \in DOMAIN h[r] /\ journal[r][n] = [kind |-> h[r][n].kind, arg |-> h[r][n].arg,
                                               epoch |-> h[r][n].epoch, tx |-> 0, pos |-> from[r] + n]
    BY <1>4, <2>1, <2>2
  <2>4. from[r] \in Nat
    OBVIOUS
  <2> QED
    BY <2>1, <2>2, <2>3, <2>4 DEF Row
<1>6. OrderIsTotal
  <2> SUFFICES ASSUME NEW p \in Places, NEW q \in Places, p # q
               PROVE  /\ Precedes(p, q) \/ Precedes(q, p)
                      /\ p[1] = q[1] /\ p[2] < q[2] => Precedes(p, q)
    BY DEF OrderIsTotal
  <2>1. /\ Row(p).tx = 0 /\ Row(p).pos = from[p[1]] + p[2] /\ from[p[1]] \in Nat /\ p[2] \in Nat
        /\ Row(q).tx = 0 /\ Row(q).pos = from[q[1]] + q[2] /\ from[q[1]] \in Nat /\ q[2] \in Nat
    BY <1>5
  <2>2. Row(p).pos # Row(q).pos
    <3>1. CASE p[1] = q[1]
      <4>1. p[2] # q[2]
        BY <1>5, <3>1
      <4> QED
        BY <2>1, <3>1, <4>1
    <3>2. CASE p[1] # q[1]
      <4>1. \A r, s \in Runs : r # s =>
                {from[r] + n : n \in DOMAIN h[r]} \cap {from[s] + n : n \in DOMAIN h[s]} = {}
        BY <1>2 DEF Restored
      <4>2. /\ from[p[1]] + p[2] \in {from[p[1]] + n : n \in DOMAIN h[p[1]]}
            /\ from[q[1]] + q[2] \in {from[q[1]] + n : n \in DOMAIN h[q[1]]}
            /\ p[1] \in Runs /\ q[1] \in Runs
        BY <1>5
      <4> QED
        BY <2>1, <3>2, <4>1, <4>2
    <3> QED
      BY <3>1, <3>2
  <2>3. \A a, b \in Places : Row(b).tx = Row(a).tx /\ Row(b).pos > Row(a).pos => Precedes(a, b)
    BY DEF Precedes, Past
  <2>4. p[1] = q[1] /\ p[2] < q[2] => Row(q).pos > Row(p).pos
    BY <2>1
  <2>5. Row(p).pos \in Nat /\ Row(q).pos \in Nat
    BY <2>1
  <2>6. Row(q).pos > Row(p).pos \/ Row(p).pos > Row(q).pos
    BY <2>2, <2>5
  <2> QED
    BY <2>1, <2>3, <2>4, <2>6
<1>7. NumbersAreNew /\ RowsAreNumbered
  BY <1>3 DEF NumbersAreNew, RowsAreNumbered, At, Open
<1>8. ReaderIsSound
  <2>1. \A p \in Places : Past(Row(p), cursor)
    BY <1>3, <1>5 DEF Past
  <2>2. ToSet(served) = {} /\ served \in Seq(Places) /\ DOMAIN served = {}
    BY <1>3 DEF ToSet
  <2>3. cursor \in (0 .. xids) \X Nat
    BY <1>3
  <2> QED
    BY <2>1, <2>2, <2>3 DEF ReaderIsSound
<1> QED
  BY <1>6, <1>7, <1>8 DEF FeedInv

LEMMA NextFeed == PgInv /\ PgInv' /\ FeedInv /\ [Next]_vars => FeedInv'
<1> SUFFICES ASSUME PgInv, PgInv', FeedInv, [Next]_vars PROVE FeedInv'
  OBVIOUS
<1>1. CASE Feed
  BY <1>1, PageFeeds
<1>2. ASSUME NEW w \in Writers, Commit(w) PROVE FeedInv'
  <2>1. txn[w].op \in {"append", "seal"}
    BY <1>2, OpenFacts DEF Commit, Transactions
  <2> QED
    BY <1>2, <2>1, CommitFeeds, QuietFeeds
<1>3. CASE \E w \in Writers :
             BeginSeal(w) \/ AppendWithin(w) \/ Place(w) \/ Commit(w) \/ Fail(w) \/ Leave(w)
  BY <1>2, <1>3, FenceFeeds, WriteFeeds, QuietFeeds
<1>4. CASE \E w \in Writers, batch \in Batches : BeginAppend(w, batch)
  BY <1>4, FenceFeeds
<1>5. CASE \/ UNCHANGED vars
           \/ \E w \in Writers, r \in Runs : Acquire(w, r)
           \/ \E w, v \in Writers : Branch(w, v)
           \/ \E k \in AdmissionKeys : ForgetAdmissions(k)
  BY <1>5, QuietFeeds
<1> QED
  BY <1>1, <1>3, <1>4, <1>5 DEF Next

\* A reader of the feed misses nothing, sees each record once and after those
\* before it in its chain, and has seen everything when the store is quiet,
\* though positions are handed out before their transactions commit, in any
\* order and for any number of writers and any page size.
THEOREM FeedStaysFaithful == Spec => []FeedIsFaithful
<1>1. PgInv /\ FeedInv => FeedIsFaithful
  <2> SUFFICES ASSUME PgInv, FeedInv PROVE FeedIsFaithful
    OBVIOUS
  <2>1. /\ OrderIsTotal /\ served \in Seq(Places)
        /\ \A p \in Places : ~Past(Row(p), cursor) <=> p \in ToSet(served)
        /\ \A i, j \in DOMAIN served : i < j => Precedes(served[i], served[j])
    BY DEF FeedInv, ReaderIsSound
  <2>2. \A i \in DOMAIN served : served[i] \in Places
    BY <2>1
  <2>3. ToSet(served) \subseteq Places
    BY <2>2 DEF ToSet
  <2>4. DOMAIN served = 1 .. Len(served) /\ Len(served) \in Nat
    BY <2>1
  <2>5. NothingIsSkipped
    BY <2>1, <2>3 DEF NothingIsSkipped
  <2>6. FeedFollowsChains
    <3> SUFFICES ASSUME NEW i \in DOMAIN served
                 PROVE  /\ \A j \in 1 .. i - 1 : served[j] # served[i]
                        /\ \A n \in 1 .. served[i][2] - 1 :
                                \E j \in 1 .. i - 1 : served[j] = <<served[i][1], n>>
      BY DEF FeedFollowsChains
    <3>1. \A j \in 1 .. i - 1 : j \in DOMAIN served /\ j < i
      BY <2>4
    <3>2. ASSUME NEW j \in 1 .. i - 1 PROVE served[j] # served[i]
      BY <2>1, <2>2, <3>1, OrderFacts
    <3>3. ASSUME NEW n \in 1 .. served[i][2] - 1
          PROVE  \E j \in 1 .. i - 1 : served[j] = <<served[i][1], n>>
      <4>1. PICK p \in Places : p = served[i]
        BY <2>2
      <4>2. /\ p \in Runs \X (1 .. MaxRecords) /\ p[2] \in DOMAIN journal[p[1]]
            /\ journal[p[1]] \in Seq(Rows)
        BY InvParts DEF Places, TypeOK
      <4>3. PICK q : q = <<p[1], n>>
        OBVIOUS
      <4>4. q[1] = p[1] /\ q[2] = n /\ n \in Nat /\ n < p[2] /\ p[2] \in Nat /\ 1 <= n
        BY <4>1, <4>2, <4>3, PgAssumption
      <4>5. q \in Places
        <5>1. n \in 1 .. MaxRecords /\ n \in DOMAIN journal[p[1]]
          BY <4>2, <4>4, PgAssumption
        <5> QED
          BY <4>2, <4>3, <5>1 DEF Places
      <4>6. Precedes(q, p)
        BY <2>1, <4>4, <4>5 DEF OrderIsTotal
      <4>7. ~Past(Row(p), cursor)
        BY <2>1, <4>1 DEF ToSet
      <4>8. ~Past(Row(q), cursor)
        <5>1. \A o \in Places : Row(o).tx \in Nat /\ Row(o).pos \in Nat
          BY PlaceFacts, InvParts
        <5>2. cursor[1] \in Nat /\ cursor[2] \in Nat
          BY InvParts DEF FeedInv, ReaderIsSound
        <5> QED
          BY <4>5, <4>6, <4>7, <5>1, <5>2 DEF Precedes, Past
      <4>9. PICK j \in DOMAIN served : served[j] = q
        BY <2>1, <4>5, <4>8 DEF ToSet
      <4>10. ~(i < j) /\ i # j
        <5>1. i < j => Precedes(p, q)
          BY <2>1, <4>1, <4>9
        <5>2. ~Precedes(p, q) /\ p # q
          BY <4>5, <4>6, OrderFacts
        <5> QED
          BY <4>1, <4>9, <5>1, <5>2
      <4>11. j \in 1 .. i - 1
        BY <2>4, <4>10
      <4> QED
        BY <4>1, <4>3, <4>9, <4>11
    <3> QED
      BY <3>2, <3>3
  <2>7. QuietFeedIsWhole
    <3> SUFFICES ASSUME Page = <<>>, \A w \in Writers : ~Open(w) PROVE ToSet(served) = Places
      BY DEF QuietFeedIsWhole
    <3>1. Unread = {}
      BY <2>1, PageFacts
    <3>2. Horizon = xids + 1
      BY HorizonFacts
    <3>3. \A p \in Places : Row(p).tx < Horizon
      BY <3>2, PlaceFacts, InvParts
    <3>4. \A p \in Places : ~Past(Row(p), cursor)
      BY <3>1, <3>3 DEF Unread
    <3> QED
      BY <2>1, <2>3, <3>4
  <2> QED
    BY <2>5, <2>6, <2>7 DEF FeedIsFaithful
<1> QED
  BY <1>1, PgHolds, InitFeed, NextFeed, PTL DEF Spec

-----------------------------------------------------------------------------
(* The tenant's log of seals *)

\* A listing grows at its end when what joins is numbered past the rest.
LEMMA ListingGrows ==
    ASSUME NEW S, NEW T, S \subseteq T, IsFiniteSet(T), NEW f, NEW g,
           \A p \in S : f[p].index = g[p].index,
           \A q \in T : g[q].index \in Nat,
           \A p \in S : \A q \in T \ S : g[p].index < g[q].index
    PROVE  IsPrefix(ByIndex(S, f), ByIndex(T, g))
<1>1. PICK a, b, n, m : a = ByIndex(S, f) /\ b = ByIndex(T, g) /\ n = Cardinality(S) /\ m = Cardinality(T)
  OBVIOUS
<1>2. IsFiniteSet(S) /\ n <= m /\ n \in Nat /\ m \in Nat
  BY <1>1, FS_Subset, FS_CardinalityType
<1>3. /\ a = [i \in 1 .. n |-> {r \in S : Cardinality(Earlier(S, f, r)) = i - 1}]
      /\ b = [i \in 1 .. m |-> {r \in T : Cardinality(Earlier(T, g, r)) = i - 1}]
  BY <1>1 DEF ByIndex
<1>4. a \in Seq(SUBSET T) /\ b \in Seq(SUBSET T) /\ Len(a) = n /\ Len(b) = m
  <2>1. a \in [1 .. n -> SUBSET T] /\ b \in [1 .. m -> SUBSET T]
    BY <1>3
  <2> QED
    BY <1>2, <2>1
<1>5. ASSUME NEW p \in S PROVE Earlier(T, g, p) = Earlier(S, f, p)
  <2>1. ASSUME NEW q \in T, g[q].index < g[p].index PROVE q \in S
    <3>1. CASE q \notin S
      <4>1. g[p].index < g[q].index /\ g[p].index \in Nat /\ g[q].index \in Nat
        BY <3>1
      <4> QED
        BY <2>1, <4>1
    <3> QED
      BY <3>1
  <2> QED
    BY <2>1 DEF Earlier
<1>6. ASSUME NEW q \in T \ S PROVE Cardinality(Earlier(T, g, q)) \in Nat /\ n <= Cardinality(Earlier(T, g, q))
  <2>1. S \subseteq Earlier(T, g, q) /\ Earlier(T, g, q) \subseteq T
    BY DEF Earlier
  <2> QED
    BY <1>1, <2>1, FS_Subset, FS_CardinalityType
<1>7. ASSUME NEW i \in 1 .. n PROVE a[i] = b[i]
  <2>1. i \in 1 .. m /\ i \in Nat /\ i - 1 < n
    BY <1>2
  <2>2. /\ a[i] = {r \in S : Cardinality(Earlier(S, f, r)) = i - 1}
        /\ b[i] = {r \in T : Cardinality(Earlier(T, g, r)) = i - 1}
    BY <1>3, <2>1
  <2>3. \A q \in T \ S : Cardinality(Earlier(T, g, q)) # i - 1
    BY <1>2, <1>6, <2>1
  <2> QED
    BY <1>5, <2>2, <2>3
<1>8. SubSeq(a, 1, n) = SubSeq(b, 1, n)
  <2>1. SubSeq(a, 1, n) = [i \in 1 .. n |-> a[i]] /\ SubSeq(b, 1, n) = [i \in 1 .. n |-> b[i]]
    BY <1>2, <1>4
  <2> QED
    BY <1>7, <2>1
<1> QED
  BY <1>1, <1>2, <1>4, <1>8 DEF IsPrefix

\* A restore gives each run of the log a position of its own.
LEMMA ApartInit == Init => PositionsAreApart
<1> SUFFICES ASSUME Init PROVE PositionsAreApart
  OBVIOUS
<1>1. PICK h, place : Resealed(h, place)
  BY DEF Init
<1>2. \A r \in Runs : sealed[r] = IF place[r] = 0 THEN None
                                  ELSE [head |-> Len(h[r]), index |-> place[r]]
  BY <1>1 DEF Resealed
<1>3. ASSUME NEW r \in SealedRuns
      PROVE  r \in Runs /\ place[r] # 0 /\ sealed[r].index = place[r]
  <2>1. r \in Runs /\ sealed[r] # None
    BY DEF SealedRuns
  <2>2. place[r] # 0 /\ sealed[r] = [head |-> Len(h[r]), index |-> place[r]]
    BY <1>2, <2>1
  <2> QED
    BY <2>1, <2>2
<1>4. \A r, q \in {p \in Runs : place[p] # 0} : place[r] = place[q] => r = q
  BY <1>1 DEF Resealed
<1> QED
  BY <1>3, <1>4 DEF PositionsAreApart

\* A committed seal takes a position past every other one; no other step
\* touches the seals.
LEMMA SealsGrow ==
    ASSUME PgInv, PositionsAreApart, [Next]_vars
    PROVE  PositionsAreApart' /\ IsPrefix(SealLog, SealLog')
<1>1. /\ \A q \in SealedRuns : sealed[q].index \in Nat
      /\ SealedRuns \subseteq Runs /\ SealedRuns' \subseteq Runs /\ IsFiniteSet(SealedRuns')
  <2>1. \A q \in SealedRuns : sealed[q] \in Seals
    BY InvParts DEF SealedRuns, TypeOK, Seals
  <2>2. SealedRuns' \subseteq Runs
    BY DEF SealedRuns
  <2>3. IsFiniteSet(SealedRuns')
    BY <2>2, FS_Subset, PgAssumption
  <2> QED
    BY <2>1, <2>2, <2>3 DEF SealedRuns, Seals
<1>2. CASE UNCHANGED sealed
  <2>1. SealedRuns' = SealedRuns /\ sealed' = sealed
    BY <1>2 DEF SealedRuns
  <2>2. PositionsAreApart'
    BY <2>1 DEF PositionsAreApart
  <2>3. IsPrefix(ByIndex(SealedRuns, sealed), ByIndex(SealedRuns', sealed'))
    BY <1>1, <2>1, ListingGrows
  <2> QED
    BY <2>2, <2>3 DEF SealLog, ByIndex, Earlier
<1>3. ASSUME NEW w \in Writers, Commit(w), sealed' # sealed
      PROVE  PositionsAreApart' /\ IsPrefix(SealLog, SealLog')
  <2>1. At(w, "seal", "commit") /\ Open(w)
    BY <1>3, OpenFacts DEF Commit, At, Transactions
  <2>2. PICK r \in Runs : r = session[w].run
    BY <2>1, OpenFacts DEF Sessions
  <2>3. sealed[r] = None
    BY <1>3, <2>1, <2>2 DEF Commit, At
  <2>4. PICK index \in Nat : index = txn[w].index /\ \A n \in Indexes : n < index
    BY <2>1, OpenFacts, InvParts DEF SealsAreReady, Transactions
  <2>5. PICK row : row = [head |-> Len(journal[r]), index |-> index]
    OBVIOUS
  <2>6. row # None /\ row.index = index
    <3>1. Len(journal[r]) \in Nat
      BY InvParts DEF TypeOK
    <3> QED
      BY <2>4, <2>5, <3>1, PgAssumption
  <2>7. sealed' = [sealed EXCEPT ![r] = row]
    BY <1>3, <2>1, <2>2, <2>3, <2>4, <2>5 DEF Commit, At
  <2>8. sealed'[r] = row /\ \A q \in Runs \ {r} : sealed'[q] = sealed[q]
    BY <2>7, InvParts DEF TypeOK
  <2>9. r \notin SealedRuns /\ SealedRuns' = SealedRuns \cup {r}
    BY <2>3, <2>6, <2>8 DEF SealedRuns
  <2>10. \A q \in SealedRuns : sealed'[q] = sealed[q] /\ sealed[q].index < index
    <3>1. \A q \in SealedRuns : sealed[q].index \in Indexes
      BY DEF SealedRuns, Indexes
    <3> QED
      BY <1>1, <2>4, <2>8, <2>9, <3>1
  <2>11. \A q \in SealedRuns' : sealed'[q].index \in Nat
    BY <1>1, <2>6, <2>8, <2>9, <2>10
  <2>12. \A p, q \in SealedRuns' : sealed'[p].index = sealed'[q].index => p = q
    <3> SUFFICES ASSUME NEW p \in SealedRuns', NEW q \in SealedRuns',
                        sealed'[p].index = sealed'[q].index
                 PROVE  p = q
      OBVIOUS
    <3>1. CASE p = r \/ q = r
      BY <1>1, <2>6, <2>8, <2>9, <2>10, <3>1
    <3>2. CASE p # r /\ q # r
      BY <2>9, <2>10, <3>2 DEF PositionsAreApart
    <3> QED
      BY <3>1, <3>2
  <2>13. \A p \in SealedRuns : \A q \in SealedRuns' \ SealedRuns : sealed'[p].index < sealed'[q].index
    BY <2>6, <2>8, <2>9, <2>10
  <2>14. IsPrefix(ByIndex(SealedRuns, sealed), ByIndex(SealedRuns', sealed'))
    BY <1>1, <2>9, <2>10, <2>11, <2>13, ListingGrows
  <2> QED
    BY <2>12, <2>14 DEF PositionsAreApart, SealLog, ByIndex, Earlier
<1>4. \/ UNCHANGED sealed
      \/ \E w \in Writers : Commit(w)
  BY ZenonT(30) DEF Next, vars, tables, Branch, BeginAppend, BeginSeal, Fence, AppendWithin, Place, Fail,
         Leave, ForgetAdmissions, Feed, Acquire
<1> QED
  BY <1>2, <1>3, <1>4

\* The log of seals never forks: however the seals of any number of instances
\* overlap, a checkpoint of the tenant's log is a prefix of every later one, and
\* no two sealed runs share a position.
THEOREM LogNeverForks == Spec => LogOnlyGrows /\ []PositionsAreApart
<1>1. PgInv /\ PositionsAreApart /\ [Next]_vars => PositionsAreApart' /\ IsPrefix(SealLog, SealLog')
  BY SealsGrow
<1> QED
  BY <1>1, PgHolds, ApartInit, PTL DEF Spec, LogOnlyGrows

==============================================================================
