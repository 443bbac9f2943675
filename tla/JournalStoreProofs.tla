------------------------- MODULE JournalStoreProofs -------------------------
(***************************************************************************)
(* What the journal store guarantees for any number of runs, executors,    *)
(* keys and any bounds: the fence keeps every run single-writer, an effect *)
(* key starts once, a seal is final, an admission key names one run, a     *)
(* token never falls, and the store implements FencedLog.                  *)
(***************************************************************************)
EXTENDS JournalStore, FiniteSetTheorems, FunctionTheorems, WellFoundedInduction, NaturalsInduction,
        TLAPS

\* Stamping a batch yields records, one per body.
LEMMA StampType ==
    ASSUME NEW batch \in Batches, NEW e \in Nat
    PROVE  /\ Stamp(batch, e) \in Seq(Records)
           /\ Len(Stamp(batch, e)) = Len(batch)
           /\ Len(batch) \in Nat \ {0}
           /\ \A i \in 1 .. Len(batch) :
                /\ Stamp(batch, e)[i].epoch = e
                /\ Stamp(batch, e)[i].kind = batch[i].kind
                /\ Stamp(batch, e)[i].arg = batch[i].arg
<1>1. PICK n \in 1 .. MaxBatch : batch \in [1 .. n -> Bodies]
  BY StoreAssumption DEF Batches
<1>2. n \in Nat \ {0} /\ Len(batch) = n
  BY <1>1, StoreAssumption
<1>3. \A i \in 1 .. n : batch[i].kind \in Kinds /\ batch[i].arg \in Args
  BY <1>1 DEF Bodies, Kinds, Args
<1>4. \A i \in 1 .. n : [kind |-> batch[i].kind, arg |-> batch[i].arg, epoch |-> e] \in Records
  BY <1>3 DEF Records
<1>5. Stamp(batch, e) \in [1 .. n -> Records]
  BY <1>2, <1>4 DEF Stamp
<1> QED
  BY <1>2, <1>5 DEF Stamp

\* The state a next-state step of the store starts in and its typed inputs.
LEMMA InitCore == Init => CoreTypeOK
BY StoreAssumption DEF Init, CoreTypeOK

LEMMA LastRecord ==
    ASSUME CoreTypeOK, NEW r \in Runs, journal[r] # <<>>
    PROVE  /\ Len(journal[r]) \in 1 .. Len(journal[r])
           /\ Last(journal[r]) = journal[r][Len(journal[r])]
           /\ Last(journal[r]) \in Records
<1>1. journal[r] \in Seq(Records)
  BY DEF CoreTypeOK
<1>2. Len(journal[r]) \in 1 .. Len(journal[r])
  BY <1>1
<1> QED
  BY <1>1, <1>2 DEF Last

LEMMA RecordTypes ==
    ASSUME CoreTypeOK, NEW r \in Runs
    PROVE  /\ Len(journal[r]) \in Nat
           /\ \A i \in 1 .. Len(journal[r]) :
                journal[r][i] \in Records /\ journal[r][i].epoch \in Nat
<1>1. journal[r] \in Seq(Records)
  BY DEF CoreTypeOK
<1>2. \A i \in 1 .. Len(journal[r]) : journal[r][i] \in Records
  BY <1>1
<1> QED
  BY <1>1, <1>2 DEF Records

LEMMA NextEpochType ==
    ASSUME CoreTypeOK, NEW r \in Runs
    PROVE  NextEpoch(r) \in Nat
<1>1. CASE lease[r] # None
  BY <1>1 DEF CoreTypeOK, NextEpoch, LeaseRows
<1>2. CASE lease[r] = None /\ journal[r] = <<>>
  BY <1>2 DEF NextEpoch, EpochAfterHistory
<1>3. CASE lease[r] = None /\ journal[r] # <<>>
  BY <1>3, LastRecord DEF NextEpoch, EpochAfterHistory, Records
<1> QED
  BY <1>1, <1>2, <1>3

LEMMA NextCore == CoreTypeOK /\ [Next]_vars => CoreTypeOK'
<1> SUFFICES ASSUME CoreTypeOK, [Next]_vars PROVE CoreTypeOK'
  OBVIOUS
<1> USE StoreAssumption
<1>1. ASSUME NEW s \in Sessions, NEW r \in Runs, NEW o \in Owners, Acquire(s, r, o)
      PROVE  CoreTypeOK'
  <2>1. NextEpoch(r) \in Nat /\ Len(journal[r]) \in Nat /\ now + TTL \in Nat
    BY NextEpochType DEF CoreTypeOK
  <2>2. lease' \in [Runs -> LeaseRows \cup {None}]
    BY <1>1, <2>1 DEF CoreTypeOK, Acquire, LeaseRows
  <2>3. session' \in [Sessions -> SessionRows \cup {None}]
    BY <1>1, <2>1 DEF CoreTypeOK, Acquire, SessionRows
  <2> QED
    BY <1>1, <2>2, <2>3 DEF CoreTypeOK, Acquire, tables
<1>2. ASSUME NEW s \in Sessions, Renew(s)
      PROVE  CoreTypeOK'
  <2> DEFINE r == session[s].run
  <2>0. r \in Runs /\ now + TTL \in Nat
    BY <1>2 DEF CoreTypeOK, Renew, SessionRows
  <2>a. lease[r] \in LeaseRows /\ lease' = [lease EXCEPT ![r].expires = now + TTL]
    BY <1>2, <2>0 DEF CoreTypeOK, Renew
  <2>b. [lease[r] EXCEPT !.expires = now + TTL] \in LeaseRows
    BY <2>0, <2>a DEF LeaseRows
  <2>1. lease' \in [Runs -> LeaseRows \cup {None}]
    BY <2>0, <2>a, <2>b DEF CoreTypeOK
  <2> QED
    BY <1>2, <2>1 DEF CoreTypeOK, Renew, tables
<1>3. ASSUME NEW s \in Sessions, ReleaseLease(s)
      PROVE  CoreTypeOK'
  <2>1. lease' \in [Runs -> LeaseRows \cup {None}]
    BY <1>3 DEF CoreTypeOK, ReleaseLease, LeaseRows, SessionRows
  <2> QED
    BY <1>3, <2>1 DEF CoreTypeOK, ReleaseLease, tables
<1>4. ASSUME NEW s \in Sessions, Abandon(s)
      PROVE  CoreTypeOK'
  BY <1>4 DEF CoreTypeOK, Abandon, tables
<1>5. ASSUME NEW s \in Sessions, NEW batch \in Batches, AppendBatch(s, batch)
      PROVE  CoreTypeOK'
  <2> DEFINE r == session[s].run
             e == session[s].epoch
  <2>1. r \in Runs /\ e \in Nat
    BY <1>5 DEF CoreTypeOK, AppendBatch, SessionRows
  <2>2. journal' \in [Runs -> Seq(Records)]
    <3>1. Stamp(batch, e) \in Seq(Records)
      BY <2>1, StampType
    <3>2. journal[r] \o Stamp(batch, e) \in Seq(Records)
      BY <2>1, <3>1 DEF CoreTypeOK
    <3>3. journal' = [journal EXCEPT ![r] = @ \o Stamp(batch, e)]
      BY <1>5 DEF AppendBatch
    <3> QED
      BY <2>1, <3>2, <3>3 DEF CoreTypeOK
  <2>3. once' \in SUBSET (Runs \X EffectKeys)
    <3>1. \A i \in At(batch, "EffectStarted") : batch[i].arg \in EffectKeys
      <4>1. PICK n \in 1 .. MaxBatch : batch \in [1 .. n -> Bodies]
        BY DEF Batches
      <4> QED
        BY <4>1 DEF At, Bodies
    <3>2. Starts(batch) \subseteq EffectKeys
      BY <3>1 DEF Starts
    <3>3. once' = once \cup {<<r, k>> : k \in Starts(batch)}
      BY <1>5 DEF AppendBatch
    <3> QED
      BY <2>1, <3>2, <3>3 DEF CoreTypeOK
  <2>4. session' \in [Sessions -> SessionRows \cup {None}]
    <3>1. Len(journal[r]) + Len(batch) \in Nat
      BY <2>1, StampType DEF CoreTypeOK
    <3>2. session' = [session EXCEPT ![s].known = Len(journal[r]) + Len(batch)]
      BY <1>5 DEF AppendBatch
    <3>3. session[s] \in SessionRows
      BY <1>5 DEF CoreTypeOK, AppendBatch
    <3> QED
      BY <3>1, <3>2, <3>3 DEF CoreTypeOK, SessionRows
  <2> QED
    BY <1>5, <2>2, <2>3, <2>4 DEF CoreTypeOK, AppendBatch
<1>6. ASSUME NEW s \in Sessions, Seal(s)
      PROVE  CoreTypeOK'
  <2> DEFINE r == session[s].run
  <2>1. r \in Runs /\ journal[r] \in Seq(Records)
    BY <1>6 DEF CoreTypeOK, Seal, SessionRows
  <2>2. journal[r] # <<>>
    BY <1>6 DEF Seal, Concluded
  <2>3. Last(journal[r]).arg \in Args /\ Len(journal[r]) \in Nat
    BY <2>1, <2>2, LastRecord DEF Records
  <2>4. CASE sealed[r] = None
    <3>1. /\ sealed' = [sealed EXCEPT ![r] =
                            [outcome |-> Last(journal[r]).arg, head |-> Len(journal[r])]]
          /\ sealLog' = sealLog \o <<r>>
      BY <1>6, <2>4 DEF Seal
    <3>2. sealed' \in [Runs -> SealRows \cup {None}]
      BY <2>3, <3>1 DEF CoreTypeOK, SealRows
    <3>3. sealLog' \in Seq(Runs)
      BY <2>1, <3>1 DEF CoreTypeOK
    <3> QED
      BY <1>6, <3>2, <3>3 DEF CoreTypeOK, Seal
  <2>5. CASE sealed[r] # None
    BY <1>6, <2>5 DEF CoreTypeOK, Seal
  <2> QED
    BY <2>4, <2>5
<1>7. ASSUME NEW r \in Runs, NEW who \in Operators, RequestCancel(r, who)
      PROVE  CoreTypeOK'
  BY <1>7 DEF CoreTypeOK, RequestCancel, tables
<1>8. ASSUME NEW cutoff \in 1 .. MaxClock, ForgetAdmissions(cutoff)
      PROVE  CoreTypeOK'
  BY <1>8 DEF CoreTypeOK, ForgetAdmissions
<1>9. ASSUME NEW order \in FileOrders, Restore(order)
      PROVE  CoreTypeOK'
  <2>1. /\ UNCHANGED <<journal, once, sealed, sealLog, now, retired>>
        /\ lease' = [r \in Runs |-> None] /\ cancel' = [r \in Runs |-> None]
        /\ session' = [s \in Sessions |-> None]
    BY <1>9, ZenonT(30) DEF Restore
  <2> QED
    BY <2>1 DEF CoreTypeOK
<1>10. CASE Reopen
  <2>1. lease' \in [Runs -> LeaseRows \cup {None}]
    <3>1. \A r \in Runs : lease[r] # None => [lease[r] EXCEPT !.expires = now] \in LeaseRows
      BY ZenonT(30) DEF CoreTypeOK, LeaseRows
    <3> HIDE DEF LeaseRows
    <3> QED
      BY <1>10, <3>1 DEF CoreTypeOK, Reopen
  <2> QED
    BY <1>10, <2>1 DEF CoreTypeOK, Reopen, tables
<1>11. CASE Tick
  BY <1>11 DEF CoreTypeOK, Tick, tables
<1>12. CASE UNCHANGED vars
  BY <1>12 DEF CoreTypeOK, vars, tables
<1> QED
  BY <1>1, <1>2, <1>3, <1>4, <1>5, <1>6, <1>7, <1>8, <1>9, <1>10, <1>11, <1>12 DEF Next

\* Every table the fence and the seal read keeps its shape, in every instance
\* of the store.
THEOREM CoreTypeCorrect == Spec => []CoreTypeOK
BY InitCore, NextCore, PTL DEF Spec

-----------------------------------------------------------------------------
(* The fence *)

\* Concatenation, element by element.
LEMMA ConcatFacts ==
    ASSUME NEW S, NEW a \in Seq(S), NEW b \in Seq(S), NEW c, c = a \o b
    PROVE  /\ Len(a) \in Nat /\ Len(b) \in Nat
           /\ Len(c) = Len(a) + Len(b)
           /\ \A i \in 1 .. Len(a) : c[i] = a[i]
           /\ \A i \in 1 .. Len(b) : c[Len(a) + i] = b[i]
OBVIOUS

\* What an append does to the journal of its run, record by record.
LEMMA AppendExtends ==
    ASSUME CoreTypeOK, NEW s \in Sessions, NEW batch \in Batches, AppendBatch(s, batch)
    PROVE  LET r == session[s].run
               e == session[s].epoch
           IN  /\ session[s] \in SessionRows
               /\ Len(batch) \in Nat \ {0}
               /\ Len(journal[r]) \in Nat
               /\ Len(journal'[r]) = Len(journal[r]) + Len(batch)
               /\ \A i \in 1 .. Len(journal[r]) : journal'[r][i] = journal[r][i]
               /\ \A i \in 1 .. Len(batch) :
                    /\ journal'[r][Len(journal[r]) + i].epoch = e
                    /\ journal'[r][Len(journal[r]) + i].kind = batch[i].kind
                    /\ journal'[r][Len(journal[r]) + i].arg = batch[i].arg
               /\ \A q \in Runs \ {r} : journal'[q] = journal[q]
<1> DEFINE r == session[s].run
           e == session[s].epoch
           st == Stamp(batch, e)
<1>1. session[s] \in SessionRows
  BY DEF CoreTypeOK, AppendBatch
<1>2. r \in Runs /\ e \in Nat
  BY <1>1 DEF SessionRows
<1>3. /\ st \in Seq(Records) /\ Len(st) = Len(batch) /\ Len(batch) \in Nat \ {0}
      /\ \A i \in 1 .. Len(batch) :
            st[i].epoch = e /\ st[i].kind = batch[i].kind /\ st[i].arg = batch[i].arg
  BY <1>2, StampType
<1>4. journal[r] \in Seq(Records) /\ journal \in [Runs -> Seq(Records)]
  BY <1>2 DEF CoreTypeOK
<1>5. journal' = [journal EXCEPT ![r] = @ \o st]
  BY DEF AppendBatch
<1>6. journal'[r] = journal[r] \o st
  BY <1>2, <1>4, <1>5
<1>7. /\ Len(journal[r]) \in Nat /\ Len(st) \in Nat
      /\ Len(journal'[r]) = Len(journal[r]) + Len(st)
      /\ \A i \in 1 .. Len(journal[r]) : journal'[r][i] = journal[r][i]
      /\ \A i \in 1 .. Len(st) : journal'[r][Len(journal[r]) + i] = st[i]
  <2> DEFINE a == journal[r]
             c == journal'[r]
  <2>1. a \in Seq(Records) /\ st \in Seq(Records) /\ c = a \o st
    BY <1>3, <1>4, <1>6
  <2> HIDE DEF a, c, st
  <2>2. /\ Len(a) \in Nat /\ Len(st) \in Nat /\ Len(c) = Len(a) + Len(st)
        /\ \A i \in 1 .. Len(a) : c[i] = a[i]
        /\ \A i \in 1 .. Len(st) : c[Len(a) + i] = st[i]
    BY <2>1, ConcatFacts
  <2> QED
    BY <2>2 DEF a, c
<1> HIDE DEF st
<1>10. \A q \in Runs \ {r} : journal'[q] = journal[q]
  BY <1>4, <1>5
<1>11. \A i \in 1 .. Len(batch) :
        /\ journal'[r][Len(journal[r]) + i].epoch = e
        /\ journal'[r][Len(journal[r]) + i].kind = batch[i].kind
        /\ journal'[r][Len(journal[r]) + i].arg = batch[i].arg
  BY <1>3, <1>7
<1> QED
  BY <1>1, <1>3, <1>7, <1>10, <1>11

LEMMA InitFence == Init => FenceInv
BY DEF Init, FenceInv, LeaseCoversChain, SessionsWereIssued, EpochsAscend, SoleWriter

\* An epoch about to be acquired is above every epoch that wrote, and above
\* every epoch an executor of the run still holds.
LEMMA NextEpochIsNew ==
    ASSUME CoreTypeOK, FenceInv, NEW r \in Runs
    PROVE  /\ NextEpoch(r) \in Nat
           /\ \A i \in 1 .. Len(journal[r]) : journal[r][i].epoch < NextEpoch(r)
           /\ \A t \in Sessions : session[t] # None /\ session[t].run = r
                => session[t].epoch < NextEpoch(r)
<1>1. NextEpoch(r) \in Nat
  BY NextEpochType
<1>2. \A i \in 1 .. Len(journal[r]) : journal[r][i].epoch \in Nat
  BY RecordTypes
<1>3. \A t \in Sessions : session[t] # None => session[t].epoch \in Nat
  BY DEF CoreTypeOK, SessionRows
<1>4. CASE lease[r] # None
  <2>1. lease[r].epoch \in Nat /\ NextEpoch(r) = lease[r].epoch + 1
    BY <1>4 DEF CoreTypeOK, LeaseRows, NextEpoch
  <2> QED
    BY <1>1, <1>2, <1>3, <1>4, <2>1, SMTT(30) DEF FenceInv, LeaseCoversChain, SessionsWereIssued
<1>5. CASE lease[r] = None
  <2>1. \A t \in Sessions : session[t] # None => session[t].run # r
    BY <1>5 DEF FenceInv, SessionsWereIssued
  <2>2. CASE journal[r] = <<>>
    BY <1>1, <2>1, <2>2
  <2>3. CASE journal[r] # <<>>
    <3> DEFINE n == Len(journal[r])
    <3>1. n \in 1 .. n /\ n \in Nat /\ Last(journal[r]) = journal[r][n]
      BY <2>3, LastRecord DEF CoreTypeOK
    <3>2. NextEpoch(r) = journal[r][n].epoch + 1
      BY <1>5, <2>3, <3>1 DEF NextEpoch, EpochAfterHistory
    <3>3. \A i \in 1 .. n : journal[r][i].epoch <= journal[r][n].epoch
      BY <3>1 DEF FenceInv, EpochsAscend
    <3> QED
      BY <1>1, <1>2, <2>1, <3>1, <3>2, <3>3, SMTT(30)
  <2> QED
    BY <2>2, <2>3
<1> QED
  BY <1>4, <1>5

\* Steps that leave the journal and the epochs of leases alone, and take no new
\* session, keep the fence.
LEMMA FenceFrame ==
    ASSUME CoreTypeOK, FenceInv, UNCHANGED journal,
           \A r \in Runs : lease[r] = None => lease'[r] = None,
           \A r \in Runs : lease[r] # None =>
                lease'[r] # None /\ lease'[r].epoch = lease[r].epoch,
           \A s \in Sessions : session'[s] = session[s] \/ session'[s] = None
    PROVE  FenceInv'
<1>0. \A s \in Sessions : session[s] # None => session[s].run \in Runs
  BY DEF CoreTypeOK, SessionRows
<1>a. journal' = journal
  OBVIOUS
<1>b. \A s \in Sessions : session'[s] # None => session'[s] = session[s]
  OBVIOUS
<1>1. LeaseCoversChain'
  <2> SUFFICES ASSUME NEW r \in Runs, lease'[r] # None, NEW i \in 1 .. Len(journal[r])
               PROVE  journal[r][i].epoch <= lease'[r].epoch
    BY <1>a DEF LeaseCoversChain
  <2> QED
    BY DEF FenceInv, LeaseCoversChain
<1>2. SessionsWereIssued'
  <2> SUFFICES ASSUME NEW s \in Sessions, session'[s] # None
               PROVE  /\ lease'[session[s].run] # None
                      /\ session[s].epoch <= lease'[session[s].run].epoch
    BY <1>b DEF SessionsWereIssued
  <2> QED
    BY <1>0, <1>b DEF FenceInv, SessionsWereIssued
<1>3. EpochsAscend'
  BY <1>a DEF FenceInv, EpochsAscend
<1>4. SoleWriter'
  <2>1. ASSUME NEW t \in Sessions, NEW u \in Sessions,
               session'[t] # None, session'[u] # None,
               session'[t].run = session'[u].run, session'[t].epoch = session'[u].epoch
        PROVE  t = u
    BY <1>b, <2>1 DEF FenceInv, SoleWriter
  <2>2. ASSUME NEW t \in Sessions, session'[t] # None,
               Admits(session[t].run, session[t].epoch)'
        PROVE  session'[t].known = Len(journal'[session'[t].run])
    <3>1. session'[t] = session[t] /\ session[t] # None /\ session[t].run \in Runs
      BY <1>0, <1>b, <2>2
    <3>2. Admits(session[t].run, session[t].epoch)
      BY <2>2, <3>1 DEF Admits
    <3> QED
      BY <1>a, <3>1, <3>2 DEF FenceInv, SoleWriter
  <2> QED
    BY <2>1, <2>2 DEF SoleWriter
<1> QED
  BY <1>1, <1>2, <1>3, <1>4 DEF FenceInv

LEMMA AcquireFence ==
    ASSUME CoreTypeOK, FenceInv, NEW s \in Sessions, NEW r \in Runs, NEW o \in Owners,
           Acquire(s, r, o)
    PROVE  FenceInv'
<1> DEFINE e == NextEpoch(r)
<1>1. /\ e \in Nat
      /\ \A i \in 1 .. Len(journal[r]) : journal[r][i].epoch < e
      /\ \A t \in Sessions : session[t] # None /\ session[t].run = r => session[t].epoch < e
  BY NextEpochIsNew
<1>2. /\ journal' = journal
      /\ lease' = [lease EXCEPT ![r] = [owner |-> o, epoch |-> e, expires |-> now + TTL]]
      /\ session' = [session EXCEPT ![s] =
                        [run |-> r, owner |-> o, epoch |-> e, known |-> Len(journal[r])]]
  BY DEF Acquire, tables
<1>3. /\ lease'[r] # None /\ lease'[r].epoch = e
      /\ \A q \in Runs \ {r} : lease'[q] = lease[q]
  <2>1. [owner |-> o, epoch |-> e, expires |-> now + TTL] \in LeaseRows
    BY <1>1, StoreAssumption DEF CoreTypeOK, LeaseRows
  <2>2. None \notin LeaseRows
    BY StoreAssumption
  <2> QED
    BY <1>2, <2>1, <2>2 DEF CoreTypeOK
<1>4. /\ session'[s] # None /\ session'[s].run = r /\ session'[s].epoch = e
      /\ session'[s].known = Len(journal[r])
      /\ \A t \in Sessions \ {s} : session'[t] = session[t]
  <2>1. [run |-> r, owner |-> o, epoch |-> e, known |-> Len(journal[r])] \in SessionRows
    BY <1>1, RecordTypes DEF SessionRows
  <2>2. None \notin SessionRows
    BY StoreAssumption
  <2> QED
    BY <1>2, <2>1, <2>2 DEF CoreTypeOK
<1> HIDE DEF e
<1>5. \A t \in Sessions : session[t] # None =>
        session[t].run \in Runs /\ session[t].epoch \in Nat
  BY DEF CoreTypeOK, SessionRows
<1>6. \A i \in 1 .. Len(journal[r]) : journal[r][i].epoch \in Nat
  BY RecordTypes
<1>7. LeaseCoversChain'
  BY <1>1, <1>2, <1>3, <1>6 DEF FenceInv, LeaseCoversChain
<1>8. SessionsWereIssued'
  BY <1>1, <1>3, <1>4, <1>5 DEF FenceInv, SessionsWereIssued
<1>9. EpochsAscend'
  BY <1>2 DEF FenceInv, EpochsAscend
<1>10. SoleWriter'
  <2>1. ASSUME NEW t \in Sessions, NEW u \in Sessions,
               session'[t] # None, session'[u] # None,
               session'[t].run = session'[u].run, session'[t].epoch = session'[u].epoch
        PROVE  t = u
    BY <1>1, <1>4, <1>5, <2>1 DEF FenceInv, SoleWriter
  <2>2. ASSUME NEW t \in Sessions, session'[t] # None,
               Admits(session[t].run, session[t].epoch)'
        PROVE  session'[t].known = Len(journal'[session'[t].run])
    <3>1. CASE t = s
      BY <1>2, <1>4, <3>1
    <3>2. CASE t # s /\ session[t].run = r
      BY <1>1, <1>3, <1>4, <1>5, <2>2, <3>2 DEF Admits
    <3>3. CASE t # s /\ session[t].run # r
      BY <1>2, <1>3, <1>4, <1>5, <2>2, <3>3 DEF FenceInv, SoleWriter, Admits
    <3> QED
      BY <3>1, <3>2, <3>3
  <2> QED
    BY <2>1, <2>2 DEF SoleWriter
<1> QED
  BY <1>7, <1>8, <1>9, <1>10 DEF FenceInv

LEMMA AppendFence ==
    ASSUME CoreTypeOK, FenceInv, NEW s \in Sessions, NEW batch \in Batches,
           AppendBatch(s, batch)
    PROVE  FenceInv'
<1> DEFINE r == session[s].run
           e == session[s].epoch
           n == Len(journal[r])
           k == Len(batch)
<1>1. /\ session[s] \in SessionRows
      /\ k \in Nat \ {0} /\ n \in Nat /\ Len(journal'[r]) = n + k
      /\ \A i \in 1 .. n : journal'[r][i] = journal[r][i]
      /\ \A i \in 1 .. k : journal'[r][n + i].epoch = e
      /\ \A q \in Runs \ {r} : journal'[q] = journal[q]
  BY AppendExtends
<1>2. r \in Runs /\ e \in Nat /\ session[s] # None
  BY <1>1 DEF SessionRows, AppendBatch
<1>3. lease' = lease /\ Admits(r, e)
  BY DEF AppendBatch
<1>4. lease[r] # None /\ lease[r].epoch = e
  BY <1>2, <1>3 DEF FenceInv, SessionsWereIssued, Admits
<1>5. /\ session'[s].run = r /\ session'[s].epoch = e /\ session'[s].known = n + k
      /\ session'[s] # None
      /\ \A t \in Sessions \ {s} : session'[t] = session[t]
  <2>1. session' = [session EXCEPT ![s].known = n + k]
    BY DEF AppendBatch
  <2>2. session[s] \in [run : Runs, owner : Owners, epoch : Nat, known : Nat]
    BY <1>1 DEF SessionRows
  <2>3. [session[s] EXCEPT !.known = n + k] \in SessionRows
    BY <1>1, <2>2 DEF SessionRows
  <2>4. None \notin SessionRows
    BY StoreAssumption
  <2> QED
    BY <2>1, <2>2, <2>3, <2>4 DEF CoreTypeOK
<1>6. \A i \in 1 .. n + k : i \in 1 .. n \/ (i - n \in 1 .. k /\ i = n + (i - n))
  BY <1>1
<1>7. \A i \in 1 .. n : journal[r][i].epoch \in Nat /\ journal[r][i].epoch <= e
  BY <1>2, <1>4, RecordTypes DEF FenceInv, LeaseCoversChain
<1>8. \A t \in Sessions : session[t] # None => session[t].run \in Runs
  BY DEF CoreTypeOK, SessionRows
<1>9. \A i \in 1 .. n + k : IF i \in 1 .. n THEN journal'[r][i] = journal[r][i]
                                            ELSE journal'[r][i].epoch = e
  BY <1>1, <1>6
<1> HIDE DEF r, e, n, k
<1>10. LeaseCoversChain'
  <2> SUFFICES ASSUME NEW q \in Runs, lease'[q] # None, NEW i \in 1 .. Len(journal'[q])
               PROVE  journal'[q][i].epoch <= lease'[q].epoch
    BY DEF LeaseCoversChain
  <2>1. CASE q = r
    BY <1>1, <1>2, <1>3, <1>4, <1>7, <1>9, <2>1
  <2>2. CASE q # r
    BY <1>1, <1>3, <2>2 DEF FenceInv, LeaseCoversChain
  <2> QED
    BY <2>1, <2>2
<1>11. SessionsWereIssued'
  BY <1>2, <1>3, <1>4, <1>5 DEF FenceInv, SessionsWereIssued
<1>12. EpochsAscend'
  <2> SUFFICES ASSUME NEW q \in Runs, NEW i \in 1 .. Len(journal'[q]),
                      NEW j \in 1 .. Len(journal'[q]), i <= j
               PROVE  journal'[q][i].epoch <= journal'[q][j].epoch
    BY DEF EpochsAscend
  <2>1. CASE q # r
    BY <1>1, <2>1 DEF FenceInv, EpochsAscend
  <2>2. CASE q = r /\ j \in 1 .. n
    <3>1. i \in 1 .. n
      BY <1>1, <2>2
    <3> QED
      BY <1>1, <1>2, <2>2, <3>1 DEF FenceInv, EpochsAscend, n
  <2>3. CASE q = r /\ j \notin 1 .. n
    BY <1>1, <1>2, <1>7, <1>9, <2>3
  <2> QED
    BY <2>1, <2>2, <2>3
<1>13. SoleWriter'
  <2>1. ASSUME NEW t \in Sessions, NEW u \in Sessions,
               session'[t] # None, session'[u] # None,
               session'[t].run = session'[u].run, session'[t].epoch = session'[u].epoch
        PROVE  t = u
    BY <1>2, <1>5, <2>1 DEF FenceInv, SoleWriter, r, e
  <2>2. ASSUME NEW t \in Sessions, session'[t] # None,
               Admits(session[t].run, session[t].epoch)'
        PROVE  session'[t].known = Len(journal'[session'[t].run])
    <3>1. CASE t = s
      BY <1>1, <1>5, <3>1
    <3>2. CASE t # s
      <4>1. session'[t] = session[t] /\ session[t] # None
        BY <1>5, <2>2, <3>2
      <4>2. session[t].run # r \/ session[t].epoch # e
        BY <1>2, <3>2, <4>1 DEF FenceInv, SoleWriter, r, e
      <4>3. Admits(session[t].run, session[t].epoch)
        BY <1>3, <2>2, <4>1 DEF Admits
      <4>4. session[t].run # r
        BY <1>4, <4>2, <4>3 DEF Admits
      <4> QED
        BY <1>1, <1>8, <4>1, <4>3, <4>4 DEF FenceInv, SoleWriter
    <3> QED
      BY <3>1, <3>2
  <2> QED
    BY <2>1, <2>2 DEF SoleWriter
<1> QED
  BY <1>10, <1>11, <1>12, <1>13 DEF FenceInv

LEMMA RenewKeepsEpochs ==
    ASSUME CoreTypeOK, NEW s \in Sessions, Renew(s)
    PROVE  /\ \A q \in Runs : lease[q] = None => lease'[q] = None
           /\ \A q \in Runs : lease[q] # None =>
                lease'[q] # None /\ lease'[q].epoch = lease[q].epoch
<1> DEFINE r == session[s].run
<1>1. r \in Runs /\ lease[r] \in LeaseRows /\ lease[r] # None
  BY DEF CoreTypeOK, Renew, SessionRows
<1>2. lease' = [lease EXCEPT ![r].expires = now + TTL]
  BY DEF Renew
<1>3. lease'[r].epoch = lease[r].epoch /\ \A q \in Runs \ {r} : lease'[q] = lease[q]
  BY <1>1, <1>2 DEF CoreTypeOK, LeaseRows
<1>4. lease'[r] # None
  <2>0. now + TTL \in Nat
    BY StoreAssumption DEF CoreTypeOK
  <2>1. [lease[r] EXCEPT !.expires = now + TTL] \in LeaseRows
    BY <1>1, <2>0 DEF LeaseRows
  <2>2. None \notin LeaseRows
    BY StoreAssumption
  <2> QED
    BY <1>1, <1>2, <2>1, <2>2 DEF CoreTypeOK
<1> QED
  BY <1>1, <1>3, <1>4

LEMMA ReleaseKeepsEpochs ==
    ASSUME CoreTypeOK, NEW s \in Sessions, ReleaseLease(s)
    PROVE  /\ \A q \in Runs : lease[q] = None => lease'[q] = None
           /\ \A q \in Runs : lease[q] # None =>
                lease'[q] # None /\ lease'[q].epoch = lease[q].epoch
<1> DEFINE r == session[s].run
<1>0. r \in Runs
  BY DEF CoreTypeOK, ReleaseLease, SessionRows
<1>1. CASE lease[r] # None /\ lease[r].epoch = session[s].epoch
  <2>1. lease' = [lease EXCEPT ![r] = [owner |-> Nobody, epoch |-> @.epoch, expires |-> 0]]
    BY <1>1 DEF ReleaseLease
  <2>2. lease[r] \in LeaseRows
    BY <1>0, <1>1 DEF CoreTypeOK
  <2>3. [owner |-> Nobody, epoch |-> lease[r].epoch, expires |-> 0] \in LeaseRows
    BY <2>2 DEF LeaseRows
  <2>4. None \notin LeaseRows
    BY StoreAssumption
  <2> QED
    BY <1>0, <1>1, <2>1, <2>3, <2>4 DEF CoreTypeOK
<1>2. CASE ~(lease[r] # None /\ lease[r].epoch = session[s].epoch)
  BY <1>2 DEF ReleaseLease
<1> QED
  BY <1>1, <1>2

LEMMA ReopenKeepsEpochs ==
    ASSUME CoreTypeOK, Reopen
    PROVE  /\ \A q \in Runs : lease[q] = None => lease'[q] = None
           /\ \A q \in Runs : lease[q] # None =>
                lease'[q] # None /\ lease'[q].epoch = lease[q].epoch
<1>1. \A r \in Runs : lease[r] # None =>
        lease'[r] # None /\ lease'[r].epoch = lease[r].epoch
  <2> SUFFICES ASSUME NEW r \in Runs, lease[r] # None
               PROVE  lease'[r] # None /\ lease'[r].epoch = lease[r].epoch
    OBVIOUS
  <2>1. lease[r] \in LeaseRows /\ now \in Nat
    BY DEF CoreTypeOK
  <2>2. /\ [lease[r] EXCEPT !.expires = now] \in LeaseRows
        /\ [lease[r] EXCEPT !.expires = now].epoch = lease[r].epoch
    BY <2>1 DEF LeaseRows
  <2>3. None \notin LeaseRows
    BY StoreAssumption
  <2>4. lease'[r] = [lease[r] EXCEPT !.expires = now] \/ lease'[r] = lease[r]
    BY DEF Reopen
  <2> QED
    BY <2>1, <2>2, <2>3, <2>4
<1>2. \A r \in Runs : lease[r] = None => lease'[r] = None
  BY DEF Reopen
<1> QED
  BY <1>1, <1>2

LEMMA NextFence == CoreTypeOK /\ CoreTypeOK' /\ FenceInv /\ [Next]_vars => FenceInv'
<1> SUFFICES ASSUME CoreTypeOK, CoreTypeOK', FenceInv, [Next]_vars PROVE FenceInv'
  OBVIOUS
<1>1. ASSUME NEW s \in Sessions, NEW r \in Runs, NEW o \in Owners, Acquire(s, r, o)
      PROVE  FenceInv'
  BY <1>1, AcquireFence
<1>2. ASSUME NEW s \in Sessions, Renew(s)
      PROVE  FenceInv'
  BY <1>2, RenewKeepsEpochs, FenceFrame, ZenonT(30) DEF Renew, tables
<1>3. ASSUME NEW s \in Sessions, ReleaseLease(s)
      PROVE  FenceInv'
  <2>1. journal' = journal /\ session' = [session EXCEPT ![s] = None]
    BY <1>3 DEF ReleaseLease, tables
  <2>2. \A t \in Sessions : session'[t] = session[t] \/ session'[t] = None
    BY <2>1 DEF CoreTypeOK
  <2> QED
    BY <1>3, <2>1, <2>2, ReleaseKeepsEpochs, FenceFrame
<1>4. ASSUME NEW s \in Sessions, Abandon(s)
      PROVE  FenceInv'
  <2>1. journal' = journal /\ lease' = lease /\ session' = [session EXCEPT ![s] = None]
    BY <1>4 DEF Abandon, tables
  <2>2. \A t \in Sessions : session'[t] = session[t] \/ session'[t] = None
    BY <2>1 DEF CoreTypeOK
  <2> QED
    BY <2>1, <2>2, FenceFrame
<1>5. ASSUME NEW s \in Sessions, NEW batch \in Batches, AppendBatch(s, batch)
      PROVE  FenceInv'
  BY <1>5, AppendFence
<1>6. ASSUME UNCHANGED <<journal, lease, session>>
      PROVE  FenceInv'
  BY <1>6, FenceFrame
<1>7. ASSUME NEW order \in FileOrders, Restore(order)
      PROVE  FenceInv'
  <2>1. /\ journal' = journal
        /\ \A r \in Runs : lease'[r] = None
        /\ \A s \in Sessions : session'[s] = None
    BY <1>7, ZenonT(30) DEF Restore
  <2> QED
    BY <2>1 DEF FenceInv, LeaseCoversChain, SessionsWereIssued, EpochsAscend, SoleWriter
<1>8. CASE Reopen
  <2>1. /\ journal' = journal
        /\ \A s \in Sessions : session'[s] = None
    BY <1>8 DEF Reopen, tables
  <2> QED
    BY <1>8, <2>1, ReopenKeepsEpochs, FenceFrame
<1>9. CASE UNCHANGED vars
  BY <1>6, <1>9 DEF vars, tables
<1>10. ASSUME NEW s \in Sessions, Seal(s)
       PROVE  FenceInv'
  BY <1>6, <1>10 DEF Seal
<1>11. ASSUME NEW r \in Runs, NEW who \in Operators, RequestCancel(r, who)
       PROVE  FenceInv'
  BY <1>6, <1>11 DEF RequestCancel, tables
<1>12. ASSUME NEW cutoff \in 1 .. MaxClock, ForgetAdmissions(cutoff)
       PROVE  FenceInv'
  BY <1>6, <1>12 DEF ForgetAdmissions
<1>13. CASE Tick
  BY <1>6, <1>13 DEF Tick, tables
<1> QED
  BY <1>1, <1>2, <1>3, <1>4, <1>5, <1>7, <1>8, <1>9, <1>10, <1>11, <1>12, <1>13 DEF Next

\* Fencing holds whatever the clock does and however leases lapse: two live
\* executors never share a token, and the one whose append would be accepted
\* has seen every record since it acquired.
THEOREM FencingIsSound == Spec => []SoleWriter
<1>1. Init => CoreTypeOK /\ FenceInv
  BY InitCore, InitFence
<1>2. CoreTypeOK /\ FenceInv /\ [Next]_vars => (CoreTypeOK /\ FenceInv)'
  BY NextCore, NextFence
<1>3. FenceInv => SoleWriter
  BY DEF FenceInv
<1> QED
  BY <1>1, <1>2, <1>3, PTL DEF Spec

\* Epochs never decrease along a chain, so the one record epoch_after_history
\* reads carries the highest epoch that ever wrote.
THEOREM ChainsAscend == Spec => []EpochsAscend
<1>1. Init => CoreTypeOK /\ FenceInv
  BY InitCore, InitFence
<1>2. CoreTypeOK /\ FenceInv /\ [Next]_vars => (CoreTypeOK /\ FenceInv)'
  BY NextCore, NextFence
<1>3. FenceInv => EpochsAscend
  BY DEF FenceInv
<1> QED
  BY <1>1, <1>2, <1>3, PTL DEF Spec

-----------------------------------------------------------------------------
(* Exactly-once *)

LEMMA NextOnce ==
    ASSUME CoreTypeOK, OnceCoversStarts, OneStartPerKey, [Next]_vars
    PROVE  OnceCoversStarts' /\ OneStartPerKey'
<1>1. ASSUME NEW s \in Sessions, NEW batch \in Batches, AppendBatch(s, batch)
      PROVE  OnceCoversStarts' /\ OneStartPerKey'
  <2> DEFINE r == session[s].run
             n == Len(journal[r])
             k == Len(batch)
             News == At(batch, "EffectStarted")
  <2>1. /\ r \in Runs
        /\ k \in Nat \ {0} /\ n \in Nat /\ Len(journal'[r]) = n + k
        /\ \A i \in 1 .. n : journal'[r][i] = journal[r][i]
        /\ \A i \in 1 .. k : /\ journal'[r][n + i].kind = batch[i].kind
                            /\ journal'[r][n + i].arg = batch[i].arg
        /\ \A q \in Runs \ {r} : journal'[q] = journal[q]
    BY <1>1, AppendExtends DEF SessionRows
  <2>2. /\ once' = once \cup {<<r, x>> : x \in Starts(batch)}
        /\ \A x \in Starts(batch) : <<r, x>> \notin once
        /\ \A i, j \in News : batch[i].arg = batch[j].arg => i = j
    BY <1>1 DEF AppendBatch, StartsAreNew
  <2>3. \A i \in News : i \in 1 .. k /\ batch[i].arg \in Starts(batch)
    BY DEF At, Starts
  <2>4. \A i \in At(journal'[r], "EffectStarted") :
          \/ i \in At(journal[r], "EffectStarted") /\ i \in 1 .. n
             /\ journal'[r][i] = journal[r][i]
          \/ i - n \in News /\ journal'[r][i].arg = batch[i - n].arg /\ i > n
    <3> SUFFICES ASSUME NEW i \in 1 .. (n + k), journal'[r][i].kind = "EffectStarted"
                 PROVE  \/ i \in At(journal[r], "EffectStarted") /\ i \in 1 .. n
                           /\ journal'[r][i] = journal[r][i]
                        \/ i - n \in News /\ journal'[r][i].arg = batch[i - n].arg /\ i > n
      BY <2>1 DEF At
    <3>1. CASE i \in 1 .. n
      BY <2>1, <3>1 DEF At
    <3>2. CASE i \notin 1 .. n
      <4>1. i - n \in 1 .. k /\ i = n + (i - n) /\ i > n
        BY <2>1, <3>2
      <4> DEFINE m == i - n
      <4>2. m \in 1 .. k /\ i = n + m
        BY <4>1
      <4> HIDE DEF m, n, k
      <4>3. batch[m].kind = "EffectStarted" /\ journal'[r][i].arg = batch[m].arg
        BY <2>1, <4>2
      <4> QED
        BY <4>1, <4>2, <4>3 DEF At, m, k
    <3> QED
      BY <3>1, <3>2
  <2>5. \A q \in Runs \ {r} : At(journal'[q], "EffectStarted") = At(journal[q], "EffectStarted")
    BY <2>1
  <2> HIDE DEF r, n, k, News
  <2>6. OnceCoversStarts'
    <3> SUFFICES ASSUME NEW q \in Runs, NEW i \in At(journal'[q], "EffectStarted")
                 PROVE  <<q, journal'[q][i].arg>> \in once'
      BY ZenonT(30) DEF OnceCoversStarts, At
    <3>1. CASE q # r
      BY <2>1, <2>2, <2>5, <3>1 DEF OnceCoversStarts
    <3>2. CASE q = r
      BY <2>1, <2>2, <2>3, <2>4, <3>2 DEF OnceCoversStarts
    <3> QED
      BY <3>1, <3>2
  <2>7. OneStartPerKey'
    <3> SUFFICES ASSUME NEW q \in Runs, NEW i \in At(journal'[q], "EffectStarted"),
                        NEW j \in At(journal'[q], "EffectStarted"),
                        journal'[q][i].arg = journal'[q][j].arg
                 PROVE  i = j
      BY DEF OneStartPerKey, At
    <3>1. CASE q # r
      BY <2>1, <2>5, <3>1 DEF OneStartPerKey
    <3>2. CASE q = r
      <4>1. i \in Int /\ j \in Int /\ n \in Int
        BY <2>1 DEF At
      <4>2. CASE i \in 1 .. n /\ j \in 1 .. n
        BY <2>1, <2>4, <3>2, <4>1, <4>2 DEF OneStartPerKey
      <4>3. CASE i \notin 1 .. n /\ j \notin 1 .. n
        <5>1. i - n \in News /\ j - n \in News /\ batch[i - n].arg = batch[j - n].arg
          BY <2>4, <3>2, <4>3
        <5> QED
          BY <2>2, <4>1, <5>1
      <4>4. ASSUME NEW a \in At(journal'[q], "EffectStarted"),
                   NEW b \in At(journal'[q], "EffectStarted"),
                   a \in 1 .. n, b \notin 1 .. n, journal'[q][a].arg = journal'[q][b].arg
            PROVE  FALSE
        <5>0. ~(a > n)
          BY <4>1, <4>4
        <5>1. a \in At(journal[r], "EffectStarted") /\ journal'[r][a] = journal[r][a]
          BY <2>4, <3>2, <4>4, <5>0, Zenon
        <5>2. <<r, journal'[r][b].arg>> \in once
          BY <2>1, <3>2, <4>4, <5>1, ZenonT(30) DEF OnceCoversStarts
        <5>3. journal'[r][b].arg \in Starts(batch)
          <6>1. b - n \in News /\ journal'[r][b].arg = batch[b - n].arg
            BY <2>4, <3>2, <4>4
          <6> QED
            BY <2>3, <6>1
        <5> QED
          BY <2>2, <5>2, <5>3
      <4> QED
        BY <4>2, <4>3, <4>4
    <3> QED
      BY <3>1, <3>2
  <2> QED
    BY <2>6, <2>7
<1>2. ASSUME UNCHANGED <<journal, once>>
      PROVE  OnceCoversStarts' /\ OneStartPerKey'
  BY <1>2 DEF OnceCoversStarts, OneStartPerKey
<1>3. \/ UNCHANGED <<journal, once>>
      \/ \E s \in Sessions, batch \in Batches : AppendBatch(s, batch)
  BY ZenonT(30) DEF Next, vars, tables, Acquire, Renew, ReleaseLease, Abandon, Seal, RequestCancel,
         ForgetAdmissions, Restore, Reopen, Tick
<1> QED
  BY <1>1, <1>2, <1>3

\* An effect key is started at most once in a run's chain, by whichever
\* executors wrote it and however their batches were cut.
THEOREM EffectsStartOnce == Spec => []OneStartPerKey
<1>1. Init => CoreTypeOK /\ OnceCoversStarts /\ OneStartPerKey
  BY InitCore DEF Init, OnceCoversStarts, OneStartPerKey, At
<1>2. /\ CoreTypeOK /\ OnceCoversStarts /\ OneStartPerKey /\ [Next]_vars
      => (CoreTypeOK /\ OnceCoversStarts /\ OneStartPerKey)'
  BY NextCore, NextOnce
<1> QED
  BY <1>1, <1>2, PTL DEF Spec

-----------------------------------------------------------------------------
(* The store implements the abstract fenced log *)

\* A token is the epoch of the lease row, or of the last record.
LEMMA TokenFacts ==
    ASSUME CoreTypeOK, FenceInv, NEW r \in Runs
    PROVE  TokenOf(r) \in Nat /\ NextEpoch(r) > TokenOf(r) /\ NextEpoch(r) \in Nat
<1>1. NextEpoch(r) \in Nat
  BY NextEpochType
<1>2. CASE lease[r] # None
  BY <1>1, <1>2 DEF CoreTypeOK, LeaseRows, TokenOf, NextEpoch
<1>3. CASE lease[r] = None /\ journal[r] = <<>>
  BY <1>1, <1>3 DEF TokenOf, NextEpoch, EpochAfterHistory
<1>4. CASE lease[r] = None /\ journal[r] # <<>>
  <2>1. Last(journal[r]) \in Records
    BY <1>4, LastRecord
  <2> QED
    BY <1>1, <1>4, <2>1 DEF TokenOf, NextEpoch, EpochAfterHistory, Records
<1> QED
  BY <1>2, <1>3, <1>4

\* Steps that keep the journal, the seals and every lease's epoch stutter.
LEMMA TokenFrame ==
    ASSUME UNCHANGED <<journal, sealed>>,
           \A r \in Runs : lease[r] = None => lease'[r] = None,
           \A r \in Runs : lease[r] # None =>
                lease'[r] # None /\ lease'[r].epoch = lease[r].epoch
    PROVE  UNCHANGED Log!logVars
<1>1. \A r \in Runs : TokenOf(r)' = TokenOf(r)
  BY DEF TokenOf
<1>2. [r \in Runs |-> TokenOf(r)]' = [r \in Runs |-> TokenOf(r)]
  BY <1>1
<1>3. [r \in Runs |-> sealed[r] # None]' = [r \in Runs |-> sealed[r] # None]
  OBVIOUS
<1> QED
  BY <1>2, <1>3 DEF Log!logVars

LEMMA AcquireGrants ==
    ASSUME CoreTypeOK, FenceInv, NEW s \in Sessions, NEW r \in Runs, NEW o \in Owners,
           Acquire(s, r, o)
    PROVE  Log!Grant(r)
<1>1. /\ journal' = journal /\ sealed' = sealed
      /\ lease' = [lease EXCEPT ![r] =
                    [owner |-> o, epoch |-> NextEpoch(r), expires |-> now + TTL]]
  BY DEF Acquire, tables
<1>2. TokenOf(r) \in Nat /\ NextEpoch(r) > TokenOf(r) /\ NextEpoch(r) \in Nat
  BY TokenFacts
<1>3. [owner |-> o, epoch |-> NextEpoch(r), expires |-> now + TTL] \in LeaseRows
  BY <1>2, StoreAssumption DEF CoreTypeOK, LeaseRows
<1>4. None \notin LeaseRows
  BY StoreAssumption
<1>5. lease'[r] # None /\ lease'[r].epoch = NextEpoch(r)
      /\ \A q \in Runs \ {r} : lease'[q] = lease[q]
  BY <1>1, <1>3, <1>4 DEF CoreTypeOK
<1>6. TokenOf(r)' = NextEpoch(r) /\ \A q \in Runs \ {r} : TokenOf(q)' = TokenOf(q)
  BY <1>1, <1>5 DEF TokenOf
<1>7. [q \in Runs |-> sealed[q] # None]' = [q \in Runs |-> sealed[q] # None]
  BY <1>1
<1> QED
  BY <1>1, <1>2, <1>6, <1>7 DEF Log!Grant

LEMMA AppendWrites ==
    ASSUME CoreTypeOK, FenceInv, NEW s \in Sessions, NEW batch \in Batches,
           AppendBatch(s, batch)
    PROVE  Log!Write(session[s].run)
<1> DEFINE r == session[s].run
           e == session[s].epoch
           n == Len(journal[r])
           k == Len(batch)
<1>1. /\ session[s] \in SessionRows /\ r \in Runs /\ e \in Nat
      /\ k \in Nat \ {0} /\ n \in Nat /\ Len(journal'[r]) = n + k
      /\ \A i \in 1 .. n : journal'[r][i] = journal[r][i]
      /\ \A i \in 1 .. k : journal'[r][n + i].epoch = e
      /\ \A q \in Runs \ {r} : journal'[q] = journal[q]
  BY AppendExtends DEF SessionRows
<1>2. lease' = lease /\ sealed' = sealed /\ sealed[r] = None /\ Admits(r, e)
      /\ session[s] # None
  BY DEF AppendBatch, NotSealed
<1>3. \A q \in Runs : lease[q] # None => TokenOf(q)' = TokenOf(q)
  BY <1>2 DEF TokenOf
<1>4. lease[r] # None /\ TokenOf(r) = e
  BY <1>1, <1>2 DEF FenceInv, SessionsWereIssued, Admits, TokenOf
<1>5. \A q \in Runs : TokenOf(q)' = TokenOf(q)
  BY <1>1, <1>2, <1>3, <1>4 DEF TokenOf
<1>6. [q \in Runs |-> TokenOf(q)]' = [q \in Runs |-> TokenOf(q)]
  BY <1>5
<1>7. [q \in Runs |-> sealed[q] # None]' = [q \in Runs |-> sealed[q] # None]
  BY <1>2
<1>8. \A i \in (n + 1) .. (n + k) : journal'[r][i].epoch = e
  <2> SUFFICES ASSUME NEW i \in (n + 1) .. (n + k) PROVE journal'[r][i].epoch = e
    OBVIOUS
  <2> DEFINE m == i - n
  <2>1. m \in 1 .. k /\ i = n + m
    BY <1>1
  <2> HIDE DEF m, n, k
  <2> QED
    BY <1>1, <2>1
<1>9. ~[q \in Runs |-> sealed[q] # None][r]
  BY <1>1, <1>2
<1>10. [q \in Runs |-> TokenOf(q)][r] = e
  BY <1>1, <1>4
<1> HIDE DEF r, e, n, k
<1>11. /\ Len(journal'[r]) > n
       /\ \A i \in (n + 1) .. Len(journal'[r]) : journal'[r][i].epoch = e
  BY <1>1, <1>8
<1> QED
  BY <1>1, <1>6, <1>7, <1>9, <1>10, <1>11 DEF Log!Write, r, n

\* Every step of the store is a step of the abstract log or changes nothing
\* there.
LEMMA StepRefines ==
    ASSUME CoreTypeOK, FenceInv, [Next]_vars
    PROVE  [Log!Next]_(Log!logVars)
<1>1. ASSUME NEW s \in Sessions, NEW r \in Runs, NEW o \in Owners, Acquire(s, r, o)
      PROVE  Log!Next
  BY <1>1, AcquireGrants DEF Log!Next
<1>2. ASSUME NEW s \in Sessions, NEW batch \in Batches, AppendBatch(s, batch)
      PROVE  Log!Next
  <2>1. session[s].run \in Runs
    BY <1>2 DEF CoreTypeOK, AppendBatch, SessionRows
  <2> QED
    BY <1>2, <2>1, AppendWrites DEF Log!Next
<1>3. ASSUME NEW s \in Sessions, NEW r \in Runs, r = session[s].run, Seal(s)
      PROVE  [Log!Next]_(Log!logVars)
  <2>1. r \in Runs /\ journal[r] # <<>> /\ journal' = journal /\ lease' = lease
    BY <1>3 DEF CoreTypeOK, Seal, Concluded
  <2>2. \A q \in Runs : TokenOf(q)' = TokenOf(q)
    BY <2>1 DEF TokenOf
  <2>3. CASE sealed[r] # None
    BY <1>3, <2>1, <2>3, TokenFrame DEF Seal
  <2>4. ASSUME sealed[r] = None PROVE Log!Next
    <3> DEFINE row == [outcome |-> Last(journal[r]).arg, head |-> Len(journal[r])]
    <3>1. sealed' = [sealed EXCEPT ![r] = row]
      BY <1>3, <2>4 DEF Seal
    <3>2. row # None
      <4>1. row \in SealRows
        BY <2>1, LastRecord, RecordTypes DEF Records, SealRows
      <4> QED
        BY <4>1, StoreAssumption
    <3>3. sealed'[r] # None /\ \A q \in Runs \ {r} : sealed'[q] = sealed[q]
      BY <2>1, <3>1, <3>2 DEF CoreTypeOK
    <3>4. [q \in Runs |-> sealed[q] # None]' =
            [[q \in Runs |-> sealed[q] # None] EXCEPT ![r] = TRUE]
      <4>1. \A q \in Runs : (sealed'[q] # None) = (IF q = r THEN TRUE ELSE sealed[q] # None)
        BY <3>3
      <4> QED
        BY <2>1, <4>1, Zenon
    <3>5. ~[q \in Runs |-> sealed[q] # None][r]
      BY <2>1, <2>4
    <3>6. [q \in Runs |-> TokenOf(q)]' = [q \in Runs |-> TokenOf(q)]
      BY <2>2
    <3>7. Log!Close(r)
      BY <2>1, <3>4, <3>5, <3>6, Zenon DEF Log!Close
    <3>8. r \in Runs
      BY <2>1
    <3> QED
      BY <3>7, <3>8 DEF Log!Next
  <2> QED
    BY <2>3, <2>4
<1>4. ASSUME NEW order \in FileOrders, Restore(order)
      PROVE  Log!Next
  <2>1. journal' = journal /\ sealed' = sealed /\ \A r \in Runs : lease'[r] = None
    BY <1>4, ZenonT(30) DEF Restore
  <2>2. \A r \in Runs : TokenOf(r)' = IF journal[r] = <<>> THEN 0 ELSE journal[r][Len(journal[r])].epoch
    BY <2>1, LastRecord DEF TokenOf
  <2>3. [r \in Runs |-> TokenOf(r)]' =
          [r \in Runs |-> IF journal[r] = <<>> THEN 0 ELSE journal[r][Len(journal[r])].epoch]
    BY <2>2
  <2>4. [r \in Runs |-> sealed[r] # None]' = [r \in Runs |-> sealed[r] # None]
    BY <2>1
  <2> QED
    BY <2>1, <2>3, <2>4 DEF Log!Next, Log!Recover
<1>5. ASSUME UNCHANGED <<journal, sealed, lease>>
      PROVE  UNCHANGED Log!logVars
  BY <1>5, TokenFrame
<1>6. ASSUME NEW s \in Sessions, Renew(s)
      PROVE  UNCHANGED Log!logVars
  BY <1>6, RenewKeepsEpochs, TokenFrame, ZenonT(30) DEF Renew, tables
<1>7. ASSUME NEW s \in Sessions, ReleaseLease(s)
      PROVE  UNCHANGED Log!logVars
  BY <1>7, ReleaseKeepsEpochs, TokenFrame DEF ReleaseLease, tables
<1>8. CASE Reopen
  BY <1>8, ReopenKeepsEpochs, TokenFrame DEF Reopen, tables
<1>9. \/ UNCHANGED <<journal, sealed, lease>>
      \/ \E s \in Sessions, r \in Runs, o \in Owners : Acquire(s, r, o)
      \/ \E s \in Sessions, batch \in Batches : AppendBatch(s, batch)
      \/ \E s \in Sessions : Seal(s) \/ Renew(s) \/ ReleaseLease(s)
      \/ \E order \in FileOrders : Restore(order)
      \/ Reopen
  BY DEF Next, vars, tables, Abandon, RequestCancel, ForgetAdmissions, Tick
<1>10. \A s \in Sessions : Seal(s) => session[s].run \in Runs
  BY DEF CoreTypeOK, Seal, SessionRows
<1> QED
  BY <1>1, <1>2, <1>3, <1>4, <1>5, <1>6, <1>7, <1>8, <1>9, <1>10

\* The journal store implements the fenced log for any number of runs and
\* executors: what it promises is promised whatever happens to its leases.
THEOREM StoreRefinesLog == Spec => ImplementsFencedLog
<1>1. Init => Log!Init
  <2> SUFFICES ASSUME Init PROVE Log!Init
    OBVIOUS
  <2>1. [r \in Runs |-> TokenOf(r)] = [r \in Runs |-> 0]
    BY DEF Init, TokenOf
  <2>2. [r \in Runs |-> sealed[r] # None] = [r \in Runs |-> FALSE]
    BY DEF Init
  <2> QED
    BY <2>1, <2>2 DEF Init, Log!Init
<1>2. Init => CoreTypeOK /\ FenceInv
  BY InitCore, InitFence
<1>3. CoreTypeOK /\ FenceInv /\ [Next]_vars => (CoreTypeOK /\ FenceInv)'
  BY NextCore, NextFence
<1>4. CoreTypeOK /\ FenceInv /\ [Next]_vars => [Log!Next]_(Log!logVars)
  BY StepRefines
<1> QED
  BY <1>1, <1>2, <1>3, <1>4, PTL DEF Spec, ImplementsFencedLog, Log!Spec

-----------------------------------------------------------------------------
(* Seals *)

\* A seal row is written for a run that ends with its conclusion, and enters
\* the log in the same step.
LEMMA SealSeals ==
    ASSUME CoreTypeOK, SealsAreFinal, NEW s \in Sessions, Seal(s)
    PROVE  SealsAreFinal'
<1> DEFINE r == session[s].run
           row == [outcome |-> Last(journal[r]).arg, head |-> Len(journal[r])]
           m == Len(sealLog)
<1>1. r \in Runs /\ journal' = journal /\ journal[r] # <<>>
      /\ Last(journal[r]).kind = "RunConcluded"
  BY DEF CoreTypeOK, Seal, SessionRows, Concluded
<1>2. CASE sealed[r] # None
  BY <1>1, <1>2 DEF SealsAreFinal, Seal
<1>3. CASE sealed[r] = None
  <2>1. sealed' = [sealed EXCEPT ![r] = row] /\ sealLog' = sealLog \o <<r>>
    BY <1>3 DEF Seal
  <2>2. row # None
    <3>1. row \in SealRows
      BY <1>1, LastRecord, RecordTypes DEF Records, SealRows
    <3> QED
      BY <3>1, StoreAssumption
  <2>3. sealed'[r] = row /\ \A q \in Runs \ {r} : sealed'[q] = sealed[q]
    BY <1>1, <2>1 DEF CoreTypeOK
  <2>4. /\ m \in Nat /\ Len(sealLog') = m + 1 /\ sealLog'[m + 1] = r
        /\ \A i \in 1 .. m : sealLog'[i] = sealLog[i]
    BY <1>1, <2>1 DEF CoreTypeOK
  <2>5. \A i \in 1 .. m : sealLog[i] # r
    BY <1>1, <1>3 DEF SealsAreFinal
  <2>6. row.head = Len(journal[r]) /\ row.outcome = Last(journal[r]).arg
    OBVIOUS
  <2> HIDE DEF r, row, m
  <2>7. \A i \in 1 .. m + 1 : i \in 1 .. m \/ i = m + 1
    BY <2>4
  <2>8. \A q \in Runs : sealed'[q] # None =>
          /\ sealed'[q].head = Len(journal'[q])
          /\ Last(journal'[q]).kind = "RunConcluded"
          /\ sealed'[q].outcome = Last(journal'[q]).arg
    BY <1>1, <2>3, <2>6 DEF SealsAreFinal
  <2>9. \A q \in Runs : sealed'[q] # None <=> \E i \in 1 .. Len(sealLog') : sealLog'[i] = q
    <3> SUFFICES ASSUME NEW q \in Runs
                 PROVE  sealed'[q] # None <=> \E i \in 1 .. m + 1 : sealLog'[i] = q
      BY <2>4
    <3>1. CASE q = r
      <4>1. m + 1 \in 1 .. m + 1
        BY <2>4
      <4> QED
        BY <2>2, <2>3, <2>4, <3>1, <4>1
    <3>2. CASE q # r
      <4>1. sealed[q] # None <=> \E i \in 1 .. m : sealLog[i] = q
        BY DEF SealsAreFinal, m
      <4>2. \A i \in 1 .. m : i \in 1 .. m + 1
        BY <2>4
      <4> QED
        BY <2>3, <2>4, <2>7, <3>2, <4>1, <4>2
    <3> QED
      BY <3>1, <3>2
  <2>10. \A i, j \in 1 .. Len(sealLog') : sealLog'[i] = sealLog'[j] => i = j
    <3>1. \A i, j \in 1 .. m : sealLog[i] = sealLog[j] => i = j
      BY DEF SealsAreFinal, m
    <3> QED
      BY <2>4, <2>5, <2>7, <3>1
  <2> QED
    BY <2>8, <2>9, <2>10 DEF SealsAreFinal
<1> QED
  BY <1>2, <1>3

\* No append reaches a sealed run, so its chain still ends where its seal says.
LEMMA AppendKeepsSeals ==
    ASSUME CoreTypeOK, SealsAreFinal, NEW s \in Sessions, NEW batch \in Batches,
           AppendBatch(s, batch)
    PROVE  SealsAreFinal'
<1> DEFINE r == session[s].run
<1>1. \A q \in Runs \ {r} : journal'[q] = journal[q]
  BY AppendExtends
<1>2. sealed' = sealed /\ sealLog' = sealLog /\ sealed[r] = None
  BY DEF AppendBatch, NotSealed
<1> HIDE DEF r
<1> QED
  BY <1>1, <1>2 DEF SealsAreFinal

LEMMA NextSeals ==
    ASSUME CoreTypeOK, SealsAreFinal, [Next]_vars
    PROVE  SealsAreFinal'
<1>1. ASSUME UNCHANGED <<journal, sealed, sealLog>>
      PROVE  SealsAreFinal'
  BY <1>1 DEF SealsAreFinal
<1>2. \/ UNCHANGED <<journal, sealed, sealLog>>
      \/ \E s \in Sessions, batch \in Batches : AppendBatch(s, batch)
      \/ \E s \in Sessions : Seal(s)
  BY ZenonT(30) DEF Next, vars, tables, Acquire, Renew, ReleaseLease, Abandon, RequestCancel,
         ForgetAdmissions, Restore, Reopen, Tick
<1> QED
  BY <1>1, <1>2, SealSeals, AppendKeepsSeals

\* A sealed run is frozen for every executor, at the head and the outcome its
\* seal committed, and the seal log names each sealed run exactly once.
THEOREM SealedRunsStayFrozen == Spec => []SealsAreFinal
<1>1. Init => CoreTypeOK /\ SealsAreFinal
  BY InitCore DEF Init, SealsAreFinal
<1>2. CoreTypeOK /\ SealsAreFinal /\ [Next]_vars => (CoreTypeOK /\ SealsAreFinal)'
  BY NextCore, NextSeals
<1> QED
  BY <1>1, <1>2, PTL DEF Spec

-----------------------------------------------------------------------------
(* Tokens *)

\* While its row survives, a run's token only grows, and no step but a release
\* changes the owner of a token: renewals, lapses and reopenings do not.
THEOREM TokensNeverFall == Spec => TokensOnlyGrow
<1> DEFINE Grows(r) == lease[r] # None /\ lease'[r] # None =>
                          \/ lease'[r].epoch > lease[r].epoch
                          \/ /\ lease'[r].epoch = lease[r].epoch
                             /\ lease'[r].owner \in {lease[r].owner, Nobody}
<1>1. CoreTypeOK /\ [Next]_vars => [\A r \in Runs : Grows(r)]_vars
  <2> SUFFICES ASSUME CoreTypeOK, [Next]_vars, NEW q \in Runs, lease[q] # None, lease'[q] # None
               PROVE  Grows(q)
    OBVIOUS
  <2>0. lease[q] \in LeaseRows /\ lease[q].epoch \in Nat
    BY DEF CoreTypeOK, LeaseRows
  <2>1. ASSUME NEW s \in Sessions, NEW r \in Runs, NEW o \in Owners, Acquire(s, r, o)
        PROVE  Grows(q)
    <3>1. lease' = [lease EXCEPT ![r] =
                      [owner |-> o, epoch |-> NextEpoch(r), expires |-> now + TTL]]
      BY <2>1 DEF Acquire
    <3>2. CASE q = r
      BY <2>0, <3>1, <3>2 DEF CoreTypeOK, NextEpoch
    <3>3. CASE q # r
      BY <2>0, <3>1, <3>3 DEF CoreTypeOK
    <3> QED
      BY <3>2, <3>3
  <2>2. ASSUME NEW s \in Sessions, Renew(s)
        PROVE  Grows(q)
    <3>1. session[s].run \in Runs /\ lease' = [lease EXCEPT ![session[s].run].expires = now + TTL]
      BY <2>2 DEF Renew, CoreTypeOK, SessionRows
    <3> QED
      BY <2>0, <3>1 DEF CoreTypeOK, LeaseRows
  <2>3. ASSUME NEW s \in Sessions, ReleaseLease(s)
        PROVE  Grows(q)
    BY <2>0, <2>3 DEF ReleaseLease, CoreTypeOK, SessionRows
  <2>4. CASE Reopen
    <3>1. lease'[q] = [lease[q] EXCEPT !.expires = now] \/ lease'[q] = lease[q]
      BY <2>4 DEF Reopen
    <3> QED
      BY <2>0, <3>1 DEF LeaseRows
  <2>5. ASSUME NEW order \in FileOrders, Restore(order)
        PROVE  Grows(q)
    BY <2>5, ZenonT(30) DEF Restore
  <2>6. CASE UNCHANGED lease
    BY <2>0, <2>6
  <2>7. \/ UNCHANGED lease
        \/ \E s \in Sessions, r \in Runs, o \in Owners : Acquire(s, r, o)
        \/ \E s \in Sessions : Renew(s) \/ ReleaseLease(s)
        \/ \E order \in FileOrders : Restore(order)
        \/ Reopen
    BY ZenonT(30) DEF Next, vars, tables, Abandon, AppendBatch, Seal, RequestCancel,
           ForgetAdmissions, Tick
  <2> HIDE DEF Grows
  <2> QED
    BY <2>1, <2>2, <2>3, <2>4, <2>5, <2>6, <2>7
<1> QED
  BY <1>1, CoreTypeCorrect, PTL DEF Spec, TokensOnlyGrow

-----------------------------------------------------------------------------
(* Idempotency keys *)

\* The admission index holds rows, and the first record of every chain claims
\* a key or none.
ClaimsAreKeys ==
    /\ admission \in [AdmissionKeys -> AdmissionRows \cup {None}]
    /\ \A r \in Runs : ClaimOf(r) \in AdmissionKeys \cup {None}

\* Why a key names one run: the inductive invariant behind OneRunPerKey.
KeyInv == ClaimsAreKeys /\ OneRunPerKey

\* A batch claims the key of the run it opens, and nothing for a run already
\* open.
LEMMA BatchClaims ==
    ASSUME CoreTypeOK, NEW s \in Sessions, NEW batch \in Batches, AppendBatch(s, batch),
           NEW r \in Runs, r = session[s].run
    PROVE  /\ \A q \in Runs \ {r} : ClaimOf(q)' = ClaimOf(q)
           /\ journal[r] # <<>> => Claims(batch) = {} /\ ClaimOf(r)' = ClaimOf(r)
           /\ journal[r] = <<>> => /\ ClaimOf(r)' \in AdmissionKeys \cup {None}
                                   /\ Claims(batch) = {ClaimOf(r)'} \ {None}
<1> DEFINE n == Len(journal[r])
           k == Len(batch)
<1>1. /\ k \in Nat \ {0} /\ n \in Nat /\ Len(journal'[r]) = n + k
      /\ \A i \in 1 .. n : journal'[r][i] = journal[r][i]
      /\ \A i \in 1 .. k : journal'[r][n + i].arg = batch[i].arg
      /\ \A q \in Runs \ {r} : journal'[q] = journal[q]
  BY AppendExtends
<1>2. \A i \in 1 .. k : batch[i].kind = "RunAdmitted" <=> (journal[r] = <<>> /\ i = 1)
  BY DEF AppendBatch, WellFormed
<1>3. \A q \in Runs \ {r} : ClaimOf(q)' = ClaimOf(q)
  BY <1>1 DEF ClaimOf
<1>4. journal'[r] # <<>> /\ ClaimOf(r)' = journal'[r][1].arg
  BY <1>1 DEF ClaimOf
<1>5. ASSUME journal[r] # <<>>
      PROVE  Claims(batch) = {} /\ ClaimOf(r)' = ClaimOf(r)
  <2>1. At(batch, "RunAdmitted") = {}
    BY <1>2, <1>5 DEF At
  <2>2. 1 \in 1 .. n /\ ClaimOf(r) = journal[r][1].arg
    <3>1. journal[r] \in Seq(Records)
      BY <1>1 DEF CoreTypeOK
    <3>2. n # 0
      BY <1>5, <3>1
    <3> QED
      BY <1>1, <1>5, <3>2 DEF ClaimOf
  <2> QED
    BY <1>1, <1>4, <2>1, <2>2 DEF Claims
<1>6. ASSUME journal[r] = <<>>
      PROVE  /\ ClaimOf(r)' \in AdmissionKeys \cup {None}
             /\ Claims(batch) = {ClaimOf(r)'} \ {None}
  <2>1. n = 0 /\ 1 \in 1 .. k
    BY <1>1, <1>6
  <2>2. At(batch, "RunAdmitted") = {1}
    BY <1>2, <1>6, <2>1 DEF At
  <2>3. ClaimOf(r)' = batch[1].arg
    BY <1>1, <1>4, <2>1
  <2>4. batch[1] \in Bodies /\ batch[1].kind = "RunAdmitted"
    <3>1. PICK m \in 1 .. MaxBatch : batch \in [1 .. m -> Bodies]
      BY DEF Batches
    <3> QED
      BY <1>2, <1>6, <2>1, <3>1, StoreAssumption
  <2>5. batch[1].arg \in AdmissionKeys \cup {None}
    BY <2>4 DEF Bodies
  <2> QED
    BY <2>2, <2>3, <2>5 DEF Claims
<1> QED
  BY <1>1, <1>3, <1>5, <1>6

LEMMA AppendKeepsKeys ==
    ASSUME CoreTypeOK, KeyInv, NEW s \in Sessions, NEW batch \in Batches,
           AppendBatch(s, batch)
    PROVE  KeyInv'
<1>0. PICK r \in Runs : r = session[s].run
  BY DEF CoreTypeOK, AppendBatch, SessionRows
<1> DEFINE row == [run |-> r, at |-> now]
<1>1. /\ \A q \in Runs \ {r} : ClaimOf(q)' = ClaimOf(q)
      /\ journal[r] # <<>> => Claims(batch) = {} /\ ClaimOf(r)' = ClaimOf(r)
      /\ journal[r] = <<>> => /\ ClaimOf(r)' \in AdmissionKeys \cup {None}
                              /\ Claims(batch) = {ClaimOf(r)'} \ {None}
  BY <1>0, BatchClaims
<1>2. /\ admission' = [k \in AdmissionKeys |-> IF k \in Claims(batch) THEN row ELSE admission[k]]
      /\ retired' = retired
      /\ \A k \in Claims(batch) : admission[k] = None
  BY <1>0 DEF AppendBatch, ClaimsAreFree
<1>3. row \in AdmissionRows /\ row # None /\ row.run = r
  <2>1. row \in AdmissionRows
    BY DEF CoreTypeOK, AdmissionRows
  <2> QED
    BY <2>1, StoreAssumption
<1>4. None \notin AdmissionKeys
  BY StoreAssumption
<1>5. journal[r] = <<>> => ClaimOf(r) = None
  BY DEF ClaimOf
<1> HIDE DEF row
<1>6. ClaimsAreKeys'
  <2>1. \A q \in Runs : ClaimOf(q)' \in AdmissionKeys \cup {None}
    BY <1>1 DEF KeyInv, ClaimsAreKeys
  <2>2. admission' \in [AdmissionKeys -> AdmissionRows \cup {None}]
    BY <1>2, <1>3 DEF KeyInv, ClaimsAreKeys
  <2> QED
    BY <2>1, <2>2 DEF ClaimsAreKeys
<1>7. ASSUME NEW k \in AdmissionKeys, admission'[k] # None
      PROVE  ClaimOf(admission[k].run)' = k
  <2>1. CASE k \in Claims(batch)
    <3>1. admission'[k].run = r /\ ClaimOf(r)' = k
      BY <1>1, <1>2, <1>3, <2>1
    <3> QED
      BY <3>1 DEF ClaimOf
  <2>2. CASE k \notin Claims(batch)
    <3>1. admission'[k] = admission[k] /\ admission[k].run \in Runs
          /\ ClaimOf(admission[k].run) = k
      BY <1>2, <1>7, <2>2 DEF KeyInv, ClaimsAreKeys, OneRunPerKey, AdmissionRows
    <3>2. ClaimOf(admission[k].run) # None
      BY <1>4, <3>1
    <3>3. admission[k].run = r => journal[r] # <<>>
      BY <1>5, <3>2
    <3>4. \A q \in Runs : (q = admission[k].run) => ClaimOf(q)' = k
      BY <1>1, <3>1, <3>3
    <3> QED
      BY <3>1, <3>4 DEF ClaimOf
  <2> QED
    BY <2>1, <2>2
<1>8. ASSUME NEW q \in Runs, ClaimOf(q)' # None
      PROVE  \/ admission'[ClaimOf(q)'] # None /\ admission'[ClaimOf(q)'].run = q
             \/ ClaimOf(q)' \in retired'
  <2> DEFINE c == ClaimOf(q)'
  <2>0. c \in AdmissionKeys
    BY <1>6, <1>8 DEF ClaimsAreKeys
  <2>1. CASE q = r /\ journal[r] = <<>>
    <3>1. c \in Claims(batch)
      BY <1>1, <1>8, <2>1
    <3> QED
      BY <1>2, <1>3, <2>0, <2>1, <3>1
  <2>2. CASE q # r \/ journal[r] # <<>>
    <3>1. c = ClaimOf(q)
      BY <1>1, <2>2
    <3>2. \/ admission[c] # None /\ admission[c].run = q
          \/ c \in retired
      BY <1>8, <3>1 DEF KeyInv, OneRunPerKey
    <3> QED
      BY <1>2, <2>0, <3>2
  <2> QED
    BY <2>1, <2>2
<1> QED
  BY <1>6, <1>7, <1>8 DEF KeyInv, OneRunPerKey

LEMMA ForgetKeepsKeys ==
    ASSUME KeyInv, NEW cutoff \in 1 .. MaxClock, ForgetAdmissions(cutoff)
    PROVE  KeyInv'
<1> DEFINE stale == {k \in AdmissionKeys : admission[k] # None /\ admission[k].at < cutoff}
<1>1. /\ admission' = [k \in AdmissionKeys |-> IF k \in stale THEN None ELSE admission[k]]
      /\ retired' = retired \cup stale /\ journal' = journal
  BY DEF ForgetAdmissions
<1> HIDE DEF stale
<1>2. \A r \in Runs : ClaimOf(r)' = ClaimOf(r)
  BY <1>1 DEF ClaimOf
<1>3. ClaimsAreKeys'
  BY <1>1, <1>2 DEF KeyInv, ClaimsAreKeys
<1>4. \A k \in AdmissionKeys : admission'[k] # None => ClaimOf(admission[k].run)' = k
  <2> SUFFICES ASSUME NEW k \in AdmissionKeys, admission'[k] # None
               PROVE  ClaimOf(admission[k].run)' = k
    OBVIOUS
  <2>1. admission'[k] = admission[k] /\ ClaimOf(admission[k].run) = k
    BY <1>1 DEF KeyInv, OneRunPerKey
  <2> QED
    BY <1>1, <2>1 DEF ClaimOf
<1>5. ASSUME NEW r \in Runs, ClaimOf(r)' # None
      PROVE  \/ admission'[ClaimOf(r)'] # None /\ admission'[ClaimOf(r)'].run = r
             \/ ClaimOf(r)' \in retired'
  <2> DEFINE c == ClaimOf(r)
  <2>1. c \in AdmissionKeys /\ ClaimOf(r)' = c
    BY <1>2, <1>5 DEF KeyInv, ClaimsAreKeys
  <2>2. \/ admission[c] # None /\ admission[c].run = r
        \/ c \in retired
    BY <1>5, <2>1 DEF KeyInv, OneRunPerKey
  <2> HIDE DEF c
  <2> QED
    BY <1>1, <2>1, <2>2
<1> QED
  BY <1>3, <1>4, <1>5 DEF KeyInv, OneRunPerKey

\* A restore claims every key again for the one run that carries it.
LEMMA RestoreKeepsKeys ==
    ASSUME CoreTypeOK, KeyInv, NEW order \in FileOrders, Restore(order)
    PROVE  KeyInv'
<1> DEFINE owner(k) == CHOOSE r \in Runs : ClaimOf(r) = k
<1>1. /\ \A r, q \in Runs : ClaimOf(r) # None /\ ClaimOf(r) = ClaimOf(q) => r = q
      /\ admission' = [k \in AdmissionKeys |->
                        IF \E r \in Runs : ClaimOf(r) = k
                        THEN [run |-> owner(k), at |-> now] ELSE None]
      /\ journal' = journal /\ retired' = retired
  BY ZenonT(30) DEF Restore
<1>2. \A r \in Runs : ClaimOf(r)' = ClaimOf(r)
  BY <1>1 DEF ClaimOf
<1>3. \A k \in AdmissionKeys : (\E r \in Runs : ClaimOf(r) = k) =>
        owner(k) \in Runs /\ ClaimOf(owner(k)) = k
  OBVIOUS
<1>4. \A k \in AdmissionKeys, r \in Runs : ClaimOf(r) = k => owner(k) = r
  BY <1>1, <1>3, StoreAssumption
<1> HIDE DEF owner
<1>5. ClaimsAreKeys'
  <2>1. admission' \in [AdmissionKeys -> AdmissionRows \cup {None}]
    BY <1>1, <1>3 DEF CoreTypeOK, AdmissionRows
  <2> QED
    BY <1>2, <2>1 DEF KeyInv, ClaimsAreKeys
<1>6. \A r \in Runs : [run |-> r, at |-> now] # None
  <2>1. \A r \in Runs : [run |-> r, at |-> now] \in AdmissionRows
    BY DEF CoreTypeOK, AdmissionRows
  <2> QED
    BY <2>1, StoreAssumption
<1>7. \A k \in AdmissionKeys : admission'[k] # None => ClaimOf(admission[k].run)' = k
  <2> SUFFICES ASSUME NEW k \in AdmissionKeys, admission'[k] # None
               PROVE  ClaimOf(admission[k].run)' = k
    OBVIOUS
  <2>1. admission'[k].run = owner(k) /\ ClaimOf(owner(k)) = k
    BY <1>1, <1>3
  <2> QED
    BY <1>1, <2>1 DEF ClaimOf
<1>8. \A r \in Runs : ClaimOf(r)' # None =>
        admission'[ClaimOf(r)'] # None /\ admission'[ClaimOf(r)'].run = r
  <2> SUFFICES ASSUME NEW r \in Runs, ClaimOf(r) # None
               PROVE  admission'[ClaimOf(r)] # None /\ admission'[ClaimOf(r)].run = r
    BY <1>2
  <2> DEFINE c == ClaimOf(r)
  <2>1. c \in AdmissionKeys
    BY DEF KeyInv, ClaimsAreKeys
  <2>2. owner(c) = r
    BY <1>4, <2>1
  <2>3. admission'[c] = [run |-> r, at |-> now]
    BY <1>1, <2>1, <2>2
  <2> QED
    BY <1>6, <2>3
<1> QED
  BY <1>5, <1>7, <1>8 DEF KeyInv, OneRunPerKey

LEMMA NextKeys ==
    ASSUME CoreTypeOK, KeyInv, [Next]_vars
    PROVE  KeyInv'
<1>1. ASSUME UNCHANGED <<journal, admission, retired>>
      PROVE  KeyInv'
  BY <1>1 DEF KeyInv, ClaimsAreKeys, OneRunPerKey, ClaimOf
<1>2. \/ UNCHANGED <<journal, admission, retired>>
      \/ \E s \in Sessions, batch \in Batches : AppendBatch(s, batch)
      \/ \E cutoff \in 1 .. MaxClock : ForgetAdmissions(cutoff)
      \/ \E order \in FileOrders : Restore(order)
  BY ZenonT(30) DEF Next, vars, tables, Acquire, Renew, ReleaseLease, Abandon, Seal, RequestCancel,
         Reopen, Tick
<1> QED
  BY <1>1, <1>2, AppendKeepsKeys, ForgetKeepsKeys, RestoreKeepsKeys

LEMMA KeysHold == Spec => []KeyInv
<1>1. Init => CoreTypeOK /\ KeyInv
  BY InitCore DEF Init, KeyInv, ClaimsAreKeys, OneRunPerKey, ClaimOf
<1>2. CoreTypeOK /\ KeyInv /\ [Next]_vars => (CoreTypeOK /\ KeyInv)'
  BY NextCore, NextKeys
<1> QED
  BY <1>1, <1>2, PTL DEF Spec

\* An idempotency key names one run: whatever executors race for it, and
\* through retention and restores, the index points at a run admitted under
\* the key, and a second run carries it only after retention freed it.
THEOREM KeysNameOneRun == Spec => []OneRunPerKey
<1>1. KeyInv => OneRunPerKey
  BY DEF KeyInv
<1> QED
  BY <1>1, KeysHold, PTL

-----------------------------------------------------------------------------
(* The listings *)

\* In a finite set where what is below an element is a strict total order,
\* every rank is taken and ranks rise with the order.
LEMMA RanksAreTaken ==
    ASSUME NEW S, IsFiniteSet(S), NEW B,
           \A p \in S : B[p] \subseteq S /\ p \notin B[p],
           \A p, q \in S : p # q => p \in B[q] \/ q \in B[p],
           \A p, q \in S : p \in B[q] => B[p] \subseteq B[q]
    PROVE  /\ Cardinality(S) \in Nat
           /\ \A p \in S : Cardinality(B[p]) \in Nat
           /\ \A p, q \in S : p \in B[q] => Cardinality(B[p]) < Cardinality(B[q])
           /\ \A i \in 1 .. Cardinality(S) : \E p \in S : Cardinality(B[p]) = i - 1
<1> DEFINE n == Cardinality(S)
<1>1. n \in Nat
  BY FS_CardinalityType
<1>2. ASSUME NEW p \in S PROVE IsFiniteSet(B[p]) /\ Cardinality(B[p]) \in Nat
  <2>1. IsFiniteSet(B[p])
    BY FS_Subset
  <2> QED
    BY <2>1, FS_CardinalityType
<1>3. ASSUME NEW p \in S, NEW q \in S, p \in B[q]
      PROVE  Cardinality(B[p]) < Cardinality(B[q])
  <2>1. B[p] \in SUBSET B[q] /\ B[p] # B[q]
    BY <1>3
  <2>2. /\ Cardinality(B[p]) <= Cardinality(B[q])
        /\ Cardinality(B[q]) = Cardinality(B[p]) => B[q] = B[p]
    BY <1>2, <2>1, FS_Subset
  <2> QED
    BY <1>2, <2>1, <2>2
<1>4. ASSUME NEW p \in S PROVE Cardinality(B[p]) < n
  <2>1. B[p] \in SUBSET S /\ B[p] # S
    OBVIOUS
  <2>2. /\ Cardinality(B[p]) <= Cardinality(S)
        /\ Cardinality(S) = Cardinality(B[p]) => S = B[p]
    BY <2>1, FS_Subset
  <2> QED
    BY <1>1, <1>2, <2>1, <2>2
<1> HIDE DEF n
<1> DEFINE f == [p \in S |-> Cardinality(B[p]) + 1]
<1>5. f \in [S -> 1 .. n]
  BY <1>1, <1>2, <1>4
<1>6. f \in Injection(S, 1 .. n)
  <2>1. ASSUME NEW p \in S, NEW q \in S, f[p] = f[q] PROVE p = q
    <3>1. Cardinality(B[p]) = Cardinality(B[q])
      BY <1>2, <2>1
    <3>2. p \notin B[q] /\ q \notin B[p]
      BY <1>2, <1>3, <3>1
    <3> QED
      BY <3>2
  <2> QED
    BY <1>5, <2>1 DEF Injection, IsInjective
<1>7. IsFiniteSet(1 .. n) /\ Cardinality(1 .. n) = n
  <2>1. 1 \in Int /\ n \in Int
    BY <1>1
  <2>2. IsFiniteSet(1 .. n) /\ Cardinality(1 .. n) = IF 1 > n THEN 0 ELSE n - 1 + 1
    BY <2>1, FS_Interval
  <2> QED
    BY <1>1, <2>2
<1>8. \A i \in 1 .. n : \E p \in S : f[p] = i
  <2>1. Cardinality(S) = Cardinality(1 .. n)
    BY <1>7 DEF n
  <2> HIDE DEF f
  <2>2. f \in Surjection(S, 1 .. n)
    BY <1>6, <1>7, <2>1, FS_Injection
  <2> QED
    BY <2>2 DEF Surjection
<1>9. ASSUME NEW i \in 1 .. n PROVE \E p \in S : Cardinality(B[p]) = i - 1
  <2>1. PICK p \in S : f[p] = i
    BY <1>8
  <2>2. Cardinality(B[p]) = i - 1
    BY <1>1, <1>2, <2>1
  <2> QED
    BY <2>2
<1> QED
  BY <1>1, <1>2, <1>3, <1>9 DEF n

\* A nonempty set of positions has a last one.
LEMMA LastPosition ==
    ASSUME NEW m \in Nat, NEW T, T \subseteq 1 .. m, T # {}
    PROVE  \E i \in T : \A j \in T : j <= i
<1> DEFINE U == {m - i : i \in T}
<1>1. U \subseteq Nat /\ U # {}
  <2>1. \A i \in T : m - i \in Nat
    OBVIOUS
  <2> QED
    BY <2>1
<1>2. PICK u \in U : \A v \in U : ~ (<<v, u>> \in OpToRel(<, Nat))
  <2> HIDE DEF U
  <2> QED
    BY <1>1, WFMin, NatLessThanWellFounded, Zenon
<1>3. \A v \in U : ~(v < u)
  BY <1>1, <1>2 DEF OpToRel
<1>4. PICK i \in T : u = m - i
  OBVIOUS
<1>5. \A j \in T : ~(m - j < m - i)
  BY <1>3, <1>4
<1>6. \A j \in T : j <= i
  <2>1. i \in 1 .. m /\ \A j \in T : j \in 1 .. m
    OBVIOUS
  <2> QED
    BY <1>5, <2>1
<1> QED
  BY <1>6

\* The records of every chain, by run and position.
LEMMA RowFacts ==
    ASSUME CoreTypeOK
    PROVE  /\ \A p : p \in RunRows <=> \E r \in Runs : \E i \in 1 .. Len(journal[r]) : p = <<r, i>>
           /\ RunRows \subseteq Runs \X Nat
<1>1. \A r \in Runs : Len(journal[r]) \in Nat
  BY RecordTypes
<1> QED
  BY <1>1 DEF RunRows

LEMMA InitIndex == Init => IndexTypeOK /\ IndexInv
<1> SUFFICES ASSUME Init PROVE IndexTypeOK /\ IndexInv
  OBVIOUS
<1>1. /\ journal = [r \in Runs |-> <<>>] /\ feed = <<>> /\ byOutcome = {} /\ waiting = {}
      /\ outcomeOf = [r \in Runs |-> None] /\ waitingAt = [r \in Runs |-> None]
      /\ conclusions = 0 /\ admission = [k \in AdmissionKeys |-> None]
  BY DEF Init
<1>2. IndexTypeOK
  BY <1>1 DEF IndexTypeOK, Args
<1>3. \A r \in Runs : At(journal[r], "RunConcluded") = {} /\ 1 .. Len(journal[r]) = {}
  BY <1>1 DEF At
<1>4. OutcomeIsLastConclusion
  BY <1>1, <1>3 DEF OutcomeIsLastConclusion
<1>5. WaitsAreNoted
  BY <1>1 DEF WaitsAreNoted, WaitOf
<1>6. FeedIsComplete
  <2>1. RunRows = {}
    BY <1>3 DEF RunRows
  <2> QED
    BY <1>1, <2>1 DEF FeedIsComplete
<1> QED
  BY <1>2, <1>4, <1>5, <1>6 DEF IndexInv

\* A batch as an append sees it.
LEMMA BatchFacts ==
    ASSUME NEW batch \in Batches
    PROVE  /\ Len(batch) \in Nat \ {0}
           /\ \A i \in 1 .. Len(batch) :
                /\ batch[i].arg \in Args
                /\ batch[i].kind = "RunSuspended" => batch[i].arg # None
                /\ batch[i].kind = "RunConcluded" => batch[i].arg # None
           /\ Last(batch) = batch[Len(batch)]
<1>1. PICK n \in 1 .. MaxBatch : batch \in [1 .. n -> Bodies]
  BY StoreAssumption DEF Batches
<1>2. n \in Nat \ {0} /\ Len(batch) = n
  BY <1>1, StoreAssumption
<1>3. \A b \in Bodies : /\ b.arg \in Args
                        /\ b.kind = "RunSuspended" => b.arg \in Untils
                        /\ b.kind = "RunConcluded" => b.arg \in Outcomes
  BY DEF Bodies, Args
<1>4. None \notin Untils /\ None \notin Outcomes
  BY StoreAssumption
<1> QED
  BY <1>1, <1>2, <1>3, <1>4 DEF Last

\* The waiting index follows the last record of every batch.
LEMMA AppendKeepsWaits ==
    ASSUME CoreTypeOK, CoreTypeOK', IndexTypeOK, WaitsAreNoted,
           NEW s \in Sessions, NEW batch \in Batches, AppendBatch(s, batch)
    PROVE  /\ WaitsAreNoted'
           /\ waitingAt' \in [Runs -> Args] /\ waiting' \in SUBSET (Args \X Runs)
<1>1. PICK r \in Runs : r = session[s].run
  BY DEF CoreTypeOK, AppendBatch, SessionRows
<1>2. PICK k \in Nat \ {0} : k = Len(batch)
  BY BatchFacts
<1>3. /\ Len(journal'[r]) = Len(journal[r]) + k /\ Len(journal[r]) \in Nat
      /\ journal'[r][Len(journal[r]) + k].kind = batch[k].kind
      /\ journal'[r][Len(journal[r]) + k].arg = batch[k].arg
      /\ \A q \in Runs \ {r} : journal'[q] = journal[q]
  <2>1. k \in 1 .. Len(batch)
    BY <1>2
  <2> QED
    BY <1>1, <1>2, <2>1, AppendExtends
<1>4. PICK until : until = WaitsUntil(batch)
  OBVIOUS
<1>5. /\ until = (IF batch[k].kind = "RunSuspended" THEN batch[k].arg ELSE None)
      /\ batch[k].kind = "RunSuspended" => batch[k].arg # None
      /\ until \in Args
  BY <1>2, <1>4, BatchFacts DEF WaitsUntil, Args
<1>6. journal'[r] # <<>> /\ Last(journal'[r]) = journal'[r][Len(journal[r]) + k]
  BY <1>3 DEF Last
<1>7. WaitOf(r)' = until /\ (Last(journal'[r]).kind = "RunSuspended" => until # None)
  BY <1>3, <1>5, <1>6 DEF WaitOf
<1>8. \A q \in Runs \ {r} : WaitOf(q)' = WaitOf(q)
  BY <1>3 DEF WaitOf
<1>9. /\ waitingAt' = [waitingAt EXCEPT ![r] = until]
      /\ waiting' = (waiting \ {<<waitingAt[r], r>>})
                        \cup (IF until = None THEN {} ELSE {<<until, r>>})
  BY <1>1, <1>4 DEF AppendBatch, IndexWaiting
<1>10. /\ waitingAt' \in [Runs -> Args] /\ waitingAt'[r] = until
       /\ \A q \in Runs \ {r} : waitingAt'[q] = waitingAt[q]
  BY <1>5, <1>9 DEF IndexTypeOK
<1>11. \A x : x \in waiting <=> \E q \in Runs : x = <<waitingAt[q], q>> /\ waitingAt[q] # None
  BY DEF WaitsAreNoted
<1>12. ASSUME NEW x
       PROVE  x \in waiting' <=> \E q \in Runs : x = <<waitingAt'[q], q>> /\ waitingAt'[q] # None
  <2>1. ASSUME x \in waiting' PROVE \E q \in Runs : x = <<waitingAt'[q], q>> /\ waitingAt'[q] # None
    <3>1. CASE x \in waiting /\ x # <<waitingAt[r], r>>
      <4>1. PICK q \in Runs : x = <<waitingAt[q], q>> /\ waitingAt[q] # None
        BY <1>11, <3>1
      <4>2. q # r
        BY <3>1, <4>1
      <4> QED
        BY <1>10, <4>1, <4>2
    <3>2. CASE x = <<until, r>> /\ until # None
      BY <1>10, <3>2
    <3> QED
      BY <1>9, <2>1, <3>1, <3>2
  <2>2. ASSUME NEW q \in Runs, x = <<waitingAt'[q], q>>, waitingAt'[q] # None PROVE x \in waiting'
    <3>1. CASE q = r
      BY <1>9, <1>10, <2>2, <3>1
    <3>2. CASE q # r
      <4>1. x \in waiting
        BY <1>10, <1>11, <2>2, <3>2
      <4>2. x # <<waitingAt[r], r>>
        BY <2>2, <3>2
      <4> QED
        BY <1>9, <4>1, <4>2
    <3> QED
      BY <3>1, <3>2
  <2> QED
    BY <2>1, <2>2
<1>13. waiting' = {<<waitingAt'[q], q>> : q \in {q \in Runs : waitingAt'[q] # None}}
  BY <1>12
<1>14. waiting' \in SUBSET (Args \X Runs)
  BY <1>10, <1>13
<1>15. \A q \in Runs : /\ waitingAt'[q] = WaitOf(q)'
                       /\ journal'[q] # <<>> /\ Last(journal'[q]).kind = "RunSuspended" => WaitOf(q)' # None
  <2> SUFFICES ASSUME NEW q \in Runs
               PROVE  /\ waitingAt'[q] = WaitOf(q)'
                      /\ journal'[q] # <<>> /\ Last(journal'[q]).kind = "RunSuspended" => WaitOf(q)' # None
    OBVIOUS
  <2>1. CASE q = r
    BY <1>7, <1>10, <2>1
  <2>2. CASE q # r
    BY <1>3, <1>8, <1>10, <2>2 DEF WaitsAreNoted
  <2> QED
    BY <2>1, <2>2
<1> QED
  BY <1>10, <1>13, <1>14, <1>15 DEF WaitsAreNoted

\* The feed takes the records of a batch after those before them.
LEMMA AppendKeepsFeed ==
    ASSUME CoreTypeOK, CoreTypeOK', IndexTypeOK, FeedIsComplete,
           NEW s \in Sessions, NEW batch \in Batches, AppendBatch(s, batch)
    PROVE  FeedIsComplete' /\ feed' \in Seq(Runs \X Nat)
<1>1. PICK r \in Runs : r = session[s].run
  BY DEF CoreTypeOK, AppendBatch, SessionRows
<1>2. PICK k, n \in Nat : k = Len(batch) /\ n = Len(journal[r])
  BY BatchFacts, RecordTypes
<1>3. /\ Len(journal'[r]) = n + k
      /\ \A q \in Runs \ {r} : journal'[q] = journal[q]
  BY <1>1, <1>2, AppendExtends
<1>4. PICK rows : rows = FeedRows(r, batch)
  OBVIOUS
<1>5. rows = [i \in 1 .. k |-> <<r, n + i>>]
  BY <1>2, <1>4 DEF FeedRows
<1>6. rows \in Seq(Runs \X Nat) /\ Len(rows) = k /\ \A i \in 1 .. k : rows[i] = <<r, n + i>>
  <2>1. rows \in [1 .. k -> Runs \X Nat]
    BY <1>5
  <2> QED
    BY <1>5, <2>1
<1>7. feed' = feed \o rows /\ feed \in Seq(Runs \X Nat)
  BY <1>1, <1>4 DEF AppendBatch, IndexTypeOK
<1>8. PICK m \in Nat : m = Len(feed)
  BY <1>7
<1>9. /\ Len(feed') = m + k /\ feed' \in Seq(Runs \X Nat)
      /\ \A i \in 1 .. m : feed'[i] = feed[i]
      /\ \A i \in 1 .. k : feed'[m + i] = <<r, n + i>>
  <2>1. /\ Len(feed') = Len(feed) + Len(rows)
        /\ \A i \in 1 .. Len(feed) : feed'[i] = feed[i]
        /\ \A i \in 1 .. Len(rows) : feed'[Len(feed) + i] = rows[i]
    BY <1>6, <1>7, ConcatFacts
  <2>2. feed' \in Seq(Runs \X Nat)
    BY <1>6, <1>7
  <2> QED
    BY <1>6, <1>8, <2>1, <2>2
<1>10. \A p : p \in RunRows <=> \E q \in Runs : \E i \in 1 .. Len(journal[q]) : p = <<q, i>>
  BY RowFacts
<1>11. \A p : p \in RunRows' <=> \E q \in Runs : \E i \in 1 .. Len(journal'[q]) : p = <<q, i>>
  <2>1. \A q \in Runs : Len(journal'[q]) \in Nat
    BY DEF CoreTypeOK
  <2> QED
    BY <2>1 DEF RunRows
<1>12. ASSUME NEW i \in 1 .. m + k, i \notin 1 .. m PROVE \E j \in 1 .. k : i = m + j
  <2>1. i - m \in 1 .. k /\ i = m + (i - m)
    BY <1>12
  <2> QED
    BY <2>1
<1>13. ASSUME NEW i \in 1 .. n + k, i \notin 1 .. n PROVE \E j \in 1 .. k : i = n + j
  <2>1. i - n \in 1 .. k /\ i = n + (i - n)
    BY <1>13
  <2> QED
    BY <2>1
<1>14. ASSUME NEW p PROVE p \in RunRows' <=> p \in RunRows \/ \E j \in 1 .. k : p = <<r, n + j>>
  <2>1. ASSUME NEW q \in Runs, NEW i \in 1 .. Len(journal'[q]), p = <<q, i>>
        PROVE  p \in RunRows \/ \E j \in 1 .. k : p = <<r, n + j>>
    <3>1. CASE q # r
      BY <1>3, <1>10, <2>1, <3>1
    <3>2. CASE q = r /\ i \in 1 .. n
      BY <1>2, <1>10, <2>1, <3>2
    <3>3. CASE q = r /\ i \notin 1 .. n
      BY <1>3, <1>13, <2>1, <3>3
    <3> QED
      BY <3>1, <3>2, <3>3
  <2>2. ASSUME NEW q \in Runs, NEW i \in 1 .. Len(journal[q]), p = <<q, i>> PROVE p \in RunRows'
    <3>1. i \in 1 .. Len(journal'[q])
      <4>1. CASE q = r
        BY <1>2, <1>3, <4>1
      <4>2. CASE q # r
        BY <1>3, <4>2
      <4> QED
        BY <4>1, <4>2
    <3> QED
      BY <1>11, <2>2, <3>1
  <2>3. ASSUME NEW j \in 1 .. k, p = <<r, n + j>> PROVE p \in RunRows'
    <3>1. n + j \in 1 .. Len(journal'[r])
      BY <1>3
    <3> QED
      BY <1>11, <2>3, <3>1
  <2> QED
    BY <1>10, <1>11, <2>1, <2>2, <2>3, Zenon
<1>15. \A x : x \in RunRows <=> \E i \in 1 .. m : x = feed[i]
  BY <1>8 DEF FeedIsComplete
<1>16. \A x : x \in RunRows' <=> \E i \in 1 .. m + k : x = feed'[i]
  <2> SUFFICES ASSUME NEW x PROVE x \in RunRows' <=> \E i \in 1 .. m + k : x = feed'[i]
    OBVIOUS
  <2>1. ASSUME NEW i \in 1 .. m PROVE i \in 1 .. m + k /\ feed'[i] = feed[i]
    BY <1>9
  <2>2. ASSUME NEW j \in 1 .. k PROVE m + j \in 1 .. m + k /\ feed'[m + j] = <<r, n + j>>
    BY <1>9
  <2>3. ASSUME NEW i \in 1 .. m + k
        PROVE  \/ i \in 1 .. m /\ feed'[i] = feed[i]
               \/ \E j \in 1 .. k : feed'[i] = <<r, n + j>>
    BY <1>9, <1>12
  <2>4. ASSUME x \in RunRows' PROVE \E i \in 1 .. m + k : x = feed'[i]
    <3>1. CASE x \in RunRows
      BY <1>15, <2>1, <3>1
    <3>2. ASSUME NEW j \in 1 .. k, x = <<r, n + j>> PROVE \E i \in 1 .. m + k : x = feed'[i]
      BY <2>2, <3>2
    <3> QED
      BY <1>14, <2>4, <3>1, <3>2
  <2>5. ASSUME NEW i \in 1 .. m + k, x = feed'[i] PROVE x \in RunRows'
    BY <1>14, <1>15, <2>3, <2>5
  <2> QED
    BY <2>4, <2>5
<1>17. ASSUME NEW p \in 1 .. m + k, NEW q \in 1 .. m + k,
              feed'[p][1] = feed'[q][1], feed'[p][2] <= feed'[q][2]
       PROVE  p <= q
  <2>1. CASE p \in 1 .. m /\ q \in 1 .. m
    BY <1>8, <1>9, <1>17, <2>1 DEF FeedIsComplete
  <2>2. CASE p \in 1 .. m /\ q \notin 1 .. m
    BY <2>2
  <2>3. CASE p \notin 1 .. m /\ q \in 1 .. m
    <3>1. PICK j \in 1 .. k : feed'[p] = <<r, n + j>>
      BY <1>9, <1>12, <2>3
    <3>2. feed[q] \in RunRows /\ feed'[q] = feed[q]
      BY <1>9, <1>15, <2>3
    <3>3. PICK o \in Runs : \E i \in 1 .. Len(journal[o]) : feed[q] = <<o, i>>
      BY <1>10, <3>2
    <3>4. PICK i \in 1 .. Len(journal[o]) : feed[q] = <<o, i>>
      BY <3>3
    <3>5. o = r /\ n + j <= i
      BY <1>17, <3>1, <3>2, <3>4
    <3> QED
      BY <1>2, <3>4, <3>5
  <2>4. CASE p \notin 1 .. m /\ q \notin 1 .. m
    <3>1. PICK i \in 1 .. k : p = m + i /\ feed'[p] = <<r, n + i>>
      BY <1>9, <1>12, <2>4
    <3>2. PICK j \in 1 .. k : q = m + j /\ feed'[q] = <<r, n + j>>
      BY <1>9, <1>12, <2>4
    <3>3. n + i <= n + j
      BY <1>17, <3>1, <3>2
    <3> QED
      BY <3>1, <3>2, <3>3
  <2> QED
    BY <2>1, <2>2, <2>3, <2>4
<1>18. {feed'[i] : i \in 1 .. Len(feed')} = RunRows'
  BY <1>9, <1>16
<1> QED
  BY <1>9, <1>17, <1>18 DEF FeedIsComplete

\* The conclusions of a chain a batch was appended to.
LEMMA AppendEndings ==
    ASSUME CoreTypeOK, NEW s \in Sessions, NEW batch \in Batches, AppendBatch(s, batch),
           NEW r \in Runs, r = session[s].run, NEW i
    PROVE  i \in At(journal[r], "RunConcluded")' <=>
                \/ i \in At(journal[r], "RunConcluded")
                \/ \E j \in At(batch, "RunConcluded") : i = Len(journal[r]) + j
<1>1. PICK k, n \in Nat : k = Len(batch) /\ n = Len(journal[r])
  BY BatchFacts, RecordTypes
<1>2. /\ Len(journal'[r]) = n + k
      /\ \A j \in 1 .. n : journal'[r][j] = journal[r][j]
      /\ \A j \in 1 .. k : journal'[r][n + j].kind = batch[j].kind
  BY <1>1, AppendExtends
<1>3. i \in At(journal[r], "RunConcluded") <=> i \in 1 .. n /\ journal[r][i].kind = "RunConcluded"
  BY <1>1 DEF At
<1>4. i \in At(journal[r], "RunConcluded")' <=> i \in 1 .. n + k /\ journal'[r][i].kind = "RunConcluded"
  BY <1>2 DEF At
<1>5. \A j : j \in At(batch, "RunConcluded") <=> j \in 1 .. k /\ batch[j].kind = "RunConcluded"
  BY <1>1 DEF At
<1>6. CASE i \in 1 .. n
  <2>1. i \in 1 .. n + k /\ \A j \in 1 .. k : i # n + j
    BY <1>6
  <2> QED
    BY <1>1, <1>2, <1>3, <1>4, <1>5, <1>6, <2>1
<1>7. ASSUME NEW j \in 1 .. k, i = n + j
      PROVE  i \in At(journal[r], "RunConcluded")' <=> j \in At(batch, "RunConcluded")
  <2>1. i \in 1 .. n + k
    BY <1>7
  <2> QED
    BY <1>2, <1>4, <1>5, <1>7, <2>1
<1>8. ASSUME i \in 1 .. n + k, i \notin 1 .. n PROVE \E j \in 1 .. k : i = n + j
  <2>1. i - n \in 1 .. k /\ i = n + (i - n)
    BY <1>8
  <2> QED
    BY <2>1
<1>9. CASE i \notin 1 .. n
  <2>1. ASSUME i \in At(journal[r], "RunConcluded")'
        PROVE  \E j \in At(batch, "RunConcluded") : i = n + j
    <3>1. PICK j \in 1 .. k : i = n + j
      BY <1>4, <1>8, <1>9, <2>1
    <3> QED
      BY <1>7, <2>1, <3>1
  <2>2. ASSUME NEW j \in At(batch, "RunConcluded"), i = n + j
        PROVE  i \in At(journal[r], "RunConcluded")'
    BY <1>5, <1>7, <2>2
  <2> QED
    BY <1>1, <1>3, <1>9, <2>1, <2>2
<1> QED
  BY <1>6, <1>9

\* The conclusions of a batch are counted, and one of them is the last.
LEMMA BatchEndings ==
    ASSUME NEW batch \in Batches, At(batch, "RunConcluded") # {}
    PROVE  /\ Cardinality(At(batch, "RunConcluded")) \in Nat \ {0}
           /\ FinalOf(batch) \in At(batch, "RunConcluded")
           /\ \A j \in At(batch, "RunConcluded") : j <= FinalOf(batch)
<1>1. PICK k \in Nat : k = Len(batch)
  BY BatchFacts
<1>2. At(batch, "RunConcluded") \subseteq 1 .. k
  BY <1>1 DEF At
<1>3. \E i \in At(batch, "RunConcluded") : \A j \in At(batch, "RunConcluded") : j <= i
  BY <1>2, LastPosition
<1>4. IsFiniteSet(1 .. k)
  <2>1. 1 \in Int /\ k \in Int
    OBVIOUS
  <2> QED
    BY <2>1, FS_Interval
<1>5. IsFiniteSet(At(batch, "RunConcluded"))
  BY <1>2, <1>4, FS_Subset
<1>6. Cardinality(At(batch, "RunConcluded")) \in Nat \ {0}
  BY <1>5, FS_CardinalityType, FS_EmptySet
<1> QED
  BY <1>3, <1>6 DEF FinalOf

\* A run's row of the outcome listing.
OutcomeRow(q) == <<outcomeOf[q].outcome, outcomeOf[q].ord, q>>

\* The conclusions a chain has now: the row says what the last of them says.
LastIsIndexed(q) ==
    LET ends == At(journal[q], "RunConcluded") IN
    IF ends = {} THEN outcomeOf[q] = None
    ELSE /\ outcomeOf[q] # None
         /\ \E i \in ends : (\A j \in ends : j <= i) /\ outcomeOf[q].outcome = journal[q][i].arg

\* What the outcome listing promises, row by row.
OutcomesAreRows ==
    /\ \A q \in Runs : LastIsIndexed(q)
    /\ \A x : x \in byOutcome <=> \E q \in Runs : outcomeOf[q] # None /\ x = OutcomeRow(q)
    /\ \A x, y \in byOutcome : x[2] = y[2] => x = y
    /\ \A x \in byOutcome : x[2] < conclusions

LEMMA OutcomeParts ==
    /\ OutcomeIsLastConclusion <=> OutcomesAreRows
    /\ OutcomeIsLastConclusion' <=> OutcomesAreRows'
<1>1. (byOutcome = {<<outcomeOf[r].outcome, outcomeOf[r].ord, r>> :
                        r \in {q \in Runs : outcomeOf[q] # None}})
        <=> \A x : x \in byOutcome <=> \E q \in Runs : outcomeOf[q] # None /\ x = OutcomeRow(q)
  BY DEF OutcomeRow
<1>2. (byOutcome = {<<outcomeOf[r].outcome, outcomeOf[r].ord, r>> :
                        r \in {q \in Runs : outcomeOf[q] # None}})'
        <=> (\A x : x \in byOutcome <=> \E q \in Runs : outcomeOf[q] # None /\ x = OutcomeRow(q))'
  BY DEF OutcomeRow
<1>3. OutcomeIsLastConclusion <=> OutcomesAreRows
  BY <1>1, Zenon DEF OutcomeIsLastConclusion, OutcomesAreRows, LastIsIndexed
<1>4. OutcomeIsLastConclusion' <=> OutcomesAreRows'
  BY <1>2, Zenon DEF OutcomeIsLastConclusion, OutcomesAreRows, LastIsIndexed
<1> QED
  BY <1>3, <1>4

\* The last conclusion of a batch replaces the run's row, under an ordinal of
\* its own.
LEMMA AppendKeepsOutcome ==
    ASSUME CoreTypeOK, IndexTypeOK, OutcomeIsLastConclusion,
           NEW s \in Sessions, NEW batch \in Batches, AppendBatch(s, batch)
    PROVE  /\ OutcomeIsLastConclusion' /\ outcomeOf' \in [Runs -> OutcomeRows \cup {None}]
           /\ byOutcome' \in SUBSET (Args \X Nat \X Runs) /\ conclusions' \in Nat
<1>1. PICK r \in Runs : r = session[s].run
  BY DEF CoreTypeOK, AppendBatch, SessionRows
<1>2. PICK k, n \in Nat : k = Len(batch) /\ n = Len(journal[r])
  BY BatchFacts, RecordTypes
<1>3. /\ \A i \in 1 .. n : journal'[r][i] = journal[r][i]
      /\ \A i \in 1 .. k : journal'[r][n + i].arg = batch[i].arg
      /\ \A q \in Runs \ {r} : journal'[q] = journal[q]
  <2>1. /\ \A i \in 1 .. Len(journal[session[s].run]) :
             journal'[session[s].run][i] = journal[session[s].run][i]
        /\ \A i \in 1 .. Len(batch) :
             journal'[session[s].run][Len(journal[session[s].run]) + i].arg = batch[i].arg
        /\ \A q \in Runs \ {session[s].run} : journal'[q] = journal[q]
    BY AppendExtends
  <2> QED
    BY <1>1, <1>2, <2>1
<1>4. PICK ended : ended = At(batch, "RunConcluded")
  OBVIOUS
<1>5. PICK old, new : old = At(journal[r], "RunConcluded") /\ new = At(journal[r], "RunConcluded")'
  OBVIOUS
<1>6. /\ ended \subseteq 1 .. k /\ old \subseteq 1 .. n
      /\ \A i : i \in new <=> i \in old \/ \E j \in ended : i = n + j
  <2>1. ended \subseteq 1 .. k /\ old \subseteq 1 .. n
    BY <1>2, <1>4, <1>5 DEF At
  <2>2. ASSUME NEW i PROVE i \in new <=> i \in old \/ \E j \in ended : i = n + j
    <3>1. i \in At(journal[r], "RunConcluded")' <=>
                \/ i \in At(journal[r], "RunConcluded")
                \/ \E j \in At(batch, "RunConcluded") : i = Len(journal[r]) + j
      BY <1>1, AppendEndings
    <3> QED
      BY <1>2, <1>4, <1>5, <3>1, Zenon
  <2> QED
    BY <2>1, <2>2
<1>7. /\ \A q \in Runs : LastIsIndexed(q)
      /\ \A x : x \in byOutcome <=> \E q \in Runs : outcomeOf[q] # None /\ x = OutcomeRow(q)
      /\ \A x, y \in byOutcome : x[2] = y[2] => x = y
      /\ \A x \in byOutcome : x[2] < conclusions
  BY OutcomeParts DEF OutcomesAreRows
<1>8. /\ outcomeOf \in [Runs -> OutcomeRows \cup {None}] /\ conclusions \in Nat
      /\ byOutcome \in SUBSET (Args \X Nat \X Runs)
  BY DEF IndexTypeOK
<1>9. IF ended = {} THEN UNCHANGED <<outcomeOf, byOutcome, conclusions>>
      ELSE /\ outcomeOf' = [outcomeOf EXCEPT ![r] =
                [outcome |-> batch[FinalOf(batch)].arg, ord |-> conclusions + Cardinality(ended) - 1]]
           /\ byOutcome' = (byOutcome \ PriorRow(r))
                \cup {<<batch[FinalOf(batch)].arg, conclusions + Cardinality(ended) - 1, r>>}
           /\ conclusions' = conclusions + Cardinality(ended)
  BY <1>1, <1>4, ZenonT(30) DEF AppendBatch, IndexOutcome
<1>10. ASSUME NEW q \in Runs \ {r}, outcomeOf'[q] = outcomeOf[q] PROVE LastIsIndexed(q)'
  <2>1. journal'[q] = journal[q] /\ LastIsIndexed(q)
    BY <1>3, <1>7
  <2>2. At(journal[q], "RunConcluded")' = At(journal[q], "RunConcluded")
    BY <2>1 DEF At
  <2> QED
    BY <1>10, <2>1, <2>2 DEF LastIsIndexed
<1>11. CASE ended = {}
  <2>1. UNCHANGED <<outcomeOf, byOutcome, conclusions>>
    BY <1>9, <1>11
  <2>2. new = old
    BY <1>6, <1>11
  <2>3. \A i \in new : journal'[r][i] = journal[r][i]
    BY <1>3, <1>6, <2>2
  <2>4. LastIsIndexed(r)'
    BY <1>5, <1>7, <2>1, <2>2, <2>3 DEF LastIsIndexed
  <2>5. \A q \in Runs : LastIsIndexed(q)'
    BY <1>10, <2>1, <2>4
  <2>6. \A x : x \in byOutcome' <=> \E q \in Runs : outcomeOf'[q] # None /\ x = OutcomeRow(q)'
    BY <1>7, <2>1 DEF OutcomeRow
  <2>7. OutcomeIsLastConclusion'
    BY <1>7, <2>1, <2>5, <2>6, OutcomeParts, Zenon DEF OutcomesAreRows
  <2> QED
    BY <1>8, <2>1, <2>7
<1>12. CASE ended # {}
  <2>1. PICK f \in ended, c \in Nat \ {0} :
            f = FinalOf(batch) /\ c = Cardinality(ended) /\ \A j \in ended : j <= f
    BY <1>4, <1>12, BatchEndings
  <2>2. PICK ord \in Nat : ord = conclusions + c - 1
    BY <1>8, <2>1
  <2>3. PICK row : row = [outcome |-> batch[f].arg, ord |-> ord]
    OBVIOUS
  <2>4. row \in OutcomeRows /\ row # None /\ row.outcome = batch[f].arg /\ row.ord = ord
        /\ batch[f].arg \in Args
    <3>1. batch[f].arg \in Args
      BY <1>2, <1>6, BatchFacts
    <3>2. row \in OutcomeRows
      BY <2>2, <2>3, <3>1 DEF OutcomeRows
    <3> QED
      BY <2>3, <3>1, <3>2, StoreAssumption
  <2>5. /\ outcomeOf' = [outcomeOf EXCEPT ![r] = row]
        /\ byOutcome' = (byOutcome \ PriorRow(r)) \cup {<<batch[f].arg, ord, r>>}
        /\ conclusions' = conclusions + c
    BY <1>9, <1>12, <2>1, <2>2, <2>3
  <2>6. /\ outcomeOf' \in [Runs -> OutcomeRows \cup {None}]
        /\ outcomeOf'[r] = row /\ \A q \in Runs \ {r} : outcomeOf'[q] = outcomeOf[q]
    BY <1>8, <2>4, <2>5
  <2>7. conclusions' \in Nat /\ ord < conclusions' /\ conclusions <= ord
        /\ \A x \in byOutcome : x[2] \in Nat /\ x[2] < conclusions
    BY <1>7, <1>8, <2>1, <2>2, <2>5
  <2>8. byOutcome' \in SUBSET (Args \X Nat \X Runs)
    BY <1>8, <2>4, <2>5
  <2>9. LastIsIndexed(r)'
    <3>1. n + f \in new /\ \A j \in new : j <= n + f
      <4>1. \A j \in old : j <= n + f
        BY <1>6, <2>1
      <4>2. \A j \in ended : n + j <= n + f
        BY <1>6, <2>1
      <4> QED
        BY <1>6, <4>1, <4>2
    <3>2. journal'[r][n + f].arg = batch[f].arg
      BY <1>3, <1>6
    <3> QED
      BY <1>5, <2>4, <2>6, <3>1, <3>2 DEF LastIsIndexed
  <2>10. \A q \in Runs : LastIsIndexed(q)'
    BY <1>10, <2>6, <2>9
  <2>11. OutcomeRow(r)' = <<batch[f].arg, ord, r>> /\ \A q \in Runs \ {r} : OutcomeRow(q)' = OutcomeRow(q)
    BY <2>4, <2>6 DEF OutcomeRow
  <2>12. PriorRow(r) = IF outcomeOf[r] = None THEN {} ELSE {OutcomeRow(r)}
    BY DEF PriorRow, OutcomeRow
  <2>13. \A q \in Runs \ {r} : OutcomeRow(q) # OutcomeRow(r)
    BY DEF OutcomeRow
  <2>14. ASSUME NEW x
         PROVE  x \in byOutcome' <=> \E q \in Runs : outcomeOf'[q] # None /\ x = OutcomeRow(q)'
    <3>1. ASSUME x \in byOutcome, x \notin PriorRow(r)
          PROVE  \E q \in Runs : outcomeOf'[q] # None /\ x = OutcomeRow(q)'
      <4>1. PICK q \in Runs : outcomeOf[q] # None /\ x = OutcomeRow(q)
        BY <1>7, <3>1
      <4>2. q # r
        BY <2>12, <3>1, <4>1
      <4> QED
        BY <2>6, <2>11, <4>1, <4>2
    <3>2. ASSUME NEW q \in Runs, outcomeOf'[q] # None, x = OutcomeRow(q)'
          PROVE  x \in byOutcome'
      <4>1. CASE q = r
        BY <2>5, <2>11, <3>2, <4>1
      <4>2. CASE q # r
        <5>1. x = OutcomeRow(q) /\ outcomeOf[q] # None
          BY <2>6, <2>11, <3>2, <4>2
        <5>2. x \in byOutcome /\ x \notin PriorRow(r)
          BY <1>7, <2>12, <2>13, <4>2, <5>1
        <5> QED
          BY <2>5, <5>2
      <4> QED
        BY <4>1, <4>2
    <3>3. ASSUME x = <<batch[f].arg, ord, r>>
          PROVE  \E q \in Runs : outcomeOf'[q] # None /\ x = OutcomeRow(q)'
      BY <2>4, <2>6, <2>11, <3>3
    <3>4. x \in byOutcome' => (x \in byOutcome /\ x \notin PriorRow(r)) \/ x = <<batch[f].arg, ord, r>>
      BY <2>5
    <3> QED
      BY <3>1, <3>2, <3>3, <3>4
  <2>15. ASSUME NEW x \in byOutcome' PROVE (x \in byOutcome /\ x[2] < ord) \/ x = <<batch[f].arg, ord, r>>
    BY <1>8, <2>2, <2>5, <2>7
  <2>16. ASSUME NEW x \in byOutcome', NEW y \in byOutcome', x[2] = y[2] PROVE x = y
    <3>1. CASE x \in byOutcome /\ y \in byOutcome
      BY <1>7, <2>16, <3>1
    <3>2. CASE x \notin byOutcome \/ y \notin byOutcome
      BY <2>2, <2>7, <2>15, <2>16, <3>2
    <3> QED
      BY <3>1, <3>2
  <2>17. \A x \in byOutcome' : x[2] < conclusions'
    BY <1>8, <2>2, <2>7, <2>15
  <2>18. OutcomeIsLastConclusion'
    BY <2>10, <2>14, <2>16, <2>17, OutcomeParts, Zenon DEF OutcomesAreRows
  <2> QED
    BY <2>6, <2>7, <2>8, <2>18
<1> QED
  BY <1>11, <1>12

\* A store holds finitely many records.
LEMMA RowsAreFinite == ASSUME CoreTypeOK PROVE IsFiniteSet(RunRows)
<1> DEFINE f == [r \in Runs |-> {r} \X (1 .. Len(journal[r]))]
           T == {{r} \X (1 .. Len(journal[r])) : r \in Runs}
<1>1. f \in Surjection(Runs, T)
  BY DEF Surjection
<1>2. IsFiniteSet(T)
  BY <1>1, FS_Surjection, StoreAssumption
<1>3. ASSUME NEW r \in Runs PROVE IsFiniteSet({r} \X (1 .. Len(journal[r])))
  <2>1. 1 \in Int /\ Len(journal[r]) \in Int
    BY RecordTypes
  <2>2. IsFiniteSet(1 .. Len(journal[r]))
    BY <2>1, FS_Interval
  <2>3. IsFiniteSet({r})
    BY FS_Singleton
  <2> QED
    BY <2>2, <2>3, FS_Product
<1>4. IsFiniteSet(UNION T)
  <2>1. \A X \in T : IsFiniteSet(X)
    BY <1>3
  <2> HIDE DEF T
  <2> QED
    BY <1>2, <2>1, FS_UNION
<1> QED
  BY <1>4 DEF RunRows

\* A restore appends any set of rows one after the other: each has a rank of
\* its own, the rows of a run in chain order.
LEMMA FileRanks ==
    ASSUME CoreTypeOK, NEW order \in FileOrders, NEW S, S \subseteq RunRows
    PROVE  /\ IsFiniteSet(S) /\ Cardinality(S) \in Nat
           /\ \A p \in S : /\ Cardinality(Ahead(S, order, p)) \in Nat
                           /\ Cardinality(Ahead(S, order, p)) < Cardinality(S)
           /\ \A p, q \in S : p # q => Cardinality(Ahead(S, order, p)) # Cardinality(Ahead(S, order, q))
           /\ \A p, q \in S : p[1] = q[1] /\ p[2] < q[2] =>
                Cardinality(Ahead(S, order, p)) < Cardinality(Ahead(S, order, q))
           /\ \A i \in 1 .. Cardinality(S) : \E p \in S : Cardinality(Ahead(S, order, p)) = i - 1
<1> DEFINE B == [p \in S |-> Ahead(S, order, p)]
<1>1. IsFiniteSet(S)
  BY RowsAreFinite, FS_Subset
<1>2. \A p \in S : p[1] \in Runs /\ p[2] \in Nat /\ p = <<p[1], p[2]>>
  BY RowFacts
<1>3. /\ \A r \in Runs : order[r] \in Nat
      /\ \A r, q \in Runs : order[r] = order[q] => r = q
  <2>1. Cardinality(Runs) \in Nat
    BY StoreAssumption, FS_CardinalityType
  <2> QED
    BY <2>1 DEF FileOrders
<1>4. \A p \in S : B[p] = Ahead(S, order, p) /\ B[p] \subseteq S
  BY DEF Ahead
<1>5. \A p, q \in S : p \in B[q] <=>
            order[p[1]] < order[q[1]] \/ (p[1] = q[1] /\ p[2] < q[2])
  BY DEF Ahead
<1> HIDE DEF B
<1>6. \A p \in S : B[p] \subseteq S /\ p \notin B[p]
  BY <1>2, <1>3, <1>4, <1>5
<1>7. ASSUME NEW p \in S, NEW q \in S, p # q PROVE p \in B[q] \/ q \in B[p]
  <2>1. p[1] = q[1] => p[2] # q[2]
    BY <1>2, <1>7
  <2>2. p[1] # q[1] => order[p[1]] # order[q[1]]
    BY <1>2, <1>3
  <2>3. order[p[1]] \in Nat /\ order[q[1]] \in Nat /\ p[2] \in Nat /\ q[2] \in Nat
    BY <1>2, <1>3
  <2> QED
    BY <1>5, <2>1, <2>2, <2>3
<1>8. ASSUME NEW p \in S, NEW q \in S, p \in B[q] PROVE B[p] \subseteq B[q]
  <2> SUFFICES ASSUME NEW x \in B[p] PROVE x \in B[q]
    OBVIOUS
  <2>1. x \in S
    BY <1>4
  <2>2. /\ order[x[1]] < order[p[1]] \/ (x[1] = p[1] /\ x[2] < p[2])
        /\ order[p[1]] < order[q[1]] \/ (p[1] = q[1] /\ p[2] < q[2])
    BY <1>5, <1>8, <2>1
  <2>3. /\ order[x[1]] \in Nat /\ order[p[1]] \in Nat /\ order[q[1]] \in Nat
        /\ x[2] \in Nat /\ p[2] \in Nat /\ q[2] \in Nat
    BY <1>2, <1>3, <2>1
  <2>4. order[x[1]] < order[q[1]] \/ (x[1] = q[1] /\ x[2] < q[2])
    BY <2>2, <2>3
  <2> QED
    BY <1>5, <2>1, <2>4
<1>9. /\ Cardinality(S) \in Nat
      /\ \A p \in S : Cardinality(B[p]) \in Nat
      /\ \A p, q \in S : p \in B[q] => Cardinality(B[p]) < Cardinality(B[q])
      /\ \A i \in 1 .. Cardinality(S) : \E p \in S : Cardinality(B[p]) = i - 1
  BY <1>1, <1>6, <1>7, <1>8, RanksAreTaken
<1>10. ASSUME NEW p \in S PROVE Cardinality(B[p]) < Cardinality(S)
  <2>1. B[p] \in SUBSET S /\ B[p] # S
    BY <1>6
  <2>2. /\ Cardinality(B[p]) <= Cardinality(S)
        /\ Cardinality(S) = Cardinality(B[p]) => S = B[p]
    BY <1>1, <2>1, FS_Subset
  <2> QED
    BY <1>9, <2>1, <2>2
<1>11. \A p, q \in S : p # q => Cardinality(B[p]) # Cardinality(B[q])
  BY <1>7, <1>9
<1>12. \A p, q \in S : p[1] = q[1] /\ p[2] < q[2] => p \in B[q]
  BY <1>5
<1> QED
  BY <1>1, <1>4, <1>9, <1>10, <1>11, <1>12

\* Appended again, the feed is complete.
LEMMA RestoreKeepsFeed ==
    ASSUME CoreTypeOK, NEW order \in FileOrders, Restore(order)
    PROVE  FeedIsComplete' /\ feed' \in Seq(Runs \X Nat)
<1>1. feed' = Reappended(order) /\ journal' = journal
  BY ZenonT(30) DEF Restore
<1>2. PICK n : n = Cardinality(RunRows)
  OBVIOUS
<1> DEFINE rank(p) == Cardinality(Ahead(RunRows, order, p))
           Nth(i) == CHOOSE p \in RunRows : rank(p) = i - 1
<1>3. /\ n \in Nat
      /\ \A p \in RunRows : rank(p) \in Nat /\ rank(p) < n
      /\ \A p, q \in RunRows : p # q => rank(p) # rank(q)
      /\ \A p, q \in RunRows : p[1] = q[1] /\ p[2] < q[2] => rank(p) < rank(q)
      /\ \A i \in 1 .. n : \E p \in RunRows : rank(p) = i - 1
  BY <1>2, FileRanks
<1>4. feed' = [i \in 1 .. n |-> Nth(i)]
  BY <1>1, <1>2 DEF Reappended
<1> HIDE DEF rank
<1>5. \A i \in 1 .. n : Nth(i) \in RunRows /\ rank(Nth(i)) = i - 1
  BY <1>3
<1> HIDE DEF Nth
<1>6. RunRows \subseteq Runs \X Nat /\ RunRows' = RunRows
  BY <1>1, RowFacts DEF RunRows
<1>7. feed' \in Seq(Runs \X Nat) /\ Len(feed') = n
  <2>1. feed' \in [1 .. n -> Runs \X Nat]
    BY <1>4, <1>5, <1>6
  <2> QED
    BY <1>3, <2>1
<1>8. \A i \in 1 .. n : feed'[i] \in RunRows /\ rank(feed'[i]) = i - 1
  BY <1>4, <1>5
<1>9. ASSUME NEW p \in RunRows PROVE \E i \in 1 .. n : feed'[i] = p
  <2>1. PICK i \in 1 .. n : i = rank(p) + 1
    BY <1>3
  <2>2. rank(feed'[i]) = rank(p) /\ feed'[i] \in RunRows
    BY <1>3, <1>8, <2>1
  <2> QED
    BY <1>3, <2>2
<1>10. {feed'[i] : i \in 1 .. Len(feed')} = RunRows'
  BY <1>6, <1>7, <1>8, <1>9
<1>11. ASSUME NEW i \in 1 .. n, NEW j \in 1 .. n,
              feed'[i][1] = feed'[j][1], feed'[i][2] <= feed'[j][2]
       PROVE  i <= j
  <2>1. feed'[i] \in RunRows /\ feed'[j] \in RunRows /\ rank(feed'[i]) = i - 1 /\ rank(feed'[j]) = j - 1
    BY <1>8
  <2>2. PICK p \in RunRows, q \in RunRows : p = feed'[i] /\ q = feed'[j]
    BY <2>1
  <2>3. p[2] \in Nat /\ q[2] \in Nat /\ p = <<p[1], p[2]>> /\ q = <<q[1], q[2]>>
    BY <1>6
  <2>4. CASE p[2] = q[2]
    <3>1. p = q
      BY <1>11, <2>2, <2>3, <2>4
    <3> QED
      BY <1>3, <2>1, <2>2, <3>1
  <2>5. CASE p[2] < q[2]
    BY <1>3, <1>11, <2>1, <2>2, <2>5
  <2> QED
    BY <1>11, <2>2, <2>3, <2>4, <2>5
<1> QED
  BY <1>7, <1>10, <1>11 DEF FeedIsComplete

\* Appended again, every run's last conclusion is its row, under an ordinal of
\* its own.
LEMMA RestoreKeepsOutcome ==
    ASSUME CoreTypeOK, NEW order \in FileOrders, Restore(order)
    PROVE  /\ OutcomeIsLastConclusion' /\ outcomeOf' \in [Runs -> OutcomeRows \cup {None}]
           /\ byOutcome' \in SUBSET (Args \X Nat \X Runs) /\ conclusions' \in Nat
<1>1. PICK ended : ended = {r \in Runs : At(journal[r], "RunConcluded") # {}}
  OBVIOUS
<1>2. /\ outcomeOf' = [r \in Runs |-> IF r \in ended THEN ReIndexed(order, r) ELSE None]
      /\ byOutcome' = {<<ReIndexed(order, r).outcome, ReIndexed(order, r).ord, r>> : r \in ended}
      /\ conclusions' = Cardinality(Endings) /\ journal' = journal
  BY <1>1, ZenonT(30) DEF Restore
<1>3. PICK F : F = [r \in Runs |-> FinalOf(journal[r])]
  OBVIOUS
<1>4. ASSUME NEW r \in ended
      PROVE  /\ r \in Runs /\ F[r] \in At(journal[r], "RunConcluded")
             /\ \A j \in At(journal[r], "RunConcluded") : j <= F[r]
             /\ F[r] \in 1 .. Len(journal[r]) /\ journal[r][F[r]].kind = "RunConcluded"
             /\ journal[r][F[r]].arg \in Args
  <2>1. r \in Runs /\ At(journal[r], "RunConcluded") # {} /\ Len(journal[r]) \in Nat
    BY <1>1, RecordTypes
  <2>2. At(journal[r], "RunConcluded") \subseteq 1 .. Len(journal[r])
    BY DEF At
  <2>3. \E i \in At(journal[r], "RunConcluded") : \A j \in At(journal[r], "RunConcluded") : j <= i
    BY <2>1, <2>2, LastPosition
  <2>4. /\ F[r] \in At(journal[r], "RunConcluded")
        /\ \A j \in At(journal[r], "RunConcluded") : j <= F[r]
    BY <1>3, <2>1, <2>3 DEF FinalOf
  <2>5. F[r] \in 1 .. Len(journal[r]) /\ journal[r][F[r]].kind = "RunConcluded"
    BY <2>4 DEF At
  <2>6. journal[r][F[r]].arg \in Args
    BY <2>1, <2>5, RecordTypes DEF Records
  <2> QED
    BY <2>1, <2>4, <2>5, <2>6
<1>5. ASSUME NEW r \in ended PROVE <<r, F[r]>> \in Endings
  <2>1. <<r, F[r]>> \in RunRows
    BY <1>4, RowFacts
  <2> QED
    BY <1>4, <2>1 DEF Endings
<1>6. Endings \subseteq RunRows
  BY DEF Endings
<1> DEFINE rank(r) == Cardinality(Ahead(Endings, order, <<r, F[r]>>))
<1>7. /\ Cardinality(Endings) \in Nat
      /\ \A r \in ended : rank(r) \in Nat /\ rank(r) < Cardinality(Endings)
      /\ \A r, q \in ended : r # q => rank(r) # rank(q)
  <2>1. /\ Cardinality(Endings) \in Nat
        /\ \A p \in Endings : /\ Cardinality(Ahead(Endings, order, p)) \in Nat
                              /\ Cardinality(Ahead(Endings, order, p)) < Cardinality(Endings)
        /\ \A p, q \in Endings : p # q =>
                Cardinality(Ahead(Endings, order, p)) # Cardinality(Ahead(Endings, order, q))
    BY <1>6, FileRanks
  <2>2. ASSUME NEW r \in ended, NEW q \in ended, r # q PROVE rank(r) # rank(q)
    <3>1. <<r, F[r]>> # <<q, F[q]>>
      BY <2>2
    <3> QED
      BY <1>5, <2>1, <3>1
  <2> QED
    BY <1>5, <2>1, <2>2
<1>8. ASSUME NEW r \in ended
      PROVE  /\ ReIndexed(order, r) \in OutcomeRows /\ ReIndexed(order, r) # None
             /\ ReIndexed(order, r).outcome = journal[r][F[r]].arg /\ ReIndexed(order, r).ord = rank(r)
  <2>1. ReIndexed(order, r) = [outcome |-> journal[r][F[r]].arg, ord |-> rank(r)]
    BY <1>3, <1>4 DEF ReIndexed
  <2>2. ReIndexed(order, r) \in OutcomeRows
    BY <1>4, <1>7, <2>1 DEF OutcomeRows
  <2> QED
    BY <2>1, <2>2, StoreAssumption
<1> HIDE DEF rank
<1>9. /\ outcomeOf' \in [Runs -> OutcomeRows \cup {None}]
      /\ \A r \in ended : /\ outcomeOf'[r] # None /\ outcomeOf'[r].outcome = journal[r][F[r]].arg
                          /\ outcomeOf'[r].ord = rank(r)
      /\ \A r \in Runs \ ended : outcomeOf'[r] = None
  BY <1>2, <1>4, <1>8
<1>10. \A x : x \in byOutcome' <=> \E r \in ended : x = <<journal[r][F[r]].arg, rank(r), r>>
  BY <1>2, <1>8
<1>11. \A q \in Runs : LastIsIndexed(q)'
  <2> SUFFICES ASSUME NEW q \in Runs PROVE LastIsIndexed(q)'
    OBVIOUS
  <2>1. At(journal[q], "RunConcluded")' = At(journal[q], "RunConcluded") /\ journal'[q] = journal[q]
    BY <1>2 DEF At
  <2>2. CASE q \in ended
    <3>1. At(journal[q], "RunConcluded") # {}
      BY <1>1, <2>2
    <3> QED
      BY <1>4, <1>9, <2>1, <2>2, <3>1 DEF LastIsIndexed
  <2>3. CASE q \notin ended
    <3>1. At(journal[q], "RunConcluded") = {}
      BY <1>1, <2>3
    <3> QED
      BY <1>9, <2>1, <2>3, <3>1 DEF LastIsIndexed
  <2> QED
    BY <2>2, <2>3
<1>12. \A q \in ended : OutcomeRow(q)' = <<journal[q][F[q]].arg, rank(q), q>>
  BY <1>9 DEF OutcomeRow
<1>13. \A x : x \in byOutcome' <=> \E q \in Runs : outcomeOf'[q] # None /\ x = OutcomeRow(q)'
  BY <1>4, <1>9, <1>10, <1>12
<1>14. \A x, y \in byOutcome' : x[2] = y[2] => x = y
  <2> SUFFICES ASSUME NEW x \in byOutcome', NEW y \in byOutcome', x[2] = y[2] PROVE x = y
    OBVIOUS
  <2>1. PICK r \in ended : x = <<journal[r][F[r]].arg, rank(r), r>>
    BY <1>10
  <2>2. PICK q \in ended : y = <<journal[q][F[q]].arg, rank(q), q>>
    BY <1>10
  <2>3. r = q
    BY <1>7, <2>1, <2>2
  <2> QED
    BY <2>1, <2>2, <2>3
<1>15. \A x \in byOutcome' : x[2] < conclusions'
  BY <1>2, <1>7, <1>10
<1>16. byOutcome' \in SUBSET (Args \X Nat \X Runs)
  BY <1>4, <1>7, <1>10
<1>17. OutcomeIsLastConclusion'
  BY <1>11, <1>13, <1>14, <1>15, OutcomeParts, Zenon DEF OutcomesAreRows
<1> QED
  BY <1>2, <1>7, <1>9, <1>16, <1>17

LEMMA NextIndex ==
    CoreTypeOK /\ CoreTypeOK' /\ KeyInv' /\ IndexTypeOK /\ IndexInv /\ [Next]_vars
        => IndexTypeOK' /\ IndexInv'
<1> SUFFICES ASSUME CoreTypeOK, CoreTypeOK', KeyInv', IndexTypeOK, IndexInv, [Next]_vars
             PROVE  IndexTypeOK' /\ IndexInv'
  OBVIOUS
<1>1. admission' \in [AdmissionKeys -> AdmissionRows \cup {None}]
  BY DEF KeyInv, ClaimsAreKeys
<1>2. OutcomeIsLastConclusion /\ WaitsAreNoted /\ FeedIsComplete
  BY DEF IndexInv
<1>3. ASSUME NEW s \in Sessions, NEW batch \in Batches, AppendBatch(s, batch)
      PROVE  IndexTypeOK' /\ IndexInv'
  <2>1. /\ WaitsAreNoted'
        /\ waitingAt' \in [Runs -> Args] /\ waiting' \in SUBSET (Args \X Runs)
    BY <1>2, <1>3, AppendKeepsWaits
  <2>2. FeedIsComplete' /\ feed' \in Seq(Runs \X Nat)
    BY <1>2, <1>3, AppendKeepsFeed
  <2>3. /\ OutcomeIsLastConclusion' /\ outcomeOf' \in [Runs -> OutcomeRows \cup {None}]
        /\ byOutcome' \in SUBSET (Args \X Nat \X Runs) /\ conclusions' \in Nat
    BY <1>2, <1>3, AppendKeepsOutcome
  <2> QED
    BY <1>1, <2>1, <2>2, <2>3, Zenon DEF IndexTypeOK, IndexInv
<1>4. ASSUME NEW order \in FileOrders, Restore(order)
      PROVE  IndexTypeOK' /\ IndexInv'
  <2>1. journal' = journal /\ waitingAt' = waitingAt /\ waiting' = waiting
    BY <1>4, ZenonT(30) DEF Restore
  <2>2. WaitsAreNoted'
    BY <1>2, <2>1 DEF WaitsAreNoted, WaitOf
  <2>3. FeedIsComplete' /\ feed' \in Seq(Runs \X Nat)
    BY <1>4, RestoreKeepsFeed
  <2>4. /\ OutcomeIsLastConclusion' /\ outcomeOf' \in [Runs -> OutcomeRows \cup {None}]
        /\ byOutcome' \in SUBSET (Args \X Nat \X Runs) /\ conclusions' \in Nat
    BY <1>4, RestoreKeepsOutcome
  <2> QED
    BY <1>1, <2>1, <2>2, <2>3, <2>4 DEF IndexTypeOK, IndexInv
<1>5. ASSUME UNCHANGED <<journal, outcomeOf, byOutcome, conclusions, waitingAt, waiting, feed>>
      PROVE  IndexTypeOK' /\ IndexInv'
  <2>1. IndexTypeOK'
    BY <1>1, <1>5 DEF IndexTypeOK
  <2>2. OutcomeIsLastConclusion'
    BY <1>2, <1>5 DEF OutcomeIsLastConclusion, At
  <2>3. WaitsAreNoted'
    BY <1>2, <1>5 DEF WaitsAreNoted, WaitOf
  <2>4. FeedIsComplete'
    BY <1>2, <1>5 DEF FeedIsComplete, RunRows
  <2> QED
    BY <2>1, <2>2, <2>3, <2>4 DEF IndexInv
<1>6. \/ UNCHANGED <<journal, outcomeOf, byOutcome, conclusions, waitingAt, waiting, feed>>
      \/ \E s \in Sessions, batch \in Batches : AppendBatch(s, batch)
      \/ \E order \in FileOrders : Restore(order)
  BY ZenonT(30) DEF Next, vars, tables, Acquire, Renew, ReleaseLease, Abandon, Seal, RequestCancel,
         ForgetAdmissions, Reopen, Tick
<1> QED
  BY <1>3, <1>4, <1>5, <1>6

\* The waiting listing names exactly the suspended runs, the outcome listing
\* each run's last conclusion under an ordinal of its own, and the feed every
\* record once and in chain order, through any appends, takeovers and restores
\* of any number of runs.
THEOREM ListingsFollowChains == Spec => []IndexesFollowRecords
<1>1. IndexInv => OutcomeIsLastConclusion /\ FeedIsComplete /\ WaitingIsLastRecord
  <2> SUFFICES ASSUME WaitsAreNoted PROVE WaitingIsLastRecord
    BY DEF IndexInv
  <2>1. \A r \in Runs : /\ waitingAt[r] # None <=>
                                journal[r] # <<>> /\ Last(journal[r]).kind = "RunSuspended"
                        /\ waitingAt[r] # None => waitingAt[r] = Last(journal[r]).arg
    BY DEF WaitsAreNoted, WaitOf
  <2>2. waiting = {<<waitingAt[r], r>> : r \in {q \in Runs : waitingAt[q] # None}}
    BY DEF WaitsAreNoted
  <2> QED
    BY <2>1, <2>2 DEF WaitingIsLastRecord
<1>2. CoreTypeOK /\ IndexTypeOK /\ IndexInv => IndexesFollowRecords
  BY <1>1 DEF IndexesFollowRecords, TypeOK
<1> QED
  BY <1>2, CoreTypeCorrect, KeysHold, InitIndex, NextIndex, PTL DEF Spec

=============================================================================
