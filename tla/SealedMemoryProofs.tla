------------------------- MODULE SealedMemoryProofs -------------------------
(***************************************************************************)
(* Proofs about SealedMemory, for any number of ids, versions, instances,  *)
(* faults and stray calls: what is erased stays erased and what remains to *)
(* be erased is known (ErasureIsKept), a version that stays is readable    *)
(* (KeptIsReadable), and nothing under legal hold is lost (HeldIsKept).    *)
(* The inductive invariant is MemoryInv.                                   *)
(***************************************************************************)
EXTENDS SealedMemory, FiniteSetTheorems, FunctionTheorems, TLAPS

-----------------------------------------------------------------------------
(* Sequences of a finite set's elements *)

LEMMA SetToSeqFacts ==
    ASSUME NEW S, NEW T, S \subseteq T, IsFiniteSet(S)
    PROVE  SetToSeq(S) \in Seq(T) /\ ToSet(SetToSeq(S)) = S
<1>1. PICK n \in Nat : n = Cardinality(S)
  BY FS_CardinalityType
<1>2. PICK f : f \in Bijection(1 .. n, S)
  BY <1>1, FS_CardinalityType DEF ExistsBijection
<1>3. f \in [1 .. n -> S] /\ IsInjective(f)
  <2>1. f \in [1 .. n -> S] /\ \A a, b \in 1 .. n : f[a] = f[b] => a = b
    BY <1>2, Fun_BijectionProperties
  <2> QED
    BY <2>1 DEF IsInjective
<1>4. PICK g : g = SetToSeq(S)
  OBVIOUS
<1>5. g \in [1 .. n -> S] /\ IsInjective(g)
  BY <1>1, <1>3, <1>4 DEF SetToSeq
<1>6. g \in Injection(1 .. n, S)
  BY <1>5 DEF Injection, IsInjective
<1>7. Cardinality(1 .. n) = Cardinality(S)
  <2>1. 1 \in Int /\ n \in Int
    BY <1>1
  <2>2. Cardinality(1 .. n) = IF 1 > n THEN 0 ELSE n - 1 + 1
    BY <2>1, FS_Interval
  <2> QED
    BY <1>1, <2>2
<1>8. g \in Surjection(1 .. n, S)
  BY <1>6, <1>7, FS_Injection
<1>9. \A t \in S : \E i \in 1 .. n : g[i] = t
  BY <1>8, Fun_SurjectionProperties
<1> QED
  BY <1>4, <1>5, <1>9 DEF ToSet

\* The versions up to the highest of some ids are finitely many.
LEMMA VersionFacts ==
    ASSUME StoreOK, NEW ids \in SUBSET Ids
    PROVE  /\ EveryVersion(ids) \subseteq Scopes
           /\ IsFiniteSet(EveryVersion(ids))
           /\ \A s \in Scopes : s \in EveryVersion(ids) <=> s[1] \in ids /\ s[2] <= current[s[1]]
<1>1. \A id \in ids : current[id] \in Nat
  BY DEF StoreOK
<1>2. EveryVersion(ids) \subseteq Scopes
  BY <1>1 DEF EveryVersion, Scopes, Scope
<1>3. \A s \in Scopes : s \in EveryVersion(ids) <=> s[1] \in ids /\ s[2] <= current[s[1]]
  <2> SUFFICES ASSUME NEW s \in Scopes
               PROVE  s \in EveryVersion(ids) <=> s[1] \in ids /\ s[2] <= current[s[1]]
    OBVIOUS
  <2>1. s[1] \in Ids /\ s[2] \in Nat \ {0} /\ s = Scope(s[1], s[2])
    BY DEF Scopes, Scope
  <2>2. ASSUME s[1] \in ids, s[2] <= current[s[1]] PROVE s \in EveryVersion(ids)
    <3>1. s[2] \in 1 .. current[s[1]]
      BY <1>1, <2>1, <2>2
    <3> QED
      BY <2>1, <2>2, <3>1 DEF EveryVersion
  <2>3. ASSUME s \in EveryVersion(ids) PROVE s[1] \in ids /\ s[2] <= current[s[1]]
    <3>1. PICK id \in ids : \E v \in 1 .. current[id] : s = Scope(id, v)
      BY <2>3 DEF EveryVersion
    <3>2. PICK v \in 1 .. current[id] : s = Scope(id, v)
      BY <3>1
    <3> QED
      BY <1>1, <3>1, <3>2 DEF Scope
  <2> QED
    BY <2>2, <2>3
<1>4. IsFiniteSet(EveryVersion(ids))
  <2> DEFINE of(id) == {Scope(id, v) : v \in 1 .. current[id]}
             all == {of(id) : id \in ids}
  <2>1. ASSUME NEW id \in ids PROVE IsFiniteSet(of(id))
    <3>1. PICK n \in Nat : n = current[id]
      BY <1>1
    <3> DEFINE f == [v \in 1 .. n |-> Scope(id, v)]
    <3>2. IsFiniteSet(1 .. n)
      <4>1. 1 \in Int /\ n \in Int
        BY <3>1
      <4> QED
        BY <4>1, FS_Interval
    <3>3. f \in [1 .. n -> of(id)] /\ \A t \in of(id) : \E v \in 1 .. n : f[v] = t
      BY <3>1
    <3> HIDE DEF f, of
    <3>4. f \in Surjection(1 .. n, of(id))
      BY <3>3, Fun_IsSurj
    <3> QED
      BY <3>2, <3>4, FS_Surjection
  <2>2. IsFiniteSet(all)
    <3> DEFINE g == [id \in ids |-> of(id)]
    <3>1. IsFiniteSet(ids)
      BY MemoryAssumption, FS_Subset
    <3>2. g \in [ids -> all] /\ \A t \in all : \E id \in ids : g[id] = t
      OBVIOUS
    <3> HIDE DEF g, all
    <3>3. g \in Surjection(ids, all)
      BY <3>2, Fun_IsSurj
    <3> QED
      BY <3>1, <3>3, FS_Surjection
  <2>3. \A T \in all : IsFiniteSet(T)
    BY <2>1
  <2>4. EveryVersion(ids) = UNION all
    BY DEF EveryVersion
  <2> HIDE DEF all
  <2> QED
    BY <2>2, <2>3, <2>4, FS_UNION
<1> QED
  BY <1>2, <1>3, <1>4

-----------------------------------------------------------------------------
(* What the store's transactions do *)

\* The store moves on: tombstones stay, versions go up and what is gone stays
\* gone.
Advances ==
    /\ StoreOK' /\ held' = held /\ forgotten \subseteq forgotten'
    /\ \A id \in Ids : id \in forgotten' \/ current[id] <= current'[id]
    /\ \A s \in Scopes : Gone(s) => Gone(s)'

\* The write was refused, or stored one row more.
Inserts(item, new) ==
    /\ item.id \notin forgotten
    /\ new \in Rows /\ new.id = item.id /\ new.version = current[item.id] + 1 /\ new.as = item.as
    /\ \A x \in new.absorbed : \E r \in rows :
            Scope(r.id, r.version) \in item.from /\ (x = r.id \/ x \in r.absorbed)
    /\ rows' = rows \cup {new} /\ new \notin rows
    /\ current'[item.id] = current[item.id] + 1
    /\ \A id \in Ids \ {item.id} : current'[id] = current[id]
    /\ edges' = edges \cup {<<s[1], s[2], item.id, new.version>> : s \in item.from}
    /\ UNCHANGED <<forgotten, held>>

LEMMA InsertEffect ==
    ASSUME StoreOK, NEW item \in Items, InnerRemember(item), rows' # rows
    PROVE  \E new : Inserts(item, new)
<1> DEFINE version == current[item.id] + 1
           sources == {r \in rows : Scope(r.id, r.version) \in item.from}
           taken == UNION {{r.id} \cup r.absorbed : r \in sources}
           new == [id |-> item.id, version |-> version, as |-> item.as, absorbed |-> taken]
<1>1. /\ rows' = rows \cup {new}
      /\ current' = [current EXCEPT ![item.id] = version]
      /\ edges' = edges \cup {<<s[1], s[2], item.id, version>> : s \in item.from}
      /\ UNCHANGED <<forgotten, held>>
      /\ ~(current[item.id] = 0 /\ item.id \in forgotten)
  BY DEF InnerRemember, store
<1>2. item.id \in Ids /\ item.as \in Nat \ {0} /\ item.from \in SUBSET Scopes
  BY DEF Items
<1>3. current[item.id] \in Nat /\ item.id \notin forgotten
  BY <1>1, <1>2 DEF StoreOK
<1>4. taken \in SUBSET Ids
  BY DEF StoreOK, Rows
<1>5. \A x \in taken : \E r \in rows :
            Scope(r.id, r.version) \in item.from /\ (x = r.id \/ x \in r.absorbed)
  OBVIOUS
<1> HIDE DEF taken
<1>6. new \in Rows
  BY <1>2, <1>3, <1>4 DEF Rows
<1>7. new \notin rows
  BY <1>2, <1>3 DEF StoreOK
<1>8. /\ current'[item.id] = version
      /\ \A id \in Ids \ {item.id} : current'[id] = current[id]
  BY <1>1, <1>2 DEF StoreOK
<1> QED
  BY <1>1, <1>3, <1>5, <1>6, <1>7, <1>8 DEF Inserts

LEMMA InsertAdvances ==
    ASSUME StoreOK, NEW item \in Items, NEW new, Inserts(item, new), current' \in [Ids -> Nat]
    PROVE  Advances
<1>1. /\ item.id \in Ids /\ item.from \in SUBSET Scopes /\ new \in Rows
      /\ current[item.id] \in Nat /\ \A id \in Ids : current[id] \in Nat
  BY DEF StoreOK, Items, Inserts
<1>2. \A row \in rows' : row \in Rows /\ row.version <= current'[row.id]
  <2> SUFFICES ASSUME NEW row \in rows' PROVE row \in Rows /\ row.version <= current'[row.id]
    OBVIOUS
  <2>1. CASE row = new
    BY <1>1, <2>1 DEF Inserts
  <2>2. CASE row \in rows
    <3>1. row \in Rows /\ row.id \in Ids /\ row.version \in Nat /\ row.version <= current[row.id]
      BY <2>2 DEF StoreOK, Rows
    <3> QED
      BY <1>1, <3>1 DEF Inserts
  <2> QED
    BY <2>1, <2>2 DEF Inserts
<1>3. \A row, other \in rows' : row.id = other.id /\ row.version = other.version => row = other
  <2>1. \A row \in rows : ~(row.id = new.id /\ row.version = new.version)
    BY <1>1 DEF StoreOK, Inserts
  <2> QED
    BY <2>1 DEF StoreOK, Inserts
<1>4. \A id \in Ids : current'[id] > 0 => \E row \in rows' : row.id = id /\ row.version = current'[id]
  BY DEF StoreOK, Inserts
<1>5. edges' \subseteq Ids \X (Nat \ {0}) \X Ids \X (Nat \ {0})
  <2>1. \A s \in item.from : s[1] \in Ids /\ s[2] \in Nat \ {0}
    BY <1>1 DEF Scopes
  <2>2. new.version \in Nat \ {0}
    BY <1>1 DEF Rows
  <2> QED
    BY <1>1, <2>1, <2>2 DEF StoreOK, Inserts
<1>6. forgotten' \subseteq {id \in Ids : current'[id] = 0} /\ held' \subseteq Ids \ forgotten'
  BY DEF StoreOK, Inserts
<1>7. StoreOK'
  BY <1>2, <1>3, <1>4, <1>5, <1>6 DEF StoreOK
<1>8. \A id \in Ids : current[id] <= current'[id]
  BY <1>1 DEF Inserts
<1>9. ASSUME NEW s \in Scopes, Gone(s) PROVE Gone(s)'
  <2>1. s[1] \in Ids /\ s[2] \in Nat
    BY DEF Scopes
  <2>2. CASE s[1] \in forgotten
    BY <2>2 DEF Gone, Inserts
  <2>3. CASE s[2] <= current[s[1]] /\ \A row \in rows : Scope(row.id, row.version) # s
    <3>1. s[2] <= current'[s[1]]
      BY <1>1, <1>8, <2>1, <2>3 DEF Inserts
    <3>2. Scope(new.id, new.version) # s
      BY <1>1, <2>1, <2>3 DEF Scope, Inserts
    <3> QED
      BY <2>3, <3>1, <3>2 DEF Gone, Inserts
  <2> QED
    BY <1>9, <2>2, <2>3 DEF Gone
<1> QED
  BY <1>7, <1>8, <1>9 DEF Advances, Inserts

\* A refused write changes nothing; the store has moved on either way.
LEMMA RememberEffect ==
    ASSUME StoreOK, NEW item \in Items, InnerRemember(item)
    PROVE  /\ Advances
           /\ rows' = rows => UNCHANGED store
<1>1. CASE UNCHANGED store
  BY <1>1 DEF store, StoreOK, Advances, Gone
<1>2. CASE ~UNCHANGED store
  <2>1. current' = [current EXCEPT ![item.id] = current[item.id] + 1]
    BY <1>2 DEF InnerRemember
  <2>2. current' \in [Ids -> Nat]
    BY <2>1 DEF StoreOK, Items
  <2>3. rows' # rows
    <3> DEFINE new == [id |-> item.id, version |-> current[item.id] + 1, as |-> item.as,
                       absorbed |-> UNION {{r.id} \cup r.absorbed :
                            r \in {r \in rows : Scope(r.id, r.version) \in item.from}}]
    <3>1. new \in rows'
      BY <1>2 DEF InnerRemember
    <3>2. new.id \in Ids /\ new.version = current[new.id] + 1 /\ current[new.id] \in Nat
      BY DEF StoreOK, Items
    <3>3. new \notin rows
      <4> HIDE DEF new
      <4> QED
        BY <3>2 DEF StoreOK, Rows
    <3> QED
      BY <3>1, <3>3
  <2> QED
    BY <2>2, <2>3, InsertEffect, InsertAdvances
<1> QED
  BY <1>1, <1>2

\* Rows of ids and trimmed versions are gone, and nothing else.
Drops(ids, trimmed, cut) ==
    /\ \A row \in rows : row \in rows' <=> row.id \notin ids /\ Scope(row.id, row.version) \notin trimmed
    /\ rows' \subseteq rows
    /\ \A id \in Ids : current'[id] = IF id \in ids THEN 0 ELSE current[id]
    /\ forgotten' = forgotten \cup ids /\ edges' = edges \ cut

LEMMA RemovedEffect ==
    ASSUME StoreOK, NEW ids \in SUBSET Ids, NEW trimmed \in SUBSET Scopes, NEW cut,
           ids \cap held = {}, \A s \in trimmed : current[s[1]] # s[2],
           Removed(ids, trimmed, cut)
    PROVE  Advances /\ Drops(ids, trimmed, cut)
<1>1. Drops(ids, trimmed, cut) /\ held' = held /\ current' \in [Ids -> Nat]
  BY DEF Removed, Drops, StoreOK
<1>2. \A id \in Ids : current[id] \in Nat
  BY DEF StoreOK
<1>3. \A row \in rows : row \in Rows /\ row.id \in Ids /\ row.version \in Nat
                          /\ row.version <= current[row.id]
  BY DEF StoreOK, Rows
<1>4. \A id \in Ids : current'[id] > 0 => \E row \in rows' : row.id = id /\ row.version = current'[id]
  <2> SUFFICES ASSUME NEW id \in Ids, current'[id] > 0
               PROVE  \E row \in rows' : row.id = id /\ row.version = current'[id]
    OBVIOUS
  <2>1. id \notin ids /\ current'[id] = current[id] /\ current[id] > 0
    BY <1>1, <1>2 DEF Drops
  <2>2. PICK row \in rows : row.id = id /\ row.version = current[id]
    BY <2>1 DEF StoreOK
  <2>3. Scope(row.id, row.version) \notin trimmed
    BY <2>2 DEF Scope
  <2> QED
    BY <1>1, <2>1, <2>2, <2>3 DEF Drops
<1>5. StoreOK'
  <2>1. \A row \in rows' : row \in Rows /\ row.version <= current'[row.id]
    BY <1>1, <1>3 DEF Drops
  <2>2. \A row, other \in rows' : row.id = other.id /\ row.version = other.version => row = other
    BY <1>1 DEF Drops, StoreOK
  <2>3. edges' \subseteq Ids \X (Nat \ {0}) \X Ids \X (Nat \ {0})
    BY <1>1 DEF Drops, StoreOK
  <2>4. forgotten' \subseteq {id \in Ids : current'[id] = 0} /\ held' \subseteq Ids \ forgotten'
    BY <1>1 DEF Drops, StoreOK
  <2> QED
    BY <1>1, <1>4, <2>1, <2>2, <2>3, <2>4 DEF StoreOK
<1>6. \A id \in Ids : id \in forgotten' \/ current[id] <= current'[id]
  BY <1>1, <1>2 DEF Drops
<1>7. ASSUME NEW s \in Scopes, Gone(s) PROVE Gone(s)'
  <2>1. s[1] \in Ids
    BY DEF Scopes
  <2> QED
    BY <1>1, <1>7, <2>1 DEF Gone, Drops
<1> QED
  BY <1>1, <1>5, <1>6, <1>7 DEF Advances, Drops

\* The cascade takes ids and superseded versions, and whatever read them.
Doomed(x, v, doomed) == x \in doomed.ids \/ Scope(x, v) \in doomed.versions
LEMMA CascadeFacts ==
    ASSUME StoreOK, NEW id \in Ids, NEW doomed, doomed = Cascade(id)
    PROVE  /\ doomed.ids \in SUBSET Ids /\ id \in doomed.ids
           /\ doomed.versions \in SUBSET Scopes
           /\ \A s \in doomed.versions : current[s[1]] # s[2]
           /\ \A e \in edges : Doomed(e[1], e[2], doomed) => Doomed(e[3], e[4], doomed)
<1> DEFINE hit == {h \in Derived : \A S \in SUBSET Derived : Follows(id, S) => h \in S}
<1>1. doomed.ids = Whole(id, hit) /\ doomed.versions = {h \in hit : current[h[1]] # h[2]}
  BY DEF Cascade
<1>2. \A e \in edges : /\ e[1] \in Ids /\ e[2] \in Nat \ {0} /\ e[3] \in Ids /\ e[4] \in Nat \ {0}
                       /\ Scope(e[3], e[4]) \in Derived
  BY DEF StoreOK, Derived
<1>3. Derived \subseteq Scopes
  BY <1>2 DEF Derived, Scopes, Scope
<1>4. hit \subseteq Derived /\ \A S \in SUBSET Derived : Follows(id, S) => hit \subseteq S
  OBVIOUS
<1>5. \A e \in edges : e[1] \in Whole(id, hit) \/ Scope(e[1], e[2]) \in hit => Scope(e[3], e[4]) \in hit
  <2> SUFFICES ASSUME NEW e \in edges, e[1] \in Whole(id, hit) \/ Scope(e[1], e[2]) \in hit,
                      NEW S \in SUBSET Derived, Follows(id, S)
               PROVE  Scope(e[3], e[4]) \in S
    BY <1>2
  <2>1. hit \subseteq S
    BY <1>4
  <2> HIDE DEF hit
  <2>2. Whole(id, hit) \subseteq Whole(id, S)
    BY <2>1 DEF Whole
  <2> QED
    BY <2>1, <2>2 DEF Follows
<1> HIDE DEF hit
<1>6. \A h \in hit : h \in Scopes /\ h[1] \in Ids
  BY <1>3, <1>4 DEF Scopes
<1>7. Whole(id, hit) \subseteq Ids /\ id \in Whole(id, hit)
  BY <1>6 DEF Whole
<1>8. ASSUME NEW e \in edges, Doomed(e[1], e[2], doomed) PROVE Doomed(e[3], e[4], doomed)
  <2>1. Scope(e[3], e[4]) \in hit
    BY <1>1, <1>5, <1>8 DEF Doomed
  <2>2. Scope(e[3], e[4])[1] = e[3] /\ Scope(e[3], e[4])[2] = e[4]
    BY DEF Scope
  <2>3. CASE current[e[3]] = e[4]
    BY <1>1, <2>1, <2>2, <2>3 DEF Doomed, Whole
  <2>4. CASE current[e[3]] # e[4]
    BY <1>1, <2>1, <2>2, <2>4 DEF Doomed
  <2> QED
    BY <2>3, <2>4
<1> QED
  BY <1>1, <1>6, <1>7, <1>8

-----------------------------------------------------------------------------
(* The parts of the invariant *)

LEMMA InvParts ==
    ASSUME MemoryInv
    PROVE  /\ TypeOK /\ StoreOK /\ OneAtATime /\ DebtsAreGone /\ WritesFit /\ OpsAreReady
           /\ RowsAreWritten /\ DebtsAreTracked /\ KeptIsReadable /\ promised \subseteq destroyed
           /\ LineageIsKept /\ cascaded \subseteq forgotten /\ CascadeReaches
BY DEF MemoryInv, TypeOK

\* What an operation in progress is, told by its verb.
LEMMA OpKinds ==
    ASSUME TypeOK, NEW i \in Instances
    PROVE  /\ op[i] \in Writes \cup Erasures \cup Settlements \cup {None}
           /\ Remembering(i) => op[i] \in Writes
           /\ Erasing(i) => op[i] \in Erasures
           /\ Settling(i) => op[i] \in Settlements
           /\ op[i] # None => Remembering(i) \/ Erasing(i) \/ Settling(i)
<1>1. op[i] \in Writes \cup Erasures \cup Settlements \cup {None}
  BY DEF TypeOK
<1>2. CASE op[i] \in Writes
  BY <1>2, MemoryAssumption DEF Writes, Remembering, Erasing, Settling
<1>3. CASE op[i] \in Erasures
  BY <1>3, MemoryAssumption DEF Erasures, Remembering, Erasing, Settling
<1>4. CASE op[i] \in Settlements
  BY <1>4, MemoryAssumption DEF Settlements, Remembering, Erasing, Settling
<1>5. CASE op[i] = None
  BY <1>5, MemoryAssumption DEF Remembering, Erasing, Settling
<1> QED
  BY <1>1, <1>2, <1>3, <1>4, <1>5

\* The step of an instance that has the lock or takes it: nobody else has an
\* operation before or after.
LEMMA Alone ==
    ASSUME TypeOK, OneAtATime, NEW i \in Instances, LockFree(i) \/ op[i] # None,
           NEW t, op' = [op EXCEPT ![i] = t]
    PROVE  /\ OneAtATime' /\ op'[i] = t
           /\ \A j \in Instances \ {i} : op[j] = None /\ op'[j] = None
BY DEF TypeOK, OneAtATime, LockFree

LEMMA HolderReady ==
    ASSUME NEW i \in Instances, \A j \in Instances \ {i} : op'[j] = None,
           WriteIsReady(i)', ErasureIsReady(i)', SettlementIsReady(i)'
    PROVE  OpsAreReady'
BY DEF OpsAreReady, WriteIsReady, ErasureIsReady, SettlementIsReady, Remembering, Erasing, Settling

\* An operation that does not concern a step's change is as ready as before.
LEMMA DoneReady ==
    ASSUME MemoryInv, NEW i \in Instances, Done(i),
           \A j \in Instances \ {i} : owed'[j] = owed[j],
           UNCHANGED <<store, destroyed, written, asked, strayed>>
    PROVE  OpsAreReady' /\ OneAtATime' /\ op'[i] = None
           /\ \A j \in Instances \ {i} : op'[j] = op[j]
<1>1. op'[i] = None /\ \A j \in Instances \ {i} : op'[j] = op[j]
  BY InvParts DEF TypeOK, Done
<1>2. OneAtATime'
  BY <1>1, InvParts DEF OneAtATime
<1>3. ASSUME NEW j \in Instances PROVE WriteIsReady(j)' /\ ErasureIsReady(j)' /\ SettlementIsReady(j)'
  <2>1. CASE j = i
    BY <1>1, <2>1 DEF WriteIsReady, ErasureIsReady, SettlementIsReady, Remembering, Erasing, Settling
  <2>2. CASE j # i
    <3>1. op'[j] = op[j] /\ owed'[j] = owed[j]
      BY <1>1, <2>2
    <3>2. WriteIsReady(j) /\ ErasureIsReady(j) /\ SettlementIsReady(j)
      BY InvParts DEF OpsAreReady
    <3>3. WriteIsReady(j)'
      BY <3>1, <3>2 DEF WriteIsReady, Remembering, Fits, store
    <3>4. ErasureIsReady(j)'
      BY <3>1, <3>2 DEF ErasureIsReady, Erasing, Fits, WrittenOf, Reached, store
    <3>5. SettlementIsReady(j)'
      BY <3>1, <3>2 DEF SettlementIsReady, Settling, Gone, store
    <3> QED
      BY <3>3, <3>4, <3>5
  <2> QED
    BY <2>1, <2>2
<1> QED
  BY <1>1, <1>2, <1>3 DEF OpsAreReady

\* What is left of the invariant when the store is not touched.
LEMMA QuietKeeps ==
    ASSUME MemoryInv, UNCHANGED <<rows, current, edges, forgotten, written, displaced, cascaded>>,
           TypeOK', OneAtATime', OpsAreReady', DebtsAreTracked', KeptIsReadable',
           \A i \in Instances : \A s \in ToSet(owed'[i]) : Gone(s),
           \A s \in promised' : Gone(s) /\ s \in destroyed',
           \A call \in stray' : call.kind = "store" =>
                Fits(call.item.id, call.item.as, current[call.item.id] + 1)
    PROVE  MemoryInv'
<1>1. DebtsAreGone'
  BY DEF DebtsAreGone, Gone
<1>2. WritesFit'
  BY InvParts DEF WritesFit, Fits
<1>3. RowsAreWritten'
  BY InvParts DEF RowsAreWritten, SealedTo
<1>4. LineageIsKept' /\ CascadeReaches' /\ (cascaded \subseteq forgotten)'
  BY InvParts DEF LineageIsKept, TakesIn, Derived, CascadeReaches
<1> QED
  BY <1>1, <1>2, <1>3, <1>4 DEF MemoryInv

\* A call left behind is one of the calls there are.
LEMMA LeavesFacts ==
    ASSUME MemoryInv, NEW call \in Calls, Leaves(call),
           call.kind = "store" => Fits(call.item.id, call.item.as, current[call.item.id] + 1)
    PROVE  /\ stray' \subseteq Calls
           /\ \A c \in stray' : c.kind = "store" => Fits(c.item.id, c.item.as, current[c.item.id] + 1)
BY InvParts DEF Leaves, TypeOK, WritesFit


\* The erasure of a version's key is done, owed, or known to be lost.
Tracked(s) ==
    \/ s \in destroyed
    \/ \E j \in Instances : s \in ToSet(owed[j])
    \/ \E j \in Instances : Settling(j) /\ s \in op[j].trimmed
    \/ s \in lost \/ s \in strayed \/ s \in displaced \/ s \in untracked

LEMMA TrackedIff ==
    /\ DebtsAreTracked <=> \A s \in written : (\E row \in rows : SealedTo(row) = s) \/ Tracked(s)
    /\ DebtsAreTracked' <=> \A s \in written' : (\E row \in rows' : SealedTo(row) = s) \/ Tracked(s)'
<1>1. DebtsAreTracked <=> \A s \in written : (\E row \in rows : SealedTo(row) = s) \/ Tracked(s)
  BY DEF DebtsAreTracked, Tracked
<1>2. DebtsAreTracked' <=> \A s \in written' : (\E row \in rows' : SealedTo(row) = s) \/ Tracked(s)'
  BY DEF DebtsAreTracked, Tracked, SealedTo
<1> QED
  BY <1>1, <1>2

\* A verb ends and the store is not touched: what it leaves unpaid is owed, or
\* known to be lost.
LEMMA EndKeeps ==
    ASSUME MemoryInv, NEW i \in Instances, Done(i),
           UNCHANGED <<store, destroyed, written, asked, cascaded, strayed, displaced>>,
           owed' \in [Instances -> Seq(Scopes)], \A j \in Instances \ {i} : owed'[j] = owed[j],
           ToSet(owed'[i]) \subseteq ToSet(owed[i]),
           ToSet(owed[i]) \cup Unrecorded(i) \subseteq destroyed \cup ToSet(owed'[i]) \cup lost' \cup untracked',
           lost \subseteq lost', untracked \subseteq untracked',
           \A s \in promised' : Gone(s) /\ s \in destroyed,
           stray' \subseteq Calls,
           \A c \in stray' : c.kind = "store" => Fits(c.item.id, c.item.as, current[c.item.id] + 1)
    PROVE  MemoryInv'
<1>1. OpsAreReady' /\ OneAtATime' /\ op'[i] = None /\ \A j \in Instances \ {i} : op'[j] = op[j]
  BY DoneReady
<1>2. TypeOK'
  <2>1. StoreOK'
    BY InvParts DEF StoreOK, store
  <2>2. op' \in [Instances -> Writes \cup Erasures \cup Settlements \cup {None}]
    BY InvParts DEF TypeOK, Done
  <2> QED
    BY <2>1, <2>2, InvParts DEF TypeOK
<1>3. \A j \in Instances : ToSet(owed'[j]) \subseteq ToSet(owed[j])
  OBVIOUS
<1>4. \A j \in Instances : \A s \in ToSet(owed'[j]) : Gone(s)
  BY <1>3, InvParts DEF DebtsAreGone
<1>5. DebtsAreTracked'
  <2> SUFFICES ASSUME NEW s \in written, \A row \in rows : SealedTo(row) # s
               PROVE  Tracked(s)'
    BY TrackedIff DEF store, SealedTo
  <2>1. Tracked(s)
    BY InvParts, TrackedIff
  <2>2. CASE \E j \in Instances : s \in ToSet(owed[j])
    BY <2>2 DEF Tracked
  <2>3. CASE \E j \in Instances : Settling(j) /\ s \in op[j].trimmed
    <3>1. PICK j \in Instances : Settling(j) /\ s \in op[j].trimmed
      BY <2>3
    <3>2. CASE j = i
      BY <3>1, <3>2 DEF Unrecorded, Tracked
    <3>3. CASE j # i
      BY <1>1, <3>1, <3>3 DEF Settling, Tracked
    <3> QED
      BY <3>2, <3>3
  <2> QED
    BY <2>1, <2>2, <2>3 DEF Tracked
<1>6. KeptIsReadable'
  BY InvParts DEF KeptIsReadable, SealedTo, store
<1> QED
  BY <1>1, <1>2, <1>4, <1>5, <1>6, QuietKeeps DEF store

\* What a running verb leaves behind is one of the calls there are.
LEMMA CallsLeft ==
    ASSUME MemoryInv, NEW i \in Instances
    PROVE  /\ Remembering(i) =>
                /\ Item(i) \in Items /\ [kind |-> "store", item |-> Item(i)] \in Calls
                /\ Fits(Item(i).id, Item(i).as, current[Item(i).id] + 1)
           /\ Erasing(i) => Removal(i) \in Calls
           /\ Pending(i) # <<>> => [kind |-> "destroy", scope |-> Head(Pending(i))] \in Calls
           /\ Pending(i) \in Seq(Scopes)
<1>1. ASSUME Remembering(i)
      PROVE  /\ Item(i) \in Items /\ [kind |-> "store", item |-> Item(i)] \in Calls
             /\ Fits(Item(i).id, Item(i).as, current[Item(i).id] + 1)
  <2>1. op[i] \in Writes
    BY <1>1, InvParts, OpKinds
  <2>2. Item(i) \in Items
    BY <2>1 DEF Item, Items, Writes
  <2>3. Fits(op[i].id, op[i].as, current[op[i].id] + 1)
    BY <1>1, InvParts DEF OpsAreReady, WriteIsReady
  <2>4. [kind |-> "store", item |-> Item(i)] \in Calls
    BY <2>2 DEF Calls
  <2> QED
    BY <2>2, <2>3, <2>4 DEF Item
<1>2. ASSUME Erasing(i) PROVE Removal(i) \in Calls
  <2>1. op[i] \in Erasures
    BY <1>2, InvParts, OpKinds
  <2> QED
    BY <2>1 DEF Removal, Calls, Erasures
<1>3. Pending(i) \in Seq(Scopes)
  <2>1. owed[i] \in Seq(Scopes)
    BY InvParts DEF TypeOK
  <2>2. Erasing(i) => op[i].keys \in Seq(Scopes)
    BY InvParts, OpKinds DEF Erasures
  <2> QED
    BY <2>1, <2>2 DEF Pending
<1>4. ASSUME Pending(i) # <<>> PROVE [kind |-> "destroy", scope |-> Head(Pending(i))] \in Calls
  <2>1. Head(Pending(i)) \in Scopes
    BY <1>3, <1>4
  <2> QED
    BY <2>1 DEF Calls
<1> QED
  BY <1>1, <1>2, <1>3, <1>4

LEMMA PromisesKept ==
    ASSUME MemoryInv
    PROVE  \A s \in promised : Gone(s) /\ s \in destroyed
BY InvParts DEF DebtsAreGone

LEMMA StoreFailsKeeps ==
    ASSUME MemoryInv, NEW i \in Instances, StoreFails(i)
    PROVE  MemoryInv'
<1>1. Remembering(i) /\ Done(i) /\ Leaves([kind |-> "store", item |-> Item(i)])
      /\ UNCHANGED <<store, destroyed, owed, history>>
  BY DEF StoreFails
<1>2. Unrecorded(i) = {}
  BY <1>1 DEF Unrecorded, Settling, Remembering
<1>3. stray' \subseteq Calls
      /\ \A c \in stray' : c.kind = "store" => Fits(c.item.id, c.item.as, current[c.item.id] + 1)
  <2> DEFINE call == [kind |-> "store", item |-> Item(i)]
  <2>1. call \in Calls /\ Fits(call.item.id, call.item.as, current[call.item.id] + 1)
    BY <1>1, CallsLeft
  <2> HIDE DEF call
  <2> QED
    BY <1>1, <2>1, LeavesFacts DEF call
<1>4. owed' \in [Instances -> Seq(Scopes)]
  BY <1>1, InvParts DEF TypeOK
<1> QED
  BY <1>1, <1>2, <1>3, <1>4, EndKeeps, PromisesKept DEF history

LEMMA RowsStayKeeps ==
    ASSUME MemoryInv, NEW i \in Instances, RowsStay(i)
    PROVE  MemoryInv'
<1>1. Erasing(i) /\ Done(i) /\ Leaves(Removal(i)) /\ UNCHANGED <<store, destroyed, owed, history>>
  BY DEF RowsStay
<1>2. Unrecorded(i) = {}
  BY <1>1 DEF Unrecorded, Settling, Erasing
<1>3. stray' \subseteq Calls
      /\ \A c \in stray' : c.kind = "store" => Fits(c.item.id, c.item.as, current[c.item.id] + 1)
  <2>1. Removal(i) \in Calls /\ Removal(i).kind # "store"
    BY <1>1, CallsLeft DEF Removal
  <2> QED
    BY <1>1, <2>1, LeavesFacts
<1>4. owed' \in [Instances -> Seq(Scopes)]
  BY <1>1, InvParts DEF TypeOK
<1> QED
  BY <1>1, <1>2, <1>3, <1>4, EndKeeps, PromisesKept DEF history

LEMMA SettledKeeps ==
    ASSUME MemoryInv, NEW i \in Instances, Settled(i)
    PROVE  MemoryInv'
<1>1. /\ Settling(i) /\ owed[i] = <<>> /\ op[i].trimmed = {} /\ promised' = promised \cup op[i].reach
      /\ Done(i)
      /\ UNCHANGED <<store, destroyed, owed, stray, written, asked, cascaded, strayed, displaced, lost, untracked>>
  BY DEF Settled
<1>2. Unrecorded(i) = {} /\ ToSet(owed[i]) = {}
  BY <1>1 DEF Unrecorded, ToSet
<1>3. \A s \in promised' : Gone(s) /\ s \in destroyed
  <2>1. SettlementIsReady(i)
    BY InvParts DEF OpsAreReady
  <2> QED
    BY <1>1, <1>2, <2>1, PromisesKept DEF SettlementIsReady
<1>4. owed' \in [Instances -> Seq(Scopes)] /\ stray' \subseteq Calls
      /\ \A c \in stray' : c.kind = "store" => Fits(c.item.id, c.item.as, current[c.item.id] + 1)
  BY <1>1, InvParts DEF TypeOK, WritesFit
<1> QED
  BY <1>1, <1>2, <1>3, <1>4, EndKeeps

LEMMA KeyRefusedKeeps ==
    ASSUME MemoryInv, NEW i \in Instances, KeyRefused(i)
    PROVE  MemoryInv'
<1>1. /\ Pending(i) # <<>> /\ owed' = owed /\ untracked' = untracked \cup Unrecorded(i) /\ Done(i)
      /\ Leaves([kind |-> "destroy", scope |-> Head(Pending(i))])
      /\ UNCHANGED <<store, destroyed, written, promised, asked, cascaded, strayed, displaced, lost>>
  BY DEF KeyRefused, Unpaid
<1>3. stray' \subseteq Calls
      /\ \A c \in stray' : c.kind = "store" => Fits(c.item.id, c.item.as, current[c.item.id] + 1)
  <2> DEFINE call == [kind |-> "destroy", scope |-> Head(Pending(i))]
  <2>1. call \in Calls /\ call.kind # "store"
    BY <1>1, CallsLeft
  <2> HIDE DEF call
  <2> QED
    BY <1>1, <2>1, LeavesFacts DEF call
<1>4. owed' \in [Instances -> Seq(Scopes)]
  BY <1>1, InvParts DEF TypeOK
<1> QED
  BY <1>1, <1>3, <1>4, EndKeeps, PromisesKept

LEMMA CrashKeeps ==
    ASSUME MemoryInv, NEW i \in Instances, Crash(i)
    PROVE  MemoryInv'
<1>1. /\ lost' = lost \cup ToSet(owed[i]) \cup Unrecorded(i) /\ owed' = [owed EXCEPT ![i] = <<>>] /\ Done(i)
      /\ UNCHANGED <<store, destroyed, written, promised, asked, cascaded, strayed, displaced, untracked>>
  BY DEF Crash
<1>2. stray' \subseteq Calls
      /\ \A c \in stray' : c.kind = "store" => Fits(c.item.id, c.item.as, current[c.item.id] + 1)
  <2>1. CASE Remembering(i)
    <3> DEFINE call == [kind |-> "store", item |-> Item(i)]
    <3>1. call \in Calls /\ Fits(call.item.id, call.item.as, current[call.item.id] + 1) /\ Leaves(call)
      BY <2>1, CallsLeft DEF Crash
    <3> HIDE DEF call
    <3> QED
      BY <3>1, LeavesFacts
  <2>2. CASE ~Remembering(i) /\ Pending(i) # <<>>
    <3> DEFINE call == [kind |-> "destroy", scope |-> Head(Pending(i))]
    <3>1. call \in Calls /\ call.kind # "store" /\ Leaves(call)
      BY <2>2, CallsLeft DEF Crash
    <3> HIDE DEF call
    <3> QED
      BY <3>1, LeavesFacts
  <2>3. CASE ~Remembering(i) /\ Pending(i) = <<>> /\ Erasing(i)
    <3>1. Removal(i) \in Calls /\ Removal(i).kind # "store" /\ Leaves(Removal(i))
      BY <2>3, CallsLeft DEF Removal, Crash
    <3> QED
      BY <3>1, LeavesFacts
  <2>4. CASE UNCHANGED stray
    BY <2>4, InvParts DEF TypeOK, WritesFit
  <2> QED
    BY <2>1, <2>2, <2>3, <2>4 DEF Crash
<1>3. /\ owed' \in [Instances -> Seq(Scopes)] /\ owed'[i] = <<>>
      /\ \A j \in Instances \ {i} : owed'[j] = owed[j]
  BY <1>1, InvParts DEF TypeOK
<1>4. ToSet(owed'[i]) = {}
  BY <1>3 DEF ToSet
<1> QED
  BY <1>1, <1>2, <1>3, <1>4, EndKeeps, PromisesKept


-----------------------------------------------------------------------------
(* Steps that leave the store alone *)

\* The lock is taken for a write or for an erasure of keys.
LEMMA TakesLockKeeps ==
    ASSUME MemoryInv, NEW i \in Instances, LockFree(i),
           NEW t \in Writes \cup Erasures, op' = [op EXCEPT ![i] = t],
           WriteIsReady(i)', ErasureIsReady(i)', asked \subseteq asked',
           UNCHANGED <<store, destroyed, owed, stray, written, promised, cascaded, strayed, displaced, lost, untracked>>
    PROVE  MemoryInv'
<1>1. OneAtATime' /\ op'[i] = t /\ \A j \in Instances \ {i} : op[j] = None /\ op'[j] = None
  BY Alone, InvParts
<1>2. TypeOK'
  <2>1. StoreOK'
    BY InvParts DEF StoreOK, store
  <2>2. op' \in [Instances -> Writes \cup Erasures \cup Settlements \cup {None}]
    BY InvParts DEF TypeOK
  <2> QED
    BY <2>1, <2>2, InvParts DEF TypeOK
<1>3. ~Settling(i)'
  BY <1>1 DEF Settling, Writes, Erasures
<1>4. OpsAreReady'
  BY <1>1, <1>3, HolderReady DEF SettlementIsReady
<1>5. DebtsAreTracked'
  <2> SUFFICES ASSUME NEW s \in written, \A row \in rows : SealedTo(row) # s
               PROVE  Tracked(s)'
    BY TrackedIff DEF store, SealedTo
  <2>1. Tracked(s)
    BY InvParts, TrackedIff
  <2>2. \A j \in Instances : ~Settling(j)
    BY DEF LockFree, Settling
  <2> QED
    BY <2>1, <2>2 DEF Tracked
<1>6. KeptIsReadable'
  BY InvParts DEF KeptIsReadable, SealedTo, store
<1>7. /\ \A j \in Instances : \A s \in ToSet(owed'[j]) : Gone(s)
      /\ \A s \in promised' : Gone(s) /\ s \in destroyed'
      /\ \A call \in stray' : call.kind = "store" => Fits(call.item.id, call.item.as, current[call.item.id] + 1)
  BY InvParts, PromisesKept DEF DebtsAreGone, WritesFit
<1> QED
  BY <1>1, <1>2, <1>4, <1>5, <1>6, <1>7, QuietKeeps DEF store

LEMMA RememberKeeps ==
    ASSUME MemoryInv, NEW i \in Instances, NEW id \in Ids,
           NEW from \in {{}} \cup {{SealedTo(row)} : row \in rows}, Remember(i, id, from)
    PROVE  MemoryInv'
<1>1. PICK n \in Nat : n = current[id]
  BY InvParts DEF StoreOK
<1> DEFINE t == [verb |-> "remember", id |-> id, as |-> n + 1, from |-> from]
<1>2. /\ LockFree(i) /\ Scope(id, n + 1) \notin destroyed /\ op' = [op EXCEPT ![i] = t]
      /\ UNCHANGED <<store, destroyed, owed, stray, faults, history>>
  BY <1>1 DEF Remember
<1>3. from \in SUBSET Scopes
  <2>1. \A row \in rows : SealedTo(row) \in Scopes
    BY InvParts DEF StoreOK, Rows, SealedTo, Scope, Scopes
  <2> QED
    BY <2>1
<1>4. t \in Writes
  BY <1>1, <1>3 DEF Writes
<1>5. op'[i] = t
  BY <1>2, InvParts DEF TypeOK
<1>6. op'[i].id = id /\ op'[i].as = n + 1 /\ op'[i].verb = "remember"
  BY <1>5
<1> HIDE DEF t
<1>7. WriteIsReady(i)'
  <2>1. current'[id] = n /\ n + 1 <= n + 1 /\ destroyed' = destroyed
    BY <1>1, <1>2 DEF store
  <2> QED
    BY <1>2, <1>6, <2>1 DEF WriteIsReady, Fits
<1>8. ErasureIsReady(i)'
  BY <1>6 DEF ErasureIsReady, Erasing
<1> QED
  BY <1>2, <1>4, <1>7, <1>8, TakesLockKeeps DEF history

\* What was written of ids still there is among their versions.
LEMMA WrittenInVersions ==
    ASSUME MemoryInv, NEW ids \in SUBSET Ids
    PROVE  /\ WrittenOf(ids) \subseteq EveryVersion(ids)
           /\ \A s \in WrittenOf(ids) : s \in Scopes /\ s[1] \in ids /\ s[2] <= current[s[1]]
<1> SUFFICES ASSUME NEW s \in WrittenOf(ids)
             PROVE  s \in EveryVersion(ids) /\ s \in Scopes /\ s[1] \in ids /\ s[2] <= current[s[1]]
  OBVIOUS
<1>1. s \in written /\ s[1] \in ids /\ current[s[1]] > 0 /\ s \in Scopes
  BY InvParts DEF WrittenOf, TypeOK
<1>2. s[1] \notin forgotten
  BY <1>1, InvParts DEF StoreOK
<1>3. s[2] <= current[s[1]]
  BY <1>1, <1>2, InvParts DEF WritesFit, Fits
<1> QED
  BY <1>1, <1>3, InvParts, VersionFacts

LEMMA KeysFirstKeeps ==
    ASSUME MemoryInv, NEW i \in Instances, NEW verb \in {"forget", "erase_subject"}, NEW ids \in SUBSET Ids,
           verb = "erase_subject" => ids = {id \in Ids : current[id] > 0},
           KeysFirst(i, verb, ids)
    PROVE  MemoryInv'
<1>1. PICK keys : keys = SetToSeq(EveryVersion(ids))
  OBVIOUS
<1>2. PICK reach : reach = WrittenOf(ids)
  OBVIOUS
<1> DEFINE t == [verb |-> verb, ids |-> ids, keys |-> keys, reach |-> reach]
<1>3. /\ LockFree(i) /\ ids \cap held = {} /\ op' = [op EXCEPT ![i] = t]
      /\ asked' = asked \cup {id \in ids : current[id] > 0}
      /\ UNCHANGED <<store, destroyed, owed, stray, faults, written, promised, cascaded, strayed, displaced, lost, untracked>>
  BY <1>1, <1>2 DEF KeysFirst
<1>4. keys \in Seq(Scopes) /\ ToSet(keys) = EveryVersion(ids)
  BY <1>1, InvParts, VersionFacts, SetToSeqFacts
<1>5. /\ reach \subseteq EveryVersion(ids) /\ reach \subseteq Scopes
      /\ \A s \in reach : s[1] \in ids /\ s[2] <= current[s[1]]
  BY <1>2, WrittenInVersions
<1>6. t \in Erasures
  BY <1>4, <1>5 DEF Erasures
<1>7. op'[i] = t
  BY <1>3, InvParts DEF TypeOK
<1>8. /\ op'[i].verb = verb /\ op'[i].ids = ids /\ op'[i].keys = keys /\ op'[i].reach = reach
  BY <1>7
<1> HIDE DEF t
<1>9. WriteIsReady(i)'
  BY <1>8 DEF WriteIsReady, Remembering
<1>10. ErasureIsReady(i)'
  <2>1. \A s \in ToSet(keys) : s[1] \in ids \cap asked'
    <3> SUFFICES ASSUME NEW s \in ToSet(keys) PROVE s[1] \in ids \cap asked'
      OBVIOUS
    <3>1. s \in Scopes /\ s[1] \in ids /\ s[2] <= current[s[1]]
      BY <1>4, InvParts, VersionFacts
    <3>2. s[2] \in Nat \ {0} /\ current[s[1]] \in Nat
      BY <3>1, InvParts DEF Scopes, StoreOK
    <3> QED
      BY <1>3, <3>1, <3>2
  <2>2. WrittenOf(Reached(verb, ids)) \subseteq reach
    BY <1>2 DEF WrittenOf, Reached
  <2>3. WrittenOf(Reached(verb, ids))' = WrittenOf(Reached(verb, ids))
    BY <1>3 DEF WrittenOf, Reached, store
  <2>4. (ids \cap held = {})' /\ \A s \in reach : Fits(s[1], s[2], current[s[1]])'
    BY <1>3, <1>5 DEF Fits, store
  <2>5. WrittenOf(Reached(op[i].verb, op[i].ids))' \subseteq reach
    BY <1>8, <2>2, <2>3
  <2> QED
    BY <1>4, <1>5, <1>8, <2>1, <2>4, <2>5 DEF ErasureIsReady
<1> QED
  BY <1>3, <1>6, <1>9, <1>10, TakesLockKeeps

LEMMA SetLegalHoldKeeps ==
    ASSUME MemoryInv, NEW i \in Instances, NEW id \in Ids, NEW on \in BOOLEAN, SetLegalHold(i, id, on)
    PROVE  MemoryInv'
<1>1. /\ LockFree(i) /\ (on => current[id] > 0)
      /\ held' = IF on THEN held \cup {id} ELSE held \ {id}
      /\ UNCHANGED <<rows, current, edges, forgotten, destroyed, owed, op, stray, faults, history>>
  BY DEF SetLegalHold
<1>2. held' \subseteq Ids \ forgotten'
  <2>1. current[id] \in Nat /\ (id \in forgotten => current[id] = 0) /\ held \subseteq Ids \ forgotten
    BY InvParts DEF StoreOK
  <2> QED
    BY <1>1, <2>1
<1>3. StoreOK'
  BY <1>1, <1>2, InvParts DEF StoreOK
<1>4. TypeOK' /\ OneAtATime'
  BY <1>1, <1>3, InvParts DEF TypeOK, history, OneAtATime
<1>5. \A j \in Instances : op'[j] = None
  BY <1>1 DEF LockFree
<1>6. OpsAreReady'
  BY <1>5 DEF OpsAreReady, WriteIsReady, ErasureIsReady, SettlementIsReady, Remembering, Erasing, Settling
<1>7. DebtsAreTracked' /\ KeptIsReadable'
  BY <1>1, InvParts DEF DebtsAreTracked, Settling, KeptIsReadable, SealedTo, history
<1>8. /\ \A j \in Instances : \A s \in ToSet(owed'[j]) : Gone(s)
      /\ \A s \in promised' : Gone(s) /\ s \in destroyed'
      /\ \A call \in stray' : call.kind = "store" => Fits(call.item.id, call.item.as, current[call.item.id] + 1)
  BY <1>1, InvParts, PromisesKept DEF DebtsAreGone, WritesFit, history
<1> QED
  BY <1>1, <1>4, <1>6, <1>7, <1>8, QuietKeeps DEF history


\* The first of some keys and the others.
LEMMA HeadFacts ==
    ASSUME NEW q \in Seq(Scopes), q # <<>>
    PROVE  /\ Head(q) \in Scopes /\ Tail(q) \in Seq(Scopes)
           /\ ToSet(q) = {Head(q)} \cup ToSet(Tail(q))
<1>1. PICK n \in Nat : n = Len(q) /\ n > 0
  OBVIOUS
<1>2. Head(q) = q[1] /\ Len(Tail(q)) = n - 1 /\ \A k \in 1 .. n - 1 : Tail(q)[k] = q[k + 1]
  BY <1>1
<1>3. ToSet(q) \subseteq {Head(q)} \cup ToSet(Tail(q))
  <2> SUFFICES ASSUME NEW k \in 1 .. n, k # 1 PROVE q[k] \in ToSet(Tail(q))
    BY <1>1, <1>2 DEF ToSet
  <2>1. k - 1 \in 1 .. n - 1 /\ Tail(q)[k - 1] = q[k]
    BY <1>1, <1>2
  <2>2. DOMAIN Tail(q) = 1 .. n - 1
    BY <1>1, <1>2
  <2> QED
    BY <2>1, <2>2 DEF ToSet
<1>4. ToSet(Tail(q)) \subseteq ToSet(q)
  <2> SUFFICES ASSUME NEW k \in 1 .. n - 1 PROVE Tail(q)[k] \in ToSet(q)
    BY <1>1, <1>2 DEF ToSet
  <2>1. k + 1 \in 1 .. n /\ Tail(q)[k] = q[k + 1]
    BY <1>1, <1>2
  <2> QED
    BY <1>1, <2>1 DEF ToSet
<1> QED
  BY <1>1, <1>2, <1>3, <1>4 DEF ToSet

\* No row is stored under a scope that is gone.
LEMMA GoneHasNoRow ==
    ASSUME StoreOK, NEW s, Gone(s)
    PROVE  \A row \in rows : Scope(row.id, row.version) # s
<1> SUFFICES ASSUME NEW row \in rows, Scope(row.id, row.version) = s PROVE FALSE
  OBVIOUS
<1>1. row.id \in Ids /\ row.version \in Nat \ {0} /\ row.version <= current[row.id] /\ current[row.id] \in Nat
  BY DEF StoreOK, Rows
<1>2. row.id \notin forgotten
  BY <1>1 DEF StoreOK
<1> QED
  BY <1>2 DEF Gone, Scope

\* What destroying a key of a running erasure changes.
LEMMA DestroyKeyEffect ==
    ASSUME MemoryInv, NEW i \in Instances, DestroyKey(i)
    PROVE  \E k \in Scopes :
              /\ destroyed' = destroyed \cup {k}
              /\ op[i] # None /\ ~Remembering(i)
              /\ \A j \in Instances \ {i} : op[j] = None /\ op'[j] = None /\ owed'[j] = owed[j]
              /\ owed' \in [Instances -> Seq(Scopes)] /\ ToSet(owed[i]) \subseteq {k} \cup ToSet(owed'[i])
              /\ ToSet(owed'[i]) \subseteq ToSet(owed[i])
              /\ \/ Gone(k) /\ op' = op
                 \/ /\ Erasing(i) /\ op[i] \in Erasures /\ k \in ToSet(op[i].keys)
                    /\ op' = [op EXCEPT ![i].keys = Tail(@)]
                    /\ op'[i] \in Erasures /\ op'[i] # None
                    /\ op'[i].verb = op[i].verb /\ op'[i].ids = op[i].ids /\ op'[i].reach = op[i].reach
                    /\ ToSet(op[i].keys) \subseteq {k} \cup ToSet(op'[i].keys)
                    /\ ToSet(op'[i].keys) \subseteq ToSet(op[i].keys)
<1>1. op[i] # None /\ ~Remembering(i)
  BY DEF DestroyKey, Pending
<1>2. owed \in [Instances -> Seq(Scopes)] /\ op \in [Instances -> Writes \cup Erasures \cup Settlements \cup {None}]
  BY InvParts DEF TypeOK
<1>3. \A j \in Instances \ {i} : op[j] = None
  BY <1>1, InvParts DEF OneAtATime
<1>4. CASE owed[i] # <<>>
  <2>1. Pending(i) = owed[i] \o (IF Erasing(i) THEN op[i].keys ELSE <<>>)
    BY <1>1 DEF Pending
  <2>2. Erasing(i) => op[i].keys \in Seq(Scopes)
    BY InvParts, OpKinds DEF Erasures
  <2>3. PICK k \in Scopes : k = Head(owed[i])
    BY <1>2, <1>4, HeadFacts
  <2>4. Head(Pending(i)) = k
    BY <1>2, <1>4, <2>1, <2>2, <2>3
  <2>5. destroyed' = destroyed \cup {k} /\ owed' = [owed EXCEPT ![i] = Tail(@)] /\ op' = op
    BY <1>4, <2>4 DEF DestroyKey
  <2>6. Tail(owed[i]) \in Seq(Scopes) /\ ToSet(owed[i]) = {k} \cup ToSet(Tail(owed[i]))
    BY <1>2, <1>4, <2>3, HeadFacts
  <2>7. owed'[i] = Tail(owed[i]) /\ owed' \in [Instances -> Seq(Scopes)] /\ \A j \in Instances \ {i} : owed'[j] = owed[j]
    BY <1>2, <2>5, <2>6
  <2>8. Gone(k)
    BY <2>6, InvParts DEF DebtsAreGone
  <2> QED
    BY <1>1, <1>3, <2>5, <2>6, <2>7, <2>8
<1>5. CASE owed[i] = <<>>
  <2>1. Erasing(i) /\ op[i].keys # <<>>
    BY <1>1, <1>5 DEF DestroyKey, Pending
  <2>2. op[i] \in Erasures
    BY <2>1, InvParts, OpKinds
  <2>3. PICK q \in Seq(Scopes) : q = op[i].keys
    BY <2>2 DEF Erasures
  <2>4. PICK k \in Scopes : k = Head(q)
    BY <2>1, <2>3, HeadFacts
  <2>5. Tail(q) \in Seq(Scopes) /\ ToSet(q) = {k} \cup ToSet(Tail(q))
    BY <2>1, <2>3, <2>4, HeadFacts
  <2>6. Pending(i) = q
    BY <1>1, <1>5, <2>1, <2>3 DEF Pending
  <2>7. destroyed' = destroyed \cup {k} /\ op' = [op EXCEPT ![i].keys = Tail(@)] /\ owed' = owed
    BY <1>5, <2>4, <2>6 DEF DestroyKey
  <2>8. op'[i] = [op[i] EXCEPT !.keys = Tail(q)] /\ \A j \in Instances \ {i} : op'[j] = op[j]
    BY <1>2, <2>3, <2>7
  <2>9. /\ op'[i] \in Erasures /\ op'[i].keys = Tail(q)
        /\ op'[i].verb = op[i].verb /\ op'[i].ids = op[i].ids /\ op'[i].reach = op[i].reach
    BY <2>2, <2>5, <2>8 DEF Erasures
  <2>10. op'[i] # None
    BY <2>9, MemoryAssumption
  <2>11. ToSet(owed[i]) = {}
    BY <1>5 DEF ToSet
  <2> QED
    BY <1>1, <1>2, <1>3, <2>1, <2>2, <2>3, <2>5, <2>7, <2>8, <2>9, <2>10, <2>11
<1> QED
  BY <1>4, <1>5


LEMMA DestroyKeyKeeps ==
    ASSUME MemoryInv, NEW i \in Instances, DestroyKey(i)
    PROVE  MemoryInv'
<1>1. UNCHANGED <<store, stray, faults, history>>
  BY DEF DestroyKey
<1>2. PICK k \in Scopes :
              /\ destroyed' = destroyed \cup {k}
              /\ op[i] # None /\ ~Remembering(i)
              /\ \A j \in Instances \ {i} : op[j] = None /\ op'[j] = None /\ owed'[j] = owed[j]
              /\ owed' \in [Instances -> Seq(Scopes)] /\ ToSet(owed[i]) \subseteq {k} \cup ToSet(owed'[i])
              /\ ToSet(owed'[i]) \subseteq ToSet(owed[i])
              /\ \/ Gone(k) /\ op' = op
                 \/ /\ Erasing(i) /\ op[i] \in Erasures /\ k \in ToSet(op[i].keys)
                    /\ op' = [op EXCEPT ![i].keys = Tail(@)]
                    /\ op'[i] \in Erasures /\ op'[i] # None
                    /\ op'[i].verb = op[i].verb /\ op'[i].ids = op[i].ids /\ op'[i].reach = op[i].reach
                    /\ ToSet(op[i].keys) \subseteq {k} \cup ToSet(op'[i].keys)
                    /\ ToSet(op'[i].keys) \subseteq ToSet(op[i].keys)
  BY DestroyKeyEffect
<1>3. ErasureIsReady(i) /\ SettlementIsReady(i)
  BY InvParts DEF OpsAreReady
<1>4. /\ op' \in [Instances -> Writes \cup Erasures \cup Settlements \cup {None}]
      /\ Erasing(i)' => Erasing(i) /\ op'[i].verb = op[i].verb /\ op'[i].ids = op[i].ids /\ op'[i].reach = op[i].reach
                        /\ ToSet(op[i].keys) \subseteq {k} \cup ToSet(op'[i].keys)
                        /\ ToSet(op'[i].keys) \subseteq ToSet(op[i].keys)
      /\ ~Remembering(i)' /\ (Settling(i)' => Settling(i) /\ op'[i] = op[i])
      /\ (Settling(i) => op'[i] = op[i] /\ Settling(i)')
  <2>1. op \in [Instances -> Writes \cup Erasures \cup Settlements \cup {None}]
    BY InvParts DEF TypeOK
  <2>2. CASE op' = op
    BY <1>2, <2>1, <2>2 DEF Erasing, Remembering, Settling
  <2>3. CASE op' # op
    <3>1. /\ op' \in [Instances -> Writes \cup Erasures \cup Settlements \cup {None}]
      BY <1>2, <2>1, <2>3
    <3>2. op[i].verb \in {"forget", "erase_subject"}
      BY <1>2, <2>3 DEF Erasing
    <3> QED
      BY <1>2, <2>3, <3>1, <3>2 DEF Erasing, Remembering, Settling
  <2> QED
    BY <2>2, <2>3
<1>5. TypeOK'
  <2>1. StoreOK'
    BY <1>1, InvParts DEF StoreOK, store
  <2> QED
    BY <1>1, <1>2, <1>4, <2>1, InvParts DEF TypeOK, history
<1>6. OneAtATime'
  BY <1>2 DEF OneAtATime
<1>7. ErasureIsReady(i)'
  <2> SUFFICES ASSUME Erasing(i)' PROVE ErasureIsReady(i)'
    BY DEF ErasureIsReady
  <2>1. WrittenOf(Reached(op[i].verb, op[i].ids))' = WrittenOf(Reached(op[i].verb, op[i].ids))
    BY <1>1, <1>4 DEF WrittenOf, Reached, store, history
  <2>2. \A s \in op'[i].reach : s[1] \in op'[i].ids /\ Fits(s[1], s[2], current[s[1]])'
    BY <1>1, <1>3, <1>4 DEF ErasureIsReady, Fits, store
  <2>3. op'[i].reach \subseteq destroyed' \cup ToSet(op'[i].keys)
    BY <1>2, <1>3, <1>4 DEF ErasureIsReady
  <2> QED
    BY <1>1, <1>3, <1>4, <2>1, <2>2, <2>3 DEF ErasureIsReady, store, history
<1>8. SettlementIsReady(i)'
  <2> SUFFICES ASSUME Settling(i)' PROVE SettlementIsReady(i)'
    BY DEF SettlementIsReady
  <2>1. \A s \in op[i].reach \cup op[i].trimmed : Gone(s)'
    BY <1>1, <1>3, <1>4 DEF SettlementIsReady, Gone, store
  <2> QED
    BY <1>2, <1>3, <1>4, <2>1 DEF SettlementIsReady
<1>9. OpsAreReady'
  BY <1>2, <1>4, <1>7, <1>8, HolderReady DEF WriteIsReady
<1>10. DebtsAreTracked'
  <2> SUFFICES ASSUME NEW s \in written, \A row \in rows : SealedTo(row) # s
               PROVE  Tracked(s)'
    BY <1>1, TrackedIff DEF store, history, SealedTo
  <2>1. Tracked(s)
    BY InvParts, TrackedIff
  <2>2. CASE \E j \in Instances : s \in ToSet(owed[j])
    BY <1>2, <2>2 DEF Tracked
  <2>3. CASE \E j \in Instances : Settling(j) /\ s \in op[j].trimmed
    <3>1. Settling(i) /\ s \in op[i].trimmed
      BY <1>2, <2>3 DEF Settling
    <3> QED
      BY <1>4, <3>1 DEF Tracked
  <2> QED
    BY <1>1, <1>2, <2>1, <2>2, <2>3 DEF Tracked, history
<1>11. KeptIsReadable'
  <2> SUFFICES ASSUME NEW row \in rows, row.as = row.version, SealedTo(row) = k
               PROVE  row.id \in asked
    BY <1>1, <1>2, InvParts DEF KeptIsReadable, SealedTo, store, history
  <2>1. CASE Gone(k)
    BY <2>1, InvParts, GoneHasNoRow DEF SealedTo
  <2>2. CASE Erasing(i) /\ k \in ToSet(op[i].keys)
    BY <1>3, <2>2 DEF ErasureIsReady, SealedTo, Scope
  <2> QED
    BY <1>2, <2>1, <2>2
<1>12. /\ \A j \in Instances : \A s \in ToSet(owed'[j]) : Gone(s)
       /\ \A s \in promised' : Gone(s) /\ s \in destroyed'
       /\ \A call \in stray' : call.kind = "store" => Fits(call.item.id, call.item.as, current[call.item.id] + 1)
  BY <1>1, <1>2, InvParts, PromisesKept DEF DebtsAreGone, WritesFit, history
<1> QED
  BY <1>1, <1>5, <1>6, <1>9, <1>10, <1>11, <1>12, QuietKeeps DEF store, history

LEMMA OweTrimmedKeeps ==
    ASSUME MemoryInv, NEW i \in Instances, OweTrimmed(i)
    PROVE  MemoryInv'
<1>1. Settling(i) /\ owed[i] = <<>> /\ UNCHANGED <<store, destroyed, stray, faults, history>>
  BY DEF OweTrimmed
<1>2. op[i] \in Settlements /\ SettlementIsReady(i)
  BY <1>1, InvParts, OpKinds DEF OpsAreReady
<1>3. PICK trimmed \in SUBSET Scopes : trimmed = op[i].trimmed
  BY <1>2 DEF Settlements
<1>4. PICK q : q = SetToSeq(trimmed)
  OBVIOUS
<1>5. q \in Seq(Scopes) /\ ToSet(q) = trimmed
  BY <1>1, <1>2, <1>3, <1>4, SetToSeqFacts DEF SettlementIsReady
<1>6. /\ owed' = [owed EXCEPT ![i] = q]
      /\ op' = [op EXCEPT ![i] = [op[i] EXCEPT !.trimmed = {}]]
  BY <1>3, <1>4 DEF OweTrimmed, TrimmedKeys
<1>7. /\ owed' \in [Instances -> Seq(Scopes)] /\ owed'[i] = q /\ \A j \in Instances \ {i} : owed'[j] = owed[j]
  BY <1>5, <1>6, InvParts DEF TypeOK
<1>8. /\ OneAtATime' /\ op'[i] = [op[i] EXCEPT !.trimmed = {}]
      /\ \A j \in Instances \ {i} : op[j] = None /\ op'[j] = None
  <2> DEFINE t == [op[i] EXCEPT !.trimmed = {}]
  <2>1. op[i] # None /\ op' = [op EXCEPT ![i] = t]
    BY <1>1, <1>6 DEF Settling
  <2> HIDE DEF t
  <2>2. OneAtATime' /\ op'[i] = t /\ \A j \in Instances \ {i} : op[j] = None /\ op'[j] = None
    BY <2>1, InvParts, Alone
  <2> QED
    BY <2>2 DEF t
<1>9. /\ op'[i] \in Settlements /\ op'[i].verb = "settle" /\ op'[i].trimmed = {} /\ op'[i].reach = op[i].reach
      /\ op'[i] # None
  <2>1. /\ op'[i] \in Settlements /\ op'[i].verb = "settle" /\ op'[i].trimmed = {} /\ op'[i].reach = op[i].reach
    BY <1>2, <1>8 DEF Settlements
  <2> QED
    BY <2>1, MemoryAssumption
<1>10. TypeOK'
  <2>1. StoreOK'
    BY <1>1, InvParts DEF StoreOK, store
  <2>2. op' \in [Instances -> Writes \cup Erasures \cup Settlements \cup {None}]
    BY <1>6, <1>8, <1>9, InvParts DEF TypeOK
  <2> QED
    BY <1>1, <1>7, <2>1, <2>2, InvParts DEF TypeOK, history
<1>11. OpsAreReady'
  <2>1. SettlementIsReady(i)'
    <3>1. \A s \in op[i].reach : Gone(s)'
      BY <1>1, <1>2 DEF SettlementIsReady, Gone, store
    <3>2. ToSet(owed[i]) = {}
      BY <1>1 DEF ToSet
    <3>3. op[i].reach \subseteq destroyed \cup trimmed
      BY <1>1, <1>2, <1>3, <3>2 DEF SettlementIsReady
    <3>4. op'[i].reach \subseteq destroyed' \cup ToSet(owed'[i]) \cup op'[i].trimmed
      BY <1>1, <1>5, <1>7, <1>9, <3>3
    <3>5. IsFiniteSet(op'[i].trimmed)
      BY <1>9, FS_EmptySet
    <3> QED
      BY <1>9, <3>1, <3>4, <3>5 DEF SettlementIsReady
  <2>2. WriteIsReady(i)' /\ ErasureIsReady(i)'
    BY <1>9 DEF WriteIsReady, ErasureIsReady, Remembering, Erasing
  <2> QED
    BY <1>8, <2>1, <2>2, HolderReady
<1>12. DebtsAreTracked'
  <2> SUFFICES ASSUME NEW s \in written, \A row \in rows : SealedTo(row) # s
               PROVE  Tracked(s)'
    BY <1>1, TrackedIff DEF store, history, SealedTo
  <2>1. Tracked(s)
    BY InvParts, TrackedIff
  <2>2. CASE \E j \in Instances : s \in ToSet(owed[j])
    <3>1. ToSet(owed[i]) = {}
      BY <1>1 DEF ToSet
    <3> QED
      BY <1>7, <2>2, <3>1 DEF Tracked
  <2>3. CASE \E j \in Instances : Settling(j) /\ s \in op[j].trimmed
    <3>1. s \in trimmed
      BY <1>3, <1>8, <2>3 DEF Settling
    <3> QED
      BY <1>5, <1>7, <3>1 DEF Tracked
  <2> QED
    BY <1>1, <2>1, <2>2, <2>3 DEF Tracked, history
<1>13. KeptIsReadable'
  BY <1>1, InvParts DEF KeptIsReadable, SealedTo, store, history
<1>14. /\ \A j \in Instances : \A s \in ToSet(owed'[j]) : Gone(s)
       /\ \A s \in promised' : Gone(s) /\ s \in destroyed'
       /\ \A call \in stray' : call.kind = "store" => Fits(call.item.id, call.item.as, current[call.item.id] + 1)
  <2>1. \A s \in trimmed : Gone(s)
    BY <1>1, <1>2, <1>3 DEF SettlementIsReady
  <2> QED
    BY <1>1, <1>5, <1>7, <2>1, InvParts, PromisesKept DEF DebtsAreGone, WritesFit, history
<1> QED
  BY <1>1, <1>8, <1>10, <1>11, <1>12, <1>13, <1>14, QuietKeeps DEF store, history


-----------------------------------------------------------------------------
(* Steps of the store *)

\* Whatever the step of another does to the store, a running operation stays
\* ready: a stray call that could disturb it is known to have landed.
LEMMA OpsKeep ==
    ASSUME MemoryInv, UNCHANGED <<op, owed, asked>>, Advances,
           destroyed \subseteq destroyed', strayed \subseteq strayed',
           \A s \in destroyed' : s \in destroyed \/ s \in strayed',
           \A id \in Ids : current'[id] = current[id] \/ id \in forgotten' \/ \E s \in strayed' : s[1] = id,
           \A s \in written' : s \in written \/ s \in strayed'
    PROVE  OpsAreReady'
<1> SUFFICES ASSUME NEW i \in Instances
             PROVE  WriteIsReady(i)' /\ ErasureIsReady(i)' /\ SettlementIsReady(i)'
  BY DEF OpsAreReady
<1>1. WriteIsReady(i) /\ ErasureIsReady(i) /\ SettlementIsReady(i)
  BY InvParts DEF OpsAreReady
<1>2. StoreOK' /\ held' = held /\ forgotten \subseteq forgotten'
      /\ (\A id \in Ids : id \in forgotten' \/ current[id] <= current'[id])
      /\ (\A s \in Scopes : Gone(s) => Gone(s)')
  BY DEF Advances
<1>3. \A id \in Ids : current[id] \in Nat /\ current'[id] \in Nat
  BY <1>2, InvParts DEF StoreOK
<1>4. WriteIsReady(i)'
  <2> SUFFICES ASSUME Remembering(i)' PROVE WriteIsReady(i)'
    BY DEF WriteIsReady
  <2>1. Remembering(i) /\ op[i].id \in Ids /\ op[i].as \in Nat
    <3>1. Remembering(i)
      BY DEF Remembering
    <3> QED
      BY <3>1, InvParts, OpKinds DEF Writes
  <2>2. Fits(op[i].id, op[i].as, current[op[i].id] + 1)'
    BY <1>1, <1>2, <1>3, <2>1 DEF WriteIsReady, Fits
  <2>3. \/ op[i].id \in forgotten' \/ op[i].as = current'[op[i].id] + 1
        \/ \E s \in strayed' : s[1] = op[i].id
    BY <1>1, <1>2, <2>1 DEF WriteIsReady
  <2>4. Scope(op[i].id, op[i].as) \notin destroyed' \ strayed'
    BY <1>1, <2>1 DEF WriteIsReady
  <2> QED
    BY <2>2, <2>3, <2>4 DEF WriteIsReady, Scope
<1>5. ErasureIsReady(i)'
  <2> SUFFICES ASSUME Erasing(i)' PROVE ErasureIsReady(i)'
    BY DEF ErasureIsReady
  <2>1. Erasing(i) /\ op[i].reach \subseteq Scopes
    <3>1. Erasing(i)
      BY DEF Erasing
    <3> QED
      BY <3>1, InvParts, OpKinds DEF Erasures
  <2>2. \A s \in op[i].reach : s[1] \in op[i].ids /\ Fits(s[1], s[2], current[s[1]])'
    <3> SUFFICES ASSUME NEW s \in op[i].reach
                 PROVE  s[1] \in op[i].ids /\ Fits(s[1], s[2], current[s[1]])'
      OBVIOUS
    <3>1. s[1] \in Ids /\ s[2] \in Nat
      BY <2>1 DEF Scopes
    <3> QED
      BY <1>1, <1>2, <1>3, <2>1, <3>1 DEF ErasureIsReady, Fits
  <2>3. WrittenOf(Reached(op[i].verb, op[i].ids))' \subseteq op[i].reach \cup strayed'
    <3> SUFFICES ASSUME NEW s, s \in WrittenOf(Reached(op[i].verb, op[i].ids))', s \notin strayed'
                 PROVE  s \in op[i].reach
      OBVIOUS
    <3>1. /\ s \in written /\ s[1] \in Ids /\ current'[s[1]] > 0
          /\ op[i].verb = "forget" => s[1] \in op[i].ids
      BY DEF WrittenOf, Reached
    <3>2. s[1] \notin forgotten
      BY <1>2, <1>3, <3>1 DEF StoreOK
    <3>3. s[2] \in Nat \ {0} /\ s[2] <= current[s[1]]
      BY <3>1, <3>2, InvParts DEF WritesFit, Fits, TypeOK, Scopes
    <3>4. current[s[1]] > 0
      BY <1>3, <3>1, <3>3
    <3>5. s \in WrittenOf(Reached(op[i].verb, op[i].ids))
      BY <3>1, <3>4 DEF WrittenOf, Reached
    <3> QED
      BY <1>1, <2>1, <3>5 DEF ErasureIsReady
  <2> QED
    BY <1>1, <1>2, <2>1, <2>2, <2>3 DEF ErasureIsReady
<1>6. SettlementIsReady(i)'
  <2> SUFFICES ASSUME Settling(i)' PROVE SettlementIsReady(i)'
    BY DEF SettlementIsReady
  <2>1. Settling(i) /\ op[i].reach \subseteq Scopes /\ op[i].trimmed \subseteq Scopes
    <3>1. Settling(i)
      BY DEF Settling
    <3> QED
      BY <3>1, InvParts, OpKinds DEF Settlements
  <2>2. \A s \in op[i].reach \cup op[i].trimmed : Gone(s)'
    BY <1>1, <1>2, <2>1 DEF SettlementIsReady
  <2>3. op[i].reach \subseteq destroyed' \cup ToSet(owed[i]) \cup op[i].trimmed
    BY <1>1, <2>1 DEF SettlementIsReady
  <2> QED
    BY <1>1, <2>1, <2>2, <2>3 DEF SettlementIsReady
<1> QED
  BY <1>4, <1>5, <1>6

\* What is promised or owed stays gone while the store moves on.
LEMMA DebtsStayGone ==
    ASSUME MemoryInv, Advances,
           \A s \in promised' : s \in promised \/ Gone(s)',
           \A i \in Instances : \A s \in ToSet(owed'[i]) : s \in ToSet(owed[i]) \/ Gone(s)'
    PROVE  DebtsAreGone'
<1>1. \A s \in promised : s \in Scopes
  BY InvParts DEF TypeOK
<1>2. \A i \in Instances : \A s \in ToSet(owed[i]) : s \in Scopes
  BY InvParts DEF TypeOK, ToSet
<1> QED
  BY <1>1, <1>2, InvParts DEF DebtsAreGone, Advances

\* What was written and what is still to land stays below the next version.
LEMMA WritesStayFit ==
    ASSUME MemoryInv, Advances, stray' \subseteq stray,
           \A s \in written' : s \in written \/ Fits(s[1], s[2], current[s[1]])'
    PROVE  WritesFit'
<1>1. \A id \in Ids : current[id] \in Nat /\ current'[id] \in Nat
  BY InvParts DEF StoreOK, Advances
<1>2. ASSUME NEW s \in written PROVE Fits(s[1], s[2], current[s[1]])'
  <2>1. s[1] \in Ids /\ s[2] \in Nat
    BY InvParts DEF TypeOK, Scopes
  <2> QED
    BY <1>1, <2>1, InvParts DEF WritesFit, Fits, Advances
<1>3. ASSUME NEW call \in stray, call.kind = "store"
      PROVE  Fits(call.item.id, call.item.as, current[call.item.id] + 1)'
  <2>1. call.item \in Items
    BY <1>3, InvParts DEF TypeOK, Calls
  <2>2. call.item.id \in Ids /\ call.item.as \in Nat
    BY <2>1 DEF Items
  <2>3. Fits(call.item.id, call.item.as, current[call.item.id] + 1)
    BY <1>3, InvParts DEF WritesFit
  <2>4. call.item.id \in forgotten' \/ current[call.item.id] <= current'[call.item.id]
    BY <2>2 DEF Advances
  <2> QED
    BY <1>1, <2>2, <2>3, <2>4 DEF Fits, Advances
<1> QED
  BY <1>2, <1>3 DEF WritesFit

\* A row that is added is known, and its lineage leads back to what it absorbed.
LEMMA InsertKeeps ==
    ASSUME MemoryInv, NEW item \in Items, NEW new, Inserts(item, new), Stored(item), rows' # rows,
           UNCHANGED cascaded
    PROVE  LineageIsKept' /\ CascadeReaches' /\ RowsAreWritten' /\ (cascaded \subseteq forgotten)'
<1>1. /\ new.id = item.id /\ new.as = item.as /\ new.version = current[item.id] + 1
      /\ rows' = rows \cup {new} /\ forgotten' = forgotten
      /\ edges' = edges \cup {<<s[1], s[2], item.id, new.version>> : s \in item.from}
      /\ \A x \in new.absorbed : \E r \in rows :
            Scope(r.id, r.version) \in item.from /\ (x = r.id \/ x \in r.absorbed)
  BY DEF Inserts
<1>2. ASSUME NEW row \in rows, NEW x \in row.absorbed, NEW S \in SUBSET Derived', TakesIn(x, S)'
      PROVE  Scope(row.id, row.version) \in S
  <2> DEFINE S0 == S \cap Derived
  <2>1. TakesIn(x, S0)
    <3> SUFFICES ASSUME NEW e \in edges, e[1] = x \/ Scope(e[1], e[2]) \in S0
                 PROVE  Scope(e[3], e[4]) \in S0
      BY DEF TakesIn
    <3>1. Scope(e[3], e[4]) \in Derived /\ e \in edges'
      BY <1>1 DEF Derived
    <3> QED
      BY <1>2, <3>1 DEF TakesIn, Scope
  <2>2. S0 \in SUBSET Derived
    OBVIOUS
  <2> HIDE DEF S0
  <2>3. Scope(row.id, row.version) \in S0
    BY <2>1, <2>2, InvParts DEF LineageIsKept
  <2> QED
    BY <2>3 DEF S0
<1>3. ASSUME NEW x \in new.absorbed, NEW S \in SUBSET Derived', TakesIn(x, S)'
      PROVE  Scope(new.id, new.version) \in S
  <2>1. PICK r \in rows : Scope(r.id, r.version) \in item.from /\ (x = r.id \/ x \in r.absorbed)
    BY <1>1
  <2>2. PICK e : e = <<r.id, r.version, new.id, new.version>>
    OBVIOUS
  <2>3. e \in edges' /\ e[1] = r.id /\ Scope(e[1], e[2]) = Scope(r.id, r.version)
        /\ Scope(e[3], e[4]) = Scope(new.id, new.version)
    BY <1>1, <2>1, <2>2 DEF Scope
  <2>4. x = r.id \/ Scope(r.id, r.version) \in S
    BY <1>2, <1>3, <2>1
  <2> QED
    BY <1>3, <2>3, <2>4 DEF TakesIn, Scope
<1>4. LineageIsKept'
  BY <1>1, <1>2, <1>3 DEF LineageIsKept, Scope
<1>5. CascadeReaches'
  <2> SUFFICES ASSUME NEW x \in new.absorbed PROVE x \notin cascaded
    BY <1>1, InvParts DEF CascadeReaches
  <2>1. PICK r \in rows : x = r.id \/ x \in r.absorbed
    BY <1>1
  <2>2. r.id \notin forgotten
    BY InvParts DEF StoreOK, Rows
  <2> QED
    BY <2>1, <2>2, InvParts DEF CascadeReaches
<1>6. RowsAreWritten'
  BY <1>1, InvParts, ZenonT(30) DEF RowsAreWritten, Stored, SealedTo, Scope
<1> QED
  BY <1>1, <1>4, <1>5, <1>6, InvParts


\* A write is carried out, or refused by the store.
LEMMA WriteKeeps ==
    ASSUME MemoryInv, NEW item \in Items, InnerRemember(item), Stored(item),
           Fits(item.id, item.as, current[item.id] + 1),
           UNCHANGED <<destroyed, owed, promised, asked, cascaded, lost, untracked>>,
           strayed \subseteq strayed', stray' \subseteq stray,
           op' \in [Instances -> Writes \cup Erasures \cup Settlements \cup {None}],
           OneAtATime', OpsAreReady',
           \A j \in Instances : Settling(j) => op'[j] = op[j],
           item.id \notin forgotten =>
              /\ Scope(item.id, item.as) \in destroyed => Scope(item.id, item.as) \in strayed'
              /\ item.as # current[item.id] + 1 => \E s \in strayed' : s[1] = item.id
    PROVE  MemoryInv'
<1>1. Advances /\ (rows' = rows => UNCHANGED store)
  BY InvParts, RememberEffect
<1>2. /\ \A s \in written' : s \in written \/ (rows' # rows /\ s = Scope(item.id, item.as))
      /\ written \subseteq written' /\ displaced \subseteq displaced'
      /\ rows' = rows => written' = written /\ displaced' = displaced
  BY DEF Stored
<1>3. item.id \in Ids /\ item.as \in Nat \ {0} /\ current[item.id] \in Nat
  BY InvParts DEF Items, StoreOK
<1>4. TypeOK'
  <2>1. Scope(item.id, item.as) \in Scopes
    BY <1>3 DEF Scope, Scopes
  <2> QED
    BY <1>1, <1>2, <2>1, InvParts DEF TypeOK, Advances
<1>5. DebtsAreGone'
  BY <1>1, DebtsStayGone
<1>6. ASSUME NEW s \in written, \A row \in rows : SealedTo(row) # s PROVE Tracked(s)'
  <2>1. Tracked(s)
    BY <1>6, InvParts, TrackedIff
  <2>2. CASE \E j \in Instances : Settling(j) /\ s \in op[j].trimmed
    BY <2>2 DEF Tracked, Settling
  <2> QED
    BY <1>2, <2>1, <2>2 DEF Tracked
<1>7. CASE rows' = rows
  <2>1. UNCHANGED <<rows, current, edges, forgotten, held, written, displaced>>
    BY <1>1, <1>2, <1>7 DEF store
  <2>2. DebtsAreTracked'
    BY <1>6, <2>1, TrackedIff
  <2>3. KeptIsReadable'
    BY <2>1, InvParts DEF KeptIsReadable, SealedTo
  <2>4. /\ \A j \in Instances : \A s \in ToSet(owed'[j]) : Gone(s)
        /\ \A s \in promised' : Gone(s) /\ s \in destroyed'
        /\ \A call \in stray' : call.kind = "store" => Fits(call.item.id, call.item.as, current[call.item.id] + 1)
    BY InvParts, PromisesKept DEF DebtsAreGone, WritesFit
  <2> QED
    BY <1>4, <2>1, <2>2, <2>3, <2>4, QuietKeeps
<1>8. CASE rows' # rows
  <2>1. PICK new : Inserts(item, new)
    BY <1>8, InvParts, InsertEffect
  <2>2. LineageIsKept' /\ CascadeReaches' /\ RowsAreWritten' /\ (cascaded \subseteq forgotten)'
    BY <1>8, <2>1, InsertKeeps
  <2>3. /\ rows' = rows \cup {new} /\ SealedTo(new) = Scope(item.id, item.as) /\ new.id = item.id
        /\ new.as = item.as /\ new.version = current[item.id] + 1 /\ item.id \notin forgotten
        /\ current'[item.id] = current[item.id] + 1 /\ forgotten' = forgotten
    BY <2>1 DEF Inserts, SealedTo
  <2>4. WritesFit'
    <3>1. Fits(item.id, item.as, current[item.id])'
      BY <2>3 DEF Fits
    <3>2. Scope(item.id, item.as)[1] = item.id /\ Scope(item.id, item.as)[2] = item.as
      BY DEF Scope
    <3>3. \A s \in written' : s \in written \/ Fits(s[1], s[2], current[s[1]])'
      BY <1>2, <3>1, <3>2 DEF Fits
    <3> QED
      BY <1>1, <3>3, WritesStayFit
  <2>5. DebtsAreTracked'
    <3> SUFFICES ASSUME NEW s \in written', \A row \in rows' : SealedTo(row) # s
                 PROVE  Tracked(s)'
      BY TrackedIff
    <3>1. s \in written /\ \A row \in rows : SealedTo(row) # s
      BY <1>2, <2>3
    <3> QED
      BY <1>6, <3>1
  <2>6. KeptIsReadable'
    <3>1. \A row \in rows :
            /\ row.as = row.version /\ SealedTo(row) \in destroyed => row.id \in asked \/ SealedTo(row) \in strayed'
            /\ row.as # row.version => \E s \in strayed' : s[1] = row.id
      BY InvParts DEF KeptIsReadable
    <3>2. SealedTo(new) \in destroyed => SealedTo(new) \in strayed'
      BY <2>3
    <3>3. new.as # new.version => \E s \in strayed' : s[1] = new.id
      BY <2>3
    <3> QED
      BY <2>3, <3>1, <3>2, <3>3 DEF KeptIsReadable, SealedTo
  <2> QED
    BY <1>4, <1>5, <2>2, <2>4, <2>5, <2>6, InvParts DEF MemoryInv
<1> QED
  BY <1>7, <1>8

\* Nothing runs after an operation of the only holder ends.
LEMMA NothingRuns ==
    ASSUME MemoryInv, NEW i \in Instances, op[i] # None, Done(i)
    PROVE  /\ \A j \in Instances : op'[j] = None /\ (j # i => op[j] = None)
           /\ op' \in [Instances -> Writes \cup Erasures \cup Settlements \cup {None}]
           /\ OneAtATime' /\ OpsAreReady'
<1>1. \A j \in Instances : op'[j] = None /\ (j # i => op[j] = None)
  BY InvParts DEF OneAtATime, TypeOK, Done
<1>2. op' \in [Instances -> Writes \cup Erasures \cup Settlements \cup {None}]
  BY InvParts DEF TypeOK, Done
<1>3. OneAtATime'
  BY <1>1 DEF OneAtATime
<1>4. OpsAreReady'
  BY <1>1 DEF OpsAreReady, WriteIsReady, ErasureIsReady, SettlementIsReady, Remembering, Erasing, Settling
<1> QED
  BY <1>1, <1>2, <1>3, <1>4

LEMMA StoreKeeps ==
    ASSUME MemoryInv, NEW i \in Instances, Store(i)
    PROVE  MemoryInv'
<1>1. PICK item \in Items : item = Item(i)
  BY CallsLeft DEF Store
<1>2. /\ Remembering(i) /\ op[i] # None /\ op[i].verb = "remember" /\ InnerRemember(item) /\ Stored(item) /\ Done(i)
      /\ UNCHANGED <<destroyed, owed, stray, faults, promised, asked, cascaded, strayed, lost, untracked>>
  BY <1>1 DEF Store, Remembering
<1>3. item.id = op[i].id /\ item.as = op[i].as
  BY <1>1 DEF Item
<1>4. WriteIsReady(i)
  BY InvParts DEF OpsAreReady
<1>5. /\ Fits(item.id, item.as, current[item.id] + 1)
      /\ item.id \notin forgotten =>
              /\ Scope(item.id, item.as) \in destroyed => Scope(item.id, item.as) \in strayed'
              /\ item.as # current[item.id] + 1 => \E s \in strayed' : s[1] = item.id
  BY <1>2, <1>3, <1>4 DEF WriteIsReady
<1>6. \A j \in Instances : ~Settling(j)
  BY <1>2, NothingRuns DEF Settling
<1> QED
  BY <1>2, <1>5, <1>6, NothingRuns, WriteKeeps

\* A write of which the caller gave up lands.
LEMMA LandStoreKeeps ==
    ASSUME MemoryInv, NEW call \in stray, Land(call), call.kind = "store"
    PROVE  MemoryInv'
<1>1. call.item \in Items
  BY InvParts DEF TypeOK, Calls
<1>2. PICK item \in Items : item = call.item
  BY <1>1
<1>3. /\ stray' = stray \ {call} /\ InnerRemember(item) /\ Stored(item)
      /\ strayed' = strayed \cup {Scope(item.id, item.as)}
      /\ UNCHANGED <<destroyed, lost, owed, op, faults, promised, asked, cascaded, untracked>>
  BY <1>2 DEF Land
<1>4. Fits(item.id, item.as, current[item.id] + 1)
  BY <1>2, InvParts DEF WritesFit
<1>5. Advances /\ (rows' = rows => UNCHANGED store)
  BY <1>3, InvParts, RememberEffect
<1>6. Scope(item.id, item.as)[1] = item.id /\ item.id \in Ids
  BY DEF Scope, Items
<1>7. \A id \in Ids : current'[id] = current[id] \/ id \in forgotten' \/ \E s \in strayed' : s[1] = id
  <2>1. CASE rows' = rows
    BY <1>5, <2>1 DEF store
  <2>2. CASE rows' # rows
    <3>1. PICK new : Inserts(item, new)
      BY <1>3, <2>2, InvParts, InsertEffect
    <3> QED
      BY <1>3, <1>6, <3>1 DEF Inserts
  <2> QED
    BY <2>1, <2>2
<1>8. \A s \in written' : s \in written \/ s \in strayed'
  BY <1>3 DEF Stored
<1>9. OpsAreReady'
  BY <1>3, <1>5, <1>7, <1>8, OpsKeep
<1>10. OneAtATime' /\ op' \in [Instances -> Writes \cup Erasures \cup Settlements \cup {None}]
  BY <1>3, InvParts DEF OneAtATime, TypeOK
<1>11. \E s \in strayed' : s[1] = item.id
  BY <1>3, <1>6
<1> QED
  BY <1>3, <1>4, <1>9, <1>10, <1>11, WriteKeeps

\* A destruction of which the caller gave up lands.
LEMMA LandDestroyKeeps ==
    ASSUME MemoryInv, NEW call \in stray, Land(call), call.kind = "destroy"
    PROVE  MemoryInv'
<1>1. PICK k \in Scopes : k = call.scope
  BY InvParts DEF TypeOK, Calls
<1>2. /\ stray' = stray \ {call} /\ destroyed' = destroyed \cup {k} /\ strayed' = strayed \cup {k}
      /\ UNCHANGED <<store, written, displaced, lost, owed, op, faults, promised, asked, cascaded, untracked>>
  BY <1>1 DEF Land
<1>3. StoreOK'
  BY <1>2, InvParts DEF StoreOK, store
<1>4. TypeOK' /\ OneAtATime'
  BY <1>2, <1>3, InvParts DEF TypeOK, OneAtATime
<1>5. Advances
  BY <1>2, <1>3, InvParts DEF Advances, Gone, store, StoreOK
<1>6. OpsAreReady'
  BY <1>2, <1>5, OpsKeep DEF store
<1>7. DebtsAreTracked'
  <2> SUFFICES ASSUME NEW s \in written, \A row \in rows : SealedTo(row) # s
               PROVE  Tracked(s)'
    BY <1>2, TrackedIff DEF store, SealedTo
  <2>1. Tracked(s)
    BY InvParts, TrackedIff
  <2> QED
    BY <1>2, <2>1 DEF Tracked, Settling
<1>8. KeptIsReadable'
  BY <1>2, InvParts DEF KeptIsReadable, SealedTo, store
<1>9. /\ \A j \in Instances : \A s \in ToSet(owed'[j]) : Gone(s)
      /\ \A s \in promised' : Gone(s) /\ s \in destroyed'
      /\ \A c \in stray' : c.kind = "store" => Fits(c.item.id, c.item.as, current[c.item.id] + 1)
  BY <1>2, InvParts, PromisesKept DEF DebtsAreGone, WritesFit
<1> QED
  BY <1>2, <1>4, <1>6, <1>7, <1>8, <1>9, QuietKeeps DEF store


LEMMA ConcatFacts ==
    ASSUME NEW p \in Seq(Scopes), NEW q \in Seq(Scopes)
    PROVE  p \o q \in Seq(Scopes) /\ ToSet(p \o q) = ToSet(p) \cup ToSet(q)
<1>1. PICK m \in Nat : m = Len(p)
  OBVIOUS
<1>2. PICK n \in Nat : n = Len(q)
  OBVIOUS
<1>3. /\ p \o q \in Seq(Scopes) /\ DOMAIN (p \o q) = 1 .. m + n /\ DOMAIN p = 1 .. m /\ DOMAIN q = 1 .. n
      /\ \A k \in 1 .. m + n : (p \o q)[k] = IF k <= m THEN p[k] ELSE q[k - m]
  BY <1>1, <1>2
<1>4. ToSet(p \o q) \subseteq ToSet(p) \cup ToSet(q)
  <2> SUFFICES ASSUME NEW k \in 1 .. m + n PROVE (p \o q)[k] \in ToSet(p) \cup ToSet(q)
    BY <1>3 DEF ToSet
  <2>1. CASE k <= m
    <3>1. k \in 1 .. m
      BY <2>1
    <3> QED
      BY <1>3, <2>1, <3>1 DEF ToSet
  <2>2. CASE ~(k <= m)
    <3>1. k - m \in 1 .. n
      BY <2>2
    <3> QED
      BY <1>3, <2>2, <3>1 DEF ToSet
  <2> QED
    BY <2>1, <2>2
<1>5. ToSet(p) \subseteq ToSet(p \o q)
  BY <1>3 DEF ToSet
<1>6. ToSet(q) \subseteq ToSet(p \o q)
  <2> SUFFICES ASSUME NEW k \in 1 .. n PROVE q[k] \in ToSet(p \o q)
    BY <1>3 DEF ToSet
  <2>1. k + m \in 1 .. m + n /\ ~(k + m <= m) /\ k + m - m = k
    OBVIOUS
  <2>2. (p \o q)[k + m] = q[k]
    BY <1>3, <2>1
  <2> QED
    BY <1>3, <2>1, <2>2 DEF ToSet
<1> QED
  BY <1>3, <1>4, <1>5, <1>6

\* Rows go: the erasure of their keys is done, owed, or known to be lost.
LEMMA DropKeeps ==
    ASSUME MemoryInv, NEW ids \in SUBSET Ids, NEW trimmed \in SUBSET Scopes, NEW cut,
           Advances, Drops(ids, trimmed, cut),
           UNCHANGED <<destroyed, written, strayed, displaced>>,
           stray' \subseteq stray, asked \ ids \subseteq asked',
           op' \in [Instances -> Writes \cup Erasures \cup Settlements \cup {None}],
           owed' \in [Instances -> Seq(Scopes)],
           OneAtATime', OpsAreReady',
           \A s \in promised' : s \in promised \/ (Gone(s)' /\ s \in destroyed),
           \A i \in Instances : \A s \in ToSet(owed'[i]) : s \in ToSet(owed[i]) \/ Gone(s)',
           \A s \in written : Tracked(s) \/ s \in WrittenOf(ids) \cup trimmed => Tracked(s)',
           (cascaded \subseteq forgotten)', LineageIsKept', CascadeReaches'
    PROVE  MemoryInv'
<1>1. TypeOK'
  BY InvParts DEF TypeOK, Advances
<1>2. DebtsAreGone' /\ WritesFit'
  BY DebtsStayGone, WritesStayFit
<1>3. \A row \in rows' : row \in rows /\ row.id \notin ids
  BY DEF Drops
<1>4. RowsAreWritten'
  BY <1>3, InvParts DEF RowsAreWritten, SealedTo
<1>5. KeptIsReadable'
  BY <1>3, InvParts DEF KeptIsReadable, SealedTo
<1>6. DebtsAreTracked'
  <2> SUFFICES ASSUME NEW s \in written, \A row \in rows' : SealedTo(row) # s
               PROVE  Tracked(s)'
    BY TrackedIff
  <2>1. CASE \A row \in rows : SealedTo(row) # s
    BY <2>1, InvParts, TrackedIff
  <2>2. CASE \E row \in rows : SealedTo(row) = s
    <3>1. PICK row \in rows : SealedTo(row) = s
      BY <2>2
    <3>2. row.id \in ids \/ Scope(row.id, row.version) \in trimmed
      BY <3>1 DEF Drops
    <3>3. CASE row.id \in ids
      <4>1. s[1] = row.id
        BY <3>1 DEF SealedTo, Scope
      <4>2. row.version \in Nat \ {0} /\ row.version <= current[row.id] /\ current[row.id] \in Nat
        BY InvParts DEF StoreOK, Rows
      <4>3. s \in WrittenOf(ids)
        BY <3>3, <4>1, <4>2 DEF WrittenOf
      <4> QED
        BY <4>3
    <3>4. CASE Scope(row.id, row.version) \in trimmed
      <4>1. CASE row.as = row.version
        BY <3>1, <3>4, <4>1 DEF SealedTo
      <4>2. CASE row.as # row.version
        <5>1. s \in displaced
          BY <3>1, <4>2, InvParts DEF RowsAreWritten
        <5> QED
          BY <5>1 DEF Tracked
      <4> QED
        BY <4>1, <4>2
    <3> QED
      BY <3>2, <3>3, <3>4
  <2> QED
    BY <2>1, <2>2
<1>7. (promised \subseteq destroyed)'
  BY InvParts
<1> QED
  BY <1>1, <1>2, <1>4, <1>5, <1>6, <1>7 DEF MemoryInv

\* Lineage stays while rows go and no edge is cut, and where no row stays.
LEMMA UncutLineage ==
    ASSUME MemoryInv, NEW ids, NEW trimmed, NEW cut, Drops(ids, trimmed, cut), UNCHANGED cascaded,
           edges \cap cut = {} \/ rows' = {}
    PROVE  LineageIsKept' /\ CascadeReaches' /\ (cascaded \subseteq forgotten)'
<1>1. forgotten \subseteq forgotten' /\ rows' \subseteq rows /\ (rows' # {} => edges' = edges)
  BY DEF Drops
<1>2. CascadeReaches' /\ (cascaded \subseteq forgotten)'
  BY <1>1, InvParts DEF CascadeReaches
<1>3. LineageIsKept'
  <2>1. CASE rows' = {}
    BY <2>1 DEF LineageIsKept
  <2>2. CASE edges' = edges
    BY <1>1, <2>2, InvParts DEF LineageIsKept, TakesIn, Derived, Scope
  <2> QED
    BY <1>1, <2>1, <2>2
<1> QED
  BY <1>2, <1>3


\* The lineage of what a cascade leaves does not go through what it took, and
\* what it leaves absorbed nothing it was run from.
LEMMA CascadeLineage ==
    ASSUME MemoryInv, NEW id \in Ids, NEW doomed, doomed = Cascade(id),
           NEW trimmed, NEW cut,
           cut = {e \in edges : Doomed(e[1], e[2], doomed) \/ Doomed(e[3], e[4], doomed)},
           Drops(doomed.ids, trimmed, cut), cascaded' = cascaded \cup {id},
           \A row \in rows : Scope(row.id, row.version) \in doomed.versions /\ row.id \notin doomed.ids
                                => Scope(row.id, row.version) \in trimmed
    PROVE  LineageIsKept' /\ CascadeReaches' /\ (cascaded \subseteq forgotten)'
<1>1. /\ id \in doomed.ids
      /\ \A e \in edges : Doomed(e[1], e[2], doomed) => Doomed(e[3], e[4], doomed)
  BY InvParts, CascadeFacts
<1>2. \A row \in rows' : row \in rows /\ ~Doomed(row.id, row.version, doomed)
  BY DEF Drops, Doomed
<1>3. PICK taken : taken = {d \in Derived : Doomed(d[1], d[2], doomed)}
  OBVIOUS
<1>4. \A e \in edges : Doomed(e[3], e[4], doomed) => Scope(e[3], e[4]) \in taken
  <2> SUFFICES ASSUME NEW e \in edges, Doomed(e[3], e[4], doomed) PROVE Scope(e[3], e[4]) \in taken
    OBVIOUS
  <2>1. Scope(e[3], e[4]) \in Derived /\ Scope(e[3], e[4])[1] = e[3] /\ Scope(e[3], e[4])[2] = e[4]
    BY DEF Derived, Scope
  <2> QED
    BY <1>3, <2>1
<1>5. \A x, v : Scope(x, v) \in taken => Doomed(x, v, doomed)
  BY <1>3 DEF Scope
<1>6. edges' \subseteq edges /\ \A e \in edges : ~Doomed(e[3], e[4], doomed) => e \in edges'
  BY <1>1 DEF Drops
<1>7. LineageIsKept'
  <2> SUFFICES ASSUME NEW row \in rows', NEW x \in row.absorbed, NEW S \in SUBSET Derived', TakesIn(x, S)'
               PROVE  Scope(row.id, row.version) \in S
    BY DEF LineageIsKept, Scope
  <2>1. PICK T : T = S \cup taken
    OBVIOUS
  <2>2. T \in SUBSET Derived
    BY <1>3, <1>6, <2>1 DEF Derived, Scope
  <2>3. TakesIn(x, T)
    <3> SUFFICES ASSUME NEW e \in edges, e[1] = x \/ Scope(e[1], e[2]) \in T, ~Doomed(e[3], e[4], doomed)
                 PROVE  Scope(e[3], e[4]) \in S
      BY <1>4, <2>1 DEF TakesIn
    <3>1. e \in edges' /\ ~Doomed(e[1], e[2], doomed)
      BY <1>1, <1>6
    <3>2. e[1] = x \/ Scope(e[1], e[2]) \in S
      BY <1>5, <2>1, <3>1
    <3> QED
      BY <3>1, <3>2 DEF TakesIn, Scope
  <2>4. Scope(row.id, row.version) \in T
    BY <1>2, <2>2, <2>3, InvParts DEF LineageIsKept
  <2> QED
    BY <1>2, <1>5, <2>1, <2>4
<1>8. CascadeReaches'
  <2> SUFFICES ASSUME NEW row \in rows', id \in row.absorbed PROVE FALSE
    BY <1>2, InvParts DEF CascadeReaches
  <2>1. TakesIn(id, taken)
    <3> SUFFICES ASSUME NEW e \in edges, e[1] = id \/ Scope(e[1], e[2]) \in taken
                 PROVE  Scope(e[3], e[4]) \in taken
      BY DEF TakesIn
    <3>1. Doomed(e[1], e[2], doomed)
      BY <1>1, <1>5 DEF Doomed
    <3> QED
      BY <1>1, <1>4, <3>1
  <2>2. taken \in SUBSET Derived
    BY <1>3
  <2>3. Scope(row.id, row.version) \in taken
    BY <1>2, <2>1, <2>2, InvParts DEF LineageIsKept
  <2> QED
    BY <1>2, <1>5, <2>3
<1>9. (cascaded \subseteq forgotten)'
  BY <1>1, InvParts DEF Drops
<1> QED
  BY <1>7, <1>8, <1>9

\* The rows went first: their keys are owed, or nobody heard of it.
LEMMA RowsFirstKeeps ==
    ASSUME MemoryInv, NEW i \in Instances, NEW ids \in SUBSET Ids, NEW trimmed \in SUBSET Scopes, NEW cut,
           \A s \in trimmed : /\ current[s[1]] # s[2] /\ s[1] \notin ids
                              /\ \E row \in rows : Scope(row.id, row.version) = s,
           RowsFirst(i, ids, trimmed, cut),
           Drops(ids, trimmed, cut) => LineageIsKept' /\ CascadeReaches' /\ (cascaded \subseteq forgotten)'
    PROVE  MemoryInv'
<1>1. PICK erased : erased = EveryVersion(ids)
  OBVIOUS
<1>2. PICK gone : gone = WrittenOf(ids) \cup trimmed
  OBVIOUS
<1>3. /\ ids \cap held = {} /\ Removed(ids, trimmed, cut)
      /\ \/ /\ LockFree(i)
            /\ owed' = [owed EXCEPT ![i] = @ \o SetToSeq(erased)]
            /\ op' = [op EXCEPT ![i] = [verb |-> "settle", trimmed |-> trimmed, reach |-> gone]]
            /\ UNCHANGED <<faults, lost>>
         \/ /\ Faulty
            /\ lost' = lost \cup gone
            /\ UNCHANGED <<owed, op>>
      /\ UNCHANGED <<destroyed, stray, written, promised, asked, strayed, displaced, untracked>>
  BY <1>1, <1>2 DEF RowsFirst
<1>4. Advances /\ Drops(ids, trimmed, cut)
  BY <1>3, InvParts, RemovedEffect
<1>5. /\ erased \subseteq Scopes /\ IsFiniteSet(erased) /\ WrittenOf(ids) \subseteq erased
      /\ \A s \in erased : s[1] \in ids
  BY <1>1, InvParts, VersionFacts, WrittenInVersions
<1>6. \A s \in trimmed : s \in EveryVersion(Ids)
  <2> SUFFICES ASSUME NEW s \in trimmed PROVE s \in EveryVersion(Ids)
    OBVIOUS
  <2>1. PICK row \in rows : Scope(row.id, row.version) = s
    OBVIOUS
  <2>2. s[1] \in Ids /\ s[2] <= current[s[1]]
    BY <2>1, InvParts DEF StoreOK, Rows, Scope
  <2> QED
    BY <2>2, InvParts, VersionFacts
<1>7. IsFiniteSet(trimmed)
  <2>1. IsFiniteSet(EveryVersion(Ids)) /\ trimmed \subseteq EveryVersion(Ids)
    BY <1>6, InvParts, VersionFacts
  <2> QED
    BY <2>1, FS_Subset
<1>8. \A s \in erased : Gone(s)'
  BY <1>4, <1>5 DEF Drops, Gone
<1>9. \A s \in trimmed : Gone(s)'
  <2> SUFFICES ASSUME NEW s \in trimmed PROVE Gone(s)'
    OBVIOUS
  <2>1. s[1] \in Ids /\ s[2] <= current[s[1]]
    BY <1>6, InvParts, VersionFacts DEF Scopes
  <2>2. current'[s[1]] = current[s[1]]
    BY <1>4, <2>1 DEF Drops
  <2>3. \A row \in rows' : Scope(row.id, row.version) # s
    BY <1>4 DEF Drops
  <2> QED
    BY <2>1, <2>2, <2>3 DEF Gone, Scope
<1>10. CASE LockFree(i) /\ owed' = [owed EXCEPT ![i] = @ \o SetToSeq(erased)]
            /\ op' = [op EXCEPT ![i] = [verb |-> "settle", trimmed |-> trimmed, reach |-> gone]]
            /\ UNCHANGED <<faults, lost>>
  <2>1. SetToSeq(erased) \in Seq(Scopes) /\ ToSet(SetToSeq(erased)) = erased
    BY <1>5, SetToSeqFacts
  <2>2. PICK q : q = owed[i] \o SetToSeq(erased)
    OBVIOUS
  <2>3. owed[i] \in Seq(Scopes) /\ owed \in [Instances -> Seq(Scopes)]
    BY InvParts DEF TypeOK
  <2>4. q \in Seq(Scopes) /\ ToSet(q) = ToSet(owed[i]) \cup erased
    BY <2>1, <2>2, <2>3, ConcatFacts
  <2>5. owed' = [owed EXCEPT ![i] = q]
    BY <1>10, <2>2
  <2>6. owed' \in [Instances -> Seq(Scopes)] /\ owed'[i] = q /\ \A j \in Instances \ {i} : owed'[j] = owed[j]
    BY <2>3, <2>4, <2>5
  <2>7. PICK t : t = [verb |-> "settle", trimmed |-> trimmed, reach |-> gone]
    OBVIOUS
  <2>8. t \in Settlements /\ t.trimmed = trimmed /\ t.reach = gone /\ t.verb = "settle"
    <3>1. gone \subseteq Scopes
      BY <1>2, <1>5
    <3> QED
      BY <2>7, <3>1 DEF Settlements
  <2>9. t # None
    BY <2>8, MemoryAssumption
  <2>10. op' = [op EXCEPT ![i] = t]
    BY <1>10, <2>7
  <2>11. OneAtATime' /\ op'[i] = t /\ \A j \in Instances \ {i} : op[j] = None /\ op'[j] = None
    BY <1>10, <2>10, InvParts, Alone
  <2>12. op' \in [Instances -> Writes \cup Erasures \cup Settlements \cup {None}]
    BY <2>8, <2>10, InvParts DEF TypeOK
  <2>13. OpsAreReady'
    <3>1. SettlementIsReady(i)'
      <4>1. \A s \in gone \cup trimmed : Gone(s)'
        BY <1>2, <1>5, <1>8, <1>9
      <4>2. gone \subseteq destroyed' \cup ToSet(owed'[i]) \cup trimmed
        BY <1>2, <1>5, <2>4, <2>6
      <4> QED
        BY <1>7, <2>8, <2>11, <4>1, <4>2 DEF SettlementIsReady
    <3>2. WriteIsReady(i)' /\ ErasureIsReady(i)'
      BY <2>8, <2>11 DEF WriteIsReady, ErasureIsReady, Remembering, Erasing
    <3> QED
      BY <2>11, <3>1, <3>2, HolderReady
  <2>14. \A s \in written : Tracked(s) \/ s \in WrittenOf(ids) \cup trimmed => Tracked(s)'
    <3> SUFFICES ASSUME NEW s \in written, Tracked(s) \/ s \in WrittenOf(ids) \cup trimmed PROVE Tracked(s)'
      OBVIOUS
    <3>1. CASE s \in WrittenOf(ids)
      BY <1>5, <2>4, <2>6, <3>1 DEF Tracked
    <3>2. CASE s \in trimmed
      <4>1. Settling(i)' /\ op'[i].trimmed = trimmed
        BY <2>8, <2>9, <2>11 DEF Settling
      <4> QED
        BY <3>2, <4>1 DEF Tracked
    <3>3. CASE Tracked(s)
      <4>1. \A j \in Instances : ~Settling(j)
        BY <1>10 DEF LockFree, Settling
      <4>2. \A j \in Instances : s \in ToSet(owed[j]) => s \in ToSet(owed'[j])
        BY <2>4, <2>6
      <4> QED
        BY <1>3, <1>10, <3>3, <4>1, <4>2 DEF Tracked
    <3> QED
      BY <3>1, <3>2, <3>3
  <2>15. \A j \in Instances : \A s \in ToSet(owed'[j]) : s \in ToSet(owed[j]) \/ Gone(s)'
    BY <1>8, <2>4, <2>6
  <2> QED
    BY <1>3, <1>4, <2>6, <2>11, <2>12, <2>13, <2>14, <2>15, DropKeeps
<1>11. CASE lost' = lost \cup gone /\ UNCHANGED <<owed, op>>
  <2>1. OpsAreReady'
    <3>1. \A id \in Ids : current'[id] = current[id] \/ id \in forgotten'
      BY <1>4 DEF Drops
    <3> QED
      BY <1>3, <1>4, <1>11, <3>1, OpsKeep
  <2>2. OneAtATime' /\ op' \in [Instances -> Writes \cup Erasures \cup Settlements \cup {None}]
        /\ owed' \in [Instances -> Seq(Scopes)]
    BY <1>11, InvParts DEF OneAtATime, TypeOK
  <2>3. \A s \in written : Tracked(s) \/ s \in WrittenOf(ids) \cup trimmed => Tracked(s)'
    BY <1>2, <1>3, <1>11 DEF Tracked, Settling
  <2> QED
    BY <1>3, <1>4, <1>11, <2>1, <2>2, <2>3, DropKeeps
<1> QED
  BY <1>3, <1>10, <1>11


\* Every row is of an id that is there.
LEMMA RowsAreCurrent ==
    ASSUME MemoryInv
    PROVE  \A row \in rows : row.id \in Current
BY InvParts DEF StoreOK, Rows, Current

LEMMA ForgetSubjectKeeps ==
    ASSUME MemoryInv, NEW i \in Instances, ForgetSubject(i)
    PROVE  MemoryInv'
<1>1. PICK ids \in SUBSET Ids : ids = Current
  BY DEF Current
<1>2. PICK cut : cut = {e \in edges : e[3] \in Current}
  OBVIOUS
<1>3. RowsFirst(i, ids, {}, cut) /\ UNCHANGED cascaded
  BY <1>1, <1>2 DEF ForgetSubject
<1>4. ASSUME Drops(ids, {}, cut) PROVE LineageIsKept' /\ CascadeReaches' /\ (cascaded \subseteq forgotten)'
  <2>1. rows' = {}
    BY <1>1, <1>4, RowsAreCurrent DEF Drops
  <2> QED
    BY <1>3, <1>4, <2>1, UncutLineage
<1> QED
  BY <1>3, <1>4, RowsFirstKeeps

LEMMA SweepExpiredKeeps ==
    ASSUME MemoryInv, NEW i \in Instances, NEW due \in SUBSET Ids, SweepExpired(i, due)
    PROVE  MemoryInv'
<1>1. RowsFirst(i, due, {}, {}) /\ UNCHANGED cascaded
  BY DEF SweepExpired
<1>2. ASSUME Drops(due, {}, {}) PROVE LineageIsKept' /\ CascadeReaches' /\ (cascaded \subseteq forgotten)'
  BY <1>1, <1>2, UncutLineage
<1> QED
  BY <1>1, <1>2, RowsFirstKeeps

LEMMA ForgetCascadingKeeps ==
    ASSUME MemoryInv, NEW i \in Instances, NEW id \in Ids, ForgetCascading(i, id)
    PROVE  MemoryInv'
<1>1. PICK doomed : doomed = Cascade(id)
  OBVIOUS
<1>2. PICK trimmed : trimmed = {s \in doomed.versions : s[1] \notin doomed.ids
                                    /\ \E row \in rows : Scope(row.id, row.version) = s}
  OBVIOUS
<1>3. PICK cut : cut = {e \in edges : Doomed(e[1], e[2], doomed) \/ Doomed(e[3], e[4], doomed)}
  OBVIOUS
<1>4. RowsFirst(i, doomed.ids, trimmed, cut) /\ cascaded' = cascaded \cup {id}
  BY <1>1, <1>2, <1>3 DEF ForgetCascading, Doomed
<1>5. /\ doomed.ids \in SUBSET Ids /\ doomed.versions \in SUBSET Scopes
      /\ \A s \in doomed.versions : current[s[1]] # s[2]
  BY <1>1, InvParts, CascadeFacts
<1>6. /\ trimmed \in SUBSET Scopes
      /\ \A s \in trimmed : /\ current[s[1]] # s[2] /\ s[1] \notin doomed.ids
                            /\ \E row \in rows : Scope(row.id, row.version) = s
  BY <1>2, <1>5
<1>7. \A row \in rows : Scope(row.id, row.version) \in doomed.versions /\ row.id \notin doomed.ids
                           => Scope(row.id, row.version) \in trimmed
  BY <1>2 DEF Scope
<1>8. ASSUME Drops(doomed.ids, trimmed, cut)
      PROVE  LineageIsKept' /\ CascadeReaches' /\ (cascaded \subseteq forgotten)'
  BY <1>1, <1>3, <1>4, <1>7, <1>8, CascadeLineage
<1> QED
  BY <1>4, <1>5, <1>6, <1>8, RowsFirstKeeps

\* What the store's forgetting does, by either verb.
LEMMA InnerForgetEffect ==
    ASSUME MemoryInv, NEW verb \in {"forget", "erase_subject"}, NEW asks, NEW ids,
           ids = Reached(verb, asks), ids \cap held = {}, InnerForget(verb, ids), UNCHANGED cascaded
    PROVE  \E cut :
              /\ ids \in SUBSET Ids /\ Advances /\ Drops(ids, {}, cut)
              /\ LineageIsKept' /\ CascadeReaches' /\ (cascaded \subseteq forgotten)'
<1>1. PICK cut : cut = {e \in edges : verb = "erase_subject" /\ e[3] \in ids}
  OBVIOUS
<1>2. ids \in SUBSET Ids /\ Removed(ids, {}, cut)
  BY <1>1 DEF Reached, InnerForget
<1>3. Advances /\ Drops(ids, {}, cut)
  BY <1>2, InvParts, RemovedEffect
<1>4. edges \cap cut = {} \/ rows' = {}
  <2>1. CASE verb = "forget"
    BY <1>1, <2>1
  <2>2. CASE verb = "erase_subject"
    <3>1. ids = Current
      BY <2>2 DEF Reached, Current
    <3> QED
      BY <1>3, <3>1, RowsAreCurrent DEF Drops
  <2> QED
    BY <2>1, <2>2
<1>5. LineageIsKept' /\ CascadeReaches' /\ (cascaded \subseteq forgotten)'
  BY <1>3, <1>4, UncutLineage
<1> QED
  BY <1>2, <1>3, <1>5

LEMMA RemoveRowsKeeps ==
    ASSUME MemoryInv, NEW i \in Instances, RemoveRows(i)
    PROVE  MemoryInv'
<1>1. PICK ids : ids = Reached(op[i].verb, op[i].ids)
  OBVIOUS
<1>2. /\ Erasing(i) /\ op[i] # None /\ owed[i] = <<>> /\ op[i].keys = <<>> /\ Done(i)
      /\ op[i].verb \in {"forget", "erase_subject"}
      /\ IF ids \cap held # {} THEN UNCHANGED <<store, promised, asked>>
         ELSE /\ InnerForget(op[i].verb, ids)
              /\ promised' = promised \cup op[i].reach
              /\ asked' = asked \ ids
      /\ UNCHANGED <<destroyed, owed, stray, faults, written, cascaded, strayed, displaced, lost, untracked>>
  BY <1>1 DEF RemoveRows, Erasing
<1>3. owed' \in [Instances -> Seq(Scopes)] /\ ~Settling(i)
  BY <1>2, InvParts DEF TypeOK, Settling
<1>4. CASE ids \cap held # {}
  <2>1. Unrecorded(i) = {}
    BY <1>3 DEF Unrecorded
  <2>2. stray' \subseteq Calls
        /\ \A c \in stray' : c.kind = "store" => Fits(c.item.id, c.item.as, current[c.item.id] + 1)
    BY <1>2, InvParts DEF TypeOK, WritesFit
  <2> QED
    BY <1>2, <1>3, <1>4, <2>1, <2>2, EndKeeps, PromisesKept
<1>5. CASE ids \cap held = {}
  <2>1. PICK cut : /\ ids \in SUBSET Ids /\ Advances /\ Drops(ids, {}, cut)
                   /\ LineageIsKept' /\ CascadeReaches' /\ (cascaded \subseteq forgotten)'
    BY <1>1, <1>2, <1>5, InnerForgetEffect
  <2>2. ErasureIsReady(i) /\ op[i] \in Erasures
    BY <1>2, InvParts, OpKinds DEF OpsAreReady
  <2>3. ToSet(op[i].keys) = {}
    BY <1>2 DEF ToSet
  <2>4. op[i].reach \subseteq destroyed /\ op[i].reach \subseteq Scopes
    BY <1>2, <2>2, <2>3 DEF ErasureIsReady, Erasures
  <2>5. \A s \in op[i].reach : Gone(s)'
    <3> SUFFICES ASSUME NEW s \in op[i].reach PROVE s[1] \in forgotten'
      BY DEF Gone
    <3>1. s[1] \in Ids /\ s[2] \in Nat \ {0} /\ current[s[1]] \in Nat
      BY <2>4, InvParts DEF Scopes, StoreOK
    <3>2. s[1] \in op[i].ids /\ (s[1] \in forgotten \/ s[2] <= current[s[1]])
      BY <1>2, <2>2 DEF ErasureIsReady, Fits
    <3>3. CASE s[1] \in forgotten
      BY <2>1, <3>3 DEF Drops
    <3>4. CASE s[2] <= current[s[1]]
      <4>1. s[1] \in ids
        BY <1>1, <3>1, <3>2, <3>4 DEF Reached
      <4> QED
        BY <2>1, <4>1 DEF Drops
    <3> QED
      BY <3>2, <3>3, <3>4
  <2>6. \A s \in WrittenOf(ids) : s \in destroyed \cup strayed
    BY <1>1, <1>2, <2>2, <2>4 DEF ErasureIsReady
  <2>7. \A j \in Instances : ~Settling(j)
    BY <1>2, <1>3, NothingRuns DEF Settling
  <2>8. \A s \in written : Tracked(s) \/ s \in WrittenOf(ids) \cup {} => Tracked(s)'
    BY <1>2, <2>6, <2>7 DEF Tracked
  <2>9. \A s \in promised' : s \in promised \/ (Gone(s)' /\ s \in destroyed)
    BY <1>2, <1>5, <2>4, <2>5
  <2>10. asked \ ids \subseteq asked'
    BY <1>2, <1>5
  <2>11. /\ op' \in [Instances -> Writes \cup Erasures \cup Settlements \cup {None}]
         /\ OneAtATime' /\ OpsAreReady'
    BY <1>2, NothingRuns
  <2> QED
    BY <1>2, <1>3, <2>1, <2>8, <2>9, <2>10, <2>11, DropKeeps
<1> QED
  BY <1>4, <1>5

\* A removal of which the caller gave up lands.
LEMMA LandRemoveKeeps ==
    ASSUME MemoryInv, NEW call \in stray, Land(call), call.kind = "remove"
    PROVE  MemoryInv'
<1>1. call.verb \in {"forget", "erase_subject"}
  BY InvParts DEF TypeOK, Calls
<1>2. PICK ids : ids = Reached(call.verb, call.ids)
  OBVIOUS
<1>3. /\ stray' = stray \ {call}
      /\ IF ids \cap held # {} THEN UNCHANGED <<store, lost>>
         ELSE InnerForget(call.verb, ids) /\ lost' = lost \cup WrittenOf(ids)
      /\ UNCHANGED <<destroyed, written, strayed, displaced, owed, op, faults, promised, asked, cascaded, untracked>>
  BY <1>2 DEF Land
<1>4. OneAtATime' /\ op' \in [Instances -> Writes \cup Erasures \cup Settlements \cup {None}]
      /\ owed' \in [Instances -> Seq(Scopes)]
  BY <1>3, InvParts DEF OneAtATime, TypeOK
<1>5. CASE ids \cap held # {}
  <2>1. UNCHANGED <<store, lost>>
    BY <1>3, <1>5
  <2>2. StoreOK'
    BY <2>1, InvParts DEF StoreOK, store
  <2>3. Advances
    BY <2>1, <2>2, InvParts DEF Advances, Gone, store, StoreOK
  <2>4. TypeOK'
    BY <1>3, <1>4, <2>2, InvParts DEF TypeOK
  <2>5. OpsAreReady'
    BY <1>3, <2>1, <2>3, OpsKeep DEF store
  <2>6. DebtsAreTracked' /\ KeptIsReadable'
    BY <1>3, <2>1, InvParts DEF DebtsAreTracked, Settling, KeptIsReadable, SealedTo, store
  <2>7. /\ \A j \in Instances : \A s \in ToSet(owed'[j]) : Gone(s)
        /\ \A s \in promised' : Gone(s) /\ s \in destroyed'
        /\ \A c \in stray' : c.kind = "store" => Fits(c.item.id, c.item.as, current[c.item.id] + 1)
    BY <1>3, InvParts, PromisesKept DEF DebtsAreGone, WritesFit
  <2> QED
    BY <1>3, <1>4, <2>1, <2>4, <2>5, <2>6, <2>7, QuietKeeps DEF store
<1>6. CASE ids \cap held = {}
  <2>1. InnerForget(call.verb, ids) /\ lost' = lost \cup WrittenOf(ids)
    BY <1>3, <1>6
  <2>2. PICK cut : /\ ids \in SUBSET Ids /\ Advances /\ Drops(ids, {}, cut)
                   /\ LineageIsKept' /\ CascadeReaches' /\ (cascaded \subseteq forgotten)'
    BY <1>1, <1>2, <1>3, <1>6, <2>1, InnerForgetEffect
  <2>3. \A id \in Ids : current'[id] = current[id] \/ id \in forgotten'
    BY <2>2 DEF Drops
  <2>4. OpsAreReady'
    BY <1>3, <2>2, <2>3, OpsKeep
  <2>5. \A s \in written : Tracked(s) \/ s \in WrittenOf(ids) \cup {} => Tracked(s)'
    BY <1>3, <2>1 DEF Tracked, Settling
  <2> QED
    BY <1>3, <1>4, <2>2, <2>4, <2>5, DropKeeps
<1> QED
  BY <1>5, <1>6


-----------------------------------------------------------------------------
(* The invariant holds *)

LEMMA InitMemory == ASSUME Init PROVE MemoryInv
<1>1. \A i \in Instances : op[i] = None /\ owed[i] = <<>>
  BY DEF Init
<1>2. \A i \in Instances : ToSet(owed[i]) = {}
  BY <1>1 DEF ToSet
<1>3. StoreOK
  BY DEF Init, StoreOK
<1>4. TypeOK
  <2>1. owed \in [Instances -> Seq(Scopes)]
    BY DEF Init
  <2>2. op \in [Instances -> Writes \cup Erasures \cup Settlements \cup {None}]
    BY DEF Init
  <2> QED
    BY <1>3, <2>1, <2>2 DEF Init, TypeOK
<1>5. OneAtATime /\ OpsAreReady
  BY <1>1 DEF OneAtATime, OpsAreReady, WriteIsReady, ErasureIsReady, SettlementIsReady,
              Remembering, Erasing, Settling
<1>6. DebtsAreGone /\ WritesFit /\ RowsAreWritten /\ KeptIsReadable /\ LineageIsKept /\ CascadeReaches
  BY <1>2 DEF Init, DebtsAreGone, WritesFit, RowsAreWritten, KeptIsReadable, LineageIsKept, CascadeReaches
<1>7. DebtsAreTracked
  BY TrackedIff DEF Init
<1> QED
  BY <1>4, <1>5, <1>6, <1>7 DEF MemoryInv, Init

LEMMA LandKeeps ==
    ASSUME MemoryInv, NEW call \in stray, Land(call)
    PROVE  MemoryInv'
BY LandStoreKeeps, LandDestroyKeeps, LandRemoveKeeps DEF Land

LEMMA StutterKeeps ==
    ASSUME MemoryInv, UNCHANGED vars
    PROVE  MemoryInv'
<1>1. TypeOK' /\ OneAtATime' /\ DebtsAreGone' /\ WritesFit'
  BY InvParts DEF vars, store, history, TypeOK, StoreOK, OneAtATime, DebtsAreGone, Gone, WritesFit, Fits
<1>2. OpsAreReady'
  BY InvParts DEF vars, store, history, OpsAreReady, WriteIsReady, ErasureIsReady, SettlementIsReady,
                  Remembering, Erasing, Settling, Fits, WrittenOf, Reached, Gone
<1>3. RowsAreWritten' /\ DebtsAreTracked' /\ KeptIsReadable' /\ (promised \subseteq destroyed)'
  BY InvParts DEF vars, store, history, RowsAreWritten, DebtsAreTracked, KeptIsReadable, SealedTo, Settling
<1>4. LineageIsKept' /\ (cascaded \subseteq forgotten)' /\ CascadeReaches'
  BY InvParts, ZenonT(30) DEF vars, store, history, LineageIsKept, TakesIn, Derived, CascadeReaches
<1> QED
  BY <1>1, <1>2, <1>3, <1>4 DEF MemoryInv

LEMMA NextMemory == ASSUME MemoryInv, [Next]_vars PROVE MemoryInv'
<1>1. CASE \E i \in Instances, id \in Ids, from \in {{}} \cup {{SealedTo(row)} : row \in rows} : Remember(i, id, from)
  BY <1>1, RememberKeeps
<1>2. ASSUME NEW i \in Instances, NEW id \in Ids, Forget(i, id) PROVE MemoryInv'
  BY <1>2, KeysFirstKeeps DEF Forget
<1>3. CASE \E i \in Instances, id \in Ids : ForgetCascading(i, id)
  BY <1>3, ForgetCascadingKeeps
<1>4. CASE \E i \in Instances, id \in Ids, on \in BOOLEAN : SetLegalHold(i, id, on)
  BY <1>4, SetLegalHoldKeeps
<1>5. CASE \E i \in Instances, due \in SUBSET Ids : SweepExpired(i, due)
  BY <1>5, SweepExpiredKeeps
<1>6. ASSUME NEW i \in Instances, EraseSubject(i) PROVE MemoryInv'
  BY <1>6, KeysFirstKeeps DEF EraseSubject
<1>7. CASE \E i \in Instances : ForgetSubject(i)
  BY <1>7, ForgetSubjectKeeps
<1>8. CASE \E i \in Instances : Store(i) \/ StoreFails(i) \/ RemoveRows(i) \/ RowsStay(i)
  BY <1>8, StoreKeeps, StoreFailsKeeps, RemoveRowsKeeps, RowsStayKeeps
<1>9. CASE \E i \in Instances : OweTrimmed(i) \/ Settled(i) \/ DestroyKey(i) \/ KeyRefused(i) \/ Crash(i)
  BY <1>9, OweTrimmedKeeps, SettledKeeps, DestroyKeyKeeps, KeyRefusedKeeps, CrashKeeps
<1>10. CASE \E call \in stray : Land(call)
  BY <1>10, LandKeeps
<1>11. CASE UNCHANGED vars
  BY <1>11, StutterKeeps
<1> QED
  BY <1>1, <1>2, <1>3, <1>4, <1>5, <1>6, <1>7, <1>8, <1>9, <1>10, <1>11 DEF Next

\* No step of any verb, ring, store, crash or late call breaks the invariant.
LEMMA MemoryIsSound == Spec => []MemoryInv
<1>1. Init => MemoryInv
  BY InitMemory
<1>2. MemoryInv /\ [Next]_vars => MemoryInv'
  BY NextMemory
<1> QED
  BY <1>1, <1>2, PTL DEF Spec

-----------------------------------------------------------------------------
(* The theorems *)

\* What a verb of keyring/memory.rs reported erased has no key and no row, every
\* version whose row is gone has its key destroyed, owed or known to be lost,
\* and nothing that absorbed an id survives a cascade from it.
THEOREM ErasureHolds == Spec => []ErasureIsKept
<1>1. MemoryInv => ErasureIsKept
  <2> SUFFICES ASSUME MemoryInv PROVE ErasureIsKept
    OBVIOUS
  <2>1. ErasedIsErased
    BY InvParts, GoneHasNoRow DEF ErasedIsErased, DebtsAreGone
  <2>2. DebtsAreKept
    <3> SUFFICES ASSUME \A i \in Instances : op[i] = None,
                        NEW s \in written, \A row \in rows : SealedTo(row) # s
                 PROVE  s \in destroyed \cup (UNION {ToSet(owed[i]) : i \in Instances})
                              \cup lost \cup strayed \cup displaced \cup untracked
      BY DEF DebtsAreKept
    <3>1. Tracked(s)
      BY InvParts, TrackedIff
    <3> QED
      BY <3>1 DEF Tracked, Settling
  <2> QED
    BY <2>1, <2>2, InvParts DEF ErasureIsKept
<1> QED
  BY <1>1, MemoryIsSound, PTL

\* Paying debts, trimming and sweeping never destroy the key of a version that
\* stays: every row opens, but for an erasure that was set out on and calls that
\* landed after their caller had given them up.
THEOREM KeptVersionsOpen == Spec => []KeptIsReadable
<1>1. MemoryInv => KeptIsReadable
  BY InvParts
<1> QED
  BY <1>1, MemoryIsSound, PTL

\* Only a removal takes rows away, and never those of an id under legal hold.
LEMMA HeldRowsStay ==
    ASSUME MemoryInv, Next, NEW row \in rows, row.id \in held
    PROVE  row \in rows'
<1>1. ASSUME NEW ids, NEW cut, NEW trimmed, ids \cap held = {}, Removed(ids, trimmed, cut),
             \A s \in trimmed : s[1] \notin held
      PROVE  row \in rows'
  <2>1. Scope(row.id, row.version)[1] = row.id
    BY DEF Scope
  <2> QED
    BY <1>1, <2>1 DEF Removed
<1>2. CASE rows' = rows
  BY <1>2
<1>3. ASSUME NEW item, InnerRemember(item) PROVE row \in rows'
  BY <1>3 DEF InnerRemember, store
<1>4. ASSUME NEW i \in Instances, NEW ids, NEW cut, RowsFirst(i, ids, {}, cut) PROVE row \in rows'
  BY <1>1, <1>4 DEF RowsFirst
<1>5. ASSUME NEW i \in Instances, NEW id \in Ids, ForgetCascading(i, id) PROVE row \in rows'
  <2>1. PICK doomed : doomed = Cascade(id)
    OBVIOUS
  <2>2. PICK trimmed : trimmed = {s \in doomed.versions : s[1] \notin doomed.ids
                                      /\ \E r \in rows : Scope(r.id, r.version) = s}
    OBVIOUS
  <2>3. PICK cut : RowsFirst(i, doomed.ids, trimmed, cut)
    BY <1>5, <2>1, <2>2 DEF ForgetCascading
  <2>4. \A s \in trimmed : s[1] \notin held
    BY <1>5, <2>1, <2>2 DEF ForgetCascading
  <2> QED
    BY <1>1, <2>3, <2>4 DEF RowsFirst
<1>6. ASSUME NEW verb, NEW ids, ids \cap held = {}, InnerForget(verb, ids) PROVE row \in rows'
  BY <1>1, <1>6 DEF InnerForget
<1>7. ASSUME NEW i \in Instances, RemoveRows(i) PROVE row \in rows'
  BY <1>2, <1>6, <1>7 DEF RemoveRows, store
<1>8. ASSUME NEW call \in stray, Land(call) PROVE row \in rows'
  BY <1>2, <1>3, <1>6, <1>8 DEF Land, store
<1>9. ASSUME NEW i \in Instances, Store(i) PROVE row \in rows'
  BY <1>3, <1>9 DEF Store
<1>10. ASSUME NEW i \in Instances, ForgetSubject(i) PROVE row \in rows'
  BY <1>4, <1>10 DEF ForgetSubject
<1>11. ASSUME NEW i \in Instances, NEW due, SweepExpired(i, due) PROVE row \in rows'
  BY <1>4, <1>11 DEF SweepExpired
<1>12. ASSUME NEW i \in Instances, NEW id \in Ids, Forget(i, id) PROVE row \in rows'
  BY <1>12 DEF Forget, KeysFirst, store
<1>13. ASSUME NEW i \in Instances, EraseSubject(i) PROVE row \in rows'
  BY <1>13 DEF EraseSubject, KeysFirst, store
<1>14. ASSUME NEW i \in Instances,
              StoreFails(i) \/ RowsStay(i) \/ OweTrimmed(i) \/ Settled(i) \/ DestroyKey(i) \/ KeyRefused(i) \/ Crash(i)
       PROVE  row \in rows'
  BY <1>14 DEF StoreFails, RowsStay, OweTrimmed, Settled, DestroyKey, KeyRefused, Crash, store
<1>15. ASSUME NEW i, NEW id, NEW from, Remember(i, id, from) PROVE row \in rows'
  BY <1>15 DEF Remember, store
<1>16. ASSUME NEW i, NEW id, NEW on, SetLegalHold(i, id, on) PROVE row \in rows'
  BY <1>16 DEF SetLegalHold
<1> QED
  BY <1>5, <1>7, <1>8, <1>9, <1>10, <1>11, <1>12, <1>13, <1>14, <1>15, <1>16 DEF Next

\* Only the ring destroys keys, for the verb that has the lock or for a caller
\* that gave up, and never one of a row under legal hold for the former.
LEMMA HeldKeysStay ==
    ASSUME MemoryInv, Next, NEW row \in rows, row.id \in held, row.as = row.version,
           SealedTo(row) \in destroyed'
    PROVE  SealedTo(row) \in destroyed \cup strayed'
<1>1. CASE destroyed' = destroyed
  BY <1>1
<1>2. ASSUME NEW i \in Instances, DestroyKey(i) PROVE SealedTo(row) \in destroyed \cup strayed'
  <2>1. PICK k \in Scopes : /\ destroyed' = destroyed \cup {k}
                            /\ Gone(k) \/ (Erasing(i) /\ k \in ToSet(op[i].keys))
    BY <1>2, DestroyKeyEffect
  <2>2. ErasureIsReady(i)
    BY InvParts DEF OpsAreReady
  <2>3. CASE SealedTo(row) = k
    <3>1. CASE Gone(k)
      BY <2>3, <3>1, InvParts, GoneHasNoRow DEF SealedTo
    <3>2. CASE Erasing(i) /\ k \in ToSet(op[i].keys)
      BY <2>2, <2>3, <3>2 DEF ErasureIsReady, SealedTo, Scope
    <3> QED
      BY <2>1, <3>1, <3>2
  <2> QED
    BY <2>1, <2>3
<1>3. ASSUME NEW call \in stray, Land(call) PROVE SealedTo(row) \in destroyed \cup strayed'
  BY <1>1, <1>3 DEF Land
<1>4. ASSUME NEW i \in Instances,
             \/ StoreFails(i) \/ RowsStay(i) \/ OweTrimmed(i) \/ Settled(i) \/ KeyRefused(i) \/ Crash(i)
             \/ Store(i) \/ RemoveRows(i) \/ EraseSubject(i) \/ ForgetSubject(i)
      PROVE  destroyed' = destroyed
  BY <1>4 DEF StoreFails, RowsStay, OweTrimmed, Settled, KeyRefused, Crash, Store, RemoveRows,
              EraseSubject, ForgetSubject, KeysFirst, RowsFirst
<1>5. ASSUME NEW i \in Instances, NEW id \in Ids, Forget(i, id) \/ ForgetCascading(i, id)
      PROVE  destroyed' = destroyed
  BY <1>5 DEF Forget, ForgetCascading, KeysFirst, RowsFirst
<1>6. ASSUME NEW i \in Instances, NEW due, SweepExpired(i, due) PROVE destroyed' = destroyed
  BY <1>6 DEF SweepExpired, RowsFirst
<1>7. ASSUME NEW i, NEW id, NEW from, Remember(i, id, from) PROVE destroyed' = destroyed
  BY <1>7 DEF Remember
<1>8. ASSUME NEW i, NEW id, NEW on, SetLegalHold(i, id, on) PROVE destroyed' = destroyed
  BY <1>8 DEF SetLegalHold
<1> QED
  BY <1>1, <1>2, <1>3, <1>4, <1>5, <1>6, <1>7, <1>8 DEF Next

\* A row under legal hold stays and keeps its key whichever verbs run, except to
\* a destruction whose caller had given up on it.
THEOREM HoldsAreHonoured == Spec => HeldIsKept
<1> DEFINE Kept == \A row \in rows : row.id \in held /\ row.as = row.version =>
                        /\ row \in rows'
                        /\ SealedTo(row) \in destroyed' => SealedTo(row) \in destroyed \cup strayed'
<1>1. MemoryInv /\ [Next]_vars => [Kept]_vars
  BY HeldRowsStay, HeldKeysStay
<1>2. Spec => [][Kept]_vars
  <2> HIDE DEF Kept
  <2> QED
    BY <1>1, MemoryIsSound, PTL DEF Spec
<1> QED
  BY <1>2 DEF HeldIsKept
=============================================================================
