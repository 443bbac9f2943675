---------------------------- MODULE SealedMemory ----------------------------
(***************************************************************************)
(* Cryptographically erasable memory (src/src/keyring/memory.rs) over the  *)
(* memory store (src/src/store/redb_memory.rs), a key ring and a lifecycle *)
(* lock that spans the instances (src/src/keyring/coordinator.rs).         *)
(*                                                                         *)
(* Every version of an item is sealed under a key scope of its own, and a  *)
(* backup keeps every row ever stored: only the destruction of its scope   *)
(* erases a version.  `forget` and `erase_subject` destroy keys before     *)
(* rows; a cascade, `forget_subject` and the expiry sweep remove rows      *)
(* before keys and owe the ring what it refuses.  A call to the ring or    *)
(* the store whose caller gave up (a dropped future, a dead process, an    *)
(* answer that timed out) may still be carried out later.                  *)
(*                                                                         *)
(* Abstracted: one tenant and one subject; content to what it was derived  *)
(* from; expiry to the sweep's choice of the items that are due; the clear *)
(* metadata and the semantic index beneath are left out.                   *)
(***************************************************************************)
EXTENDS Naturals, Sequences, FiniteSets, FiniteSetsExt, SequencesExt

CONSTANTS
    Ids,         \* memory ids
    Instances,   \* processes of the plane
    Sources,     \* pairs <<derived id, source id>> a write may use
    MaxVersion,  \* bound: id -> versions written
    MaxFaults,   \* bound: failed, unanswered or abandoned calls
    MaxStray,    \* bound: abandoned calls that may still land
    None         \* no operation

VARIABLES
    rows,        \* ITEMS: id, version, the version sealed as; history: the ids absorbed
    current,     \* CURRENT: id -> its current version, 0 for none
    edges,       \* DERIVED: <<source id, version, derived id, version>>
    forgotten,   \* FORGOTTEN: tombstoned ids
    held,        \* HOLDS: ids under legal hold
    destroyed,   \* the ring: scopes whose wrapping key is destroyed
    owed,        \* instance -> key destructions it still has to make
    op,          \* instance -> the operation it runs under the lock, or None
    stray,       \* calls sent whose caller gave up
    faults,      \* faults so far
    written,     \* history: scopes a row was ever sealed under, and backups hold
    promised,    \* history: scopes of the versions a verb reported erased
    asked,       \* history: ids a keys-first erasure set out on and did not finish
    cascaded,    \* history: ids a cascade was run from
    strayed,     \* history: scopes a stray call destroyed or wrote a row under
    displaced,   \* history: scopes of rows stored as a version they were not sealed as
    lost,        \* history: debts that died with a process or were never heard of
    untracked    \* history: trimmed versions whose debt was never recorded

store == <<rows, current, edges, forgotten, held>>
history == <<written, promised, asked, cascaded, strayed, displaced, lost, untracked>>
vars == <<store, destroyed, owed, op, stray, faults, history>>

\* Key scopes: an id and one of its versions.
Scopes == Ids \X (Nat \ {0})

\* Rows, and what a write asks to be stored as one.
Rows == [id : Ids, version : Nat \ {0}, as : Nat \ {0}, absorbed : SUBSET Ids]
Items == [id : Ids, as : Nat \ {0}, from : SUBSET Scopes]

\* What an instance may be doing under the lock, and the calls it may leave.
Writes == [verb : {"remember"}, id : Ids, as : Nat \ {0}, from : SUBSET Scopes]
Erasures ==
    [verb : {"forget", "erase_subject"}, ids : SUBSET Ids, keys : Seq(Scopes), reach : SUBSET Scopes]
Settlements == [verb : {"settle"}, trimmed : SUBSET Scopes, reach : SUBSET Scopes]
Calls ==
    [kind : {"store"}, item : Items]
        \cup [kind : {"destroy"}, scope : Scopes]
        \cup [kind : {"remove"}, verb : {"forget", "erase_subject"}, ids : SUBSET Ids]

ASSUME MemoryAssumption ==
    /\ IsFiniteSet(Ids) /\ MaxVersion \in [Ids -> Nat]
    /\ Sources \subseteq Ids \X Ids
    /\ MaxFaults \in Nat /\ MaxStray \in Nat
    /\ None \notin Writes \cup Erasures \cup Settlements

-----------------------------------------------------------------------------
(* Rows and keys *)

\* The erasure scope of one version of one id.
Scope(id, version) == <<id, version>>

SealedTo(row) == Scope(row.id, row.as)

\* A row opens: its key exists and the envelope was sealed to its version.
Opens(row) == SealedTo(row) \notin destroyed /\ row.as = row.version

\* The scopes of every version of ids, up to the highest each holds.
EveryVersion(ids) == UNION {{Scope(id, v) : v \in 1 .. current[id]} : id \in ids}

\* Every version ever written of the ids the store still holds.
WrittenOf(ids) == {s \in written : s[1] \in ids /\ current[s[1]] > 0}

\* The tenant's lifecycle lock is free for i to take.
LockFree(i) == \A j \in Instances : op[j] = None

\* i holds the lock, or sent a call before the lock went on.
MayRun(i) == LockFree(i) \/ faults < MaxFaults

Done(i) == op' = [op EXCEPT ![i] = None]
Faulty == faults < MaxFaults /\ faults' = faults + 1

\* A call is left behind, unless as many are already out as the bound allows.
Leaves(call) == IF Cardinality(stray) < MaxStray THEN stray' = stray \cup {call} ELSE UNCHANGED stray

-----------------------------------------------------------------------------
(* The store beneath *)

\* Append the item's next version, sealed as version `as`.
InnerRemember(item) ==
    LET version == current[item.id] + 1
        sources == {r \in rows : Scope(r.id, r.version) \in item.from}
    IN  IF \/ current[item.id] = 0 /\ item.id \in forgotten
           \/ Cardinality(sources) < Cardinality(item.from)
        THEN UNCHANGED store
        ELSE /\ rows' = rows \cup {[id |-> item.id, version |-> version, as |-> item.as,
                                    absorbed |-> UNION {{r.id} \cup r.absorbed : r \in sources}]}
             /\ current' = [current EXCEPT ![item.id] = version]
             /\ edges' = edges \cup {<<s[1], s[2], item.id, version>> : s \in item.from}
             /\ UNCHANGED <<forgotten, held>>

\* Ids erased whole and versions trimmed go; ids become tombstones.
Removed(ids, trimmed, cut) ==
    /\ rows' = {row \in rows : row.id \notin ids /\ Scope(row.id, row.version) \notin trimmed}
    /\ current' = [id \in Ids |-> IF id \in ids THEN 0 ELSE current[id]]
    /\ forgotten' = forgotten \cup ids
    /\ edges' = edges \ cut
    /\ UNCHANGED held

\* The versions anything was read into.
Derived == {Scope(e[3], e[4]) : e \in edges}

\* The ids a cascade from id takes whole, having hit some versions: those whose
\* current version it hit.
Whole(id, hit) == {id} \cup {h[1] : h \in {x \in hit : current[x[1]] = x[2]}}

\* It has hit every version that read an id taken whole or a version hit.
Follows(id, hit) ==
    LET whole == Whole(id, hit)
    IN  \A e \in edges : e[1] \in whole \/ Scope(e[1], e[2]) \in hit => Scope(e[3], e[4]) \in hit

\* The whole cascade: ids doomed as a whole, and superseded versions alone.
Cascade(id) ==
    LET closed == {S \in SUBSET Derived : Follows(id, S)}
        hit == {h \in Derived : \A S \in closed : h \in S}
    IN  [ids |-> Whole(id, hit), versions |-> {h \in hit : current[h[1]] # h[2]}]

-----------------------------------------------------------------------------
(* Writing *)

\* A source can anchor lineage while its row is there and opens.
Readable(s) == \E row \in rows : SealedTo(row) = s /\ Opens(row)

\* Under the lock: predict the version, mint a key under its scope and seal.
Remember(i, id, from) ==
    /\ LockFree(i) /\ current[id] < MaxVersion[id]
    /\ \A s \in from : <<id, s[1]>> \in Sources /\ Readable(s)
    /\ Scope(id, current[id] + 1) \notin destroyed
    /\ op' = [op EXCEPT ![i] = [verb |-> "remember", id |-> id, as |-> current[id] + 1, from |-> from]]
    /\ UNCHANGED <<store, destroyed, owed, stray, faults, history>>

Remembering(i) == op[i] # None /\ op[i].verb = "remember"
Item(i) == [id |-> op[i].id, as |-> op[i].as, from |-> op[i].from]
Stored(item) ==
    /\ written' = IF rows' # rows THEN written \cup {Scope(item.id, item.as)} ELSE written
    /\ displaced' = IF rows' # rows /\ item.as # current[item.id] + 1
                    THEN displaced \cup {Scope(item.id, item.as)} ELSE displaced

\* The store writes the sealed item and the lock is released.
Store(i) ==
    /\ Remembering(i)
    /\ InnerRemember(Item(i))
    /\ Stored(Item(i))
    /\ Done(i)
    /\ UNCHANGED <<destroyed, owed, stray, faults, promised, asked, cascaded, strayed, lost, untracked>>

\* The write fails, or its caller gives up and it may still be carried out.
StoreFails(i) ==
    /\ Remembering(i) /\ Faulty
    /\ Done(i)
    /\ Leaves([kind |-> "store", item |-> Item(i)])
    /\ UNCHANGED <<store, destroyed, owed, history>>

-----------------------------------------------------------------------------
(* Keys first: forget, erase_subject *)

\* Holds are checked, then the keys of every version are to be destroyed.
KeysFirst(i, verb, ids) ==
    /\ LockFree(i) /\ ids \cap held = {}
    /\ op' = [op EXCEPT ![i] = [verb |-> verb, ids |-> ids, keys |-> SetToSeq(EveryVersion(ids)),
                                reach |-> WrittenOf(ids)]]
    /\ asked' = asked \cup {id \in ids : current[id] > 0}
    /\ UNCHANGED <<store, destroyed, owed, stray, faults, written, promised, cascaded, strayed, displaced, lost, untracked>>

Forget(i, id) == KeysFirst(i, "forget", {id})
EraseSubject(i) == KeysFirst(i, "erase_subject", {id \in Ids : current[id] > 0})

Erasing(i) == op[i] # None /\ op[i].verb \in {"forget", "erase_subject"}

\* The ids of which forget and forget_subject remove every row.
Reached(verb, ids) == {id \in Ids : current[id] > 0 /\ (verb = "forget" => id \in ids)}

\* The store's transaction: `forget` keeps lineage, `forget_subject` cuts what
\* leads into the ids.
InnerForget(verb, ids) == Removed(ids, {}, {e \in edges : verb = "erase_subject" /\ e[3] \in ids})

\* The rows go once the keys are gone; the store checks the holds again.
RemoveRows(i) ==
    LET ids == Reached(op[i].verb, op[i].ids)
    IN
    /\ Erasing(i) /\ owed[i] = <<>> /\ op[i].keys = <<>>
    /\ IF ids \cap held # {} THEN UNCHANGED <<store, promised, asked>>
       ELSE /\ InnerForget(op[i].verb, ids)
            /\ promised' = promised \cup op[i].reach
            /\ asked' = asked \ ids
    /\ Done(i)
    /\ UNCHANGED <<destroyed, owed, stray, faults, written, cascaded, strayed, displaced, lost, untracked>>

Removal(i) == [kind |-> "remove", verb |-> op[i].verb, ids |-> op[i].ids]

\* The rows stay, or go later: `forget` fails, `erase_subject` answers that its
\* cleanup failed.
RowsStay(i) ==
    /\ Erasing(i) /\ owed[i] = <<>> /\ op[i].keys = <<>> /\ Faulty
    /\ Done(i)
    /\ Leaves(Removal(i))
    /\ UNCHANGED <<store, destroyed, owed, history>>

-----------------------------------------------------------------------------
(* Rows first: forget_subject, forget_cascading, sweep_expired *)

\* The store erased ids whole and trimmed versions of others in one
\* transaction, and the keys of the ids are owed.  The transaction may commit
\* after its caller gave up and the lock went on: then nobody hears of it.
RowsFirst(i, ids, trimmed, cut) ==
    LET erased == EveryVersion(ids)
        gone == WrittenOf(ids) \cup trimmed
    IN
    /\ MayRun(i)
    /\ ids \cap held = {}
    /\ Removed(ids, trimmed, cut)
    /\ \/ /\ LockFree(i)
          /\ owed' = [owed EXCEPT ![i] = @ \o SetToSeq(erased)]
          /\ op' = [op EXCEPT ![i] = [verb |-> "settle", trimmed |-> trimmed, reach |-> gone]]
          /\ UNCHANGED <<faults, lost>>
       \/ /\ Faulty
          /\ lost' = lost \cup gone
          /\ UNCHANGED <<owed, op>>
    /\ UNCHANGED <<destroyed, stray, written, promised, asked, strayed, displaced, untracked>>

Current == {id \in Ids : current[id] > 0}

ForgetSubject(i) ==
    /\ RowsFirst(i, Current, {}, {e \in edges : e[3] \in Current})
    /\ UNCHANGED cascaded

\* Defect: the sweep drops the edges into what it erases.
SweepExpiredSevering(i, due) ==
    /\ due # {} /\ due \subseteq Current \ held
    /\ RowsFirst(i, due, {}, {e \in edges : e[3] \in due})
    /\ UNCHANGED cascaded

\* What has expired and is not held goes; its lineage stays.
SweepExpired(i, due) ==
    /\ due # {} /\ due \subseteq Current \ held
    /\ RowsFirst(i, due, {}, {})
    /\ UNCHANGED cascaded

\* Everything that absorbed the id goes with it, lineage included.
ForgetCascading(i, id) ==
    LET doomed == Cascade(id)
        trimmed == {s \in doomed.versions : s[1] \notin doomed.ids /\ \E row \in rows : Scope(row.id, row.version) = s}
        gone(x, v) == x \in doomed.ids \/ Scope(x, v) \in doomed.versions
    IN  /\ MayRun(i)
        /\ {s[1] : s \in doomed.versions} \cap held = {}
        /\ RowsFirst(i, doomed.ids, trimmed, {e \in edges : gone(e[1], e[2]) \/ gone(e[3], e[4])})
        /\ cascaded' = cascaded \cup {id}

Settling(i) == op[i] # None /\ op[i].verb = "settle"

\* Defect: a trimmed version takes its id's other keys along.
TrimmedWhole(trimmed) == EveryVersion({s[1] : s \in trimmed})

\* Exactly the keys of the trimmed versions.
TrimmedKeys(trimmed) == trimmed

\* With the first debt paid, the keys of the trimmed versions are owed.
OweTrimmed(i) ==
    /\ Settling(i) /\ owed[i] = <<>> /\ op[i].trimmed # {}
    /\ owed' = [owed EXCEPT ![i] = SetToSeq(TrimmedKeys(op[i].trimmed))]
    /\ op' = [op EXCEPT ![i].trimmed = {}]
    /\ UNCHANGED <<store, destroyed, stray, faults, history>>

\* Nothing is owed: the verb reports its success.
Settled(i) ==
    /\ Settling(i) /\ owed[i] = <<>> /\ op[i].trimmed = {}
    /\ promised' = promised \cup op[i].reach
    /\ Done(i)
    /\ UNCHANGED <<store, destroyed, owed, stray, faults, written, asked, cascaded, strayed, displaced, lost, untracked>>

-----------------------------------------------------------------------------
(* The ring *)

\* The key to destroy next: what earlier erasures owe comes first.
Pending(i) ==
    IF op[i] = None \/ Remembering(i) THEN <<>>
    ELSE owed[i] \o (IF Erasing(i) THEN op[i].keys ELSE <<>>)

\* A debt stays owed when the ring refuses.
Unpaid(i) == UNCHANGED owed

DestroyKey(i) ==
    /\ Pending(i) # <<>>
    /\ destroyed' = destroyed \cup {Head(Pending(i))}
    /\ IF owed[i] # <<>> THEN owed' = [owed EXCEPT ![i] = Tail(@)] /\ UNCHANGED op
       ELSE op' = [op EXCEPT ![i].keys = Tail(@)] /\ UNCHANGED owed
    /\ UNCHANGED <<store, stray, faults, history>>

\* Trimmed versions whose debt an operation ends without having recorded.
Unrecorded(i) == IF Settling(i) THEN op[i].trimmed ELSE {}

\* The ring refuses, does not answer, or the caller gives up waiting: the verb
\* ends and the call may still be carried out.
KeyRefused(i) ==
    /\ Pending(i) # <<>> /\ Faulty
    /\ Unpaid(i)
    /\ untracked' = untracked \cup Unrecorded(i)
    /\ Done(i)
    /\ Leaves([kind |-> "destroy", scope |-> Head(Pending(i))])
    /\ UNCHANGED <<store, destroyed, written, promised, asked, cascaded, strayed, displaced, lost>>

\* A process dies: the lock is released, its debts are gone, and the call it
\* was waiting on may still be carried out.
Crash(i) ==
    /\ Faulty
    /\ lost' = lost \cup ToSet(owed[i]) \cup Unrecorded(i)
    /\ owed' = [owed EXCEPT ![i] = <<>>]
    /\ Done(i)
    /\ IF Remembering(i) THEN Leaves([kind |-> "store", item |-> Item(i)])
       ELSE IF Pending(i) # <<>> THEN Leaves([kind |-> "destroy", scope |-> Head(Pending(i))])
       ELSE IF Erasing(i) THEN Leaves(Removal(i))
       ELSE UNCHANGED stray
    /\ UNCHANGED <<store, destroyed, written, promised, asked, cascaded, strayed, displaced, untracked>>

\* A call whose caller gave up is carried out.
Land(call) ==
    /\ stray' = stray \ {call}
    /\ \/ /\ call.kind = "destroy"
          /\ destroyed' = destroyed \cup {call.scope}
          /\ strayed' = strayed \cup {call.scope}
          /\ UNCHANGED <<store, written, displaced, lost>>
       \/ /\ call.kind = "store"
          /\ InnerRemember(call.item)
          /\ Stored(call.item)
          /\ strayed' = strayed \cup {Scope(call.item.id, call.item.as)}
          /\ UNCHANGED <<destroyed, lost>>
       \/ LET ids == Reached(call.verb, call.ids)
          IN  /\ call.kind = "remove"
              /\ IF ids \cap held # {} THEN UNCHANGED <<store, lost>>
                 ELSE InnerForget(call.verb, ids) /\ lost' = lost \cup WrittenOf(ids)
              /\ UNCHANGED <<destroyed, written, strayed, displaced>>
    /\ UNCHANGED <<owed, op, faults, promised, asked, cascaded, untracked>>

\* Defect: placing a hold does not take the lock.
SetLegalHoldUnlocked(i, id, on) ==
    /\ id \in held <=> ~on
    /\ on => current[id] > 0
    /\ held' = IF on THEN held \cup {id} ELSE held \ {id}
    /\ UNCHANGED <<rows, current, edges, forgotten, destroyed, owed, op, stray, faults, history>>

\* A hold is placed on an item there is, or lifted.
SetLegalHold(i, id, on) ==
    /\ LockFree(i) /\ (id \in held <=> ~on)
    /\ on => current[id] > 0
    /\ held' = IF on THEN held \cup {id} ELSE held \ {id}
    /\ UNCHANGED <<rows, current, edges, forgotten, destroyed, owed, op, stray, faults, history>>

-----------------------------------------------------------------------------

Init ==
    /\ rows = {} /\ current = [id \in Ids |-> 0] /\ edges = {} /\ forgotten = {} /\ held = {}
    /\ destroyed = {} /\ owed = [i \in Instances |-> <<>>] /\ op = [i \in Instances |-> None]
    /\ stray = {} /\ faults = 0
    /\ written = {} /\ promised = {} /\ asked = {} /\ cascaded = {} /\ strayed = {} /\ displaced = {} /\ lost = {} /\ untracked = {}

Next ==
    \/ \E i \in Instances, id \in Ids, from \in {{}} \cup {{SealedTo(row)} : row \in rows} : Remember(i, id, from)
    \/ \E i \in Instances, id \in Ids : Forget(i, id) \/ ForgetCascading(i, id)
    \/ \E i \in Instances, id \in Ids, on \in BOOLEAN : SetLegalHold(i, id, on)
    \/ \E i \in Instances, due \in SUBSET Ids : SweepExpired(i, due)
    \/ \E i \in Instances : EraseSubject(i) \/ ForgetSubject(i)
    \/ \E i \in Instances : Store(i) \/ StoreFails(i) \/ RemoveRows(i) \/ RowsStay(i)
    \/ \E i \in Instances : OweTrimmed(i) \/ Settled(i) \/ DestroyKey(i) \/ KeyRefused(i) \/ Crash(i)
    \/ \E call \in stray : Land(call)

Spec == Init /\ [][Next]_vars

-----------------------------------------------------------------------------
(* Properties *)

\* The tables of the store beneath: versions up to the current one, which is
\* there, and no state of a tombstoned id.
StoreOK ==
    /\ current \in [Ids -> Nat]
    /\ rows \subseteq Rows
    /\ \A row \in rows : row.version <= current[row.id]
    /\ \A row, other \in rows : row.id = other.id /\ row.version = other.version => row = other
    /\ \A id \in Ids : current[id] > 0 => \E row \in rows : row.id = id /\ row.version = current[id]
    /\ edges \subseteq Ids \X (Nat \ {0}) \X Ids \X (Nat \ {0})
    /\ forgotten \subseteq {id \in Ids : current[id] = 0} /\ held \subseteq Ids \ forgotten

\* Every value has the shape the stores and the code give it.
TypeOK ==
    /\ StoreOK
    /\ destroyed \subseteq Scopes /\ written \subseteq Scopes
    /\ owed \in [Instances -> Seq(Scopes)]
    /\ op \in [Instances -> Writes \cup Erasures \cup Settlements \cup {None}]
    /\ stray \subseteq Calls

\* What a verb reported erased, no copy opens and the store no longer holds.
ErasedIsErased ==
    /\ promised \subseteq destroyed
    /\ \A row \in rows : Scope(row.id, row.version) \notin promised

\* A version whose row is gone is erased or the erasure of its key is owed,
\* unless a death or a lost answer took the debt along,
\* or the write landed after its caller had given it up, or after another had
\* taken its version.
DebtsAreKept ==
    (\A i \in Instances : op[i] = None) =>
        written \ {SealedTo(row) : row \in rows}
            \subseteq destroyed \cup (UNION {ToSet(owed[i]) : i \in Instances})
                      \cup lost \cup strayed \cup displaced \cup untracked

\* A debt the ring refused is owed, the trimmed versions of a cascade included.
EveryDebtIsKept ==
    (\A i \in Instances : op[i] = None) =>
        written \ {SealedTo(row) : row \in rows}
            \subseteq destroyed \cup (UNION {ToSet(owed[i]) : i \in Instances})
                      \cup lost \cup strayed \cup displaced

\* A row opens: trimming, sweeping and paying debts never take the key of a
\* version that stays, and no row is sealed as a version it is not, unless the
\* erasure of its id was set out on or a call landed that its caller gave up.
KeptIsReadable ==
    \A row \in rows :
        /\ row.as = row.version /\ SealedTo(row) \in destroyed => row.id \in asked \/ SealedTo(row) \in strayed
        /\ row.as # row.version => \E s \in strayed : s[1] = row.id

\* Nothing under legal hold is lost: a held row stays and keeps its key, except
\* to a call whose caller gave up before.
HeldIsKept ==
    [][\A row \in rows : row.id \in held /\ row.as = row.version =>
        /\ row \in rows'
        /\ SealedTo(row) \in destroyed' => SealedTo(row) \in destroyed \cup strayed']_vars

\* Once a cascade ran from an id, no version that absorbed it remains, however
\* many others it went through and whatever became of those.
CascadeReaches == \A row \in rows : row.absorbed \cap cascaded = {}

\* What was erased stays erased, with all that absorbed it, and what remains to
\* be erased is known.
ErasureIsKept == TypeOK /\ ErasedIsErased /\ DebtsAreKept /\ CascadeReaches

-----------------------------------------------------------------------------
(* Why erasure is kept: the inductive invariant *)

\* The lifecycle lock has one holder.
OneAtATime == \A i, j \in Instances : op[i] # None /\ op[j] # None => i = j

\* No row is stored under s now, and none will be: versions only go up while an
\* id is there, and a tombstone stays.
Gone(s) ==
    \/ s[1] \in forgotten
    \/ s[2] <= current[s[1]] /\ \A row \in rows : Scope(row.id, row.version) # s

\* What is owed or promised is gone.
DebtsAreGone ==
    /\ \A s \in promised : Gone(s)
    /\ \A i \in Instances : \A s \in ToSet(owed[i]) : Gone(s)

\* Nothing is sealed past the next version of an id that is there.
Fits(id, as, limit) == id \in forgotten \/ as <= limit
WritesFit ==
    /\ \A s \in written : Fits(s[1], s[2], current[s[1]])
    /\ \A call \in stray : call.kind = "store" =>
            Fits(call.item.id, call.item.as, current[call.item.id] + 1)

\* A write under the lock is sealed as the version it will get and its key is
\* there, but for a stray call.
WriteIsReady(i) ==
    Remembering(i) =>
        /\ Fits(op[i].id, op[i].as, current[op[i].id] + 1)
        /\ \/ op[i].id \in forgotten \/ op[i].as = current[op[i].id] + 1
           \/ \E s \in strayed : s[1] = op[i].id
        /\ Scope(op[i].id, op[i].as) \notin destroyed \ strayed

\* An erasure that takes the keys first: its ids are not held, its keys are
\* theirs, and what it will report is destroyed or still among the keys.
ErasureIsReady(i) ==
    Erasing(i) =>
        /\ op[i].ids \cap held = {}
        /\ \A s \in ToSet(op[i].keys) : s[1] \in op[i].ids \cap asked
        /\ op[i].reach \subseteq destroyed \cup ToSet(op[i].keys)
        /\ \A s \in op[i].reach : s[1] \in op[i].ids /\ Fits(s[1], s[2], current[s[1]])
        /\ WrittenOf(Reached(op[i].verb, op[i].ids)) \subseteq op[i].reach \cup strayed

\* One that takes the rows first: what it will report is gone, and destroyed or
\* still owed.
SettlementIsReady(i) ==
    Settling(i) =>
        /\ \A s \in op[i].reach \cup op[i].trimmed : Gone(s)
        /\ IsFiniteSet(op[i].trimmed)
        /\ op[i].reach \subseteq destroyed \cup ToSet(owed[i]) \cup op[i].trimmed

OpsAreReady == \A i \in Instances : WriteIsReady(i) /\ ErasureIsReady(i) /\ SettlementIsReady(i)

\* Every row was written; one stored as another version is known.
RowsAreWritten ==
    \A row \in rows :
        /\ SealedTo(row) \in written
        /\ row.as # row.version => SealedTo(row) \in displaced

\* DebtsAreKept while a verb runs.
DebtsAreTracked ==
    written \ {SealedTo(row) : row \in rows}
        \subseteq destroyed \cup (UNION {ToSet(owed[i]) : i \in Instances})
                  \cup (UNION {op[i].trimmed : i \in {j \in Instances : Settling(j)}})
                  \cup lost \cup strayed \cup displaced \cup untracked

\* The lineage of a row leads back to every id it absorbed: a set of versions
\* that takes in what x was read into, and what its own members were, has it.
TakesIn(x, S) == \A e \in edges : e[1] = x \/ Scope(e[1], e[2]) \in S => Scope(e[3], e[4]) \in S
LineageIsKept ==
    \A row \in rows : \A x \in row.absorbed : \A S \in SUBSET Derived :
        TakesIn(x, S) => Scope(row.id, row.version) \in S

MemoryInv ==
    /\ TypeOK /\ OneAtATime /\ DebtsAreGone /\ WritesFit /\ OpsAreReady
    /\ RowsAreWritten /\ DebtsAreTracked /\ KeptIsReadable /\ promised \subseteq destroyed
    /\ LineageIsKept /\ cascaded \subseteq forgotten /\ CascadeReaches

=============================================================================
