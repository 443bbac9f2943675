------------------------ MODULE EffectDispatchProofs ------------------------
(***************************************************************************)
(* What the effect protocol guarantees for any program of effects, any     *)
(* number of attempts, passes and records: every call is announced first,  *)
(* a mutation only an operator may resolve lands once, one that repeating  *)
(* could duplicate is repeated on recorded evidence only, a strict pass    *)
(* changes nothing, and a later pass follows the records: it never         *)
(* diverges, bills as they say, keeps doubt apart from failure and stacks  *)
(* no refusal.                                                             *)
(*                                                                         *)
(* The cursor is a fold over the records.  What is proved about it is what *)
(* one more record does to it, on the set of its slots; that the fold is   *)
(* defined at all is an induction over the records, by least               *)
(* counterexample.                                                         *)
(***************************************************************************)
EXTENDS EffectDispatch, TLAPS, WellFoundedInduction, NaturalsInduction, FiniteSetTheorems

-----------------------------------------------------------------------------
(* Numbers *)

\* A nonempty set of numbers has a least one.
LEMMA Least ==
    ASSUME NEW T, T \subseteq Nat, T # {}
    PROVE  \E n \in T : \A m \in T : n <= m
<1>1. PICK n \in T : \A m \in T : ~ (<<m, n>> \in OpToRel(<, Nat))
  BY WFMin, NatLessThanWellFounded, Zenon
<1>2. \A m \in T : ~(m < n)
  BY <1>1 DEF OpToRel
<1> QED
  BY <1>2

\* A nonempty set of numbers up to some bound has a greatest one, Max.
LEMMA MaxIs ==
    ASSUME NEW b \in Nat, NEW T, T \subseteq 0 .. b, T # {}
    PROVE  Max(T) \in T /\ \A m \in T : m <= Max(T)
<1> DEFINE U == {b - m : m \in T}
<1>1. U \subseteq Nat /\ U # {}
  <2>1. \A m \in T : b - m \in Nat
    OBVIOUS
  <2> QED
    BY <2>1
<1>2. PICK u \in U : \A v \in U : u <= v
  BY <1>1, Least
<1>3. PICK n \in T : u = b - n
  OBVIOUS
<1>4. \A m \in T : b - n <= b - m
  BY <1>2, <1>3
<1>5. \A m \in T : n >= m
  BY <1>4
<1> QED
  BY <1>5 DEF Max

\* The same for Min.
LEMMA MinIs ==
    ASSUME NEW T, T \subseteq Nat, T # {}
    PROVE  Min(T) \in T
<1>1. PICK n \in T : \A m \in T : n <= m
  BY Least
<1> QED
  BY <1>1 DEF Min

-----------------------------------------------------------------------------
(* The operators of the cursor, on sequences of slots *)

\* The newest slot of a key in some states.
LEMMA NewestIs ==
    ASSUME NEW slots \in Seq(Slots), NEW key, NEW states, NEW n, n = Newest(slots, key, states)
    PROVE  /\ n \in 0 .. Len(slots)
           /\ n # 0 => slots[n].key = key /\ slots[n].state \in states
           /\ \A i \in DOMAIN slots : slots[i].key = key /\ slots[i].state \in states => i <= n /\ n # 0
<1> DEFINE T == {0} \cup {i \in DOMAIN slots : slots[i].key = key /\ slots[i].state \in states}
<1>1. T \subseteq 0 .. Len(slots) /\ T # {} /\ Len(slots) \in Nat /\ DOMAIN slots = 1 .. Len(slots)
  OBVIOUS
<1>2. n = Max(T)
  BY DEF Newest
<1> HIDE DEF T
<1>3. Max(T) \in T /\ \A m \in T : m <= Max(T)
  BY <1>1, MaxIs
<1> QED
  BY <1>1, <1>2, <1>3 DEF T

\* Dropping the newest slot of a key in some states, where a key has one slot.
LEMMA DroppedIs ==
    ASSUME NEW slots \in Seq(Slots), OneSlotPerKey(slots), NEW key, NEW states
    PROVE  /\ Dropped(slots, key, states) \in Seq(Slots)
           /\ OneSlotPerKey(Dropped(slots, key, states))
           /\ ToSet(Dropped(slots, key, states)) =
                {s \in ToSet(slots) : ~(s.key = key /\ s.state \in states)}
<1>1. PICK at : at = Newest(slots, key, states)
  OBVIOUS
<1>2. /\ at \in 0 .. Len(slots)
      /\ at # 0 => slots[at].key = key /\ slots[at].state \in states
      /\ \A i \in DOMAIN slots : slots[i].key = key /\ slots[i].state \in states => i <= at /\ at # 0
  BY <1>1, NewestIs
<1>3. PICK n \in Nat : n = Len(slots) /\ DOMAIN slots = 1 .. n
  OBVIOUS
<1>4. PICK t : t = Dropped(slots, key, states)
  OBVIOUS
<1>5. CASE at = 0
  <2>1. t = [i \in 1 .. n |-> slots[i]]
    BY <1>1, <1>3, <1>4, <1>5 DEF Dropped
  <2>2. t = slots
    BY <2>1, <1>3
  <2> QED
    BY <2>2, <1>2, <1>3, <1>4, <1>5, ZenonT(30) DEF ToSet
<1>6. CASE at # 0
  <2>1. t = [i \in 1 .. n - 1 |-> slots[IF i < at THEN i ELSE i + 1]]
    BY <1>1, <1>3, <1>4, <1>6 DEF Dropped
  <2>2. n - 1 \in Nat /\ at \in 1 .. n
    BY <1>2, <1>3, <1>6
  <2>3. \A i \in 1 .. n - 1 : (IF i < at THEN i ELSE i + 1) \in 1 .. n
    BY <2>2
  <2>4. \A i \in 1 .. n : slots[i] \in Slots
    BY <1>3
  <2>5. t \in [1 .. n - 1 -> Slots]
    BY <2>1, <2>3, <2>4
  <2>6. t \in Seq(Slots) /\ DOMAIN t = 1 .. n - 1
    BY <2>2, <2>5
  <2>7. OneSlotPerKey(t)
    <3> SUFFICES ASSUME NEW i \in 1 .. n - 1, NEW j \in 1 .. n - 1, t[i].key = t[j].key
                 PROVE  i = j
      BY <2>6 DEF OneSlotPerKey
    <3>1. PICK x \in 1 .. n : x = (IF i < at THEN i ELSE i + 1) /\ t[i] = slots[x]
      BY <2>1, <2>3
    <3>2. PICK y \in 1 .. n : y = (IF j < at THEN j ELSE j + 1) /\ t[j] = slots[y]
      BY <2>1, <2>3
    <3>3. x = y
      BY <3>1, <3>2, <1>3 DEF OneSlotPerKey
    <3> QED
      BY <3>1, <3>2, <3>3, <2>2
  <2>8. \A i \in 1 .. n : i # at => ~(slots[i].key = key /\ slots[i].state \in states)
    BY <1>2, <1>3, <1>6 DEF OneSlotPerKey
  <2>9. ToSet(t) \subseteq {s \in ToSet(slots) : ~(s.key = key /\ s.state \in states)}
    <3> SUFFICES ASSUME NEW i \in 1 .. n - 1
                 PROVE  t[i] \in ToSet(slots) /\ ~(t[i].key = key /\ t[i].state \in states)
      BY <2>6 DEF ToSet
    <3>1. PICK j \in 1 .. n : t[i] = slots[j] /\ j # at
      BY <2>1, <2>2
    <3> QED
      BY <3>1, <2>8, <1>3 DEF ToSet
  <2>10. {s \in ToSet(slots) : ~(s.key = key /\ s.state \in states)} \subseteq ToSet(t)
    <3> SUFFICES ASSUME NEW j \in 1 .. n, ~(slots[j].key = key /\ slots[j].state \in states)
                 PROVE  slots[j] \in ToSet(t)
      BY <1>3 DEF ToSet
    <3>1. j # at
      BY <1>2, <1>6
    <3>2. CASE j < at
      <4>1. j \in 1 .. n - 1 /\ t[j] = slots[j]
        BY <3>2, <2>1, <2>2
      <4> QED
        BY <4>1, <2>6 DEF ToSet
    <3>3. CASE j > at
      <4>1. j - 1 \in 1 .. n - 1 /\ t[j - 1] = slots[j]
        BY <3>3, <2>1, <2>2
      <4> QED
        BY <4>1, <2>6 DEF ToSet
    <3> QED
      BY <3>1, <3>2, <3>3, <2>2
  <2> QED
    BY <2>6, <2>7, <2>9, <2>10, <1>4
<1> QED
  BY <1>5, <1>6

\* Opening a position that has no slot but a withholding.
LEMMA OpenIs ==
    ASSUME NEW slots \in Seq(Slots), OneSlotPerKey(slots), NEW key \in Nat \X Nat,
           NEW state \in States, \A s \in ToSet(slots) : s.key = key => s.state = "Withheld"
    PROVE  /\ Open(slots, key, state) \in Seq(Slots)
           /\ OneSlotPerKey(Open(slots, key, state))
           /\ ToSet(Open(slots, key, state)) =
                {s \in ToSet(slots) : s.key # key} \cup {Slot(key, state, FALSE, 0)}
<1>1. PICK t : t = SupersedeWithheld(slots, key)
  OBVIOUS
<1>2. /\ t \in Seq(Slots) /\ OneSlotPerKey(t)
      /\ ToSet(t) = {s \in ToSet(slots) : ~(s.key = key /\ s.state \in {"Withheld"})}
  BY <1>1, DroppedIs DEF SupersedeWithheld
<1>3. ToSet(t) = {s \in ToSet(slots) : s.key # key}
  BY <1>2
<1>4. PICK x : x = Slot(key, state, FALSE, 0)
  OBVIOUS
<1>5. x \in Slots /\ x.key = key
  BY <1>4 DEF Slot, Slots
<1>6. PICK n \in Nat : n = Len(t) /\ DOMAIN t = 1 .. n
  BY <1>2
<1>7. PICK u : u = Append(t, x)
  OBVIOUS
<1>8. u \in Seq(Slots) /\ DOMAIN u = 1 .. n + 1 /\ u[n + 1] = x /\ \A i \in 1 .. n : u[i] = t[i]
  BY <1>2, <1>5, <1>6, <1>7
<1>9. ToSet(u) = ToSet(t) \cup {x}
  BY <1>6, <1>8 DEF ToSet
<1>10. \A i \in 1 .. n : t[i].key # key
  BY <1>3, <1>6 DEF ToSet
<1>11. OneSlotPerKey(u)
  BY <1>2, <1>5, <1>6, <1>8, <1>10 DEF OneSlotPerKey
<1> QED
  BY <1>1, <1>3, <1>4, <1>7, <1>8, <1>9, <1>11 DEF Open

\* Settling a position that has a slot.
LEMMA SettleIs ==
    ASSUME NEW slots \in Seq(Slots), OneSlotPerKey(slots), NEW key \in Nat \X Nat,
           NEW state \in States, NEW perm \in BOOLEAN, NEW spend \in Nat,
           NEW old \in ToSet(slots), old.key = key
    PROVE  /\ Settle(slots, key, state, perm, spend) \in Seq(Slots)
           /\ OneSlotPerKey(Settle(slots, key, state, perm, spend))
           /\ ToSet(Settle(slots, key, state, perm, spend)) =
                {s \in ToSet(slots) : s.key # key} \cup {Slot(key, state, perm, spend + old.spend)}
<1>1. PICK at : at = Newest(slots, key, States)
  OBVIOUS
<1>2. PICK n \in Nat : n = Len(slots) /\ DOMAIN slots = 1 .. n
  OBVIOUS
<1>3. \A i \in 1 .. n : slots[i] \in Slots /\ slots[i].state \in States /\ slots[i].spend \in Nat
  <2> TAKE i \in 1 .. n
  <2>1. slots[i] \in Slots
    BY <1>2
  <2> QED
    BY <2>1 DEF Slots
<1>4. PICK m \in 1 .. n : slots[m] = old
  BY <1>2 DEF ToSet
<1>5. at = m
  <2>1. at \in 0 .. n /\ (at # 0 => slots[at].key = key) /\ m <= at /\ at # 0
    BY <1>1, <1>2, <1>3, <1>4, NewestIs
  <2> QED
    BY <2>1, <1>2, <1>4 DEF OneSlotPerKey
<1>6. PICK x : x = Slot(key, state, perm, spend + old.spend)
  OBVIOUS
<1>7. x \in Slots /\ x.key = key
  BY <1>3, <1>4, <1>6, SMTT(30) DEF Slot, Slots
<1>8. PICK t : t = Settle(slots, key, state, perm, spend)
  OBVIOUS
<1>9. t = [i \in 1 .. n |-> IF i = m THEN x ELSE slots[i]]
  BY <1>1, <1>2, <1>4, <1>5, <1>6, <1>8 DEF Settle
<1>10. t \in [1 .. n -> Slots]
  BY <1>3, <1>7, <1>9
<1>11. t \in Seq(Slots) /\ DOMAIN t = 1 .. n
  BY <1>10
<1>12. OneSlotPerKey(t)
  BY <1>2, <1>4, <1>7, <1>9, <1>11 DEF OneSlotPerKey
<1>13. \A i \in 1 .. n : i # m => slots[i].key # key
  BY <1>2, <1>4 DEF OneSlotPerKey
<1>14. ToSet(t) = {s \in ToSet(slots) : s.key # key} \cup {x}
  BY <1>2, <1>4, <1>9, <1>11, <1>13 DEF ToSet
<1> QED
  BY <1>6, <1>8, <1>11, <1>12, <1>14

\* Re-admitting a position.
LEMMA ReadmitIs ==
    ASSUME NEW slots \in Seq(Slots), OneSlotPerKey(slots), NEW key
    PROVE  /\ Readmit(slots, key) \in Seq(Slots)
           /\ OneSlotPerKey(Readmit(slots, key))
           /\ ToSet(Readmit(slots, key)) =
                {s \in ToSet(slots) : ~(s.key = key /\ s.state \in {"Withheld", "Refused"})}
<1>1. PICK t : t = SupersedeWithheld(slots, key)
  OBVIOUS
<1>2. /\ t \in Seq(Slots) /\ OneSlotPerKey(t)
      /\ ToSet(t) = {s \in ToSet(slots) : ~(s.key = key /\ s.state \in {"Withheld"})}
  BY <1>1, DroppedIs DEF SupersedeWithheld
<1>3. PICK u : u = Dropped(t, key, {"Refused"})
  OBVIOUS
<1>4. /\ u \in Seq(Slots) /\ OneSlotPerKey(u)
      /\ ToSet(u) = {s \in ToSet(t) : ~(s.key = key /\ s.state \in {"Refused"})}
  BY <1>2, <1>3, DroppedIs
<1>5. ToSet(u) = {s \in ToSet(slots) : ~(s.key = key /\ s.state \in {"Withheld", "Refused"})}
  BY <1>2, <1>4
<1> QED
  BY <1>1, <1>3, <1>4, <1>5 DEF Readmit

-----------------------------------------------------------------------------
(* The folds, one record at a time *)

\* f is the cursor after each of the first n records; d what is in doubt.
Follows(f, records, n) ==
    f = [m \in 0 .. n |-> IF m = 0 THEN <<>> ELSE Apply(f[m - 1], records[m])]
Doubts(d, mutating, records, n) ==
    d = [m \in 0 .. n |-> IF m = 0 THEN [open |-> {}, doubts |-> {}]
                          ELSE DoubtAfter(mutating, d[m - 1], records[m])]

\* The fold of the cursor is defined.
LEMMA CursorExists ==
    ASSUME NEW S, NEW records \in Seq(S)
    PROVE  Follows(CursorAfter(records), records, Len(records))
<1> DEFINE Bad == {n \in Nat : ~ \E f : Follows(f, records, n)}
<1>1. Bad = {}
  <2>1. SUFFICES ASSUME Bad # {} PROVE FALSE
    OBVIOUS
  <2>2. PICK n \in Bad : \A m \in Bad : n <= m
    BY <2>1, Least
  <2>3. n # 0
    <3>1. Follows([m \in 0 .. 0 |-> <<>>], records, 0)
      BY DEF Follows
    <3> QED
      BY <3>1
  <2>4. n - 1 \in Nat /\ n - 1 \notin Bad
    BY <2>2, <2>3
  <2>5. PICK f : Follows(f, records, n - 1)
    BY <2>4
  <2> DEFINE g == [m \in 0 .. n |-> IF m = n THEN Apply(f[n - 1], records[n]) ELSE f[m]]
  <2>6. \A m \in 0 .. n - 1 : f[m] = IF m = 0 THEN <<>> ELSE Apply(f[m - 1], records[m])
    BY <2>5, <2>4 DEF Follows
  <2>7. \A m \in 0 .. n : g[m] = IF m = 0 THEN <<>> ELSE Apply(g[m - 1], records[m])
    <3> TAKE m \in 0 .. n
    <3>1. CASE m = n
      BY <3>1, <2>3, <2>4
    <3>2. CASE m # n /\ m # 0
      <4>1. m \in 0 .. n - 1 /\ m - 1 \in 0 .. n /\ m - 1 # n
        BY <3>2, <2>4
      <4> QED
        BY <4>1, <2>6, <3>2
    <3>3. CASE m # n /\ m = 0
      BY <3>3, <2>6, <2>4
    <3> QED
      BY <3>1, <3>2, <3>3
  <2>8. Follows(g, records, n)
    BY <2>7 DEF Follows
  <2> QED
    BY <2>8
<1>2. Len(records) \in Nat
  OBVIOUS
<1>3. PICK f : Follows(f, records, Len(records))
  BY <1>1, <1>2
<1> QED
  BY <1>3 DEF Follows, CursorAfter

\* The fold of the doubts is defined.
LEMMA DoubtsExist ==
    ASSUME NEW S, NEW records \in Seq(S), NEW mutating
    PROVE  Doubts(Undecided(mutating, records), mutating, records, Len(records))
<1> DEFINE none == [open |-> {}, doubts |-> {}]
           Bad == {n \in Nat : ~ \E f : Doubts(f, mutating, records, n)}
<1>1. Bad = {}
  <2>1. SUFFICES ASSUME Bad # {} PROVE FALSE
    OBVIOUS
  <2>2. PICK n \in Bad : \A m \in Bad : n <= m
    BY <2>1, Least
  <2>3. n # 0
    <3>1. Doubts([m \in 0 .. 0 |-> none], mutating, records, 0)
      BY DEF Doubts
    <3> QED
      BY <3>1
  <2>4. n - 1 \in Nat /\ n - 1 \notin Bad
    BY <2>2, <2>3
  <2>5. PICK f : Doubts(f, mutating, records, n - 1)
    BY <2>4
  <2> DEFINE g == [m \in 0 .. n |-> IF m = n THEN DoubtAfter(mutating, f[n - 1], records[n]) ELSE f[m]]
  <2>6. \A m \in 0 .. n - 1 : f[m] = IF m = 0 THEN none ELSE DoubtAfter(mutating, f[m - 1], records[m])
    BY <2>5, <2>4 DEF Doubts
  <2>7. \A m \in 0 .. n : g[m] = IF m = 0 THEN none ELSE DoubtAfter(mutating, g[m - 1], records[m])
    <3> HIDE DEF none
    <3> TAKE m \in 0 .. n
    <3>1. CASE m = n
      BY <3>1, <2>3, <2>4
    <3>2. CASE m # n /\ m # 0
      <4>1. m \in 0 .. n - 1 /\ m - 1 \in 0 .. n /\ m - 1 # n
        BY <3>2, <2>4
      <4> QED
        BY <4>1, <2>6, <3>2
    <3>3. CASE m # n /\ m = 0
      BY <3>3, <2>6, <2>4
    <3> QED
      BY <3>1, <3>2, <3>3
  <2>8. Doubts(g, mutating, records, n)
    BY <2>7 DEF Doubts
  <2> QED
    BY <2>8
<1>2. Len(records) \in Nat
  OBVIOUS
<1>3. PICK f : Doubts(f, mutating, records, Len(records))
  BY <1>1, <1>2
<1> QED
  BY <1>3 DEF Doubts, Undecided

\* One more record is applied to the cursor the others left.
LEMMA CursorGrows ==
    ASSUME NEW S, NEW records \in Seq(S), NEW r \in S
    PROVE  FromRecords(Append(records, r)) = Apply(FromRecords(records), r)
<1> DEFINE n == Len(records)
           more == Append(records, r)
           f == CursorAfter(records)
           g == CursorAfter(more)
           Bad == {m \in 0 .. n : f[m] # g[m]}
<1>1. n \in Nat /\ more \in Seq(S) /\ Len(more) = n + 1 /\ more[n + 1] = r
      /\ \A m \in 1 .. n : more[m] = records[m]
  OBVIOUS
<1>2. Follows(f, records, n) /\ Follows(g, more, n + 1)
  BY <1>1, CursorExists
<1> HIDE DEF f, g, n, more
<1>3. /\ \A m \in 0 .. n : f[m] = IF m = 0 THEN <<>> ELSE Apply(f[m - 1], records[m])
      /\ \A m \in 0 .. n + 1 : g[m] = IF m = 0 THEN <<>> ELSE Apply(g[m - 1], more[m])
  BY <1>2 DEF Follows
<1>4. Bad = {}
  <2>1. SUFFICES ASSUME Bad # {} PROVE FALSE
    OBVIOUS
  <2>2. Bad \subseteq Nat
    OBVIOUS
  <2>3. PICK m \in Bad : \A k \in Bad : m <= k
    BY <2>1, <2>2, Least
  <2>4. m \in 0 .. n /\ f[m] # g[m]
    OBVIOUS
  <2>5. m # 0
    BY <2>4, <1>1, <1>3
  <2>6. m - 1 \in 0 .. n /\ m - 1 \notin Bad
    BY <2>3, <2>4, <2>5, <1>1
  <2>7. f[m - 1] = g[m - 1]
    BY <2>6
  <2>8. f[m] = Apply(f[m - 1], records[m]) /\ g[m] = Apply(g[m - 1], records[m])
    BY <2>4, <2>5, <1>1, <1>3
  <2> QED
    BY <2>4, <2>7, <2>8
<1>5. f[n] = g[n]
  BY <1>1, <1>4
<1>6. g[n + 1] = Apply(g[n], r)
  BY <1>1, <1>3
<1> QED
  BY <1>1, <1>5, <1>6 DEF FromRecords, f, g, n, more

\* One more record is applied to the doubts the others left.
LEMMA DoubtsGrow ==
    ASSUME NEW S, NEW records \in Seq(S), NEW mutating, NEW r \in S
    PROVE  Undecided(mutating, Append(records, r))[Len(Append(records, r))]
                = DoubtAfter(mutating, Undecided(mutating, records)[Len(records)], r)
<1> DEFINE n == Len(records)
           none == [open |-> {}, doubts |-> {}]
           more == Append(records, r)
           f == Undecided(mutating, records)
           g == Undecided(mutating, more)
           Bad == {m \in 0 .. n : f[m] # g[m]}
<1>1. n \in Nat /\ more \in Seq(S) /\ Len(more) = n + 1 /\ more[n + 1] = r
      /\ \A m \in 1 .. n : more[m] = records[m]
  OBVIOUS
<1>2. Doubts(f, mutating, records, n) /\ Doubts(g, mutating, more, n + 1)
  BY <1>1, DoubtsExist
<1> HIDE DEF f, g, n, more
<1>3. /\ \A m \in 0 .. n : f[m] = IF m = 0 THEN none ELSE DoubtAfter(mutating, f[m - 1], records[m])
      /\ \A m \in 0 .. n + 1 : g[m] = IF m = 0 THEN none ELSE DoubtAfter(mutating, g[m - 1], more[m])
  BY <1>2 DEF Doubts
<1> HIDE DEF none
<1>4. Bad = {}
  <2>1. SUFFICES ASSUME Bad # {} PROVE FALSE
    OBVIOUS
  <2>2. Bad \subseteq Nat
    OBVIOUS
  <2>3. PICK m \in Bad : \A k \in Bad : m <= k
    BY <2>1, <2>2, Least
  <2>4. m \in 0 .. n /\ f[m] # g[m]
    OBVIOUS
  <2>5. m # 0
    BY <2>4, <1>1, <1>3
  <2>6. m - 1 \in 0 .. n /\ m - 1 \notin Bad
    BY <2>3, <2>4, <2>5, <1>1
  <2>7. f[m - 1] = g[m - 1]
    BY <2>6
  <2>8. f[m] = DoubtAfter(mutating, f[m - 1], records[m]) /\ g[m] = DoubtAfter(mutating, g[m - 1], records[m])
    BY <2>4, <2>5, <1>1, <1>3
  <2> QED
    BY <2>4, <2>7, <2>8
<1>5. f[n] = g[n]
  BY <1>1, <1>4
<1>6. g[n + 1] = DoubtAfter(mutating, g[n], r)
  BY <1>1, <1>3
<1> QED
  BY <1>1, <1>5, <1>6 DEF f, g, n, more

\* Before the first record there is nothing.
LEMMA NothingYet ==
    ASSUME NEW mutating
    PROVE  FromRecords(<<>>) = <<>> /\ Undecided(mutating, <<>>)[Len(<<>>)] = [open |-> {}, doubts |-> {}]
<1>1. <<>> \in Seq({}) /\ Len(<<>>) = 0
  OBVIOUS
<1>2. Follows(CursorAfter(<<>>), <<>>, 0) /\ Doubts(Undecided(mutating, <<>>), mutating, <<>>, 0)
  BY <1>1, CursorExists, DoubtsExist
<1>3. CursorAfter(<<>>)[0] = <<>>
  BY <1>2 DEF Follows
<1>4. Undecided(mutating, <<>>)[0] = [open |-> {}, doubts |-> {}]
  <2> DEFINE none == [open |-> {}, doubts |-> {}]
             d == Undecided(mutating, <<>>)
  <2>1. d = [m \in 0 .. 0 |-> IF m = 0 THEN none ELSE DoubtAfter(mutating, d[m - 1], <<>>[m])]
    BY <1>2 DEF Doubts
  <2> HIDE DEF none, d
  <2>2. d[0] = none
    BY <2>1
  <2> QED
    BY <2>2 DEF none, d
<1> QED
  BY <1>1, <1>3, <1>4 DEF FromRecords

-----------------------------------------------------------------------------
(* What a record does to what the journal says *)

Journalled == CursorIsSound /\ CursorHasOutcomes /\ RetriedOnEvidence /\ DoubtsAreSlots

\* The step a run executes does not change.
LEMMA SameProgram ==
    ASSUME setting' = setting
    PROVE  /\ Keys' = Keys /\ Mutating' = Mutating
           /\ \A k : Declared(k)' = Declared(k)
           /\ \A k : (Guarded(k)' <=> Guarded(k)) /\ (OnlyOperator(k)' <=> OnlyOperator(k))
BY DEF Keys, Effects, Attempts, MaxAttempts, Program, Mutating, Declared, Guarded, OnlyOperator

\* A key is a pair of numbers from one, and a mutating one is listed as such.
LEMMA KeyIs ==
    ASSUME setting \in Settings, NEW k \in Keys
    PROVE  /\ k \in Nat \X Nat /\ k = <<k[1], k[2]>>
           /\ k[1] \in 1 .. Len(Program) /\ k[2] \in 1 .. MaxAttempts
           /\ Declared(k) \in [recovery : Recoveries, mutates : BOOLEAN, bound : BOOLEAN]
           /\ k[1] \in Mutating <=> Declared(k).mutates
<1> DEFINE S == [recovery : Recoveries, mutates : BOOLEAN, bound : BOOLEAN]
<1>1. Program \in Seq(S) /\ MaxAttempts \in Nat
  BY DispatchAssumption DEF IsSetting, Program, MaxAttempts
<1>2. PICK n \in Nat : n = Len(Program) /\ DOMAIN Program = 1 .. n
  BY <1>1
<1>3. k \in (1 .. n) \X (1 .. MaxAttempts)
  BY <1>2 DEF Keys, Effects, Attempts
<1>4. k[1] \in 1 .. n /\ k[2] \in 1 .. MaxAttempts /\ k = <<k[1], k[2]>>
  BY <1>3
<1>5. k[1] \in Nat /\ k[2] \in Nat
  BY <1>4, <1>1, <1>2
<1>6. Program[k[1]] \in S
  <2> HIDE DEF S
  <2> QED
    BY <1>1, <1>2, <1>4
<1> QED
  BY <1>2, <1>4, <1>5, <1>6 DEF Declared, Mutating, Effects

\* One more record.
LEMMA RecordsGrow ==
    ASSUME journal \in Seq(Records), NEW r \in Records, journal' = Append(journal, r), setting' = setting
    PROVE  /\ journal' \in Seq(Records)
           /\ Cursor' = Apply(Cursor, r)
           /\ Listed' = DoubtAfter(Mutating, Listed, r)
           /\ \A k : Announced(k)' <=> Announced(k) \/ (r.kind = "EffectStarted" /\ r.key = k)
           /\ \A k : HasOutcome(k)' <=> HasOutcome(k) \/ (r.kind \in Outcomes /\ r.key = k)
           /\ \A k : LastDenied(k) /\ ~(r.kind \in Outcomes /\ r.key = k) => LastDenied(k)'
           /\ \A k : r.kind \in Outcomes /\ r.key = k /\ r.says = "DidNotHappen" => LastDenied(k)'
<1>1. PICK n \in Nat : n = Len(journal) /\ DOMAIN journal = 1 .. n
  OBVIOUS
<1>2. PICK j : j = journal'
  OBVIOUS
<1>3. /\ j \in Seq(Records) /\ DOMAIN j = 1 .. n + 1 /\ j[n + 1] = r
      /\ \A i \in 1 .. n : j[i] = journal[i]
  BY <1>1, <1>2
<1>4. Cursor' = Apply(Cursor, r)
  BY CursorGrows DEF Cursor
<1>5. Listed' = DoubtAfter(Mutating, Listed, r)
  BY DoubtsGrow, SameProgram DEF Listed
<1>6. \A k : Announced(k)' <=> Announced(k) \/ (r.kind = "EffectStarted" /\ r.key = k)
  BY <1>1, <1>2, <1>3 DEF Announced, Positions
<1>7. \A k : HasOutcome(k)' <=> HasOutcome(k) \/ (r.kind \in Outcomes /\ r.key = k)
  BY <1>1, <1>2, <1>3 DEF HasOutcome, OutcomeOf
<1>8. ASSUME NEW k, LastDenied(k), ~(r.kind \in Outcomes /\ r.key = k)
      PROVE  LastDenied(k)'
  <2>1. PICK i \in 1 .. n : /\ OutcomeOf(i, k) /\ journal[i].says = "DidNotHappen"
                            /\ \A m \in 1 .. n : OutcomeOf(m, k) => m <= i
    BY <1>1, <1>8 DEF LastDenied
  <2>2. i \in 1 .. n + 1 /\ j[i].kind \in Outcomes /\ j[i].key = k /\ j[i].says = "DidNotHappen"
    BY <1>3, <2>1 DEF OutcomeOf
  <2>3. \A m \in 1 .. n + 1 : j[m].kind \in Outcomes /\ j[m].key = k => m <= i
    <3> SUFFICES ASSUME NEW m \in 1 .. n + 1, j[m].kind \in Outcomes, j[m].key = k PROVE m <= i
      OBVIOUS
    <3>1. m # n + 1
      BY <1>3, <1>8
    <3>2. m \in 1 .. n /\ j[m] = journal[m]
      BY <1>3, <3>1
    <3> QED
      BY <2>1, <3>2 DEF OutcomeOf
  <2> QED
    BY <1>2, <1>3, <2>2, <2>3 DEF LastDenied, OutcomeOf
<1>9. ASSUME NEW k, r.kind \in Outcomes, r.key = k, r.says = "DidNotHappen"
      PROVE  LastDenied(k)'
  BY <1>2, <1>3, <1>9 DEF LastDenied, OutcomeOf
<1> QED
  BY <1>2, <1>3, <1>4, <1>5, <1>6, <1>7, <1>8, <1>9

\* A record about no effect leaves the cursor and the doubts alone.
LEMMA NotesChangeNothing ==
    ASSUME journal \in Seq(Records), Journalled, NEW r \in Records, journal' = Append(journal, r),
           setting' = setting, r.kind \notin OfEffects
    PROVE  Journalled' /\ Cursor' = Cursor /\ Known' = Known /\ (\A k : Announced(k)' <=> Announced(k))
<1>1. Cursor' = Cursor
  BY RecordsGrow DEF Apply, OfEffects, Outcomes
<1>2. Listed' = Listed
  BY RecordsGrow DEF DoubtAfter, OfEffects, Outcomes
<1>3. Known' = Known
  BY <1>1 DEF Known
<1>4. /\ \A k : Announced(k)' <=> Announced(k)
      /\ \A k : HasOutcome(k)' <=> HasOutcome(k)
      /\ \A k : LastDenied(k) => LastDenied(k)'
  BY RecordsGrow DEF OfEffects, Outcomes
<1>5. UndecidedEffects' = UndecidedEffects
  BY <1>2 DEF UndecidedEffects
<1>6. CursorIsSound'
  BY <1>1, <1>3, <1>4, SameProgram DEF Journalled, CursorIsSound
<1>7. CursorHasOutcomes'
  BY <1>3, <1>4, SameProgram DEF Journalled, CursorHasOutcomes
<1>8. RetriedOnEvidence'
  BY <1>3, SameProgram DEF Journalled, RetriedOnEvidence
<1>9. DoubtsAreSlots'
  BY <1>2, <1>3, <1>4, <1>5, SameProgram DEF Journalled, DoubtsAreSlots
<1> QED
  BY <1>1, <1>3, <1>4, <1>6, <1>7, <1>8, <1>9 DEF Journalled

\* What it takes for one slot to be replaced and the journal to stay sound.
Replaces(k, new) ==
    /\ new \in Slots /\ new.key = k
    /\ Cursor' \in Seq(Slots) /\ OneSlotPerKey(Cursor')
    /\ Known' = {s \in Known : s.key # k} \cup {new}
AgreesWith(k, new) ==
    /\ Announced(k)' <=> new.state \in Answerable
    /\ new.state = "DidNotHappen" => LastDenied(k)'
    /\ HasOutcome(k)' => new.state \in Dispositions
    /\ Guarded(k) => \A s \in Known : s.key[1] = k[1] /\ s.key # k =>
                            s.key[2] < k[2] /\ s.state = "DidNotHappen"
    /\ k \in UndecidedEffects' => Announced(k)'
    /\ Guarded(k) => /\ k \in Listed'.open => new.state = "Orphan"
                     /\ k \in Listed'.doubts => new.state = "InDoubt"
OthersStay(k) ==
    /\ Listed' \in [open : SUBSET Keys, doubts : SUBSET Keys]
    /\ \A q : q # k =>
        /\ Announced(q)' <=> Announced(q)
        /\ LastDenied(q) => LastDenied(q)'
        /\ HasOutcome(q)' <=> HasOutcome(q)
        /\ q \in Listed'.open => q \in Listed.open
        /\ q \in Listed'.doubts => q \in Listed.doubts

\* Whether a mutation is guarded depends on the effect alone.
LEMMA GuardedByEffect ==
    ASSUME NEW k, NEW q, k[1] = q[1]
    PROVE  Guarded(k) <=> Guarded(q)
BY DEF Guarded, Declared

\* One slot is replaced, the others and what is said of them stay.
LEMMA SlotReplaced ==
    ASSUME Journalled, setting \in Settings, setting' = setting, NEW k \in Keys, NEW new,
           Replaces(k, new), AgreesWith(k, new), OthersStay(k)
    PROVE  Journalled'
<1>1. Keys' = Keys /\ \A q : Guarded(q)' <=> Guarded(q)
  BY SameProgram
<1>2. \A s \in Known : s.key \in Keys
  BY DEF Journalled, CursorIsSound
<1>3. \A s \in Known' : s = new \/ (s \in Known /\ s.key # k)
  BY DEF Replaces
<1>4. new \in Known' /\ new.key = k /\ \A s \in Known : s.key # k => s \in Known'
  BY DEF Replaces
<1>5. CursorIsSound'
  <2>1. \A s \in Known' : s.key \in Keys
    BY <1>2, <1>3, <1>4
  <2>2. ASSUME NEW q \in Keys
        PROVE  Announced(q)' <=> \E s \in Known' : s.key = q /\ s.state \in Answerable
    <3>1. CASE q = k
      BY <1>3, <1>4, <3>1 DEF AgreesWith
    <3>2. CASE q # k
      <4>1. Announced(q) <=> \E s \in Known : s.key = q /\ s.state \in Answerable
        BY DEF Journalled, CursorIsSound
      <4> QED
        BY <1>3, <1>4, <3>2, <4>1 DEF OthersStay
    <3> QED
      BY <3>1, <3>2
  <2> QED
    BY <2>1, <2>2, <1>1 DEF CursorIsSound, Replaces
<1>6. CursorHasOutcomes'
  <2>1. ASSUME NEW s \in Known', s.state = "DidNotHappen" PROVE LastDenied(s.key)'
    BY <1>3, <1>4, <2>1 DEF AgreesWith, OthersStay, Journalled, CursorHasOutcomes
  <2>2. ASSUME NEW q \in Keys, HasOutcome(q)'
        PROVE  \E s \in Known' : s.key = q /\ s.state \in Dispositions
    <3>1. CASE q = k
      BY <1>4, <2>2, <3>1 DEF AgreesWith
    <3>2. CASE q # k
      BY <1>4, <2>2, <3>2 DEF OthersStay, Journalled, CursorHasOutcomes
    <3> QED
      BY <3>1, <3>2
  <2>3. \A s \in Known' : s.state = "DidNotHappen" => LastDenied(s.key)'
    BY <2>1
  <2> QED
    BY <2>2, <2>3, <1>1 DEF CursorHasOutcomes
<1>7. RetriedOnEvidence'
  <2> SUFFICES ASSUME NEW s \in Known', NEW t \in Known', Guarded(s.key),
                      s.key[1] = t.key[1], s.key[2] < t.key[2]
               PROVE  s.state = "DidNotHappen"
    BY <1>1 DEF RetriedOnEvidence
  <2>1. Guarded(t.key)
    BY GuardedByEffect
  <2>2. CASE s = new
    <3>1. t # new
      <4>1. new.key[2] \in Nat
        BY KeyIs, <1>4
      <4> QED
        BY <4>1, <2>2
    <3>2. t \in Known /\ t.key # k /\ t.key[1] = k[1]
      BY <1>3, <1>4, <2>2, <3>1
    <3>3. t.key[2] < k[2] /\ k[2] < t.key[2] /\ t.key \in Keys
      BY <1>2, <1>4, <2>2, <3>2 DEF AgreesWith
    <3>4. t.key[2] \in Nat /\ k[2] \in Nat
      BY <3>3, KeyIs
    <3> QED
      BY <3>3, <3>4
  <2>3. CASE s # new /\ t = new
    BY <1>3, <1>4, <2>1, <2>3 DEF AgreesWith
  <2>4. CASE s # new /\ t # new
    BY <1>3, <2>4 DEF Journalled, RetriedOnEvidence
  <2> QED
    BY <2>2, <2>3, <2>4
<1>8. DoubtsAreSlots'
  <2>1. ASSUME NEW q \in UndecidedEffects' PROVE Announced(q)'
    <3>1. CASE q = k
      BY <2>1, <3>1 DEF AgreesWith
    <3>2. CASE q # k
      <4>1. q \in UndecidedEffects
        BY <2>1, <3>2 DEF OthersStay, UndecidedEffects
      <4> QED
        BY <3>2, <4>1 DEF OthersStay, Journalled, DoubtsAreSlots
    <3> QED
      BY <3>1, <3>2
  <2>2. ASSUME NEW s \in Known', Guarded(s.key)
        PROVE  (s.key \in Listed'.open => s.state = "Orphan") /\ (s.key \in Listed'.doubts => s.state = "InDoubt")
    <3>1. CASE s = new
      BY <1>4, <2>2, <3>1 DEF AgreesWith
    <3>2. CASE s # new
      BY <1>3, <2>2, <3>2 DEF OthersStay, Journalled, DoubtsAreSlots
    <3> QED
      BY <3>1, <3>2
  <2> QED
    BY <2>1, <2>2, <1>1 DEF DoubtsAreSlots, OthersStay
<1> QED
  BY <1>5, <1>6, <1>7, <1>8 DEF Journalled

\* The kinds of record that open a position, and the state they open it in.
Opening == {<<"EffectStarted", "Orphan">>, <<"BudgetRefused", "Refused">>,
            <<"AuthorityWithheld", "Withheld">>, <<"PolicyDenied", "Denied">>}

\* A position is opened that has no slot but a withholding, behind attempts that
\* did not happen.
LEMMA OpenedSoundly ==
    ASSUME journal \in Seq(Records), Journalled, setting \in Settings, setting' = setting,
           NEW k \in Keys, NEW kind, NEW state, <<kind, state>> \in Opening,
           journal' = Append(journal, Plain(kind, k, None)),
           \A s \in Known : s.key = k => s.state = "Withheld",
           Guarded(k) => \A s \in Known : s.key[1] = k[1] /\ s.key # k =>
                                s.key[2] < k[2] /\ s.state = "DidNotHappen"
    PROVE  /\ Journalled'
           /\ Known' = {s \in Known : s.key # k} \cup {Slot(k, state, FALSE, 0)}
           /\ \A q : Announced(q) => Announced(q)'
<1>1. PICK r : r = Plain(kind, k, None)
  OBVIOUS
<1>2. r \in Records /\ r.kind = kind /\ r.key = k
  BY <1>1, KeyIs DEF Plain, Rec, Records, Opening, OfEffects
<1>3. k \in Nat \X Nat /\ state \in States /\ k[1] \in Mutating \cup {k[1]}
  BY KeyIs DEF Opening, States
<1>4. Cursor' = Open(Cursor, k, state)
  BY <1>1, <1>2, RecordsGrow DEF Apply, Opening
<1>5. Cursor \in Seq(Slots) /\ OneSlotPerKey(Cursor)
  BY DEF Journalled, CursorIsSound
<1>6. /\ Cursor' \in Seq(Slots) /\ OneSlotPerKey(Cursor')
      /\ Known' = {s \in Known : s.key # k} \cup {Slot(k, state, FALSE, 0)}
  BY <1>3, <1>4, <1>5, OpenIs DEF Known
<1>7. PICK new : new = Slot(k, state, FALSE, 0)
  OBVIOUS
<1>8. new \in Slots /\ new.key = k /\ new.state = state
  BY <1>3, <1>7 DEF Slot, Slots
<1>9. Replaces(k, new)
  BY <1>6, <1>7, <1>8 DEF Replaces
<1>10. Listed \in [open : SUBSET Keys, doubts : SUBSET Keys]
  BY DEF Journalled, DoubtsAreSlots
<1>11. /\ Listed' \in [open : SUBSET Keys, doubts : SUBSET Keys]
       /\ Listed'.doubts = Listed.doubts
       /\ Listed'.open \subseteq Listed.open \cup {k}
       /\ kind # "EffectStarted" => Listed' = Listed
  <2>1. Listed' = IF kind = "EffectStarted" /\ k[1] \in Mutating
                  THEN [Listed EXCEPT !.open = @ \cup {k}] ELSE Listed
    BY <1>1, <1>2, RecordsGrow DEF DoubtAfter, Opening
  <2> QED
    BY <2>1, <1>10
<1>12. /\ \A q : Announced(q)' <=> Announced(q) \/ (kind = "EffectStarted" /\ q = k)
       /\ \A q : HasOutcome(q)' <=> HasOutcome(q)
       /\ \A q : LastDenied(q) => LastDenied(q)'
  BY <1>1, <1>2, RecordsGrow DEF Opening, Outcomes
<1>13. ~Announced(k) /\ ~HasOutcome(k)
  BY DEF Journalled, CursorIsSound, CursorHasOutcomes, Answerable, Dispositions
<1>14. k \notin UndecidedEffects
  BY <1>13 DEF Journalled, DoubtsAreSlots
<1>15. k \notin Listed.open /\ k \notin Listed.doubts
  BY <1>14 DEF UndecidedEffects
<1>16. OthersStay(k)
  BY <1>11, <1>12 DEF OthersStay
<1>17. AgreesWith(k, new)
  <2>1. CASE kind = "EffectStarted"
    <3>1. new.state = "Orphan" /\ Announced(k)' /\ ~HasOutcome(k)' /\ k \notin Listed'.doubts
      BY <1>8, <1>11, <1>12, <1>13, <1>15, <2>1 DEF Opening
    <3> QED
      BY <3>1 DEF AgreesWith, Answerable
  <2>2. CASE kind # "EffectStarted"
    <3>1. /\ new.state \in {"Refused", "Withheld", "Denied"} /\ ~Announced(k)' /\ ~HasOutcome(k)'
          /\ k \notin Listed'.open /\ k \notin Listed'.doubts
      BY <1>8, <1>11, <1>12, <1>13, <1>15, <2>2 DEF Opening
    <3> QED
      BY <3>1 DEF AgreesWith, Answerable, Dispositions, UndecidedEffects
  <2> QED
    BY <2>1, <2>2
<1> QED
  BY <1>6, <1>9, <1>12, <1>16, <1>17, SlotReplaced

\* The state an outcome leaves its attempt in.
StateSaid(r) ==
    IF r.kind = "EffectDone" \/ (r.kind = "EffectReconciled" /\ r.says = "Landed") THEN "Done" ELSE r.says

\* One slot, of key k, was replaced by one in a state.
NowSays(k, state) ==
    \E new \in Slots : /\ new.key = k /\ new.state = state
                       /\ Known' = {s \in Known : s.key # k} \cup {new}

\* An outcome is recorded of an announced attempt; a guarded one has no later
\* attempt, and its doubts are resolved by asking.
LEMMA SettledSoundly ==
    ASSUME journal \in Seq(Records), Journalled, setting \in Settings, setting' = setting,
           NEW k \in Keys, NEW r \in Records, journal' = Append(journal, r),
           r.kind \in Outcomes, r.key = k, r.says \in Dispositions,
           NEW old \in Known, old.key = k, old.state \in Answerable,
           Guarded(k) => \A s \in Known : s.key[1] = k[1] => s.key[2] <= k[2],
           Guarded(k) /\ k \in Listed.doubts => r.kind = "EffectReconciled"
    PROVE  /\ Journalled' /\ NowSays(k, StateSaid(r))
           /\ \A q : Announced(q) => Announced(q)'
<1>1. k \in Nat \X Nat /\ k[1] \in Nat /\ k[2] \in Nat
  BY KeyIs
<1>2. r.perm \in BOOLEAN /\ r.spend \in Nat /\ StateSaid(r) \in Dispositions /\ StateSaid(r) \in States
  BY DEF Records, StateSaid, Dispositions, States
<1>3. PICK perm \in BOOLEAN : Cursor' = Settle(Cursor, k, StateSaid(r), perm, r.spend)
  <2>1. Cursor' = Apply(Cursor, r)
    BY RecordsGrow
  <2>2. CASE r.kind = "EffectDone"
    BY <2>1, <2>2 DEF Apply, StateSaid
  <2>3. CASE r.kind = "EffectFailed"
    BY <2>1, <2>3, <1>2 DEF Apply, StateSaid
  <2>4. CASE r.kind = "EffectReconciled"
    BY <2>1, <2>4 DEF Apply, StateSaid
  <2> QED
    BY <2>2, <2>3, <2>4 DEF Outcomes
<1>4. Cursor \in Seq(Slots) /\ OneSlotPerKey(Cursor)
  BY DEF Journalled, CursorIsSound
<1>5. PICK new : new = Slot(k, StateSaid(r), perm, r.spend + old.spend)
  OBVIOUS
<1>6. old \in Slots
  BY <1>4 DEF Known, ToSet
<1>7. new \in Slots /\ new.key = k /\ new.state = StateSaid(r)
  BY <1>1, <1>2, <1>3, <1>5, <1>6 DEF Slot, Slots, States
<1>8. /\ Cursor' \in Seq(Slots) /\ OneSlotPerKey(Cursor')
      /\ Known' = {s \in Known : s.key # k} \cup {new}
  <2>1. PICK slots \in Seq(Slots) : slots = Cursor /\ OneSlotPerKey(slots) /\ old \in ToSet(slots)
    BY <1>4 DEF Known
  <2>2. PICK state \in States : state = StateSaid(r)
    BY <1>2
  <2>3. PICK spend \in Nat : spend = r.spend
    BY <1>2
  <2>4. /\ Settle(slots, k, state, perm, spend) \in Seq(Slots)
        /\ OneSlotPerKey(Settle(slots, k, state, perm, spend))
        /\ ToSet(Settle(slots, k, state, perm, spend)) =
                {s \in ToSet(slots) : s.key # k} \cup {Slot(k, state, perm, spend + old.spend)}
    <3>1. slots \in Seq(Slots) /\ OneSlotPerKey(slots) /\ old \in ToSet(slots)
      BY <2>1
    <3>2. k \in Nat \X Nat /\ state \in States /\ spend \in Nat /\ perm \in BOOLEAN /\ old.key = k
      BY <1>1, <1>2, <1>3, <2>2, <2>3
    <3> QED
      BY <3>1, <3>2, SettleIs
  <2> QED
    BY <1>3, <1>5, <2>1, <2>2, <2>3, <2>4 DEF Known
<1>9. Replaces(k, new)
  BY <1>7, <1>8 DEF Replaces
<1>10. Listed \in [open : SUBSET Keys, doubts : SUBSET Keys]
  BY DEF Journalled, DoubtsAreSlots
<1>11. /\ Listed' \in [open : SUBSET Keys, doubts : SUBSET Keys]
       /\ Listed'.open = Listed.open \ {k}
       /\ Listed'.doubts \subseteq Listed.doubts \cup {k}
       /\ (Guarded(k) /\ k \in Listed'.doubts => new.state = "InDoubt")
  <2>1. Listed' = DoubtAfter(Mutating, Listed, r)
    BY RecordsGrow
  <2>2. Guarded(k) /\ k \in Listed.doubts => r.kind = "EffectReconciled"
    OBVIOUS
  <2> DEFINE was == k \in Listed.open
             rest == Listed.open \ {k}
  <2>3. CASE r.kind = "EffectDone"
    <3>1. PICK gone : Listed' = [open |-> rest, doubts |-> IF was THEN Listed.doubts \ gone ELSE Listed.doubts]
      BY <2>1, <2>3 DEF DoubtAfter
    <3> QED
      BY <3>1, <2>2, <2>3, <1>10
  <2>4. CASE r.kind = "EffectFailed"
    <3>1. Listed' = [open |-> rest, doubts |-> IF was /\ r.says = "InDoubt" THEN Listed.doubts \cup {k} ELSE Listed.doubts]
      BY <2>1, <2>4 DEF DoubtAfter
    <3>2. new.state = r.says
      BY <1>7, <2>4 DEF StateSaid
    <3> QED
      BY <3>1, <3>2, <2>2, <2>4, <1>10
  <2>5. CASE r.kind = "EffectReconciled" /\ r.says = "InDoubt"
    <3>1. Listed' = [open |-> rest, doubts |-> IF was THEN Listed.doubts \cup {k} ELSE Listed.doubts]
      BY <2>1, <2>5 DEF DoubtAfter
    <3>2. new.state = "InDoubt"
      BY <1>7, <2>5 DEF StateSaid
    <3> QED
      BY <3>1, <3>2, <1>10
  <2>6. CASE r.kind = "EffectReconciled" /\ r.says # "InDoubt"
    <3>1. Listed' = [open |-> rest, doubts |-> Listed.doubts \ {k}]
      BY <2>1, <2>6 DEF DoubtAfter
    <3> QED
      BY <3>1, <1>10
  <2> QED
    BY <2>3, <2>4, <2>5, <2>6 DEF Outcomes
<1>12. /\ \A q : Announced(q)' <=> Announced(q)
       /\ \A q : HasOutcome(q)' <=> HasOutcome(q) \/ q = k
       /\ \A q : q # k /\ LastDenied(q) => LastDenied(q)'
       /\ r.says = "DidNotHappen" => LastDenied(k)'
  BY RecordsGrow DEF Outcomes
<1>13. Announced(k)
  BY DEF Journalled, CursorIsSound
<1>14. OthersStay(k)
  BY <1>11, <1>12 DEF OthersStay
<1>15. ASSUME Guarded(k), NEW s \in Known, s.key[1] = k[1], s.key # k
       PROVE  s.key[2] < k[2] /\ s.state = "DidNotHappen"
  <2>1. s.key \in Keys
    BY DEF Journalled, CursorIsSound
  <2>2. s.key = <<s.key[1], s.key[2]>> /\ k = <<k[1], k[2]>> /\ s.key[2] \in Nat
    BY <2>1, KeyIs
  <2>3. s.key[2] # k[2]
    BY <1>15, <2>2
  <2>4. s.key[2] < k[2]
    BY <1>15, <1>1, <2>2, <2>3
  <2>5. Guarded(s.key)
    BY <1>15, GuardedByEffect
  <2> QED
    BY <1>15, <2>4, <2>5 DEF Journalled, RetriedOnEvidence
<1>16. AgreesWith(k, new)
  <2>1. new.state \in Dispositions /\ new.state \in Answerable /\ Announced(k)'
    BY <1>2, <1>7, <1>12, <1>13 DEF Answerable
  <2>2. new.state = "DidNotHappen" => LastDenied(k)'
    BY <1>7, <1>12 DEF StateSaid
  <2>3. k \notin Listed'.open
    BY <1>11
  <2> QED
    BY <2>1, <2>2, <2>3, <1>11, <1>15 DEF AgreesWith
<1>17. Journalled'
  BY <1>9, <1>14, <1>16, SlotReplaced
<1> QED
  BY <1>7, <1>8, <1>12, <1>17 DEF NowSays

\* A refusal is re-admitted.
LEMMA ReadmittedSoundly ==
    ASSUME journal \in Seq(Records), Journalled, setting \in Settings, setting' = setting,
           NEW k \in Keys, journal' = Append(journal, Plain("BudgetReadmitted", k, None))
    PROVE  /\ Journalled'
           /\ Known' = {s \in Known : ~(s.key = k /\ s.state \in {"Withheld", "Refused"})}
           /\ \A q : Announced(q) => Announced(q)'
<1>1. PICK r : r = Plain("BudgetReadmitted", k, None)
  OBVIOUS
<1>2. r \in Records /\ r.kind = "BudgetReadmitted" /\ r.key = k
  BY <1>1, KeyIs DEF Plain, Rec, Records, OfEffects
<1>3. Cursor \in Seq(Slots) /\ OneSlotPerKey(Cursor)
  BY DEF Journalled, CursorIsSound
<1>4. Cursor' = Readmit(Cursor, k)
  BY <1>1, <1>2, RecordsGrow DEF Apply
<1>5. /\ Cursor' \in Seq(Slots) /\ OneSlotPerKey(Cursor')
      /\ Known' = {s \in Known : ~(s.key = k /\ s.state \in {"Withheld", "Refused"})}
  BY <1>3, <1>4, ReadmitIs DEF Known
<1>6. Listed' = Listed
  BY <1>1, <1>2, RecordsGrow DEF DoubtAfter
<1>7. /\ \A q : Announced(q)' <=> Announced(q)
      /\ \A q : HasOutcome(q)' <=> HasOutcome(q)
      /\ \A q : LastDenied(q) => LastDenied(q)'
  BY <1>1, <1>2, RecordsGrow DEF Outcomes
<1>8. UndecidedEffects' = UndecidedEffects
  BY <1>6 DEF UndecidedEffects
<1>9. /\ \A s \in Known' : s \in Known
      /\ \A s \in Known : s.state \in Answerable => s \in Known'
  BY <1>5 DEF Answerable, Dispositions
<1>10. CursorIsSound'
  <2>1. \A s \in Known' : s.key \in Keys
    BY <1>9 DEF Journalled, CursorIsSound
  <2>2. \A q \in Keys : Announced(q)' <=> \E s \in Known' : s.key = q /\ s.state \in Answerable
    BY <1>7, <1>9 DEF Journalled, CursorIsSound
  <2> QED
    BY <2>1, <2>2, <1>5, SameProgram DEF CursorIsSound
<1>11. CursorHasOutcomes'
  <2>1. \A s \in Known' : s.state = "DidNotHappen" => LastDenied(s.key)'
    BY <1>7, <1>9 DEF Journalled, CursorHasOutcomes
  <2>2. \A q \in Keys : HasOutcome(q)' => \E s \in Known' : s.key = q /\ s.state \in Dispositions
    BY <1>7, <1>9 DEF Journalled, CursorHasOutcomes, Answerable
  <2> QED
    BY <2>1, <2>2, SameProgram DEF CursorHasOutcomes
<1>12. RetriedOnEvidence'
  BY <1>9, SameProgram DEF Journalled, RetriedOnEvidence
<1>13. DoubtsAreSlots'
  BY <1>6, <1>7, <1>8, <1>9, SameProgram DEF Journalled, DoubtsAreSlots
<1> QED
  BY <1>5, <1>7, <1>10, <1>11, <1>12, <1>13 DEF Journalled

-----------------------------------------------------------------------------
(* What becomes of a pass *)

\* q is p further on, at the same position of the same history.
Keeps(p, q) == q \in Passes /\ q.mode = p.mode /\ q.slots = p.slots /\ q.pos = p.pos
Ended(p, q) ==
    Keeps(p, q) /\ q.pc = "conclude" /\ q.status \in Statuses /\ q.e = p.e /\ q.a = p.a
NextEffect(p, q) ==
    /\ Keeps(p, q) /\ q.pc = "consult" /\ q.status = p.status
    /\ p.e < Len(Program) /\ q.e = p.e + 1 /\ q.a = 1
NextAttempt(p, q) ==
    Keeps(p, q) /\ q.pc = "consult" /\ q.status = p.status /\ q.e = p.e /\ q.a = p.a + 1

\* Where the verdicts send a pass.
LEMMA StepsOfAPass ==
    ASSUME NEW p \in Passes
    PROVE  /\ Ended(p, Answered(p)) \/ NextEffect(p, Answered(p))
           /\ \A s \in Statuses : Ended(p, Ends(p, s))
           /\ Ended(p, Diverges(p))
           /\ NextAttempt(p, Retries(p))
<1>1. p.e \in Nat /\ p.a \in Nat /\ p.mode \in Modes /\ p.status \in Statuses \cup {None}
  BY DEF Passes
<1>2. Ended(p, Answered(p)) \/ NextEffect(p, Answered(p))
  <2>1. CASE p.e < Len(Program)
    <3>1. PICK e \in Nat : e = p.e + 1
      BY <1>1
    <3>2. Answered(p) = [p EXCEPT !.e = e, !.a = 1, !.pc = "consult"]
      BY <2>1, <3>1 DEF Answered
    <3>3. PICK q : q = Answered(p)
      OBVIOUS
    <3>4. q \in Passes
      <4>1. PICK x : x = [p EXCEPT !.e = e, !.a = 1]
        OBVIOUS
      <4>2. x \in Passes
        BY <4>1 DEF Passes
      <4>3. q = [x EXCEPT !.pc = "consult"]
        BY <3>2, <3>3, <4>1
      <4> QED
        BY <4>2, <4>3 DEF Passes
    <3>5. /\ q.mode = p.mode /\ q.slots = p.slots /\ q.pos = p.pos /\ q.pc = "consult"
          /\ q.status = p.status /\ q.e = e /\ q.a = 1
      BY <3>2, <3>3 DEF Passes
    <3> QED
      BY <2>1, <3>1, <3>3, <3>4, <3>5 DEF NextEffect, Keeps
  <2>2. CASE ~(p.e < Len(Program))
    BY <2>2, <1>1 DEF Answered, Ended, Keeps, Passes, Statuses
  <2> QED
    BY <2>1, <2>2
<1>3. \A s \in Statuses : Ended(p, Ends(p, s))
  BY <1>1 DEF Ends, Ended, Keeps, Passes
<1>4. Ended(p, Diverges(p))
  BY <1>1 DEF Diverges, Ends, Ended, Keeps, Passes, Statuses
<1>5. NextAttempt(p, Retries(p))
  <2>1. PICK a \in Nat : a = p.a + 1
    BY <1>1
  <2>2. Retries(p) = [p EXCEPT !.a = a, !.pc = "consult"]
    BY <2>1 DEF Retries
  <2> QED
    BY <2>1, <2>2 DEF NextAttempt, Keeps, Passes
<1> QED
  BY <1>2, <1>3, <1>4, <1>5

\* Billing a pass.
LEMMA Billed ==
    ASSUME NEW p \in Passes, NEW slots \in Nat, NEW spend \in Nat, NEW q, q = Bill(p, slots, spend)
    PROVE  Keeps(p, q) /\ q.pc = p.pc /\ q.status = p.status /\ q.e = p.e /\ q.a = p.a /\ q.call = p.call
<1>1. PICK u \in Nat, v \in Nat : u = p.used + slots /\ v = p.spent + spend
  BY DEF Passes
<1>2. q = [p EXCEPT !.used = u, !.spent = v]
  BY <1>1 DEF Bill
<1> QED
  BY <1>2 DEF Keeps, Passes

\* Billing a pass whose call is over.
LEMMA BilledFor ==
    ASSUME NEW p \in Passes, NEW spend \in Nat, NEW q, q = [Bill(p, 0, spend) EXCEPT !.call = None]
    PROVE  q \in Passes /\ Keeps(p, q) /\ q.e = p.e /\ q.a = p.a /\ q.status = p.status
<1>1. PICK x : x = Bill(p, 0, spend)
  OBVIOUS
<1>2. Keeps(p, x) /\ x.status = p.status /\ x.e = p.e /\ x.a = p.a
  BY <1>1, Billed
<1> QED
  BY <1>1, <1>2 DEF Keeps, Passes

\* Moving it past a slot.
LEMMA MovedPast ==
    ASSUME pass \in Passes, NEW q, q = Past
    PROVE  /\ q \in Passes /\ q.mode = pass.mode /\ q.slots = pass.slots /\ q.pos = pass.pos + 1
           /\ q.pc = pass.pc /\ q.status = pass.status /\ q.e = pass.e /\ q.a = pass.a
BY DEF Past, Passes

-----------------------------------------------------------------------------
(* What a step leaves alone *)

\* What is said of the journal and the world.
Facts == Journalled /\ AnnouncedFirst /\ OperatorEffectsLandOnce /\ DidNotHappenIsTrue

\* Nothing is said differently of a journal that does not change.
LEMMA SameJournal ==
    ASSUME Journalled, UNCHANGED <<setting, journal>>
    PROVE  Journalled' /\ Cursor' = Cursor /\ Known' = Known /\ \A k : Announced(k)' <=> Announced(k)
<1>1. Cursor' = Cursor /\ Known' = Known /\ Listed' = Listed /\ UndecidedEffects' = UndecidedEffects
  BY SameProgram DEF Cursor, Known, Listed, UndecidedEffects
<1>2. /\ \A k : Announced(k)' <=> Announced(k)
      /\ \A k : HasOutcome(k)' <=> HasOutcome(k)
      /\ \A k : LastDenied(k)' <=> LastDenied(k)
  BY DEF Announced, Positions, HasOutcome, LastDenied, OutcomeOf
<1>3. CursorIsSound'
  BY <1>1, <1>2, SameProgram DEF Journalled, CursorIsSound
<1>4. CursorHasOutcomes'
  BY <1>1, <1>2, SameProgram DEF Journalled, CursorHasOutcomes
<1>5. RetriedOnEvidence'
  BY <1>1, SameProgram DEF Journalled, RetriedOnEvidence
<1>6. DoubtsAreSlots'
  BY <1>1, <1>2, SameProgram DEF Journalled, DoubtsAreSlots
<1> QED
  BY <1>1, <1>2, <1>3, <1>4, <1>5, <1>6 DEF Journalled

\* Nor of a world that does not change.
LEMMA SameFacts ==
    ASSUME Facts, UNCHANGED <<setting, journal, world>>
    PROVE  Facts' /\ Cursor' = Cursor /\ Known' = Known
<1>1. Journalled' /\ Cursor' = Cursor /\ Known' = Known
  BY SameJournal DEF Facts
<1>2. AnnouncedFirst'
  BY SameProgram DEF Facts, AnnouncedFirst
<1>3. OperatorEffectsLandOnce'
  BY DEF Facts, OperatorEffectsLandOnce, Effects, Program, Attempts, MaxAttempts
<1>4. DidNotHappenIsTrue'
  BY <1>1, SameProgram DEF Facts, DidNotHappenIsTrue
<1> QED
  BY <1>1, <1>2, <1>3, <1>4 DEF Facts

\* A record changes what is said of the world only where it says that an
\* operator's mutation did not happen.
LEMMA SameWorld ==
    ASSUME Facts, Journalled', UNCHANGED <<setting, world>>,
           \A k : Announced(k) => Announced(k)',
           \A s \in Known' : s \in Known \/ (s.state = "DidNotHappen" /\ OnlyOperator(s.key) => world[s.key] = 0)
    PROVE  Facts'
<1>1. AnnouncedFirst'
  <2>1. \A k \in Keys : world[k] > 0 => Announced(k)
    BY DEF Facts, AnnouncedFirst, Announced, Positions
  <2>2. \A k \in Keys' : world'[k] > 0 => Announced(k)'
    BY <2>1, SameProgram
  <2> QED
    BY <2>2 DEF AnnouncedFirst, Announced, Positions
<1>2. OperatorEffectsLandOnce'
  BY DEF Facts, OperatorEffectsLandOnce, Effects, Program, Attempts, MaxAttempts
<1>3. DidNotHappenIsTrue'
  BY SameProgram DEF Facts, DidNotHappenIsTrue
<1> QED
  BY <1>1, <1>2, <1>3 DEF Facts

-----------------------------------------------------------------------------
(* A pass stays sound *)

JournalOK == journal \in Seq(Records) /\ \A i \in DOMAIN journal : RecordOK(journal[i])
PassOK ==
    pass # None => /\ pass \in Passes /\ Here \in Keys
                   /\ pass.pos \in 0 .. Len(pass.slots)
                   /\ pass.pc = "conclude" <=> pass.status # None

\* A pass is none, or a record of slots.
LEMMA NotNone ==
    ASSUME NEW p \in Passes
    PROVE  /\ p # None /\ p.slots \in Seq(Slots) /\ p.pos \in Nat /\ p.e \in Nat /\ p.a \in Nat
           /\ p.mode \in Modes /\ Len(p.slots) \in Nat /\ DOMAIN p.slots = 1 .. Len(p.slots)
<1>1. p.slots \in Seq(Slots) /\ p.pos \in Nat /\ p.e \in Nat /\ p.a \in Nat /\ p.mode \in Modes
  BY DEF Passes
<1> QED
  BY <1>1, DispatchAssumption

\* The settings: a program of at least one effect, with at least one attempt.
LEMMA SettingIs ==
    ASSUME setting \in Settings
    PROVE  /\ Len(Program) \in Nat \ {0} /\ Effects = 1 .. Len(Program) /\ MaxAttempts \in Nat \ {0}
           /\ setting.passes \in Nat \ {0} /\ setting.ceilings \subseteq Nat /\ setting.ceilings # {}
           /\ Keys = (1 .. Len(Program)) \X (1 .. MaxAttempts)
<1>1. IsSetting(setting)
  BY DispatchAssumption
<1>2. PICK S : Program \in Seq(S) \ {<<>>}
  BY <1>1 DEF IsSetting, Program
<1>3. Len(Program) \in Nat \ {0} /\ DOMAIN Program = 1 .. Len(Program)
  BY <1>2
<1> QED
  BY <1>1, <1>3 DEF IsSetting, Effects, MaxAttempts, Keys, Attempts

\* One more record of the right shape.
LEMMA RecordsStayOK ==
    ASSUME JournalOK, setting' = setting, NEW r \in Records, RecordOK(r), journal' = Append(journal, r)
    PROVE  JournalOK'
<1>1. PICK n \in Nat : n = Len(journal) /\ DOMAIN journal = 1 .. n
  BY DEF JournalOK
<1>2. PICK j : j = journal'
  OBVIOUS
<1>3. /\ j \in Seq(Records) /\ DOMAIN j = 1 .. n + 1 /\ j[n + 1] = r
      /\ \A i \in 1 .. n : j[i] = journal[i]
  BY <1>1, <1>2 DEF JournalOK
<1>4. \A i \in 1 .. n + 1 : RecordOK(j[i])
  BY <1>1, <1>3 DEF JournalOK
<1>5. \A x : RecordOK(x)' <=> RecordOK(x)
  BY SameProgram DEF RecordOK
<1> QED
  BY <1>2, <1>3, <1>4, <1>5 DEF JournalOK

\* A step that neither writes nor performs keeps the invariant when the pass
\* stays sound.
LEMMA QuietStep ==
    ASSUME DispatchInv, UNCHANGED <<setting, journal, world>>, PassOK', PassIsSound',
           ceiling' \in setting.ceilings, passes' \in 0 .. setting.passes
    PROVE  DispatchInv'
<1>1. Facts
  BY DEF DispatchInv, Facts, Journalled
<1>2. Facts'
  BY <1>1, SameFacts
<1>3. \A x : RecordOK(x)' <=> RecordOK(x)
  BY SameProgram DEF RecordOK
<1>4. TypeOK'
  BY <1>3, SameProgram DEF DispatchInv, TypeOK, PassOK
<1> QED
  BY <1>2, <1>4 DEF DispatchInv, Facts, Journalled

\* The same of a step that writes.
LEMMA WritingStep ==
    ASSUME DispatchInv, UNCHANGED <<setting, world, ceiling, passes>>, PassOK', PassIsSound', Facts',
           NEW r \in Records, RecordOK(r), journal' = Append(journal, r)
    PROVE  DispatchInv'
<1>1. JournalOK'
  BY RecordsStayOK DEF DispatchInv, TypeOK, JournalOK
<1>2. TypeOK'
  BY <1>1, SameProgram DEF DispatchInv, TypeOK, PassOK, JournalOK
<1> QED
  BY <1>2 DEF DispatchInv, Facts, Journalled

\* A pass that has ended, and no pass, are sound.
LEMMA EndedIsSound ==
    ASSUME DispatchInv, setting' = setting, pass # None, Ended(pass, pass')
    PROVE  PassOK' /\ PassIsSound'
<1>1. PICK q : q = pass'
  OBVIOUS
<1>2. /\ q \in Passes /\ q.slots = pass.slots /\ q.pos = pass.pos /\ q.mode = pass.mode
      /\ q.pc = "conclude" /\ q.status \in Statuses /\ q.e = pass.e /\ q.a = pass.a
  BY <1>1 DEF Ended, Keeps
<1>3. None \notin Statuses
  BY DispatchAssumption
<1>4. PassOK'
  BY <1>1, <1>2, <1>3, SameProgram DEF DispatchInv, TypeOK, PassOK, Here
<1>5. PassIsSound'
  BY <1>1, <1>2, SameProgram DEF DispatchInv, PassIsSound
<1> QED
  BY <1>4, <1>5

\* No pass is sound.
LEMMA NoPassIsSound ==
    ASSUME pass' = None
    PROVE  PassOK' /\ PassIsSound'
BY DEF PassOK, PassIsSound

\* The pass leaves its position, or starts work on it: the slot there is read,
\* and the journal changed at most there.
Leaves ==
    /\ pass' \in Passes /\ pass'.slots = pass.slots /\ pass'.mode = pass.mode
    /\ Unread' = {u \in Unread : u.key # Here}
    /\ \A i \in 1 .. pass'.pos : i <= pass.pos \/ pass.slots[i].key = Here
    /\ \A s \in Known' : s \in Known \/ s.key = Here
    /\ \A s \in Known : s.key # Here => s \in Known'

\* The pass goes on to the next effect, or to another attempt of one that did
\* not happen.
Onwards ==
    \/ pass'.e = pass.e + 1 /\ pass'.a = 1
    \/ /\ pass'.e = pass.e /\ pass'.a = pass.a + 1
       /\ Guarded(Here) => \A s \in Known' : s.key = Here => s.state = "DidNotHappen"

Reading == ReadInOrder /\ BehindDidNotHappen /\ UnderWay /\ JustDenied

\* A pass that may write, where it is in its history.
Writing ==
    /\ setting \in Settings /\ pass \in Passes /\ Here \in Keys /\ pass.pos \in 0 .. Len(pass.slots)
    /\ \A s \in Known : s.key \in Keys
    /\ \A i \in DOMAIN pass.slots : pass.slots[i].key \in Keys
    /\ ReadInOrder /\ BehindDidNotHappen

\* Going on keeps the pass reading in order.
LEMMA GoesOn ==
    ASSUME Writing, setting' = setting, Here' \in Keys, Leaves, Onwards, pass'.pc = "consult"
    PROVE  Reading'
<1>1. PICK q : q = pass'
  OBVIOUS
<1>2. q \in Passes /\ q.slots = pass.slots /\ q.pc = "consult" /\ pass'.pos = q.pos
  BY <1>1 DEF Leaves
<1>3. PICK h : h = Here
  OBVIOUS
<1>4. PICK g : g = Here'
  OBVIOUS
<1>5. h \in Keys /\ h = <<pass.e, pass.a>> /\ h[1] = pass.e /\ h[2] = pass.a /\ h[1] \in Nat /\ h[2] \in Nat
  BY <1>3, NotNone DEF Here, Writing
<1>6. g = <<q.e, q.a>> /\ g[1] = q.e /\ g[2] = q.a /\ g[1] \in Nat /\ g[2] \in Nat
  BY <1>1, <1>2, <1>4, NotNone DEF Here
<1>7. (g[1] = h[1] + 1 /\ g[2] = 1) \/ (g[1] = h[1] /\ g[2] = h[2] + 1)
  BY <1>1, <1>5, <1>6 DEF Onwards
<1>8. \A k \in Keys : Before(k, h) \/ k = h => Before(k, g)
  <2> TAKE k \in Keys
  <2>1. k[1] \in Nat /\ k[2] \in Nat
    BY KeyIs DEF Writing
  <2> QED
    BY <2>1, <1>5, <1>6, <1>7 DEF Before
<1>9. DOMAIN pass.slots = 1 .. Len(pass.slots) /\ Len(pass.slots) \in Nat /\ pass.pos \in 0 .. Len(pass.slots)
  BY NotNone DEF Writing
<1>10. ReadInOrder'
  <2>1. OneSlotPerKey(q.slots)
    BY <1>2 DEF Writing, ReadInOrder
  <2>2. Unread' \subseteq Known'
    BY DEF Leaves, Writing, ReadInOrder
  <2>3. ASSUME NEW s \in Known'
        PROVE  (\E u \in Unread' : u.key = s.key) \/ Before(s.key, g)
    <3>1. CASE s.key = h
      BY <3>1, <1>5, <1>8
    <3>2. CASE s.key # h
      <4>1. s \in Known /\ s.key \in Keys
        BY <1>3, <3>2 DEF Leaves, Writing
      <4>2. (\E u \in Unread : u.key = s.key) \/ Before(s.key, h)
        BY <1>3, <3>2, <4>1 DEF Writing, ReadInOrder
      <4> QED
        BY <1>3, <1>8, <3>2, <4>1, <4>2 DEF Leaves
    <3> QED
      BY <3>1, <3>2
  <2>4. ASSUME NEW i \in 1 .. q.pos
        PROVE  Before(q.slots[i].key, g)
    <3>1. i <= pass.pos \/ q.slots[i].key = h
      BY <1>1, <1>2, <1>3 DEF Leaves
    <3>2. CASE q.slots[i].key = h
      BY <3>2, <1>5, <1>8
    <3>3. CASE i <= pass.pos
      <4>1. i \in 1 .. pass.pos /\ i \in DOMAIN pass.slots
        BY <3>3, <1>9
      <4>2. Before(pass.slots[i].key, h) \/ pass.slots[i].key = h
        BY <1>3, <4>1 DEF Writing, ReadInOrder
      <4>3. pass.slots[i].key \in Keys
        BY <4>1 DEF Writing
      <4> QED
        BY <1>2, <1>8, <4>2, <4>3
    <3> QED
      BY <3>1, <3>2, <3>3
  <2> QED
    BY <1>1, <1>2, <1>4, <2>1, <2>2, <2>3, <2>4 DEF ReadInOrder
<1>11. BehindDidNotHappen'
  <2> SUFFICES ASSUME Guarded(g), NEW s \in Known', s.key[1] = q.e, s.key[2] < q.a
               PROVE  s.state = "DidNotHappen"
    BY <1>1, <1>4, SameProgram DEF BehindDidNotHappen
  <2>1. s.key \in Keys /\ (s \in Known \/ s.key = h)
    BY <1>3, <1>5 DEF Leaves, Writing
  <2>2. s.key[1] \in Nat /\ s.key[2] \in Nat /\ s.key[2] >= 1 /\ s.key = <<s.key[1], s.key[2]>>
    BY <2>1, KeyIs DEF Writing
  <2>3. g[1] = h[1] /\ g[2] = h[2] + 1
    BY <1>6, <1>7, <2>2
  <2>4. Guarded(h)
    BY <2>3, GuardedByEffect
  <2>5. q.e # pass.e + 1
    BY <1>5, <1>6, <2>3
  <2>6. CASE s.key = h
    BY <2>4, <2>5, <2>6, <1>1, <1>3 DEF Onwards
  <2>7. CASE s.key # h
    <3>1. s.key[1] = pass.e /\ s.key[2] < pass.a
      BY <2>2, <2>3, <2>7, <1>5, <1>6
    <3> QED
      BY <2>1, <2>4, <2>7, <3>1, <1>3 DEF Writing, BehindDidNotHappen
  <2> QED
    BY <2>6, <2>7
<1>12. UnderWay' /\ JustDenied'
  BY <1>1, <1>2 DEF UnderWay, JustDenied
<1> QED
  BY <1>10, <1>11, <1>12 DEF Reading

\* The pass is at work where it was.
LEMMA StaysToWork ==
    ASSUME Writing, setting' = setting, Leaves, pass'.e = pass.e, pass'.a = pass.a,
           pass'.pc \in {"act", "record", "ask", "probe"}
    PROVE  ReadInOrder' /\ BehindDidNotHappen'
<1>1. PICK q : q = pass'
  OBVIOUS
<1>2. /\ q \in Passes /\ q.slots = pass.slots /\ q.pc \notin {"consult", "gate"}
      /\ q.e = pass.e /\ q.a = pass.a
  BY <1>1 DEF Leaves
<1>3. Here' = Here
  BY DEF Here
<1>4. DOMAIN pass.slots = 1 .. Len(pass.slots) /\ Len(pass.slots) \in Nat /\ pass.pos \in 0 .. Len(pass.slots)
  BY NotNone DEF Writing
<1>5. ReadInOrder'
  <2>1. OneSlotPerKey(q.slots)
    BY <1>2 DEF Writing, ReadInOrder
  <2>2. Unread' \subseteq Known'
    BY DEF Leaves, Writing, ReadInOrder
  <2>3. ASSUME NEW s \in Known'
        PROVE  (\E u \in Unread' : u.key = s.key) \/ Before(s.key, Here) \/ s.key = Here
    <3>1. CASE s.key = Here
      BY <3>1
    <3>2. CASE s.key # Here
      <4>1. s \in Known
        BY <3>2 DEF Leaves
      <4>2. (\E u \in Unread : u.key = s.key) \/ Before(s.key, Here)
        BY <3>2, <4>1 DEF Writing, ReadInOrder
      <4> QED
        BY <3>2, <4>2 DEF Leaves
    <3> QED
      BY <3>1, <3>2
  <2>4. ASSUME NEW i \in 1 .. q.pos
        PROVE  Before(q.slots[i].key, Here) \/ q.slots[i].key = Here
    <3>1. i <= pass.pos \/ q.slots[i].key = Here
      BY <1>1, <1>2 DEF Leaves
    <3>2. CASE i <= pass.pos
      <4>1. i \in 1 .. pass.pos
        BY <3>2, <1>4
      <4> QED
        BY <1>2, <4>1 DEF Writing, ReadInOrder
    <3> QED
      BY <3>1, <3>2
  <2> QED
    BY <1>1, <1>2, <1>3, <2>1, <2>2, <2>3, <2>4 DEF ReadInOrder
<1>6. BehindDidNotHappen'
  <2> SUFFICES ASSUME Guarded(Here), NEW s \in Known', s.key[1] = pass.e, s.key[2] < pass.a
               PROVE  s.state = "DidNotHappen"
    BY <1>1, <1>2, <1>3, SameProgram DEF BehindDidNotHappen
  <2>1. Here[2] = pass.a /\ pass.a \in Nat
    BY NotNone DEF Here, Writing
  <2>2. s.key # Here
    BY <2>1
  <2> QED
    BY <2>2 DEF Leaves, Writing, BehindDidNotHappen
<1> QED
  BY <1>5, <1>6

-----------------------------------------------------------------------------
(* Replaying *)

\* What the invariant says of a running pass, in one place.
LEMMA Running ==
    ASSUME DispatchInv, pass # None
    PROVE  /\ setting \in Settings /\ pass \in Passes /\ Here \in Keys /\ pass.pos \in 0 .. Len(pass.slots)
           /\ pass.pc = "conclude" <=> pass.status # None
           /\ pass.mode = "Strict" => pass.pc \in {"consult", "conclude"}
           /\ pass.mode # "Strict" /\ pass.pc # "conclude" => Writing /\ Reading
BY DEF DispatchInv, TypeOK, PassIsSound, CursorIsSound, Writing, Reading

\* A slot is read: it is the journal's slot for this position.
LEMMA SlotIsRead ==
    ASSUME DispatchInv, NEW states, Reads(states)
    PROVE  /\ NextSlot \in Slots /\ pass.pos + 1 \in 1 .. Len(pass.slots)
           /\ pass.mode # "Strict" =>
                /\ NextSlot \in Known /\ \A s \in Known : s.key = Here => s = NextSlot
                /\ {pass.slots[i] : i \in pass.pos + 2 .. Len(pass.slots)} = {u \in Unread : u.key # Here}
<1>1. /\ pass # None /\ pass.pc = "consult" /\ ~(pass.pos >= Len(pass.slots))
      /\ NextSlot.key = Here /\ NextSlot = pass.slots[pass.pos + 1]
  BY DEF Reads, At, Exhausted, NextSlot
<1>2. /\ pass \in Passes /\ pass.pos \in 0 .. Len(pass.slots) /\ pass.slots \in Seq(Slots)
      /\ Len(pass.slots) \in Nat /\ DOMAIN pass.slots = 1 .. Len(pass.slots)
  BY <1>1, Running, NotNone
<1>3. pass.pos + 1 \in 1 .. Len(pass.slots)
  BY <1>1, <1>2
<1>4. NextSlot \in Slots
  BY <1>1, <1>2, <1>3
<1>5. ASSUME pass.mode # "Strict"
      PROVE  /\ NextSlot \in Known /\ \A s \in Known : s.key = Here => s = NextSlot
             /\ {pass.slots[i] : i \in pass.pos + 2 .. Len(pass.slots)} = {u \in Unread : u.key # Here}
  <2>1. OneSlotPerKey(pass.slots) /\ Unread \subseteq Known
    BY <1>1, <1>5, Running DEF Writing, ReadInOrder
  <2>2. NextSlot \in Unread
    BY <1>1, <1>2, <1>3 DEF Unread
  <2>3. \A s \in Known : s.key = Here => s = NextSlot
    <3>1. OneSlotPerKey(Cursor) /\ NextSlot \in Known
      BY <2>1, <2>2 DEF DispatchInv, CursorIsSound
    <3> QED
      BY <3>1, <1>1 DEF Known, ToSet, OneSlotPerKey
  <2>4. \A i \in 1 .. Len(pass.slots) : pass.slots[i].key = Here => i = pass.pos + 1
    BY <1>1, <1>2, <1>3, <2>1 DEF OneSlotPerKey
  <2>5. {pass.slots[i] : i \in pass.pos + 2 .. Len(pass.slots)} \subseteq {u \in Unread : u.key # Here}
    <3> SUFFICES ASSUME NEW i \in pass.pos + 2 .. Len(pass.slots)
                 PROVE  pass.slots[i] \in Unread /\ pass.slots[i].key # Here
      OBVIOUS
    <3>1. i \in pass.pos + 1 .. Len(pass.slots) /\ i \in 1 .. Len(pass.slots) /\ i # pass.pos + 1
      BY <1>2
    <3> QED
      BY <3>1, <2>4 DEF Unread
  <2>6. {u \in Unread : u.key # Here} \subseteq {pass.slots[i] : i \in pass.pos + 2 .. Len(pass.slots)}
    <3> SUFFICES ASSUME NEW i \in pass.pos + 1 .. Len(pass.slots), pass.slots[i].key # Here
                 PROVE  i \in pass.pos + 2 .. Len(pass.slots)
      BY DEF Unread
    <3>1. i # pass.pos + 1
      BY <1>1
    <3> QED
      BY <3>1, <1>2
  <2> QED
    BY <2>1, <2>2, <2>3, <2>5, <2>6
<1> QED
  BY <1>3, <1>4, <1>5

\* The pass after reading a slot, at any position, is still of its shape.
Consumed(p) ==
    /\ p \in Passes /\ p.mode = pass.mode /\ p.slots = pass.slots /\ p.pos = pass.pos + 1
    /\ p.e = pass.e /\ p.a = pass.a /\ p.status = pass.status

\* A slot is read and the pass ends, goes on, or tries again what did not happen.
LEMMA ReadOn ==
    ASSUME DispatchInv, UNCHANGED <<setting, journal, world, ceiling, passes>>,
           NEW states, Reads(states), NEW p, Consumed(p),
           \/ Ended(p, pass')
           \/ NextEffect(p, pass')
           \/ /\ NextAttempt(p, pass') /\ pass.a + 1 \in Attempts
              /\ pass.mode # "Strict" /\ Guarded(Here) => NextSlot.state = "DidNotHappen"
    PROVE  DispatchInv'
<1>1. PICK q : q = pass'
  OBVIOUS
<1>2. /\ q \in Passes /\ q.mode = pass.mode /\ q.slots = pass.slots /\ q.pos = pass.pos + 1
  BY <1>1 DEF Ended, NextEffect, NextAttempt, Keeps, Consumed
<1>3. /\ pass # None /\ pass.pc = "consult" /\ pass.status = None /\ NextSlot.key = Here
      /\ setting \in Settings /\ pass \in Passes /\ Here \in Keys /\ q # None
  BY <1>2, Running, NotNone DEF Reads, At
<1>4. pass.pos + 1 \in 1 .. Len(pass.slots)
  BY SlotIsRead
<1>5. q.pos \in 0 .. Len(q.slots)
  BY <1>2, <1>4
<1>6. \A i \in DOMAIN q.slots : q.slots[i].key \in Keys
  BY <1>2, <1>3 DEF DispatchInv, PassIsSound
<1>7. Known' = Known
  BY SameFacts DEF DispatchInv, Facts, Journalled
<1>8. ceiling' \in setting.ceilings /\ passes' \in 0 .. setting.passes
  BY DEF DispatchInv, TypeOK
<1>9. CASE q.pc = "conclude"
  <2>1. q.status \in Statuses /\ q.e = pass.e /\ q.a = pass.a /\ None \notin Statuses
    BY <1>1, <1>9, DispatchAssumption DEF Ended, NextEffect, NextAttempt, Consumed
  <2>2. PassOK'
    BY <1>1, <1>2, <1>3, <1>5, <1>9, <2>1, SameProgram DEF PassOK, Here
  <2>3. PassIsSound'
    BY <1>1, <1>6, <1>9, SameProgram DEF PassIsSound
  <2> QED
    BY <1>8, <2>2, <2>3, QuietStep
<1>10. CASE q.pc # "conclude"
  <2>1. q.pc = "consult" /\ q.status = None
    BY <1>1, <1>3, <1>10 DEF Ended, NextEffect, NextAttempt, Consumed
  <2>2. \/ pass.e < Len(Program) /\ q.e = pass.e + 1 /\ q.a = 1
        \/ /\ q.e = pass.e /\ q.a = pass.a + 1 /\ pass.a + 1 \in Attempts
           /\ pass.mode # "Strict" /\ Guarded(Here) => NextSlot.state = "DidNotHappen"
    BY <1>1, <1>10 DEF Ended, NextEffect, NextAttempt, Consumed
  <2>3. <<q.e, q.a>> \in Keys
    <3>1. pass.e \in 1 .. Len(Program) /\ pass.a \in 1 .. MaxAttempts /\ Attempts = 1 .. MaxAttempts
      BY <1>3, SettingIs DEF Here, Attempts
    <3>2. q.e \in 1 .. Len(Program) /\ q.a \in 1 .. MaxAttempts
      BY <1>3, <2>2, <3>1, SettingIs, SMTT(30)
    <3> QED
      BY <1>3, <3>2, SettingIs
  <2>4. Here' = <<q.e, q.a>> /\ Keys' = Keys
    BY <1>1, SameProgram DEF Here
  <2>5. PassOK'
    BY <1>1, <1>2, <1>5, <2>1, <2>3, <2>4 DEF PassOK
  <2>6. ASSUME pass.mode # "Strict"
        PROVE  Reading'
    <3>1. Writing
      BY <1>3, <2>6, Running
    <3>2. Leaves
      <4>1. Unread' = {pass.slots[i] : i \in pass.pos + 2 .. Len(pass.slots)}
        <5>1. q.pos + 1 = pass.pos + 2
          BY <1>2, <1>3, NotNone
        <5> QED
          BY <1>1, <1>2, <5>1 DEF Unread
      <4>2. Unread' = {u \in Unread : u.key # Here}
        BY <2>6, <4>1, SlotIsRead
      <4>3. ASSUME NEW i \in 1 .. q.pos
            PROVE  i <= pass.pos \/ pass.slots[i].key = Here
        <5>1. pass.pos \in Nat
          BY <1>3, NotNone
        <5>2. i <= pass.pos \/ i = pass.pos + 1
          BY <1>2, <5>1
        <5> QED
          BY <5>2, <1>3 DEF NextSlot
      <4> QED
        BY <1>1, <1>2, <1>7, <4>2, <4>3 DEF Leaves
    <3>3. Onwards
      BY <1>1, <1>7, <2>2, <2>6, SlotIsRead DEF Onwards
    <3> QED
      BY <1>1, <2>1, <2>3, <2>4, <3>1, <3>2, <3>3, GoesOn
  <2>7. PassIsSound'
    BY <1>1, <1>2, <1>6, <2>1, <2>6, SameProgram DEF PassIsSound, Reading
  <2> QED
    BY <1>8, <2>5, <2>7, QuietStep
<1> QED
  BY <1>9, <1>10

-----------------------------------------------------------------------------
(* The actions that neither write nor perform *)

\* A pass that starts has read nothing yet.
LEMMA Starts ==
    ASSUME DispatchInv, UNCHANGED <<setting, journal, world, ceiling>>, passes' \in 0 .. setting.passes,
           NEW mode \in Modes,
           pass' = Fresh(mode) \/ \E s \in Statuses : pass' = Ends(Fresh(mode), s)
    PROVE  DispatchInv'
<1>1. PICK f : f = Fresh(mode)
  OBVIOUS
<1>2. Cursor \in Seq(Slots) /\ OneSlotPerKey(Cursor) /\ \A s \in Known : s.key \in Keys
  BY DEF DispatchInv, CursorIsSound
<1>3. PICK n \in Nat : n = Len(Cursor) /\ DOMAIN Cursor = 1 .. n
  BY <1>2
<1>4. /\ f \in Passes /\ f.mode = mode /\ f.slots = Cursor /\ f.pos = 0 /\ f.e = 1 /\ f.a = 1
      /\ f.pc = "consult" /\ f.status = None
  BY <1>1, <1>2 DEF Fresh, Passes, Cursor
<1>5. setting \in Settings /\ <<1, 1>> \in Keys
  BY SettingIs DEF DispatchInv, TypeOK
<1>6. PICK q : q = pass'
  OBVIOUS
<1>7. /\ q \in Passes /\ q.mode = mode /\ q.slots = Cursor /\ q.pos = 0 /\ q.e = 1 /\ q.a = 1
      /\ \/ q.pc = "consult" /\ q.status = None
         \/ q.pc = "conclude" /\ q.status \in Statuses
  <2>1. CASE q = f
    BY <1>4, <2>1
  <2>2. CASE q # f
    BY <1>1, <1>4, <1>6, <2>2, StepsOfAPass DEF Ended, Keeps
  <2> QED
    BY <2>1, <2>2
<1>8. Here' = <<1, 1>> /\ Keys' = Keys /\ Known' = Known
  BY <1>6, <1>7, SameProgram, SameFacts DEF Here, DispatchInv, Facts, Journalled
<1>9. PassOK'
  <2>1. None \notin Statuses /\ q # None
    BY <1>7, NotNone, DispatchAssumption
  <2> QED
    BY <1>3, <1>5, <1>6, <1>7, <1>8, <2>1 DEF PassOK
<1>10. \A i \in DOMAIN q.slots : q.slots[i].key \in Keys
  BY <1>2, <1>3, <1>7 DEF Known, ToSet
<1>11. ASSUME q.pc = "consult"
       PROVE  Reading'
  <2>1. Unread' = {q.slots[i] : i \in q.pos + 1 .. Len(q.slots)}
    BY <1>6 DEF Unread
  <2>2. q.pos + 1 .. Len(q.slots) = 1 .. n
    BY <1>3, <1>7
  <2>3. Unread' = Known
    BY <1>3, <1>7, <2>1, <2>2 DEF Known, ToSet
  <2>4. 1 .. q.pos = {}
    BY <1>7
  <2>5. ReadInOrder'
    BY <1>2, <1>6, <1>7, <1>8, <1>11, <2>3, <2>4 DEF ReadInOrder
  <2>6. BehindDidNotHappen'
    <3>1. \A s \in Known' : ~(s.key[2] < q.a)
      <4> TAKE s \in Known'
      <4>1. s.key \in Keys
        BY <1>2, <1>8
      <4>2. s.key[2] \in 1 .. MaxAttempts
        BY <4>1, <1>5, KeyIs
      <4> QED
        BY <4>2, <1>7
    <3> QED
      BY <1>6, <3>1 DEF BehindDidNotHappen
  <2>7. UnderWay' /\ JustDenied'
    BY <1>6, <1>11 DEF UnderWay, JustDenied
  <2> QED
    BY <2>5, <2>6, <2>7 DEF Reading
<1>12. PassIsSound'
  BY <1>6, <1>7, <1>8, <1>10, <1>11 DEF PassIsSound, Reading
<1>13. ceiling' \in setting.ceilings
  BY DEF DispatchInv, TypeOK
<1> QED
  BY <1>9, <1>12, <1>13, QuietStep

LEMMA KeptByStarting ==
    ASSUME DispatchInv, setting' = setting, Execute \/ Resume \/ Verify
    PROVE  DispatchInv'
<1>1. setting.passes \in Nat \ {0} /\ passes \in 0 .. setting.passes
  BY SettingIs DEF DispatchInv, TypeOK
<1>2. CASE Execute
  <2>1. passes' \in 0 .. setting.passes
    BY <1>1, <1>2 DEF Execute
  <2> QED
    BY <1>2, <2>1, Starts DEF Execute, Modes
<1>3. CASE Resume
  <2>1. passes' \in 0 .. setting.passes
    BY <1>1, <1>3 DEF Resume
  <2>2. pass' = Fresh("Resume") \/ \E s \in Statuses : pass' = Ends(Fresh("Resume"), s)
    BY <1>3 DEF Resume, Statuses
  <2> QED
    BY <1>3, <2>1, <2>2, Starts DEF Resume, Modes
<1>4. CASE Verify
  BY <1>1, <1>4, Starts DEF Verify, Modes
<1> QED
  BY <1>2, <1>3, <1>4

\* Reading a slot, with or without paying for it.
LEMMA Consuming ==
    ASSUME DispatchInv, NEW states, Reads(states), NEW spend \in Nat
    PROVE  Consumed(Past) /\ Consumed(Bill(Past, 1, spend))
<1>1. pass \in Passes
  BY Running DEF Reads, At
<1>2. Consumed(Past)
  BY <1>1, MovedPast DEF Consumed
<1>3. Keeps(Past, Bill(Past, 1, spend)) /\ Bill(Past, 1, spend).status = Past.status
      /\ Bill(Past, 1, spend).e = Past.e /\ Bill(Past, 1, spend).a = Past.a
  BY <1>2, Billed DEF Consumed
<1> QED
  BY <1>2, <1>3 DEF Consumed, Keeps

\* An attempt judged to be tried again did not happen, where it matters, and
\* another is permitted.
LEMMA TriedAgain ==
    ASSUME setting \in Settings, NEW k \in Keys, NEW d \in {"Landed", "InDoubt", "DidNotHappen"},
           NEW perm \in BOOLEAN
    PROVE  /\ StopReason(d, perm, k) \in Statuses \cup {None}
           /\ StopReason(d, perm, k) = None =>
                k[2] + 1 \in Attempts /\ (Guarded(k) => d = "DidNotHappen")
<1>1. None \notin Statuses /\ k[2] \in 1 .. MaxAttempts /\ MaxAttempts \in Nat
  BY DispatchAssumption, KeyIs, SettingIs
<1>2. StopReason(d, perm, k) \in Statuses \cup {None}
  BY DEF StopReason, Statuses
<1>3. ASSUME StopReason(d, perm, k) = None
      PROVE  Permits(k[2]) /\ (Guarded(k) => d = "DidNotHappen")
  <2>1. None \notin {"failed", "quarantined"}
    BY <1>1 DEF Statuses
  <2> QED
    BY <1>3, <2>1 DEF StopReason, Guarded
<1> QED
  BY <1>1, <1>2, <1>3 DEF Permits, Attempts

LEMMA KeptByReading ==
    ASSUME DispatchInv, setting' = setting, ReplayDone \/ ReplayDenial \/ ReplayFailed
    PROVE  DispatchInv'
<1>1. CASE ReplayDone
  <2>1. Reads({"Done"}) /\ pass' = Answered(Bill(Past, 1, NextSlot.spend))
        /\ UNCHANGED <<journal, world, ceiling, passes>>
    BY <1>1 DEF ReplayDone
  <2>2. NextSlot.spend \in Nat
    BY <2>1, SlotIsRead DEF Slots
  <2>3. PICK p : p = Bill(Past, 1, NextSlot.spend)
    OBVIOUS
  <2>4. Consumed(p)
    BY <2>1, <2>2, <2>3, Consuming
  <2>5. Ended(p, pass') \/ NextEffect(p, pass')
    BY <2>1, <2>3, <2>4, StepsOfAPass DEF Consumed
  <2> QED
    BY <2>1, <2>4, <2>5, ReadOn
<1>2. CASE ReplayDenial
  <2>1. Reads({"Denied"}) /\ pass' = Ends(Past, "failed") /\ UNCHANGED <<journal, world, ceiling, passes>>
    BY <1>2 DEF ReplayDenial
  <2>2. Consumed(Past)
    BY <2>1, Consuming
  <2>3. Ended(Past, pass')
    BY <2>1, <2>2, StepsOfAPass DEF Consumed, Statuses
  <2> QED
    BY <2>1, <2>2, <2>3, ReadOn
<1>3. CASE ReplayFailed
  <2> DEFINE bad == {"Landed", "InDoubt", "DidNotHappen"}
  <2>1. Reads(bad) /\ UNCHANGED <<journal, world, ceiling, passes>>
    BY <1>3, ZenonT(30) DEF ReplayFailed
  <2>2. NextSlot \in Slots /\ pass.pos + 1 \in 1 .. Len(pass.slots)
    BY <2>1, SlotIsRead
  <2>3. NextSlot.spend \in Nat /\ NextSlot.perm \in BOOLEAN /\ NextSlot.state \in bad /\ NextSlot.key = Here
    BY <2>1, <2>2 DEF Slots, Reads
  <2>4. PICK p : p = Bill(Past, 1, NextSlot.spend)
    OBVIOUS
  <2>5. PICK stop : stop = StopReason(NextSlot.state, NextSlot.perm, Here)
    OBVIOUS
  <2>6. Consumed(p)
    BY <2>1, <2>3, <2>4, Consuming
  <2>7. /\ pass # None /\ setting \in Settings /\ pass \in Passes /\ Here \in Keys /\ pass.pc = "consult"
        /\ pass.pos \in 0 .. Len(pass.slots)
    BY <2>1, Running DEF Reads, At
  <2>8. Here[1] = pass.e /\ Here[2] = pass.a /\ Here = <<pass.e, pass.a>> /\ pass.a \in Nat
    BY <2>7, NotNone DEF Here
  <2> DEFINE retried == p.pos < Len(p.slots) /\ p.slots[p.pos + 1].key = <<p.e, p.a + 1>>
  <2>9. pass' = CASE retried -> Retries(p)
                  [] ~retried /\ stop # None -> Ends(p, stop)
                  [] OTHER -> IF p.mode = "Strict" THEN Diverges(p) ELSE Retries(p)
    BY <1>3, <2>4, <2>5, ZenonT(30) DEF ReplayFailed
  <2>10. /\ stop \in Statuses \cup {None}
         /\ stop = None => pass.a + 1 \in Attempts /\ (Guarded(Here) => NextSlot.state = "DidNotHappen")
    BY <2>3, <2>5, <2>7, <2>8, TriedAgain
  <2>11. p \in Passes
    BY <2>6 DEF Consumed
  <2>12. CASE retried
    <3>1. pass.pos + 2 \in DOMAIN pass.slots /\ pass.slots[pass.pos + 2].key = <<pass.e, pass.a + 1>>
      <4>1. pass.pos + 1 < Len(pass.slots) /\ pass.slots[pass.pos + 1 + 1].key = <<pass.e, pass.a + 1>>
        BY <2>6, <2>12 DEF Consumed
      <4>2. Len(pass.slots) \in Nat /\ pass.pos \in Nat /\ DOMAIN pass.slots = 1 .. Len(pass.slots)
            /\ pass.pos + 1 + 1 = pass.pos + 2
        BY <2>7, NotNone
      <4> QED
        BY <4>1, <4>2
    <3>2. PICK t : t = pass.slots[pass.pos + 2]
      OBVIOUS
    <3>3. t.key \in Keys /\ t.key = <<pass.e, pass.a + 1>> /\ t.key[1] = pass.e /\ t.key[2] = pass.a + 1
      BY <2>7, <3>1, <3>2 DEF DispatchInv, PassIsSound
    <3>4. pass.a + 1 \in Attempts
      BY <2>7, <3>3, KeyIs DEF Attempts
    <3>5. ASSUME pass.mode # "Strict", Guarded(Here)
          PROVE  NextSlot.state = "DidNotHappen"
      <4>1. Unread \subseteq Known /\ NextSlot \in Known
        BY <2>1, <2>7, <3>5, Running, SlotIsRead DEF Writing, ReadInOrder
      <4>2. t \in Known
        <5>1. pass.pos + 2 \in pass.pos + 1 .. Len(pass.slots)
          BY <2>7, <3>1, NotNone, SMTT(30)
        <5> QED
          BY <3>2, <4>1, <5>1 DEF Unread
      <4>3. NextSlot.key[1] = t.key[1] /\ NextSlot.key[2] < t.key[2] /\ Guarded(NextSlot.key)
        BY <2>3, <2>8, <3>3, <3>5
      <4> QED
        BY <4>1, <4>2, <4>3 DEF DispatchInv, RetriedOnEvidence
    <3>6. NextAttempt(p, pass')
      BY <2>9, <2>11, <2>12, StepsOfAPass
    <3> QED
      BY <2>1, <2>6, <3>4, <3>5, <3>6, ReadOn
  <2>13. CASE ~retried /\ stop # None
    <3>1. Ended(p, pass')
      BY <2>9, <2>10, <2>11, <2>13, StepsOfAPass
    <3> QED
      BY <2>1, <2>6, <3>1, ReadOn
  <2>14. CASE ~retried /\ stop = None
    <3>1. Ended(p, pass') \/ NextAttempt(p, pass')
      BY <2>9, <2>11, <2>14, StepsOfAPass
    <3> QED
      BY <2>1, <2>6, <2>10, <2>14, <3>1, ReadOn
  <2> QED
    BY <2>12, <2>13, <2>14
<1> QED
  BY <1>1, <1>2, <1>3

\* The pass ends where it is without writing.
LEMMA EndsQuietly ==
    ASSUME DispatchInv, UNCHANGED <<setting, journal, world, ceiling, passes>>,
           pass # None, Ended(pass, pass')
    PROVE  DispatchInv'
<1>1. PassOK' /\ PassIsSound'
  BY EndedIsSound
<1>2. ceiling' \in setting.ceilings /\ passes' \in 0 .. setting.passes
  BY DEF DispatchInv, TypeOK
<1> QED
  BY <1>1, <1>2, QuietStep

LEMMA KeptByEnding ==
    ASSUME DispatchInv, setting' = setting, ReplayDiverges \/ FailToRecord
    PROVE  DispatchInv'
<1>1. CASE ReplayDiverges
  <2>1. pass # None /\ pass' = Diverges(pass) /\ UNCHANGED <<journal, world, ceiling, passes>>
    BY <1>1 DEF ReplayDiverges, At
  <2>2. pass \in Passes
    BY <2>1, Running
  <2>3. Ended(pass, pass')
    BY <2>1, <2>2, StepsOfAPass
  <2> QED
    BY <2>1, <2>3, EndsQuietly
<1>2. CASE FailToRecord
  <2>1. PICK spend \in {0, 1} :
            /\ pass # None /\ pass' = Ends([Bill(pass, 0, spend) EXCEPT !.call = None], "failed")
            /\ UNCHANGED <<journal, world, ceiling, passes>>
    BY <1>2 DEF FailToRecord, At, Spend
  <2>2. pass \in Passes
    BY <2>1, Running
  <2>3. PICK p : p = [Bill(pass, 0, spend) EXCEPT !.call = None]
    OBVIOUS
  <2>4. Keeps(pass, p) /\ p.e = pass.e /\ p.a = pass.a
    <3>1. spend \in Nat
      OBVIOUS
    <3> QED
      BY <2>2, <2>3, <3>1, BilledFor
  <2>5. Ended(p, pass')
    BY <2>1, <2>3, <2>4, StepsOfAPass DEF Keeps, Statuses
  <2>6. Ended(pass, pass')
    BY <2>4, <2>5 DEF Ended, Keeps
  <2> QED
    BY <2>1, <2>6, EndsQuietly
<1> QED
  BY <1>1, <1>2

\* Nothing the invariant is about changes.
LEMMA SameStateIsSound ==
    ASSUME DispatchInv, UNCHANGED <<setting, journal, world, pass, ceiling, passes>>
    PROVE  DispatchInv'
<1>1. ceiling' \in setting.ceilings /\ passes' \in 0 .. setting.passes
  BY DEF DispatchInv, TypeOK
<1>2. Here' = Here /\ Unread' = Unread /\ Known' = Known /\ Keys' = Keys
  BY SameProgram, SameFacts DEF Here, Unread, DispatchInv, Facts, Journalled
<1>3. PassOK'
  BY <1>2 DEF DispatchInv, TypeOK, PassOK
<1>4. ASSUME pass # None, pass.mode # "Strict", pass.pc # "conclude"
      PROVE  Reading'
  <2>1. Reading
    BY <1>4, Running
  <2>2. ReadInOrder' /\ BehindDidNotHappen'
    BY <1>2, <2>1, SameProgram DEF Reading, ReadInOrder, BehindDidNotHappen, Exhausted
  <2>3. UnderWay'
    BY <1>2, <2>1, SameProgram DEF Reading, UnderWay
  <2>4. JustDenied'
    BY <1>2, <2>1, SameProgram DEF Reading, JustDenied
  <2> QED
    BY <2>2, <2>3, <2>4 DEF Reading
<1>5. PassIsSound'
  BY <1>2, <1>4 DEF DispatchInv, PassIsSound, Reading
<1> QED
  BY <1>1, <1>3, <1>5, QuietStep

LEMMA KeptByOthers ==
    ASSUME DispatchInv, setting' = setting, Crash \/ RaiseCeiling \/ SetHalt
    PROVE  DispatchInv'
<1>1. ceiling \in setting.ceilings /\ passes \in 0 .. setting.passes
  BY DEF DispatchInv, TypeOK
<1>2. CASE Crash \/ RaiseCeiling
  <2>1. /\ pass' = None /\ UNCHANGED <<journal, world, passes>>
        /\ ceiling' \in setting.ceilings
    BY <1>1, <1>2 DEF Crash, RaiseCeiling
  <2> QED
    BY <1>1, <2>1, NoPassIsSound, QuietStep
<1>3. CASE SetHalt
  BY <1>3, SameStateIsSound DEF SetHalt
<1> QED
  BY <1>2, <1>3

\* A withholding or a refusal was read, and the position is looked up again.
LEMMA LooksAgain ==
    ASSUME DispatchInv, setting' = setting, NEW states, Reads(states), states \subseteq {"Withheld", "Refused"},
           pass' = Past,
           \A s \in Known' : s \in Known /\ (s.key = Here => s.state = "Withheld"),
           \A s \in Known : s.key # Here => s \in Known'
    PROVE  PassOK' /\ PassIsSound'
<1>1. PICK q : q = pass'
  OBVIOUS
<1>2. pass # None /\ pass.pc = "consult" /\ NextSlot.key = Here /\ NextSlot.state \in {"Withheld", "Refused"}
  BY DEF Reads, At
<1>3. pass \in Passes /\ Here \in Keys /\ pass.pos \in Nat /\ pass.status = None
  BY <1>2, Running, NotNone
<1>4. /\ q \in Passes /\ q.mode = pass.mode /\ q.slots = pass.slots /\ q.pos = pass.pos + 1
      /\ q.pc = "consult" /\ q.status = None /\ q.e = pass.e /\ q.a = pass.a
  BY <1>1, <1>2, <1>3, MovedPast
<1>5. Here' = Here /\ Keys' = Keys
  BY <1>1, <1>4, SameProgram DEF Here
<1>6. PassOK'
  BY <1>1, <1>3, <1>4, <1>5, SlotIsRead DEF PassOK
<1>7. ASSUME pass.mode # "Strict"
      PROVE  Reading'
  <2>1. Writing
    BY <1>2, <1>7, Running
  <2>2. Unread' = {u \in Unread : u.key # Here}
    <3>1. q.pos + 1 = pass.pos + 2
      BY <1>3, <1>4
    <3>2. Unread' = {pass.slots[i] : i \in pass.pos + 2 .. Len(pass.slots)}
      BY <1>1, <1>4, <3>1 DEF Unread
    <3> QED
      BY <1>7, <3>2, SlotIsRead
  <2>3. OneSlotPerKey(q.slots) /\ Unread' \subseteq Known'
    BY <1>4, <2>1, <2>2 DEF Writing, ReadInOrder
  <2>4. ASSUME NEW s \in Known'
        PROVE  (\E u \in Unread' : u.key = s.key) \/ Before(s.key, Here) \/ (s.key = Here /\ s.state = "Withheld")
    <3>1. CASE s.key = Here
      BY <3>1
    <3>2. CASE s.key # Here
      <4>1. (\E u \in Unread : u.key = s.key) \/ Before(s.key, Here)
        BY <2>1, <3>2 DEF Writing, ReadInOrder
      <4> QED
        BY <2>2, <3>2, <4>1
    <3> QED
      BY <3>1, <3>2
  <2>5. ASSUME NEW i \in 1 .. q.pos
        PROVE  \/ Before(q.slots[i].key, Here)
               \/ q.slots[i].key = Here /\ q.slots[i].state \in {"Withheld", "Refused"}
    <3>1. i \in 1 .. pass.pos \/ i = pass.pos + 1
      BY <1>3, <1>4
    <3>2. CASE i \in 1 .. pass.pos
      BY <1>2, <1>4, <2>1, <3>2 DEF Writing, ReadInOrder
    <3>3. CASE i = pass.pos + 1
      BY <1>2, <1>4, <3>3 DEF NextSlot
    <3> QED
      BY <3>1, <3>2, <3>3
  <2>6. ReadInOrder'
    BY <1>1, <1>4, <1>5, <2>3, <2>4, <2>5 DEF ReadInOrder
  <2>7. BehindDidNotHappen'
    BY <1>1, <1>4, <1>5, <2>1, SameProgram DEF Writing, BehindDidNotHappen
  <2>8. UnderWay' /\ JustDenied'
    BY <1>1, <1>4 DEF UnderWay, JustDenied
  <2> QED
    BY <2>6, <2>7, <2>8 DEF Reading
<1>8. \A i \in DOMAIN q.slots : q.slots[i].key \in Keys
  BY <1>2, <1>4 DEF DispatchInv, PassIsSound
<1>9. PassIsSound'
  BY <1>1, <1>4, <1>5, <1>7, <1>8 DEF PassIsSound, Reading
<1> QED
  BY <1>6, <1>9

LEMMA KeptByWithheld ==
    ASSUME DispatchInv, setting' = setting, ReplayWithheld
    PROVE  DispatchInv'
<1>1. Reads({"Withheld"}) /\ UNCHANGED <<journal, world, ceiling, passes>>
      /\ pass' = IF WritesEnabled(Past) THEN Past ELSE Ends(Past, "withheld")
  BY DEF ReplayWithheld
<1>2. Consumed(Past)
  BY <1>1, Consuming
<1>3. CASE ~WritesEnabled(Past)
  <2>1. Ended(Past, pass')
    BY <1>1, <1>2, <1>3, StepsOfAPass DEF Consumed, Statuses
  <2> QED
    BY <1>1, <1>2, <2>1, ReadOn
<1>4. CASE WritesEnabled(Past)
  <2>1. pass' = Past /\ pass.mode # "Strict"
    BY <1>1, <1>2, <1>4 DEF WritesEnabled, Consumed
  <2>2. Known' = Known
    BY <1>1, SameFacts DEF DispatchInv, Facts, Journalled
  <2>3. \A s \in Known : s.key = Here => s.state = "Withheld"
    BY <1>1, <2>1, SlotIsRead DEF Reads
  <2>4. PassOK' /\ PassIsSound'
    BY <1>1, <2>1, <2>2, <2>3, LooksAgain
  <2>5. ceiling' \in setting.ceilings /\ passes' \in 0 .. setting.passes
    BY <1>1 DEF DispatchInv, TypeOK
  <2> QED
    BY <1>1, <2>4, <2>5, QuietStep
<1> QED
  BY <1>3, <1>4

LEMMA KeptByRefusal ==
    ASSUME DispatchInv, setting' = setting, ReplayRefusal
    PROVE  DispatchInv'
<1>1. Reads({"Refused"}) /\ UNCHANGED <<world, ceiling, passes>>
  BY DEF ReplayRefusal
<1>2. Consumed(Past)
  BY <1>1, Consuming
<1>3. CASE ~(WritesEnabled(Past) /\ pass.used < ceiling)
  <2>1. journal' = journal /\ pass' = Ends(Past, "exhausted")
    BY <1>3 DEF ReplayRefusal
  <2>2. Ended(Past, pass')
    BY <1>2, <2>1, StepsOfAPass DEF Consumed, Statuses
  <2> QED
    BY <1>1, <1>2, <2>1, <2>2, ReadOn
<1>4. CASE WritesEnabled(Past) /\ pass.used < ceiling
  <2>1. journal' = Append(journal, Plain("BudgetReadmitted", Here, None)) /\ pass' = Past
    BY <1>4 DEF ReplayRefusal, Write
  <2>2. pass.mode # "Strict" /\ pass # None
    BY <1>1, <1>2, <1>4 DEF WritesEnabled, Consumed, Reads, At
  <2>3. Here \in Keys /\ setting \in Settings /\ journal \in Seq(Records)
    BY <2>2, Running DEF DispatchInv, TypeOK
  <2>4. Facts /\ Journalled
    BY DEF DispatchInv, Facts, Journalled
  <2>5. /\ Journalled'
        /\ Known' = {s \in Known : ~(s.key = Here /\ s.state \in {"Withheld", "Refused"})}
        /\ \A q : Announced(q) => Announced(q)'
    BY <2>1, <2>3, <2>4, ReadmittedSoundly
  <2>6. \A s \in Known : s.key = Here => s.state = "Refused"
    BY <1>1, <2>2, SlotIsRead DEF Reads
  <2>7. PassOK' /\ PassIsSound'
    BY <1>1, <2>1, <2>5, <2>6, LooksAgain
  <2>8. Facts'
    BY <1>1, <2>4, <2>5, SameWorld
  <2>9. PICK r : r = Plain("BudgetReadmitted", Here, None)
    OBVIOUS
  <2>10. r \in Records /\ RecordOK(r)
    BY <2>3, <2>9, KeyIs DEF Plain, Rec, Records, RecordOK, OfEffects, Outcomes
  <2> QED
    BY <1>1, <2>1, <2>7, <2>8, <2>9, <2>10, WritingStep
<1> QED
  BY <1>3, <1>4

\* A pass at work where it was is sound when what it works on is.
LEMMA WorkIsSound ==
    ASSUME DispatchInv, setting' = setting, Writing, Leaves, pass.mode # "Strict",
           pass'.e = pass.e, pass'.a = pass.a, pass'.pos \in 0 .. Len(pass.slots),
           pass'.pc \in {"act", "record", "ask", "probe"}, pass'.status = None,
           UnderWay', JustDenied'
    PROVE  PassOK' /\ PassIsSound'
<1>1. PICK q : q = pass'
  OBVIOUS
<1>2. /\ q \in Passes /\ q.slots = pass.slots /\ q.mode = pass.mode /\ q.e = pass.e /\ q.a = pass.a
      /\ q.pos \in 0 .. Len(q.slots) /\ q.pc # "conclude" /\ q.status = None /\ q.mode # "Strict"
  BY <1>1 DEF Leaves
<1>3. Here' = Here /\ Keys' = Keys /\ Here \in Keys
  BY SameProgram DEF Here, Writing
<1>4. PassOK'
  BY <1>1, <1>2, <1>3 DEF PassOK
<1>5. ReadInOrder' /\ BehindDidNotHappen'
  BY StaysToWork
<1>6. \A i \in DOMAIN q.slots : q.slots[i].key \in Keys
  BY <1>2 DEF Writing
<1>7. PassIsSound'
  BY <1>1, <1>2, <1>3, <1>5, <1>6 DEF PassIsSound
<1> QED
  BY <1>4, <1>7

LEMMA KeptByOrphan ==
    ASSUME DispatchInv, setting' = setting, ReplayOrphan
    PROVE  DispatchInv'
<1>1. Reads({"Orphan"}) /\ UNCHANGED <<journal, world, ceiling, passes>>
  BY DEF ReplayOrphan
<1>2. PICK p : p = Bill(Past, 1, 0)
  OBVIOUS
<1>3. Consumed(p)
  BY <1>1, <1>2, Consuming
<1>4. pass' = CASE p.mode = "Strict" -> Ends(p, "quarantined")
                [] p.mode # "Strict" /\ Declared(Here).recovery = "Retry" -> [p EXCEPT !.pc = "act"]
                [] p.mode # "Strict" /\ Declared(Here).recovery = "Reconcile" -> [p EXCEPT !.pc = "ask"]
                [] OTHER -> Ends(p, "quarantined")
  BY <1>2 DEF ReplayOrphan
<1>5. pass.mode = p.mode /\ p \in Passes
  BY <1>3 DEF Consumed
<1>6. CASE p.mode = "Strict" \/ Declared(Here).recovery \notin {"Retry", "Reconcile"}
  <2>1. pass' = Ends(p, "quarantined")
    BY <1>4, <1>6
  <2>2. Ended(p, pass')
    BY <1>5, <2>1, StepsOfAPass DEF Statuses
  <2> QED
    BY <1>1, <1>3, <2>2, ReadOn
<1>7. CASE p.mode # "Strict" /\ Declared(Here).recovery \in {"Retry", "Reconcile"}
  <2>1. PICK pc \in {"act", "ask"} :
            /\ pass' = [p EXCEPT !.pc = pc]
            /\ pc = "act" => Declared(Here).recovery = "Retry"
            /\ pc = "ask" => Declared(Here).recovery = "Reconcile"
    BY <1>4, <1>7
  <2>2. PICK q : q = pass'
    OBVIOUS
  <2>3. /\ pass # None /\ pass.pc = "consult" /\ NextSlot.key = Here /\ NextSlot.state = "Orphan"
        /\ pass.mode # "Strict" /\ setting \in Settings /\ pass \in Passes /\ Here \in Keys
        /\ pass.status = None /\ Writing
    BY <1>1, <1>5, <1>7, Running DEF Reads, At
  <2>4. /\ q \in Passes /\ q.mode = pass.mode /\ q.slots = pass.slots /\ q.pos = pass.pos + 1
        /\ q.pc = pc /\ q.status = None /\ q.e = pass.e /\ q.a = pass.a
    BY <1>3, <2>1, <2>2, <2>3 DEF Consumed, Passes
  <2>5. Known' = Known
    BY <1>1, SameFacts DEF DispatchInv, Facts, Journalled
  <2>6. /\ NextSlot \in Known /\ pass.pos + 1 \in 1 .. Len(pass.slots)
        /\ {pass.slots[i] : i \in pass.pos + 2 .. Len(pass.slots)} = {u \in Unread : u.key # Here}
    BY <1>1, <2>3, SlotIsRead
  <2>7. Here' = Here
    BY <2>2, <2>4 DEF Here
  <2>8. Leaves
    <3>1. pass.pos \in Nat
      BY <2>3, NotNone
    <3>2. q.pos + 1 = pass.pos + 2
      BY <2>4, <3>1
    <3>3. Unread' = {u \in Unread : u.key # Here}
      BY <2>2, <2>4, <2>6, <3>2 DEF Unread
    <3>4. ASSUME NEW i \in 1 .. q.pos
          PROVE  i <= pass.pos \/ pass.slots[i].key = Here
      <4>1. i <= pass.pos \/ i = pass.pos + 1
        BY <2>4, <3>1
      <4> QED
        BY <4>1, <2>3 DEF NextSlot
    <3> QED
      BY <2>2, <2>4, <2>5, <3>3, <3>4 DEF Leaves
  <2>9. ~(Guarded(Here) /\ pc = "act") /\ ~(OnlyOperator(Here) /\ pc = "act")
    BY <2>1 DEF Guarded, OnlyOperator
  <2>10. ASSUME Guarded(Here), NEW s \in Known, s.key[1] = pass.e
         PROVE  s.key[2] <= pass.a
    <3>1. NextSlot.key[1] = pass.e /\ NextSlot.key[2] = pass.a /\ pass.a \in Nat /\ s.key[2] \in Nat
      <4>1. s.key \in Keys
        BY <2>3 DEF Writing
      <4> QED
        BY <2>3, <4>1, NotNone, KeyIs DEF Here
    <3>2. ~(NextSlot.key[2] < s.key[2])
      BY <2>3, <2>6, <2>10, <3>1 DEF DispatchInv, RetriedOnEvidence
    <3> QED
      BY <3>1, <3>2
  <2>11. UnderWay'
    <3>1. \A u \in Unread' : u.key # Here
      BY <2>8 DEF Leaves
    <3>2. NextSlot \in Known' /\ NextSlot.state \in Answerable
      BY <2>3, <2>5, <2>6 DEF Answerable
    <3> QED
      BY <2>1, <2>2, <2>3, <2>4, <2>5, <2>7, <2>9, <2>10, <3>1, <3>2, SameProgram DEF UnderWay
  <2>12. JustDenied'
    BY <2>2, <2>4, <2>7, <2>9, SameProgram DEF JustDenied
  <2>13. PassOK' /\ PassIsSound'
    <3>1. q.pos \in 0 .. Len(pass.slots)
      BY <2>4, <2>6
    <3> QED
      BY <2>2, <2>3, <2>4, <2>8, <2>11, <2>12, <3>1, WorkIsSound
  <2>14. ceiling' \in setting.ceilings /\ passes' \in 0 .. setting.passes
    BY <1>1 DEF DispatchInv, TypeOK
  <2> QED
    BY <1>1, <2>13, <2>14, QuietStep
<1> QED
  BY <1>5, <1>6, <1>7

LEMMA KeptByHistoryEnds ==
    ASSUME DispatchInv, setting' = setting, HistoryEnds
    PROVE  DispatchInv'
<1>1. /\ pass # None /\ pass.pc = "consult" /\ Exhausted /\ UNCHANGED <<journal, world, ceiling, passes>>
      /\ pass' = IF pass.mode = "Strict" THEN Diverges(pass) ELSE [pass EXCEPT !.pc = "gate"]
  BY DEF HistoryEnds, At
<1>2. pass \in Passes /\ Here \in Keys /\ pass.pos \in 0 .. Len(pass.slots) /\ pass.status = None
  BY <1>1, Running
<1>3. CASE pass.mode = "Strict"
  BY <1>1, <1>2, <1>3, StepsOfAPass, EndsQuietly
<1>4. CASE pass.mode # "Strict"
  <2>1. PICK q : q = pass'
    OBVIOUS
  <2>2. /\ q \in Passes /\ q.mode = pass.mode /\ q.slots = pass.slots /\ q.pos = pass.pos
        /\ q.pc = "gate" /\ q.status = None /\ q.e = pass.e /\ q.a = pass.a
    BY <1>1, <1>2, <1>4, <2>1 DEF Passes
  <2>3. Here' = Here /\ Keys' = Keys /\ Unread' = Unread /\ Known' = Known
    BY <1>1, <2>1, <2>2, SameProgram, SameFacts DEF Here, Unread, DispatchInv, Facts, Journalled
  <2>4. Writing
    BY <1>1, <1>4, Running
  <2>5. PassOK'
    BY <1>2, <2>1, <2>2, <2>3 DEF PassOK
  <2>6. ReadInOrder'
    <3>1. Exhausted'
      BY <1>1, <2>1, <2>2 DEF Exhausted
    <3> QED
      BY <1>1, <2>1, <2>2, <2>3, <2>4, <3>1 DEF Writing, ReadInOrder
  <2>7. BehindDidNotHappen'
    BY <2>1, <2>2, <2>3, <2>4, SameProgram DEF Writing, BehindDidNotHappen
  <2>8. UnderWay' /\ JustDenied'
    BY <2>1, <2>2 DEF UnderWay, JustDenied
  <2>9. PassIsSound'
    BY <1>4, <2>1, <2>2, <2>3, <2>4, <2>6, <2>7, <2>8 DEF PassIsSound, Writing
  <2>10. ceiling' \in setting.ceilings /\ passes' \in 0 .. setting.passes
    BY <1>1 DEF DispatchInv, TypeOK
  <2> QED
    BY <1>1, <2>5, <2>9, <2>10, QuietStep
<1> QED
  BY <1>3, <1>4

-----------------------------------------------------------------------------
(* The gate *)

\* At the gate all of history is read, and what is here was at most withheld.
Gated ==
    /\ Writing /\ pass.mode # "Strict" /\ pass.status = None /\ Unread = {}
    /\ \A s \in Known : s.key = Here => s.state = "Withheld"
    /\ Guarded(Here) => \A s \in Known : s.key[1] = Here[1] /\ s.key # Here =>
                            s.key[2] < Here[2] /\ s.state = "DidNotHappen"
    /\ ~ \E i \in DOMAIN pass.slots : pass.slots[i].key = Here /\ pass.slots[i].state = "Orphan"

\* The invariant of a pass at the gate.
LEMMA AtTheGate ==
    ASSUME DispatchInv, pass # None, pass.pc = "gate"
    PROVE  Gated
<1>1. /\ pass \in Passes /\ Here \in Keys /\ pass.pos \in 0 .. Len(pass.slots) /\ pass.mode # "Strict"
      /\ Writing /\ setting \in Settings /\ pass.status = None
  BY Running
<1>2. /\ Len(pass.slots) \in Nat /\ DOMAIN pass.slots = 1 .. Len(pass.slots) /\ pass.pos \in Nat
      /\ pass.a \in Nat /\ pass.e \in Nat
  BY <1>1, NotNone
<1>3. pass.pos = Len(pass.slots)
  <2>1. Exhausted
    BY <1>1 DEF Writing, ReadInOrder
  <2> QED
    BY <1>1, <1>2, <2>1 DEF Exhausted
<1>4. Unread = {}
  <2>1. pass.pos + 1 .. Len(pass.slots) = {}
    BY <1>2, <1>3
  <2> QED
    BY <2>1 DEF Unread
<1>5. \A s \in Known : Before(s.key, Here) \/ (s.key = Here /\ s.state = "Withheld")
  BY <1>1, <1>4 DEF Writing, ReadInOrder
<1>6. Here[1] = pass.e /\ Here[2] = pass.a /\ ~Before(Here, Here)
  BY <1>2 DEF Here, Before
<1>7. \A s \in Known : s.key = Here => s.state = "Withheld"
  BY <1>5, <1>6
<1>8. ASSUME Guarded(Here), NEW s \in Known, s.key[1] = Here[1], s.key # Here
      PROVE  s.key[2] < Here[2] /\ s.state = "DidNotHappen"
  <2>1. s.key[2] < Here[2]
    BY <1>2, <1>5, <1>6, <1>8 DEF Before
  <2> QED
    BY <1>1, <1>6, <1>8, <2>1 DEF Writing, BehindDidNotHappen
<1>9. ~ \E i \in DOMAIN pass.slots : pass.slots[i].key = Here /\ pass.slots[i].state = "Orphan"
  <2> SUFFICES ASSUME NEW i \in 1 .. pass.pos, pass.slots[i].key = Here, pass.slots[i].state = "Orphan"
               PROVE  FALSE
    BY <1>2, <1>3
  <2> QED
    BY <1>1, <1>6 DEF Writing, ReadInOrder
<1> QED
  BY <1>1, <1>4, <1>7, <1>8, <1>9 DEF Gated

\* A record that opens this position at the gate.
LEMMA OpenedAtGate ==
    ASSUME DispatchInv, setting' = setting, world' = world, Gated,
           NEW kind, NEW state, <<kind, state>> \in Opening,
           journal' = Append(journal, Plain(kind, Here, None))
    PROVE  /\ Facts' /\ Known' = {s \in Known : s.key # Here} \cup {Slot(Here, state, FALSE, 0)}
           /\ Plain(kind, Here, None) \in Records /\ RecordOK(Plain(kind, Here, None))
<1>1. Here \in Keys /\ setting \in Settings /\ journal \in Seq(Records) /\ Journalled /\ Facts
  BY DEF DispatchInv, TypeOK, Gated, Writing, Facts, Journalled
<1>2. /\ \A s \in Known : s.key = Here => s.state = "Withheld"
      /\ Guarded(Here) => \A s \in Known : s.key[1] = Here[1] /\ s.key # Here =>
                            s.key[2] < Here[2] /\ s.state = "DidNotHappen"
  BY DEF Gated
<1>3. /\ Journalled'
      /\ Known' = {s \in Known : s.key # Here} \cup {Slot(Here, state, FALSE, 0)}
      /\ \A q : Announced(q) => Announced(q)'
  BY <1>1, <1>2, OpenedSoundly
<1>4. Slot(Here, state, FALSE, 0).state # "DidNotHappen"
  BY DEF Slot, Opening
<1>5. Facts'
  BY <1>1, <1>3, <1>4, SameWorld
<1>6. PICK r : r = Plain(kind, Here, None)
  OBVIOUS
<1>7. r \in Records /\ RecordOK(r)
  BY <1>1, <1>6, KeyIs DEF Plain, Rec, Records, RecordOK, OfEffects, Outcomes, Opening
<1> QED
  BY <1>3, <1>5, <1>6, <1>7

LEMMA KeptByTheGate ==
    ASSUME DispatchInv, setting' = setting, Withhold \/ Deny \/ Refuse
    PROVE  DispatchInv'
<1>1. pass # None /\ pass.pc = "gate" /\ UNCHANGED <<world, ceiling, passes>>
  BY DEF Withhold, Deny, Refuse, Cleared, At
<1>2. PICK kind, state, status :
        /\ <<kind, state>> \in Opening /\ status \in Statuses
        /\ journal' = Append(journal, Plain(kind, Here, None)) /\ pass' = Ends(pass, status)
  <2>1. CASE Withhold
    BY <2>1 DEF Withhold, Write, Opening, Statuses
  <2>2. CASE Deny
    BY <2>2 DEF Deny, Write, Opening, Statuses
  <2>3. CASE Refuse
    BY <2>3 DEF Refuse, Write, Opening, Statuses
  <2> QED
    BY <2>1, <2>2, <2>3
<1>3. pass \in Passes /\ Gated
  BY <1>1, Running, AtTheGate
<1>4. Ended(pass, pass')
  BY <1>2, <1>3, StepsOfAPass
<1>5. PassOK' /\ PassIsSound'
  BY <1>1, <1>4, EndedIsSound
<1>6. Facts' /\ Plain(kind, Here, None) \in Records /\ RecordOK(Plain(kind, Here, None))
  BY <1>1, <1>2, <1>3, OpenedAtGate
<1> QED
  BY <1>1, <1>2, <1>5, <1>6, WritingStep

LEMMA KeptByAnnounce ==
    ASSUME DispatchInv, setting' = setting, Announce
    PROVE  DispatchInv'
<1>1. /\ pass # None /\ pass.pc = "gate" /\ UNCHANGED <<world, ceiling, passes>>
      /\ journal' = Append(journal, Plain("EffectStarted", Here, None))
      /\ pass' = [Bill(pass, 1, 0) EXCEPT !.pc = "act"]
  BY DEF Announce, Cleared, At, Write
<1>2. Gated /\ Writing /\ pass \in Passes /\ setting \in Settings /\ Here \in Keys /\ pass.pos \in 0 .. Len(pass.slots)
  BY <1>1, Running, AtTheGate
<1>3. <<"EffectStarted", "Orphan">> \in Opening
  BY DEF Opening
<1>4. PICK new : new = Slot(Here, "Orphan", FALSE, 0)
  OBVIOUS
<1>5. /\ Facts' /\ Known' = {s \in Known : s.key # Here} \cup {new}
      /\ Plain("EffectStarted", Here, None) \in Records /\ RecordOK(Plain("EffectStarted", Here, None))
  BY <1>1, <1>2, <1>3, <1>4, OpenedAtGate
<1>6. new.key = Here /\ new.state = "Orphan"
  BY <1>4 DEF Slot
<1>7. PICK q : q = pass'
  OBVIOUS
<1>8. /\ q \in Passes /\ q.mode = pass.mode /\ q.slots = pass.slots /\ q.pos = pass.pos
      /\ q.pc = "act" /\ q.status = None /\ q.e = pass.e /\ q.a = pass.a
  <2>1. PICK p : p = Bill(pass, 1, 0)
    OBVIOUS
  <2>2. Keeps(pass, p) /\ p.status = pass.status /\ p.e = pass.e /\ p.a = pass.a
    BY <1>2, <2>1, Billed
  <2>3. q = [p EXCEPT !.pc = "act"]
    BY <1>1, <1>7, <2>1
  <2> QED
    BY <1>2, <2>2, <2>3 DEF Gated, Keeps, Passes
<1>9. Here' = Here /\ Unread' = {} /\ Unread = {} /\ pass.mode # "Strict"
  BY <1>2, <1>7, <1>8 DEF Here, Unread, Gated
<1>10. Leaves
  <2>1. \A i \in 1 .. q.pos : i <= pass.pos
    BY <1>8, <1>2
  <2> QED
    BY <1>5, <1>6, <1>7, <1>8, <1>9, <2>1 DEF Leaves
<1>11. OnlyOperator(Here) => world[Here] = 0
  <2>1. ~Announced(Here)
    BY <1>2 DEF Gated, DispatchInv, CursorIsSound, Answerable, Dispositions
  <2>2. ~(world[Here] > 0) /\ world[Here] \in Nat
    BY <1>2, <2>1 DEF DispatchInv, TypeOK, AnnouncedFirst, Announced, Positions
  <2> QED
    BY <2>2
<1>12. ASSUME Guarded(Here), NEW s \in Known', s.key[1] = pass.e
       PROVE  s.key[2] <= pass.a
  <2>1. Here[1] = pass.e /\ Here[2] = pass.a /\ pass.a \in Nat
    BY <1>2, NotNone DEF Here
  <2>2. CASE s.key = Here
    BY <2>1, <2>2
  <2>3. CASE s.key # Here
    <3>1. s \in Known /\ s.key \in Keys
      BY <1>2, <1>5, <1>6, <2>3 DEF Writing
    <3>2. s.key[2] < pass.a /\ s.key[2] \in Nat
      BY <1>2, <1>12, <2>1, <2>3, <3>1, KeyIs DEF Gated
    <3> QED
      BY <2>1, <3>2
  <2> QED
    BY <2>2, <2>3
<1>13. UnderWay'
  <2>1. new \in Known' /\ new.state \in Answerable
    BY <1>5, <1>6 DEF Answerable
  <2> QED
    BY <1>1, <1>6, <1>7, <1>8, <1>9, <1>11, <1>12, <2>1, SameProgram DEF UnderWay
<1>14. JustDenied'
  BY <1>2, <1>7, <1>8, <1>9 DEF JustDenied, Gated
<1>15. PassOK' /\ PassIsSound'
  BY <1>2, <1>7, <1>8, <1>9, <1>10, <1>13, <1>14, WorkIsSound
<1> QED
  BY <1>1, <1>5, <1>15, WritingStep

-----------------------------------------------------------------------------
(* An attempt under way *)

\* The invariant of a pass at work.
LEMMA AtWork ==
    ASSUME DispatchInv, pass # None, pass.pc \in Working
    PROVE  /\ Writing /\ UnderWay /\ JustDenied /\ pass.mode # "Strict" /\ pass.status = None
           /\ setting \in Settings /\ pass \in Passes /\ Here \in Keys /\ pass.pos \in 0 .. Len(pass.slots)
           /\ Here[1] = pass.e /\ Here[2] = pass.a /\ pass.e \in Nat /\ pass.a \in Nat
           /\ \A u \in Unread : u.key # Here
<1>1. /\ setting \in Settings /\ pass \in Passes /\ Here \in Keys /\ pass.pos \in 0 .. Len(pass.slots)
      /\ pass.mode # "Strict" /\ pass.status = None /\ Writing /\ Reading
  BY Running DEF Working
<1>2. UnderWay /\ JustDenied /\ \A u \in Unread : u.key # Here
  BY <1>1 DEF Reading, UnderWay, Working
<1>3. pass.e \in Nat /\ pass.a \in Nat /\ Here[1] = pass.e /\ Here[2] = pass.a
  BY <1>1, NotNone DEF Here
<1> QED
  BY <1>1, <1>2, <1>3

\* The call is made.
LEMMA KeptByPerform ==
    ASSUME DispatchInv, setting' = setting, Perform
    PROVE  DispatchInv'
<1>1. /\ pass # None /\ pass.pc = "act" /\ UNCHANGED <<journal, ceiling, passes>>
  BY DEF Perform, At
<1>2. PICK landed \in BOOLEAN, d \in Dispositions, perm \in BOOLEAN :
        /\ d = "DidNotHappen" => ~landed
        /\ world' = IF landed THEN [world EXCEPT ![Here] = @ + 1] ELSE world
        /\ pass' = [pass EXCEPT !.call = [says |-> d, perm |-> perm], !.pc = "record"]
  BY ZenonT(30) DEF Perform, Answers, Dispositions
<1>3. PICK h : h = Here
  OBVIOUS
<1>4. /\ Writing /\ UnderWay /\ pass.mode # "Strict" /\ pass.status = None
      /\ setting \in Settings /\ pass \in Passes /\ h \in Keys /\ pass.pos \in 0 .. Len(pass.slots)
      /\ h[1] = pass.e /\ h[2] = pass.a /\ pass.e \in Nat /\ pass.a \in Nat
      /\ \A u \in Unread : u.key # h
  BY <1>1, <1>3, AtWork DEF Working
<1>5. PICK q : q = pass'
  OBVIOUS
<1>6. PICK call \in Calls : call.says = d /\ call = [says |-> d, perm |-> perm]
  BY DEF Calls
<1>7. /\ q \in Passes /\ q.mode = pass.mode /\ q.slots = pass.slots /\ q.pos = pass.pos
      /\ q.pc = "record" /\ q.status = None /\ q.e = pass.e /\ q.a = pass.a /\ q.call = call
  BY <1>2, <1>4, <1>5, <1>6 DEF Passes
<1>8. PICK w : w = world'
  OBVIOUS
<1>9. /\ w \in [Keys -> Nat] /\ world \in [Keys -> Nat]
      /\ \A k \in Keys : k # h \/ ~landed => w[k] = world[k]
      /\ landed => w[h] = world[h] + 1
  BY <1>2, <1>3, <1>4, <1>8 DEF DispatchInv, TypeOK
<1>10. PICK s \in Known :
        /\ s.key = h /\ s.state \in Answerable
        /\ Guarded(h) => s.state = "Orphan" \/ (s.state = "DidNotHappen" /\ ~OnlyOperator(h))
  BY <1>1, <1>3, <1>4 DEF UnderWay
<1>11. /\ Guarded(h) => \A t \in Known : t.key[1] = pass.e => t.key[2] <= pass.a
       /\ OnlyOperator(h) => world[h] = 0 /\ Guarded(h)
  BY <1>1, <1>3, <1>4 DEF UnderWay, OnlyOperator, Guarded
<1>12. Journalled /\ Journalled' /\ Known' = Known /\ \A k : Announced(k)' <=> Announced(k)
  BY <1>1, SameJournal DEF DispatchInv, Journalled
<1>13. \A k \in Keys : world[k] > 0 => Announced(k)
  BY DEF DispatchInv, AnnouncedFirst, Announced, Positions
<1>14. AnnouncedFirst'
  <2>1. Announced(h)
    BY <1>4, <1>10, <1>12 DEF Journalled, CursorIsSound
  <2>2. \A k \in Keys' : w[k] > 0 => Announced(k)'
    BY <1>9, <1>12, <1>13, <2>1, SameProgram
  <2> QED
    BY <1>8, <2>2 DEF AnnouncedFirst, Announced, Positions
<1>15. OperatorEffectsLandOnce'
  <2> SUFFICES ASSUME NEW e \in Effects, Program[e].recovery = "RequiresOperator", Program[e].mutates,
                      NEW a \in Attempts, NEW b \in Attempts, w[<<e, a>>] > 0, w[<<e, b>>] > 0
               PROVE  a = b /\ w[<<e, a>>] = 1
    BY <1>8 DEF OperatorEffectsLandOnce, Effects, Program, Attempts, MaxAttempts
  <2>1. <<e, a>> \in Keys /\ <<e, b>> \in Keys
    BY DEF Keys
  <2>2. CASE e # pass.e \/ ~landed
    <3>1. <<e, a>> # h \/ ~landed
      BY <1>4, <2>2
    <3>2. <<e, b>> # h \/ ~landed
      BY <1>4, <2>2
    <3>3. world[<<e, a>>] = w[<<e, a>>] /\ world[<<e, b>>] = w[<<e, b>>]
      BY <1>9, <2>1, <3>1, <3>2
    <3> QED
      BY <3>3 DEF DispatchInv, OperatorEffectsLandOnce
  <2>3. CASE e = pass.e /\ landed
    <3>1. OnlyOperator(h) /\ Guarded(h) /\ world[h] = 0
      BY <1>4, <1>11, <2>3 DEF OnlyOperator, Declared
    <3>2. ASSUME NEW x \in Attempts, w[<<e, x>>] > 0
          PROVE  x = pass.a
      <4> SUFFICES ASSUME x # pass.a PROVE FALSE
        OBVIOUS
      <4>1. PICK k \in Keys : k = <<e, x>> /\ k[1] = e /\ k[2] = x
        <5>1. <<e, x>> \in Keys
          BY DEF Keys
        <5> QED
          BY <5>1
      <4>2. world[k] > 0 /\ k # h
        BY <1>4, <1>9, <3>2, <4>1
      <4>3. PICK t \in Known : t.key = k
        BY <1>12, <1>13, <4>2 DEF Journalled, CursorIsSound
      <4>4. x \in Nat /\ x <= pass.a
        BY <1>4, <1>11, <2>3, <3>1, <4>1, <4>3, KeyIs
      <4>5. x < pass.a
        BY <1>4, <4>4
      <4>6. t.state = "DidNotHappen"
        BY <1>3, <1>4, <2>3, <3>1, <4>1, <4>3, <4>5 DEF Writing, BehindDidNotHappen
      <4>7. OnlyOperator(t.key)
        BY <4>1, <4>3 DEF OnlyOperator, Declared
      <4>8. world[k] = 0
        BY <4>3, <4>6, <4>7 DEF DispatchInv, DidNotHappenIsTrue
      <4> QED
        BY <4>2, <4>8
    <3>3. a = pass.a /\ b = pass.a
      BY <3>2
    <3>4. <<e, a>> = h
      BY <1>3, <2>3, <3>3 DEF Here
    <3> QED
      BY <1>9, <2>3, <3>1, <3>3, <3>4
  <2> QED
    BY <2>2, <2>3
<1>16. DidNotHappenIsTrue'
  <2> SUFFICES ASSUME NEW t \in Known, OnlyOperator(t.key), t.state = "DidNotHappen"
               PROVE  w[t.key] = 0
    BY <1>8, <1>12, SameProgram DEF DidNotHappenIsTrue
  <2>1. world[t.key] = 0 /\ t.key \in Keys
    BY <1>12 DEF DispatchInv, DidNotHappenIsTrue, Journalled, CursorIsSound
  <2>2. t.key # h
    <3> SUFFICES ASSUME t.key = h PROVE FALSE
      OBVIOUS
    <3>1. t = s
      BY <1>10, <1>12 DEF Journalled, CursorIsSound, Known, ToSet, OneSlotPerKey
    <3> QED
      BY <1>10, <1>11, <3>1
  <2> QED
    BY <1>9, <2>1, <2>2
<1>17. Here' = h /\ Unread' = Unread
  BY <1>3, <1>5, <1>7 DEF Here, Unread
<1>18. Leaves
  <2>1. \A i \in 1 .. q.pos : i <= pass.pos
    BY <1>7, <1>4
  <2>2. Unread' = {u \in Unread : u.key # h}
    BY <1>4, <1>17
  <2> QED
    BY <1>3, <1>5, <1>7, <1>12, <2>1, <2>2 DEF Leaves
<1>19. UnderWay'
  <2>1. OnlyOperator(h) /\ q.call.says = "DidNotHappen" => w[h] = 0
    BY <1>2, <1>4, <1>6, <1>7, <1>9, <1>11
  <2>2. (Guarded(h)' <=> Guarded(h)) /\ (OnlyOperator(h)' <=> OnlyOperator(h))
    BY SameProgram
  <2> QED
    BY <1>4, <1>5, <1>6, <1>7, <1>8, <1>10, <1>11, <1>12, <1>17, <2>1, <2>2 DEF UnderWay
<1>20. JustDenied'
  BY <1>5, <1>7 DEF JustDenied
<1>21. PassOK' /\ PassIsSound'
  BY <1>4, <1>5, <1>7, <1>18, <1>19, <1>20, WorkIsSound
<1>22. TypeOK'
  <2>1. \A x : RecordOK(x)' <=> RecordOK(x)
    BY SameProgram DEF RecordOK
  <2> QED
    BY <1>1, <1>8, <1>9, <1>21, <2>1, SameProgram DEF DispatchInv, TypeOK, PassOK
<1> QED
  BY <1>12, <1>14, <1>15, <1>16, <1>21, <1>22 DEF DispatchInv, Journalled

\* An outcome was recorded of the attempt under way.
LEMMA SettledHere ==
    ASSUME DispatchInv, pass # None, pass.pc \in Working, NEW state, NowSays(Here, state),
           NEW q, q = pass', q \in Passes, q.slots = pass.slots, q.mode = pass.mode, q.pos = pass.pos
    PROVE  /\ Leaves /\ \A u \in Unread' : u.key # Here
           /\ \A s \in Known' : s.key = Here => s.state = state
           /\ \E s \in Known' : s.key = Here /\ s.state = state
           /\ Guarded(Here) => \A s \in Known' : s.key[1] = pass.e => s.key[2] <= pass.a
<1>1. PICK new \in Slots : /\ new.key = Here /\ new.state = state
                           /\ Known' = {s \in Known : s.key # Here} \cup {new}
  BY DEF NowSays
<1>2. /\ Writing /\ UnderWay /\ pass \in Passes /\ pass.pos \in 0 .. Len(pass.slots)
      /\ Here[1] = pass.e /\ Here[2] = pass.a /\ pass.a \in Nat
      /\ \A u \in Unread : u.key # Here
  BY AtWork
<1>3. Unread' = Unread
  BY DEF Unread
<1>4. Leaves
  <2>1. \A i \in 1 .. q.pos : i <= pass.pos
    BY <1>2
  <2>2. Unread' = {u \in Unread : u.key # Here}
    BY <1>2, <1>3
  <2> QED
    BY <1>1, <2>1, <2>2 DEF Leaves
<1>5. Guarded(Here) => \A s \in Known : s.key[1] = pass.e => s.key[2] <= pass.a
  BY <1>2 DEF UnderWay, Working
<1>6. Guarded(Here) => \A s \in Known' : s.key[1] = pass.e => s.key[2] <= pass.a
  BY <1>1, <1>2, <1>5
<1> QED
  BY <1>1, <1>2, <1>3, <1>4, <1>6

\* The pass then ends, goes on, or tries again what did not happen.
LEMMA SettledAndGone ==
    ASSUME DispatchInv, setting' = setting, pass # None, pass.pc \in Working,
           NEW state, NowSays(Here, state),
           NEW p, Keeps(pass, p), p.e = pass.e, p.a = pass.a, p.status = None,
           \/ Ended(p, pass')
           \/ NextEffect(p, pass')
           \/ NextAttempt(p, pass') /\ pass.a + 1 \in Attempts /\ (Guarded(Here) => state = "DidNotHappen")
    PROVE  PassOK' /\ PassIsSound'
<1>1. PICK q : q = pass'
  OBVIOUS
<1>2. q \in Passes /\ q.mode = pass.mode /\ q.slots = pass.slots /\ q.pos = pass.pos
  BY <1>1 DEF Ended, NextEffect, NextAttempt, Keeps
<1>3. CASE q.pc = "conclude"
  <2>1. Ended(pass, pass')
    BY <1>1, <1>3 DEF Ended, NextEffect, NextAttempt, Keeps
  <2> QED
    BY <2>1, EndedIsSound
<1>4. CASE q.pc # "conclude"
  <2>1. q.pc = "consult" /\ q.status = None
    BY <1>1, <1>4 DEF Ended, NextEffect, NextAttempt
  <2>2. \/ pass.e < Len(Program) /\ q.e = pass.e + 1 /\ q.a = 1
        \/ /\ q.e = pass.e /\ q.a = pass.a + 1 /\ pass.a + 1 \in Attempts
           /\ Guarded(Here) => state = "DidNotHappen"
    BY <1>1, <1>4 DEF Ended, NextEffect, NextAttempt
  <2>3. /\ Writing /\ setting \in Settings /\ pass \in Passes /\ Here \in Keys /\ pass.mode # "Strict"
        /\ pass.pos \in 0 .. Len(pass.slots)
    BY AtWork
  <2>4. <<q.e, q.a>> \in Keys
    <3>1. pass.e \in 1 .. Len(Program) /\ pass.a \in 1 .. MaxAttempts /\ Attempts = 1 .. MaxAttempts
      BY <2>3, SettingIs DEF Here, Attempts
    <3>2. q.e \in 1 .. Len(Program) /\ q.a \in 1 .. MaxAttempts
      <4>1. Len(Program) \in Nat /\ MaxAttempts \in Nat \ {0}
        BY <2>3, SettingIs
      <4>2. CASE pass.e < Len(Program) /\ q.e = pass.e + 1 /\ q.a = 1
        BY <3>1, <4>1, <4>2
      <4>3. CASE q.e = pass.e /\ q.a = pass.a + 1 /\ pass.a + 1 \in Attempts
        BY <3>1, <4>3
      <4> QED
        BY <2>2, <4>2, <4>3
    <3> QED
      BY <2>3, <3>2, SettingIs
  <2>5. Here' = <<q.e, q.a>> /\ Keys' = Keys
    BY <1>1, SameProgram DEF Here
  <2>6. PassOK'
    BY <1>1, <1>2, <2>1, <2>3, <2>4, <2>5 DEF PassOK
  <2>7. Leaves /\ \A s \in Known' : s.key = Here => s.state = state
    BY <1>1, <1>2, SettledHere
  <2>8. Onwards
    BY <1>1, <2>2, <2>7 DEF Onwards
  <2>9. Reading'
    BY <1>1, <2>1, <2>3, <2>4, <2>5, <2>7, <2>8, GoesOn
  <2>10. PassIsSound'
    BY <1>1, <1>2, <2>1, <2>3, <2>5, <2>9 DEF PassIsSound, Reading, Writing
  <2> QED
    BY <2>6, <2>10
<1> QED
  BY <1>3, <1>4

\* What a verdict on a failed attempt does.
LEMMA Judged ==
    ASSUME setting \in Settings, NEW p \in Passes, NEW d \in {"Landed", "InDoubt", "DidNotHappen"},
           NEW perm \in BOOLEAN, NEW k \in Keys, k = <<p.e, p.a>>
    PROVE  \/ Ended(p, FailedVerdict(p, d, perm))
           \/ /\ NextAttempt(p, FailedVerdict(p, d, perm)) /\ p.a + 1 \in Attempts
              /\ Guarded(k) => d = "DidNotHappen"
<1>1. PICK stop : stop = StopReason(d, perm, k)
  OBVIOUS
<1>2. FailedVerdict(p, d, perm) = IF stop = None THEN Retries(p) ELSE Ends(p, stop)
  BY <1>1 DEF FailedVerdict
<1>3. /\ stop \in Statuses \cup {None}
      /\ stop = None => k[2] + 1 \in Attempts /\ (Guarded(k) => d = "DidNotHappen")
  BY <1>1, TriedAgain
<1> QED
  BY <1>2, <1>3, StepsOfAPass

\* The outcome is recorded.
LEMMA KeptByRecordOutcome ==
    ASSUME DispatchInv, setting' = setting, RecordOutcome
    PROVE  DispatchInv'
<1>1. pass # None /\ pass.pc = "record" /\ pass.pc \in Working /\ UNCHANGED <<world, ceiling, passes>>
  BY DEF RecordOutcome, At, Working
<1>2. /\ Writing /\ UnderWay /\ pass.mode # "Strict" /\ pass.status = None
      /\ setting \in Settings /\ pass \in Passes /\ Here \in Keys /\ pass.pos \in 0 .. Len(pass.slots)
      /\ Here[1] = pass.e /\ Here[2] = pass.a
  BY <1>1, AtWork
<1>3. pass.call \in Calls
  BY <1>1, <1>2 DEF UnderWay
<1>4. PICK d \in Dispositions, perm \in BOOLEAN, spend \in Nat :
        d = pass.call.says /\ perm = pass.call.perm /\ spend = Spend(d)
  BY <1>3 DEF Calls, Spend
<1>5. PICK r : r = Rec(IF d = "Done" THEN "EffectDone" ELSE "EffectFailed", Here, d, perm, spend)
  OBVIOUS
<1>6. PICK p : p = [Bill(pass, 0, spend) EXCEPT !.call = None]
  OBVIOUS
<1>7. /\ journal' = Append(journal, r)
      /\ pass' = CASE d = "Done" -> Answered(p)
                   [] d = "InDoubt" /\ Declared(Here).recovery = "Reconcile" -> [p EXCEPT !.pc = "probe"]
                   [] OTHER -> FailedVerdict(p, d, perm)
  BY <1>4, <1>5, <1>6 DEF RecordOutcome, Write
<1>8. p \in Passes /\ Keeps(pass, p) /\ p.e = pass.e /\ p.a = pass.a /\ p.status = None
  BY <1>2, <1>6, BilledFor, ZenonT(30)
<1>9. /\ r \in Records /\ RecordOK(r) /\ r.kind \in Outcomes /\ r.key = Here /\ r.says = d
      /\ r.kind = "EffectReconciled" => FALSE
      /\ StateSaid(r) = d
  <2>1. Here \in Nat \X Nat
    BY <1>2, KeyIs
  <2> QED
    BY <1>2, <1>4, <1>5, <2>1 DEF Rec, Records, RecordOK, OfEffects, Outcomes, StateSaid
<1>10. journal \in Seq(Records) /\ Journalled /\ Facts
  BY DEF DispatchInv, TypeOK, Facts, Journalled
<1>11. PICK old \in Known :
        /\ old.key = Here /\ old.state \in Answerable
        /\ Guarded(Here) => old.state \in {"Orphan", "DidNotHappen"}
  BY <1>1, <1>2 DEF UnderWay
<1>12. /\ Guarded(Here) => \A s \in Known : s.key[1] = Here[1] => s.key[2] <= Here[2]
       /\ OnlyOperator(Here) /\ d = "DidNotHappen" => world[Here] = 0
  BY <1>1, <1>2, <1>4 DEF UnderWay
<1>13. ~(Guarded(Here) /\ Here \in Listed.doubts)
  BY <1>10, <1>11 DEF Journalled, DoubtsAreSlots
<1>14. /\ Journalled' /\ NowSays(Here, d)
       /\ \A q : Announced(q) => Announced(q)'
  BY <1>2, <1>7, <1>9, <1>10, <1>11, <1>12, <1>13, SettledSoundly
<1>15. Facts'
  <2>1. \A s \in Known' : s \in Known \/ (s.key = Here /\ s.state = d)
    BY <1>14 DEF NowSays
  <2> QED
    BY <1>1, <1>10, <1>12, <1>14, <2>1, SameWorld
<1>16. PassOK' /\ PassIsSound'
  <2>1. CASE d = "Done"
    <3>1. Ended(p, pass') \/ NextEffect(p, pass')
      BY <1>7, <1>8, <2>1, StepsOfAPass
    <3> QED
      BY <1>1, <1>8, <1>14, <3>1, SettledAndGone
  <2>2. CASE d = "InDoubt" /\ Declared(Here).recovery = "Reconcile"
    <3>1. PICK q : q = pass'
      OBVIOUS
    <3>2. q = [p EXCEPT !.pc = "probe"]
      BY <1>7, <2>2, <3>1
    <3>3. /\ q \in Passes /\ q.mode = pass.mode /\ q.slots = pass.slots /\ q.pos = pass.pos
          /\ q.pc = "probe" /\ q.status = None /\ q.e = pass.e /\ q.a = pass.a
      BY <1>8, <3>2 DEF Keeps, Passes
    <3>4. /\ Leaves /\ \A u \in Unread' : u.key # Here
          /\ \E s \in Known' : s.key = Here /\ s.state = "InDoubt"
          /\ Guarded(Here) => \A s \in Known' : s.key[1] = pass.e => s.key[2] <= pass.a
      BY <1>1, <1>14, <2>2, <3>1, <3>3, SettledHere
    <3>5. Here' = Here /\ "InDoubt" \in Answerable
      BY <3>1, <3>3 DEF Here, Answerable, Dispositions
    <3>6. UnderWay' /\ JustDenied'
      BY <2>2, <3>1, <3>3, <3>4, <3>5, SameProgram DEF UnderWay, JustDenied
    <3> QED
      BY <1>2, <3>1, <3>3, <3>4, <3>6, WorkIsSound
  <2>3. CASE d # "Done" /\ ~(d = "InDoubt" /\ Declared(Here).recovery = "Reconcile")
    <3>1. pass' = FailedVerdict(p, d, perm)
      BY <1>7, <2>3
    <3>2. d \in {"Landed", "InDoubt", "DidNotHappen"} /\ Here = <<p.e, p.a>>
      BY <1>8, <2>3 DEF Dispositions, Here
    <3>3. \/ Ended(p, pass')
          \/ NextAttempt(p, pass') /\ pass.a + 1 \in Attempts /\ (Guarded(Here) => d = "DidNotHappen")
      BY <1>2, <1>8, <3>1, <3>2, Judged
    <3> QED
      BY <1>1, <1>8, <1>14, <3>3, SettledAndGone
  <2> QED
    BY <2>1, <2>2, <2>3
<1> QED
  BY <1>1, <1>7, <1>9, <1>15, <1>16, WritingStep

\* The provider is asked.
LEMMA KeptByProbe ==
    ASSUME DispatchInv, setting' = setting, Probe
    PROVE  DispatchInv'
<1>1. pass # None /\ pass.pc \in {"ask", "probe"} /\ pass.pc \in Working /\ UNCHANGED <<world, ceiling, passes>>
  BY DEF Probe, At, Working
<1>2. PICK d \in {"InDoubt", "Landed", "DidNotHappen"} :
        /\ journal' = Append(journal, Rec("EffectReconciled", Here, d, FALSE, IF d = "Landed" THEN 1 ELSE 0))
        /\ pass' = AfterProbe(pass, d)
  BY DEF Probe, Findings, Write
<1>3. PICK r : r = Rec("EffectReconciled", Here, d, FALSE, IF d = "Landed" THEN 1 ELSE 0)
  OBVIOUS
<1>4. /\ Writing /\ UnderWay /\ pass.mode # "Strict" /\ pass.status = None
      /\ setting \in Settings /\ pass \in Passes /\ Here \in Keys /\ pass.pos \in 0 .. Len(pass.slots)
      /\ Here[1] = pass.e /\ Here[2] = pass.a
  BY <1>1, AtWork
<1>5. Declared(Here).recovery = "Reconcile" /\ ~OnlyOperator(Here)
  BY <1>1, <1>4 DEF UnderWay, OnlyOperator
<1>6. PICK state \in Dispositions : state = IF d = "Landed" THEN "Done" ELSE d
  BY DEF Dispositions
<1>7. /\ r \in Records /\ RecordOK(r) /\ r.kind \in Outcomes /\ r.key = Here /\ r.says = d
      /\ r.kind = "EffectReconciled" /\ d \in Dispositions /\ StateSaid(r) = state
  <2>1. Here \in Nat \X Nat
    BY <1>4, KeyIs
  <2> QED
    BY <1>3, <1>4, <1>6, <2>1 DEF Rec, Records, RecordOK, OfEffects, Outcomes, StateSaid, Dispositions
<1>8. journal \in Seq(Records) /\ Journalled /\ Facts
  BY DEF DispatchInv, TypeOK, Facts, Journalled
<1>9. PICK old \in Known : old.key = Here /\ old.state \in Answerable
  BY <1>1, <1>4 DEF UnderWay
<1>10. Guarded(Here) => \A s \in Known : s.key[1] = Here[1] => s.key[2] <= Here[2]
  BY <1>1, <1>4 DEF UnderWay
<1>11. /\ Journalled' /\ NowSays(Here, state)
       /\ \A q : Announced(q) => Announced(q)'
  BY <1>2, <1>3, <1>4, <1>7, <1>8, <1>9, <1>10, SettledSoundly
<1>12. Facts'
  <2>1. \A s \in Known' : s \in Known \/ s.key = Here
    BY <1>11 DEF NowSays
  <2> QED
    BY <1>1, <1>5, <1>8, <1>11, <2>1, SameWorld
<1>13. Keeps(pass, pass) /\ Here = <<pass.e, pass.a>>
  BY <1>4 DEF Keeps, Here
<1>14. PassOK' /\ PassIsSound'
  <2>1. CASE d = "Landed"
    <3>1. PICK p : p = Bill(pass, 0, 1)
      OBVIOUS
    <3>2. Keeps(pass, p) /\ p.e = pass.e /\ p.a = pass.a /\ p.status = None /\ p \in Passes
      <4>1. Keeps(pass, p) /\ p.status = pass.status /\ p.e = pass.e /\ p.a = pass.a
        BY <1>4, <3>1, Billed
      <4> QED
        BY <1>4, <4>1 DEF Keeps
    <3>3. pass' = Answered(p)
      BY <1>2, <2>1, <3>1 DEF AfterProbe
    <3>4. Ended(p, pass') \/ NextEffect(p, pass')
      BY <3>2, <3>3, StepsOfAPass
    <3> QED
      BY <1>1, <1>11, <3>2, <3>4, SettledAndGone
  <2>2. CASE pass.pc = "ask" /\ d = "DidNotHappen"
    <3>1. PICK q : q = pass'
      OBVIOUS
    <3>2. q = [pass EXCEPT !.pc = "act"] /\ state = "DidNotHappen"
      BY <1>2, <1>6, <2>2, <3>1 DEF AfterProbe
    <3>3. /\ q \in Passes /\ q.mode = pass.mode /\ q.slots = pass.slots /\ q.pos = pass.pos
          /\ q.pc = "act" /\ q.status = None /\ q.e = pass.e /\ q.a = pass.a
      BY <1>4, <3>2 DEF Passes
    <3>4. /\ Leaves /\ \A u \in Unread' : u.key # Here
          /\ \E s \in Known' : s.key = Here /\ s.state = "DidNotHappen"
          /\ Guarded(Here) => \A s \in Known' : s.key[1] = pass.e => s.key[2] <= pass.a
      <4>1. NowSays(Here, "DidNotHappen")
        BY <1>11, <3>2
      <4> QED
        BY <1>1, <3>1, <3>3, <4>1, SettledHere
    <3>5. Here' = Here /\ "DidNotHappen" \in Answerable
      BY <3>1, <3>3 DEF Here, Answerable, Dispositions
    <3>6. UnderWay'
      BY <1>5, <3>1, <3>3, <3>4, <3>5, SameProgram DEF UnderWay
    <3>7. Last(journal') = r
      <4>1. PICK j : j = journal'
        OBVIOUS
      <4>2. Len(journal) \in Nat /\ j = Append(journal, r)
        BY <1>2, <1>3, <1>8, <4>1
      <4>3. Len(j) = Len(journal) + 1 /\ j[Len(journal) + 1] = r
        BY <1>7, <1>8, <4>2
      <4> QED
        BY <4>1, <4>3 DEF Last
    <3>8. JustDenied'
      BY <1>7, <2>2, <3>7 DEF JustDenied
    <3> QED
      BY <1>4, <3>1, <3>3, <3>4, <3>6, <3>8, WorkIsSound
  <2>3. CASE pass.pc = "ask" /\ d = "InDoubt"
    <3>1. Ended(pass, pass')
      BY <1>2, <1>4, <2>3, StepsOfAPass DEF AfterProbe, Statuses
    <3> QED
      BY <1>1, <3>1, EndedIsSound
  <2>4. CASE pass.pc = "probe" /\ d # "Landed"
    <3>1. pass' = FailedVerdict(pass, d, FALSE) /\ state = d
      BY <1>2, <1>6, <2>4 DEF AfterProbe
    <3>2. \/ Ended(pass, pass')
          \/ NextAttempt(pass, pass') /\ pass.a + 1 \in Attempts /\ (Guarded(Here) => state = "DidNotHappen")
      BY <1>4, <1>13, <3>1, Judged
    <3> QED
      BY <1>1, <1>4, <1>11, <1>13, <3>2, SettledAndGone
  <2> QED
    BY <1>1, <2>1, <2>2, <2>3, <2>4
<1> QED
  BY <1>1, <1>2, <1>3, <1>7, <1>12, <1>14, WritingStep

-----------------------------------------------------------------------------
(* Ending a pass, and the operators *)

\* A record about no effect.
LEMMA NoteIsKept ==
    ASSUME DispatchInv, UNCHANGED <<setting, world, ceiling, passes>>, pass' = None,
           NEW r \in Records, RecordOK(r), r.kind \notin OfEffects, journal' = Append(journal, r)
    PROVE  DispatchInv'
<1>1. journal \in Seq(Records) /\ Journalled /\ Facts
  BY DEF DispatchInv, TypeOK, Facts, Journalled
<1>2. Journalled' /\ Known' = Known /\ (\A k : Announced(k)' <=> Announced(k))
  BY <1>1, NotesChangeNothing
<1>3. Facts'
  BY <1>1, <1>2, SameWorld
<1>4. PassOK' /\ PassIsSound'
  BY NoPassIsSound
<1> QED
  BY <1>3, <1>4, WritingStep

LEMMA KeptByConclude ==
    ASSUME DispatchInv, setting' = setting, Conclude
    PROVE  DispatchInv'
<1>1. pass # None /\ pass.pc = "conclude" /\ pass' = None /\ UNCHANGED <<world, ceiling, passes>>
  BY DEF Conclude, At
<1>2. CASE journal' = journal
  <2>1. ceiling' \in setting.ceilings /\ passes' \in 0 .. setting.passes
    BY <1>1 DEF DispatchInv, TypeOK
  <2> QED
    BY <1>1, <1>2, <2>1, NoPassIsSound, QuietStep
<1>3. CASE journal' # journal
  <2>1. PICK r : r = Rec("RunConcluded", <<pass.used, pass.spent>>, pass.status, pass.diverged, 0)
    OBVIOUS
  <2>2. journal' = Append(journal, r)
    BY <1>3, <2>1 DEF Conclude, Write
  <2>3. pass \in Passes /\ pass.status # None
    BY <1>1, Running
  <2>4. pass.status \in Statuses /\ pass.used \in Nat /\ pass.spent \in Nat /\ pass.diverged \in BOOLEAN
    BY <2>3 DEF Passes
  <2>5. r \in Records /\ RecordOK(r) /\ r.kind \notin OfEffects
    BY <2>1, <2>4 DEF Rec, Records, RecordOK, OfEffects, Outcomes
  <2> QED
    BY <1>1, <2>2, <2>5, NoteIsKept
<1> QED
  BY <1>2, <1>3

LEMMA KeptByDecision ==
    ASSUME DispatchInv, setting' = setting, NEW decision \in {"Reopen", "Abandon"}, DecideQuarantine(decision)
    PROVE  DispatchInv'
<1>1. PICK r : r = Plain("QuarantineDecided", None, decision)
  OBVIOUS
<1>2. pass' = None /\ UNCHANGED <<world, ceiling, passes>> /\ journal' = Append(journal, r)
  BY <1>1 DEF DecideQuarantine, Write
<1>3. r \in Records /\ RecordOK(r) /\ r.kind \notin OfEffects
  BY <1>1 DEF Plain, Rec, Records, RecordOK, OfEffects, Outcomes
<1> QED
  BY <1>2, <1>3, NoteIsKept

\* An operator's answer is about an attempt that was not retried, where it
\* matters, and is true.
LEMMA KeptByReconcile ==
    ASSUME DispatchInv, setting' = setting, NEW k \in Keys, ReconcileEffect(k)
    PROVE  DispatchInv'
<1>1. PICK d \in {"Landed", "DidNotHappen"} : d = IF world[k] > 0 THEN "Landed" ELSE "DidNotHappen"
  OBVIOUS
<1>2. PICK r : r = Plain("EffectReconciled", k, d)
  OBVIOUS
<1>3. /\ pass = None /\ pass' = None /\ k \in UndecidedEffects /\ UNCHANGED <<world, ceiling, passes>>
      /\ journal' = Append(journal, r)
  BY <1>1, <1>2 DEF ReconcileEffect, Write
<1>4. /\ setting \in Settings /\ journal \in Seq(Records) /\ Journalled /\ Facts
      /\ (d = "DidNotHappen" => world[k] = 0)
  <2>1. world[k] \in Nat
    BY DEF DispatchInv, TypeOK
  <2>2. d = "DidNotHappen" => world[k] = 0
    BY <1>1, <2>1
  <2> QED
    BY <2>2 DEF DispatchInv, TypeOK, Facts, Journalled
<1>5. /\ r \in Records /\ RecordOK(r) /\ r.kind \in Outcomes /\ r.key = k /\ r.says = d
      /\ r.kind = "EffectReconciled" /\ d \in Dispositions
      /\ StateSaid(r) = IF d = "Landed" THEN "Done" ELSE d
  <2>1. k \in Nat \X Nat
    BY <1>4, KeyIs
  <2> QED
    BY <1>2, <2>1 DEF Plain, Rec, Records, RecordOK, OfEffects, Outcomes, StateSaid, Dispositions
<1>6. PICK old \in Known : old.key = k /\ old.state \in Answerable
  BY <1>3, <1>4 DEF Journalled, DoubtsAreSlots, CursorIsSound
<1>7. ASSUME Guarded(k), NEW s \in Known, s.key[1] = k[1]
      PROVE  s.key[2] <= k[2]
  <2>1. old.state # "DidNotHappen"
    BY <1>3, <1>4, <1>6, <1>7 DEF Journalled, DoubtsAreSlots, UndecidedEffects
  <2>2. ~(k[2] < s.key[2])
    BY <1>4, <1>6, <1>7, <2>1 DEF Journalled, RetriedOnEvidence
  <2>3. s.key \in Keys
    BY <1>4 DEF Journalled, CursorIsSound
  <2>4. k[2] \in Nat /\ s.key[2] \in Nat
    BY <1>4, <2>3, KeyIs
  <2> QED
    BY <2>2, <2>4
<1>8. /\ Journalled' /\ NowSays(k, StateSaid(r))
      /\ \A q : Announced(q) => Announced(q)'
  BY <1>3, <1>4, <1>5, <1>6, <1>7, SettledSoundly
<1>9. Facts'
  <2>1. \A s \in Known' : s \in Known \/ (s.key = k /\ s.state = StateSaid(r))
    BY <1>8 DEF NowSays
  <2>2. StateSaid(r) = "DidNotHappen" => world[k] = 0
    BY <1>1, <1>4, <1>5
  <2> QED
    BY <1>3, <1>4, <1>8, <2>1, <2>2, SameWorld
<1> QED
  BY <1>3, <1>5, <1>9, NoPassIsSound, WritingStep

-----------------------------------------------------------------------------
(* What operators and the unwind are told *)

\* t is the evidence after each of the first n records.
Tells(t, mutating, records, n) ==
    t = [m \in 0 .. n |-> IF m = 0 THEN [known |-> {}, touched |-> {}]
                          ELSE TouchAfter(mutating, t[m - 1], records[m])]

\* The fold of the evidence is defined.
LEMMA EvidenceExists ==
    ASSUME NEW S, NEW records \in Seq(S), NEW mutating
    PROVE  Tells(Evidence(mutating, records), mutating, records, Len(records))
<1> DEFINE none == [known |-> {}, touched |-> {}]
           Bad == {n \in Nat : ~ \E f : Tells(f, mutating, records, n)}
<1>1. Bad = {}
  <2>1. SUFFICES ASSUME Bad # {} PROVE FALSE
    OBVIOUS
  <2>2. PICK n \in Bad : \A m \in Bad : n <= m
    BY <2>1, Least
  <2>3. n # 0
    <3>1. Tells([m \in 0 .. 0 |-> none], mutating, records, 0)
      BY DEF Tells
    <3> QED
      BY <3>1
  <2>4. n - 1 \in Nat /\ n - 1 \notin Bad
    BY <2>2, <2>3
  <2>5. PICK f : Tells(f, mutating, records, n - 1)
    BY <2>4
  <2> DEFINE g == [m \in 0 .. n |-> IF m = n THEN TouchAfter(mutating, f[n - 1], records[n]) ELSE f[m]]
  <2>6. \A m \in 0 .. n - 1 : f[m] = IF m = 0 THEN none ELSE TouchAfter(mutating, f[m - 1], records[m])
    BY <2>5, <2>4 DEF Tells
  <2>7. \A m \in 0 .. n : g[m] = IF m = 0 THEN none ELSE TouchAfter(mutating, g[m - 1], records[m])
    <3> HIDE DEF none
    <3> TAKE m \in 0 .. n
    <3>1. CASE m = n
      BY <3>1, <2>3, <2>4
    <3>2. CASE m # n /\ m # 0
      <4>1. m \in 0 .. n - 1 /\ m - 1 \in 0 .. n /\ m - 1 # n
        BY <3>2, <2>4
      <4> QED
        BY <4>1, <2>6, <3>2
    <3>3. CASE m # n /\ m = 0
      BY <3>3, <2>6, <2>4
    <3> QED
      BY <3>1, <3>2, <3>3
  <2>8. Tells(g, mutating, records, n)
    BY <2>7 DEF Tells
  <2> QED
    BY <2>8
<1>2. Len(records) \in Nat
  OBVIOUS
<1>3. PICK f : Tells(f, mutating, records, Len(records))
  BY <1>1, <1>2
<1> QED
  BY <1>3 DEF Tells, Evidence

\* One more record is applied to the evidence the others left.
LEMMA EvidenceGrows ==
    ASSUME NEW S, NEW records \in Seq(S), NEW mutating, NEW r \in S
    PROVE  Evidence(mutating, Append(records, r))[Len(Append(records, r))]
                = TouchAfter(mutating, Evidence(mutating, records)[Len(records)], r)
<1> DEFINE n == Len(records)
           none == [known |-> {}, touched |-> {}]
           more == Append(records, r)
           f == Evidence(mutating, records)
           g == Evidence(mutating, more)
           Bad == {m \in 0 .. n : f[m] # g[m]}
<1>1. n \in Nat /\ more \in Seq(S) /\ Len(more) = n + 1 /\ more[n + 1] = r
      /\ \A m \in 1 .. n : more[m] = records[m]
  OBVIOUS
<1>2. Tells(f, mutating, records, n) /\ Tells(g, mutating, more, n + 1)
  BY <1>1, EvidenceExists
<1> HIDE DEF f, g, n, more
<1>3. /\ \A m \in 0 .. n : f[m] = IF m = 0 THEN none ELSE TouchAfter(mutating, f[m - 1], records[m])
      /\ \A m \in 0 .. n + 1 : g[m] = IF m = 0 THEN none ELSE TouchAfter(mutating, g[m - 1], more[m])
  BY <1>2 DEF Tells
<1> HIDE DEF none
<1>4. Bad = {}
  <2>1. SUFFICES ASSUME Bad # {} PROVE FALSE
    OBVIOUS
  <2>2. Bad \subseteq Nat
    OBVIOUS
  <2>3. PICK m \in Bad : \A k \in Bad : m <= k
    BY <2>1, <2>2, Least
  <2>4. m \in 0 .. n /\ f[m] # g[m]
    OBVIOUS
  <2>5. m # 0
    BY <2>4, <1>1, <1>3
  <2>6. m - 1 \in 0 .. n /\ m - 1 \notin Bad
    BY <2>3, <2>4, <2>5, <1>1
  <2>7. f[m - 1] = g[m - 1]
    BY <2>6
  <2>8. f[m] = TouchAfter(mutating, f[m - 1], records[m]) /\ g[m] = TouchAfter(mutating, g[m - 1], records[m])
    BY <2>4, <2>5, <1>1, <1>3
  <2> QED
    BY <2>4, <2>7, <2>8
<1>5. f[n] = g[n]
  BY <1>1, <1>4
<1>6. g[n + 1] = TouchAfter(mutating, g[n], r)
  BY <1>1, <1>3
<1> QED
  BY <1>1, <1>5, <1>6 DEF f, g, n, more

\* What one more record does to what is touched, and to the records of a kind.
LEMMA EvidenceOfRecord ==
    ASSUME journal \in Seq(Records), NEW r \in Records, journal' = Append(journal, r), setting' = setting,
           Told \in [known : SUBSET Keys, touched : SUBSET Keys], r.kind \in OfEffects => r.key \in Keys
    PROVE  /\ Told' \in [known : SUBSET Keys, touched : SUBSET Keys]
           /\ \A k \in Touched :
                    \/ k \in Touched'
                    \/ r.kind \in {"EffectFailed", "EffectReconciled"} /\ r.key = k /\ r.says = "DidNotHappen"
           /\ r.kind = "EffectStarted" /\ r.key[1] \in Mutating => r.key \in Touched'
           /\ \A kind : \A i \in Positions(kind)' :
                    \/ r.kind = kind /\ journal'[i] = r
                    \/ i \in Positions(kind) /\ journal'[i] = journal[i]
<1>1. Told' = TouchAfter(Mutating, Told, r)
  BY EvidenceGrows, SameProgram DEF Told
<1>2. PICK n \in Nat : n = Len(journal) /\ DOMAIN journal = 1 .. n
  OBVIOUS
<1>3. PICK j : j = journal'
  OBVIOUS
<1>4. /\ DOMAIN j = 1 .. n + 1 /\ j[n + 1] = r /\ \A i \in 1 .. n : j[i] = journal[i]
  BY <1>2, <1>3
<1>5. \A kind : \A i \in Positions(kind)' :
        \/ r.kind = kind /\ journal'[i] = r
        \/ i \in Positions(kind) /\ journal'[i] = journal[i]
  BY <1>2, <1>3, <1>4 DEF Positions
<1>6. CASE r.kind = "EffectStarted" /\ r.key[1] \in Mutating
  <2>1. Told' = [known |-> Told.known \cup {r.key}, touched |-> Told.touched \cup {r.key}]
    BY <1>1, <1>6 DEF TouchAfter
  <2>2. r.key \in Keys
    BY <1>6 DEF OfEffects
  <2> QED
    BY <1>5, <2>1, <2>2 DEF Touched
<1>7. CASE r.kind \in {"EffectFailed", "EffectReconciled"} /\ r.key \in Told.known
  <2>1. Told' = [Told EXCEPT !.touched = IF r.says = "DidNotHappen" THEN @ \ {r.key} ELSE @ \cup {r.key}]
    BY <1>1, <1>7 DEF TouchAfter
  <2>2. r.key \in Keys /\ r.kind # "EffectStarted" /\ r.kind \in Outcomes
    BY <1>7 DEF OfEffects, Outcomes
  <2>3. Told'.touched = IF r.says = "DidNotHappen" THEN Told.touched \ {r.key} ELSE Told.touched \cup {r.key}
    BY <2>1
  <2>4. Told'.known = Told.known /\ Told' \in [known : SUBSET Keys, touched : SUBSET Keys]
    BY <2>1, <2>2
  <2> QED
    BY <1>5, <1>7, <2>2, <2>3, <2>4 DEF Touched
<1>8. CASE /\ ~(r.kind = "EffectStarted" /\ r.key[1] \in Mutating)
           /\ ~(r.kind \in {"EffectFailed", "EffectReconciled"} /\ r.key \in Told.known)
  <2>1. Told' = Told
    BY <1>1, <1>8 DEF TouchAfter
  <2> QED
    BY <1>5, <1>8, <2>1 DEF Touched
<1> QED
  BY <1>6, <1>7, <1>8

\* Nothing is written: what is told stays.
LEMMA ToldTheSame ==
    ASSUME EvidenceInv, UNCHANGED <<setting, journal>>
    PROVE  (AttemptsAreTold /\ LandingsStay /\ DenialsStay)' /\ Known' = Known
<1>1. Known' = Known /\ Listed' = Listed /\ Told' = Told /\ Touched' = Touched
  BY SameProgram DEF Known, Cursor, Listed, Told, Touched
<1>2. \A k : Unprobed(k)' <=> Unprobed(k)
  BY DEF Unprobed, Declared, Program
<1>3. AttemptsAreTold'
  BY <1>1, <1>2, SameProgram DEF EvidenceInv, AttemptsAreTold, IsTold, Overtaken
<1>4. (LandingsStay /\ DenialsStay)'
  BY <1>1, <1>2 DEF EvidenceInv, LandingsStay, DenialsStay, Positions
<1> QED
  BY <1>1, <1>3, <1>4

\* A step that does not write and calls nothing new.
LEMMA QuietlyTold ==
    ASSUME EvidenceInv, UNCHANGED <<setting, journal>>,
           pass' # None /\ pass'.pc \in {"act", "record"} /\ Unprobed(Here)' =>
                \E s \in Known : s.key = Here' /\ s.state = "Orphan"
    PROVE  EvidenceInv'
BY ToldTheSame DEF EvidenceInv, CalledAsOrphan

\* What is told stays true of the slots a record leaves alone, and is true of
\* the others.
LEMMA ToldAfter ==
    ASSUME DispatchInv, EvidenceInv, setting' = setting, NEW r \in Records, journal' = Append(journal, r),
           r.kind \in OfEffects => r.key \in Keys,
           \A s \in Known' : Unprobed(s.key) => IsTold(s)',
           \A s \in Known : s.state = "Denied" \/ (s.state = "Done" /\ Unprobed(s.key)) =>
                \E t \in Known' : t.key = s.key /\ t.state = s.state,
           r.kind = "EffectDone" => \E t \in Known' : t.key = r.key /\ t.state = "Done",
           r.kind = "PolicyDenied" => \E t \in Known' : t.key = r.key /\ t.state = "Denied"
    PROVE  (AttemptsAreTold /\ LandingsStay /\ DenialsStay)'
<1>1. journal \in Seq(Records)
  BY DEF DispatchInv, TypeOK
<1>2. /\ Told' \in [known : SUBSET Keys, touched : SUBSET Keys]
      /\ \A kind : \A i \in Positions(kind)' :
            \/ r.kind = kind /\ journal'[i] = r
            \/ i \in Positions(kind) /\ journal'[i] = journal[i]
  BY <1>1, EvidenceOfRecord DEF EvidenceInv, AttemptsAreTold
<1>3. \A k : Unprobed(k)' <=> Unprobed(k)
  BY DEF Unprobed, Declared, Program
<1>4. AttemptsAreTold'
  BY <1>2, <1>3, SameProgram DEF AttemptsAreTold
<1>5. LandingsStay'
  <2> SUFFICES ASSUME NEW i \in Positions("EffectDone")', Unprobed(journal'[i].key)
               PROVE  \E t \in Known' : t.key = journal'[i].key /\ t.state = "Done"
    BY <1>3 DEF LandingsStay
  <2>1. CASE r.kind = "EffectDone" /\ journal'[i] = r
    BY <2>1
  <2>2. CASE i \in Positions("EffectDone") /\ journal'[i] = journal[i]
    <3>1. PICK s \in Known : s.key = journal[i].key /\ s.state = "Done"
      BY <2>2 DEF EvidenceInv, LandingsStay
    <3> QED
      BY <2>2, <3>1
  <2> QED
    BY <1>2, <2>1, <2>2
<1>6. DenialsStay'
  <2> SUFFICES ASSUME NEW i \in Positions("PolicyDenied")'
               PROVE  \E t \in Known' : t.key = journal'[i].key /\ t.state = "Denied"
    BY DEF DenialsStay
  <2>1. CASE r.kind = "PolicyDenied" /\ journal'[i] = r
    BY <2>1
  <2>2. CASE i \in Positions("PolicyDenied") /\ journal'[i] = journal[i]
    <3>1. PICK s \in Known : s.key = journal[i].key /\ s.state = "Denied"
      BY <2>2 DEF EvidenceInv, DenialsStay
    <3> QED
      BY <2>2, <3>1
  <2> QED
    BY <1>2, <2>1, <2>2
<1> QED
  BY <1>4, <1>5, <1>6

\* A record about no effect tells nothing new.
LEMMA NotesTellNothing ==
    ASSUME DispatchInv, EvidenceInv, setting' = setting, pass' = None,
           NEW r \in Records, r.kind \notin OfEffects, journal' = Append(journal, r)
    PROVE  EvidenceInv'
<1>1. journal \in Seq(Records) /\ Journalled
  BY DEF DispatchInv, TypeOK, Journalled
<1>2. Known' = Known /\ Listed' = Listed
  BY <1>1, NotesChangeNothing, RecordsGrow DEF DoubtAfter, OfEffects, Outcomes
<1>3. Touched \subseteq Touched'
  BY <1>1, EvidenceOfRecord DEF EvidenceInv, AttemptsAreTold, OfEffects, Outcomes
<1>4. \A s \in Known' : Unprobed(s.key) => IsTold(s)'
  BY <1>2, <1>3 DEF EvidenceInv, AttemptsAreTold, IsTold, Overtaken
<1>5. (AttemptsAreTold /\ LandingsStay /\ DenialsStay)'
  BY <1>2, <1>4, ToldAfter DEF OfEffects, Outcomes
<1> QED
  BY <1>5 DEF EvidenceInv, CalledAsOrphan

\* A refusal re-admitted tells nothing new.
LEMMA ReadmissionsTellNothing ==
    ASSUME DispatchInv, EvidenceInv, setting' = setting, pass # None, Here \in Keys,
           journal' = Append(journal, Plain("BudgetReadmitted", Here, None))
    PROVE  (AttemptsAreTold /\ LandingsStay /\ DenialsStay)'
<1>1. journal \in Seq(Records) /\ Journalled /\ setting \in Settings
  BY DEF DispatchInv, TypeOK, Journalled
<1>2. PICK r : r = Plain("BudgetReadmitted", Here, None)
  OBVIOUS
<1>3. r \in Records /\ r.kind = "BudgetReadmitted" /\ r.key = Here
  BY <1>1, <1>2, KeyIs DEF Plain, Rec, Records, OfEffects
<1>4. Known' = {s \in Known : ~(s.key = Here /\ s.state \in {"Withheld", "Refused"})}
  BY <1>1, ReadmittedSoundly
<1>5. Listed' = Listed
  BY <1>1, <1>2, <1>3, RecordsGrow DEF DoubtAfter
<1>6. Touched \subseteq Touched'
  BY <1>1, <1>2, <1>3, EvidenceOfRecord DEF EvidenceInv, AttemptsAreTold, Outcomes
<1>7. \A s \in Known' : s \in Known
  BY <1>4
<1>8. \A s \in Known : s.state \in {"Done", "Denied"} => s \in Known'
  BY <1>4
<1>9. \A k : Overtaken(k) => Overtaken(k)'
  BY <1>8 DEF Overtaken
<1>10. \A s \in Known' : Unprobed(s.key) => IsTold(s)'
  BY <1>5, <1>6, <1>7, <1>9 DEF EvidenceInv, AttemptsAreTold, IsTold
<1> QED
  BY <1>2, <1>3, <1>8, <1>10, ToldAfter

\* A position is opened at the gate: an announcement is told as open and as
\* evidence, a refusal, a withholding and a denial as nothing.
LEMMA OpeningIsTold ==
    ASSUME DispatchInv, EvidenceInv, setting' = setting, world' = world, pass # None, Gated,
           NEW kind, NEW state, <<kind, state>> \in Opening,
           journal' = Append(journal, Plain(kind, Here, None))
    PROVE  /\ (AttemptsAreTold /\ LandingsStay /\ DenialsStay)'
           /\ \E s \in Known' : s.key = Here /\ s.state = state
<1>1. journal \in Seq(Records) /\ Journalled /\ setting \in Settings /\ Here \in Keys
  BY DEF DispatchInv, TypeOK, Journalled, Gated, Writing
<1>2. PICK r : r = Plain(kind, Here, None)
  OBVIOUS
<1>3. /\ r \in Records /\ r.kind = kind /\ r.key = Here
      /\ kind \in {"EffectStarted", "BudgetRefused", "AuthorityWithheld", "PolicyDenied"}
  <2>1. r \in Records
    BY <1>2, OpenedAtGate
  <2>2. r.kind = kind /\ r.key = Here
    BY <1>2 DEF Plain, Rec
  <2>3. kind \in {"EffectStarted", "BudgetRefused", "AuthorityWithheld", "PolicyDenied"}
    BY DEF Opening
  <2> QED
    BY <2>1, <2>2, <2>3
<1>4. PICK new : /\ new.key = Here /\ new.state = state
                 /\ Known' = {s \in Known : s.key # Here} \cup {new}
  <2>1. Slot(Here, state, FALSE, 0).key = Here /\ Slot(Here, state, FALSE, 0).state = state
    BY DEF Slot
  <2> QED
    BY <2>1, OpenedAtGate
<1>5. \A s \in Known : s.key = Here => s.state = "Withheld"
  BY DEF Gated
<1>6. Here \notin Listed.open /\ Here \notin Listed.doubts
  <2>1. ~Announced(Here)
    BY <1>1, <1>5 DEF Journalled, CursorIsSound, Answerable, Dispositions
  <2> QED
    BY <1>1, <2>1 DEF Journalled, DoubtsAreSlots, UndecidedEffects
<1>7. /\ Listed'.doubts = Listed.doubts
      /\ Listed'.open = IF kind = "EffectStarted" /\ Here[1] \in Mutating THEN Listed.open \cup {Here} ELSE Listed.open
  <2>1. Listed' = IF kind = "EffectStarted" /\ Here[1] \in Mutating
                  THEN [Listed EXCEPT !.open = @ \cup {Here}] ELSE Listed
    BY <1>1, <1>2, <1>3, RecordsGrow DEF DoubtAfter
  <2>2. Listed \in [open : SUBSET Keys, doubts : SUBSET Keys]
    BY <1>1 DEF Journalled, DoubtsAreSlots
  <2> QED
    BY <2>1, <2>2
<1>8. /\ Touched \subseteq Touched'
      /\ kind = "EffectStarted" /\ Here[1] \in Mutating => Here \in Touched'
  BY <1>1, <1>2, <1>3, EvidenceOfRecord DEF EvidenceInv, AttemptsAreTold, Outcomes
<1>9. \A s \in Known : s.state # "Withheld" => s \in Known' /\ s.key # Here
  BY <1>4, <1>5
<1>10. \A k : Overtaken(k) => Overtaken(k)'
  BY <1>9 DEF Overtaken
<1>11. ASSUME NEW s \in Known', Unprobed(s.key)
       PROVE  IsTold(s)'
  <2>1. CASE s = new
    <3>1. Here[1] \in Mutating
      BY <1>1, <1>4, <1>11, <2>1, KeyIs DEF Unprobed
    <3>2. \/ state = "Orphan" /\ kind = "EffectStarted"
          \/ state \in {"Refused", "Withheld", "Denied"} /\ kind # "EffectStarted"
      BY DEF Opening
    <3> QED
      BY <1>4, <1>6, <1>7, <1>8, <2>1, <3>1, <3>2 DEF IsTold
  <2>2. CASE s \in Known /\ s.key # Here
    <3>1. IsTold(s)
      BY <1>11, <2>2 DEF EvidenceInv, AttemptsAreTold
    <3> QED
      BY <1>7, <1>8, <1>10, <2>2, <3>1 DEF IsTold
  <2> QED
    BY <1>4, <2>1, <2>2
<1>12. kind = "PolicyDenied" => state = "Denied"
  BY DEF Opening
<1>13. new \in Known'
  BY <1>4
<1>14. (AttemptsAreTold /\ LandingsStay /\ DenialsStay)'
  BY <1>1, <1>2, <1>3, <1>4, <1>9, <1>11, <1>12, <1>13, ToldAfter
<1> QED
  BY <1>4, <1>13, <1>14

\* An outcome is recorded of an attempt nobody has recorded one of, or by an
\* operator of one in doubt.
LEMMA OutcomeIsTold ==
    ASSUME DispatchInv, EvidenceInv, setting' = setting, NEW k \in Keys,
           NEW r \in Records, journal' = Append(journal, r),
           r.kind \in Outcomes, r.key = k, r.says \in Dispositions, NowSays(k, StateSaid(r)),
           NEW old \in Known, old.key = k, old.state \in Answerable,
           Unprobed(k) => \/ old.state = "Orphan"
                          \/ r.kind = "EffectReconciled" /\ r.says # "InDoubt" /\ old.state = "InDoubt"
    PROVE  (AttemptsAreTold /\ LandingsStay /\ DenialsStay)'
<1>1. journal \in Seq(Records) /\ Journalled /\ setting \in Settings
  BY DEF DispatchInv, TypeOK, Journalled
<1>2. PICK new : /\ new.key = k /\ new.state = StateSaid(r)
                 /\ Known' = {s \in Known : s.key # k} \cup {new}
  BY DEF NowSays
<1>3. \A s \in Known : s.key = k => s = old
  BY <1>1 DEF Journalled, CursorIsSound, Known, ToSet, OneSlotPerKey
<1>4. Listed \in [open : SUBSET Keys, doubts : SUBSET Keys]
  BY <1>1 DEF Journalled, DoubtsAreSlots
<1>5. Listed' = DoubtAfter(Mutating, Listed, r)
  BY <1>1, RecordsGrow
<1>6. \A q \in Touched : q \in Touched' \/ (q = k /\ r.kind # "EffectDone" /\ r.says = "DidNotHappen")
  BY <1>1, EvidenceOfRecord DEF EvidenceInv, AttemptsAreTold, OfEffects
<1>7. \A s \in Known : s.state = "Denied" \/ (s.state = "Done" /\ Unprobed(s.key)) => s \in Known' /\ s.key # k
  BY <1>2, <1>3 DEF Answerable, Dispositions
<1>8. Listed'.open = Listed.open \ {k}
  <2>1. CASE r.kind = "EffectDone"
    BY <1>4, <1>5, <2>1 DEF DoubtAfter
  <2>2. CASE r.kind = "EffectFailed"
    BY <1>4, <1>5, <2>2 DEF DoubtAfter
  <2>3. CASE r.kind = "EffectReconciled"
    BY <1>4, <1>5, <2>3 DEF DoubtAfter
  <2> QED
    BY <2>1, <2>2, <2>3 DEF Outcomes
<1>9. \A q : q # k => /\ q \in Listed'.doubts => q \in Listed.doubts
                      /\ q \in Listed.doubts => q \in Listed'.doubts \/ (r.kind = "EffectDone" /\ q[1] = k[1])
  <2>1. CASE r.kind = "EffectDone"
    BY <1>4, <1>5, <2>1 DEF DoubtAfter
  <2>2. CASE r.kind = "EffectFailed"
    BY <1>4, <1>5, <2>2 DEF DoubtAfter
  <2>3. CASE r.kind = "EffectReconciled"
    BY <1>4, <1>5, <2>3 DEF DoubtAfter
  <2> QED
    BY <2>1, <2>2, <2>3 DEF Outcomes
<1>10. ASSUME NEW s \in Known', Unprobed(s.key)
       PROVE  IsTold(s)'
  <2>1. CASE s = new
    <3>1. IsTold(old) /\ old.key = k /\ Unprobed(k)
      BY <1>2, <1>10, <2>1 DEF EvidenceInv, AttemptsAreTold
    <3>2. StateSaid(r) # "DidNotHappen" => k \in Touched'
      BY <1>6, <3>1 DEF IsTold, StateSaid
    <3>3. StateSaid(r) \in Dispositions /\ StateSaid(r) # "Orphan"
      BY DEF StateSaid, Dispositions
    <3>4. /\ k \in Listed'.doubts => StateSaid(r) = "InDoubt"
          /\ StateSaid(r) = "InDoubt" => k \in Listed'.doubts
      <4>1. CASE r.kind = "EffectDone"
        <5>1. old.state = "Orphan" /\ k \notin Listed.doubts /\ StateSaid(r) = "Done"
          BY <3>1, <4>1 DEF IsTold, StateSaid
        <5> QED
          BY <1>4, <1>5, <4>1, <5>1 DEF DoubtAfter
      <4>2. CASE r.kind = "EffectFailed"
        <5>1. old.state = "Orphan" /\ k \notin Listed.doubts /\ k \in Listed.open /\ StateSaid(r) = r.says
          BY <3>1, <4>2 DEF IsTold, StateSaid
        <5> QED
          BY <1>4, <1>5, <4>2, <5>1 DEF DoubtAfter
      <4>3. CASE r.kind = "EffectReconciled" /\ r.says = "InDoubt"
        <5>1. old.state = "Orphan" /\ k \in Listed.open /\ StateSaid(r) = "InDoubt"
          BY <3>1, <4>3 DEF IsTold, StateSaid
        <5> QED
          BY <1>4, <1>5, <4>3, <5>1 DEF DoubtAfter
      <4>4. CASE r.kind = "EffectReconciled" /\ r.says # "InDoubt"
        <5>1. StateSaid(r) # "InDoubt"
          BY <4>4 DEF StateSaid
        <5> QED
          BY <1>4, <1>5, <4>4, <5>1 DEF DoubtAfter
      <4> QED
        BY <4>1, <4>2, <4>3, <4>4 DEF Outcomes
    <3> QED
      BY <1>2, <1>8, <2>1, <3>2, <3>3, <3>4 DEF IsTold
  <2>2. CASE s \in Known /\ s.key # k
    <3>1. IsTold(s)
      BY <1>10, <2>2 DEF EvidenceInv, AttemptsAreTold
    <3>2. Overtaken(s.key) => Overtaken(s.key)'
      <4> SUFFICES ASSUME NEW t \in Known, t.key[1] = s.key[1], t.state = "Done"
                   PROVE  t \in Known'
        BY DEF Overtaken
      <4>1. Unprobed(t.key)
        BY <1>10 DEF Unprobed, Declared
      <4> QED
        BY <1>7, <4>1
    <3>3. r.kind = "EffectDone" /\ s.key[1] = k[1] => Overtaken(s.key)'
      BY <1>2 DEF Overtaken, StateSaid
    <3> QED
      BY <1>6, <1>8, <1>9, <2>2, <3>1, <3>2, <3>3 DEF IsTold
  <2> QED
    BY <1>2, <2>1, <2>2
<1>11. r.kind = "EffectDone" => new.state = "Done"
  BY <1>2 DEF StateSaid
<1> QED
  BY <1>2, <1>7, <1>10, <1>11, ToldAfter DEF Outcomes

\* A verdict on an attempt calls nothing.
LEMMA VerdictsCallNothing ==
    ASSUME NEW p \in Passes
    PROVE  /\ Answered(p).pc \in {"consult", "conclude"} /\ Diverges(p).pc = "conclude"
           /\ Retries(p).pc = "consult" /\ \A s : Ends(p, s).pc = "conclude"
<1>1. \A s : Ends(p, s).pc = "conclude"
  BY DEF Ends, Passes
<1> QED
  BY <1>1, StepsOfAPass DEF Ended, NextEffect, NextAttempt

\* Most steps leave no call under way that was not.
LEMMA NobodyCalls ==
    ASSUME DispatchInv, EvidenceInv, setting' = setting,
           \/ Execute \/ Resume \/ Verify \/ Crash \/ RaiseCeiling \/ SetHalt
           \/ ReplayDone \/ ReplayDiverges \/ ReplayDenial \/ ReplayWithheld
           \/ ReplayFailed \/ HistoryEnds \/ FailToRecord
    PROVE  EvidenceInv'
<1>1. journal' = journal
  BY DEF Execute, Resume, Verify, Crash, RaiseCeiling, SetHalt, ReplayDone, ReplayDiverges, ReplayDenial,
         ReplayWithheld, ReplayFailed, HistoryEnds, FailToRecord
<1>2. pass' = pass \/ pass' = None \/ pass'.pc \notin {"act", "record"}
  <2>1. CASE Crash \/ RaiseCeiling \/ SetHalt
    BY <2>1 DEF Crash, RaiseCeiling, SetHalt
  <2>2. CASE Execute \/ Resume \/ Verify
    <3>1. ASSUME NEW mode PROVE Fresh(mode).pc = "consult" /\ \A s : Ends(Fresh(mode), s).pc = "conclude"
      BY DEF Fresh, Ends
    <3> QED
      BY <2>2, <3>1 DEF Execute, Resume, Verify
  <2>3. CASE ReplayDiverges \/ FailToRecord
    <3>1. pass # None /\ pass \in Passes
      BY <2>3, Running DEF ReplayDiverges, FailToRecord, At
    <3>2. CASE ReplayDiverges
      BY <3>1, <3>2, VerdictsCallNothing DEF ReplayDiverges
    <3>3. CASE FailToRecord
      <4>1. PICK p : p = [Bill(pass, 0, Spend(pass.call.says)) EXCEPT !.call = None]
        OBVIOUS
      <4>2. p \in Passes
        BY <3>1, <4>1, BilledFor DEF Spend
      <4> QED
        BY <3>3, <4>1, <4>2, VerdictsCallNothing DEF FailToRecord
    <3> QED
      BY <2>3, <3>2, <3>3
  <2>4. CASE ReplayDone \/ ReplayFailed
    <3>1. PICK states : Reads(states)
      BY <2>4, ZenonT(30) DEF ReplayDone, ReplayFailed
    <3>2. PICK p : p = Bill(Past, 1, NextSlot.spend)
      OBVIOUS
    <3>3. p \in Passes
      <4>1. NextSlot.spend \in Nat
        BY <3>1, SlotIsRead DEF Slots
      <4> QED
        BY <3>1, <3>2, <4>1, Consuming DEF Consumed
    <3>4. \/ pass' \in {Answered(p), Retries(p), Diverges(p)}
          \/ \E s : pass' = Ends(p, s)
      BY <2>4, <3>2 DEF ReplayDone, ReplayFailed
    <3> QED
      BY <3>3, <3>4, VerdictsCallNothing
  <2>5. CASE ReplayDenial \/ ReplayWithheld
    <3>1. PICK states : Reads(states)
      BY <2>5 DEF ReplayDenial, ReplayWithheld
    <3>2. pass \in Passes /\ pass.pc = "consult"
      BY <3>1, Running DEF Reads, At
    <3>3. Past \in Passes /\ Past.pc = "consult"
      BY <3>2, MovedPast
    <3>4. pass' = Past \/ \E s : pass' = Ends(Past, s)
      BY <2>5 DEF ReplayDenial, ReplayWithheld
    <3> QED
      BY <3>3, <3>4, VerdictsCallNothing
  <2>6. CASE HistoryEnds
    <3>1. pass # None /\ pass \in Passes
      BY <2>6, Running DEF HistoryEnds, At
    <3>2. [pass EXCEPT !.pc = "gate"].pc = "gate"
      BY <3>1 DEF Passes
    <3> QED
      BY <2>6, <3>1, <3>2, VerdictsCallNothing DEF HistoryEnds
  <2> QED
    BY <2>1, <2>2, <2>3, <2>4, <2>5, <2>6
<1>3. ASSUME pass' = pass, pass # None, pass.pc \in {"act", "record"}, Unprobed(Here)'
      PROVE  \E s \in Known : s.key = Here' /\ s.state = "Orphan"
  <2>1. Here' = Here /\ Unprobed(Here)
    BY <1>3 DEF Here, Unprobed, Declared, Program
  <2> QED
    BY <1>3, <2>1 DEF EvidenceInv, CalledAsOrphan
<1> QED
  BY <1>1, <1>2, <1>3, QuietlyTold

\* An orphan performed again is an orphan, and one being performed stays one.
LEMMA CallsAreToldAsOpen ==
    ASSUME DispatchInv, EvidenceInv, setting' = setting, ReplayOrphan \/ Perform
    PROVE  EvidenceInv'
<1>1. journal' = journal
  BY DEF ReplayOrphan, Perform
<1>2. CASE ReplayOrphan
  <2>1. Reads({"Orphan"})
    BY <1>2 DEF ReplayOrphan
  <2>2. pass # None /\ pass \in Passes /\ NextSlot.key = Here /\ NextSlot.state = "Orphan"
    BY <2>1, Running DEF Reads, At
  <2>3. PICK p : p = Bill(Past, 1, 0)
    OBVIOUS
  <2>4. p \in Passes /\ p.mode = pass.mode /\ p.e = pass.e /\ p.a = pass.a
    BY <2>1, <2>3, Consuming DEF Consumed
  <2>5. pass' = CASE p.mode = "Strict" -> Ends(p, "quarantined")
                  [] p.mode # "Strict" /\ Declared(Here).recovery = "Retry" -> [p EXCEPT !.pc = "act"]
                  [] p.mode # "Strict" /\ Declared(Here).recovery = "Reconcile" -> [p EXCEPT !.pc = "ask"]
                  [] OTHER -> Ends(p, "quarantined")
    BY <1>2, <2>3 DEF ReplayOrphan
  <2>6. CASE p.mode # "Strict" /\ Declared(Here).recovery = "Retry"
    <3>1. pass' = [p EXCEPT !.pc = "act"]
      BY <2>5, <2>6
    <3>2. pass'.e = pass.e /\ pass'.a = pass.a
      BY <2>4, <3>1 DEF Passes
    <3>3. Here' = Here
      BY <3>2 DEF Here
    <3>4. NextSlot \in Known
      BY <2>1, <2>4, <2>6, SlotIsRead
    <3> QED
      BY <1>1, <2>2, <3>3, <3>4, QuietlyTold
  <2>7. CASE ~(p.mode # "Strict" /\ Declared(Here).recovery = "Retry")
    <3>1. pass' = Ends(p, "quarantined") \/ pass' = [p EXCEPT !.pc = "ask"]
      BY <2>5, <2>7
    <3>2. [p EXCEPT !.pc = "ask"].pc = "ask"
      BY <2>4 DEF Passes
    <3>3. pass'.pc \notin {"act", "record"}
      BY <2>4, <3>1, <3>2, VerdictsCallNothing
    <3> QED
      BY <1>1, <3>3, QuietlyTold
  <2> QED
    BY <2>6, <2>7
<1>3. CASE Perform
  <2>1. pass # None /\ pass.pc = "act" /\ pass \in Passes
    BY <1>3, Running DEF Perform, At
  <2>2. PICK call : pass' = [pass EXCEPT !.call = call, !.pc = "record"]
    BY <1>3 DEF Perform
  <2>3. pass'.e = pass.e /\ pass'.a = pass.a
    BY <2>1, <2>2 DEF Passes
  <2>4. Here' = Here /\ (Unprobed(Here)' => Unprobed(Here))
    BY <2>3 DEF Here, Unprobed, Declared, Program
  <2>5. Unprobed(Here) => \E s \in Known : s.key = Here /\ s.state = "Orphan"
    BY <2>1 DEF EvidenceInv, CalledAsOrphan
  <2> QED
    BY <1>1, <2>4, <2>5, QuietlyTold
<1> QED
  BY <1>2, <1>3

\* The gate: what it announces is an orphan, and nothing else is called.
LEMMA GateIsTold ==
    ASSUME DispatchInv, EvidenceInv, setting' = setting, Withhold \/ Deny \/ Refuse \/ Announce
    PROVE  EvidenceInv'
<1>1. pass # None /\ pass.pc = "gate" /\ world' = world
  BY DEF Withhold, Deny, Refuse, Announce, Cleared, At
<1>2. Gated /\ pass \in Passes
  BY <1>1, AtTheGate, Running
<1>3. CASE Announce
  <2>1. /\ journal' = Append(journal, Plain("EffectStarted", Here, None))
        /\ pass' = [Bill(pass, 1, 0) EXCEPT !.pc = "act"]
    BY <1>3 DEF Announce, Write
  <2>2. <<"EffectStarted", "Orphan">> \in Opening
    BY DEF Opening
  <2>3. PICK p : p = Bill(pass, 1, 0)
    OBVIOUS
  <2>4. p \in Passes /\ p.e = pass.e /\ p.a = pass.a
    BY <1>2, <2>3, Billed DEF Keeps
  <2>5. pass'.e = pass.e /\ pass'.a = pass.a
    BY <2>1, <2>3, <2>4 DEF Passes
  <2>6. Here' = Here
    BY <2>5 DEF Here
  <2> QED
    BY <1>1, <1>2, <2>1, <2>2, <2>6, OpeningIsTold DEF EvidenceInv, CalledAsOrphan
<1>4. CASE Withhold \/ Deny \/ Refuse
  <2>1. PICK kind, state : /\ <<kind, state>> \in Opening
                           /\ journal' = Append(journal, Plain(kind, Here, None))
    <3>1. {<<"AuthorityWithheld", "Withheld">>, <<"PolicyDenied", "Denied">>, <<"BudgetRefused", "Refused">>}
            \subseteq Opening
      BY DEF Opening
    <3>2. \E x \in {<<"AuthorityWithheld", "Withheld">>, <<"PolicyDenied", "Denied">>, <<"BudgetRefused", "Refused">>} :
            /\ x = <<x[1], x[2]>>
            /\ journal' = Append(journal, Plain(x[1], Here, None))
      BY <1>4 DEF Withhold, Deny, Refuse, Write
    <3> QED
      BY <3>1, <3>2
  <2>2. \E s : pass' = Ends(pass, s)
    BY <1>4 DEF Withhold, Deny, Refuse
  <2>3. pass'.pc = "conclude"
    BY <1>2, <2>2, VerdictsCallNothing
  <2> QED
    BY <1>1, <1>2, <2>1, <2>3, OpeningIsTold DEF EvidenceInv, CalledAsOrphan
<1> QED
  BY <1>3, <1>4

LEMMA RefusalIsTold ==
    ASSUME DispatchInv, EvidenceInv, setting' = setting, ReplayRefusal
    PROVE  EvidenceInv'
<1>1. Reads({"Refused"})
  BY DEF ReplayRefusal
<1>2. pass # None /\ pass.pc = "consult" /\ pass \in Passes /\ Here \in Keys
  BY <1>1, Running DEF Reads, At
<1>3. Past \in Passes /\ Past.pc = "consult"
  BY <1>2, MovedPast
<1>4. pass'.pc \notin {"act", "record"}
  <2>1. pass' = Past \/ \E s : pass' = Ends(Past, s)
    BY DEF ReplayRefusal
  <2> QED
    BY <1>3, <2>1, VerdictsCallNothing
<1>5. CASE journal' = journal
  BY <1>4, <1>5, QuietlyTold
<1>6. CASE journal' = Append(journal, Plain("BudgetReadmitted", Here, None))
  BY <1>2, <1>4, <1>6, ReadmissionsTellNothing DEF EvidenceInv, CalledAsOrphan
<1> QED
  BY <1>5, <1>6 DEF ReplayRefusal, Write

\* The outcome of a call is recorded of an attempt nobody recorded one of.
LEMMA RecordIsTold ==
    ASSUME DispatchInv, EvidenceInv, setting' = setting, RecordOutcome
    PROVE  EvidenceInv'
<1>1. pass # None /\ pass.pc = "record" /\ pass.pc \in Working
  BY DEF RecordOutcome, At, Working
<1>2. UnderWay /\ setting \in Settings /\ pass \in Passes /\ Here \in Keys /\ Here[1] = pass.e /\ Here[2] = pass.a
  BY <1>1, AtWork
<1>3. pass.call \in Calls
  BY <1>1, <1>2 DEF UnderWay
<1>4. PICK d \in Dispositions, perm \in BOOLEAN, spend \in Nat :
        d = pass.call.says /\ perm = pass.call.perm /\ spend = Spend(d)
  BY <1>3 DEF Calls, Spend
<1>5. PICK r : r = Rec(IF d = "Done" THEN "EffectDone" ELSE "EffectFailed", Here, d, perm, spend)
  OBVIOUS
<1>6. PICK p : p = [Bill(pass, 0, spend) EXCEPT !.call = None]
  OBVIOUS
<1>7. /\ journal' = Append(journal, r)
      /\ pass' = CASE d = "Done" -> Answered(p)
                   [] d = "InDoubt" /\ Declared(Here).recovery = "Reconcile" -> [p EXCEPT !.pc = "probe"]
                   [] OTHER -> FailedVerdict(p, d, perm)
  BY <1>4, <1>5, <1>6 DEF RecordOutcome, Write
<1>8. p \in Passes
  BY <1>2, <1>6, BilledFor
<1>9. pass'.pc \notin {"act", "record"}
  <2>1. [p EXCEPT !.pc = "probe"].pc = "probe"
    BY <1>8 DEF Passes
  <2>2. FailedVerdict(p, d, perm).pc \in {"consult", "conclude"}
    BY <1>8, VerdictsCallNothing DEF FailedVerdict
  <2> QED
    BY <1>7, <1>8, <2>1, <2>2, VerdictsCallNothing
<1>10. /\ r \in Records /\ r.kind \in Outcomes /\ r.key = Here /\ r.says = d
       /\ r.kind # "EffectReconciled" /\ StateSaid(r) = d
  <2>1. Here \in Nat \X Nat
    BY <1>2, KeyIs
  <2> QED
    BY <1>2, <1>4, <1>5, <2>1 DEF Rec, Records, OfEffects, Outcomes, StateSaid
<1>11. journal \in Seq(Records) /\ Journalled
  BY DEF DispatchInv, TypeOK, Journalled
<1>12. PICK old \in Known :
        /\ old.key = Here /\ old.state \in Answerable
        /\ Guarded(Here) => old.state = "Orphan" \/ old.state = "DidNotHappen"
  BY <1>1, <1>2 DEF UnderWay
<1>13. Unprobed(Here) => old.state = "Orphan"
  <2> SUFFICES ASSUME Unprobed(Here) PROVE old.state = "Orphan"
    OBVIOUS
  <2>1. PICK s \in Known : s.key = Here /\ s.state = "Orphan"
    BY <1>1 DEF EvidenceInv, CalledAsOrphan
  <2>2. s = old
    BY <1>11, <1>12, <2>1 DEF Journalled, CursorIsSound, Known, ToSet, OneSlotPerKey
  <2> QED
    BY <2>1, <2>2
<1>14. Guarded(Here) => \A s \in Known : s.key[1] = Here[1] => s.key[2] <= Here[2]
  BY <1>1, <1>2 DEF UnderWay
<1>15. ~(Guarded(Here) /\ Here \in Listed.doubts)
  BY <1>11, <1>12 DEF Journalled, DoubtsAreSlots
<1>16. NowSays(Here, StateSaid(r))
  BY <1>2, <1>7, <1>10, <1>11, <1>12, <1>14, <1>15, SettledSoundly
<1>17. (AttemptsAreTold /\ LandingsStay /\ DenialsStay)'
  BY <1>2, <1>7, <1>10, <1>12, <1>13, <1>16, OutcomeIsTold
<1> QED
  BY <1>9, <1>17 DEF EvidenceInv, CalledAsOrphan

\* A probe is about an effect nothing is told of here.
LEMMA ProbeIsTold ==
    ASSUME DispatchInv, EvidenceInv, setting' = setting, Probe
    PROVE  EvidenceInv'
<1>1. pass # None /\ pass.pc \in {"ask", "probe"} /\ pass.pc \in Working
  BY DEF Probe, At, Working
<1>2. PICK d \in {"InDoubt", "Landed", "DidNotHappen"} :
        /\ journal' = Append(journal, Rec("EffectReconciled", Here, d, FALSE, IF d = "Landed" THEN 1 ELSE 0))
        /\ pass' = AfterProbe(pass, d)
  BY DEF Probe, Findings, Write
<1>3. PICK r : r = Rec("EffectReconciled", Here, d, FALSE, IF d = "Landed" THEN 1 ELSE 0)
  OBVIOUS
<1>4. UnderWay /\ setting \in Settings /\ pass \in Passes /\ Here \in Keys /\ Here[1] = pass.e /\ Here[2] = pass.a
  BY <1>1, AtWork
<1>5. ~Unprobed(Here)
  BY <1>1, <1>4 DEF UnderWay, Unprobed
<1>6. /\ r \in Records /\ r.kind \in Outcomes /\ r.key = Here /\ r.says = d
      /\ r.kind = "EffectReconciled" /\ d \in Dispositions
  <2>1. Here \in Nat \X Nat
    BY <1>4, KeyIs
  <2> QED
    BY <1>3, <1>4, <2>1 DEF Rec, Records, OfEffects, Outcomes, Dispositions
<1>7. journal \in Seq(Records) /\ Journalled
  BY DEF DispatchInv, TypeOK, Journalled
<1>8. PICK old \in Known : old.key = Here /\ old.state \in Answerable
  BY <1>1, <1>4 DEF UnderWay
<1>9. Guarded(Here) => \A s \in Known : s.key[1] = Here[1] => s.key[2] <= Here[2]
  BY <1>1, <1>4 DEF UnderWay
<1>10. NowSays(Here, StateSaid(r))
  BY <1>2, <1>3, <1>4, <1>6, <1>7, <1>8, <1>9, SettledSoundly
<1>11. (AttemptsAreTold /\ LandingsStay /\ DenialsStay)'
  BY <1>2, <1>3, <1>4, <1>5, <1>6, <1>8, <1>10, OutcomeIsTold
<1>12. ASSUME pass'.pc \in {"act", "record"}
       PROVE  Here' = Here
  <2>1. PICK p : p = Bill(pass, 0, 1)
    OBVIOUS
  <2>2. p \in Passes
    BY <1>4, <2>1, Billed DEF Keeps
  <2>3. Answered(p).pc \in {"consult", "conclude"}
    BY <2>2, VerdictsCallNothing
  <2>4. FailedVerdict(pass, d, FALSE).pc \in {"consult", "conclude"}
    BY <1>4, VerdictsCallNothing DEF FailedVerdict
  <2>5. Ends(pass, "quarantined").pc = "conclude"
    BY <1>4, VerdictsCallNothing
  <2>6. pass' \in {Answered(p), FailedVerdict(pass, d, FALSE), Ends(pass, "quarantined"), [pass EXCEPT !.pc = "act"]}
    BY <1>2, <2>1 DEF AfterProbe
  <2>7. pass' = [pass EXCEPT !.pc = "act"]
    BY <1>12, <2>3, <2>4, <2>5, <2>6
  <2>8. pass'.e = pass.e /\ pass'.a = pass.a
    BY <1>4, <2>7 DEF Passes
  <2> QED
    BY <2>8 DEF Here
<1>13. \A k : Unprobed(k)' <=> Unprobed(k)
  BY DEF Unprobed, Declared, Program
<1>14. CalledAsOrphan'
  BY <1>5, <1>12, <1>13 DEF CalledAsOrphan
<1> QED
  BY <1>11, <1>14 DEF EvidenceInv

\* An operator answers for an attempt that is open or in doubt.
LEMMA AnswerIsTold ==
    ASSUME DispatchInv, EvidenceInv, setting' = setting, NEW k \in Keys, ReconcileEffect(k)
    PROVE  EvidenceInv'
<1>1. PICK d \in {"Landed", "DidNotHappen"} : d = IF world[k] > 0 THEN "Landed" ELSE "DidNotHappen"
  OBVIOUS
<1>2. PICK r : r = Plain("EffectReconciled", k, d)
  OBVIOUS
<1>3. pass' = None /\ k \in UndecidedEffects /\ journal' = Append(journal, r)
  BY <1>1, <1>2 DEF ReconcileEffect, Write
<1>4. setting \in Settings /\ journal \in Seq(Records) /\ Journalled
  BY DEF DispatchInv, TypeOK, Journalled
<1>5. /\ r \in Records /\ r.kind \in Outcomes /\ r.key = k /\ r.says = d
      /\ r.kind = "EffectReconciled" /\ d \in Dispositions /\ d # "InDoubt"
  <2>1. k \in Nat \X Nat
    BY <1>4, KeyIs
  <2> QED
    BY <1>2, <2>1 DEF Plain, Rec, Records, OfEffects, Outcomes, Dispositions
<1>6. PICK old \in Known : old.key = k /\ old.state \in Answerable
  BY <1>3, <1>4 DEF Journalled, DoubtsAreSlots, CursorIsSound
<1>7. ASSUME Guarded(k), NEW s \in Known, s.key[1] = k[1]
      PROVE  s.key[2] <= k[2]
  <2>1. old.state # "DidNotHappen"
    BY <1>3, <1>4, <1>6, <1>7 DEF Journalled, DoubtsAreSlots, UndecidedEffects
  <2>2. ~(k[2] < s.key[2])
    BY <1>4, <1>6, <1>7, <2>1 DEF Journalled, RetriedOnEvidence
  <2>3. s.key \in Keys
    BY <1>4 DEF Journalled, CursorIsSound
  <2>4. k[2] \in Nat /\ s.key[2] \in Nat
    BY <1>4, <2>3, KeyIs
  <2> QED
    BY <2>2, <2>4
<1>8. NowSays(k, StateSaid(r))
  BY <1>3, <1>4, <1>5, <1>6, <1>7, SettledSoundly
<1>9. Unprobed(k) => old.state \in {"Orphan", "InDoubt"}
  BY <1>3, <1>6 DEF EvidenceInv, AttemptsAreTold, IsTold, UndecidedEffects
<1>10. (AttemptsAreTold /\ LandingsStay /\ DenialsStay)'
  BY <1>3, <1>5, <1>6, <1>8, <1>9, OutcomeIsTold
<1> QED
  BY <1>3, <1>10 DEF EvidenceInv, CalledAsOrphan

\* Ending a pass, and an operator's decision, are records about no effect.
LEMMA EndingsTellNothing ==
    ASSUME DispatchInv, EvidenceInv, setting' = setting,
           Conclude \/ \E decision \in {"Reopen", "Abandon"} : DecideQuarantine(decision)
    PROVE  EvidenceInv'
<1>1. pass' = None
  BY DEF Conclude, DecideQuarantine
<1>2. CASE journal' = journal
  BY <1>1, <1>2, QuietlyTold
<1>3. CASE journal' # journal /\ Conclude
  <2>1. PICK r : r = Rec("RunConcluded", <<pass.used, pass.spent>>, pass.status, pass.diverged, 0)
    OBVIOUS
  <2>2. journal' = Append(journal, r)
    BY <1>3, <2>1 DEF Conclude, Write
  <2>3. pass \in Passes /\ pass.status # None
    BY <1>3, Running DEF Conclude, At
  <2>4. pass.status \in Statuses /\ pass.used \in Nat /\ pass.spent \in Nat /\ pass.diverged \in BOOLEAN
    BY <2>3 DEF Passes
  <2>5. r \in Records /\ r.kind \notin OfEffects
    BY <2>1, <2>4 DEF Rec, Records, OfEffects, Outcomes
  <2> QED
    BY <1>1, <2>2, <2>5, NotesTellNothing
<1>4. CASE \E decision \in {"Reopen", "Abandon"} : DecideQuarantine(decision)
  <2>1. PICK decision \in {"Reopen", "Abandon"} : DecideQuarantine(decision)
    BY <1>4
  <2>2. PICK r : r = Plain("QuarantineDecided", None, decision)
    OBVIOUS
  <2>3. journal' = Append(journal, r)
    BY <2>1, <2>2 DEF DecideQuarantine, Write
  <2>4. r \in Records /\ r.kind \notin OfEffects
    BY <2>2 DEF Plain, Rec, Records, OfEffects, Outcomes
  <2> QED
    BY <1>1, <2>3, <2>4, NotesTellNothing
<1> QED
  BY <1>2, <1>3, <1>4

\* Nothing is told of a run just admitted.
LEMMA InitIsTold ==
    ASSUME Init
    PROVE  EvidenceInv
<1>1. PICK r : r = Plain("RunAdmitted", None, None)
  OBVIOUS
<1>2. r \in Records /\ r.kind = "RunAdmitted"
  BY <1>1 DEF Plain, Rec, Records
<1>3. PICK empty \in Seq(Records) : empty = <<>> /\ journal = Append(empty, r)
  <2>1. journal = <<r>>
    BY <1>1 DEF Init
  <2>2. <<>> \in Seq(Records) /\ journal = Append(<<>>, r)
    BY <1>2, <2>1
  <2> QED
    BY <2>2
<1>4. DOMAIN journal = {1} /\ journal[1] = r /\ pass = None
  BY <1>1, <1>2 DEF Init
<1>5. Known = {}
  <2>1. FromRecords(journal) = Apply(FromRecords(<<>>), r)
    BY <1>2, <1>3, CursorGrows
  <2>2. Cursor = <<>>
    BY <1>2, <2>1, NothingYet DEF Apply, Cursor
  <2> QED
    BY <2>2 DEF Known, ToSet
<1>6. Told = [known |-> {}, touched |-> {}]
  <2> DEFINE none == [known |-> {}, touched |-> {}]
             t == Evidence(Mutating, empty)
  <2>1. Told = TouchAfter(Mutating, t[Len(empty)], r)
    BY <1>2, <1>3, EvidenceGrows DEF Told
  <2>2. Tells(t, Mutating, empty, Len(empty)) /\ Len(empty) = 0
    BY <1>3, EvidenceExists
  <2>3. t = [m \in 0 .. 0 |-> IF m = 0 THEN none ELSE TouchAfter(Mutating, t[m - 1], empty[m])]
    BY <2>2 DEF Tells
  <2> HIDE DEF none, t
  <2>4. t[0] = none
    BY <2>3
  <2>5. Told = none
    BY <1>2, <2>1, <2>2, <2>4 DEF TouchAfter
  <2> QED
    BY <2>5 DEF none
<1>7. AttemptsAreTold
  BY <1>5, <1>6 DEF AttemptsAreTold
<1>8. LandingsStay /\ DenialsStay
  BY <1>2, <1>4 DEF LandingsStay, DenialsStay, Positions
<1> QED
  BY <1>4, <1>7, <1>8 DEF EvidenceInv, CalledAsOrphan

\* Every step keeps what is told.
LEMMA StepsAreTold ==
    ASSUME DispatchInv, EvidenceInv, [Next]_vars
    PROVE  EvidenceInv'
<1>1. CASE UNCHANGED vars
  <2>1. UNCHANGED <<setting, journal, pass>>
    BY <1>1 DEF vars, execution
  <2>2. Here' = Here /\ (Unprobed(Here)' <=> Unprobed(Here))
    BY <2>1 DEF Here, Unprobed, Declared, Program
  <2> QED
    BY <2>1, <2>2, QuietlyTold DEF EvidenceInv, CalledAsOrphan
<1>2. CASE Next
  <2>1. setting' = setting /\ Moves
    BY <1>2 DEF Next
  <2>2. CASE \E k \in Keys : ReconcileEffect(k)
    BY <2>1, <2>2, AnswerIsTold
  <2>3. CASE Conclude \/ \E decision \in {"Reopen", "Abandon"} : DecideQuarantine(decision)
    BY <2>1, <2>3, EndingsTellNothing
  <2>4. CASE Withhold \/ Deny \/ Refuse \/ Announce
    BY <2>1, <2>4, GateIsTold
  <2>5. CASE ReplayOrphan \/ Perform
    BY <2>1, <2>5, CallsAreToldAsOpen
  <2>6. CASE \/ Execute \/ Resume \/ Verify \/ Crash \/ RaiseCeiling \/ SetHalt
             \/ ReplayDone \/ ReplayDiverges \/ ReplayDenial \/ ReplayWithheld
             \/ ReplayFailed \/ HistoryEnds \/ FailToRecord
    BY <2>1, <2>6, NobodyCalls
  <2>7. CASE ReplayRefusal \/ RecordOutcome \/ Probe
    BY <2>1, <2>7, RefusalIsTold, RecordIsTold, ProbeIsTold
  <2> QED
    BY <2>1, <2>2, <2>3, <2>4, <2>5, <2>6, <2>7 DEF Moves, Step
<1> QED
  BY <1>1, <1>2

\* What is told is what operators and the unwind need.
LEMMA DoubtsAreTold ==
    ASSUME DispatchInv, EvidenceInv
    PROVE  DoubtIsKnown /\ DenialStands
<1>1. DoubtsAreListed
  <2> SUFFICES ASSUME NEW i \in DOMAIN Cursor,
                      Cursor[i].state \in {"Orphan", "InDoubt"}, Declared(Cursor[i].key).mutates,
                      Declared(Cursor[i].key).recovery # "Reconcile",
                      \A j \in DOMAIN Cursor : Cursor[j].key[1] = Cursor[i].key[1] => Cursor[j].state # "Done"
               PROVE  Cursor[i].key \in UndecidedEffects
    BY DEF DoubtsAreListed, Cursor
  <2>1. Cursor[i] \in Known /\ Unprobed(Cursor[i].key)
    BY DEF Known, ToSet, Unprobed
  <2>2. IsTold(Cursor[i])
    BY <2>1 DEF EvidenceInv, AttemptsAreTold
  <2>3. ~Overtaken(Cursor[i].key)
    BY DEF Overtaken, Known, ToSet
  <2> QED
    BY <2>2, <2>3 DEF IsTold, UndecidedEffects
<1>2. LandedWorkIsEvidence
  <2> SUFFICES ASSUME NEW e \in Effects, Program[e].mutates, Program[e].recovery = "RequiresOperator", HasLanded(e)
               PROVE  \E k \in Touched : k[1] = e
    BY DEF LandedWorkIsEvidence
  <2>1. PICK a \in Attempts : world[<<e, a>>] > 0
    BY DEF HasLanded
  <2>2. PICK k : k = <<e, a>>
    OBVIOUS
  <2>3. k \in Keys /\ k[1] = e /\ OnlyOperator(k) /\ Unprobed(k) /\ world[k] > 0
    BY <2>1, <2>2 DEF Keys, OnlyOperator, Unprobed, Declared
  <2>4. Announced(k)
    BY <2>3 DEF DispatchInv, AnnouncedFirst, Announced, Positions
  <2>5. PICK s \in Known : s.key = k /\ s.state \in Answerable
    BY <2>3, <2>4 DEF DispatchInv, CursorIsSound
  <2>6. s.state # "DidNotHappen"
    BY <2>3, <2>5 DEF DispatchInv, DidNotHappenIsTrue
  <2>7. IsTold(s)
    BY <2>3, <2>5 DEF EvidenceInv, AttemptsAreTold
  <2>8. k \in Touched
    BY <2>5, <2>6, <2>7 DEF IsTold, Answerable, Dispositions
  <2> QED
    BY <2>3, <2>8
<1>3. RecordedLandingIsEvidence
  <2> SUFFICES ASSUME NEW i \in Positions("EffectDone"), Declared(journal[i].key).mutates,
                      Declared(journal[i].key).recovery \in {"Retry", "RequiresOperator"}
               PROVE  journal[i].key \in Touched
    BY DEF RecordedLandingIsEvidence, EvidenceOf
  <2>1. PICK s \in Known : s.key = journal[i].key /\ s.state = "Done"
    BY DEF EvidenceInv, LandingsStay, Unprobed
  <2>2. IsTold(s)
    BY <2>1 DEF EvidenceInv, AttemptsAreTold, Unprobed
  <2> QED
    BY <2>1, <2>2 DEF IsTold
<1>4. DenialStands
  <2> SUFFICES ASSUME NEW i \in DOMAIN journal, journal[i].kind = "PolicyDenied"
               PROVE  world[journal[i].key] = 0
    BY DEF DenialStands
  <2>1. PICK s \in Known : s.key = journal[i].key /\ s.state = "Denied"
    BY DEF EvidenceInv, DenialsStay, Positions
  <2>2. s.key \in Keys /\ world[s.key] \in Nat
    BY DEF DispatchInv, CursorIsSound, TypeOK
  <2>3. ~Announced(s.key)
    <3> SUFFICES ASSUME NEW t \in Known, t.key = s.key, t.state \in Answerable PROVE FALSE
      BY <2>2 DEF DispatchInv, CursorIsSound
    <3>1. t = s
      BY DEF DispatchInv, CursorIsSound, Known, ToSet, OneSlotPerKey
    <3> QED
      BY <2>1, <3>1 DEF Answerable, Dispositions
  <2>4. ~(world[s.key] > 0)
    BY <2>2, <2>3 DEF DispatchInv, AnnouncedFirst, Announced, Positions
  <2> QED
    BY <2>1, <2>2, <2>4
<1> QED
  BY <1>1, <1>2, <1>3, <1>4 DEF DoubtIsKnown

-----------------------------------------------------------------------------
(* The order of the cursor *)

\* Dropping nothing.
LEMMA NothingDropped ==
    ASSUME NEW slots \in Seq(Slots), NEW key, NEW states,
           Newest(slots, key, states) = 0
    PROVE  Dropped(slots, key, states) = slots
<1>1. PICK n \in Nat : n = Len(slots) /\ DOMAIN slots = 1 .. n
  OBVIOUS
<1>2. Dropped(slots, key, states) = [i \in 1 .. n |-> slots[i]]
  BY <1>1 DEF Dropped
<1> QED
  BY <1>1, <1>2

\* Dropping the last slot.
LEMMA LastDropped ==
    ASSUME NEW slots \in Seq(Slots), NEW key, NEW states, NEW n \in Nat \ {0}, n = Len(slots),
           Newest(slots, key, states) = n, NEW t, t = Dropped(slots, key, states)
    PROVE  t \in Seq(Slots) /\ Len(t) = n - 1 /\ \A i \in 1 .. n - 1 : t[i] = slots[i]
<1>1. n - 1 \in Nat /\ DOMAIN slots = 1 .. n
  OBVIOUS
<1>2. t = [i \in 1 .. n - 1 |-> slots[IF i < n THEN i ELSE i + 1]]
  BY DEF Dropped
<1>3. \A i \in 1 .. n - 1 : t[i] = slots[i] /\ slots[i] \in Slots
  BY <1>1, <1>2
<1>4. t \in [1 .. n - 1 -> Slots]
  BY <1>2, <1>3
<1> QED
  BY <1>1, <1>3, <1>4

\* A slot stands after the ones behind the frontier.
OpenedAfter(slots, x, u) ==
    /\ Behind(slots) \in Nat /\ Behind(slots) <= Len(slots)
    /\ u # <<>> /\ Len(u) = Behind(slots) + 1 /\ u[Len(u)] = x
    /\ \A i \in 1 .. Behind(slots) : u[i] = slots[i]

\* A position opened at the frontier is the last in order, and the positions
\* behind it stay.
LEMMA OpenedInOrder ==
    ASSUME NEW slots \in Seq(Slots), NEW key \in Nat \X Nat, NEW state \in States,
           InCallOrder(slots), AtFrontier(slots, key),
           \A i \in DOMAIN slots : slots[i].key = key => i = Len(slots) /\ slots[i].state = "Withheld",
           NEW u, u = Open(slots, key, state)
    PROVE  InCallOrder(u) /\ (Unbroken(slots) => Unbroken(u)) /\ OpenedAfter(slots, Slot(key, state, FALSE, 0), u)
<1>1. PICK n \in Nat : n = Len(slots) /\ DOMAIN slots = 1 .. n
  OBVIOUS
<1>2. PICK x : x = Slot(key, state, FALSE, 0)
  OBVIOUS
<1>3. x \in Slots /\ x.key = key
  BY <1>2 DEF Slot, Slots
<1>4. PICK t, withheld : withheld = {"Withheld"} /\ t = Dropped(slots, key, withheld)
  OBVIOUS
<1>5. PICK m \in Nat :
        /\ m = Behind(slots)
        /\ t \in Seq(Slots) /\ Len(t) = m /\ m <= n /\ \A i \in 1 .. m : t[i] = slots[i]
        /\ m = 0 => key = <<1, 1>>
        /\ m # 0 => slots[m].state \in Dispositions /\ LeadsTo(slots[m], key)
        /\ m # 0 /\ Unbroken(slots) => key = KeyAfter(slots[m])
  <2>1. CASE n = 0
    <3>1. slots = <<>> /\ Behind(slots) = 0
      BY <1>1, <2>1 DEF Behind
    <3>2. key = <<1, 1>>
      BY <3>1 DEF AtFrontier
    <3>3. Newest(slots, key, withheld) = 0
      <4>1. PICK at : at = Newest(slots, key, withheld)
        OBVIOUS
      <4>2. at \in 0 .. n
        BY <1>1, <4>1, NewestIs
      <4> QED
        BY <2>1, <4>1, <4>2
    <3>4. t = slots
      BY <1>4, <3>3, NothingDropped
    <3> QED
      BY <1>1, <2>1, <3>1, <3>2, <3>4
  <2>2. CASE n # 0 /\ slots[n].state \in Dispositions /\ key = KeyAfter(slots[n])
    <3>1. \A i \in 1 .. n : ~(slots[i].key = key /\ slots[i].state \in withheld)
      BY <1>1, <1>4, <2>2 DEF Dispositions
    <3>2. Newest(slots, key, withheld) = 0
      BY <1>1, <3>1, NewestIs
    <3>3. t = slots
      BY <1>4, <3>2, NothingDropped
    <3>4. Behind(slots) = n
      BY <1>1, <2>2 DEF Behind, Dispositions
    <3>5. LeadsTo(slots[n], key)
      BY <2>2 DEF LeadsTo
    <3> QED
      BY <1>1, <2>2, <3>3, <3>4, <3>5
  <2>3. CASE n # 0 /\ slots[n].state = "Withheld" /\ key = slots[n].key
    <3>1. t \in Seq(Slots) /\ Len(t) = n - 1 /\ \A i \in 1 .. n - 1 : t[i] = slots[i]
      <4>1. slots[n].key = key /\ slots[n].state \in withheld
        BY <1>4, <2>3
      <4>2. Newest(slots, key, withheld) = n
        BY <1>1, <2>3, <4>1, NewestIs
      <4>3. n \in Nat \ {0} /\ n = Len(slots) /\ slots \in Seq(Slots)
        BY <1>1, <2>3
      <4>4. t = Dropped(slots, key, withheld)
        BY <1>4
      <4> QED
        BY <4>2, <4>3, <4>4, LastDropped
    <3>2. Behind(slots) = n - 1 /\ n - 1 \in Nat /\ n - 1 <= n
      BY <1>1, <2>3 DEF Behind
    <3>3. CASE n = 1
      <4>1. key = <<1, 1>>
        BY <1>1, <2>3, <3>3 DEF InCallOrder
      <4> QED
        BY <3>1, <3>2, <3>3, <4>1
    <3>4. CASE n # 1
      <4>1. n - 1 \in 1 .. Len(slots) - 1 /\ n - 1 + 1 = n
        BY <1>1, <2>3, <3>4
      <4>2. slots[n - 1].state \in Dispositions /\ LeadsTo(slots[n - 1], key)
        BY <1>1, <2>3, <4>1 DEF InCallOrder
      <4>3. Unbroken(slots) => key = KeyAfter(slots[n - 1])
        BY <2>3, <4>1 DEF Unbroken
      <4> QED
        BY <3>1, <3>2, <4>1, <4>2, <4>3
    <3> QED
      BY <3>3, <3>4
  <2> QED
    <3>1. n # 0 => slots # <<>>
      BY <1>1
    <3> QED
      BY <1>1, <2>1, <2>2, <2>3, <3>1 DEF AtFrontier
<1>6. u = Append(t, x)
  BY <1>2, <1>4 DEF Open, SupersedeWithheld
<1>7. u \in Seq(Slots) /\ Len(u) = m + 1 /\ u[m + 1] = x /\ \A i \in 1 .. m : u[i] = slots[i]
  BY <1>3, <1>5, <1>6
<1>8. u # <<>> /\ u[Len(u)] = x
  BY <1>3, <1>5, <1>7
<1>9. u[1].key = <<1, 1>>
  <2>1. CASE m = 0
    BY <1>3, <1>5, <1>7, <2>1
  <2>2. CASE m # 0
    <3>1. slots # <<>> /\ 1 \in 1 .. m
      BY <1>1, <1>5, <2>2
    <3> QED
      BY <1>7, <3>1 DEF InCallOrder
  <2> QED
    BY <2>1, <2>2
<1>10. ASSUME NEW i \in 1 .. Len(u) - 1
       PROVE  /\ u[i].state \in Dispositions /\ LeadsTo(u[i], u[i + 1].key)
              /\ Unbroken(slots) => u[i + 1].key = KeyAfter(u[i])
  <2>1. i \in 1 .. m
    BY <1>5, <1>7
  <2>2. CASE i = m
    BY <1>3, <1>5, <1>7, <2>1, <2>2
  <2>3. CASE i # m
    <3>1. i + 1 \in 1 .. m /\ i \in 1 .. Len(slots) - 1
      BY <1>1, <1>5, <2>1, <2>3
    <3> QED
      BY <1>7, <2>1, <3>1 DEF InCallOrder, Unbroken
  <2> QED
    BY <2>2, <2>3
<1>11. InCallOrder(u) /\ (Unbroken(slots) => Unbroken(u))
  BY <1>9, <1>10 DEF InCallOrder, Unbroken
<1> QED
  BY <1>1, <1>2, <1>3, <1>5, <1>7, <1>8, <1>11 DEF OpenedAfter

\* A position re-admitted is the frontier again.
LEMMA ReadmittedInOrder ==
    ASSUME NEW slots \in Seq(Slots), NEW key, NEW n \in Nat \ {0}, n = Len(slots), InCallOrder(slots),
           slots[n].key = key, slots[n].state = "Refused", OneSlotPerKey(slots),
           key = Asked(slots, n - 1), NEW t, t = Readmit(slots, key)
    PROVE  /\ InCallOrder(t) /\ AtFrontier(t, key) /\ (Unbroken(slots) => Unbroken(t))
           /\ t \in Seq(Slots) /\ Len(t) = n - 1 /\ Behind(t) = n - 1
           /\ \A i \in 1 .. n - 1 : t[i] = slots[i]
<1>1. DOMAIN slots = 1 .. n /\ n \in 1 .. n
  OBVIOUS
<1>2. PICK withheld, refused : withheld = {"Withheld"} /\ refused = {"Refused"}
  OBVIOUS
<1>3. Dropped(slots, key, withheld) = slots
  <2>1. \A i \in 1 .. n : ~(slots[i].key = key /\ slots[i].state \in withheld)
    BY <1>1, <1>2 DEF OneSlotPerKey
  <2>2. Newest(slots, key, withheld) = 0
    BY <1>1, <2>1, NewestIs
  <2> QED
    BY <2>2, NothingDropped
<1>4. t \in Seq(Slots) /\ Len(t) = n - 1 /\ \A i \in 1 .. n - 1 : t[i] = slots[i]
  <2>1. slots[n].key = key /\ slots[n].state \in refused
    BY <1>2
  <2>2. t = Dropped(slots, key, refused)
    BY <1>2, <1>3 DEF Readmit, SupersedeWithheld
  <2>3. Newest(slots, key, refused) = n
    BY <1>1, <2>1, NewestIs
  <2> QED
    BY <2>2, <2>3, LastDropped
<1>5. slots # <<>> /\ slots[1].key = <<1, 1>>
  BY DEF InCallOrder
<1>6. CASE n = 1
  <2>1. t = <<>> /\ key = <<1, 1>>
    <3>1. Len(t) = 0 /\ t \in Seq(Slots)
      BY <1>4, <1>6
    <3>2. t = <<>>
      BY <3>1
    <3> QED
      BY <1>5, <1>6, <3>2
  <2>2. 1 .. Len(t) - 1 = {}
    BY <1>4, <1>6
  <2> QED
    BY <1>4, <1>6, <2>1, <2>2 DEF InCallOrder, AtFrontier, Unbroken, Behind
<1>7. CASE n # 1
  <2>1. n - 1 \in 1 .. n - 1 /\ n - 1 + 1 = n /\ 1 \in 1 .. n - 1 /\ n - 1 \in 1 .. Len(slots) - 1 /\ n - 1 # 0
    BY <1>7
  <2>2. slots[n - 1].state \in Dispositions /\ key = KeyAfter(slots[n - 1])
    BY <2>1 DEF InCallOrder, Asked
  <2>3. t # <<>> /\ AtFrontier(t, key)
    BY <1>4, <2>1, <2>2 DEF AtFrontier
  <2>4. t[1].key = <<1, 1>>
    BY <1>4, <1>5, <2>1
  <2>5. ASSUME NEW i \in 1 .. Len(t) - 1
        PROVE  /\ t[i].state \in Dispositions /\ LeadsTo(t[i], t[i + 1].key)
               /\ Unbroken(slots) => t[i + 1].key = KeyAfter(t[i])
    <3>1. i \in 1 .. Len(slots) - 1 /\ i \in 1 .. n - 1 /\ i + 1 \in 1 .. n - 1
      BY <1>4
    <3> QED
      BY <1>4, <3>1 DEF InCallOrder, Unbroken
  <2>6. Behind(t) = n - 1
    BY <1>4, <2>1, <2>2 DEF Behind, Dispositions
  <2>7. InCallOrder(t) /\ (Unbroken(slots) => Unbroken(t))
    BY <2>4, <2>5 DEF InCallOrder, Unbroken
  <2> QED
    BY <1>4, <2>3, <2>6, <2>7
<1> QED
  BY <1>6, <1>7

\* Settling a position leaves the others where they are, and what follows it
\* follows it still, unless a position gone past becomes a landing.
LEMMA SettledInOrder ==
    ASSUME NEW slots \in Seq(Slots), OneSlotPerKey(slots), NEW key \in Nat \X Nat,
           NEW state \in Dispositions, NEW perm \in BOOLEAN, NEW spend \in Nat,
           NEW m \in DOMAIN slots, slots[m].key = key, InCallOrder(slots),
           m = Len(slots) \/ slots[m].state # "Done",
           NEW t, t = Settle(slots, key, state, perm, spend)
    PROVE  /\ InCallOrder(t) /\ t \in Seq(Slots) /\ Len(t) = Len(slots) /\ t # <<>>
           /\ m = Len(slots) \/ state # "Done" => (Unbroken(slots) => Unbroken(t))
           /\ t[m] = Slot(key, state, perm, spend + slots[m].spend)
           /\ t[m].key = key /\ t[m].state = state /\ t[m].spend = slots[m].spend + spend
           /\ \A i \in DOMAIN slots : i # m => t[i] = slots[i]
           /\ t[Len(t)].key = slots[Len(slots)].key
<1>1. PICK n \in Nat : n = Len(slots) /\ DOMAIN slots = 1 .. n
  OBVIOUS
<1>2. PICK at : at = Newest(slots, key, States)
  OBVIOUS
<1>3. slots[m].state \in States /\ slots[m].spend \in Nat /\ m \in 1 .. n
  <2>1. slots[m] \in Slots
    OBVIOUS
  <2> QED
    BY <1>1, <2>1 DEF Slots
<1>4. at = m
  <2>1. at \in 0 .. n /\ (at # 0 => slots[at].key = key) /\ m <= at /\ at # 0
    BY <1>1, <1>2, <1>3, NewestIs
  <2> QED
    BY <1>1, <2>1 DEF OneSlotPerKey
<1>5. PICK x : x = Slot(key, state, perm, spend + slots[m].spend)
  OBVIOUS
<1>6. x.key = key /\ x.state = state /\ x \in Slots /\ x.spend = slots[m].spend + spend
  <2>1. spend + slots[m].spend \in Nat /\ spend + slots[m].spend = slots[m].spend + spend
    BY <1>3
  <2> QED
    BY <1>5, <2>1, SMTT(30) DEF Slot, Slots, Dispositions, States
<1>7. t = [i \in 1 .. n |-> IF i = m THEN x ELSE slots[i]]
  BY <1>1, <1>2, <1>4, <1>5 DEF Settle
<1>8. t \in Seq(Slots) /\ Len(t) = n /\ t[m] = x /\ \A i \in 1 .. n : i # m => t[i] = slots[i]
  <2>1. \A i \in 1 .. n : slots[i] \in Slots
    BY <1>1
  <2>2. t \in [1 .. n -> Slots]
    BY <1>6, <1>7, <2>1
  <2> QED
    BY <1>3, <1>7, <2>2
<1>9. \A i \in 1 .. n : t[i].key = slots[i].key
  BY <1>6, <1>8
<1>10. t # <<>> /\ slots # <<>> /\ n \in 1 .. n /\ 1 \in 1 .. n
  BY <1>1, <1>3, <1>8
<1>11. ASSUME NEW i \in 1 .. n - 1
       PROVE  /\ t[i].state \in Dispositions /\ LeadsTo(t[i], t[i + 1].key)
              /\ (m = n \/ state # "Done") /\ Unbroken(slots) => t[i + 1].key = KeyAfter(t[i])
  <2>1. /\ i \in 1 .. n /\ i + 1 \in 1 .. n /\ slots[i].state \in Dispositions
        /\ LeadsTo(slots[i], slots[i + 1].key) /\ (Unbroken(slots) => slots[i + 1].key = KeyAfter(slots[i]))
        /\ t[i + 1].key = slots[i + 1].key
    BY <1>1, <1>9, <1>11 DEF InCallOrder, Unbroken
  <2>2. CASE i = m
    <3>1. slots[m].state # "Done" /\ m # n
      BY <1>1, <1>11, <2>2
    <3>2. t[i + 1].key = <<key[1], key[2] + 1>>
      BY <2>1, <2>2, <3>1 DEF LeadsTo, KeyAfter
    <3>3. LeadsTo(t[i], t[i + 1].key)
      BY <1>6, <1>8, <2>2, <3>2 DEF LeadsTo
    <3>4. state # "Done" => t[i + 1].key = KeyAfter(t[i])
      BY <1>6, <1>8, <2>2, <3>2 DEF KeyAfter
    <3> QED
      BY <1>6, <1>8, <2>2, <3>1, <3>3, <3>4
  <2>3. CASE i # m
    BY <1>8, <2>1, <2>3
  <2> QED
    BY <2>2, <2>3
<1>12. InCallOrder(t) /\ ((m = n \/ state # "Done") => (Unbroken(slots) => Unbroken(t)))
  BY <1>8, <1>9, <1>10, <1>11 DEF InCallOrder, Unbroken
<1> QED
  BY <1>1, <1>5, <1>6, <1>8, <1>9, <1>10, <1>12

\* What a record leaves in the cursor was there, is its attempt settled, or is
\* the position it opens.
LEMMA AppliedSlots ==
    ASSUME NEW slots \in Seq(Slots), OneSlotPerKey(slots), NEW r \in Records, NEW s \in ToSet(Apply(slots, r))
    PROVE  \/ s \in ToSet(slots)
           \/ r.kind \in Outcomes /\ s.key = r.key /\ s.state = StateSaid(r) /\ \E t \in ToSet(slots) : t.key = s.key
           \/ \E state : <<r.kind, state>> \in Opening /\ s = Slot(r.key, state, FALSE, 0)
<1>1. ASSUME NEW state, s \in ToSet(Open(slots, r.key, state))
      PROVE  s \in ToSet(slots) \/ s = Slot(r.key, state, FALSE, 0)
  <2>1. PICK t, x : t = SupersedeWithheld(slots, r.key) /\ x = Slot(r.key, state, FALSE, 0)
    OBVIOUS
  <2>2. t \in Seq(Slots) /\ ToSet(t) \subseteq ToSet(slots)
    BY <2>1, DroppedIs DEF SupersedeWithheld
  <2>3. PICK n \in Nat : n = Len(t) /\ DOMAIN t = 1 .. n
    BY <2>2
  <2>4. PICK u : u = Append(t, x)
    OBVIOUS
  <2>5. DOMAIN u = 1 .. n + 1 /\ u[n + 1] = x /\ \A i \in 1 .. n : u[i] = t[i]
    BY <2>2, <2>3, <2>4
  <2>6. s \in ToSet(u)
    BY <1>1, <2>1, <2>4 DEF Open
  <2>7. s \in ToSet(t) \/ s = x
    BY <2>3, <2>5, <2>6 DEF ToSet
  <2> QED
    BY <2>1, <2>2, <2>7
<1>2. ASSUME NEW state, NEW perm, NEW spend, s \in ToSet(Settle(slots, r.key, state, perm, spend))
      PROVE  \E t \in ToSet(slots) : t.key = s.key /\ (s = t \/ (s.key = r.key /\ s.state = state))
  <2>1. PICK at : at = Newest(slots, r.key, States)
    OBVIOUS
  <2>2. PICK i \in DOMAIN slots :
            s = IF i = at THEN Slot(r.key, state, perm, spend + slots[i].spend) ELSE slots[i]
    BY <1>2, <2>1 DEF Settle, ToSet
  <2>3. i = at => slots[i].key = r.key
    BY <2>1, NewestIs
  <2>4. s.key = slots[i].key /\ (s = slots[i] \/ (s.key = r.key /\ s.state = state))
    BY <2>2, <2>3 DEF Slot
  <2> QED
    BY <2>4 DEF ToSet
<1>3. ASSUME s \in ToSet(Readmit(slots, r.key))
      PROVE  s \in ToSet(slots)
  BY <1>3, ReadmitIs
<1>4. CASE \E state : <<r.kind, state>> \in Opening
  <2>1. PICK state : <<r.kind, state>> \in Opening
    BY <1>4
  <2>2. Apply(slots, r) = Open(slots, r.key, state)
    <3>1. \/ r.kind = "EffectStarted" /\ state = "Orphan"
          \/ r.kind = "BudgetRefused" /\ state = "Refused"
          \/ r.kind = "AuthorityWithheld" /\ state = "Withheld"
          \/ r.kind = "PolicyDenied" /\ state = "Denied"
      BY <2>1 DEF Opening
    <3> QED
      BY <3>1 DEF Apply
  <2> QED
    BY <1>1, <2>1, <2>2
<1>5. CASE r.kind \in Outcomes
  <2>1. \E perm, spend : s \in ToSet(Settle(slots, r.key, StateSaid(r), perm, spend))
    <3>1. CASE r.kind = "EffectDone"
      BY <3>1 DEF Apply, StateSaid
    <3>2. CASE r.kind = "EffectFailed"
      BY <3>2 DEF Apply, StateSaid
    <3>3. CASE r.kind = "EffectReconciled"
      BY <3>3 DEF Apply, StateSaid
    <3> QED
      BY <1>5, <3>1, <3>2, <3>3 DEF Outcomes
  <2> QED
    BY <1>2, <1>5, <2>1
<1>6. CASE r.kind = "BudgetReadmitted"
  BY <1>3, <1>6 DEF Apply
<1>7. CASE r.kind \notin OfEffects
  BY <1>7 DEF Apply, OfEffects, Outcomes
<1> QED
  BY <1>4, <1>5, <1>6, <1>7 DEF OfEffects, Outcomes, Opening

\* f is what the first slots spent, up to n.
Adds(f, slots, n) == f = [m \in 0 .. n |-> IF m = 0 THEN 0 ELSE f[m - 1] + slots[m].spend]

\* Reading a slot costs what it spent.
LEMMA CostsAre ==
    ASSUME NEW slots \in Seq(Slots), NEW n \in Nat, n = Len(slots)
    PROVE  /\ Costs(slots)[0] = 0
           /\ \A m \in 1 .. n : Costs(slots)[m] = Costs(slots)[m - 1] + slots[m].spend
           /\ \A m \in 0 .. n : Costs(slots)[m] \in Nat
<1> DEFINE Bad == {k \in Nat : ~ \E f : Adds(f, slots, k)}
<1>1. Bad = {}
  <2>1. SUFFICES ASSUME Bad # {} PROVE FALSE
    OBVIOUS
  <2>2. PICK k \in Bad : \A m \in Bad : k <= m
    BY <2>1, Least
  <2>3. k # 0
    <3>1. Adds([m \in 0 .. 0 |-> 0], slots, 0)
      BY DEF Adds
    <3> QED
      BY <3>1
  <2>4. k - 1 \in Nat /\ k - 1 \notin Bad
    BY <2>2, <2>3
  <2>5. PICK f : Adds(f, slots, k - 1)
    BY <2>4
  <2> DEFINE g == [m \in 0 .. k |-> IF m = k THEN f[k - 1] + slots[k].spend ELSE f[m]]
  <2>6. \A m \in 0 .. k - 1 : f[m] = IF m = 0 THEN 0 ELSE f[m - 1] + slots[m].spend
    BY <2>5, <2>4 DEF Adds
  <2>7. \A m \in 0 .. k : g[m] = IF m = 0 THEN 0 ELSE g[m - 1] + slots[m].spend
    <3> TAKE m \in 0 .. k
    <3>1. CASE m = k
      BY <3>1, <2>3, <2>4
    <3>2. CASE m # k /\ m # 0
      <4>1. m \in 0 .. k - 1 /\ m - 1 \in 0 .. k /\ m - 1 # k
        BY <3>2, <2>4
      <4> QED
        BY <4>1, <2>6, <3>2
    <3>3. CASE m # k /\ m = 0
      BY <3>3, <2>6, <2>4
    <3> QED
      BY <3>1, <3>2, <3>3
  <2>8. Adds(g, slots, k)
    BY <2>7 DEF Adds
  <2> QED
    BY <2>8
<1>2. PICK f : Adds(f, slots, n)
  BY <1>1
<1>3. Adds(Costs(slots), slots, n)
  BY <1>2 DEF Costs, Adds
<1>4. PICK c : c = Costs(slots)
  OBVIOUS
<1>5. \A m \in 0 .. n : c[m] = IF m = 0 THEN 0 ELSE c[m - 1] + slots[m].spend
  BY <1>3, <1>4 DEF Adds
<1>6. c[0] = 0 /\ \A m \in 1 .. n : c[m] = c[m - 1] + slots[m].spend
  BY <1>5
<1>7. {m \in 0 .. n : c[m] \notin Nat} = {}
  <2> DEFINE Odd == {m \in 0 .. n : c[m] \notin Nat}
  <2>1. SUFFICES ASSUME Odd # {} PROVE FALSE
    OBVIOUS
  <2>2. Odd \subseteq Nat
    OBVIOUS
  <2>3. PICK m \in Odd : \A k \in Odd : m <= k
    BY <2>1, <2>2, Least
  <2>4. m \in 1 .. n /\ c[m] \notin Nat
    BY <1>6, <2>3
  <2>5. m - 1 \in 0 .. n /\ m - 1 \notin Odd
    BY <2>3, <2>4
  <2>6. c[m - 1] \in Nat /\ slots[m].spend \in Nat
    <3>1. slots[m] \in Slots
      BY <2>4
    <3> QED
      BY <2>5, <3>1 DEF Slots
  <2> QED
    BY <1>6, <2>4, <2>6
<1> QED
  BY <1>4, <1>6, <1>7

\* The same slots cost the same.
LEMMA CostsAgree ==
    ASSUME NEW s \in Seq(Slots), NEW t \in Seq(Slots), NEW n \in Nat, n <= Len(s), n <= Len(t),
           \A i \in 1 .. n : s[i] = t[i]
    PROVE  Costs(s)[n] = Costs(t)[n]
<1>1. PICK c, d : c = Costs(s) /\ d = Costs(t)
  OBVIOUS
<1>2. /\ c[0] = 0 /\ \A m \in 1 .. n : c[m] = c[m - 1] + s[m].spend
      /\ d[0] = 0 /\ \A m \in 1 .. n : d[m] = d[m - 1] + t[m].spend
  <2>1. PICK i \in Nat, j \in Nat : i = Len(s) /\ j = Len(t)
    OBVIOUS
  <2>2. /\ c[0] = 0 /\ \A m \in 1 .. i : c[m] = c[m - 1] + s[m].spend
        /\ d[0] = 0 /\ \A m \in 1 .. j : d[m] = d[m - 1] + t[m].spend
    BY <1>1, <2>1, CostsAre
  <2> QED
    BY <2>1, <2>2
<1> DEFINE Odd == {m \in 0 .. n : c[m] # d[m]}
<1>3. Odd = {}
  <2>1. SUFFICES ASSUME Odd # {} PROVE FALSE
    OBVIOUS
  <2>2. Odd \subseteq Nat
    OBVIOUS
  <2>3. PICK m \in Odd : \A k \in Odd : m <= k
    BY <2>1, <2>2, Least
  <2>4. m \in 1 .. n /\ c[m] # d[m]
    BY <1>2, <2>3
  <2>5. m - 1 \in 0 .. n /\ m - 1 \notin Odd
    BY <2>3, <2>4
  <2> QED
    BY <1>2, <2>4, <2>5
<1> QED
  BY <1>1, <1>3

\* A pass that owes what another does, and the verdicts, which bill nothing.
SameBill(p, q) == q.used = p.used /\ q.spent = p.spent

LEMMA VerdictsBillNothing ==
    ASSUME NEW p \in Passes
    PROVE  /\ SameBill(p, Answered(p)) /\ SameBill(p, Retries(p)) /\ \A s : SameBill(p, Ends(p, s))
           /\ \A d, perm : SameBill(p, FailedVerdict(p, d, perm))
           /\ \A pc : SameBill(p, [p EXCEPT !.pc = pc])
<1>1. SameBill(p, Retries(p)) /\ \A s : SameBill(p, Ends(p, s))
  BY DEF SameBill, Retries, Ends, Passes
<1>2. SameBill(p, Answered(p)) /\ \A pc : SameBill(p, [p EXCEPT !.pc = pc])
  BY DEF SameBill, Answered, Passes
<1>3. \A d, perm : SameBill(p, FailedVerdict(p, d, perm))
  BY <1>1 DEF FailedVerdict
<1> QED
  BY <1>1, <1>2, <1>3

\* What billing adds to a bill; reading a slot adds nothing.
LEMMA BillIs ==
    ASSUME NEW p \in Passes, NEW slots \in Nat, NEW spend \in Nat, NEW q, q = Bill(p, slots, spend)
    PROVE  /\ p.used \in Nat /\ p.spent \in Nat
           /\ q.used = p.used + slots /\ q.spent = p.spent + spend
<1>1. p.used \in Nat /\ p.spent \in Nat
  BY DEF Passes
<1>2. q.used = p.used + slots /\ q.spent = p.spent + spend
  BY DEF Bill, Passes
<1> QED
  BY <1>1, <1>2

LEMMA PastBillsNothing ==
    ASSUME pass \in Passes, NEW q, q = Past
    PROVE  SameBill(pass, q)
BY DEF Past, Passes, SameBill

\* What is opened, spent, in doubt and settled behind a retry, one record on.
LEMMA OneRecordOn ==
    ASSUME DispatchInv, SlotsAreOpened, NothingPrepaid, DoubtsMutate, setting' = setting,
           NEW r \in Records, RecordOK(r), journal' = Append(journal, r)
    PROVE  /\ SlotsAreOpened' /\ NothingPrepaid' /\ DoubtsMutate'
           /\ SettledBehindRetry => SettledBehindRetry'
<1>1. journal \in Seq(Records) /\ setting \in Settings /\ Cursor \in Seq(Slots) /\ OneSlotPerKey(Cursor)
  BY DEF DispatchInv, TypeOK, CursorIsSound
<1>2. PICK n \in Nat : n = Len(journal) /\ DOMAIN journal = 1 .. n
  BY <1>1
<1>3. PICK j : j = journal'
  OBVIOUS
<1>4. DOMAIN j = 1 .. n + 1 /\ j[n + 1] = r /\ \A i \in 1 .. n : j[i] = journal[i]
  BY <1>1, <1>2, <1>3
<1>5. Cursor' = Apply(Cursor, r) /\ Listed' = DoubtAfter(Mutating, Listed, r)
  BY <1>1, RecordsGrow
<1>6. ASSUME NEW s \in Known'
      PROVE  /\ (\E t \in Known : t.key = s.key) \/ (r.kind \in OfEffects \ Outcomes /\ s.key = r.key)
             /\ s.state \notin Dispositions => s.spend = 0
  <2>1. \/ s \in Known
        \/ r.kind \in Outcomes /\ s.key = r.key /\ s.state = StateSaid(r) /\ \E t \in Known : t.key = s.key
        \/ \E state : <<r.kind, state>> \in Opening /\ s = Slot(r.key, state, FALSE, 0)
    BY <1>1, <1>5, AppliedSlots DEF Known
  <2>2. r.kind \in Outcomes => StateSaid(r) \in Dispositions
    BY DEF RecordOK, StateSaid, Dispositions
  <2>3. \A state : <<r.kind, state>> \in Opening => r.kind \in OfEffects \ Outcomes
    BY DEF Opening, OfEffects, Outcomes
  <2>4. CASE \E state : <<r.kind, state>> \in Opening /\ s = Slot(r.key, state, FALSE, 0)
    BY <2>3, <2>4 DEF Slot
  <2> QED
    BY <2>1, <2>2, <2>4 DEF NothingPrepaid
<1>7. SlotsAreOpened' /\ NothingPrepaid'
  <2>1. NothingPrepaid'
    BY <1>6 DEF NothingPrepaid
  <2> SUFFICES ASSUME NEW s \in Known'
               PROVE  \E i \in 1 .. n + 1 : j[i].kind \in OfEffects \ Outcomes /\ j[i].key = s.key
    BY <1>3, <1>4, <2>1 DEF SlotsAreOpened
  <2>2. CASE \E t \in Known : t.key = s.key
    <3>1. PICK i \in 1 .. n : journal[i].kind \in OfEffects \ Outcomes /\ journal[i].key = s.key
      BY <1>2, <2>2 DEF SlotsAreOpened
    <3> QED
      BY <1>4, <3>1
  <2>3. CASE r.kind \in OfEffects \ Outcomes /\ s.key = r.key
    BY <1>4, <2>3
  <2> QED
    BY <1>6, <2>2, <2>3
<1>8. DoubtsMutate'
  <2>1. Listed \in [open : SUBSET Keys, doubts : SUBSET Keys]
    BY DEF DispatchInv, DoubtsAreSlots
  <2>2. \A k \in Listed'.open \cup Listed'.doubts :
            \/ k \in Listed.open \cup Listed.doubts
            \/ k = r.key /\ r.kind = "EffectStarted" /\ r.key[1] \in Mutating
    BY <1>5, <2>1 DEF DoubtAfter
  <2>3. r.kind = "EffectStarted" => r.key \in Keys
    BY DEF RecordOK, OfEffects
  <2>4. r.kind = "EffectStarted" /\ r.key[1] \in Mutating => Declared(r.key).mutates
    BY <1>1, <2>3, KeyIs
  <2>5. \A k \in UndecidedEffects' : Declared(k).mutates
    BY <2>2, <2>4 DEF DoubtsMutate, UndecidedEffects
  <2> QED
    BY <2>5, SameProgram DEF DoubtsMutate
<1>9. SettledBehindRetry => SettledBehindRetry'
  <2> SUFFICES ASSUME SettledBehindRetry PROVE SettledBehindRetry'
    OBVIOUS
  <2>1. PICK i \in 1 .. n, m \in 1 .. n :
            /\ journal[i].kind = "EffectReconciled" /\ m < i /\ journal[i].says = "Landed"
            /\ journal[m].kind \in OfEffects \ Outcomes
            /\ journal[i].key[1] = journal[m].key[1] /\ journal[i].key[2] < journal[m].key[2]
    BY <1>2 DEF SettledBehindRetry, Positions
  <2>2. i \in 1 .. n + 1 /\ m \in 1 .. n + 1 /\ j[i] = journal[i] /\ j[m] = journal[m]
    BY <1>4
  <2> QED
    BY <1>3, <1>4, <2>1, <2>2 DEF SettledBehindRetry, Positions
<1> QED
  BY <1>7, <1>8, <1>9

\* The same of a step that writes nothing.
LEMMA NoRecordOn ==
    ASSUME SlotsAreOpened, NothingPrepaid, DoubtsMutate, UNCHANGED <<setting, journal>>
    PROVE  /\ SlotsAreOpened' /\ NothingPrepaid' /\ DoubtsMutate'
           /\ SettledBehindRetry <=> SettledBehindRetry'
           /\ Cursor' = Cursor
<1>1. Cursor' = Cursor /\ Known' = Known /\ UndecidedEffects' = UndecidedEffects
  BY SameProgram DEF Cursor, Known, Listed, UndecidedEffects
<1>2. DoubtsMutate' /\ NothingPrepaid'
  BY <1>1, SameProgram DEF DoubtsMutate, NothingPrepaid
<1>3. SlotsAreOpened' /\ (SettledBehindRetry <=> SettledBehindRetry')
  BY <1>1 DEF SlotsAreOpened, SettledBehindRetry, Positions
<1> QED
  BY <1>1, <1>2, <1>3

\* The cursor is in order and the pass follows it, and bills it.
Followed == InCallOrder(Cursor) /\ ReadsItsHistory /\ NothingPrepaid

\* No pass and one that has ended read nothing more.
LEMMA NothingToFollow ==
    ASSUME InCallOrder(Cursor'), NothingPrepaid', pass' = None \/ pass'.pc = "conclude"
    PROVE  Followed'
BY DEF Followed, ReadsItsHistory, Consulting, AtEdge, Working

\* A pass reads the cursor's next slot, having billed the ones before; one not
\* answered is the last.
LEMMA ReadsNext ==
    ASSUME DispatchInv, Followed, NEW states, Reads(states)
    PROVE  /\ pass \in Passes /\ pass.slots = Cursor /\ pass.pos \in Nat /\ Cursor # <<>>
           /\ Len(Cursor) \in Nat /\ pass.pos + 1 \in 1 .. Len(Cursor)
           /\ NextSlot = Cursor[pass.pos + 1] /\ NextSlot.key = Here
           /\ Here = Asked(Cursor, pass.pos) /\ HasBilled(pass.pos)
           /\ Costs(Cursor)[pass.pos] \in Nat
           /\ Costs(Cursor)[pass.pos + 1] = pass.spent + NextSlot.spend
           /\ NextSlot.state \notin Dispositions => pass.pos + 1 = Len(Cursor) /\ NextSlot.spend = 0
<1>1. pass # None /\ pass.pc = "consult" /\ ~Exhausted /\ NextSlot.key = Here
  BY DEF Reads, At
<1>2. pass.slots = Cursor /\ Here = Asked(Cursor, pass.pos) /\ HasBilled(pass.pos)
  BY <1>1 DEF Followed, ReadsItsHistory, Consulting
<1>3. pass \in Passes /\ pass.pos \in Nat /\ Cursor \in Seq(Slots) /\ pass.pos + 1 \in 1 .. Len(Cursor)
  BY <1>1, <1>2, Running, NotNone, SlotIsRead
<1>4. Len(Cursor) \in Nat /\ Cursor # <<>>
  BY <1>3
<1>5. NextSlot = Cursor[pass.pos + 1]
  BY <1>2 DEF NextSlot
<1>6. NextSlot.state \notin Dispositions => pass.pos + 1 = Len(Cursor)
  <2>1. pass.pos + 1 # Len(Cursor) => pass.pos + 1 \in 1 .. Len(Cursor) - 1
    BY <1>3, <1>4
  <2> QED
    BY <1>5, <2>1 DEF Followed, InCallOrder
<1>7. NextSlot.state \notin Dispositions => NextSlot.spend = 0
  <2>1. Cursor[pass.pos + 1] \in Known
    BY <1>3 DEF Known, ToSet
  <2> QED
    BY <1>5, <2>1 DEF Followed, NothingPrepaid
<1>8. /\ Costs(Cursor)[pass.pos] \in Nat
      /\ Costs(Cursor)[pass.pos + 1] = Costs(Cursor)[pass.pos] + NextSlot.spend
  <2>1. PICK m \in Nat : m = pass.pos + 1 /\ m \in 1 .. Len(Cursor) /\ m - 1 = pass.pos /\ pass.pos \in 0 .. Len(Cursor)
    BY <1>3, <1>4
  <2> QED
    BY <1>3, <1>4, <1>5, <2>1, CostsAre
<1> QED
  BY <1>1, <1>2, <1>3, <1>4, <1>5, <1>6, <1>7, <1>8 DEF HasBilled

\* A pass that goes on as the slot it read says, and bills it, asks for where
\* that leads, or is at the frontier.
LEMMA FollowsOn ==
    ASSUME DispatchInv, Followed, UNCHANGED <<setting, journal>>,
           NEW states, Reads(states), NEW p, Consumed(p),
           \/ Ended(p, pass')
           \/ /\ \/ NextEffect(p, pass') /\ NextSlot.state = "Done"
                 \/ NextAttempt(p, pass') /\ NextSlot.state \in Dispositions \ {"Done"}
              /\ p.used = pass.used + 1 /\ p.spent = pass.spent + NextSlot.spend /\ SameBill(p, pass')
    PROVE  Followed'
<1>1. Cursor' = Cursor /\ InCallOrder(Cursor') /\ NothingPrepaid'
  BY DEF Cursor, Known, Followed, NothingPrepaid
<1>2. CASE Ended(p, pass')
  BY <1>1, <1>2, NothingToFollow DEF Ended
<1>3. CASE ~Ended(p, pass')
  <2>1. /\ pass \in Passes /\ pass.slots = Cursor /\ pass.pos \in Nat /\ Cursor # <<>>
        /\ Len(Cursor) \in Nat /\ pass.pos + 1 \in 1 .. Len(Cursor)
        /\ NextSlot = Cursor[pass.pos + 1] /\ NextSlot.key = Here /\ pass.used = pass.pos
        /\ Costs(Cursor)[pass.pos + 1] = pass.spent + NextSlot.spend
    BY ReadsNext DEF HasBilled
  <2>2. PICK q, n : q = pass' /\ n = pass.pos + 1
    OBVIOUS
  <2>3. /\ q.slots = Cursor /\ q.pos = n /\ q.pc = "consult" /\ NextSlot.state \in Dispositions
        /\ q.used = n /\ q.spent = Costs(Cursor)[n] /\ n \in 1 .. Len(Cursor) /\ NextSlot = Cursor[n]
    BY <1>3, <2>1, <2>2 DEF NextEffect, NextAttempt, Keeps, Consumed, Dispositions, SameBill
  <2>4. <<q.e, q.a>> = KeyAfter(NextSlot)
    <3>1. NextSlot.key[1] = pass.e /\ NextSlot.key[2] = pass.a
      BY <2>1 DEF Here
    <3> QED
      BY <1>3, <2>2, <3>1 DEF KeyAfter, NextEffect, NextAttempt, Consumed
  <2>5. Here' = Asked(Cursor, n) /\ Here' = KeyAfter(Cursor[n])
    BY <2>1, <2>2, <2>3, <2>4 DEF Here, Asked
  <2>6. HasBilled(n)'
    BY <1>1, <2>2, <2>3 DEF HasBilled
  <2>7. (AtFrontier(Cursor, Here') /\ Behind(Cursor) = n) \/ ~(n >= Len(Cursor))
    <3>1. CASE n = Len(Cursor)
      BY <2>1, <2>3, <2>5, <3>1 DEF AtFrontier, Behind, Dispositions
    <3> QED
      BY <2>1, <2>3, <3>1
  <2>8. ReadsItsHistory'
    <3>1. pass'.pc = "consult" /\ pass'.pos = n /\ pass'.slots = Cursor
      BY <2>2, <2>3
    <3> QED
      BY <1>1, <2>5, <2>6, <2>7, <3>1 DEF ReadsItsHistory, Consulting, AtEdge, Exhausted, Working
  <2> QED
    BY <1>1, <2>8 DEF Followed
<1> QED
  BY <1>2, <1>3

\* A pass starts at the first position.
LEMMA StartsInOrder ==
    ASSUME DispatchInv, Followed, setting' = setting, Execute \/ Resume \/ Verify
    PROVE  Followed'
<1>1. journal' = journal
  BY DEF Execute, Resume, Verify
<1>2. Cursor' = Cursor /\ InCallOrder(Cursor') /\ NothingPrepaid' /\ Cursor \in Seq(Slots)
  BY <1>1 DEF Cursor, Known, NothingPrepaid, Followed, DispatchInv, CursorIsSound
<1>3. PICK mode : pass' = Fresh(mode) \/ \E s : pass' = Ends(Fresh(mode), s)
  BY DEF Execute, Resume, Verify
<1>4. CASE \E s : pass' = Ends(Fresh(mode), s)
  <2>1. pass'.pc = "conclude"
    BY <1>4 DEF Ends, Fresh
  <2> QED
    BY <1>2, <2>1, NothingToFollow
<1>5. CASE pass' = Fresh(mode)
  <2>1. PICK q : q = pass'
    OBVIOUS
  <2>2. /\ q.slots = Cursor /\ q.pos = 0 /\ q.pc = "consult" /\ q.e = 1 /\ q.a = 1
        /\ q.used = 0 /\ q.spent = 0
    BY <1>5, <2>1 DEF Fresh, Cursor
  <2>3. Here' = Asked(Cursor, 0) /\ Here' = <<1, 1>>
    BY <2>1, <2>2 DEF Here, Asked
  <2>4. HasBilled(0)'
    <3>1. Len(Cursor) \in Nat
      BY <1>2
    <3>2. Costs(Cursor)[0] = 0
      BY <1>2, <3>1, CostsAre
    <3> QED
      BY <1>2, <2>1, <2>2, <3>2 DEF HasBilled
  <2>5. Cursor = <<>> \/ ~(0 >= Len(Cursor))
    BY <1>2
  <2>6. Cursor = <<>> => AtFrontier(Cursor, Here') /\ Behind(Cursor) = 0
    BY <2>3 DEF AtFrontier, Behind
  <2> QED
    BY <1>2, <2>1, <2>2, <2>3, <2>4, <2>5, <2>6
       DEF Followed, ReadsItsHistory, Consulting, AtEdge, Exhausted, Working
<1> QED
  BY <1>3, <1>4, <1>5

LEMMA ReadingIsInOrder ==
    ASSUME DispatchInv, Followed, setting' = setting, ReplayDone \/ ReplayDenial \/ ReplayFailed
    PROVE  Followed'
<1>1. PICK states : /\ Reads(states) /\ journal' = journal /\ states \subseteq Dispositions \cup {"Denied"}
                    /\ ReplayDone => states = {"Done"}
                    /\ ReplayFailed => states = {"Landed", "InDoubt", "DidNotHappen"}
  <2>1. CASE ReplayDone
    BY <2>1, ZenonT(30) DEF ReplayDone, ReplayFailed, Reads, Dispositions
  <2>2. CASE ReplayDenial
    BY <2>2 DEF ReplayDenial, ReplayDone, ReplayFailed, Reads, Dispositions
  <2>3. CASE ReplayFailed
    BY <2>3 DEF ReplayFailed, ReplayDone, Reads, Dispositions
  <2> QED
    BY <2>1, <2>2, <2>3
<1>2. NextSlot.spend \in Nat /\ NextSlot.state \in states /\ NextSlot.perm \in BOOLEAN
  BY <1>1, SlotIsRead DEF Slots, Reads
<1>3. PICK p : p = Bill(Past, 1, NextSlot.spend)
  OBVIOUS
<1>4. Consumed(p) /\ Consumed(Past) /\ p \in Passes /\ Past \in Passes
  BY <1>1, <1>2, <1>3, Consuming DEF Consumed
<1>5. p.used = pass.used + 1 /\ p.spent = pass.spent + NextSlot.spend
  <2>1. pass \in Passes
    BY <1>1, ReadsNext
  <2>2. SameBill(pass, Past)
    BY <2>1, PastBillsNothing
  <2>3. p.used = Past.used + 1 /\ p.spent = Past.spent + NextSlot.spend
    <3>1. PICK x, spend : x = Past /\ spend = NextSlot.spend /\ spend \in Nat
      BY <1>2
    <3>2. x \in Passes /\ p = Bill(x, 1, spend)
      BY <1>3, <1>4, <3>1
    <3>3. p.used = x.used + 1 /\ p.spent = x.spent + spend
      BY <3>1, <3>2, BillIs
    <3> QED
      BY <3>1, <3>3
  <2> QED
    BY <2>2, <2>3 DEF SameBill
<1>6. CASE ReplayDone
  <2>1. pass' = Answered(p)
    BY <1>3, <1>6 DEF ReplayDone
  <2>2. Ended(p, pass') \/ NextEffect(p, pass')
    BY <1>4, <2>1, StepsOfAPass
  <2>3. SameBill(p, pass') /\ NextSlot.state = "Done"
    BY <1>1, <1>2, <1>4, <1>6, <2>1, VerdictsBillNothing
  <2> QED
    BY <1>1, <1>4, <1>5, <2>2, <2>3, FollowsOn
<1>7. CASE ReplayDenial
  <2>1. Ended(Past, pass')
    BY <1>4, <1>7, StepsOfAPass DEF ReplayDenial, Statuses
  <2> QED
    BY <1>1, <1>4, <2>1, FollowsOn
<1>8. CASE ReplayFailed
  <2>1. NextSlot.state \in Dispositions \ {"Done"}
    BY <1>1, <1>2, <1>8 DEF Dispositions
  <2>2. PICK stop : stop = StopReason(NextSlot.state, NextSlot.perm, Here)
    OBVIOUS
  <2>3. pass' = Retries(p) \/ pass' = Diverges(p) \/ (stop # None /\ pass' = Ends(p, stop))
    BY <1>3, <1>8, <2>2 DEF ReplayFailed
  <2>4. stop \in Statuses \cup {None}
    <3>1. setting \in Settings /\ Here \in Keys
      BY <1>1, Running DEF Reads, At
    <3> QED
      BY <1>1, <1>2, <1>8, <2>2, <3>1, TriedAgain
  <2>5. Ended(p, pass') \/ (NextAttempt(p, pass') /\ SameBill(p, pass'))
    BY <1>4, <2>3, <2>4, StepsOfAPass, VerdictsBillNothing
  <2> QED
    BY <1>1, <1>4, <1>5, <2>1, <2>5, FollowsOn
<1> QED
  BY <1>6, <1>7, <1>8

\* A withholding is the last position, and looked up again is the frontier.
LEMMA WithholdingIsInOrder ==
    ASSUME DispatchInv, Followed, setting' = setting, ReplayWithheld
    PROVE  Followed'
<1>1. /\ Reads({"Withheld"}) /\ journal' = journal
      /\ pass' = IF WritesEnabled(Past) THEN Past ELSE Ends(Past, "withheld")
  BY DEF ReplayWithheld
<1>2. Consumed(Past) /\ Past \in Passes
  BY <1>1, Consuming DEF Consumed
<1>3. CASE ~WritesEnabled(Past)
  <2>1. Ended(Past, pass')
    BY <1>1, <1>2, <1>3, StepsOfAPass DEF Statuses
  <2> QED
    BY <1>1, <1>2, <2>1, FollowsOn
<1>4. CASE WritesEnabled(Past)
  <2>1. pass' = Past /\ pass.mode # "Strict" /\ NextSlot.state = "Withheld"
    BY <1>1, <1>2, <1>4 DEF WritesEnabled, Consumed, Reads
  <2>2. NextSlot.state \notin Dispositions
    BY <2>1 DEF Dispositions
  <2>3. /\ pass.slots = Cursor /\ Cursor # <<>> /\ pass.pos + 1 = Len(Cursor) /\ Len(Cursor) \in Nat
        /\ NextSlot = Cursor[pass.pos + 1] /\ NextSlot.key = Here /\ pass \in Passes /\ pass.pos \in Nat
        /\ HasBilled(pass.pos)
    BY <1>1, <2>1, <2>2, ReadsNext
  <2>4. PICK q, n : q = pass' /\ n = pass.pos
    OBVIOUS
  <2>5. /\ q.slots = Cursor /\ q.pos = Len(Cursor) /\ q.pc = "consult" /\ q.e = pass.e /\ q.a = pass.a
        /\ q.mode = pass.mode /\ SameBill(pass, q)
    BY <1>1, <2>1, <2>3, <2>4, MovedPast, PastBillsNothing DEF Reads, At
  <2>6. Here' = Here /\ Exhausted'
    BY <2>3, <2>4, <2>5 DEF Here, Exhausted
  <2>7. Cursor' = Cursor /\ AtFrontier(Cursor, Here) /\ Behind(Cursor) = n /\ NothingPrepaid'
    BY <1>1, <2>1, <2>3, <2>4 DEF Cursor, AtFrontier, Behind, Known, NothingPrepaid, Followed
  <2>8. HasBilled(n)'
    BY <2>3, <2>4, <2>5, <2>7 DEF HasBilled, SameBill
  <2>9. AtEdge' /\ ~Consulting' /\ pass'.pc = "consult"
    BY <2>1, <2>4, <2>5, <2>6 DEF AtEdge, Consulting
  <2> QED
    BY <2>6, <2>7, <2>8, <2>9 DEF Followed, ReadsItsHistory, Working
<1> QED
  BY <1>3, <1>4

\* So is a refusal.
LEMMA RefusalIsInOrder ==
    ASSUME DispatchInv, Followed, NothingPrepaid', setting' = setting, ReplayRefusal
    PROVE  Followed' /\ (Unbroken(Cursor) => Unbroken(Cursor'))
<1>1. Reads({"Refused"})
  BY DEF ReplayRefusal
<1>2. Consumed(Past) /\ Past \in Passes
  BY <1>1, Consuming DEF Consumed
<1>3. CASE ~(WritesEnabled(Past) /\ pass.used < ceiling)
  <2>1. journal' = journal /\ pass' = Ends(Past, "exhausted")
    BY <1>3 DEF ReplayRefusal
  <2>2. Ended(Past, pass')
    BY <1>2, <2>1, StepsOfAPass DEF Statuses
  <2>3. Cursor' = Cursor
    BY <2>1 DEF Cursor
  <2> QED
    BY <1>1, <1>2, <2>1, <2>2, <2>3, FollowsOn
<1>4. CASE WritesEnabled(Past) /\ pass.used < ceiling
  <2>1. journal' = Append(journal, Plain("BudgetReadmitted", Here, None)) /\ pass' = Past
    BY <1>4 DEF ReplayRefusal, Write
  <2>2. /\ pass.mode # "Strict" /\ NextSlot.state = "Refused" /\ NextSlot.state \notin Dispositions
        /\ pass # None /\ pass.pc = "consult"
    BY <1>1, <1>2, <1>4 DEF WritesEnabled, Consumed, Reads, At, Dispositions
  <2>3. /\ pass.slots = Cursor /\ Cursor # <<>> /\ pass.pos + 1 = Len(Cursor) /\ Len(Cursor) \in Nat
        /\ NextSlot = Cursor[pass.pos + 1] /\ NextSlot.key = Here /\ pass \in Passes /\ pass.pos \in Nat
        /\ Here = Asked(Cursor, pass.pos) /\ HasBilled(pass.pos)
    BY <1>1, <2>2, ReadsNext
  <2>4. PICK q, n : q = pass' /\ n = Len(Cursor) /\ n \in Nat \ {0} /\ n - 1 = pass.pos /\ n - 1 \in Nat
    BY <2>3
  <2>5. /\ q.slots = Cursor /\ q.pos = n /\ q.pc = "consult" /\ q.e = pass.e /\ q.a = pass.a
        /\ q.mode = pass.mode /\ SameBill(pass, q)
    BY <2>1, <2>2, <2>3, <2>4, MovedPast, PastBillsNothing
  <2>6. Here' = Here /\ Exhausted'
    BY <2>3, <2>4, <2>5 DEF Here, Exhausted
  <2>7. PICK r : r = Plain("BudgetReadmitted", Here, None)
    OBVIOUS
  <2>8. r \in Records /\ r.kind = "BudgetReadmitted" /\ r.key = Here
    <3>1. Here \in Nat \X Nat
      BY <2>2, Running, KeyIs
    <3> QED
      BY <2>7, <3>1 DEF Plain, Rec, Records, OfEffects
  <2>9. PICK t : t = Cursor' /\ t = Readmit(Cursor, Here)
    <3>1. Cursor' = Apply(Cursor, r)
      BY <2>1, <2>7, <2>8, RecordsGrow DEF DispatchInv, TypeOK
    <3> QED
      BY <2>8, <3>1 DEF Apply
  <2>10. Cursor \in Seq(Slots) /\ OneSlotPerKey(Cursor) /\ InCallOrder(Cursor)
    BY DEF DispatchInv, CursorIsSound, Followed
  <2>11. /\ InCallOrder(t) /\ AtFrontier(t, Here) /\ (Unbroken(Cursor) => Unbroken(t))
         /\ t \in Seq(Slots) /\ Len(t) = n - 1 /\ Behind(t) = n - 1
         /\ \A i \in 1 .. n - 1 : t[i] = Cursor[i]
    <3>1. Cursor[n].key = Here /\ Cursor[n].state = "Refused" /\ Here = Asked(Cursor, n - 1)
      BY <2>2, <2>3, <2>4
    <3> QED
      BY <2>4, <2>9, <2>10, <3>1, ReadmittedInOrder
  <2>12. HasBilled(n - 1)'
    <3>1. Costs(Cursor)[n - 1] = Costs(t)[n - 1]
      BY <2>4, <2>10, <2>11, CostsAgree
    <3> QED
      BY <2>3, <2>4, <2>5, <2>9, <3>1 DEF HasBilled, SameBill
  <2>13. AtEdge' /\ ~Consulting' /\ pass'.pc = "consult"
    BY <2>2, <2>4, <2>5, <2>6 DEF AtEdge, Consulting
  <2> QED
    BY <2>6, <2>9, <2>11, <2>12, <2>13 DEF Followed, ReadsItsHistory, Working
<1> QED
  BY <1>3, <1>4

\* An orphan is the last position, and worked on there.
LEMMA OrphanIsInOrder ==
    ASSUME DispatchInv, Followed, setting' = setting, ReplayOrphan
    PROVE  Followed'
<1>1. Reads({"Orphan"}) /\ journal' = journal
  BY DEF ReplayOrphan
<1>2. PICK p : p = Bill(Past, 1, 0)
  OBVIOUS
<1>3. Consumed(p) /\ p \in Passes /\ p.mode = pass.mode /\ Past \in Passes
  BY <1>1, <1>2, Consuming DEF Consumed
<1>4. pass' = CASE p.mode = "Strict" -> Ends(p, "quarantined")
                [] p.mode # "Strict" /\ Declared(Here).recovery = "Retry" -> [p EXCEPT !.pc = "act"]
                [] p.mode # "Strict" /\ Declared(Here).recovery = "Reconcile" -> [p EXCEPT !.pc = "ask"]
                [] OTHER -> Ends(p, "quarantined")
  BY <1>2 DEF ReplayOrphan
<1>5. CASE pass' = Ends(p, "quarantined")
  <2>1. Ended(p, pass')
    BY <1>3, <1>5, StepsOfAPass DEF Statuses
  <2> QED
    BY <1>1, <1>3, <2>1, FollowsOn
<1>6. CASE p.mode # "Strict" /\ \E pc \in {"act", "ask"} : pass' = [p EXCEPT !.pc = pc]
  <2>1. PICK pc \in {"act", "ask"} : pass' = [p EXCEPT !.pc = pc]
    BY <1>6
  <2>2. NextSlot.state \notin Dispositions
    BY <1>1 DEF Reads, Dispositions
  <2>3. /\ pass.slots = Cursor /\ Cursor # <<>> /\ pass.pos + 1 = Len(Cursor) /\ Len(Cursor) \in Nat
        /\ NextSlot = Cursor[pass.pos + 1] /\ NextSlot.key = Here /\ pass \in Passes
        /\ pass.used = pass.pos /\ Costs(Cursor)[pass.pos + 1] = pass.spent + 0
    BY <1>1, <2>2, ReadsNext DEF HasBilled
  <2>4. p.used = pass.used + 1 /\ p.spent = pass.spent + 0
    <3>1. SameBill(pass, Past)
      BY <2>3, PastBillsNothing
    <3>2. p.used = Past.used + 1 /\ p.spent = Past.spent + 0
      BY <1>2, <1>3, BillIs
    <3> QED
      BY <3>1, <3>2 DEF SameBill
  <2>5. PICK q : q = pass'
    OBVIOUS
  <2>6. /\ q.slots = Cursor /\ q.pos = Len(Cursor) /\ q.pc = pc /\ q.e = pass.e /\ q.a = pass.a
        /\ q.used = Len(Cursor) /\ q.spent = Costs(Cursor)[Len(Cursor)]
    <3>1. SameBill(p, q)
      BY <1>3, <2>1, <2>5, VerdictsBillNothing
    <3>2. q.slots = p.slots /\ q.pos = p.pos /\ q.pc = pc /\ q.e = p.e /\ q.a = p.a
      BY <1>3, <2>1, <2>5 DEF Passes
    <3> QED
      BY <1>3, <2>3, <2>4, <3>1, <3>2 DEF Consumed, SameBill
  <2>7. Here' = Here /\ Exhausted'
    BY <2>3, <2>5, <2>6 DEF Here, Exhausted
  <2>8. Cursor' = Cursor /\ NothingPrepaid' /\ HasBilled(Len(Cursor))'
    BY <1>1, <2>5, <2>6 DEF Cursor, Known, NothingPrepaid, Followed, HasBilled
  <2>9. pass'.pc \in Working /\ pass'.pc # "consult" /\ pass'.pc # "gate"
    BY <2>5, <2>6 DEF Working
  <2> QED
    BY <2>3, <2>7, <2>8, <2>9 DEF Followed, ReadsItsHistory, Consulting, AtEdge
<1> QED
  BY <1>3, <1>4, <1>5, <1>6

\* The steps that write nothing and stay where they are.
LEMMA StayingIsInOrder ==
    ASSUME DispatchInv, Followed, setting' = setting,
           HistoryEnds \/ Perform \/ FailToRecord \/ ReplayDiverges \/ Crash \/ RaiseCeiling \/ SetHalt
    PROVE  Followed'
<1>1. journal' = journal
  BY DEF HistoryEnds, Perform, FailToRecord, ReplayDiverges, Crash, RaiseCeiling, SetHalt
<1>2. Cursor' = Cursor /\ InCallOrder(Cursor') /\ NothingPrepaid'
  BY <1>1 DEF Cursor, Known, NothingPrepaid, Followed
<1>3. CASE Crash \/ RaiseCeiling
  BY <1>2, <1>3, NothingToFollow DEF Crash, RaiseCeiling
<1>4. CASE SetHalt
  <2>1. pass' = pass
    BY <1>4 DEF SetHalt
  <2>2. ReadsItsHistory'
    BY <1>2, <2>1 DEF Followed, ReadsItsHistory, Consulting, AtEdge, Exhausted, Here, HasBilled
  <2> QED
    BY <1>2, <2>2 DEF Followed
<1>5. CASE ReplayDiverges
  <2>1. pass \in Passes /\ pass' = Diverges(pass)
    BY <1>5, Running DEF ReplayDiverges, At
  <2> QED
    BY <1>2, <2>1, VerdictsCallNothing, NothingToFollow
<1>6. CASE FailToRecord
  <2>1. PICK p : p = [Bill(pass, 0, Spend(pass.call.says)) EXCEPT !.call = None]
    OBVIOUS
  <2>2. p \in Passes /\ pass' = Ends(p, "failed")
    <3>1. pass \in Passes
      BY <1>6, Running DEF FailToRecord, At
    <3> QED
      BY <1>6, <2>1, <3>1, BilledFor DEF FailToRecord, Spend
  <2> QED
    BY <1>2, <2>2, VerdictsCallNothing, NothingToFollow
<1>7. CASE HistoryEnds
  <2>1. pass # None /\ pass.pc = "consult" /\ Exhausted /\ pass \in Passes
    BY <1>7, Running DEF HistoryEnds, At
  <2>2. CASE pass.mode = "Strict"
    <3>1. pass' = Diverges(pass)
      BY <1>7, <2>2 DEF HistoryEnds
    <3> QED
      BY <1>2, <2>1, <3>1, VerdictsCallNothing, NothingToFollow
  <2>3. CASE pass.mode # "Strict"
    <3>1. pass' = [pass EXCEPT !.pc = "gate"]
      BY <1>7, <2>3 DEF HistoryEnds
    <3>2. pass'.pc = "gate" /\ pass'.e = pass.e /\ pass'.a = pass.a /\ SameBill(pass, pass')
      BY <2>1, <3>1 DEF Passes, SameBill
    <3>3. Here' = Here
      BY <3>2 DEF Here
    <3>4. AtFrontier(Cursor, Here) /\ HasBilled(Behind(Cursor))
      BY <2>1, <2>3 DEF Followed, ReadsItsHistory, AtEdge, Consulting
    <3>5. HasBilled(Behind(Cursor))'
      BY <1>2, <3>2, <3>4 DEF HasBilled, SameBill
    <3> QED
      BY <1>2, <3>2, <3>3, <3>4, <3>5 DEF Followed, ReadsItsHistory, AtEdge, Consulting, Working
  <2> QED
    BY <2>2, <2>3
<1>8. CASE Perform
  <2>1. pass # None /\ pass.pc = "act" /\ pass \in Passes /\ pass.pc \in Working
    BY <1>8, Running DEF Perform, At, Working
  <2>2. PICK call : pass' = [pass EXCEPT !.call = call, !.pc = "record"]
    BY <1>8 DEF Perform
  <2>3. PICK q : q = pass'
    OBVIOUS
  <2>4. /\ q.pc = "record" /\ q.e = pass.e /\ q.a = pass.a /\ q.slots = pass.slots /\ q.pos = pass.pos
        /\ SameBill(pass, q)
    BY <2>1, <2>2, <2>3 DEF Passes, SameBill
  <2>5. Here' = Here /\ (Exhausted' <=> Exhausted)
    BY <2>3, <2>4 DEF Here, Exhausted
  <2>6. Exhausted /\ Cursor # <<>> /\ Cursor[Len(Cursor)].key = Here /\ HasBilled(Len(Cursor))
    BY <2>1 DEF Followed, ReadsItsHistory
  <2>7. HasBilled(Len(Cursor))' /\ pass'.pc = "record"
    BY <1>2, <2>3, <2>4, <2>6 DEF HasBilled, SameBill
  <2> QED
    BY <1>2, <2>5, <2>6, <2>7 DEF Followed, ReadsItsHistory, Consulting, AtEdge
<1> QED
  BY <1>3, <1>4, <1>5, <1>6, <1>7, <1>8

\* A position is opened here, and the pass ends or is announced.
OpensHere(kind, state) ==
    /\ <<kind, state>> \in Opening /\ journal' = Append(journal, Plain(kind, Here, None))
    /\ (\E s : pass' = Ends(pass, s)) \/ pass' = [Bill(pass, 1, 0) EXCEPT !.pc = "act"]

\* What the gate writes opens the frontier.
LEMMA GateIsInOrder ==
    ASSUME DispatchInv, Followed, NothingPrepaid', setting' = setting, Withhold \/ Deny \/ Refuse \/ Announce
    PROVE  Followed' /\ (Unbroken(Cursor) => Unbroken(Cursor'))
<1>1. pass # None /\ pass.pc = "gate"
  BY DEF Withhold, Deny, Refuse, Announce, Cleared, At
<1>2. /\ Gated /\ pass \in Passes /\ Here \in Keys /\ setting \in Settings /\ pass.mode # "Strict"
      /\ pass.pos \in 0 .. Len(pass.slots)
  BY <1>1, AtTheGate, Running
<1>3. PICK kind, state : OpensHere(kind, state)
  <2>1. Withhold => OpensHere("AuthorityWithheld", "Withheld")
    BY DEF Withhold, Write, Opening, OpensHere
  <2>2. Deny => OpensHere("PolicyDenied", "Denied")
    BY DEF Deny, Write, Opening, OpensHere
  <2>3. Refuse => OpensHere("BudgetRefused", "Refused")
    BY DEF Refuse, Write, Opening, OpensHere
  <2>4. Announce => OpensHere("EffectStarted", "Orphan")
    BY DEF Announce, Write, Opening, OpensHere
  <2> QED
    BY <2>1, <2>2, <2>3, <2>4
<1>4. PICK r : r = Plain(kind, Here, None)
  OBVIOUS
<1>5. r \in Records /\ r.kind = kind /\ r.key = Here /\ Here \in Nat \X Nat
  <2>1. Here \in Nat \X Nat
    BY <1>2, KeyIs
  <2>2. kind \in OfEffects
    BY <1>3 DEF OpensHere, Opening, OfEffects
  <2> QED
    BY <1>4, <2>1, <2>2 DEF Plain, Rec, Records
<1>6. Cursor' = Open(Cursor, Here, state) /\ state \in States
  <2>1. Cursor' = Apply(Cursor, r)
    BY <1>3, <1>4, <1>5, RecordsGrow DEF DispatchInv, TypeOK, OpensHere
  <2>2. \/ kind = "EffectStarted" /\ state = "Orphan"
        \/ kind = "BudgetRefused" /\ state = "Refused"
        \/ kind = "AuthorityWithheld" /\ state = "Withheld"
        \/ kind = "PolicyDenied" /\ state = "Denied"
    BY <1>3 DEF OpensHere, Opening
  <2> QED
    BY <1>5, <2>1, <2>2 DEF Apply, States
<1>7. /\ Cursor \in Seq(Slots) /\ Cursor' \in Seq(Slots) /\ InCallOrder(Cursor)
      /\ AtFrontier(Cursor, Here) /\ HasBilled(Behind(Cursor))
  <2>1. Cursor \in Seq(Slots) /\ OneSlotPerKey(Cursor)
    BY DEF DispatchInv, CursorIsSound
  <2>2. Cursor' \in Seq(Slots)
    <3>1. \A s \in ToSet(Cursor) : s.key = Here => s.state = "Withheld"
      BY <1>2 DEF Gated, Known
    <3> QED
      BY <1>5, <1>6, <2>1, <3>1, OpenIs
  <2> QED
    BY <1>1, <2>1, <2>2 DEF Followed, ReadsItsHistory, AtEdge
<1>8. ASSUME NEW i \in DOMAIN Cursor, Cursor[i].key = Here
      PROVE  i = Len(Cursor) /\ Cursor[i].state = "Withheld"
  <2>1. Cursor[i].state = "Withheld"
    BY <1>2, <1>8 DEF Gated, Known, ToSet
  <2>2. i \in 1 .. Len(Cursor) /\ Len(Cursor) \in Nat
    BY <1>7
  <2>3. ~(i \in 1 .. Len(Cursor) - 1)
    BY <1>7, <2>1 DEF InCallOrder, Dispositions
  <2> QED
    BY <2>1, <2>2, <2>3
<1>9. PICK c, m : c = Cursor' /\ c = Open(Cursor, Here, state) /\ m = Behind(Cursor)
  BY <1>6
<1>10. /\ InCallOrder(c) /\ c # <<>> /\ (Unbroken(Cursor) => Unbroken(c)) /\ c[Len(c)].key = Here
       /\ m \in Nat /\ m <= Len(Cursor) /\ Len(c) = m + 1 /\ c[Len(c)].spend = 0
       /\ \A i \in 1 .. m : c[i] = Cursor[i]
  <2>1. PICK x : x = Slot(Here, state, FALSE, 0)
    OBVIOUS
  <2>2. InCallOrder(c) /\ (Unbroken(Cursor) => Unbroken(c)) /\ OpenedAfter(Cursor, x, c)
    BY <1>5, <1>6, <1>7, <1>8, <1>9, <2>1, OpenedInOrder
  <2>3. x.key = Here /\ x.spend = 0
    BY <2>1 DEF Slot
  <2> QED
    BY <1>9, <2>2, <2>3 DEF OpenedAfter
<1>11. CASE \E s : pass' = Ends(pass, s)
  BY <1>2, <1>9, <1>10, <1>11, VerdictsCallNothing, NothingToFollow
<1>12. CASE pass' = [Bill(pass, 1, 0) EXCEPT !.pc = "act"]
  <2>1. PICK p : p = Bill(pass, 1, 0)
    OBVIOUS
  <2>2. Keeps(pass, p) /\ p.e = pass.e /\ p.a = pass.a /\ p.used = pass.used + 1 /\ p.spent = pass.spent + 0
    <3>1. Keeps(pass, p) /\ p.e = pass.e /\ p.a = pass.a
      BY <1>2, <2>1, Billed
    <3> QED
      BY <1>2, <2>1, <3>1 DEF Bill, Passes
  <2>3. PICK q : q = pass'
    OBVIOUS
  <2>4. /\ q.pc = "act" /\ q.e = pass.e /\ q.a = pass.a /\ q.slots = pass.slots /\ q.pos = pass.pos
        /\ q.used = pass.used + 1 /\ q.spent = pass.spent + 0
    BY <1>12, <2>1, <2>2, <2>3 DEF Keeps, Passes
  <2>5. Exhausted
    BY <1>1, <1>2 DEF Gated, Writing, ReadInOrder
  <2>6. Here' = Here /\ Exhausted' /\ pass'.pc = "act"
    BY <2>3, <2>4, <2>5 DEF Here, Exhausted
  <2>7. HasBilled(m + 1)'
    <3>1. Costs(c)[m] = Costs(Cursor)[m] /\ m <= Len(c)
      BY <1>7, <1>9, <1>10, CostsAgree
    <3>2. Costs(c)[m + 1] = Costs(c)[m] + 0 /\ Costs(c)[m] \in Nat
      <4>1. PICK n \in Nat : n = m + 1 /\ n = Len(c) /\ n \in 1 .. n /\ n - 1 = m /\ m \in 0 .. n
        BY <1>10
      <4> QED
        BY <1>7, <1>9, <1>10, <4>1, CostsAre
    <3>3. pass.used = m /\ pass.spent = Costs(Cursor)[m]
      BY <1>7, <1>9 DEF HasBilled
    <3> QED
      BY <1>9, <2>3, <2>4, <3>1, <3>2, <3>3 DEF HasBilled
  <2>8. HasBilled(Len(Cursor))'
    BY <1>9, <1>10, <2>7
  <2> QED
    BY <1>9, <1>10, <2>6, <2>8 DEF Followed, ReadsItsHistory, Consulting, AtEdge, Working
<1> QED
  BY <1>3, <1>9, <1>10, <1>11, <1>12 DEF OpensHere

\* Slot m is settled as a record says, and the others stay.
SettledAt(slots, m, r, t) ==
    /\ t \in Seq(Slots) /\ Len(t) = Len(slots) /\ t # <<>>
    /\ t[m].key = r.key /\ t[m].state = StateSaid(r) /\ t[m].spend = slots[m].spend + r.spend
    /\ \A i \in DOMAIN slots : i # m => t[i] = slots[i]
    /\ t[Len(t)].key = slots[Len(slots)].key

\* An outcome keeps the order of the cursor, and where each position leads,
\* unless it makes a landing of an attempt gone past.
LEMMA OutcomeIsInOrder ==
    ASSUME DispatchInv, setting' = setting, InCallOrder(Cursor),
           NEW r \in Records, RecordOK(r), r.kind \in Outcomes, journal' = Append(journal, r),
           NEW m \in DOMAIN Cursor, Cursor[m].key = r.key, m = Len(Cursor) \/ Cursor[m].state # "Done",
           NEW t, t = Cursor'
    PROVE  /\ InCallOrder(t) /\ SettledAt(Cursor, m, r, t)
           /\ m = Len(Cursor) \/ StateSaid(r) # "Done" => (Unbroken(Cursor) => Unbroken(t))
<1>1. setting \in Settings /\ journal \in Seq(Records) /\ Cursor \in Seq(Slots) /\ OneSlotPerKey(Cursor)
  BY DEF DispatchInv, TypeOK, CursorIsSound
<1>2. r.key \in Keys /\ r.says \in Dispositions
  BY DEF RecordOK, OfEffects
<1>3. r.key \in Nat \X Nat /\ r.perm \in BOOLEAN /\ r.spend \in Nat /\ StateSaid(r) \in Dispositions
  BY <1>1, <1>2, KeyIs DEF Records, StateSaid, Dispositions
<1>4. PICK perm \in BOOLEAN : t = Settle(Cursor, r.key, StateSaid(r), perm, r.spend)
  <2>1. t = Apply(Cursor, r)
    BY <1>1, RecordsGrow
  <2>2. CASE r.kind = "EffectDone"
    BY <2>1, <2>2 DEF Apply, StateSaid
  <2>3. CASE r.kind = "EffectFailed"
    BY <1>3, <2>1, <2>3 DEF Apply, StateSaid
  <2>4. CASE r.kind = "EffectReconciled"
    BY <2>1, <2>4 DEF Apply, StateSaid
  <2> QED
    BY <2>2, <2>3, <2>4 DEF Outcomes
<1>5. PICK key, state, spend : key = r.key /\ state = StateSaid(r) /\ spend = r.spend
  OBVIOUS
<1>6. /\ InCallOrder(t) /\ t \in Seq(Slots) /\ Len(t) = Len(Cursor) /\ t # <<>>
      /\ m = Len(Cursor) \/ state # "Done" => (Unbroken(Cursor) => Unbroken(t))
      /\ t[m].key = key /\ t[m].state = state /\ t[m].spend = Cursor[m].spend + spend
      /\ \A i \in DOMAIN Cursor : i # m => t[i] = Cursor[i]
      /\ t[Len(t)].key = Cursor[Len(Cursor)].key
  BY <1>1, <1>3, <1>4, <1>5, SettledInOrder
<1> QED
  BY <1>5, <1>6 DEF SettledAt

\* A pass at work records an outcome of its last position, bills it, and goes on
\* as it says.
LEMMA OutcomeIsFollowed ==
    ASSUME DispatchInv, Followed, NothingPrepaid', setting' = setting, pass # None, pass.pc \in Working,
           NEW r \in Records, RecordOK(r), r.kind \in Outcomes, r.key = Here, journal' = Append(journal, r),
           NEW p, Keeps(pass, p), p.e = pass.e, p.a = pass.a,
           \/ Ended(p, pass')
           \/ /\ \/ NextEffect(p, pass') /\ StateSaid(r) = "Done"
                 \/ NextAttempt(p, pass') /\ StateSaid(r) # "Done"
                 \/ Keeps(p, pass') /\ pass'.pc \in Working /\ pass'.e = p.e /\ pass'.a = p.a
              /\ p.used = pass.used /\ p.spent = pass.spent + r.spend /\ SameBill(p, pass')
    PROVE  Followed' /\ (Unbroken(Cursor) => Unbroken(Cursor'))
<1>1. /\ pass.mode # "Strict" /\ pass \in Passes /\ Here[1] = pass.e /\ Here[2] = pass.a
  BY AtWork
<1>2. /\ Exhausted /\ Cursor # <<>> /\ Cursor[Len(Cursor)].key = Here /\ InCallOrder(Cursor)
      /\ HasBilled(Len(Cursor)) /\ Cursor \in Seq(Slots)
  BY DEF Followed, ReadsItsHistory, DispatchInv, CursorIsSound
<1>3. PICK n \in Nat : n = Len(Cursor) /\ n \in DOMAIN Cursor /\ n \in 1 .. n /\ n - 1 \in 0 .. n /\ n - 1 \in Nat
  BY <1>2
<1>4. PICK t : t = Cursor'
  OBVIOUS
<1>5. InCallOrder(t) /\ SettledAt(Cursor, n, r, t) /\ (Unbroken(Cursor) => Unbroken(t))
  BY <1>2, <1>3, <1>4, OutcomeIsInOrder
<1>6. /\ t \in Seq(Slots) /\ t # <<>> /\ Len(t) = n /\ t[n].key = Here /\ t[n].state = StateSaid(r)
      /\ t[n].spend = Cursor[n].spend + r.spend /\ \A i \in 1 .. n - 1 : t[i] = Cursor[i]
  BY <1>2, <1>3, <1>5 DEF SettledAt
<1>7. StateSaid(r) \in Dispositions /\ r.spend \in Nat /\ Cursor[n].spend \in Nat
  <2>1. Cursor[n] \in Slots
    BY <1>2, <1>3
  <2> QED
    BY <2>1 DEF RecordOK, StateSaid, Dispositions, Records, Slots
<1>8. CASE Ended(p, pass')
  BY <1>4, <1>5, <1>8, NothingToFollow DEF Ended
<1>9. CASE ~Ended(p, pass')
  <2>1. PICK q : q = pass'
    OBVIOUS
  <2>2. /\ q.slots = pass.slots /\ q.pos = pass.pos /\ q.mode = pass.mode
        /\ q.used = pass.used /\ q.spent = pass.spent + r.spend
    BY <1>9, <2>1 DEF NextEffect, NextAttempt, Keeps, SameBill
  <2>3. Exhausted'
    BY <1>2, <2>1, <2>2 DEF Exhausted
  <2>4. HasBilled(n)'
    <3>1. Costs(t)[n - 1] = Costs(Cursor)[n - 1]
      BY <1>2, <1>3, <1>6, CostsAgree
    <3>2. /\ Costs(Cursor)[n] = Costs(Cursor)[n - 1] + Cursor[n].spend /\ Costs(Cursor)[n - 1] \in Nat
          /\ Costs(t)[n] = Costs(t)[n - 1] + t[n].spend
      BY <1>2, <1>3, <1>6, CostsAre
    <3>3. pass.used = n /\ pass.spent = Costs(Cursor)[n]
      BY <1>2, <1>3 DEF HasBilled
    <3>4. pass.spent + r.spend = Costs(t)[n]
      BY <1>6, <1>7, <3>1, <3>2, <3>3
    <3> QED
      BY <1>4, <2>1, <2>2, <3>3, <3>4 DEF HasBilled
  <2>5. CASE q.pc = "consult"
    <3>1. <<q.e, q.a>> = KeyAfter(t[n])
      BY <1>1, <1>6, <1>9, <2>1, <2>5 DEF KeyAfter, NextEffect, NextAttempt, Working
    <3>2. Here' = KeyAfter(t[n])
      BY <2>1, <3>1 DEF Here
    <3>3. AtFrontier(t, Here') /\ Behind(t) = n
      BY <1>6, <1>7, <3>2 DEF AtFrontier, Behind, Dispositions
    <3>4. pass'.pc = "consult" /\ ~Consulting'
      BY <1>1, <2>1, <2>2, <2>3, <2>5 DEF Consulting
    <3> QED
      BY <1>4, <1>5, <2>4, <3>3, <3>4 DEF Followed, ReadsItsHistory, Working
  <2>6. CASE q.pc \in Working
    <3>1. q.e = pass.e /\ q.a = pass.a
      BY <1>9, <2>1, <2>6 DEF NextEffect, NextAttempt, Working
    <3>2. Here' = Here /\ pass'.pc \in Working /\ pass'.pc # "consult" /\ pass'.pc # "gate"
      BY <2>1, <2>6, <3>1 DEF Here, Working
    <3> QED
      BY <1>4, <1>5, <1>6, <2>3, <2>4, <3>2 DEF Followed, ReadsItsHistory, Consulting, AtEdge
  <2> QED
    BY <1>5, <1>4, <1>9, <2>1, <2>5, <2>6 DEF NextEffect, NextAttempt
<1> QED
  BY <1>4, <1>5, <1>8, <1>9

LEMMA RecordIsInOrder ==
    ASSUME DispatchInv, Followed, NothingPrepaid', setting' = setting, RecordOutcome
    PROVE  Followed' /\ (Unbroken(Cursor) => Unbroken(Cursor'))
<1>1. pass # None /\ pass.pc = "record" /\ pass.pc \in Working
  BY DEF RecordOutcome, At, Working
<1>2. UnderWay /\ setting \in Settings /\ pass \in Passes /\ Here \in Keys
  BY <1>1, AtWork
<1>3. pass.call \in Calls
  BY <1>1, <1>2 DEF UnderWay
<1>4. PICK d \in Dispositions, perm \in BOOLEAN, spend \in Nat :
        d = pass.call.says /\ perm = pass.call.perm /\ spend = Spend(d)
  BY <1>3 DEF Calls, Spend
<1>5. PICK r : r = Rec(IF d = "Done" THEN "EffectDone" ELSE "EffectFailed", Here, d, perm, spend)
  OBVIOUS
<1>6. PICK p : p = [Bill(pass, 0, spend) EXCEPT !.call = None]
  OBVIOUS
<1>7. /\ journal' = Append(journal, r)
      /\ pass' = CASE d = "Done" -> Answered(p)
                   [] d = "InDoubt" /\ Declared(Here).recovery = "Reconcile" -> [p EXCEPT !.pc = "probe"]
                   [] OTHER -> FailedVerdict(p, d, perm)
  BY <1>4, <1>5, <1>6 DEF RecordOutcome, Write
<1>8. p \in Passes /\ Keeps(pass, p) /\ p.e = pass.e /\ p.a = pass.a
  BY <1>2, <1>6, BilledFor, ZenonT(30)
<1>9. /\ r \in Records /\ RecordOK(r) /\ r.kind \in Outcomes /\ r.key = Here /\ StateSaid(r) = d
      /\ r.spend = spend
  <2>1. Here \in Nat \X Nat
    BY <1>2, KeyIs
  <2> QED
    BY <1>2, <1>4, <1>5, <2>1 DEF Rec, Records, RecordOK, OfEffects, Outcomes, StateSaid
<1>10. p.used = pass.used /\ p.spent = pass.spent + r.spend
  <2>1. PICK x : x = Bill(pass, 0, spend)
    OBVIOUS
  <2>2. x \in Passes /\ x.used = pass.used /\ x.spent = pass.spent + spend
    <3>1. Keeps(pass, x) /\ pass.used \in Nat
      BY <1>2, <2>1, Billed DEF Passes
    <3>2. x.used = pass.used + 0 /\ x.spent = pass.spent + spend
      BY <1>2, <2>1 DEF Bill, Passes
    <3> QED
      BY <3>1, <3>2 DEF Keeps
  <2> QED
    BY <1>6, <1>9, <2>1, <2>2 DEF Passes
<1>11. CASE d = "Done"
  <2>1. pass' = Answered(p)
    BY <1>7, <1>11
  <2>2. Ended(p, pass') \/ NextEffect(p, pass')
    BY <1>8, <2>1, StepsOfAPass
  <2>3. SameBill(p, pass')
    BY <1>8, <2>1, VerdictsBillNothing
  <2> QED
    BY <1>1, <1>7, <1>8, <1>9, <1>10, <1>11, <2>2, <2>3, OutcomeIsFollowed
<1>12. CASE d = "InDoubt" /\ Declared(Here).recovery = "Reconcile"
  <2>1. pass' = [p EXCEPT !.pc = "probe"]
    BY <1>7, <1>12
  <2>2. Keeps(p, pass') /\ pass'.pc \in Working /\ pass'.e = p.e /\ pass'.a = p.a
    BY <1>8, <2>1 DEF Keeps, Passes, Working
  <2>3. SameBill(p, pass')
    BY <1>8, <2>1, VerdictsBillNothing
  <2> QED
    BY <1>1, <1>7, <1>8, <1>9, <1>10, <2>2, <2>3, OutcomeIsFollowed
<1>13. CASE d # "Done" /\ ~(d = "InDoubt" /\ Declared(Here).recovery = "Reconcile")
  <2>1. pass' = FailedVerdict(p, d, perm) /\ d \in {"Landed", "InDoubt", "DidNotHappen"} /\ Here = <<p.e, p.a>>
    BY <1>7, <1>8, <1>13 DEF Dispositions, Here
  <2>2. Ended(p, pass') \/ NextAttempt(p, pass')
    BY <1>2, <1>8, <2>1, Judged
  <2>3. SameBill(p, pass')
    BY <1>8, <2>1, VerdictsBillNothing
  <2> QED
    BY <1>1, <1>7, <1>8, <1>9, <1>10, <1>13, <2>2, <2>3, OutcomeIsFollowed
<1> QED
  BY <1>11, <1>12, <1>13

LEMMA ProbeIsInOrder ==
    ASSUME DispatchInv, Followed, NothingPrepaid', setting' = setting, Probe
    PROVE  Followed' /\ (Unbroken(Cursor) => Unbroken(Cursor'))
<1>1. pass # None /\ pass.pc \in {"ask", "probe"} /\ pass.pc \in Working
  BY DEF Probe, At, Working
<1>2. PICK d \in {"InDoubt", "Landed", "DidNotHappen"} :
        /\ journal' = Append(journal, Rec("EffectReconciled", Here, d, FALSE, IF d = "Landed" THEN 1 ELSE 0))
        /\ pass' = AfterProbe(pass, d)
  BY DEF Probe, Findings, Write
<1>3. PICK r : r = Rec("EffectReconciled", Here, d, FALSE, IF d = "Landed" THEN 1 ELSE 0)
  OBVIOUS
<1>4. /\ setting \in Settings /\ pass \in Passes /\ Here \in Keys /\ Here = <<pass.e, pass.a>>
      /\ Keeps(pass, pass) /\ pass.spent \in Nat
  BY <1>1, AtWork DEF Here, Keeps, Passes
<1>5. /\ r \in Records /\ RecordOK(r) /\ r.kind \in Outcomes /\ r.key = Here
      /\ StateSaid(r) = (IF d = "Landed" THEN "Done" ELSE d) /\ r.spend = IF d = "Landed" THEN 1 ELSE 0
  <2>1. Here \in Nat \X Nat
    BY <1>4, KeyIs
  <2> QED
    BY <1>3, <1>4, <2>1 DEF Rec, Records, RecordOK, OfEffects, Outcomes, StateSaid, Dispositions
<1>6. CASE d = "Landed"
  <2>1. PICK p : p = Bill(pass, 0, 1)
    OBVIOUS
  <2>2. Keeps(pass, p) /\ p.e = pass.e /\ p.a = pass.a /\ p \in Passes
    <3>1. Keeps(pass, p) /\ p.e = pass.e /\ p.a = pass.a
      BY <1>4, <2>1, Billed
    <3> QED
      BY <3>1 DEF Keeps
  <2>3. pass' = Answered(p)
    BY <1>2, <1>6, <2>1 DEF AfterProbe
  <2>4. Ended(p, pass') \/ NextEffect(p, pass')
    BY <2>2, <2>3, StepsOfAPass
  <2>5. p.used = pass.used /\ p.spent = pass.spent + r.spend /\ SameBill(p, pass')
    <3>1. p.used = pass.used /\ p.spent = pass.spent + 1
      BY <1>4, <2>1 DEF Bill, Passes
    <3> QED
      BY <1>5, <1>6, <2>2, <2>3, <3>1, VerdictsBillNothing
  <2> QED
    BY <1>1, <1>2, <1>3, <1>5, <1>6, <2>2, <2>4, <2>5, OutcomeIsFollowed
<1>7. CASE d # "Landed"
  <2>1. pass.used = pass.used /\ pass.spent = pass.spent + r.spend /\ StateSaid(r) # "Done"
    BY <1>4, <1>5, <1>7
  <2>2. CASE pass.pc = "ask" /\ d = "DidNotHappen"
    <3>1. pass' = [pass EXCEPT !.pc = "act"]
      BY <1>2, <2>2 DEF AfterProbe
    <3>2. Keeps(pass, pass') /\ pass'.pc \in Working /\ pass'.e = pass.e /\ pass'.a = pass.a
      BY <1>4, <3>1 DEF Keeps, Passes, Working
    <3>3. SameBill(pass, pass')
      BY <1>4, <3>1, VerdictsBillNothing
    <3> QED
      BY <1>1, <1>2, <1>3, <1>4, <1>5, <2>1, <3>2, <3>3, OutcomeIsFollowed
  <2>3. CASE pass.pc = "ask" /\ d = "InDoubt"
    <3>1. Ended(pass, pass')
      BY <1>2, <1>4, <2>3, StepsOfAPass DEF AfterProbe, Statuses
    <3> QED
      BY <1>1, <1>2, <1>3, <1>4, <1>5, <3>1, OutcomeIsFollowed
  <2>4. CASE pass.pc = "probe"
    <3>1. pass' = FailedVerdict(pass, d, FALSE)
      BY <1>2, <1>7, <2>4 DEF AfterProbe
    <3>2. Ended(pass, pass') \/ NextAttempt(pass, pass')
      BY <1>4, <1>7, <3>1, Judged
    <3>3. SameBill(pass, pass')
      BY <1>4, <3>1, VerdictsBillNothing
    <3> QED
      BY <1>1, <1>2, <1>3, <1>4, <1>5, <2>1, <3>2, <3>3, OutcomeIsFollowed
  <2> QED
    BY <1>1, <1>7, <2>2, <2>3, <2>4
<1> QED
  BY <1>6, <1>7

\* A record about no effect, when no pass is left.
LEMMA EndingsAreInOrder ==
    ASSUME DispatchInv, Followed, NothingPrepaid', setting' = setting,
           Conclude \/ \E decision \in {"Reopen", "Abandon"} : DecideQuarantine(decision)
    PROVE  Followed' /\ Cursor' = Cursor
<1>1. pass' = None
  BY DEF Conclude, DecideQuarantine
<1>2. CASE journal' = journal
  <2>1. Cursor' = Cursor /\ InCallOrder(Cursor')
    BY <1>2 DEF Cursor, Followed
  <2> QED
    BY <1>1, <1>2, <2>1, NothingToFollow
<1>3. CASE \E r \in Records : RecordOK(r) /\ r.kind \notin OfEffects /\ journal' = Append(journal, r)
  <2>1. PICK r \in Records : RecordOK(r) /\ r.kind \notin OfEffects /\ journal' = Append(journal, r)
    BY <1>3
  <2>2. Cursor' = Cursor
    BY <2>1, NotesChangeNothing DEF DispatchInv, TypeOK, Journalled
  <2>3. InCallOrder(Cursor')
    BY <2>2 DEF Followed
  <2> QED
    BY <1>1, <2>1, <2>2, <2>3, NothingToFollow
<1>4. CASE journal' # journal /\ Conclude
  <2>1. PICK r : r = Rec("RunConcluded", <<pass.used, pass.spent>>, pass.status, pass.diverged, 0)
    OBVIOUS
  <2>2. journal' = Append(journal, r)
    BY <1>4, <2>1 DEF Conclude, Write
  <2>3. pass \in Passes /\ pass.status # None
    BY <1>4, Running DEF Conclude, At
  <2>4. pass.status \in Statuses /\ pass.used \in Nat /\ pass.spent \in Nat /\ pass.diverged \in BOOLEAN
    BY <2>3 DEF Passes
  <2>5. r \in Records /\ RecordOK(r) /\ r.kind \notin OfEffects
    BY <2>1, <2>4 DEF Rec, Records, RecordOK, OfEffects, Outcomes
  <2> QED
    BY <1>3, <2>2, <2>5
<1>5. CASE \E decision \in {"Reopen", "Abandon"} : DecideQuarantine(decision)
  <2>1. PICK decision \in {"Reopen", "Abandon"} : DecideQuarantine(decision)
    BY <1>5
  <2>2. PICK r : r = Plain("QuarantineDecided", None, decision)
    OBVIOUS
  <2>3. journal' = Append(journal, r)
    BY <2>1, <2>2 DEF DecideQuarantine, Write
  <2>4. r \in Records /\ RecordOK(r) /\ r.kind \notin OfEffects
    BY <2>2 DEF Plain, Rec, Records, RecordOK, OfEffects, Outcomes
  <2> QED
    BY <1>3, <2>3, <2>4
<1> QED
  BY <1>2, <1>4, <1>5

\* What is listed as undecided is an orphan or in doubt.
LEMMA UndecidedIsOpen ==
    ASSUME DispatchInv, EvidenceInv, DoubtsMutate, NEW k \in UndecidedEffects, NEW old \in Known, old.key = k
    PROVE  old.state \in {"Orphan", "InDoubt"}
<1>1. Guarded(k) \/ Unprobed(k)
  BY DEF DoubtsMutate, Guarded, Unprobed
<1>2. CASE Guarded(k)
  BY <1>2 DEF DispatchInv, DoubtsAreSlots, UndecidedEffects
<1>3. CASE Unprobed(k)
  BY <1>3 DEF EvidenceInv, AttemptsAreTold, IsTold, UndecidedEffects
<1> QED
  BY <1>1, <1>2, <1>3

\* A history that leads on unbroken has what a pass asks for.
LEMMA ReadsWhatItAsks ==
    ASSUME DispatchInv, Followed, Unbroken(Cursor), pass # None, pass.pc = "consult", ~Exhausted
    PROVE  NextSlot.key = Here
<1>1. pass.slots = Cursor /\ Here = Asked(Cursor, pass.pos) /\ Cursor \in Seq(Slots) /\ InCallOrder(Cursor)
  BY DEF Followed, ReadsItsHistory, Consulting, DispatchInv, CursorIsSound
<1>2. PICK n \in Nat, i \in Nat : n = Len(Cursor) /\ i = pass.pos /\ i < n
  <2>1. pass.pos \in 0 .. Len(Cursor) /\ ~(pass.pos >= Len(Cursor)) /\ Len(Cursor) \in Nat
    BY <1>1, Running DEF Exhausted
  <2> QED
    BY <2>1
<1>3. NextSlot = Cursor[i + 1] /\ Here = Asked(Cursor, i)
  BY <1>1, <1>2 DEF NextSlot
<1>4. CASE i = 0
  <2>1. Cursor # <<>> /\ NextSlot = Cursor[1]
    BY <1>1, <1>2, <1>3, <1>4
  <2>2. Here = <<1, 1>>
    BY <1>3, <1>4 DEF Asked
  <2>3. Cursor[1].key = <<1, 1>>
    BY <1>1, <2>1 DEF InCallOrder
  <2> QED
    BY <2>1, <2>2, <2>3
<1>5. CASE i # 0
  <2>1. i \in 1 .. Len(Cursor) - 1
    BY <1>2, <1>5
  <2> QED
    BY <1>3, <1>5, <2>1 DEF Asked, Unbroken
<1> QED
  BY <1>4, <1>5

\* An operator's answer keeps the order, and where each position leads, or
\* settles as landed an attempt the run had gone past.
LEMMA AnswerIsInOrder ==
    ASSUME DispatchInv, EvidenceInv, SlotsAreOpened, DoubtsMutate, Followed, NothingPrepaid',
           setting' = setting, NEW k \in Keys, ReconcileEffect(k)
    PROVE  /\ Followed'
           /\ Unbroken(Cursor) => Unbroken(Cursor') \/ SettledBehindRetry'
<1>1. PICK d \in {"Landed", "DidNotHappen"} : d = IF world[k] > 0 THEN "Landed" ELSE "DidNotHappen"
  OBVIOUS
<1>2. PICK r : r = Plain("EffectReconciled", k, d)
  OBVIOUS
<1>3. pass' = None /\ k \in UndecidedEffects /\ journal' = Append(journal, r)
  BY <1>1, <1>2 DEF ReconcileEffect, Write
<1>4. setting \in Settings /\ journal \in Seq(Records) /\ Cursor \in Seq(Slots) /\ InCallOrder(Cursor)
  BY DEF DispatchInv, TypeOK, CursorIsSound, Followed
<1>5. /\ r \in Records /\ RecordOK(r) /\ r.kind = "EffectReconciled" /\ r.kind \in Outcomes
      /\ r.key = k /\ r.says = d /\ StateSaid(r) = IF d = "Landed" THEN "Done" ELSE d
  <2>1. k \in Nat \X Nat
    BY <1>4, KeyIs
  <2> QED
    BY <1>2, <2>1 DEF Plain, Rec, Records, RecordOK, OfEffects, Outcomes, Dispositions, StateSaid
<1>6. PICK old \in Known : old.key = k
  BY <1>3 DEF DispatchInv, DoubtsAreSlots, CursorIsSound
<1>7. PICK m \in DOMAIN Cursor : Cursor[m] = old
  BY <1>6 DEF Known, ToSet
<1>8. old.state \in {"Orphan", "InDoubt"}
  BY <1>3, <1>6, UndecidedIsOpen
<1>9. PICK t : t = Cursor'
  OBVIOUS
<1>10. /\ InCallOrder(t)
       /\ m = Len(Cursor) \/ StateSaid(r) # "Done" => (Unbroken(Cursor) => Unbroken(t))
  BY <1>3, <1>4, <1>5, <1>6, <1>7, <1>8, <1>9, OutcomeIsInOrder
<1>11. Followed'
  BY <1>3, <1>9, <1>10, NothingToFollow
<1>12. CASE m = Len(Cursor) \/ d # "Landed"
  BY <1>5, <1>9, <1>10, <1>11, <1>12
<1>13. CASE m # Len(Cursor) /\ d = "Landed"
  <2>1. PICK n \in Nat : n = Len(journal) /\ DOMAIN journal = 1 .. n
    BY <1>4
  <2>2. PICK j : j = journal'
    OBVIOUS
  <2>3. DOMAIN j = 1 .. n + 1 /\ j[n + 1] = r /\ \A i \in 1 .. n : j[i] = journal[i]
    BY <1>3, <1>4, <2>1, <2>2
  <2>4. m \in 1 .. Len(Cursor) - 1 /\ m + 1 \in DOMAIN Cursor
    BY <1>4, <1>13
  <2>5. LeadsTo(old, Cursor[m + 1].key) /\ Cursor[m + 1] \in Known
    BY <1>4, <1>7, <2>4 DEF InCallOrder, Known, ToSet
  <2>6. Cursor[m + 1].key = <<k[1], k[2] + 1>>
    BY <1>6, <1>8, <2>5 DEF LeadsTo, KeyAfter
  <2>7. PICK i \in 1 .. n : journal[i].kind \in OfEffects \ Outcomes /\ journal[i].key = <<k[1], k[2] + 1>>
    BY <2>1, <2>5, <2>6 DEF SlotsAreOpened
  <2>8. i \in 1 .. n + 1 /\ n + 1 \in 1 .. n + 1 /\ i < n + 1 /\ j[i] = journal[i]
    BY <2>1, <2>3
  <2>9. k[2] \in Nat /\ journal[i].key[1] = k[1] /\ journal[i].key[2] = k[2] + 1
    BY <1>4, <2>7, KeyIs
  <2>10. SettledBehindRetry'
    <3>1. j[n + 1].key[1] = j[i].key[1] /\ j[n + 1].key[2] < j[i].key[2]
      BY <1>5, <2>3, <2>8, <2>9
    <3>2. j[n + 1].kind = "EffectReconciled" /\ j[n + 1].says = "Landed" /\ j[i].kind \in OfEffects \ Outcomes
      BY <1>5, <1>13, <2>3, <2>7, <2>8
    <3> QED
      BY <2>2, <2>3, <2>8, <3>1, <3>2 DEF SettledBehindRetry, Positions
  <2> QED
    BY <1>11, <2>10
<1> QED
  BY <1>12, <1>13

\* A pass of the same mode that finds no fault of its own.
Agrees(p, q) == q.mode = p.mode /\ (q.mode # "Strict" /\ q.diverged => p.diverged)

\* What is done to a pass, but for a divergence, finds no fault.
LEMMA VerdictsAgree ==
    ASSUME NEW p \in Passes, p.pos \in 0 .. Len(p.slots)
    PROVE  /\ Agrees(p, Answered(p)) /\ Agrees(p, Retries(p)) /\ \A s : Agrees(p, Ends(p, s))
           /\ \A u, v : Agrees(p, Bill(p, u, v))
           /\ \A d, perm : Agrees(p, FailedVerdict(p, d, perm))
           /\ p.mode = "Strict" => Agrees(p, Diverges(p))
<1>1. Agrees(p, Retries(p)) /\ \A s : Agrees(p, Ends(p, s))
  BY DEF Agrees, Retries, Ends, Passes
<1>2. \A u, v : Agrees(p, Bill(p, u, v))
  BY DEF Agrees, Bill, Passes
<1>3. \A d, perm : Agrees(p, FailedVerdict(p, d, perm))
  BY <1>1 DEF FailedVerdict
<1>4. Agrees(p, Answered(p))
  BY DEF Agrees, Answered, Passes
<1>5. p.mode = "Strict" => Agrees(p, Diverges(p))
  BY DEF Agrees, Diverges, Ends, Passes
<1> QED
  BY <1>1, <1>2, <1>3, <1>4, <1>5

\* Only a key that is not the one asked for makes a resumed pass diverge.
LEMMA DivergesOnMismatch ==
    ASSUME DispatchInv, Next, pass' # None, pass'.mode = "Resume", pass'.diverged
    PROVE  (pass # None /\ pass.mode = "Resume" /\ pass.diverged) \/ ReplayDiverges
<1>1. Moves /\ setting' = setting
  BY DEF Next
<1>2. ~(Execute \/ Resume \/ Verify)
  <2>1. \A mode : ~Fresh(mode).diverged /\ \A s : ~Ends(Fresh(mode), s).diverged
    BY DEF Fresh, Ends
  <2> QED
    BY <2>1 DEF Execute, Resume, Verify
<1>3. ~(Crash \/ Conclude \/ RaiseCeiling)
  BY DEF Crash, Conclude, RaiseCeiling
<1>4. CASE \/ SetHalt \/ \E k \in Keys : ReconcileEffect(k)
           \/ \E decision \in {"Reopen", "Abandon"} : DecideQuarantine(decision)
  BY <1>4 DEF SetHalt, ReconcileEffect, DecideQuarantine
<1>5. CASE Step /\ ~Conclude /\ ~ReplayDiverges
  <2>1. pass # None
    BY <1>5 DEF Step, ReplayDone, ReplayDenial, ReplayWithheld, ReplayRefusal, ReplayFailed, ReplayOrphan,
                HistoryEnds, Withhold, Deny, Refuse, Announce, Cleared, Perform, RecordOutcome, FailToRecord,
                Probe, Reads, At
  <2>2. pass \in Passes /\ pass.pos \in 0 .. Len(pass.slots)
    BY <2>1, Running
  <2>3. Agrees(pass, pass') => pass.mode = "Resume" /\ pass.diverged
    BY DEF Agrees
  <2>4. \A x, y, z : Agrees(x, y) /\ Agrees(y, z) => Agrees(x, z)
    BY DEF Agrees
  <2>5. CASE Withhold \/ Deny \/ Refuse
    BY <2>1, <2>2, <2>3, <2>5, VerdictsAgree DEF Withhold, Deny, Refuse
  <2>6. CASE HistoryEnds
    BY <2>1, <2>2, <2>3, <2>6, VerdictsAgree DEF HistoryEnds
  <2>7. CASE Perform
    <3>1. \E call : pass' = [pass EXCEPT !.call = call, !.pc = "record"]
      BY <2>7 DEF Perform
    <3>2. Agrees(pass, pass')
      BY <2>2, <3>1 DEF Agrees, Passes
    <3> QED
      BY <2>1, <2>3, <3>2
  <2>8. CASE Announce
    <3>1. PICK p : p = Bill(pass, 1, 0)
      OBVIOUS
    <3>2. Keeps(pass, p) /\ Agrees(pass, p)
      BY <2>2, <3>1, Billed, VerdictsAgree
    <3>3. pass' = [p EXCEPT !.pc = "act"]
      BY <2>8, <3>1 DEF Announce
    <3>4. Agrees(pass, p) /\ Agrees(p, pass')
      BY <3>2, <3>3 DEF Keeps, Agrees, Passes
    <3> QED
      BY <2>1, <2>3, <2>4, <3>4
  <2>9. CASE RecordOutcome \/ FailToRecord
    <3>1. pass.pc = "record" /\ pass.pc \in Working
      BY <2>9 DEF RecordOutcome, FailToRecord, At, Working
    <3>2. PICK p, d : d = pass.call.says /\ p = [Bill(pass, 0, Spend(d)) EXCEPT !.call = None]
      OBVIOUS
    <3>3. PICK x, spend : spend = Spend(d) /\ x = Bill(pass, 0, spend) /\ p = [x EXCEPT !.call = None]
      BY <3>2
    <3>4. Agrees(pass, p) /\ p \in Passes /\ p.pos \in 0 .. Len(p.slots)
      <4>1. spend \in Nat
        BY <3>3 DEF Spend
      <4>2. Keeps(pass, x) /\ Agrees(pass, x)
        BY <2>2, <3>3, <4>1, Billed, VerdictsAgree
      <4>3. p \in Passes /\ p.mode = x.mode /\ p.diverged = x.diverged /\ p.pos = x.pos /\ p.slots = x.slots
        BY <3>3, <4>2 DEF Keeps, Passes
      <4> QED
        BY <2>2, <4>2, <4>3 DEF Keeps, Agrees
    <3>5. \/ pass' = Answered(p)
          \/ pass' = [p EXCEPT !.pc = "probe"]
          \/ pass' = FailedVerdict(p, d, pass.call.perm)
          \/ pass' = Ends(p, "failed")
      BY <2>9, <3>2 DEF RecordOutcome, FailToRecord
    <3>6. Agrees(p, pass')
      <4>1. CASE pass' = [p EXCEPT !.pc = "probe"]
        BY <3>4, <4>1 DEF Agrees, Passes
      <4> QED
        BY <3>4, <3>5, <4>1, VerdictsAgree
    <3> QED
      BY <2>1, <2>3, <2>4, <3>4, <3>6
  <2>10. CASE Probe
    <3>1. PICK d : pass' = AfterProbe(pass, d)
      BY <2>10 DEF Probe
    <3>2. PICK x : x = Bill(pass, 0, 1)
      OBVIOUS
    <3>3. x \in Passes /\ x.pos = pass.pos /\ x.slots = pass.slots
      <4>1. Keeps(pass, x)
        BY <2>2, <3>2, Billed
      <4> QED
        BY <4>1 DEF Keeps
    <3>4. Agrees(pass, x) /\ Agrees(x, Answered(x))
      BY <2>2, <3>2, <3>3, VerdictsAgree
    <3>5. Agrees(pass, Answered(x))
      BY <2>4, <3>4
    <3>6. Agrees(pass, pass')
      <4>1. \/ pass' = Answered(x) \/ pass' = [pass EXCEPT !.pc = "act"]
            \/ pass' = Ends(pass, "quarantined") \/ pass' = FailedVerdict(pass, d, FALSE)
        BY <3>1, <3>2 DEF AfterProbe
      <4>2. CASE pass' = [pass EXCEPT !.pc = "act"]
        BY <2>2, <4>2 DEF Agrees, Passes
      <4> QED
        BY <2>2, <3>5, <4>1, <4>2, VerdictsAgree
    <3> QED
      BY <2>1, <2>3, <3>6
  <2>11. CASE ReplayDone \/ ReplayDenial \/ ReplayWithheld \/ ReplayRefusal \/ ReplayFailed \/ ReplayOrphan
    <3>1. PICK states : Reads(states)
      BY <2>11, ZenonT(30) DEF ReplayDone, ReplayDenial, ReplayWithheld, ReplayRefusal, ReplayFailed, ReplayOrphan
    <3>2. NextSlot.spend \in Nat /\ pass.pos + 1 \in 1 .. Len(pass.slots)
      BY <3>1, SlotIsRead DEF Slots
    <3>3. PICK p : p \in {Past, Bill(Past, 1, 0), Bill(Past, 1, NextSlot.spend)}
                   /\ \/ pass' = p \/ pass' = Answered(p) \/ pass' = Retries(p)
                      \/ \E s : pass' = Ends(p, s)
                      \/ \E pc : pass' = [p EXCEPT !.pc = pc]
                      \/ p.mode = "Strict" /\ pass' = Diverges(p)
      <4>1. CASE ReplayDone
        BY <4>1 DEF ReplayDone
      <4>2. CASE ReplayDenial \/ ReplayWithheld \/ ReplayRefusal
        <5>1. pass' = Past \/ \E s : pass' = Ends(Past, s)
          BY <2>2, <3>2, <4>2 DEF ReplayDenial, ReplayWithheld, ReplayRefusal
        <5> QED
          BY <5>1
      <4>3. CASE ReplayFailed
        <5>1. PICK p : p = Bill(Past, 1, NextSlot.spend)
          OBVIOUS
        <5>2. pass' = Retries(p) \/ (\E s : pass' = Ends(p, s)) \/ (p.mode = "Strict" /\ pass' = Diverges(p))
          BY <4>3, <5>1 DEF ReplayFailed
        <5> QED
          BY <5>1, <5>2
      <4>4. CASE ReplayOrphan
        <5>1. PICK p : p = Bill(Past, 1, 0)
          OBVIOUS
        <5>2. (\E s : pass' = Ends(p, s)) \/ \E pc : pass' = [p EXCEPT !.pc = pc]
          BY <4>4, <5>1 DEF ReplayOrphan
        <5> QED
          BY <5>1, <5>2
      <4> QED
        BY <2>11, <4>1, <4>2, <4>3, <4>4
    <3>4. Consumed(p) /\ Consumed(Past)
      BY <3>1, <3>2, <3>3, Consuming
    <3>5. /\ p \in Passes /\ p.pos \in 0 .. Len(p.slots)
          /\ Past \in Passes /\ Past.pos \in 0 .. Len(Past.slots)
      BY <3>2, <3>4 DEF Consumed
    <3>6. Agrees(pass, Past) /\ Agrees(Past, Past)
      BY <2>2 DEF Agrees, Past, Passes
    <3>7. Agrees(pass, p)
      <4>1. Agrees(Past, p)
        <5>1. p = Past \/ \E v : p = Bill(Past, 1, v)
          BY <3>3
        <5> QED
          BY <3>5, <3>6, <5>1, VerdictsAgree
      <4> QED
        BY <2>4, <3>6, <4>1
    <3>8. Agrees(p, pass')
      <4>1. Agrees(p, p)
        BY DEF Agrees
      <4>2. CASE \E pc : pass' = [p EXCEPT !.pc = pc]
        BY <3>5, <4>2 DEF Agrees, Passes
      <4> QED
        BY <3>3, <3>5, <4>1, <4>2, VerdictsAgree
    <3>9. Agrees(pass, pass')
      BY <2>4, <3>7, <3>8
    <3> QED
      BY <2>1, <2>3, <3>9
  <2> QED
    BY <1>5, <2>5, <2>6, <2>7, <2>8, <2>9, <2>10, <2>11 DEF Step
<1> QED
  BY <1>1, <1>2, <1>3, <1>4, <1>5 DEF Moves

\* A step writes at most one record, of the right shape.
LEMMA WritesOneRecord ==
    ASSUME DispatchInv, DispatchInv', Next
    PROVE  journal' = journal \/ \E r \in Records : RecordOK(r) /\ journal' = Append(journal, r)
<1>1. journal \in Seq(Records) /\ JournalOK'
  BY DEF DispatchInv, TypeOK, JournalOK
<1>2. journal' = journal \/ \E r : journal' = Append(journal, r)
  <2>1. Moves
    BY DEF Next
  <2>2. CASE Step
    <3>1. CASE ReplayDone \/ ReplayDiverges \/ ReplayDenial \/ ReplayWithheld
      BY <3>1 DEF ReplayDone, ReplayDiverges, ReplayDenial, ReplayWithheld
    <3>2. CASE ReplayFailed \/ ReplayOrphan \/ HistoryEnds \/ Perform \/ FailToRecord
      BY <3>2, ZenonT(30) DEF ReplayFailed, ReplayOrphan, HistoryEnds, Perform, FailToRecord
    <3>3. CASE ReplayRefusal \/ Withhold \/ Deny \/ Refuse \/ Announce
      BY <3>3 DEF ReplayRefusal, Withhold, Deny, Refuse, Announce, Write
    <3>4. CASE RecordOutcome
      BY <3>4 DEF RecordOutcome, Write
    <3>5. CASE Probe
      BY <3>5 DEF Probe, Write
    <3>6. CASE Conclude
      BY <3>6 DEF Conclude, Write
    <3> QED
      BY <2>2, <3>1, <3>2, <3>3, <3>4, <3>5, <3>6 DEF Step
  <2>3. CASE Execute \/ Resume \/ Verify \/ Crash \/ RaiseCeiling \/ SetHalt
    BY <2>3 DEF Execute, Resume, Verify, Crash, RaiseCeiling, SetHalt
  <2>4. CASE \E k \in Keys : ReconcileEffect(k)
    BY <2>4 DEF ReconcileEffect, Write
  <2>5. CASE \E decision \in {"Reopen", "Abandon"} : DecideQuarantine(decision)
    BY <2>5 DEF DecideQuarantine, Write
  <2> QED
    BY <2>1, <2>2, <2>3, <2>4, <2>5 DEF Moves
<1>3. ASSUME NEW r, journal' = Append(journal, r)
      PROVE  r \in Records /\ RecordOK(r)
  <2>1. PICK j : j = journal'
    OBVIOUS
  <2>2. Len(journal) \in Nat /\ Len(journal) + 1 \in DOMAIN j /\ j[Len(journal) + 1] = r
    BY <1>1, <1>3, <2>1
  <2>3. r \in Records /\ RecordOK(r)'
    <3>1. j \in Seq(Records) /\ \A i \in DOMAIN j : RecordOK(j[i])'
      BY <1>1, <2>1 DEF JournalOK
    <3> QED
      BY <2>2, <3>1
  <2>4. RecordOK(r)' <=> RecordOK(r)
    BY SameProgram DEF Next, RecordOK
  <2> QED
    BY <2>3, <2>4
<1> QED
  BY <1>2, <1>3

-----------------------------------------------------------------------------
(* What reaches the world, and what is told of it *)

\* A run just admitted has no effects on record.
LEMMA InitIsSound ==
    ASSUME Init
    PROVE  DispatchInv
<1>1. PICK r : r = Plain("RunAdmitted", None, None)
  OBVIOUS
<1>2. r \in Records /\ RecordOK(r) /\ r.kind = "RunAdmitted"
  BY <1>1 DEF Plain, Rec, Records, RecordOK, OfEffects, Outcomes
<1>3. setting \in Settings /\ journal = <<r>> /\ pass = None /\ world = [k \in Keys |-> 0] /\ passes = 0
  BY <1>1 DEF Init
<1>4. /\ journal \in Seq(Records) /\ DOMAIN journal = {1} /\ journal[1] = r
      /\ <<>> \in Seq(Records) /\ journal = Append(<<>>, r)
  BY <1>2, <1>3
<1>5. Cursor = <<>>
  <2>1. FromRecords(journal) = Apply(FromRecords(<<>>), r)
    BY <1>2, <1>4, CursorGrows
  <2> QED
    BY <1>2, <2>1, NothingYet DEF Apply, Cursor
<1>6. Listed = [open |-> {}, doubts |-> {}]
  <2>1. PICK empty \in Seq(Records) : empty = <<>> /\ journal = Append(empty, r)
    BY <1>4
  <2>2. Undecided(Mutating, empty)[Len(empty)] = [open |-> {}, doubts |-> {}]
    BY <2>1, NothingYet
  <2>3. Undecided(Mutating, Append(empty, r))[Len(Append(empty, r))]
            = DoubtAfter(Mutating, Undecided(Mutating, empty)[Len(empty)], r)
    BY <1>2, DoubtsGrow
  <2> QED
    BY <1>2, <2>1, <2>2, <2>3 DEF DoubtAfter, Listed
<1>7. Known = {} /\ Cursor \in Seq(Slots) /\ OneSlotPerKey(Cursor) /\ UndecidedEffects = {}
  BY <1>5, <1>6 DEF Known, ToSet, OneSlotPerKey, UndecidedEffects
<1>8. \A k : ~Announced(k) /\ ~HasOutcome(k)
  BY <1>2, <1>4 DEF Announced, Positions, HasOutcome, OutcomeOf, Outcomes
<1>9. TypeOK
  <2>1. ceiling \in setting.ceilings
    BY <1>3, SettingIs, MinIs DEF Init
  <2>2. passes \in 0 .. setting.passes
    BY <1>3, SettingIs
  <2>3. world \in [Keys -> Nat]
    BY <1>3
  <2> QED
    BY <1>2, <1>3, <1>4, <2>1, <2>2, <2>3 DEF TypeOK
<1>10. CursorIsSound /\ CursorHasOutcomes /\ RetriedOnEvidence
  BY <1>7, <1>8 DEF CursorIsSound, CursorHasOutcomes, RetriedOnEvidence
<1>11. DoubtsAreSlots
  BY <1>6, <1>7 DEF DoubtsAreSlots
<1>12. AnnouncedFirst
  BY <1>3 DEF AnnouncedFirst
<1>13. OperatorEffectsLandOnce
  BY <1>3 DEF OperatorEffectsLandOnce, Keys
<1>14. DidNotHappenIsTrue /\ PassIsSound
  BY <1>3, <1>7 DEF DidNotHappenIsTrue, PassIsSound
<1> QED
  BY <1>9, <1>10, <1>11, <1>12, <1>13, <1>14 DEF DispatchInv

\* Every step keeps the invariant.
LEMMA StepsAreSound ==
    ASSUME DispatchInv, [Next]_vars
    PROVE  DispatchInv'
<1>1. CASE UNCHANGED vars
  <2>1. UNCHANGED <<setting, journal, world, pass, ceiling, passes>>
    BY <1>1 DEF vars, execution
  <2> QED
    BY <2>1, SameStateIsSound
<1>2. CASE Next
  <2>1. setting' = setting /\ Moves
    BY <1>2 DEF Next
  <2>2. CASE Execute \/ Resume \/ Verify
    BY <2>1, <2>2, KeptByStarting
  <2>3. CASE Crash \/ RaiseCeiling \/ SetHalt
    BY <2>1, <2>3, KeptByOthers
  <2>4. CASE \E k \in Keys : ReconcileEffect(k)
    BY <2>1, <2>4, KeptByReconcile
  <2>5. CASE \E decision \in {"Reopen", "Abandon"} : DecideQuarantine(decision)
    BY <2>1, <2>5, KeptByDecision
  <2>6. CASE Step
    <3>1. CASE ReplayDone \/ ReplayDenial \/ ReplayFailed
      BY <2>1, <3>1, KeptByReading
    <3>2. CASE ReplayDiverges \/ FailToRecord
      BY <2>1, <3>2, KeptByEnding
    <3>3. CASE Withhold \/ Deny \/ Refuse
      BY <2>1, <3>3, KeptByTheGate
    <3> QED
      BY <2>1, <2>6, <3>1, <3>2, <3>3, KeptByWithheld, KeptByRefusal, KeptByOrphan, KeptByHistoryEnds,
         KeptByAnnounce, KeptByPerform, KeptByRecordOutcome, KeptByProbe, KeptByConclude DEF Step
  <2> QED
    BY <2>1, <2>2, <2>3, <2>4, <2>5, <2>6 DEF Moves
<1> QED
  BY <1>1, <1>2

\* A mutation that repeating could duplicate is called where every outcome on
\* record of its attempts is, last, that the attempt did not happen.
LEMMA CalledOnEvidence ==
    ASSUME DispatchInv
    PROVE  RepeatsOnEvidence
<1> SUFFICES ASSUME pass # None, pass.pc = "act", Guarded(Here)
             PROVE  /\ LastSaid(pass.e) \in {None, "DidNotHappen"}
                    /\ (\E i \in DOMAIN pass.slots : pass.slots[i].key = Here /\ pass.slots[i].state = "Orphan")
                            => Last(journal).kind = "EffectReconciled" /\ Last(journal).says = "DidNotHappen"
  BY DEF RepeatsOnEvidence, At, Guarded
<1>1. /\ Writing /\ UnderWay /\ JustDenied /\ Here \in Keys /\ setting \in Settings
      /\ Here[1] = pass.e /\ Here[2] = pass.a /\ pass.a \in Nat
  BY AtWork DEF Working
<1>2. /\ journal \in Seq(Records) /\ \A i \in DOMAIN journal : RecordOK(journal[i])
  BY DEF DispatchInv, TypeOK
<1> DEFINE said == {i \in DOMAIN journal :
                        /\ journal[i].kind \in {"EffectDone", "EffectFailed", "EffectReconciled"}
                        /\ journal[i].key[1] = pass.e}
<1>3. LastSaid(pass.e) = IF said = {} THEN None ELSE journal[Max(said)].says
  BY DEF LastSaid
<1>4. ASSUME said # {}
      PROVE  journal[Max(said)].says = "DidNotHappen"
  <2>1. PICK n \in Nat : n = Len(journal) /\ DOMAIN journal = 1 .. n
    BY <1>2
  <2>2. said \subseteq 0 .. n
    BY <2>1
  <2>3. PICK m \in said : m = Max(said) /\ \A i \in said : i <= m
    <3> HIDE DEF said
    <3> QED
      BY <1>4, <2>1, <2>2, MaxIs
  <2>4. PICK k : k = journal[m].key
    OBVIOUS
  <2>5. /\ k \in Keys /\ k[1] = pass.e /\ OutcomeOf(m, k) /\ m \in 1 .. n
    BY <1>2, <2>1, <2>3, <2>4, ZenonT(30) DEF RecordOK, OfEffects, Outcomes, OutcomeOf
  <2>6. HasOutcome(k)
    BY <2>1, <2>5 DEF HasOutcome
  <2>7. PICK s \in Known : s.key = k /\ s.state \in Dispositions
    BY <2>5, <2>6 DEF DispatchInv, CursorHasOutcomes
  <2>8. s.state = "DidNotHappen"
    <3>1. k[2] \in Nat /\ k[2] <= pass.a /\ k = <<k[1], k[2]>>
      BY <1>1, <2>5, <2>7, KeyIs DEF UnderWay
    <3>2. CASE k[2] < pass.a
      BY <1>1, <2>5, <2>7, <3>2 DEF Writing, BehindDidNotHappen
    <3>3. CASE k[2] = pass.a
      <4>1. k = Here
        BY <2>5, <3>1, <3>3 DEF Here
      <4>2. PICK t \in Known : t.key = Here /\ (t.state = "Orphan" \/ t.state = "DidNotHappen")
        BY <1>1 DEF UnderWay
      <4>3. t = s
        BY <2>7, <4>1, <4>2 DEF DispatchInv, CursorIsSound, Known, ToSet, OneSlotPerKey
      <4> QED
        BY <2>7, <4>2, <4>3 DEF Dispositions
    <3> QED
      BY <1>1, <3>1, <3>2, <3>3
  <2>9. PICK i \in 1 .. n : /\ OutcomeOf(i, k) /\ journal[i].says = "DidNotHappen"
                            /\ \A j \in 1 .. n : OutcomeOf(j, k) => j <= i
    BY <2>1, <2>7, <2>8 DEF DispatchInv, CursorHasOutcomes, LastDenied
  <2>10. i \in said
    BY <2>1, <2>5, <2>9 DEF OutcomeOf, Outcomes
  <2>11. i <= m /\ m <= i
    BY <2>3, <2>5, <2>9, <2>10
  <2>12. i = m
    BY <2>5, <2>11
  <2> QED
    BY <2>3, <2>9, <2>12
<1>5. LastSaid(pass.e) \in {None, "DidNotHappen"}
  BY <1>3, <1>4
<1>6. (\E i \in DOMAIN pass.slots : pass.slots[i].key = Here /\ pass.slots[i].state = "Orphan")
        => Last(journal).kind = "EffectReconciled" /\ Last(journal).says = "DidNotHappen"
  BY <1>1 DEF JustDenied
<1> QED
  BY <1>5, <1>6

\* Nothing to follow in a run just admitted.
LEMMA InitIsFollowed ==
    ASSUME Init
    PROVE  HistoryInv
<1>1. pass = None /\ DispatchInv
  BY InitIsSound DEF Init
<1>2. PICK r : r = Plain("RunAdmitted", None, None)
  OBVIOUS
<1>3. r \in Records /\ r.kind = "RunAdmitted" /\ journal = <<r>>
  BY <1>2 DEF Plain, Rec, Records, Init
<1>4. <<>> \in Seq(Records) /\ journal = Append(<<>>, r)
  BY <1>3
<1>5. Cursor = <<>>
  <2>1. FromRecords(journal) = Apply(FromRecords(<<>>), r)
    BY <1>3, <1>4, CursorGrows
  <2> QED
    BY <1>3, <2>1, NothingYet DEF Apply, Cursor
<1>6. SlotsAreOpened /\ NothingPrepaid /\ InCallOrder(Cursor) /\ Unbroken(Cursor)
  BY <1>5 DEF SlotsAreOpened, NothingPrepaid, Known, ToSet, InCallOrder, Unbroken
<1>7. DoubtsMutate
  <2>1. \A k : ~Announced(k)
    BY <1>3 DEF Announced, Positions
  <2> QED
    BY <1>1, <2>1 DEF DoubtsMutate, DispatchInv, DoubtsAreSlots
<1> QED
  BY <1>1, <1>6, <1>7 DEF HistoryInv, NeverDiverges, ReadsItsHistory

\* Every step follows the history, which leads on unbroken until an attempt gone
\* past is settled as landed.
LEMMA StepsAreFollowed ==
    ASSUME DispatchInv, EvidenceInv, HistoryInv, [Next]_vars
    PROVE  HistoryInv'
<1>1. CASE UNCHANGED vars
  <2>1. UNCHANGED <<setting, journal, pass>>
    BY <1>1 DEF vars, execution
  <2>2. /\ SlotsAreOpened' /\ NothingPrepaid' /\ DoubtsMutate'
        /\ (SettledBehindRetry <=> SettledBehindRetry') /\ Cursor' = Cursor
    BY <2>1, NoRecordOn DEF HistoryInv
  <2>3. ReadsItsHistory => ReadsItsHistory'
    BY <2>1, <2>2 DEF ReadsItsHistory, Consulting, AtEdge, Exhausted, Here, HasBilled
  <2> QED
    BY <2>1, <2>2, <2>3 DEF HistoryInv, NeverDiverges
<1>2. CASE Next
  <2>1. setting' = setting /\ Moves /\ DispatchInv'
    BY <1>2, StepsAreSound DEF Next
  <2>2. /\ SlotsAreOpened' /\ NothingPrepaid' /\ DoubtsMutate' /\ (SettledBehindRetry => SettledBehindRetry')
        /\ journal' = journal => Cursor' = Cursor
    BY <1>2, <2>1, WritesOneRecord, OneRecordOn, NoRecordOn DEF HistoryInv
  <2>3. Followed
    BY DEF HistoryInv, Followed
  <2>4. Followed' /\ (Unbroken(Cursor) => Unbroken(Cursor') \/ SettledBehindRetry')
    <3>1. CASE \E k \in Keys : ReconcileEffect(k)
      BY <2>1, <2>2, <2>3, <3>1, AnswerIsInOrder DEF HistoryInv
    <3>2. CASE Conclude \/ \E decision \in {"Reopen", "Abandon"} : DecideQuarantine(decision)
      BY <2>1, <2>2, <2>3, <3>2, EndingsAreInOrder
    <3>3. CASE Withhold \/ Deny \/ Refuse \/ Announce
      BY <2>1, <2>2, <2>3, <3>3, GateIsInOrder
    <3>4. CASE Execute \/ Resume \/ Verify
      BY <2>1, <2>2, <2>3, <3>4, StartsInOrder DEF Execute, Resume, Verify
    <3>5. CASE HistoryEnds \/ Perform \/ FailToRecord \/ ReplayDiverges \/ Crash \/ RaiseCeiling \/ SetHalt
      BY <2>1, <2>2, <2>3, <3>5, StayingIsInOrder
         DEF HistoryEnds, Perform, FailToRecord, ReplayDiverges, Crash, RaiseCeiling, SetHalt
    <3>6. CASE ReplayDone \/ ReplayDenial \/ ReplayFailed
      <4>1. journal' = journal
        BY <3>6, ZenonT(30) DEF ReplayDone, ReplayDenial, ReplayFailed
      <4> QED
        BY <2>1, <2>2, <2>3, <3>6, <4>1, ReadingIsInOrder
    <3>7. CASE ReplayWithheld \/ ReplayOrphan
      <4>1. journal' = journal
        BY <3>7, ZenonT(30) DEF ReplayWithheld, ReplayOrphan
      <4> QED
        BY <2>1, <2>2, <2>3, <3>7, <4>1, WithholdingIsInOrder, OrphanIsInOrder
    <3>8. CASE RecordOutcome \/ Probe \/ ReplayRefusal
      BY <2>1, <2>2, <2>3, <3>8, RecordIsInOrder, ProbeIsInOrder, RefusalIsInOrder
    <3> QED
      BY <2>1, <3>1, <3>2, <3>3, <3>4, <3>5, <3>6, <3>7, <3>8 DEF Moves, Step
  <2>5. ASSUME pass' # None, pass'.diverged, pass'.mode = "Resume", ~SettledBehindRetry
        PROVE  FALSE
    <3>1. (pass # None /\ pass.mode = "Resume" /\ pass.diverged) \/ ReplayDiverges
      BY <1>2, <2>5, DivergesOnMismatch
    <3>2. ReplayDiverges
      BY <2>5, <3>1 DEF HistoryInv, NeverDiverges
    <3>3. pass # None /\ pass.pc = "consult" /\ ~Exhausted /\ NextSlot.key # Here
      BY <3>2 DEF ReplayDiverges, At
    <3>4. Unbroken(Cursor)
      BY <2>5 DEF HistoryInv
    <3> QED
      BY <2>3, <3>3, <3>4, ReadsWhatItAsks
  <2> QED
    BY <2>2, <2>4, <2>5 DEF HistoryInv, NeverDiverges, Followed
<1> QED
  BY <1>1, <1>2

-----------------------------------------------------------------------------
(* What a step writes, and what the last records say *)

\* A record concludes a pass that may write, decides about a quarantine, opens
\* the position at the gate, re-admits the one read, or is an outcome of an
\* announced attempt.
Answering == RecordOutcome \/ Probe \/ \E k \in Keys : ReconcileEffect(k)
Writes(r) ==
    \/ /\ Conclude /\ pass.mode # "Strict"
       /\ r = Rec("RunConcluded", <<pass.used, pass.spent>>, pass.status, pass.diverged, 0)
    \/ r.kind = "QuarantineDecided"
    \/ At("gate") /\ \E state : <<r.kind, state>> \in Opening /\ r = Plain(r.kind, Here, None)
    \/ ReplayRefusal /\ r = Plain("BudgetReadmitted", Here, None)
    \/ r.kind \in Outcomes /\ Answering /\ \E old \in Known : old.key = r.key /\ old.state \in Answerable

LEMMA WritesAre ==
    ASSUME DispatchInv, DispatchInv', Next, journal' # journal
    PROVE  \E r \in Records : RecordOK(r) /\ journal' = Append(journal, r) /\ Writes(r)
<1>1. PICK r \in Records : RecordOK(r) /\ journal' = Append(journal, r)
  BY WritesOneRecord
<1>2. ASSUME NEW x, journal' = Append(journal, x)
      PROVE  x = r
  <2>1. PICK j : j = journal'
    OBVIOUS
  <2>2. journal \in Seq(Records) /\ Len(journal) \in Nat
    BY DEF DispatchInv, TypeOK
  <2>3. j[Len(journal) + 1] = r
    BY <1>1, <2>1, <2>2
  <2>4. j[Len(journal) + 1] = x
    BY <1>2, <2>1, <2>2
  <2> QED
    BY <2>3, <2>4
<1>3. Moves
  BY DEF Next
<1>4. ~(Execute \/ Resume \/ Verify \/ Crash \/ RaiseCeiling \/ SetHalt)
  BY DEF Execute, Resume, Verify, Crash, RaiseCeiling, SetHalt
<1>5. ~(ReplayDone \/ ReplayDiverges \/ ReplayDenial \/ ReplayWithheld)
  BY DEF ReplayDone, ReplayDiverges, ReplayDenial, ReplayWithheld
<1>6. ~(ReplayFailed \/ ReplayOrphan \/ HistoryEnds \/ Perform \/ FailToRecord)
  BY ZenonT(30) DEF ReplayFailed, ReplayOrphan, HistoryEnds, Perform, FailToRecord
<1>7. CASE Withhold \/ Deny \/ Refuse \/ Announce
  <2>1. PICK kind, state : <<kind, state>> \in Opening /\ journal' = Append(journal, Plain(kind, Here, None))
    <3>1. /\ <<"AuthorityWithheld", "Withheld">> \in Opening /\ <<"PolicyDenied", "Denied">> \in Opening
          /\ <<"BudgetRefused", "Refused">> \in Opening /\ <<"EffectStarted", "Orphan">> \in Opening
      BY DEF Opening
    <3>2. \E kind \in {"AuthorityWithheld", "PolicyDenied", "BudgetRefused", "EffectStarted"} :
            journal' = Append(journal, Plain(kind, Here, None))
      BY <1>7 DEF Withhold, Deny, Refuse, Announce, Write
    <3> QED
      BY <3>1, <3>2
  <2>2. At("gate")
    BY <1>7 DEF Withhold, Deny, Refuse, Announce, Cleared
  <2>3. r = Plain(kind, Here, None) /\ r.kind = kind
    BY <1>2, <2>1 DEF Plain, Rec
  <2> QED
    BY <1>1, <2>1, <2>2, <2>3 DEF Writes
<1>8. CASE ReplayRefusal
  <2>1. journal' = Append(journal, Plain("BudgetReadmitted", Here, None))
    BY <1>8 DEF ReplayRefusal, Write
  <2> QED
    BY <1>1, <1>2, <1>8, <2>1 DEF Writes
<1>9. CASE RecordOutcome \/ Probe
  <2>1. pass # None /\ pass.pc \in Working
    BY <1>9 DEF RecordOutcome, Probe, At, Working
  <2>2. \E old \in Known : old.key = Here /\ old.state \in Answerable
    BY <2>1, AtWork DEF UnderWay, Working
  <2>3. PICK kind, says, perm, spend :
            kind \in Outcomes /\ journal' = Append(journal, Rec(kind, Here, says, perm, spend))
    <3>1. CASE RecordOutcome
      BY <3>1 DEF RecordOutcome, Write, Outcomes
    <3>2. CASE Probe
      <4>1. PICK d : journal' = Append(journal, Rec("EffectReconciled", Here, d, FALSE, IF d = "Landed" THEN 1 ELSE 0))
        BY <3>2 DEF Probe, Write
      <4>2. "EffectReconciled" \in Outcomes
        BY DEF Outcomes
      <4> QED
        BY <4>1, <4>2
    <3> QED
      BY <1>9, <3>1, <3>2
  <2>4. r = Rec(kind, Here, says, perm, spend)
    BY <1>2, <2>3
  <2>5. r.kind \in Outcomes /\ r.key = Here
    BY <2>3, <2>4 DEF Rec
  <2> QED
    BY <1>1, <1>9, <2>2, <2>5 DEF Writes, Answering
<1>10. CASE Conclude \/ \E decision \in {"Reopen", "Abandon"} : DecideQuarantine(decision)
  <2>1. CASE Conclude
    <3>1. PICK x : x = Rec("RunConcluded", <<pass.used, pass.spent>>, pass.status, pass.diverged, 0)
      OBVIOUS
    <3>2. pass.mode # "Strict" /\ journal' = Append(journal, x)
      BY <2>1, <3>1 DEF Conclude, Write
    <3> QED
      BY <1>1, <1>2, <2>1, <3>1, <3>2 DEF Writes
  <2>2. CASE ~Conclude
    <3>1. PICK x, decision : x = Plain("QuarantineDecided", None, decision) /\ journal' = Append(journal, x)
      BY <1>10, <2>2 DEF DecideQuarantine, Write
    <3>2. r.kind = "QuarantineDecided"
      BY <1>2, <3>1 DEF Plain, Rec
    <3> QED
      BY <1>1, <3>2 DEF Writes
  <2> QED
    BY <2>1, <2>2
<1>11. CASE \E k \in Keys : ReconcileEffect(k)
  <2>1. PICK k \in Keys : ReconcileEffect(k)
    BY <1>11
  <2>2. PICK says : journal' = Append(journal, Plain("EffectReconciled", k, says))
    BY <2>1 DEF ReconcileEffect, Write
  <2>3. \E old \in Known : old.key = k /\ old.state \in Answerable
    BY <2>1 DEF ReconcileEffect, DispatchInv, DoubtsAreSlots, CursorIsSound
  <2>4. r.kind = "EffectReconciled" /\ r.key = k
    BY <1>2, <2>2 DEF Plain, Rec
  <2> QED
    BY <1>1, <1>11, <2>3, <2>4 DEF Writes, Answering, Outcomes
<1> QED
  BY <1>3, <1>4, <1>5, <1>6, <1>7, <1>8, <1>9, <1>10, <1>11 DEF Moves, Step

-----------------------------------------------------------------------------
(* Refusals do not stack *)

\* One more record is counted once, where it belongs.
LEMMA CountsGrow ==
    ASSUME journal \in Seq(Records), NEW r \in Records, journal' = Append(journal, r), NEW kind, NEW k
    PROVE  /\ Count(kind, k) \in Nat
           /\ Count(kind, k)' = Count(kind, k) + (IF r.kind = kind /\ r.key = k THEN 1 ELSE 0)
<1>1. PICK n \in Nat : n = Len(journal) /\ DOMAIN journal = 1 .. n
  OBVIOUS
<1>2. PICK j : j = journal'
  OBVIOUS
<1>3. DOMAIN j = 1 .. n + 1 /\ j[n + 1] = r /\ \A i \in 1 .. n : j[i] = journal[i]
  BY <1>1, <1>2
<1>4. PICK T : T = {i \in 1 .. n : journal[i].kind = kind /\ journal[i].key = k}
  OBVIOUS
<1>5. Count(kind, k) = Cardinality(T)
  <2>1. T = {i \in Positions(kind) : journal[i].key = k}
    BY <1>1, <1>4 DEF Positions
  <2> QED
    BY <2>1 DEF Count
<1>6. IsFiniteSet(T) /\ Cardinality(T) \in Nat /\ n + 1 \notin T
  <2>1. IsFiniteSet(1 .. n) /\ T \in SUBSET (1 .. n)
    BY <1>4, FS_Interval
  <2>2. IsFiniteSet(T)
    BY <2>1, FS_Subset, Zenon
  <2>3. Cardinality(T) \in Nat
    BY <2>2, FS_CardinalityType, Zenon
  <2>4. n + 1 \notin T
    BY <2>1
  <2> QED
    BY <2>2, <2>3, <2>4
<1>7. Count(kind, k)' = Cardinality(IF r.kind = kind /\ r.key = k THEN T \cup {n + 1} ELSE T)
  <2>1. {i \in 1 .. n + 1 : j[i].kind = kind /\ j[i].key = k}
            = IF r.kind = kind /\ r.key = k THEN T \cup {n + 1} ELSE T
    BY <1>3, <1>4
  <2>2. {i \in Positions(kind)' : j[i].key = k} = {i \in 1 .. n + 1 : j[i].kind = kind /\ j[i].key = k}
    BY <1>2, <1>3 DEF Positions
  <2> QED
    BY <1>2, <2>1, <2>2 DEF Count
<1>8. Cardinality(T \cup {n + 1}) = Cardinality(T) + 1
  BY <1>6, FS_AddElement
<1> QED
  BY <1>5, <1>6, <1>7, <1>8

\* Which positions stand refused, one record on.
LEMMA RefusalsMove ==
    ASSUME DispatchInv, DispatchInv', setting' = setting,
           NEW r \in Records, RecordOK(r), journal' = Append(journal, r), Writes(r), NEW k \in Keys
    PROVE  /\ r.kind = "BudgetRefused" /\ r.key = k => ~Refusing(k) /\ Refusing(k)'
           /\ r.kind = "BudgetReadmitted" /\ r.key = k => Refusing(k) /\ ~Refusing(k)'
           /\ ~(r.kind \in {"BudgetRefused", "BudgetReadmitted"} /\ r.key = k) => (Refusing(k)' <=> Refusing(k))
<1>1. /\ setting \in Settings /\ journal \in Seq(Records) /\ Journalled
      /\ Cursor \in Seq(Slots) /\ OneSlotPerKey(Cursor)
  BY DEF DispatchInv, TypeOK, CursorIsSound, Journalled
<1>2. CASE r.kind \notin OfEffects
  <2>1. Known' = Known
    BY <1>1, <1>2, NotesChangeNothing
  <2> QED
    BY <1>2, <2>1 DEF Refusing, OfEffects
<1>3. CASE At("gate") /\ \E state : <<r.kind, state>> \in Opening /\ r = Plain(r.kind, Here, None)
  <2>1. PICK kind, state : kind = r.kind /\ <<kind, state>> \in Opening /\ r = Plain(kind, Here, None)
    BY <1>3
  <2>2. Gated
    BY <1>3, AtTheGate DEF At
  <2>3. r.key = Here /\ Here \in Keys /\ \A s \in Known : s.key = Here => s.state = "Withheld"
    BY <2>1, <2>2 DEF Plain, Rec, Gated, Writing
  <2>4. Known' = {s \in Known : s.key # Here} \cup {Slot(Here, state, FALSE, 0)}
    <3>1. Guarded(Here) => \A s \in Known : s.key[1] = Here[1] /\ s.key # Here =>
                                s.key[2] < Here[2] /\ s.state = "DidNotHappen"
      BY <2>2 DEF Gated
    <3> QED
      BY <1>1, <2>1, <2>3, <3>1, OpenedSoundly
  <2>5. PICK x : x = Slot(Here, state, FALSE, 0)
    OBVIOUS
  <2>8. x.key = Here /\ x.state = state
    BY <2>5 DEF Slot
  <2>6. kind = "BudgetRefused" <=> state = "Refused"
    BY <2>1 DEF Opening
  <2>7. kind # "BudgetReadmitted"
    BY <2>1 DEF Opening
  <2> QED
    BY <2>1, <2>3, <2>4, <2>5, <2>6, <2>7, <2>8 DEF Refusing
<1>4. CASE ReplayRefusal /\ r = Plain("BudgetReadmitted", Here, None)
  <2>1. Reads({"Refused"}) /\ WritesEnabled(Past) /\ pass # None
    <3>1. journal' # journal
      <4>1. Len(journal) \in Nat /\ Len(Append(journal, r)) = Len(journal) + 1
        BY <1>1
      <4> QED
        BY <4>1
    <3> QED
      BY <1>4, <3>1 DEF ReplayRefusal, Reads, At
  <2>2. pass.mode # "Strict" /\ Here \in Keys
    <3>1. pass \in Passes /\ Here \in Keys
      BY <2>1, Running
    <3> QED
      BY <2>1, <3>1, MovedPast DEF WritesEnabled
  <2>3. NextSlot \in Known /\ NextSlot.key = Here /\ NextSlot.state = "Refused"
    BY <2>1, <2>2, SlotIsRead DEF Reads
  <2>4. Known' = {s \in Known : ~(s.key = Here /\ s.state \in {"Withheld", "Refused"})}
    BY <1>1, <1>4, <2>2, ReadmittedSoundly
  <2>5. r.kind = "BudgetReadmitted" /\ r.key = Here
    BY <1>4 DEF Plain, Rec
  <2> QED
    BY <2>3, <2>4, <2>5 DEF Refusing
<1>5. CASE r.kind \in Outcomes /\ \E old \in Known : old.key = r.key /\ old.state \in Answerable
  <2>1. PICK old \in Known : old.key = r.key /\ old.state \in Answerable
    BY <1>5
  <2>2. r.key \in Nat \X Nat /\ r.perm \in BOOLEAN /\ r.spend \in Nat /\ StateSaid(r) \in Dispositions
    <3>1. r.key \in Keys /\ r.says \in Dispositions
      BY <1>5 DEF RecordOK, OfEffects
    <3> QED
      BY <1>1, <3>1, KeyIs DEF Records, StateSaid, Dispositions
  <2>3. PICK perm \in BOOLEAN : Cursor' = Settle(Cursor, r.key, StateSaid(r), perm, r.spend)
    <3>1. Cursor' = Apply(Cursor, r)
      BY <1>1, RecordsGrow
    <3> QED
      BY <1>5, <2>2, <3>1 DEF Apply, StateSaid, Outcomes
  <2>4. PICK x : x = Slot(r.key, StateSaid(r), perm, r.spend + old.spend)
    OBVIOUS
  <2>5. Known' = {s \in Known : s.key # r.key} \cup {x}
    <3>1. PICK slots \in Seq(Slots) : slots = Cursor /\ OneSlotPerKey(slots) /\ old \in ToSet(slots)
      BY <1>1, <2>1 DEF Known
    <3>2. PICK key \in Nat \X Nat, state \in States, spend \in Nat :
            key = r.key /\ state = StateSaid(r) /\ spend = r.spend
      BY <2>2 DEF Dispositions, States
    <3>3. ToSet(Settle(slots, key, state, perm, spend)) =
                {s \in ToSet(slots) : s.key # key} \cup {Slot(key, state, perm, spend + old.spend)}
      <4>1. slots \in Seq(Slots) /\ OneSlotPerKey(slots) /\ old \in ToSet(slots)
        BY <3>1
      <4>2. key \in Nat \X Nat /\ state \in States /\ spend \in Nat /\ perm \in BOOLEAN
        BY <2>3, <3>2
      <4>3. old.key = key
        BY <2>1, <3>2
      <4> QED
        BY <4>1, <4>2, <4>3, SettleIs
    <3> QED
      BY <2>3, <2>4, <3>1, <3>2, <3>3 DEF Known
  <2>6. x.state # "Refused"
    BY <2>2, <2>4 DEF Slot, Dispositions
  <2>7. \A s \in Known : s.key = r.key => s.state # "Refused"
    <3>1. \A s \in Known : s.key = r.key => s = old
      BY <1>1, <2>1 DEF Known, ToSet, OneSlotPerKey
    <3> QED
      BY <2>1, <3>1 DEF Answerable, Dispositions
  <2>8. r.kind \notin {"BudgetRefused", "BudgetReadmitted"}
    BY <1>5 DEF Outcomes
  <2> QED
    BY <2>5, <2>6, <2>7, <2>8 DEF Refusing
<1> QED
  <2>1. \/ /\ Conclude /\ pass.mode # "Strict"
           /\ r = Rec("RunConcluded", <<pass.used, pass.spent>>, pass.status, pass.diverged, 0)
        \/ r.kind = "QuarantineDecided"
        => r.kind \notin OfEffects
    BY DEF Rec, OfEffects, Outcomes
  <2> QED
    BY <1>2, <1>3, <1>4, <1>5, <2>1 DEF Writes

\* A refusal stands exactly while the cursor shows it, step by step.
LEMMA InitRefusesNothing ==
    ASSUME Init
    PROVE  RefusalInv
<1>1. DispatchInv /\ journal = <<Plain("RunAdmitted", None, None)>>
  BY InitIsSound DEF Init
<1>2. journal[1].kind = "RunAdmitted" /\ DOMAIN journal = {1}
  BY <1>1 DEF Plain, Rec
<1>3. \A k : Count("BudgetRefused", k) = 0 /\ Count("BudgetReadmitted", k) = 0
  <2>1. Positions("BudgetRefused") = {} /\ Positions("BudgetReadmitted") = {}
    BY <1>2 DEF Positions
  <2> QED
    BY <2>1, FS_EmptySet DEF Count
<1>4. Known = {}
  <2>1. SlotsAreOpened
    BY InitIsFollowed DEF HistoryInv
  <2> QED
    BY <1>2, <2>1 DEF SlotsAreOpened, OfEffects, Outcomes
<1> QED
  BY <1>3, <1>4 DEF RefusalInv, Refusing

LEMMA RefusalsDoNotStack ==
    ASSUME DispatchInv, RefusalInv, [Next]_vars
    PROVE  RefusalInv'
<1>1. CASE UNCHANGED <<setting, journal>>
  <2>1. Known' = Known /\ \A kind, k : Count(kind, k)' = Count(kind, k)
    BY <1>1 DEF Known, Cursor, Count, Positions
  <2> QED
    BY <1>1, <2>1, SameProgram DEF RefusalInv, Refusing
<1>2. CASE Next /\ journal' # journal
  <2>1. setting' = setting /\ DispatchInv'
    BY <1>2, StepsAreSound DEF Next
  <2>2. PICK r \in Records : RecordOK(r) /\ journal' = Append(journal, r) /\ Writes(r)
    BY <1>2, <2>1, WritesAre
  <2> SUFFICES ASSUME NEW k \in Keys
               PROVE  (Count("BudgetRefused", k) = Count("BudgetReadmitted", k) + (IF Refusing(k) THEN 1 ELSE 0))'
    BY <2>1, SameProgram DEF RefusalInv
  <2>3. /\ Count("BudgetRefused", k) \in Nat /\ Count("BudgetReadmitted", k) \in Nat
        /\ Count("BudgetRefused", k)' = Count("BudgetRefused", k)
                + (IF r.kind = "BudgetRefused" /\ r.key = k THEN 1 ELSE 0)
        /\ Count("BudgetReadmitted", k)' = Count("BudgetReadmitted", k)
                + (IF r.kind = "BudgetReadmitted" /\ r.key = k THEN 1 ELSE 0)
    BY <2>2, CountsGrow DEF DispatchInv, TypeOK
  <2>4. /\ r.kind = "BudgetRefused" /\ r.key = k => ~Refusing(k) /\ Refusing(k)'
        /\ r.kind = "BudgetReadmitted" /\ r.key = k => Refusing(k) /\ ~Refusing(k)'
        /\ ~(r.kind \in {"BudgetRefused", "BudgetReadmitted"} /\ r.key = k) => (Refusing(k)' <=> Refusing(k))
    BY <2>1, <2>2, RefusalsMove
  <2>5. Count("BudgetRefused", k) = Count("BudgetReadmitted", k) + (IF Refusing(k) THEN 1 ELSE 0)
    BY DEF RefusalInv
  <2> QED
    BY <2>3, <2>4, <2>5
<1> QED
  BY <1>1, <1>2 DEF vars, execution, Next

\* So the refusals of a position outnumber its re-admissions by one at most.
LEMMA RefusalStandsOnce ==
    ASSUME DispatchInv, RefusalInv
    PROVE  OneStandingRefusal
<1> SUFFICES ASSUME NEW k \in Keys
             PROVE  Count("BudgetRefused", k) - Count("BudgetReadmitted", k) \in {0, 1}
  BY DEF OneStandingRefusal, Count
<1>1. Count("BudgetReadmitted", k) \in Nat
  <2>1. DOMAIN journal = 1 .. Len(journal) /\ Len(journal) \in Nat
    BY DEF DispatchInv, TypeOK
  <2>2. PICK T : T = {i \in Positions("BudgetReadmitted") : journal[i].key = k}
    OBVIOUS
  <2>3. T \in SUBSET (1 .. Len(journal)) /\ IsFiniteSet(1 .. Len(journal))
    BY <2>1, <2>2, FS_Interval DEF Positions
  <2>4. IsFiniteSet(T)
    BY <2>3, FS_Subset, Zenon
  <2>5. Cardinality(T) \in Nat
    BY <2>4, FS_CardinalityType, Zenon
  <2> QED
    BY <2>2, <2>5 DEF Count
<1> QED
  BY <1>1 DEF RefusalInv

-----------------------------------------------------------------------------
(* A run that succeeded is only verified, and verifying it bills the same *)

\* The greatest of a nonempty set of numbers up to some bound.
LEMMA GreatestIs ==
    ASSUME NEW b \in Nat, NEW T, T \subseteq 0 .. b, T # {},
           NEW g, g = CHOOSE i \in T : \A j \in T : j <= i
    PROVE  g \in T /\ \A j \in T : j <= g
<1>1. \E i \in T : \A j \in T : j <= i
  BY MaxIs
<1> QED
  BY <1>1

\* The record of the last conclusion, one record on.
LastConclusion == journal[LastAt("RunConcluded")]

LEMMA ConclusionMoves ==
    ASSUME journal \in Seq(Records), NEW r \in Records, journal' = Append(journal, r)
    PROVE  /\ r.kind = "RunConcluded" => Conclusion' = r.says /\ LastConclusion' = r
           /\ r.kind # "RunConcluded" =>
                /\ Conclusion' = Conclusion
                /\ Positions("RunConcluded") # {} => LastConclusion' = LastConclusion
<1>1. PICK n \in Nat : n = Len(journal) /\ DOMAIN journal = 1 .. n
  OBVIOUS
<1>2. PICK j : j = journal'
  OBVIOUS
<1>3. DOMAIN j = 1 .. n + 1 /\ j[n + 1] = r /\ \A i \in 1 .. n : j[i] = journal[i]
  BY <1>1, <1>2
<1>4. PICK T, U : T = Positions("RunConcluded") /\ U = Positions("RunConcluded")'
  OBVIOUS
<1>5. /\ T = {i \in 1 .. n : journal[i].kind = "RunConcluded"}
      /\ U = {i \in 1 .. n + 1 : j[i].kind = "RunConcluded"}
  BY <1>1, <1>2, <1>3, <1>4 DEF Positions
<1>6. T \subseteq 0 .. n /\ U \subseteq 0 .. n + 1 /\ n + 1 \in Nat
  BY <1>5
<1>7. PICK g, h : /\ g = CHOOSE i \in T : \A m \in T : m <= i
                  /\ h = CHOOSE i \in U : \A m \in U : m <= i
  OBVIOUS
<1>8. /\ LastConclusion = journal[g] /\ LastConclusion' = j[h]
      /\ Conclusion = (IF T = {} THEN None ELSE journal[g].says)
      /\ Conclusion' = (IF U = {} THEN None ELSE j[h].says)
  BY <1>2, <1>4, <1>7 DEF LastConclusion, LastAt, Conclusion
<1>9. T # {} => g \in T /\ \A m \in T : m <= g
  BY <1>6, <1>7, GreatestIs
<1>10. U # {} => h \in U /\ \A m \in U : m <= h
  BY <1>6, <1>7, GreatestIs
<1>11. CASE r.kind = "RunConcluded"
  <2>1. n + 1 \in U
    BY <1>3, <1>5, <1>11
  <2>2. h = n + 1
    <3>1. h \in 1 .. n + 1 /\ n + 1 <= h
      BY <1>5, <1>10, <2>1
    <3> QED
      BY <3>1
  <2> QED
    BY <1>3, <1>8, <1>11, <2>1, <2>2
<1>12. CASE r.kind # "RunConcluded"
  <2>1. U = T
    BY <1>3, <1>5, <1>12
  <2>2. g = h
    BY <1>7, <2>1
  <2>3. T # {} => j[g] = journal[g]
    BY <1>3, <1>5, <1>9
  <2> QED
    BY <1>4, <1>8, <1>12, <2>1, <2>2, <2>3
<1> QED
  BY <1>11, <1>12

\* What a verdict says of a pass.
LEMMA VerdictSays ==
    ASSUME NEW p \in Passes
    PROVE  /\ Retries(p).status = p.status /\ \A s : Ends(p, s).status = s
           /\ Diverges(p).status = "quarantined"
           /\ \A pc : [p EXCEPT !.pc = pc].status = p.status
           /\ Answered(p).status \in {p.status, "succeeded", "quarantined"}
           /\ p.e < Len(Program) => Answered(p).status = p.status /\ Answered(p).pc = "consult"
           /\ p.mode = "Strict" /\ p.pos < Len(p.slots) /\ ~(p.e < Len(Program)) => Answered(p).status = "quarantined"
           /\ ~(p.e < Len(Program)) /\ ~(p.mode = "Strict" /\ p.pos < Len(p.slots)) => Answered(p).status = "succeeded"
<1>1. Retries(p).status = p.status /\ \A s : Ends(p, s).status = s
  BY DEF Retries, Ends, Passes
<1>2. Diverges(p).status = "quarantined" /\ \A pc : [p EXCEPT !.pc = pc].status = p.status
  BY DEF Diverges, Ends, Passes
<1>3. /\ p.e < Len(Program) => Answered(p).status = p.status /\ Answered(p).pc = "consult"
      /\ p.mode = "Strict" /\ p.pos < Len(p.slots) /\ ~(p.e < Len(Program)) => Answered(p).status = "quarantined"
      /\ ~(p.e < Len(Program)) /\ ~(p.mode = "Strict" /\ p.pos < Len(p.slots)) => Answered(p).status = "succeeded"
  BY DEF Answered, Passes
<1> QED
  BY <1>1, <1>2, <1>3

\* The steps that may find a run to have succeeded or failed.
Decides ==
    ReplayDone \/ ReplayDenial \/ ReplayFailed \/ Deny \/ RecordOutcome \/ FailToRecord \/ Probe

LEMMA DecidedBy ==
    ASSUME DispatchInv, Moves, pass' # None, pass'.status \in {"succeeded", "failed"}
    PROVE  Decides \/ (pass # None /\ pass' = pass /\ journal' = journal)
<1>1. None \notin {"succeeded", "failed"}
  BY DispatchAssumption DEF Statuses
<1>2. ~(Execute \/ Resume \/ Verify)
  <2>1. \A mode : Fresh(mode).status = None /\ \A s : Ends(Fresh(mode), s).status = s
    BY DEF Fresh, Ends
  <2> QED
    BY <1>1, <2>1 DEF Execute, Resume, Verify
<1>3. ~(Crash \/ Conclude \/ RaiseCeiling) /\ ~(\E k \in Keys : ReconcileEffect(k))
      /\ ~(\E decision \in {"Reopen", "Abandon"} : DecideQuarantine(decision))
  BY DEF Crash, Conclude, RaiseCeiling, ReconcileEffect, DecideQuarantine
<1>4. CASE SetHalt
  BY <1>4 DEF SetHalt
<1>5. CASE Step /\ ~Decides /\ ~Conclude
  <2>1. pass # None /\ pass.pc # "conclude"
    BY <1>5 DEF Step, Decides, ReplayDiverges, ReplayWithheld, ReplayRefusal, ReplayOrphan,
                HistoryEnds, Withhold, Refuse, Announce, Cleared, Perform, Reads, At
  <2>2. pass \in Passes /\ pass.status = None
    BY <2>1, Running
  <2>3. Past \in Passes /\ Past.status = None
    BY <2>2, MovedPast
  <2>4. CASE ReplayDiverges \/ Withhold \/ Refuse
    BY <2>2, <2>4, VerdictSays DEF ReplayDiverges, Withhold, Refuse
  <2>5. CASE HistoryEnds
    BY <1>1, <2>2, <2>5, VerdictSays DEF HistoryEnds
  <2>6. CASE ReplayWithheld \/ ReplayRefusal
    BY <1>1, <2>3, <2>6, VerdictSays DEF ReplayWithheld, ReplayRefusal
  <2>7. CASE ReplayOrphan
    <3>1. PICK p : p = Bill(Past, 1, 0)
      OBVIOUS
    <3>2. p \in Passes /\ p.status = None
      BY <2>3, <3>1, Billed DEF Keeps
    <3>3. pass' = Ends(p, "quarantined") \/ pass' = [p EXCEPT !.pc = "act"] \/ pass' = [p EXCEPT !.pc = "ask"]
      BY <2>7, <3>1 DEF ReplayOrphan
    <3>4. /\ Ends(p, "quarantined").status = "quarantined" /\ [p EXCEPT !.pc = "act"].status = None
          /\ [p EXCEPT !.pc = "ask"].status = None
      BY <3>2, VerdictSays
    <3> QED
      BY <1>1, <3>3, <3>4
  <2>8. CASE Announce
    <3>1. PICK p : p = Bill(pass, 1, 0)
      OBVIOUS
    <3>2. p \in Passes /\ p.status = None
      BY <2>2, <3>1, Billed DEF Keeps
    <3>3. pass' = [p EXCEPT !.pc = "act"]
      BY <2>8, <3>1 DEF Announce
    <3> QED
      BY <1>1, <3>2, <3>3, VerdictSays
  <2>9. CASE Perform
    <3>1. \E call : pass' = [pass EXCEPT !.call = call, !.pc = "record"]
      BY <2>9 DEF Perform
    <3>2. pass'.status = pass.status
      BY <2>2, <3>1 DEF Passes
    <3> QED
      BY <1>1, <2>2, <3>2
  <2> QED
    BY <1>5, <2>4, <2>5, <2>6, <2>7, <2>8, <2>9 DEF Step, Decides
<1> QED
  BY <1>2, <1>3, <1>4, <1>5 DEF Moves, Step, Decides

\* A step that has read its last effect done has read everything, where each
\* position leads on.
LEMMA LastIsRead ==
    ASSUME DispatchInv, Followed, Unbroken(Cursor), Reads({"Done"}), ~(pass.e < Len(Program))
    PROVE  pass.pos + 1 = Len(Cursor) /\ Complete(Cursor)
<1>1. /\ pass \in Passes /\ pass.pos \in Nat /\ Cursor # <<>> /\ Len(Cursor) \in Nat
      /\ pass.pos + 1 \in 1 .. Len(Cursor)
      /\ NextSlot = Cursor[pass.pos + 1] /\ NextSlot.key = Here
  BY ReadsNext
<1>2. NextSlot.state = "Done" /\ pass # None
  BY DEF Reads, At
<1>3. setting \in Settings /\ Here \in Keys /\ Cursor \in Seq(Slots)
  BY <1>2, Running DEF DispatchInv, CursorIsSound
<1>4. pass.e \in 1 .. Len(Program) /\ Len(Program) \in Nat /\ Here[1] = pass.e /\ Here[2] = pass.a
  BY <1>3, KeyIs, SettingIs DEF Here
<1>5. pass.e = Len(Program)
  BY <1>4
<1>6. PICK n, i : n = Len(Cursor) /\ i = pass.pos + 1
  OBVIOUS
<1>7. i = n
  <2> SUFFICES ASSUME i # n PROVE FALSE
    OBVIOUS
  <2>1. i \in 1 .. n - 1 /\ i + 1 \in DOMAIN Cursor
    BY <1>1, <1>3, <1>6
  <2>2. Cursor[i + 1].key = KeyAfter(Cursor[i]) /\ Cursor[i + 1] \in Known
    BY <1>6, <2>1 DEF Unbroken, Known, ToSet
  <2>3. Cursor[i + 1].key = <<Len(Program) + 1, 1>>
    BY <1>1, <1>2, <1>4, <1>5, <1>6, <2>2 DEF KeyAfter
  <2>4. Cursor[i + 1].key \in Keys
    BY <2>2 DEF DispatchInv, CursorIsSound
  <2>5. Cursor[i + 1].key[1] \in 1 .. Len(Program)
    BY <1>3, <2>4, KeyIs
  <2> QED
    BY <1>4, <2>3, <2>5
<1> QED
  BY <1>1, <1>2, <1>4, <1>5, <1>6, <1>7 DEF Complete

\* Reading the last effect done leaves the whole history billed, and read.
LEMMA ReadingSucceeds ==
    ASSUME DispatchInv, Followed, Unbroken(Cursor), setting' = setting, ReplayDone,
           pass'.pc = "conclude"
    PROVE  /\ pass'.status = "succeeded"
           /\ Complete(Cursor)' /\ HasBilled(Len(Cursor))'
<1>1. Reads({"Done"}) /\ journal' = journal /\ pass' = Answered(Bill(Past, 1, NextSlot.spend))
  BY DEF ReplayDone
<1>2. PICK spend \in Nat : spend = NextSlot.spend
  BY <1>1, SlotIsRead DEF Slots
<1>3. PICK p : p = Bill(Past, 1, spend)
  OBVIOUS
<1>4. Consumed(p) /\ Consumed(Past) /\ p \in Passes /\ Past \in Passes /\ pass' = Answered(p)
  BY <1>1, <1>2, <1>3, Consuming DEF Consumed
<1>5. ~(pass.e < Len(Program))
  <2>1. p.e < Len(Program) => pass'.pc = "consult"
    BY <1>4, VerdictSays
  <2> QED
    BY <1>4, <2>1 DEF Consumed
<1>6. pass.pos + 1 = Len(Cursor) /\ Complete(Cursor)
  BY <1>1, <1>5, LastIsRead
<1>7. /\ pass \in Passes /\ pass.slots = Cursor /\ pass.pos \in Nat /\ Len(Cursor) \in Nat
      /\ pass.used = pass.pos /\ Costs(Cursor)[pass.pos + 1] = pass.spent + spend
  BY <1>1, <1>2, ReadsNext DEF HasBilled
<1>8. pass'.status = "succeeded"
  <2>1. ~(p.e < Len(Program)) /\ ~(p.pos < Len(p.slots))
    BY <1>4, <1>5, <1>6, <1>7 DEF Consumed
  <2> QED
    BY <1>4, <2>1, VerdictSays
<1>9. pass'.used = pass.used + 1 /\ pass'.spent = pass.spent + spend
  <2>1. PICK x : x = Past
    OBVIOUS
  <2>2. SameBill(pass, x) /\ SameBill(p, pass') /\ x \in Passes
    BY <1>4, <1>7, <2>1, PastBillsNothing, VerdictsBillNothing
  <2>3. p.used = x.used + 1 /\ p.spent = x.spent + spend
    BY <1>3, <2>1, <2>2, BillIs
  <2> QED
    BY <2>2, <2>3 DEF SameBill
<1>10. Cursor' = Cursor /\ Complete(Cursor)'
  BY <1>1, <1>6 DEF Cursor, Complete, Program
<1>11. HasBilled(Len(Cursor))'
  BY <1>6, <1>7, <1>9, <1>10 DEF HasBilled
<1> QED
  BY <1>8, <1>10, <1>11

\* A pass at work records an outcome of its last position and bills it.
LEMMA OutcomeIsBilled ==
    ASSUME DispatchInv, Followed, setting' = setting, pass # None, pass.pc \in Working,
           NEW r \in Records, RecordOK(r), r.kind \in Outcomes, r.key = Here, journal' = Append(journal, r),
           pass'.used = pass.used, pass'.spent = pass.spent + r.spend
    PROVE  /\ HasBilled(Len(Cursor))' /\ Len(Cursor') = Len(Cursor) /\ Cursor' # <<>>
           /\ Cursor'[Len(Cursor')].key = Here /\ Cursor'[Len(Cursor')].state = StateSaid(r)
           /\ \A i \in 1 .. Len(Cursor) - 1 : Cursor'[i] = Cursor[i]
<1>1. /\ Cursor # <<>> /\ Cursor[Len(Cursor)].key = Here /\ InCallOrder(Cursor)
      /\ HasBilled(Len(Cursor)) /\ Cursor \in Seq(Slots)
  BY DEF Followed, ReadsItsHistory, DispatchInv, CursorIsSound
<1>2. PICK n \in Nat : n = Len(Cursor) /\ n \in DOMAIN Cursor /\ n \in 1 .. n /\ n - 1 \in 0 .. n /\ n - 1 \in Nat
  BY <1>1
<1>3. PICK t : t = Cursor'
  OBVIOUS
<1>4. SettledAt(Cursor, n, r, t)
  BY <1>1, <1>2, <1>3, OutcomeIsInOrder
<1>5. /\ t \in Seq(Slots) /\ t # <<>> /\ Len(t) = n /\ t[n].key = Here /\ t[n].state = StateSaid(r)
      /\ t[n].spend = Cursor[n].spend + r.spend /\ \A i \in 1 .. n - 1 : t[i] = Cursor[i]
  BY <1>1, <1>2, <1>4 DEF SettledAt
<1>6. r.spend \in Nat /\ Cursor[n].spend \in Nat
  <2>1. Cursor[n] \in Slots
    BY <1>1, <1>2
  <2> QED
    BY <2>1 DEF Records, Slots
<1>7. Costs(t)[n - 1] = Costs(Cursor)[n - 1]
  <2>1. PICK m : m = n - 1
    OBVIOUS
  <2>4. m \in Nat /\ m <= n /\ \A i \in 1 .. m : i \in 1 .. n - 1
    BY <1>2, <2>1
  <2>2. PICK slots \in Seq(Slots) : slots = Cursor
    BY <1>1
  <2>3. Costs(t)[m] = Costs(slots)[m]
    BY <1>2, <1>5, <2>2, <2>4, CostsAgree
  <2> QED
    BY <2>1, <2>2, <2>3
<1>8. /\ Costs(Cursor)[n] = Costs(Cursor)[n - 1] + Cursor[n].spend /\ Costs(Cursor)[n - 1] \in Nat
      /\ Costs(t)[n] = Costs(t)[n - 1] + t[n].spend
  BY <1>1, <1>2, <1>5, CostsAre
<1>9. pass.used = n /\ pass.spent = Costs(Cursor)[n]
  BY <1>1, <1>2 DEF HasBilled
<1>10. pass.spent + r.spend = Costs(t)[n]
  BY <1>5, <1>6, <1>7, <1>8, <1>9
<1>11. HasBilled(Len(Cursor))'
  BY <1>3, <1>5, <1>9, <1>10 DEF HasBilled
<1> QED
  BY <1>2, <1>3, <1>5, <1>11

\* What a pass at work says of its attempt, on the record r, and the pass p with
\* the outcome billed.
SaysOf(d, r, p) ==
    /\ d \in Dispositions /\ r \in Records /\ RecordOK(r) /\ r.kind \in Outcomes /\ r.key = Here
    /\ r.says = d /\ journal' = Append(journal, r)
    /\ p \in Passes /\ Keeps(pass, p) /\ p.e = pass.e /\ p.a = pass.a /\ p.status = None
    /\ p.used = pass.used /\ p.spent = pass.spent + r.spend

LEMMA OutcomeSays ==
    ASSUME DispatchInv, RecordOutcome
    PROVE  \E d, r, p : \E perm \in BOOLEAN :
                /\ SaysOf(d, r, p) /\ StateSaid(r) = d /\ pass.pc = "record"
                /\ pass' = CASE d = "Done" -> Answered(p)
                             [] d = "InDoubt" /\ Declared(Here).recovery = "Reconcile" -> [p EXCEPT !.pc = "probe"]
                             [] OTHER -> FailedVerdict(p, d, perm)
<1>1. pass # None /\ pass.pc = "record" /\ pass.pc \in Working
  BY DEF RecordOutcome, At, Working
<1>2. UnderWay /\ setting \in Settings /\ pass \in Passes /\ Here \in Keys /\ pass.status = None
  BY <1>1, AtWork
<1>3. pass.call \in Calls
  BY <1>1, <1>2 DEF UnderWay
<1>4. PICK d \in Dispositions, perm \in BOOLEAN, spend \in Nat :
        d = pass.call.says /\ perm = pass.call.perm /\ spend = Spend(d)
  BY <1>3 DEF Calls, Spend
<1>5. PICK r : r = Rec(IF d = "Done" THEN "EffectDone" ELSE "EffectFailed", Here, d, perm, spend)
  OBVIOUS
<1>6. PICK p : p = [Bill(pass, 0, spend) EXCEPT !.call = None]
  OBVIOUS
<1>7. /\ journal' = Append(journal, r)
      /\ pass' = CASE d = "Done" -> Answered(p)
                   [] d = "InDoubt" /\ Declared(Here).recovery = "Reconcile" -> [p EXCEPT !.pc = "probe"]
                   [] OTHER -> FailedVerdict(p, d, perm)
  BY <1>4, <1>5, <1>6 DEF RecordOutcome, Write
<1>8. p \in Passes /\ Keeps(pass, p) /\ p.e = pass.e /\ p.a = pass.a /\ p.status = None
  BY <1>2, <1>6, BilledFor, ZenonT(30)
<1>9. /\ r \in Records /\ RecordOK(r) /\ r.kind \in Outcomes /\ r.key = Here /\ StateSaid(r) = d
      /\ r.spend = spend /\ r.says = d
  <2>1. Here \in Nat \X Nat
    BY <1>2, KeyIs
  <2> QED
    BY <1>2, <1>4, <1>5, <2>1 DEF Rec, Records, RecordOK, OfEffects, Outcomes, StateSaid
<1>10. p.used = pass.used /\ p.spent = pass.spent + r.spend
  <2>1. PICK x : x = Bill(pass, 0, spend)
    OBVIOUS
  <2>2. x \in Passes /\ x.used = pass.used /\ x.spent = pass.spent + spend
    <3>1. Keeps(pass, x) /\ pass.used \in Nat
      BY <1>2, <2>1, Billed DEF Passes
    <3>2. x.used = pass.used + 0 /\ x.spent = pass.spent + spend
      BY <1>2, <2>1 DEF Bill, Passes
    <3> QED
      BY <3>1, <3>2 DEF Keeps
  <2> QED
    BY <1>6, <1>9, <2>1, <2>2 DEF Passes
<1>11. SaysOf(d, r, p)
  BY <1>7, <1>8, <1>9, <1>10 DEF SaysOf
<1> QED
  BY <1>1, <1>7, <1>9, <1>11

LEMMA ProbeSays ==
    ASSUME DispatchInv, Probe
    PROVE  \E d, r, p :
                /\ SaysOf(d, r, p) /\ StateSaid(r) = (IF d = "Landed" THEN "Done" ELSE d)
                /\ d \in {"Landed", "InDoubt", "DidNotHappen"} /\ pass.pc \in {"ask", "probe"}
                /\ pass' = CASE d = "Landed" -> Answered(p)
                             [] pass.pc = "ask" /\ d = "DidNotHappen" -> [p EXCEPT !.pc = "act"]
                             [] pass.pc = "ask" /\ d = "InDoubt" -> Ends(p, "quarantined")
                             [] OTHER -> FailedVerdict(p, d, FALSE)
<1>1. pass # None /\ pass.pc \in {"ask", "probe"} /\ pass.pc \in Working
  BY DEF Probe, At, Working
<1>2. PICK d \in {"InDoubt", "Landed", "DidNotHappen"} :
        /\ journal' = Append(journal, Rec("EffectReconciled", Here, d, FALSE, IF d = "Landed" THEN 1 ELSE 0))
        /\ pass' = AfterProbe(pass, d)
  BY DEF Probe, Findings, Write
<1>3. PICK r : r = Rec("EffectReconciled", Here, d, FALSE, IF d = "Landed" THEN 1 ELSE 0)
  OBVIOUS
<1>4. /\ setting \in Settings /\ pass \in Passes /\ Here \in Keys /\ pass.status = None
      /\ Keeps(pass, pass) /\ pass.spent \in Nat /\ pass.used \in Nat
  BY <1>1, AtWork DEF Keeps, Passes
<1>5. /\ r \in Records /\ RecordOK(r) /\ r.kind \in Outcomes /\ r.key = Here /\ r.says = d /\ d \in Dispositions
      /\ StateSaid(r) = (IF d = "Landed" THEN "Done" ELSE d) /\ r.spend = IF d = "Landed" THEN 1 ELSE 0
  <2>1. Here \in Nat \X Nat
    BY <1>4, KeyIs
  <2> QED
    BY <1>3, <1>4, <2>1 DEF Rec, Records, RecordOK, OfEffects, Outcomes, StateSaid, Dispositions
<1>6. CASE d = "Landed"
  <2>1. PICK p : p = Bill(pass, 0, 1)
    OBVIOUS
  <2>2. Keeps(pass, p) /\ p.e = pass.e /\ p.a = pass.a /\ p \in Passes /\ p.status = None
    <3>1. Keeps(pass, p) /\ p.e = pass.e /\ p.a = pass.a /\ p.status = None
      BY <1>4, <2>1, Billed
    <3> QED
      BY <3>1 DEF Keeps
  <2>3. pass' = Answered(p)
    BY <1>2, <1>6, <2>1 DEF AfterProbe
  <2>4. p.used = pass.used /\ p.spent = pass.spent + r.spend
    <3>1. p.used = pass.used /\ p.spent = pass.spent + 1
      BY <1>4, <2>1 DEF Bill, Passes
    <3> QED
      BY <1>5, <1>6, <3>1
  <2>5. SaysOf(d, r, p)
    BY <1>2, <1>3, <1>5, <2>2, <2>4 DEF SaysOf
  <2> QED
    BY <1>1, <1>5, <1>6, <2>3, <2>5
<1>7. CASE d # "Landed"
  <2>1. pass.spent = pass.spent + r.spend
    BY <1>4, <1>5, <1>7
  <2>2. SaysOf(d, r, pass)
    BY <1>2, <1>3, <1>4, <1>5, <2>1 DEF SaysOf
  <2>3. pass' = CASE d = "Landed" -> Answered(pass)
                  [] pass.pc = "ask" /\ d = "DidNotHappen" -> [pass EXCEPT !.pc = "act"]
                  [] pass.pc = "ask" /\ d = "InDoubt" -> Ends(pass, "quarantined")
                  [] OTHER -> FailedVerdict(pass, d, FALSE)
    BY <1>2, <1>7 DEF AfterProbe
  <2> QED
    BY <1>1, <1>5, <2>2, <2>3
<1> QED
  BY <1>6, <1>7

\* A failed attempt ends its pass as a failure or in quarantine, or is retried.
LEMMA FailuresSay ==
    ASSUME NEW p \in Passes, p.status = None, NEW d, NEW perm
    PROVE  FailedVerdict(p, d, perm).status \in {None, "failed", "quarantined"}
<1>1. PICK stop : stop = StopReason(d, perm, <<p.e, p.a>>)
  OBVIOUS
<1>2. stop \in {None, "failed", "quarantined"}
  BY <1>1 DEF StopReason
<1>3. FailedVerdict(p, d, perm) = IF stop = None THEN Retries(p) ELSE Ends(p, stop)
  BY <1>1 DEF FailedVerdict
<1> QED
  BY <1>2, <1>3, VerdictSays

\* Only the answer of the last effect lets a pass at work succeed, with its whole
\* history billed.
LEMMA WorkSucceeds ==
    ASSUME DispatchInv, Followed, setting' = setting, RecordOutcome \/ Probe, pass'.status = "succeeded"
    PROVE  Complete(Cursor)' /\ HasBilled(Len(Cursor))'
<1>1. pass # None /\ pass.pc \in Working
  BY DEF RecordOutcome, Probe, At, Working
<1>2. None # "succeeded"
  BY DispatchAssumption DEF Statuses
<1>3. PICK d, r, p : SaysOf(d, r, p) /\ StateSaid(r) = "Done" /\ pass' = Answered(p)
  <2>1. CASE RecordOutcome
    <3>1. PICK d, r, p, perm :
                /\ SaysOf(d, r, p) /\ StateSaid(r) = d
                /\ pass' = CASE d = "Done" -> Answered(p)
                             [] d = "InDoubt" /\ Declared(Here).recovery = "Reconcile" -> [p EXCEPT !.pc = "probe"]
                             [] OTHER -> FailedVerdict(p, d, perm)
      BY <2>1, OutcomeSays
    <3>2. p \in Passes /\ p.status = None
      BY <3>1 DEF SaysOf
    <3>3. [p EXCEPT !.pc = "probe"].status = None /\ FailedVerdict(p, d, perm).status \in {None, "failed", "quarantined"}
      BY <3>2, VerdictSays, FailuresSay
    <3>4. d = "Done" /\ pass' = Answered(p)
      BY <1>2, <3>1, <3>3
    <3> QED
      BY <3>1, <3>4
  <2>2. CASE Probe
    <3>1. PICK d, r, p :
                /\ SaysOf(d, r, p) /\ StateSaid(r) = (IF d = "Landed" THEN "Done" ELSE d)
                /\ pass' = CASE d = "Landed" -> Answered(p)
                             [] pass.pc = "ask" /\ d = "DidNotHappen" -> [p EXCEPT !.pc = "act"]
                             [] pass.pc = "ask" /\ d = "InDoubt" -> Ends(p, "quarantined")
                             [] OTHER -> FailedVerdict(p, d, FALSE)
      BY <2>2, ProbeSays
    <3>2. p \in Passes /\ p.status = None
      BY <3>1 DEF SaysOf
    <3>3. /\ [p EXCEPT !.pc = "act"].status = None /\ FailedVerdict(p, d, FALSE).status \in {None, "failed", "quarantined"}
          /\ Ends(p, "quarantined").status = "quarantined"
      BY <3>2, VerdictSays, FailuresSay
    <3>4. d = "Landed" /\ pass' = Answered(p)
      BY <1>2, <3>1, <3>3
    <3> QED
      BY <3>1, <3>4
  <2> QED
    BY <2>1, <2>2
<1>4. ~(p.e < Len(Program))
  <2>1. p \in Passes /\ p.status = None
    BY <1>3 DEF SaysOf
  <2> QED
    BY <1>2, <1>3, <2>1, VerdictSays
<1>5. pass'.used = pass.used /\ pass'.spent = pass.spent + r.spend
  BY <1>3, VerdictsBillNothing DEF SaysOf, SameBill
<1>6. /\ HasBilled(Len(Cursor))' /\ Cursor' # <<>>
      /\ Cursor'[Len(Cursor')].key = Here /\ Cursor'[Len(Cursor')].state = "Done"
  BY <1>1, <1>3, <1>5, OutcomeIsBilled DEF SaysOf
<1>7. Here[1] = Len(Program)
  <2>1. Here \in Keys /\ setting \in Settings /\ Here[1] = pass.e
    BY <1>1, AtWork
  <2>2. pass.e \in 1 .. Len(Program) /\ Len(Program) \in Nat /\ ~(pass.e < Len(Program))
    BY <1>3, <1>4, <2>1, KeyIs, SettingIs DEF SaysOf
  <2> QED
    BY <2>1, <2>2
<1>8. Complete(Cursor)'
  BY <1>6, <1>7 DEF Complete, Program
<1> QED
  BY <1>6, <1>8

\* A strict pass stays strict and writes nothing.
LEMMA StrictStaysStrict ==
    ASSUME DispatchInv, Moves, pass # None, pass.mode = "Strict", pass' # None
    PROVE  /\ pass'.mode = "Strict" /\ journal' = journal
           /\ \/ pass' = pass
              \/ ReplayDone \/ ReplayDiverges \/ ReplayDenial \/ ReplayWithheld \/ ReplayRefusal
              \/ ReplayFailed \/ ReplayOrphan \/ HistoryEnds
<1>1. pass.pc \in {"consult", "conclude"} /\ pass \in Passes
  BY Running
<1>2. ~At("gate") /\ ~At("act") /\ ~At("record") /\ ~At("ask") /\ ~At("probe")
  BY <1>1 DEF At
<1>3. ~Withhold /\ ~Deny /\ ~Refuse /\ ~Announce /\ ~Perform /\ ~RecordOutcome /\ ~FailToRecord /\ ~Probe
  BY <1>2, ZenonT(30) DEF Withhold, Deny, Refuse, Announce, Cleared, Perform, RecordOutcome, FailToRecord, Probe
<1>4. ~(Execute \/ Resume \/ Verify \/ Crash \/ RaiseCeiling \/ Conclude)
  BY DEF Execute, Resume, Verify, Crash, RaiseCeiling, Conclude
<1>5. ~(\E k \in Keys : ReconcileEffect(k)) /\ ~(\E decision \in {"Reopen", "Abandon"} : DecideQuarantine(decision))
  BY DEF ReconcileEffect, DecideQuarantine
<1>6. CASE SetHalt
  BY <1>6 DEF SetHalt
<1>7. Past \in Passes /\ Past.mode = "Strict" /\ ~WritesEnabled(Past)
  BY <1>1, MovedPast DEF WritesEnabled
<1>8. \A p \in Passes : p.mode = "Strict" =>
            /\ Answered(p).mode = "Strict" /\ Retries(p).mode = "Strict" /\ Diverges(p).mode = "Strict"
            /\ \A s : Ends(p, s).mode = "Strict"
  <2> TAKE p \in Passes
  <2> HAVE p.mode = "Strict"
  <2>1. Answered(p).mode = "Strict" /\ Retries(p).mode = "Strict"
    BY StepsOfAPass DEF Ended, NextEffect, NextAttempt, Keeps
  <2>2. Diverges(p).mode = "Strict" /\ \A s : Ends(p, s).mode = "Strict"
    BY DEF Diverges, Ends, Passes
  <2> QED
    BY <2>1, <2>2
<1>9. CASE ReplayDiverges \/ HistoryEnds
  BY <1>1, <1>8, <1>9 DEF ReplayDiverges, HistoryEnds
<1>10. CASE ReplayDenial \/ ReplayWithheld \/ ReplayRefusal
  BY <1>7, <1>8, <1>10 DEF ReplayDenial, ReplayWithheld, ReplayRefusal
<1>11. CASE ReplayDone \/ ReplayFailed \/ ReplayOrphan
  <2>1. PICK states : Reads(states) /\ journal' = journal
    BY <1>11, ZenonT(30) DEF ReplayDone, ReplayFailed, ReplayOrphan
  <2>2. NextSlot.spend \in Nat
    BY <2>1, SlotIsRead DEF Slots
  <2>3. PICK p, q : p = Bill(Past, 1, NextSlot.spend) /\ q = Bill(Past, 1, 0)
    OBVIOUS
  <2>4. p \in Passes /\ p.mode = "Strict" /\ q \in Passes /\ q.mode = "Strict"
    <3>1. PICK x, spend : x = Past /\ spend = NextSlot.spend /\ spend \in Nat
      BY <2>2
    <3>2. x \in Passes /\ x.mode = "Strict" /\ p = Bill(x, 1, spend) /\ q = Bill(x, 1, 0)
      BY <1>7, <2>3, <3>1
    <3>3. Keeps(x, p) /\ Keeps(x, q)
      BY <3>1, <3>2, Billed
    <3> QED
      BY <3>2, <3>3 DEF Keeps
  <2>5. CASE ReplayDone
    BY <1>8, <2>1, <2>3, <2>4, <2>5 DEF ReplayDone
  <2>6. CASE ReplayFailed
    <3>1. pass' = Retries(p) \/ pass' = Diverges(p) \/ \E stop : pass' = Ends(p, stop)
      BY <2>3, <2>6 DEF ReplayFailed
    <3> QED
      BY <1>8, <2>1, <2>4, <2>6, <3>1
  <2>7. CASE ReplayOrphan
    <3>1. pass' = Ends(q, "quarantined")
      BY <2>3, <2>4, <2>7 DEF ReplayOrphan
    <3> QED
      BY <1>8, <2>1, <2>4, <2>7, <3>1
  <2> QED
    BY <1>11, <2>5, <2>6, <2>7
<1> QED
  BY <1>3, <1>4, <1>5, <1>6, <1>9, <1>10, <1>11 DEF Moves, Step

\* A verification of a finished history that leads on unbroken ends well.
LEMMA VerifyingSucceeds ==
    ASSUME DispatchInv, Followed, Unbroken(Cursor), Complete(Cursor), setting' = setting, Moves,
           pass # None, pass.mode = "Strict", pass' # None, pass'.pc = "conclude", pass.pc # "conclude"
    PROVE  pass'.status = "succeeded"
<1>1. /\ pass.pc = "consult" /\ pass \in Passes /\ Here \in Keys /\ setting \in Settings
      /\ pass.pos \in 0 .. Len(pass.slots)
  BY Running
<1>2. Cursor \in Seq(Slots) /\ Cursor # <<>> /\ Len(Cursor) \in Nat
  BY DEF Complete, DispatchInv, CursorIsSound
<1>3. /\ Cursor[Len(Cursor)].state = "Done" /\ Cursor[Len(Cursor)].key[1] = Len(Program)
  BY DEF Complete
<1>4. pass.slots = Cursor /\ Here = Asked(Cursor, pass.pos)
  BY <1>1 DEF Followed, ReadsItsHistory, Consulting
<1>5. ~ReplayDiverges
  BY <1>1, ReadsWhatItAsks DEF ReplayDiverges
<1>6. ~HistoryEnds
  <2> SUFFICES ASSUME Exhausted PROVE FALSE
    BY DEF HistoryEnds
  <2>1. pass.pos = Len(Cursor) /\ pass.pos # 0
    BY <1>1, <1>2, <1>4 DEF Exhausted
  <2>2. Here = <<Len(Program) + 1, 1>>
    BY <1>3, <1>4, <2>1 DEF Asked, KeyAfter
  <2>3. Here[1] \in 1 .. Len(Program) /\ Len(Program) \in Nat
    BY <1>1, KeyIs, SettingIs
  <2> QED
    BY <2>2, <2>3
<1>7. ASSUME NEW states, Reads(states), \A s \in states : s \notin Dispositions
      PROVE  FALSE
  <2>1. NextSlot = Cursor[pass.pos + 1] /\ NextSlot.state \in states
    BY <1>7, ReadsNext DEF Reads
  <2>2. pass.pos + 1 = Len(Cursor)
    BY <1>7, <2>1, ReadsNext
  <2> QED
    BY <1>3, <1>7, <2>1, <2>2 DEF Dispositions
<1>8. ~(ReplayDenial \/ ReplayWithheld \/ ReplayRefusal \/ ReplayOrphan)
  <2>1. \A s \in {"Denied", "Withheld", "Refused", "Orphan"} : ~Reads({s})
    BY <1>7 DEF Dispositions
  <2> QED
    BY <2>1 DEF ReplayDenial, ReplayWithheld, ReplayRefusal, ReplayOrphan
<1>9. ~ReplayFailed
  <2> SUFFICES ASSUME ReplayFailed PROVE FALSE
    OBVIOUS
  <2>1. PICK states : Reads(states) /\ states = {"Landed", "InDoubt", "DidNotHappen"}
    BY ZenonT(30) DEF ReplayFailed
  <2>2. /\ pass.pos \in Nat /\ pass.pos + 1 \in 1 .. Len(Cursor) /\ NextSlot = Cursor[pass.pos + 1]
        /\ NextSlot.key = Here
    BY <2>1, ReadsNext
  <2>3. NextSlot.state \in states /\ NextSlot.spend \in Nat
    BY <2>1, SlotIsRead DEF Reads, Slots
  <2>4. PICK p : p = Bill(Past, 1, NextSlot.spend)
    OBVIOUS
  <2>5. Consumed(p) /\ p \in Passes
    BY <2>1, <2>3, <2>4, Consuming DEF Consumed
  <2>6. PICK i : i = pass.pos + 1
    OBVIOUS
  <2>7. i \in 1 .. Len(Cursor) - 1
    <3>1. i # Len(Cursor)
      BY <1>3, <2>1, <2>2, <2>3, <2>6
    <3> QED
      BY <1>2, <2>2, <2>6, <3>1
  <2>8. Cursor[i + 1].key = <<pass.e, pass.a + 1>>
    <3>1. Cursor[i + 1].key = KeyAfter(Cursor[i])
      BY <2>7 DEF Unbroken
    <3> QED
      BY <2>1, <2>2, <2>3, <2>6, <3>1 DEF KeyAfter, Here
  <2>9. p.pos < Len(p.slots) /\ p.slots[p.pos + 1].key = <<p.e, p.a + 1>>
    BY <1>2, <1>4, <2>5, <2>6, <2>7, <2>8 DEF Consumed
  <2>10. pass' = Retries(p)
    BY <2>4, <2>9 DEF ReplayFailed
  <2>11. NextAttempt(p, pass')
    BY <2>5, <2>10, StepsOfAPass
  <2> QED
    BY <2>11 DEF NextAttempt
<1>10. ReplayDone
  BY <1>1, <1>5, <1>6, <1>8, <1>9, StrictStaysStrict
<1> QED
  BY <1>10, ReadingSucceeds

LEMMA InitHasNotSucceeded ==
    ASSUME Init
    PROVE  SuccessInv
<1>1. journal = <<Plain("RunAdmitted", None, None)>> /\ pass = None /\ None # "succeeded"
  BY DispatchAssumption DEF Init, Statuses
<1>2. journal[1].kind = "RunAdmitted" /\ DOMAIN journal = {1}
  BY <1>1 DEF Plain, Rec
<1>3. Conclusion = None
  BY <1>2 DEF Conclusion, Positions
<1> QED
  BY <1>1, <1>3 DEF SuccessInv, SuccessIsBilled, SuccessIsRecorded

\* The journal of a run that succeeded is closed, and only verified.
LEMMA SuccessIsClosed ==
    ASSUME DispatchInv, SuccessInv, Moves, Conclusion = "succeeded"
    PROVE  journal' = journal /\ (pass' # None => pass'.mode = "Strict")
<1>1. CASE pass # None
  <2>1. pass.mode = "Strict"
    BY <1>1 DEF SuccessInv
  <2>2. CASE pass' # None
    BY <1>1, <2>1, <2>2, StrictStaysStrict
  <2>3. CASE pass' = None
    <3>1. pass.pc \in {"consult", "conclude"} /\ pass \in Passes
      BY <1>1, <2>1, Running
    <3>2. CASE Crash \/ Conclude
      BY <2>1, <3>2 DEF Crash, Conclude
    <3>3. ~(Execute \/ Resume \/ Verify \/ RaiseCeiling) /\ ~(\E k \in Keys : ReconcileEffect(k))
          /\ ~(\E decision \in {"Reopen", "Abandon"} : DecideQuarantine(decision))
      BY <1>1 DEF Execute, Resume, Verify, RaiseCeiling, ReconcileEffect, DecideQuarantine
    <3>4. CASE SetHalt
      BY <2>3, <3>4 DEF SetHalt
    <3>5. CASE ReplayRefusal
      <4>1. ~WritesEnabled(Past)
        BY <2>1, <3>1, MovedPast DEF WritesEnabled
      <4> QED
        BY <2>3, <3>5, <4>1 DEF ReplayRefusal
    <3>6. CASE ReplayDone \/ ReplayDiverges \/ ReplayDenial \/ ReplayWithheld
      BY <2>3, <3>6 DEF ReplayDone, ReplayDiverges, ReplayDenial, ReplayWithheld
    <3>7. CASE ReplayFailed \/ ReplayOrphan \/ HistoryEnds
      BY <2>3, <3>7, ZenonT(30) DEF ReplayFailed, ReplayOrphan, HistoryEnds
    <3>8. ~Withhold /\ ~Deny /\ ~Refuse /\ ~Announce /\ ~Perform /\ ~RecordOutcome /\ ~FailToRecord /\ ~Probe
      <4>1. ~At("gate") /\ ~At("act") /\ ~At("record") /\ ~At("ask") /\ ~At("probe")
        BY <3>1 DEF At
      <4> QED
        BY <4>1, ZenonT(30) DEF Withhold, Deny, Refuse, Announce, Cleared, Perform, RecordOutcome, FailToRecord, Probe
    <3> QED
      BY <2>3, <3>2, <3>3, <3>4, <3>5, <3>6, <3>7, <3>8 DEF Moves, Step
  <2> QED
    BY <2>2, <2>3
<1>2. CASE pass = None
  <2>1. ~Step /\ ~Crash
    BY <1>2 DEF Step, ReplayDone, ReplayDiverges, ReplayDenial, ReplayWithheld, ReplayRefusal, ReplayFailed,
                ReplayOrphan, HistoryEnds, Withhold, Deny, Refuse, Announce, Cleared, Perform, RecordOutcome,
                FailToRecord, Probe, Conclude, Crash, Reads, At
  <2>2. ~Execute /\ ~Resume
    <3>1. None # "succeeded"
      BY DispatchAssumption DEF Statuses
    <3> QED
      BY <3>1 DEF Execute, Resume, ResumeIsClosed, SuccessInv
  <2>3. ~(\E k \in Keys : ReconcileEffect(k)) /\ ~(\E decision \in {"Reopen", "Abandon"} : DecideQuarantine(decision))
    BY DEF ReconcileEffect, DecideQuarantine, Sealed
  <2>4. CASE Verify
    BY <2>4 DEF Verify, Fresh
  <2>5. CASE RaiseCeiling \/ SetHalt
    BY <1>2, <2>5 DEF RaiseCeiling, SetHalt
  <2> QED
    BY <2>1, <2>2, <2>3, <2>4, <2>5 DEF Moves
<1> QED
  BY <1>1, <1>2

\* Only an execution and a resume are passes that count.
LEMMA PassesStay ==
    ASSUME Moves, ~Execute, ~Resume
    PROVE  passes' = passes
<1>1. CASE ReplayDone \/ ReplayDiverges \/ ReplayDenial \/ ReplayWithheld \/ ReplayRefusal
  BY <1>1 DEF ReplayDone, ReplayDiverges, ReplayDenial, ReplayWithheld, ReplayRefusal
<1>2. CASE ReplayFailed \/ ReplayOrphan \/ HistoryEnds
  BY <1>2, ZenonT(30) DEF ReplayFailed, ReplayOrphan, HistoryEnds
<1>3. CASE Withhold \/ Deny \/ Refuse \/ Announce \/ Perform
  BY <1>3 DEF Withhold, Deny, Refuse, Announce, Perform
<1>4. CASE RecordOutcome \/ FailToRecord \/ Probe \/ Conclude
  BY <1>4, ZenonT(30) DEF RecordOutcome, FailToRecord, Probe, Conclude
<1>5. CASE Verify \/ Crash \/ RaiseCeiling \/ SetHalt
  BY <1>5 DEF Verify, Crash, RaiseCeiling, SetHalt
<1>6. CASE \E k \in Keys : ReconcileEffect(k)
  BY <1>6 DEF ReconcileEffect
<1>7. CASE \E decision \in {"Reopen", "Abandon"} : DecideQuarantine(decision)
  BY <1>7 DEF DecideQuarantine
<1> QED
  BY <1>1, <1>2, <1>3, <1>4, <1>5, <1>6, <1>7 DEF Moves, Step

\* A failure read or met is no success.
LEMMA FailuresAreNot ==
    ASSUME DispatchInv, ReplayDenial \/ ReplayFailed \/ Deny \/ FailToRecord
    PROVE  pass'.status # "succeeded"
<1>1. None # "succeeded" /\ pass # None /\ pass.pc # "conclude"
  BY DispatchAssumption, ZenonT(30) DEF Statuses, ReplayDenial, ReplayFailed, Deny, FailToRecord, Cleared, Reads, At
<1>2. pass \in Passes /\ pass.status = None
  BY <1>1, Running
<1>3. CASE ReplayDenial
  BY <1>2, <1>3, MovedPast, VerdictSays DEF ReplayDenial
<1>4. CASE Deny
  BY <1>2, <1>4, VerdictSays DEF Deny
<1>5. CASE FailToRecord
  <2>1. PICK p, spend : /\ spend = Spend(pass.call.says) /\ p = [Bill(pass, 0, spend) EXCEPT !.call = None]
                        /\ pass' = Ends(p, "failed")
    BY <1>5 DEF FailToRecord
  <2>2. spend \in Nat
    BY <2>1 DEF Spend
  <2>3. p \in Passes
    BY <1>2, <2>1, <2>2, BilledFor
  <2> QED
    BY <2>1, <2>3, VerdictSays
<1>6. CASE ReplayFailed
  <2>1. PICK states : Reads(states)
    BY <1>6, ZenonT(30) DEF ReplayFailed
  <2>2. PICK p, stop : p = Bill(Past, 1, NextSlot.spend) /\ stop = StopReason(NextSlot.state, NextSlot.perm, Here)
    OBVIOUS
  <2>3. NextSlot.spend \in Nat
    BY <2>1, SlotIsRead DEF Slots
  <2>4. p \in Passes /\ p.status = None
    BY <1>2, <2>1, <2>2, <2>3, Consuming DEF Consumed
  <2>5. pass' = Retries(p) \/ pass' = Diverges(p) \/ pass' = Ends(p, stop)
    BY <1>6, <2>2 DEF ReplayFailed
  <2>6. stop \in {None, "failed", "quarantined"}
    BY <2>2 DEF StopReason
  <2>7. Retries(p).status = None /\ Diverges(p).status = "quarantined" /\ Ends(p, stop).status = stop
    BY <2>4, VerdictSays
  <2> QED
    BY <1>1, <2>5, <2>6, <2>7
<1> QED
  BY <1>3, <1>4, <1>5, <1>6

\* Every step keeps what is said of a success.
LEMMA SuccessIsKept ==
    ASSUME DispatchInv, HistoryInv, HistoryInv', SuccessInv, Next
    PROVE  SuccessInv'
<1>1. setting' = setting /\ Moves /\ DispatchInv' /\ journal \in Seq(Records) /\ Followed
  BY StepsAreSound DEF Next, DispatchInv, TypeOK, HistoryInv, Followed
<1>2. None # "succeeded" /\ None # "failed"
  BY DispatchAssumption DEF Statuses
<1>3. SettledBehindRetry => SettledBehindRetry'
  BY <1>1, WritesOneRecord, OneRecordOn, NoRecordOn DEF HistoryInv
<1>4. ~SettledBehindRetry' => Unbroken(Cursor)
  BY <1>3 DEF HistoryInv
<1>5. ASSUME Conclusion' # Conclusion
      PROVE  /\ Conclude /\ pass # None /\ pass.mode # "Strict" /\ pass' = None /\ Cursor' = Cursor
             /\ Conclusion' = pass.status /\ LastConclusion'.key = <<pass.used, pass.spent>>
  <2>1. journal' # journal
    <3>1. journal' = journal => Positions("RunConcluded")' = Positions("RunConcluded")
      BY DEF Positions
    <3>2. journal' = journal => LastAt("RunConcluded")' = LastAt("RunConcluded")
      BY <3>1 DEF LastAt
    <3> QED
      BY <1>5, <3>1, <3>2 DEF Conclusion
  <2>2. PICK r \in Records : RecordOK(r) /\ journal' = Append(journal, r) /\ Writes(r)
    BY <1>1, <2>1, WritesAre
  <2>3. r.kind = "RunConcluded" /\ Conclusion' = r.says /\ LastConclusion' = r
    BY <1>1, <1>5, <2>2, ConclusionMoves
  <2>4. /\ Conclude /\ pass.mode # "Strict"
        /\ r = Rec("RunConcluded", <<pass.used, pass.spent>>, pass.status, pass.diverged, 0)
    <3>1. \A kind, state : <<kind, state>> \in Opening => kind # "RunConcluded"
      BY DEF Opening
    <3>2. Plain("BudgetReadmitted", Here, None).kind = "BudgetReadmitted"
      BY DEF Plain, Rec
    <3>3. r.kind \notin Outcomes
      BY <2>3 DEF Outcomes
    <3> QED
      BY <2>2, <2>3, <3>1, <3>2, <3>3, ZenonT(30) DEF Writes
  <2>5. pass # None /\ pass' = None
    BY <2>4 DEF Conclude, At
  <2>6. Cursor' = Cursor
    BY <1>1, <2>4, EndingsAreInOrder DEF HistoryInv
  <2> QED
    BY <2>3, <2>4, <2>5, <2>6 DEF Rec
<1>6. passes' = 0 => pass' = None /\ Conclusion' = None
  <2> SUFFICES ASSUME passes' = 0 PROVE pass' = None /\ Conclusion' = None
    OBVIOUS
  <2>1. passes \in Nat
    BY SettingIs DEF DispatchInv, TypeOK
  <2>2. passes = 0 /\ ~Execute /\ ~Resume /\ ~Verify
    <3>1. ~Execute /\ ~Resume
      BY <2>1 DEF Execute, Resume
    <3>2. passes' = passes
      BY <1>1, <3>1, PassesStay
    <3>3. ~Verify
      BY <3>2 DEF Verify
    <3> QED
      BY <3>1, <3>2, <3>3
  <2>3. pass = None /\ Conclusion = None
    BY <2>2 DEF SuccessInv
  <2>4. Conclusion' = Conclusion
    BY <1>5, <2>3
  <2>5. pass' = None
    <3>1. ~Step /\ ~Crash
      BY <2>3 DEF Step, ReplayDone, ReplayDiverges, ReplayDenial, ReplayWithheld, ReplayRefusal, ReplayFailed,
                  ReplayOrphan, HistoryEnds, Withhold, Deny, Refuse, Announce, Cleared, Perform, RecordOutcome,
                  FailToRecord, Probe, Conclude, Crash, Reads, At
    <3> QED
      BY <1>1, <2>2, <2>3, <3>1 DEF Moves, ReconcileEffect, DecideQuarantine, RaiseCeiling, SetHalt
  <2> QED
    BY <2>3, <2>4, <2>5
<1>7. Conclusion' = "succeeded" /\ pass' # None => pass'.mode = "Strict"
  BY <1>1, <1>5, SuccessIsClosed
<1>8. SuccessIsBilled'
  <2> SUFFICES ASSUME pass' # None, pass'.status = "succeeded", ~SettledBehindRetry'
               PROVE  Complete(Cursor)' /\ HasBilled(Len(Cursor))'
    BY DEF SuccessIsBilled
  <2>1. CASE pass # None /\ pass' = pass /\ journal' = journal
    <3>1. Complete(Cursor) /\ HasBilled(Len(Cursor))
      BY <1>3, <2>1 DEF SuccessInv, SuccessIsBilled
    <3>2. Cursor' = Cursor /\ pass' = pass /\ Program' = Program
      BY <1>1, <2>1 DEF Cursor, Program
    <3> QED
      BY <3>1, <3>2 DEF Complete, HasBilled
  <2>2. CASE ReplayDone
    <3>1. pass'.pc = "conclude"
      BY <1>1, <1>2 DEF DispatchInv, TypeOK
    <3> QED
      BY <1>1, <1>4, <2>2, <3>1, ReadingSucceeds
  <2>3. CASE RecordOutcome \/ Probe
    BY <1>1, <2>3, WorkSucceeds
  <2>4. ~(ReplayDenial \/ ReplayFailed \/ Deny \/ FailToRecord)
    BY FailuresAreNot
  <2> QED
    BY <1>1, <2>1, <2>2, <2>3, <2>4, DecidedBy DEF Decides
<1>9. SuccessIsRecorded'
  <2> SUFFICES ASSUME Conclusion' = "succeeded", ~SettledBehindRetry'
               PROVE  /\ Complete(Cursor)'
                      /\ LastConclusion'.key = <<Len(Cursor), Costs(Cursor)[Len(Cursor)]>>'
                      /\ pass' # None /\ pass'.pc = "conclude" => pass'.status = "succeeded"
    BY DEF SuccessIsRecorded, LastConclusion
  <2>1. CASE Conclusion # "succeeded"
    <3>1. /\ pass # None /\ pass' = None /\ Cursor' = Cursor /\ pass.status = "succeeded"
          /\ LastConclusion'.key = <<pass.used, pass.spent>>
      BY <1>5, <2>1
    <3>2. Complete(Cursor) /\ HasBilled(Len(Cursor))
      BY <1>3, <3>1 DEF SuccessInv, SuccessIsBilled
    <3> QED
      BY <1>1, <3>1, <3>2 DEF Complete, HasBilled, Program
  <2>2. CASE Conclusion = "succeeded"
    <3>1. journal' = journal
      BY <1>1, <2>2, SuccessIsClosed
    <3>2. /\ Complete(Cursor)
          /\ LastConclusion.key = <<Len(Cursor), Costs(Cursor)[Len(Cursor)]>>
          /\ pass # None /\ pass.pc = "conclude" => pass.status = "succeeded"
      BY <1>3, <2>2 DEF SuccessInv, SuccessIsRecorded, LastConclusion
    <3>3. Cursor' = Cursor /\ LastConclusion' = LastConclusion /\ Complete(Cursor)'
      BY <1>1, <3>1, <3>2 DEF Cursor, LastConclusion, LastAt, Positions, Complete, Program
    <3>4. ASSUME pass' # None, pass'.pc = "conclude"
          PROVE  pass'.status = "succeeded"
      <4>1. CASE pass = None
        <5>1. pass'.mode = "Strict"
          BY <1>1, <2>2, <3>4, SuccessIsClosed
        <5>2. ~Step /\ ~Crash
          BY <4>1 DEF Step, ReplayDone, ReplayDiverges, ReplayDenial, ReplayWithheld, ReplayRefusal, ReplayFailed,
                      ReplayOrphan, HistoryEnds, Withhold, Deny, Refuse, Announce, Cleared, Perform, RecordOutcome,
                      FailToRecord, Probe, Conclude, Crash, Reads, At
        <5>3. Execute \/ Resume \/ Verify
          BY <1>1, <3>4, <4>1, <5>2 DEF Moves, ReconcileEffect, DecideQuarantine, RaiseCeiling, SetHalt
        <5>4. Verify
          BY <1>2, <2>2, <5>3 DEF Execute, Resume, ResumeIsClosed, SuccessInv
        <5> QED
          BY <3>4, <5>4 DEF Verify, Fresh
      <4>2. CASE pass # None
        <5>1. pass.mode = "Strict"
          BY <2>2, <4>2 DEF SuccessInv
        <5>2. CASE pass.pc = "conclude"
          <6>1. pass' = pass
            BY <1>1, <3>4, <4>2, <5>1, <5>2, StrictStaysStrict
               DEF ReplayDone, ReplayDiverges, ReplayDenial, ReplayWithheld, ReplayRefusal, ReplayFailed,
                   ReplayOrphan, HistoryEnds, Reads, At
          <6> QED
            BY <3>2, <4>2, <5>2, <6>1
        <5>3. CASE pass.pc # "conclude"
          BY <1>1, <1>4, <3>2, <3>4, <4>2, <5>1, <5>3, VerifyingSucceeds
        <5> QED
          BY <5>2, <5>3
      <4> QED
        BY <4>1, <4>2
    <3> QED
      BY <3>2, <3>3, <3>4
  <2> QED
    BY <2>1, <2>2
<1> QED
  BY <1>6, <1>7, <1>8, <1>9 DEF SuccessInv

\* So verifying a run that succeeded succeeds, and bills what its record says.
LEMMA VerifyingReproduces ==
    ASSUME SuccessInv
    PROVE  StrictReproduces
<1> SUFFICES ASSUME pass # None, pass.pc = "conclude", Conclusion = "succeeded", ~SettledBehindRetry
             PROVE  /\ pass.status = "succeeded"
                    /\ <<pass.used, pass.spent>> = journal[LastAt("RunConcluded")].key
  BY DEF StrictReproduces, At
<1>1. /\ pass.status = "succeeded"
      /\ journal[LastAt("RunConcluded")].key = <<Len(Cursor), Costs(Cursor)[Len(Cursor)]>>
  BY DEF SuccessInv, SuccessIsRecorded
<1>2. HasBilled(Len(Cursor))
  BY <1>1 DEF SuccessInv, SuccessIsBilled
<1> QED
  BY <1>1, <1>2 DEF HasBilled

-----------------------------------------------------------------------------
(* Doubt is not failure *)

\* What the last record about an effect says, one record on.
IsAbout(r, e) ==
    /\ r.kind \in {"EffectStarted", "EffectDone", "EffectFailed", "EffectReconciled"}
    /\ r.key[1] = e

LEMMA LastAboutMoves ==
    ASSUME journal \in Seq(Records), NEW r \in Records, journal' = Append(journal, r), NEW e
    PROVE  LastAbout(e)' = IF IsAbout(r, e) THEN r.says ELSE LastAbout(e)
<1>1. PICK n \in Nat : n = Len(journal) /\ DOMAIN journal = 1 .. n
  OBVIOUS
<1>2. PICK j : j = journal'
  OBVIOUS
<1>3. DOMAIN j = 1 .. n + 1 /\ j[n + 1] = r /\ \A i \in 1 .. n : j[i] = journal[i]
  BY <1>1, <1>2
<1>4. PICK T, U : T = {i \in 1 .. n : IsAbout(journal[i], e)} /\ U = {i \in 1 .. n + 1 : IsAbout(j[i], e)}
  OBVIOUS
<1>5. /\ LastAbout(e) = (IF T = {} THEN None ELSE journal[Max(T)].says)
      /\ LastAbout(e)' = (IF U = {} THEN None ELSE j[Max(U)].says)
  BY <1>1, <1>2, <1>3, <1>4 DEF LastAbout, IsAbout
<1>6. T \subseteq 0 .. n /\ U \subseteq 0 .. n + 1 /\ n + 1 \in Nat
  BY <1>4
<1>7. CASE IsAbout(r, e)
  <2>1. n + 1 \in U
    BY <1>3, <1>4, <1>7
  <2>2. Max(U) \in U /\ \A m \in U : m <= Max(U)
    BY <1>6, <2>1, MaxIs
  <2>3. PICK h : h = Max(U)
    OBVIOUS
  <2>4. h \in 1 .. n + 1 /\ n + 1 <= h
    BY <1>4, <2>1, <2>2, <2>3
  <2>5. h = n + 1
    BY <2>4
  <2> QED
    BY <1>3, <1>5, <1>7, <2>1, <2>3, <2>5
<1>8. CASE ~IsAbout(r, e)
  <2>1. U = T
    BY <1>3, <1>4, <1>8
  <2>2. T # {} => Max(T) \in 1 .. n
    BY <1>4, <1>6, MaxIs
  <2>3. T # {} => j[Max(T)] = journal[Max(T)]
    BY <1>3, <2>2
  <2> QED
    BY <1>5, <1>8, <2>1, <2>3
<1> QED
  BY <1>7, <1>8

\* An effect left in doubt is the one of the last position: that one is in doubt,
\* or is the gate its retry stopped at.
LastDoubt(slots, n, e) ==
    /\ n = Len(slots) /\ n \in DOMAIN slots /\ slots[n].key[1] = e
    /\ \/ slots[n].state = "InDoubt"
       \/ /\ n - 1 \in DOMAIN slots /\ slots[n - 1].state = "InDoubt" /\ slots[n - 1].key[1] = e
          /\ slots[n].state \notin Answerable /\ slots[n].key[2] = slots[n - 1].key[2] + 1

LEMMA DoubtIsLast ==
    ASSUME NEW slots \in Seq(Slots), InCallOrder(slots), NEW e, EndsInDoubt(slots, e)
    PROVE  \E n \in Nat \ {0} : LastDoubt(slots, n, e)
<1>1. PICK m \in DOMAIN slots :
            /\ slots[m].key[1] = e /\ slots[m].state = "InDoubt"
            /\ m = Len(slots) \/ (m = Len(slots) - 1 /\ slots[Len(slots)].state \notin Answerable)
  BY DEF EndsInDoubt
<1>2. PICK n \in Nat : n = Len(slots) /\ DOMAIN slots = 1 .. n
  OBVIOUS
<1>3. n \in Nat \ {0} /\ n \in DOMAIN slots
  BY <1>1, <1>2
<1>4. CASE m = n
  BY <1>1, <1>2, <1>3, <1>4 DEF LastDoubt
<1>5. CASE m = n - 1 /\ slots[n].state \notin Answerable
  <2>1. m \in 1 .. n - 1 /\ m + 1 = n
    BY <1>1, <1>2, <1>5
  <2>2. LeadsTo(slots[m], slots[n].key)
    BY <1>2, <2>1 DEF InCallOrder
  <2>3. slots[n].key = <<e, slots[m].key[2] + 1>>
    BY <1>1, <2>2 DEF LeadsTo, KeyAfter
  <2> QED
    BY <1>1, <1>2, <1>3, <1>5, <2>3 DEF LastDoubt
<1> QED
  BY <1>1, <1>2, <1>3, <1>4, <1>5

\* The frontier behind a doubt is its retry, and a gate met there keeps it last.
LEMMA DoubtBehindGate ==
    ASSUME NEW slots \in Seq(Slots), InCallOrder(slots), NEW e, EndsInDoubt(slots, e),
           NEW key, AtFrontier(slots, key)
    PROVE  /\ key[1] = e
           /\ \E m \in 1 .. Behind(slots) :
                    /\ m = Behind(slots) /\ m \in DOMAIN slots /\ slots[m].state = "InDoubt"
                    /\ slots[m].key[1] = e /\ key[2] = slots[m].key[2] + 1
<1>1. PICK n \in Nat \ {0} : LastDoubt(slots, n, e)
  BY DoubtIsLast
<1>2. n = Len(slots) /\ DOMAIN slots = 1 .. n /\ slots # <<>> /\ slots[n].key[1] = e
  BY <1>1 DEF LastDoubt
<1>3. \/ slots[n].state \in Dispositions /\ key = KeyAfter(slots[n])
      \/ slots[n].state = "Withheld" /\ key = slots[n].key
  BY <1>2 DEF AtFrontier
<1>4. CASE slots[n].state = "InDoubt"
  <2>1. key = <<slots[n].key[1], slots[n].key[2] + 1>>
    BY <1>3, <1>4 DEF KeyAfter
  <2>2. Behind(slots) = n /\ n \in 1 .. n
    BY <1>2, <1>4 DEF Behind
  <2> QED
    BY <1>2, <1>4, <2>1, <2>2
<1>5. CASE slots[n].state # "InDoubt"
  <2>1. /\ n - 1 \in DOMAIN slots /\ slots[n - 1].state = "InDoubt" /\ slots[n - 1].key[1] = e
        /\ slots[n].state \notin Answerable /\ slots[n].key[2] = slots[n - 1].key[2] + 1
    BY <1>1, <1>5 DEF LastDoubt
  <2>2. slots[n].state = "Withheld" /\ key = slots[n].key
    BY <1>3, <2>1 DEF Answerable
  <2>3. Behind(slots) = n - 1 /\ n - 1 \in 1 .. n - 1
    BY <1>2, <2>1, <2>2 DEF Behind
  <2> QED
    BY <1>2, <2>1, <2>2, <2>3
<1> QED
  BY <1>4, <1>5

LEMMA GateKeepsDoubt ==
    ASSUME NEW slots \in Seq(Slots), InCallOrder(slots), NEW e, EndsInDoubt(slots, e),
           NEW key, AtFrontier(slots, key), NEW x, x.state \notin Answerable,
           NEW u, u \in Seq(Slots), OpenedAfter(slots, x, u)
    PROVE  EndsInDoubt(u, e)
<1>1. PICK m \in 1 .. Behind(slots) :
            m = Behind(slots) /\ m \in DOMAIN slots /\ slots[m].state = "InDoubt" /\ slots[m].key[1] = e
  BY DoubtBehindGate
<1>2. m \in Nat /\ Len(u) = m + 1 /\ u[m + 1] = x /\ u[m] = slots[m] /\ DOMAIN u = 1 .. m + 1
  BY <1>1 DEF OpenedAfter
<1>3. m \in DOMAIN u /\ m = Len(u) - 1 /\ u[Len(u)].state \notin Answerable
  BY <1>1, <1>2
<1> QED
  BY <1>1, <1>2, <1>3 DEF EndsInDoubt

\* A refusal lifted leaves the doubt it stood behind.
LEMMA ReadmissionKeepsDoubt ==
    ASSUME NEW slots \in Seq(Slots), InCallOrder(slots), NEW e, EndsInDoubt(slots, e),
           slots[Len(slots)].state = "Refused",
           NEW t, t \in Seq(Slots), Len(t) = Len(slots) - 1, \A i \in 1 .. Len(slots) - 1 : t[i] = slots[i]
    PROVE  EndsInDoubt(t, e)
<1>1. PICK n \in Nat \ {0} : LastDoubt(slots, n, e)
  BY DoubtIsLast
<1>2. n = Len(slots) /\ n - 1 \in DOMAIN slots /\ slots[n - 1].state = "InDoubt" /\ slots[n - 1].key[1] = e
  BY <1>1 DEF LastDoubt
<1>3. n - 1 \in 1 .. n - 1 /\ t[n - 1] = slots[n - 1] /\ n - 1 \in DOMAIN t /\ Len(t) = n - 1
  BY <1>2
<1> QED
  BY <1>2, <1>3 DEF EndsInDoubt

\* An answer about another effect leaves the doubt.
LEMMA AnswerKeepsDoubt ==
    ASSUME NEW slots \in Seq(Slots), InCallOrder(slots), NEW e, EndsInDoubt(slots, e),
           NEW m \in DOMAIN slots, slots[m].key[1] # e,
           NEW t, t \in Seq(Slots), Len(t) = Len(slots), \A i \in DOMAIN slots : i # m => t[i] = slots[i]
    PROVE  EndsInDoubt(t, e)
<1>1. PICK n \in Nat \ {0} : LastDoubt(slots, n, e)
  BY DoubtIsLast
<1>2. n = Len(slots) /\ DOMAIN slots = 1 .. n /\ DOMAIN t = 1 .. n /\ n \in 1 .. n /\ t[n] = slots[n]
  BY <1>1 DEF LastDoubt
<1>3. CASE slots[n].state = "InDoubt"
  BY <1>1, <1>2, <1>3 DEF EndsInDoubt, LastDoubt
<1>4. CASE slots[n].state # "InDoubt"
  <2>1. n - 1 \in DOMAIN slots /\ slots[n - 1].state = "InDoubt" /\ slots[n - 1].key[1] = e /\ slots[n].state \notin Answerable
    BY <1>1, <1>4 DEF LastDoubt
  <2>2. t[n - 1] = slots[n - 1]
    BY <2>1
  <2> QED
    BY <1>2, <2>1, <2>2 DEF EndsInDoubt
<1> QED
  BY <1>3, <1>4

\* What the gate writes opens the position the pass is at, after those behind it.
LEMMA GateOpens ==
    ASSUME DispatchInv, Followed, setting' = setting, At("gate"), NEW kind, NEW state, <<kind, state>> \in Opening,
           journal' = Append(journal, Plain(kind, Here, None))
    PROVE  /\ Cursor \in Seq(Slots) /\ Cursor' \in Seq(Slots) /\ InCallOrder(Cursor) /\ AtFrontier(Cursor, Here)
           /\ OpenedAfter(Cursor, Slot(Here, state, FALSE, 0), Cursor')
<1>1. pass # None /\ pass.pc = "gate"
  BY DEF At
<1>2. Gated /\ Here \in Keys /\ setting \in Settings
  BY <1>1, AtTheGate, Running
<1>3. PICK r : r = Plain(kind, Here, None)
  OBVIOUS
<1>4. r \in Records /\ r.kind = kind /\ r.key = Here /\ Here \in Nat \X Nat
  <2>1. Here \in Nat \X Nat
    BY <1>2, KeyIs
  <2>2. kind \in OfEffects
    BY DEF Opening, OfEffects
  <2> QED
    BY <1>3, <2>1, <2>2 DEF Plain, Rec, Records
<1>5. Cursor' = Open(Cursor, Here, state) /\ state \in States
  <2>1. Cursor' = Apply(Cursor, r)
    BY <1>3, <1>4, RecordsGrow DEF DispatchInv, TypeOK
  <2>2. \/ kind = "EffectStarted" /\ state = "Orphan"
        \/ kind = "BudgetRefused" /\ state = "Refused"
        \/ kind = "AuthorityWithheld" /\ state = "Withheld"
        \/ kind = "PolicyDenied" /\ state = "Denied"
    BY DEF Opening
  <2> QED
    BY <1>4, <2>1, <2>2 DEF Apply, States
<1>6. Cursor \in Seq(Slots) /\ OneSlotPerKey(Cursor) /\ InCallOrder(Cursor) /\ AtFrontier(Cursor, Here)
  BY <1>1 DEF DispatchInv, CursorIsSound, Followed, ReadsItsHistory, AtEdge
<1>7. Cursor' \in Seq(Slots)
  <2>1. \A s \in ToSet(Cursor) : s.key = Here => s.state = "Withheld"
    BY <1>2 DEF Gated, Known
  <2> QED
    BY <1>4, <1>5, <1>6, <2>1, OpenIs
<1>8. ASSUME NEW i \in DOMAIN Cursor, Cursor[i].key = Here
      PROVE  i = Len(Cursor) /\ Cursor[i].state = "Withheld"
  <2>1. Cursor[i].state = "Withheld"
    BY <1>2, <1>8 DEF Gated, Known, ToSet
  <2>2. i \in 1 .. Len(Cursor) /\ Len(Cursor) \in Nat
    BY <1>6
  <2>3. ~(i \in 1 .. Len(Cursor) - 1)
    BY <1>6, <2>1 DEF InCallOrder, Dispositions
  <2> QED
    BY <2>1, <2>2, <2>3
<1>9. PICK u : u = Cursor' /\ u = Open(Cursor, Here, state)
  BY <1>5
<1>10. OpenedAfter(Cursor, Slot(Here, state, FALSE, 0), u)
  BY <1>4, <1>5, <1>6, <1>8, <1>9, OpenedInOrder
<1> QED
  BY <1>6, <1>7, <1>9, <1>10

\* A pass at work is at the last position, which nothing but its own doubt
\* leaves in doubt.
LEMMA WorksOnItsDoubt ==
    ASSUME DispatchInv, Followed, DoubtsAreLast, pass # None, pass.pc \in Working,
           NEW e \in Effects, LastAbout(e) = "InDoubt"
    PROVE  /\ e = pass.e
           /\ \E s \in Known : s.key = Here /\ s.state = "InDoubt"
<1>1. /\ Cursor # <<>> /\ Cursor[Len(Cursor)].key = Here /\ InCallOrder(Cursor) /\ Cursor \in Seq(Slots)
      /\ OneSlotPerKey(Cursor)
  BY DEF Followed, ReadsItsHistory, DispatchInv, CursorIsSound
<1>2. PICK n \in Nat \ {0} : LastDoubt(Cursor, n, e)
  BY <1>1, DoubtIsLast DEF DoubtsAreLast
<1>3. n = Len(Cursor) /\ n \in DOMAIN Cursor /\ Cursor[n].key = Here /\ Cursor[n].key[1] = e /\ Cursor[n] \in Known
  BY <1>1, <1>2 DEF LastDoubt, Known, ToSet
<1>4. PICK old \in Known : old.key = Here /\ old.state \in Answerable
  BY AtWork DEF UnderWay, Working
<1>5. Cursor[n] = old
  BY <1>1, <1>3, <1>4 DEF OneSlotPerKey, Known, ToSet
<1>6. Cursor[n].state = "InDoubt"
  BY <1>2, <1>3, <1>4, <1>5 DEF LastDoubt
<1>7. Here[1] = pass.e
  BY AtWork
<1> QED
  BY <1>3, <1>6, <1>7

\* An outcome leaves its own effect last, or every other doubt where it is.
LEMMA AnswersKeepDoubts ==
    ASSUME DispatchInv, EvidenceInv, HistoryInv, DoubtsAreLast, setting' = setting, Answering,
           NEW e \in Effects, LastAbout(e)' = "InDoubt"
    PROVE  EndsInDoubt(Cursor, e)'
<1>1. /\ Followed /\ DoubtsMutate /\ Cursor \in Seq(Slots) /\ InCallOrder(Cursor) /\ journal \in Seq(Records)
      /\ setting \in Settings
  BY DEF HistoryInv, Followed, DispatchInv, CursorIsSound, TypeOK
<1>2. CASE RecordOutcome \/ Probe
  <2>1. pass # None /\ pass.pc \in Working
    BY <1>2 DEF RecordOutcome, Probe, At, Working
  <2>2. PICK d, r, p : SaysOf(d, r, p) /\ (d = "InDoubt" => StateSaid(r) = d)
    <3>1. CASE RecordOutcome
      BY <3>1, OutcomeSays
    <3>2. CASE Probe
      BY <3>2, ProbeSays
    <3> QED
      BY <1>2, <3>1, <3>2
  <2>3. /\ r \in Records /\ RecordOK(r) /\ r.kind \in Outcomes /\ r.key = Here /\ r.says = d
        /\ journal' = Append(journal, r)
    BY <2>2 DEF SaysOf
  <2>4. IsAbout(r, pass.e)
    <3>1. Here[1] = pass.e
      BY <2>1, AtWork
    <3> QED
      BY <2>3, <3>1 DEF IsAbout, Outcomes
  <2>5. e = pass.e
    <3>1. CASE IsAbout(r, e)
      BY <2>4, <3>1 DEF IsAbout
    <3>2. CASE ~IsAbout(r, e)
      <4>1. LastAbout(e) = "InDoubt"
        BY <1>1, <2>3, <3>2, LastAboutMoves
      <4> QED
        BY <1>1, <2>1, <4>1, WorksOnItsDoubt
    <3> QED
      BY <3>1, <3>2
  <2>6. d = "InDoubt"
    BY <1>1, <2>3, <2>4, <2>5, LastAboutMoves
  <2>7. Cursor # <<>> /\ Cursor[Len(Cursor)].key = Here
    BY <1>1, <2>1 DEF Followed, ReadsItsHistory
  <2>8. PICK n \in Nat : n = Len(Cursor) /\ n \in DOMAIN Cursor
    BY <1>1, <2>7
  <2>9. PICK t : t = Cursor'
    OBVIOUS
  <2>10. SettledAt(Cursor, n, r, t)
    BY <1>1, <2>3, <2>7, <2>8, <2>9, OutcomeIsInOrder
  <2>11. t \in Seq(Slots) /\ Len(t) = n /\ t[n].key = Here /\ t[n].state = "InDoubt" /\ n \in DOMAIN t /\ Here[1] = e
    <3>1. Here[1] = pass.e
      BY <2>1, AtWork
    <3> QED
      BY <1>1, <2>2, <2>3, <2>5, <2>6, <2>8, <2>10, <3>1 DEF SettledAt
  <2>12. EndsInDoubt(t, e)
    BY <2>11 DEF EndsInDoubt
  <2> QED
    BY <2>9, <2>12
<1>3. CASE \E k \in Keys : ReconcileEffect(k)
  <2>1. PICK k \in Keys : ReconcileEffect(k)
    BY <1>3
  <2>2. PICK d \in {"Landed", "DidNotHappen"} : d = IF world[k] > 0 THEN "Landed" ELSE "DidNotHappen"
    OBVIOUS
  <2>3. PICK r : r = Plain("EffectReconciled", k, d)
    OBVIOUS
  <2>4. k \in UndecidedEffects /\ journal' = Append(journal, r)
    BY <2>1, <2>2, <2>3 DEF ReconcileEffect, Write
  <2>5. r \in Records /\ RecordOK(r) /\ r.kind = "EffectReconciled" /\ r.kind \in Outcomes /\ r.key = k /\ r.says = d
    <3>1. k \in Nat \X Nat
      BY <1>1, KeyIs
    <3> QED
      BY <2>3, <3>1 DEF Plain, Rec, Records, RecordOK, OfEffects, Outcomes, Dispositions
  <2>6. PICK m \in DOMAIN Cursor : Cursor[m].key = k /\ Cursor[m].state # "Done"
    <3>1. PICK old \in Known : old.key = k
      BY <2>4 DEF DispatchInv, DoubtsAreSlots, CursorIsSound
    <3>2. old.state \in {"Orphan", "InDoubt"}
      BY <1>1, <2>4, <3>1, UndecidedIsOpen
    <3> QED
      BY <3>1, <3>2 DEF Known, ToSet
  <2>7. PICK t : t = Cursor'
    OBVIOUS
  <2>8. SettledAt(Cursor, m, r, t)
    BY <1>1, <2>4, <2>5, <2>6, <2>7, OutcomeIsInOrder
  <2>9. ~IsAbout(r, e) /\ LastAbout(e) = "InDoubt"
    BY <1>1, <2>2, <2>4, <2>5, LastAboutMoves
  <2>10. k[1] # e
    BY <2>5, <2>9 DEF IsAbout
  <2>11. EndsInDoubt(Cursor, e)
    BY <2>9 DEF DoubtsAreLast
  <2>12. EndsInDoubt(t, e)
    BY <1>1, <2>6, <2>8, <2>10, <2>11, AnswerKeepsDoubt DEF SettledAt
  <2> QED
    BY <2>7, <2>12
<1> QED
  BY <1>2, <1>3 DEF Answering

\* A step that writes nothing says nothing new about an effect.
LEMMA NothingSaid ==
    ASSUME UNCHANGED <<setting, journal>>
    PROVE  /\ Cursor' = Cursor /\ Known' = Known /\ Effects' = Effects /\ Program' = Program
           /\ \A e : LastAbout(e)' = LastAbout(e)
           /\ \A kind : Positions(kind)' = Positions(kind)
BY DEF Cursor, Known, Effects, Program, LastAbout, Positions

\* Every step leaves what is in doubt last.
LEMMA DoubtsStayLast ==
    ASSUME DispatchInv, DispatchInv', EvidenceInv, HistoryInv, DoubtsAreLast, Next
    PROVE  DoubtsAreLast'
<1>1. /\ setting' = setting /\ Followed /\ Cursor \in Seq(Slots) /\ InCallOrder(Cursor) /\ OneSlotPerKey(Cursor)
      /\ journal \in Seq(Records)
  BY DEF Next, HistoryInv, Followed, DispatchInv, CursorIsSound, TypeOK
<1>2. CASE journal' = journal
  BY <1>1, <1>2, NothingSaid DEF DoubtsAreLast, EndsInDoubt
<1>3. CASE journal' # journal
  <2>1. PICK r \in Records : RecordOK(r) /\ journal' = Append(journal, r) /\ Writes(r)
    BY <1>3, WritesAre
  <2> SUFFICES ASSUME NEW e \in Effects, LastAbout(e)' = "InDoubt"
               PROVE  EndsInDoubt(Cursor, e)'
    BY <1>1 DEF DoubtsAreLast, Effects, Program
  <2>2. PICK t : t = Cursor'
    OBVIOUS
  <2>3. t = Apply(Cursor, r)
    BY <1>1, <2>1, <2>2, RecordsGrow
  <2>4. None # "InDoubt"
    BY DispatchAssumption DEF Dispositions
  <2>5. ~IsAbout(r, e) => LastAbout(e) = "InDoubt" /\ EndsInDoubt(Cursor, e)
    BY <1>1, <2>1, LastAboutMoves DEF DoubtsAreLast
  <2>6. CASE r.kind \in {"RunConcluded", "QuarantineDecided"}
    <3>1. t = Cursor
      BY <2>3, <2>6 DEF Apply
    <3>2. EndsInDoubt(t, e)
      BY <2>5, <2>6, <3>1 DEF IsAbout
    <3> QED
      BY <2>2, <3>2
  <2>7. CASE At("gate") /\ \E state : <<r.kind, state>> \in Opening /\ r = Plain(r.kind, Here, None)
    <3>1. PICK state : <<r.kind, state>> \in Opening /\ r = Plain(r.kind, Here, None)
      BY <2>7
    <3>2. /\ t \in Seq(Slots) /\ AtFrontier(Cursor, Here) /\ OpenedAfter(Cursor, Slot(Here, state, FALSE, 0), t)
      BY <1>1, <2>1, <2>2, <2>7, <3>1, GateOpens
    <3>3. r.key = Here /\ r.says = None
      BY <3>1 DEF Plain, Rec
    <3>4. ~IsAbout(r, e) /\ EndsInDoubt(Cursor, e)
      BY <1>1, <2>1, <2>4, <2>5, <3>3, LastAboutMoves
    <3>5. Here[1] = e
      BY <1>1, <3>2, <3>4, DoubtBehindGate
    <3>6. Slot(Here, state, FALSE, 0).state \notin Answerable
      <4>1. r.kind # "EffectStarted"
        BY <3>3, <3>4, <3>5 DEF IsAbout
      <4>2. state \in {"Refused", "Withheld", "Denied"}
        BY <3>1, <4>1 DEF Opening
      <4> QED
        BY <4>2 DEF Slot, Answerable, Dispositions
    <3>7. EndsInDoubt(t, e)
      BY <1>1, <3>2, <3>4, <3>6, GateKeepsDoubt
    <3> QED
      BY <2>2, <3>7
  <2>8. CASE ReplayRefusal /\ r = Plain("BudgetReadmitted", Here, None)
    <3>1. r.kind = "BudgetReadmitted" /\ r.key = Here
      BY <2>8 DEF Plain, Rec
    <3>2. Reads({"Refused"})
      BY <2>8 DEF ReplayRefusal
    <3>3. NextSlot.state = "Refused" /\ NextSlot.state \notin Dispositions
      BY <3>2 DEF Reads, Dispositions
    <3>4. /\ pass.pos + 1 = Len(Cursor) /\ NextSlot = Cursor[pass.pos + 1] /\ NextSlot.key = Here
          /\ pass.pos \in Nat /\ Here = Asked(Cursor, pass.pos)
      BY <1>1, <3>2, <3>3, ReadsNext
    <3>5. PICK n \in Nat \ {0} : n = Len(Cursor) /\ n - 1 = pass.pos
      BY <1>1, <3>4
    <3>6. t = Readmit(Cursor, Here)
      BY <2>3, <3>1 DEF Apply
    <3>7. Cursor[n].key = Here /\ Cursor[n].state = "Refused" /\ Here = Asked(Cursor, n - 1)
      BY <3>3, <3>4, <3>5
    <3>8. t \in Seq(Slots) /\ Len(t) = n - 1 /\ \A i \in 1 .. n - 1 : t[i] = Cursor[i]
      BY <1>1, <3>5, <3>6, <3>7, ReadmittedInOrder
    <3>9. EndsInDoubt(Cursor, e)
      BY <2>5, <3>1 DEF IsAbout
    <3>10. EndsInDoubt(t, e)
      BY <1>1, <3>5, <3>7, <3>8, <3>9, ReadmissionKeepsDoubt
    <3> QED
      BY <2>2, <3>10
  <2>9. CASE Answering
    BY <1>1, <2>9, AnswersKeepDoubts
  <2>10. Conclude /\ r = Rec("RunConcluded", <<pass.used, pass.spent>>, pass.status, pass.diverged, 0)
         => r.kind = "RunConcluded"
    BY DEF Rec
  <2> QED
    BY <2>1, <2>6, <2>7, <2>8, <2>9, <2>10, ZenonT(30) DEF Writes
<1> QED
  BY <1>2, <1>3

\* Every position the cursor shows as denied was denied on the record.
LEMMA DenialsAreRecorded ==
    ASSUME DispatchInv, DispatchInv', DeniedIsRecorded, Next
    PROVE  DeniedIsRecorded'
<1>1. setting' = setting /\ Cursor \in Seq(Slots) /\ OneSlotPerKey(Cursor) /\ journal \in Seq(Records)
  BY DEF Next, DispatchInv, CursorIsSound, TypeOK
<1>2. CASE journal' = journal
  BY <1>1, <1>2, NothingSaid DEF DeniedIsRecorded
<1>3. CASE journal' # journal
  <2>1. PICK r \in Records : RecordOK(r) /\ journal' = Append(journal, r)
    BY <1>3, WritesOneRecord
  <2>2. PICK n \in Nat : n = Len(journal) /\ DOMAIN journal = 1 .. n
    BY <1>1
  <2>3. PICK j : j = journal'
    OBVIOUS
  <2>4. DOMAIN j = 1 .. n + 1 /\ j[n + 1] = r /\ \A i \in 1 .. n : j[i] = journal[i]
    BY <1>1, <2>1, <2>2, <2>3
  <2> SUFFICES ASSUME NEW s \in Known', s.state = "Denied"
               PROVE  \E i \in 1 .. n + 1 : j[i].kind = "PolicyDenied" /\ j[i].key = s.key
    BY <2>3, <2>4 DEF DeniedIsRecorded, Positions
  <2>5. s \in ToSet(Apply(Cursor, r))
    BY <1>1, <2>1, RecordsGrow DEF Known
  <2>6. CASE s \in ToSet(Cursor)
    <3>1. PICK i \in 1 .. n : journal[i].kind = "PolicyDenied" /\ journal[i].key = s.key
      BY <2>2, <2>6 DEF DeniedIsRecorded, Known, Positions
    <3> QED
      BY <2>4, <3>1
  <2>7. CASE r.kind \in Outcomes /\ s.state = StateSaid(r)
    <3>1. StateSaid(r) # "Denied"
      BY <2>1, <2>7 DEF RecordOK, StateSaid, Dispositions
    <3> QED
      BY <2>7, <3>1
  <2>8. CASE \E state : <<r.kind, state>> \in Opening /\ s = Slot(r.key, state, FALSE, 0)
    <3>1. PICK state : <<r.kind, state>> \in Opening /\ s = Slot(r.key, state, FALSE, 0)
      BY <2>8
    <3>2. s.state = state /\ s.key = r.key
      BY <3>1 DEF Slot
    <3>3. r.kind = "PolicyDenied"
      BY <3>1, <3>2 DEF Opening
    <3> QED
      BY <2>2, <2>4, <3>2, <3>3
  <2> QED
    BY <1>1, <2>5, <2>6, <2>7, <2>8, AppliedSlots
<1> QED
  BY <1>2, <1>3

\* A mutation in doubt is never judged a failure.
LEMMA DoubtIsNoVerdict ==
    ASSUME NEW k, Declared(k).mutates, NEW perm
    PROVE  StopReason("InDoubt", perm, k) # "failed"
<1>1. None # "failed"
  BY DispatchAssumption DEF Statuses
<1> QED
  BY <1>1 DEF StopReason

\* A pass that meets a recorded denial has nothing in doubt but what policy kept
\* it from repeating.
LEMMA DenialReadExcuses ==
    ASSUME DispatchInv, HistoryInv, DoubtsAreLast, DeniedIsRecorded, ReplayDenial, pass.mode # "Strict"
    PROVE  ExcusedDoubts
<1>1. /\ Followed /\ Cursor \in Seq(Slots) /\ InCallOrder(Cursor) /\ Reads({"Denied"})
  BY DEF HistoryInv, Followed, DispatchInv, CursorIsSound, ReplayDenial
<1>2. NextSlot.state = "Denied" /\ NextSlot.state \notin Dispositions
  BY <1>1 DEF Reads, Dispositions
<1>3. pass.pos + 1 = Len(Cursor) /\ NextSlot = Cursor[pass.pos + 1]
  BY <1>1, <1>2, ReadsNext
<1> SUFFICES ASSUME NEW e \in Effects, Program[e].mutates, LastAbout(e) = "InDoubt"
             PROVE  Program[e].recovery = "Retry" /\ \E i \in Positions("PolicyDenied") : journal[i].key[1] = e
  BY DEF ExcusedDoubts
<1>4. PICK n \in Nat \ {0} : LastDoubt(Cursor, n, e)
  BY <1>1, DoubtIsLast DEF DoubtsAreLast
<1>5. /\ n - 1 \in DOMAIN Cursor /\ n \in DOMAIN Cursor /\ Cursor[n].state = "Denied" /\ Cursor[n].key[1] = e
      /\ Cursor[n - 1].state = "InDoubt" /\ Cursor[n - 1].key[1] = e /\ Cursor[n].key[2] = Cursor[n - 1].key[2] + 1
  BY <1>2, <1>3, <1>4 DEF LastDoubt
<1>6. PICK s \in Known, t \in Known : s = Cursor[n - 1] /\ t = Cursor[n]
  BY <1>5 DEF Known, ToSet
<1>7. s.key \in Nat \X Nat
  <2>1. s \in Slots
    BY <1>1, <1>5, <1>6
  <2> QED
    BY <2>1 DEF Slots
<1>8. ~Guarded(s.key)
  <2>1. s.key[2] < t.key[2] /\ s.key[1] = t.key[1] /\ s.state # "DidNotHappen"
    BY <1>5, <1>6, <1>7
  <2> QED
    BY <2>1 DEF DispatchInv, RetriedOnEvidence
<1>9. Program[e].recovery = "Retry"
  BY <1>5, <1>6, <1>8 DEF Guarded, Declared
<1>10. \E i \in Positions("PolicyDenied") : journal[i].key = t.key
  BY <1>5, <1>6 DEF DeniedIsRecorded
<1> QED
  BY <1>5, <1>6, <1>9, <1>10

\* A recorded failure that ends its pass is the last position, and no doubt.
LEMMA FailureReadExcuses ==
    ASSUME DispatchInv, HistoryInv, DoubtsAreLast, ReplayFailed, pass.mode # "Strict", pass'.status = "failed"
    PROVE  ExcusedDoubts
<1>1. /\ Followed /\ Cursor \in Seq(Slots) /\ InCallOrder(Cursor)
  BY DEF HistoryInv, Followed, DispatchInv, CursorIsSound
<1>2. PICK states : Reads(states) /\ states = {"Landed", "InDoubt", "DidNotHappen"}
  BY ZenonT(30) DEF ReplayFailed
<1>3. /\ pass \in Passes /\ pass.slots = Cursor /\ pass.pos \in Nat /\ pass.pos + 1 \in 1 .. Len(Cursor)
      /\ NextSlot = Cursor[pass.pos + 1] /\ NextSlot.key = Here /\ Len(Cursor) \in Nat
  BY <1>1, <1>2, ReadsNext
<1>4. pass.status = None /\ pass # None
  <2>1. pass # None /\ pass.pc = "consult"
    BY <1>2 DEF Reads, At
  <2> QED
    BY <2>1, Running
<1>5. PICK p, stop : p = Bill(Past, 1, NextSlot.spend) /\ stop = StopReason(NextSlot.state, NextSlot.perm, Here)
  OBVIOUS
<1>6. Consumed(p)
  <2>1. NextSlot.spend \in Nat
    BY <1>2, SlotIsRead DEF Slots
  <2> QED
    BY <1>2, <1>5, <2>1, Consuming
<1>7. /\ p \in Passes /\ p.slots = Cursor /\ p.pos = pass.pos + 1 /\ p.e = pass.e /\ p.a = pass.a /\ p.status = None
  BY <1>3, <1>4, <1>6 DEF Consumed
<1>8. /\ Retries(p).status # "failed" /\ Diverges(p).status # "failed" /\ Ends(p, stop).status = stop
      /\ None # "failed"
  <2>1. None # "failed"
    BY DispatchAssumption DEF Statuses
  <2> QED
    BY <1>7, <2>1, VerdictSays
<1>9. /\ ~(p.pos < Len(p.slots) /\ p.slots[p.pos + 1].key = <<p.e, p.a + 1>>)
      /\ stop = "failed"
  BY <1>5, <1>8, ZenonT(30) DEF ReplayFailed
<1>10. pass.pos + 1 = Len(Cursor)
  <2> SUFFICES ASSUME pass.pos + 1 # Len(Cursor) PROVE FALSE
    OBVIOUS
  <2>1. pass.pos + 1 \in 1 .. Len(Cursor) - 1
    BY <1>3
  <2>2. LeadsTo(NextSlot, Cursor[(pass.pos + 1) + 1].key)
    BY <1>1, <1>3, <2>1 DEF InCallOrder
  <2>3. NextSlot.state # "Done" /\ Here = <<pass.e, pass.a>>
    BY <1>2 DEF Reads, Here
  <2>4. Cursor[(pass.pos + 1) + 1].key = <<pass.e, pass.a + 1>>
    BY <1>3, <2>2, <2>3 DEF LeadsTo, KeyAfter
  <2>5. p.pos < Len(p.slots)
    BY <1>3, <1>7, <2>1
  <2> QED
    BY <1>7, <1>9, <2>4, <2>5
<1> SUFFICES ASSUME NEW e \in Effects, Program[e].mutates, LastAbout(e) = "InDoubt"
             PROVE  FALSE
  BY DEF ExcusedDoubts
<1>11. PICK n \in Nat \ {0} : LastDoubt(Cursor, n, e)
  BY <1>1, DoubtIsLast DEF DoubtsAreLast
<1>12. NextSlot.state \in Answerable
  BY <1>2 DEF Reads, Answerable, Dispositions
<1>13. NextSlot.state = "InDoubt" /\ Here[1] = e
  BY <1>3, <1>10, <1>11, <1>12 DEF LastDoubt
<1>14. Declared(Here).mutates
  BY <1>13 DEF Declared
<1> QED
  BY <1>5, <1>9, <1>13, <1>14, DoubtIsNoVerdict

\* What policy denies at the gate is the only thing that can be in doubt there.
LEMMA DenyingExcuses ==
    ASSUME DispatchInv, HistoryInv, DoubtsAreLast, setting' = setting, Deny
    PROVE  ExcusedDoubts'
<1>1. Followed /\ journal \in Seq(Records) /\ setting \in Settings
  BY DEF HistoryInv, Followed, DispatchInv, TypeOK
<1>2. At("gate") /\ journal' = Append(journal, Plain("PolicyDenied", Here, None))
  BY DEF Deny, Cleared, Write
<1>3. PICK r : r = Plain("PolicyDenied", Here, None)
  OBVIOUS
<1>4. pass # None /\ pass.pc = "gate" /\ Here \in Keys /\ Gated
  BY <1>2, AtTheGate, Running DEF At
<1>5. r \in Records /\ r.kind = "PolicyDenied" /\ r.key = Here
  <2>1. Here \in Nat \X Nat
    BY <1>1, <1>4, KeyIs
  <2> QED
    BY <1>3, <2>1 DEF Plain, Rec, Records, OfEffects
<1>6. Cursor \in Seq(Slots) /\ InCallOrder(Cursor) /\ AtFrontier(Cursor, Here)
  <2>1. <<"PolicyDenied", "Denied">> \in Opening
    BY DEF Opening
  <2> QED
    BY <1>1, <1>2, <2>1, GateOpens
<1> SUFFICES ASSUME NEW e \in Effects, Program[e].mutates, LastAbout(e)' = "InDoubt"
             PROVE  Program[e].recovery = "Retry" /\ \E i \in Positions("PolicyDenied")' : journal'[i].key[1] = e
  BY DEF ExcusedDoubts, Effects, Program
<1>7. LastAbout(e) = "InDoubt"
  BY <1>1, <1>2, <1>3, <1>5, LastAboutMoves DEF IsAbout
<1>8. EndsInDoubt(Cursor, e)
  BY <1>7 DEF DoubtsAreLast
<1>9. PICK m \in DOMAIN Cursor :
        Here[1] = e /\ Cursor[m].state = "InDoubt" /\ Cursor[m].key[1] = e /\ Here[2] = Cursor[m].key[2] + 1
  BY <1>6, <1>8, DoubtBehindGate
<1>10. PICK s \in Known : s = Cursor[m]
  BY <1>9 DEF Known, ToSet
<1>11. s.key \in Nat \X Nat
  <2>1. s \in Slots
    BY <1>6, <1>9, <1>10
  <2> QED
    BY <2>1 DEF Slots
<1>12. s.key # Here
  BY <1>9, <1>10, <1>11
<1>13. ~Guarded(Here)
  BY <1>4, <1>9, <1>10, <1>12 DEF Gated
<1>14. Program[e].recovery = "Retry"
  BY <1>9, <1>13 DEF Guarded, Declared
<1>15. PICK j, n : j = journal' /\ n = Len(journal) + 1
  OBVIOUS
<1>16. n \in DOMAIN j /\ j[n] = r
  BY <1>1, <1>2, <1>3, <1>5, <1>15
<1> QED
  BY <1>5, <1>9, <1>14, <1>15, <1>16 DEF Positions

\* A failure recorded, or a probe's, leaves nothing in doubt.
LEMMA WorkExcuses ==
    ASSUME DispatchInv, HistoryInv, DoubtsAreLast, setting' = setting, RecordOutcome \/ Probe, pass'.status = "failed"
    PROVE  ExcusedDoubts'
<1>1. Followed /\ journal \in Seq(Records)
  BY DEF HistoryInv, Followed, DispatchInv, TypeOK
<1>2. pass # None /\ pass.pc \in Working
  BY DEF RecordOutcome, Probe, At, Working
<1>3. PICK d, r, p, perm : /\ SaysOf(d, r, p)
                           /\ \/ pass' = Answered(p) \/ (\E pc : pass' = [p EXCEPT !.pc = pc])
                              \/ pass' = Ends(p, "quarantined") \/ pass' = FailedVerdict(p, d, perm)
  <2>1. CASE RecordOutcome
    <3>1. PICK d, r, p : \E perm \in BOOLEAN :
                /\ SaysOf(d, r, p)
                /\ pass' = CASE d = "Done" -> Answered(p)
                             [] d = "InDoubt" /\ Declared(Here).recovery = "Reconcile" -> [p EXCEPT !.pc = "probe"]
                             [] OTHER -> FailedVerdict(p, d, perm)
      BY <2>1, OutcomeSays
    <3> QED
      BY <3>1
  <2>2. CASE Probe
    <3>1. PICK d, r, p :
                /\ SaysOf(d, r, p)
                /\ pass' = CASE d = "Landed" -> Answered(p)
                             [] pass.pc = "ask" /\ d = "DidNotHappen" -> [p EXCEPT !.pc = "act"]
                             [] pass.pc = "ask" /\ d = "InDoubt" -> Ends(p, "quarantined")
                             [] OTHER -> FailedVerdict(p, d, FALSE)
      BY <2>2, ProbeSays
    <3> QED
      BY <3>1
  <2> QED
    BY <2>1, <2>2
<1>4. /\ r \in Records /\ r.kind \in Outcomes /\ r.key = Here /\ r.says = d /\ journal' = Append(journal, r)
      /\ p \in Passes /\ p.e = pass.e /\ p.a = pass.a /\ p.status = None
  BY <1>3 DEF SaysOf
<1>5. None # "failed"
  BY DispatchAssumption DEF Statuses
<1>6. pass' = FailedVerdict(p, d, perm)
  <2>1. /\ Answered(p).status # "failed" /\ Ends(p, "quarantined").status # "failed"
        /\ \A pc : [p EXCEPT !.pc = pc].status # "failed"
    BY <1>4, <1>5, VerdictSays
  <2>2. PICK q : q = pass' /\ q.status = "failed"
    OBVIOUS
  <2>3. q # Answered(p) /\ q # Ends(p, "quarantined") /\ \A pc : q # [p EXCEPT !.pc = pc]
    BY <2>1, <2>2, Zenon
  <2> QED
    BY <1>3, <2>2, <2>3, Zenon
<1>7. <<p.e, p.a>> = Here /\ Here[1] = pass.e
  BY <1>2, <1>4, AtWork DEF Here
<1>8. StopReason(d, perm, Here) = "failed"
  <2>1. PICK stop : stop = StopReason(d, perm, Here)
    OBVIOUS
  <2>2. pass' = IF stop = None THEN Retries(p) ELSE Ends(p, stop)
    BY <1>6, <1>7, <2>1 DEF FailedVerdict
  <2>3. Retries(p).status = None /\ Ends(p, stop).status = stop
    BY <1>4, VerdictSays
  <2> QED
    BY <1>5, <2>1, <2>2, <2>3
<1> SUFFICES ASSUME NEW e \in Effects, Program[e].mutates, LastAbout(e)' = "InDoubt"
             PROVE  FALSE
  BY DEF ExcusedDoubts, Effects, Program
<1>9. IsAbout(r, pass.e)
  BY <1>4, <1>7 DEF IsAbout, Outcomes
<1>10. e = pass.e
  <2>1. CASE IsAbout(r, e)
    BY <1>9, <2>1 DEF IsAbout
  <2>2. CASE ~IsAbout(r, e)
    <3>1. LastAbout(e) = "InDoubt"
      BY <1>1, <1>4, <2>2, LastAboutMoves
    <3> QED
      BY <1>1, <1>2, <3>1, WorksOnItsDoubt
  <2> QED
    BY <2>1, <2>2
<1>11. d = "InDoubt"
  BY <1>1, <1>4, <1>9, <1>10, LastAboutMoves
<1>12. Declared(Here).mutates
  BY <1>7, <1>10 DEF Declared
<1> QED
  BY <1>8, <1>11, <1>12, DoubtIsNoVerdict

\* A call whose outcome the store does not take was made of no doubt.
LEMMA UnrecordedExcuses ==
    ASSUME DispatchInv, EvidenceInv, HistoryInv, DoubtsAreLast, FailToRecord
    PROVE  ExcusedDoubts
<1>1. Followed /\ OneSlotPerKey(Cursor)
  BY DEF HistoryInv, Followed, DispatchInv, CursorIsSound
<1>2. pass # None /\ pass.pc = "record" /\ pass.pc \in Working
  BY DEF FailToRecord, At, Working
<1> SUFFICES ASSUME NEW e \in Effects, Program[e].mutates, LastAbout(e) = "InDoubt"
             PROVE  FALSE
  BY DEF ExcusedDoubts
<1>3. e = pass.e /\ \E s \in Known : s.key = Here /\ s.state = "InDoubt"
  BY <1>1, <1>2, WorksOnItsDoubt
<1>4. \A s \in Known : s.key = Here => s.state = "InDoubt"
  <2>1. \A s, t \in Known : s.key = t.key => s = t
    BY <1>1 DEF OneSlotPerKey, Known, ToSet
  <2> QED
    BY <1>3, <2>1
<1>5. Here[1] = pass.e /\ UnderWay
  BY <1>2, AtWork
<1>6. Declared(Here).mutates
  BY <1>3, <1>5 DEF Declared
<1>7. CASE Guarded(Here)
  BY <1>2, <1>4, <1>5, <1>7 DEF UnderWay
<1>8. CASE ~Guarded(Here)
  <2>1. Unprobed(Here)
    BY <1>6, <1>8 DEF Guarded, Unprobed
  <2> QED
    BY <1>2, <1>4, <2>1 DEF EvidenceInv, CalledAsOrphan
<1> QED
  BY <1>7, <1>8

\* A pass that may write fails over no doubt but what policy kept it from repeating.
LEMMA FailuresAreExcused ==
    ASSUME DispatchInv, EvidenceInv, HistoryInv, DoubtsAreLast, DeniedIsRecorded, FailsWithoutDoubt, Next
    PROVE  FailsWithoutDoubt'
<1> SUFFICES ASSUME pass' # None, pass'.mode # "Strict", pass'.status = "failed"
             PROVE  ExcusedDoubts'
  BY DEF FailsWithoutDoubt
<1>1. setting' = setting /\ Moves
  BY DEF Next
<1>2. ASSUME journal' = journal, ExcusedDoubts PROVE ExcusedDoubts'
  BY <1>1, <1>2, NothingSaid DEF ExcusedDoubts
<1>3. Decides \/ (pass # None /\ pass' = pass /\ journal' = journal)
  BY <1>1, DecidedBy
<1>4. CASE pass # None /\ pass' = pass /\ journal' = journal
  BY <1>2, <1>4 DEF FailsWithoutDoubt
<1>5. ASSUME pass # None PROVE pass.mode # "Strict"
  <2> SUFFICES ASSUME pass.mode = "Strict" PROVE FALSE
    OBVIOUS
  <2> QED
    BY <1>1, <1>5, StrictStaysStrict
<1>6. CASE ReplayDenial
  <2>1. pass # None /\ journal' = journal
    BY <1>6 DEF ReplayDenial, Reads, At
  <2> QED
    BY <1>2, <1>5, <1>6, <2>1, DenialReadExcuses
<1>7. CASE ReplayFailed
  <2>1. pass # None /\ journal' = journal
    BY <1>7, ZenonT(30) DEF ReplayFailed, Reads, At
  <2> QED
    BY <1>2, <1>5, <1>7, <2>1, FailureReadExcuses
<1>8. CASE Deny
  BY <1>1, <1>8, DenyingExcuses
<1>9. CASE RecordOutcome \/ Probe
  BY <1>1, <1>9, WorkExcuses
<1>10. CASE FailToRecord
  <2>1. journal' = journal
    BY <1>10, ZenonT(30) DEF FailToRecord
  <2> QED
    BY <1>2, <1>10, <2>1, UnrecordedExcuses
<1>11. ~ReplayDone
  <2> SUFFICES ASSUME ReplayDone PROVE FALSE
    OBVIOUS
  <2>1. Reads({"Done"})
    BY DEF ReplayDone
  <2>2. PICK p : p = Bill(Past, 1, NextSlot.spend)
    OBVIOUS
  <2>3. NextSlot.spend \in Nat
    BY <2>1, SlotIsRead DEF Slots
  <2>4. Consumed(p) /\ pass.status = None
    <3>1. pass # None /\ pass.pc = "consult"
      BY <2>1 DEF Reads, At
    <3> QED
      BY <2>1, <2>2, <2>3, <3>1, Consuming, Running
  <2>5. p \in Passes /\ p.status = None /\ pass' = Answered(p)
    BY <2>2, <2>4 DEF ReplayDone, Consumed
  <2>6. None # "failed"
    BY DispatchAssumption DEF Statuses
  <2> QED
    BY <2>5, <2>6, VerdictSays
<1> QED
  BY <1>3, <1>4, <1>6, <1>7, <1>8, <1>9, <1>10, <1>11 DEF Decides

\* A run concludes as failed over no other doubt either.
LEMMA ConclusionsAreExcused ==
    ASSUME DispatchInv, DispatchInv', FailsWithoutDoubt, DoubtIsNotFailure, Next
    PROVE  DoubtIsNotFailure'
<1>1. setting' = setting /\ journal \in Seq(Records)
  BY DEF Next, DispatchInv, TypeOK
<1>2. CASE journal' = journal
  BY <1>1, <1>2, NothingSaid DEF DoubtIsNotFailure
<1>3. CASE journal' # journal
  <2>1. PICK r \in Records : RecordOK(r) /\ journal' = Append(journal, r) /\ Writes(r)
    BY <1>3, WritesAre
  <2>2. PICK n \in Nat : n = Len(journal) /\ DOMAIN journal = 1 .. n
    BY <1>1
  <2>3. PICK j : j = journal'
    OBVIOUS
  <2>4. DOMAIN j = 1 .. n + 1 /\ Len(j) = n + 1 /\ j[n + 1] = r /\ \A i \in 1 .. n : j[i] = journal[i]
    BY <1>1, <2>1, <2>2, <2>3
  <2>5. Last(journal)' = r
    BY <2>3, <2>4 DEF Last
  <2> SUFFICES ASSUME r.kind = "RunConcluded", r.says = "failed",
                      NEW e \in Effects, Program[e].mutates, LastAbout(e)' = "InDoubt"
               PROVE  /\ Program[e].recovery = "Retry"
                      /\ \E i \in Positions("PolicyDenied")' : journal'[i].key[1] = e
    BY <1>1, <2>5 DEF DoubtIsNotFailure, Effects, Program
  <2>6. LastAbout(e) = "InDoubt"
    BY <1>1, <2>1, LastAboutMoves DEF IsAbout
  <2>7. /\ Conclude /\ pass.mode # "Strict"
        /\ r = Rec("RunConcluded", <<pass.used, pass.spent>>, pass.status, pass.diverged, 0)
    <3>1. \A kind, state : <<kind, state>> \in Opening => kind # "RunConcluded"
      BY DEF Opening
    <3>2. Plain("BudgetReadmitted", Here, None).kind = "BudgetReadmitted"
      BY DEF Plain, Rec
    <3>3. r.kind \notin Outcomes
      BY DEF Outcomes
    <3> QED
      BY <2>1, <3>1, <3>2, <3>3, ZenonT(30) DEF Writes
  <2>8. pass # None /\ pass.status = "failed"
    BY <2>7 DEF Conclude, At, Rec
  <2>9. ExcusedDoubts
    BY <2>7, <2>8 DEF FailsWithoutDoubt
  <2>10. Program[e].recovery = "Retry" /\ \E i \in Positions("PolicyDenied") : journal[i].key[1] = e
    BY <2>6, <2>9 DEF ExcusedDoubts
  <2>11. PICK i \in 1 .. n : journal[i].kind = "PolicyDenied" /\ journal[i].key[1] = e
    BY <2>2, <2>10 DEF Positions
  <2>12. i \in DOMAIN j /\ j[i] = journal[i]
    BY <2>4
  <2> QED
    BY <2>3, <2>10, <2>11, <2>12 DEF Positions
<1> QED
  BY <1>2, <1>3

LEMMA InitDoubtsNothing ==
    ASSUME Init
    PROVE  DoubtInv
<1>1. journal = <<Plain("RunAdmitted", None, None)>> /\ pass = None
  BY DEF Init
<1>2. journal[1].kind = "RunAdmitted" /\ DOMAIN journal = {1} /\ Len(journal) = 1
  BY <1>1 DEF Plain, Rec
<1>3. Last(journal).kind # "RunConcluded"
  BY <1>2 DEF Last
<1>4. \A e : LastAbout(e) = None /\ None # "InDoubt"
  BY <1>2, DispatchAssumption DEF LastAbout, Dispositions
<1>5. Known = {}
  <2>1. SlotsAreOpened
    BY InitIsFollowed DEF HistoryInv
  <2> QED
    BY <1>2, <2>1 DEF SlotsAreOpened, OfEffects, Outcomes
<1> QED
  BY <1>1, <1>3, <1>4, <1>5 DEF DoubtInv, DoubtsAreLast, DeniedIsRecorded, FailsWithoutDoubt, DoubtIsNotFailure

\* Every step keeps doubt apart from failure.
LEMMA DoubtsStayApart ==
    ASSUME DispatchInv, EvidenceInv, HistoryInv, DoubtInv, [Next]_vars
    PROVE  DoubtInv'
<1>1. CASE Next
  <2>1. DispatchInv'
    BY <1>1, StepsAreSound
  <2> QED
    BY <1>1, <2>1, DoubtsStayLast, DenialsAreRecorded, FailuresAreExcused, ConclusionsAreExcused DEF DoubtInv
<1>2. CASE UNCHANGED vars
  <2>1. setting' = setting /\ journal' = journal /\ pass' = pass
    BY <1>2 DEF vars, execution
  <2>2. /\ Cursor' = Cursor /\ Known' = Known /\ Effects' = Effects /\ Program' = Program
        /\ \A e : LastAbout(e)' = LastAbout(e)
        /\ \A kind : Positions(kind)' = Positions(kind)
    BY <2>1, NothingSaid
  <2>3. DoubtsAreLast' /\ DeniedIsRecorded'
    BY <2>1, <2>2 DEF DoubtInv, DoubtsAreLast, EndsInDoubt, DeniedIsRecorded
  <2>4. FailsWithoutDoubt' /\ DoubtIsNotFailure'
    BY <2>1, <2>2 DEF DoubtInv, FailsWithoutDoubt, ExcusedDoubts, DoubtIsNotFailure
  <2> QED
    BY <2>3, <2>4 DEF DoubtInv
<1> QED
  BY <1>1, <1>2

\* Every step, and none, keeps what is said of a success.
LEMMA SuccessStays ==
    ASSUME DispatchInv, HistoryInv, HistoryInv', SuccessInv, [Next]_vars
    PROVE  SuccessInv'
<1>1. CASE UNCHANGED vars
  <2>1. setting' = setting /\ journal' = journal /\ pass' = pass /\ passes' = passes
    BY <1>1 DEF vars, execution
  <2>2. Cursor' = Cursor /\ Program' = Program /\ \A kind : Positions(kind)' = Positions(kind)
    BY <2>1, NothingSaid
  <2>3. Conclusion' = Conclusion /\ LastAt("RunConcluded")' = LastAt("RunConcluded")
    <3>1. Positions("RunConcluded")' = Positions("RunConcluded")
      BY <2>2
    <3>2. LastAt("RunConcluded")' = LastAt("RunConcluded")
      BY <3>1 DEF LastAt
    <3> QED
      BY <2>1, <3>1, <3>2 DEF Conclusion
  <2>4. SettledBehindRetry' <=> SettledBehindRetry
    BY <2>1 DEF SettledBehindRetry, Positions
  <2> QED
    BY <2>1, <2>2, <2>3, <2>4 DEF SuccessInv, SuccessIsBilled, SuccessIsRecorded, Complete, HasBilled
<1>2. CASE Next
  BY <1>2, SuccessIsKept
<1> QED
  BY <1>1, <1>2

\* The cursor, the world and the pass agree, whoever dies and whoever answers.
THEOREM DispatchIsSound == Spec => []DispatchInv
<1>1. Init => DispatchInv
  BY InitIsSound
<1>2. DispatchInv /\ [Next]_vars => DispatchInv'
  BY StepsAreSound
<1> QED
  BY <1>1, <1>2, PTL DEF Spec

\* The cursor, the list of doubts and the evidence say the same of an attempt.
THEOREM EvidenceIsTold == Spec => []EvidenceInv
<1>1. Init => EvidenceInv
  BY InitIsTold
<1>2. DispatchInv /\ EvidenceInv /\ [Next]_vars => EvidenceInv'
  BY StepsAreTold
<1> QED
  BY <1>1, <1>2, DispatchIsSound, PTL DEF Spec

\* For any program of effects, number of attempts, passes and records: a call
\* that reached the world is announced, a mutation left to an operator lands at
\* most once, a mutation that repeating could duplicate is called again only on
\* recorded evidence that it did not happen, and a denied one is never called.
THEOREM CallsLandOnEvidence == Spec => []LandsOnEvidence
<1>1. DispatchInv /\ EvidenceInv => LandsOnEvidence
  BY CalledOnEvidence, DoubtsAreTold DEF DispatchInv, LandsOnEvidence
<1> QED
  BY <1>1, DispatchIsSound, EvidenceIsTold, PTL

\* Every attempt the replay cursor cannot answer is listed for an operator until
\* the effect is done, and a mutation that landed, or is recorded as done, is
\* evidence for the unwind, whatever crashed, was retried or was answered since.
THEOREM DoubtsAreKnown == Spec => []DoubtIsKnown
<1>1. DispatchInv /\ EvidenceInv => DoubtIsKnown
  BY DoubtsAreTold
<1> QED
  BY <1>1, DispatchIsSound, EvidenceIsTold, PTL

\* Every pass asks for what the positions it has read lead to and has billed
\* them; none finds a position it does not ask for, unless an operator settled
\* as landed an attempt the run had gone past.
THEOREM HistoryIsInOrder == Spec => []HistoryInv
<1>1. Init => HistoryInv
  BY InitIsFollowed
<1>2. DispatchInv /\ EvidenceInv /\ HistoryInv /\ [Next]_vars => HistoryInv'
  BY StepsAreFollowed
<1> QED
  BY <1>1, <1>2, DispatchIsSound, EvidenceIsTold, PTL DEF Spec

\* For any program of effects and any settings, crashes, retries, refusals,
\* withholdings, denials and operators' answers: a resume never disagrees with
\* its own history and verifying a run that succeeded bills what its record says
\* (but for an answer about an attempt the run had gone past), a run in doubt
\* about a mutation does not conclude as failed unless policy denied repeating
\* what may be repeated, and a position has at most one standing refusal.
THEOREM HistoryIsKept == Spec => []HistoryIsFollowed
<1>1. Init => SuccessInv /\ DoubtInv /\ RefusalInv
  BY InitHasNotSucceeded, InitDoubtsNothing, InitRefusesNothing
<1>2. DispatchInv /\ HistoryInv /\ HistoryInv' /\ SuccessInv /\ [Next]_vars => SuccessInv'
  BY SuccessStays
<1>3. DispatchInv /\ EvidenceInv /\ HistoryInv /\ DoubtInv /\ [Next]_vars => DoubtInv'
  BY DoubtsStayApart
<1>4. DispatchInv /\ RefusalInv /\ [Next]_vars => RefusalInv'
  BY RefusalsDoNotStack
<1>5. DispatchInv /\ HistoryInv /\ SuccessInv /\ DoubtInv /\ RefusalInv => HistoryIsFollowed
  BY VerifyingReproduces, RefusalStandsOnce DEF HistoryIsFollowed, HistoryInv, DoubtInv
<1> QED
  BY <1>1, <1>2, <1>3, <1>4, <1>5, DispatchIsSound, EvidenceIsTold, HistoryIsInOrder, PTL DEF Spec

\* Verifying a run neither writes a record nor makes a call, whatever the
\* history it meets.
THEOREM VerifyingIsPure == Spec => StrictIsPure
<1>1. DispatchInv /\ [Next]_vars => [pass # None /\ pass.mode = "Strict" => UNCHANGED <<journal, world>>]_vars
  <2> SUFFICES ASSUME DispatchInv, Next, pass # None, pass.mode = "Strict"
               PROVE  UNCHANGED <<journal, world>>
    BY DEF vars
  <2>1. pass.pc \in {"consult", "conclude"} /\ pass \in Passes
    BY Running
  <2>2. Moves
    BY DEF Next
  <2>3. CASE Step
    <3>1. ~At("gate") /\ ~At("act") /\ ~At("record") /\ ~At("ask") /\ ~At("probe")
      BY <2>1 DEF At
    <3>2. ~WritesEnabled(Past)
      BY <2>1, MovedPast DEF WritesEnabled
    <3>3. CASE ReplayRefusal
      BY <3>2, <3>3 DEF ReplayRefusal
    <3>4. CASE Conclude
      BY <3>4 DEF Conclude
    <3>5. CASE ReplayDone \/ ReplayDiverges \/ ReplayDenial \/ ReplayWithheld
      BY <3>5 DEF ReplayDone, ReplayDiverges, ReplayDenial, ReplayWithheld
    <3>6. CASE ReplayFailed \/ ReplayOrphan \/ HistoryEnds
      BY <3>6, ZenonT(30) DEF ReplayFailed, ReplayOrphan, HistoryEnds
    <3>7. ~Withhold /\ ~Deny /\ ~Refuse /\ ~Announce /\ ~Perform /\ ~RecordOutcome /\ ~FailToRecord /\ ~Probe
      BY <3>1, ZenonT(30) DEF Withhold, Deny, Refuse, Announce, Cleared, Perform, RecordOutcome, FailToRecord, Probe
    <3> QED
      BY <2>3, <3>3, <3>4, <3>5, <3>6, <3>7 DEF Step
  <2>4. CASE Crash \/ SetHalt
    BY <2>4 DEF Crash, SetHalt
  <2>5. CASE Execute \/ Resume \/ Verify \/ RaiseCeiling
    BY <2>5 DEF Execute, Resume, Verify, RaiseCeiling
  <2>6. CASE \E k \in Keys : ReconcileEffect(k)
    BY <2>6 DEF ReconcileEffect
  <2>7. CASE \E decision \in {"Reopen", "Abandon"} : DecideQuarantine(decision)
    BY <2>7 DEF DecideQuarantine
  <2> QED
    BY <2>2, <2>3, <2>4, <2>5, <2>6, <2>7 DEF Moves
<1> QED
  BY <1>1, DispatchIsSound, PTL DEF Spec, StrictIsPure
=============================================================================
