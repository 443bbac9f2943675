------------------------- MODULE RunLifecycleProofs -------------------------
(***************************************************************************)
(* What a run's life guarantees for any plan, any number of crashes, of    *)
(* operators' calls and of steps: a recorded stop is final for forward     *)
(* work, a conclusion that closes the run is its last word, and a pass     *)
(* that gives the lease back leaves the run where somebody finds it.       *)
(*                                                                         *)
(* The model reads its records back by searching for the last one of a     *)
(* kind.  The lemmas about reading say what one more record changes in     *)
(* what is read; the steps are argued from those.                          *)
(***************************************************************************)
EXTENDS RunLifecycle, FiniteSetTheorems, WellFoundedInduction, NaturalsInduction, TLAPS

-----------------------------------------------------------------------------
(* Numbers *)

\* A nonempty set of numbers has a least one.
LEMMA LeastOf ==
    ASSUME NEW T, T \subseteq Nat, T # {}
    PROVE  \E n \in T : \A m \in T : n <= m
<1>1. PICK n \in T : \A m \in T : ~ (<<m, n>> \in OpToRel(<, Nat))
  BY WFMin, NatLessThanWellFounded, Zenon
<1>2. \A m \in T : ~(m < n)
  BY <1>1 DEF OpToRel
<1> QED
  BY <1>2

\* What Latest finds among the first n records, and when one more counts.
LEMMA LastOf ==
    ASSUME NEW n \in Nat, NEW T, T \subseteq 1 .. n
    PROVE  /\ Max({0} \cup T) \in {0} \cup T /\ Max({0} \cup T) \in 0 .. n
           /\ Max({0} \cup T) = 0 <=> T = {}
           /\ Max({0} \cup (T \cup {n + 1})) = n + 1
<1> DEFINE S == {0} \cup T
           U == {n - m : m \in S}
<1>1. S \subseteq 0 .. n
  OBVIOUS
<1>2. U \subseteq Nat /\ U # {}
  <2>1. \A m \in S : n - m \in Nat
    BY <1>1
  <2> QED
    BY <2>1
<1>3. PICK u \in U : \A v \in U : u <= v
  BY <1>2, LeastOf
<1>4. PICK x \in S : u = n - x
  OBVIOUS
<1>5. \A m \in S : n - x <= n - m
  BY <1>3, <1>4
<1>6. \A m \in S : x >= m
  BY <1>1, <1>5
<1>7. Max(S) \in S /\ \A m \in S : Max(S) >= m
  <2> HIDE DEF S, U
  <2> QED
    BY <1>6 DEF Max
<1>8. Max({0} \cup (T \cup {n + 1})) = n + 1
  <2> DEFINE R == {0} \cup (T \cup {n + 1})
  <2>1. n + 1 \in R /\ \A m \in R : n + 1 >= m
    OBVIOUS
  <2>2. \A y \in R : (\A m \in R : y >= m) => y = n + 1
    BY <2>1
  <2> HIDE DEF R
  <2>3. Max(R) \in R /\ \A m \in R : Max(R) >= m
    BY <2>1 DEF Max
  <2> QED
    BY <2>2, <2>3 DEF R
<1>9. Max(S) = 0 <=> T = {}
  <2>1. \A t \in T : t \in S /\ t \in 1 .. n
    OBVIOUS
  <2>2. T = {} => S = {0}
    OBVIOUS
  <2>3. PICK y : y = Max(S)
    OBVIOUS
  <2> HIDE DEF S, U
  <2>4. y \in S /\ y \in 0 .. n
    BY <1>1, <1>7, <2>3
  <2>5. \A m \in S : y >= m
    BY <1>7, <2>3
  <2>6. ASSUME T # {} PROVE y # 0
    <3>1. PICK t \in T : TRUE
      BY <2>6
    <3>2. y >= t /\ t \in 1 .. n
      BY <2>1, <2>5, <3>1
    <3> QED
      BY <2>4, <3>2
  <2> QED
    BY <2>2, <2>3, <2>4, <2>6
<1> QED
  BY <1>1, <1>7, <1>8, <1>9

-----------------------------------------------------------------------------
(* Reading the records back *)

\* The indices one more record adds.
LEMMA OneMore ==
    ASSUME NEW X, NEW q \in Seq(X), NEW r
    PROVE  /\ Append(q, r) \in Seq(X \cup {r})
           /\ DOMAIN q = 1 .. Len(q) /\ Len(q) \in Nat
           /\ DOMAIN Append(q, r) = DOMAIN q \cup {Len(q) + 1}
           /\ Len(Append(q, r)) = Len(q) + 1
           /\ Append(q, r)[Len(q) + 1] = r
           /\ \A i \in DOMAIN q : Append(q, r)[i] = q[i]
           /\ Len(q) + 1 \notin DOMAIN q
<1>1. Len(q) \in Nat /\ DOMAIN q = 1 .. Len(q)
  OBVIOUS
<1> QED
  BY <1>1

\* The last record of a kind among the run's own.
LEMMA LastKindGrows ==
    ASSUME NEW X, journal[0] \in Seq(X), NEW r, journal'[0] = Append(journal[0], r), NEW kind
    PROVE  /\ LastKind(kind) \in 0 .. Len(journal[0])
           /\ LastKind(kind)' = IF r.kind = kind THEN Len(journal[0]) + 1 ELSE LastKind(kind)
<1> DEFINE q == journal[0]
           n == Len(q)
           T == {i \in DOMAIN q : q[i].kind = kind}
           T2 == {i \in DOMAIN Append(q, r) : Append(q, r)[i].kind = kind}
<1>1. n \in Nat /\ T \subseteq 1 .. n
  BY OneMore
<1>2. T2 = IF r.kind = kind THEN T \cup {n + 1} ELSE T
  BY OneMore
<1>3. LastKind(kind) = Max({0} \cup T)
  BY DEF LastKind, Latest
<1>4. LastKind(kind)' = Max({0} \cup T2)
  BY DEF LastKind, Latest
<1> HIDE DEF T, T2, n, q
<1>5. Max({0} \cup T) \in 0 .. n /\ Max({0} \cup (T \cup {n + 1})) = n + 1
  BY <1>1, LastOf
<1>6. LastKind(kind)' = IF r.kind = kind THEN n + 1 ELSE LastKind(kind)
  BY <1>2, <1>3, <1>4, <1>5
<1> QED
  BY <1>3, <1>5, <1>6 DEF n, q

\* The run's conclusion.
LEMMA ConclusionGrows ==
    ASSUME NEW X, journal[0] \in Seq(X), NEW r, journal'[0] = Append(journal[0], r)
    PROVE  Conclusion' = IF r.kind = "RunConcluded" THEN r.says ELSE Conclusion
<1> DEFINE q == journal[0]
           more == Append(q, r)
           n == Len(q)
           T == {i \in DOMAIN q : q[i].kind = "RunConcluded"}
           T2 == {i \in DOMAIN more : more[i].kind = "RunConcluded"}
           hit == r.kind = "RunConcluded"
<1>1. /\ n \in Nat /\ T \subseteq 1 .. n
      /\ more[n + 1] = r /\ \A j \in 1 .. n : more[j] = q[j]
  BY OneMore
<1>2. T2 = IF hit THEN T \cup {n + 1} ELSE T
  BY OneMore
<1>3. Conclusion = IF Max({0} \cup T) = 0 THEN None ELSE q[Max({0} \cup T)].says
  BY DEF Conclusion, LastKind, Says, Latest
<1>4. Conclusion' = IF Max({0} \cup T2) = 0 THEN None ELSE more[Max({0} \cup T2)].says
  BY DEF Conclusion, LastKind, Says, Latest
<1> HIDE DEF q, more, n, T, T2, hit
<1>5. Max({0} \cup T) \in {0} \cup T /\ Max({0} \cup (T \cup {n + 1})) = n + 1
  BY <1>1, LastOf
<1>6. CASE hit
  <2>1. Max({0} \cup T2) = n + 1 /\ n + 1 # 0
    BY <1>1, <1>2, <1>5, <1>6
  <2>2. Conclusion' = r.says
    BY <1>1, <1>4, <2>1
  <2> QED
    BY <1>6, <2>2 DEF hit
<1>7. CASE ~hit
  <2>1. T2 = T
    BY <1>2, <1>7
  <2>2. Max({0} \cup T) # 0 => more[Max({0} \cup T)] = q[Max({0} \cup T)]
    BY <1>1, <1>5
  <2>3. Conclusion' = Conclusion
    BY <1>3, <1>4, <2>1, <2>2
  <2> QED
    BY <1>7, <2>3 DEF hit
<1> QED
  BY <1>6, <1>7

\* How a step ended.
LEMMA EndingGrows ==
    ASSUME NEW X, NEW s, journal[s] \in Seq(X), NEW r, journal'[s] = Append(journal[s], r)
    PROVE  Ending(s)' = IF r.kind = "StepFinished" THEN r.says ELSE Ending(s)
<1> DEFINE q == journal[s]
           more == Append(q, r)
           n == Len(q)
           T == {i \in DOMAIN q : q[i].kind = "StepFinished"}
           T2 == {i \in DOMAIN more : more[i].kind = "StepFinished"}
           hit == r.kind = "StepFinished"
<1>1. /\ n \in Nat /\ T \subseteq 1 .. n
      /\ more[n + 1] = r /\ \A j \in 1 .. n : more[j] = q[j]
  BY OneMore
<1>2. T2 = IF hit THEN T \cup {n + 1} ELSE T
  BY OneMore
<1>3. Ending(s) = IF Max({0} \cup T) = 0 THEN None ELSE q[Max({0} \cup T)].says
  BY DEF Ending, Says, Latest
<1>4. Ending(s)' = IF Max({0} \cup T2) = 0 THEN None ELSE more[Max({0} \cup T2)].says
  BY DEF Ending, Says, Latest
<1> HIDE DEF q, more, n, T, T2, hit
<1>5. Max({0} \cup T) \in {0} \cup T /\ Max({0} \cup (T \cup {n + 1})) = n + 1
  BY <1>1, LastOf
<1>6. CASE hit
  <2>1. Max({0} \cup T2) = n + 1 /\ n + 1 # 0
    BY <1>1, <1>2, <1>5, <1>6
  <2>2. Ending(s)' = r.says
    BY <1>1, <1>4, <2>1
  <2> QED
    BY <1>6, <2>2 DEF hit
<1>7. CASE ~hit
  <2>1. T2 = T
    BY <1>2, <1>7
  <2>2. Max({0} \cup T) # 0 => more[Max({0} \cup T)] = q[Max({0} \cup T)]
    BY <1>1, <1>5
  <2>3. Ending(s)' = Ending(s)
    BY <1>3, <1>4, <2>1, <2>2
  <2> QED
    BY <1>7, <2>3 DEF hit
<1> QED
  BY <1>6, <1>7

\* What is recorded of one effect.
LEMMA SlotGrows ==
    ASSUME NEW X, NEW s, journal[s] \in Seq(X), NEW r, journal'[s] = Append(journal[s], r),
           NEW phase, NEW i
    PROVE  Slot(s, phase, i)' =
                IF r.phase = phase /\ r.at = i THEN r.says ELSE Slot(s, phase, i)
<1> DEFINE q == journal[s]
           more == Append(q, r)
           n == Len(q)
           T == {j \in DOMAIN q : q[j].phase = phase /\ q[j].at = i}
           T2 == {j \in DOMAIN more : more[j].phase = phase /\ more[j].at = i}
           hit == r.phase = phase /\ r.at = i
<1>1. /\ n \in Nat /\ T \subseteq 1 .. n
      /\ more[n + 1] = r /\ \A j \in 1 .. n : more[j] = q[j]
  BY OneMore
<1>2. T2 = IF hit THEN T \cup {n + 1} ELSE T
  BY OneMore
<1>3. Slot(s, phase, i) = IF Max({0} \cup T) = 0 THEN None ELSE q[Max({0} \cup T)].says
  BY DEF Slot, Says, Latest
<1>4. Slot(s, phase, i)' = IF Max({0} \cup T2) = 0 THEN None ELSE more[Max({0} \cup T2)].says
  BY DEF Slot, Says, Latest
<1> HIDE DEF q, more, n, T, T2, hit
<1>5. Max({0} \cup T) \in {0} \cup T /\ Max({0} \cup (T \cup {n + 1})) = n + 1
  BY <1>1, LastOf
<1>6. CASE hit
  <2>1. Max({0} \cup T2) = n + 1 /\ n + 1 # 0
    BY <1>1, <1>2, <1>5, <1>6
  <2>2. Slot(s, phase, i)' = r.says
    BY <1>1, <1>4, <2>1
  <2> QED
    BY <1>6, <2>2 DEF hit
<1>7. CASE ~hit
  <2>1. T2 = T
    BY <1>2, <1>7
  <2>2. Max({0} \cup T) # 0 => more[Max({0} \cup T)] = q[Max({0} \cup T)]
    BY <1>1, <1>5
  <2>3. Slot(s, phase, i)' = Slot(s, phase, i)
    BY <1>3, <1>4, <2>1, <2>2
  <2> QED
    BY <1>7, <2>3 DEF hit
<1> QED
  BY <1>6, <1>7

\* Records that do not grow are read as before.
LEMMA RunReadsTheSame ==
    ASSUME journal'[0] = journal[0]
    PROVE  Conclusion' = Conclusion /\ \A kind : LastKind(kind)' = LastKind(kind)
  BY DEF Conclusion, LastKind, Says, Latest

LEMMA StepReadsTheSame ==
    ASSUME NEW s, journal'[s] = journal[s]
    PROVE  Ending(s)' = Ending(s) /\ \A phase, i : Slot(s, phase, i)' = Slot(s, phase, i)
  BY DEF Ending, Slot, Says, Latest

-----------------------------------------------------------------------------
(* What one write changes in what is read *)

\* Nothing read of the run itself, or of its steps, changes.
SameRun == Conclusion' = Conclusion /\ \A kind : LastKind(kind)' = LastKind(kind)
SameStep(s) == Ending(s)' = Ending(s) /\ \A phase, i : Slot(s, phase, i)' = Slot(s, phase, i)

LEMMA StepsAreNumbers ==
    ASSUME RecordsAreSound
    PROVE  /\ Steps \subseteq Nat \ {0} /\ 0 \notin Steps
           /\ plan.forward \in [Steps -> Seq(Operations)] /\ plan.undo \in [Steps -> Seq(Operations)]
  BY PlansAssumption DEF RecordsAreSound, Steps

\* A record goes where it belongs and nowhere else.
LEMMA WriteGoesHome ==
    ASSUME RecordsAreSound, NEW r \in Record, Write(r), plan' = plan
    PROVE  /\ journal' \in [{0} \cup Steps -> Seq(Record)]' /\ DOMAIN journal = {0} \cup Steps
           /\ Home(r) \in {0} \cup Steps /\ journal[Home(r)] \in Seq(Record)
           /\ journal'[Home(r)] = Append(journal[Home(r)], r)
           /\ \A h \in {0} \cup Steps : h # Home(r) => journal'[h] = journal[h]
           /\ last' = r.kind
<1>1. journal \in [{0} \cup Steps -> Seq(Record)]
  BY DEF RecordsAreSound
<1>2. Home(r) \in {0} \cup Steps
  BY DEF Home, Record
<1>3. Record' = Record /\ Steps' = Steps
  BY DEF Record, Steps
<1>4. Append(journal[Home(r)], r) \in Seq(Record)
  BY <1>1, <1>2
<1>5. journal' = [journal EXCEPT ![Home(r)] = Append(@, r)] /\ last' = r.kind
  BY DEF Write
<1> HIDE DEF Record
<1>6. journal' \in [{0} \cup Steps -> Seq(Record)]
  BY <1>1, <1>2, <1>4, <1>5
<1> QED
  BY <1>1, <1>2, <1>3, <1>5, <1>6

\* A record of the run.
LEMMA RunWrite ==
    ASSUME RecordsAreSound, NEW r \in Record, Write(r), plan' = plan, Home(r) = 0
    PROVE  /\ journal' \in [{0} \cup Steps -> Seq(Record)]' /\ last' = r.kind
           /\ \A s \in Steps : SameStep(s)
           /\ Conclusion' = IF r.kind = "RunConcluded" THEN r.says ELSE Conclusion
           /\ \A kind : Recorded(kind)' <=> (r.kind = kind \/ Recorded(kind))
<1>1. /\ journal' \in [{0} \cup Steps -> Seq(Record)]' /\ last' = r.kind
      /\ journal[0] \in Seq(Record) /\ journal'[0] = Append(journal[0], r)
      /\ \A s \in Steps : journal'[s] = journal[s]
  BY WriteGoesHome, StepsAreNumbers
<1>2. \A s \in Steps : SameStep(s)
  BY <1>1, StepReadsTheSame DEF SameStep
<1>3. Conclusion' = IF r.kind = "RunConcluded" THEN r.says ELSE Conclusion
  BY <1>1, ConclusionGrows
<1>4. ASSUME NEW kind PROVE Recorded(kind)' <=> (r.kind = kind \/ Recorded(kind))
  <2>1. /\ LastKind(kind)' = IF r.kind = kind THEN Len(journal[0]) + 1 ELSE LastKind(kind)
        /\ Len(journal[0]) \in Nat
    BY <1>1, LastKindGrows
  <2> QED
    BY <2>1 DEF Recorded
<1> QED
  BY <1>1, <1>2, <1>3, <1>4

\* A record of a step.
LEMMA StepWrite ==
    ASSUME RecordsAreSound, NEW r \in Record, Write(r), plan' = plan, NEW s \in Steps, Home(r) = s
    PROVE  /\ journal' \in [{0} \cup Steps -> Seq(Record)]' /\ last' = r.kind
           /\ SameRun /\ \A t \in Steps : t # s => SameStep(t)
           /\ Ending(s)' = IF r.kind = "StepFinished" THEN r.says ELSE Ending(s)
           /\ \A phase, i : Slot(s, phase, i)' =
                IF r.phase = phase /\ r.at = i THEN r.says ELSE Slot(s, phase, i)
<1>1. /\ journal' \in [{0} \cup Steps -> Seq(Record)]' /\ last' = r.kind
      /\ journal[s] \in Seq(Record) /\ journal'[s] = Append(journal[s], r)
      /\ journal'[0] = journal[0]
      /\ \A t \in Steps : t # s => journal'[t] = journal[t]
  BY WriteGoesHome, StepsAreNumbers
<1>2. \A t \in Steps : t # s => SameStep(t)
  BY <1>1, StepReadsTheSame DEF SameStep
<1>3. SameRun
  BY <1>1, RunReadsTheSame DEF SameRun
<1>4. Ending(s)' = IF r.kind = "StepFinished" THEN r.says ELSE Ending(s)
  BY <1>1, EndingGrows
<1>5. \A phase, i : Slot(s, phase, i)' = IF r.phase = phase /\ r.at = i THEN r.says ELSE Slot(s, phase, i)
  BY <1>1, SlotGrows
<1> QED
  BY <1>1, <1>2, <1>3, <1>4, <1>5

\* No record.
LEMMA NoWrite ==
    ASSUME UNCHANGED written
    PROVE  SameRun /\ \A s : SameStep(s)
  BY DEF written, SameRun, SameStep, Conclusion, LastKind, Ending, Slot, Says, Latest

-----------------------------------------------------------------------------
(* What the steps' records mean *)

\* A step whose records read the same is where it was.
LEMMA StepStands ==
    ASSUME NEW s \in Steps, SameStep(s), plan' = plan
    PROVE  /\ AllDone(s)' <=> AllDone(s)
           /\ WaitsIn(s)' <=> WaitsIn(s)
           /\ (s \in Succeeded)' <=> s \in Succeeded
<1>1. AllDone(s)' <=> AllDone(s)
  BY DEF SameStep, AllDone
<1>2. WaitsIn(s)' <=> WaitsIn(s)
  BY DEF SameStep, WaitsIn, Code, Phases
<1>3. (s \in Succeeded)' <=> s \in Succeeded
  BY DEF SameStep, Succeeded, Steps
<1> QED
  BY <1>1, <1>2, <1>3

\* A wait somewhere is a wait of some step.
LEMMA WaitsAreSteps ==
    ASSUME RecordsAreSound
    PROVE  Waits <=> \E s \in Steps : WaitsIn(s)
<1>1. \A s \in Steps, phase \in Phases : Code(s, phase) \in Seq(Operations)
  BY StepsAreNumbers DEF Code
<1>2. ASSUME Waits PROVE \E s \in Steps : WaitsIn(s)
  <2>1. PICK k \in Keys : ~IsAct(k) /\ SlotOf(k) = "Announced"
    BY <1>2 DEF Waits
  <2>2. PICK s \in Steps, phase \in Phases : \E i \in DOMAIN Code(s, phase) : k = <<s, phase, i>>
    BY <2>1 DEF Keys
  <2> PICK i \in DOMAIN Code(s, phase) : k = <<s, phase, i>>
    BY <2>2
  <2>3. Code(s, phase)[i] # "act" /\ Slot(s, phase, i) = "Announced"
    BY <2>1, <2>2 DEF IsAct, SlotOf
  <2>4. Code(s, phase)[i] \in Operations
    BY <1>1, <2>2
  <2>5. Code(s, phase)[i] = "wait"
    BY <2>3, <2>4 DEF Operations
  <2> QED
    BY <2>2, <2>3, <2>5 DEF WaitsIn
<1>3. ASSUME NEW s \in Steps, WaitsIn(s) PROVE Waits
  <2> PICK phase \in Phases : \E i \in DOMAIN Code(s, phase) :
            Code(s, phase)[i] = "wait" /\ Slot(s, phase, i) = "Announced"
    BY <1>3 DEF WaitsIn
  <2>1. PICK i \in DOMAIN Code(s, phase) :
            Code(s, phase)[i] = "wait" /\ Slot(s, phase, i) = "Announced"
    OBVIOUS
  <2>2. <<s, phase, i>> \in Keys
    <3> DEFINE all == {<<s, phase, j>> : j \in DOMAIN Code(s, phase)}
    <3>1. <<s, phase, i>> \in all
      OBVIOUS
    <3>2. all \in {{<<t, p, j>> : j \in DOMAIN Code(t, p)} : t \in Steps, p \in Phases}
      OBVIOUS
    <3> HIDE DEF all
    <3> QED
      BY <3>1, <3>2 DEF Keys
  <2>3. ~IsAct(<<s, phase, i>>) /\ SlotOf(<<s, phase, i>>) = "Announced"
    BY <2>1 DEF IsAct, SlotOf
  <2> QED
    BY <2>2, <2>3 DEF Waits
<1> QED
  BY <1>2, <1>3

\* When every step stands where it was, the run waits as before.
LEMMA WaitsStand ==
    ASSUME plan' = plan, \A s \in Steps : SameStep(s)
    PROVE  Waits' <=> Waits
<1>1. Keys' = Keys
  BY DEF Keys, Steps, Code
<1>2. \A k \in Keys : k[1] \in Steps
  BY DEF Keys
<1>3. \A k \in Keys : SlotOf(k)' = SlotOf(k)
  BY <1>2 DEF SlotOf, SameStep
<1>4. \A k : IsAct(k)' <=> IsAct(k)
  BY DEF IsAct, Code
<1> QED
  BY <1>1, <1>3, <1>4 DEF Waits

\* A step's code stands at an operation, or past the last one.
LEMMA PositionIsSound ==
    ASSUME RecordsAreSound, NEW s \in Steps
    PROVE  /\ Code(s, Phase) \in Seq(Operations) /\ Phase \in Phases
           /\ Position(s) \in Nat /\ Position(s) >= 1
           /\ Operation(s) # None =>
                /\ Position(s) \in DOMAIN Code(s, Phase)
                /\ Operation(s) = Code(s, Phase)[Position(s)]
           /\ Operation(s) = None => \A i \in DOMAIN Code(s, Phase) : Slot(s, Phase, i) = "Done"
<1> DEFINE code == Code(s, Phase)
           n == Len(code)
           T == {i \in DOMAIN code : Slot(s, Phase, i) = "Done"}
<1>1. Phase \in Phases
  BY DEF Phase, Phases
<1>2. code \in Seq(Operations)
  BY StepsAreNumbers DEF Code
<1>3. n \in Nat /\ DOMAIN code = 1 .. n /\ T \in SUBSET (1 .. n)
  BY <1>2
<1>4. ASSUME NEW m \in Nat, NEW U \in SUBSET (1 .. m)
      PROVE  Cardinality(U) \in Nat /\ Cardinality(U) <= m /\ (Cardinality(U) = m => U = 1 .. m)
  <2> DEFINE all == 1 .. m
  <2>1. IsFiniteSet(all) /\ Cardinality(all) = m
    BY FS_Interval
  <2>2. U \in SUBSET all
    OBVIOUS
  <2> HIDE DEF all
  <2>3. IsFiniteSet(U) /\ Cardinality(U) <= m /\ (Cardinality(all) = Cardinality(U) => all = U)
    BY <2>1, <2>2, FS_Subset
  <2> QED
    BY <2>1, <2>3, FS_CardinalityType DEF all
<1>5. /\ Cardinality(T) \in Nat /\ Cardinality(T) <= n
      /\ Cardinality(T) = n => T = 1 .. n
  <2> HIDE DEF T, n
  <2> QED
    BY <1>3, <1>4
<1>6. Position(s) = 1 + Cardinality(T)
  BY DEF Position
<1>7. Operation(s) = IF Position(s) > n THEN None ELSE code[Position(s)]
  BY DEF Operation
<1>8. T = 1 .. n => \A i \in DOMAIN code : Slot(s, Phase, i) = "Done"
  BY <1>3
<1> HIDE DEF T, n, code
<1>9. Position(s) \in Nat /\ Position(s) >= 1
  BY <1>5, <1>6
<1>10. Position(s) <= n => Position(s) \in DOMAIN code /\ code[Position(s)] \in Operations
  BY <1>2, <1>3, <1>9
<1>11. None \notin Operations
  BY NoneAssumption
<1>12. Position(s) > n => Cardinality(T) = n
  BY <1>3, <1>5, <1>6
<1>13. Operation(s) = None => Position(s) > n
  BY <1>3, <1>7, <1>9, <1>10, <1>11
<1>14. Operation(s) # None => Position(s) <= n /\ Operation(s) = code[Position(s)]
  BY <1>3, <1>7, <1>9
<1> QED
  BY <1>1, <1>2, <1>5, <1>8, <1>9, <1>10, <1>12, <1>13, <1>14 DEF code

\* Forward, code that ran out is code all done, and the other way round.
LEMMA RanOut ==
    ASSUME RecordsAreSound, NEW s \in Steps, Phase = "Forward"
    PROVE  /\ Code(s, Phase) = plan.forward[s]
           /\ Operation(s) = None <=> AllDone(s)
<1>1. Code(s, Phase) = plan.forward[s]
  BY DEF Code
<1>2. Operation(s) = None => AllDone(s)
  BY <1>1, PositionIsSound DEF AllDone
<1>3. ASSUME AllDone(s) PROVE Operation(s) = None
  <2> DEFINE code == plan.forward[s]
             n == Len(code)
  <2>1. n \in Nat /\ DOMAIN code = 1 .. n
    BY StepsAreNumbers
  <2>2. {i \in DOMAIN code : Slot(s, Phase, i) = "Done"} = 1 .. n
    BY <1>3, <2>1 DEF AllDone
  <2>3. Cardinality(1 .. n) = n
    BY <2>1, FS_Interval
  <2>4. Position(s) = 1 + n
    BY <1>1, <2>2, <2>3 DEF Position
  <2> QED
    BY <1>1, <2>1, <2>4 DEF Operation
<1> QED
  BY <1>1, <1>2, <1>3

-----------------------------------------------------------------------------
(* Writes keep the records sound *)

\* A record of the run.
LEMMA RunWriteKeeps ==
    ASSUME RecordsAreSound, NEW r \in Record, Write(r), Home(r) = 0, plan' = plan, cancel => cancel',
           r.kind = "RunConcluded" => r.says \in Statuses,
           r.kind = "RunCancelled" => cancel'
    PROVE  /\ RecordsAreSound' /\ Steps' = Steps
           /\ \A s \in Steps : SameStep(s)
           /\ Conclusion' = IF r.kind = "RunConcluded" THEN r.says ELSE Conclusion
           /\ \A kind : Recorded(kind)' <=> (r.kind = kind \/ Recorded(kind))
<1>1. /\ journal' \in [{0} \cup Steps -> Seq(Record)]' /\ last' = r.kind
      /\ \A s \in Steps : SameStep(s)
      /\ Conclusion' = IF r.kind = "RunConcluded" THEN r.says ELSE Conclusion
      /\ \A kind : Recorded(kind)' <=> (r.kind = kind \/ Recorded(kind))
  BY RunWrite
<1>2. Steps' = Steps
  BY DEF Steps
<1>3. plan' \in Plans
  BY DEF RecordsAreSound
<1>4. Conclusion' \in Statuses \cup {None} /\ (last' = "RunConcluded" => Conclusion' # None)
  <2>1. Conclusion \in Statuses \cup {None} /\ None \notin Statuses
    BY NoneAssumption DEF RecordsAreSound
  <2> QED
    BY <1>1, <2>1
<1>5. Recorded("RunCancelled")' => cancel'
  <2>1. Recorded("RunCancelled") => cancel
    BY DEF RecordsAreSound
  <2> QED
    BY <1>1, <2>1
<1>6. \A s \in Steps' : (Ending(s)' = "succeeded" => AllDone(s)')
  <2>1. \A s \in Steps : Ending(s)' = Ending(s) /\ (AllDone(s)' <=> AllDone(s))
    BY <1>1, StepStands DEF SameStep
  <2>2. \A s \in Steps : Ending(s) = "succeeded" => AllDone(s)
    BY DEF RecordsAreSound
  <2> QED
    BY <1>2, <2>1, <2>2
<1>7. RecordsAreSound'
  BY <1>1, <1>3, <1>4, <1>5, <1>6 DEF RecordsAreSound
<1> QED
  BY <1>1, <1>2, <1>7

\* A record of a step.
LEMMA StepWriteKeeps ==
    ASSUME RecordsAreSound, NEW r \in Record, Write(r), NEW s \in Steps, Home(r) = s, plan' = plan,
           cancel => cancel', r.kind # "RunConcluded", Ending(s)' = "succeeded" => AllDone(s)'
    PROVE  /\ RecordsAreSound' /\ Steps' = Steps
           /\ \A t \in Steps : t # s => SameStep(t)
           /\ Conclusion' = Conclusion
           /\ \A kind : Recorded(kind)' <=> Recorded(kind)
<1>1. /\ journal' \in [{0} \cup Steps -> Seq(Record)]' /\ last' = r.kind
      /\ SameRun /\ \A t \in Steps : t # s => SameStep(t)
  BY StepWrite
<1>2. Steps' = Steps
  BY DEF Steps
<1>3. plan' \in Plans
  BY DEF RecordsAreSound
<1>4. Conclusion' = Conclusion /\ \A kind : Recorded(kind)' <=> Recorded(kind)
  BY <1>1 DEF SameRun, Recorded
<1>5. Conclusion' \in Statuses \cup {None} /\ (last' = "RunConcluded" => Conclusion' # None)
  BY <1>1, <1>4 DEF RecordsAreSound
<1>6. Recorded("RunCancelled")' => cancel'
  BY <1>4 DEF RecordsAreSound
<1>7. \A t \in Steps' : (Ending(t)' = "succeeded" => AllDone(t)')
  <2>1. \A t \in Steps : t # s => Ending(t)' = Ending(t) /\ (AllDone(t)' <=> AllDone(t))
    BY <1>1, StepStands DEF SameStep
  <2>2. \A t \in Steps : Ending(t) = "succeeded" => AllDone(t)
    BY DEF RecordsAreSound
  <2> QED
    BY <1>2, <2>1, <2>2
<1>8. RecordsAreSound'
  BY <1>1, <1>3, <1>5, <1>6, <1>7 DEF RecordsAreSound
<1> QED
  BY <1>1, <1>2, <1>4, <1>8

\* No record.
LEMMA NoWriteKeeps ==
    ASSUME RecordsAreSound, plan' = plan, UNCHANGED written, cancel => cancel'
    PROVE  /\ RecordsAreSound' /\ Steps' = Steps
           /\ \A s \in Steps : SameStep(s)
           /\ Conclusion' = Conclusion
           /\ \A kind : Recorded(kind)' <=> Recorded(kind)
<1>1. SameRun /\ \A s : SameStep(s)
  BY NoWrite
<1>2. Steps' = Steps /\ Record' = Record
  BY DEF Steps, Record
<1>3. plan' \in Plans /\ journal' \in [{0} \cup Steps -> Seq(Record)]' /\ last' = last
  BY <1>2 DEF RecordsAreSound, written
<1>4. Conclusion' = Conclusion /\ \A kind : Recorded(kind)' <=> Recorded(kind)
  BY <1>1 DEF SameRun, Recorded
<1>5. Conclusion' \in Statuses \cup {None} /\ (last' = "RunConcluded" => Conclusion' # None)
  BY <1>3, <1>4 DEF RecordsAreSound
<1>6. Recorded("RunCancelled")' => cancel'
  BY <1>4 DEF RecordsAreSound
<1>7. \A t \in Steps' : (Ending(t)' = "succeeded" => AllDone(t)')
  <2>1. \A t \in Steps : Ending(t)' = Ending(t) /\ (AllDone(t)' <=> AllDone(t))
    BY <1>1, StepStands DEF SameStep
  <2>2. \A t \in Steps : Ending(t) = "succeeded" => AllDone(t)
    BY DEF RecordsAreSound
  <2> QED
    BY <1>2, <2>1, <2>2
<1>8. RecordsAreSound'
  BY <1>3, <1>5, <1>6, <1>7 DEF RecordsAreSound
<1> QED
  BY <1>1, <1>2, <1>4, <1>8

\* One that leaves every effect's slot alone (it is about no operation).
LEMMA AboutNoOperation ==
    ASSUME RecordsAreSound, NEW r \in Record, Write(r), NEW s \in Steps, Home(r) = s, plan' = plan,
           r.at = 0
    PROVE  /\ AllDone(s)' <=> AllDone(s)
           /\ WaitsIn(s)' <=> WaitsIn(s)
<1>1. \A phase, i : i # 0 => Slot(s, phase, i)' = Slot(s, phase, i)
  BY StepWrite
<1>2. \A phase \in Phases : Code(s, phase) \in Seq(Operations)
  BY StepsAreNumbers DEF Code
<1>3. \A phase \in Phases : \A i \in DOMAIN Code(s, phase) : i # 0
  BY <1>2
<1>4. plan.forward[s] = Code(s, "Forward") /\ "Forward" \in Phases
  BY DEF Code, Phases
<1>5. \A phase : Code(s, phase)' = Code(s, phase)
  BY DEF Code
<1>6. \A phase \in Phases : \A i \in DOMAIN Code(s, phase) : Slot(s, phase, i)' = Slot(s, phase, i)
  BY <1>1, <1>3
<1>7. AllDone(s)' <=> AllDone(s)
  BY <1>4, <1>6 DEF AllDone
<1>8. WaitsIn(s)' <=> WaitsIn(s)
  BY <1>5, <1>6 DEF WaitsIn, Phases
<1> QED
  BY <1>7, <1>8

\* An answer to an effect leaves a step that was all done as it was.
LEMMA AnswersKeepDone ==
    ASSUME RecordsAreSound, NEW r \in Record, Write(r), NEW s \in Steps, Home(r) = s, plan' = plan,
           r.kind # "StepFinished",
           r.phase = "Forward" /\ r.says # "Done" => ~AllDone(s)
    PROVE  Ending(s)' = Ending(s) /\ (AllDone(s) => AllDone(s)') /\ (Ending(s)' = "succeeded" => AllDone(s)')
<1>1. /\ Ending(s)' = Ending(s)
      /\ \A i : Slot(s, "Forward", i)' =
            IF r.phase = "Forward" /\ r.at = i THEN r.says ELSE Slot(s, "Forward", i)
  BY StepWrite
<1>2. AllDone(s) => AllDone(s)'
  BY <1>1 DEF AllDone
<1> QED
  BY <1>1, <1>2 DEF RecordsAreSound

-----------------------------------------------------------------------------
(* Steps that write nothing *)

\* What a step may write: nothing forward once a stop is recorded, and nothing
\* but a late answer once the run has ended.
WritesInTime ==
    \/ journal' = journal
    \/ \E r \in Record :
        /\ Write(r)
        /\ r.kind = "EffectStarted" /\ r.phase = "Forward" => ~Recorded("RunCancelled")
        /\ r.kind # "EffectReconciled" => ~Seals(Conclusion)

Keeps == LifecycleInv' /\ WritesInTime

\* What is known after any step that writes nothing.
LEMMA Quiet ==
    ASSUME LifecycleInv, UNCHANGED <<plan, written>>, cancel => cancel', sealed => sealed'
    PROVE  /\ RecordsAreSound' /\ WritesInTime /\ Steps' = Steps
           /\ Conclusion' = Conclusion /\ (Seals(Conclusion)' <=> Seals(Conclusion))
           /\ Waits' <=> Waits
           /\ Findable => Findable'
           /\ Recorded("RunCancelled")' <=> Recorded("RunCancelled")
           /\ \A s \in Steps : /\ AllDone(s)' <=> AllDone(s)
                               /\ WaitsIn(s)' <=> WaitsIn(s)
                               /\ (s \in Succeeded)' <=> s \in Succeeded
<1>1. RecordsAreSound /\ plan' = plan /\ UNCHANGED written
  BY DEF LifecycleInv
<1>2. /\ RecordsAreSound' /\ Steps' = Steps
      /\ \A s \in Steps : SameStep(s)
      /\ Conclusion' = Conclusion
      /\ \A kind : Recorded(kind)' <=> Recorded(kind)
  BY <1>1, NoWriteKeeps
<1>3. Waits' <=> Waits
  BY <1>1, <1>2, WaitsStand
<1>4. Findable => Findable'
  BY <1>2, <1>3 DEF Findable
<1>5. \A s \in Steps : /\ AllDone(s)' <=> AllDone(s)
                       /\ WaitsIn(s)' <=> WaitsIn(s)
                       /\ (s \in Succeeded)' <=> s \in Succeeded
  BY <1>1, <1>2, StepStands
<1>6. Seals(Conclusion)' <=> Seals(Conclusion)
  BY <1>2 DEF Seals
<1>7. WritesInTime
  BY <1>1 DEF WritesInTime, written
<1> QED
  BY <1>2, <1>3, <1>4, <1>5, <1>6, <1>7

\* The pass, if there is one, is left alone.
LEMMA PassLeftAlone ==
    ASSUME LifecycleInv, UNCHANGED <<plan, written, pass>>, cancel => cancel', sealed => sealed',
           pass # None => lease' = lease
    PROVE  Keeps
<1>1. UNCHANGED <<plan, written>> /\ pass' = pass
  OBVIOUS
<1>2. /\ RecordsAreSound' /\ WritesInTime /\ Steps' = Steps
      /\ Conclusion' = Conclusion /\ (Seals(Conclusion)' <=> Seals(Conclusion))
      /\ Waits' <=> Waits
      /\ Findable => Findable'
      /\ Recorded("RunCancelled")' <=> Recorded("RunCancelled")
      /\ \A s \in Steps : /\ AllDone(s)' <=> AllDone(s)
                          /\ WaitsIn(s)' <=> WaitsIn(s)
                          /\ (s \in Succeeded)' <=> s \in Succeeded
  BY <1>1, Quiet
<1>3. ASSUME StepsAreSound PROVE StepsAreSound'
  BY <1>1, <1>2, <1>3 DEF StepsAreSound
<1>4. PassIsSound'
  BY <1>1, <1>2, <1>3 DEF LifecycleInv, PassIsSound, PassFields, Statuses, Points, Frames
<1> QED
  BY <1>2, <1>4 DEF Keeps, LifecycleInv

\* A new pass, about to judge what it finds.
LEMMA NewPass ==
    ASSUME Steps' = Steps, NEW claim, pass' = Fresh(claim), lease' = "held"
    PROVE  PassIsSound'
<1>1. /\ DOMAIN pass' = PassFields /\ pass'.at \in [Steps -> Frames]
      /\ pass'.pc = "judge" /\ "judge" \in Points
  BY DEF Fresh, PassFields, Frames, Points
<1> QED
  BY <1>1 DEF PassIsSound, PassFields, Frames, Points

LEMMA NoPass ==
    ASSUME pass' = None
    PROVE  PassIsSound'
  BY DEF PassIsSound

\* A pass that moves on without running a batch.
LEMMA PassMoves ==
    ASSUME LifecycleInv, pass # None, UNCHANGED <<plan, written, lease>>, cancel => cancel',
           sealed => sealed', DOMAIN pass' = PassFields, pass'.at \in [Steps -> Frames],
           pass'.pc \in Points \ {"running"},
           Seals(Conclusion) => pass'.pc \in {"judge", "seal", "release"},
           pass'.pc \in {"stop", "conclude"} => pass'.status \in Statuses,
           pass'.pc \in {"stop", "conclude"} /\ pass'.status = "suspended" => Waits,
           pass'.pc = "walk" => pass'.status \in {"failed", "cancelled"},
           pass'.pc = "release" => Findable'
    PROVE  Keeps
<1>1. /\ RecordsAreSound' /\ WritesInTime /\ Steps' = Steps
      /\ Conclusion' = Conclusion /\ (Seals(Conclusion)' <=> Seals(Conclusion))
      /\ Waits' <=> Waits
  BY Quiet
<1>2. lease' = "held"
  BY DEF LifecycleInv, PassIsSound
<1>3. PassIsSound'
  BY <1>1, <1>2 DEF PassIsSound, PassFields, Points, Frames, Statuses
<1> QED
  BY <1>1, <1>3 DEF Keeps, LifecycleInv

\* What is known of a pass.
LEMMA PassShape ==
    ASSUME LifecycleInv, NEW pc, At(pc)
    PROVE  /\ pass # None /\ pass.pc = pc
           /\ DOMAIN pass = PassFields /\ pass.at \in [Steps -> Frames] /\ pass.pc \in Points
           /\ lease = "held"
           /\ Seals(Conclusion) => pc \in {"judge", "seal", "release"}
           /\ pc = "running" => StepsAreSound
           /\ pc \in {"stop", "conclude"} => pass.status \in Statuses
           /\ pc \in {"stop", "conclude"} /\ pass.status = "suspended" => Waits
           /\ pc = "walk" => pass.status \in {"failed", "cancelled"}
           /\ pc = "release" => Findable
  BY DEF LifecycleInv, PassIsSound, At

\* The conclusions the verbs and the pass ask about are conclusions.
LEMMA ClosedIsConcluded ==
    ASSUME RecordsAreSound
    PROVE  /\ ResumeIsClosed => Conclusion # None
           /\ Seals(Conclusion) => ResumeIsClosed
           /\ Conclusion = "quarantined" => ~Seals(Conclusion)
  BY NoneAssumption DEF ResumeIsClosed, Seals, RecordsAreSound, Statuses, Outcomes

LEMMA CloseOutKeeps ==
    ASSUME LifecycleInv, CloseOut
    PROVE  Keeps
<1>1. /\ At("judge") /\ ClosesOut /\ pass' = To(IF Seals(Conclusion) THEN "seal" ELSE "release")
      /\ UNCHANGED <<plan, written, lease, cancel, sealed>>
  BY DEF CloseOut, chain, callers
<1>2. pass # None /\ DOMAIN pass = PassFields /\ pass.at \in [Steps -> Frames]
  BY <1>1, PassShape
<1>3. /\ DOMAIN pass' = PassFields /\ pass'.at \in [Steps -> Frames]
      /\ pass'.pc = IF Seals(Conclusion) THEN "seal" ELSE "release"
  BY <1>1, <1>2 DEF To, PassFields
<1>4. Conclusion # None
  BY <1>1, ClosedIsConcluded DEF ClosesOut, LifecycleInv, RecordsAreSound
<1>5. Conclusion' = Conclusion
  BY <1>1, Quiet
<1>6. Findable'
  BY <1>4, <1>5 DEF Findable
<1> QED
  BY <1>1, <1>2, <1>3, <1>6, PassMoves DEF Points

LEMMA AbandonIfDecidedKeeps ==
    ASSUME LifecycleInv, AbandonIfDecided
    PROVE  Keeps
<1>1. /\ At("judge") /\ ~ClosesOut /\ pass' = StopAs("abandoned")
      /\ UNCHANGED <<plan, written, lease, cancel, sealed>>
  BY DEF AbandonIfDecided, chain, callers
<1>2. pass # None /\ DOMAIN pass = PassFields /\ pass.at \in [Steps -> Frames]
  BY <1>1, PassShape
<1>3. /\ DOMAIN pass' = PassFields /\ pass'.at \in [Steps -> Frames]
      /\ pass'.pc = "conclude" /\ pass'.status = "abandoned"
  BY <1>1, <1>2 DEF StopAs, PassFields
<1>4. ~Seals(Conclusion)
  BY <1>1 DEF ClosesOut, ResumeIsClosed
<1> QED
  BY <1>1, <1>2, <1>3, <1>4, PassMoves DEF Points, Statuses

LEMMA BeginKeeps ==
    ASSUME LifecycleInv, Begin
    PROVE  Keeps
<1>1. /\ At("judge") /\ ~ClosesOut /\ pass' = To("boundary")
      /\ UNCHANGED <<plan, written, lease, cancel, sealed>>
  BY DEF Begin, chain, callers
<1>2. pass # None /\ DOMAIN pass = PassFields /\ pass.at \in [Steps -> Frames]
  BY <1>1, PassShape
<1>3. /\ DOMAIN pass' = PassFields /\ pass'.at \in [Steps -> Frames] /\ pass'.pc = "boundary"
  BY <1>1, <1>2 DEF To, PassFields
<1>4. ~Seals(Conclusion)
  BY <1>1 DEF ClosesOut, ResumeIsClosed
<1> QED
  BY <1>1, <1>2, <1>3, <1>4, PassMoves DEF Points

\* The pass ends: refused, done or dead.
LEMMA PassEndsKeeps ==
    ASSUME LifecycleInv, RefuseUndoneWork \/ RefuseUndrivable \/ ReleaseLease \/ Crash
    PROVE  Keeps
<1>1. pass' = None /\ UNCHANGED <<plan, written, cancel, sealed>>
  BY DEF RefuseUndoneWork, RefuseUndrivable, Refused, ReleaseLease, Crash, chain, callers
<1>2. RecordsAreSound' /\ WritesInTime
  BY <1>1, Quiet
<1> QED
  BY <1>1, <1>2, NoPass DEF Keeps, LifecycleInv

\* A pass begins.
LEMMA PassBeginsKeeps ==
    ASSUME LifecycleInv, Resume \/ RecoverAbandoned \/ DriveStop
    PROVE  Keeps
<1>1. /\ (\E claim : pass' = Fresh(claim)) /\ lease' = "held"
      /\ UNCHANGED <<plan, written, cancel, sealed>>
  BY DEF Resume, RecoverAbandoned, DriveStop, Claims, chain, callers
<1>2. RecordsAreSound' /\ WritesInTime /\ Steps' = Steps
  BY <1>1, Quiet
<1>3. PassIsSound'
  BY <1>1, <1>2, NewPass
<1> QED
  BY <1>2, <1>3 DEF Keeps, LifecycleInv

\* Somebody else acts.
LEMMA BystandersKeep ==
    ASSUME LifecycleInv,
           AskToStop \/ RequestCancel \/ StopHeld \/ AskerDies \/ DecisionRefused \/ UNCHANGED vars
    PROVE  Keeps
<1>1. UNCHANGED <<plan, written, pass>> /\ (pass # None => lease' = lease)
  BY DEF AskToStop, RequestCancel, StopHeld, AskerDies, DecisionRefused, chain, written, vars
<1>2. UNCHANGED sealed
  BY DEF AskToStop, RequestCancel, StopHeld, AskerDies, DecisionRefused, chain, written, vars
<1>3. cancel => cancel'
  BY Zenon DEF AskToStop, RequestCancel, StopHeld, AskerDies, DecisionRefused, vars
<1> QED
  BY <1>1, <1>2, <1>3, PassLeftAlone

LEMMA GatedUnwindListKeeps ==
    ASSUME LifecycleInv, GatedUnwindList
    PROVE  Keeps
<1>1. At("stop") /\ UNCHANGED <<plan, written, lease, cancel, sealed>>
  BY DEF GatedUnwindList, chain, callers
<1>2. /\ pass # None /\ DOMAIN pass = PassFields /\ pass.at \in [Steps -> Frames]
      /\ ~Seals(Conclusion) /\ pass.status \in Statuses
      /\ pass.status = "suspended" => Waits
  BY <1>1, PassShape
<1>3. CASE pass.status \notin {"failed", "cancelled"}
  <2>1. pass' = To("conclude")
    BY <1>3 DEF GatedUnwindList
  <2>2. /\ DOMAIN pass' = PassFields /\ pass'.at \in [Steps -> Frames]
        /\ pass'.pc = "conclude" /\ pass'.status = pass.status
    BY <1>2, <2>1 DEF To, PassFields
  <2> QED
    BY <1>1, <1>2, <2>2, PassMoves DEF Points
<1>4. CASE pass.status \in {"failed", "cancelled"} /\ Doubtful
  <2>1. pass' = StopAs("quarantined")
    BY <1>4 DEF GatedUnwindList
  <2>2. /\ DOMAIN pass' = PassFields /\ pass'.at \in [Steps -> Frames]
        /\ pass'.pc = "conclude" /\ pass'.status = "quarantined"
    BY <1>2, <2>1 DEF StopAs, PassFields
  <2> QED
    BY <1>1, <1>2, <2>2, PassMoves DEF Points, Statuses, Outcomes
<1>5. CASE pass.status \in {"failed", "cancelled"} /\ ~Doubtful
  <2>1. pass' = [pass EXCEPT !.pc = "walk", !.at = [s \in Steps |-> "go"], !.list = UnwindList]
    BY <1>5 DEF GatedUnwindList
  <2>2. /\ DOMAIN pass' = PassFields /\ pass'.at = [s \in Steps |-> "go"]
        /\ pass'.pc = "walk" /\ pass'.status = pass.status
    BY <1>2, <2>1 DEF PassFields
  <2>3. pass'.at \in [Steps -> Frames]
    BY <2>2 DEF Frames
  <2> QED
    BY <1>1, <1>2, <1>5, <2>2, <2>3, PassMoves DEF Points
<1> QED
  BY <1>3, <1>4, <1>5

\* The walk goes on, or stops for a conclusion.
LEMMA WalkKeeps ==
    ASSUME LifecycleInv, WalkEnds \/ \E s \in Steps : SkipStep(s) \/ EscalateStep(s)
    PROVE  Keeps
<1>1. At("walk") /\ UNCHANGED <<plan, written, lease, cancel, sealed>>
  BY DEF WalkEnds, SkipStep, EscalateStep, Walks, chain, callers
<1>2. /\ pass # None /\ DOMAIN pass = PassFields /\ pass.at \in [Steps -> Frames]
      /\ ~Seals(Conclusion) /\ pass.status \in {"failed", "cancelled"} /\ pass.pc = "walk"
  BY <1>1, PassShape
<1>3. \/ pass' = To("conclude") \/ pass' = StopAs("quarantined")
      \/ pass' = [pass EXCEPT !.list = Tail(@)]
  BY DEF WalkEnds, SkipStep, EscalateStep
<1>4. /\ DOMAIN pass' = PassFields /\ pass'.at \in [Steps -> Frames]
      /\ \/ pass'.pc = "conclude" /\ pass'.status \in {"failed", "cancelled", "quarantined"}
         \/ pass'.pc = "walk" /\ pass'.status \in {"failed", "cancelled"}
  BY <1>2, <1>3 DEF To, StopAs, PassFields
<1> QED
  BY <1>1, <1>2, <1>4, PassMoves DEF Points, Statuses, Outcomes

\* A frame that is not idle runs, in the phase its pass is in.
LEMMA FrameRuns ==
    ASSUME LifecycleInv, NEW s \in Steps, NEW stage, Stage(s) = stage, stage # "idle"
    PROVE  /\ pass # None /\ DOMAIN pass = PassFields /\ pass.at \in [Steps -> Frames]
           /\ pass.at[s] = stage /\ lease = "held" /\ ~Seals(Conclusion) /\ RecordsAreSound
           /\ \/ pass.pc = "running" /\ Phase = "Forward" /\ StepsAreSound
              \/ pass.pc = "walk" /\ Phase = "Compensating" /\ pass.status \in {"failed", "cancelled"}
<1>1. Runs(s) /\ pass.at[s] = stage
  BY DEF Stage
<1>2. At("running") \/ At("walk")
  BY <1>1 DEF Runs
<1>3. CASE At("running")
  <2>1. Phase = "Forward"
    BY <1>3 DEF At, Phase
  <2> QED
    BY <1>1, <1>3, <2>1, PassShape DEF LifecycleInv
<1>4. CASE At("walk")
  <2>1. Phase = "Compensating"
    BY <1>4 DEF Phase
  <2> QED
    BY <1>1, <1>4, <2>1, PassShape DEF LifecycleInv
<1> QED
  BY <1>2, <1>3, <1>4

\* Code that waits here has its wait on the record.
LEMMA SuspendedWaits ==
    ASSUME RecordsAreSound, NEW s \in Steps, Outcome(s) = "suspended"
    PROVE  WaitsIn(s)
<1>1. Operation(s) = "wait" /\ SlotNow(s) = "Announced"
  BY NoneAssumption DEF Outcome, Statuses, Outcomes
<1>2. "wait" # None
  BY NoneAssumption DEF Operations
<1>3. Phase \in Phases /\ Position(s) \in DOMAIN Code(s, Phase) /\ Code(s, Phase)[Position(s)] = "wait"
  BY <1>1, <1>2, PositionIsSound
<1> QED
  BY <1>1, <1>3 DEF WaitsIn, SlotNow

LEMMA SuspendUndoKeeps ==
    ASSUME LifecycleInv, NEW s \in Steps, SuspendUndo(s)
    PROVE  Keeps
<1>1. /\ Stage(s) = "go" /\ Outcome(s) = "suspended" /\ pass' = StopAs("suspended")
      /\ UNCHANGED <<plan, written, lease, cancel, sealed>>
  BY DEF SuspendUndo, chain, callers
<1>2. /\ pass # None /\ DOMAIN pass = PassFields /\ pass.at \in [Steps -> Frames]
      /\ ~Seals(Conclusion) /\ RecordsAreSound
  BY <1>1, FrameRuns
<1>3. Waits
  BY <1>1, <1>2, SuspendedWaits, WaitsAreSteps
<1>4. /\ DOMAIN pass' = PassFields /\ pass'.at \in [Steps -> Frames]
      /\ pass'.pc = "conclude" /\ pass'.status = "suspended"
  BY <1>1, <1>2 DEF StopAs, PassFields
<1> QED
  BY <1>1, <1>2, <1>3, <1>4, PassMoves DEF Points, Statuses, Outcomes

LEMMA SealKeeps ==
    ASSUME LifecycleInv, Seal
    PROVE  Keeps
<1>1. /\ At("seal") /\ pass' = To("release") /\ sealed' = TRUE
      /\ UNCHANGED <<plan, written, lease, cancel>>
  BY DEF Seal, callers
<1>2. pass # None /\ DOMAIN pass = PassFields /\ pass.at \in [Steps -> Frames]
  BY <1>1, PassShape
<1>3. /\ DOMAIN pass' = PassFields /\ pass'.at \in [Steps -> Frames] /\ pass'.pc = "release"
  BY <1>1, <1>2 DEF To, PassFields
<1>4. Findable'
  BY <1>1 DEF Findable
<1> QED
  BY <1>1, <1>2, <1>3, <1>4, PassMoves DEF Points

\* The batch is over.
LEMMA ApplyKeeps ==
    ASSUME LifecycleInv, Apply
    PROVE  Keeps
<1>1. /\ At("running") /\ UNCHANGED <<plan, written, lease, cancel, sealed>>
      /\ pass' = [pass EXCEPT !.done = @ \cup EndedAs("succeeded"),
                              !.completed = @ \o InPlanOrder(EndedAs("succeeded")),
                              !.at = [s \in Steps |-> "idle"],
                              !.status = Worst,
                              !.pc = IF Worst = None THEN "boundary" ELSE "stop"]
  BY DEF Apply, chain, callers
<1>2. /\ pass # None /\ DOMAIN pass = PassFields /\ pass.at \in [Steps -> Frames]
      /\ ~Seals(Conclusion) /\ StepsAreSound
  BY <1>1, PassShape
<1>3. /\ DOMAIN pass' = PassFields /\ pass'.at = [s \in Steps |-> "idle"]
      /\ pass'.status = Worst /\ pass'.pc = IF Worst = None THEN "boundary" ELSE "stop"
  BY <1>1, <1>2 DEF PassFields
<1>4. pass'.at \in [Steps -> Frames]
  BY <1>3 DEF Frames
<1>5. Worst # None => Worst \in Statuses
  BY DEF Worst, Statuses, Outcomes
<1>6. ASSUME Worst # None, Worst = "suspended" PROVE Waits
  <2>1. EndedAs("suspended") # {}
    BY <1>6 DEF Worst
  <2>2. PICK s \in Steps : pass.at[s] = "suspended"
    BY <2>1 DEF EndedAs, InBatch
  <2>3. WaitsIn(s)
    BY <1>2, <2>2 DEF StepsAreSound
  <2> QED
    BY <2>3, WaitsAreSteps DEF LifecycleInv
<1> QED
  BY <1>1, <1>2, <1>3, <1>4, <1>5, <1>6, PassMoves DEF Points

-----------------------------------------------------------------------------
(* A frame moves *)

\* One frame of a batch, or the frame of a compensation, is at another stage.
FrameMoves(s, stage) ==
    pass' = [pass EXCEPT !.at[s] = stage] \/ Stages(s, stage)

LEMMA FrameMovesKeeps ==
    ASSUME LifecycleInv, NEW s \in Steps, Stage(s) # "idle", NEW stage \in Frames,
           FrameMoves(s, stage), RecordsAreSound', plan' = plan, lease' = lease,
           \A t \in Steps : t # s => SameStep(t),
           Conclusion' = Conclusion, \A kind : Recorded(kind)' <=> Recorded(kind),
           pass.pc = "running" /\ stage \in {"called"} \cup Dispositions => ~AllDone(s)',
           pass.pc = "running" /\ stage = "suspended" => WaitsIn(s)',
           pass.pc = "running" /\ Recorded("RunCancelled") => (s \in Succeeded)'
    PROVE  LifecycleInv'
<1>1. /\ pass # None /\ DOMAIN pass = PassFields /\ pass.at \in [Steps -> Frames]
      /\ pass.at[s] # "idle" /\ lease = "held" /\ ~Seals(Conclusion)
      /\ \/ pass.pc = "running" /\ StepsAreSound
         \/ pass.pc = "walk" /\ pass.status \in {"failed", "cancelled"}
  BY FrameRuns
<1>2. Steps' = Steps
  BY DEF Steps
<1>3. /\ DOMAIN pass' = PassFields /\ pass'.at = [pass.at EXCEPT ![s] = stage]
      /\ pass'.pc = pass.pc /\ pass'.status = pass.status
  BY <1>1 DEF FrameMoves, Stages, PassFields
<1>4. pass'.at \in [Steps -> Frames]
  <2> HIDE DEF Frames
  <2> QED
    BY <1>1, <1>3
<1>5. ~Seals(Conclusion)'
  BY <1>1 DEF Seals
<1>6. ASSUME pass.pc = "running" PROVE StepsAreSound'
  <2>1. StepsAreSound
    BY <1>1, <1>6
  <2>2. SUFFICES ASSUME NEW t \in Steps
                 PROVE  /\ pass'.at[t] \in {"called"} \cup Dispositions => ~AllDone(t)'
                        /\ pass'.at[t] = "suspended" => WaitsIn(t)'
                        /\ Recorded("RunCancelled")' /\ pass'.at[t] # "idle" => (t \in Succeeded)'
    BY <1>2 DEF StepsAreSound, Dispositions
  <2>3. CASE t = s
    <3>1. pass'.at[t] = stage
      BY <1>1, <1>3, <2>3
    <3> QED
      BY <1>6, <2>3, <3>1
  <2>4. CASE t # s
    <3>1. pass'.at[t] = pass.at[t]
      BY <1>1, <1>3, <2>4
    <3>2. /\ AllDone(t)' <=> AllDone(t)
          /\ WaitsIn(t)' <=> WaitsIn(t)
          /\ (t \in Succeeded)' <=> t \in Succeeded
      BY <2>4, StepStands
    <3> QED
      BY <2>1, <3>1, <3>2 DEF StepsAreSound
  <2> QED
    BY <2>3, <2>4
<1>7. PassIsSound'
  BY <1>1, <1>2, <1>3, <1>4, <1>5, <1>6 DEF PassIsSound, PassFields, Points, Frames, Statuses, Dispositions, Outcomes
<1> QED
  BY <1>7 DEF LifecycleInv

\* A frame whose code is not all done belongs to no stopped run.
LEMMA UndoneIsUnstopped ==
    ASSUME LifecycleInv, NEW s \in Steps, Stage(s) # "idle", pass.pc = "running", ~AllDone(s)
    PROVE  ~Recorded("RunCancelled") /\ Ending(s) # "succeeded"
<1>1. StepsAreSound /\ pass.at[s] # "idle" /\ RecordsAreSound
  BY FrameRuns
<1>2. Ending(s) # "succeeded"
  BY <1>1 DEF RecordsAreSound
<1> QED
  BY <1>1, <1>2 DEF StepsAreSound, Succeeded

LEMMA PerformKeeps ==
    ASSUME LifecycleInv, NEW s \in Steps, NEW answer \in Answers, Perform(s, answer)
    PROVE  Keeps
<1>1. /\ Stage(s) = "called" /\ Stages(s, answer) /\ FrameMoves(s, answer)
      /\ UNCHANGED <<plan, written, lease, cancel, sealed>>
  BY DEF Perform, FrameMoves, chain, callers
<1>2. answer \in Dispositions /\ answer \in Frames
  BY BoundsAssumption DEF Frames
<1>3. pass.at[s] = "called" /\ RecordsAreSound /\ (pass.pc = "running" => StepsAreSound)
  BY <1>1, FrameRuns
<1>4. /\ RecordsAreSound' /\ WritesInTime
      /\ AllDone(s)' <=> AllDone(s)
  BY <1>1, Quiet
<1>5. /\ \A t \in Steps : SameStep(t)
      /\ Conclusion' = Conclusion /\ \A kind : Recorded(kind)' <=> Recorded(kind)
  BY <1>1, <1>3, NoWriteKeeps
<1>6. pass.pc = "running" => ~AllDone(s)
  BY <1>3 DEF StepsAreSound
<1>7. pass.pc = "running" => ~Recorded("RunCancelled")
  BY <1>1, <1>6, UndoneIsUnstopped
<1>8. answer # "suspended"
  BY <1>2 DEF Dispositions
<1>9. LifecycleInv'
  BY <1>1, <1>2, <1>4, <1>5, <1>6, <1>7, <1>8, FrameMovesKeeps
<1> QED
  BY <1>4, <1>9 DEF Keeps

\* What a step record shows after it was written by a frame.
LEMMA StepWriteInTime ==
    ASSUME NEW r \in Record, Write(r), ~Seals(Conclusion),
           r.kind = "EffectStarted" /\ r.phase = "Forward" => ~Recorded("RunCancelled")
    PROVE  WritesInTime
  BY DEF WritesInTime

LEMMA StartStepKeeps ==
    ASSUME LifecycleInv, NEW s \in Steps, StartStep(s)
    PROVE  Keeps
<1>1. Stage(s) = "ready" /\ UNCHANGED <<plan, sealed, lease, cancel>> /\ FrameMoves(s, "go")
  BY DEF StartStep, FrameMoves, callers
<1>2. /\ pass.at[s] = "ready" /\ RecordsAreSound /\ ~Seals(Conclusion)
      /\ pass.pc = "running" => StepsAreSound
  BY <1>1, FrameRuns
<1>3. "go" \in Frames
  BY DEF Frames
<1>4. pass.pc = "running" /\ Recorded("RunCancelled") => s \in Succeeded
  BY <1>2 DEF StepsAreSound
<1>5. CASE UNCHANGED written
  <2>1. RecordsAreSound' /\ WritesInTime /\ ((s \in Succeeded)' <=> s \in Succeeded)
    BY <1>1, <1>5, Quiet
  <2>2. /\ \A t \in Steps : SameStep(t)
        /\ Conclusion' = Conclusion /\ \A kind : Recorded(kind)' <=> Recorded(kind)
    BY <1>1, <1>2, <1>5, NoWriteKeeps
  <2>3. LifecycleInv'
    BY <1>1, <1>3, <1>4, <2>1, <2>2, FrameMovesKeeps DEF Dispositions
  <2> QED
    BY <2>1, <2>3 DEF Keeps
<1>6. CASE Write(StepRec("StepStarted", s, None))
  <2> DEFINE r == StepRec("StepStarted", s, None)
  <2>1. r \in Record /\ Home(r) = s /\ r.kind = "StepStarted" /\ r.at = 0 /\ r.says = None
    BY DEF StepRec, Rec, Record, Kinds, Phases, Home
  <2>2. Write(r)
    BY <1>6
  <2> HIDE DEF r
  <2>3. /\ Ending(s)' = Ending(s) /\ (AllDone(s)' <=> AllDone(s))
    BY <1>1, <1>2, <2>1, <2>2, StepWrite, AboutNoOperation
  <2>4. Ending(s)' = "succeeded" => AllDone(s)'
    BY <1>2, <2>3 DEF RecordsAreSound
  <2>5. /\ RecordsAreSound' /\ Steps' = Steps
        /\ \A t \in Steps : t # s => SameStep(t)
        /\ Conclusion' = Conclusion
        /\ \A kind : Recorded(kind)' <=> Recorded(kind)
    BY <1>1, <1>2, <2>1, <2>2, <2>4, StepWriteKeeps
  <2>6. (s \in Succeeded)' <=> s \in Succeeded
    BY <2>3, <2>5 DEF Succeeded
  <2>7. LifecycleInv'
    BY <1>1, <1>3, <1>4, <2>5, <2>6, FrameMovesKeeps DEF Dispositions
  <2>8. WritesInTime
    BY <1>2, <2>1, <2>2, StepWriteInTime
  <2> QED
    BY <2>7, <2>8 DEF Keeps
<1> QED
  BY <1>5, <1>6 DEF StartStep

\* A frame records something of the operation its code stands at.  In a batch
\* that operation is not done, so the step has not succeeded.
LEMMA EffectWriteKeeps ==
    ASSUME LifecycleInv, NEW s \in Steps, Stage(s) # "idle",
           NEW kind \in {"EffectStarted", "EffectDone", "EffectFailed"},
           NEW says \in Dispositions \cup {"Announced"},
           Write(Rec(kind, s, Phase, Position(s), says)),
           NEW stage \in {"go", "called"}, FrameMoves(s, stage),
           UNCHANGED <<plan, lease, cancel>>,
           pass.pc = "running" => ~AllDone(s),
           stage = "called" => says = "Announced" /\ Position(s) \in DOMAIN Code(s, Phase)
    PROVE  Keeps
<1> DEFINE r == Rec(kind, s, Phase, Position(s), says)
<1>1. /\ RecordsAreSound /\ ~Seals(Conclusion)
      /\ \/ pass.pc = "running" /\ Phase = "Forward" /\ StepsAreSound
         \/ pass.pc = "walk" /\ Phase = "Compensating"
  BY FrameRuns
<1>2. /\ r \in Record /\ Home(r) = s /\ r.kind = kind /\ r.phase = Phase
      /\ r.at = Position(s) /\ r.says = says
  <2>1. Position(s) \in Nat /\ Phase \in Phases
    BY <1>1, PositionIsSound
  <2> QED
    BY <2>1 DEF Rec, Record, Kinds, Sayings, Home
<1>3. Write(r) /\ kind \notin {"StepFinished", "RunConcluded"}
  OBVIOUS
<1>4. pass.pc = "running" => ~Recorded("RunCancelled") /\ Ending(s) # "succeeded"
  BY UndoneIsUnstopped
<1>5. r.phase = "Forward" => pass.pc = "running"
  BY <1>1, <1>2
<1> HIDE DEF r
<1>6. /\ Ending(s)' = Ending(s) /\ (Ending(s)' = "succeeded" => AllDone(s)')
  BY <1>1, <1>2, <1>3, <1>5, AnswersKeepDone
<1>7. /\ RecordsAreSound' /\ Steps' = Steps
      /\ \A t \in Steps : t # s => SameStep(t)
      /\ Conclusion' = Conclusion
      /\ \A k : Recorded(k)' <=> Recorded(k)
  BY <1>1, <1>2, <1>3, <1>6, StepWriteKeeps
<1>8. ASSUME pass.pc = "running", stage = "called" PROVE ~AllDone(s)'
  <2>1. Phase = "Forward" /\ Code(s, Phase) = plan.forward[s]
    BY <1>1, <1>8 DEF Code
  <2>2. PICK here : here = Position(s)
    OBVIOUS
  <2>3. \A phase, i : Slot(s, phase, i)' =
            IF r.phase = phase /\ r.at = i THEN r.says ELSE Slot(s, phase, i)
    BY <1>1, <1>2, <1>3, StepWrite
  <2>4. Slot(s, "Forward", here)' = "Announced" /\ here \in DOMAIN plan.forward[s]
    BY <1>2, <1>8, <2>1, <2>2, <2>3
  <2> QED
    BY <2>4 DEF AllDone
<1>9. stage \in Frames /\ stage \notin Dispositions /\ stage # "suspended"
  BY DEF Frames, Dispositions
<1>10. LifecycleInv'
  BY <1>4, <1>7, <1>8, <1>9, FrameMovesKeeps
<1>11. WritesInTime
  BY <1>1, <1>2, <1>3, <1>4, <1>5, StepWriteInTime
<1> QED
  BY <1>10, <1>11 DEF Keeps

\* An operation of forward code that is not done leaves the step not all done.
LEMMA NotDoneHere ==
    ASSUME LifecycleInv, NEW s \in Steps, Stage(s) # "idle", Operation(s) # None
    PROVE  /\ pass.pc = "running" => ~AllDone(s)
           /\ Position(s) \in DOMAIN Code(s, Phase)
<1>1. /\ RecordsAreSound
      /\ \/ pass.pc = "running" /\ Phase = "Forward"
         \/ pass.pc = "walk"
  BY FrameRuns
<1>2. pass.pc = "running" => ~AllDone(s)
  BY <1>1, RanOut
<1> QED
  BY <1>1, <1>2, PositionIsSound

LEMMA AnnounceKeeps ==
    ASSUME LifecycleInv, NEW s \in Steps, Announce(s)
    PROVE  Keeps
<1>1. /\ Stage(s) # "idle" /\ Operation(s) # None
      /\ Write(Rec("EffectStarted", s, Phase, Position(s), "Announced"))
      /\ UNCHANGED <<plan, lease, cancel>>
  BY DEF Announce, callers
<1>2. PICK stage \in {"go", "called"} : FrameMoves(s, stage)
  BY DEF Announce, FrameMoves
<1>3. /\ pass.pc = "running" => ~AllDone(s)
      /\ Position(s) \in DOMAIN Code(s, Phase)
  BY <1>1, NotDoneHere
<1> QED
  BY <1>1, <1>2, <1>3, EffectWriteKeeps

LEMMA TakeBufferedKeeps ==
    ASSUME LifecycleInv, NEW s \in Steps, TakeBuffered(s)
    PROVE  Keeps
<1>1. /\ Stage(s) # "idle" /\ Operation(s) # None /\ FrameMoves(s, "go")
      /\ Write(Rec("EffectDone", s, Phase, Position(s), "Done"))
      /\ UNCHANGED <<plan, lease, cancel>>
  BY NoneAssumption DEF TakeBuffered, FrameMoves, callers, Operations
<1>2. pass.pc = "running" => ~AllDone(s)
  BY <1>1, NotDoneHere
<1> QED
  BY <1>1, <1>2, EffectWriteKeeps DEF Dispositions

LEMMA RecordAnswerKeeps ==
    ASSUME LifecycleInv, NEW s \in Steps, RecordAnswer(s)
    PROVE  Keeps
<1>1. Stage(s) \in Dispositions /\ FrameMoves(s, "go") /\ UNCHANGED <<plan, lease, cancel>>
  BY DEF RecordAnswer, FrameMoves, callers
<1>2. Stage(s) # "idle"
  BY <1>1 DEF Dispositions
<1>3. pass.at[s] \in Dispositions /\ (pass.pc = "running" => StepsAreSound)
  BY <1>1, <1>2, FrameRuns
<1>4. PICK kind \in {"EffectDone", "EffectFailed"} :
            Write(Rec(kind, s, Phase, Position(s), pass.at[s]))
  BY DEF RecordAnswer
<1>5. pass.pc = "running" => ~AllDone(s)
  BY <1>3 DEF StepsAreSound
<1>6. PICK says \in Dispositions : says = pass.at[s]
  BY <1>3
<1>7. Write(Rec(kind, s, Phase, Position(s), says))
  BY <1>4, <1>6
<1> QED
  BY <1>1, <1>2, <1>5, <1>7, EffectWriteKeeps

\* How code can end where it stands.
LEMMA OutcomeIsSound ==
    ASSUME RecordsAreSound, NEW s \in Steps, Outcome(s) # None
    PROVE  /\ Outcome(s) \in Outcomes
           /\ Phase = "Forward" => (Outcome(s) = "succeeded" <=> AllDone(s))
<1>1. Outcome(s) \in Outcomes
  BY DEF Outcome, Outcomes
<1>2. Outcome(s) = "succeeded" <=> Operation(s) = None
  BY NoneAssumption DEF Outcome, Statuses, Outcomes, Operations
<1> QED
  BY <1>1, <1>2, RanOut

LEMMA FinishStepKeeps ==
    ASSUME LifecycleInv, NEW s \in Steps, FinishStep(s)
    PROVE  Keeps
<1>1. /\ At("running") /\ Stage(s) = "go" /\ Outcome(s) # None
      /\ pass' = [pass EXCEPT !.at[s] = Outcome(s)] /\ FrameMoves(s, Outcome(s))
      /\ UNCHANGED <<plan, sealed, lease, cancel>>
  BY DEF FinishStep, FrameMoves, callers
<1>2. /\ RecordsAreSound /\ ~Seals(Conclusion) /\ Phase = "Forward" /\ StepsAreSound
      /\ pass.at[s] = "go" /\ pass.pc = "running"
  BY <1>1, FrameRuns DEF At
<1>3. Outcome(s) \in Outcomes /\ (Outcome(s) = "succeeded" <=> AllDone(s))
  BY <1>1, <1>2, OutcomeIsSound
<1>4. PICK how \in Outcomes : how = Outcome(s)
  BY <1>3
<1>5. /\ how \in Frames /\ how \notin {"called"} \cup Dispositions
      /\ FrameMoves(s, how) /\ Stage(s) # "idle"
  BY <1>1, <1>4 DEF Frames, Dispositions, Outcomes, FrameMoves, Stages
<1>6. how = "suspended" => WaitsIn(s)
  BY <1>2, <1>4, SuspendedWaits
<1>7. Recorded("RunCancelled") => s \in Succeeded /\ AllDone(s) /\ how = "succeeded"
  <2>1. Recorded("RunCancelled") => s \in Succeeded
    BY <1>2 DEF StepsAreSound
  <2>2. s \in Succeeded => AllDone(s)
    BY <1>2 DEF Succeeded, RecordsAreSound
  <2> QED
    BY <1>3, <1>4, <2>1, <2>2
<1>8. CASE UNCHANGED written
  <2>1. /\ RecordsAreSound' /\ WritesInTime
        /\ ((s \in Succeeded)' <=> s \in Succeeded) /\ (WaitsIn(s)' <=> WaitsIn(s))
    BY <1>1, <1>8, Quiet
  <2>2. /\ \A t \in Steps : SameStep(t)
        /\ Conclusion' = Conclusion /\ \A kind : Recorded(kind)' <=> Recorded(kind)
    BY <1>1, <1>2, <1>8, NoWriteKeeps
  <2>3. LifecycleInv'
    BY <1>1, <1>5, <1>6, <1>7, <2>1, <2>2, FrameMovesKeeps
  <2> QED
    BY <2>1, <2>3 DEF Keeps
<1>9. ASSUME NEW r \in {StepRec("RunSuspended", s, None), StepRec("StepFinished", s, how)},
             Write(r), r.kind = "RunSuspended" => how = "suspended"
      PROVE  Keeps
  <2>1. /\ r \in Record /\ Home(r) = s /\ r.at = 0 /\ r.phase = "Forward"
        /\ r.kind \in {"RunSuspended", "StepFinished"}
        /\ r.kind = "StepFinished" => r.says = how
    BY <1>9 DEF StepRec, Rec, Record, Kinds, Phases, Home, Sayings, Statuses
  <2>2. /\ Ending(s)' = IF r.kind = "StepFinished" THEN how ELSE Ending(s)
        /\ AllDone(s)' <=> AllDone(s)
        /\ WaitsIn(s)' <=> WaitsIn(s)
    BY <1>1, <1>2, <1>9, <2>1, StepWrite, AboutNoOperation
  <2>3. Ending(s)' = "succeeded" => AllDone(s)'
    BY <1>2, <1>3, <1>4, <2>2 DEF RecordsAreSound
  <2>4. /\ RecordsAreSound' /\ Steps' = Steps
        /\ \A t \in Steps : t # s => SameStep(t)
        /\ Conclusion' = Conclusion
        /\ \A kind : Recorded(kind)' <=> Recorded(kind)
    BY <1>1, <1>2, <1>9, <2>1, <2>3, StepWriteKeeps
  <2>5. Recorded("RunCancelled") => (s \in Succeeded)'
    <3>1. ASSUME Recorded("RunCancelled") PROVE Ending(s)' = "succeeded"
      BY <1>7, <2>2, <3>1 DEF Succeeded
    <3> QED
      BY <2>4, <3>1 DEF Succeeded
  <2>6. LifecycleInv'
    BY <1>1, <1>5, <1>6, <2>2, <2>4, <2>5, FrameMovesKeeps
  <2>7. WritesInTime
    BY <1>2, <1>9, <2>1, StepWriteInTime
  <2> QED
    BY <2>6, <2>7 DEF Keeps
<1>10. \/ UNCHANGED written
       \/ \E r \in {StepRec("RunSuspended", s, None), StepRec("StepFinished", s, how)} :
            Write(r) /\ (r.kind = "RunSuspended" => how = "suspended")
  <2>1. StepRec("StepFinished", s, how).kind = "StepFinished"
    BY DEF StepRec, Rec
  <2> QED
    BY <1>4, <2>1 DEF FinishStep
<1> QED
  BY <1>8, <1>9, <1>10

-----------------------------------------------------------------------------
(* The run's own records *)

\* A pass records something of the run and moves on, running no batch.
LEMMA RunWriteMoves ==
    ASSUME LifecycleInv, pass # None, ~Seals(Conclusion), UNCHANGED <<plan, lease, cancel>>,
           NEW r \in Record, Write(r), Home(r) = 0,
           r.kind \notin {"RunConcluded", "EffectStarted"}, r.kind = "RunCancelled" => cancel,
           DOMAIN pass' = PassFields, pass'.at \in [Steps -> Frames],
           pass'.pc \in {"stop", "conclude", "walk"},
           pass'.status \in Statuses \ {"suspended"},
           pass'.pc = "walk" => pass'.status \in {"failed", "cancelled"}
    PROVE  Keeps
<1>1. RecordsAreSound /\ plan' = plan /\ (cancel => cancel')
  BY DEF LifecycleInv
<1>2. RecordsAreSound' /\ Steps' = Steps /\ Conclusion' = Conclusion
  BY <1>1, RunWriteKeeps
<1>3. lease' = "held" /\ ~Seals(Conclusion)'
  BY <1>2 DEF LifecycleInv, PassIsSound, Seals
<1>4. PassIsSound'
  BY <1>2, <1>3 DEF PassIsSound, PassFields, Points, Frames, Statuses, Outcomes
<1>5. WritesInTime
  BY StepWriteInTime
<1> QED
  BY <1>2, <1>4, <1>5 DEF Keeps, LifecycleInv

LEMMA RunRecIsRecord ==
    ASSUME NEW kind \in Kinds \ {"StepCompensated"}, NEW says \in Sayings \cup {None}
    PROVE  /\ RunRec(kind, says) \in Record /\ Home(RunRec(kind, says)) = 0
           /\ RunRec(kind, says).kind = kind /\ RunRec(kind, says).says = says
  BY DEF RunRec, Rec, Record, Phases, Home

LEMMA ObserveStopKeeps ==
    ASSUME LifecycleInv, ObserveStop
    PROVE  Keeps
<1> DEFINE r == RunRec("RunCancelled", None)
<1>1. /\ At("boundary") /\ cancel /\ Write(r) /\ UNCHANGED <<plan, lease, cancel>>
      /\ pass' = [pass EXCEPT !.pc = "stop", !.status = "cancelled"]
  BY DEF ObserveStop, Stopping, callers
<1>2. /\ pass # None /\ DOMAIN pass = PassFields /\ pass.at \in [Steps -> Frames] /\ ~Seals(Conclusion)
  BY <1>1, PassShape
<1>3. /\ DOMAIN pass' = PassFields /\ pass'.at \in [Steps -> Frames]
      /\ pass'.pc = "stop" /\ pass'.status = "cancelled"
  BY <1>1, <1>2 DEF PassFields
<1>4. r \in Record /\ Home(r) = 0 /\ r.kind = "RunCancelled"
  BY RunRecIsRecord DEF Kinds
<1> HIDE DEF r
<1> QED
  BY <1>1, <1>2, <1>3, <1>4, RunWriteMoves DEF Statuses

LEMMA WithholdKeeps ==
    ASSUME LifecycleInv, Withhold
    PROVE  Keeps
<1> DEFINE r == RunRec("AuthorityWithheld", None)
<1>1. /\ At("boundary") /\ UNCHANGED <<plan, sealed, lease, cancel>>
      /\ pass' = [pass EXCEPT !.pc = "stop", !.status = "withheld"]
      /\ UNCHANGED written \/ Write(r)
  BY DEF Withhold, callers
<1>2. /\ pass # None /\ DOMAIN pass = PassFields /\ pass.at \in [Steps -> Frames] /\ ~Seals(Conclusion)
  BY <1>1, PassShape
<1>3. /\ DOMAIN pass' = PassFields /\ pass'.at \in [Steps -> Frames]
      /\ pass'.pc = "stop" /\ pass'.status = "withheld"
  BY <1>1, <1>2 DEF PassFields
<1>4. r \in Record /\ Home(r) = 0 /\ r.kind = "AuthorityWithheld"
  BY RunRecIsRecord DEF Kinds
<1> HIDE DEF r
<1>5. CASE Write(r)
  BY <1>1, <1>2, <1>3, <1>4, <1>5, RunWriteMoves DEF Statuses, Outcomes
<1>6. CASE UNCHANGED written
  BY <1>1, <1>2, <1>3, <1>6, PassMoves DEF Points, Statuses
<1> QED
  BY <1>1, <1>5, <1>6

\* The authority stands: the next batch starts, or the plan has run out.  After
\* a recorded stop the pass is short of the frontier, so its batch had succeeded.
LEMMA ProceedKeeps ==
    ASSUME LifecycleInv, Proceed
    PROVE  Keeps
<1> DEFINE r == RunRec("AuthorityRestored", None)
<1>1. /\ At("boundary") /\ ~Stopping /\ UNCHANGED <<plan, sealed, lease, cancel>>
      /\ UNCHANGED written \/ Write(r)
  BY DEF Proceed, callers
<1>2. /\ pass # None /\ DOMAIN pass = PassFields /\ pass.at \in [Steps -> Frames]
      /\ ~Seals(Conclusion) /\ lease = "held"
  BY <1>1, PassShape
<1>3. RecordsAreSound
  BY DEF LifecycleInv
<1>4. r \in Record /\ Home(r) = 0 /\ r.kind = "AuthorityRestored"
  BY RunRecIsRecord DEF Kinds
<1> HIDE DEF r
<1>5. CASE Batch = {}
  <2>1. pass' = StopAs("succeeded")
    BY <1>5 DEF Proceed
  <2>2. /\ DOMAIN pass' = PassFields /\ pass'.at \in [Steps -> Frames]
        /\ pass'.pc = "conclude" /\ pass'.status = "succeeded"
    BY <1>2, <2>1 DEF StopAs, PassFields
  <2>3. CASE Write(r)
    BY <1>1, <1>2, <1>4, <2>2, <2>3, RunWriteMoves DEF Statuses, Outcomes
  <2>4. CASE UNCHANGED written
    BY <1>1, <1>2, <2>2, <2>4, PassMoves DEF Points, Statuses, Outcomes
  <2> QED
    BY <1>1, <2>3, <2>4
<1>6. CASE Batch # {}
  <2> DEFINE ready == [s \in Steps |-> IF s \in Batch THEN "ready" ELSE "idle"]
  <2>1. /\ DOMAIN pass' = PassFields /\ pass'.at = ready /\ pass'.pc = "running"
    BY <1>2, <1>6 DEF Proceed, PassFields
  <2>2. ready \in [Steps -> Frames]
    BY DEF Frames
  <2>3. /\ RecordsAreSound' /\ Steps' = Steps /\ Conclusion' = Conclusion
        /\ \A s \in Steps : SameStep(s)
        /\ Recorded("RunCancelled")' => Recorded("RunCancelled")
    <3>1. CASE Write(r)
      BY <1>1, <1>3, <1>4, <3>1, RunWriteKeeps
    <3>2. CASE UNCHANGED written
      BY <1>1, <1>3, <3>2, NoWriteKeeps
    <3> QED
      BY <1>1, <3>1, <3>2
  <2>4. WritesInTime
    BY <1>1, <1>2, <1>4, StepWriteInTime DEF WritesInTime, written
  <2>5. Recorded("RunCancelled") => Batch \subseteq Succeeded
    BY <1>1, <1>3 DEF RecordsAreSound, Stopping, AtFrontier
  <2>6. StepsAreSound'
    <3>1. SUFFICES ASSUME NEW s \in Steps
                   PROVE  /\ ready[s] \notin {"called"} \cup Dispositions /\ ready[s] # "suspended"
                          /\ Recorded("RunCancelled")' /\ ready[s] # "idle" => (s \in Succeeded)'
      <4> HIDE DEF ready
      <4> QED
        BY <2>1, <2>3 DEF StepsAreSound, Dispositions
    <3>2. (s \in Succeeded)' <=> s \in Succeeded
      BY <1>1, <2>3, StepStands
    <3>3. ready[s] = IF s \in Batch THEN "ready" ELSE "idle"
      OBVIOUS
    <3> HIDE DEF ready
    <3> QED
      BY <2>3, <2>5, <3>2, <3>3 DEF Dispositions
  <2> HIDE DEF ready
  <2>7. ~Seals(Conclusion)' /\ lease' = "held"
    BY <1>1, <1>2, <2>3 DEF Seals
  <2>8. PassIsSound'
    BY <2>1, <2>2, <2>3, <2>6, <2>7
       DEF PassIsSound, PassFields, Points, Frames, Statuses, Dispositions, Outcomes
  <2> QED
    BY <2>3, <2>4, <2>8 DEF Keeps, LifecycleInv
<1> QED
  BY <1>5, <1>6

LEMMA FinishUndoKeeps ==
    ASSUME LifecycleInv, NEW s \in Steps, FinishUndo(s)
    PROVE  Keeps
<1> DEFINE r == Rec("StepCompensated", s, "Compensating", 0, Outcome(s))
<1>1. /\ Stage(s) = "go" /\ UNCHANGED <<plan, sealed, lease, cancel>> /\ At("walk")
      /\ Outcome(s) \in {"succeeded", "failed", "quarantined"}
      /\ UNCHANGED written \/ Write(r)
      /\ pass' = [pass EXCEPT !.list = Tail(@)] \/ pass' = StopAs("quarantined")
  BY DEF FinishUndo, Walks, callers
<1>2. /\ pass # None /\ DOMAIN pass = PassFields /\ pass.at \in [Steps -> Frames]
      /\ ~Seals(Conclusion) /\ pass.pc = "walk" /\ pass.status \in {"failed", "cancelled"}
  BY <1>1, PassShape
<1>3. /\ DOMAIN pass' = PassFields /\ pass'.at \in [Steps -> Frames]
      /\ \/ pass'.pc = "conclude" /\ pass'.status = "quarantined"
         \/ pass'.pc = "walk" /\ pass'.status \in {"failed", "cancelled"}
  BY <1>1, <1>2 DEF StopAs, PassFields
<1>4. r \in Record /\ Home(r) = 0 /\ r.kind = "StepCompensated"
  BY <1>1 DEF Rec, Record, Kinds, Phases, Home, Sayings, Statuses, Outcomes
<1> HIDE DEF r
<1>5. CASE Write(r)
  BY <1>1, <1>2, <1>3, <1>4, <1>5, RunWriteMoves DEF Statuses, Outcomes
<1>6. CASE UNCHANGED written
  BY <1>1, <1>2, <1>3, <1>6, PassMoves DEF Points, Statuses, Outcomes
<1> QED
  BY <1>1, <1>5, <1>6

\* The conclusion goes on the record, unless the run waits or it is there.
LEMMA ConcludeKeeps ==
    ASSUME LifecycleInv, Conclude
    PROVE  Keeps
<1>1. /\ At("conclude") /\ UNCHANGED <<plan, sealed, lease, cancel>>
      /\ pass' = To(IF Seals(pass.status) THEN "seal" ELSE "release")
  BY DEF Conclude, callers
<1>2. /\ pass # None /\ DOMAIN pass = PassFields /\ pass.at \in [Steps -> Frames] /\ lease = "held"
      /\ ~Seals(Conclusion) /\ pass.status \in Statuses
      /\ pass.status = "suspended" => Waits
  BY <1>1, PassShape
<1>3. /\ DOMAIN pass' = PassFields /\ pass'.at \in [Steps -> Frames]
      /\ pass'.pc \in {"seal", "release"}
  BY <1>1, <1>2 DEF To, PassFields
<1>4. pass.status # None /\ RecordsAreSound
  BY <1>2, NoneAssumption DEF LifecycleInv
<1>5. CASE UNCHANGED written /\ (pass.status = "suspended" \/ Conclusion = pass.status)
  <2>1. Conclusion' = Conclusion /\ (Waits' <=> Waits)
    BY <1>1, <1>5, Quiet
  <2>2. Findable'
    BY <1>2, <1>4, <1>5, <2>1 DEF Findable
  <2> QED
    BY <1>1, <1>2, <1>3, <1>5, <2>2, PassMoves DEF Points
<1>6. CASE Write(RunRec("RunConcluded", pass.status))
  <2> DEFINE r == RunRec("RunConcluded", pass.status)
  <2>1. r \in Record /\ Home(r) = 0 /\ r.kind = "RunConcluded" /\ r.says = pass.status
    BY <1>2, RunRecIsRecord DEF Kinds, Sayings
  <2>2. Write(r)
    BY <1>6
  <2> HIDE DEF r
  <2>3. RecordsAreSound' /\ Steps' = Steps /\ Conclusion' = pass.status
    BY <1>1, <1>2, <1>4, <2>1, <2>2, RunWriteKeeps
  <2>4. Findable'
    BY <1>4, <2>3 DEF Findable
  <2>5. PassIsSound'
    BY <1>1, <1>2, <1>3, <2>3, <2>4
       DEF PassIsSound, PassFields, Points, Frames, Statuses, Outcomes, Dispositions
  <2>6. WritesInTime
    BY <1>2, <2>1, <2>2, StepWriteInTime
  <2> QED
    BY <2>3, <2>5, <2>6 DEF Keeps, LifecycleInv
<1> QED
  BY <1>5, <1>6 DEF Conclude

-----------------------------------------------------------------------------
(* The operators' verbs and deliveries *)

LEMMA DeliverKeeps ==
    ASSUME LifecycleInv, NEW s \in Steps, NEW phase \in Phases, NEW i \in DOMAIN Code(s, phase),
           Deliver(s, phase, i)
    PROVE  Keeps
<1> DEFINE r == Rec("EffectDone", s, phase, i, "Done")
<1>1. /\ pass' = Fresh("Unlisted") /\ lease' = "held" /\ UNCHANGED <<plan, sealed, cancel>>
      /\ UNCHANGED written \/ (~ResumeIsClosed /\ Write(r))
  BY DEF Deliver, Claims, callers
<1>2. RecordsAreSound
  BY DEF LifecycleInv
<1>3. CASE UNCHANGED written
  <2>1. RecordsAreSound' /\ WritesInTime /\ Steps' = Steps
    BY <1>1, <1>3, Quiet
  <2> QED
    BY <1>1, <2>1, NewPass DEF Keeps, LifecycleInv
<1>4. CASE ~ResumeIsClosed /\ Write(r)
  <2>1. /\ r \in Record /\ Home(r) = s /\ r.kind = "EffectDone" /\ r.says = "Done"
    <3>1. i \in Nat
      BY <1>2, StepsAreNumbers DEF Code
    <3> QED
      BY <3>1 DEF Rec, Record, Kinds, Home, Sayings, Dispositions
  <2>2. Write(r) /\ ~Seals(Conclusion)
    BY <1>2, <1>4, ClosedIsConcluded
  <2> HIDE DEF r
  <2>3. Ending(s)' = "succeeded" => AllDone(s)'
    BY <1>1, <1>2, <2>1, <2>2, AnswersKeepDone
  <2>4. RecordsAreSound' /\ Steps' = Steps
    BY <1>1, <1>2, <2>1, <2>2, <2>3, StepWriteKeeps
  <2>5. WritesInTime
    BY <2>1, <2>2, StepWriteInTime
  <2> QED
    BY <1>1, <2>4, <2>5, NewPass DEF Keeps, LifecycleInv
<1> QED
  BY <1>1, <1>3, <1>4

LEMMA DecideQuarantineKeeps ==
    ASSUME LifecycleInv, NEW decision \in {"Reopen", "Abandon"}, DecideQuarantine(decision)
    PROVE  Keeps
<1> DEFINE r == RunRec("QuarantineDecided", decision)
<1>1. /\ pass = None /\ Conclusion = "quarantined" /\ Write(r) /\ UNCHANGED <<plan, cancel>>
      /\ \/ pass' = Fresh("Standing") /\ lease' = "held"
         \/ pass' = None
  BY DEF DecideQuarantine, Claims
<1>2. RecordsAreSound /\ ~Seals(Conclusion)
  BY <1>1, ClosedIsConcluded DEF LifecycleInv
<1>3. r \in Record /\ Home(r) = 0 /\ r.kind = "QuarantineDecided"
  BY RunRecIsRecord DEF Kinds, Sayings, Decisions
<1> HIDE DEF r
<1>4. RecordsAreSound' /\ Steps' = Steps
  BY <1>1, <1>2, <1>3, RunWriteKeeps
<1>5. PassIsSound'
  BY <1>1, <1>4, NewPass, NoPass
<1>6. WritesInTime
  BY <1>1, <1>2, <1>3, StepWriteInTime
<1> QED
  BY <1>4, <1>5, <1>6 DEF Keeps, LifecycleInv

\* What a person finds out about an effect changes no step that succeeded: an
\* undecided effect is not one that was done.
LEMMA ReconcileEffectKeeps ==
    ASSUME LifecycleInv, NEW k \in Keys, ReconcileEffect(k)
    PROVE  Keeps
<1>1. PICK s \in Steps, phase \in Phases : \E i \in DOMAIN Code(s, phase) : k = <<s, phase, i>>
  BY DEF Keys
<1> PICK i \in DOMAIN Code(s, phase) : k = <<s, phase, i>>
  BY <1>1
<1>2. PICK says \in {"Done", "DidNotHappen"} :
            Write(Rec("EffectReconciled", s, phase, i, says))
  BY DEF ReconcileEffect
<1> DEFINE r == Rec("EffectReconciled", s, phase, i, says)
<1>3. /\ pass = None /\ pass' = pass /\ UNCHANGED <<plan, cancel>> /\ k \in Undecided
  BY DEF ReconcileEffect
<1>4. RecordsAreSound
  BY DEF LifecycleInv
<1>5. Slot(s, phase, i) # "Done"
  BY <1>3 DEF Undecided, SlotOf
<1>6. phase = "Forward" => ~AllDone(s)
  BY <1>5 DEF AllDone, Code
<1>7. r \in Record /\ Home(r) = s /\ r.kind = "EffectReconciled" /\ r.phase = phase
  <2>1. i \in Nat
    BY <1>4, StepsAreNumbers DEF Code
  <2> QED
    BY <2>1 DEF Rec, Record, Kinds, Home, Sayings, Dispositions
<1>8. Write(r)
  BY <1>2
<1> HIDE DEF r
<1>9. Ending(s)' = "succeeded" => AllDone(s)'
  BY <1>3, <1>4, <1>6, <1>7, <1>8, AnswersKeepDone
<1>10. RecordsAreSound'
  BY <1>3, <1>4, <1>7, <1>8, <1>9, StepWriteKeeps
<1>11. WritesInTime
  BY <1>7, <1>8 DEF WritesInTime
<1> QED
  BY <1>3, <1>10, <1>11, NoPass DEF Keeps, LifecycleInv

-----------------------------------------------------------------------------
(* The invariant *)

LEMMA InitIsSound ==
    ASSUME Init
    PROVE  LifecycleInv
<1>1. /\ plan \in Plans /\ pass = [Fresh("Standing") EXCEPT !.pc = "boundary"]
      /\ journal = [s \in {0} \cup Steps |-> IF s = 0 THEN <<RunRec("RunAdmitted", None)>> ELSE <<>>]
      /\ last = "RunAdmitted" /\ lease = "held"
  BY DEF Init
<1>2. 0 \notin Steps
  BY <1>1, PlansAssumption DEF Steps
<1>3. RunRec("RunAdmitted", None) \in Record /\ RunRec("RunAdmitted", None).kind = "RunAdmitted"
  BY RunRecIsRecord DEF Kinds
<1>4. journal \in [{0} \cup Steps -> Seq(Record)]
  <2> HIDE DEF Record
  <2> QED
    BY <1>1, <1>3
<1>5. \A kind : kind # "RunAdmitted" => LastKind(kind) = 0
  <2>1. SUFFICES ASSUME NEW kind, kind # "RunAdmitted" PROVE LastKind(kind) = 0
    OBVIOUS
  <2>2. {j \in DOMAIN journal[0] : journal[0][j].kind = kind} = {}
    BY <1>1, <1>3, <2>1
  <2>3. Max({0} \cup {}) = 0
    BY LastOf
  <2> QED
    BY <2>2, <2>3 DEF LastKind, Latest
<1>6. Conclusion = None
  <2>1. LastKind("RunConcluded") = 0
    BY <1>5
  <2> QED
    BY <2>1 DEF Conclusion, Says, LastKind, Latest
<1>7. \A s \in Steps : Ending(s) = None
  <2>1. SUFFICES ASSUME NEW s \in Steps PROVE Ending(s) = None
    OBVIOUS
  <2>2. {j \in DOMAIN journal[s] : journal[s][j].kind = "StepFinished"} = {}
    BY <1>1, <1>2, <2>1
  <2>3. Max({0} \cup {}) = 0
    BY LastOf
  <2> QED
    BY <2>2, <2>3 DEF Ending, Says, Latest
<1>8. None \notin Statuses /\ "succeeded" \in Statuses
  BY NoneAssumption DEF Statuses, Outcomes
<1>9. RecordsAreSound
  BY <1>1, <1>4, <1>5, <1>6, <1>7, <1>8 DEF RecordsAreSound, Recorded
<1>10. /\ DOMAIN pass = PassFields /\ pass.at \in [Steps -> Frames] /\ pass.pc = "boundary"
  BY <1>1 DEF Fresh, PassFields, Frames
<1>11. ~Seals(Conclusion)
  BY <1>6, <1>8, NoneAssumption DEF Seals, Statuses, Outcomes
<1>12. PassIsSound
  BY <1>1, <1>10, <1>11 DEF PassIsSound, Points
<1> QED
  BY <1>9, <1>12 DEF LifecycleInv

\* Every step keeps the invariant and writes in time.
LEMMA EveryStepKeeps ==
    ASSUME LifecycleInv, [Next]_vars
    PROVE  Keeps
<1>1. CASE PassStep
  <2>1. CASE CloseOut
    BY <2>1, CloseOutKeeps
  <2>2. CASE AbandonIfDecided
    BY <2>2, AbandonIfDecidedKeeps
  <2>3. CASE RefuseUndoneWork \/ RefuseUndrivable \/ ReleaseLease
    BY <2>3, PassEndsKeeps
  <2>4. CASE Begin
    BY <2>4, BeginKeeps
  <2>5. CASE ObserveStop
    BY <2>5, ObserveStopKeeps
  <2>6. CASE Withhold
    BY <2>6, WithholdKeeps
  <2>7. CASE Proceed
    BY <2>7, ProceedKeeps
  <2>8. CASE Apply
    BY <2>8, ApplyKeeps
  <2>9. ASSUME NEW s \in Steps,
               \/ StartStep(s) \/ Announce(s) \/ RecordAnswer(s) \/ TakeBuffered(s) \/ FinishStep(s)
               \/ \E answer \in Answers : Perform(s, answer)
               \/ SuspendUndo(s) \/ FinishUndo(s)
        PROVE  Keeps
    BY <2>9, StartStepKeeps, AnnounceKeeps, RecordAnswerKeeps, TakeBufferedKeeps, FinishStepKeeps,
       PerformKeeps, SuspendUndoKeeps, FinishUndoKeeps
  <2>10. CASE WalkEnds \/ \E s \in Steps : SkipStep(s) \/ EscalateStep(s)
    BY <2>10, WalkKeeps
  <2>11. CASE GatedUnwindList
    BY <2>11, GatedUnwindListKeeps
  <2>12. CASE Conclude
    BY <2>12, ConcludeKeeps
  <2>13. CASE Seal
    BY <2>13, SealKeeps
  <2> QED
    BY <1>1, <2>1, <2>2, <2>3, <2>4, <2>5, <2>6, <2>7, <2>8, <2>9, <2>10, <2>11, <2>12, <2>13
       DEF PassStep
<1>2. CASE Resume \/ RecoverAbandoned \/ DriveStop
  BY <1>2, PassBeginsKeeps
<1>3. CASE AskToStop \/ RequestCancel \/ StopHeld \/ AskerDies \/ DecisionRefused \/ UNCHANGED vars
  BY <1>3, BystandersKeep
<1>4. CASE Crash
  BY <1>4, PassEndsKeeps
<1>5. ASSUME NEW s \in Steps, NEW phase \in Phases, NEW i \in DOMAIN Code(s, phase),
             Deliver(s, phase, i)
      PROVE  Keeps
  BY <1>5, DeliverKeeps
<1>6. ASSUME NEW decision \in {"Reopen", "Abandon"}, DecideQuarantine(decision) PROVE Keeps
  BY <1>6, DecideQuarantineKeeps
<1>7. ASSUME NEW k \in Keys, ReconcileEffect(k) PROVE Keeps
  BY <1>7, ReconcileEffectKeeps
<1> QED
  BY <1>1, <1>2, <1>3, <1>4, <1>5, <1>6, <1>7 DEF Next

\* The life of a run stays sound: its records agree with one another, and a pass
\* stands where they allow, through every crash, stop, delivery and decision.
THEOREM LifecycleIsSound == Spec => []LifecycleInv
<1>1. Init => LifecycleInv
  BY InitIsSound
<1>2. LifecycleInv /\ [Next]_vars => LifecycleInv'
  BY EveryStepKeeps DEF Keeps
<1> QED
  BY <1>1, <1>2, PTL DEF Spec

-----------------------------------------------------------------------------
(* What a stopped or ended run may do, and where it is left *)

\* What a step appends is the record it wrote.
LEMMA AppendedIsWritten ==
    ASSUME RecordsAreSound, NEW h \in {0} \cup Steps, Len(journal[h]') > Len(journal[h]),
           NEW r, Write(r)
    PROVE  Last(journal[h]') = r
<1>1. /\ DOMAIN journal = {0} \cup Steps /\ journal[h] \in Seq(Record)
      /\ journal' = [journal EXCEPT ![Home(r)] = Append(@, r)]
  BY DEF RecordsAreSound, Write
<1>2. Len(journal[h]) \in Nat
  BY <1>1
<1>3. h = Home(r)
  BY <1>1, <1>2
<1>4. /\ journal[h]' = Append(journal[h], r) /\ Len(Append(journal[h], r)) = Len(journal[h]) + 1
      /\ Append(journal[h], r)[Len(journal[h]) + 1] = r
  BY <1>1, <1>3, OneMore
<1> QED
  BY <1>4 DEF Last

\* The plan is frozen.
LEMMA PlanIsFrozen ==
    ASSUME [Next]_vars
    PROVE  plan' = plan
  BY DEF Next, vars, PassStep, chain, CloseOut, AbandonIfDecided, RefuseUndoneWork,
     RefuseUndrivable, Refused, Begin, ObserveStop, Withhold, Proceed, Apply, StartStep, Announce,
     RecordAnswer, TakeBuffered, FinishStep, Perform, SkipStep, EscalateStep, SuspendUndo,
     FinishUndo, GatedUnwindList, WalkEnds, Conclude, Seal, ReleaseLease, Resume, RecoverAbandoned,
     AskToStop, RequestCancel, DriveStop, StopHeld, Deliver, DecideQuarantine, ReconcileEffect,
     DecisionRefused, Crash, AskerDies

\* A recorded stop is final for forward work, and a conclusion that closes the
\* run is its last word but for a late answer to a doubt: however often the run
\* is resumed, delivered to or recovered, and wherever its passes die.
THEOREM EndsStayFinal == Spec => EndsAreFinal
<1>1. LifecycleInv /\ [Next]_vars =>
        \A s \in Steps :
            Appends(s, LAMBDA r : r.kind = "EffectStarted" /\ r.phase = "Forward") =>
                ~Recorded("RunCancelled")
  <2>1. SUFFICES ASSUME LifecycleInv, [Next]_vars, NEW s \in Steps,
                        Len(journal[s]') > Len(journal[s]),
                        Last(journal[s]').kind = "EffectStarted", Last(journal[s]').phase = "Forward"
                 PROVE  ~Recorded("RunCancelled")
    BY DEF Appends
  <2>2. WritesInTime /\ plan' = plan /\ RecordsAreSound
    BY <2>1, EveryStepKeeps, PlanIsFrozen DEF Keeps, LifecycleInv
  <2>3. journal' # journal
    <3>1. journal[s] \in Seq(Record)
      BY <2>2 DEF RecordsAreSound
    <3>2. Len(journal[s]) \in Nat
      BY <3>1
    <3> QED
      BY <2>1, <3>2
  <2>4. PICK r \in Record :
            /\ Write(r)
            /\ r.kind = "EffectStarted" /\ r.phase = "Forward" => ~Recorded("RunCancelled")
    BY <2>2, <2>3 DEF WritesInTime
  <2>5. Last(journal[s]') = r
    BY <2>1, <2>2, <2>4, AppendedIsWritten
  <2> QED
    BY <2>1, <2>4, <2>5
<1>2. LifecycleInv /\ [Next]_vars =>
        \A s \in DOMAIN journal :
            Appends(s, LAMBDA r : r.kind # "EffectReconciled") => ~Seals(Conclusion)
  <2>1. SUFFICES ASSUME LifecycleInv, [Next]_vars, NEW s \in DOMAIN journal,
                        Len(journal[s]') > Len(journal[s]),
                        Last(journal[s]').kind # "EffectReconciled"
                 PROVE  ~Seals(Conclusion)
    BY DEF Appends
  <2>2. WritesInTime /\ plan' = plan /\ RecordsAreSound
    BY <2>1, EveryStepKeeps, PlanIsFrozen DEF Keeps, LifecycleInv
  <2>3. journal' # journal /\ s \in {0} \cup Steps
    <3>1. journal[s] \in Seq(Record) /\ s \in {0} \cup Steps
      BY <2>2 DEF RecordsAreSound
    <3>2. Len(journal[s]) \in Nat
      BY <3>1
    <3> QED
      BY <2>1, <3>1, <3>2
  <2>4. PICK r \in Record : Write(r) /\ (r.kind # "EffectReconciled" => ~Seals(Conclusion))
    BY <2>2, <2>3 DEF WritesInTime
  <2>5. Last(journal[s]') = r
    BY <2>1, <2>2, <2>3, <2>4, AppendedIsWritten
  <2> QED
    BY <2>1, <2>4, <2>5
<1> QED
  BY <1>1, <1>2, LifecycleIsSound, PTL DEF Spec, EndsAreFinal, NothingForwardAfterStop, NothingAfterTheEnd

\* Only a refusal and a release give back the lease of a running pass.
LEMMA LeaseGivenBack ==
    ASSUME LifecycleInv, [Next]_vars, pass # None, lease' = "released"
    PROVE  \/ pass.pc = "judge" /\ pass.claim = "Standing"
           \/ pass.pc = "release" /\ UNCHANGED <<plan, written, sealed, cancel>>
<1>1. lease = "held"
  BY DEF LifecycleInv, PassIsSound
<1>2. CASE RefuseUndoneWork \/ RefuseUndrivable
  BY <1>1, <1>2 DEF RefuseUndoneWork, RefuseUndrivable, Refused, At
<1>3. CASE ReleaseLease
  BY <1>3 DEF ReleaseLease, At, chain, callers
<1>4. CASE PassStep /\ ~(RefuseUndoneWork \/ RefuseUndrivable) /\ ~ReleaseLease
  <2>1. lease' = lease
    BY <1>4 DEF PassStep, CloseOut, AbandonIfDecided, Begin, ObserveStop, Withhold, Proceed, Apply,
       StartStep, Announce, RecordAnswer, TakeBuffered, FinishStep, Perform, SkipStep, EscalateStep,
       SuspendUndo, FinishUndo, GatedUnwindList, WalkEnds, Conclude, Seal
  <2> QED
    BY <1>1, <2>1
<1>5. CASE ~PassStep
  <2>1. lease' = lease
    BY <1>5 DEF Next, vars, Resume, RecoverAbandoned, DriveStop, Deliver, Claims, AskToStop,
       RequestCancel, StopHeld, DecideQuarantine, ReconcileEffect, DecisionRefused, Crash, AskerDies
  <2> QED
    BY <1>1, <2>1
<1> QED
  BY <1>2, <1>3, <1>4, <1>5

\* A wake, a delivery or a recovery never leaves the run with no lease where
\* nobody would find it: given back, the run is sealed, listed by a conclusion,
\* or waits for an event.
THEOREM HandedBackIsListed == Spec => HandsBackListed
<1>1. LifecycleInv /\ [Next]_vars =>
        (/\ pass # None /\ pass' = None /\ lease' = "released"
         /\ pass.claim # "Standing" \/ pass.pc = "release"
         => Findable')
  <2>1. SUFFICES ASSUME LifecycleInv, [Next]_vars, pass # None, lease' = "released",
                        pass.claim # "Standing" \/ pass.pc = "release"
                 PROVE  Findable'
    OBVIOUS
  <2>2. pass.pc = "release" /\ UNCHANGED <<plan, written, sealed, cancel>>
    BY <2>1, LeaseGivenBack
  <2>3. Findable
    BY <2>1, <2>2 DEF LifecycleInv, PassIsSound
  <2> QED
    BY <2>1, <2>2, <2>3, Quiet
<1> QED
  BY <1>1, LifecycleIsSound, PTL DEF Spec, HandsBackListed

-----------------------------------------------------------------------------
(* The unwind and the effects in doubt *)

\* Sequences put together from sequences.
LEMMA OfItsElements ==
    ASSUME NEW q, NEW n \in Nat, q = [i \in 1 .. n |-> q[i]]
    PROVE  q \in Seq(ToSet(q)) /\ Len(q) = n /\ DOMAIN q = 1 .. n
<1>1. q \in [1 .. n -> ToSet(q)]
  BY DEF ToSet
<1>2. q \in Seq(ToSet(q))
  BY <1>1
<1> QED
  BY <1>1, <1>2

LEMMA ElementsOf ==
    ASSUME NEW X, NEW q \in Seq(X)
    PROVE  q \in Seq(ToSet(q))
<1>1. Len(q) \in Nat /\ q = [i \in 1 .. Len(q) |-> q[i]]
  OBVIOUS
<1> QED
  BY <1>1, OfItsElements

\* What the walk is given and what is left of it.
LEMMA ListsAreSequences ==
    ASSUME NEW a, a \in Seq(ToSet(a)), NEW b, b \in Seq(ToSet(b))
    PROVE  /\ a \o b \in Seq(ToSet(a \o b))
           /\ Reverse(a) \in Seq(ToSet(Reverse(a)))
           /\ \A i \in DOMAIN Reverse(a) : Reverse(a)[i] \in ToSet(a)
           /\ a # <<>> => /\ Tail(a) \in Seq(ToSet(Tail(a))) /\ Head(a) = a[1] /\ 1 \in DOMAIN a
                          /\ \A i \in DOMAIN Tail(a) : i + 1 \in DOMAIN a /\ Tail(a)[i] = a[i + 1]
<1> DEFINE X == ToSet(a) \cup ToSet(b)
<1>1. a \in Seq(X) /\ b \in Seq(X)
  OBVIOUS
<1>2. a \o b \in Seq(ToSet(a \o b))
  <2>1. a \o b \in Seq(X)
    BY <1>1
  <2> QED
    BY <2>1, ElementsOf
<1>3. /\ Reverse(a) \in Seq(ToSet(Reverse(a)))
      /\ \A i \in DOMAIN Reverse(a) : Reverse(a)[i] \in ToSet(a)
  <2>1. Len(a) \in Nat /\ DOMAIN a = 1 .. Len(a)
    OBVIOUS
  <2>2. \A i \in 1 .. Len(a) : Len(a) - i + 1 \in DOMAIN a
    BY <2>1
  <2>3. Reverse(a) \in [1 .. Len(a) -> ToSet(a)]
    BY <2>2 DEF Reverse, ToSet
  <2>4. Reverse(a) \in Seq(ToSet(a))
    BY <2>1, <2>3
  <2> QED
    BY <2>3, <2>4, ElementsOf
<1>4. ASSUME a # <<>>
      PROVE  /\ Tail(a) \in Seq(ToSet(Tail(a))) /\ Head(a) = a[1] /\ 1 \in DOMAIN a
             /\ \A i \in DOMAIN Tail(a) : i + 1 \in DOMAIN a /\ Tail(a)[i] = a[i + 1]
  <2>1. Tail(a) \in Seq(X) /\ Head(a) = a[1] /\ 1 \in DOMAIN a
    BY <1>1, <1>4
  <2>2. \A i \in DOMAIN Tail(a) : i + 1 \in DOMAIN a /\ Tail(a)[i] = a[i + 1]
    BY <1>1, <1>4
  <2> QED
    BY <2>1, <2>2, ElementsOf
<1> QED
  BY <1>2, <1>3, <1>4

LEMMA InPlanOrderIsSequence ==
    ASSUME RecordsAreSound, NEW S, S \subseteq Steps
    PROVE  InPlanOrder(S) \in Seq(ToSet(InPlanOrder(S)))
<1>1. IsFiniteSet(Steps)
  BY PlansAssumption DEF RecordsAreSound, Steps
<1>2. Cardinality(S) \in Nat
  BY <1>1, FS_Subset, FS_CardinalityType
<1> DEFINE q == InPlanOrder(S)
           n == Cardinality(S)
           Nth(i) == CHOOSE s \in S : Cardinality({t \in S : t < s}) = i - 1
<1>3. q = [i \in 1 .. n |-> q[i]]
  <2>1. q = [i \in 1 .. n |-> Nth(i)]
    BY DEF InPlanOrder
  <2> HIDE DEF q, Nth, n
  <2> QED
    BY <2>1
<1> HIDE DEF q, n
<1> QED
  BY <1>2, <1>3, OfItsElements DEF q, n

\* A pass that is gone, new, or walks no more.
LEMMA NoWalkNow ==
    ASSUME \/ pass' = None
           \/ \E claim : pass' = Fresh(claim)
           \/ WalkIsSound /\ pass # None /\ pass'.completed = pass.completed /\ pass'.pc # "walk"
    PROVE  WalkIsSound'
<1>1. CASE pass' = None
  BY <1>1 DEF WalkIsSound
<1>2. CASE \E claim : pass' = Fresh(claim)
  <2>1. pass'.completed = <<>> /\ pass'.pc = "judge"
    BY <1>2 DEF Fresh
  <2>2. <<>> \in Seq(ToSet(<<>>))
    OBVIOUS
  <2> QED
    BY <2>1, <2>2 DEF WalkIsSound
<1>3. CASE WalkIsSound /\ pass # None /\ pass'.completed = pass.completed /\ pass'.pc # "walk"
  BY <1>3 DEF WalkIsSound
<1> QED
  BY <1>1, <1>2, <1>3

\* Steps that read the same leave the same effects undecided.
LEMMA DoubtsStand ==
    ASSUME plan' = plan, \A s \in Steps : SameStep(s)
    PROVE  Undecided' = Undecided
<1>1. Keys' = Keys
  BY DEF Keys, Steps, Code
<1>2. \A k \in Keys : k[1] \in Steps
  BY DEF Keys
<1>3. \A k \in Keys : SlotOf(k)' = SlotOf(k)
  BY <1>2 DEF SlotOf, SameStep
<1>4. \A k : IsAct(k)' <=> IsAct(k)
  BY DEF IsAct, Code
<1> QED
  BY <1>1, <1>3, <1>4 DEF Undecided

\* One more record of a step decides the effect it is about, or leaves it open.
LEMMA DoubtsAfter ==
    ASSUME RecordsAreSound, NEW r \in Record, Write(r), NEW s \in Steps, Home(r) = s, plan' = plan
    PROVE  \A k \in Undecided' :
                \/ k = <<s, r.phase, r.at>> /\ r.says \in {"Announced", "InDoubt"}
                \/ k \in Undecided /\ k # <<s, r.phase, r.at>>
<1>1. Keys' = Keys
  BY DEF Keys, Steps, Code
<1>2. \A k : IsAct(k)' <=> IsAct(k)
  BY DEF IsAct, Code
<1>3. /\ \A t \in Steps : t # s => SameStep(t)
      /\ \A phase, i : Slot(s, phase, i)' =
            IF r.phase = phase /\ r.at = i THEN r.says ELSE Slot(s, phase, i)
  BY StepWrite
<1>4. SUFFICES ASSUME NEW k \in Keys, IsAct(k), SlotOf(k)' \in {"Announced", "InDoubt"}
               PROVE  \/ k = <<s, r.phase, r.at>> /\ r.says \in {"Announced", "InDoubt"}
                      \/ k \in Undecided /\ k # <<s, r.phase, r.at>>
  BY <1>1, <1>2 DEF Undecided
<1>5. PICK t \in Steps, phase \in Phases : \E i \in DOMAIN Code(t, phase) : k = <<t, phase, i>>
  BY DEF Keys
<1> PICK i \in DOMAIN Code(t, phase) : k = <<t, phase, i>>
  BY <1>5
<1>6. Slot(t, phase, i)' \in {"Announced", "InDoubt"}
  BY <1>4 DEF SlotOf
<1>7. CASE t = s /\ r.phase = phase /\ r.at = i
  BY <1>3, <1>6, <1>7
<1>8. CASE ~(t = s /\ r.phase = phase /\ r.at = i)
  <2>1. Slot(t, phase, i)' = Slot(t, phase, i)
    BY <1>3, <1>8 DEF SameStep
  <2>2. k \in Undecided
    BY <1>4, <1>6, <2>1 DEF Undecided, SlotOf
  <2> QED
    BY <1>8, <2>2
<1> QED
  BY <1>7, <1>8

\* Where compensation code stands, as long as what is done stays done.
LEMMA PositionStays ==
    ASSUME NEW s, plan' = plan, Phase = "Compensating", Phase' = "Compensating",
           \A i \in DOMAIN plan.undo[s] :
                Slot(s, "Compensating", i)' = "Done" <=> Slot(s, "Compensating", i) = "Done"
    PROVE  Position(s)' = Position(s)
<1>1. Code(s, Phase) = plan.undo[s] /\ Code(s, Phase)' = plan.undo[s]
  BY DEF Code
<1>2. Position(s) = 1 + Cardinality({i \in DOMAIN plan.undo[s] : Slot(s, "Compensating", i) = "Done"})
  BY <1>1 DEF Position
<1>3. Position(s)' = 1 + Cardinality({i \in DOMAIN plan.undo[s] : Slot(s, "Compensating", i)' = "Done"})
  BY <1>1 DEF Position
<1>4. {i \in DOMAIN plan.undo[s] : Slot(s, "Compensating", i)' = "Done"}
        = {i \in DOMAIN plan.undo[s] : Slot(s, "Compensating", i) = "Done"}
  OBVIOUS
<1> QED
  BY <1>2, <1>3, <1>4

\* The compensation under way: only its step runs, and only its call can be
\* undecided.
LEMMA CompensationAtHand ==
    ASSUME LifecycleInv, WalkIsSound, NEW s \in Steps, Runs(s), pass.pc = "walk"
    PROVE  /\ RecordsAreSound /\ Phase = "Compensating" /\ Code(s, Phase) = plan.undo[s]
           /\ \A t : Runs(t) => t = s
           /\ \A k \in Undecided : k = <<s, "Compensating", Position(s)>>
           /\ Operation(s) = None \/ SlotNow(s) \notin {"Announced", "InDoubt"} => Undecided = {}
<1>1. /\ pass # None /\ pass.list # <<>> /\ s = Head(pass.list) /\ plan.compensation[s] = "Compensatable"
      /\ At("walk")
  BY DEF Runs, At
<1>2. RecordsAreSound /\ Phase = "Compensating" /\ Code(s, Phase) = plan.undo[s]
  BY <1>1 DEF LifecycleInv, Phase, Code
<1>3. \A t : Runs(t) => t = s
  BY <1>1 DEF Runs, At
<1>4. DoubtIsAtHand
  <2>1. pass.list \in Seq(ToSet(pass.list)) /\ (NothingToUndo \/ DoubtIsAtHand)
    BY <1>1 DEF WalkIsSound
  <2>2. 1 \in DOMAIN pass.list /\ pass.list[1] = s
    BY <1>1, <2>1, ListsAreSequences
  <2>3. ~NothingToUndo
    BY <1>1, <2>2 DEF NothingToUndo
  <2> QED
    BY <2>1, <2>3
<1>5. ASSUME NEW k \in Undecided PROVE k = <<s, "Compensating", Position(s)>>
  <2>1. k \in Keys
    BY DEF Undecided
  <2>2. PICK t \in Steps, phase \in Phases : \E i \in DOMAIN Code(t, phase) : k = <<t, phase, i>>
    BY <2>1 DEF Keys
  <2>3. Runs(k[1]) /\ k[2] = "Compensating" /\ k[3] = Position(k[1])
    BY <1>4 DEF DoubtIsAtHand
  <2>4. k[1] = s
    BY <1>3, <2>3
  <2> QED
    BY <2>2, <2>3, <2>4
<1>6. ASSUME NEW k \in Undecided
      PROVE  Operation(s) # None /\ SlotNow(s) \in {"Announced", "InDoubt"}
  <2>1. k = <<s, "Compensating", Position(s)>> /\ k \in Keys /\ SlotOf(k) \in {"Announced", "InDoubt"}
    BY <1>5 DEF Undecided
  <2>2. SlotNow(s) \in {"Announced", "InDoubt"}
    BY <1>2, <2>1 DEF SlotOf, SlotNow
  <2>3. Position(s) \in DOMAIN Code(s, Phase)
    <3>1. PICK t \in Steps, phase \in Phases : \E i \in DOMAIN Code(t, phase) : k = <<t, phase, i>>
      BY <2>1 DEF Keys
    <3>2. t = s /\ phase = "Compensating" /\ Position(s) \in DOMAIN Code(t, phase)
      BY <2>1, <3>1
    <3> QED
      BY <1>2, <3>2
  <2>4. Operation(s) # None
    <3>1. Slot(s, Phase, Position(s)) # "Done"
      BY <2>2 DEF SlotNow
    <3> QED
      BY <1>2, <2>3, <3>1, PositionIsSound
  <2> QED
    BY <2>2, <2>4
<1> QED
  BY <1>2, <1>3, <1>5, <1>6

\* The frame of a compensation moves, and the effect it stands at is the only
\* one undecided.
LEMMA WalkFrameMoves ==
    ASSUME LifecycleInv, WalkIsSound, NEW s \in Steps, Stage(s) # "idle", pass.pc = "walk",
           NEW stage, FrameMoves(s, stage), plan' = plan,
           \A k \in Undecided' : k = <<s, "Compensating", Position(s)>>,
           Undecided' # {} \/ stage \in {"called"} \cup Dispositions =>
                (Phase' = "Compensating" => Position(s)' = Position(s)),
           stage \in {"called"} \cup Dispositions =>
                \A p : p = Position(s) => Slot(s, "Compensating", p)' = "Announced"
    PROVE  WalkIsSound'
<1>1. /\ Runs(s) /\ pass # None /\ DOMAIN pass = PassFields /\ pass.at \in [Steps -> Frames]
  BY FrameRuns DEF Stage
<1>2. /\ pass'.at = [pass.at EXCEPT ![s] = stage] /\ pass'.pc = "walk"
      /\ pass'.list = pass.list /\ pass'.completed = pass.completed
  BY <1>1 DEF FrameMoves, Stages, PassFields
<1>3. Steps' = Steps
  BY DEF Steps
<1>4. SUFFICES ASSUME pass' # None
               PROVE  CallsAreAnnounced' /\ DoubtIsAtHand'
  BY <1>1, <1>2 DEF WalkIsSound
<1>5. /\ Phase' = "Compensating"
      /\ \A t : Runs(t)' <=> Runs(t)
  BY <1>1, <1>2, <1>4 DEF Phase, At, Runs
<1>6. \A t : Runs(t) => t = s
  BY <1>1, CompensationAtHand
<1>7. CallsAreAnnounced'
  <2>1. SUFFICES ASSUME NEW t \in Steps, pass'.at[t] \in {"called"} \cup Dispositions
                 PROVE  Runs(t)' /\ SlotNow(t)' = "Announced"
    BY <1>3 DEF CallsAreAnnounced, Dispositions
  <2>2. CASE t = s
    <3>1. pass'.at[t] = stage
      BY <1>1, <1>2, <2>2
    <3>2. PICK p : p = Position(s)
      OBVIOUS
    <3>3. Slot(s, "Compensating", p)' = "Announced" /\ Position(s)' = p
      BY <1>5, <2>1, <3>1, <3>2
    <3>4. SlotNow(s)' = "Announced"
      BY <1>5, <3>3 DEF SlotNow
    <3> QED
      BY <1>1, <1>5, <2>2, <3>4
  <2>3. CASE t # s
    <3>1. pass'.at[t] = pass.at[t]
      BY <1>1, <1>2, <2>3
    <3>2. Runs(t)
      BY <1>1, <2>1, <3>1 DEF WalkIsSound, CallsAreAnnounced
    <3> QED
      BY <1>6, <2>3, <3>2
  <2> QED
    BY <2>2, <2>3
<1>8. DoubtIsAtHand'
  <2>1. SUFFICES ASSUME NEW k \in Undecided'
                 PROVE  Runs(k[1])' /\ k[2] = "Compensating" /\ k[3] = Position(k[1])'
    BY DEF DoubtIsAtHand
  <2>2. k = <<s, "Compensating", Position(s)>> /\ Position(s)' = Position(s)
    BY <1>5, <2>1
  <2>3. k[1] = s /\ k[2] = "Compensating" /\ k[3] = Position(s)
    BY <2>2
  <2> QED
    BY <1>1, <1>5, <2>2, <2>3
<1> QED
  BY <1>7, <1>8

\* A frame of a batch moves: there is no walk.
LEMMA BatchFrameMoves ==
    ASSUME LifecycleInv, WalkIsSound, NEW s \in Steps, Stage(s) # "idle", pass.pc = "running",
           NEW stage, FrameMoves(s, stage)
    PROVE  WalkIsSound'
<1>1. pass # None /\ DOMAIN pass = PassFields
  BY FrameRuns
<1>2. pass'.pc = "running" /\ pass'.completed = pass.completed
  BY <1>1 DEF FrameMoves, Stages, PassFields
<1> QED
  BY <1>1, <1>2, NoWalkNow

\* A frame of a compensation records something of the operation it stands at.
LEMMA WalkFrameWrites ==
    ASSUME LifecycleInv, WalkIsSound, NEW s \in Steps, Stage(s) # "idle", pass.pc = "walk",
           NEW kind \in {"EffectStarted", "EffectDone", "EffectFailed"},
           NEW says \in Dispositions \cup {"Announced"},
           Write(Rec(kind, s, Phase, Position(s), says)),
           NEW stage \in {"go", "called"}, FrameMoves(s, stage), plan' = plan,
           says # "Done" => SlotNow(s) # "Done",
           stage = "called" => says = "Announced"
    PROVE  WalkIsSound'
<1> DEFINE r == Rec(kind, s, Phase, Position(s), says)
<1>1. Runs(s) /\ RecordsAreSound
  BY FrameRuns DEF Stage
<1>2. /\ Phase = "Compensating" /\ Code(s, Phase) = plan.undo[s]
      /\ \A k \in Undecided : k = <<s, "Compensating", Position(s)>>
  BY <1>1, CompensationAtHand
<1>3. PICK p : p = Position(s)
  OBVIOUS
<1>4. /\ r \in Record /\ Home(r) = s /\ r.phase = "Compensating" /\ r.at = p /\ r.says = says
  <2>1. Position(s) \in Nat
    BY <1>1, PositionIsSound
  <2> QED
    BY <1>2, <1>3, <2>1 DEF Rec, Record, Kinds, Sayings, Home, Phases
<1>5. Write(r)
  OBVIOUS
<1> HIDE DEF r
<1>6. \A i : Slot(s, "Compensating", i)' = IF i = p THEN says ELSE Slot(s, "Compensating", i)
  BY <1>1, <1>4, <1>5, StepWrite
<1>7. \A k \in Undecided' : k = <<s, "Compensating", p>> /\ says # "Done"
  <2>1. \A k \in Undecided' :
            \/ k = <<s, r.phase, r.at>> /\ r.says \in {"Announced", "InDoubt"}
            \/ k \in Undecided /\ k # <<s, r.phase, r.at>>
    BY <1>1, <1>4, <1>5, DoubtsAfter
  <2> QED
    BY <1>2, <1>3, <1>4, <2>1
<1>8. ASSUME says # "Done", Phase' = "Compensating" PROVE Position(s)' = Position(s)
  <2>1. Slot(s, "Compensating", p) # "Done"
    BY <1>2, <1>3, <1>8 DEF SlotNow
  <2>2. \A i \in DOMAIN plan.undo[s] :
            Slot(s, "Compensating", i)' = "Done" <=> Slot(s, "Compensating", i) = "Done"
    BY <1>6, <1>8, <2>1
  <2> QED
    BY <1>2, <1>8, <2>2, PositionStays
<1>9. stage \notin Dispositions
  BY DEF Dispositions
<1>10. stage = "called" => Slot(s, "Compensating", p)' = "Announced" /\ says # "Done"
  BY <1>6
<1> QED
  BY <1>3, <1>7, <1>8, <1>9, <1>10, WalkFrameMoves

\* Every move of a frame.
LEMMA FramesKeepWalk ==
    ASSUME LifecycleInv, WalkIsSound, NEW s \in Steps,
           \/ StartStep(s) \/ Announce(s) \/ RecordAnswer(s) \/ TakeBuffered(s) \/ FinishStep(s)
           \/ \E answer \in Answers : Perform(s, answer)
    PROVE  WalkIsSound'
<1>1. Stage(s) # "idle" /\ plan' = plan
  BY DEF StartStep, Announce, RecordAnswer, TakeBuffered, FinishStep, Perform, Dispositions, chain
<1>2. \E stage : FrameMoves(s, stage)
  <2>1. CASE StartStep(s)
    BY <2>1 DEF StartStep, FrameMoves
  <2>2. CASE Announce(s)
    BY <2>2 DEF Announce, FrameMoves
  <2>3. CASE RecordAnswer(s)
    BY <2>3 DEF RecordAnswer, FrameMoves
  <2>4. CASE TakeBuffered(s)
    BY <2>4 DEF TakeBuffered, FrameMoves
  <2>5. CASE FinishStep(s)
    BY <2>5 DEF FinishStep, FrameMoves
  <2>6. CASE \E answer \in Answers : Perform(s, answer)
    BY <2>6 DEF Perform, FrameMoves
  <2> QED
    BY <2>1, <2>2, <2>3, <2>4, <2>5, <2>6
<1>3. CASE pass.pc = "running"
  BY <1>1, <1>2, <1>3, BatchFrameMoves
<1>4. CASE pass.pc = "walk"
  <2>1. Runs(s) /\ RecordsAreSound /\ pass # None
    BY <1>1, FrameRuns DEF Stage
  <2>2. /\ Phase = "Compensating" /\ Code(s, Phase) = plan.undo[s]
        /\ \A k \in Undecided : k = <<s, "Compensating", Position(s)>>
    BY <1>4, <2>1, CompensationAtHand
  <2>3. CallsAreAnnounced
    BY <1>4, <2>1 DEF WalkIsSound
  <2>4. CASE StartStep(s)
    <3>1. FrameMoves(s, "go") /\ Stage(s) = "ready"
      BY <2>4 DEF StartStep, FrameMoves
    <3>2. CASE UNCHANGED written
      <4>1. \A t \in Steps : SameStep(t)
        BY <1>1, <2>1, <3>2, NoWrite
      <4>2. Undecided' = Undecided
        BY <1>1, <4>1, DoubtsStand
      <4>3. Phase' = "Compensating" => Position(s)' = Position(s)
        BY <1>1, <2>2, <4>1, PositionStays DEF SameStep
      <4> QED
        BY <1>1, <1>4, <2>2, <3>1, <4>2, <4>3, WalkFrameMoves DEF Dispositions
    <3>3. CASE Write(StepRec("StepStarted", s, None))
      <4> DEFINE r == StepRec("StepStarted", s, None)
      <4>1. r \in Record /\ Home(r) = s /\ r.at = 0 /\ r.phase = "Forward"
        BY DEF StepRec, Rec, Record, Kinds, Phases, Home
      <4>2. Write(r)
        BY <3>3
      <4> HIDE DEF r
      <4>3. \A k \in Undecided' : k = <<s, "Compensating", Position(s)>>
        <5>1. \A k \in Undecided' : k = <<s, "Forward", 0>> \/ k \in Undecided
          BY <1>1, <2>1, <4>1, <4>2, DoubtsAfter
        <5>2. <<s, "Forward", 0>> \notin Undecided'
          <6>1. ASSUME <<s, "Forward", 0>> \in Undecided' PROVE FALSE
            <7>1. <<s, "Forward", 0>> \in Keys
              BY <1>1, <6>1 DEF Undecided, Keys, Steps, Code
            <7>2. PICK t \in Steps, phase \in Phases :
                        \E i \in DOMAIN Code(t, phase) : <<s, "Forward", 0>> = <<t, phase, i>>
              BY <7>1 DEF Keys
            <7>3. 0 \in DOMAIN Code(t, phase) /\ Code(t, phase) \in Seq(Operations)
              BY <2>1, <7>2, StepsAreNumbers DEF Code
            <7> QED
              BY <7>3
          <6> QED
            BY <6>1
        <5> QED
          BY <2>2, <5>1, <5>2
      <4>4. \A i : Slot(s, "Compensating", i)' = Slot(s, "Compensating", i)
        BY <1>1, <2>1, <4>1, <4>2, StepWrite
      <4>5. Phase' = "Compensating" => Position(s)' = Position(s)
        BY <1>1, <2>2, <4>4, PositionStays
      <4> QED
        BY <1>1, <1>4, <3>1, <4>3, <4>5, WalkFrameMoves DEF Dispositions
    <3> QED
      BY <2>4, <3>2, <3>3 DEF StartStep
  <2>5. CASE Announce(s)
    <3>1. /\ SlotNow(s) # "Done" /\ Write(Rec("EffectStarted", s, Phase, Position(s), "Announced"))
      BY <2>5, NoneAssumption DEF Announce, Dispositions
    <3>2. PICK stage \in {"go", "called"} : FrameMoves(s, stage)
      BY <2>5 DEF Announce, FrameMoves
    <3> QED
      BY <1>1, <1>4, <3>1, <3>2, WalkFrameWrites
  <2>6. CASE RecordAnswer(s)
    <3>1. FrameMoves(s, "go") /\ Stage(s) \in Dispositions
      BY <2>6 DEF RecordAnswer, FrameMoves
    <3>2. pass.at[s] \in Dispositions
      BY <1>1, <3>1, FrameRuns
    <3>3. SlotNow(s) = "Announced"
      BY <2>3, <3>2 DEF CallsAreAnnounced
    <3>4. PICK kind \in {"EffectDone", "EffectFailed"}, says \in Dispositions :
                Write(Rec(kind, s, Phase, Position(s), says))
      BY <2>6, <3>2 DEF RecordAnswer
    <3> QED
      BY <1>1, <1>4, <3>1, <3>3, <3>4, WalkFrameWrites
  <2>7. CASE TakeBuffered(s)
    <3>1. FrameMoves(s, "go") /\ Write(Rec("EffectDone", s, Phase, Position(s), "Done"))
      BY <2>7 DEF TakeBuffered, FrameMoves
    <3> QED
      BY <1>1, <1>4, <3>1, WalkFrameWrites DEF Dispositions
  <2>8. CASE FinishStep(s)
    BY <1>4, <2>8 DEF FinishStep, At
  <2>9. CASE \E answer \in Answers : Perform(s, answer)
    <3>1. PICK answer \in Answers : Perform(s, answer)
      BY <2>9
    <3>2. FrameMoves(s, answer) /\ Stage(s) = "called" /\ UNCHANGED written
      BY <3>1 DEF Perform, FrameMoves, chain
    <3>3. SlotNow(s) = "Announced"
      <4>1. pass.at[s] = "called"
        BY <1>1, <3>2, FrameRuns
      <4> QED
        BY <2>3, <4>1 DEF CallsAreAnnounced
    <3>4. \A t \in Steps : SameStep(t)
      BY <3>2, NoWrite
    <3>5. Undecided' = Undecided
      BY <1>1, <3>4, DoubtsStand
    <3>6. Phase' = "Compensating" => Position(s)' = Position(s)
      BY <1>1, <2>2, <3>4, PositionStays DEF SameStep
    <3>7. \A p : p = Position(s) => Slot(s, "Compensating", p)' = "Announced"
      BY <2>2, <3>3, <3>4 DEF SameStep, SlotNow
    <3> QED
      BY <1>1, <1>4, <2>2, <3>2, <3>5, <3>6, <3>7, WalkFrameMoves
  <2> QED
    BY <2>4, <2>5, <2>6, <2>7, <2>8, <2>9
<1> QED
  BY <1>1, <1>3, <1>4, FrameRuns

\* The walk is done with its first step and nothing is left in doubt behind it.
LEMMA WalkGoesOn ==
    ASSUME LifecycleInv, WalkIsSound, NEW s \in Steps, SkipStep(s) \/ FinishUndo(s)
    PROVE  WalkIsSound'
<1>1. /\ At("walk") /\ pass.list # <<>> /\ s = Head(pass.list) /\ plan' = plan
      /\ pass' = [pass EXCEPT !.list = Tail(@)] \/ pass' = StopAs("quarantined")
  BY DEF SkipStep, FinishUndo, Walks, chain
<1>2. pass # None /\ pass.pc = "walk" /\ DOMAIN pass = PassFields
  BY <1>1, PassShape
<1>3. /\ pass.list \in Seq(ToSet(pass.list)) /\ CallsAreAnnounced
      /\ NothingToUndo \/ DoubtIsAtHand
  BY <1>2 DEF WalkIsSound
<1>4. CASE pass' = StopAs("quarantined")
  <2>1. pass'.pc = "conclude" /\ pass'.completed = pass.completed
    BY <1>2, <1>4 DEF StopAs, PassFields
  <2> QED
    BY <1>2, <2>1, NoWalkNow
<1>5. CASE pass' = [pass EXCEPT !.list = Tail(@)]
  <2>1. /\ pass'.list = Tail(pass.list) /\ pass'.at = pass.at /\ pass'.completed = pass.completed
        /\ pass'.pc = "walk"
    BY <1>2, <1>5 DEF PassFields
  <2>2. /\ Tail(pass.list) \in Seq(ToSet(Tail(pass.list)))
        /\ \A i \in DOMAIN Tail(pass.list) :
                i + 1 \in DOMAIN pass.list /\ Tail(pass.list)[i] = pass.list[i + 1]
    BY <1>1, <1>3, ListsAreSequences
  <2>3. \A t \in Steps : SameStep(t)
    <3>1. RecordsAreSound
      BY DEF LifecycleInv
    <3>2. CASE UNCHANGED written
      BY <3>2, NoWrite
    <3>3. CASE Write(Rec("StepCompensated", s, "Compensating", 0, Outcome(s))) /\ FinishUndo(s)
      <4> DEFINE r == Rec("StepCompensated", s, "Compensating", 0, Outcome(s))
      <4>1. r \in Record /\ Home(r) = 0
        BY <3>3 DEF FinishUndo, Rec, Record, Kinds, Phases, Home, Sayings, Statuses, Outcomes
      <4>2. Write(r)
        BY <3>3
      <4> HIDE DEF r
      <4> QED
        BY <1>1, <3>1, <4>1, <4>2, RunWrite
    <3> QED
      BY <3>2, <3>3 DEF SkipStep, FinishUndo, chain
  <2>4. Undecided' = Undecided
    BY <1>1, <2>3, DoubtsStand
  <2>5. NothingToUndo => NothingToUndo'
    BY <1>1, <2>1, <2>2 DEF NothingToUndo
  <2>6. \A t \in Steps : pass.at[t] \notin {"called"} \cup Dispositions
    <3>1. SUFFICES ASSUME NEW t \in Steps, pass.at[t] \in {"called"} \cup Dispositions PROVE FALSE
      BY DEF Dispositions
    <3>2. Runs(t)
      BY <1>3, <3>1 DEF CallsAreAnnounced
    <3>3. t = s /\ plan.compensation[s] = "Compensatable"
      BY <1>1, <1>2, <3>2 DEF Runs, At
    <3>4. FinishUndo(s)
      BY <3>3 DEF SkipStep
    <3>5. Stage(s) = "go"
      BY <3>4 DEF FinishUndo
    <3>6. pass.at[s] = "go"
      BY <3>5, FrameRuns
    <3> QED
      BY <3>1, <3>3, <3>6 DEF Dispositions
  <2>7. CallsAreAnnounced'
    <3>1. Steps' = Steps
      BY <1>1 DEF Steps
    <3> QED
      BY <2>1, <2>6, <3>1 DEF CallsAreAnnounced, Dispositions
  <2>8. ASSUME DoubtIsAtHand PROVE Undecided = {}
    <3>1. CASE plan.compensation[s] # "Compensatable"
      <4>1. \A t : ~Runs(t)
        BY <1>1, <1>2, <3>1 DEF Runs, At
      <4> QED
        BY <2>8, <4>1 DEF DoubtIsAtHand
    <3>2. CASE plan.compensation[s] = "Compensatable"
      <4>1. FinishUndo(s)
        BY <3>2 DEF SkipStep
      <4>2. Stage(s) = "go" /\ Outcome(s) \in {"succeeded", "failed", "quarantined"}
        BY <4>1 DEF FinishUndo
      <4>3. Runs(s)
        BY <4>2 DEF Stage
      <4>4. Outcome(s) = "succeeded"
        <5>1. ASSUME Outcome(s) # "succeeded" PROVE FALSE
          <6>1. pass' = StopAs("quarantined")
            BY <4>1, <5>1 DEF FinishUndo
          <6>2. pass'.pc = "conclude"
            BY <1>2, <6>1 DEF StopAs, PassFields
          <6> QED
            BY <2>1, <6>2
        <5> QED
          BY <5>1
      <4>5. Operation(s) = None
        BY <4>4, NoneAssumption DEF Outcome, Statuses, Outcomes
      <4> QED
        BY <1>2, <4>3, <4>5, CompensationAtHand
    <3> QED
      BY <3>1, <3>2
  <2>9. NothingToUndo' \/ DoubtIsAtHand'
    BY <1>3, <2>4, <2>5, <2>8 DEF DoubtIsAtHand
  <2>10. pass'.completed \in Seq(ToSet(pass'.completed)) /\ pass'.list \in Seq(ToSet(pass'.list))
    BY <1>2, <2>1, <2>2 DEF WalkIsSound
  <2> QED
    BY <2>7, <2>9, <2>10 DEF WalkIsSound
<1> QED
  BY <1>1, <1>4, <1>5

\* The walk begins: either nothing it holds will be undone, or no effect of the
\* run is in doubt.
LEMMA WalkBegins ==
    ASSUME LifecycleInv, WalkIsSound, GatedUnwindList
    PROVE  WalkIsSound'
<1>1. At("stop") /\ plan' = plan /\ UNCHANGED written
  BY DEF GatedUnwindList, chain
<1>2. pass # None /\ DOMAIN pass = PassFields
  BY <1>1, PassShape
<1>3. pass.completed \in Seq(ToSet(pass.completed)) /\ RecordsAreSound
  BY <1>2 DEF WalkIsSound, LifecycleInv
<1>4. CASE pass' = To("conclude") \/ pass' = StopAs("quarantined")
  <2>1. pass'.pc = "conclude" /\ pass'.completed = pass.completed
    BY <1>2, <1>4 DEF To, StopAs, PassFields
  <2> QED
    BY <1>2, <2>1, NoWalkNow
<1>5. CASE ~Doubtful /\ pass' = [pass EXCEPT !.pc = "walk", !.at = [s \in Steps |-> "go"], !.list = UnwindList]
  <2>1. /\ pass'.list = UnwindList /\ pass'.at = [s \in Steps |-> "go"]
        /\ pass'.completed = pass.completed /\ pass'.pc = "walk"
    BY <1>2, <1>5 DEF PassFields
  <2>2. Steps' = Steps
    BY <1>1 DEF Steps
  <2>3. CallsAreAnnounced'
    BY <2>1, <2>2 DEF CallsAreAnnounced, Dispositions
  <2> DEFINE rest == IF Gated THEN InPlanOrder(Interrupted) ELSE <<>>
             all == pass.completed \o rest
  <2>4. rest \in Seq(ToSet(rest))
    <3>1. Interrupted \subseteq Steps
      BY DEF Interrupted, Mutated
    <3>2. InPlanOrder(Interrupted) \in Seq(ToSet(InPlanOrder(Interrupted)))
      BY <1>3, <3>1, InPlanOrderIsSequence
    <3>3. <<>> \in Seq(ToSet(<<>>))
      OBVIOUS
    <3> QED
      BY <3>2, <3>3
  <2>5. UnwindList = Reverse(all)
    BY DEF UnwindList
  <2>6. ~Gated => all = pass.completed
    BY <1>3
  <2> HIDE DEF rest
  <2>7. all \in Seq(ToSet(all))
    BY <1>3, <2>4, ListsAreSequences
  <2> HIDE DEF all
  <2>8. UnwindList \in Seq(ToSet(UnwindList)) /\ \A i \in DOMAIN UnwindList : UnwindList[i] \in ToSet(all)
    BY <2>5, <2>7, ListsAreSequences
  <2>9. CASE Gated
    <3>1. Undecided = {}
      BY <1>5, <2>9 DEF Doubtful
    <3>2. Undecided' = {}
      BY <1>1, <3>1, NoWrite, DoubtsStand
    <3>3. DoubtIsAtHand'
      BY <3>2 DEF DoubtIsAtHand
    <3> QED
      BY <1>3, <2>1, <2>3, <2>8, <3>3 DEF WalkIsSound
  <2>10. CASE ~Gated
    <3>1. \A s \in Completed : plan.compensation[s] # "Compensatable"
      BY <2>10 DEF Gated, WillCompensate
    <3>2. \A i \in DOMAIN UnwindList : plan.compensation[UnwindList[i]] # "Compensatable"
      BY <2>6, <2>8, <2>10, <3>1 DEF Completed
    <3>3. NothingToUndo'
      BY <1>1, <2>1, <3>2 DEF NothingToUndo
    <3> QED
      BY <1>3, <2>1, <2>3, <2>8, <3>3 DEF WalkIsSound
  <2> QED
    BY <2>9, <2>10
<1> QED
  BY <1>4, <1>5 DEF GatedUnwindList

LEMMA ApplyKeepsWalk ==
    ASSUME LifecycleInv, WalkIsSound, Apply
    PROVE  WalkIsSound'
<1>1. /\ At("running")
      /\ pass' = [pass EXCEPT !.done = @ \cup EndedAs("succeeded"),
                              !.completed = @ \o InPlanOrder(EndedAs("succeeded")),
                              !.at = [s \in Steps |-> "idle"],
                              !.status = Worst,
                              !.pc = IF Worst = None THEN "boundary" ELSE "stop"]
  BY DEF Apply
<1>2. pass # None /\ DOMAIN pass = PassFields
  BY <1>1, PassShape
<1>3. /\ pass'.completed = pass.completed \o InPlanOrder(EndedAs("succeeded"))
      /\ pass'.pc # "walk"
  BY <1>1, <1>2 DEF PassFields
<1>4. EndedAs("succeeded") \subseteq Steps /\ RecordsAreSound
  BY DEF EndedAs, InBatch, LifecycleInv
<1>5. pass.completed \in Seq(ToSet(pass.completed))
  BY <1>2 DEF WalkIsSound
<1> DEFINE next == InPlanOrder(EndedAs("succeeded"))
<1>6. next \in Seq(ToSet(next))
  BY <1>4, InPlanOrderIsSequence
<1> HIDE DEF next
<1>7. pass.completed \o next \in Seq(ToSet(pass.completed \o next))
  BY <1>5, <1>6, ListsAreSequences
<1> QED
  BY <1>3, <1>7 DEF WalkIsSound, next

\* The pass moves on and walks nowhere.
LEMMA OthersKeepWalk ==
    ASSUME LifecycleInv, WalkIsSound,
           \/ CloseOut \/ AbandonIfDecided \/ Begin \/ ObserveStop \/ Withhold \/ Proceed
           \/ WalkEnds \/ Conclude \/ Seal
           \/ \E s \in Steps : EscalateStep(s) \/ SuspendUndo(s)
    PROVE  WalkIsSound'
<1>1. \E pc : At(pc)
  BY DEF CloseOut, AbandonIfDecided, Begin, ObserveStop, Withhold, Proceed, WalkEnds, Conclude,
     Seal, EscalateStep, SuspendUndo, Walks
<1>2. pass # None /\ DOMAIN pass = PassFields
  BY <1>1, PassShape
<1>3. CASE Proceed
  <2>1. pass'.pc # "walk" /\ pass'.completed = pass.completed
    BY <1>2, <1>3 DEF Proceed, StopAs, PassFields
  <2> QED
    BY <1>2, <2>1, NoWalkNow
<1>4. CASE ObserveStop \/ Withhold
  <2>1. pass'.pc # "walk" /\ pass'.completed = pass.completed
    BY <1>2, <1>4 DEF ObserveStop, Withhold, PassFields
  <2> QED
    BY <1>2, <2>1, NoWalkNow
<1>5. CASE \/ CloseOut \/ AbandonIfDecided \/ Begin \/ WalkEnds \/ Conclude \/ Seal
           \/ \E s \in Steps : EscalateStep(s) \/ SuspendUndo(s)
  <2>1. \/ \E pc \in {"seal", "release", "boundary", "conclude"} : pass' = To(pc)
        \/ \E status : pass' = StopAs(status)
    BY <1>5 DEF CloseOut, AbandonIfDecided, Begin, WalkEnds, Conclude, Seal, EscalateStep, SuspendUndo
  <2>2. pass'.pc # "walk" /\ pass'.completed = pass.completed
    BY <1>2, <2>1 DEF To, StopAs, PassFields
  <2> QED
    BY <1>2, <2>2, NoWalkNow
<1> QED
  BY <1>3, <1>4, <1>5

\* Nobody but the pass moves it or writes while it walks.
LEMMA BystandersKeepWalk ==
    ASSUME LifecycleInv, WalkIsSound,
           AskToStop \/ RequestCancel \/ StopHeld \/ AskerDies \/ UNCHANGED vars
    PROVE  WalkIsSound'
<1>1. UNCHANGED <<plan, written, pass>>
  BY DEF AskToStop, RequestCancel, StopHeld, AskerDies, chain, written, vars
<1>2. \A s : SameStep(s)
  BY <1>1, NoWrite
<1>3. Undecided' = Undecided
  BY <1>1, <1>2, DoubtsStand
<1>4. /\ Phase' = Phase /\ \A s : Runs(s)' <=> Runs(s)
  BY <1>1 DEF Phase, Runs, At
<1>5. ASSUME pass # None, pass.pc = "walk" PROVE \A s : Position(s)' = Position(s) /\ SlotNow(s)' = SlotNow(s)
  <2>1. Phase = "Compensating"
    BY <1>5 DEF Phase, At
  <2>2. \A s : Position(s)' = Position(s)
    BY <1>1, <1>2, <1>4, <2>1, PositionStays DEF SameStep
  <2> QED
    BY <1>2, <1>4, <2>2 DEF SlotNow, SameStep
<1>6. Steps' = Steps
  BY <1>1 DEF Steps
<1>7. ASSUME pass # None, pass.pc = "walk" PROVE CallsAreAnnounced => CallsAreAnnounced'
  BY <1>1, <1>4, <1>5, <1>6, <1>7 DEF CallsAreAnnounced, Dispositions
<1>8. ASSUME pass # None, pass.pc = "walk" PROVE DoubtIsAtHand => DoubtIsAtHand'
  BY <1>3, <1>4, <1>5, <1>8 DEF DoubtIsAtHand
<1>9. NothingToUndo => NothingToUndo'
  BY <1>1 DEF NothingToUndo
<1> QED
  BY <1>1, <1>7, <1>8, <1>9 DEF WalkIsSound

LEMMA EveryStepKeepsWalk ==
    ASSUME LifecycleInv, WalkIsSound, [Next]_vars
    PROVE  WalkIsSound'
<1>1. CASE PassStep
  <2>1. CASE \/ CloseOut \/ AbandonIfDecided \/ Begin \/ ObserveStop \/ Withhold \/ Proceed
             \/ WalkEnds \/ Conclude \/ Seal
             \/ \E s \in Steps : EscalateStep(s) \/ SuspendUndo(s)
    BY <2>1, OthersKeepWalk
  <2>2. CASE RefuseUndoneWork \/ RefuseUndrivable \/ ReleaseLease
    <3>1. pass' = None
      BY <2>2 DEF RefuseUndoneWork, RefuseUndrivable, Refused, ReleaseLease
    <3> QED
      BY <3>1, NoWalkNow
  <2>3. CASE Apply
    BY <2>3, ApplyKeepsWalk
  <2>4. CASE GatedUnwindList
    BY <2>4, WalkBegins
  <2>5. ASSUME NEW s \in Steps,
               \/ StartStep(s) \/ Announce(s) \/ RecordAnswer(s) \/ TakeBuffered(s) \/ FinishStep(s)
               \/ \E answer \in Answers : Perform(s, answer)
        PROVE  WalkIsSound'
    BY <2>5, FramesKeepWalk
  <2>6. ASSUME NEW s \in Steps, SkipStep(s) \/ FinishUndo(s) PROVE WalkIsSound'
    BY <2>6, WalkGoesOn
  <2> QED
    BY <1>1, <2>1, <2>2, <2>3, <2>4, <2>5, <2>6 DEF PassStep
<1>2. CASE AskToStop \/ RequestCancel \/ StopHeld \/ AskerDies \/ UNCHANGED vars
  BY <1>2, BystandersKeepWalk
<1>3. CASE \/ Resume \/ RecoverAbandoned \/ DriveStop \/ Crash \/ DecisionRefused
           \/ \E s \in Steps, phase \in Phases : \E i \in DOMAIN Code(s, phase) : Deliver(s, phase, i)
           \/ \E decision \in {"Reopen", "Abandon"} : DecideQuarantine(decision)
           \/ \E k \in Keys : ReconcileEffect(k)
  <2>1. pass' = None \/ \E claim : pass' = Fresh(claim)
    BY <1>3 DEF Resume, RecoverAbandoned, DriveStop, Crash, DecisionRefused, Deliver,
       DecideQuarantine, ReconcileEffect, Claims
  <2> QED
    BY <2>1, NoWalkNow
<1> QED
  BY <1>1, <1>2, <1>3 DEF Next

\* Only Announce starts an effect.
LEMMA OnlyAnnounceStarts ==
    ASSUME [Next]_vars, \A s \in Steps : ~Announce(s)
    PROVE  journal' = journal \/ \E r : Write(r) /\ r.kind # "EffectStarted"
<1> DEFINE Other == journal' = journal \/ \E r : Write(r) /\ r.kind # "EffectStarted"
<1> SUFFICES Other
  OBVIOUS
<1>1. \A kind, step, phase, at, says : Rec(kind, step, phase, at, says).kind = kind
  BY DEF Rec
<1>2. ASSUME NEW kind, NEW step, NEW phase, NEW at, NEW says, kind # "EffectStarted",
             Write(Rec(kind, step, phase, at, says))
      PROVE  Other
  BY <1>1, <1>2
<1>3. UNCHANGED written => Other
  BY DEF written
<1> HIDE DEF Other
<1>4. CASE PassStep
  <2>1. CASE \/ CloseOut \/ AbandonIfDecided \/ RefuseUndoneWork \/ RefuseUndrivable \/ Begin \/ Apply
             \/ GatedUnwindList \/ WalkEnds \/ Seal \/ ReleaseLease
             \/ \E s \in Steps : \/ \E answer \in Answers : Perform(s, answer)
                                 \/ SkipStep(s) \/ EscalateStep(s) \/ SuspendUndo(s)
    <3>1. UNCHANGED written
      BY <2>1 DEF CloseOut, AbandonIfDecided, RefuseUndoneWork, RefuseUndrivable, Refused, Begin, Apply,
         GatedUnwindList, WalkEnds, Seal, ReleaseLease, Perform, SkipStep, EscalateStep, SuspendUndo, chain
    <3> QED
      BY <1>3, <3>1
  <2>2. CASE ObserveStop
    BY <1>2, <2>2 DEF ObserveStop, RunRec
  <2>3. CASE Withhold
    BY <1>2, <1>3, <2>3 DEF Withhold, RunRec
  <2>4. CASE Proceed
    BY <1>2, <1>3, <2>4 DEF Proceed, RunRec
  <2>5. CASE Conclude
    BY <1>2, <1>3, <2>5 DEF Conclude, RunRec
  <2>6. ASSUME NEW s \in Steps,
               StartStep(s) \/ RecordAnswer(s) \/ TakeBuffered(s) \/ FinishStep(s) \/ FinishUndo(s)
        PROVE  Other
    <3>1. CASE StartStep(s)
      BY <1>2, <1>3, <3>1 DEF StartStep, StepRec
    <3>2. CASE RecordAnswer(s)
      <4>1. PICK kind \in {"EffectDone", "EffectFailed"} :
                    Write(Rec(kind, s, Phase, Position(s), pass.at[s]))
        BY <3>2 DEF RecordAnswer
      <4> QED
        BY <1>2, <4>1
    <3>3. CASE TakeBuffered(s)
      BY <1>2, <3>3 DEF TakeBuffered
    <3>4. CASE FinishStep(s)
      <4>1. \/ UNCHANGED written
            \/ Write(Rec("RunSuspended", s, "Forward", 0, None))
            \/ Write(Rec("StepFinished", s, "Forward", 0, Outcome(s)))
        BY <3>4 DEF FinishStep, StepRec
      <4> QED
        BY <1>2, <1>3, <4>1
    <3>5. CASE FinishUndo(s)
      BY <1>2, <1>3, <3>5 DEF FinishUndo
    <3> QED
      BY <2>6, <3>1, <3>2, <3>3, <3>4, <3>5
  <2> QED
    BY <1>4, <2>1, <2>2, <2>3, <2>4, <2>5, <2>6 DEF PassStep
<1>5. CASE \/ Resume \/ RecoverAbandoned \/ AskToStop \/ RequestCancel \/ DriveStop \/ StopHeld
           \/ DecisionRefused \/ Crash \/ AskerDies \/ UNCHANGED vars
  <2>1. UNCHANGED written
    BY <1>5 DEF Resume, RecoverAbandoned, AskToStop, RequestCancel, DriveStop, StopHeld,
       DecisionRefused, Crash, AskerDies, chain, vars, written
  <2> QED
    BY <1>3, <2>1
<1>6. ASSUME NEW s \in Steps, NEW phase \in Phases, NEW i \in DOMAIN Code(s, phase),
             Deliver(s, phase, i)
      PROVE  Other
  BY <1>2, <1>3, <1>6 DEF Deliver
<1>7. ASSUME NEW decision \in {"Reopen", "Abandon"}, DecideQuarantine(decision) PROVE Other
  BY <1>2, <1>7 DEF DecideQuarantine, RunRec
<1>8. ASSUME NEW k \in Keys, ReconcileEffect(k) PROVE Other
  BY <1>2, <1>8 DEF ReconcileEffect
<1> QED
  BY <1>4, <1>5, <1>6, <1>7, <1>8 DEF Next

\* Nothing is undone around a call nobody can account for: a compensation is
\* announced only when the record leaves no effect of the run open, whatever
\* was interrupted, resumed or decided before.
THEOREM DoubtBarsTheUnwind == Spec => NeverUnwindsAroundDoubt
<1>1. Init => WalkIsSound
  <2>1. SUFFICES ASSUME Init PROVE WalkIsSound
    OBVIOUS
  <2>2. pass.completed = <<>> /\ pass.pc = "boundary"
    BY <2>1 DEF Init, Fresh
  <2>3. <<>> \in Seq(ToSet(<<>>))
    OBVIOUS
  <2> QED
    BY <2>2, <2>3 DEF WalkIsSound
<1>2. LifecycleInv /\ WalkIsSound /\ [Next]_vars => WalkIsSound'
  BY EveryStepKeepsWalk
<1>3. LifecycleInv /\ WalkIsSound /\ [Next]_vars => \A s \in Steps : Undoes(s) => Undecided = {}
  <2>1. SUFFICES ASSUME LifecycleInv, WalkIsSound, [Next]_vars, NEW s \in Steps,
                        Len(journal[s]') > Len(journal[s]),
                        Last(journal[s]').kind = "EffectStarted",
                        Last(journal[s]').phase = "Compensating"
                 PROVE  Undecided = {}
    BY DEF Undoes, Appends
  <2>2. RecordsAreSound
    BY <2>1 DEF LifecycleInv
  <2>3. journal' # journal
    <3>1. journal[s] \in Seq(Record)
      BY <2>2 DEF RecordsAreSound
    <3>2. Len(journal[s]) \in Nat
      BY <3>1
    <3> QED
      BY <2>1, <3>2
  <2>4. \A r : Write(r) => Last(journal[s]') = r
    BY <2>1, <2>2, AppendedIsWritten
  <2>5. PICK t \in Steps : Announce(t)
    BY <2>1, <2>3, <2>4, OnlyAnnounceStarts
  <2>6. /\ Stage(t) # "idle" /\ SlotNow(t) = None
        /\ Write(Rec("EffectStarted", t, Phase, Position(t), "Announced"))
    BY <2>5 DEF Announce
  <2>7. Phase = "Compensating"
    BY <2>1, <2>4, <2>6 DEF Rec
  <2>8. Runs(t) /\ pass.pc = "walk"
    BY <2>1, <2>6, <2>7, FrameRuns DEF Stage
  <2>9. SlotNow(t) \notin {"Announced", "InDoubt"}
    BY <2>6, NoneAssumption DEF Dispositions
  <2> QED
    BY <2>1, <2>8, <2>9, CompensationAtHand
<1> QED
  BY <1>1, <1>2, <1>3, LifecycleIsSound, PTL DEF Spec, NeverUnwindsAroundDoubt

\* Every pass heeds the record: nothing forward after a recorded stop, nothing
\* after an end that closes the run, nothing undone while a call is in doubt,
\* for any plan, any number of steps and any sequence of crashes and resumes.
THEOREM PassesHeedTheRecord == Spec => RecordIsHeeded
BY EndsStayFinal, DoubtBarsTheUnwind, PTL DEF RecordIsHeeded

=============================================================================
