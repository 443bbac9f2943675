----------------------------- MODULE PushProofs -----------------------------
(***************************************************************************)
(* Outbound delivery for any journal, any number of sweeps and any bound   *)
(* on what goes wrong: a receiver has everything before what it has, a     *)
(* cursor never moves back, a row goes only for an end of stream that was  *)
(* taken, and a lone sweep keeps to its ceiling.                           *)
(***************************************************************************)
EXTENDS Push, FiniteSetTheorems, TLAPS

-----------------------------------------------------------------------------
(* What the store's transactions do to a row, field by field.              *)

LEMMA NoRowFacts ==
    /\ NoRow \in Cursors /\ NoRow.next = 0 /\ NoRow.attempts = 0
    /\ NoRow.parked = FALSE /\ NoRow.waiting = FALSE
BY DEF NoRow, Cursors

(* A row written over NoRow is live and has no failures.                   *)
LEMMA FreshRow ==
    ASSUME NEW n \in Nat, NEW c, c = [NoRow EXCEPT !.next = n]
    PROVE  /\ c \in Cursors /\ c.next = n /\ c.attempts = 0
           /\ c.parked = FALSE /\ c.waiting = FALSE
BY DEF NoRow, Cursors

LEMMA PutEffect ==
    ASSUME Holds, NEW seq \in Nat, Put(seq)
    PROVE  /\ row' \in Cursors /\ row'.attempts = 0 /\ row'.parked = FALSE
           /\ row'.next = IF Gone THEN seq ELSE row.next
           /\ since' \in Nat /\ since <= since'
           /\ Gone => seq <= since'
           /\ ~Gone => since' = since
           /\ since' \in {since, seq}
<1> DEFINE n == IF Gone THEN seq ELSE row.next
<1>1. n \in Nat
  BY DEF Holds, Cursors
<1>2. row' = [NoRow EXCEPT !.next = n]
  BY DEF Put
<1>3. /\ row' \in Cursors /\ row'.next = n /\ row'.attempts = 0 /\ row'.parked = FALSE
  BY <1>1, <1>2, FreshRow, ZenonT(30)
<1>4. since' = IF Gone /\ seq > since THEN seq ELSE since
  BY DEF Put
<1> QED
  BY <1>3, <1>4 DEF Holds

LEMMA AdvanceEffect ==
    ASSUME Holds, NEW seq \in Nat, Advance(seq)
    PROVE  /\ row' \in Cursors
           /\ Gone => row' = row
           /\ ~Gone => /\ row'.attempts = 0 /\ row'.parked = FALSE
                       /\ row'.next \in {row.next, seq} /\ row'.next >= row.next
<1>1. CASE Gone
  BY <1>1 DEF Advance, Holds
<1>2. CASE ~Gone
  <2> DEFINE n == IF row.next > seq THEN row.next ELSE seq
  <2>1. n \in Nat /\ n >= row.next /\ n \in {row.next, seq}
    BY DEF Holds, Cursors
  <2>2. row' = [NoRow EXCEPT !.next = n]
    BY <1>2 DEF Advance
  <2>3. /\ row' \in Cursors /\ row'.next = n /\ row'.attempts = 0 /\ row'.parked = FALSE
    BY <2>1, <2>2, FreshRow, ZenonT(30)
  <2> QED
    BY <1>2, <2>1, <2>3
<1> QED
  BY <1>1, <1>2

(* A failure is counted, and the cursor stays.                             *)
LEMMA FailureEffect ==
    ASSUME Holds, Retry \/ Park
    PROVE  /\ row' \in Cursors
           /\ Gone => row' = row
           /\ row'.next = row.next
           /\ ~Gone => row'.attempts = row.attempts + 1
           /\ ~Gone /\ Park => row'.parked
<1> DEFINE n == row.attempts + 1
<1>1. row \in Cursors /\ n \in Nat
  BY DEF Holds, Cursors
<1>2. CASE Gone
  BY <1>1, <1>2 DEF Retry, Park
<1>3. CASE ~Gone
  <2> DEFINE again == [row EXCEPT !.attempts = n, !.waiting = TRUE, !.parked = FALSE]
             over == [row EXCEPT !.attempts = n, !.parked = TRUE]
  <2>1. (Retry => row' = again) /\ (Park => row' = over)
    BY <1>3 DEF Retry, Park
  <2> HIDE DEF n
  <2>2. again \in Cursors /\ again.next = row.next /\ again.attempts = n
    BY <1>1 DEF Cursors
  <2>3. over \in Cursors /\ over.next = row.next /\ over.attempts = n /\ over.parked
    BY <1>1 DEF Cursors
  <2> HIDE DEF again, over
  <2> QED
    BY <1>3, <2>1, <2>2, <2>3 DEF n
<1> QED
  BY <1>2, <1>3

(* Only the mind of the sweep that acts changes.                           *)
LEMMA HandEffect ==
    ASSUME Holds, NEW w \in Workers, NEW mem \in Memories, Hand(w, mem)
    PROVE  /\ worker' \in [Workers -> Memories]
           /\ worker'[w] = mem
           /\ \A v \in Workers \ {w} : worker'[v] = worker[v]
BY DEF Holds, Hand

LEMMA IdleFacts == Idle \in Memories /\ Idle.at = "idle"
BY DEF Idle, Memories
-----------------------------------------------------------------------------
(* What each action does, without its bookkeeping.                         *)

LEMMA RecordKinds ==
    /\ {"work", "failed", "withheld", "quarantined", "succeeded", "abandoned"} \subseteq Kinds
    /\ Terminal("quarantined")
BY DEF Kinds, Conclusions, IsConclusion, Terminal, ends_task

LEMMA WriteEffect ==
    ASSUME Holds, NEW rec \in Kinds, Write(rec)
    PROVE  /\ log' \in Seq(Kinds) /\ Len(log) \in Nat
           /\ Len(log') = Len(log) + 1 /\ Len(log') <= MaxRecords
           /\ \A i \in 1 .. Len(log) : log'[i] = log[i]
           /\ log'[Len(log) + 1] = rec
BY PushConstants DEF Holds, Write

RunSide == Admit \/ RegisterRefused \/ Execute \/ Conclude \/ Die \/ Resume \/ Abandon

(* The run's own process appends and moves on; it touches no cursor.       *)
LEMMA RunSideEffect ==
    ASSUME Holds, InReach, RunSide
    PROVE  /\ UNCHANGED <<setting, row, worker, caller, history>>
           /\ run' \in {"admitting", "resuming", "running", "stopped", "sealed"}
           /\ log' \in Seq(Kinds) /\ Len(log') <= MaxRecords
           /\ Len(log) \in Nat /\ Len(log') \in Nat /\ Len(log) <= Len(log')
           /\ log' # <<>>
           /\ \A i \in 1 .. Len(log) : log'[i] = log[i]
           /\ run' = "running" => run = "running"
           /\ run' = "sealed" => \/ run = "running" /\ Len(log') = Len(log) + 1
                                 \/ Reopened'
<1> USE RecordKinds
<1>0. log \in Seq(Kinds) /\ Len(log) \in Nat /\ (log # <<>> => Len(log) # 0)
  BY DEF Holds
<1>1. CASE Admit
  BY <1>0, <1>1, WriteEffect DEF Admit
<1>2. CASE RegisterRefused
  <2>1. log # <<>> /\ UNCHANGED <<setting, row, worker, caller, history>> /\ run' = "stopped"
    BY <1>2 DEF RegisterRefused, InReach
  <2>2. CASE run = "admitting"
    BY <1>0, <1>2, <2>1, <2>2, WriteEffect DEF RegisterRefused
  <2>3. CASE run # "admitting"
    BY <1>0, <1>2, <2>1, <2>3 DEF RegisterRefused, Holds
  <2> QED
    BY <2>2, <2>3
<1>3. CASE Execute
  BY <1>0, <1>3, WriteEffect DEF Execute
<1>4. CASE Conclude
  <2>1. /\ UNCHANGED <<setting, row, worker, caller, history>> /\ run = "running"
        /\ run' \in {"sealed", "stopped"}
    BY <1>4 DEF Conclude
  <2>2. PICK rec \in Kinds : Write(rec)
    <3>1. setting.stops \subseteq Kinds
      BY PushConstants DEF Holds
    <3> QED
      BY <1>4, <3>1 DEF Conclude
  <2> QED
    BY <1>0, <2>1, <2>2, WriteEffect
<1>5. CASE Die
  BY <1>0, <1>5 DEF Die, InReach, Holds
<1>6. CASE Resume
  BY <1>0, <1>6 DEF Resume, InReach, Holds
<1>7. CASE Abandon
  <2>1. log # <<>> /\ Write("abandoned") /\ run' = "sealed" /\ Last(log) = "quarantined"
        /\ UNCHANGED <<setting, row, worker, caller, history>>
    BY <1>7 DEF Abandon, InReach
  <2>2. /\ log' \in Seq(Kinds) /\ Len(log') = Len(log) + 1 /\ Len(log') <= MaxRecords
        /\ \A i \in 1 .. Len(log) : log'[i] = log[i]
    BY <2>1, WriteEffect
  <2>3. Len(log) \in 1 .. Len(log) /\ log[Len(log)] = "quarantined"
    BY <1>0, <2>1 DEF Last
  <2>4. Len(log) \in 1 .. Len(log') - 1 /\ log'[Len(log)] = "quarantined"
    BY <1>0, <2>2, <2>3
  <2>5. Reopened'
    BY <2>1, <2>4, RecordKinds DEF Reopened, Terminal
  <2> QED
    BY <1>0, <2>1, <2>2, <2>5
<1> QED
  BY <1>1, <1>2, <1>3, <1>4, <1>5, <1>6, <1>7 DEF RunSide

(* A sweep picks up the row as it stands.                                  *)
LEMMA SweepEffect ==
    ASSUME Holds, NEW w \in Workers, Sweep(w)
    PROVE  /\ UNCHANGED <<setting, log, run, row, caller, since, accepted>>
           /\ worker' \in [Workers -> Memories]
           /\ \A v \in Workers \ {w} : worker'[v] = worker[v]
           /\ w \in setting.workers /\ ~Gone /\ ~row.parked
           /\ worker'[w].at = "read" /\ worker'[w].next = row.next
           /\ worker'[w].attempts = row.attempts
<1> DEFINE mem == [Idle EXCEPT !.at = "read", !.next = row.next, !.attempts = row.attempts]
<1>1. row.next \in Nat /\ row.attempts \in Nat
  BY DEF Holds, Cursors
<1>2. /\ mem \in Memories /\ mem.at = "read" /\ mem.next = row.next
      /\ mem.attempts = row.attempts
  BY <1>1 DEF Idle, Memories
<1>3. Hand(w, mem) /\ UNCHANGED <<setting, log, run, row, caller, since, accepted>>
      /\ w \in setting.workers /\ ~Gone /\ ~row.parked
  BY DEF Sweep, runside, history
<1> HIDE DEF mem
<1> QED
  BY <1>2, <1>3, HandEffect

(* A page is read: there is something to send, or nothing any more.        *)
LEMMA ReadPageEffect ==
    ASSUME Holds, NEW w \in Workers, ReadPage(w)
    PROVE  /\ UNCHANGED <<setting, log, run, row, caller, since, accepted>>
           /\ worker' \in [Workers -> Memories]
           /\ \A v \in Workers \ {w} : worker'[v] = worker[v]
           /\ worker[w].at = "read"
           /\ \/ /\ worker'[w].at = "post" /\ worker'[w].seq = worker[w].next
                 /\ worker[w].next <= Len(log) /\ worker'[w].msg = 1
                 /\ worker'[w].upto <= Len(log)
                 /\ worker'[w].attempts = worker[w].attempts
              \/ /\ worker'[w].at = "cleanup" /\ worker'[w].next = worker[w].next
                 /\ worker[w].next > 1
              \/ worker'[w].at = "idle"
<1> DEFINE next == worker[w].next
           end == next + Page - 1
           upto == IF end > Len(log) THEN Len(log) ELSE end
           post == [At(w, "post") EXCEPT !.seq = next, !.msg = 1, !.upto = upto]
           clean == At(w, "cleanup")
<1>1. worker[w] \in Memories /\ next \in Nat /\ Len(log) \in Nat
  BY DEF Holds, Memories
<1>2. upto \in Nat /\ upto <= Len(log)
  BY <1>1, PushConstants
<1>3. /\ post \in Memories /\ post.at = "post" /\ post.seq = next /\ post.msg = 1
      /\ post.upto = upto /\ post.attempts = worker[w].attempts
  BY <1>1, <1>2 DEF Memories, At
<1>4. clean \in Memories /\ clean.at = "cleanup" /\ clean.next = next
  BY <1>1 DEF Memories, At
<1>5. /\ worker[w].at = "read"
      /\ UNCHANGED <<setting, log, run, row, caller, since, accepted>>
      /\ Hand(w, CASE next <= Len(log) -> post
                   [] next > Len(log) /\ next > 1 -> clean
                   [] OTHER -> Idle)
  BY DEF ReadPage, runside, history
<1> HIDE DEF post, clean, upto
<1>6. CASE next <= Len(log)
  <2>1. Hand(w, post)
    BY <1>1, <1>5, <1>6
  <2> QED
    BY <1>2, <1>3, <1>5, <1>6, <2>1, HandEffect
<1>7. CASE next > Len(log) /\ next > 1
  <2>1. Hand(w, clean)
    BY <1>1, <1>5, <1>7
  <2> QED
    BY <1>4, <1>5, <1>7, <2>1, HandEffect
<1>8. CASE ~(next <= Len(log)) /\ ~(next > Len(log) /\ next > 1)
  <2>1. Hand(w, Idle)
    BY <1>1, <1>5, <1>8
  <2> QED
    BY <1>5, <2>1, HandEffect, IdleFacts
<1> QED
  BY <1>6, <1>7, <1>8

LEMMA CleanupEffect ==
    ASSUME Holds, NEW w \in Workers, CleanupAcknowledged(w)
    PROVE  /\ UNCHANGED <<setting, log, run, row, caller, since, accepted>>
           /\ worker' \in [Workers -> Memories]
           /\ \A v \in Workers \ {w} : worker'[v] = worker[v]
           /\ worker[w].at = "cleanup"
           /\ \/ /\ worker'[w].at = "delete"
                 /\ Len(log) + 1 = worker[w].next /\ Terminal(Last(log))
              \/ worker'[w].at = "idle"
<1> DEFINE del == At(w, "delete")
<1>1. del \in Memories /\ del.at = "delete"
  BY DEF Holds, Memories, At
<1>2. /\ worker[w].at = "cleanup"
      /\ UNCHANGED <<setting, log, run, row, caller, since, accepted>>
      /\ Hand(w, IF Len(log) + 1 = worker[w].next /\ Terminal(Last(log)) THEN del ELSE Idle)
  BY DEF CleanupAcknowledged, runside, history
<1> HIDE DEF del
<1>3. CASE Len(log) + 1 = worker[w].next /\ Terminal(Last(log))
  <2>1. Hand(w, del)
    BY <1>2, <1>3
  <2> QED
    BY <1>1, <1>2, <1>3, <2>1, HandEffect
<1>4. CASE ~(Len(log) + 1 = worker[w].next /\ Terminal(Last(log)))
  <2>1. Hand(w, Idle)
    BY <1>2, <1>4
  <2> QED
    BY <1>2, <2>1, HandEffect, IdleFacts
<1> QED
  BY <1>3, <1>4

(* A message is taken: the sweep goes on to the next of the same record.   *)
LEMMA AcceptEffect ==
    ASSUME Holds, NEW w \in Workers, Accept(w)
    PROVE  /\ UNCHANGED <<setting, log, run, row, caller, since>>
           /\ worker' \in [Workers -> Memories]
           /\ \A v \in Workers \ {w} : worker'[v] = worker[v]
           /\ worker[w].at = "post"
           /\ accepted' = accepted \cup {<<worker[w].seq, worker[w].msg>>}
           /\ worker'[w].at = "post" /\ worker'[w].seq = worker[w].seq
           /\ worker'[w].upto = worker[w].upto /\ worker'[w].attempts = worker[w].attempts
           /\ worker'[w].msg = worker[w].msg + 1
<1> DEFINE mem == [worker[w] EXCEPT !.msg = @ + 1]
<1>1. worker[w] \in Memories
  BY DEF Holds
<1>2. /\ mem \in Memories /\ mem.at = worker[w].at /\ mem.seq = worker[w].seq
      /\ mem.upto = worker[w].upto /\ mem.attempts = worker[w].attempts
      /\ mem.msg = worker[w].msg + 1
  BY <1>1 DEF Memories
<1>3. /\ Hand(w, mem) /\ worker[w].at = "post"
      /\ UNCHANGED <<setting, log, run, row, caller, since>>
      /\ accepted' = accepted \cup {<<worker[w].seq, worker[w].msg>>}
  BY DEF Accept, Sending, Message, runside
<1> HIDE DEF mem
<1> QED
  BY <1>2, <1>3, HandEffect

(* A refusal leaves the receiver as it was; a lost answer does not.        *)
LEMMA FailEffect ==
    ASSUME Holds, NEW w \in Workers, Fail(w)
    PROVE  /\ UNCHANGED <<setting, log, run, row, caller, since>>
           /\ worker' \in [Workers -> Memories]
           /\ \A v \in Workers \ {w} : worker'[v] = worker[v]
           /\ worker[w].at = "post"
           /\ accepted' \in {accepted, accepted \cup {<<worker[w].seq, worker[w].msg>>}}
           /\ worker'[w].at = "failed" /\ worker'[w].seq = worker[w].seq
           /\ worker'[w].upto = worker[w].upto /\ worker'[w].attempts = worker[w].attempts
<1> DEFINE Failed(mem) ==
             /\ mem \in Memories /\ mem.at = "failed" /\ mem.seq = worker[w].seq
             /\ mem.upto = worker[w].upto /\ mem.attempts = worker[w].attempts
<1>1. worker[w] \in Memories
  BY DEF Holds
<1>2. Failed(At(w, "failed"))
  BY <1>1 DEF Memories, At
<1>3. \A p \in BOOLEAN : Failed([At(w, "failed") EXCEPT !.permanent = p])
  BY <1>1 DEF Memories, At
<1>4. /\ worker[w].at = "post"
      /\ UNCHANGED <<setting, log, run, row, caller, since>>
      /\ accepted' \in {accepted, accepted \cup {<<worker[w].seq, worker[w].msg>>}}
      /\ \/ Hand(w, At(w, "failed"))
         \/ \E p \in BOOLEAN : Hand(w, [At(w, "failed") EXCEPT !.permanent = p])
  BY DEF Fail, Sending, Message, runside
<1>5. PICK mem : Failed(mem) /\ Hand(w, mem)
  BY <1>2, <1>3, <1>4
<1> QED
  BY <1>4, <1>5, HandEffect

LEMMA GiveUpOrRetryEffect ==
    ASSUME Holds, NEW w \in Workers, GiveUpOrRetry(w)
    PROVE  /\ UNCHANGED <<setting, log, run, caller, since, accepted>>
           /\ worker' \in [Workers -> Memories]
           /\ \A v \in Workers \ {w} : worker'[v] = worker[v]
           /\ worker[w].at = "failed" /\ worker'[w].at = "idle"
           /\ row' \in Cursors /\ row'.next = row.next
           /\ Gone => row' = row
           /\ ~Gone => /\ row'.attempts = row.attempts + 1
                       /\ row'.parked \/ worker[w].attempts + 1 < MaxAttempts
<1>1. /\ UNCHANGED <<setting, log, run, caller, since, accepted>>
      /\ worker[w].at = "failed" /\ Hand(w, Idle)
  BY DEF GiveUpOrRetry, runside, history
<1>2. Park \/ (~Exhausted(w) /\ Retry)
  BY DEF GiveUpOrRetry
<1>3. worker[w].attempts \in Nat /\ MaxAttempts \in Nat
  BY PushConstants DEF Holds, Memories
<1>4. ~Exhausted(w) => worker[w].attempts + 1 < MaxAttempts
  BY <1>3 DEF Exhausted
<1>5. /\ row' \in Cursors /\ row'.next = row.next
      /\ Gone => row' = row
      /\ ~Gone => row'.attempts = row.attempts + 1
      /\ ~Gone /\ Park => row'.parked
  BY <1>2, FailureEffect
<1> QED
  BY <1>1, <1>2, <1>4, <1>5, HandEffect, IdleFacts

(* A record acknowledged: the cursor moves past it, and the sweep to the   *)
(* next of the page, to the deletion, or to rest.                          *)
LEMMA AcknowledgeEffect ==
    ASSUME Holds, NEW w \in Workers, Acknowledge(w)
    PROVE  /\ UNCHANGED <<setting, log, run, caller, since, accepted>>
           /\ worker' \in [Workers -> Memories]
           /\ \A v \in Workers \ {w} : worker'[v] = worker[v]
           /\ worker[w].at = "post" /\ worker[w].seq \in Nat
           /\ worker[w].msg > Messages(log[worker[w].seq])
           /\ row' \in Cursors
           /\ Gone => row' = row
           /\ ~Gone => /\ row'.attempts = 0 /\ row'.parked = FALSE
                       /\ row'.next \in {row.next, worker[w].seq + 1}
                       /\ row'.next >= row.next
           /\ \/ worker'[w].at = "delete" /\ Terminal(log[worker[w].seq])
              \/ /\ worker'[w].at = "post" /\ worker'[w].seq = worker[w].seq + 1
                 /\ worker[w].seq < worker[w].upto /\ worker'[w].upto = worker[w].upto
                 /\ worker'[w].msg = 1 /\ worker'[w].attempts = 0
              \/ worker'[w].at = "idle"
<1> DEFINE seq == worker[w].seq
           del == At(w, "delete")
           succ == worker[w].seq + 1
           more == [worker[w] EXCEPT !.seq = succ, !.msg = 1, !.attempts = 0]
<1>1. worker[w] \in Memories /\ seq \in Nat /\ succ \in Nat
  BY DEF Holds, Memories
<1>2. del \in Memories /\ del.at = "delete"
  BY <1>1 DEF Memories, At
<1>3. /\ worker[w].at = "post" /\ Advance(succ)
      /\ UNCHANGED <<setting, log, run, caller, since, accepted>>
      /\ worker[w].msg > Messages(log[seq])
      /\ Hand(w, CASE Terminal(log[seq]) -> del
                   [] ~Terminal(log[seq]) /\ seq < worker[w].upto -> more
                   [] OTHER -> Idle)
  BY DEF Acknowledge, runside, history
<1> HIDE DEF succ
<1>4. /\ more \in Memories /\ more.at = worker[w].at /\ more.seq = succ /\ more.msg = 1
      /\ more.attempts = 0 /\ more.upto = worker[w].upto
  BY <1>1 DEF Memories
<1>5. /\ row' \in Cursors
      /\ Gone => row' = row
      /\ ~Gone => /\ row'.attempts = 0 /\ row'.parked = FALSE
                  /\ row'.next \in {row.next, succ} /\ row'.next >= row.next
  BY <1>1, <1>3, AdvanceEffect
<1> HIDE DEF del, more
<1>6. CASE Terminal(log[seq])
  <2>1. Hand(w, del)
    BY <1>3, <1>6
  <2> QED
    BY <1>1, <1>2, <1>3, <1>5, <1>6, <2>1, HandEffect DEF succ
<1>7. CASE ~Terminal(log[seq]) /\ seq < worker[w].upto
  <2>1. Hand(w, more)
    BY <1>3, <1>7
  <2> QED
    BY <1>1, <1>3, <1>4, <1>5, <1>7, <2>1, HandEffect DEF succ
<1>8. CASE ~Terminal(log[seq]) /\ ~(seq < worker[w].upto)
  <2>1. Hand(w, Idle)
    BY <1>3, <1>8
  <2> QED
    BY <1>1, <1>3, <1>5, <2>1, HandEffect, IdleFacts DEF succ
<1> QED
  BY <1>6, <1>7, <1>8

-----------------------------------------------------------------------------
(* Nothing that was taken is lost: journals and receivers only grow.       *)

LEMMA TakenStays ==
    ASSUME Holds, setting' = setting, Len(log) \in Nat, log' \in Seq(Kinds),
           Len(log) <= Len(log'), \A i \in 1 .. Len(log) : log'[i] = log[i],
           accepted \subseteq accepted'
    PROVE  /\ \A seq : Taken(seq) => Taken(seq)'
           /\ EndTaken => EndTaken'
           /\ Reopened => Reopened'
           /\ \A n \in Nat : EndIsAhead(n) => EndIsAhead(n)'
<1>1. /\ DOMAIN log = 1 .. Len(log) /\ DOMAIN log' = 1 .. Len(log') /\ Len(log') \in Nat
      /\ \A i \in 1 .. Len(log) : i \in 1 .. Len(log')
      /\ \A i \in 1 .. Len(log) - 1 : i \in 1 .. Len(log') - 1 /\ i \in 1 .. Len(log)
  BY DEF Holds
<1>2. \A i \in 1 .. Len(log) : Messages(log[i])' = Messages(log[i])
  BY DEF Messages
<1>3. ASSUME NEW seq, Taken(seq) PROVE Taken(seq)'
  <2>1. seq \in 1 .. Len(log) /\ \A k \in 1 .. Messages(log[seq]) : <<seq, k>> \in accepted
    BY <1>1, <1>3 DEF Taken
  <2> QED
    BY <1>1, <1>2, <2>1 DEF Taken
<1>4. ASSUME EndTaken PROVE EndTaken'
  <2>1. PICK i \in 1 .. Len(log) : Terminal(log[i]) /\ Taken(i)
    BY <1>4 DEF EndTaken
  <2>2. i \in 1 .. Len(log') /\ log'[i] = log[i] /\ Taken(i)'
    BY <1>1, <1>3, <2>1
  <2> QED
    BY <2>1, <2>2 DEF EndTaken, Terminal
<1>5. ASSUME Reopened PROVE Reopened'
  <2>1. PICK i \in 1 .. Len(log) - 1 : Terminal(log[i])
    BY <1>5 DEF Reopened
  <2>2. i \in 1 .. Len(log') - 1 /\ log'[i] = log[i]
    BY <1>1
  <2> QED
    BY <2>1, <2>2 DEF Reopened, Terminal
<1>6. ASSUME NEW n \in Nat, EndIsAhead(n) PROVE EndIsAhead(n)'
  <2>1. n <= Len(log) + 1 /\ n <= Len(log') + 1
    BY <1>1, <1>6 DEF EndIsAhead
  <2>2. ASSUME n = Len(log') + 1
        PROVE  log' # <<>> /\ log'[Len(log')] = log[Len(log)] /\ ~Terminal(log[Len(log)])
    <3> DEFINE before == Len(log)
               after == Len(log')
    <3>0. before \in Nat /\ after \in Nat /\ before <= after
      BY <1>1
    <3>a. n <= before + 1 /\ n = after + 1
      BY <2>1, <2>2
    <3> HIDE DEF before, after
    <3>b. after = before
      BY <3>0, <3>a
    <3>1. Len(log') = Len(log)
      BY <3>b DEF before, after
    <3>2. log # <<>> /\ ~Terminal(log[Len(log)])
      BY <1>6, <2>2, <3>1 DEF EndIsAhead
    <3>3. Len(log) \in 1 .. Len(log)
      BY <3>2 DEF Holds
    <3> QED
      BY <3>1, <3>2, <3>3
  <2> QED
    BY <2>1, <2>2 DEF EndIsAhead, Terminal
<1> QED
  BY <1>3, <1>4, <1>5, <1>6

(* A row that stays, or goes for an end that was taken, keeps the promise. *)
LEMMA EndStays ==
    ASSUME Holds, RowGoesAfterEnd,
           setting' = setting, Len(log) \in Nat, log' \in Seq(Kinds),
           Len(log) <= Len(log'), \A i \in 1 .. Len(log) : log'[i] = log[i],
           accepted \subseteq accepted', since' = since,
           caller'.at = "put" => caller' = caller \/ EndIsAhead(caller.next)',
           row'.next = 0 => row.next = 0 \/ EndTaken,
           row.next = 0 => row'.next = 0,
           \A w \in Workers : worker'[w].at = "delete" => worker[w].at = "delete" \/ EndTaken,
           run' = "running" => run = "running" \/ setting.kind # "operator",
           run' = "sealed" => run \in {"running", "sealed"} \/ Reopened'
    PROVE  RowGoesAfterEnd'
<1>1. /\ EndTaken => EndTaken'
      /\ Reopened => Reopened'
      /\ \A n \in Nat : EndIsAhead(n) => EndIsAhead(n)'
  BY TakenStays
<1>2. since \in Nat /\ caller.next \in Nat
  BY DEF Holds
<1>3. since' # 0 => EndIsAhead(since)'
  BY <1>1, <1>2 DEF RowGoesAfterEnd
<1>4. caller'.at = "put" => EndIsAhead(caller.next)'
  BY <1>1, <1>2 DEF RowGoesAfterEnd
<1> QED
  BY <1>1, <1>3, <1>4 DEF RowGoesAfterEnd, Gone

LEMMA RunSideKeeps ==
    ASSUME PushInv, RunSide
    PROVE  PushInv'
<1>0. Holds /\ InReach /\ TakenBefore /\ RowGoesAfterEnd /\ FailuresAreKnown
  BY DEF PushInv
<1>1. /\ UNCHANGED <<setting, row, worker, caller, since, accepted>>
      /\ run' \in {"admitting", "resuming", "running", "stopped", "sealed"}
      /\ log' \in Seq(Kinds) /\ Len(log') <= MaxRecords
      /\ Len(log) \in Nat /\ Len(log') \in Nat /\ Len(log) <= Len(log')
      /\ log' # <<>>
      /\ \A i \in 1 .. Len(log) : log'[i] = log[i]
      /\ run' = "running" => run = "running"
      /\ run' = "sealed" => run = "running" \/ Reopened'
  BY <1>0, RunSideEffect DEF history
<1>2. /\ \A seq : Taken(seq) => Taken(seq)'
      /\ EndTaken => EndTaken'
      /\ Reopened => Reopened'
  BY <1>0, <1>1, TakenStays
<1>3. Holds'
  BY <1>0, <1>1 DEF Holds
<1>4. InReach'
  <2>2. \A w \in Workers : worker[w].upto \in Nat
    BY <1>0 DEF Holds, Memories
  <2>3. row.next \in Nat
    BY <1>0 DEF Holds, Cursors
  <2> QED
    BY <1>0, <1>1, <2>2, <2>3 DEF InReach
<1>5. TakenBefore'
  BY <1>0, <1>1, <1>2 DEF TakenBefore, TakenTo
<1>6. RowGoesAfterEnd'
  BY <1>0, <1>1, EndStays DEF Gone
<1>7. FailuresAreKnown'
  BY <1>0, <1>1 DEF FailuresAreKnown, Gone
<1> QED
  BY <1>3, <1>4, <1>5, <1>6, <1>7 DEF PushInv

(* A registration keeps the cursor of a row that is there, and starts a    *)
(* new row no later than what its receiver is owed.                        *)
LEMMA PutKeeps ==
    ASSUME PushInv, NEW seq \in 1 .. Len(log) + 1, Put(seq),
           EndIsAhead(seq),
           UNCHANGED <<setting, log, worker, accepted>>,
           run' \in {"running", run}, run' # "unborn" => log # <<>>,
           caller' \in [at : {"idle", "tail", "put"}, head : Nat, next : Nat],
           caller' = caller \/ caller'.at = "idle"
    PROVE  PushInv'
<1>0. Holds /\ InReach /\ TakenBefore /\ RowGoesAfterEnd /\ FailuresAreKnown
  BY DEF PushInv
<1>1. seq \in Nat /\ Len(log) \in Nat /\ seq >= 1 /\ seq <= Len(log) + 1
  BY <1>0 DEF Holds
<1>2. /\ row' \in Cursors /\ row'.attempts = 0 /\ row'.parked = FALSE
      /\ row'.next = IF Gone THEN seq ELSE row.next
      /\ since' \in Nat /\ since <= since'
      /\ Gone => seq <= since'
      /\ ~Gone => since' = since
      /\ since' \in {since, seq}
  BY <1>0, <1>1, PutEffect
<1>3. /\ \A n : Taken(n) => Taken(n)'
      /\ EndTaken => EndTaken'
      /\ Reopened => Reopened'
      /\ \A n \in Nat : EndIsAhead(n) => EndIsAhead(n)'
  BY <1>0, <1>1, TakenStays DEF Holds
<1>4. Holds'
  BY <1>0, <1>2 DEF Holds
<1>5. InReach'
  BY <1>0, <1>1, <1>2 DEF InReach
<1>6. TakenBefore'
  <2>1. \A n \in Nat : TakenTo(n) => \A x \in since' .. n - 1 : Taken(x)'
    BY <1>0, <1>2, <1>3 DEF TakenTo, Holds
  <2>2. \A x \in since' .. row'.next - 1 : Taken(x)'
    <3>1. CASE Gone
      BY <1>1, <1>2, <3>1
    <3>2. CASE ~Gone
      BY <1>0, <1>2, <2>1, <3>2 DEF TakenBefore, Holds, Cursors
    <3> QED
      BY <3>1, <3>2
  <2>3. \A m \in accepted : m[1] \in Nat
    BY <1>0 DEF Holds
  <2>4. \A w \in Workers : worker[w].next \in Nat /\ worker[w].seq \in Nat
    BY <1>0 DEF Holds, Memories
  <2> QED
    BY <1>0, <2>1, <2>2, <2>3, <2>4 DEF TakenBefore, TakenTo
<1>7. RowGoesAfterEnd'
  <2>1. row'.next # 0
    BY <1>1, <1>2 DEF Gone
  <2>2. \A n \in Nat : n \in {since, seq} /\ n # 0 => EndIsAhead(n)'
    BY <1>0, <1>1, <1>3 DEF RowGoesAfterEnd
  <2>3. since' \in Nat /\ since' # 0
    BY <1>0, <1>1, <1>2 DEF RowGoesAfterEnd, Holds
  <2>4. EndIsAhead(since)'
    BY <1>2, <2>2, <2>3
  <2>5. caller'.at = "put" => EndIsAhead(caller.next)'
    BY <1>0, <1>3 DEF RowGoesAfterEnd, Holds
  <2> QED
    BY <1>0, <1>3, <2>1, <2>3, <2>4, <2>5 DEF RowGoesAfterEnd, Gone
<1>8. FailuresAreKnown'
  <2>1. \A w \in Workers : worker[w].attempts \in Nat
    BY <1>0 DEF Holds, Memories
  <2> QED
    BY <1>0, <1>2, <2>1, PushConstants DEF FailuresAreKnown, Gone
<1> QED
  BY <1>4, <1>5, <1>6, <1>7, <1>8 DEF PushInv

(* A caller's reads move nothing but its own memory.                       *)
LEMMA CallerReadsKeep ==
    ASSUME PushInv, ReadHead \/ ReadTail
    PROVE  PushInv'
<1>0. Holds /\ InReach /\ TakenBefore /\ RowGoesAfterEnd /\ FailuresAreKnown
  BY DEF PushInv
<1>1. UNCHANGED <<setting, log, run, row, worker, since, accepted>>
  BY DEF ReadHead, ReadTail, runside, history
<1>2. Len(log) \in Nat /\ log \in Seq(Kinds)
      /\ caller \in [at : {"idle", "tail", "put"}, head : Nat, next : Nat]
  BY <1>0 DEF Holds
<1>3. /\ caller' \in [at : {"idle", "tail", "put"}, head : Nat, next : Nat]
      /\ caller'.at # "idle" => setting.kind = "caller"
      /\ caller'.at = "tail" => caller'.head \in 1 .. Len(log)
      /\ caller'.at = "put" => caller'.next \in 1 .. Len(log) + 1 /\ EndIsAhead(caller'.next)
  <2>1. CASE ReadHead
    <3>1. caller' = [caller EXCEPT !.at = "tail", !.head = Len(log)] /\ log # <<>>
          /\ setting.kind = "caller"
      BY <2>1 DEF ReadHead
    <3>2. Len(log) \in 1 .. Len(log)
      BY <1>2, <3>1
    <3> QED
      BY <1>2, <3>1, <3>2
  <2>2. CASE ReadTail
    <3> DEFINE n == IF IsConclusion(Last(log)) THEN caller.head ELSE caller.head + 1
    <3>1. caller' = [caller EXCEPT !.at = "put", !.next = n] /\ caller.at = "tail"
          /\ setting.kind = "caller"
      BY <1>0, <2>2 DEF ReadTail, InReach
    <3>2. n \in 1 .. Len(log) + 1 /\ n \in Nat
      BY <1>0, <1>2, <3>1 DEF InReach
    <3>3. EndIsAhead(n)
      <4>1. caller.head \in 1 .. Len(log)
        BY <1>0, <3>1 DEF InReach
      <4>2. n = Len(log) + 1 => ~IsConclusion(log[Len(log)])
        BY <1>2, <4>1 DEF Last
      <4> QED
        BY <1>2, <3>2, <4>1, <4>2 DEF EndIsAhead, Terminal, ends_task
    <3> HIDE DEF n
    <3> QED
      BY <1>2, <3>1, <3>2, <3>3
  <2> QED
    BY <2>1, <2>2
<1>4. Holds'
  BY <1>0, <1>1, <1>3 DEF Holds
<1>5. InReach'
  BY <1>0, <1>1, <1>3 DEF InReach
<1>6. TakenBefore' /\ FailuresAreKnown'
  BY <1>0, <1>1 DEF TakenBefore, TakenTo, Taken, Messages, FailuresAreKnown, Gone
<1>7. RowGoesAfterEnd'
  <2>1. caller'.at = "put" => EndIsAhead(caller.next)'
    BY <1>1, <1>3 DEF EndIsAhead, Terminal
  <2> QED
    BY <1>0, <1>1, <1>2, <2>1, EndStays DEF Holds
<1> QED
  BY <1>4, <1>5, <1>6, <1>7 DEF PushInv

(* An operator's unpark and the passing of time leave the cursor.          *)
LEMMA RearmKeeps ==
    ASSUME PushInv, Unpark \/ Backoff
    PROVE  PushInv'
<1>0. Holds /\ InReach /\ TakenBefore /\ RowGoesAfterEnd /\ FailuresAreKnown
  BY DEF PushInv
<1>1. UNCHANGED <<setting, log, run, worker, caller, since, accepted>>
  BY DEF Unpark, Backoff, runside, history
<1>2. /\ row' \in Cursors /\ row'.next = row.next
      /\ row'.attempts = 0 \/ (row'.attempts = row.attempts /\ row'.parked = row.parked)
  <2>1. row \in Cursors
    BY <1>0 DEF Holds
  <2>2. CASE Unpark
    BY <2>1, <2>2 DEF Unpark, Cursors
  <2>3. CASE Backoff
    BY <2>1, <2>3 DEF Backoff, Cursors
  <2> QED
    BY <2>2, <2>3
<1>3. Holds' /\ InReach'
  BY <1>0, <1>1, <1>2 DEF Holds, InReach
<1>4. TakenBefore' /\ RowGoesAfterEnd'
  <2>1. TakenBefore'
    BY <1>0, <1>1, <1>2 DEF TakenBefore, TakenTo, Taken, Messages
  <2>2. RowGoesAfterEnd'
    BY <1>0, <1>1, <1>2, EndStays DEF Holds
  <2> QED
    BY <2>1, <2>2
<1>5. FailuresAreKnown'
  <2>1. \A w \in Workers : worker[w].attempts \in Nat
    BY <1>0 DEF Holds, Memories
  <2> QED
    BY <1>0, <1>1, <1>2, <2>1, PushConstants DEF FailuresAreKnown, Gone
<1> QED
  BY <1>3, <1>4, <1>5 DEF PushInv

(* A sweep that only looks: what it will send next follows what was taken, *)
(* and it moves to the deletion only behind a conclusion.                  *)
LEMMA LooksKeep ==
    ASSUME PushInv, NEW w \in Workers,
           Sweep(w) \/ ReadPage(w) \/ CleanupAcknowledged(w) \/ Crash(w)
    PROVE  PushInv'
<1>0. Holds /\ InReach /\ TakenBefore /\ RowGoesAfterEnd /\ FailuresAreKnown
  BY DEF PushInv
<1>a. /\ worker[w] \in Memories /\ Len(log) \in Nat /\ row.next \in Nat
      /\ worker[w].next \in Nat /\ worker[w].attempts \in Nat /\ row.attempts \in Nat
  BY <1>0 DEF Holds, Memories, Cursors
<1>1. /\ UNCHANGED <<setting, log, run, row, caller, since, accepted>>
      /\ worker' \in [Workers -> Memories]
      /\ \A v \in Workers \ {w} : worker'[v] = worker[v]
      /\ \/ /\ worker'[w].at = "read" /\ worker'[w].next = row.next
            /\ worker'[w].attempts = row.attempts
            /\ w \in setting.workers /\ ~Gone /\ ~row.parked
         \/ /\ worker'[w].at = "post" /\ worker'[w].seq = worker[w].next
            /\ worker[w].next <= Len(log) /\ worker'[w].msg = 1
            /\ worker'[w].upto <= Len(log)
            /\ worker'[w].attempts = worker[w].attempts /\ worker[w].at = "read"
         \/ /\ worker'[w].at = "cleanup" /\ worker'[w].next = worker[w].next
            /\ worker[w].next > 1 /\ worker[w].at = "read"
         \/ /\ worker'[w].at = "delete" /\ worker[w].at = "cleanup"
            /\ Len(log) + 1 = worker[w].next /\ Terminal(Last(log))
         \/ worker'[w].at = "idle"
  <2>1. ASSUME Crash(w)
        PROVE  /\ UNCHANGED <<setting, log, run, row, caller, since, accepted>>
               /\ worker' \in [Workers -> Memories]
               /\ \A v \in Workers \ {w} : worker'[v] = worker[v]
               /\ worker'[w].at = "idle"
    BY <1>0, <2>1, HandEffect, IdleFacts DEF Crash, runside, history
  <2> QED
    BY <1>0, <2>1, SweepEffect, ReadPageEffect, CleanupEffect
<1>2. Holds'
  BY <1>0, <1>1 DEF Holds
<1>3. InReach'
  <2>1. /\ worker'[w].at = "read" => worker'[w].next \in 1 .. Len(log) + 1
        /\ worker'[w].at = "cleanup" => worker'[w].next \in 2 .. Len(log) + 1
        /\ worker'[w].at \in {"post", "failed"} =>
              worker'[w].seq \in 1 .. Len(log) /\ worker'[w].upto <= Len(log)
    BY <1>0, <1>1, <1>a DEF InReach, Gone
  <2> QED
    BY <1>0, <1>1, <2>1 DEF InReach
<1>4. \A seq : Taken(seq)' <=> Taken(seq)
  BY <1>1 DEF Taken, Messages
<1>5. TakenBefore'
  <2>1. /\ worker'[w].at \in {"read", "cleanup"} =>
              \A seq \in since .. worker'[w].next - 1 : Taken(seq)
        /\ worker'[w].at \in {"post", "failed"} =>
              \A seq \in since .. worker'[w].seq - 1 : Taken(seq)
    BY <1>0, <1>1 DEF TakenBefore, TakenTo
  <2>2. worker'[w].at = "post" =>
          \A k \in 1 .. worker'[w].msg - 1 : <<worker'[w].seq, k>> \in accepted
    BY <1>1
  <2> QED
    BY <1>0, <1>1, <1>4, <2>1, <2>2 DEF TakenBefore, TakenTo
<1>6. RowGoesAfterEnd'
  <2>1. ASSUME worker'[w].at = "delete" PROVE EndTaken
    <3>1. /\ worker[w].at = "cleanup" /\ Len(log) + 1 = worker[w].next
          /\ Terminal(Last(log))
      BY <1>1, <2>1
    <3>2. Len(log) \in 1 .. Len(log) /\ since \in Nat
      BY <1>0, <1>a, <3>1 DEF InReach, Holds
    <3>3. since <= Len(log)
      <4>1. since # 0 => since <= Len(log) + 1 /\ since # Len(log) + 1
        BY <1>0, <3>1 DEF RowGoesAfterEnd, EndIsAhead, Last
      <4> QED
        BY <1>a, <3>2, <4>1
    <3>4. Taken(Len(log))
      <4>1. Len(log) \in since .. worker[w].next - 1
        BY <1>a, <3>1, <3>2, <3>3
      <4> QED
        BY <1>0, <3>1, <4>1 DEF TakenBefore, TakenTo
    <3> QED
      BY <3>1, <3>2, <3>4 DEF EndTaken, Last
  <2> QED
    BY <1>0, <1>1, <1>a, <2>1, EndStays DEF Holds
<1>7. FailuresAreKnown'
  BY <1>0, <1>1, <1>a DEF FailuresAreKnown, Gone
<1> QED
  BY <1>2, <1>3, <1>5, <1>6, <1>7 DEF PushInv

(* A message is sent only when everything before its record was taken.     *)
LEMMA SendsKeep ==
    ASSUME PushInv, NEW w \in Workers, Accept(w) \/ Fail(w)
    PROVE  PushInv'
<1>0. Holds /\ InReach /\ TakenBefore /\ RowGoesAfterEnd /\ FailuresAreKnown
  BY DEF PushInv
<1> DEFINE sent == <<worker[w].seq, worker[w].msg>>
<1>a. /\ worker[w] \in Memories /\ Len(log) \in Nat /\ worker[w].seq \in Nat
      /\ worker[w].msg \in Nat /\ log \in Seq(Kinds) /\ worker[w].attempts \in Nat
  BY <1>0 DEF Holds, Memories
<1>1. /\ UNCHANGED <<setting, log, run, row, caller, since>>
      /\ worker' \in [Workers -> Memories]
      /\ \A v \in Workers \ {w} : worker'[v] = worker[v]
      /\ worker[w].at = "post"
      /\ worker'[w].seq = worker[w].seq
      /\ worker'[w].upto = worker[w].upto /\ worker'[w].attempts = worker[w].attempts
      /\ \/ worker'[w].at = "failed" /\ accepted' \in {accepted, accepted \cup {sent}}
         \/ /\ worker'[w].at = "post" /\ accepted' = accepted \cup {sent}
            /\ worker'[w].msg = worker[w].msg + 1
  BY <1>0, AcceptEffect, FailEffect
<1>2. accepted \subseteq accepted' /\ accepted' \subseteq accepted \cup {sent}
  BY <1>1
<1>3. /\ \A seq : Taken(seq) => Taken(seq)'
      /\ EndTaken => EndTaken'
      /\ Reopened => Reopened'
  BY <1>0, <1>1, <1>2, <1>a, TakenStays
<1>4. Holds'
  <2>1. accepted' \subseteq Nat \X Nat
    BY <1>0, <1>2, <1>a DEF Holds
  <2> QED
    BY <1>0, <1>1, <2>1 DEF Holds
<1>5. InReach'
  BY <1>0, <1>1 DEF InReach
<1>6. TakenBefore'
  <2>1. \A seq \in since .. worker[w].seq - 1 : Taken(seq)'
    BY <1>0, <1>1, <1>3 DEF TakenBefore, TakenTo
  <2>2. \A m \in accepted' : \A seq \in since .. m[1] - 1 : Taken(seq)'
    <3> SUFFICES ASSUME NEW m \in accepted' PROVE \A seq \in since .. m[1] - 1 : Taken(seq)'
      OBVIOUS
    <3>1. CASE m \in accepted
      BY <1>0, <1>3, <3>1 DEF TakenBefore, TakenTo
    <3>2. CASE m = sent
      BY <2>1, <3>2
    <3> QED
      BY <1>2, <3>1, <3>2
  <2>3. worker'[w].at = "post" =>
          \A k \in 1 .. worker'[w].msg - 1 : <<worker'[w].seq, k>> \in accepted'
    <3> SUFFICES ASSUME worker'[w].at = "post", NEW k \in 1 .. worker[w].msg
                 PROVE  <<worker[w].seq, k>> \in accepted'
      BY <1>1, <1>a
    <3>1. CASE k = worker[w].msg
      BY <1>1, <3>1
    <3>2. CASE k # worker[w].msg
      <4>1. k \in 1 .. worker[w].msg - 1
        BY <1>a, <3>2
      <4> QED
        BY <1>0, <1>1, <1>2, <4>1 DEF TakenBefore
    <3> QED
      BY <3>1, <3>2
  <2>4. \A v \in Workers \ {w} :
          /\ worker[v].at \in {"read", "cleanup"} =>
               \A seq \in since .. worker[v].next - 1 : Taken(seq)'
          /\ worker[v].at \in {"post", "failed"} =>
               \A seq \in since .. worker[v].seq - 1 : Taken(seq)'
          /\ worker[v].at = "post" =>
               \A k \in 1 .. worker[v].msg - 1 : <<worker[v].seq, k>> \in accepted'
    BY <1>0, <1>2, <1>3 DEF TakenBefore, TakenTo
  <2>5. \A seq \in since .. row.next - 1 : Taken(seq)'
    BY <1>0, <1>3 DEF TakenBefore, TakenTo
  <2> HIDE DEF sent
  <2> QED
    BY <1>1, <2>1, <2>2, <2>3, <2>4, <2>5 DEF TakenBefore, TakenTo
<1>7. RowGoesAfterEnd'
  BY <1>0, <1>1, <1>2, <1>a, EndStays
<1>8. FailuresAreKnown'
  BY <1>0, <1>1 DEF FailuresAreKnown, Gone
<1> QED
  BY <1>4, <1>5, <1>6, <1>7, <1>8 DEF PushInv

(* An acknowledged record was taken, message by message, so the cursor may *)
(* move past it and the row may go when the record is a conclusion.        *)
LEMMA AcknowledgeKeeps ==
    ASSUME PushInv, NEW w \in Workers, Acknowledge(w)
    PROVE  PushInv'
<1>0. Holds /\ InReach /\ TakenBefore /\ RowGoesAfterEnd /\ FailuresAreKnown
  BY DEF PushInv
<1> DEFINE n == worker[w].seq
<1>a. /\ worker[w] \in Memories /\ Len(log) \in Nat /\ n \in Nat /\ since \in Nat
      /\ worker[w].msg \in Nat /\ log \in Seq(Kinds) /\ worker[w].upto \in Nat
      /\ row.next \in Nat
  BY <1>0 DEF Holds, Memories, Cursors
<1>1. /\ UNCHANGED <<setting, log, run, caller, since, accepted>>
      /\ worker' \in [Workers -> Memories]
      /\ \A v \in Workers \ {w} : worker'[v] = worker[v]
      /\ worker[w].at = "post"
      /\ worker[w].msg > Messages(log[n])
      /\ row' \in Cursors
      /\ Gone => row' = row
      /\ ~Gone => /\ row'.attempts = 0 /\ row'.parked = FALSE
                  /\ row'.next \in {row.next, n + 1} /\ row'.next >= row.next
      /\ \/ worker'[w].at = "delete" /\ Terminal(log[n])
         \/ /\ worker'[w].at = "post" /\ worker'[w].seq = n + 1
            /\ n < worker[w].upto /\ worker'[w].upto = worker[w].upto
            /\ worker'[w].msg = 1 /\ worker'[w].attempts = 0
         \/ worker'[w].at = "idle"
  BY <1>0, AcknowledgeEffect
<1>2. n \in 1 .. Len(log) /\ worker[w].upto <= Len(log)
  BY <1>0, <1>1 DEF InReach
<1>3. Taken(n)
  <2>1. Messages(log[n]) \in {0, 1, 2}
    BY <1>0, PushConstants DEF Holds, Messages, payloads_for_record
  <2>2. \A k \in 1 .. Messages(log[n]) : k \in 1 .. worker[w].msg - 1
    BY <1>1, <1>a, <2>1
  <2>3. \A k \in 1 .. worker[w].msg - 1 : <<n, k>> \in accepted
    BY <1>0, <1>1 DEF TakenBefore
  <2>4. n \in DOMAIN log
    BY <1>2, <1>a
  <2> QED
    BY <2>2, <2>3, <2>4 DEF Taken
<1>4. \A seq \in since .. n : Taken(seq)
  <2>1. \A seq \in since .. n - 1 : Taken(seq)
    BY <1>0, <1>1 DEF TakenBefore, TakenTo
  <2>2. \A seq \in since .. n : seq \in since .. n - 1 \/ seq = n
    BY <1>a
  <2> QED
    BY <1>3, <2>1, <2>2
<1>5. /\ \A seq : Taken(seq) => Taken(seq)'
      /\ EndTaken => EndTaken'
      /\ Reopened => Reopened'
  BY <1>0, <1>1, <1>a, TakenStays
<1>6. n + 1 - 1 = n
  BY <1>a
<1> HIDE DEF n
<1>7. Holds'
  BY <1>0, <1>1 DEF Holds
<1>8. InReach'
  <2>1. row'.next <= Len(log) + 1
    BY <1>0, <1>1, <1>2, <1>a DEF InReach
  <2>2. worker'[w].at = "post" => worker'[w].seq \in 1 .. Len(log) /\ worker'[w].upto <= Len(log)
    BY <1>1, <1>2, <1>a
  <2>3. worker'[w].at \in {"delete", "post", "idle"}
    BY <1>1
  <2> QED
    BY <1>0, <1>1, <2>1, <2>2, <2>3 DEF InReach
<1>9. TakenBefore'
  <2>1. \A seq \in since .. row'.next - 1 : Taken(seq)
    <3>1. CASE row'.next = row.next
      BY <1>0, <3>1 DEF TakenBefore, TakenTo
    <3>2. CASE row'.next = n + 1
      BY <1>4, <1>6, <1>a, <3>2
    <3> QED
      BY <1>1, <3>1, <3>2
  <2>2. worker'[w].at = "post" =>
          /\ \A seq \in since .. worker'[w].seq - 1 : Taken(seq)
          /\ \A k \in 1 .. worker'[w].msg - 1 : <<worker'[w].seq, k>> \in accepted
    BY <1>1, <1>4, <1>6, <1>a
  <2>3. worker'[w].at \in {"delete", "post", "idle"}
    BY <1>1
  <2> QED
    BY <1>0, <1>1, <1>5, <2>1, <2>2, <2>3 DEF TakenBefore, TakenTo
<1>10. RowGoesAfterEnd'
  <2>1. worker'[w].at = "delete" => EndTaken
    BY <1>1, <1>2, <1>3 DEF EndTaken
  <2>2. row'.next = 0 => row.next = 0
    BY <1>1, <1>a DEF Gone
  <2> QED
    BY <1>0, <1>1, <1>a, <2>1, <2>2, EndStays DEF Gone
<1>11. FailuresAreKnown'
  <2>1. row'.attempts = 0 /\ (row'.parked = FALSE \/ row'.parked = row.parked)
    BY <1>0, <1>1 DEF FailuresAreKnown
  <2>2. \A v \in Workers : worker[v].attempts \in Nat
    BY <1>0 DEF Holds, Memories
  <2> QED
    BY <1>0, <1>1, <2>1, <2>2, PushConstants DEF FailuresAreKnown, Gone
<1> QED
  BY <1>7, <1>8, <1>9, <1>10, <1>11 DEF PushInv

(* A failed turn counts one failure more than its sweep had seen.          *)
LEMMA GiveUpOrRetryKeeps ==
    ASSUME PushInv, NEW w \in Workers, GiveUpOrRetry(w)
    PROVE  PushInv'
<1>0. Holds /\ InReach /\ TakenBefore /\ RowGoesAfterEnd /\ FailuresAreKnown
  BY DEF PushInv
<1>1. /\ UNCHANGED <<setting, log, run, caller, since, accepted>>
      /\ worker' \in [Workers -> Memories]
      /\ \A v \in Workers \ {w} : worker'[v] = worker[v]
      /\ worker[w].at = "failed" /\ worker'[w].at = "idle"
      /\ row' \in Cursors /\ row'.next = row.next
      /\ Gone => row' = row
      /\ ~Gone => /\ row'.attempts = row.attempts + 1
                  /\ row'.parked \/ worker[w].attempts + 1 < MaxAttempts
  BY <1>0, GiveUpOrRetryEffect
<1>2. Holds' /\ InReach'
  BY <1>0, <1>1 DEF Holds, InReach
<1>3. \A seq : Taken(seq)' <=> Taken(seq)
  BY <1>1 DEF Taken, Messages
<1>4. TakenBefore' /\ RowGoesAfterEnd'
  <2>1. TakenBefore'
    BY <1>0, <1>1, <1>3 DEF TakenBefore, TakenTo
  <2>2. RowGoesAfterEnd'
    BY <1>0, <1>1, EndStays DEF Holds
  <2> QED
    BY <2>1, <2>2
<1>5. FailuresAreKnown'
  <2>1. /\ row'.next = 0 => row'.attempts = 0
        /\ \A v \in Workers : worker'[v].at # "idle" => v \in setting.workers
    BY <1>0, <1>1 DEF FailuresAreKnown, Gone
  <2>2. ASSUME Cardinality(setting.workers) = 1
        PROVE  /\ row'.attempts <= MaxAttempts
               /\ ~row'.parked => row'.attempts < MaxAttempts
               /\ \A v \in Workers : worker'[v].at = "idle"
    <3>1. IsFiniteSet(setting.workers) /\ MaxAttempts \in Nat
      BY <1>0, PushConstants DEF Holds
    <3>2. \E x : setting.workers = {x}
      BY <2>2, <3>1, FS_Singleton
    <3>3. w \in setting.workers
      BY <1>0, <1>1 DEF FailuresAreKnown
    <3>4. \A v \in Workers \ {w} : v \notin setting.workers
      BY <3>2, <3>3
    <3>5. \A v \in Workers : worker'[v].at = "idle"
      BY <1>0, <1>1, <3>4 DEF FailuresAreKnown
    <3>6. row.attempts \in Nat /\ worker[w].attempts \in Nat
      BY <1>0 DEF Holds, Cursors, Memories
    <3>7. row.attempts <= worker[w].attempts /\ worker[w].attempts < MaxAttempts
          /\ row.attempts <= MaxAttempts /\ (~row.parked => row.attempts < MaxAttempts)
      BY <1>0, <1>1, <2>2 DEF FailuresAreKnown
    <3> QED
      BY <1>1, <3>1, <3>5, <3>6, <3>7
  <2> QED
    BY <1>1, <2>1, <2>2 DEF FailuresAreKnown, Gone
<1> QED
  BY <1>2, <1>4, <1>5 DEF PushInv

LEMMA DeleteRowKeeps ==
    ASSUME PushInv, NEW w \in Workers, DeleteRow(w)
    PROVE  PushInv'
<1>0. Holds /\ InReach /\ TakenBefore /\ RowGoesAfterEnd /\ FailuresAreKnown
  BY DEF PushInv
<1>1. /\ UNCHANGED <<setting, log, run, caller, since, accepted>>
      /\ worker' \in [Workers -> Memories]
      /\ \A v \in Workers \ {w} : worker'[v] = worker[v]
      /\ worker[w].at = "delete" /\ worker'[w].at = "idle" /\ row' = NoRow
  BY <1>0, HandEffect, IdleFacts DEF DeleteRow, Delete, runside, history
<1>2. row' \in Cursors /\ row'.next = 0 /\ row'.attempts = 0 /\ row'.parked = FALSE
  BY <1>1, NoRowFacts
<1>3. Len(log) \in Nat /\ since \in Nat
  BY <1>0 DEF Holds
<1>4. Holds' /\ InReach'
  BY <1>0, <1>1, <1>2, <1>3 DEF Holds, InReach
<1>5. \A seq : Taken(seq)' <=> Taken(seq)
  BY <1>1 DEF Taken, Messages
<1>6. TakenBefore'
  BY <1>0, <1>1, <1>2, <1>3, <1>5 DEF TakenBefore, TakenTo
<1>7. RowGoesAfterEnd'
  <2>1. EndTaken
    BY <1>0, <1>1 DEF RowGoesAfterEnd
  <2> QED
    BY <1>0, <1>1, <1>2, <2>1, EndStays DEF Holds
<1>8. FailuresAreKnown'
  <2>1. \A v \in Workers : worker[v].attempts \in Nat
    BY <1>0 DEF Holds, Memories
  <2> QED
    BY <1>0, <1>1, <1>2, <2>1, PushConstants DEF FailuresAreKnown
<1> QED
  BY <1>4, <1>6, <1>7, <1>8 DEF PushInv

LEMMA InitPush == Init => PushInv
<1> SUFFICES ASSUME Init PROVE PushInv
  OBVIOUS
<1>1. Holds
  BY NoRowFacts, IdleFacts, PushConstants DEF Init, Holds
<1>2. InReach /\ FailuresAreKnown /\ RowGoesAfterEnd
  BY NoRowFacts, IdleFacts, PushConstants
     DEF Init, InReach, FailuresAreKnown, RowGoesAfterEnd, Gone
<1>3. TakenBefore
  BY NoRowFacts, IdleFacts DEF Init, TakenBefore, TakenTo
<1> QED
  BY <1>1, <1>2, <1>3 DEF PushInv

LEMMA NextPush == PushInv /\ [Next]_vars => PushInv'
<1> SUFFICES ASSUME PushInv, [Next]_vars PROVE PushInv'
  OBVIOUS
<1>0. Holds /\ InReach
  BY DEF PushInv
<1>1. CASE Register
  <2>1. /\ UNCHANGED <<setting, log, worker, caller, accepted>> /\ run' = "running"
        /\ run \in {"admitting", "resuming"}
    BY <1>1 DEF Register
  <2>2. CASE setting.kind = "operator"
    <3>1. Put(1) /\ 1 \in 1 .. Len(log) + 1 /\ log # <<>>
          /\ caller' \in [at : {"idle", "tail", "put"}, head : Nat, next : Nat]
      BY <1>0, <1>1, <2>1, <2>2 DEF Register, Holds, InReach
    <3>2. EndIsAhead(1)
      BY <1>0, <3>1 DEF EndIsAhead, Holds
    <3> QED
      BY <2>1, <3>1, <3>2, PutKeeps
  <2>3. CASE setting.kind # "operator"
    <3>1. UNCHANGED <<row, since>>
      BY <1>1, <2>3 DEF Register
    <3>2. Holds' /\ InReach'
      BY <1>0, <2>1, <3>1 DEF Holds, InReach
    <3>3. TakenBefore' /\ FailuresAreKnown'
      BY <2>1, <2>3, <3>1 DEF PushInv, TakenBefore, TakenTo, Taken, Messages, FailuresAreKnown, Gone
    <3>4. RowGoesAfterEnd'
      BY <1>0, <2>1, <2>3, <3>1, EndStays DEF PushInv, Holds
    <3> QED
      BY <3>2, <3>3, <3>4 DEF PushInv
  <2> QED
    BY <2>2, <2>3
<1>2. CASE RegisterPush
  <2>1. /\ UNCHANGED <<setting, log, run, worker, accepted>> /\ Put(caller.next)
        /\ caller.at = "put" /\ caller' = [caller EXCEPT !.at = "idle"]
    BY <1>2 DEF RegisterPush, runside
  <2>2. /\ caller' \in [at : {"idle", "tail", "put"}, head : Nat, next : Nat]
        /\ caller'.at = "idle"
    BY <1>0, <2>1 DEF Holds
  <2>3. /\ caller.next \in 1 .. Len(log) + 1 /\ EndIsAhead(caller.next)
        /\ run' # "unborn" => log # <<>>
    BY <1>0, <2>1 DEF InReach, PushInv, RowGoesAfterEnd
  <2> QED
    BY <1>0, <2>1, <2>2, <2>3, PutKeeps
<1>3. CASE UNCHANGED vars
  BY <1>3, ZenonT(30) DEF vars, state, runside, history, PushInv, Holds, InReach, TakenBefore, TakenTo,
     Taken, Messages, RowGoesAfterEnd, EndTaken, Reopened, EndIsAhead, Terminal, FailuresAreKnown,
     Gone
<1> QED
  BY <1>1, <1>2, <1>3, RunSideKeeps, CallerReadsKeep, RearmKeeps, LooksKeep, SendsKeep,
     AcknowledgeKeeps, GiveUpOrRetryKeeps, DeleteRowKeeps DEF Next, Turn, RunSide

-----------------------------------------------------------------------------
(* The invariant says what the runs check.                                 *)

LEMMA InvDelivers == PushInv => DeliveredInOrder
<1> SUFFICES ASSUME PushInv PROVE DeliveredInOrder
  OBVIOUS
<1>0. Holds /\ InReach /\ TakenBefore /\ RowGoesAfterEnd /\ FailuresAreKnown
  BY DEF PushInv
<1>1. TypeOK
  <2>1. log \in [1 .. Len(log) -> Kinds] /\ Len(log) \in 0 .. MaxRecords
    BY <1>0, PushConstants DEF Holds
  <2>2. log \in BoundedSeq(Kinds, MaxRecords)
    BY <2>1 DEF BoundedSeq, SeqOf
  <2>3. row.next \in 0 .. Len(log) + 1 /\ row.attempts \in Nat
        /\ row.parked \in BOOLEAN /\ row.waiting \in BOOLEAN
    BY <1>0, <2>1 DEF Holds, Cursors, InReach
  <2>4. \A w \in Workers :
          worker[w].at \in {"idle", "read", "cleanup", "post", "failed", "delete"}
    BY <1>0 DEF Holds, Memories
  <2>5. /\ setting \in Settings /\ caller.at \in {"idle", "tail", "put"}
        /\ run \in {"unborn", "admitting", "resuming", "running", "stopped", "sealed"}
    BY <1>0 DEF Holds
  <2> QED
    BY <2>2, <2>3, <2>4, <2>5 DEF TypeOK
<1>2. CursorIsAPromise /\ AcceptedInOrder
  BY <1>0 DEF TakenBefore, TakenTo, CursorIsAPromise, AcceptedInOrder
<1>3. NothingUntold
  <2> SUFFICES ASSUME run = "sealed", ~Reopened, setting.kind = "operator" \/ since # 0, Gone
               PROVE  Taken(Len(log))
    BY DEF NothingUntold
  <2>1. PICK i \in 1 .. Len(log) : Terminal(log[i]) /\ Taken(i)
    BY <1>0 DEF RowGoesAfterEnd, EndTaken
  <2>2. i \notin 1 .. Len(log) - 1
    BY <2>1 DEF Reopened
  <2>3. i = Len(log)
    BY <1>0, <2>1, <2>2 DEF Holds
  <2> QED
    BY <2>1, <2>3
<1>4. RetriesAreBounded
  BY <1>0 DEF FailuresAreKnown, RetriesAreBounded
<1> QED
  BY <1>1, <1>2, <1>3, <1>4 DEF DeliveredInOrder

(* For any journal, any number of sweeps racing over one row and any       *)
(* number of refusals, deaths and registrations: the cursor promises what  *)
(* the receiver has, messages arrive in record order, a row, the           *)
(* operator's or a caller's, goes only once the conclusion that ends its   *)
(* stream was taken, and a lone sweep gives up at its ceiling.             *)
THEOREM DeliveryIsInOrder == Spec => []DeliveredInOrder
BY InitPush, NextPush, InvDelivers, PTL DEF Spec

(* No step of any sweep, registration or operator moves a cursor back      *)
(* while its row is there.                                                 *)
THEOREM CursorNeverRewinds == Spec => NeverRewinds
<1>1. PushInv /\ [Next]_vars => [~Gone /\ row'.next # 0 => row'.next >= row.next]_vars
  <2> SUFFICES ASSUME PushInv, [Next]_vars, ~Gone, row'.next # 0
               PROVE  row'.next >= row.next
    OBVIOUS
  <2>0. Holds /\ InReach /\ row.next \in Nat /\ Len(log) \in Nat
    BY DEF PushInv, Holds, Cursors
  <2>1. ASSUME NEW seq \in Nat, Put(seq) PROVE row'.next >= row.next
    <3>1. row'.next = IF Gone THEN seq ELSE row.next
      BY <2>0, <2>1, PutEffect
    <3> QED
      BY <2>0, <3>1
  <2>2. ASSUME NEW w \in Workers, DeleteRow(w) PROVE FALSE
    BY <2>2, NoRowFacts DEF DeleteRow, Delete
  <2>3. ASSUME NEW w \in Workers, Acknowledge(w) PROVE row'.next >= row.next
    BY <2>0, <2>3, AcknowledgeEffect
  <2>4. ASSUME NEW w \in Workers, GiveUpOrRetry(w) PROVE row'.next = row.next
    BY <2>0, <2>4, GiveUpOrRetryEffect
  <2>5. CASE Unpark \/ Backoff
    <3>1. row \in Cursors
      BY <2>0 DEF Holds
    <3>2. row'.next = row.next
      BY <2>5, <3>1 DEF Unpark, Backoff, Cursors
    <3> QED
      BY <2>0, <3>2
  <2>6. CASE UNCHANGED row
    BY <2>0, <2>6
  <2>7. Register => UNCHANGED row \/ Put(1)
    BY DEF Register
  <2>8. RegisterPush => Put(caller.next) /\ caller.next \in Nat
    BY <2>0 DEF RegisterPush, Holds
  <2>9. \/ UNCHANGED row \/ Register \/ RegisterPush \/ Unpark \/ Backoff
        \/ \E w \in Workers : DeleteRow(w) \/ Acknowledge(w) \/ GiveUpOrRetry(w)
    BY ZenonT(30) DEF Next, Turn, vars, state, Admit, RegisterRefused, Execute, Conclude, Die, Resume,
       Abandon, ReadHead, ReadTail, Sweep, ReadPage, CleanupAcknowledged, Accept, Fail, Crash
  <2> QED
    BY <2>0, <2>1, <2>2, <2>3, <2>4, <2>5, <2>6, <2>7, <2>8, <2>9
<1> QED
  BY <1>1, InitPush, NextPush, PTL DEF Spec, NeverRewinds

============================================================================
