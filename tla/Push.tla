-------------------------------- MODULE Push --------------------------------
(***************************************************************************)
(* Outbound delivery: a registration is a destination and a cursor into a  *)
(* run's journal (src/store/redb_push.rs), and sweeps of a worker drain it *)
(* record by record (src/push/delivery.rs).                                *)
(*                                                                         *)
(* The run is the records it appends and when it registers the operator's  *)
(* destination: before it executes, at admission and at every resume       *)
(* (src/push/outbox.rs).  A caller's webhook is registered by the caller,  *)
(* from the journal's head on (src/api/a2a.rs).  One run, one              *)
(* registration: rows of two registrations share nothing.  Two workers are *)
(* two processes sweeping one store, which nothing keeps apart.            *)
(***************************************************************************)
EXTENDS Naturals, Sequences, FiniteSets, SequencesExt

CONSTANTS
    Workers,      \* the processes that sweep the push store
    Settings,     \* who registered the destination and what may go wrong
    MaxAttempts,  \* the worker's retry ceiling
    Page,         \* DRAIN_PAGE: the records one turn takes
    MaxRecords    \* bound on the records a run appends

ASSUME PushConstants ==
    /\ MaxAttempts \in Nat \ {0} /\ Page \in Nat \ {0}
    /\ MaxRecords \in Nat \ {0}
    /\ \A s \in Settings :
          /\ s.kind \in {"operator", "caller"}
          /\ s.workers \subseteq Workers /\ IsFiniteSet(s.workers)
          /\ s.mishaps \in Nat   \* bound on crashes, refusals and lost answers
          /\ s.stops \subseteq {"failed", "withheld", "quarantined"}
          /\ s.asks \in Nat      \* bound on resumes and registrations

VARIABLES
    setting,
    log,       \* the run's journal
    run,       \* where the run's own process is
    row,       \* the registration's cursor, or NoRow
    worker,    \* worker[w]: what a sweep has in memory
    caller,    \* a caller's registration in progress
    asked,     \* resumes and registrations asked for
    mishaps,
    \* History, read by no guard.
    since,     \* the latest sequence a row was registered from
    accepted   \* <<sequence, position>> of the messages a receiver took

runside == <<log, run>>
history == <<since, accepted>>
state == <<runside, row, worker, caller, asked, mishaps, history>>
vars == <<setting, state>>

-----------------------------------------------------------------------------
(* Records and what they project to.  A run can go on past a failed, a     *)
(* withheld or a quarantined conclusion; the other two seal it.            *)

Conclusions == {"failed", "withheld", "quarantined", "succeeded", "abandoned"}
Kinds == Conclusions \cup {"work"}
IsConclusion(rec) == rec \in Conclusions

(* A peer gets a record that tells progress as a status, a success after   *)
(* its artifact.                                                           *)
payloads_for_record(rec) == IF rec = "succeeded" THEN 2 ELSE 1

(* The operator gets the conclusions.                                      *)
Messages(rec) ==
    CASE setting.kind = "operator" -> IF IsConclusion(rec) THEN 1 ELSE 0
      [] setting.kind = "caller" -> payloads_for_record(rec)

(* A withheld run is interrupted for the peer that watches it, not ended.  *)
ends_task(rec) == IsConclusion(rec) /\ rec # "withheld"

(* The operator's stream ends at a conclusion, sealing or not; a caller's  *)
(* at one that ends its task.                                              *)
Terminal(rec) ==
    IF setting.kind = "operator" THEN IsConclusion(rec) ELSE ends_task(rec)

NoRow == [next |-> 0, attempts |-> 0, parked |-> FALSE, waiting |-> FALSE]
Gone == row.next = 0

-----------------------------------------------------------------------------
(* The store's transactions.                                               *)

(* An existing cursor is kept, and the row is live again.                  *)
Put(seq) ==
    /\ row' = [NoRow EXCEPT !.next = IF Gone THEN seq ELSE row.next]
    /\ since' = IF Gone /\ seq > since THEN seq ELSE since

\* Defect: the cursor is set to what this worker reached.
AdvanceSets(seq) ==
    row' = IF Gone THEN row ELSE [NoRow EXCEPT !.next = seq]

Advance(seq) ==
    row' = IF Gone THEN row
           ELSE [NoRow EXCEPT !.next = IF row.next > seq THEN row.next ELSE seq]

Retry ==
    row' = IF Gone THEN row
           ELSE [row EXCEPT !.attempts = @ + 1, !.waiting = TRUE, !.parked = FALSE]

Park ==
    row' = IF Gone THEN row ELSE [row EXCEPT !.attempts = @ + 1, !.parked = TRUE]

Delete == row' = NoRow

-----------------------------------------------------------------------------
Idle == [at |-> "idle", next |-> 0, attempts |-> 0, seq |-> 0, msg |-> 0,
         upto |-> 0, permanent |-> FALSE]

Init ==
    /\ setting \in Settings
    /\ log = <<>> /\ run = "unborn"
    /\ row = NoRow
    /\ worker = [w \in Workers |-> Idle]
    /\ caller = [at |-> "idle", head |-> 0, next |-> 0]
    /\ asked = 0 /\ mishaps = 0
    /\ since = 0 /\ accepted = {}

Mishap == mishaps < setting.mishaps /\ mishaps' = mishaps + 1

-----------------------------------------------------------------------------
(* The run.                                                                *)

Write(rec) == Len(log) < MaxRecords /\ log' = Append(log, rec)

Admit ==
    /\ run = "unborn"
    /\ Write("work") /\ run' = "admitting"
    /\ UNCHANGED <<setting, row, worker, caller, asked, mishaps, history>>

(* Before it executes, the run registers the operator's destinations.      *)
Register ==
    /\ run \in {"admitting", "resuming"}
    /\ IF setting.kind = "operator" THEN Put(1) ELSE UNCHANGED <<row, since>>
    /\ run' = "running"
    /\ UNCHANGED <<setting, log, worker, caller, asked, mishaps, accepted>>

(* A refused registration concludes an admission and refuses a resume.     *)
RegisterRefused ==
    /\ run \in {"admitting", "resuming"} /\ setting.kind = "operator" /\ Mishap
    /\ IF run = "admitting" THEN Write("failed") ELSE UNCHANGED log
    /\ run' = "stopped"
    /\ UNCHANGED <<setting, row, worker, caller, asked, history>>

Execute ==
    /\ run = "running"
    /\ Write("work")
    /\ UNCHANGED <<setting, run, row, worker, caller, asked, mishaps, history>>

Conclude ==
    /\ run = "running"
    /\ \/ Write("succeeded") /\ run' = "sealed"
       \/ \E outcome \in setting.stops :
            Write(outcome) /\ run' = "stopped"
    /\ UNCHANGED <<setting, row, worker, caller, asked, mishaps, history>>

Die ==
    /\ run \in {"admitting", "resuming", "running"} /\ Mishap
    /\ run' = "stopped"
    /\ UNCHANGED <<setting, log, row, worker, caller, asked, history>>

Resume ==
    /\ run = "stopped" /\ asked < setting.asks
    /\ asked' = asked + 1
    /\ run' = "resuming"
    /\ UNCHANGED <<setting, log, row, worker, caller, mishaps, history>>

(* An abandonment is concluded before the resume would register anything.  *)
Abandon ==
    /\ run = "stopped" /\ Last(log) = "quarantined" /\ asked < setting.asks
    /\ asked' = asked + 1
    /\ Write("abandoned") /\ run' = "sealed"
    /\ UNCHANGED <<setting, row, worker, caller, mishaps, history>>

-----------------------------------------------------------------------------
(* A caller registers a webhook: it reads the head, then the journal from  *)
(* it, then writes the row.                                                *)

ReadHead ==
    /\ setting.kind = "caller" /\ caller.at = "idle" /\ log # <<>>
    /\ asked < setting.asks /\ asked' = asked + 1
    /\ caller' = [caller EXCEPT !.at = "tail", !.head = Len(log)]
    /\ UNCHANGED <<setting, runside, row, worker, mishaps, history>>

(* A conclusion at the journal's end is still to be sent.                  *)
ReadTail ==
    /\ caller.at = "tail"
    /\ caller' = [caller EXCEPT !.at = "put",
            !.next = IF IsConclusion(Last(log)) THEN caller.head ELSE caller.head + 1]
    /\ UNCHANGED <<setting, runside, row, worker, asked, mishaps, history>>

RegisterPush ==
    /\ caller.at = "put"
    /\ Put(caller.next)
    /\ caller' = [caller EXCEPT !.at = "idle"]
    /\ UNCHANGED <<setting, runside, worker, asked, mishaps, accepted>>

-----------------------------------------------------------------------------
(* A sweep's turn with the registration: deliver_one.                      *)

Hand(w, mem) == worker' = [worker EXCEPT ![w] = mem]
At(w, step) == [worker[w] EXCEPT !.at = step]

Sweep(w) ==
    /\ w \in setting.workers /\ worker[w].at = "idle"
    /\ ~Gone /\ ~row.parked /\ ~row.waiting
    /\ Hand(w, [Idle EXCEPT !.at = "read", !.next = row.next,
                            !.attempts = row.attempts])
    /\ UNCHANGED <<setting, runside, row, caller, asked, mishaps, history>>

ReadPage(w) ==
    LET next == worker[w].next
        end == next + Page - 1
        upto == IF end > Len(log) THEN Len(log) ELSE end
    IN  /\ worker[w].at = "read"
        /\ Hand(w, CASE next <= Len(log) ->
                          [At(w, "post") EXCEPT !.seq = next, !.msg = 1, !.upto = upto]
                     [] next > Len(log) /\ next > 1 -> At(w, "cleanup")
                     [] OTHER -> Idle)
        /\ UNCHANGED <<setting, runside, row, caller, asked, mishaps, history>>

\* Defect: a page with nothing to send is left to a later sweep.
CleanupNothing(w) ==
    /\ worker[w].at = "cleanup"
    /\ Hand(w, Idle)
    /\ UNCHANGED <<setting, runside, row, caller, asked, mishaps, history>>

(* Nothing to send: the row goes when the record before the cursor is the  *)
(* journal's last and ends the stream.                                     *)
CleanupAcknowledged(w) ==
    /\ worker[w].at = "cleanup"
    /\ Hand(w, IF Len(log) + 1 = worker[w].next /\ Terminal(Last(log))
               THEN At(w, "delete") ELSE Idle)
    /\ UNCHANGED <<setting, runside, row, caller, asked, mishaps, history>>

Message(w) == <<worker[w].seq, worker[w].msg>>
Sending(w) == worker[w].at = "post" /\ worker[w].msg <= Messages(log[worker[w].seq])

Accept(w) ==
    /\ Sending(w)
    /\ accepted' = accepted \cup {Message(w)}
    /\ Hand(w, [worker[w] EXCEPT !.msg = @ + 1])
    /\ UNCHANGED <<setting, runside, row, caller, asked, mishaps, since>>

(* Refused, for now or for good, or taken with the answer lost; a record   *)
(* that cannot be projected is a refusal for now.                          *)
Fail(w) ==
    /\ Sending(w) /\ Mishap
    /\ \/ /\ \E permanent \in BOOLEAN :
                Hand(w, [At(w, "failed") EXCEPT !.permanent = permanent])
          /\ UNCHANGED accepted
       \/ /\ Hand(w, At(w, "failed"))
          /\ accepted' = accepted \cup {Message(w)}
    /\ UNCHANGED <<setting, runside, row, caller, asked, since>>

(* The failures before this one and this one make up the ceiling.          *)
Exhausted(w) == worker[w].attempts + 1 >= MaxAttempts

\* Defect: the turn goes on with the next record after a failure.
RetryAndGoOn(w) ==
    /\ worker[w].at = "failed"
    /\ Retry
    /\ Hand(w, IF worker[w].seq < worker[w].upto
               THEN [At(w, "post") EXCEPT !.seq = @ + 1, !.msg = 1] ELSE Idle)
    /\ UNCHANGED <<setting, runside, caller, asked, mishaps, history>>

GiveUpOrRetry(w) ==
    /\ worker[w].at = "failed"
    /\ IF worker[w].permanent \/ Exhausted(w) THEN Park ELSE Retry
    /\ Hand(w, Idle)
    /\ UNCHANGED <<setting, runside, caller, asked, mishaps, history>>

(* The record's messages are all taken: the cursor moves past it.          *)
Acknowledge(w) ==
    LET seq == worker[w].seq IN
    /\ worker[w].at = "post" /\ worker[w].msg > Messages(log[seq])
    /\ Advance(seq + 1)
    /\ Hand(w, CASE Terminal(log[seq]) -> At(w, "delete")
                 [] ~Terminal(log[seq]) /\ seq < worker[w].upto ->
                      [worker[w] EXCEPT !.seq = seq + 1, !.msg = 1, !.attempts = 0]
                 [] OTHER -> Idle)
    /\ UNCHANGED <<setting, runside, caller, asked, mishaps, history>>

DeleteRow(w) ==
    /\ worker[w].at = "delete"
    /\ Delete
    /\ Hand(w, Idle)
    /\ UNCHANGED <<setting, runside, caller, asked, mishaps, history>>

Crash(w) ==
    /\ worker[w].at # "idle" /\ Mishap
    /\ Hand(w, Idle)
    /\ UNCHANGED <<setting, runside, row, caller, asked, history>>

(* An operator re-arms a parked registration.                              *)
Unpark ==
    /\ ~Gone /\ row.parked
    /\ row' = [row EXCEPT !.parked = FALSE, !.attempts = 0, !.waiting = FALSE]
    /\ UNCHANGED <<setting, runside, worker, caller, asked, mishaps, history>>

(* The instant of the next attempt arrives.                                *)
Backoff ==
    /\ row.waiting
    /\ row' = [row EXCEPT !.waiting = FALSE]
    /\ UNCHANGED <<setting, runside, worker, caller, asked, mishaps, history>>

-----------------------------------------------------------------------------
Turn(w) ==
    \/ Sweep(w) \/ ReadPage(w) \/ CleanupAcknowledged(w) \/ Accept(w)
    \/ GiveUpOrRetry(w) \/ Acknowledge(w) \/ DeleteRow(w)

Next ==
    \/ Admit \/ Register \/ RegisterRefused \/ Execute \/ Conclude \/ Die
    \/ Resume \/ Abandon
    \/ ReadHead \/ ReadTail \/ RegisterPush
    \/ \E w \in Workers : Turn(w) \/ Fail(w) \/ Crash(w)
    \/ Unpark \/ Backoff

Spec == Init /\ [][Next]_vars

(* Sweeps are scheduled again and again, time passes, and an operator      *)
(* reads the list of parked rows.                                          *)
FairSpec ==
    /\ Spec
    /\ \A w \in Workers : WF_state(Turn(w))
    /\ WF_state(Unpark) /\ WF_state(Backoff)

-----------------------------------------------------------------------------
(* The shape of every variable.                                            *)
TypeOK ==
    /\ setting \in Settings
    /\ log \in BoundedSeq(Kinds, MaxRecords)
    /\ run \in {"unborn", "admitting", "resuming", "running", "stopped", "sealed"}
    /\ row.next \in 0 .. Len(log) + 1 /\ row.attempts \in Nat
    /\ row.parked \in BOOLEAN /\ row.waiting \in BOOLEAN
    /\ caller.at \in {"idle", "tail", "put"}
    /\ \A w \in Workers :
         worker[w].at \in {"idle", "read", "cleanup", "post", "failed", "delete"}

Taken(seq) ==
    /\ seq \in DOMAIN log
    /\ \A k \in 1 .. Messages(log[seq]) : <<seq, k>> \in accepted

(* The cursor is a promise that everything before it was acknowledged,     *)
(* though two sweeps race over it, die, and the row is registered again.   *)
CursorIsAPromise ==
    ~Gone => \A seq \in since .. row.next - 1 : seq <= Len(log) => Taken(seq)

(* A receiver never has a message of a record while it lacks one of an     *)
(* earlier record: failures, parking and racing sweeps skip nothing.       *)
AcceptedInOrder ==
    ~Gone => \A m \in accepted :
                \A seq \in since .. m[1] - 1 : Taken(seq)

(* A registration's cursor never moves back: neither a slower sweep nor a  *)
(* registration that is already there rewinds it.                          *)
NeverRewinds == [][~Gone /\ row'.next # 0 => row'.next >= row.next]_vars

(* Whether the run went on past a conclusion that ends the stream.         *)
Reopened == \E i \in 1 .. Len(log) - 1 : Terminal(log[i])

(* A run's end is not left untold: where the conclusion that sealed it is  *)
(* the first to end the stream, the operator's registration, and a         *)
(* caller's that was made, goes only once the receiver has that conclusion, *)
(* whichever refusals, parkings and deaths came first.  For a caller it may *)
(* follow withheld ones: a webhook hears how a withheld run ended.         *)
NothingUntold ==
    run = "sealed" /\ ~Reopened /\ (setting.kind = "operator" \/ since # 0) /\ Gone
        => Taken(Len(log))

(* One worker gives up after as many failures in a row as its ceiling.     *)
RetriesAreBounded ==
    Cardinality(setting.workers) = 1 => row.attempts <= MaxAttempts

(* A sealed run's end, where nothing ended the stream before, reaches the  *)
(* operator's destination, and a webhook that is registered when, before   *)
(* or after the run ends.                                                  *)
EndIsDelivered ==
    (run = "sealed" /\ ~Reopened /\ (setting.kind = "operator" \/ ~Gone))
        ~> Taken(Len(log))

(* No row is swept for ever over a journal that can never move: a sealed   *)
(* run's registration is retired, though the sweep that sent its last      *)
(* message died before deleting it.                                        *)
RowIsRetired == (run = "sealed") ~> Gone

(* A destination the run registered before it executed learns that the run *)
(* succeeded, however often it failed and was resumed before.              *)
OutcomeIsTold ==
    run = "sealed" /\ setting.kind = "operator" /\ Last(log) = "succeeded" /\ Gone
        => Taken(Len(log))

(* What the receiver has agrees with the cursor at every moment.           *)
DeliveredInOrder ==
    TypeOK /\ CursorIsAPromise /\ AcceptedInOrder /\ NothingUntold /\ RetriesAreBounded

(* A run that ended is told of, and its row goes.                          *)
EndsAndRetires == EndIsDelivered /\ RowIsRetired

-----------------------------------------------------------------------------
(* Why delivery is in order: the inductive invariant.                      *)

Cursors == [next : Nat, attempts : Nat, parked : BOOLEAN, waiting : BOOLEAN]
Memories ==
    [at : {"idle", "read", "cleanup", "post", "failed", "delete"}, next : Nat,
     attempts : Nat, seq : Nat, msg : Nat, upto : Nat, permanent : BOOLEAN]

(* The shape of what the store, a sweep and a caller hold.                 *)
Holds ==
    /\ setting \in Settings
    /\ log \in Seq(Kinds) /\ Len(log) <= MaxRecords
    /\ run \in {"unborn", "admitting", "resuming", "running", "stopped", "sealed"}
    /\ row \in Cursors
    /\ worker \in [Workers -> Memories]
    /\ caller \in [at : {"idle", "tail", "put"}, head : Nat, next : Nat]
    /\ since \in Nat /\ accepted \subseteq Nat \X Nat

(* Every cursor, in the row and in memory, points into the journal or just *)
(* past it.                                                                *)
InReach ==
    /\ run # "unborn" => log # <<>>
    /\ row.next <= Len(log) + 1
    /\ caller.at # "idle" => setting.kind = "caller"
    /\ caller.at = "tail" => caller.head \in 1 .. Len(log)
    /\ caller.at = "put" => caller.next \in 1 .. Len(log) + 1
    /\ \A w \in Workers :
         /\ worker[w].at = "read" => worker[w].next \in 1 .. Len(log) + 1
         /\ worker[w].at = "cleanup" => worker[w].next \in 2 .. Len(log) + 1
         /\ worker[w].at \in {"post", "failed"} =>
              worker[w].seq \in 1 .. Len(log) /\ worker[w].upto <= Len(log)

TakenTo(next) == \A seq \in since .. next - 1 : Taken(seq)

(* Whatever is about to be sent, or was, everything before it was taken.   *)
TakenBefore ==
    /\ TakenTo(row.next)
    /\ \A m \in accepted : TakenTo(m[1])
    /\ \A w \in Workers :
         /\ worker[w].at \in {"read", "cleanup"} => TakenTo(worker[w].next)
         /\ worker[w].at \in {"post", "failed"} => TakenTo(worker[w].seq)
         /\ worker[w].at = "post" =>
              \A k \in 1 .. worker[w].msg - 1 : <<worker[w].seq, k>> \in accepted

(* A registration past the journal's end leaves no end of stream behind.   *)
EndIsAhead(next) ==
    /\ next <= Len(log) + 1
    /\ next = Len(log) + 1 => log # <<>> /\ ~Terminal(log[Len(log)])

(* The receiver has some record that ends the stream.                      *)
EndTaken == \E i \in 1 .. Len(log) : Terminal(log[i]) /\ Taken(i)

(* A row goes only for an end of stream that was taken; the operator's is  *)
(* there before the run executes.                                          *)
RowGoesAfterEnd ==
    /\ since # 0 => EndIsAhead(since)
    /\ caller.at = "put" => EndIsAhead(caller.next)
    /\ \A w \in Workers : worker[w].at = "delete" => EndTaken
    /\ ~Gone => since # 0
    /\ since # 0 /\ Gone => EndTaken
    /\ setting.kind = "operator" =>
          /\ run = "running" => since # 0
          /\ run = "sealed" => since # 0 \/ Reopened

(* A lone sweep knows at least as many failures as the row counts.         *)
FailuresAreKnown ==
    /\ Gone => row.attempts = 0
    /\ \A w \in Workers : worker[w].at # "idle" => w \in setting.workers
    /\ Cardinality(setting.workers) = 1 =>
        /\ row.attempts <= MaxAttempts
        /\ ~row.parked => row.attempts < MaxAttempts
        /\ \A w \in Workers : worker[w].at \in {"read", "post", "failed"} =>
             row.attempts <= worker[w].attempts /\ worker[w].attempts < MaxAttempts

PushInv == Holds /\ InReach /\ TakenBefore /\ RowGoesAfterEnd /\ FailuresAreKnown

=============================================================================
