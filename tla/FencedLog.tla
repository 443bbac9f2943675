------------------------------ MODULE FencedLog ------------------------------
(***************************************************************************)
(* What the journal store promises the runtime about one tenant's runs     *)
(* (the contract of the JournalStore trait in src/src/journal/store.rs):   *)
(* every run has a log that only grows, a token that must be presented to  *)
(* grow it, and a state in which it is closed for good.  Tokens are only   *)
(* ever granted above the last one, so the tokens stamped on a log never   *)
(* fall.                                                                   *)
(***************************************************************************)
EXTENDS Integers, Sequences

CONSTANT Runs

VARIABLES
    log,     \* run -> the records written, each stamped with its epoch
    token,   \* run -> the epoch a write must carry, 0 before the first grant
    closed   \* run -> whether the log is closed

logVars == <<log, token, closed>>

Init ==
    /\ log = [r \in Runs |-> <<>>]
    /\ token = [r \in Runs |-> 0]
    /\ closed = [r \in Runs |-> FALSE]

\* A new holder takes a token above the current one, fencing the old holder.
Grant(r) ==
    /\ token'[r] \in Nat /\ token'[r] > token[r]
    /\ \A q \in Runs \ {r} : token'[q] = token[q]
    /\ UNCHANGED <<log, closed>>

\* The log of an open run grows by records stamped with its token.
Write(r) ==
    /\ ~closed[r]
    /\ Len(log'[r]) > Len(log[r])
    /\ \A i \in 1 .. Len(log[r]) : log'[r][i] = log[r][i]
    /\ \A i \in (Len(log[r]) + 1) .. Len(log'[r]) : log'[r][i].epoch = token[r]
    /\ \A q \in Runs \ {r} : log'[q] = log[q]
    /\ UNCHANGED <<token, closed>>

\* A log that was written to is closed for good.
Close(r) ==
    /\ log[r] # <<>> /\ ~closed[r]
    /\ closed' = [closed EXCEPT ![r] = TRUE]
    /\ UNCHANGED <<log, token>>

\* The tokens are rebuilt from the logs: grants nobody wrote under are lost.
Recover ==
    /\ token' = [r \in Runs |-> IF log[r] = <<>> THEN 0 ELSE log[r][Len(log[r])].epoch]
    /\ UNCHANGED <<log, closed>>

Next ==
    \/ \E r \in Runs : Grant(r) \/ Write(r) \/ Close(r)
    \/ Recover

Spec == Init /\ [][Next]_logVars
=============================================================================
