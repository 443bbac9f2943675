---------------------------- MODULE MCPgJournal ----------------------------
(* An instance of PgJournal. *)
EXTENDS PgJournal, TLC

CONSTANTS k1, e1

Admitted(k) == [kind |-> "RunAdmitted", arg |-> k]
StartsEffect == [kind |-> "EffectStarted", arg |-> e1]
Concludes == [kind |-> "RunConcluded", arg |-> None]

MCBatches == {<<Admitted(k1), StartsEffect>>, <<Admitted(None)>>, <<StartsEffect>>, <<Concludes>>}

By(epoch, body) == [kind |-> body.kind, arg |-> body.arg, epoch |-> epoch]

\* An empty store, one run of two in the middle of its work, and both concluded.
MCHistories ==
    {[r \in Runs |-> <<>>], [r \in Runs |-> <<By(1, Admitted(None)), By(2, Concludes)>>]}
    \cup {[r \in Runs |-> IF r = q THEN <<By(1, Admitted(k1)), By(1, StartsEffect)>> ELSE <<>>] : q \in Runs}

\* Runs and writers are interchangeable.
Interchangeable == Permutations(Runs) \cup Permutations(Writers)
=============================================================================
