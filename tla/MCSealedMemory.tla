--------------------------- MODULE MCSealedMemory ---------------------------
(* Instances of SealedMemory for TLC. *)
EXTENDS SealedMemory, TLC

CONSTANTS a, b, c

\* b is derived from a, c from b.
MCIds == {a, b, c}
MCSources == {<<b, a>>, <<c, b>>}
\* Only b is rewritten: its first version may be trimmed from under its second.
MCMaxVersion == (a :> 1) @@ (b :> 2) @@ (c :> 1)

Interchangeable == Permutations(Instances)

=============================================================================
