-------------------------------- MODULE MCEtw --------------------------------
(* EtwProcessor on a small instance. *)
EXTENDS EtwProcessor

\* Enough to open a file, clean it up, close it, open again at its address and
\* read.
Records == [w \in {"files", "stacks"} |-> IF w = "files" THEN 9 ELSE 5]

Lossy == [w \in {"files", "stacks"} |-> IF w = "files" THEN 6 ELSE 5]

Symmetry == Permutations(Paths) \cup Permutations(Images)
=============================================================================
