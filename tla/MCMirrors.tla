----------------------------- MODULE MCMirrors -----------------------------
(* Small instances of Mirrors. *)
EXTENDS Mirrors, TLC

\* The clients differ in nothing but their names.
Symmetry == Permutations(Clients)

\* INT_MAX leaves the remainder 1 when divided by 9, and so does 10.
ASSUME SmallIntMax == IntMax % 9 = 1

=============================================================================
