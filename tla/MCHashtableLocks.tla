-------------------------- MODULE MCHashtableLocks --------------------------
(***************************************************************************)
(* Instances of HashtableLocks for TLC.  With one slot at first, the third *)
(* insert finds the table too full, and the fourth may do so as well.      *)
(***************************************************************************)
EXTENDS HashtableLocks, TLC

CONSTANTS a, b, c, d, t1, t2

\* All in the slot of the first array; b leaves the others in the second.
HashChained == (a :> 0) @@ (b :> 1) @@ (c :> 2)

\* All in the slot of the first array; in the second, a and c in one slot, b and
\* d in the other.
HashPairs == (a :> 0) @@ (b :> 1) @@ (c :> 0) @@ (d :> 1)

Symmetry == Permutations(Threads)

\* With HashPairs, a and c are alike, and so are b and d.
SymmetryPairs ==
  {p @@ q @@ r : p \in Permutations(Threads), q \in Permutations({a, c}),
                 r \in Permutations({b, d})}
=============================================================================
