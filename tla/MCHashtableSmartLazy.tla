------------------------ MODULE MCHashtableSmartLazy ------------------------
(***************************************************************************)
(* An instance of HashtableSmartLazy for TLC: a key of three entries, so   *)
(* that it can be inserted anew while an insert that has its second one    *)
(* puts in its first one again, and a key of two.                          *)
(***************************************************************************)
EXTENDS HashtableSmartLazy, TLC

CONSTANTS a, b, a1, a2, a3, b1, b2, t1, t2

valOfTwo == (a1 :> a) @@ (a2 :> a) @@ (a3 :> a) @@ (b1 :> b) @@ (b2 :> b)

\* One probe: a and b share the slot of a subtable of one slot and part in one
\* of two.
HashParting == (a :> (0 :> 0)) @@ (b :> (0 :> 1))

\* The threads are interchangeable, and so are the entries of one key.
Symmetry == Permutations(Threads) \cup Permutations({a1, a2, a3}) \cup Permutations({b1, b2})
=============================================================================
