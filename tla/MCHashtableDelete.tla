------------------------- MODULE MCHashtableDelete -------------------------
(***************************************************************************)
(* Instances of HashtableDelete for TLC: two keys, with one or two entries *)
(* each, on probe paths that start at the same slot.                       *)
(***************************************************************************)
EXTENDS HashtableDelete, TLC

CONSTANTS a, b, a1, a2, b1, b2, t1, t2

valOfThree == (a1 :> a) @@ (b1 :> b) @@ (b2 :> b)
valOfTwo == (a1 :> a) @@ (a2 :> a) @@ (b1 :> b) @@ (b2 :> b)

\* a and b share their first slot in every subtable and part at the second.
HashShared == (a :> (0 :> 0 @@ 1 :> 1)) @@ (b :> (0 :> 0 @@ 1 :> 3))

PlaceShared == Remainders(HashShared)

Symmetry == Permutations(Threads)

\* t1 is run; nothing is asked of t2.
FairSpec == Spec /\ WF_vars(Step(t1) /\ Look)

\* Whatever the other threads insert and delete, a thread that keeps running
\* finishes each of its calls.
WaitFree == (pc[t1] # "idle") ~> (pc[t1] = "idle")
=============================================================================
