--------------------------- MODULE MCHashtableLazy ---------------------------
(***************************************************************************)
(* Instances of HashtableLazy for TLC.                                     *)
(***************************************************************************)
EXTENDS HashtableLazy, TLC

CONSTANTS a, b, c, t1, t2

\* Two probes: a and b fill subtable 0 from its two ends; an insert of c passes
\* both its slots.
HashFilling == (a :> (0 :> 0 @@ 1 :> 1)) @@ (b :> (0 :> 1 @@ 1 :> 0))
               @@ (c :> (0 :> 0 @@ 1 :> 3))

\* One probe: a, b and c share the slot of subtable 0, and b and c one of
\* subtable 1 as well.
HashParting == (a :> (0 :> 0)) @@ (b :> (0 :> 1)) @@ (c :> (0 :> 3))

Symmetry == Permutations(Threads)

\* t1 is run; nothing is asked of t2.
FairSpec == Spec /\ WF_vars(Step(t1) /\ Look)

\* A thread that keeps running finishes its call, copies included.
WaitFree == (pc[t1] # "idle") ~> (pc[t1] = "idle")
=============================================================================
