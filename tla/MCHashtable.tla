---------------------------- MODULE MCHashtable ----------------------------
(***************************************************************************)
(* An instance of Hashtable for TLC.  The hash values are chosen so that   *)
(* probe paths cross, collide in the first subtable and part in the next.  *)
(***************************************************************************)
EXTENDS Hashtable, TLC

CONSTANTS a, b, c, t1, t2

\* Two probes: a and b try the same slots in opposite order, c follows a in
\* subtable 0 and leaves it in subtable 1.
HashCrossing == (a :> (0 :> 0 @@ 1 :> 1)) @@ (b :> (0 :> 1 @@ 1 :> 0))
                @@ (c :> (0 :> 1 @@ 1 :> 3))

PlaceCrossing == Remainders(HashCrossing)

\* t1 is run; nothing is asked of t2.
FairSpec == Spec /\ WF_vars(Step(t1) /\ Look)

\* Whatever the other threads do, and even if they stop inside a call, a
\* thread that keeps running finishes every insert and every query.
WaitFree == (pc[t1] # "idle") ~> (pc[t1] = "idle")
=============================================================================
