--------------------------- MODULE MCHashtableCache ---------------------------
(***************************************************************************)
(* Instances of HashtableCache for TLC: lines of two slots; and where the  *)
(* probes are in lines of twelve and of twenty-four.                       *)
(***************************************************************************)
EXTENDS HashtableCache, Bitwise, TLC

CONSTANTS a, b, c, d, t1, t2

\* Two lines of two slots per subtable, the same one twice in subtable 0: b and c
\* enter a line at its second slot, a and d at its first.  The tag of c is no
\* char, and as a char it is the tag of b; a and d have the same tag.
HashLines == (a :> (0 :> 4 @@ 1 :> 2)) @@ (b :> (0 :> 1 @@ 1 :> 4))
             @@ (c :> (0 :> 6 @@ 1 :> 3)) @@ (d :> (0 :> 0 @@ 1 :> 5))
hashtagLines == (a :> 0) @@ (b :> -127) @@ (c :> 129) @@ (d :> 0)

Symmetry == Permutations(Threads)

\* What else the --lines of the harness can ask for, with 8 entries in a line of
\* the L1 cache: one line and a half, or three lines, where the comment at
\* hashtable_cache.c:286-290 goes up to.
Half == INSTANCE HashtableCache WITH
          InitSize <- 16, readsPerLine <- 12, entPerLine <- 8, Keys <- {a}, HashAttempts <- 1,
          Hash <- a :> (0 :> 8), hashtag <- a :> 11
Three == INSTANCE HashtableCache WITH
           InitSize <- 32, readsPerLine <- 24, entPerLine <- 8, Keys <- {a}, HashAttempts <- 1,
           Hash <- a :> (0 :> 16), hashtag <- a :> 23

\* Then lines are not whole, and a call looks past the end of the first subtable
\* in its first probe: at slot 19 of 16, and at slot 39 of 32.
ASSUME LinesRunOver ==
  /\ ~Half!WholeLines /\ Half!lineStride = 8 /\ Half!LinePlace[a][0][16] = 19
  /\ ~Three!WholeLines /\ Three!lineStride = 16 /\ Three!LinePlace[a][0][32] = 39

\* Masked is the & of integers, for numbers below 0 two's complement.
ASSUME MaskedIsAnd ==
  \A x \in -20 .. 40, mask \in 0 .. 40 : Masked(x, mask) = (x % 2 ^ 16) & mask
=============================================================================
