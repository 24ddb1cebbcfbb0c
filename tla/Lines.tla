--------------------------------- MODULE Lines ---------------------------------
(***************************************************************************)
(* What hashtable_cache.c, hashtable_cache_np.c and hashtable_delete_cache *)
(* .c share: the size of the first subtable, the slots of a line and the   *)
(* masks that name them.  A line has readsPerLine slots, not a power of    *)
(* two unless the --lines of the harness makes it one, and the masks of    *)
(* the code are as they are for any number of slots.                       *)
(***************************************************************************)
EXTENDS Integers

CONSTANTS InitSize,     \* the size asked for: 1 << the -i of the harness
          entPerLine,   \* the entries in a line of the L1 cache
          readsPerLine  \* (int)(entPerLine * lines), lines the --lines of the
                        \* harness; also uBound

\* A --lines of less than one entry gives 0 slots in a line, and a shift by -1,
\* which C++ leaves undefined.
ASSUME LinesAssumption ==
  /\ InitSize \in Nat \ {0} /\ entPerLine \in Nat \ {0} /\ readsPerLine \in Nat \ {0}

\* Mutant: the size asked for is taken as it is.
initTable_AsAsked == InitSize

\* initTable: the first subtable has at least two lines of the cache, and at
\* least as many slots as a line of the table.
initTable ==
  CHOOSE size \in {InitSize, readsPerLine, 2 * entPerLine} :
    size >= InitSize /\ size >= readsPerLine /\ size >= 2 * entPerLine

\* The values of the bits of an int.
BitValues ==
  {1, 2, 4, 8, 16, 32, 64, 128, 256, 512, 1024, 2048, 4096, 8192, 16384, 32768, 65536, 131072,
   262144, 524288, 1048576, 2097152, 4194304, 8388608, 16777216, 33554432, 67108864, 134217728,
   268435456, 536870912, 1073741824}

Has(x, v) == (x \div v) % 2 = 1

\* x & mask, of a mask in Nat: the number with all the bits that both have.
Masked(x, mask) ==
  LET shared == {z \in 0 .. mask : \A v \in BitValues : Has(z, v) => Has(x, v) /\ Has(mask, v)}
  IN  CHOOSE z \in shared : \A w \in shared : w <= z

\* 1 << logReadsPerLine, which is logofint(readsPerLine).
lineStride == CHOOSE v \in BitValues : v <= readsPerLine /\ readsPerLine < 2 * v

\* The slot within a line that a call with this tag looks at in probe n: c &
\* (uBound-1), with c from tag on.
InLine(tag, n) == Masked(tag + (n % readsPerLine), readsPerLine - 1)

\* The stride is the line, and lines fill the first subtable: so it is if the
\* slots of a line, of a cache line and the size asked for are powers of two.
WholeLines == readsPerLine = lineStride /\ initTable % readsPerLine = 0
=============================================================================
