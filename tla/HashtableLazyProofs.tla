------------------------- MODULE HashtableLazyProofs -------------------------
(***************************************************************************)
(* Proofs about HashtableLazy, for any keys, any finite set of threads,    *)
(* any hash function and any number of probes.                             *)
(***************************************************************************)
EXTENDS HashtableLazy, FiniteSetTheorems, TLAPS

CopyPoints == {"setPtr", "copy", "count", "sum", "start"}
InsertPoints ==
  {"table", "docopy", "lookup", "claim", "recheck", "reload", "grow", "advance"} \cup CopyPoints
QueryPoints == {"qtable", "qlookup"}
ProbePoints == {"docopy", "lookup", "claim", "recheck", "reload", "qlookup"} \cup CopyPoints

IsSubTable(T) ==
  /\ T = [TableSize |-> T.TableSize, InnerTable |-> T.InnerTable, threadCopy |-> T.threadCopy]
  /\ T.TableSize \in Nat \ {0}
  /\ T.InnerTable \in [0 .. T.TableSize - 1 -> Pointers]
  /\ T.threadCopy \in [Threads -> Nat]

TablesTyped ==
  /\ TableArray = [jj \in DOMAIN TableArray |-> TableArray[jj]]
  /\ DOMAIN TableArray \subseteq Nat
  /\ \A jj \in DOMAIN TableArray : IsSubTable(TableArray[jj])
  /\ start \in Nat /\ cur \in Nat
  /\ buffer \in [Threads -> Nat \cup {None}]

\* An insert that copies an entry calls insertTable once, and that one copies nothing.
LocalsTyped ==
  /\ pc \in [Threads -> Points]
  /\ op \in [Threads -> {"none", "insert", "query"}]
  /\ key \in [Threads -> Keys \cup {NULL}]
  /\ ret \in [Threads -> {0, 1}]
  /\ frame \in [Threads -> Frames]
  /\ stack = [t \in Threads |-> stack[t]]
  /\ \A t \in Threads :
       stack[t] # <<>> => Head(stack[t]) \in Frames /\ stack[t] = <<Head(stack[t])>>

Typed == TablesTyped /\ LocalsTyped

\* Probe m of subtable j2 comes before probe n of subtable jj.
Before(j2, m, jj, n) == j2 < jj \/ (j2 = jj /\ m < n)

\* k's probes from subtable lo on, up to probe n of jj, have met neither NULL nor k.
PassedTo(k, lo, jj, n) ==
  \A j2 \in DOMAIN TableArray, m \in Attempts :
    lo <= j2 /\ Before(j2, m, jj, n) => Slot(k, m, j2).key \notin {NULL, k}

\* k's probes from probe n0 of subtable lo on, up to probe n of jj, meet no NULL.
Clear(k, lo, n0, jj, n) ==
  \A j2 \in DOMAIN TableArray, m \in Attempts :
    ~Before(j2, m, lo, n0) /\ Before(j2, m, jj, n) => Slot(k, m, j2).key # NULL

\* From probe n0 of subtable lo on, the path of k comes to k before it comes to NULL.
ReachesFrom(k, lo, n0) ==
  \E jj \in DOMAIN TableArray, n \in Attempts :
    /\ jj < cur /\ ~Before(jj, n, lo, n0)
    /\ Slot(k, n, jj).key = k
    /\ Clear(k, lo, n0, jj, n)

\* The insert that t is in on behalf of the harness, where it has marked a slot that it
\* has not counted yet.
IsPending(t) == stack[t] # <<>> \/ pc[t] \in {"copy", "count"}
Marker(t) == IF stack[t] # <<>> THEN Head(stack[t]) ELSE frame[t]
Marked(t) == Bucket(Marker(t).ent, Marker(t).i, Marker(t).j)
PendingAt(t, jj, s) == IsPending(t) /\ Marker(t).j = jj /\ Marked(t) = s

\* The slots that have been copied.
Completed(jj) ==
  {s \in Slots(jj) : At(jj, s).bool = 1 /\ \A t \in Threads : ~PendingAt(t, jj, s)}

\* The copies counted in subtable jj, those that only their threads see included.
Tally(jj) == UNION {{u} \X (1 .. Counted(u, jj, u)) : u \in Threads}

\* The subtables, numbered without holes, of which cur does not count the newest yet.
InOrder ==
  /\ DOMAIN TableArray \in {0 .. cur - 1, 0 .. cur}
  /\ 1 <= cur /\ start < cur

\* Slots are marked in no subtable above start, and in those below all of them; a copy
\* that is complete has its key further up, and no more copies are counted than complete.
Copied ==
  \A jj \in DOMAIN TableArray :
    /\ jj > start => \A s \in Slots(jj) : At(jj, s).bool = 0
    /\ jj < start => Completed(jj) = Slots(jj)
    /\ \A s \in Completed(jj) : ReachesFrom(At(jj, s).key, jj + 1, 0)
    /\ IsFiniteSet(Tally(jj))
    /\ Cardinality(Tally(jj)) <= Cardinality(Completed(jj))

\* Every key in the table is found from start on, and one above start also from there.
Found == \A k \in Contents : ReachesFrom(k, start, 0)
OnPath ==
  \A jj \in DOMAIN TableArray : \A s \in Slots(jj) :
    jj > start /\ At(jj, s).key # NULL =>
      \E n \in Attempts : Bucket(At(jj, s).key, n, jj) = s
                          /\ Clear(At(jj, s).key, start + 1, 0, jj, n)

\* A key is once in a subtable, and once unmarked in all of them.
OncePerSubtable ==
  \A jj \in DOMAIN TableArray : \A s1, s2 \in Slots(jj) :
    At(jj, s1).key = At(jj, s2).key /\ At(jj, s1).key # NULL => s1 = s2
UnmarkedOnce ==
  \A j1, j2 \in DOMAIN TableArray : \A s1 \in Slots(j1), s2 \in Slots(j2) :
    At(j1, s1) = At(j2, s2) /\ At(j1, s1).key # NULL /\ At(j1, s1).bool = 0
      => j1 = j2 /\ s1 = s2

\* Each mark is one thread's to copy.
Distinct ==
  \A t, u \in Threads : \A jj \in DOMAIN TableArray : \A s \in Slots(jj) :
    PendingAt(t, jj, s) /\ PendingAt(u, jj, s) => t = u

\* An insert passes the slots from start on, a copy those above the slot it copies.
Origin(t) == IF stack[t] = <<>> THEN start ELSE Head(stack[t]).j + 1

\* What the interrupted insert of a thread that is copying has established.
StackInv(t) ==
  stack[t] # <<>> =>
    LET g == Head(stack[t])
    IN /\ pc[t] \in InsertPoints \ CopyPoints /\ ~frame[t].doCopy /\ g.j < frame[t].j
       /\ g.ent = key[t] /\ g.doCopy /\ g.exStart = g.j /\ g.j = start /\ g.j + 1 < cur
       /\ PassedTo(g.ent, start, g.j, g.i)
       /\ Slot(g.ent, g.i, g.j) = [key |-> frame[t].ent, bool |-> 1]
       /\ frame[t].ent # g.ent

\* What the insertTable or checkTableQuery that t is in has established where it is.
FrameInv(t) ==
  /\ pc[t] \in ProbePoints => frame[t].j < cur
  /\ pc[t] = "docopy" => frame[t].LocalCur <= cur
  /\ pc[t] \in {"table", "docopy", "reload", "grow", "advance", "qtable"} => frame[t].i = 0
  /\ pc[t] = "table" /\ ~(frame[t].j < cur) => frame[t].j = frame[t].LocalCur
  /\ pc[t] \in {"table", "grow", "advance"} => frame[t].j <= cur
  /\ pc[t] \in {"idle", "table", "docopy", "grow", "advance"} \cup QueryPoints
       => ~frame[t].doCopy
  /\ pc[t] \in {"grow", "advance"} => frame[t].j = frame[t].LocalCur /\ 1 <= frame[t].j
  /\ pc[t] = "advance" => frame[t].LocalCur \in DOMAIN TableArray
  /\ frame[t].doCopy => frame[t].j <= start /\ frame[t].j + 1 < cur
  /\ pc[t] \in CopyPoints => frame[t].doCopy /\ Probed(t).key \notin {NULL, frame[t].ent}
  /\ pc[t] \in InsertPoints =>
       PassedTo(frame[t].ent, Origin(t),
                IF pc[t] = "reload" THEN frame[t].j + 1 ELSE frame[t].j, frame[t].i)
  /\ pc[t] = "recheck" => Probed(t).key # NULL
  /\ pc[t] \in {"copy", "count"} => Probed(t).bool = 1 /\ frame[t].j = start
  /\ pc[t] \in {"count", "sum", "start"} => frame[t].exStart = frame[t].j
  /\ pc[t] = "count" => ReachesFrom(Probed(t).key, frame[t].j + 1, 0)
  /\ pc[t] = "start" => Completed(frame[t].j) = Slots(frame[t].j)

CallInv(t) ==
  /\ pc[t] = "idle" <=> op[t] = "none"
  /\ pc[t] \in InsertPoints => op[t] = "insert"
  /\ pc[t] \in QueryPoints => op[t] = "query" /\ stack[t] = <<>>
  /\ pc[t] = "idle" => stack[t] = <<>>
  /\ pc[t] # "idle" => key[t] \in Keys /\ frame[t].ent \in Keys
  /\ pc[t] # "idle" /\ stack[t] = <<>> => frame[t].ent = key[t]
  /\ buffer[t] # None => buffer[t] \in DOMAIN TableArray

ThreadInv(t) == CallInv(t) /\ StackInv(t) /\ FrameInv(t)

\* The answers seen include today's, and a query that has always seen its key is
\* before it on its path.
SeenInv(t) ==
  /\ op[t] # "none" => (IF key[t] \in Contents THEN 1 ELSE 0) \in seen[t]
  /\ op[t] = "none" => seen[t] = {}
  /\ pc[t] \in QueryPoints /\ 0 \notin seen[t] => ReachesFrom(key[t], frame[t].j, frame[t].i)

\* The inductive invariant.
Inv ==
  /\ Typed /\ InOrder /\ Copied /\ Found /\ OnPath /\ OncePerSubtable /\ UnmarkedOnce /\ Distinct
  /\ seen \in [Threads -> SUBSET {0, 1}]
  /\ \A t \in Threads : ThreadInv(t) /\ SeenInv(t)

ThreadStep(t) == CallInsert(t) \/ CallQuery(t) \/ Step(t)
-----------------------------------------------------------------------------
(* The memory                                                              *)

\* The bucket of a probe is a slot of its subtable.
LEMMA BucketInRange ==
  ASSUME TablesTyped, NEW k \in Keys, NEW n \in Attempts, NEW jj \in DOMAIN TableArray
  PROVE  Bucket(k, n, jj) \in Slots(jj)
<1>1. Hash[k][n] \in Nat
  BY HashtableLazyAssumption
<1>2. TableArray[jj].TableSize \in Nat \ {0}
  BY DEF TablesTyped, IsSubTable
<1>3. \A x \in Nat, y \in Nat \ {0} : x % y \in 0 .. y - 1
  OBVIOUS
<1> QED
  BY <1>1, <1>2, <1>3 DEF Bucket, Slots

\* What a slot holds.
LEMMA AtTyped ==
  ASSUME TablesTyped, NEW jj \in DOMAIN TableArray, NEW s \in Slots(jj)
  PROVE  /\ At(jj, s) \in Pointers
         /\ At(jj, s) = Null <=> At(jj, s).key = NULL
         /\ At(jj, s).key = NULL => At(jj, s).bool = 0
         /\ At(jj, s).key \in Keys \cup {NULL} /\ At(jj, s).bool \in {0, 1}
         /\ At(jj, s) = [key |-> At(jj, s).key, bool |-> At(jj, s).bool]
<1>1. At(jj, s) \in Pointers
  BY DEF TablesTyped, IsSubTable, Slots, At
<1>2. NULL \notin Keys
  BY HashtableLazyAssumption
<1> QED
  BY <1>1, <1>2 DEF Pointers, Null

\* What a probe finds.
LEMMA SlotTyped ==
  ASSUME TablesTyped, NEW k \in Keys, NEW n \in Attempts, NEW jj \in DOMAIN TableArray
  PROVE  /\ Slot(k, n, jj) = At(jj, Bucket(k, n, jj))
         /\ Slot(k, n, jj) = Null <=> Slot(k, n, jj).key = NULL
         /\ Slot(k, n, jj).key \in Keys \cup {NULL} /\ Slot(k, n, jj).bool \in {0, 1}
         /\ Slot(k, n, jj).key = NULL => Slot(k, n, jj).bool = 0
         /\ Slot(k, n, jj) = [key |-> Slot(k, n, jj).key, bool |-> Slot(k, n, jj).bool]
<1>1. Slot(k, n, jj) = At(jj, Bucket(k, n, jj))
  BY DEF Slot, At
<1> QED
  BY <1>1, BucketInRange, AtTyped

\* The compare-and-swaps of a slot that succeed.
Marks(t) == setPtr(t) /\ Probed(t).bool = 0
Claims(t) == ClaimSlot(t) /\ Probed(t) = Null
Target(t) == Bucket(frame[t].ent, frame[t].i, frame[t].j)

\* What a step of t leaves in slot s of subtable jj.
After(t, jj, s) ==
  IF ~(jj = frame[t].j /\ s = Target(t)) THEN At(jj, s)
  ELSE IF Marks(t) THEN [key |-> At(jj, s).key, bool |-> 1]
  ELSE IF Claims(t) THEN [key |-> frame[t].ent, bool |-> 0]
  ELSE At(jj, s)

\* Subtables are added behind the others, empty, and keep their sizes.
Grows ==
  /\ TablesTyped'
  /\ DOMAIN TableArray \subseteq DOMAIN TableArray'
  /\ \A jj \in DOMAIN TableArray : TableArray'[jj].TableSize = TableArray[jj].TableSize
  /\ \A jj \in DOMAIN TableArray' \ DOMAIN TableArray :
       /\ cur <= jj
       /\ \A s \in Slots(jj)' : At(jj, s)' = Null
       /\ \A u \in Threads : TableArray'[jj].threadCopy[u] = 0

\* A subtable with one slot written.
LEMMA WriteSlot ==
  ASSUME NEW T, IsSubTable(T), NEW s \in 0 .. T.TableSize - 1, NEW p \in Pointers, NEW U,
         U = [T EXCEPT !.InnerTable[s] = p]
  PROVE  /\ IsSubTable(U) /\ U.TableSize = T.TableSize /\ U.threadCopy = T.threadCopy
         /\ U.InnerTable[s] = p
         /\ \A v \in 0 .. T.TableSize - 1 : v # s => U.InnerTable[v] = T.InnerTable[v]
<1>1. U = [TableSize |-> T.TableSize, InnerTable |-> [T.InnerTable EXCEPT ![s] = p],
           threadCopy |-> T.threadCopy]
  BY DEF IsSubTable
<1>2. /\ U.TableSize = T.TableSize /\ U.threadCopy = T.threadCopy
      /\ U.InnerTable = [T.InnerTable EXCEPT ![s] = p]
  BY <1>1
<1>3. U.InnerTable \in [0 .. T.TableSize - 1 -> Pointers]
  BY <1>2 DEF IsSubTable
<1> QED
  BY <1>1, <1>2, <1>3 DEF IsSubTable

\* Slot s of subtable jj takes p, and all else in the subtables stays.
Writes(jj, s, p) ==
  /\ Grows /\ DOMAIN TableArray' = DOMAIN TableArray
  /\ \A j2 \in DOMAIN TableArray : TableArray'[j2].threadCopy = TableArray[j2].threadCopy
  /\ \A j2 \in DOMAIN TableArray : \A v \in Slots(j2) :
       At(j2, v)' = IF j2 = jj /\ v = s THEN p ELSE At(j2, v)

\* One slot of one subtable is written.
LEMMA TablesWrite ==
  ASSUME TablesTyped, NEW jj \in DOMAIN TableArray, NEW s \in Slots(jj), NEW p \in Pointers,
         TableArray' = [TableArray EXCEPT ![jj].InnerTable[s] = p],
         UNCHANGED <<start, cur, buffer>>
  PROVE  Writes(jj, s, p)
<1>1. /\ TableArray'[jj] = [TableArray[jj] EXCEPT !.InnerTable[s] = p]
      /\ \A j2 \in DOMAIN TableArray : j2 # jj => TableArray'[j2] = TableArray[j2]
      /\ DOMAIN TableArray' = DOMAIN TableArray
      /\ TableArray' = [j2 \in DOMAIN TableArray' |-> TableArray'[j2]]
  BY DEF TablesTyped
<1>2. IsSubTable(TableArray[jj]) /\ s \in 0 .. TableArray[jj].TableSize - 1
  BY DEF TablesTyped, Slots
<1>3. /\ IsSubTable(TableArray'[jj]) /\ TableArray'[jj].TableSize = TableArray[jj].TableSize
      /\ TableArray'[jj].threadCopy = TableArray[jj].threadCopy
      /\ TableArray'[jj].InnerTable[s] = p
      /\ \A v \in 0 .. TableArray[jj].TableSize - 1 :
           v # s => TableArray'[jj].InnerTable[v] = TableArray[jj].InnerTable[v]
  BY <1>1, <1>2, WriteSlot
<1>4. \A j2 \in DOMAIN TableArray :
        /\ IsSubTable(TableArray'[j2]) /\ TableArray'[j2].TableSize = TableArray[j2].TableSize
        /\ TableArray'[j2].threadCopy = TableArray[j2].threadCopy
  BY <1>1, <1>3 DEF TablesTyped
<1>5. Grows
  BY <1>1, <1>4 DEF Grows, TablesTyped
<1>6. ASSUME NEW j2 \in DOMAIN TableArray, NEW v \in Slots(j2)
      PROVE  At(j2, v)' = IF j2 = jj /\ v = s THEN p ELSE At(j2, v)
  BY <1>1, <1>3 DEF At, Slots
<1> QED
  BY <1>1, <1>4, <1>5, <1>6 DEF Writes

\* The fields of a frame.
LEMMA FrameTyped ==
  ASSUME NEW f \in Frames
  PROVE  /\ f.ent \in Keys \cup {NULL} /\ f.j \in Nat /\ f.i \in Attempts /\ f.LocalCur \in Nat
         /\ f.doCopy \in BOOLEAN /\ f.exStart \in Nat
BY DEF Frames

\* Where t probes there is a slot.
LEMMA ProbeInRange ==
  ASSUME Inv, NEW t \in Threads, pc[t] \in ProbePoints
  PROVE  /\ frame[t].j \in DOMAIN TableArray /\ frame[t].j \in Nat /\ frame[t].j < cur
         /\ frame[t].i \in Attempts /\ frame[t].ent \in Keys
         /\ Target(t) \in Slots(frame[t].j)
         /\ Probed(t) = At(frame[t].j, Target(t))
         /\ Probed(t).key \in Keys \cup {NULL} /\ Probed(t).bool \in {0, 1}
         /\ Probed(t) = Null <=> Probed(t).key = NULL
         /\ Probed(t).key = NULL => Probed(t).bool = 0
<1> TablesTyped /\ LocalsTyped /\ InOrder /\ CallInv(t) /\ FrameInv(t) /\ cur \in Nat
  BY DEF Inv, Typed, ThreadInv, TablesTyped
<1>1. frame[t].j \in Nat /\ frame[t].i \in Attempts
  BY FrameTyped DEF LocalsTyped
<1>2. frame[t].j < cur /\ frame[t].ent \in Keys
  BY DEF CallInv, FrameInv, ProbePoints, CopyPoints
<1>3. frame[t].j \in DOMAIN TableArray
  BY <1>1, <1>2 DEF InOrder
<1> QED
  BY <1>1, <1>2, <1>3, BucketInRange, SlotTyped DEF Target, Probed

\* What a step of t does to the memory.
TablesOf(t) ==
  /\ Grows
  /\ \A jj \in DOMAIN TableArray : \A s \in Slots(jj) : At(jj, s)' = After(t, jj, s)
  /\ Marks(t) \/ Claims(t) => DOMAIN TableArray' = DOMAIN TableArray

\* A step that leaves the subtables alone.
LEMMA TablesUnchanged ==
  ASSUME TablesTyped, NEW t \in Threads, UNCHANGED TableArray, start' \in Nat, cur' \in Nat,
         buffer' \in [Threads -> Nat \cup {None}], ~Marks(t), ~Claims(t)
  PROVE  TablesOf(t)
<1>1. TablesTyped'
  BY DEF TablesTyped
<1>2. Grows
  BY <1>1 DEF Grows
<1> QED
  BY <1>2 DEF TablesOf, After, At

\* setPtr writes the mark of one slot.
LEMMA TablesMark ==
  ASSUME Inv, NEW t \in Threads, Marks(t)
  PROVE  /\ TablesOf(t)
         /\ \A jj \in DOMAIN TableArray :
              TableArray'[jj].threadCopy = TableArray[jj].threadCopy
<1> TablesTyped /\ FrameInv(t) /\ pc[t] = "setPtr" /\ pc[t] \in ProbePoints
  BY DEF Inv, Typed, ThreadInv, Marks, setPtr, ProbePoints, CopyPoints
<1>0. PICK jj \in DOMAIN TableArray : jj = frame[t].j
  BY ProbeInRange
<1>1. PICK b \in Slots(jj) : b = Target(t)
  BY <1>0, ProbeInRange
<1>2. Probed(t) = At(jj, b) /\ Probed(t).key \in Keys
  BY <1>0, <1>1, ProbeInRange DEF FrameInv, CopyPoints
<1>3. PICK p \in Pointers : p = [key |-> Probed(t).key, bool |-> 1]
  BY <1>2 DEF Pointers
<1>4. TableArray' = [TableArray EXCEPT ![jj].InnerTable[b].bool = 1]
      /\ UNCHANGED <<start, cur, buffer>>
  BY <1>0, <1>1 DEF Marks, setPtr, Target
<1>5. At(jj, b) = [key |-> At(jj, b).key, bool |-> At(jj, b).bool]
  BY <1>1, AtTyped
<1>6. [At(jj, b) EXCEPT !.bool = 1] = p
  BY <1>2, <1>3, <1>5
<1>7. TableArray' = [TableArray EXCEPT ![jj].InnerTable[b] = p]
  BY <1>4, <1>6 DEF At
<1>8. Writes(jj, b, p)
  BY <1>4, <1>7, TablesWrite
<1>9. \A j2 \in DOMAIN TableArray : \A v \in Slots(j2) : At(j2, v)' = After(t, j2, v)
  BY <1>0, <1>1, <1>2, <1>3, <1>8 DEF After, Writes
<1> QED
  BY <1>8, <1>9 DEF TablesOf, Writes

\* ClaimSlot writes the entry in one slot.
LEMMA TablesClaim ==
  ASSUME Inv, NEW t \in Threads, Claims(t)
  PROVE  /\ TablesOf(t)
         /\ \A jj \in DOMAIN TableArray :
              TableArray'[jj].threadCopy = TableArray[jj].threadCopy
<1> TablesTyped /\ pc[t] = "claim" /\ pc[t] \in ProbePoints
  BY DEF Inv, Typed, Claims, ClaimSlot, ProbePoints
<1>0. PICK jj \in DOMAIN TableArray : jj = frame[t].j
  BY ProbeInRange
<1>1. PICK b \in Slots(jj) : b = Target(t)
  BY <1>0, ProbeInRange
<1>2. PICK p \in Pointers : p = [key |-> frame[t].ent, bool |-> 0]
  BY ProbeInRange DEF Pointers
<1>3. TableArray' = [TableArray EXCEPT ![jj].InnerTable[b] = p]
      /\ UNCHANGED <<start, cur, buffer>>
  BY <1>0, <1>1, <1>2 DEF Claims, ClaimSlot, Target
<1>m. ~Marks(t)
  BY DEF Marks, setPtr
<1>4. Writes(jj, b, p)
  BY <1>3, TablesWrite
<1>5. \A j2 \in DOMAIN TableArray : \A v \in Slots(j2) : At(j2, v)' = After(t, j2, v)
  BY <1>0, <1>1, <1>2, <1>4, <1>m DEF After, Writes
<1> QED
  BY <1>4, <1>5 DEF TablesOf, Writes

\* The buffer drains into threadCopy.
LEMMA TablesDrain ==
  ASSUME Inv, NEW t \in Threads, Drain(t)
  PROVE  /\ TablesOf(t) /\ DOMAIN TableArray' = DOMAIN TableArray
         /\ buffer'[t] = None /\ \A u \in Threads : u # t => buffer'[u] = buffer[u]
         /\ \A jj \in DOMAIN TableArray, u \in Threads :
              TableArray'[jj].threadCopy[u] =
                TableArray[jj].threadCopy[u] + (IF u = t /\ jj = buffer[t] THEN 1 ELSE 0)
<1> DEFINE jj == buffer[t]
           T == TableArray[jj]
<1> TablesTyped /\ CallInv(t)
  BY DEF Inv, Typed, ThreadInv
<1>1. /\ jj \in DOMAIN TableArray /\ IsSubTable(T)
      /\ TableArray' = [TableArray EXCEPT ![jj].threadCopy[t] = @ + 1]
      /\ UNCHANGED <<start, cur>> /\ buffer' = [buffer EXCEPT ![t] = None]
  BY DEF Drain, CallInv, TablesTyped
<1> HIDE DEF jj
<1>2. /\ TableArray'[jj] = [T EXCEPT !.threadCopy[t] = T.threadCopy[t] + 1]
      /\ \A j2 \in DOMAIN TableArray : j2 # jj => TableArray'[j2] = TableArray[j2]
      /\ DOMAIN TableArray' = DOMAIN TableArray
      /\ TableArray' = [j2 \in DOMAIN TableArray' |-> TableArray'[j2]]
  BY <1>1 DEF TablesTyped
<1> HIDE DEF T
<1>3. TableArray'[jj] = [TableSize |-> T.TableSize, InnerTable |-> T.InnerTable,
                         threadCopy |-> [T.threadCopy EXCEPT ![t] = T.threadCopy[t] + 1]]
  BY <1>1, <1>2 DEF IsSubTable
<1>4. /\ TableArray'[jj].TableSize = T.TableSize /\ TableArray'[jj].InnerTable = T.InnerTable
      /\ TableArray'[jj].threadCopy = [T.threadCopy EXCEPT ![t] = T.threadCopy[t] + 1]
  BY <1>3
<1>5. TableArray'[jj].threadCopy \in [Threads -> Nat]
  <2>1. T.threadCopy \in [Threads -> Nat]
    BY <1>1 DEF IsSubTable
  <2>2. T.threadCopy[t] + 1 \in Nat
    BY <2>1
  <2> QED
    BY <1>4, <2>1, <2>2
<1>6. IsSubTable(TableArray'[jj])
  BY <1>1, <1>3, <1>4, <1>5 DEF IsSubTable
<1>7. \A j2 \in DOMAIN TableArray :
        /\ IsSubTable(TableArray'[j2]) /\ TableArray'[j2].TableSize = TableArray[j2].TableSize
        /\ TableArray'[j2].InnerTable = TableArray[j2].InnerTable
  BY <1>2, <1>4, <1>6 DEF TablesTyped, T
<1>8. buffer' \in [Threads -> Nat \cup {None}]
  BY <1>1 DEF TablesTyped
<1>9. Grows
  BY <1>1, <1>2, <1>7, <1>8 DEF Grows, TablesTyped
<1>10. ASSUME NEW j2 \in DOMAIN TableArray, NEW u \in Threads
       PROVE  TableArray'[j2].threadCopy[u] =
                TableArray[j2].threadCopy[u] + (IF u = t /\ j2 = buffer[t] THEN 1 ELSE 0)
  <2>1. TableArray[j2].threadCopy \in [Threads -> Nat]
    BY DEF TablesTyped, IsSubTable
  <2>2. CASE j2 = jj
    BY <1>4, <2>1, <2>2 DEF jj, T
  <2>3. CASE j2 # jj
    BY <1>2, <2>1, <2>3 DEF jj
  <2> QED
    BY <2>2, <2>3
<1>11. \A j2 \in DOMAIN TableArray : \A v \in Slots(j2) : At(j2, v)' = After(t, j2, v)
  <2>1. ~Marks(t) /\ ~Claims(t)
    BY <1>1 DEF Drain, Marks, Claims, setPtr, ClaimSlot, Goto, Return, NextAttempt, Inv, Typed,
                LocalsTyped
  <2> QED
    BY <1>7, <2>1 DEF After, At
<1>12. buffer'[t] = None /\ \A u \in Threads : u # t => buffer'[u] = buffer[u]
  BY <1>1 DEF TablesTyped
<1> QED
  BY <1>2, <1>9, <1>10, <1>11, <1>12 DEF TablesOf
-----------------------------------------------------------------------------
(* The locals                                                              *)

\* Frames stay frames, field by field.
LEMMA FrameUpdates ==
  ASSUME NEW f \in Frames
  PROVE  /\ \A m \in Attempts : [f EXCEPT !.i = m, !.exStart = 0] \in Frames
         /\ \A m \in Attempts, x \in Nat : [f EXCEPT !.i = m, !.j = x, !.exStart = 0] \in Frames
         /\ \A x \in Nat : /\ [f EXCEPT !.LocalCur = x] \in Frames
                           /\ [f EXCEPT !.j = x] \in Frames
                           /\ [f EXCEPT !.exStart = x] \in Frames
         /\ \A d \in BOOLEAN : [f EXCEPT !.doCopy = d, !.LocalCur = 0] \in Frames
         /\ \A x, y \in Nat : [f EXCEPT !.LocalCur = x, !.j = y, !.doCopy = FALSE] \in Frames
BY DEF Frames

\* A call begins with a new frame.
NewFrame(k, jj) == [NoFrame EXCEPT !.ent = k, !.j = jj]

\* The frame of a thread outside any call, and that of one that begins.
LEMMA NewFrames ==
  /\ NoFrame \in Frames /\ ~NoFrame.doCopy /\ NoFrame.i = 0
  /\ \A k \in Keys, jj \in Nat :
       LET f == NewFrame(k, jj)
       IN f \in Frames /\ f.ent = k /\ f.j = jj /\ f.i = 0 /\ ~f.doCopy /\ f.LocalCur = 0
<1>1. 0 \in Attempts
  BY HashtableLazyAssumption DEF Attempts
<1> QED
  BY <1>1 DEF Frames, NoFrame, NewFrame

\* The end of an insertTable or a query.
LEMMA ReturnEffect ==
  ASSUME LocalsTyped, NEW t \in Threads, NEW r \in {0, 1}, Return(t, r)
  PROVE  /\ LocalsTyped' /\ stack'[t] = <<>>
         /\ IF stack[t] = <<>>
              THEN /\ pc'[t] = "idle" /\ ret'[t] = r /\ op'[t] = "none" /\ key'[t] = NULL
                   /\ frame'[t] = NoFrame
              ELSE /\ pc'[t] = "count" /\ ret'[t] = ret[t] /\ op'[t] = op[t] /\ key'[t] = key[t]
                   /\ frame'[t] = Head(stack[t])
<1>1. CASE stack[t] = <<>>
  <2>1. /\ pc' = [pc EXCEPT ![t] = "idle"] /\ frame' = [frame EXCEPT ![t] = NoFrame]
        /\ ret' = [ret EXCEPT ![t] = r] /\ op' = [op EXCEPT ![t] = "none"]
        /\ key' = [key EXCEPT ![t] = NULL] /\ stack' = stack /\ NoFrame \in Frames
    BY <1>1, NewFrames DEF Return, Goto
  <2>2. /\ pc' \in [Threads -> Points] /\ frame' \in [Threads -> Frames]
        /\ ret' \in [Threads -> {0, 1}] /\ op' \in [Threads -> {"none", "insert", "query"}]
        /\ key' \in [Threads -> Keys \cup {NULL}]
    BY <2>1 DEF LocalsTyped, Points
  <2>3. LocalsTyped'
    BY <2>1, <2>2 DEF LocalsTyped
  <2> QED
    BY <1>1, <2>1, <2>3 DEF LocalsTyped
<1>2. CASE stack[t] # <<>>
  <2>1. Head(stack[t]) \in Frames /\ stack[t] = <<Head(stack[t])>>
    BY <1>2 DEF LocalsTyped
  <2>2. \A g : Tail(<<g>>) = <<>>
    OBVIOUS
  <2>3. Tail(stack[t]) = <<>>
    BY <2>1, <2>2
  <2>4. /\ pc' = [pc EXCEPT ![t] = "count"] /\ frame' = [frame EXCEPT ![t] = Head(stack[t])]
        /\ stack' = [stack EXCEPT ![t] = <<>>] /\ UNCHANGED <<op, key, ret>>
    BY <1>2, <2>3 DEF Return, Goto, LocalsTyped
  <2>5. pc' \in [Threads -> Points] /\ frame' \in [Threads -> Frames]
    BY <2>1, <2>4 DEF LocalsTyped, Points
  <2>6. stack'[t] = <<>> /\ \A u \in Threads : u # t => stack'[u] = stack[u]
    BY <2>4 DEF LocalsTyped
  <2>7. stack' = [u \in Threads |-> stack'[u]]
    BY <2>4 DEF LocalsTyped
  <2>8. \A u \in Threads :
          stack'[u] # <<>> => Head(stack'[u]) \in Frames /\ stack'[u] = <<Head(stack'[u])>>
    BY <2>6 DEF LocalsTyped
  <2>9. LocalsTyped'
    BY <2>4, <2>5, <2>7, <2>8 DEF LocalsTyped
  <2> QED
    BY <1>2, <2>4, <2>6, <2>9 DEF LocalsTyped
<1> QED
  BY <1>1, <1>2

\* The next probe.
LEMMA NextEffect ==
  ASSUME LocalsTyped, NEW t \in Threads, NEW again \in Points, NEW after \in Points,
         NEW jj \in Nat, NextAttempt(t, again, after, jj)
  PROVE  /\ LocalsTyped' /\ UNCHANGED call
         /\ frame'[t].ent = frame[t].ent /\ frame'[t].doCopy = frame[t].doCopy
         /\ frame'[t].LocalCur = frame[t].LocalCur /\ frame'[t].exStart = 0
         /\ IF frame[t].i + 1 < HashAttempts
              THEN /\ pc'[t] = again /\ frame[t].i + 1 \in Attempts
                   /\ frame'[t].i = frame[t].i + 1 /\ frame'[t].j = frame[t].j
              ELSE /\ pc'[t] = after /\ frame[t].i = HashAttempts - 1
                   /\ frame'[t].i = 0 /\ frame'[t].j = jj
<1>1. /\ UNCHANGED call /\ frame[t] \in Frames /\ frame[t].i \in Attempts
      /\ 0 \in Attempts /\ HashAttempts \in Nat
  BY HashtableLazyAssumption, FrameTyped DEF NextAttempt, LocalsTyped, Attempts
<1>2. CASE frame[t].i + 1 < HashAttempts
  <2>1. PICK m \in Attempts : m = frame[t].i + 1
    BY <1>1, <1>2 DEF Attempts
  <2>2. PICK f \in Frames : f = [frame[t] EXCEPT !.i = m, !.exStart = 0]
    BY <1>1, FrameUpdates
  <2>3. frame' = [frame EXCEPT ![t] = f] /\ pc' = [pc EXCEPT ![t] = again]
    BY <1>2, <2>1, <2>2 DEF NextAttempt, Goto, LocalsTyped
  <2>4. /\ f.ent = frame[t].ent /\ f.doCopy = frame[t].doCopy /\ f.LocalCur = frame[t].LocalCur
        /\ f.exStart = 0 /\ f.i = m /\ f.j = frame[t].j
    BY <1>1, <2>2 DEF Frames
  <2>5. LocalsTyped' /\ frame'[t] = f /\ pc'[t] = again
    BY <1>1, <2>3 DEF LocalsTyped, call
  <2> QED
    BY <1>1, <1>2, <2>1, <2>4, <2>5
<1>3. CASE ~(frame[t].i + 1 < HashAttempts)
  <2>2. PICK f \in Frames : f = [frame[t] EXCEPT !.i = 0, !.j = jj, !.exStart = 0]
    BY <1>1, FrameUpdates
  <2>3. frame' = [frame EXCEPT ![t] = f] /\ pc' = [pc EXCEPT ![t] = after]
    BY <1>3, <2>2 DEF NextAttempt, Goto, LocalsTyped
  <2>4. /\ f.ent = frame[t].ent /\ f.doCopy = frame[t].doCopy /\ f.LocalCur = frame[t].LocalCur
        /\ f.exStart = 0 /\ f.i = 0 /\ f.j = jj
    BY <1>1, <2>2 DEF Frames
  <2>5. LocalsTyped' /\ frame'[t] = f /\ pc'[t] = after
    BY <1>1, <2>3 DEF LocalsTyped, call
  <2>6. frame[t].i = HashAttempts - 1
    BY <1>1, <1>3 DEF Attempts
  <2> QED
    BY <1>1, <1>3, <2>4, <2>5, <2>6
<1> QED
  BY <1>2, <1>3

\* The step in which t enters insertTable or checkTableQuery.
LEMMA CallEffect ==
  ASSUME Inv, NEW t \in Threads, CallInsert(t) \/ CallQuery(t)
  PROVE  /\ LocalsTyped' /\ pc[t] = "idle" /\ stack'[t] = <<>> /\ ret'[t] = 0
         /\ UNCHANGED shared /\ stack[t] = <<>>
         /\ \E k \in Keys : key' = [key EXCEPT ![t] = k] /\ frame'[t] = NewFrame(k, start)
         /\ \/ pc'[t] = "table" /\ op' = [op EXCEPT ![t] = "insert"]
            \/ pc'[t] = "qtable" /\ op' = [op EXCEPT ![t] = "query"]
<1> LocalsTyped /\ start \in Nat /\ CallInv(t)
  BY DEF Inv, Typed, TablesTyped, ThreadInv
<1>1. PICK k \in Keys : /\ key' = [key EXCEPT ![t] = k]
                        /\ frame' = [frame EXCEPT ![t] = NewFrame(k, start)]
  BY DEF CallInsert, CallQuery, NewFrame
<1>2. NewFrame(k, start) \in Frames
  BY NewFrames
<1> HIDE DEF NewFrame
<1>3. frame' \in [Threads -> Frames] /\ frame'[t] = NewFrame(k, start)
  BY <1>1, <1>2 DEF LocalsTyped
<1>4. key' \in [Threads -> Keys \cup {NULL}]
  BY <1>1 DEF LocalsTyped
<1>5. /\ pc[t] = "idle" /\ ret' = [ret EXCEPT ![t] = 0] /\ UNCHANGED shared
      /\ stack' = stack /\ stack[t] = <<>>
      /\ \/ pc' = [pc EXCEPT ![t] = "table"] /\ op' = [op EXCEPT ![t] = "insert"]
         \/ pc' = [pc EXCEPT ![t] = "qtable"] /\ op' = [op EXCEPT ![t] = "query"]
  BY DEF CallInsert, CallQuery, Goto, CallInv
<1>6. /\ pc' \in [Threads -> Points] /\ op' \in [Threads -> {"none", "insert", "query"}]
      /\ ret' \in [Threads -> {0, 1}] /\ pc'[t] \in {"table", "qtable"} /\ ret'[t] = 0
      /\ pc'[t] = "table" => op' = [op EXCEPT ![t] = "insert"]
      /\ pc'[t] = "qtable" => op' = [op EXCEPT ![t] = "query"]
  BY <1>5 DEF LocalsTyped, Points
<1>7. LocalsTyped'
  BY <1>3, <1>4, <1>5, <1>6 DEF LocalsTyped
<1> QED
  BY <1>1, <1>3, <1>5, <1>6, <1>7

\* A step that leaves t in its call, where its frame says.
Moves(t, label, f) ==
  /\ pc' = [pc EXCEPT ![t] = label] /\ frame' = [frame EXCEPT ![t] = f] /\ UNCHANGED call

\* A step to another point, with a new frame.
LEMMA MovesEffect ==
  ASSUME LocalsTyped, NEW t \in Threads, NEW label \in Points, NEW f \in Frames,
         Moves(t, label, f)
  PROVE  LocalsTyped' /\ pc'[t] = label /\ frame'[t] = f /\ UNCHANGED call
<1>1. pc' \in [Threads -> Points] /\ frame' \in [Threads -> Frames]
  BY DEF LocalsTyped, Moves
<1> QED
  BY <1>1 DEF LocalsTyped, Moves, call

\* The step in which t calls insertTable from lookup.
LEMMA CopyEffect ==
  ASSUME Inv, NEW t \in Threads, CallCopy(t)
  PROVE  /\ LocalsTyped' /\ pc[t] = "copy" /\ stack[t] = <<>> /\ pc'[t] = "table"
         /\ UNCHANGED <<shared, op, key, ret>>
         /\ frame'[t] = NewFrame(Probed(t).key, start + 1) /\ Probed(t).key \in Keys
         /\ stack'[t] = <<[frame[t] EXCEPT !.exStart = start]>>
         /\ [frame[t] EXCEPT !.exStart = start] \in Frames
<1> LocalsTyped /\ start \in Nat /\ StackInv(t) /\ FrameInv(t) /\ pc[t] = "copy"
  BY DEF Inv, Typed, TablesTyped, ThreadInv, CallCopy
<1>1. stack[t] = <<>>
  BY DEF StackInv, CopyPoints
<1>2. Probed(t).key \in Keys
  BY ProbeInRange DEF FrameInv, CopyPoints, ProbePoints
<1>3. PICK f \in Frames : f = NewFrame(Probed(t).key, start + 1)
  BY <1>2, NewFrames
<1>4. PICK g \in Frames : g = [frame[t] EXCEPT !.exStart = start]
  BY FrameUpdates DEF LocalsTyped
<1>5. <<g>> \o <<>> = <<g>>
  OBVIOUS
<1>6. /\ stack' = [stack EXCEPT ![t] = <<g>>] /\ frame' = [frame EXCEPT ![t] = f]
      /\ pc' = [pc EXCEPT ![t] = "table"] /\ UNCHANGED <<shared, op, key, ret>>
  <2>1. stack' = [stack EXCEPT ![t] = <<g>> \o stack[t]]
    BY <1>4 DEF CallCopy
  <2>2. frame' = [frame EXCEPT ![t] = f]
    BY <1>3 DEF CallCopy, NewFrame
  <2> QED
    BY <1>1, <1>5, <2>1, <2>2 DEF CallCopy, Goto
<1>7. pc' \in [Threads -> Points] /\ frame' \in [Threads -> Frames]
  BY <1>6 DEF LocalsTyped, Points
<1>8. /\ stack'[t] = <<g>> /\ \A u \in Threads : u # t => stack'[u] = stack[u]
      /\ stack' = [u \in Threads |-> stack'[u]]
  BY <1>6 DEF LocalsTyped
<1>9. \A u \in Threads :
        stack'[u] # <<>> => Head(stack'[u]) \in Frames /\ stack'[u] = <<Head(stack'[u])>>
  <2>1. Head(<<g>>) = g
    OBVIOUS
  <2> QED
    BY <1>8, <2>1 DEF LocalsTyped
<1>10. LocalsTyped'
  BY <1>6, <1>7, <1>8, <1>9 DEF LocalsTyped
<1> QED
  BY <1>1, <1>2, <1>3, <1>4, <1>6, <1>8, <1>10 DEF LocalsTyped

\* Every step of t leaves the locals typed and those of the other threads alone.
SameLocals(u) ==
  /\ pc'[u] = pc[u] /\ op'[u] = op[u] /\ key'[u] = key[u] /\ ret'[u] = ret[u]
  /\ frame'[u] = frame[u] /\ stack'[u] = stack[u]

\* A step of t writes no local of another thread.
LEMMA OthersUnchanged ==
  ASSUME LocalsTyped, NEW t \in Threads, ThreadStep(t), NEW u \in Threads, u # t
  PROVE  SameLocals(u)
<1>1. \A r : Return(t, r) => SameLocals(u)
  BY DEF LocalsTyped, Return, Goto, SameLocals
<1>2. ASSUME NEW again, NEW after, NEW jj, NextAttempt(t, again, after, jj)
      PROVE  SameLocals(u)
  BY <1>2 DEF LocalsTyped, NextAttempt, Goto, call, SameLocals
<1>3. CASE CallInsert(t) \/ CallQuery(t)
  BY <1>3 DEF LocalsTyped, CallInsert, CallQuery, Goto, SameLocals
<1>4. CASE InsertTable(t) \/ ReadStart(t) \/ ReloadCur(t)
  BY <1>4 DEF LocalsTyped, InsertTable, ReadStart, ReloadCur, Goto, SameLocals, call
<1>5. CASE lookup(t)
  BY <1>1, <1>2, <1>5 DEF LocalsTyped, lookup, Goto, SameLocals, call
<1>6. CASE setPtr(t)
  BY <1>2, <1>6 DEF LocalsTyped, setPtr, Goto, SameLocals, call
<1>7. CASE CallCopy(t)
  BY <1>7 DEF LocalsTyped, CallCopy, Goto, SameLocals, call
<1>8. CASE CountCopy(t) \/ addDrop(t) \/ AdvanceCur(t) \/ Drain(t)
  BY <1>8 DEF LocalsTyped, CountCopy, addDrop, AdvanceCur, Drain, Goto, SameLocals, call
<1>9. CASE SumCopies(t) \/ AdvanceStart(t) \/ RecheckSlot(t)
  BY <1>1, <1>2, <1>9
  DEF LocalsTyped, SumCopies, AdvanceStart, RecheckSlot, Goto, SameLocals, call
<1>10. CASE ClaimSlot(t)
  BY <1>1, <1>10 DEF LocalsTyped, ClaimSlot, Goto, SameLocals, call
<1>11. CASE QueryTable(t) \/ lookupQuery(t)
  BY <1>1, <1>2, <1>11 DEF LocalsTyped, QueryTable, lookupQuery, Goto, SameLocals, call
<1> QED
  BY <1>3, <1>4, <1>5, <1>6, <1>7, <1>8, <1>9, <1>10, <1>11 DEF ThreadStep, Step

\* A step that leaves t's frame as it is.
LEMMA StaysEffect ==
  ASSUME LocalsTyped, NEW t \in Threads, NEW label \in Points, Goto(t, label),
         UNCHANGED <<call, frame>>
  PROVE  LocalsTyped' /\ pc'[t] = label /\ UNCHANGED <<call, frame>>
<1>1. pc' \in [Threads -> Points]
  BY DEF LocalsTyped, Goto
<1> QED
  BY <1>1 DEF LocalsTyped, Goto, call

\* The steps of the loop over the subtables.
LEMMA InsertTableEffect ==
  ASSUME Typed, NEW t \in Threads, InsertTable(t)
  PROVE  /\ LocalsTyped' /\ UNCHANGED call /\ pc[t] = "table"
         /\ IF frame[t].j < cur
              THEN pc'[t] = "docopy" /\ frame'[t] = [frame[t] EXCEPT !.LocalCur = cur]
              ELSE pc'[t] = "grow" /\ frame'[t] = frame[t]
<1> LocalsTyped /\ cur \in Nat /\ frame[t] \in Frames
  BY DEF Typed, LocalsTyped, TablesTyped
<1>1. CASE frame[t].j < cur
  <2>1. PICK f \in Frames : f = [frame[t] EXCEPT !.LocalCur = cur]
    BY FrameUpdates
  <2>2. Moves(t, "docopy", f) /\ "docopy" \in Points
    BY <1>1, <2>1 DEF InsertTable, Moves, Goto, Points
  <2> QED
    BY <1>1, <2>1, <2>2, MovesEffect DEF InsertTable
<1>2. CASE ~(frame[t].j < cur)
  BY <1>2, StaysEffect DEF InsertTable, Points
<1> QED
  BY <1>1, <1>2

\* The choice of doCopy.
LEMMA ReadStartEffect ==
  ASSUME Typed, NEW t \in Threads, ReadStart(t)
  PROVE  /\ LocalsTyped' /\ UNCHANGED call /\ pc[t] = "docopy" /\ pc'[t] = "lookup"
         /\ \E c \in {frame[t].LocalCur, cur} :
              frame'[t] = [frame[t] EXCEPT !.doCopy = (frame[t].j = start /\ c - start > 1),
                                           !.LocalCur = 0]
<1> LocalsTyped /\ cur \in Nat /\ frame[t] \in Frames
  BY DEF Typed, LocalsTyped, TablesTyped
<1>1. PICK c \in {frame[t].LocalCur, cur} :
        frame' = [frame EXCEPT ![t].doCopy = (frame[t].j = start /\ c - start > 1),
                               ![t].LocalCur = 0]
  BY DEF ReadStart
<1>2. PICK d \in BOOLEAN : d = (frame[t].j = start /\ c - start > 1)
  OBVIOUS
<1>3. PICK f \in Frames : f = [frame[t] EXCEPT !.doCopy = d, !.LocalCur = 0]
  BY FrameUpdates
<1>4. frame' = [frame EXCEPT ![t] = f]
  BY <1>1, <1>2, <1>3 DEF LocalsTyped
<1>5. Moves(t, "lookup", f) /\ "lookup" \in Points
  BY <1>4 DEF ReadStart, Moves, Goto, Points
<1>6. LocalsTyped' /\ UNCHANGED call /\ pc'[t] = "lookup" /\ frame'[t] = f
  BY <1>5, MovesEffect
<1> QED
  BY <1>2, <1>3, <1>6 DEF ReadStart

\* The next subtable.
LEMMA ReloadCurEffect ==
  ASSUME Typed, NEW t \in Threads, ReloadCur(t)
  PROVE  /\ LocalsTyped' /\ UNCHANGED call /\ pc[t] = "reload" /\ pc'[t] = "table"
         /\ frame'[t] = [frame[t] EXCEPT !.LocalCur = cur, !.j = frame[t].j + 1, !.doCopy = FALSE]
<1> LocalsTyped /\ cur \in Nat /\ frame[t] \in Frames /\ frame[t].j + 1 \in Nat
  BY FrameTyped DEF Typed, LocalsTyped, TablesTyped
<1>1. PICK f \in Frames :
        f = [frame[t] EXCEPT !.LocalCur = cur, !.j = frame[t].j + 1, !.doCopy = FALSE]
  BY FrameUpdates
<1>2. frame' = [frame EXCEPT ![t] = f]
  BY <1>1 DEF ReloadCur, LocalsTyped
<1>3. Moves(t, "table", f) /\ "table" \in Points
  BY <1>2 DEF ReloadCur, Moves, Goto, Points
<1> QED
  BY <1>1, <1>3, MovesEffect DEF ReloadCur

\* The end of addDrop.
LEMMA AdvanceCurEffect ==
  ASSUME Typed, NEW t \in Threads, AdvanceCur(t)
  PROVE  /\ LocalsTyped' /\ UNCHANGED call /\ pc[t] = "advance" /\ pc'[t] = "table"
         /\ frame'[t] = [frame[t] EXCEPT !.j = frame[t].LocalCur]
<1> LocalsTyped /\ frame[t] \in Frames /\ frame[t].LocalCur \in Nat
  BY FrameTyped DEF Typed, LocalsTyped, TablesTyped
<1>1. PICK f \in Frames : f = [frame[t] EXCEPT !.j = frame[t].LocalCur]
  BY FrameUpdates
<1>2. frame' = [frame EXCEPT ![t] = f]
  BY <1>1 DEF AdvanceCur, LocalsTyped
<1>3. Moves(t, "table", f) /\ "table" \in Points
  BY <1>2 DEF AdvanceCur, Moves, Goto, Points
<1> QED
  BY <1>1, <1>3, MovesEffect DEF AdvanceCur

\* Every step leaves the locals typed.
LEMMA LocalsStep ==
  ASSUME Inv, NEW t \in Threads, ThreadStep(t)
  PROVE  LocalsTyped'
<1> Typed /\ LocalsTyped
  BY DEF Inv, Typed
<1>0. PICK jj \in Nat : jj = frame[t].j
  BY FrameTyped DEF LocalsTyped
<1>r. ASSUME NEW r \in {0, 1}, Return(t, r)
      PROVE  LocalsTyped'
  BY <1>r, ReturnEffect
<1>n. ASSUME NEW again \in Points, NEW after \in Points,
             \/ NextAttempt(t, again, after, frame[t].j)
             \/ NextAttempt(t, again, after, frame[t].j + 1)
      PROVE  LocalsTyped'
  <2>1. jj + 1 \in Nat
    OBVIOUS
  <2> QED
    BY <1>0, <1>n, <2>1, NextEffect
<1>s. ASSUME NEW label \in Points, Goto(t, label), UNCHANGED <<call, frame>>
      PROVE  LocalsTyped'
  BY <1>s, StaysEffect
<1>p. {"lookup", "reload", "qlookup", "qtable", "claim", "setPtr", "copy", "sum", "start",
       "recheck", "advance"} \subseteq Points
  BY DEF Points
<1>1. CASE CallInsert(t) \/ CallQuery(t)
  BY <1>1, CallEffect
<1>2. CASE InsertTable(t) \/ ReadStart(t) \/ ReloadCur(t) \/ AdvanceCur(t)
  BY <1>2, InsertTableEffect, ReadStartEffect, ReloadCurEffect, AdvanceCurEffect
<1>3. CASE lookup(t)
  BY <1>3, <1>r, <1>n, <1>s, <1>p DEF lookup
<1>4. CASE setPtr(t)
  BY <1>4, <1>n, <1>s, <1>p DEF setPtr
<1>5. CASE CallCopy(t)
  BY <1>5, CopyEffect
<1>6. CASE CountCopy(t) \/ addDrop(t)
  BY <1>6, <1>s, <1>p DEF CountCopy, addDrop
<1>7. CASE Drain(t)
  BY <1>7 DEF Drain, LocalsTyped, call
<1>8. CASE SumCopies(t) \/ AdvanceStart(t)
  BY <1>8, <1>n, <1>s, <1>p DEF SumCopies, AdvanceStart
<1>9. CASE ClaimSlot(t) \/ RecheckSlot(t)
  BY <1>9, <1>n, <1>r, <1>s, <1>p DEF ClaimSlot, RecheckSlot
<1>10. CASE QueryTable(t) \/ lookupQuery(t)
  BY <1>10, <1>n, <1>r, <1>s, <1>p DEF QueryTable, lookupQuery
<1> QED
  BY <1>1, <1>2, <1>3, <1>4, <1>5, <1>6, <1>7, <1>8, <1>9, <1>10 DEF ThreadStep, Step
-----------------------------------------------------------------------------
(* What a step does to the subtables                                       *)

\* A new subtable is empty.
LEMMA NewSubTable ==
  ASSUME NEW m \in Nat \ {0}
  PROVE  /\ IsSubTable(createTable(m)) /\ createTable(m).TableSize = m
         /\ \A s \in 0 .. m - 1 : createTable(m).InnerTable[s] = Null
         /\ \A u \in Threads : createTable(m).threadCopy[u] = 0
<1> DEFINE T == createTable(m)
<1>1. T = [TableSize |-> m, InnerTable |-> [s \in 0 .. m - 1 |-> Null],
           threadCopy |-> [t \in Threads |-> 0]]
  BY DEF createTable
<1> HIDE DEF T
<1>2. /\ T.TableSize = m /\ T.InnerTable = [s \in 0 .. m - 1 |-> Null]
      /\ T.threadCopy = [t \in Threads |-> 0]
  BY <1>1
<1>3. T.InnerTable \in [0 .. m - 1 -> Pointers]
  BY <1>2 DEF Pointers
<1>4. T.threadCopy \in [Threads -> Nat]
  BY <1>2
<1>5. IsSubTable(T)
  BY <1>1, <1>2, <1>3, <1>4 DEF IsSubTable
<1> QED
  BY <1>2, <1>5 DEF T

\* addDrop puts an empty subtable behind the others, unless one is there.
LEMMA TablesAddDrop ==
  ASSUME Inv, NEW t \in Threads, addDrop(t)
  PROVE  /\ TablesOf(t) /\ UNCHANGED <<start, cur, buffer>>
         /\ \/ TableArray' = TableArray /\ frame[t].LocalCur \in DOMAIN TableArray
            \/ /\ DOMAIN TableArray = 0 .. cur - 1 /\ DOMAIN TableArray' = 0 .. cur
               /\ frame[t].LocalCur = cur
         /\ \A jj \in DOMAIN TableArray : TableArray'[jj] = TableArray[jj]
<1> TablesTyped /\ LocalsTyped /\ InOrder /\ FrameInv(t) /\ pc[t] = "grow"
  BY DEF Inv, Typed, ThreadInv, addDrop
<1>1. UNCHANGED <<start, cur, buffer>> /\ ~Marks(t) /\ ~Claims(t)
  BY DEF addDrop, Marks, Claims, setPtr, ClaimSlot
<1>2. CASE frame[t].LocalCur \in DOMAIN TableArray
  <2>1. TableArray' = TableArray
    BY <1>2 DEF addDrop
  <2>2. TablesOf(t)
    BY <1>1, <2>1, TablesUnchanged DEF TablesTyped
  <2> QED
    BY <1>1, <1>2, <2>1, <2>2
<1>3. CASE frame[t].LocalCur \notin DOMAIN TableArray
  <2>1. /\ cur \in Nat /\ frame[t].LocalCur \in Nat /\ 1 <= frame[t].LocalCur
        /\ frame[t].LocalCur <= cur
    BY FrameTyped DEF FrameInv, TablesTyped, LocalsTyped
  <2>2. /\ frame[t].LocalCur = cur /\ DOMAIN TableArray = 0 .. cur - 1
        /\ cur - 1 \in DOMAIN TableArray /\ DOMAIN TableArray \cup {cur} = 0 .. cur
    BY <1>3, <2>1 DEF InOrder
  <2>3. PICK m \in Nat \ {0} : m = 2 * TableArray[cur - 1].TableSize
    BY <2>2 DEF TablesTyped, IsSubTable
  <2>4. TableArray' = [jj \in 0 .. cur |-> IF jj = cur THEN createTable(m) ELSE TableArray[jj]]
    BY <1>3, <2>2, <2>3 DEF addDrop
  <2>5. /\ DOMAIN TableArray' = 0 .. cur /\ TableArray'[cur] = createTable(m)
        /\ \A jj \in DOMAIN TableArray : TableArray'[jj] = TableArray[jj]
        /\ TableArray' = [jj \in DOMAIN TableArray' |-> TableArray'[jj]]
        /\ DOMAIN TableArray' \subseteq Nat
    BY <2>1, <2>2, <2>4
  <2>6. \A jj \in DOMAIN TableArray' : IsSubTable(TableArray'[jj])
    BY <2>2, <2>5, NewSubTable DEF TablesTyped
  <2>7. TablesTyped'
    BY <1>1, <2>5, <2>6 DEF TablesTyped
  <2>8. /\ \A s \in Slots(cur)' : At(cur, s)' = Null
        /\ \A u \in Threads : TableArray'[cur].threadCopy[u] = 0
    <3>1. PICK c \in DOMAIN TableArray' : c = cur
      BY <2>1, <2>5
    <3>2. \A s \in 0 .. TableArray'[c].TableSize - 1 : TableArray'[c].InnerTable[s] = Null
      BY <2>5, <3>1, NewSubTable
    <3>3. cur' = c
      BY <1>1, <3>1
    <3> QED
      BY <1>1, <2>5, <3>1, <3>2, <3>3, NewSubTable DEF Slots, At
  <2>9. \A jj \in DOMAIN TableArray' \ DOMAIN TableArray : jj = cur
    BY <2>1, <2>2, <2>5
  <2>10. Grows
    <3> SUFFICES ASSUME NEW jj \in DOMAIN TableArray' \ DOMAIN TableArray
                 PROVE  /\ cur <= jj
                        /\ \A s \in Slots(jj)' : At(jj, s)' = Null
                        /\ \A u \in Threads : TableArray'[jj].threadCopy[u] = 0
      BY <2>2, <2>5, <2>7 DEF Grows
    <3>1. jj = cur /\ jj = cur'
      BY <1>1, <2>9
    <3> QED
      BY <2>1, <2>8, <3>1
  <2>11. TablesOf(t)
    BY <1>1, <2>5, <2>10 DEF TablesOf, After, At
  <2> QED
    BY <1>1, <2>2, <2>5, <2>11
<1> QED
  BY <1>2, <1>3

\* Every step extends the subtables or leaves them alone.
LEMMA TablesStep ==
  ASSUME Inv, NEW t \in Threads, ThreadStep(t)
  PROVE  TablesOf(t) /\ InOrder' /\ cur <= cur' /\ start <= start' /\ start' <= start + 1
<1> TablesTyped /\ InOrder /\ FrameInv(t) /\ LocalsTyped
  BY DEF Inv, Typed, ThreadInv
<1>t. start \in Nat /\ cur \in Nat /\ frame[t].j \in Nat /\ frame[t].LocalCur \in Nat
  BY FrameTyped DEF TablesTyped, LocalsTyped
<1>1. CASE UNCHANGED <<start, cur>> /\ DOMAIN TableArray' = DOMAIN TableArray /\ TablesOf(t)
  BY <1>1, <1>t DEF InOrder
<1>2. CASE Marks(t)
  BY <1>1, <1>2, TablesMark DEF Marks, setPtr, TablesOf
<1>3. CASE Claims(t)
  BY <1>1, <1>3, TablesClaim DEF Claims, ClaimSlot, TablesOf
<1>4. CASE Drain(t)
  BY <1>1, <1>4, TablesDrain DEF Drain
<1>5. CASE addDrop(t)
  <2>1. TablesOf(t) /\ UNCHANGED <<start, cur>>
    BY <1>5, TablesAddDrop
  <2>2. DOMAIN TableArray' \in {0 .. cur - 1, 0 .. cur}
    BY <1>5, TablesAddDrop DEF InOrder
  <2> QED
    BY <1>t, <2>1, <2>2 DEF InOrder
<1>6. CASE AdvanceCur(t)
  <2>1. TableArray' = TableArray /\ start' = start /\ buffer' = buffer /\ cur' \in {cur, cur + 1}
        /\ (cur' = cur + 1 => cur = frame[t].LocalCur)
        /\ frame[t].LocalCur \in DOMAIN TableArray /\ ~Marks(t) /\ ~Claims(t)
    <3>1. pc[t] = "advance"
      BY <1>6 DEF AdvanceCur
    <3>2. frame[t].LocalCur \in DOMAIN TableArray /\ ~Marks(t) /\ ~Claims(t)
      BY <3>1 DEF FrameInv, Marks, Claims, setPtr, ClaimSlot
    <3> QED
      BY <1>6, <1>t, <3>2 DEF AdvanceCur
  <2>2. TablesOf(t)
    BY <1>t, <2>1, TablesUnchanged DEF TablesTyped
  <2>3. InOrder'
    <3>1. CASE cur' = cur
      BY <2>1, <3>1 DEF InOrder
    <3>2. CASE cur' = cur + 1
      <4>1. cur \in DOMAIN TableArray
        BY <2>1, <3>2
      <4>2. DOMAIN TableArray' = 0 .. cur' - 1
        BY <1>t, <2>1, <3>2, <4>1 DEF InOrder
      <4> QED
        BY <1>t, <2>1, <3>2, <4>2 DEF InOrder
    <3> QED
      BY <2>1, <3>1, <3>2
  <2> QED
    BY <1>t, <2>1, <2>2, <2>3
<1>7. CASE AdvanceStart(t)
  <2>1. /\ TableArray' = TableArray /\ cur' = cur /\ buffer' = buffer /\ ~Marks(t) /\ ~Claims(t)
        /\ pc[t] = "start"
        /\ start' = IF start = frame[t].exStart THEN start + 1 ELSE start
    BY <1>7 DEF AdvanceStart, Marks, Claims, setPtr, ClaimSlot
  <2>2. start' = start + 1 => start + 1 < cur
    BY <1>t, <2>1 DEF FrameInv, CopyPoints
  <2>3. TablesOf(t)
    BY <1>t, <2>1, TablesUnchanged DEF TablesTyped
  <2> QED
    BY <1>t, <2>1, <2>2, <2>3 DEF InOrder
<1>8. CASE UNCHANGED <<TableArray, start, cur>> /\ ~Marks(t) /\ ~Claims(t)
           /\ buffer' \in [Threads -> Nat \cup {None}]
  <2>1. TablesOf(t)
    BY <1>8, <1>t, TablesUnchanged
  <2> QED
    BY <1>1, <1>8, <2>1
<1>9. CASE UNCHANGED shared /\ ~Marks(t) /\ ~Claims(t)
  BY <1>8, <1>9 DEF shared, TablesTyped
<1>10. CASE CountCopy(t)
  <2>1. buffer' \in [Threads -> Nat \cup {None}]
    BY <1>10, <1>t DEF CountCopy, TablesTyped
  <2> QED
    BY <1>8, <1>10, <2>1 DEF CountCopy, Marks, Claims, setPtr, ClaimSlot
<1>11. CASE CallInsert(t) \/ CallQuery(t) \/ InsertTable(t) \/ ReadStart(t) \/ lookup(t)
            \/ CallCopy(t)
  BY <1>9, <1>11 DEF CallInsert, CallQuery, InsertTable, ReadStart, lookup, CallCopy,
                     Marks, Claims, setPtr, ClaimSlot
<1>12. CASE SumCopies(t) \/ RecheckSlot(t) \/ ReloadCur(t) \/ QueryTable(t) \/ lookupQuery(t)
  BY <1>9, <1>12 DEF SumCopies, RecheckSlot, ReloadCur, QueryTable, lookupQuery,
                     Marks, Claims, setPtr, ClaimSlot
<1>13. CASE setPtr(t) /\ ~Marks(t)
  BY <1>9, <1>13 DEF setPtr, Marks, Claims, ClaimSlot, shared
<1>14. CASE ClaimSlot(t) /\ ~Claims(t)
  BY <1>9, <1>14 DEF setPtr, Marks, Claims, ClaimSlot, shared
<1> QED
  BY <1>2, <1>3, <1>4, <1>5, <1>6, <1>7, <1>10, <1>11, <1>12, <1>13, <1>14 DEF ThreadStep, Step
-----------------------------------------------------------------------------
(* What stays true                                                         *)

\* A slot, once taken, keeps its key, and once marked its mark.
LEMMA SlotStays ==
  ASSUME Inv, NEW t \in Threads, ThreadStep(t),
         NEW jj \in DOMAIN TableArray, NEW s \in Slots(jj)
  PROVE  /\ jj \in DOMAIN TableArray' /\ s \in Slots(jj)' /\ Slots(jj)' = Slots(jj)
         /\ At(jj, s).key # NULL => At(jj, s)'.key = At(jj, s).key
         /\ At(jj, s).bool = 1 => At(jj, s)' = At(jj, s)
         /\ \/ At(jj, s)' = At(jj, s)
            \/ /\ Marks(t) /\ jj = frame[t].j /\ s = Target(t) /\ At(jj, s).bool = 0
               /\ At(jj, s).key # NULL /\ At(jj, s)' = [key |-> At(jj, s).key, bool |-> 1]
            \/ /\ Claims(t) /\ jj = frame[t].j /\ s = Target(t) /\ At(jj, s) = Null
               /\ At(jj, s)' = [key |-> frame[t].ent, bool |-> 0]
<1> TablesTyped /\ FrameInv(t)
  BY DEF Inv, Typed, ThreadInv
<1>1. Grows /\ At(jj, s)' = After(t, jj, s)
  BY TablesStep DEF TablesOf
<1>2. jj \in DOMAIN TableArray' /\ Slots(jj)' = Slots(jj)
  BY <1>1 DEF Grows, Slots
<1>3. CASE At(jj, s)' = At(jj, s)
  BY <1>2, <1>3
<1>4. CASE Marks(t) /\ jj = frame[t].j /\ s = Target(t)
  <2>1. pc[t] = "setPtr" /\ pc[t] \in ProbePoints /\ Probed(t).bool = 0
    BY <1>4 DEF Marks, setPtr, ProbePoints, CopyPoints
  <2>2. Probed(t) = At(jj, s) /\ Probed(t).key # NULL
    BY <1>4, <2>1, ProbeInRange DEF FrameInv, CopyPoints
  <2>3. At(jj, s)' = [key |-> At(jj, s).key, bool |-> 1]
    BY <1>1, <1>4 DEF After
  <2> QED
    BY <1>2, <1>4, <2>1, <2>2, <2>3
<1>5. CASE Claims(t) /\ jj = frame[t].j /\ s = Target(t)
  <2>1. pc[t] = "claim" /\ pc[t] \in ProbePoints /\ Probed(t) = Null /\ ~Marks(t)
    BY <1>5 DEF Claims, ClaimSlot, ProbePoints, Marks, setPtr
  <2>2. At(jj, s) = Null
    BY <1>5, <2>1, ProbeInRange
  <2>3. At(jj, s)' = [key |-> frame[t].ent, bool |-> 0]
    BY <1>1, <1>5, <2>1 DEF After
  <2> QED
    BY <1>2, <1>5, <2>2, <2>3 DEF Null
<1> QED
  BY <1>1, <1>3, <1>4, <1>5 DEF After

\* What a probe has found taken stays taken by the same key.
LEMMA ProbeStays ==
  ASSUME Inv, NEW t \in Threads, ThreadStep(t),
         NEW k \in Keys, NEW n \in Attempts, NEW jj \in DOMAIN TableArray
  PROVE  /\ jj \in DOMAIN TableArray' /\ Bucket(k, n, jj)' = Bucket(k, n, jj)
         /\ Slot(k, n, jj).key # NULL => Slot(k, n, jj)'.key = Slot(k, n, jj).key
         /\ Slot(k, n, jj).bool = 1 => Slot(k, n, jj)' = Slot(k, n, jj)
<1> TablesTyped
  BY DEF Inv, Typed
<1>0. PICK b \in Slots(jj) : b = Bucket(k, n, jj)
  BY BucketInRange
<1>1. Bucket(k, n, jj)' = Bucket(k, n, jj)
  BY TablesStep DEF TablesOf, Grows, Bucket
<1>2. Slot(k, n, jj) = At(jj, b)
  BY <1>0 DEF Slot, At
<1>3. Slot(k, n, jj)' = At(jj, b)'
  BY <1>0, <1>1 DEF Slot, At
<1> QED
  BY <1>1, <1>2, <1>3, SlotStays

\* A subtable that is not the newest was there before.
LEMMA OldSubtable ==
  ASSUME Inv, NEW t \in Threads, ThreadStep(t), NEW j2 \in DOMAIN TableArray', j2 < cur
  PROVE  j2 \in DOMAIN TableArray
<1>1. j2 \in Nat /\ cur \in Nat
  BY TablesStep DEF TablesOf, Grows, TablesTyped, Inv, Typed
<1> QED
  BY <1>1 DEF Inv, InOrder

\* What an insert has passed stays passed.
LEMMA PassedStays ==
  ASSUME Inv, NEW t \in Threads, ThreadStep(t), NEW k \in Keys, NEW lo \in Nat, NEW jj \in Nat,
         NEW n \in Attempts, jj < cur \/ (jj = cur /\ n = 0), PassedTo(k, lo, jj, n)
  PROVE  PassedTo(k, lo, jj, n)'
<1> SUFFICES ASSUME NEW j2 \in DOMAIN TableArray', NEW m \in Attempts,
                    lo <= j2, Before(j2, m, jj, n)
             PROVE  Slot(k, m, j2)'.key \notin {NULL, k}
  BY DEF PassedTo, Before
<1>1. j2 \in Nat /\ cur \in Nat /\ m >= 0
  BY TablesStep DEF TablesOf, Grows, TablesTyped, Inv, Typed, Attempts
<1>2. j2 < cur
  BY <1>1 DEF Before, Attempts
<1>3. j2 \in DOMAIN TableArray
  BY <1>2, OldSubtable
<1>4. Slot(k, m, j2).key \notin {NULL, k}
  BY <1>3 DEF PassedTo
<1> QED
  BY <1>3, <1>4, ProbeStays

\* So does a path without NULL,
LEMMA ClearStays ==
  ASSUME Inv, NEW t \in Threads, ThreadStep(t), NEW k \in Keys, NEW lo \in Nat, NEW n0 \in Attempts,
         NEW jj \in DOMAIN TableArray, NEW n \in Attempts, Clear(k, lo, n0, jj, n)
  PROVE  Clear(k, lo, n0, jj, n)'
<1> SUFFICES ASSUME NEW j2 \in DOMAIN TableArray', NEW m \in Attempts,
                    ~Before(j2, m, lo, n0), Before(j2, m, jj, n)
             PROVE  Slot(k, m, j2)'.key # NULL
  BY DEF Clear, Before
<1>1. j2 \in Nat /\ jj \in Nat /\ cur \in Nat
  BY TablesStep DEF TablesOf, Grows, TablesTyped, Inv, Typed
<1>2. j2 \in DOMAIN TableArray
  <2>1. CASE j2 = jj
    BY <2>1
  <2>2. CASE j2 # jj
    <3>1. j2 < cur
      BY <1>1, <2>2 DEF Before, Inv, InOrder
    <3> QED
      BY <3>1, OldSubtable
  <2> QED
    BY <2>1, <2>2
<1>3. Slot(k, m, j2).key # NULL
  BY <1>2 DEF Clear
<1> QED
  BY <1>2, <1>3, ProbeStays

\* and a key that is reached stays so.
LEMMA ReachesStays ==
  ASSUME Inv, NEW t \in Threads, ThreadStep(t), NEW k \in Keys, NEW lo \in Nat, NEW n0 \in Attempts,
         ReachesFrom(k, lo, n0)
  PROVE  ReachesFrom(k, lo, n0)'
<1>1. PICK jj \in DOMAIN TableArray, n \in Attempts :
        /\ jj < cur /\ ~Before(jj, n, lo, n0) /\ Slot(k, n, jj).key = k
        /\ Clear(k, lo, n0, jj, n)
  BY DEF ReachesFrom
<1>2. jj \in DOMAIN TableArray' /\ Slot(k, n, jj)'.key = k
  BY <1>1, ProbeStays, HashtableLazyAssumption
<1>3. Clear(k, lo, n0, jj, n)'
  BY <1>1, ClearStays
<1>4. jj < cur'
  BY <1>1, TablesStep DEF TablesOf, Grows, Inv, Typed, TablesTyped
<1> QED
  BY <1>1, <1>2, <1>3, <1>4 DEF ReachesFrom, Before
-----------------------------------------------------------------------------
(* Paths                                                                   *)

\* The definition of the module, and the one of the proofs.
LEMMA ReachesIs ==
  ASSUME TablesTyped, InOrder, NEW k \in Keys, NEW first \in Nat
  PROVE  Reaches(k, first) <=> ReachesFrom(k, first, 0)
<1>t. /\ cur \in Nat /\ DOMAIN TableArray \subseteq Nat
      /\ \A jj \in Nat : jj < cur => jj \in DOMAIN TableArray
      /\ \A n \in Attempts : n >= 0 /\ n \in Nat
  BY DEF TablesTyped, InOrder, Attempts
<1>1. ASSUME Reaches(k, first)
      PROVE  ReachesFrom(k, first, 0)
  <2>1. PICK jj \in first .. cur - 1, n \in Attempts :
          /\ Slot(k, n, jj).key = k
          /\ \A j2 \in first .. jj, m \in Attempts :
               j2 < jj \/ m < n => Slot(k, m, j2) # Null
    BY <1>1 DEF Reaches
  <2>2. jj \in DOMAIN TableArray /\ jj < cur /\ ~Before(jj, n, first, 0)
    BY <1>t DEF Before
  <2>3. ASSUME NEW j2 \in DOMAIN TableArray, NEW m \in Attempts,
               ~Before(j2, m, first, 0), Before(j2, m, jj, n)
        PROVE  Slot(k, m, j2).key # NULL
    <3>1. j2 \in first .. jj /\ (j2 < jj \/ m < n)
      BY <1>t, <2>3 DEF Before
    <3> QED
      BY <2>1, <3>1, SlotTyped
  <2> QED
    BY <2>1, <2>2, <2>3 DEF ReachesFrom, Clear
<1>2. ASSUME ReachesFrom(k, first, 0)
      PROVE  Reaches(k, first)
  <2>1. PICK jj \in DOMAIN TableArray, n \in Attempts :
          /\ jj < cur /\ ~Before(jj, n, first, 0)
          /\ Slot(k, n, jj).key = k
          /\ Clear(k, first, 0, jj, n)
    BY <1>2 DEF ReachesFrom
  <2>2. jj \in first .. cur - 1
    BY <1>t, <2>1 DEF Before
  <2>3. ASSUME NEW j2 \in first .. jj, NEW m \in Attempts, j2 < jj \/ m < n
        PROVE  Slot(k, m, j2) # Null
    <3>1. j2 \in DOMAIN TableArray /\ ~Before(j2, m, first, 0) /\ Before(j2, m, jj, n)
      BY <1>t, <2>1, <2>2, <2>3 DEF Before
    <3> QED
      BY <2>1, <3>1, SlotTyped DEF Clear
  <2> QED
    BY <2>1, <2>2, <2>3 DEF Reaches
<1> QED
  BY <1>1, <1>2

\* One more probe passed, or the last one of the subtable.
LEMMA PassedNext ==
  ASSUME TablesTyped, NEW k \in Keys, NEW lo \in Nat, NEW jj \in Nat, NEW n \in Attempts,
         PassedTo(k, lo, jj, n), Slot(k, n, jj).key \notin {NULL, k}
  PROVE  /\ PassedTo(k, lo, jj, n + 1)
         /\ n = HashAttempts - 1 => PassedTo(k, lo, jj + 1, 0)
<1>1. DOMAIN TableArray \subseteq Nat
  BY DEF TablesTyped
<1>2. \A m \in Attempts : m \in Nat /\ m <= HashAttempts - 1 /\ HashAttempts \in Nat
  BY HashtableLazyAssumption DEF Attempts
<1> QED
  BY <1>1, <1>2 DEF PassedTo, Before

\* Nothing is before the first probe, and fewer probes are after a later one.
LEMMA PassedFrom ==
  ASSUME TablesTyped, NEW k \in Keys, NEW lo \in Nat
  PROVE  /\ PassedTo(k, lo, lo, 0)
         /\ \A l2 \in Nat, jj \in Nat, n \in Attempts :
              lo <= l2 /\ PassedTo(k, lo, jj, n) => PassedTo(k, l2, jj, n)
<1>1. DOMAIN TableArray \subseteq Nat /\ \A m \in Attempts : m \in Nat /\ m >= 0
  BY DEF TablesTyped, Attempts
<1> QED
  BY <1>1 DEF PassedTo, Before

\* A key that is reached from a probe that holds another is reached from the next.
LEMMA ReachesNext ==
  ASSUME TablesTyped, NEW k \in Keys, NEW jj \in Nat, NEW n \in Attempts,
         ReachesFrom(k, jj, n), Slot(k, n, jj).key # k
  PROVE  /\ n + 1 \in Attempts => ReachesFrom(k, jj, n + 1)
         /\ n = HashAttempts - 1 => ReachesFrom(k, jj + 1, 0)
<1>1. DOMAIN TableArray \subseteq Nat
  BY DEF TablesTyped
<1>2. \A m \in Attempts : m \in Nat /\ m <= HashAttempts - 1 /\ HashAttempts \in Nat
  BY HashtableLazyAssumption DEF Attempts
<1>3. PICK j2 \in DOMAIN TableArray, m \in Attempts :
        /\ j2 < cur /\ ~Before(j2, m, jj, n)
        /\ Slot(k, m, j2).key = k
        /\ Clear(k, jj, n, j2, m)
  BY DEF ReachesFrom
<1>4. ~(j2 = jj /\ m = n)
  BY <1>3
<1>5. ASSUME n + 1 \in Attempts
      PROVE  ReachesFrom(k, jj, n + 1)
  <2>1. ~Before(j2, m, jj, n + 1)
    BY <1>1, <1>2, <1>3, <1>4 DEF Before
  <2>2. Clear(k, jj, n + 1, j2, m)
    BY <1>1, <1>2, <1>3 DEF Before, Clear
  <2> QED
    BY <1>3, <2>1, <2>2 DEF ReachesFrom
<1>6. ASSUME n = HashAttempts - 1
      PROVE  ReachesFrom(k, jj + 1, 0)
  <2>1. ~Before(j2, m, jj + 1, 0)
    BY <1>1, <1>2, <1>3, <1>4, <1>6 DEF Before
  <2>2. Clear(k, jj + 1, 0, j2, m)
    BY <1>1, <1>2, <1>3 DEF Before, Clear
  <2> QED
    BY <1>3, <2>1, <2>2 DEF ReachesFrom
<1> QED
  BY <1>5, <1>6

\* There is no NULL where a key is reached from, and a subtable there is.
LEMMA ReachesHere ==
  ASSUME TablesTyped, NEW k \in Keys, NEW jj \in Nat, NEW n \in Attempts, ReachesFrom(k, jj, n)
  PROVE  /\ jj < cur
         /\ jj \in DOMAIN TableArray => Slot(k, n, jj).key # NULL
<1>1. /\ DOMAIN TableArray \subseteq Nat /\ cur \in Nat /\ NULL \notin Keys
      /\ \A m \in Attempts : m \in Nat
  BY HashtableLazyAssumption DEF TablesTyped, Attempts
<1>2. PICK j2 \in DOMAIN TableArray, m \in Attempts :
        /\ j2 < cur /\ ~Before(j2, m, jj, n)
        /\ Slot(k, m, j2).key = k
        /\ Clear(k, jj, n, j2, m)
  BY DEF ReachesFrom
<1>3. jj < cur
  BY <1>1, <1>2 DEF Before
<1>4. ASSUME jj \in DOMAIN TableArray
      PROVE  Slot(k, n, jj).key # NULL
  <2>1. CASE j2 = jj /\ m = n
    BY <1>1, <1>2, <2>1
  <2>2. CASE ~(j2 = jj /\ m = n)
    BY <1>1, <1>2, <1>4, <2>2 DEF Before, Clear
  <2> QED
    BY <2>1, <2>2
<1> QED
  BY <1>3, <1>4

\* What an insert has passed is clear.
LEMMA PassedIsClear ==
  ASSUME TablesTyped, NEW k \in Keys, NEW lo \in Nat, NEW l2 \in Nat, NEW jj \in Nat,
         NEW n \in Attempts, lo <= l2, PassedTo(k, lo, jj, n)
  PROVE  Clear(k, l2, 0, jj, n)
<1>1. DOMAIN TableArray \subseteq Nat /\ \A m \in Attempts : m \in Nat /\ m >= 0
  BY DEF TablesTyped, Attempts
<1> QED
  BY <1>1 DEF PassedTo, Before, Clear

\* A key is reached from where an insert began that has come to it, and is not if the
\* insert has come to NULL.
LEMMA PassedReaches ==
  ASSUME TablesTyped, NEW k \in Keys, NEW lo \in Nat, NEW jj \in DOMAIN TableArray,
         NEW n \in Attempts, lo <= jj, jj < cur, PassedTo(k, lo, jj, n)
  PROVE  /\ Slot(k, n, jj).key = k => ReachesFrom(k, lo, 0)
         /\ Slot(k, n, jj).key = NULL => ~ReachesFrom(k, lo, 0)
<1>1. /\ DOMAIN TableArray \subseteq Nat /\ cur \in Nat /\ NULL \notin Keys
      /\ \A m \in Attempts : m \in Nat /\ m >= 0
  BY HashtableLazyAssumption DEF TablesTyped, Attempts
<1>2. Clear(k, lo, 0, jj, n)
  BY <1>1, PassedIsClear
<1>3. Slot(k, n, jj).key = k => ReachesFrom(k, lo, 0)
  BY <1>1, <1>2 DEF ReachesFrom, Before
<1>4. ASSUME Slot(k, n, jj).key = NULL, ReachesFrom(k, lo, 0)
      PROVE  FALSE
  <2>1. PICK j2 \in DOMAIN TableArray, m \in Attempts :
          /\ j2 < cur /\ ~Before(j2, m, lo, 0)
          /\ Slot(k, m, j2).key = k
          /\ Clear(k, lo, 0, j2, m)
    BY <1>4 DEF ReachesFrom
  <2>2. lo <= j2
    BY <1>1, <2>1 DEF Before
  <2>3. CASE Before(j2, m, jj, n)
    BY <2>1, <2>2, <2>3 DEF PassedTo
  <2>4. CASE Before(jj, n, j2, m)
    BY <1>1, <1>4, <2>1, <2>4 DEF Clear, Before
  <2>5. CASE j2 = jj /\ m = n
    BY <1>1, <1>4, <2>1, <2>5
  <2> QED
    BY <1>1, <2>3, <2>4, <2>5 DEF Before
<1> QED
  BY <1>3, <1>4

\* A key that is reached is in the table.
LEMMA ReachedIsIn ==
  ASSUME TablesTyped, NEW k \in Keys, NEW jj \in DOMAIN TableArray, NEW n \in Attempts,
         Slot(k, n, jj).key = k
  PROVE  k \in Contents
<1>1. PICK b \in Slots(jj) : b = Bucket(k, n, jj)
  BY BucketInRange
<1>2. At(jj, b).key = k
  BY <1>1 DEF Slot, At
<1> QED
  BY <1>2 DEF Contents
-----------------------------------------------------------------------------
(* Where keys are                                                          *)

\* Below start every slot is marked.
LEMMA BelowStart ==
  ASSUME Inv, NEW jj \in DOMAIN TableArray, NEW s \in Slots(jj), jj < start
  PROVE  At(jj, s).bool = 1 /\ At(jj, s).key # NULL
<1>1. TablesTyped /\ s \in Completed(jj)
  BY DEF Inv, Typed, Copied
<1>2. At(jj, s).bool = 1
  BY <1>1 DEF Completed
<1> QED
  BY <1>1, <1>2, AtTyped

\* A claim for the harness is of a key that is not in the table; one for a copy is of a
\* key that is in other subtables only, and marked there.
LEMMA NewKey ==
  ASSUME Inv, NEW t \in Threads, Claims(t), NEW jj \in DOMAIN TableArray, NEW s \in Slots(jj),
         At(jj, s).key = frame[t].ent
  PROVE  stack[t] # <<>> /\ jj # frame[t].j /\ At(jj, s).bool = 1
<1> TablesTyped /\ LocalsTyped /\ InOrder /\ CallInv(t) /\ StackInv(t) /\ FrameInv(t)
  BY DEF Inv, Typed, ThreadInv
<1>1. pc[t] = "claim" /\ pc[t] \in ProbePoints /\ Probed(t) = Null
  BY DEF Claims, ClaimSlot, ProbePoints
<1>2. PICK k \in Keys, j0 \in DOMAIN TableArray, n0 \in Attempts :
        k = frame[t].ent /\ j0 = frame[t].j /\ n0 = frame[t].i
  BY <1>1, ProbeInRange
<1>3. /\ j0 < cur /\ Slot(k, n0, j0).key = NULL /\ PassedTo(k, Origin(t), j0, n0)
      /\ Slot(k, n0, j0).bool = 0
  BY <1>1, <1>2, ProbeInRange DEF FrameInv, InsertPoints, Probed, Null
<1>4. start \in Nat /\ cur \in Nat /\ DOMAIN TableArray \subseteq Nat /\ NULL \notin Keys
  BY HashtableLazyAssumption DEF TablesTyped
<1>5. start <= j0
  <2>1. PICK b \in Slots(j0) : b = Bucket(k, n0, j0)
    BY BucketInRange
  <2>2. At(j0, b).bool = 0
    BY <1>3, <2>1 DEF Slot, At
  <2> QED
    BY <1>4, <2>2, BelowStart
<1>6. CASE stack[t] = <<>>
  <2>1. Origin(t) = start
    BY <1>6 DEF Origin
  <2>2. ~ReachesFrom(k, start, 0)
    BY <1>3, <1>4, <1>5, <2>1, PassedReaches
  <2>3. k \in Contents
    BY <1>2 DEF Contents
  <2> QED
    BY <2>2, <2>3 DEF Inv, Found
<1>7. CASE stack[t] # <<>>
  <2>1. PICK g \in Frames : g = Head(stack[t])
    BY <1>7 DEF LocalsTyped
  <2>2. /\ g.j < j0 /\ g.ent = key[t] /\ g.j = start /\ g.j + 1 < cur
        /\ Slot(g.ent, g.i, g.j) = [key |-> k, bool |-> 1]
    BY <1>2, <1>7, <2>1 DEF StackInv
  <2>3. g.ent \in Keys /\ g.i \in Attempts /\ g.j \in DOMAIN TableArray /\ Origin(t) = start + 1
    BY <1>1, <1>4, <1>7, <2>1, <2>2, FrameTyped DEF CallInv, InOrder, Origin
  <2>4. CASE jj < start
    BY <1>2, <1>4, <1>7, <2>2, <2>3, <2>4, BelowStart
  <2>5. CASE jj = start
    <3>1. PICK b \in Slots(jj) : b = Bucket(g.ent, g.i, g.j)
      BY <2>2, <2>3, <2>5, BucketInRange
    <3>2. At(jj, b) = [key |-> k, bool |-> 1]
      BY <2>2, <2>5, <3>1 DEF Slot, At
    <3>3. s = b
      BY <1>2, <1>4, <3>2 DEF Inv, OncePerSubtable
    <3> QED
      BY <1>2, <1>4, <1>7, <2>2, <2>5, <3>2, <3>3
  <2>6. CASE jj > start
    <3>1. PICK n \in Attempts : Bucket(k, n, jj) = s /\ Clear(k, start + 1, 0, jj, n)
      BY <1>2, <1>4, <2>6 DEF Inv, OnPath
    <3>2. Slot(k, n, jj).key = k
      BY <1>2, <3>1 DEF Slot, At
    <3>3. CASE Before(jj, n, j0, n0)
      BY <1>3, <1>4, <2>3, <2>6, <3>2, <3>3 DEF PassedTo
    <3>4. CASE Before(j0, n0, jj, n)
      BY <1>3, <1>4, <2>2, <3>1, <3>4 DEF Clear, Before, Attempts
    <3>5. CASE jj = j0 /\ n = n0
      BY <1>3, <1>4, <3>2, <3>5
    <3> QED
      BY <1>4, <3>3, <3>4, <3>5 DEF Before, Attempts
  <2> QED
    BY <1>4, <2>4, <2>5, <2>6
<1> QED
  BY <1>6, <1>7

\* Where a key comes from: it was there, unmarked if it still is, or has been claimed.
LEMMA KeyOrigin ==
  ASSUME Inv, NEW t \in Threads, ThreadStep(t), NEW jj \in DOMAIN TableArray',
         NEW s \in Slots(jj)', At(jj, s)'.key # NULL
  PROVE  \/ /\ jj \in DOMAIN TableArray /\ s \in Slots(jj) /\ At(jj, s).key = At(jj, s)'.key
            /\ At(jj, s)'.bool = 0 => At(jj, s)' = At(jj, s)
         \/ /\ Claims(t) /\ jj = frame[t].j /\ s = Target(t) /\ jj \in DOMAIN TableArray
            /\ s \in Slots(jj) /\ At(jj, s) = Null
            /\ At(jj, s)'.key = frame[t].ent /\ At(jj, s)'.bool = 0
<1>1. CASE jj \in DOMAIN TableArray
  <2>1. s \in Slots(jj)
    BY <1>1, TablesStep DEF TablesOf, Grows, Slots
  <2>2. CASE At(jj, s)' = At(jj, s)
    BY <1>1, <2>1, <2>2
  <2>3. CASE At(jj, s)' = [key |-> At(jj, s).key, bool |-> 1]
    BY <1>1, <2>1, <2>3
  <2>4. CASE /\ Claims(t) /\ jj = frame[t].j /\ s = Target(t) /\ At(jj, s) = Null
             /\ At(jj, s)' = [key |-> frame[t].ent, bool |-> 0]
    BY <1>1, <2>1, <2>4
  <2> QED
    BY <1>1, <2>1, <2>2, <2>3, <2>4, SlotStays
<1>2. CASE jj \notin DOMAIN TableArray
  <2>1. At(jj, s)' = Null
    BY <1>2, TablesStep DEF TablesOf, Grows
  <2> QED
    BY <2>1 DEF Null
<1> QED
  BY <1>1, <1>2

\* A claim puts its key where no other slot of the subtable has it, and no unmarked slot
\* of any other.
LEMMA OnceStep ==
  ASSUME Inv, NEW t \in Threads, ThreadStep(t)
  PROVE  OncePerSubtable' /\ UnmarkedOnce'
<1>1. ASSUME NEW jj \in DOMAIN TableArray', NEW s1 \in Slots(jj)', NEW s2 \in Slots(jj)',
             At(jj, s1)'.key = At(jj, s2)'.key, At(jj, s1)'.key # NULL
      PROVE  s1 = s2
  <2>1. CASE jj \in DOMAIN TableArray /\ s1 \in Slots(jj) /\ At(jj, s1).key = At(jj, s1)'.key
    <3>1. CASE s2 \in Slots(jj) /\ At(jj, s2).key = At(jj, s2)'.key
      BY <1>1, <2>1, <3>1 DEF Inv, OncePerSubtable
    <3>2. CASE Claims(t) /\ jj = frame[t].j /\ At(jj, s2)'.key = frame[t].ent
      BY <1>1, <2>1, <3>2, NewKey
    <3> QED
      BY <1>1, <3>1, <3>2, KeyOrigin
  <2>2. CASE Claims(t) /\ jj = frame[t].j /\ s1 = Target(t) /\ At(jj, s1)'.key = frame[t].ent
             /\ jj \in DOMAIN TableArray
    <3>1. CASE s2 \in Slots(jj) /\ At(jj, s2).key = At(jj, s2)'.key
      BY <1>1, <2>2, <3>1, NewKey
    <3>2. CASE s2 = Target(t)
      BY <2>2, <3>2
    <3> QED
      BY <1>1, <3>1, <3>2, KeyOrigin
  <2> QED
    BY <1>1, <2>1, <2>2, KeyOrigin
<1>2. ASSUME NEW j1 \in DOMAIN TableArray', NEW j2 \in DOMAIN TableArray',
             NEW s1 \in Slots(j1)', NEW s2 \in Slots(j2)',
             At(j1, s1)' = At(j2, s2)', At(j1, s1)'.key # NULL, At(j1, s1)'.bool = 0
      PROVE  j1 = j2 /\ s1 = s2
  <2>1. CASE j1 \in DOMAIN TableArray /\ s1 \in Slots(j1) /\ At(j1, s1) = At(j1, s1)'
    <3>1. CASE j2 \in DOMAIN TableArray /\ s2 \in Slots(j2) /\ At(j2, s2) = At(j2, s2)'
      BY <1>2, <2>1, <3>1 DEF Inv, UnmarkedOnce
    <3>2. CASE Claims(t) /\ At(j2, s2)'.key = frame[t].ent
      BY <1>2, <2>1, <3>2, NewKey
    <3> QED
      BY <1>2, <3>1, <3>2, KeyOrigin
  <2>2. CASE Claims(t) /\ j1 = frame[t].j /\ s1 = Target(t) /\ At(j1, s1)'.key = frame[t].ent
    <3>1. CASE j2 \in DOMAIN TableArray /\ s2 \in Slots(j2) /\ At(j2, s2) = At(j2, s2)'
      BY <1>2, <2>2, <3>1, NewKey
    <3>2. CASE j2 = frame[t].j /\ s2 = Target(t)
      BY <2>2, <3>2
    <3> QED
      BY <1>2, <3>1, <3>2, KeyOrigin
  <2> QED
    BY <1>2, <2>1, <2>2, KeyOrigin
<1> QED
  BY <1>1, <1>2 DEF OncePerSubtable, UnmarkedOnce

\* What a claim finds clear below it.
LEMMA ClaimClear ==
  ASSUME Inv, NEW t \in Threads, Claims(t), NEW lo \in Nat, Origin(t) <= lo
  PROVE  Clear(frame[t].ent, lo, 0, frame[t].j, frame[t].i)
<1> TablesTyped /\ LocalsTyped /\ FrameInv(t)
  BY DEF Inv, Typed, ThreadInv
<1>1. pc[t] = "claim" /\ pc[t] \in ProbePoints
  BY DEF Claims, ClaimSlot, ProbePoints
<1>2. PassedTo(frame[t].ent, Origin(t), frame[t].j, frame[t].i)
  BY <1>1 DEF FrameInv, InsertPoints
<1>3. Origin(t) \in Nat
  BY FrameTyped DEF Origin, TablesTyped, LocalsTyped
<1>4. frame[t].ent \in Keys /\ frame[t].j \in Nat /\ frame[t].i \in Attempts
  BY <1>1, ProbeInRange
<1> QED
  BY <1>2, <1>3, <1>4, PassedIsClear

\* Every key above start is on its path there.
LEMMA OnPathStep ==
  ASSUME Inv, NEW t \in Threads, ThreadStep(t)
  PROVE  OnPath'
<1> TablesTyped /\ LocalsTyped
  BY DEF Inv, Typed
<1>t. start \in Nat /\ start' \in Nat /\ start <= start'
  BY TablesStep DEF Inv, Typed, TablesTyped, TablesOf, Grows
<1> SUFFICES ASSUME NEW jj \in DOMAIN TableArray', NEW s \in Slots(jj)', jj > start',
                    At(jj, s)'.key # NULL
             PROVE  \E n \in Attempts :
                      /\ Bucket(At(jj, s).key, n, jj)' = s
                      /\ Clear(At(jj, s).key, start + 1, 0, jj, n)'
  BY DEF OnPath
<1>d. DOMAIN TableArray' \subseteq Nat
  BY TablesStep DEF TablesOf, Grows, TablesTyped
<1>0. PICK k \in Keys : k = At(jj, s)'.key
  <2>1. TablesTyped'
    BY TablesStep DEF TablesOf, Grows
  <2>2. At(jj, s)' \in Pointers
    BY <2>1 DEF TablesTyped, IsSubTable, Slots, At
  <2> QED
    BY <2>2 DEF Pointers, Null
<1>1. PICK n \in Attempts : /\ jj \in DOMAIN TableArray
                            /\ Bucket(k, n, jj) = s /\ Clear(k, start + 1, 0, jj, n)
  <2>1. CASE jj \in DOMAIN TableArray /\ s \in Slots(jj) /\ At(jj, s).key = k
    BY <1>0, <1>t, <1>d, <2>1 DEF Inv, OnPath
  <2>2. CASE /\ Claims(t) /\ jj = frame[t].j /\ s = Target(t) /\ jj \in DOMAIN TableArray
             /\ k = frame[t].ent
    <3>0. frame[t].i \in Attempts
      BY FrameTyped DEF LocalsTyped
    <3>1. Origin(t) <= start + 1
      <4>1. StackInv(t)
        BY DEF Inv, ThreadInv
      <4> QED
        BY <1>t, <4>1 DEF Origin, StackInv
    <3>2. Clear(frame[t].ent, start + 1, 0, frame[t].j, frame[t].i)
      BY <1>t, <2>2, <3>1, ClaimClear
    <3> QED
      BY <2>2, <3>0, <3>2 DEF Target
  <2> QED
    BY <1>0, <2>1, <2>2, KeyOrigin
<1>2. PICK lo \in Nat : lo = start + 1
  BY <1>t
<1>3. 0 \in Attempts
  BY HashtableLazyAssumption DEF Attempts
<1>4. Clear(k, lo, 0, jj, n)'
  BY <1>1, <1>2, <1>3, ClearStays
<1>5. Bucket(k, n, jj)' = s
  BY <1>1, ProbeStays
<1>6. \A j2 \in Nat, m \in Attempts : ~Before(j2, m, start' + 1, 0) => ~Before(j2, m, lo, 0)
  <2>1. PICK l2 \in Nat : l2 = start'
    BY <1>t
  <2>2. start <= l2
    BY <1>t, <2>1
  <2>3. \A j2 \in Nat, m \in Attempts : ~Before(j2, m, l2 + 1, 0) => ~Before(j2, m, lo, 0)
    BY <1>2, <1>t, <2>2 DEF Before, Attempts
  <2> QED
    BY <2>1, <2>3
<1>7. Clear(k, start + 1, 0, jj, n)'
  BY <1>4, <1>6, <1>d DEF Clear, Before
<1> QED
  BY <1>0, <1>5, <1>7
-----------------------------------------------------------------------------
(* Copies, marks and counts                                               *)

\* A key that is claimed for the harness joins the contents; a copy changes nothing.
LEMMA ContentsStep ==
  ASSUME Inv, NEW t \in Threads, ThreadStep(t)
  PROVE  /\ Contents \subseteq Contents'
         /\ Claims(t) /\ stack[t] = <<>> =>
              frame[t].ent \notin Contents /\ Contents' = Contents \cup {frame[t].ent}
         /\ ~(Claims(t) /\ stack[t] = <<>>) => Contents' = Contents
<1> TablesTyped /\ LocalsTyped /\ StackInv(t) /\ CallInv(t) /\ InOrder
  BY DEF Inv, Typed, ThreadInv
<1>1. ASSUME NEW k \in Contents
      PROVE  k \in Contents'
  <2>1. PICK jj \in DOMAIN TableArray : \E s \in Slots(jj) : At(jj, s).key = k
    BY DEF Contents
  <2>2. PICK s \in Slots(jj) : At(jj, s).key = k
    BY <2>1
  <2>3. k \in Keys /\ k # NULL
    BY HashtableLazyAssumption DEF Contents
  <2>4. jj \in DOMAIN TableArray' /\ s \in Slots(jj)' /\ At(jj, s)'.key = k
    BY <2>2, <2>3, SlotStays
  <2> QED
    BY <2>3, <2>4 DEF Contents
<1>2. ASSUME NEW k \in Contents'
      PROVE  k \in Contents \/ (Claims(t) /\ k = frame[t].ent)
  <2>1. PICK jj \in DOMAIN TableArray' : \E s \in Slots(jj)' : At(jj, s)'.key = k
    BY DEF Contents
  <2>2. PICK s \in Slots(jj)' : At(jj, s)'.key = k
    BY <2>1
  <2>3. k \in Keys /\ k # NULL
    BY HashtableLazyAssumption DEF Contents
  <2> QED
    BY <2>2, <2>3, KeyOrigin DEF Contents
<1>3. ASSUME Claims(t)
      PROVE  frame[t].ent \in Contents'
  <2>1. pc[t] \in ProbePoints
    BY <1>3 DEF Claims, ClaimSlot, ProbePoints
  <2>2. PICK jj \in DOMAIN TableArray : jj = frame[t].j
    BY <2>1, ProbeInRange
  <2>3. PICK s \in Slots(jj) : s = Target(t) /\ Probed(t) = At(jj, s)
    BY <2>1, <2>2, ProbeInRange
  <2>4. PICK k \in Keys : k = frame[t].ent
    BY <2>1, ProbeInRange
  <2>5. jj \in DOMAIN TableArray' /\ s \in Slots(jj)' /\ At(jj, s)'.key = k
    <3>1. At(jj, s)' = After(t, jj, s)
      BY TablesStep DEF TablesOf
    <3>2. ~Marks(t)
      BY <1>3 DEF Claims, ClaimSlot, Marks, setPtr
    <3> QED
      BY <1>3, <2>2, <2>3, <2>4, <3>1, <3>2, SlotStays DEF After
  <2> QED
    BY <2>4, <2>5 DEF Contents
<1>4. Claims(t) /\ stack[t] = <<>> => frame[t].ent \notin Contents
  BY NewKey DEF Contents
<1>5. ASSUME Claims(t), stack[t] # <<>>
      PROVE  frame[t].ent \in Contents
  <2>1. PICK g \in Frames : g = Head(stack[t])
    BY <1>5 DEF LocalsTyped
  <2>2. /\ g.ent \in Keys /\ g.i \in Attempts /\ g.j \in DOMAIN TableArray
        /\ Slot(g.ent, g.i, g.j) = [key |-> frame[t].ent, bool |-> 1]
    <3>1. pc[t] # "idle" /\ start \in Nat /\ cur \in Nat
      BY <1>5 DEF CallInv, TablesTyped
    <3> QED
      BY <1>5, <2>1, <3>1, FrameTyped DEF StackInv, CallInv, InOrder
  <2>3. PICK s \in Slots(g.j) : s = Bucket(g.ent, g.i, g.j)
    BY <2>2, BucketInRange
  <2>4. frame[t].ent \in Keys
    BY <1>5 DEF CallInv
  <2> QED
    BY <2>2, <2>3, <2>4 DEF Slot, At, Contents
<1> QED
  BY <1>1, <1>2, <1>3, <1>4, <1>5

\* The key of a claim is reached from where the insert began.
LEMMA ClaimReaches ==
  ASSUME Inv, NEW t \in Threads, ThreadStep(t), Claims(t), NEW lo \in Nat, lo = Origin(t),
         NEW k \in Keys, k = frame[t].ent
  PROVE  ReachesFrom(k, lo, 0)'
<1> TablesTyped /\ LocalsTyped /\ StackInv(t)
  BY DEF Inv, Typed, ThreadInv
<1>1. pc[t] = "claim" /\ pc[t] \in ProbePoints /\ Probed(t) = Null
  BY DEF Claims, ClaimSlot, ProbePoints
<1>2. PICK jj \in DOMAIN TableArray, n \in Attempts : jj = frame[t].j /\ n = frame[t].i
  BY <1>1, ProbeInRange
<1>3. PICK s \in Slots(jj) : s = Target(t) /\ At(jj, s) = Null /\ s = Bucket(k, n, jj)
  BY <1>1, <1>2, ProbeInRange DEF Target
<1>4. jj \in DOMAIN TableArray' /\ Slot(k, n, jj)'.key = k
  <2>1. At(jj, s)' = After(t, jj, s)
    BY TablesStep DEF TablesOf
  <2>2. ~Marks(t)
    BY <1>1 DEF Marks, setPtr
  <2>3. At(jj, s)'.key = k
    <3>1. At(jj, s)' = [key |-> frame[t].ent, bool |-> 0]
      BY <1>2, <1>3, <2>1, <2>2 DEF After
    <3> QED
      BY <3>1
  <2>4. Bucket(k, n, jj)' = s
    BY <1>3, ProbeStays
  <2> QED
    BY <1>3, <2>3, <2>4, ProbeStays DEF Slot, At
<1>5. 0 \in Attempts /\ start \in Nat /\ DOMAIN TableArray \subseteq Nat
  BY HashtableLazyAssumption DEF Attempts, TablesTyped
<1>6. Clear(k, lo, 0, jj, n)'
  <2>1. Clear(k, lo, 0, jj, n)
    BY <1>2, ClaimClear
  <2> QED
    BY <1>5, <2>1, ClearStays
<1>7. lo <= jj
  <2>1. CASE stack[t] = <<>>
    <3>1. lo = start
      BY <2>1 DEF Origin
    <3>2. At(jj, s).key = NULL
      BY <1>3 DEF Null
    <3> QED
      BY <1>5, <3>1, <3>2, BelowStart
  <2>2. CASE stack[t] # <<>>
    BY <1>2, <1>5, <2>2, FrameTyped DEF Origin, StackInv, LocalsTyped
  <2> QED
    BY <2>1, <2>2
<1>8. jj < cur' /\ ~Before(jj, n, lo, 0)
  <2>1. jj < cur /\ cur <= cur' /\ cur \in Nat /\ cur' \in Nat
    BY <1>1, <1>2, ProbeInRange, TablesStep DEF TablesOf, Grows, TablesTyped
  <2> QED
    BY <1>5, <1>7, <2>1 DEF Before, Attempts
<1> QED
  BY <1>4, <1>6, <1>8 DEF ReachesFrom, Before

\* start moves on when all of its subtable has been copied.
LEMMA StartStep ==
  ASSUME Inv, NEW t \in Threads, ThreadStep(t)
  PROVE  \/ start' = start
         \/ /\ AdvanceStart(t) /\ start' = start + 1 /\ start \in DOMAIN TableArray
            /\ Completed(start) = Slots(start)
<1> TablesTyped /\ LocalsTyped /\ FrameInv(t) /\ InOrder
  BY DEF Inv, Typed, ThreadInv
<1>1. CASE AdvanceStart(t)
  <2>1. pc[t] = "start" /\ start' = IF start = frame[t].exStart THEN start + 1 ELSE start
    BY <1>1 DEF AdvanceStart
  <2>2. frame[t].exStart = frame[t].j /\ Completed(frame[t].j) = Slots(frame[t].j)
    BY <2>1 DEF FrameInv
  <2>3. start \in DOMAIN TableArray
    BY DEF InOrder, TablesTyped
  <2> QED
    BY <1>1, <2>1, <2>2, <2>3
<1>2. CASE ~AdvanceStart(t)
  BY <1>2 DEF ThreadStep, Step, shared, CallInsert, CallQuery, InsertTable, ReadStart, lookup,
              setPtr, CallCopy, CountCopy, SumCopies, ClaimSlot, RecheckSlot, ReloadCur, addDrop,
              AdvanceCur, Drain, QueryTable, lookupQuery
<1> QED
  BY <1>1, <1>2

\* A path that finds its key in the smallest subtable finds it above too, once the
\* subtable has been copied.
LEMMA FoundStep ==
  ASSUME Inv, NEW t \in Threads, ThreadStep(t)
  PROVE  Found'
<1> TablesTyped /\ LocalsTyped /\ InOrder
  BY DEF Inv, Typed
<1>t. start \in Nat /\ cur \in Nat /\ DOMAIN TableArray \subseteq Nat
      /\ 0 \in Attempts /\ \A n \in Attempts : n \in Nat
  BY HashtableLazyAssumption DEF TablesTyped, Attempts
<1> SUFFICES ASSUME NEW k \in Contents'
             PROVE  ReachesFrom(k, start, 0)'
  BY DEF Found
<1>k. k \in Keys
  BY DEF Contents
<1>1. ASSUME NEW lo \in Nat, lo = start'
      PROVE  ReachesFrom(k, lo, 0)'
  <2>1. CASE k \in Contents
    <3>1. ReachesFrom(k, start, 0)
      BY <2>1 DEF Inv, Found
    <3>2. CASE start' = start
      BY <1>1, <1>t, <1>k, <3>1, <3>2, ReachesStays
    <3>3. CASE lo = start + 1 /\ start \in DOMAIN TableArray /\ Completed(start) = Slots(start)
      <4>1. PICK jj \in DOMAIN TableArray, n \in Attempts :
              /\ jj < cur /\ ~Before(jj, n, start, 0)
              /\ Slot(k, n, jj).key = k
              /\ Clear(k, start, 0, jj, n)
        BY <3>1 DEF ReachesFrom
      <4>2. ReachesFrom(k, lo, 0)
        <5>1. CASE jj = start
          <6>1. PICK s \in Slots(jj) : s = Bucket(k, n, jj)
            BY <1>k, BucketInRange
          <6>2. s \in Completed(jj) /\ At(jj, s).key = k
            BY <3>3, <4>1, <5>1, <6>1 DEF Slot, At
          <6>3. ReachesFrom(At(jj, s).key, jj + 1, 0)
            BY <6>2 DEF Inv, Copied
          <6> QED
            BY <3>3, <5>1, <6>2, <6>3
        <5>2. CASE jj # start
          <6>1. ~Before(jj, n, lo, 0)
            BY <1>t, <3>3, <4>1, <5>2 DEF Before
          <6>2. Clear(k, lo, 0, jj, n)
            BY <1>t, <3>3, <4>1 DEF Before, Clear
          <6> QED
            BY <4>1, <6>1, <6>2 DEF ReachesFrom
        <5> QED
          BY <5>1, <5>2
      <4> QED
        BY <1>t, <1>k, <4>2, ReachesStays
    <3> QED
      BY <1>1, <3>2, <3>3, StartStep
  <2>2. CASE k \notin Contents
    <3>1. Claims(t) /\ stack[t] = <<>> /\ k = frame[t].ent
      BY <2>2, ContentsStep
    <3>2. Origin(t) = start /\ start' = start
      BY <3>1 DEF Origin, Claims, ClaimSlot
    <3> QED
      BY <1>1, <1>k, <3>1, <3>2, ClaimReaches
  <2> QED
    BY <2>1, <2>2
<1>2. start' \in Nat
  BY TablesStep DEF TablesOf, Grows, TablesTyped
<1>3. PICK lo \in Nat : lo = start'
  BY <1>2
<1>4. ReachesFrom(k, lo, 0)'
  BY <1>1, <1>3
<1> QED
  BY <1>3, <1>4

\* The marked slot that a thread is copying.
LEMMA PendingTyped ==
  ASSUME Inv, NEW u \in Threads, IsPending(u)
  PROVE  /\ Marker(u) \in Frames /\ Marker(u).ent \in Keys /\ Marker(u).i \in Attempts
         /\ Marker(u).j = start /\ start \in DOMAIN TableArray
         /\ Marked(u) \in Slots(start) /\ PendingAt(u, start, Marked(u))
         /\ At(start, Marked(u)).bool = 1 /\ At(start, Marked(u)).key # NULL
         /\ Slot(Marker(u).ent, Marker(u).i, Marker(u).j) = At(start, Marked(u))
<1> TablesTyped /\ LocalsTyped /\ InOrder /\ StackInv(u) /\ FrameInv(u) /\ CallInv(u)
  BY DEF Inv, Typed, ThreadInv
<1>0. start \in DOMAIN TableArray
  BY DEF InOrder, TablesTyped
<1>1. PICK g \in Frames : g = Marker(u)
  BY DEF Marker, LocalsTyped
<1>2. /\ g.ent \in Keys /\ g.i \in Attempts /\ g.j = start
      /\ Slot(g.ent, g.i, g.j).bool = 1
  <2>1. CASE stack[u] # <<>>
    <3>1. g = Head(stack[u]) /\ pc[u] # "idle"
      BY <1>1, <2>1 DEF Marker, CallInv
    <3>2. g.ent = key[u] /\ g.j = start /\ Slot(g.ent, g.i, g.j).bool = 1
      BY <2>1, <3>1 DEF StackInv
    <3> QED
      BY <3>1, <3>2, FrameTyped DEF CallInv
  <2>2. CASE stack[u] = <<>>
    <3>1. g = frame[u] /\ pc[u] \in {"copy", "count"}
      BY <1>1, <2>2 DEF Marker, IsPending
    <3> QED
      BY <3>1, FrameTyped DEF FrameInv, CallInv, Probed
  <2> QED
    BY <2>1, <2>2
<1>3. PICK s \in Slots(start) : s = Bucket(g.ent, g.i, g.j)
  BY <1>0, <1>2, BucketInRange
<1>4. Slot(g.ent, g.i, g.j) = At(start, s) /\ Marked(u) = s
  BY <1>1, <1>2, <1>3 DEF Marked, Slot, At
<1>5. At(start, s).bool = 1 /\ At(start, s).key # NULL
  BY <1>0, <1>2, <1>3, <1>4, AtTyped
<1> QED
  BY <1>0, <1>1, <1>2, <1>3, <1>4, <1>5 DEF PendingAt

\* While a slot is being copied start does not move on.
LEMMA StartStays ==
  ASSUME Inv, NEW t \in Threads, ThreadStep(t), NEW u \in Threads, IsPending(u)
  PROVE  start' = start
<1>1. Marked(u) \in Slots(start) /\ Marked(u) \notin Completed(start)
  BY PendingTyped DEF Completed
<1> QED
  BY <1>1, StartStep

\* How a step of t changes what t is copying: setPtr begins it, CallCopy and the return from
\* the copy go on with it, CountCopy ends it.
LEMMA CallStep ==
  ASSUME Inv, NEW t \in Threads, ThreadStep(t)
  PROVE  \/ /\ stack'[t] = stack[t] /\ ~Marks(t) /\ ~CountCopy(t)
            /\ pc[t] \notin {"copy", "count"} /\ pc'[t] \notin {"copy", "count"}
         \/ /\ stack'[t] = stack[t] /\ pc'[t] = pc[t] /\ frame'[t] = frame[t]
            /\ ~Marks(t) /\ ~CountCopy(t)
         \/ /\ Marks(t) /\ stack[t] = <<>> /\ stack'[t] = <<>> /\ pc[t] = "setPtr"
            /\ pc'[t] = "copy" /\ frame'[t] = frame[t] /\ ~CountCopy(t)
         \/ /\ CallCopy(t) /\ pc[t] = "copy" /\ stack[t] = <<>> /\ ~Marks(t) /\ ~CountCopy(t)
            /\ stack'[t] = <<[frame[t] EXCEPT !.exStart = start]>>
         \/ /\ CountCopy(t) /\ stack[t] = <<>> /\ stack'[t] = <<>> /\ pc[t] = "count"
            /\ pc'[t] = "sum" /\ ~Marks(t)
         \/ /\ stack[t] # <<>> /\ stack'[t] = <<>> /\ pc'[t] = "count" /\ ~Marks(t)
            /\ frame'[t] = Head(stack[t]) /\ ~CountCopy(t)
<1> Typed /\ LocalsTyped /\ StackInv(t) /\ CallInv(t)
  BY DEF Inv, Typed, ThreadInv
<1>m. /\ Marks(t) => pc[t] = "setPtr"
      /\ CountCopy(t) => pc[t] = "count"
  BY DEF Marks, setPtr, CountCopy
<1>0. PICK jj \in Nat : jj = frame[t].j
  BY FrameTyped DEF LocalsTyped
<1>p. {"lookup", "reload", "qlookup", "qtable", "claim", "setPtr", "copy", "sum", "start",
       "recheck", "advance"} \subseteq Points
  BY DEF Points
<1>r. ASSUME NEW r \in {0, 1}, Return(t, r)
      PROVE  /\ stack'[t] = <<>>
             /\ stack[t] = <<>> => pc'[t] = "idle"
             /\ stack[t] # <<>> => pc'[t] = "count" /\ frame'[t] = Head(stack[t])
  BY <1>r, ReturnEffect
<1>n. ASSUME NEW again \in Points, NEW after \in Points,
             \/ NextAttempt(t, again, after, frame[t].j)
             \/ NextAttempt(t, again, after, frame[t].j + 1)
      PROVE  stack'[t] = stack[t] /\ pc'[t] \in {again, after}
  <2>1. jj + 1 \in Nat
    OBVIOUS
  <2> QED
    BY <1>0, <1>n, <2>1, NextEffect DEF call
<1>s. ASSUME NEW label \in Points, Goto(t, label), UNCHANGED <<call, frame>>
      PROVE  stack'[t] = stack[t] /\ pc'[t] = label /\ frame'[t] = frame[t]
  BY <1>s, StaysEffect DEF call
<1>1. CASE CallInsert(t) \/ CallQuery(t)
  BY <1>1, <1>m, CallEffect
<1>2. CASE InsertTable(t) \/ ReadStart(t) \/ ReloadCur(t) \/ AdvanceCur(t)
  BY <1>2, <1>m, InsertTableEffect, ReadStartEffect, ReloadCurEffect, AdvanceCurEffect DEF call
<1>3. CASE lookup(t)
  <2>1. pc[t] = "lookup"
    BY <1>3 DEF lookup
  <2> QED
    BY <1>3, <1>m, <1>r, <1>n, <1>s, <1>p, <2>1 DEF lookup
<1>4. CASE setPtr(t)
  <2>1. pc[t] = "setPtr" /\ stack[t] = <<>>
    BY <1>4 DEF setPtr, StackInv, CopyPoints
  <2>2. CASE Probed(t).bool = 0
    BY <1>4, <1>m, <1>s, <1>p, <2>1, <2>2 DEF setPtr, Marks
  <2>3. CASE Probed(t).bool # 0
    BY <1>4, <1>m, <1>n, <1>p, <2>1, <2>3 DEF setPtr, Marks
  <2> QED
    BY <2>2, <2>3
<1>5. CASE CallCopy(t)
  BY <1>5, <1>m, CopyEffect
<1>6. CASE CountCopy(t)
  <2>1. pc[t] = "count" /\ stack[t] = <<>>
    BY <1>6 DEF CountCopy, StackInv, CopyPoints
  <2>2. stack' = stack
    BY <1>6 DEF CountCopy, call
  <2> QED
    BY <1>6, <1>m, <1>p, <2>1, <2>2 DEF CountCopy, Goto, LocalsTyped
<1>7. CASE addDrop(t)
  <2>1. pc[t] = "grow"
    BY <1>7 DEF addDrop
  <2> QED
    BY <1>7, <1>m, <1>s, <1>p, <2>1 DEF addDrop
<1>8. CASE Drain(t)
  <2>1. ~Marks(t) /\ ~CountCopy(t)
    BY <1>8 DEF Drain, Marks, setPtr, CountCopy, Drained
  <2> QED
    BY <1>8, <2>1 DEF Drain, call
<1>9. CASE SumCopies(t) \/ AdvanceStart(t)
  <2>1. pc[t] \in {"sum", "start"}
    BY <1>9 DEF SumCopies, AdvanceStart
  <2> QED
    BY <1>9, <1>m, <1>n, <1>s, <1>p, <2>1 DEF SumCopies, AdvanceStart
<1>10. CASE ClaimSlot(t) \/ RecheckSlot(t)
  <2>1. pc[t] \in {"claim", "recheck"}
    BY <1>10 DEF ClaimSlot, RecheckSlot
  <2> QED
    BY <1>10, <1>m, <1>n, <1>r, <1>s, <1>p, <2>1 DEF ClaimSlot, RecheckSlot
<1>11. CASE QueryTable(t) \/ lookupQuery(t)
  <2>1. pc[t] \in {"qtable", "qlookup"}
    BY <1>11 DEF QueryTable, lookupQuery
  <2> QED
    BY <1>11, <1>m, <1>n, <1>r, <1>s, <1>p, <2>1 DEF QueryTable, lookupQuery
<1> QED
  BY <1>1, <1>2, <1>3, <1>4, <1>5, <1>6, <1>7, <1>8, <1>9, <1>10, <1>11 DEF ThreadStep, Step

\* What is being copied after a step.
LEMMA PendingAtStep ==
  ASSUME Inv, NEW t \in Threads, ThreadStep(t), NEW u \in Threads, NEW jj, NEW s
  PROVE  PendingAt(u, jj, s)' <=>
           \/ PendingAt(u, jj, s) /\ ~(u = t /\ CountCopy(t))
           \/ u = t /\ Marks(t) /\ jj = frame[t].j /\ s = Target(t)
<1> TablesTyped /\ LocalsTyped
  BY DEF Inv, Typed
<1>b. ASSUME NEW g \in Frames, g.ent \in Keys, g.j \in DOMAIN TableArray,
             Marker(u)'.ent = g.ent, Marker(u)'.i = g.i, Marker(u)'.j = g.j
      PROVE  Marked(u)' = Bucket(g.ent, g.i, g.j)
  <2>1. PICK k \in Keys, n \in Attempts, j0 \in DOMAIN TableArray :
          k = g.ent /\ n = g.i /\ j0 = g.j
    BY <1>b, FrameTyped
  <2>2. Bucket(k, n, j0)' = Bucket(k, n, j0)
    BY ProbeStays
  <2> QED
    BY <1>b, <2>1, <2>2 DEF Marked, Bucket
<1>p. IsPending(u) => Marker(u) \in Frames /\ Marker(u).ent \in Keys
                      /\ Marker(u).j \in DOMAIN TableArray
  BY PendingTyped
<1>s. ASSUME IsPending(u)' = IsPending(u), ~(u = t /\ (Marks(t) \/ CountCopy(t))),
             IsPending(u) => /\ Marker(u)'.ent = Marker(u).ent /\ Marker(u)'.i = Marker(u).i
                             /\ Marker(u)'.j = Marker(u).j
      PROVE  PendingAt(u, jj, s)' <=>
               \/ PendingAt(u, jj, s) /\ ~(u = t /\ CountCopy(t))
               \/ u = t /\ Marks(t) /\ jj = frame[t].j /\ s = Target(t)
  <2>1. CASE IsPending(u)
    <3>1. PICK g \in Frames : g = Marker(u)
      BY <1>p, <2>1
    <3>2. Marked(u)' = Marked(u)
      BY <1>b, <1>p, <1>s, <2>1, <3>1 DEF Marked
    <3> QED
      BY <1>s, <2>1, <3>2 DEF PendingAt
  <2>2. CASE ~IsPending(u)
    BY <1>s, <2>2 DEF PendingAt
  <2> QED
    BY <2>1, <2>2
<1>1. CASE u # t
  <2>1. SameLocals(u)
    BY <1>1, OthersUnchanged
  <2>2. IsPending(u)' = IsPending(u) /\ Marker(u)' = Marker(u)
    BY <2>1 DEF SameLocals, IsPending, Marker
  <2> QED
    BY <1>1, <1>s, <2>2
<1>2. CASE u = t
  <2>1. CASE /\ stack'[t] = stack[t] /\ ~Marks(t) /\ ~CountCopy(t)
             /\ pc[t] \notin {"copy", "count"} /\ pc'[t] \notin {"copy", "count"}
    BY <1>2, <1>s, <2>1 DEF IsPending, Marker
  <2>2. CASE /\ stack'[t] = stack[t] /\ pc'[t] = pc[t] /\ frame'[t] = frame[t]
             /\ ~Marks(t) /\ ~CountCopy(t)
    BY <1>2, <1>s, <2>2 DEF IsPending, Marker
  <2>3. CASE /\ Marks(t) /\ stack[t] = <<>> /\ stack'[t] = <<>> /\ pc[t] = "setPtr"
             /\ pc'[t] = "copy" /\ frame'[t] = frame[t] /\ ~CountCopy(t)
    <3>1. ~IsPending(t) /\ IsPending(t)' /\ Marker(t)' = frame[t]
      BY <2>3 DEF IsPending, Marker
    <3>2. PICK g \in Frames : g = frame[t]
      BY DEF LocalsTyped
    <3>3. g.ent \in Keys /\ g.j \in DOMAIN TableArray
      BY <2>3, <3>2, ProbeInRange DEF ProbePoints, CopyPoints
    <3>4. Marked(t)' = Target(t)
      BY <1>2, <1>b, <3>1, <3>2, <3>3 DEF Target
    <3> QED
      BY <1>2, <2>3, <3>1, <3>4 DEF PendingAt
  <2>4. CASE /\ CallCopy(t) /\ pc[t] = "copy" /\ stack[t] = <<>> /\ ~Marks(t) /\ ~CountCopy(t)
             /\ stack'[t] = <<[frame[t] EXCEPT !.exStart = start]>>
    <3>1. PICK f \in Frames, g \in Frames : f = frame[t] /\ g = [f EXCEPT !.exStart = start]
      BY <2>4, CopyEffect DEF LocalsTyped
    <3>2. g.ent = f.ent /\ g.i = f.i /\ g.j = f.j
      BY <3>1 DEF Frames
    <3>3. <<g>> # <<>> /\ Head(<<g>>) = g
      OBVIOUS
    <3>4. IsPending(t) /\ IsPending(t)' /\ Marker(t) = f /\ Marker(t)' = g
      BY <2>4, <3>1, <3>3 DEF IsPending, Marker
    <3> QED
      BY <1>2, <1>s, <2>4, <3>2, <3>4
  <2>5. CASE /\ CountCopy(t) /\ stack[t] = <<>> /\ stack'[t] = <<>> /\ pc[t] = "count"
             /\ pc'[t] = "sum" /\ ~Marks(t)
    BY <1>2, <2>5 DEF PendingAt, IsPending
  <2>6. CASE /\ stack[t] # <<>> /\ stack'[t] = <<>> /\ pc'[t] = "count" /\ ~Marks(t)
             /\ frame'[t] = Head(stack[t]) /\ ~CountCopy(t)
    <3>1. IsPending(t) /\ IsPending(t)' /\ Marker(t)' = Marker(t)
      BY <2>6 DEF IsPending, Marker
    <3> QED
      BY <1>2, <1>s, <2>6, <3>1
  <2> QED
    BY <2>1, <2>2, <2>3, <2>4, <2>5, <2>6, CallStep
<1> QED
  BY <1>1, <1>2

\* A thread marks a slot that no thread is copying.
LEMMA DistinctStep ==
  ASSUME Inv, NEW t \in Threads, ThreadStep(t)
  PROVE  Distinct'
<1> SUFFICES ASSUME NEW v \in Threads, NEW u \in Threads, NEW jj, NEW s,
                    PendingAt(v, jj, s)', PendingAt(u, jj, s)'
             PROVE  v = u
  BY DEF Distinct
<1>p. ASSUME NEW w \in Threads, PendingAt(w, jj, s)
      PROVE  jj \in DOMAIN TableArray /\ s \in Slots(jj) /\ At(jj, s).bool = 1
  BY <1>p, PendingTyped DEF PendingAt
<1>m. ASSUME Marks(t), jj = frame[t].j, s = Target(t)
      PROVE  At(jj, s).bool = 0
  <2>1. pc[t] \in ProbePoints /\ Probed(t).bool = 0
    BY <1>m DEF Marks, setPtr, ProbePoints, CopyPoints
  <2> QED
    BY <1>m, <2>1, ProbeInRange
<1>1. CASE PendingAt(v, jj, s) /\ PendingAt(u, jj, s)
  BY <1>1, <1>p DEF Inv, Distinct
<1>2. CASE PendingAt(v, jj, s) /\ ~PendingAt(u, jj, s)
  BY <1>2, <1>p, <1>m, PendingAtStep
<1>3. CASE ~PendingAt(v, jj, s) /\ PendingAt(u, jj, s)
  BY <1>3, <1>p, <1>m, PendingAtStep
<1>4. CASE ~PendingAt(v, jj, s) /\ ~PendingAt(u, jj, s)
  BY <1>4, PendingAtStep
<1> QED
  BY <1>1, <1>2, <1>3, <1>4

\* A slot is copied from when its copy is counted.
LEMMA CompletedStep ==
  ASSUME Inv, NEW t \in Threads, ThreadStep(t), NEW jj \in DOMAIN TableArray, NEW s \in Slots(jj)
  PROVE  /\ s \in Completed(jj)' <=>
              s \in Completed(jj) \/ (CountCopy(t) /\ jj = frame[t].j /\ s = Target(t))
         /\ CountCopy(t) /\ jj = frame[t].j /\ s = Target(t) => s \notin Completed(jj)
<1> TablesTyped /\ LocalsTyped /\ FrameInv(t) /\ StackInv(t)
  BY DEF Inv, Typed, ThreadInv
<1>c. ASSUME CountCopy(t)
      PROVE  /\ PendingAt(t, frame[t].j, Target(t)) /\ Probed(t).bool = 1 /\ pc[t] \in ProbePoints
             /\ PendingAt(t, jj, s) => jj = frame[t].j /\ s = Target(t)
  BY <1>c DEF CountCopy, StackInv, FrameInv, CopyPoints, ProbePoints, PendingAt, IsPending, Marked,
              Marker, Target
<1>0. Slots(jj)' = Slots(jj)
  BY SlotStays
<1>1. CASE Marks(t) /\ jj = frame[t].j /\ s = Target(t)
  <2>1. PendingAt(t, jj, s)' /\ ~CountCopy(t)
    BY <1>1, PendingAtStep DEF Marks, setPtr, CountCopy
  <2>2. At(jj, s).bool = 0
    <3>1. pc[t] \in ProbePoints /\ Probed(t).bool = 0
      BY <1>1 DEF Marks, setPtr, ProbePoints, CopyPoints
    <3> QED
      BY <1>1, <3>1, ProbeInRange
  <2> QED
    BY <2>1, <2>2 DEF Completed
<1>2. CASE CountCopy(t) /\ jj = frame[t].j /\ s = Target(t)
  <2>1. PendingAt(t, jj, s) /\ At(jj, s).bool = 1 /\ ~Marks(t)
    BY <1>2, <1>c, ProbeInRange DEF Marks, setPtr, CountCopy
  <2>2. At(jj, s)'.bool = 1
    BY <2>1, SlotStays
  <2>3. \A u \in Threads : ~PendingAt(u, jj, s)'
    BY <1>2, <2>1, PendingAtStep DEF Inv, Distinct
  <2> QED
    BY <1>0, <1>2, <2>1, <2>2, <2>3 DEF Completed
<1>3. CASE ~(Marks(t) /\ jj = frame[t].j /\ s = Target(t))
           /\ ~(CountCopy(t) /\ jj = frame[t].j /\ s = Target(t))
  <2>1. At(jj, s)'.bool = 1 <=> At(jj, s).bool = 1
    <3>1. At(jj, s)' = At(jj, s)
          \/ (At(jj, s).bool = 0 /\ At(jj, s)' = [key |-> frame[t].ent, bool |-> 0])
      BY <1>3, SlotStays DEF Null
    <3> QED
      BY <3>1
  <2>2. \A u \in Threads : PendingAt(u, jj, s)' <=> PendingAt(u, jj, s)
    BY <1>3, <1>c, PendingAtStep
  <2> QED
    BY <1>0, <1>3, <2>1, <2>2 DEF Completed
<1> QED
  BY <1>1, <1>2, <1>3

\* A copy is counted by the thread that counts it, and stays counted.
LEMMA CountersStep ==
  ASSUME Inv, NEW t \in Threads, ThreadStep(t), NEW u \in Threads, NEW jj \in DOMAIN TableArray'
  PROVE  /\ jj \in DOMAIN TableArray =>
              /\ Counted(u, jj, u) \in Nat
              /\ Counted(u, jj, u)' =
                   IF CountCopy(t) /\ u = t /\ jj = frame[t].j
                     THEN Counted(u, jj, u) + 1 ELSE Counted(u, jj, u)
         /\ jj \notin DOMAIN TableArray => Counted(u, jj, u)' = 0
<1> TablesTyped /\ LocalsTyped /\ CallInv(u) /\ CallInv(t) /\ TablesOf(t)
  BY TablesStep DEF Inv, Typed, ThreadInv
<1>t. ASSUME jj \in DOMAIN TableArray
      PROVE  TableArray[jj].threadCopy[u] \in Nat /\ Counted(u, jj, u) \in Nat
  BY <1>t DEF TablesTyped, IsSubTable, Counted
<1>0. ~CountCopy(t) \/ pc[t] = "count"
  BY DEF CountCopy
<1>1. CASE /\ buffer'[u] = buffer[u] /\ ~CountCopy(t)
           /\ \A j2 \in DOMAIN TableArray :
                TableArray'[j2].threadCopy[u] = TableArray[j2].threadCopy[u]
  <2>1. CASE jj \in DOMAIN TableArray
    BY <1>1, <1>t, <2>1 DEF Counted
  <2>2. CASE jj \notin DOMAIN TableArray
    <3>1. TableArray'[jj].threadCopy[u] = 0
      BY <2>2 DEF TablesOf, Grows
    <3>2. buffer[u] # jj
      <4>1. jj # None
        BY DEF TablesOf, Grows, TablesTyped, None
      <4> QED
        BY <2>2, <4>1 DEF CallInv
    <3> QED
      BY <1>1, <2>2, <3>1, <3>2 DEF Counted
  <2> QED
    BY <2>1, <2>2
<1>2. CASE CountCopy(t)
  <2>1. TableArray' = TableArray /\ buffer' = [buffer EXCEPT ![t] = frame[t].j]
        /\ buffer[t] = None
    BY <1>2 DEF CountCopy, Drained
  <2>2. buffer'[t] = frame[t].j /\ \A v \in Threads : v # t => buffer'[v] = buffer[v]
    BY <2>1 DEF TablesTyped
  <2>3. jj \in DOMAIN TableArray /\ jj # None
    BY <2>1 DEF TablesTyped, None
  <2> QED
    BY <1>2, <1>t, <2>1, <2>2, <2>3 DEF Counted
<1>3. CASE Drain(t)
  <2>1. jj \in DOMAIN TableArray /\ buffer[t] # None /\ jj # None /\ ~CountCopy(t)
    BY <1>3, TablesDrain DEF Drain, CountCopy, Drained, TablesTyped, None
  <2>2. /\ buffer'[t] = None /\ (u # t => buffer'[u] = buffer[u])
        /\ TableArray'[jj].threadCopy[u] =
             TableArray[jj].threadCopy[u] + (IF u = t /\ jj = buffer[t] THEN 1 ELSE 0)
    BY <1>3, <2>1, TablesDrain
  <2> QED
    BY <1>t, <2>1, <2>2 DEF Counted
<1>4. CASE UNCHANGED <<TableArray, buffer>> /\ ~CountCopy(t)
  BY <1>1, <1>4
<1>5. CASE Marks(t) \/ Claims(t)
  BY <1>1, <1>5, TablesMark, TablesClaim DEF Marks, Claims, setPtr, ClaimSlot, CountCopy
<1>6. CASE addDrop(t)
  BY <1>1, <1>6, TablesAddDrop DEF addDrop, CountCopy
<1>7. CASE setPtr(t) \/ ClaimSlot(t)
  BY <1>4, <1>5, <1>7 DEF Marks, Claims, setPtr, ClaimSlot, CountCopy
<1>8. CASE CallInsert(t) \/ CallQuery(t) \/ InsertTable(t) \/ ReadStart(t) \/ lookup(t)
           \/ CallCopy(t) \/ SumCopies(t) \/ AdvanceStart(t)
  BY <1>4, <1>8 DEF CallInsert, CallQuery, InsertTable, ReadStart, lookup, CallCopy, SumCopies,
                    AdvanceStart, CountCopy, shared
<1>9. CASE RecheckSlot(t) \/ ReloadCur(t) \/ AdvanceCur(t) \/ QueryTable(t) \/ lookupQuery(t)
  BY <1>4, <1>9 DEF RecheckSlot, ReloadCur, AdvanceCur, QueryTable, lookupQuery, CountCopy, shared
<1> QED
  BY <1>2, <1>3, <1>6, <1>7, <1>8, <1>9 DEF ThreadStep, Step

\* The copies counted by each of the threads, of which one counts one more.
LEMMA TallyMore ==
  ASSUME NEW c, NEW d, \A u \in Threads : c[u] \in Nat, NEW t \in Threads,
         \A u \in Threads : d[u] = IF u = t THEN c[u] + 1 ELSE c[u],
         NEW S, S = UNION {{u} \X (1 .. c[u]) : u \in Threads},
         NEW T, T = UNION {{u} \X (1 .. d[u]) : u \in Threads}
  PROVE  \E x : x \notin S /\ T = S \cup {x}
<1>1. <<t, c[t] + 1>> \notin S
  OBVIOUS
<1>2. \A u \in Threads :
        d[u] \in Nat /\ \A n \in 1 .. d[u] : n \in 1 .. c[u] \/ (u = t /\ n = c[t] + 1)
  OBVIOUS
<1>3. \A u \in Threads : \A n \in 1 .. c[u] : n \in 1 .. d[u]
  OBVIOUS
<1>4. c[t] + 1 \in 1 .. d[t]
  OBVIOUS
<1>5. ASSUME NEW x \in T
      PROVE  x \in S \cup {<<t, c[t] + 1>>}
  <2>1. PICK u \in Threads : x \in {u} \X (1 .. d[u])
    OBVIOUS
  <2>2. PICK n \in 1 .. d[u] : x = <<u, n>>
    BY <2>1
  <2> QED
    BY <1>2, <2>2
<1>6. ASSUME NEW x \in S
      PROVE  x \in T
  <2>1. PICK u \in Threads : x \in {u} \X (1 .. c[u])
    OBVIOUS
  <2>2. PICK n \in 1 .. c[u] : x = <<u, n>>
    BY <2>1
  <2> QED
    BY <1>3, <2>2
<1>7. <<t, c[t] + 1>> \in T
  BY <1>4
<1> QED
  BY <1>1, <1>5, <1>6, <1>7

\* The slots of a subtable are finitely many.
LEMMA SlotsFinite ==
  ASSUME TablesTyped, NEW jj \in DOMAIN TableArray
  PROVE  /\ IsFiniteSet(Slots(jj)) /\ Cardinality(Slots(jj)) = TableArray[jj].TableSize
         /\ IsFiniteSet(Completed(jj)) /\ Cardinality(Completed(jj)) \in Nat
         /\ Cardinality(Completed(jj)) <= TableArray[jj].TableSize
         /\ Cardinality(Completed(jj)) = TableArray[jj].TableSize => Completed(jj) = Slots(jj)
<1>1. PICK m \in Nat \ {0} : m = TableArray[jj].TableSize
  BY DEF TablesTyped, IsSubTable
<1>2. IsFiniteSet(0 .. m - 1) /\ Cardinality(0 .. m - 1) = m
  <2>1. PICK a \in Int, b \in Int : a = 0 /\ b = m - 1
    OBVIOUS
  <2>2. IsFiniteSet(a .. b) /\ Cardinality(a .. b) = IF a > b THEN 0 ELSE b - a + 1
    BY FS_Interval
  <2> QED
    BY <2>1, <2>2
<1>3. Completed(jj) \subseteq 0 .. m - 1 /\ Slots(jj) = 0 .. m - 1
  BY <1>1 DEF Completed, Slots
<1>4. /\ IsFiniteSet(Completed(jj)) /\ Cardinality(Completed(jj)) <= m
      /\ Cardinality(Completed(jj)) = m => Completed(jj) = Slots(jj)
  BY <1>2, <1>3, FS_Subset
<1>5. Cardinality(Completed(jj)) \in Nat
  BY <1>4, FS_CardinalityType
<1> QED
  BY <1>1, <1>2, <1>3, <1>4, <1>5

\* The tally after a step: a copy that is counted is a copy that is complete.
LEMMA TallyStep ==
  ASSUME Inv, NEW t \in Threads, ThreadStep(t), NEW jj \in DOMAIN TableArray'
  PROVE  IsFiniteSet(Tally(jj))' /\ Cardinality(Tally(jj))' <= Cardinality(Completed(jj))'
<1> TablesTyped /\ LocalsTyped
  BY DEF Inv, Typed
<1>1. CASE jj \notin DOMAIN TableArray
  <2>1. \A u \in Threads : Counted(u, jj, u)' = 0
    BY <1>1, CountersStep
  <2>2. \A u \in Threads : {u} \X (1 .. 0) = {}
    OBVIOUS
  <2>3. Tally(jj)' = {}
    BY <2>1, <2>2 DEF Tally
  <2>4. \A s \in Slots(jj)' : At(jj, s)' = Null
    BY <1>1, TablesStep DEF TablesOf, Grows
  <2>5. Completed(jj)' = {}
    BY <2>4 DEF Completed, Null
  <2> QED
    BY <2>3, <2>5, FS_EmptySet
<1>2. CASE jj \in DOMAIN TableArray
  <2>0. /\ IsFiniteSet(Tally(jj)) /\ Cardinality(Tally(jj)) <= Cardinality(Completed(jj))
        /\ Cardinality(Tally(jj)) \in Nat
    BY <1>2, FS_CardinalityType DEF Inv, Copied
  <2>c. IsFiniteSet(Completed(jj)) /\ Cardinality(Completed(jj)) \in Nat
    BY <1>2, SlotsFinite
  <2>s. /\ Slots(jj)' = Slots(jj) /\ Completed(jj) \subseteq Slots(jj)
        /\ Completed(jj)' \subseteq Slots(jj)'
    <3>1. Slots(jj)' = Slots(jj)
      BY <1>2, TablesStep DEF TablesOf, Grows, Slots
    <3> QED
      BY <3>1 DEF Completed
  <2>1. CASE CountCopy(t) /\ jj = frame[t].j
    <3>1. PICK s \in Slots(jj) : s = Target(t)
      BY <2>1, ProbeInRange DEF CountCopy, ProbePoints, CopyPoints
    <3>2. Completed(jj)' = Completed(jj) \cup {s} /\ s \notin Completed(jj)
      BY <1>2, <2>1, <2>s, <3>1, CompletedStep
    <3>3. \E x : x \notin Tally(jj) /\ Tally(jj)' = Tally(jj) \cup {x}
      <4>1. PICK c : c = [u \in Threads |-> Counted(u, jj, u)]
        OBVIOUS
      <4>2. PICK d : d = [u \in Threads |-> Counted(u, jj, u)']
        OBVIOUS
      <4>3. \A u \in Threads : c[u] \in Nat /\ d[u] = IF u = t THEN c[u] + 1 ELSE c[u]
        BY <1>2, <2>1, <4>1, <4>2, CountersStep
      <4>4. Tally(jj) = UNION {{u} \X (1 .. c[u]) : u \in Threads}
        BY <4>1 DEF Tally
      <4>5. Tally(jj)' = UNION {{u} \X (1 .. d[u]) : u \in Threads}
        BY <4>2 DEF Tally
      <4> QED
        BY <4>3, <4>4, <4>5, TallyMore
    <3>4. PICK x : x \notin Tally(jj) /\ Tally(jj)' = Tally(jj) \cup {x}
      BY <3>3
    <3>5. /\ IsFiniteSet(Tally(jj) \cup {x})
          /\ Cardinality(Tally(jj) \cup {x}) = Cardinality(Tally(jj)) + 1
      BY <2>0, <3>4, FS_AddElement
    <3>6. Cardinality(Completed(jj) \cup {s}) = Cardinality(Completed(jj)) + 1
      BY <2>c, <3>2, FS_AddElement
    <3> QED
      BY <2>0, <2>c, <3>2, <3>4, <3>5, <3>6
  <2>2. CASE ~(CountCopy(t) /\ jj = frame[t].j)
    <3>1. Completed(jj)' = Completed(jj)
      BY <1>2, <2>2, <2>s, CompletedStep
    <3>2. \A u \in Threads : Counted(u, jj, u)' = Counted(u, jj, u)
      BY <1>2, <2>2, CountersStep
    <3>3. Tally(jj)' = Tally(jj)
      BY <3>2 DEF Tally
    <3> QED
      BY <2>0, <3>1, <3>3
  <2> QED
    BY <2>1, <2>2
<1> QED
  BY <1>1, <1>2

\* Marks, copies and counts after a step.
LEMMA CopiedStep ==
  ASSUME Inv, NEW t \in Threads, ThreadStep(t)
  PROVE  Copied'
<1> TablesTyped /\ LocalsTyped /\ FrameInv(t) /\ InOrder
  BY DEF Inv, Typed, ThreadInv
<1>t. /\ start \in Nat /\ start' \in Nat /\ start <= start' /\ start' <= start + 1
      /\ start < cur /\ cur \in Nat
  BY TablesStep DEF TablesOf, Grows, TablesTyped, InOrder
<1> SUFFICES ASSUME NEW jj \in DOMAIN TableArray'
             PROVE  /\ jj > start' => \A s \in Slots(jj)' : At(jj, s)'.bool = 0
                    /\ jj < start' => Completed(jj)' = Slots(jj)'
                    /\ \A s \in Completed(jj)' : ReachesFrom(At(jj, s).key, jj + 1, 0)'
  BY TallyStep DEF Copied
<1>j. jj \in Nat
  BY TablesStep DEF TablesOf, Grows, TablesTyped
<1>1. CASE jj \notin DOMAIN TableArray
  <2>1. cur <= jj /\ \A s \in Slots(jj)' : At(jj, s)' = Null
    BY <1>1, TablesStep DEF TablesOf, Grows
  <2>2. Completed(jj)' = {}
    BY <2>1 DEF Completed, Null
  <2>3. ~(jj < start')
    BY <1>t, <1>j, <2>1
  <2> QED
    BY <2>1, <2>2, <2>3 DEF Null
<1>2. CASE jj \in DOMAIN TableArray
  <2>s. /\ Slots(jj)' = Slots(jj) /\ Completed(jj) \subseteq Slots(jj)
        /\ Completed(jj)' \subseteq Slots(jj)'
    <3>1. Slots(jj)' = Slots(jj)
      BY <1>2, TablesStep DEF TablesOf, Grows, Slots
    <3> QED
      BY <3>1 DEF Completed
  <2>1. ASSUME jj > start', NEW s \in Slots(jj)
        PROVE  At(jj, s)'.bool = 0
    <3>1. jj > start
      BY <1>t, <1>j, <2>1
    <3>2. At(jj, s).bool = 0
      BY <1>2, <3>1 DEF Inv, Copied
    <3>3. ~(Marks(t) /\ jj = frame[t].j)
      <4>1. Marks(t) => frame[t].j <= start
        BY DEF Marks, setPtr, FrameInv, CopyPoints
      <4> QED
        BY <1>t, <1>j, <3>1, <4>1
    <3> QED
      BY <1>2, <3>2, <3>3, SlotStays
  <2>2. ASSUME jj < start'
        PROVE  Completed(jj)' = Slots(jj)'
    <3>1. Completed(jj) = Slots(jj)
      <4>1. CASE jj < start
        BY <1>2, <4>1 DEF Inv, Copied
      <4>2. CASE ~(jj < start)
        BY <1>t, <1>j, <2>2, <4>2, StartStep
      <4> QED
        BY <4>1, <4>2
    <3> QED
      BY <1>2, <2>s, <3>1, CompletedStep
  <2>3. ASSUME NEW s \in Completed(jj)'
        PROVE  ReachesFrom(At(jj, s).key, jj + 1, 0)'
    <3>0. s \in Slots(jj) /\ 0 \in Attempts
      BY <2>s, HashtableLazyAssumption DEF Attempts
    <3>1. At(jj, s).bool = 1 /\ ReachesFrom(At(jj, s).key, jj + 1, 0)
      <4>1. CASE s \in Completed(jj)
        BY <1>2, <4>1 DEF Inv, Copied, Completed
      <4>2. CASE CountCopy(t) /\ jj = frame[t].j /\ s = Target(t)
        <5>1. pc[t] = "count" /\ pc[t] \in ProbePoints
          BY <4>2 DEF CountCopy, ProbePoints, CopyPoints
        <5>2. Probed(t).bool = 1 /\ ReachesFrom(Probed(t).key, frame[t].j + 1, 0)
          BY <5>1 DEF FrameInv
        <5> QED
          BY <4>2, <5>1, <5>2, ProbeInRange
      <4> QED
        BY <1>2, <3>0, <4>1, <4>2, CompletedStep
    <3>2. PICK k \in Keys : k = At(jj, s).key
      BY <1>2, <3>0, <3>1, AtTyped
    <3>3. At(jj, s)'.key = k
      BY <1>2, <3>0, <3>1, <3>2, SlotStays
    <3>4. PICK lo \in Nat : lo = jj + 1
      BY <1>j
    <3>5. ReachesFrom(k, lo, 0)'
      BY <3>0, <3>1, <3>2, <3>4, ReachesStays
    <3> QED
      BY <3>3, <3>4, <3>5
  <2> QED
    BY <2>s, <2>1, <2>2, <2>3
<1> QED
  BY <1>1, <1>2

\* The sum over what a thread sees is the size only when every slot has been copied.
LEMMA SumIsSize ==
  ASSUME Inv, NEW t \in Threads, NEW jj \in DOMAIN TableArray,
         sumArr(t, jj) = TableArray[jj].TableSize
  PROVE  Completed(jj) = Slots(jj)
<1> TablesTyped
  BY DEF Inv, Typed
<1>1. IsFiniteSet(Tally(jj)) /\ Cardinality(Tally(jj)) <= Cardinality(Completed(jj))
  BY DEF Inv, Copied
<1>2. \A u \in Threads : TableArray[jj].threadCopy[u] \in Nat
  BY DEF TablesTyped, IsSubTable
<1>3. \A u \in Threads : /\ Counted(t, jj, u) \in Nat /\ Counted(u, jj, u) \in Nat
                         /\ Counted(t, jj, u) <= Counted(u, jj, u)
  BY <1>2 DEF Counted
<1>4. \A u \in Threads : {u} \X (1 .. Counted(t, jj, u)) \subseteq {u} \X (1 .. Counted(u, jj, u))
  BY <1>3
<1>5. PICK S : S = UNION {{u} \X (1 .. Counted(t, jj, u)) : u \in Threads}
  OBVIOUS
<1>6. S \subseteq Tally(jj)
  BY <1>4, <1>5 DEF Tally
<1>7. IsFiniteSet(S) /\ Cardinality(S) <= Cardinality(Tally(jj))
  BY <1>1, <1>6, FS_Subset
<1>8. Cardinality(S) = TableArray[jj].TableSize
  BY <1>5 DEF sumArr
<1>9. Cardinality(Tally(jj)) \in Nat /\ TableArray[jj].TableSize \in Nat
  BY <1>1, FS_CardinalityType DEF TablesTyped, IsSubTable
<1> QED
  BY <1>1, <1>7, <1>8, <1>9, SlotsFinite
-----------------------------------------------------------------------------
(* The threads                                                             *)

\* A count waits in the buffer of a subtable that there is.
LEMMA BufferStep ==
  ASSUME Inv, NEW t \in Threads, ThreadStep(t), NEW u \in Threads
  PROVE  buffer'[u] # None => buffer'[u] \in DOMAIN TableArray'
<1> TablesTyped /\ CallInv(u)
  BY DEF Inv, Typed, ThreadInv
<1>0. DOMAIN TableArray \subseteq DOMAIN TableArray'
  BY TablesStep DEF TablesOf, Grows
<1>1. CASE buffer' = buffer
  BY <1>0, <1>1 DEF CallInv
<1>2. CASE CountCopy(t)
  <2>1. frame[t].j \in DOMAIN TableArray /\ buffer' = [buffer EXCEPT ![t] = frame[t].j]
    BY <1>2, ProbeInRange DEF CountCopy, ProbePoints, CopyPoints
  <2> QED
    BY <1>0, <2>1 DEF CallInv, TablesTyped
<1>3. CASE Drain(t)
  <2>1. buffer' = [buffer EXCEPT ![t] = None]
    BY <1>3 DEF Drain
  <2> QED
    BY <1>0, <2>1 DEF CallInv, TablesTyped
<1>4. CASE ~CountCopy(t) /\ ~Drain(t)
  <2>1. buffer' = buffer
    BY <1>4 DEF ThreadStep, Step, shared, CallInsert, CallQuery, InsertTable, ReadStart, lookup,
                setPtr, CallCopy, SumCopies, AdvanceStart, ClaimSlot, RecheckSlot, ReloadCur,
                addDrop, AdvanceCur, QueryTable, lookupQuery
  <2> QED
    BY <1>1, <2>1
<1> QED
  BY <1>2, <1>3, <1>4

\* What an insert has passed when it is at p with frame f, from subtable lo on.
PassedAt(p, f, lo) ==
  p \in InsertPoints => PassedTo(f.ent, lo, IF p = "reload" THEN f.j + 1 ELSE f.j, f.i)

\* What else its point and its frame say, while lo is the origin.
FrameAt(p, f) ==
  /\ p \in ProbePoints => f.j < cur
  /\ p = "docopy" => f.LocalCur <= cur
  /\ p \in {"table", "docopy", "reload", "grow", "advance", "qtable"} => f.i = 0
  /\ p = "table" /\ ~(f.j < cur) => f.j = f.LocalCur
  /\ p \in {"table", "grow", "advance"} => f.j <= cur
  /\ p \in {"idle", "table", "docopy", "grow", "advance"} \cup QueryPoints => ~f.doCopy
  /\ p \in {"grow", "advance"} => f.j = f.LocalCur /\ 1 <= f.j
  /\ p = "advance" => f.LocalCur \in DOMAIN TableArray
  /\ f.doCopy => f.j <= start /\ f.j + 1 < cur
  /\ p \in CopyPoints => f.doCopy /\ Slot(f.ent, f.i, f.j).key \notin {NULL, f.ent}
  /\ p = "recheck" => Slot(f.ent, f.i, f.j).key # NULL
  /\ p \in {"copy", "count"} => Slot(f.ent, f.i, f.j).bool = 1 /\ f.j = start
  /\ p \in {"count", "sum", "start"} => f.exStart = f.j
  /\ p = "count" => ReachesFrom(Slot(f.ent, f.i, f.j).key, f.j + 1, 0)
  /\ p = "start" => Completed(f.j) = Slots(f.j)

\* The two together.
LEMMA FrameIs ==
  ASSUME NEW t
  PROVE  FrameInv(t) <=> PassedAt(pc[t], frame[t], Origin(t)) /\ FrameAt(pc[t], frame[t])
BY DEF FrameInv, PassedAt, FrameAt, Probed

\* After a step as well.
LEMMA FrameWillBe ==
  ASSUME NEW t, NEW p, NEW f, NEW lo, pc'[t] = p, frame'[t] = f, Origin(t)' = lo,
         PassedAt(p, f, lo)', FrameAt(p, f)'
  PROVE  FrameInv(t)'
BY DEF FrameInv, PassedAt, FrameAt, Probed

\* What a thread has passed stays passed, from a later origin too.
LEMMA PassedAtStays ==
  ASSUME Inv, NEW t \in Threads, ThreadStep(t), NEW p, NEW f \in Frames,
         NEW lo \in Nat, NEW hi \in Nat, lo <= hi, PassedAt(p, f, lo),
         p \in InsertPoints => /\ f.ent \in Keys
                               /\ f.j < cur \/ (f.j = cur /\ f.i = 0 /\ p # "reload")
                               /\ p = "reload" => f.i = 0
  PROVE  PassedAt(p, f, hi)'
<1> TablesTyped
  BY DEF Inv, Typed
<1> SUFFICES ASSUME p \in InsertPoints
             PROVE  PassedTo(f.ent, hi, IF p = "reload" THEN f.j + 1 ELSE f.j, f.i)'
  BY DEF PassedAt
<1>1. PICK k \in Keys, n \in Attempts, j0 \in Nat : k = f.ent /\ n = f.i /\ j0 = f.j
  BY FrameTyped
<1>2. PICK jj \in Nat : jj = IF p = "reload" THEN j0 + 1 ELSE j0
  OBVIOUS
<1>3. PassedTo(k, lo, jj, n)
  BY <1>1, <1>2 DEF PassedAt
<1>4. PassedTo(k, hi, jj, n)
  BY <1>3, PassedFrom
<1>5. jj < cur \/ (jj = cur /\ n = 0)
  BY <1>1, <1>2 DEF TablesTyped
<1>6. PassedTo(k, hi, jj, n)'
  BY <1>4, <1>5, PassedStays
<1> QED
  BY <1>1, <1>2, <1>6

\* What a point and a frame say stays true.
LEMMA FrameAtStays ==
  ASSUME Inv, NEW t \in Threads, ThreadStep(t), NEW p \in Points, NEW f \in Frames, FrameAt(p, f),
         p # "idle" => f.ent \in Keys, p \in {"copy", "count"} => start' = start
  PROVE  FrameAt(p, f)'
<1> TablesTyped /\ InOrder
  BY DEF Inv, Typed
<1>t. /\ start \in Nat /\ start' \in Nat /\ start <= start' /\ cur \in Nat /\ cur' \in Nat
      /\ cur <= cur' /\ f.j \in Nat /\ f.LocalCur \in Nat /\ f.i \in Attempts
      /\ DOMAIN TableArray \subseteq DOMAIN TableArray'
  BY FrameTyped, TablesStep DEF TablesOf, Grows, TablesTyped
<1>1. /\ p \in ProbePoints => f.j < cur'
      /\ p = "docopy" => f.LocalCur <= cur'
      /\ p = "table" /\ ~(f.j < cur') => f.j = f.LocalCur
      /\ p \in {"table", "grow", "advance"} => f.j <= cur'
      /\ p = "advance" => f.LocalCur \in DOMAIN TableArray'
      /\ f.doCopy => f.j <= start' /\ f.j + 1 < cur'
  BY <1>t DEF FrameAt
<1>2. ASSUME p \in CopyPoints \cup {"recheck"}
      PROVE  /\ p \in CopyPoints => Slot(f.ent, f.i, f.j)'.key \notin {NULL, f.ent}
             /\ p = "recheck" => Slot(f.ent, f.i, f.j)'.key # NULL
             /\ p \in {"copy", "count"} => Slot(f.ent, f.i, f.j)'.bool = 1
             /\ p = "count" => ReachesFrom(Slot(f.ent, f.i, f.j).key, f.j + 1, 0)'
             /\ p = "start" => Completed(f.j)' = Slots(f.j)'
  <2>1. p \in ProbePoints /\ p # "idle"
    BY <1>2 DEF ProbePoints, CopyPoints
  <2>2. f.j < cur
    BY <2>1 DEF FrameAt
  <2>3. PICK k \in Keys, n \in Attempts, jj \in DOMAIN TableArray :
          k = f.ent /\ n = f.i /\ jj = f.j
    BY <1>t, <2>1, <2>2 DEF InOrder
  <2>4. Slot(k, n, jj).key # NULL
    BY <1>2, <2>3 DEF FrameAt
  <2>5. Slot(k, n, jj)'.key = Slot(k, n, jj).key
        /\ (Slot(k, n, jj).bool = 1 => Slot(k, n, jj)' = Slot(k, n, jj))
    BY <2>4, ProbeStays
  <2>6. Slot(f.ent, f.i, f.j)' = Slot(k, n, jj)'
    BY <2>3
  <2>7. ASSUME p = "count"
        PROVE  ReachesFrom(Slot(f.ent, f.i, f.j).key, f.j + 1, 0)'
    <3>1. PICK k2 \in Keys : k2 = Slot(k, n, jj).key
      BY <2>4, SlotTyped
    <3>2. PICK lo \in Nat : lo = f.j + 1
      BY <1>t
    <3>3. ReachesFrom(k2, lo, 0) /\ 0 \in Attempts
      BY <2>3, <2>7, <3>1, <3>2, HashtableLazyAssumption DEF FrameAt, Attempts
    <3>4. ReachesFrom(k2, lo, 0)'
      BY <3>3, ReachesStays
    <3> QED
      BY <2>5, <2>6, <3>1, <3>2, <3>4
  <2>8. ASSUME p = "start"
        PROVE  Completed(f.j)' = Slots(f.j)'
    <3>1. Completed(jj) = Slots(jj)
      BY <2>3, <2>8 DEF FrameAt
    <3>2. Slots(jj)' = Slots(jj)
      BY TablesStep DEF TablesOf, Grows, Slots
    <3>3. Completed(jj)' = Slots(jj)'
      BY <3>1, <3>2, CompletedStep DEF Completed
    <3> QED
      BY <2>3, <3>3
  <2> QED
    BY <2>3, <2>5, <2>6, <2>7, <2>8 DEF FrameAt
<1>3. /\ p \in {"table", "docopy", "reload", "grow", "advance", "qtable"} => f.i = 0
      /\ p \in {"idle", "table", "docopy", "grow", "advance"} \cup QueryPoints => ~f.doCopy
      /\ p \in {"grow", "advance"} => f.j = f.LocalCur /\ 1 <= f.j
      /\ p \in CopyPoints => f.doCopy
      /\ p \in {"copy", "count"} => f.j = start'
      /\ p \in {"count", "sum", "start"} => f.exStart = f.j
  BY DEF FrameAt
<1>4. {"copy", "count", "start"} \subseteq CopyPoints
  BY DEF CopyPoints
<1> QED
  BY <1>1, <1>2, <1>3, <1>4 DEF FrameAt

\* The insert that a copy has interrupted waits where it was.
LEMMA StackStays ==
  ASSUME Inv, NEW t \in Threads, ThreadStep(t), NEW u \in Threads, stack'[u] = stack[u],
         key'[u] = key[u], NEW p, p = pc'[u], NEW f \in Frames, f = frame'[u],
         stack[u] # <<>> => /\ f.ent = frame[u].ent /\ frame[u].j <= f.j /\ ~f.doCopy
                            /\ p \in InsertPoints \ CopyPoints
  PROVE  StackInv(u)'
<1> TablesTyped /\ LocalsTyped /\ StackInv(u) /\ CallInv(u) /\ InOrder
  BY DEF Inv, Typed, ThreadInv
<1> SUFFICES ASSUME stack[u] # <<>>
             PROVE  StackInv(u)'
  BY DEF StackInv
<1>1. PICK g \in Frames : g = Head(stack[u])
  BY DEF LocalsTyped
<1>2. /\ g.j < frame[u].j /\ g.ent = key[u] /\ g.doCopy /\ g.exStart = g.j /\ g.j = start
      /\ g.j + 1 < cur /\ PassedTo(g.ent, start, g.j, g.i)
      /\ Slot(g.ent, g.i, g.j) = [key |-> frame[u].ent, bool |-> 1]
      /\ frame[u].ent # g.ent
  BY <1>1 DEF StackInv
<1>3. start' = start
  BY StartStays DEF IsPending
<1>4. PICK k \in Keys, n \in Attempts, jj \in DOMAIN TableArray : k = g.ent /\ n = g.i /\ jj = g.j
  BY <1>2, FrameTyped DEF CallInv, InOrder, TablesTyped
<1>5. jj \in Nat /\ jj < cur /\ cur <= cur' /\ cur \in Nat /\ cur' \in Nat
  BY <1>2, <1>4, TablesStep DEF TablesOf, Grows, TablesTyped
<1>6. PassedTo(k, jj, jj, n)'
  BY <1>2, <1>4, <1>5, PassedStays
<1>7. Slot(k, n, jj)' = [key |-> frame[u].ent, bool |-> 1]
  <2>1. Slot(k, n, jj) = [key |-> frame[u].ent, bool |-> 1]
    BY <1>2, <1>4
  <2> QED
    BY <2>1, ProbeStays
<1>8. /\ g = Head(stack'[u]) /\ g.j < f.j /\ g.ent = key'[u] /\ g.j = start'
      /\ g.j + 1 < cur' /\ f.ent # g.ent
  <2>1. frame[u].j \in Nat /\ f.j \in Nat
    BY FrameTyped DEF LocalsTyped
  <2> QED
    BY <1>1, <1>2, <1>3, <1>4, <1>5, <2>1
<1>9. PassedTo(g.ent, start, g.j, g.i)'
  <2>1. jj = start'
    BY <1>2, <1>3, <1>4
  <2> QED
    BY <1>4, <1>6, <2>1
<1>10. Slot(g.ent, g.i, g.j)' = [key |-> f.ent, bool |-> 1]
  BY <1>4, <1>7
<1> QED
  BY <1>2, <1>3, <1>8, <1>9, <1>10 DEF StackInv

\* The origin moves with start, unless it is above the slot that is copied.
LEMMA OriginStep ==
  ASSUME Inv, NEW t \in Threads, ThreadStep(t), NEW u \in Threads, stack'[u] = stack[u]
  PROVE  /\ Origin(u) \in Nat /\ Origin(u)' \in Nat /\ Origin(u) <= Origin(u)'
         /\ Origin(u)' \in {Origin(u), start'}
<1> TablesTyped /\ LocalsTyped
  BY DEF Inv, Typed
<1>t. start \in Nat /\ start' \in Nat /\ start <= start'
  BY TablesStep DEF TablesOf, Grows, TablesTyped
<1>1. CASE stack[u] = <<>>
  BY <1>t, <1>1 DEF Origin
<1>2. CASE stack[u] # <<>>
  <2>1. PICK g \in Frames : g = Head(stack[u])
    BY <1>2 DEF LocalsTyped
  <2>2. PICK lo \in Nat : lo = g.j + 1
    BY FrameTyped
  <2>3. Origin(u) = lo /\ Origin(u)' = lo
    BY <1>2, <2>1, <2>2 DEF Origin
  <2> QED
    BY <2>3
<1> QED
  BY <1>1, <1>2

\* A step of t that leaves u's locals alone leaves u's invariant true.
LEMMA ThreadStays ==
  ASSUME Inv, NEW t \in Threads, ThreadStep(t), NEW u \in Threads, SameLocals(u)
  PROVE  ThreadInv(u)'
<1> TablesTyped /\ LocalsTyped /\ ThreadInv(u) /\ CallInv(u) /\ StackInv(u) /\ FrameInv(u)
  BY DEF Inv, Typed, ThreadInv
<1>1. CallInv(u)'
  BY BufferStep DEF CallInv, SameLocals
<1>2. PICK p \in Points, f \in Frames : p = pc[u] /\ f = frame[u]
  BY DEF LocalsTyped
<1>3. p = pc'[u] /\ f = frame'[u] /\ stack'[u] = stack[u] /\ key'[u] = key[u]
  BY <1>2 DEF SameLocals
<1>4. StackInv(u)'
  <2>1. f.j \in Nat
    BY FrameTyped
  <2>2. stack[u] # <<>> => /\ f.ent = frame[u].ent /\ frame[u].j <= f.j /\ ~f.doCopy
                           /\ p \in InsertPoints \ CopyPoints
    BY <1>2, <2>1 DEF StackInv
  <2> QED
    BY <1>3, <2>2, StackStays
<1>5. PICK lo \in Nat, hi \in Nat : lo = Origin(u) /\ hi = Origin(u)' /\ lo <= hi
  BY <1>3, OriginStep
<1>6. PassedAt(p, f, lo) /\ FrameAt(p, f)
  BY <1>2, <1>5, FrameIs
<1>7. p # "idle" => f.ent \in Keys
  BY <1>2 DEF CallInv
<1>8. PassedAt(p, f, hi)'
  <2>1. /\ f.j \in Nat /\ cur \in Nat /\ "idle" \notin InsertPoints
        /\ InsertPoints \subseteq ProbePoints \cup {"table", "grow", "advance"}
    BY FrameTyped DEF TablesTyped, InsertPoints, ProbePoints, CopyPoints
  <2>2. p \in InsertPoints => /\ f.j < cur \/ (f.j = cur /\ f.i = 0 /\ p # "reload")
                              /\ p = "reload" => f.i = 0
    BY <1>6, <2>1 DEF FrameAt, ProbePoints
  <2> QED
    BY <1>5, <1>6, <1>7, <2>1, <2>2, PassedAtStays
<1>9. FrameAt(p, f)'
  <2>1. p \in {"copy", "count"} => start' = start
    BY <1>2, StartStays DEF IsPending
  <2> QED
    BY <1>6, <1>7, <2>1, FrameAtStays
<1>10. FrameInv(u)'
  BY <1>3, <1>5, <1>8, <1>9, FrameWillBe
<1> QED
  BY <1>1, <1>4, <1>10 DEF ThreadInv

\* A step of an insertTable that stays in it, at point p with frame f.
LEMMA WithinStep ==
  ASSUME Inv, NEW t \in Threads, ThreadStep(t), UNCHANGED call, pc[t] \in InsertPoints,
         NEW p \in InsertPoints, p = pc'[t], NEW f \in Frames, f = frame'[t],
         f.ent = frame[t].ent, NEW lo \in Nat, lo = Origin(t), PassedAt(p, f, lo),
         f.j < cur \/ (f.j = cur /\ f.i = 0 /\ p # "reload"), p = "reload" => f.i = 0,
         stack[t] # <<>> => frame[t].j <= f.j /\ ~f.doCopy /\ p \notin CopyPoints,
         FrameAt(p, f)'
  PROVE  ThreadInv(t)'
<1> CallInv(t)
  BY DEF Inv, ThreadInv
<1>1. /\ stack'[t] = stack[t] /\ key'[t] = key[t] /\ op'[t] = op[t]
      /\ pc[t] # "idle" /\ p # "idle" /\ p \notin QueryPoints
  BY DEF call, InsertPoints, QueryPoints, CopyPoints
<1>2. CallInv(t)'
  BY <1>1, BufferStep DEF CallInv
<1>3. StackInv(t)'
  BY <1>1, StackStays
<1>4. PICK hi \in Nat : hi = Origin(t)' /\ lo <= hi
  BY <1>1, OriginStep
<1>5. PassedAt(p, f, hi)'
  BY <1>1, <1>4, PassedAtStays DEF CallInv
<1>6. FrameInv(t)'
  BY <1>4, <1>5, FrameWillBe
<1> QED
  BY <1>2, <1>3, <1>6 DEF ThreadInv

\* The next probe of an insertTable.
LEMMA NextWithin ==
  ASSUME Inv, NEW t \in Threads, ThreadStep(t),
         pc[t] \in {"lookup", "setPtr", "sum", "start", "recheck"},
         NextAttempt(t, "lookup", "reload", frame[t].j),
         Probed(t).key \notin {NULL, frame[t].ent}
  PROVE  ThreadInv(t)'
<1> TablesTyped /\ LocalsTyped /\ StackInv(t) /\ FrameInv(t) /\ CallInv(t)
  BY DEF Inv, Typed, ThreadInv
<1>0. pc[t] \in ProbePoints /\ pc[t] \in InsertPoints /\ pc[t] # "reload" /\ pc[t] # "idle"
  BY DEF ProbePoints, InsertPoints, CopyPoints
<1>1. PICK k \in Keys, n \in Attempts, jj \in DOMAIN TableArray :
        k = frame[t].ent /\ n = frame[t].i /\ jj = frame[t].j
  BY <1>0, ProbeInRange
<1>2. jj \in Nat /\ jj < cur /\ cur \in Nat /\ HashAttempts \in Nat
  BY <1>0, <1>1, ProbeInRange, HashtableLazyAssumption DEF TablesTyped
<1>3. PICK p \in Points, f \in Frames : p = pc'[t] /\ f = frame'[t]
  BY LocalsStep DEF LocalsTyped
<1>4. /\ UNCHANGED call /\ f.ent = k /\ f.doCopy = frame[t].doCopy
      /\ IF n + 1 < HashAttempts
           THEN p = "lookup" /\ f.i = n + 1 /\ f.j = jj
           ELSE p = "reload" /\ n = HashAttempts - 1 /\ f.i = 0 /\ f.j = jj
  <2>1. "lookup" \in Points /\ "reload" \in Points /\ frame[t].j \in Nat
    BY <1>1, <1>2 DEF Points
  <2> QED
    BY <1>1, <1>2, <1>3, <2>1, NextEffect
<1>5. PICK lo \in Nat : lo = Origin(t)
  BY OriginStep, <1>4 DEF call
<1>6. PassedTo(k, lo, jj, n)
  BY <1>0, <1>1, <1>5 DEF FrameInv
<1>7. Slot(k, n, jj).key \notin {NULL, k}
  BY <1>1 DEF Probed
<1>8. PassedTo(k, lo, jj, n + 1) /\ (n = HashAttempts - 1 => PassedTo(k, lo, jj + 1, 0))
  BY <1>2, <1>6, <1>7, PassedNext
<1>9. PassedAt(p, f, lo)
  BY <1>4, <1>8 DEF PassedAt
<1>10. FrameAt(p, f)
  <2>1. p \in {"lookup", "reload"}
    BY <1>4
  <2>2. frame[t].doCopy => f.j <= start /\ f.j + 1 < cur
    BY <1>1, <1>4 DEF FrameInv
  <2> QED
    BY <1>2, <1>4, <2>1, <2>2 DEF FrameAt, ProbePoints, CopyPoints, QueryPoints
<1>11. p \in InsertPoints /\ p \notin CopyPoints /\ p \notin {"copy", "count", "idle"}
       /\ f.j <= jj /\ jj <= f.j
  BY <1>2, <1>4 DEF InsertPoints, CopyPoints
<1>12. FrameAt(p, f)'
  BY <1>4, <1>10, <1>11, FrameAtStays
<1>13. /\ f.j < cur \/ (f.j = cur /\ f.i = 0 /\ p # "reload")
       /\ p = "reload" => f.i = 0
       /\ stack[t] # <<>> => frame[t].j <= f.j /\ ~f.doCopy /\ p \notin CopyPoints
  BY <1>1, <1>2, <1>4, <1>11 DEF StackInv
<1> QED
  BY <1>0, <1>1, <1>3, <1>4, <1>5, <1>9, <1>11, <1>12, <1>13, WithinStep

\* The return to the harness, or to lookup, when the copy is where it is found.
LEMMA ReturnStep ==
  ASSUME Inv, NEW t \in Threads, ThreadStep(t), NEW r \in {0, 1}, Return(t, r),
         NEW k, k = frame[t].ent, NEW lo \in Nat, lo = Origin(t),
         stack[t] # <<>> => ReachesFrom(k, lo, 0)'
  PROVE  ThreadInv(t)'
<1> TablesTyped /\ LocalsTyped /\ StackInv(t) /\ FrameInv(t) /\ CallInv(t) /\ InOrder
  BY DEF Inv, Typed, ThreadInv
<1>t. /\ start \in Nat /\ start' \in Nat /\ cur \in Nat /\ cur' \in Nat /\ cur <= cur'
      /\ DOMAIN TableArray \subseteq Nat
  BY TablesStep DEF TablesOf, Grows, TablesTyped
<1>1. CASE stack[t] = <<>>
  <2>1. /\ stack'[t] = <<>> /\ pc'[t] = "idle" /\ op'[t] = "none" /\ frame'[t] = NoFrame
    BY <1>1, ReturnEffect
  <2>2. CallInv(t)'
    BY <2>1, BufferStep DEF CallInv, InsertPoints, QueryPoints, CopyPoints
  <2>3. StackInv(t)'
    BY <2>1 DEF StackInv
  <2>4. PICK hi \in Nat : hi = Origin(t)'
    BY <1>t, <2>1 DEF Origin
  <2>5. PassedAt("idle", NoFrame, hi)' /\ FrameAt("idle", NoFrame)'
    BY NewFrames DEF PassedAt, FrameAt, InsertPoints, ProbePoints, CopyPoints, QueryPoints
  <2>6. FrameInv(t)'
    BY <2>1, <2>4, <2>5, FrameWillBe
  <2> QED
    BY <2>2, <2>3, <2>6 DEF ThreadInv
<1>2. CASE stack[t] # <<>>
  <2>1. PICK g \in Frames : g = Head(stack[t])
    BY <1>2 DEF LocalsTyped
  <2>2. /\ g.ent = key[t] /\ g.doCopy /\ g.exStart = g.j /\ g.j = start
        /\ g.j + 1 < cur /\ PassedTo(g.ent, start, g.j, g.i)
        /\ Slot(g.ent, g.i, g.j) = [key |-> k, bool |-> 1] /\ k # g.ent
        /\ pc[t] \in InsertPoints
    BY <1>2, <2>1 DEF StackInv
  <2>3. /\ stack'[t] = <<>> /\ pc'[t] = "count" /\ op'[t] = op[t] /\ key'[t] = key[t]
        /\ frame'[t] = g
    BY <1>2, <2>1, ReturnEffect
  <2>4. start' = start
    BY <1>2, StartStays DEF IsPending
  <2>5. pc[t] # "idle" /\ key[t] \in Keys /\ k \in Keys /\ k # NULL /\ op[t] = "insert"
    BY <2>2, HashtableLazyAssumption DEF CallInv, InsertPoints, CopyPoints
  <2>6. CallInv(t)'
    BY <2>2, <2>3, <2>5, BufferStep DEF CallInv, InsertPoints, QueryPoints, CopyPoints
  <2>7. StackInv(t)'
    BY <2>3 DEF StackInv
  <2>8. PICK kg \in Keys, n \in Attempts, jj \in DOMAIN TableArray :
          kg = g.ent /\ n = g.i /\ jj = g.j
    BY <1>t, <2>2, <2>5, FrameTyped DEF InOrder
  <2>9. Slot(kg, n, jj)' = [key |-> k, bool |-> 1]
    <3>1. Slot(kg, n, jj) = [key |-> k, bool |-> 1]
      BY <2>2, <2>8
    <3> QED
      BY <3>1, ProbeStays
  <2>10. lo = jj + 1
    BY <1>2, <2>1, <2>8 DEF Origin
  <2>11. FrameAt("count", g)'
    <3>1. g.j < cur' /\ g.j <= start' /\ g.j + 1 < cur' /\ g.j = start'
      BY <1>t, <2>2, <2>4, <2>8
    <3>2. Slot(g.ent, g.i, g.j)'.key = k /\ Slot(g.ent, g.i, g.j)'.bool = 1
      BY <2>8, <2>9
    <3>3. ReachesFrom(Slot(g.ent, g.i, g.j).key, g.j + 1, 0)'
      BY <1>2, <2>8, <2>10, <3>2
    <3> QED
      BY <2>2, <2>5, <3>1, <3>2, <3>3 DEF FrameAt, ProbePoints, CopyPoints, QueryPoints
  <2>12. PICK hi \in Nat : hi = start
    BY <1>t
  <2>13. PassedAt("count", g, hi)'
    <3>1. PassedAt("count", g, hi)
      BY <2>2, <2>12 DEF PassedAt
    <3>2. g.j < cur /\ g.ent \in Keys /\ hi <= hi
      BY <1>t, <2>2, <2>5, <2>8, <2>12
    <3>3. PICK p : p = "count"
      OBVIOUS
    <3>4. PassedAt(p, g, hi)'
      BY <3>1, <3>2, <3>3, PassedAtStays
    <3> QED
      BY <3>3, <3>4
  <2>14. Origin(t)' = hi
    BY <2>3, <2>4, <2>12 DEF Origin
  <2>15. FrameInv(t)'
    BY <2>3, <2>11, <2>13, <2>14, FrameWillBe
  <2> QED
    BY <2>6, <2>7, <2>15 DEF ThreadInv
<1> QED
  BY <1>1, <1>2

\* The steps, one after the other.  A call begins at start.
LEMMA CallThread ==
  ASSUME Inv, NEW t \in Threads, ThreadStep(t), CallInsert(t) \/ CallQuery(t)
  PROVE  ThreadInv(t)'
<1> TablesTyped /\ LocalsTyped /\ InOrder
  BY DEF Inv, Typed
<1>1. /\ LocalsTyped' /\ stack'[t] = <<>> /\ UNCHANGED shared /\ stack[t] = <<>>
      /\ \/ pc'[t] = "table" /\ op' = [op EXCEPT ![t] = "insert"]
         \/ pc'[t] = "qtable" /\ op' = [op EXCEPT ![t] = "query"]
  BY CallEffect
<1>2. PICK k \in Keys : key' = [key EXCEPT ![t] = k] /\ frame'[t] = NewFrame(k, start)
  BY CallEffect
<1>3. PICK lo \in Nat : lo = start
  BY DEF TablesTyped
<1>4. PICK f \in Frames : f = NewFrame(k, lo)
  BY NewFrames
<1>5. f.ent = k /\ f.j = lo /\ f.i = 0 /\ ~f.doCopy /\ f.LocalCur = 0
  BY <1>3, <1>4, NewFrames
<1>6. /\ start' = lo /\ cur' = cur /\ lo < cur /\ cur \in Nat /\ frame'[t] = f
      /\ key'[t] = k /\ op'[t] \in {"insert", "query"}
      /\ pc'[t] = "table" => op'[t] = "insert"
      /\ pc'[t] = "qtable" => op'[t] = "query"
      /\ pc'[t] \in {"table", "qtable"}
  BY <1>1, <1>2, <1>3, <1>4 DEF shared, InOrder, TablesTyped, LocalsTyped
<1>7. CallInv(t)'
  BY <1>1, <1>5, <1>6, BufferStep DEF CallInv, InsertPoints, QueryPoints, CopyPoints
<1>8. StackInv(t)'
  BY <1>1 DEF StackInv
<1>9. PICK p : p = pc'[t]
  OBVIOUS
<1>10. PassedAt(p, f, lo)'
  <2>1. PassedTo(k, lo, lo, 0)
    BY PassedFrom
  <2>2. PassedAt(p, f, lo)
    BY <1>5, <1>6, <1>9, <2>1 DEF PassedAt
  <2>3. p # "reload" /\ lo <= lo /\ f.j < cur /\ f.ent \in Keys
    BY <1>5, <1>6, <1>9
  <2> QED
    BY <2>2, <2>3, PassedAtStays
<1>11. FrameAt(p, f)'
  BY <1>5, <1>6, <1>9 DEF FrameAt, ProbePoints, CopyPoints, QueryPoints
<1>12. Origin(t)' = lo
  BY <1>1, <1>6 DEF Origin
<1>13. FrameInv(t)'
  BY <1>6, <1>9, <1>10, <1>11, <1>12, FrameWillBe
<1> QED
  BY <1>7, <1>8, <1>13 DEF ThreadInv

\* A step of an insertTable that leaves the memory alone.
LEMMA QuietStep ==
  ASSUME Inv, NEW t \in Threads, ThreadStep(t), UNCHANGED call, start' = start,
         pc[t] \in InsertPoints,
         NEW p \in InsertPoints, p = pc'[t], NEW f \in Frames, f = frame'[t],
         f.ent = frame[t].ent, NEW lo \in Nat, lo = Origin(t), PassedAt(p, f, lo),
         f.j < cur \/ (f.j = cur /\ f.i = 0 /\ p # "reload"), p = "reload" => f.i = 0,
         stack[t] # <<>> => frame[t].j <= f.j /\ ~f.doCopy /\ p \notin CopyPoints,
         FrameAt(p, f)
  PROVE  ThreadInv(t)'
<1>1. CallInv(t)
  BY DEF Inv, ThreadInv
<1>2. p \in Points /\ f.ent \in Keys
  BY <1>1 DEF InsertPoints, Points, CopyPoints, CallInv
<1>3. FrameAt(p, f)'
  BY <1>2, FrameAtStays
<1> QED
  BY <1>3, WithinStep

\* What holds of a thread in insertTable.
LEMMA InInsert ==
  ASSUME Inv, NEW t \in Threads, pc[t] \in InsertPoints
  PROVE  /\ TablesTyped /\ LocalsTyped /\ InOrder /\ start \in Nat /\ cur \in Nat
         /\ StackInv(t) /\ CallInv(t) /\ Origin(t) \in Nat
         /\ pc[t] \in Points /\ frame[t] \in Frames /\ frame[t].ent \in Keys
         /\ frame[t].j \in Nat /\ frame[t].i \in Attempts /\ frame[t].LocalCur \in Nat
         /\ PassedAt(pc[t], frame[t], Origin(t)) /\ FrameAt(pc[t], frame[t])
         /\ stack[t] # <<>> => frame[t].j <= frame[t].j /\ ~frame[t].doCopy
<1> TablesTyped /\ LocalsTyped /\ InOrder /\ StackInv(t) /\ FrameInv(t) /\ CallInv(t)
  BY DEF Inv, Typed, ThreadInv
<1>1. frame[t] \in Frames /\ frame[t].ent \in Keys
  BY DEF LocalsTyped, CallInv, InsertPoints, CopyPoints
<1>2. frame[t].j \in Nat /\ frame[t].i \in Attempts /\ frame[t].LocalCur \in Nat
  BY <1>1, FrameTyped
<1>3. start \in Nat /\ cur \in Nat
  BY DEF TablesTyped
<1>4. Origin(t) \in Nat
  BY <1>3, FrameTyped DEF Origin, LocalsTyped
<1> QED
  BY <1>1, <1>2, <1>3, <1>4, FrameIs DEF StackInv, LocalsTyped

\* The test of the loop over the subtables.
LEMMA InsertTableThread ==
  ASSUME Inv, NEW t \in Threads, ThreadStep(t), InsertTable(t)
  PROVE  ThreadInv(t)'
<1>1. pc[t] = "table" /\ pc[t] \in InsertPoints /\ UNCHANGED call /\ start' = start
  BY DEF InsertTable, InsertPoints, shared
<1>2. PICK f0 \in Frames, lo \in Nat : f0 = frame[t] /\ lo = Origin(t)
  BY <1>1, InInsert
<1>3. /\ f0.ent \in Keys /\ f0.j \in Nat /\ f0.LocalCur \in Nat /\ cur \in Nat /\ 1 <= cur
      /\ PassedAt("table", f0, lo) /\ FrameAt("table", f0)
      /\ stack[t] # <<>> => f0.j <= f0.j /\ ~f0.doCopy
  BY <1>1, <1>2, InInsert DEF InOrder
<1>4. PassedTo(f0.ent, lo, f0.j, f0.i) /\ f0.i = 0 /\ f0.j <= cur /\ ~f0.doCopy
      /\ (~(f0.j < cur) => f0.j = f0.LocalCur)
  BY <1>3 DEF PassedAt, FrameAt, InsertPoints
<1>5. PICK p \in InsertPoints, f \in Frames :
        /\ p = pc'[t] /\ f = frame'[t]
        /\ f.ent = f0.ent /\ f.j = f0.j /\ f.i = f0.i /\ f.doCopy = f0.doCopy
        /\ \/ p = "docopy" /\ f0.j < cur /\ f.LocalCur = cur
           \/ p = "grow" /\ ~(f0.j < cur) /\ f.LocalCur = f0.LocalCur
  <2>1. CASE f0.j < cur
    <3>1. pc'[t] = "docopy" /\ frame'[t] = [f0 EXCEPT !.LocalCur = cur]
      BY <1>2, <2>1, InsertTableEffect DEF Inv
    <3>2. PICK f \in Frames : f = [f0 EXCEPT !.LocalCur = cur]
      BY <1>3, FrameUpdates
    <3>3. /\ f.ent = f0.ent /\ f.j = f0.j /\ f.i = f0.i /\ f.doCopy = f0.doCopy
          /\ f.LocalCur = cur
      BY <3>2 DEF Frames
    <3> QED
      BY <2>1, <3>1, <3>2, <3>3 DEF InsertPoints
  <2>2. CASE ~(f0.j < cur)
    <3>1. pc'[t] = "grow" /\ frame'[t] = f0
      BY <1>2, <2>2, InsertTableEffect DEF Inv
    <3> QED
      BY <2>2, <3>1 DEF InsertPoints
  <2> QED
    BY <2>1, <2>2
<1>6. PassedAt(p, f, lo)
  BY <1>4, <1>5 DEF PassedAt
<1>7. FrameAt(p, f)
  <2>1. p \in {"docopy", "grow"}
    BY <1>5
  <2> QED
    BY <1>3, <1>4, <1>5, <2>1 DEF FrameAt, ProbePoints, CopyPoints, QueryPoints
<1>8. /\ f.j < cur \/ (f.j = cur /\ f.i = 0 /\ p # "reload")
      /\ p = "reload" => f.i = 0
      /\ stack[t] # <<>> => f0.j <= f.j /\ ~f.doCopy /\ p \notin CopyPoints
  BY <1>3, <1>4, <1>5 DEF CopyPoints
<1> QED
  BY <1>1, <1>2, <1>5, <1>6, <1>7, <1>8, QuietStep

\* doCopy is set only in the smallest subtable of two or more.
LEMMA ReadStartThread ==
  ASSUME Inv, NEW t \in Threads, ThreadStep(t), ReadStart(t)
  PROVE  ThreadInv(t)'
<1>1. pc[t] = "docopy" /\ pc[t] \in InsertPoints /\ UNCHANGED call /\ start' = start
  BY DEF ReadStart, InsertPoints, shared
<1>2. PICK f0 \in Frames, lo \in Nat : f0 = frame[t] /\ lo = Origin(t)
  BY <1>1, InInsert
<1>3. /\ f0.ent \in Keys /\ f0.j \in Nat /\ f0.LocalCur \in Nat /\ cur \in Nat /\ start \in Nat
      /\ PassedAt("docopy", f0, lo) /\ FrameAt("docopy", f0)
      /\ stack[t] # <<>> => start < f0.j
  BY <1>1, <1>2, InInsert DEF StackInv
<1>4. PassedTo(f0.ent, lo, f0.j, f0.i) /\ f0.j < cur /\ f0.LocalCur <= cur
  BY <1>3 DEF PassedAt, FrameAt, InsertPoints, ProbePoints
<1>5. PICK c \in {f0.LocalCur, cur} :
        /\ pc'[t] = "lookup"
        /\ frame'[t] = [f0 EXCEPT !.doCopy = (f0.j = start /\ c - start > 1), !.LocalCur = 0]
  BY <1>2, ReadStartEffect DEF Inv
<1>6. PICK d \in BOOLEAN : d = (f0.j = start /\ c - start > 1)
  OBVIOUS
<1>7. PICK f \in Frames : f = [f0 EXCEPT !.doCopy = d, !.LocalCur = 0]
  BY FrameUpdates
<1>8. f.ent = f0.ent /\ f.j = f0.j /\ f.i = f0.i /\ f.doCopy = d /\ f = frame'[t]
  BY <1>5, <1>6, <1>7 DEF Frames
<1>c. d => f0.j = start /\ c - start > 1
  BY <1>6
<1>9. d => f.j <= start /\ f.j + 1 < cur
  <2>1. c \in Nat /\ c <= cur
    BY <1>3, <1>4
  <2>2. f0.j = start /\ c - start > 1 => f.j <= start /\ f.j + 1 < cur
    BY <1>3, <1>8, <2>1
  <2> QED
    BY <1>c, <2>2
<1>10. PICK p \in InsertPoints : p = "lookup"
  BY DEF InsertPoints
<1>11. PassedAt(p, f, lo)
  BY <1>4, <1>8, <1>10 DEF PassedAt
<1>12. FrameAt(p, f)
  BY <1>4, <1>8, <1>9, <1>10 DEF FrameAt, ProbePoints, CopyPoints, QueryPoints
<1>13. stack[t] # <<>> => f0.j <= f.j /\ ~f.doCopy /\ p \notin CopyPoints
  <2>1. p \notin CopyPoints /\ f0.j <= f.j
    BY <1>3, <1>8, <1>10 DEF CopyPoints
  <2>2. stack[t] # <<>> => ~(f0.j = start)
    BY <1>3
  <2>3. stack[t] # <<>> => ~d
    BY <1>c, <2>2
  <2> QED
    BY <1>8, <2>1, <2>3
<1> QED
  BY <1>1, <1>2, <1>4, <1>5, <1>8, <1>10, <1>11, <1>12, <1>13, QuietStep

\* A step to another point with the same frame.
LEMMA PointStep ==
  ASSUME Inv, NEW t \in Threads, ThreadStep(t), UNCHANGED <<call, frame>>, start' = start,
         pc[t] \in {"lookup", "setPtr", "count", "sum", "claim"},
         NEW p \in {"claim", "setPtr", "recheck", "sum", "start"}, p = pc'[t],
         FrameAt(p, frame[t])
  PROVE  ThreadInv(t)'
<1>1. /\ pc[t] \in InsertPoints /\ p \in InsertPoints /\ p # "reload" /\ pc[t] # "reload"
      /\ p \in ProbePoints /\ UNCHANGED call
  BY DEF InsertPoints, ProbePoints, CopyPoints
<1>2. PICK f \in Frames, lo \in Nat : f = frame[t] /\ lo = Origin(t)
  BY <1>1, InInsert
<1>3. /\ PassedAt(pc[t], f, lo) /\ f.j \in Nat
      /\ stack[t] # <<>> => f.j <= f.j /\ ~f.doCopy
  BY <1>1, <1>2, InInsert
<1>4. PassedAt(p, f, lo)
  BY <1>1, <1>3 DEF PassedAt
<1>5. f.j < cur /\ (p \in CopyPoints => f.doCopy)
  BY <1>1, <1>2 DEF FrameAt
<1>6. f = frame'[t] /\ f.ent = frame[t].ent
  BY <1>2
<1> QED
  BY <1>1, <1>2, <1>3, <1>4, <1>5, <1>6, QuietStep

\* The slot of the probe is NULL, holds the key, or holds another.
LEMMA lookupThread ==
  ASSUME Inv, NEW t \in Threads, ThreadStep(t), lookup(t)
  PROVE  ThreadInv(t)'
<1>1. pc[t] = "lookup" /\ pc[t] \in InsertPoints /\ pc[t] \in ProbePoints /\ start' = start
  BY DEF lookup, InsertPoints, ProbePoints, shared
<1>2. PICK f \in Frames, lo \in Nat : f = frame[t] /\ lo = Origin(t)
  BY <1>1, InInsert
<1>3. /\ f.ent \in Keys /\ f.i \in Attempts /\ f.j \in DOMAIN TableArray /\ f.j < cur
      /\ PassedTo(f.ent, lo, f.j, f.i) /\ (f.doCopy => f.j <= start /\ f.j + 1 < cur)
      /\ Probed(t) = Slot(f.ent, f.i, f.j) /\ TablesTyped /\ LocalsTyped
  BY <1>1, <1>2, InInsert, ProbeInRange DEF PassedAt, FrameAt, Probed
<1>4. CASE Probed(t) = Null /\ Goto(t, "claim") /\ UNCHANGED <<call, frame>>
  <2>1. PICK p \in {"claim"} : p = pc'[t]
    BY <1>3, <1>4, StaysEffect DEF Points
  <2>2. FrameAt(p, frame[t])
    BY <1>2, <1>3, <2>1 DEF FrameAt, ProbePoints, CopyPoints, QueryPoints
  <2> QED
    BY <1>1, <1>4, <2>1, <2>2, PointStep
<1>5. CASE Probed(t).key = frame[t].ent /\ Return(t, 0)
  <2>1. PICK k \in Keys, n \in Attempts, jj \in DOMAIN TableArray : k = f.ent /\ n = f.i /\ jj = f.j
    BY <1>3
  <2>2. stack[t] # <<>> => lo <= jj
    <3>1. StackInv(t) /\ jj \in Nat /\ jj = frame[t].j
      BY <1>1, <1>2, <2>1, InInsert
    <3> QED
      BY <1>2, <3>1, FrameTyped DEF StackInv, Origin, LocalsTyped
  <2>3. stack[t] # <<>> => ReachesFrom(k, lo, 0)
    BY <1>2, <1>3, <1>5, <2>1, <2>2, PassedReaches
  <2>4. stack[t] # <<>> => ReachesFrom(k, lo, 0)'
    BY <2>3, ReachesStays, HashtableLazyAssumption DEF Attempts
  <2> QED
    BY <1>2, <1>5, <2>1, <2>4, ReturnStep
<1>6. CASE /\ Probed(t).key \notin {NULL, frame[t].ent}
           /\ IF frame[t].doCopy
                THEN Goto(t, "setPtr") /\ UNCHANGED <<call, frame>>
                ELSE NextAttempt(t, "lookup", "reload", frame[t].j)
  <2>1. CASE frame[t].doCopy
    <3>1. PICK p \in {"setPtr"} : p = pc'[t]
      BY <1>3, <1>6, <2>1, StaysEffect DEF Points
    <3>2. FrameAt(p, frame[t])
      BY <1>2, <1>3, <1>6, <2>1, <3>1 DEF FrameAt, ProbePoints, CopyPoints, QueryPoints
    <3> QED
      BY <1>1, <1>6, <2>1, <3>1, <3>2, PointStep
  <2>2. CASE ~frame[t].doCopy
    BY <1>1, <1>6, <2>2, NextWithin
  <2> QED
    BY <2>1, <2>2
<1> QED
  BY <1>4, <1>5, <1>6 DEF lookup

\* A slot that is not marked yet is in subtable start.
LEMMA setPtrThread ==
  ASSUME Inv, NEW t \in Threads, ThreadStep(t), setPtr(t)
  PROVE  ThreadInv(t)'
<1>1. pc[t] = "setPtr" /\ pc[t] \in InsertPoints /\ pc[t] \in ProbePoints /\ start' = start
      /\ UNCHANGED <<start, cur, buffer>>
  BY DEF setPtr, InsertPoints, ProbePoints, CopyPoints
<1>2. PICK f \in Frames, lo \in Nat : f = frame[t] /\ lo = Origin(t)
  BY <1>1, InInsert
<1>3. /\ f.ent \in Keys /\ f.i \in Attempts /\ f.j \in DOMAIN TableArray /\ f.j < cur
      /\ f.doCopy /\ f.j <= start /\ f.j + 1 < cur
      /\ PassedAt("setPtr", f, lo) /\ Slot(f.ent, f.i, f.j).key \notin {NULL, f.ent}
      /\ Probed(t) = Slot(f.ent, f.i, f.j) /\ TablesTyped /\ LocalsTyped
      /\ f.j \in Nat /\ start \in Nat
      /\ stack[t] = <<>>
  BY <1>1, <1>2, InInsert, ProbeInRange DEF FrameAt, Probed, CopyPoints
<1>4. CASE Probed(t).bool = 0
  <2>1. PICK k \in Keys, n \in Attempts, jj \in DOMAIN TableArray : k = f.ent /\ n = f.i /\ jj = f.j
    BY <1>3
  <2>2. PICK s \in Slots(jj) : s = Bucket(k, n, jj) /\ s = Target(t)
    BY <1>2, <1>3, <2>1, BucketInRange DEF Target
  <2>3. At(jj, s) = Probed(t)
    BY <1>3, <2>1, <2>2 DEF Slot, At
  <2>4. jj = start
    BY <1>3, <1>4, <2>1, <2>3, BelowStart
  <2>5. Marks(t) /\ ~Claims(t) /\ UNCHANGED <<call, frame>> /\ Goto(t, "copy")
    BY <1>4 DEF Marks, Claims, setPtr, ClaimSlot
  <2>6. At(jj, s)' = [key |-> Probed(t).key, bool |-> 1]
    <3>1. At(jj, s)' = After(t, jj, s)
      BY TablesStep DEF TablesOf
    <3> QED
      BY <1>2, <2>1, <2>2, <2>3, <2>5, <3>1 DEF After
  <2>7. Slot(k, n, jj)' = [key |-> Probed(t).key, bool |-> 1]
    <3>1. Bucket(k, n, jj)' = s
      BY <2>2, ProbeStays
    <3> QED
      BY <2>6, <3>1 DEF Slot, At
  <2>8. PICK p \in InsertPoints : p = pc'[t] /\ p = "copy"
    BY <1>3, <2>5, StaysEffect DEF Points, InsertPoints, CopyPoints
  <2>9. FrameAt(p, f)'
    <3>1. Slot(f.ent, f.i, f.j)' = [key |-> Probed(t).key, bool |-> 1]
      BY <2>1, <2>7
    <3>2. Slot(f.ent, f.i, f.j)'.key \notin {NULL, f.ent} /\ Slot(f.ent, f.i, f.j)'.bool = 1
      BY <1>3, <3>1
    <3> QED
      BY <1>1, <1>3, <2>1, <2>4, <2>8, <3>2 DEF FrameAt, ProbePoints, CopyPoints, QueryPoints
  <2>10. PassedAt(p, f, lo)
    BY <1>1, <1>3, <2>8 DEF PassedAt
  <2>11. f = frame'[t] /\ f.ent = frame[t].ent /\ UNCHANGED call
    BY <1>2, <2>5
  <2> QED
    BY <1>1, <1>2, <1>3, <2>8, <2>9, <2>10, <2>11, WithinStep
<1>5. CASE Probed(t).bool # 0
  BY <1>1, <1>2, <1>3, <1>5, NextWithin DEF setPtr
<1> QED
  BY <1>4, <1>5

\* The copy begins above the slot that is copied.
LEMMA CallCopyThread ==
  ASSUME Inv, NEW t \in Threads, ThreadStep(t), CallCopy(t)
  PROVE  ThreadInv(t)'
<1>1. /\ pc[t] = "copy" /\ pc[t] \in InsertPoints /\ pc[t] \in ProbePoints /\ pc[t] \in CopyPoints
      /\ stack[t] = <<>> /\ pc'[t] = "table" /\ UNCHANGED <<shared, op, key, ret>>
  BY CopyEffect DEF InsertPoints, ProbePoints, CopyPoints
<1>2. PICK f0 \in Frames : f0 = frame[t]
  BY <1>1, InInsert
<1>3. PICK k \in Keys, g \in Frames :
        k = Probed(t).key /\ g = [f0 EXCEPT !.exStart = start] /\ stack'[t] = <<g>>
  BY <1>2, CopyEffect
<1>4. PICK lo \in Nat, st \in Nat : st = start /\ lo = start + 1
  BY <1>1, InInsert
<1>5. PICK f \in Frames : f = NewFrame(k, lo) /\ f = frame'[t]
  <2>1. frame'[t] = NewFrame(k, lo)
    BY <1>3, <1>4, CopyEffect
  <2>2. NewFrame(k, lo) \in Frames
    BY <1>3, <1>4, NewFrames
  <2> QED
    BY <2>1, <2>2
<1>6. f.ent = k /\ f.j = lo /\ f.i = 0 /\ ~f.doCopy
  BY <1>3, <1>4, <1>5, NewFrames
<1>7. /\ g.ent = f0.ent /\ g.j = f0.j /\ g.i = f0.i /\ g.doCopy = f0.doCopy /\ g.exStart = st
      /\ Head(<<g>>) = g /\ <<g>> # <<>>
  BY <1>3, <1>4 DEF Frames
<1>8. /\ f0.ent \in Keys /\ f0.ent = key[t] /\ op[t] = "insert" /\ key[t] \in Keys
      /\ f0.doCopy /\ f0.j = st /\ f0.j + 1 < cur
      /\ PassedTo(f0.ent, st, f0.j, f0.i)
      /\ Probed(t) = Slot(f0.ent, f0.i, f0.j)
      /\ Probed(t).bool = 1 /\ k \notin {NULL, f0.ent}
      /\ cur \in Nat /\ TablesTyped
  BY <1>1, <1>2, <1>3, <1>4, InInsert
  DEF FrameAt, PassedAt, Origin, CallInv, Probed
<1>9. Slot(g.ent, g.i, g.j) = [key |-> k, bool |-> 1]
  <2>1. PICK n \in Attempts, jj \in DOMAIN TableArray : n = f0.i /\ jj = f0.j
    BY <1>1, <1>2, ProbeInRange
  <2> QED
    BY <1>3, <1>7, <1>8, <2>1, SlotTyped
<1>10. start' = st /\ cur' = cur /\ TableArray' = TableArray
  BY <1>1, <1>4 DEF shared
<1>11. CallInv(t)'
  BY <1>1, <1>3, <1>5, <1>6, <1>7, <1>8, BufferStep
  DEF CallInv, InsertPoints, QueryPoints, CopyPoints
<1>12. StackInv(t)'
  <2>1. PassedTo(g.ent, start, g.j, g.i)'
    <3>1. PICK n \in Attempts : n = f0.i
      BY <1>1, <1>2, ProbeInRange
    <3>2. PICK kg \in Keys : kg = f0.ent
      BY <1>8
    <3>3. PassedTo(kg, st, st, n) /\ st < cur
      BY <1>8, <3>1, <3>2
    <3>4. PassedTo(kg, st, st, n)'
      BY <3>3, PassedStays
    <3> QED
      BY <1>7, <1>8, <1>10, <3>1, <3>2, <3>4
  <2>2. Slot(g.ent, g.i, g.j)' = [key |-> f.ent, bool |-> 1]
    BY <1>6, <1>9, <1>10 DEF Slot, Bucket
  <2>3. /\ g.j < f.j /\ g.ent = key'[t] /\ g.doCopy /\ g.exStart = g.j /\ g.j = start'
        /\ g.j + 1 < cur' /\ f.ent # g.ent
    BY <1>1, <1>4, <1>6, <1>7, <1>8, <1>10
  <2>4. pc'[t] \in InsertPoints \ CopyPoints
    BY <1>1 DEF InsertPoints, CopyPoints
  <2> QED
    BY <1>3, <1>5, <1>6, <1>7, <2>1, <2>2, <2>3, <2>4 DEF StackInv
<1>13. PICK p : p = "table"
  OBVIOUS
<1>14. PassedAt(p, f, lo)'
  <2>1. PassedTo(k, lo, lo, 0)
    BY <1>8, PassedFrom
  <2>2. PassedAt(p, f, lo)
    BY <1>6, <1>13, <2>1 DEF PassedAt
  <2>3. lo < cur /\ lo <= lo
    BY <1>4, <1>8
  <2> QED
    BY <1>6, <1>13, <2>2, <2>3, PassedAtStays
<1>15. FrameAt(p, f)'
  <2>1. f.j < cur' /\ f.j <= cur'
    BY <1>4, <1>6, <1>8, <1>10
  <2> QED
    BY <1>6, <1>13, <2>1 DEF FrameAt, ProbePoints, CopyPoints, QueryPoints
<1>16. Origin(t)' = lo
  BY <1>3, <1>4, <1>7, <1>8 DEF Origin
<1>17. FrameInv(t)'
  BY <1>1, <1>5, <1>13, <1>14, <1>15, <1>16, FrameWillBe
<1> QED
  BY <1>11, <1>12, <1>17 DEF ThreadInv

\* The copy is counted, and the counts are added up.
LEMMA CountThread ==
  ASSUME Inv, NEW t \in Threads, ThreadStep(t), CountCopy(t) \/ SumCopies(t)
  PROVE  ThreadInv(t)'
<1>1. /\ pc[t] \in {"count", "sum"} /\ pc[t] \in InsertPoints /\ pc[t] \in ProbePoints
      /\ pc[t] \in CopyPoints /\ start' = start
  BY DEF CountCopy, SumCopies, InsertPoints, ProbePoints, CopyPoints, shared
<1>2. PICK f \in Frames : f = frame[t]
  BY <1>1, InInsert
<1>3. /\ f.j \in DOMAIN TableArray /\ f.j < cur /\ f.doCopy /\ f.j <= start /\ f.j + 1 < cur
      /\ Slot(f.ent, f.i, f.j).key \notin {NULL, f.ent} /\ f.exStart = f.j
      /\ Probed(t) = Slot(f.ent, f.i, f.j) /\ LocalsTyped
  BY <1>1, <1>2, InInsert, ProbeInRange DEF FrameAt, Probed
<1>4. CASE CountCopy(t)
  <2>1. UNCHANGED <<call, frame>> /\ Goto(t, "sum")
    BY <1>4 DEF CountCopy
  <2>2. PICK p \in {"sum"} : p = pc'[t]
    BY <1>3, <2>1, StaysEffect DEF Points
  <2>3. FrameAt(p, f)
    BY <1>3, <2>2 DEF FrameAt, ProbePoints, CopyPoints, QueryPoints
  <2> QED
    BY <1>1, <1>2, <2>1, <2>2, <2>3, PointStep
<1>5. CASE SumCopies(t) /\ sumArr(t, frame[t].j) = TableArray[frame[t].j].TableSize
  <2>1. UNCHANGED <<call, frame>> /\ Goto(t, "start") /\ pc[t] = "sum"
    BY <1>5 DEF SumCopies
  <2>2. PICK p \in {"start"} : p = pc'[t]
    BY <1>3, <2>1, StaysEffect DEF Points
  <2>3. Completed(f.j) = Slots(f.j)
    BY <1>2, <1>3, <1>5, SumIsSize
  <2>4. FrameAt(p, f)
    BY <1>3, <2>2, <2>3 DEF FrameAt, ProbePoints, CopyPoints, QueryPoints
  <2> QED
    BY <1>1, <1>2, <2>1, <2>2, <2>4, PointStep
<1>6. CASE SumCopies(t) /\ sumArr(t, frame[t].j) # TableArray[frame[t].j].TableSize
  <2>1. NextAttempt(t, "lookup", "reload", frame[t].j) /\ pc[t] = "sum"
    BY <1>6 DEF SumCopies
  <2> QED
    BY <1>2, <1>3, <2>1, NextWithin
<1> QED
  BY <1>4, <1>5, <1>6

\* start has moved on, or another thread has moved it.
LEMMA AdvanceStartThread ==
  ASSUME Inv, NEW t \in Threads, ThreadStep(t), AdvanceStart(t)
  PROVE  ThreadInv(t)'
<1>1. /\ pc[t] = "start" /\ pc[t] \in InsertPoints /\ pc[t] \in CopyPoints
      /\ NextAttempt(t, "lookup", "reload", frame[t].j)
  BY DEF AdvanceStart, InsertPoints, CopyPoints
<1>2. Probed(t).key \notin {NULL, frame[t].ent}
  BY <1>1, InInsert DEF FrameAt, Probed
<1> QED
  BY <1>1, <1>2, NextWithin

\* The compare-and-swap of the slot, and what is done when it fails.
LEMMA ClaimThread ==
  ASSUME Inv, NEW t \in Threads, ThreadStep(t), ClaimSlot(t)
  PROVE  ThreadInv(t)'
<1>1. pc[t] = "claim" /\ pc[t] \in InsertPoints /\ pc[t] \in ProbePoints /\ start' = start
  BY DEF ClaimSlot, InsertPoints, ProbePoints
<1>2. PICK f \in Frames, lo \in Nat : f = frame[t] /\ lo = Origin(t)
  BY <1>1, InInsert
<1>3. /\ f.ent \in Keys /\ f.j < cur /\ (f.doCopy => f.j <= start /\ f.j + 1 < cur)
      /\ Probed(t) = Slot(f.ent, f.i, f.j) /\ LocalsTyped
      /\ Probed(t) = Null <=> Probed(t).key = NULL
  BY <1>1, <1>2, InInsert, ProbeInRange DEF FrameAt, Probed
<1>4. CASE Probed(t) = Null
  <2>1. Claims(t) /\ Return(t, 1)
    BY <1>4 DEF Claims, ClaimSlot
  <2>2. PICK k \in Keys : k = frame[t].ent
    BY <1>2, <1>3
  <2>3. ReachesFrom(k, lo, 0)'
    BY <1>2, <2>1, <2>2, ClaimReaches
  <2> QED
    BY <1>2, <2>1, <2>2, <2>3, ReturnStep
<1>5. CASE Probed(t) # Null
  <2>1. UNCHANGED <<call, frame>> /\ Goto(t, "recheck")
    BY <1>5 DEF ClaimSlot
  <2>2. PICK p \in {"recheck"} : p = pc'[t]
    BY <1>3, <2>1, StaysEffect DEF Points
  <2>3. FrameAt(p, f)
    BY <1>3, <1>5, <2>2 DEF FrameAt, ProbePoints, CopyPoints, QueryPoints
  <2> QED
    BY <1>1, <1>2, <2>1, <2>2, <2>3, PointStep
<1> QED
  BY <1>4, <1>5

\* Another thread's entry is in the slot.
LEMMA RecheckThread ==
  ASSUME Inv, NEW t \in Threads, ThreadStep(t), RecheckSlot(t)
  PROVE  ThreadInv(t)'
<1>1. pc[t] = "recheck" /\ pc[t] \in InsertPoints /\ pc[t] \in ProbePoints /\ start' = start
  BY DEF RecheckSlot, InsertPoints, ProbePoints, shared
<1>2. PICK f \in Frames, lo \in Nat : f = frame[t] /\ lo = Origin(t)
  BY <1>1, InInsert
<1>3. /\ f.ent \in Keys /\ f.i \in Attempts /\ f.j \in DOMAIN TableArray /\ f.j < cur
      /\ PassedTo(f.ent, lo, f.j, f.i) /\ Probed(t).key # NULL
      /\ Probed(t) = Slot(f.ent, f.i, f.j) /\ TablesTyped /\ LocalsTyped
  BY <1>1, <1>2, InInsert, ProbeInRange DEF PassedAt, FrameAt, Probed
<1>4. CASE Probed(t).key = frame[t].ent
  <2>1. PICK k \in Keys, n \in Attempts, jj \in DOMAIN TableArray : k = f.ent /\ n = f.i /\ jj = f.j
    BY <1>3
  <2>2. stack[t] # <<>> => lo <= jj
    <3>1. StackInv(t) /\ jj \in Nat /\ jj = frame[t].j
      BY <1>1, <1>2, <2>1, InInsert
    <3> QED
      BY <1>2, <3>1, FrameTyped DEF StackInv, Origin, LocalsTyped
  <2>3. stack[t] # <<>> => ReachesFrom(k, lo, 0)
    BY <1>2, <1>3, <1>4, <2>1, <2>2, PassedReaches
  <2>4. stack[t] # <<>> => ReachesFrom(k, lo, 0)'
    BY <2>3, ReachesStays, HashtableLazyAssumption DEF Attempts
  <2>5. Return(t, 0)
    BY <1>4 DEF RecheckSlot
  <2> QED
    BY <1>2, <2>1, <2>4, <2>5, ReturnStep
<1>5. CASE Probed(t).key # frame[t].ent
  <2>1. NextAttempt(t, "lookup", "reload", frame[t].j)
    BY <1>5 DEF RecheckSlot
  <2> QED
    BY <1>1, <1>3, <1>5, <2>1, NextWithin
<1> QED
  BY <1>4, <1>5

\* The next subtable, with nothing to copy in it yet.
LEMMA ReloadThread ==
  ASSUME Inv, NEW t \in Threads, ThreadStep(t), ReloadCur(t)
  PROVE  ThreadInv(t)'
<1>1. pc[t] = "reload" /\ pc[t] \in InsertPoints /\ pc[t] \in ProbePoints /\ start' = start
      /\ UNCHANGED call
  BY DEF ReloadCur, InsertPoints, ProbePoints, shared
<1>2. PICK f0 \in Frames, lo \in Nat : f0 = frame[t] /\ lo = Origin(t)
  BY <1>1, InInsert
<1>3. /\ f0.ent \in Keys /\ f0.j \in Nat /\ f0.j < cur /\ f0.i = 0 /\ cur \in Nat
      /\ PassedTo(f0.ent, lo, f0.j + 1, f0.i)
  BY <1>1, <1>2, InInsert, ProbeInRange DEF PassedAt, FrameAt
<1>4. PICK f \in Frames : /\ f = [f0 EXCEPT !.LocalCur = cur, !.j = f0.j + 1, !.doCopy = FALSE]
                          /\ f = frame'[t] /\ pc'[t] = "table"
  <2>1. PICK x \in Nat, y \in Nat : x = cur /\ y = f0.j + 1
    BY <1>3
  <2>2. [f0 EXCEPT !.LocalCur = x, !.j = y, !.doCopy = FALSE] \in Frames
    BY FrameUpdates
  <2> QED
    BY <1>2, <2>1, <2>2, ReloadCurEffect DEF Inv
<1>5. f.ent = f0.ent /\ f.j = f0.j + 1 /\ f.i = f0.i /\ ~f.doCopy /\ f.LocalCur = cur
  BY <1>3, <1>4 DEF Frames
<1>6. PICK p \in InsertPoints : p = "table"
  BY DEF InsertPoints
<1>7. PassedAt(p, f, lo)
  BY <1>3, <1>5, <1>6 DEF PassedAt
<1>8. FrameAt(p, f)
  BY <1>3, <1>5, <1>6 DEF FrameAt, ProbePoints, CopyPoints, QueryPoints
<1>9. /\ f.j < cur \/ (f.j = cur /\ f.i = 0 /\ p # "reload")
      /\ stack[t] # <<>> => f0.j <= f.j /\ ~f.doCopy /\ p \notin CopyPoints
  BY <1>3, <1>5, <1>6 DEF CopyPoints
<1> QED
  BY <1>1, <1>2, <1>4, <1>5, <1>6, <1>7, <1>8, <1>9, QuietStep

\* After addDrop there is a subtable at LocalCur.
LEMMA addDropThread ==
  ASSUME Inv, NEW t \in Threads, ThreadStep(t), addDrop(t)
  PROVE  ThreadInv(t)'
<1>1. pc[t] = "grow" /\ pc[t] \in InsertPoints /\ UNCHANGED <<call, frame>> /\ Goto(t, "advance")
      /\ UNCHANGED call
  BY DEF addDrop, InsertPoints
<1>2. PICK f \in Frames, lo \in Nat : f = frame[t] /\ lo = Origin(t)
  BY <1>1, InInsert
<1>3. /\ f.j \in Nat /\ f.i = 0 /\ f.j = f.LocalCur /\ 1 <= f.j /\ f.j <= cur /\ ~f.doCopy
      /\ cur \in Nat /\ PassedAt("grow", f, lo) /\ LocalsTyped /\ f.ent \in Keys
  BY <1>1, <1>2, InInsert DEF FrameAt
<1>4. /\ cur' = cur /\ start' = start /\ f.LocalCur \in DOMAIN TableArray'
  BY <1>2, <1>3, TablesAddDrop
<1>5. PICK p \in InsertPoints : p = "advance" /\ p = pc'[t]
  BY <1>1, <1>3, StaysEffect DEF InsertPoints, Points
<1>6. PassedAt(p, f, lo)
  BY <1>1, <1>3, <1>5 DEF PassedAt
<1>7. FrameAt(p, f)'
  BY <1>3, <1>4, <1>5 DEF FrameAt, ProbePoints, CopyPoints, QueryPoints
<1>8. /\ f.j < cur \/ (f.j = cur /\ f.i = 0 /\ p # "reload")
      /\ stack[t] # <<>> => f.j <= f.j /\ ~f.doCopy /\ p \notin CopyPoints
      /\ f = frame'[t]
  BY <1>1, <1>2, <1>3, <1>5 DEF CopyPoints
<1> QED
  BY <1>1, <1>2, <1>5, <1>6, <1>7, <1>8, WithinStep

\* After the compare-and-swap of cur the subtable at LocalCur is in use.
LEMMA AdvanceCurThread ==
  ASSUME Inv, NEW t \in Threads, ThreadStep(t), AdvanceCur(t)
  PROVE  ThreadInv(t)'
<1>1. pc[t] = "advance" /\ pc[t] \in InsertPoints /\ UNCHANGED call /\ start' = start
      /\ cur' = IF cur = frame[t].LocalCur THEN cur + 1 ELSE cur
  BY AdvanceCurEffect DEF AdvanceCur, InsertPoints, Inv
<1>2. PICK f0 \in Frames, lo \in Nat : f0 = frame[t] /\ lo = Origin(t)
  BY <1>1, InInsert
<1>3. /\ f0.j \in Nat /\ f0.i = 0 /\ f0.j = f0.LocalCur /\ 1 <= f0.j /\ f0.j <= cur /\ ~f0.doCopy
      /\ cur \in Nat /\ PassedAt("advance", f0, lo) /\ f0.ent \in Keys /\ f0.LocalCur \in Nat
  BY <1>1, <1>2, InInsert DEF FrameAt
<1>4. PICK f \in Frames : f = [f0 EXCEPT !.j = f0.LocalCur] /\ f = frame'[t] /\ pc'[t] = "table"
  <2>1. [f0 EXCEPT !.j = f0.LocalCur] \in Frames
    BY <1>3, FrameUpdates
  <2> QED
    BY <1>2, <2>1, AdvanceCurEffect DEF Inv
<1>5. f.ent = f0.ent /\ f.j = f0.j /\ f.i = f0.i /\ f.doCopy = f0.doCopy
  BY <1>3, <1>4 DEF Frames
<1>6. f.j < cur' /\ f.j <= cur'
  BY <1>1, <1>2, <1>3, <1>5
<1>7. PICK p \in InsertPoints : p = "table"
  BY DEF InsertPoints
<1>8. PassedAt(p, f, lo)
  BY <1>1, <1>3, <1>5, <1>7 DEF PassedAt
<1>9. FrameAt(p, f)'
  BY <1>3, <1>5, <1>6, <1>7 DEF FrameAt, ProbePoints, CopyPoints, QueryPoints
<1>10. /\ f.j < cur \/ (f.j = cur /\ f.i = 0 /\ p # "reload")
       /\ stack[t] # <<>> => f0.j <= f.j /\ ~f.doCopy /\ p \notin CopyPoints
  BY <1>3, <1>5, <1>7 DEF CopyPoints
<1> QED
  BY <1>1, <1>2, <1>4, <1>5, <1>7, <1>8, <1>9, <1>10, WithinStep

\* The query: its test of cur, and its probe.
LEMMA QueryThread ==
  ASSUME Inv, NEW t \in Threads, ThreadStep(t), QueryTable(t) \/ lookupQuery(t)
  PROVE  ThreadInv(t)'
<1>1. /\ pc[t] \in QueryPoints /\ pc[t] # "idle" /\ stack[t] = <<>> /\ op[t] = "query"
      /\ UNCHANGED shared /\ TablesTyped /\ LocalsTyped /\ CallInv(t) /\ FrameInv(t)
      /\ pc[t] \notin InsertPoints /\ start \in Nat /\ cur \in Nat
  BY DEF QueryTable, lookupQuery, QueryPoints, Inv, Typed, ThreadInv, CallInv, InsertPoints,
         CopyPoints, TablesTyped
<1>2. CASE Return(t, 0) \/ Return(t, 1)
  <2>1. PICK r \in {0, 1} : Return(t, r)
    BY <1>2
  <2>2. PICK lo \in Nat : lo = Origin(t)
    BY <1>1 DEF Origin
  <2> QED
    BY <1>1, <2>1, <2>2, ReturnStep
<1>3. ASSUME UNCHANGED call, pc'[t] \in QueryPoints, frame'[t].ent = frame[t].ent,
             ~frame'[t].doCopy, frame'[t] \in Frames, pc'[t] = "qtable" => frame'[t].i = 0,
             pc'[t] = "qlookup" => frame'[t].j < cur
      PROVE  ThreadInv(t)'
  <2>1. /\ stack'[t] = <<>> /\ key'[t] = key[t] /\ op'[t] = op[t]
        /\ pc'[t] # "idle" /\ pc'[t] \notin InsertPoints
    BY <1>1, <1>3 DEF call, QueryPoints, InsertPoints, CopyPoints
  <2>2. CallInv(t)'
    BY <1>1, <1>3, <2>1, BufferStep DEF CallInv
  <2>3. StackInv(t)'
    BY <2>1 DEF StackInv
  <2>4. PICK p \in QueryPoints, f \in Frames : p = pc'[t] /\ f = frame'[t]
    BY <1>3
  <2>5. PICK hi \in Nat : hi = Origin(t)'
    BY <1>1, <2>1 DEF Origin, shared
  <2>6. cur' = cur
    BY <1>1 DEF shared
  <2>7. PassedAt(p, f, hi)' /\ FrameAt(p, f)'
    BY <1>3, <2>4, <2>6
    DEF PassedAt, FrameAt, InsertPoints, ProbePoints, CopyPoints, QueryPoints
  <2>8. FrameInv(t)'
    BY <2>4, <2>5, <2>7, FrameWillBe
  <2> QED
    BY <2>2, <2>3, <2>8 DEF ThreadInv
<1>4. CASE QueryTable(t) /\ ~Return(t, 0)
  <2>1. /\ pc[t] = "qtable" /\ frame[t].j < cur /\ Goto(t, "qlookup") /\ UNCHANGED <<call, frame>>
        /\ ~frame[t].doCopy /\ frame[t] \in Frames
    BY <1>1, <1>4 DEF QueryTable, FrameInv, LocalsTyped, QueryPoints
  <2>2. pc'[t] = "qlookup" /\ frame'[t] = frame[t] /\ UNCHANGED call
    BY <1>1, <2>1, StaysEffect DEF Points
  <2> QED
    BY <1>3, <2>1, <2>2 DEF QueryPoints
<1>5. CASE lookupQuery(t) /\ ~Return(t, 0) /\ ~Return(t, 1)
  <2>1. /\ pc[t] = "qlookup" /\ NextAttempt(t, "qlookup", "qtable", frame[t].j + 1)
        /\ ~frame[t].doCopy /\ frame[t].j < cur
    BY <1>1, <1>5 DEF lookupQuery, FrameInv, QueryPoints, ProbePoints
  <2>2. PICK jj \in Nat : jj = frame[t].j + 1
    BY <1>1, FrameTyped DEF LocalsTyped
  <2>3. /\ LocalsTyped' /\ UNCHANGED call /\ frame'[t].ent = frame[t].ent
        /\ frame'[t].doCopy = frame[t].doCopy
        /\ \/ pc'[t] = "qlookup" /\ frame'[t].j = frame[t].j
           \/ pc'[t] = "qtable" /\ frame'[t].i = 0
    <3>1. "qlookup" \in Points /\ "qtable" \in Points
      BY DEF Points
    <3> QED
      BY <1>1, <2>1, <2>2, <3>1, NextEffect
  <2> QED
    BY <1>3, <2>1, <2>3 DEF QueryPoints, LocalsTyped
<1> QED
  BY <1>2, <1>4, <1>5

\* Every step of t leaves its own invariant true, and that of the other threads.
LEMMA ThreadInvStep ==
  ASSUME Inv, NEW t \in Threads, ThreadStep(t), NEW u \in Threads
  PROVE  ThreadInv(u)'
<1> LocalsTyped
  BY DEF Inv, Typed
<1>1. CASE u # t
  BY <1>1, OthersUnchanged, ThreadStays
<1>2. CASE u = t
  <2>1. CASE Drain(t)
    BY <1>2, <2>1, ThreadStays DEF Drain, SameLocals, call
  <2> QED
    BY <1>2, <2>1, CallThread, InsertTableThread, ReadStartThread, lookupThread, setPtrThread,
       CallCopyThread, CountThread, AdvanceStartThread, ClaimThread, RecheckThread, ReloadThread,
       addDropThread, AdvanceCurThread, QueryThread DEF ThreadStep, Step
<1> QED
  BY <1>1, <1>2
-----------------------------------------------------------------------------
(* The history                                                             *)

\* A step that leads to a point of the query is one of the query's, or a write of the
\* processor's.
LEMMA QueryFrom ==
  ASSUME LocalsTyped, NEW t \in Threads, ThreadStep(t), pc'[t] \in QueryPoints
  PROVE  CallQuery(t) \/ QueryTable(t) \/ lookupQuery(t) \/ Drain(t)
<1>1. \A label : Goto(t, label) => pc'[t] = label
  BY DEF Goto, LocalsTyped
<1>2. \A r : Return(t, r) => pc'[t] \in {"idle", "count"}
  BY <1>1 DEF Return
<1>3. \A again, after, jj : NextAttempt(t, again, after, jj) => pc'[t] \in {again, after}
  BY <1>1 DEF NextAttempt
<1>4. CASE CallInsert(t) \/ InsertTable(t) \/ ReadStart(t) \/ CallCopy(t) \/ CountCopy(t)
  <2>1. \E label \in {"table", "docopy", "grow", "lookup", "sum"} : Goto(t, label)
    BY <1>4 DEF CallInsert, InsertTable, ReadStart, CallCopy, CountCopy
  <2> QED
    BY <1>1, <2>1 DEF QueryPoints
<1>5. CASE ReloadCur(t) \/ addDrop(t) \/ AdvanceCur(t)
  <2>1. \E label \in {"table", "advance"} : Goto(t, label)
    BY <1>5 DEF ReloadCur, addDrop, AdvanceCur
  <2> QED
    BY <1>1, <2>1 DEF QueryPoints
<1>6. CASE \/ lookup(t) \/ setPtr(t) \/ SumCopies(t) \/ AdvanceStart(t) \/ ClaimSlot(t)
           \/ RecheckSlot(t)
  <2>1. \/ \E label \in {"claim", "setPtr", "copy", "start", "recheck"} : Goto(t, label)
        \/ \E r \in {0, 1} : Return(t, r)
        \/ NextAttempt(t, "lookup", "reload", frame[t].j)
    BY <1>6 DEF lookup, setPtr, SumCopies, AdvanceStart, ClaimSlot, RecheckSlot
  <2> QED
    BY <1>1, <1>2, <1>3, <2>1 DEF QueryPoints
<1> QED
  BY <1>4, <1>5, <1>6 DEF ThreadStep, Step

\* The answers seen after a step.
LEMMA LookStep ==
  ASSUME Inv, NEW t \in Threads, ThreadStep(t), Look, NEW u \in Threads
  PROVE  /\ op'[u] = "none" => seen'[u] = {}
         /\ op'[u] # "none" => (IF key'[u] \in Contents' THEN 1 ELSE 0) \in seen'[u]
         /\ op'[u] # "none" => seen[u] \subseteq seen'[u] /\ seen'[u] \subseteq seen[u] \cup {0, 1}
BY DEF Look

\* What a query has found out about its path stays true, and a query that has always
\* seen its key does not pass it.
LEMMA SeenStep ==
  ASSUME Inv, NEW t \in Threads, ThreadStep(t), Look, NEW u \in Threads
  PROVE  SeenInv(u)'
<1> TablesTyped /\ LocalsTyped /\ InOrder /\ CallInv(u) /\ SeenInv(u)
  BY DEF Inv, Typed, ThreadInv
<1> start \in Nat /\ cur \in Nat /\ frame[u].j \in Nat /\ frame[u].i \in Attempts /\ 0 \in Attempts
  BY FrameTyped, HashtableLazyAssumption DEF TablesTyped, LocalsTyped, Attempts
<1>t. CallInv(u)'
  BY ThreadInvStep DEF ThreadInv
<1>1. /\ op'[u] # "none" => (IF key'[u] \in Contents' THEN 1 ELSE 0) \in seen'[u]
      /\ op'[u] = "none" => seen'[u] = {}
  BY LookStep
<1>2. ASSUME pc'[u] \in QueryPoints, 0 \notin seen'[u]
      PROVE  ReachesFrom(key[u], frame[u].j, frame[u].i)'
  <2>1. op'[u] = "query" /\ key'[u] \in Contents' /\ 0 \notin seen[u]
    BY <1>2, <1>t, LookStep DEF CallInv, QueryPoints
  <2>2. PICK k \in Keys, jj \in Nat, n \in Attempts :
          k = key'[u] /\ jj = frame'[u].j /\ n = frame'[u].i
    <3>1. LocalsTyped' /\ key'[u] \in Keys
      BY <2>1, LocalsStep DEF Contents
    <3> QED
      BY <3>1, FrameTyped DEF LocalsTyped
  <2>0. SUFFICES ReachesFrom(k, jj, n)'
    BY <2>2
  <2>3. CASE SameLocals(u)
    <3>1. ReachesFrom(k, jj, n)
      BY <1>2, <2>1, <2>2, <2>3 DEF SameLocals, SeenInv
    <3> QED
      BY <3>1, ReachesStays
  <2>4. CASE ~SameLocals(u)
    <3>1. u = t
      BY <2>4, OthersUnchanged
    <3>2. CASE CallQuery(t)
      <4>1. k \in Contents'
        BY <2>1, <2>2
      <4>2. ~Claims(t)
        BY <3>2 DEF Claims, ClaimSlot, CallQuery
      <4>3. k \in Contents
        BY <4>1, <4>2, ContentsStep
      <4>4. jj = start /\ n = 0
        <5>1. PICK q \in Keys : frame'[t] = NewFrame(q, start)
          BY <3>2, CallEffect
        <5>2. frame'[t].j = start /\ frame'[t].i = 0
          BY <5>1, NewFrames
        <5> QED
          BY <2>2, <3>1, <5>2
      <4>5. ReachesFrom(k, start, 0)
        BY <4>3 DEF Inv, Found
      <4> QED
        BY <4>4, <4>5, ReachesStays
    <3>3. CASE QueryTable(t)
      <4>1. pc[t] = "qtable" /\ stack[t] = <<>>
        BY <3>1, <3>3 DEF QueryTable, CallInv, QueryPoints
      <4>2. UNCHANGED <<call, frame>>
        <5>1. ~Return(t, 0)
          BY <1>2, <3>1, <4>1, ReturnEffect DEF QueryPoints
        <5> QED
          BY <3>3, <5>1 DEF QueryTable
      <4>3. ReachesFrom(k, jj, n)
        BY <2>1, <2>2, <3>1, <4>1, <4>2 DEF SeenInv, QueryPoints, call
      <4> QED
        BY <4>3, ReachesStays
    <3>4. CASE lookupQuery(t)
      <4>1. pc[t] = "qlookup" /\ stack[t] = <<>>
        BY <3>1, <3>4 DEF lookupQuery, CallInv, QueryPoints
      <4>2. ASSUME NEW r \in {0, 1} PROVE ~Return(t, r)
        BY <1>2, <3>1, <4>1, ReturnEffect DEF QueryPoints
      <4>3. /\ Probed(t).key \notin {NULL, frame[t].ent}
            /\ NextAttempt(t, "qlookup", "qtable", frame[t].j + 1)
        BY <3>4, <4>2 DEF lookupQuery
      <4>4. PICK l \in Nat, m \in Attempts : l = frame[t].j /\ m = frame[t].i
        BY <3>1
      <4>5. frame[t].ent = key[t] /\ key'[t] = key[t]
        BY <3>1, <4>1, <4>3 DEF CallInv, NextAttempt, call
      <4>6. ReachesFrom(k, l, m)
        BY <2>1, <2>2, <3>1, <4>1, <4>4, <4>5 DEF SeenInv, QueryPoints
      <4>7. Slot(k, m, l).key # k
        BY <2>2, <3>1, <4>3, <4>4, <4>5 DEF Probed
      <4>8. /\ m + 1 \in Attempts => ReachesFrom(k, l, m + 1)
            /\ m = HashAttempts - 1 => ReachesFrom(k, l + 1, 0)
        BY <4>6, <4>7, ReachesNext
      <4>9. "qlookup" \in Points /\ "qtable" \in Points /\ frame[t].j + 1 \in Nat
        BY <4>4 DEF Points
      <4>10. \/ m + 1 \in Attempts /\ n = m + 1 /\ jj = l
             \/ m = HashAttempts - 1 /\ n = 0 /\ jj = l + 1
        BY <2>2, <3>1, <4>3, <4>4, <4>9, NextEffect
      <4>11. ReachesFrom(k, jj, n)
        BY <4>8, <4>10
      <4> QED
        BY <4>11, ReachesStays
    <3>5. CASE Drain(t)
      <4>1. SameLocals(u)
        BY <3>5 DEF Drain, SameLocals, call
      <4> QED
        BY <2>4, <4>1
    <3> QED
      BY <1>2, <3>1, <3>2, <3>3, <3>4, <3>5, QueryFrom
  <2> QED
    BY <2>3, <2>4
<1> QED
  BY <1>1, <1>2 DEF SeenInv
-----------------------------------------------------------------------------
(* The inductive invariant                                                 *)

\* It holds at the start,
LEMMA InitInv ==
  ASSUME Init
  PROVE  Inv
<1>1. InitSize \in Nat \ {0} /\ NULL \notin Keys
  BY HashtableLazyAssumption
<1>2. DOMAIN TableArray = {0} /\ TableArray[0] = createTable(InitSize)
  BY DEF Init
<1>3. /\ IsSubTable(TableArray[0]) /\ TableArray[0].TableSize = InitSize
      /\ \A s \in 0 .. InitSize - 1 : TableArray[0].InnerTable[s] = Null
      /\ \A u \in Threads : TableArray[0].threadCopy[u] = 0
  BY <1>1, <1>2, NewSubTable
<1>4. TablesTyped
  BY <1>2, <1>3 DEF Init, TablesTyped
<1>5. LocalsTyped
  BY NewFrames DEF Init, LocalsTyped, Points
<1>6. InOrder
  BY <1>2 DEF Init, InOrder
<1>7. \A jj \in DOMAIN TableArray : \A s \in Slots(jj) : At(jj, s) = Null
  BY <1>2, <1>3 DEF Slots, At
<1>8. /\ \A jj \in DOMAIN TableArray : \A s \in Slots(jj) :
           At(jj, s).key = NULL /\ At(jj, s).bool = 0
      /\ Contents = {}
  <2>1. \A jj \in DOMAIN TableArray : \A s \in Slots(jj) :
          At(jj, s).key = NULL /\ At(jj, s).bool = 0
    BY <1>7 DEF Null
  <2> QED
    BY <1>1, <2>1 DEF Contents
<1>10. \A jj \in DOMAIN TableArray : Completed(jj) = {}
  BY <1>8 DEF Completed
<1>11. \A jj \in DOMAIN TableArray : Tally(jj) = {}
  <2> SUFFICES ASSUME NEW jj \in DOMAIN TableArray
               PROVE  Tally(jj) = {}
    OBVIOUS
  <2>1. \A u \in Threads : Counted(u, jj, u) = 0
    BY <1>2, <1>3 DEF Counted, Init, None
  <2>2. \A u \in Threads : {u} \X (1 .. Counted(u, jj, u)) = {}
    BY <2>1
  <2> QED
    BY <2>2 DEF Tally
<1>12. Copied
  <2>1. start = 0 /\ DOMAIN TableArray = {0}
    BY <1>2 DEF Init
  <2> QED
    BY <1>10, <1>11, <2>1, FS_EmptySet DEF Copied
<1>13. Found /\ OnPath /\ OncePerSubtable /\ UnmarkedOnce
  BY <1>8 DEF Found, OnPath, OncePerSubtable, UnmarkedOnce
<1>14. Distinct
  BY DEF Init, Distinct, PendingAt, IsPending
<1>15. seen \in [Threads -> SUBSET {0, 1}]
  BY DEF Init
<1>16. ASSUME NEW t \in Threads
       PROVE  ThreadInv(t) /\ SeenInv(t)
  <2>1. /\ pc[t] = "idle" /\ op[t] = "none" /\ stack[t] = <<>> /\ frame[t] = NoFrame
        /\ buffer[t] = None /\ seen[t] = {}
    BY <1>16 DEF Init
  <2>2. CallInv(t)
    BY <2>1 DEF CallInv, InsertPoints, CopyPoints, QueryPoints
  <2>3. StackInv(t)
    BY <2>1 DEF StackInv
  <2>4. ~frame[t].doCopy
    BY <2>1, NewFrames
  <2>5. FrameInv(t)
    BY <2>1, <2>4 DEF FrameInv, InsertPoints, CopyPoints, QueryPoints, ProbePoints
  <2> QED
    BY <2>1, <2>2, <2>3, <2>5 DEF ThreadInv, SeenInv, QueryPoints
<1> QED
  BY <1>4, <1>5, <1>6, <1>12, <1>13, <1>14, <1>15, <1>16 DEF Inv, Typed

\* it stays true when nothing changes,
LEMMA StutterInv ==
  ASSUME Inv, UNCHANGED vars
  PROVE  Inv'
<1>1. /\ TableArray' = TableArray /\ start' = start /\ cur' = cur /\ buffer' = buffer
      /\ pc' = pc /\ op' = op /\ key' = key /\ ret' = ret /\ frame' = frame /\ stack' = stack
      /\ seen' = seen
  BY DEF vars
<1>2. /\ \A jj : Slots(jj)' = Slots(jj)
      /\ \A jj, s : At(jj, s)' = At(jj, s)
      /\ \A k, n, jj : Bucket(k, n, jj)' = Bucket(k, n, jj) /\ Slot(k, n, jj)' = Slot(k, n, jj)
  BY <1>1 DEF Slots, At, Bucket, Slot
<1>3. Contents' = Contents
  BY <1>1, <1>2 DEF Contents
<1>4. /\ \A k, lo, jj, n : PassedTo(k, lo, jj, n)' = PassedTo(k, lo, jj, n)
      /\ \A k, lo, n0, jj, n : Clear(k, lo, n0, jj, n)' = Clear(k, lo, n0, jj, n)
  BY <1>1, <1>2 DEF PassedTo, Clear
<1>5. \A k, lo, n0 : ReachesFrom(k, lo, n0)' = ReachesFrom(k, lo, n0)
  BY <1>1, <1>2, <1>4 DEF ReachesFrom
<1>6. \A t, jj, s : PendingAt(t, jj, s)' = PendingAt(t, jj, s)
  BY <1>1, <1>2 DEF PendingAt, IsPending, Marker, Marked
<1>7. \A jj : Completed(jj)' = Completed(jj) /\ Tally(jj)' = Tally(jj)
  BY <1>1, <1>2, <1>6 DEF Completed, Tally, Counted
<1>8. Typed'
  BY <1>1 DEF Inv, Typed, TablesTyped, LocalsTyped
<1>9. InOrder' /\ Found' /\ OnPath'
  BY <1>1, <1>2, <1>3, <1>4, <1>5 DEF Inv, InOrder, Found, OnPath
<1>10. Copied'
  BY <1>1, <1>2, <1>5, <1>7 DEF Inv, Copied
<1>11. OncePerSubtable' /\ UnmarkedOnce' /\ Distinct'
  BY <1>1, <1>2, <1>6 DEF Inv, OncePerSubtable, UnmarkedOnce, Distinct
<1>12. ASSUME NEW t \in Threads
       PROVE  ThreadInv(t)' /\ SeenInv(t)'
  <2> ThreadInv(t) /\ SeenInv(t)
    BY DEF Inv
  <2>1. CallInv(t)' /\ SeenInv(t)'
    BY <1>1, <1>3, <1>5 DEF ThreadInv, CallInv, SeenInv
  <2>2. StackInv(t)'
    BY <1>1, <1>2, <1>4 DEF ThreadInv, StackInv
  <2>3. FrameInv(t)'
    BY <1>1, <1>2, <1>4, <1>5, <1>7 DEF ThreadInv, FrameInv, Probed, Origin
  <2> QED
    BY <2>1, <2>2, <2>3 DEF ThreadInv
<1>13. (seen \in [Threads -> SUBSET {0, 1}])'
  BY <1>1 DEF Inv
<1> QED
  BY <1>8, <1>9, <1>10, <1>11, <1>12, <1>13 DEF Inv

\* and every step keeps it.
LEMMA StepInv ==
  ASSUME Inv, NEW t \in Threads, ThreadStep(t), Look
  PROVE  Inv'
<1>1. TablesTyped' /\ InOrder'
  BY TablesStep DEF TablesOf, Grows
<1>2. Typed'
  BY <1>1, LocalsStep DEF Typed
<1>3. Copied' /\ Found' /\ OnPath' /\ OncePerSubtable' /\ UnmarkedOnce' /\ Distinct'
  BY CopiedStep, FoundStep, OnPathStep, OnceStep, DistinctStep
<1>4. seen' \in [Threads -> SUBSET {0, 1}]
  BY DEF Look, Inv
<1>5. \A u \in Threads : ThreadInv(u)' /\ SeenInv(u)'
  BY ThreadInvStep, SeenStep
<1> QED
  BY <1>1, <1>2, <1>3, <1>4, <1>5 DEF Inv

\* The inductive invariant holds throughout.
THEOREM Invariance ==
  Spec => []Inv
<1>1. Inv /\ [Next]_vars => Inv'
  BY StutterInv, StepInv DEF Next, ThreadStep
<1> QED
  BY <1>1, InitInv, PTL DEF Spec

\* Every variable of HashtableLazy has its type, and no insertTable that copies
\* calls one that copies.
THEOREM TypeCorrect ==
  Spec => []TypeOK
<1>1. Inv => TypeOK
  <2> SUFFICES ASSUME Inv
               PROVE  TypeOK
    OBVIOUS
  <2>1. ASSUME NEW t \in Threads
        PROVE  stack[t] \in Seq(Frames) /\ Len(stack[t]) <= 1
    <3>1. CASE stack[t] = <<>>
      BY <3>1
    <3>2. CASE stack[t] # <<>>
      <4>1. PICK g \in Frames : stack[t] = <<g>>
        BY <3>2 DEF Inv, Typed, LocalsTyped
      <4> QED
        BY <4>1
    <3> QED
      BY <3>1, <3>2
  <2>2. ASSUME NEW jj \in DOMAIN TableArray
        PROVE  /\ TableArray[jj].TableSize \in Nat \ {0}
               /\ TableArray[jj].InnerTable \in [Slots(jj) -> Pointers]
               /\ TableArray[jj].threadCopy \in [Threads -> Nat]
    BY DEF Inv, Typed, TablesTyped, IsSubTable, Slots
  <2> QED
    BY <2>1, <2>2 DEF Inv, Typed, TablesTyped, LocalsTyped, TypeOK
<1> QED
  BY <1>1, Invariance, PTL

\* head->start moves on only when everything below it has been copied: a call that starts
\* later finds every key that is in the table.
THEOREM StartLosesNoKeyCorrect ==
  Spec => []StartLosesNoKey
<1>1. Inv => StartLosesNoKey
  <2> SUFFICES ASSUME Inv, NEW k \in Contents
               PROVE  Reaches(k, start)
    BY DEF StartLosesNoKey
  <2>1. k \in Keys /\ start \in Nat /\ TablesTyped /\ InOrder
    BY DEF Inv, Typed, TablesTyped, Contents
  <2>2. ReachesFrom(k, start, 0)
    BY DEF Inv, Found
  <2> QED
    BY <2>1, <2>2, ReachesIs
<1> QED
  BY <1>1, Invariance, PTL

\* threadCopy counts copies that are complete, whatever is still in the buffers: what it
\* counts in a subtable is at most the marked slots whose keys are also further up.
THEOREM CountedIsCopiedCorrect ==
  Spec => []CountedIsCopied
<1>1. Inv => CountedIsCopied
  <2> SUFFICES ASSUME Inv, NEW jj \in DOMAIN TableArray
               PROVE  Cardinality(UNION {{u} \X (1 .. TableArray[jj].threadCopy[u]) :
                                           u \in Threads})
                        <= Cardinality({s \in Slots(jj) :
                                          At(jj, s).bool = 1 /\ Reaches(At(jj, s).key, jj + 1)})
    BY DEF CountedIsCopied
  <2> DEFINE C == UNION {{u} \X (1 .. TableArray[jj].threadCopy[u]) : u \in Threads}
             R == {s \in Slots(jj) : At(jj, s).bool = 1 /\ Reaches(At(jj, s).key, jj + 1)}
  <2>1. TablesTyped /\ InOrder /\ Copied /\ jj \in Nat /\ jj + 1 \in Nat
    BY DEF Inv, Typed, TablesTyped
  <2>2. ASSUME NEW u \in Threads
        PROVE  TableArray[jj].threadCopy[u] \in Nat
               /\ Counted(u, jj, u) \in Nat /\ TableArray[jj].threadCopy[u] <= Counted(u, jj, u)
    BY <2>1 DEF TablesTyped, IsSubTable, Counted
  <2>3. C \subseteq Tally(jj)
    <3>1. \A u \in Threads : {u} \X (1 .. TableArray[jj].threadCopy[u])
                               \subseteq {u} \X (1 .. Counted(u, jj, u))
      BY <2>2
    <3> QED
      BY <3>1 DEF Tally
  <2>4. Completed(jj) \subseteq R
    <3> SUFFICES ASSUME NEW s \in Completed(jj)
                 PROVE  s \in R
      OBVIOUS
    <3>1. s \in Slots(jj) /\ At(jj, s).bool = 1 /\ ReachesFrom(At(jj, s).key, jj + 1, 0)
      BY <2>1 DEF Completed, Copied
    <3>2. At(jj, s).key \in Keys
      BY <2>1, <3>1, AtTyped
    <3>3. Reaches(At(jj, s).key, jj + 1)
      BY <2>1, <3>1, <3>2, ReachesIs
    <3> QED
      BY <3>1, <3>3
  <2>5. R \subseteq Slots(jj)
    OBVIOUS
  <2> HIDE DEF C, R
  <2>6. IsFiniteSet(R) /\ IsFiniteSet(Completed(jj)) /\ IsFiniteSet(Tally(jj))
    BY <2>1, <2>5, SlotsFinite, FS_Subset DEF Copied
  <2>7. /\ Cardinality(C) <= Cardinality(Tally(jj))
        /\ Cardinality(Tally(jj)) <= Cardinality(Completed(jj))
        /\ Cardinality(Completed(jj)) <= Cardinality(R)
    BY <2>1, <2>3, <2>4, <2>6, FS_Subset DEF Copied
  <2>8. /\ Cardinality(C) \in Nat /\ Cardinality(Tally(jj)) \in Nat
        /\ Cardinality(Completed(jj)) \in Nat /\ Cardinality(R) \in Nat
    BY <2>3, <2>6, FS_Subset, FS_CardinalityType
  <2>9. Cardinality(C) <= Cardinality(R)
    BY <2>7, <2>8
  <2> QED
    BY <2>9 DEF C, R
<1> QED
  BY <1>1, Invariance, PTL

\* A key is moved, not doubled: it never has two unmarked slots, and it has one when no
\* thread is inside a call.
THEOREM OneUnmarkedSlotCorrect ==
  Spec => []OneUnmarkedSlot
<1>1. Inv => OneUnmarkedSlot
  <2> SUFFICES ASSUME Inv, NEW k \in Contents
               PROVE  /\ Cardinality(Unmarked(k)) <= 1
                      /\ (\A t \in Threads : pc[t] = "idle") => Cardinality(Unmarked(k)) = 1
    BY DEF OneUnmarkedSlot
  <2>1. /\ TablesTyped /\ InOrder /\ Copied /\ UnmarkedOnce /\ ReachesFrom(k, start, 0)
        /\ k \in Keys /\ k # NULL /\ start \in Nat /\ cur \in Nat /\ DOMAIN TableArray \subseteq Nat
    BY HashtableLazyAssumption DEF Inv, Typed, TablesTyped, Contents, Found
  <2>2. \A x \in Unmarked(k) : \E jj \in DOMAIN TableArray : \E s \in Slots(jj) :
          x = <<jj, s>> /\ At(jj, s) = [key |-> k, bool |-> 0]
    BY DEF Unmarked
  <2>3. ASSUME NEW x \in Unmarked(k), NEW y \in Unmarked(k)
        PROVE  x = y
    <3>1. PICK j1 \in DOMAIN TableArray : \E s \in Slots(j1) :
            x = <<j1, s>> /\ At(j1, s) = [key |-> k, bool |-> 0]
      BY <2>2, <2>3
    <3>2. PICK s1 \in Slots(j1) : x = <<j1, s1>> /\ At(j1, s1) = [key |-> k, bool |-> 0]
      BY <3>1
    <3>3. PICK j2 \in DOMAIN TableArray : \E s \in Slots(j2) :
            y = <<j2, s>> /\ At(j2, s) = [key |-> k, bool |-> 0]
      BY <2>2, <2>3
    <3>4. PICK s2 \in Slots(j2) : y = <<j2, s2>> /\ At(j2, s2) = [key |-> k, bool |-> 0]
      BY <3>3
    <3>5. At(j1, s1) = At(j2, s2) /\ At(j1, s1).key # NULL /\ At(j1, s1).bool = 0
      BY <2>1, <3>2, <3>4
    <3>6. j1 = j2 /\ s1 = s2
      BY <2>1, <3>5 DEF UnmarkedOnce
    <3> QED
      BY <3>2, <3>4, <3>6
  <2>4. CASE Unmarked(k) = {}
    <3>1. Cardinality(Unmarked(k)) = 0
      BY <2>4, FS_EmptySet
    <3>2. ASSUME \A t \in Threads : pc[t] = "idle"
          PROVE  FALSE
      <4>1. ASSUME NEW jj \in DOMAIN TableArray, NEW n \in Attempts, Slot(k, n, jj).key = k
            PROVE  Slot(k, n, jj).bool = 1
        <5>1. PICK s \in Slots(jj) : s = Bucket(k, n, jj)
          BY <2>1, BucketInRange
        <5>2. /\ Slot(k, n, jj) = At(jj, s) /\ Slot(k, n, jj).bool \in {0, 1}
              /\ Slot(k, n, jj) = [key |-> Slot(k, n, jj).key, bool |-> Slot(k, n, jj).bool]
          BY <2>1, <5>1, SlotTyped
        <5>3. CASE Slot(k, n, jj).bool = 0
          <6>1. At(jj, s) = [key |-> k, bool |-> 0]
            BY <4>1, <5>2, <5>3
          <6>2. <<jj, s>> \in Unmarked(k)
            BY <6>1 DEF Unmarked
          <6> QED
            BY <2>4, <6>2
        <5> QED
          BY <5>2, <5>3
      <4>2. PICK jj \in DOMAIN TableArray, n \in Attempts :
              jj < cur /\ ~Before(jj, n, start, 0) /\ Slot(k, n, jj).key = k
        BY <2>1 DEF ReachesFrom
      <4>3. PICK s \in Slots(jj) : s = Bucket(k, n, jj) /\ At(jj, s) = Slot(k, n, jj)
        BY <2>1, BucketInRange, SlotTyped
      <4>4. At(jj, s).bool = 1 /\ At(jj, s).key = k
        BY <4>1, <4>2, <4>3
      <4>5. jj = start
        <5>1. ~(jj > start)
          BY <2>1, <4>4 DEF Copied
        <5> QED
          BY <2>1, <4>2, <5>1 DEF Before
      <4>6. \A t \in Threads : ~IsPending(t)
        BY <3>2 DEF Inv, ThreadInv, CallInv, IsPending
      <4>7. s \in Completed(jj)
        BY <4>4, <4>6 DEF Completed, PendingAt
      <4>8. ReachesFrom(k, start + 1, 0)
        BY <2>1, <4>4, <4>5, <4>7 DEF Copied
      <4>9. PICK j2 \in DOMAIN TableArray, m \in Attempts :
              ~Before(j2, m, start + 1, 0) /\ Slot(k, m, j2).key = k
        BY <4>8 DEF ReachesFrom
      <4>10. j2 > start
        BY <2>1, <4>9 DEF Before
      <4>11. PICK s2 \in Slots(j2) : At(j2, s2) = Slot(k, m, j2)
        BY <2>1, BucketInRange, SlotTyped
      <4>12. At(j2, s2).bool = 0 /\ At(j2, s2).bool = 1
        BY <2>1, <4>1, <4>9, <4>10, <4>11 DEF Copied
      <4> QED
        BY <4>12
    <3> QED
      BY <3>1, <3>2
  <2>5. CASE Unmarked(k) # {}
    <3>1. PICK x : x \in Unmarked(k)
      BY <2>5
    <3>2. Unmarked(k) = {x}
      BY <2>3, <3>1
    <3>3. Cardinality(Unmarked(k)) = 1
      BY <3>2, FS_Singleton
    <3> QED
      BY <3>3
  <2> QED
    BY <2>4, <2>5
<1> QED
  BY <1>1, Invariance, PTL
-----------------------------------------------------------------------------
(* Refinement of ConcurrentSet                                             *)

\* A key that a probe has found is in the table.
LEMMA ProbedIsIn ==
  ASSUME Inv, NEW t \in Threads, pc[t] \in ProbePoints, Probed(t).key = frame[t].ent
  PROVE  frame[t].ent \in Contents
<1>1. /\ frame[t].j \in DOMAIN TableArray /\ frame[t].i \in Attempts /\ frame[t].ent \in Keys
      /\ TablesTyped
  BY ProbeInRange DEF Inv, Typed
<1> QED
  BY <1>1, ReachedIsIn DEF Probed

\* An insert that returns 1 takes effect at its compare-and-swap; an insert that returns 0,
\* and every query, returns an answer that its history has seen.  The copy of an entry,
\* which returns to lookup, changes nothing.
LEMMA StepImplements ==
  ASSUME Inv, NEW t \in Threads, ThreadStep(t), Look
  PROVE  [Set!Next]_(Set!vars)
<1> /\ TablesTyped /\ LocalsTyped /\ InOrder /\ CallInv(t) /\ SeenInv(t)
    /\ start \in Nat /\ cur \in Nat
  BY DEF Inv, Typed, TablesTyped, ThreadInv
<1>c. /\ Claims(t) /\ stack[t] = <<>> =>
           frame[t].ent \notin Contents /\ Contents' = Contents \cup {frame[t].ent}
      /\ ~(Claims(t) /\ stack[t] = <<>>) => Contents' = Contents
  BY ContentsStep
<1>l. Set!Look
  BY DEF Look, Set!Look
<1>p. /\ pc[t] \in InsertPoints => op[t] = "insert"
      /\ pc[t] \in QueryPoints => op[t] = "query" /\ stack[t] = <<>> /\ frame[t].ent = key[t]
      /\ pc[t] # "idle" /\ stack[t] = <<>> => frame[t].ent = key[t] /\ key[t] \in Keys
  BY DEF CallInv, QueryPoints
<1>s. pc[t] # "idle" => (key[t] \in Contents => 1 \in seen[t])
  BY DEF CallInv, SeenInv
<1>1. ASSUME NEW o \in {"insert", "query"}, NEW k \in Keys, pc[t] = "idle",
             key' = [key EXCEPT ![t] = k], op' = [op EXCEPT ![t] = o], ret' = [ret EXCEPT ![t] = 0],
             Contents' = Contents
      PROVE  Set!Next
  <2>1. Set!Invoke(t, o, k)
    BY <1>1, <1>l DEF CallInv, Set!Invoke
  <2> QED
    BY <2>1 DEF Set!Next
<1>2. ASSUME Contents' = Contents, UNCHANGED <<op, key, ret>>
      PROVE  UNCHANGED Set!vars
  <2>1. op' = op /\ key' = key /\ ret' = ret
    BY <1>2
  <2>2. ASSUME NEW u \in Threads
        PROVE  seen'[u] = seen[u]
    <3>1. SeenInv(u)
      BY DEF Inv
    <3> QED
      BY <1>2, <2>1, <3>1 DEF Look, SeenInv
  <2>3. seen' = seen
    BY <2>2 DEF Look, Inv
  <2> QED
    BY <1>2, <2>1, <2>3 DEF Set!vars
<1>3. ASSUME pc[t] \in {"lookup", "recheck"}, Probed(t).key = frame[t].ent, Return(t, 0),
             Contents' = Contents
      PROVE  [Set!Next]_(Set!vars)
  <2>1. CASE stack[t] # <<>>
    BY <1>2, <1>3, <2>1 DEF Return
  <2>2. CASE stack[t] = <<>>
    <3>1. op[t] = "insert" /\ key[t] = frame[t].ent
      BY <1>3, <1>p, <2>2 DEF InsertPoints
    <3>2. 1 \in seen[t]
      BY <1>3, <1>s, <3>1, ProbedIsIn DEF ProbePoints
    <3>3. Set!Insert(t)
      BY <1>3, <1>l, <2>2, <3>1, <3>2 DEF Return, Set!Insert, Set!Complete
    <3> QED
      BY <3>3 DEF Set!Next
  <2> QED
    BY <2>1, <2>2
<1>4. ASSUME NEW r \in {0, 1}, pc[t] \in QueryPoints, r \in seen[t], Return(t, r),
             Contents' = Contents
      PROVE  Set!Next
  <2>1. Set!Query(t)
    BY <1>4, <1>l, <1>p DEF Return, Set!Query, Set!Complete
  <2> QED
    BY <2>1 DEF Set!Next
<1>5. CASE CallInsert(t)
  <2>1. PICK k \in Keys : key' = [key EXCEPT ![t] = k]
    BY <1>5 DEF CallInsert
  <2> QED
    BY <1>1, <1>5, <1>c, <2>1 DEF CallInsert, Claims, ClaimSlot
<1>6. CASE CallQuery(t)
  <2>1. PICK k \in Keys : key' = [key EXCEPT ![t] = k]
    BY <1>6 DEF CallQuery
  <2> QED
    BY <1>1, <1>6, <1>c, <2>1 DEF CallQuery, Claims, ClaimSlot
<1>7. CASE \/ InsertTable(t) \/ ReadStart(t) \/ setPtr(t) \/ CallCopy(t) \/ CountCopy(t)
           \/ SumCopies(t) \/ AdvanceStart(t) \/ ReloadCur(t) \/ addDrop(t) \/ AdvanceCur(t)
           \/ Drain(t)
  <2>1. UNCHANGED <<op, key, ret>>
    BY <1>7 DEF InsertTable, ReadStart, setPtr, CallCopy, CountCopy, SumCopies, AdvanceStart,
                ReloadCur, addDrop, AdvanceCur, Drain, NextAttempt, call
  <2>2. ~Claims(t)
    <3>1. CASE pc[t] # "claim"
      BY <3>1 DEF Claims, ClaimSlot
    <3>2. CASE Drain(t)
      BY <3>2 DEF Claims, ClaimSlot, Drain, Drained
    <3> QED
      BY <1>7, <3>1, <3>2 DEF InsertTable, ReadStart, setPtr, CallCopy, CountCopy, SumCopies,
                              AdvanceStart, ReloadCur, addDrop, AdvanceCur
  <2> QED
    BY <1>2, <1>c, <2>1, <2>2
<1>8. CASE lookup(t) \/ RecheckSlot(t)
  <2>1. Contents' = Contents /\ pc[t] \in {"lookup", "recheck"}
    BY <1>8, <1>c DEF lookup, RecheckSlot, Claims, ClaimSlot
  <2>2. CASE UNCHANGED <<op, key, ret>>
    BY <1>2, <2>1, <2>2
  <2>3. CASE Probed(t).key = frame[t].ent /\ Return(t, 0)
    BY <1>3, <2>1, <2>3
  <2> QED
    BY <1>8, <2>2, <2>3 DEF lookup, RecheckSlot, NextAttempt, call
<1>9. CASE ClaimSlot(t)
  <2>1. CASE Probed(t) = Null /\ stack[t] = <<>>
    <3>1. Return(t, 1) /\ Claims(t) /\ op[t] = "insert" /\ frame[t].ent = key[t]
      BY <1>9, <1>p, <2>1 DEF ClaimSlot, Claims, InsertPoints
    <3>2. Set!Insert(t)
      BY <1>c, <1>l, <2>1, <3>1 DEF Return, Set!Insert, Set!Complete
    <3> QED
      BY <3>2 DEF Set!Next
  <2>2. CASE ~(Probed(t) = Null /\ stack[t] = <<>>)
    <3>1. UNCHANGED <<op, key, ret>> /\ ~(Claims(t) /\ stack[t] = <<>>)
      BY <1>9, <2>2 DEF ClaimSlot, Claims, Return, call
    <3> QED
      BY <1>2, <1>c, <3>1
  <2> QED
    BY <2>1, <2>2
<1>q. ASSUME pc[t] \in QueryPoints, 0 \notin seen[t]
      PROVE  /\ frame[t].j < cur
             /\ frame[t].j \in DOMAIN TableArray => Probed(t).key # NULL
  <2>1. PICK k \in Keys, jj \in Nat, n \in Attempts :
          k = key[t] /\ jj = frame[t].j /\ n = frame[t].i /\ k = frame[t].ent
    BY <1>p, <1>q, FrameTyped DEF LocalsTyped, QueryPoints
  <2>2. ReachesFrom(k, jj, n)
    BY <1>q, <2>1 DEF SeenInv
  <2>3. jj < cur /\ (jj \in DOMAIN TableArray => Slot(k, n, jj).key # NULL)
    BY <2>2, ReachesHere
  <2> QED
    BY <2>1, <2>3 DEF Probed
<1>10. CASE QueryTable(t)
  <2>1. Contents' = Contents /\ pc[t] = "qtable"
    BY <1>10, <1>c DEF QueryTable, Claims, ClaimSlot
  <2>2. CASE UNCHANGED <<op, key, ret>>
    BY <1>2, <2>1, <2>2
  <2>3. CASE ~(frame[t].j < cur) /\ Return(t, 0)
    BY <1>4, <1>q, <2>1, <2>3 DEF QueryPoints
  <2> QED
    BY <1>10, <2>2, <2>3 DEF QueryTable, call
<1>11. CASE lookupQuery(t)
  <2>1. Contents' = Contents /\ pc[t] = "qlookup"
    BY <1>11, <1>c DEF lookupQuery, Claims, ClaimSlot
  <2>2. CASE UNCHANGED <<op, key, ret>>
    BY <1>2, <2>1, <2>2
  <2>3. CASE Probed(t) = Null /\ Return(t, 0)
    <3>1. Probed(t).key = NULL /\ frame[t].j \in DOMAIN TableArray
      BY <2>1, <2>3, ProbeInRange DEF ProbePoints
    <3> QED
      BY <1>4, <1>q, <2>1, <2>3, <3>1 DEF QueryPoints
  <2>4. CASE Probed(t).key = frame[t].ent /\ Return(t, 1)
    <3>1. key[t] \in Contents
      BY <1>p, <2>1, <2>4, ProbedIsIn DEF ProbePoints, QueryPoints
    <3> QED
      BY <1>4, <1>s, <2>1, <2>4, <3>1 DEF QueryPoints
  <2> QED
    BY <1>11, <2>2, <2>3, <2>4 DEF lookupQuery, NextAttempt, call
<1> QED
  BY <1>5, <1>6, <1>7, <1>8, <1>9, <1>10, <1>11 DEF ThreadStep, Step

\* hashtable_lazy.c is a linearizable set while its entries move and head->start with them:
\* every behaviour is, through Contents, a behaviour of ConcurrentSet.
THEOREM Linearizability ==
  Spec => Linearizable
<1>1. Init => Set!Init
  <2> SUFFICES ASSUME Init
               PROVE  Set!Init
    OBVIOUS
  <2>1. DOMAIN TableArray = {0} /\ TableArray[0] = createTable(InitSize)
    BY DEF Init
  <2>2. \A s \in Slots(0) : At(0, s).key = NULL
    BY <2>1, HashtableLazyAssumption, NewSubTable DEF Slots, At, Null
  <2>3. Contents = {}
    BY <2>1, <2>2, HashtableLazyAssumption DEF Contents
  <2> QED
    BY <2>3 DEF Init, Set!Init
<1>2. Inv /\ [Next]_vars => [Set!Next]_(Set!vars)
  <2> SUFFICES ASSUME Inv, [Next]_vars
               PROVE  [Set!Next]_(Set!vars)
    OBVIOUS
  <2>1. CASE UNCHANGED vars
    BY <2>1 DEF vars, Set!vars, Contents, Slots, At
  <2>2. CASE Next
    BY <2>2, StepImplements DEF Next, ThreadStep
  <2> QED
    BY <2>1, <2>2
<1> QED
  BY <1>1, <1>2, Invariance, PTL DEF Spec, Linearizable, Set!Spec
=============================================================================
