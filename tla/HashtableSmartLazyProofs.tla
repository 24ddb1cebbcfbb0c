---------------------- MODULE HashtableSmartLazyProofs ----------------------
(***************************************************************************)
(* Proofs about HashtableSmartLazy, for any keys, entries and threads, any *)
(* hash function and any number of probes.                                 *)
(***************************************************************************)
EXTENDS HashtableSmartLazy, FiniteSetTheorems, TLAPS

CopyPoints == {"setPtr", "copy", "count", "start", "retire"}
InsertPoints == {"table", "lookup", "claim", "size", "grow", "advance"} \cup CopyPoints
DonePoints == {"undeleted", "dComp"}
QueryPoints == {"qtable", "qlookup", "delete"}
ProbePoints == {"lookup", "claim", "qlookup", "delete"} \cup CopyPoints \cup DonePoints

SubTableSet ==
  UNION {[TableSize : {z}, InnerTable : [0 .. z - 1 -> Pointers], threadCopy : [Threads -> Nat],
          insertCount : Nat, deleteCount : Nat] : z \in Nat \ {0}}

TablesTyped ==
  /\ SubTables \in Seq(SubTableSet)
  /\ freed \subseteq DOMAIN SubTables
  /\ TableArray \in [0 .. MaxTables - 1 -> {None} \cup DOMAIN SubTables]
  /\ toFree \in [0 .. MaxTables - 1 -> {None} \cup DOMAIN SubTables]
  /\ start \in Nat /\ cur \in Nat
  /\ isDeleted \in [Entries -> {0, 1}]

\* What is in a stack: inserts that called insertTable again.
CallerFrames ==
  {f \in Frames : /\ f.ht \in DOMAIN SubTables /\ f.val \in Keys /\ f.ent \in Entries
                  /\ f.j < cur /\ f.back \in {"dComp", "count"}}

LocalsTyped ==
  /\ pc \in [Threads -> Points]
  /\ op \in [Threads -> {"none", "insert", "query", "delete"}]
  /\ key \in [Threads -> Keys \cup {NULL}]
  /\ ret \in [Threads -> {0, 1}]
  /\ frame \in [Threads -> Frames]
  /\ stack \in [Threads -> Seq(CallerFrames)]

\* What the locals of t are where it is.  The window of subtables stays within half of
\* the array because an insert that grows it is never further from head->start than it was
\* at the assertion.
ThreadTyped(t) ==
  /\ pc[t] # "idle" => frame[t].val \in Keys
  /\ pc[t] \in InsertPoints \cup DonePoints => frame[t].ent \in Entries
  /\ pc[t] \in ProbePoints => frame[t].ht \in DOMAIN SubTables /\ frame[t].j < cur
  /\ pc[t] \in QueryPoints => frame[t].limit <= cur
  /\ pc[t] \in {"undeleted", "setPtr", "copy", "delete"} => Probed(t) # Null
  /\ pc[t] \in {"table", "size", "grow", "advance"} => frame[t].j <= cur \/ frame[t].j <= start + 1
  /\ pc[t] \in {"grow", "advance"} => frame[t].j - start < MaxTables \div 2
  /\ pc[t] = "grow" => frame[t].size # 0

\* The part of the inductive invariant that holds whatever crosses and however late.
Typed ==
  /\ TablesTyped /\ LocalsTyped
  /\ \A t \in Threads : ThreadTyped(t)
  /\ WindowIsHalf
  /\ seen \in [Threads -> SUBSET {0, 1}]
  /\ crossed \in BOOLEAN /\ late \in BOOLEAN

ThreadStep(t) == CallInsert(t) \/ CallQuery(t) \/ CallDelete(t) \/ Step(t)
-----------------------------------------------------------------------------
(* The memory                                                              *)

\* What a slot holds.
LEMMA PointerTyped ==
  ASSUME NEW p \in Pointers
  PROVE  /\ p.ent \in Entries \cup {NULL} /\ p.bool \in {0, 1}
         /\ p # Null <=> p.ent # NULL
         /\ p # Null => p.ent \in Entries /\ val[p.ent] \in Keys
         /\ p = Null => p.ent = NULL /\ p.bool = 0
         /\ p = [ent |-> p.ent, bool |-> p.bool]
<1>1. NULL \notin Entries
  BY HashtableSmartLazyAssumption
<1>2. CASE p = Null
  BY <1>1, <1>2 DEF Null
<1>3. CASE p \in [ent : Entries, bool : {0, 1}]
  BY <1>1, <1>3 DEF Null, Keys
<1> QED
  BY <1>2, <1>3 DEF Pointers

\* The fields of a subtable.
LEMMA TableTyped ==
  ASSUME NEW T \in SubTableSet
  PROVE  /\ T.TableSize \in Nat \ {0}
         /\ T.InnerTable \in [0 .. T.TableSize - 1 -> Pointers]
         /\ T.threadCopy \in [Threads -> Nat]
         /\ T.insertCount \in Nat /\ T.deleteCount \in Nat
         /\ Slots(T) = 0 .. T.TableSize - 1
         /\ T = [TableSize |-> T.TableSize, InnerTable |-> T.InnerTable,
                 threadCopy |-> T.threadCopy, insertCount |-> T.insertCount,
                 deleteCount |-> T.deleteCount]
<1>1. PICK z \in Nat \ {0} :
        T \in [TableSize : {z}, InnerTable : [0 .. z - 1 -> Pointers],
               threadCopy : [Threads -> Nat], insertCount : Nat, deleteCount : Nat]
  BY DEF SubTableSet
<1>2. T.TableSize = z
  BY <1>1
<1> QED
  BY <1>1, <1>2 DEF Slots

\* A subtable of those fields.
LEMMA TableMade ==
  ASSUME NEW z \in Nat \ {0}, NEW I \in [0 .. z - 1 -> Pointers], NEW C \in [Threads -> Nat],
         NEW m \in Nat, NEW n \in Nat
  PROVE  [TableSize |-> z, InnerTable |-> I, threadCopy |-> C,
          insertCount |-> m, deleteCount |-> n] \in SubTableSet
<1>1. [TableSize |-> z, InnerTable |-> I, threadCopy |-> C,
       insertCount |-> m, deleteCount |-> n]
        \in [TableSize : {z}, InnerTable : [0 .. z - 1 -> Pointers],
             threadCopy : [Threads -> Nat], insertCount : Nat, deleteCount : Nat]
  OBVIOUS
<1> QED
  BY <1>1 DEF SubTableSet

\* The bucket of a probe is a slot of its subtable.
LEMMA BucketInRange ==
  ASSUME NEW T \in SubTableSet, NEW k \in Keys, NEW n \in Attempts
  PROVE  Bucket(k, n, T) \in Slots(T) /\ Slot(k, n, T) \in Pointers
<1>1. Hash[k][n] \in Nat
  BY HashtableSmartLazyAssumption
<1>2. T.TableSize \in Nat \ {0} /\ Slots(T) = 0 .. T.TableSize - 1
      /\ T.InnerTable \in [0 .. T.TableSize - 1 -> Pointers]
  BY TableTyped
<1>3. \A x \in Nat, y \in Nat \ {0} : x % y \in 0 .. y - 1
  OBVIOUS
<1> QED
  BY <1>1, <1>2, <1>3 DEF Bucket, Slot

\* The fields of a frame.
LEMMA FrameTyped ==
  ASSUME NEW f \in Frames
  PROVE  /\ f.val \in Keys \cup {NULL} /\ f.ent \in Entries \cup {NULL} /\ f.ht \in Nat
         /\ f.j \in Nat /\ f.i \in Attempts /\ f.limit \in Nat /\ f.doCopy \in BOOLEAN
         /\ f.exStart \in Nat /\ f.size \in Nat /\ f.back \in Points
BY DEF Frames

\* The subtables are subtables.
LEMMA SubTablesTyped ==
  ASSUME TablesTyped
  PROVE  /\ Len(SubTables) \in Nat /\ DOMAIN SubTables = 1 .. Len(SubTables)
         /\ \A n \in DOMAIN SubTables : SubTables[n] \in SubTableSet
BY DEF TablesTyped

\* Where t probes there is a slot.
LEMMA ProbeInRange ==
  ASSUME Typed, NEW t \in Threads, pc[t] \in ProbePoints
  PROVE  /\ frame[t].ht \in DOMAIN SubTables /\ ht(t) \in SubTableSet
         /\ ht(t) = SubTables[frame[t].ht]
         /\ frame[t].i \in Attempts /\ frame[t].val \in Keys
         /\ frame[t].j \in Nat /\ frame[t].j < cur /\ cur \in Nat
         /\ s(t) \in Slots(ht(t)) /\ Probed(t) \in Pointers
         /\ Probed(t) = SubTables[frame[t].ht].InnerTable[s(t)]
<1>1. /\ frame[t] \in Frames /\ cur \in Nat /\ TablesTyped /\ ThreadTyped(t)
      /\ pc[t] # "idle"
  BY DEF Typed, LocalsTyped, TablesTyped, ProbePoints, CopyPoints, DonePoints
<1>2. /\ frame[t].ht \in DOMAIN SubTables /\ frame[t].val \in Keys
      /\ frame[t].i \in Attempts /\ frame[t].j \in Nat /\ frame[t].j < cur
  BY <1>1, FrameTyped DEF ThreadTyped
<1>3. SubTables[frame[t].ht] \in SubTableSet
  BY <1>1, <1>2, SubTablesTyped
<1>4. s(t) \in Slots(ht(t)) /\ Slot(frame[t].val, frame[t].i, ht(t)) \in Pointers
  BY <1>2, <1>3, BucketInRange DEF s, ht
<1> QED
  BY <1>1, <1>2, <1>3, <1>4 DEF Probed, Slot, s, ht

\* The compare-and-swaps of a slot that succeed.
Marks(t) == setPtr(t) /\ Probed(t).bool = 0
Claims(t) == ClaimSlot(t) /\ Probed(t) = Null

\* What a step of t leaves in slot x of subtable n.
After(t, n, x) ==
  LET p == SubTables[n].InnerTable[x]
  IN IF ~(n = frame[t].ht /\ x = s(t)) THEN p
     ELSE IF Marks(t) THEN [ent |-> p.ent, bool |-> 1]
     ELSE IF Claims(t) THEN [ent |-> frame[t].ent, bool |-> 0]
     ELSE p

\* The subtables stay, and a slot only gets what a step of t puts there; a new one is empty.
TablesOf(t) ==
  /\ SubTables' \in Seq(SubTableSet)
  /\ DOMAIN SubTables \subseteq DOMAIN SubTables'
  /\ \A n \in DOMAIN SubTables :
       /\ SubTables'[n].TableSize = SubTables[n].TableSize
       /\ \A x \in Slots(SubTables[n]) : SubTables'[n].InnerTable[x] = After(t, n, x)
       /\ \A u \in Threads : SubTables'[n].threadCopy[u] =
            SubTables[n].threadCopy[u] + (IF CountCopy(t) /\ u = t /\ n = frame[t].ht THEN 1 ELSE 0)
  /\ \A n \in DOMAIN SubTables' \ DOMAIN SubTables :
       /\ n = Len(SubTables) + 1
       /\ \A x \in Slots(SubTables'[n]) : SubTables'[n].InnerTable[x] = Null
       /\ \A u \in Threads : SubTables'[n].threadCopy[u] = 0

\* A step that leaves the slots and the copies counted alone.
LEMMA TablesUnchanged ==
  ASSUME TablesTyped, NEW t \in Threads, UNCHANGED SubTables,
         ~Marks(t), ~Claims(t), ~CountCopy(t)
  PROVE  TablesOf(t)
<1>1. \A n \in DOMAIN SubTables, u \in Threads : SubTables[n].threadCopy[u] \in Nat
  BY SubTablesTyped, TableTyped
<1> QED
  BY <1>1 DEF TablesTyped, TablesOf, After

\* One subtable is replaced by another of the same size.
LEMMA TablesPut ==
  ASSUME TablesTyped, NEW h \in DOMAIN SubTables, NEW U \in SubTableSet,
         U.TableSize = SubTables[h].TableSize, SubTables' = [SubTables EXCEPT ![h] = U]
  PROVE  /\ SubTables' \in Seq(SubTableSet) /\ DOMAIN SubTables' = DOMAIN SubTables
         /\ SubTables'[h] = U
         /\ \A n \in DOMAIN SubTables : /\ n # h => SubTables'[n] = SubTables[n]
                                        /\ SubTables'[n].TableSize = SubTables[n].TableSize
BY DEF TablesTyped

\* A step that changes nothing but a count of inserts or deletes.
LEMMA TablesCount ==
  ASSUME TablesTyped, NEW t \in Threads, NEW h \in DOMAIN SubTables, NEW m \in Nat, NEW n \in Nat,
         SubTables' = [SubTables EXCEPT ![h] = [TableSize |-> SubTables[h].TableSize,
                         InnerTable |-> SubTables[h].InnerTable,
                         threadCopy |-> SubTables[h].threadCopy,
                         insertCount |-> m, deleteCount |-> n]],
         ~Marks(t), ~Claims(t), ~CountCopy(t)
  PROVE  TablesOf(t)
<1> DEFINE T == SubTables[h]
           U == [TableSize |-> T.TableSize, InnerTable |-> T.InnerTable,
                 threadCopy |-> T.threadCopy, insertCount |-> m, deleteCount |-> n]
<1>1. T \in SubTableSet
  BY SubTablesTyped
<1>2. U \in SubTableSet
  BY <1>1, TableTyped, TableMade
<1>3. U.TableSize = T.TableSize /\ U.InnerTable = T.InnerTable /\ U.threadCopy = T.threadCopy
  OBVIOUS
<1> HIDE DEF U
<1>4. /\ SubTables' \in Seq(SubTableSet) /\ DOMAIN SubTables' = DOMAIN SubTables
      /\ SubTables'[h] = U
      /\ \A k \in DOMAIN SubTables : /\ k # h => SubTables'[k] = SubTables[k]
                                     /\ SubTables'[k].TableSize = SubTables[k].TableSize
  BY <1>2, <1>3, TablesPut DEF U
<1>5. \A k \in DOMAIN SubTables : /\ SubTables'[k].InnerTable = SubTables[k].InnerTable
                                  /\ SubTables'[k].threadCopy = SubTables[k].threadCopy
  BY <1>3, <1>4
<1>6. \A k \in DOMAIN SubTables, u \in Threads : SubTables[k].threadCopy[u] \in Nat
  BY SubTablesTyped, TableTyped
<1> QED
  BY <1>4, <1>5, <1>6 DEF TablesOf, After

\* A record of a subtable with another array of slots.
LEMMA SlotPut ==
  ASSUME NEW T \in SubTableSet, NEW x \in Slots(T), NEW p \in Pointers, NEW m \in Nat
  PROVE  LET I == [T.InnerTable EXCEPT ![x] = p]
             U == [TableSize |-> T.TableSize, InnerTable |-> I, threadCopy |-> T.threadCopy,
                   insertCount |-> m, deleteCount |-> T.deleteCount]
         IN /\ U \in SubTableSet /\ U.TableSize = T.TableSize /\ U.threadCopy = T.threadCopy
            /\ \A y \in Slots(T) : U.InnerTable[y] = IF y = x THEN p ELSE T.InnerTable[y]
<1> DEFINE I == [T.InnerTable EXCEPT ![x] = p]
<1>1. I \in [0 .. T.TableSize - 1 -> Pointers]
      /\ \A y \in Slots(T) : I[y] = IF y = x THEN p ELSE T.InnerTable[y]
  BY TableTyped
<1> HIDE DEF I
<1>2. [TableSize |-> T.TableSize, InnerTable |-> I, threadCopy |-> T.threadCopy,
       insertCount |-> m, deleteCount |-> T.deleteCount] \in SubTableSet
  BY <1>1, TableTyped, TableMade
<1>3. LET U == [TableSize |-> T.TableSize, InnerTable |-> I, threadCopy |-> T.threadCopy,
                insertCount |-> m, deleteCount |-> T.deleteCount]
      IN /\ U \in SubTableSet /\ U.TableSize = T.TableSize /\ U.threadCopy = T.threadCopy
         /\ \A y \in Slots(T) : U.InnerTable[y] = IF y = x THEN p ELSE T.InnerTable[y]
  BY <1>1, <1>2
<1> QED
  BY <1>3 DEF I

\* A step that changes a slot, and the count of inserts with it.
LEMMA TablesSlot ==
  ASSUME TablesTyped, NEW t \in Threads, frame[t].ht \in DOMAIN SubTables,
         s(t) \in Slots(ht(t)), NEW p \in Pointers, NEW m \in Nat,
         SubTables' = [SubTables EXCEPT ![frame[t].ht] =
           [TableSize |-> ht(t).TableSize, InnerTable |-> [ht(t).InnerTable EXCEPT ![s(t)] = p],
            threadCopy |-> ht(t).threadCopy, insertCount |-> m,
            deleteCount |-> ht(t).deleteCount]],
         After(t, frame[t].ht, s(t)) = p, ~CountCopy(t)
  PROVE  TablesOf(t)
<1> DEFINE h == frame[t].ht
           T == ht(t)
           U == [TableSize |-> T.TableSize, InnerTable |-> [T.InnerTable EXCEPT ![s(t)] = p],
                 threadCopy |-> T.threadCopy, insertCount |-> m, deleteCount |-> T.deleteCount]
<1>1. T \in SubTableSet /\ T = SubTables[h]
  BY SubTablesTyped DEF ht
<1>2. /\ U \in SubTableSet /\ U.TableSize = T.TableSize /\ U.threadCopy = T.threadCopy
      /\ \A y \in Slots(T) : U.InnerTable[y] = IF y = s(t) THEN p ELSE T.InnerTable[y]
  BY <1>1, SlotPut
<1>3. SubTables' = [SubTables EXCEPT ![h] = U]
  OBVIOUS
<1> HIDE DEF U, T
<1>4. /\ SubTables' \in Seq(SubTableSet) /\ DOMAIN SubTables' = DOMAIN SubTables
      /\ SubTables'[h] = U
      /\ \A k \in DOMAIN SubTables : /\ k # h => SubTables'[k] = SubTables[k]
                                     /\ SubTables'[k].TableSize = SubTables[k].TableSize
  BY <1>1, <1>2, <1>3, TablesPut
<1>5. \A k \in DOMAIN SubTables : SubTables'[k].threadCopy = SubTables[k].threadCopy
  BY <1>1, <1>2, <1>4
<1>6. \A k \in DOMAIN SubTables, u \in Threads : SubTables[k].threadCopy[u] \in Nat
  BY SubTablesTyped, TableTyped
<1>7. ASSUME NEW k \in DOMAIN SubTables, NEW x \in Slots(SubTables[k])
      PROVE  SubTables'[k].InnerTable[x] = After(t, k, x)
  <2>1. CASE k # h
    BY <2>1, <1>4 DEF After
  <2>2. CASE k = h
    <3>1. SubTables'[k].InnerTable[x] = IF x = s(t) THEN p ELSE SubTables[k].InnerTable[x]
      BY <2>2, <1>1, <1>2, <1>4
    <3>2. x # s(t) => After(t, k, x) = SubTables[k].InnerTable[x]
      BY DEF After
    <3> QED
      BY <3>1, <3>2, <2>2
  <2> QED
    BY <2>1, <2>2
<1> QED
  BY <1>4, <1>5, <1>6, <1>7 DEF TablesOf

\* A field of a subtable is replaced.
LEMMA FieldsPut ==
  ASSUME NEW T \in SubTableSet
  PROVE  /\ \A I : [T EXCEPT !.InnerTable = I] =
              [TableSize |-> T.TableSize, InnerTable |-> I, threadCopy |-> T.threadCopy,
               insertCount |-> T.insertCount, deleteCount |-> T.deleteCount]
         /\ \A I, m : [[T EXCEPT !.InnerTable = I] EXCEPT !.insertCount = m] =
              [TableSize |-> T.TableSize, InnerTable |-> I, threadCopy |-> T.threadCopy,
               insertCount |-> m, deleteCount |-> T.deleteCount]
         /\ \A C : [T EXCEPT !.threadCopy = C] =
              [TableSize |-> T.TableSize, InnerTable |-> T.InnerTable, threadCopy |-> C,
               insertCount |-> T.insertCount, deleteCount |-> T.deleteCount]
         /\ \A m : [T EXCEPT !.insertCount = m] =
              [TableSize |-> T.TableSize, InnerTable |-> T.InnerTable,
               threadCopy |-> T.threadCopy, insertCount |-> m,
               deleteCount |-> T.deleteCount]
         /\ \A m : [T EXCEPT !.deleteCount = m] =
              [TableSize |-> T.TableSize, InnerTable |-> T.InnerTable,
               threadCopy |-> T.threadCopy, insertCount |-> T.insertCount,
               deleteCount |-> m]
<1>1. T = [TableSize |-> T.TableSize, InnerTable |-> T.InnerTable, threadCopy |-> T.threadCopy,
           insertCount |-> T.insertCount, deleteCount |-> T.deleteCount]
  BY TableTyped
<1> DEFINE R(z, I, C, m, n) == [TableSize |-> z, InnerTable |-> I, threadCopy |-> C,
                                insertCount |-> m, deleteCount |-> n]
<1>2. ASSUME NEW I
      PROVE  [T EXCEPT !.InnerTable = I]
               = R(T.TableSize, I, T.threadCopy, T.insertCount, T.deleteCount)
  BY <1>1
<1>3. ASSUME NEW I, NEW m
      PROVE  [[T EXCEPT !.InnerTable = I] EXCEPT !.insertCount = m]
               = R(T.TableSize, I, T.threadCopy, m, T.deleteCount)
  <2>1. \A z, C, m1, n : [R(z, I, C, m1, n) EXCEPT !.insertCount = m] = R(z, I, C, m, n)
    OBVIOUS
  <2> DEFINE V == [T EXCEPT !.InnerTable = I]
  <2>2. V = R(T.TableSize, I, T.threadCopy, T.insertCount, T.deleteCount)
    BY <1>2
  <2> HIDE DEF R, V
  <2>3. [V EXCEPT !.insertCount = m] = R(T.TableSize, I, T.threadCopy, m, T.deleteCount)
    BY <2>1, <2>2
  <2> QED
    BY <2>3 DEF V
<1>4. ASSUME NEW C
      PROVE  [T EXCEPT !.threadCopy = C]
               = R(T.TableSize, T.InnerTable, C, T.insertCount, T.deleteCount)
  BY <1>1
<1>5. ASSUME NEW m
      PROVE  [T EXCEPT !.insertCount = m]
               = R(T.TableSize, T.InnerTable, T.threadCopy, m, T.deleteCount)
  BY <1>1
<1>6. ASSUME NEW m
      PROVE  [T EXCEPT !.deleteCount = m]
               = R(T.TableSize, T.InnerTable, T.threadCopy, T.insertCount, m)
  BY <1>1
<1> QED
  BY <1>2, <1>3, <1>4, <1>5, <1>6, Zenon

\* setPtr takes a mark.
LEMMA TablesMark ==
  ASSUME Typed, NEW t \in Threads, Marks(t)
  PROVE  TablesOf(t)
<1> DEFINE p == [ent |-> Probed(t).ent, bool |-> 1]
<1>1. pc[t] = "setPtr" /\ ~CountCopy(t)
  BY DEF Marks, setPtr, CountCopy
<1>2. /\ frame[t].ht \in DOMAIN SubTables /\ ht(t) \in SubTableSet /\ ht(t) = SubTables[frame[t].ht]
      /\ s(t) \in Slots(ht(t)) /\ Probed(t) \in Pointers /\ TablesTyped /\ Probed(t) # Null
      /\ Probed(t) = SubTables[frame[t].ht].InnerTable[s(t)]
  BY <1>1, ProbeInRange DEF ProbePoints, CopyPoints, Typed, ThreadTyped
<1>3. p \in Pointers /\ [Probed(t) EXCEPT !.bool = 1] = p
  BY <1>2, PointerTyped DEF Pointers
<1>4. After(t, frame[t].ht, s(t)) = p
  BY <1>2 DEF After
<1>5. SubTables' = [SubTables EXCEPT ![frame[t].ht].InnerTable[s(t)].bool = 1]
  BY DEF Marks, setPtr
<1>6. SubTables' = [SubTables EXCEPT ![frame[t].ht] =
         [ht(t) EXCEPT !.InnerTable = [ht(t).InnerTable EXCEPT ![s(t)] =
            [ht(t).InnerTable[s(t)] EXCEPT !.bool = 1]]]]
  BY <1>5 DEF ht
<1>7. [ht(t).InnerTable[s(t)] EXCEPT !.bool = 1] = p
  BY <1>2, <1>3
<1>8. SubTables' = [SubTables EXCEPT ![frame[t].ht] =
         [ht(t) EXCEPT !.InnerTable = [ht(t).InnerTable EXCEPT ![s(t)] = p]]]
  BY <1>6, <1>7
<1> HIDE DEF p
<1>9. \A I : [ht(t) EXCEPT !.InnerTable = I] =
         [TableSize |-> ht(t).TableSize, InnerTable |-> I, threadCopy |-> ht(t).threadCopy,
          insertCount |-> ht(t).insertCount, deleteCount |-> ht(t).deleteCount]
  BY <1>2, FieldsPut, Zenon
<1>10. ht(t).insertCount \in Nat
  BY <1>2, TableTyped
<1>11. SubTables' = [SubTables EXCEPT ![frame[t].ht] =
         [TableSize |-> ht(t).TableSize, InnerTable |-> [ht(t).InnerTable EXCEPT ![s(t)] = p],
          threadCopy |-> ht(t).threadCopy, insertCount |-> ht(t).insertCount,
          deleteCount |-> ht(t).deleteCount]]
  BY <1>8, <1>9
<1> QED
  BY <1>1, <1>2, <1>3, <1>4, <1>10, <1>11, TablesSlot

\* A compare-and-swap puts an entry in a slot.
LEMMA TablesClaim ==
  ASSUME Typed, NEW t \in Threads, Claims(t)
  PROVE  TablesOf(t)
<1> DEFINE p == [ent |-> frame[t].ent, bool |-> 0]
           h == frame[t].ht
<1>1. pc[t] = "claim" /\ ~CountCopy(t) /\ ~Marks(t)
  BY DEF Claims, ClaimSlot, CountCopy, Marks, setPtr
<1>2. /\ h \in DOMAIN SubTables /\ ht(t) \in SubTableSet /\ ht(t) = SubTables[h]
      /\ s(t) \in Slots(ht(t)) /\ TablesTyped /\ frame[t].ent \in Entries
  BY <1>1, ProbeInRange DEF ProbePoints, InsertPoints, Typed, ThreadTyped
<1>3. p \in Pointers
  BY <1>2 DEF Pointers
<1>4. After(t, h, s(t)) = p
  BY <1>1, <1>2 DEF After
<1>5. SubTables' = [SubTables EXCEPT ![h].InnerTable[s(t)] = p, ![h].insertCount = @ + 1]
  BY DEF Claims, ClaimSlot
<1>6. SubTables' = [[SubTables EXCEPT ![h].InnerTable[s(t)] = p] EXCEPT ![h].insertCount = @ + 1]
  BY <1>5
<1>7. [SubTables EXCEPT ![h].InnerTable[s(t)] = p] =
        [SubTables EXCEPT ![h] = [SubTables[h] EXCEPT !.InnerTable[s(t)] = p]]
  OBVIOUS
<1>8. SubTables' = [SubTables EXCEPT ![h] =
         [[ht(t) EXCEPT !.InnerTable = [ht(t).InnerTable EXCEPT ![s(t)] = p]]
            EXCEPT !.insertCount = ht(t).insertCount + 1]]
  <2> DEFINE T == [ht(t) EXCEPT !.InnerTable = [ht(t).InnerTable EXCEPT ![s(t)] = p]]
  <2>1. T = [SubTables[h] EXCEPT !.InnerTable[s(t)] = p]
    BY <1>2
  <2>2. T.insertCount = ht(t).insertCount
    <3>1. \A I : [ht(t) EXCEPT !.InnerTable = I].insertCount = ht(t).insertCount
      BY <1>2, FieldsPut
    <3> QED
      BY <3>1
  <2> HIDE DEF T
  <2>3. SubTables' = [[SubTables EXCEPT ![h] = T] EXCEPT ![h].insertCount = @ + 1]
    BY <1>6, <1>7, <2>1
  <2>4. SubTables' = [SubTables EXCEPT ![h] = [T EXCEPT !.insertCount = T.insertCount + 1]]
    BY <1>2, <2>3
  <2> QED
    BY <2>2, <2>4 DEF T
<1>9. ht(t).insertCount + 1 \in Nat
  BY <1>2, TableTyped
<1>10. SubTables' = [SubTables EXCEPT ![h] =
         [TableSize |-> ht(t).TableSize, InnerTable |-> [ht(t).InnerTable EXCEPT ![s(t)] = p],
          threadCopy |-> ht(t).threadCopy, insertCount |-> ht(t).insertCount + 1,
          deleteCount |-> ht(t).deleteCount]]
  <2>1. \A I, m : [[ht(t) EXCEPT !.InnerTable = I] EXCEPT !.insertCount = m] =
         [TableSize |-> ht(t).TableSize, InnerTable |-> I, threadCopy |-> ht(t).threadCopy,
          insertCount |-> m, deleteCount |-> ht(t).deleteCount]
    BY <1>2, FieldsPut, Zenon
  <2> QED
    BY <1>8, <2>1, Zenon
<1> HIDE DEF p
<1> QED
  BY <1>1, <1>2, <1>3, <1>4, <1>9, <1>10, TablesSlot

\* A copy is counted.
LEMMA TablesCopyCount ==
  ASSUME Typed, NEW t \in Threads, CountCopy(t)
  PROVE  TablesOf(t)
<1> DEFINE h == frame[t].ht
           C == [ht(t).threadCopy EXCEPT ![t] = @ + 1]
           U == [TableSize |-> ht(t).TableSize, InnerTable |-> ht(t).InnerTable,
                 threadCopy |-> C, insertCount |-> ht(t).insertCount,
                 deleteCount |-> ht(t).deleteCount]
<1>1. pc[t] = "count" /\ ~Marks(t) /\ ~Claims(t)
  BY DEF CountCopy, Marks, setPtr, Claims, ClaimSlot
<1>2. h \in DOMAIN SubTables /\ ht(t) \in SubTableSet /\ ht(t) = SubTables[h] /\ TablesTyped
  BY <1>1, ProbeInRange DEF ProbePoints, CopyPoints, Typed
<1>3. /\ C \in [Threads -> Nat]
      /\ \A u \in Threads : C[u] = ht(t).threadCopy[u] + (IF u = t THEN 1 ELSE 0)
  BY <1>2, TableTyped
<1>4. SubTables' = [SubTables EXCEPT ![h] = [ht(t) EXCEPT !.threadCopy = C]]
  BY <1>2 DEF CountCopy
<1>5. [ht(t) EXCEPT !.threadCopy = C] = U
  BY <1>2, FieldsPut, Zenon
<1>6. U \in SubTableSet
  BY <1>2, <1>3, TableTyped, TableMade
<1>7. U.TableSize = ht(t).TableSize /\ U.InnerTable = ht(t).InnerTable /\ U.threadCopy = C
  OBVIOUS
<1> HIDE DEF U, C
<1>8. /\ SubTables' \in Seq(SubTableSet) /\ DOMAIN SubTables' = DOMAIN SubTables
      /\ SubTables'[h] = U
      /\ \A k \in DOMAIN SubTables : /\ k # h => SubTables'[k] = SubTables[k]
                                     /\ SubTables'[k].TableSize = SubTables[k].TableSize
  BY <1>2, <1>4, <1>5, <1>6, <1>7, TablesPut
<1>9. \A k \in DOMAIN SubTables, u \in Threads : SubTables[k].threadCopy[u] \in Nat
  BY <1>2, SubTablesTyped, TableTyped
<1>10. \A k \in DOMAIN SubTables : SubTables'[k].InnerTable = SubTables[k].InnerTable
  BY <1>2, <1>7, <1>8
<1>11. ASSUME NEW k \in DOMAIN SubTables, NEW u \in Threads
       PROVE  SubTables'[k].threadCopy[u] = SubTables[k].threadCopy[u] +
                (IF CountCopy(t) /\ u = t /\ k = frame[t].ht THEN 1 ELSE 0)
  <2>1. CASE k = h
    BY <2>1, <1>2, <1>3, <1>7, <1>8
  <2>2. CASE k # h
    BY <2>2, <1>8, <1>9
  <2> QED
    BY <2>1, <2>2
<1> QED
  BY <1>1, <1>8, <1>10, <1>11 DEF TablesOf, After

\* addDrop makes a subtable.
LEMMA TablesGrow ==
  ASSUME Typed, NEW t \in Threads, addDrop(t)
  PROVE  TablesOf(t)
<1>1. pc[t] = "grow" /\ ~Marks(t) /\ ~Claims(t) /\ ~CountCopy(t) /\ TablesTyped
  BY DEF addDrop, CountCopy, Marks, setPtr, Claims, ClaimSlot, Typed
<1>2. CASE UNCHANGED SubTables
  BY <1>1, <1>2, TablesUnchanged
<1>3. CASE SubTables' = Append(SubTables, createTable(frame[t].size))
  <2> DEFINE z == frame[t].size
             T == createTable(z)
  <2>1. z \in Nat \ {0}
    BY <1>1, FrameTyped DEF Typed, ThreadTyped, LocalsTyped
  <2>2. /\ T \in SubTableSet /\ Slots(T) = 0 .. z - 1
        /\ \A x \in Slots(T) : T.InnerTable[x] = Null
        /\ \A u \in Threads : T.threadCopy[u] = 0
    <3>1. [x \in 0 .. z - 1 |-> Null] \in [0 .. z - 1 -> Pointers]
      BY DEF Pointers
    <3>2. [u \in Threads |-> 0] \in [Threads -> Nat]
      OBVIOUS
    <3>3. T \in SubTableSet
      BY <2>1, <3>1, <3>2, TableMade DEF createTable
    <3> QED
      BY <3>3 DEF createTable, Slots
  <2> HIDE DEF T, z
  <2>3. /\ SubTables' \in Seq(SubTableSet)
        /\ DOMAIN SubTables' = 1 .. Len(SubTables) + 1 /\ DOMAIN SubTables = 1 .. Len(SubTables)
        /\ Len(SubTables) \in Nat
        /\ \A n \in DOMAIN SubTables : SubTables'[n] = SubTables[n]
        /\ SubTables'[Len(SubTables) + 1] = T
    BY <1>1, <1>3, <2>2 DEF TablesTyped, T, z
  <2>4. \A n \in DOMAIN SubTables, u \in Threads : SubTables[n].threadCopy[u] \in Nat
    BY <1>1, SubTablesTyped, TableTyped
  <2>5. \A n \in DOMAIN SubTables' \ DOMAIN SubTables : n = Len(SubTables) + 1
    BY <2>3
  <2>6. \A n \in DOMAIN SubTables : \A x \in Slots(SubTables[n]) :
          After(t, n, x) = SubTables[n].InnerTable[x]
    BY <1>1 DEF After
  <2>7. DOMAIN SubTables \subseteq DOMAIN SubTables'
    BY <2>3
  <2>8. \A n \in DOMAIN SubTables, u \in Threads :
          SubTables'[n].threadCopy[u] = SubTables[n].threadCopy[u] + 0
    BY <2>3, <2>4
  <2> QED
    BY <1>1, <2>2, <2>3, <2>5, <2>6, <2>7, <2>8, Zenon DEF TablesOf
<1> QED
  BY <1>2, <1>3 DEF addDrop

\* A step of lookup that undeletes the entry, and one of setDelete.
LEMMA TablesFlag ==
  ASSUME Typed, NEW t \in Threads, lookup(t) \/ setDelete(t)
  PROVE  TablesOf(t)
<1>1. /\ pc[t] \in {"lookup", "delete"} /\ TablesTyped
      /\ ~Marks(t) /\ ~Claims(t) /\ ~CountCopy(t)
  BY DEF lookup, setDelete, CountCopy, Marks, setPtr, Claims, ClaimSlot, Typed
<1>2. frame[t].ht \in DOMAIN SubTables /\ ht(t) \in SubTableSet /\ ht(t) = SubTables[frame[t].ht]
  BY <1>1, ProbeInRange DEF ProbePoints
<1>3. ht(t).insertCount \in Nat /\ ht(t).deleteCount \in Nat
  BY <1>2, TableTyped
<1>4. CASE UNCHANGED SubTables
  BY <1>1, <1>4, TablesUnchanged
<1>5. CASE SubTables' = [SubTables EXCEPT ![frame[t].ht].insertCount = @ + 1]
  <2>1. SubTables' = [SubTables EXCEPT ![frame[t].ht] =
                        [ht(t) EXCEPT !.insertCount = ht(t).insertCount + 1]]
    BY <1>2, <1>5
  <2>2. \A m : [ht(t) EXCEPT !.insertCount = m] =
          [TableSize |-> ht(t).TableSize, InnerTable |-> ht(t).InnerTable,
           threadCopy |-> ht(t).threadCopy, insertCount |-> m,
           deleteCount |-> ht(t).deleteCount]
    BY <1>2, FieldsPut, Zenon
  <2>3. ht(t).insertCount + 1 \in Nat
    BY <1>3
  <2>4. SubTables' = [SubTables EXCEPT ![frame[t].ht] =
          [TableSize |-> SubTables[frame[t].ht].TableSize,
           InnerTable |-> SubTables[frame[t].ht].InnerTable,
           threadCopy |-> SubTables[frame[t].ht].threadCopy,
           insertCount |-> ht(t).insertCount + 1, deleteCount |-> ht(t).deleteCount]]
    BY <1>2, <2>1, <2>2
  <2> QED
    BY <1>1, <1>2, <1>3, <2>3, <2>4, TablesCount
<1>6. CASE SubTables' = [SubTables EXCEPT ![frame[t].ht].deleteCount = @ + 1]
  <2>1. SubTables' = [SubTables EXCEPT ![frame[t].ht] =
                        [ht(t) EXCEPT !.deleteCount = ht(t).deleteCount + 1]]
    BY <1>2, <1>6
  <2>2. \A m : [ht(t) EXCEPT !.deleteCount = m] =
          [TableSize |-> ht(t).TableSize, InnerTable |-> ht(t).InnerTable,
           threadCopy |-> ht(t).threadCopy, insertCount |-> ht(t).insertCount,
           deleteCount |-> m]
    BY <1>2, FieldsPut, Zenon
  <2>3. ht(t).deleteCount + 1 \in Nat
    BY <1>3
  <2>4. SubTables' = [SubTables EXCEPT ![frame[t].ht] =
          [TableSize |-> SubTables[frame[t].ht].TableSize,
           InnerTable |-> SubTables[frame[t].ht].InnerTable,
           threadCopy |-> SubTables[frame[t].ht].threadCopy,
           insertCount |-> ht(t).insertCount, deleteCount |-> ht(t).deleteCount + 1]]
    BY <1>2, <2>1, <2>2
  <2> QED
    BY <1>1, <1>2, <1>3, <2>3, <2>4, TablesCount
<1> QED
  BY <1>4, <1>5, <1>6 DEF lookup, setDelete

\* What a step does to the subtables.
LEMMA TablesStep ==
  ASSUME Typed, NEW t \in Threads, ThreadStep(t)
  PROVE  TablesOf(t)
<1>1. CASE Marks(t)
  BY <1>1, TablesMark
<1>2. CASE Claims(t)
  BY <1>2, TablesClaim
<1>3. CASE CountCopy(t)
  BY <1>3, TablesCopyCount
<1>4. CASE addDrop(t)
  BY <1>4, TablesGrow
<1>5. CASE lookup(t) \/ setDelete(t)
  BY <1>5, TablesFlag
<1>6. CASE ~Marks(t) /\ ~Claims(t) /\ ~CountCopy(t) /\ UNCHANGED SubTables
  BY <1>6, TablesUnchanged DEF Typed
<1>7. \/ addDrop(t) \/ lookup(t) \/ setDelete(t) \/ CountCopy(t) \/ Marks(t) \/ Claims(t)
      \/ UNCHANGED SubTables
  <2>1. CASE CallInsert(t) \/ CallQuery(t) \/ CallDelete(t)
    BY <2>1 DEF CallInsert, CallQuery, CallDelete, Start
  <2>2. CASE Step(t)
    <3>1. CASE setPtr(t)
      BY <3>1 DEF setPtr, Marks
    <3>2. CASE ClaimSlot(t)
      BY <3>2 DEF ClaimSlot, Claims
    <3>3. CASE InsertTable(t) \/ Undeleted(t) \/ ReturnComp(t) \/ CopyUp(t) \/ AdvanceStart(t)
               \/ Retire(t) \/ NextTableSize(t) \/ AdvanceCur(t) \/ QueryTable(t) \/ lookupQuery(t)
      BY <3>3 DEF shared, InsertTable, Undeleted, ReturnComp, CopyUp, AdvanceStart,
           Retire, NextTableSize, AdvanceCur, QueryTable, lookupQuery
    <3> QED
      BY <2>2, <3>1, <3>2, <3>3 DEF Step
  <2> QED
    BY <2>1, <2>2 DEF ThreadStep
<1> QED
  BY <1>1, <1>2, <1>3, <1>4, <1>5, <1>6, <1>7
-----------------------------------------------------------------------------
(* The locals                                                              *)

\* Only the locals of t change.
LocalsOf(t) ==
  /\ pc' = [pc EXCEPT ![t] = pc'[t]] /\ pc'[t] \in Points
  /\ op' = [op EXCEPT ![t] = op'[t]] /\ op'[t] \in {"none", "insert", "query", "delete"}
  /\ key' = [key EXCEPT ![t] = key'[t]] /\ key'[t] \in Keys \cup {NULL}
  /\ ret' = [ret EXCEPT ![t] = ret'[t]] /\ ret'[t] \in {0, 1}
  /\ frame' = [frame EXCEPT ![t] = frame'[t]] /\ frame'[t] \in Frames
  /\ stack' = [stack EXCEPT ![t] = stack'[t]] /\ stack'[t] \in Seq(CallerFrames)

\* The typed locals of a thread.
LEMMA LocalsTypes ==
  ASSUME Typed, NEW t \in Threads
  PROVE  /\ pc[t] \in Points /\ op[t] \in {"none", "insert", "query", "delete"}
         /\ key[t] \in Keys \cup {NULL} /\ ret[t] \in {0, 1} /\ frame[t] \in Frames
         /\ stack[t] \in Seq(CallerFrames)
         /\ DOMAIN pc = Threads /\ DOMAIN op = Threads /\ DOMAIN key = Threads
         /\ DOMAIN ret = Threads /\ DOMAIN frame = Threads /\ DOMAIN stack = Threads
BY DEF Typed, LocalsTyped

\* Frames with other fields.
LEMMA FrameMade ==
  ASSUME NEW f \in Frames, NEW n \in Nat
  PROVE  /\ NoFrame \in Frames
         /\ NoFrame.val = NULL /\ NoFrame.ent = NULL /\ NoFrame.ht = None /\ NoFrame.j = 0
         /\ NoFrame.i = 0 /\ NoFrame.limit = 0 /\ NoFrame.doCopy = FALSE
         /\ NoFrame.exStart = 0 /\ NoFrame.size = 0 /\ NoFrame.back = "idle"
         /\ [f EXCEPT !.ht = n] \in Frames
         /\ [f EXCEPT !.size = n] \in Frames
         /\ [f EXCEPT !.exStart = n] \in Frames
<1>1. 0 \in Attempts
  BY HashtableSmartLazyAssumption DEF Attempts
<1>2. /\ NoFrame \in Frames
      /\ NoFrame.val = NULL /\ NoFrame.ent = NULL /\ NoFrame.ht = None /\ NoFrame.j = 0
      /\ NoFrame.i = 0 /\ NoFrame.limit = 0 /\ NoFrame.doCopy = FALSE
      /\ NoFrame.exStart = 0 /\ NoFrame.size = 0 /\ NoFrame.back = "idle"
  BY <1>1 DEF NoFrame, Frames, Points, None
<1>3. [f EXCEPT !.ht = n] \in Frames
  BY DEF Frames
<1>4. [f EXCEPT !.size = n] \in Frames
  BY DEF Frames
<1>5. [f EXCEPT !.exStart = n] \in Frames
  BY DEF Frames
<1> QED
  BY <1>2, <1>3, <1>4, <1>5

\* `continue' moves to the next probe or to the next subtable.
LEMMA NextEffect ==
  ASSUME Typed, NEW t \in Threads, NEW again \in Points, NEW after \in Points,
         NextAttempt(t, again, after)
  PROVE  /\ LocalsOf(t) /\ UNCHANGED call
         /\ frame'[t].val = frame[t].val /\ frame'[t].ent = frame[t].ent
         /\ frame'[t].limit = frame[t].limit /\ frame'[t].size = frame[t].size
         /\ \/ /\ pc'[t] = again /\ frame[t].i + 1 \in Attempts
               /\ frame'[t].i = frame[t].i + 1
               /\ frame'[t].ht = frame[t].ht /\ frame'[t].j = frame[t].j
               /\ frame'[t].doCopy = frame[t].doCopy
            \/ /\ pc'[t] = after /\ frame[t].i + 1 = HashAttempts /\ frame'[t].i = 0
               /\ frame'[t].ht = None /\ frame'[t].j = frame[t].j + 1
               /\ frame'[t].doCopy = FALSE
<1> DEFINE f == frame[t]
<1>1. /\ f \in Frames /\ DOMAIN frame = Threads /\ DOMAIN pc = Threads
      /\ stack[t] \in Seq(CallerFrames)
  BY LocalsTypes
<1>2. f.i \in Nat /\ f.i < HashAttempts /\ HashAttempts \in Nat \ {0} /\ 0 \in Attempts
  BY <1>1, FrameTyped, HashtableSmartLazyAssumption DEF Attempts
<1>3. /\ UNCHANGED <<op, key, ret, stack>>
      /\ op = [op EXCEPT ![t] = op[t]] /\ key = [key EXCEPT ![t] = key[t]]
      /\ ret = [ret EXCEPT ![t] = ret[t]] /\ stack = [stack EXCEPT ![t] = stack[t]]
  BY DEF NextAttempt, call, Typed, LocalsTyped
<1>4. CASE f.i + 1 < HashAttempts
  <2> DEFINE g == [f EXCEPT !.i = f.i + 1, !.exStart = 0]
  <2>1. frame' = [frame EXCEPT ![t] = g] /\ pc' = [pc EXCEPT ![t] = again]
    BY <1>4 DEF NextAttempt, Goto
  <2>2. f.i + 1 \in Attempts
    BY <1>2, <1>4 DEF Attempts
  <2>3. /\ g \in Frames /\ g.val = f.val /\ g.ent = f.ent /\ g.limit = f.limit /\ g.i = f.i + 1
        /\ g.ht = f.ht /\ g.j = f.j /\ g.doCopy = f.doCopy /\ g.size = f.size
    BY <1>1, <2>2 DEF Frames
  <2> HIDE DEF g
  <2>4. frame'[t] = g /\ pc'[t] = again
    BY <1>1, <2>1
  <2>5. LocalsOf(t)
    BY <1>1, <1>3, <2>1, <2>3, <2>4, LocalsTypes DEF LocalsOf
  <2> QED
    BY <1>3, <2>2, <2>3, <2>4, <2>5 DEF call
<1>5. CASE ~(f.i + 1 < HashAttempts)
  <2> DEFINE g == [f EXCEPT !.i = 0, !.j = f.j + 1, !.ht = None, !.doCopy = FALSE, !.exStart = 0]
  <2>1. frame' = [frame EXCEPT ![t] = g] /\ pc' = [pc EXCEPT ![t] = after]
    BY <1>5 DEF NextAttempt, Goto
  <2>2. f.i + 1 = HashAttempts
    BY <1>2, <1>5
  <2>3. /\ g \in Frames /\ g.val = f.val /\ g.ent = f.ent /\ g.limit = f.limit /\ g.i = 0
        /\ g.ht = None /\ g.j = f.j + 1 /\ g.doCopy = FALSE /\ g.size = f.size
    <3> DEFINE g1 == [f EXCEPT !.i = 0]
               g2 == [g1 EXCEPT !.j = f.j + 1]
               g3 == [g2 EXCEPT !.ht = None]
               g4 == [g3 EXCEPT !.doCopy = FALSE]
    <3>1. f.j + 1 \in Nat /\ None \in Nat /\ 0 \in Nat
      BY <1>1, FrameTyped DEF None
    <3>2. g1 \in Frames /\ g1.i = 0 /\ g1.val = f.val /\ g1.ent = f.ent /\ g1.limit = f.limit
          /\ g1.size = f.size
      BY <1>1, <1>2 DEF Frames
    <3> HIDE DEF g1, f
    <3>3. g2 \in Frames /\ g2.j = f.j + 1 /\ g2.i = 0 /\ g2.val = f.val /\ g2.ent = f.ent
          /\ g2.limit = f.limit /\ g2.size = f.size
      BY <3>1, <3>2 DEF Frames
    <3> HIDE DEF g2
    <3>4. g3 \in Frames /\ g3.ht = None /\ g3.j = f.j + 1 /\ g3.i = 0 /\ g3.val = f.val
          /\ g3.ent = f.ent /\ g3.limit = f.limit /\ g3.size = f.size
      BY <3>1, <3>3 DEF Frames
    <3> HIDE DEF g3
    <3>5. g4 \in Frames /\ g4.doCopy = FALSE /\ g4.ht = None /\ g4.j = f.j + 1 /\ g4.i = 0
          /\ g4.val = f.val /\ g4.ent = f.ent /\ g4.limit = f.limit /\ g4.size = f.size
      BY <3>4 DEF Frames
    <3> HIDE DEF g4
    <3>6. g = [g4 EXCEPT !.exStart = 0]
      BY DEF g4, g3, g2, g1
    <3> HIDE DEF g
    <3> QED
      BY <3>1, <3>5, <3>6 DEF Frames
  <2> HIDE DEF g
  <2>4. frame'[t] = g /\ pc'[t] = after
    BY <1>1, <2>1
  <2>5. LocalsOf(t)
    BY <1>1, <1>3, <2>1, <2>3, <2>4, LocalsTypes DEF LocalsOf
  <2> QED
    BY <1>3, <2>2, <2>3, <2>4, <2>5 DEF call
<1> QED
  BY <1>4, <1>5

\* A return, to the harness or to the caller on the stack.
LEMMA ReturnEffect ==
  ASSUME Typed, NEW t \in Threads, NEW r \in {0, 1}, Return(t, r)
  PROVE  /\ LocalsOf(t)
         /\ stack[t] = <<>> =>
              /\ pc'[t] = "idle" /\ ret'[t] = r /\ op'[t] = "none" /\ key'[t] = NULL
              /\ frame'[t] = NoFrame /\ stack'[t] = <<>>
         /\ stack[t] # <<>> =>
              /\ Head(stack[t]) \in CallerFrames
              /\ pc'[t] = Head(stack[t]).back /\ frame'[t] = Head(stack[t])
              /\ stack'[t] = Tail(stack[t])
              /\ op'[t] = op[t] /\ key'[t] = key[t] /\ ret'[t] = ret[t]
<1>1. /\ DOMAIN frame = Threads /\ DOMAIN pc = Threads /\ DOMAIN op = Threads
      /\ DOMAIN key = Threads /\ DOMAIN ret = Threads /\ DOMAIN stack = Threads
      /\ stack[t] \in Seq(CallerFrames)
      /\ op = [op EXCEPT ![t] = op[t]] /\ key = [key EXCEPT ![t] = key[t]]
      /\ ret = [ret EXCEPT ![t] = ret[t]] /\ stack = [stack EXCEPT ![t] = stack[t]]
  BY LocalsTypes DEF Typed, LocalsTyped
<1>2. CASE stack[t] = <<>>
  <2>1. /\ pc' = [pc EXCEPT ![t] = "idle"] /\ ret' = [ret EXCEPT ![t] = r]
        /\ op' = [op EXCEPT ![t] = "none"] /\ key' = [key EXCEPT ![t] = NULL]
        /\ frame' = [frame EXCEPT ![t] = NoFrame] /\ stack' = stack
    BY <1>2 DEF Return, Goto
  <2>2. NoFrame \in Frames /\ "idle" \in Points
    BY LocalsTypes, FrameMade DEF Points
  <2>3. /\ pc'[t] = "idle" /\ ret'[t] = r /\ op'[t] = "none" /\ key'[t] = NULL
        /\ frame'[t] = NoFrame /\ stack'[t] = <<>>
    BY <1>1, <1>2, <2>1
  <2>4. LocalsOf(t)
    BY <1>1, <2>1, <2>2, <2>3, LocalsTypes DEF LocalsOf
  <2> QED
    BY <1>2, <2>3, <2>4
<1>3. CASE stack[t] # <<>>
  <2>1. /\ pc' = [pc EXCEPT ![t] = Head(stack[t]).back]
        /\ frame' = [frame EXCEPT ![t] = Head(stack[t])]
        /\ stack' = [stack EXCEPT ![t] = Tail(stack[t])]
        /\ op' = op /\ key' = key /\ ret' = ret
    BY <1>3 DEF Return, Goto
  <2>2. Head(stack[t]) \in CallerFrames /\ Tail(stack[t]) \in Seq(CallerFrames)
    BY <1>1, <1>3
  <2>3. Head(stack[t]) \in Frames /\ Head(stack[t]).back \in Points
    BY <2>2 DEF CallerFrames, Frames
  <2>4. /\ pc'[t] = Head(stack[t]).back /\ frame'[t] = Head(stack[t])
        /\ stack'[t] = Tail(stack[t])
        /\ op'[t] = op[t] /\ key'[t] = key[t] /\ ret'[t] = ret[t]
    BY <1>1, <2>1
  <2>5. LocalsOf(t)
    BY <1>1, <2>1, <2>2, <2>3, <2>4, LocalsTypes DEF LocalsOf
  <2> QED
    BY <1>3, <2>2, <2>4, <2>5
<1> QED
  BY <1>2, <1>3

\* lookup calls insertTable again: its own frame goes on the stack,
LEMMA CallerPushed ==
  ASSUME Typed, NEW t \in Threads, pc[t] \in {"undeleted", "copy"},
         NEW back \in {"dComp", "count"}, CallAgain(t, Probed(t).ent, back)
  PROVE  \E f \in CallerFrames :
           /\ f.back = back /\ f.exStart = start /\ stack'[t] = <<f>> \o stack[t]
           /\ f.val = frame[t].val /\ f.ent = frame[t].ent /\ f.ht = frame[t].ht
           /\ f.j = frame[t].j /\ f.i = frame[t].i /\ f.doCopy = frame[t].doCopy
<1> DEFINE f == [frame[t] EXCEPT !.back = back, !.exStart = start]
<1>1. /\ frame[t] \in Frames /\ start \in Nat /\ DOMAIN stack = Threads
  BY LocalsTypes DEF Typed, TablesTyped
<1>2. /\ frame[t].ht \in DOMAIN SubTables /\ frame[t].val \in Keys /\ frame[t].j < cur
      /\ frame[t].ent \in Entries
  BY ProbeInRange DEF Typed, ThreadTyped, ProbePoints, InsertPoints, CopyPoints, DonePoints
<1>3. /\ f \in Frames /\ f.back = back /\ f.exStart = start
      /\ f.val = frame[t].val /\ f.ent = frame[t].ent /\ f.ht = frame[t].ht
      /\ f.j = frame[t].j /\ f.i = frame[t].i /\ f.doCopy = frame[t].doCopy
  BY <1>1 DEF Frames, Points
<1>4. f \in CallerFrames
  BY <1>2, <1>3 DEF CallerFrames
<1>5. stack' = [stack EXCEPT ![t] = <<f>> \o stack[t]]
  BY DEF CallAgain
<1> HIDE DEF f
<1>6. stack'[t] = <<f>> \o stack[t]
  BY <1>1, <1>5
<1> QED
  BY <1>3, <1>4, <1>6

\* and t is in a call for the entry of the slot it looks at.
LEMMA CallAgainEffect ==
  ASSUME Typed, NEW t \in Threads, pc[t] \in {"undeleted", "copy"},
         NEW back \in {"dComp", "count"}, CallAgain(t, Probed(t).ent, back)
  PROVE  /\ LocalsOf(t) /\ op' = op /\ key' = key /\ ret' = ret
         /\ Probed(t).ent \in Entries /\ val[Probed(t).ent] \in Keys
         /\ pc'[t] = "table" /\ frame'[t].val = val[Probed(t).ent]
         /\ frame'[t].ent = Probed(t).ent /\ frame'[t].ht = None /\ frame'[t].j = start + 1
         /\ frame'[t].i = 0 /\ frame'[t].limit = 0 /\ frame'[t].doCopy = FALSE
<1> DEFINE e == Probed(t).ent
           g == [NoFrame EXCEPT !.val = val[e], !.ent = e, !.j = start + 1]
<1>1. /\ frame[t] \in Frames /\ stack[t] \in Seq(CallerFrames) /\ start \in Nat
      /\ DOMAIN frame = Threads /\ DOMAIN pc = Threads /\ DOMAIN stack = Threads
      /\ op = [op EXCEPT ![t] = op[t]] /\ key = [key EXCEPT ![t] = key[t]]
      /\ ret = [ret EXCEPT ![t] = ret[t]]
  BY LocalsTypes DEF Typed, LocalsTyped, TablesTyped
<1>2. Probed(t) \in Pointers /\ Probed(t) # Null
  BY ProbeInRange DEF Typed, ThreadTyped, ProbePoints, InsertPoints, CopyPoints, DonePoints
<1>3. e \in Entries /\ val[e] \in Keys
  BY <1>2, PointerTyped
<1>6. /\ g \in Frames /\ g.val = val[e] /\ g.ent = e /\ g.ht = None /\ g.j = start + 1
      /\ g.i = 0 /\ g.limit = 0 /\ g.doCopy = FALSE
  <2>1. 0 \in Attempts
    BY HashtableSmartLazyAssumption DEF Attempts
  <2> QED
    <3> HIDE DEF e
    <3> DEFINE g1 == [NoFrame EXCEPT !.val = val[e]]
               g2 == [g1 EXCEPT !.ent = e]
    <3>1. g = [g2 EXCEPT !.j = start + 1]
      OBVIOUS
    <3>2. start + 1 \in Nat
      BY <1>1
    <3> HIDE DEF g
    <3>3. /\ g1 \in Frames /\ g1.val = val[e] /\ g1.ht = None /\ g1.i = 0 /\ g1.limit = 0
          /\ g1.doCopy = FALSE
      BY <1>1, <1>3, FrameMade DEF Frames
    <3> HIDE DEF g1
    <3>4. /\ g2 \in Frames /\ g2.val = val[e] /\ g2.ent = e /\ g2.ht = None /\ g2.i = 0
          /\ g2.limit = 0 /\ g2.doCopy = FALSE
      BY <1>3, <3>3 DEF Frames
    <3> HIDE DEF g2
    <3> QED
      BY <3>1, <3>2, <3>4 DEF Frames
<1>7. /\ frame' = [frame EXCEPT ![t] = g] /\ pc' = [pc EXCEPT ![t] = "table"]
      /\ op' = op /\ key' = key /\ ret' = ret
  BY DEF CallAgain, Goto
<1> HIDE DEF g, e
<1>8. PICK f \in CallerFrames : stack'[t] = <<f>> \o stack[t]
  BY CallerPushed
<1>9. /\ stack' = [stack EXCEPT ![t] = stack'[t]] /\ stack'[t] \in Seq(CallerFrames)
  <2>1. stack' = [stack EXCEPT ![t] = stack'[t]]
    BY <1>1 DEF CallAgain
  <2> QED
    BY <1>1, <1>8, <2>1
<1>10. pc'[t] = "table" /\ frame'[t] = g
  BY <1>1, <1>7
<1>11. LocalsOf(t)
  BY <1>1, <1>6, <1>7, <1>9, <1>10, LocalsTypes DEF LocalsOf, Points
<1> QED
  BY <1>3, <1>6, <1>7, <1>10, <1>11 DEF e
-----------------------------------------------------------------------------
(* Every step keeps the types                                              *)

\* The constants of the circular array.
LEMMA ArrayBounds ==
  /\ MaxTables \in Nat /\ MaxTables \div 2 \in Nat /\ MaxTables \div 2 > 1
  /\ \A n \in Nat : IndexOf(n) \in 0 .. MaxTables - 1
<1>1. MaxTables \in {4, 8, 16, 32, 64}
  BY HashtableSmartLazyAssumption
<1>2. MaxTables \in Nat \ {0} /\ MaxTables \div 2 \in Nat /\ MaxTables \div 2 > 1
  BY <1>1
<1>3. \A m \in Nat \ {0}, n \in Nat : n % m \in 0 .. m - 1
  OBVIOUS
<1> QED
  BY <1>2, <1>3 DEF IndexOf

\* The array, the window of subtables in use, and the flags.
GlobalsOf(t) ==
  /\ freed' \subseteq DOMAIN SubTables'
  /\ TableArray' \in [0 .. MaxTables - 1 -> {None} \cup DOMAIN SubTables']
  /\ toFree' \in [0 .. MaxTables - 1 -> {None} \cup DOMAIN SubTables']
  /\ start' \in Nat /\ cur' \in Nat /\ start <= start' /\ cur <= cur'
  /\ isDeleted' \in [Entries -> {0, 1}]
  /\ (AdvanceCur(t) /\ cur' # cur) \/ UNCHANGED cur
  /\ (AdvanceStart(t) /\ start' = start + 1) \/ UNCHANGED start

\* What a step does to them.
LEMMA GlobalsStep ==
  ASSUME Typed, NEW t \in Threads, ThreadStep(t), TablesOf(t)
  PROVE  GlobalsOf(t)
<1>1. /\ TablesTyped /\ DOMAIN SubTables \subseteq DOMAIN SubTables'
      /\ freed \subseteq DOMAIN SubTables
      /\ TableArray \in [0 .. MaxTables - 1 -> {None} \cup DOMAIN SubTables]
      /\ toFree \in [0 .. MaxTables - 1 -> {None} \cup DOMAIN SubTables]
      /\ start \in Nat /\ cur \in Nat /\ isDeleted \in [Entries -> {0, 1}]
  BY DEF Typed, TablesTyped, TablesOf
<1>2. /\ TableArray \in [0 .. MaxTables - 1 -> {None} \cup DOMAIN SubTables']
      /\ toFree \in [0 .. MaxTables - 1 -> {None} \cup DOMAIN SubTables']
      /\ freed \subseteq DOMAIN SubTables'
  BY <1>1
<1>3. CASE UNCHANGED <<array, start, cur, isDeleted>>
  BY <1>1, <1>2, <1>3 DEF GlobalsOf, array
<1>4. CASE CallInsert(t)
  <2>1. UNCHANGED <<array, start, cur>> /\ isDeleted' \in [Entries -> {0, 1}]
    BY <1>1, <1>4 DEF CallInsert, Start
  <2> QED
    BY <1>1, <1>2, <2>1 DEF GlobalsOf, array
<1>5. CASE lookup(t) \/ setDelete(t)
  <2>1. UNCHANGED <<array, start, cur>>
    BY <1>5 DEF lookup, setDelete
  <2>2. isDeleted' \in [Entries -> {0, 1}]
    BY <1>1, <1>5 DEF lookup, setDelete
  <2> QED
    BY <1>1, <1>2, <2>1, <2>2 DEF GlobalsOf, array
<1>6. CASE AdvanceStart(t)
  <2>1. UNCHANGED <<array, cur, isDeleted>> /\ start' \in {start, start + 1}
    BY <1>6 DEF AdvanceStart
  <2> QED
    BY <1>1, <1>2, <1>6, <2>1 DEF GlobalsOf, array
<1>7. CASE Retire(t)
  <2>1. Place(t) \in 0 .. MaxTables - 1
    <3> DEFINE m == MaxTables \div 2
    <3>1. frame[t].exStart \in Nat /\ m \in Nat
      BY LocalsTypes, FrameTyped, ArrayBounds
    <3> HIDE DEF m
    <3>2. frame[t].exStart + m \in Nat
      BY <3>1
    <3> QED
      BY <3>2, ArrayBounds DEF Place, m
  <2>2. UNCHANGED <<SubTables, start, cur, isDeleted>>
    BY <1>7 DEF Retire
  <2>3. freed' \subseteq DOMAIN SubTables'
    BY <1>1, <1>7, <2>1, <2>2 DEF Retire
  <2>4. TableArray' \in [0 .. MaxTables - 1 -> {None} \cup DOMAIN SubTables']
    BY <1>1, <1>7, <2>1, <2>2 DEF Retire
  <2>5. toFree' \in [0 .. MaxTables - 1 -> {None} \cup DOMAIN SubTables']
    BY <1>1, <1>7, <2>1, <2>2 DEF Retire
  <2> QED
    BY <1>1, <2>2, <2>3, <2>4, <2>5 DEF GlobalsOf
<1>8. CASE addDrop(t)
  <2>1. UNCHANGED <<toFree, freed, start, cur, isDeleted>>
    BY <1>8 DEF addDrop
  <2>2. TableArray' \in [0 .. MaxTables - 1 -> {None} \cup DOMAIN SubTables']
    <3>1. CASE UNCHANGED TableArray
      BY <1>2, <3>1
    <3>2. CASE /\ SubTables' = Append(SubTables, createTable(frame[t].size))
               /\ TableArray' = [TableArray EXCEPT ![IndexOf(frame[t].j)] = Len(SubTables')]
      <4>1. Len(SubTables') \in DOMAIN SubTables'
        BY <1>1, <3>2 DEF TablesTyped
      <4>2. IndexOf(frame[t].j) \in 0 .. MaxTables - 1
        BY LocalsTypes, FrameTyped, ArrayBounds
      <4> QED
        BY <1>2, <3>2, <4>1, <4>2
    <3> QED
      BY <1>8, <3>1, <3>2 DEF addDrop
  <2> QED
    BY <1>1, <1>2, <2>1, <2>2 DEF GlobalsOf
<1>9. CASE AdvanceCur(t)
  <2>1. UNCHANGED <<array, start, isDeleted>> /\ cur' \in {cur, cur + 1}
    BY <1>9 DEF AdvanceCur
  <2> QED
    BY <1>1, <1>2, <1>9, <2>1 DEF GlobalsOf, array
<1>10. CASE CallQuery(t) \/ CallDelete(t) \/ InsertTable(t) \/ Undeleted(t) \/ ReturnComp(t)
            \/ setPtr(t) \/ CopyUp(t) \/ CountCopy(t) \/ ClaimSlot(t) \/ NextTableSize(t)
            \/ QueryTable(t) \/ lookupQuery(t)
  <2>1. UNCHANGED <<array, start, cur, isDeleted>>
    <3>1. CASE CallQuery(t) \/ CallDelete(t)
      BY <3>1 DEF CallQuery, CallDelete, Start
    <3>2. CASE InsertTable(t) \/ Undeleted(t) \/ ReturnComp(t) \/ CopyUp(t) \/ NextTableSize(t)
               \/ QueryTable(t) \/ lookupQuery(t)
      BY <3>2 DEF shared, InsertTable, Undeleted, ReturnComp, CopyUp, NextTableSize, QueryTable,
           lookupQuery
    <3>3. CASE setPtr(t) \/ CountCopy(t) \/ ClaimSlot(t)
      BY <3>3 DEF setPtr, CountCopy, ClaimSlot
    <3> QED
      BY <1>10, <3>1, <3>2, <3>3
  <2> QED
    BY <1>3, <2>1
<1> QED
  BY <1>4, <1>5, <1>6, <1>7, <1>8, <1>9, <1>10 DEF ThreadStep, Step

\* A slot that has an entry keeps it.
LEMMA SlotsKept ==
  ASSUME Typed, NEW t \in Threads, TablesOf(t)
  PROVE  \A n \in DOMAIN SubTables :
           /\ SubTables'[n].TableSize = SubTables[n].TableSize
           /\ Slots(SubTables'[n]) = Slots(SubTables[n])
           /\ \A x \in Slots(SubTables[n]) : SubTables[n].InnerTable[x] # Null =>
                SubTables'[n].InnerTable[x].ent = SubTables[n].InnerTable[x].ent
                /\ SubTables'[n].InnerTable[x] # Null
<1> SUFFICES ASSUME NEW n \in DOMAIN SubTables
             PROVE  /\ SubTables'[n].TableSize = SubTables[n].TableSize
                    /\ Slots(SubTables'[n]) = Slots(SubTables[n])
                    /\ \A x \in Slots(SubTables[n]) : SubTables[n].InnerTable[x] # Null =>
                         SubTables'[n].InnerTable[x].ent = SubTables[n].InnerTable[x].ent
                         /\ SubTables'[n].InnerTable[x] # Null
  OBVIOUS
<1>1. SubTables[n] \in SubTableSet /\ SubTables'[n] \in SubTableSet
  BY SubTablesTyped DEF Typed, TablesOf
<1>2. SubTables'[n].TableSize = SubTables[n].TableSize
  BY DEF TablesOf
<1>3. Slots(SubTables'[n]) = Slots(SubTables[n])
  BY <1>1, <1>2, TableTyped
<1>4. ASSUME NEW x \in Slots(SubTables[n]), SubTables[n].InnerTable[x] # Null
      PROVE  SubTables'[n].InnerTable[x].ent = SubTables[n].InnerTable[x].ent
             /\ SubTables'[n].InnerTable[x] # Null
  <2> DEFINE p == SubTables[n].InnerTable[x]
             q == SubTables'[n].InnerTable[x]
  <2>1. p \in Pointers /\ q \in Pointers
    BY <1>1, <1>2, TableTyped
  <2>2. q = After(t, n, x)
    BY DEF TablesOf
  <2>3. ~(n = frame[t].ht /\ x = s(t)) \/ ~Claims(t)
    <3>1. ASSUME Claims(t)
          PROVE  Probed(t) = SubTables[frame[t].ht].InnerTable[s(t)]
      BY <3>1, ProbeInRange DEF Claims, ClaimSlot, ProbePoints
    <3> QED
      BY <1>4, <3>1 DEF Claims
  <2>4. q.ent = p.ent
    BY <2>2, <2>3 DEF After
  <2> QED
    BY <1>4, <2>1, <2>4, PointerTyped
<1> QED
  BY <1>2, <1>3, <1>4

\* The other threads keep their types.
LEMMA OtherTyped ==
  ASSUME Typed, NEW t \in Threads, NEW u \in Threads, u # t,
         TablesOf(t), GlobalsOf(t), LocalsOf(t)
  PROVE  ThreadTyped(u)'
<1>1. pc'[u] = pc[u] /\ frame'[u] = frame[u] /\ frame[u] \in Frames
  BY LocalsTypes DEF LocalsOf
<1>2. /\ cur \in Nat /\ cur' \in Nat /\ cur <= cur' /\ start \in Nat /\ start' \in Nat
      /\ start <= start' /\ DOMAIN SubTables \subseteq DOMAIN SubTables' /\ ThreadTyped(u)
  BY DEF Typed, TablesTyped, GlobalsOf, TablesOf
<1>3. frame[u].j \in Nat /\ frame[u].limit \in Nat /\ MaxTables \div 2 \in Nat
  BY <1>1, FrameTyped, ArrayBounds
<1>4. ASSUME pc[u] \in {"undeleted", "setPtr", "copy", "delete"}
      PROVE  Probed(u)' # Null
  <2>1. /\ frame[u].ht \in DOMAIN SubTables /\ ht(u) = SubTables[frame[u].ht]
        /\ s(u) \in Slots(ht(u)) /\ Probed(u) = SubTables[frame[u].ht].InnerTable[s(u)]
        /\ Probed(u) # Null
    BY <1>2, <1>4, ProbeInRange DEF ProbePoints, CopyPoints, DonePoints, ThreadTyped
  <2>2. /\ SubTables'[frame[u].ht].TableSize = SubTables[frame[u].ht].TableSize
        /\ SubTables'[frame[u].ht].InnerTable[s(u)] # Null
    BY <2>1, SlotsKept
  <2>3. s(u)' = s(u)
    BY <1>1, <2>2, Zenon DEF s, ht, Bucket
  <2> QED
    BY <1>1, <2>2, <2>3 DEF Probed, ht
<1>5. pc[u] \in QueryPoints => frame[u].limit <= cur'
  BY <1>2, <1>3 DEF ThreadTyped
<1>6. pc[u] \in {"table", "size", "grow", "advance"} =>
        frame[u].j <= cur' \/ frame[u].j <= start' + 1
  BY <1>2, <1>3 DEF ThreadTyped
<1>7. pc[u] \in {"grow", "advance"} => frame[u].j - start' < MaxTables \div 2
  BY <1>2, <1>3 DEF ThreadTyped
<1>8. pc[u] \in ProbePoints => frame[u].ht \in DOMAIN SubTables' /\ frame[u].j < cur'
  BY <1>2, <1>3 DEF ThreadTyped
<1> QED
  BY <1>1, <1>2, <1>4, <1>5, <1>6, <1>7, <1>8 DEF ThreadTyped

\* A step that gives t another point and another frame.
LEMMA PlainEffect ==
  ASSUME Typed, NEW t \in Threads, UNCHANGED call, NEW f \in Frames, NEW label \in Points,
         frame' = [frame EXCEPT ![t] = f], Goto(t, label)
  PROVE  /\ LocalsOf(t) /\ frame'[t] = f /\ pc'[t] = label
         /\ UNCHANGED <<op, key, ret, stack>>
<1>1. /\ DOMAIN frame = Threads /\ DOMAIN pc = Threads
      /\ op = [op EXCEPT ![t] = op[t]] /\ key = [key EXCEPT ![t] = key[t]]
      /\ ret = [ret EXCEPT ![t] = ret[t]] /\ stack = [stack EXCEPT ![t] = stack[t]]
  BY DEF Typed, LocalsTyped
<1>2. UNCHANGED <<op, key, ret, stack>> /\ pc' = [pc EXCEPT ![t] = label]
  BY DEF call, Goto
<1>3. frame'[t] = f /\ pc'[t] = label
  BY <1>1, <1>2
<1> QED
  BY <1>1, <1>2, <1>3, LocalsTypes DEF LocalsOf

\* A step that gives t another point.
LEMMA GotoEffect ==
  ASSUME Typed, NEW t \in Threads, UNCHANGED <<call, frame>>, NEW label \in Points, Goto(t, label)
  PROVE  /\ LocalsOf(t) /\ frame'[t] = frame[t] /\ pc'[t] = label
         /\ UNCHANGED <<op, key, ret, stack>>
<1>1. frame' = [frame EXCEPT ![t] = frame[t]] /\ frame[t] \in Frames /\ UNCHANGED call
  BY LocalsTypes DEF Typed, LocalsTyped, call
<1> QED
  BY <1>1, PlainEffect

\* A call from the harness.
LEMMA StartEffect ==
  ASSUME Typed, NEW t \in Threads, NEW o \in {"insert", "query", "delete"}, NEW k \in Keys,
         NEW e \in Entries \cup {NULL}, NEW label \in Points, Start(t, o, k, e, label)
  PROVE  /\ LocalsOf(t) /\ pc'[t] = label /\ op'[t] = o /\ key'[t] = k /\ ret'[t] = 0
         /\ UNCHANGED <<SubTables, array, start, cur, stack>>
         /\ frame'[t].val = k /\ frame'[t].ent = e /\ frame'[t].ht = None
         /\ frame'[t].j = start /\ frame'[t].i = 0
         /\ frame'[t].limit = (IF o = "insert" THEN 0 ELSE cur)
         /\ frame'[t].doCopy = FALSE /\ frame'[t].exStart = 0
<1> DEFINE lim == IF o = "insert" THEN 0 ELSE cur
           g1 == [NoFrame EXCEPT !.val = k]
           g2 == [g1 EXCEPT !.ent = e]
           g3 == [g2 EXCEPT !.j = start]
           g4 == [g3 EXCEPT !.limit = lim]
<1>1. /\ pc' = [pc EXCEPT ![t] = label] /\ op' = [op EXCEPT ![t] = o]
      /\ key' = [key EXCEPT ![t] = k] /\ ret' = [ret EXCEPT ![t] = 0]
      /\ frame' = [frame EXCEPT ![t] = [NoFrame EXCEPT !.val = k, !.ent = e, !.j = start,
                                                       !.limit = lim]]
      /\ UNCHANGED <<SubTables, array, start, cur, stack>>
  BY DEF Start, Goto
<1>2. frame' = [frame EXCEPT ![t] = g4]
  BY <1>1
<1>3. start \in Nat /\ lim \in Nat
  BY DEF Typed, TablesTyped
<1> HIDE DEF g4, lim
<1>4. /\ g1 \in Frames /\ g1.val = k /\ g1.ht = None /\ g1.i = 0 /\ g1.doCopy = FALSE
      /\ g1.exStart = 0
  <2>1. frame[t] \in Frames
    BY LocalsTypes
  <2>2. /\ NoFrame \in Frames /\ NoFrame.ht = None /\ NoFrame.i = 0 /\ NoFrame.doCopy = FALSE
        /\ NoFrame.exStart = 0
    BY <1>3, <2>1, FrameMade
  <2> QED
    BY <2>2 DEF Frames
<1> HIDE DEF g1
<1>5. /\ g2 \in Frames /\ g2.val = k /\ g2.ent = e /\ g2.ht = None /\ g2.i = 0
      /\ g2.doCopy = FALSE /\ g2.exStart = 0
  BY <1>4 DEF Frames
<1> HIDE DEF g2
<1>6. /\ g3 \in Frames /\ g3.val = k /\ g3.ent = e /\ g3.ht = None /\ g3.i = 0
      /\ g3.doCopy = FALSE /\ g3.j = start /\ g3.exStart = 0
  BY <1>3, <1>5 DEF Frames
<1> HIDE DEF g3
<1>7. /\ g4 \in Frames /\ g4.val = k /\ g4.ent = e /\ g4.ht = None /\ g4.i = 0
      /\ g4.doCopy = FALSE /\ g4.j = start /\ g4.limit = lim /\ g4.exStart = 0
  BY <1>3, <1>6 DEF Frames, g4
<1>8. /\ pc'[t] = label /\ op'[t] = o /\ key'[t] = k /\ ret'[t] = 0 /\ frame'[t] = g4
      /\ stack'[t] = stack[t] /\ stack = [stack EXCEPT ![t] = stack[t]]
  BY <1>1, <1>2 DEF Typed, LocalsTyped
<1>9. LocalsOf(t)
  BY <1>1, <1>2, <1>7, <1>8, LocalsTypes DEF LocalsOf
<1> QED
  BY <1>1, <1>7, <1>8, <1>9 DEF lim

\* Three calls from the harness.
LEMMA CallTyped ==
  ASSUME Typed, NEW t \in Threads, CallInsert(t) \/ CallQuery(t) \/ CallDelete(t)
  PROVE  LocalsOf(t) /\ ThreadTyped(t)'
<1>1. start \in Nat /\ cur \in Nat
  BY DEF Typed, TablesTyped
<1>2. CASE CallInsert(t)
  <2>1. PICK e \in Entries : Start(t, "insert", val[e], e, "table")
    BY <1>2 DEF CallInsert
  <2>2. val[e] \in Keys
    BY DEF Keys
  <2>3. /\ LocalsOf(t) /\ pc'[t] = "table" /\ UNCHANGED <<start, cur>>
        /\ frame'[t].val = val[e] /\ frame'[t].ent = e /\ frame'[t].j = start
    <3>1. "table" \in Points
      BY DEF Points
    <3> QED
      BY <2>1, <2>2, <3>1, StartEffect, Zenon DEF array
  <2> QED
    BY <1>1, <2>2, <2>3 DEF ThreadTyped, InsertPoints, CopyPoints, DonePoints, QueryPoints,
      ProbePoints
<1>3. CASE CallQuery(t) \/ CallDelete(t)
  <2>1. PICK k \in Keys :
          Start(t, "query", k, NULL, "qtable") \/ Start(t, "delete", k, NULL, "qtable")
    BY <1>3 DEF CallQuery, CallDelete
  <2>2. /\ LocalsOf(t) /\ pc'[t] = "qtable" /\ UNCHANGED <<start, cur>>
        /\ frame'[t].val = k /\ frame'[t].limit = cur
    <3>1. NULL \in Entries \cup {NULL} /\ "qtable" \in Points
      BY DEF Points
    <3>2. CASE Start(t, "query", k, NULL, "qtable")
      BY <3>1, <3>2, StartEffect
    <3>3. CASE Start(t, "delete", k, NULL, "qtable")
      BY <3>1, <3>3, StartEffect
    <3> QED
      BY <2>1, <3>2, <3>3
  <2> QED
    BY <1>1, <2>2 DEF ThreadTyped, InsertPoints, CopyPoints, DonePoints, QueryPoints, ProbePoints
<1> QED
  BY <1>2, <1>3

\* A return keeps the types: a caller goes on at a subtable in use.
LEMMA ReturnTyped ==
  ASSUME Typed, NEW t \in Threads, NEW r \in {0, 1}, Return(t, r), GlobalsOf(t), TablesOf(t)
  PROVE  LocalsOf(t) /\ ThreadTyped(t)'
<1>1. CASE stack[t] = <<>>
  <2>1. LocalsOf(t) /\ pc'[t] = "idle"
    BY <1>1, ReturnEffect
  <2> QED
    BY <2>1 DEF ThreadTyped, InsertPoints, CopyPoints, DonePoints, QueryPoints, ProbePoints
<1>2. CASE stack[t] # <<>>
  <2> DEFINE f == Head(stack[t])
  <2>1. LocalsOf(t) /\ pc'[t] = f.back /\ frame'[t] = f /\ f \in CallerFrames
    BY <1>2, ReturnEffect
  <2>2. /\ f \in Frames /\ f.ht \in DOMAIN SubTables /\ f.val \in Keys /\ f.ent \in Entries
        /\ f.j < cur /\ f.back \in {"dComp", "count"}
    BY <2>1 DEF CallerFrames
  <2>3. DOMAIN SubTables \subseteq DOMAIN SubTables' /\ cur <= cur' /\ cur \in Nat /\ cur' \in Nat
        /\ f.j \in Nat
    BY <2>2, FrameTyped DEF TablesOf, GlobalsOf, Typed, TablesTyped
  <2> HIDE DEF f
  <2>4. f.ht \in DOMAIN SubTables' /\ f.j < cur'
    BY <2>2, <2>3
  <2> QED
    BY <2>1, <2>2, <2>4 DEF ThreadTyped, InsertPoints, CopyPoints, DonePoints, QueryPoints,
      ProbePoints
<1> QED
  BY <1>1, <1>2

\* `continue' keeps the types.
LEMMA NextTyped ==
  ASSUME Typed, NEW t \in Threads, GlobalsOf(t), TablesOf(t), pc[t] \in ProbePoints,
         \/ NextAttempt(t, "lookup", "table") /\ pc[t] \in {"lookup", "claim"} \cup CopyPoints
         \/ NextAttempt(t, "qlookup", "qtable") /\ pc[t] = "qlookup"
  PROVE  LocalsOf(t) /\ ThreadTyped(t)'
<1>1. PICK again \in {"lookup", "qlookup"}, after \in {"table", "qtable"} :
        /\ NextAttempt(t, again, after)
        /\ \/ again = "lookup" /\ after = "table" /\ pc[t] \in InsertPoints
           \/ again = "qlookup" /\ after = "qtable" /\ pc[t] = "qlookup"
  BY DEF InsertPoints
<1>2. /\ LocalsOf(t) /\ frame'[t].val = frame[t].val /\ frame'[t].ent = frame[t].ent
      /\ frame'[t].limit = frame[t].limit
      /\ \/ pc'[t] = again /\ frame'[t].ht = frame[t].ht /\ frame'[t].j = frame[t].j
         \/ pc'[t] = after /\ frame'[t].j = frame[t].j + 1
  <2>1. again \in Points /\ after \in Points
    BY DEF Points
  <2> QED
    BY <1>1, <2>1, NextEffect
<1>3. /\ frame[t].ht \in DOMAIN SubTables /\ frame[t].j < cur /\ frame[t].val \in Keys
      /\ frame[t].j \in Nat /\ cur \in Nat
  BY ProbeInRange
<1>4. /\ pc[t] \in InsertPoints => frame[t].ent \in Entries
      /\ pc[t] = "qlookup" => frame[t].limit <= cur
      /\ frame[t].limit \in Nat
  BY LocalsTypes, FrameTyped DEF Typed, ThreadTyped, QueryPoints
<1>5. DOMAIN SubTables \subseteq DOMAIN SubTables' /\ cur <= cur' /\ cur' \in Nat
  BY DEF TablesOf, GlobalsOf
<1>6. frame[t].ht \in DOMAIN SubTables' /\ frame[t].j < cur' /\ frame[t].j + 1 <= cur'
      /\ (pc[t] = "qlookup" => frame[t].limit <= cur')
  BY <1>3, <1>4, <1>5
<1>7. CASE again = "lookup"
  <2>1. after = "table" /\ pc[t] \in InsertPoints
    BY <1>1, <1>7
  <2> QED
    BY <1>2, <1>3, <1>4, <1>6, <1>7, <2>1 DEF ThreadTyped, InsertPoints, CopyPoints, DonePoints,
      QueryPoints, ProbePoints
<1>8. CASE again = "qlookup"
  <2>1. after = "qtable" /\ pc[t] = "qlookup"
    BY <1>1, <1>8
  <2> QED
    BY <1>2, <1>3, <1>4, <1>6, <1>8, <2>1 DEF ThreadTyped, InsertPoints, CopyPoints, DonePoints,
      QueryPoints, ProbePoints
<1> QED
  BY <1>7, <1>8

\* A thread that goes on with the slot it looks at keeps the types.
LEMMA StayTyped ==
  ASSUME Typed, NEW t \in Threads, GlobalsOf(t), TablesOf(t), LocalsOf(t), pc[t] \in ProbePoints,
         NEW label \in ProbePoints, pc'[t] = label,
         frame'[t].val = frame[t].val, frame'[t].ent = frame[t].ent, frame'[t].ht = frame[t].ht,
         frame'[t].j = frame[t].j, frame'[t].i = frame[t].i, frame'[t].limit = frame[t].limit,
         \/ pc[t] \in InsertPoints \cup DonePoints /\ label \notin QueryPoints
         \/ pc[t] \in QueryPoints /\ label \in QueryPoints,
         label \in {"undeleted", "setPtr", "copy", "delete"} => Probed(t) # Null
  PROVE  ThreadTyped(t)'
<1>1. /\ frame[t].ht \in DOMAIN SubTables /\ frame[t].j < cur /\ frame[t].val \in Keys
      /\ frame[t].j \in Nat /\ cur \in Nat /\ ht(t) = SubTables[frame[t].ht]
      /\ s(t) \in Slots(ht(t)) /\ Probed(t) = SubTables[frame[t].ht].InnerTable[s(t)]
  BY ProbeInRange
<1>2. /\ pc[t] \in InsertPoints \cup DonePoints => frame[t].ent \in Entries
      /\ pc[t] \in QueryPoints => frame[t].limit <= cur
      /\ frame[t].limit \in Nat
  BY LocalsTypes, FrameTyped DEF Typed, ThreadTyped
<1>3. DOMAIN SubTables \subseteq DOMAIN SubTables' /\ cur <= cur' /\ cur' \in Nat
  BY DEF TablesOf, GlobalsOf
<1>4. frame[t].ht \in DOMAIN SubTables' /\ frame[t].j < cur'
  BY <1>1, <1>3
<1>5. pc[t] \in QueryPoints => frame[t].limit <= cur'
  BY <1>1, <1>2, <1>3
<1>6. label \in {"undeleted", "setPtr", "copy", "delete"} => Probed(t)' # Null
  <2>1. SubTables'[frame[t].ht].TableSize = SubTables[frame[t].ht].TableSize
    BY <1>1, SlotsKept
  <2>2. s(t)' = s(t)
    BY <1>1, <2>1, Zenon DEF s, ht, Bucket
  <2>3. ASSUME Probed(t) # Null
        PROVE  SubTables'[frame[t].ht].InnerTable[s(t)] # Null
    BY <1>1, <2>3, SlotsKept
  <2> QED
    BY <2>2, <2>3 DEF Probed, ht
<1>7. label \notin {"idle", "table", "size", "grow", "advance"}
  BY DEF ProbePoints, CopyPoints, DonePoints
<1>8. label \in QueryPoints => pc[t] \in QueryPoints
  OBVIOUS
<1>9. label \in InsertPoints \cup DonePoints => pc[t] \in InsertPoints \cup DonePoints
  BY DEF QueryPoints, InsertPoints, DonePoints, CopyPoints
<1> QED
  BY <1>1, <1>2, <1>4, <1>5, <1>6, <1>7, <1>8, <1>9 DEF ThreadTyped

\* The loop over the subtables.
LEMMA InsertTableTyped ==
  ASSUME Typed, NEW t \in Threads, InsertTable(t), TablesOf(t), GlobalsOf(t)
  PROVE  LocalsOf(t) /\ ThreadTyped(t)'
<1> DEFINE f == frame[t]
<1>1. /\ pc[t] = "table" /\ UNCHANGED <<SubTables, start, cur>> /\ UNCHANGED call
      /\ f.val \in Keys /\ f.ent \in Entries /\ f \in Frames
      /\ f.j <= cur \/ f.j <= start + 1
      /\ f.j \in Nat /\ cur \in Nat /\ start \in Nat
  BY LocalsTypes, FrameTyped DEF InsertTable, shared, Typed, ThreadTyped, InsertPoints, TablesTyped
<1>2. CASE f.j < cur
  <2> DEFINE h == TableArray[IndexOf(f.j)]
             c == IndexOf(f.j) = IndexOf(start) /\ cur - start > 1
             g1 == [f EXCEPT !.ht = h]
             g == [g1 EXCEPT !.doCopy = c]
  <2>1. h \in DOMAIN SubTables /\ h \in Nat
    <3>1. IndexOf(f.j) \in 0 .. MaxTables - 1
      BY <1>1, ArrayBounds
    <3>2. h # None
      BY <1>2 DEF InsertTable, HasTable
    <3> QED
      BY <3>1, <3>2, SubTablesTyped DEF Typed, TablesTyped
  <2>2. frame' = [frame EXCEPT ![t] = g] /\ Goto(t, "lookup")
    BY <1>2 DEF InsertTable
  <2>3. c \in BOOLEAN
    OBVIOUS
  <2> HIDE DEF h, c
  <2>4. g1 \in Frames /\ g1.val = f.val /\ g1.ent = f.ent /\ g1.ht = h /\ g1.j = f.j
    BY <1>1, <2>1 DEF Frames
  <2> HIDE DEF g1
  <2>5. g \in Frames /\ g.val = f.val /\ g.ent = f.ent /\ g.ht = h /\ g.j = f.j
    BY <2>3, <2>4 DEF Frames
  <2> HIDE DEF g
  <2>6. LocalsOf(t) /\ frame'[t] = g /\ pc'[t] = "lookup"
    BY <1>1, <2>2, <2>5, PlainEffect DEF Points
  <2> QED
    BY <1>1, <1>2, <2>1, <2>5, <2>6 DEF ThreadTyped, InsertPoints, CopyPoints, DonePoints,
      QueryPoints, ProbePoints
<1>3. CASE ~(f.j < cur)
  <2>1. LocalsOf(t) /\ frame'[t] = f /\ pc'[t] = "size"
    BY <1>1, <1>3, GotoEffect DEF Points, InsertTable
  <2> QED
    BY <1>1, <2>1 DEF ThreadTyped, InsertPoints, CopyPoints, DonePoints, QueryPoints, ProbePoints
<1> QED
  BY <1>2, <1>3

\* lookup, and what follows an undelete.
LEMMA LookupTyped ==
  ASSUME Typed, NEW t \in Threads, lookup(t) \/ Undeleted(t) \/ ReturnComp(t),
         TablesOf(t), GlobalsOf(t)
  PROVE  LocalsOf(t) /\ ThreadTyped(t)'
<1>1. /\ pc[t] \in {"lookup", "undeleted", "dComp"}
      /\ pc[t] \in ProbePoints /\ pc[t] \in InsertPoints \cup DonePoints
  BY DEF lookup, Undeleted, ReturnComp, InsertPoints, ProbePoints, DonePoints
<1>2. ASSUME NEW r \in {0, 1}, Return(t, r)
      PROVE  LocalsOf(t) /\ ThreadTyped(t)'
  BY <1>2, ReturnTyped
<1>3. ASSUME NEW label \in {"claim", "undeleted", "setPtr"}, Goto(t, label),
             UNCHANGED <<call, frame>>, label # "claim" => Probed(t) # Null
      PROVE  LocalsOf(t) /\ ThreadTyped(t)'
  <2>1. label \in Points /\ label \in ProbePoints /\ label \notin QueryPoints
    BY DEF Points, ProbePoints, QueryPoints, DonePoints, CopyPoints
  <2>2. LocalsOf(t) /\ frame'[t] = frame[t] /\ pc'[t] = label
    BY <1>3, <2>1, GotoEffect
  <2> QED
    BY <1>1, <1>3, <2>1, <2>2, StayTyped
<1>4. CASE lookup(t)
  <2>1. pc[t] = "lookup"
    BY <1>4 DEF lookup
  <2>2. CASE Probed(t) = Null /\ Goto(t, "claim") /\ UNCHANGED <<call, frame>>
    BY <2>2, <1>3
  <2>3. CASE Return(t, 0)
    BY <2>3, <1>2
  <2>4. CASE Flagged(Probed(t), frame[t].val) /\ Goto(t, "undeleted") /\ UNCHANGED <<call, frame>>
    BY <2>4, <1>3 DEF Flagged, HasKey
  <2>5. CASE Other(Probed(t), frame[t].val) /\ Goto(t, "setPtr") /\ UNCHANGED <<call, frame>>
    BY <2>5, <1>3 DEF Other
  <2>6. CASE NextAttempt(t, "lookup", "table")
    BY <2>1, <2>6, <1>1, NextTyped
  <2> QED
    BY <1>4, <2>2, <2>3, <2>4, <2>5, <2>6 DEF lookup
<1>5. CASE Undeleted(t)
  <2>1. CASE CallAgain(t, Probed(t).ent, "dComp")
    <3>0. pc[t] \in {"undeleted", "copy"} /\ "dComp" \in {"dComp", "count"}
      BY <1>5 DEF Undeleted
    <3>1. /\ LocalsOf(t) /\ Probed(t).ent \in Entries /\ val[Probed(t).ent] \in Keys
          /\ pc'[t] = "table" /\ frame'[t].val = val[Probed(t).ent]
          /\ frame'[t].ent = Probed(t).ent /\ frame'[t].j = start + 1
      BY <2>1, <3>0, CallAgainEffect
    <3>2. UNCHANGED <<start, cur>> /\ start \in Nat
      BY <1>5 DEF Undeleted, shared, Typed, TablesTyped
    <3> QED
      BY <3>1, <3>2 DEF ThreadTyped, InsertPoints, CopyPoints, DonePoints, QueryPoints,
        ProbePoints
  <2> QED
    BY <1>5, <2>1, <1>2 DEF Undeleted
<1>6. CASE ReturnComp(t)
  BY <1>6, <1>2 DEF ReturnComp
<1> QED
  BY <1>4, <1>5, <1>6

\* The copy of an entry.
LEMMA CopyTyped ==
  ASSUME Typed, NEW t \in Threads, setPtr(t) \/ CopyUp(t) \/ CountCopy(t),
         TablesOf(t), GlobalsOf(t)
  PROVE  LocalsOf(t) /\ ThreadTyped(t)'
<1>1. /\ pc[t] \in {"setPtr", "copy", "count"}
      /\ pc[t] \in ProbePoints /\ pc[t] \in InsertPoints /\ pc[t] \in CopyPoints
      /\ (pc[t] # "count" => Probed(t) # Null)
  BY DEF setPtr, CopyUp, CountCopy, InsertPoints, ProbePoints, CopyPoints, Typed, ThreadTyped
<1>2. CASE setPtr(t)
  <2>1. CASE Goto(t, "copy") /\ UNCHANGED <<call, frame>>
    <3>1. LocalsOf(t) /\ frame'[t] = frame[t] /\ pc'[t] = "copy"
      BY <2>1, GotoEffect DEF Points
    <3> QED
      BY <1>1, <1>2, <3>1, StayTyped DEF setPtr, ProbePoints, QueryPoints, CopyPoints
  <2>2. CASE NextAttempt(t, "lookup", "table")
    BY <2>2, <1>1, NextTyped
  <2> QED
    BY <1>2, <2>1, <2>2 DEF setPtr
<1>3. CASE CopyUp(t)
  <2>1. CASE CallAgain(t, Probed(t).ent, "count")
    <3>0. pc[t] \in {"undeleted", "copy"} /\ "count" \in {"dComp", "count"}
      BY <1>3 DEF CopyUp
    <3>1. /\ LocalsOf(t) /\ Probed(t).ent \in Entries /\ val[Probed(t).ent] \in Keys
          /\ pc'[t] = "table" /\ frame'[t].val = val[Probed(t).ent]
          /\ frame'[t].ent = Probed(t).ent /\ frame'[t].j = start + 1
      BY <2>1, <3>0, CallAgainEffect
    <3>2. UNCHANGED <<start, cur>> /\ start \in Nat
      BY <1>3 DEF CopyUp, shared, Typed, TablesTyped
    <3> QED
      BY <3>1, <3>2 DEF ThreadTyped, InsertPoints, CopyPoints, DonePoints, QueryPoints,
        ProbePoints
  <2>2. CASE Goto(t, "count") /\ frame' = [frame EXCEPT ![t].exStart = start] /\ UNCHANGED call
    <3> DEFINE g == [frame[t] EXCEPT !.exStart = start]
    <3>1. /\ g \in Frames /\ g.val = frame[t].val /\ g.ent = frame[t].ent /\ g.ht = frame[t].ht
          /\ g.j = frame[t].j /\ g.i = frame[t].i /\ g.limit = frame[t].limit
      <4>1. start \in Nat /\ frame[t] \in Frames
        BY LocalsTypes DEF Typed, TablesTyped
      <4> QED
        BY <4>1 DEF Frames
    <3>2. frame' = [frame EXCEPT ![t] = g]
      BY <2>2
    <3> HIDE DEF g
    <3>3. LocalsOf(t) /\ frame'[t] = g /\ pc'[t] = "count"
      BY <2>2, <3>1, <3>2, PlainEffect DEF Points
    <3> QED
      BY <1>1, <3>1, <3>3, StayTyped DEF ProbePoints, QueryPoints, CopyPoints
  <2> QED
    BY <1>3, <2>1, <2>2 DEF CopyUp
<1>4. CASE CountCopy(t)
  <2>1. LocalsOf(t) /\ frame'[t] = frame[t] /\ pc'[t] = "start"
    BY <1>4, GotoEffect DEF Points, CountCopy
  <2> QED
    BY <1>1, <2>1, StayTyped DEF ProbePoints, QueryPoints, CopyPoints
<1> QED
  BY <1>2, <1>3, <1>4

\* The advance of head->start, the retirement that follows it, and the claim of a slot.
LEMMA AdvanceTyped ==
  ASSUME Typed, NEW t \in Threads, AdvanceStart(t) \/ Retire(t) \/ ClaimSlot(t),
         TablesOf(t), GlobalsOf(t)
  PROVE  LocalsOf(t) /\ ThreadTyped(t)'
<1>1. /\ pc[t] \in {"start", "retire", "claim"}
      /\ pc[t] \in ProbePoints /\ pc[t] \in InsertPoints
      /\ pc[t] \in {"lookup", "claim"} \cup CopyPoints
  BY DEF AdvanceStart, Retire, ClaimSlot, InsertPoints, ProbePoints, CopyPoints
<1>2. CASE NextAttempt(t, "lookup", "table")
  BY <1>1, <1>2, NextTyped
<1>3. CASE Goto(t, "retire") /\ UNCHANGED <<call, frame>>
  <2>1. LocalsOf(t) /\ frame'[t] = frame[t] /\ pc'[t] = "retire"
    BY <1>3, GotoEffect DEF Points
  <2> QED
    BY <1>1, <2>1, StayTyped DEF ProbePoints, QueryPoints, CopyPoints
<1>4. CASE Return(t, 0) \/ Return(t, 1)
  BY <1>4, ReturnTyped
<1> QED
  BY <1>2, <1>3, <1>4 DEF AdvanceStart, Retire, ClaimSlot

\* The assertion of getNextTableSize, addDrop, and the advance of head->cur.
LEMMA GrowTyped ==
  ASSUME Typed, NEW t \in Threads, NextTableSize(t) \/ addDrop(t) \/ AdvanceCur(t),
         TablesOf(t), GlobalsOf(t)
  PROVE  LocalsOf(t) /\ ThreadTyped(t)'
<1> DEFINE f == frame[t]
           m == MaxTables \div 2
<1>1. /\ pc[t] \in {"size", "grow", "advance"} /\ pc[t] \in InsertPoints
      /\ f.val \in Keys /\ f.ent \in Entries /\ f \in Frames
      /\ f.j <= cur \/ f.j <= start + 1
      /\ f.j \in Nat /\ cur \in Nat /\ start \in Nat /\ m \in Nat /\ m > 1
      /\ pc[t] \in {"grow", "advance"} => f.j - start < m
  BY LocalsTypes, FrameTyped, ArrayBounds DEF NextTableSize, addDrop, AdvanceCur, Typed,
    ThreadTyped, InsertPoints, TablesTyped
<1>2. CASE NextTableSize(t)
  <2> DEFINE T == SubTables[TableArray[IndexOf(f.j - 1)]]
             z == IF MostlyInserts(T) \/ cur - start > ManyTables THEN 2 * T.TableSize
                  ELSE T.TableSize
             g == [f EXCEPT !.size = z]
  <2>1. z \in Nat /\ z # 0
    <3>1. IndexOf(f.j - 1) \in 0 .. MaxTables - 1
      <4>1. f.j - 1 \in Int /\ MaxTables \in Nat \ {0}
        BY <1>1, ArrayBounds, HashtableSmartLazyAssumption
      <4>2. \A a \in Int, n \in Nat \ {0} : a % n \in 0 .. n - 1
        OBVIOUS
      <4> QED
        BY <4>1, <4>2 DEF IndexOf
    <3>2. TableArray[IndexOf(f.j - 1)] # None
      BY <1>2 DEF NextTableSize
    <3>3. T \in SubTableSet
      BY <3>1, <3>2, SubTablesTyped DEF Typed, TablesTyped
    <3>4. T.TableSize \in Nat \ {0}
      BY <3>3, TableTyped
    <3> HIDE DEF T
    <3>5. 2 * T.TableSize \in Nat /\ 2 * T.TableSize # 0
      BY <3>4
    <3> QED
      BY <3>4, <3>5
  <2>2. /\ frame' = [frame EXCEPT ![t] = g] /\ cur - start < m /\ Goto(t, "grow")
        /\ UNCHANGED <<start, cur>> /\ UNCHANGED call
    BY <1>2 DEF NextTableSize, shared
  <2> HIDE DEF z, m
  <2>3. g \in Frames /\ g.val = f.val /\ g.ent = f.ent /\ g.j = f.j /\ g.size = z
    BY <1>1, <2>1 DEF Frames
  <2>4. LocalsOf(t) /\ frame'[t] = g /\ pc'[t] = "grow"
    BY <2>2, <2>3, PlainEffect DEF Points
  <2>5. g.j - start < m
    BY <1>1, <2>2, <2>3
  <2> HIDE DEF g
  <2> QED
    BY <1>1, <2>1, <2>2, <2>3, <2>4, <2>5 DEF ThreadTyped, InsertPoints, CopyPoints, DonePoints,
      QueryPoints, ProbePoints, m
<1>3. CASE addDrop(t)
  <2> DEFINE g == [f EXCEPT !.size = 0]
  <2>1. /\ frame' = [frame EXCEPT ![t] = g] /\ Goto(t, "advance") /\ UNCHANGED <<start, cur>>
        /\ UNCHANGED call /\ pc[t] = "grow"
    BY <1>3 DEF addDrop
  <2>2. g \in Frames /\ g.val = f.val /\ g.ent = f.ent /\ g.j = f.j
    BY <1>1 DEF Frames
  <2> HIDE DEF g
  <2>3. LocalsOf(t) /\ frame'[t] = g /\ pc'[t] = "advance"
    BY <2>1, <2>2, PlainEffect DEF Points
  <2> QED
    BY <1>1, <2>1, <2>2, <2>3 DEF ThreadTyped, InsertPoints, CopyPoints, DonePoints,
      QueryPoints, ProbePoints
<1>4. CASE AdvanceCur(t)
  <2>1. LocalsOf(t) /\ frame'[t] = f /\ pc'[t] = "table"
    BY <1>4, GotoEffect DEF Points, AdvanceCur
  <2>2. f.j <= cur' \/ f.j <= start' + 1
    BY <1>1, <1>4 DEF AdvanceCur
  <2> QED
    BY <1>1, <2>1, <2>2 DEF ThreadTyped, InsertPoints, CopyPoints, DonePoints, QueryPoints,
      ProbePoints
<1> QED
  BY <1>2, <1>3, <1>4

\* checkTableQuery and deleteVal.
LEMMA QueryTyped ==
  ASSUME Typed, NEW t \in Threads, QueryTable(t) \/ lookupQuery(t) \/ setDelete(t),
         TablesOf(t), GlobalsOf(t)
  PROVE  LocalsOf(t) /\ ThreadTyped(t)'
<1> DEFINE f == frame[t]
<1>1. /\ f \in Frames /\ f.val \in Keys /\ f.limit <= cur /\ f.limit \in Nat /\ f.j \in Nat
      /\ cur \in Nat /\ pc[t] \in QueryPoints
  BY LocalsTypes, FrameTyped DEF QueryTable, lookupQuery, setDelete, Typed, ThreadTyped,
    QueryPoints, TablesTyped
<1>2. CASE Return(t, 0) \/ Return(t, 1)
  BY <1>2, ReturnTyped
<1>3. CASE QueryTable(t)
  <2>1. UNCHANGED <<SubTables, start, cur>>
    BY <1>3 DEF QueryTable, shared
  <2>2. PICK limit \in {f.limit, cur} :
          IF f.j < limit
            THEN HasTable(t) /\ TakeTable(t) /\ Goto(t, "qlookup") /\ UNCHANGED call
            ELSE \E r \in (IF op[t] = "query" THEN {0} ELSE {0, 1}) : Return(t, r)
    BY <1>3 DEF QueryTable
  <2>3. CASE ~(f.j < limit)
    BY <2>2, <2>3, <1>2
  <2>4. CASE f.j < limit
    <3> DEFINE h == TableArray[IndexOf(f.j)]
               g == [f EXCEPT !.ht = h]
    <3>1. h \in DOMAIN SubTables /\ h \in Nat
      <4>1. IndexOf(f.j) \in 0 .. MaxTables - 1
        BY <1>1, ArrayBounds
      <4>2. h # None
        BY <2>2, <2>4 DEF HasTable
      <4> QED
        BY <4>1, <4>2, SubTablesTyped DEF Typed, TablesTyped
    <3>2. frame' = [frame EXCEPT ![t] = g] /\ Goto(t, "qlookup") /\ UNCHANGED call
      BY <2>2, <2>4 DEF TakeTable
    <3>3. f.j < cur
      BY <1>1, <2>4
    <3> HIDE DEF h
    <3>4. g \in Frames /\ g.val = f.val /\ g.ht = h /\ g.j = f.j /\ g.limit = f.limit
      BY <1>1, <3>1 DEF Frames
    <3> HIDE DEF g
    <3>5. LocalsOf(t) /\ frame'[t] = g /\ pc'[t] = "qlookup"
      BY <3>2, <3>4, PlainEffect DEF Points
    <3> QED
      BY <1>1, <2>1, <3>1, <3>3, <3>4, <3>5 DEF ThreadTyped, InsertPoints, CopyPoints, DonePoints,
        QueryPoints, ProbePoints
  <2> QED
    BY <2>3, <2>4
<1>4. CASE lookupQuery(t)
  <2>1. pc[t] = "qlookup" /\ pc[t] \in ProbePoints
    BY <1>4 DEF lookupQuery, ProbePoints
  <2>2. CASE NextAttempt(t, "qlookup", "qtable")
    BY <2>1, <2>2, NextTyped
  <2>3. CASE Live(Probed(t), f.val) /\ Goto(t, "delete") /\ UNCHANGED <<call, frame>>
    <3>1. LocalsOf(t) /\ frame'[t] = f /\ pc'[t] = "delete"
      BY <2>3, GotoEffect DEF Points
    <3>2. Probed(t) # Null
      BY <2>3 DEF Live, HasKey
    <3> QED
      BY <2>1, <3>1, <3>2, StayTyped DEF ProbePoints, QueryPoints
  <2> QED
    BY <1>2, <1>4, <2>2, <2>3 DEF lookupQuery
<1>5. CASE setDelete(t)
  BY <1>2, <1>5 DEF setDelete
<1> QED
  BY <1>3, <1>4, <1>5

\* Every step of a thread.
LEMMA StepEffect ==
  ASSUME Typed, NEW t \in Threads, ThreadStep(t)
  PROVE  TablesOf(t) /\ GlobalsOf(t) /\ LocalsOf(t) /\ ThreadTyped(t)'
<1>1. TablesOf(t) /\ GlobalsOf(t)
  BY TablesStep, GlobalsStep
<1>2. CASE CallInsert(t) \/ CallQuery(t) \/ CallDelete(t)
  BY <1>1, <1>2, CallTyped
<1>3. CASE InsertTable(t)
  BY <1>1, <1>3, InsertTableTyped
<1>4. CASE lookup(t) \/ Undeleted(t) \/ ReturnComp(t)
  BY <1>1, <1>4, LookupTyped
<1>5. CASE setPtr(t) \/ CopyUp(t) \/ CountCopy(t)
  BY <1>1, <1>5, CopyTyped
<1>6. CASE AdvanceStart(t) \/ Retire(t) \/ ClaimSlot(t)
  BY <1>1, <1>6, AdvanceTyped
<1>7. CASE NextTableSize(t) \/ addDrop(t) \/ AdvanceCur(t)
  BY <1>1, <1>7, GrowTyped
<1>8. CASE QueryTable(t) \/ lookupQuery(t) \/ setDelete(t)
  BY <1>1, <1>8, QueryTyped
<1> QED
  BY <1>2, <1>3, <1>4, <1>5, <1>6, <1>7, <1>8 DEF ThreadStep, Step

\* The initial state.
LEMMA InitTyped ==
  ASSUME Init
  PROVE  Typed
<1> DEFINE T == createTable(InitSize)
<1>1. T \in SubTableSet
  <2>1. [x \in 0 .. InitSize - 1 |-> Null] \in [0 .. InitSize - 1 -> Pointers]
    BY DEF Pointers
  <2>2. [u \in Threads |-> 0] \in [Threads -> Nat]
    OBVIOUS
  <2> QED
    BY <2>1, <2>2, HashtableSmartLazyAssumption, TableMade DEF createTable
<1>2. SubTables = <<T>>
  BY DEF Init
<1> HIDE DEF T
<1>3. SubTables \in Seq(SubTableSet) /\ DOMAIN SubTables = {1}
  BY <1>1, <1>2
<1>4. TablesTyped
  <2>1. MaxTables \in Nat
    BY ArrayBounds
  <2>2. TableArray \in [0 .. MaxTables - 1 -> {None} \cup DOMAIN SubTables]
    BY <1>3, <2>1 DEF Init, None
  <2>3. toFree \in [0 .. MaxTables - 1 -> {None} \cup DOMAIN SubTables]
    BY DEF Init
  <2> QED
    BY <1>3, <2>2, <2>3 DEF Init, TablesTyped
<1>5. NoFrame \in Frames
  <2>1. 0 \in Attempts
    BY HashtableSmartLazyAssumption DEF Attempts
  <2> QED
    BY <2>1 DEF NoFrame, Frames, Points, None
<1>6. LocalsTyped
  BY <1>5 DEF Init, LocalsTyped, Points
<1>7. \A t \in Threads : ThreadTyped(t)
  BY DEF Init, ThreadTyped, InsertPoints, CopyPoints, DonePoints, QueryPoints, ProbePoints
<1>8. WindowIsHalf
  BY ArrayBounds DEF Init, WindowIsHalf
<1> QED
  BY <1>4, <1>6, <1>7, <1>8 DEF Typed, Init

\* Typed is inductive.
LEMMA TypedStep ==
  ASSUME Typed, [Next]_vars
  PROVE  Typed'
<1>1. CASE UNCHANGED vars
  <2>1. /\ SubTables' = SubTables /\ freed' = freed /\ TableArray' = TableArray
        /\ toFree' = toFree /\ start' = start /\ cur' = cur /\ isDeleted' = isDeleted
        /\ pc' = pc /\ op' = op /\ key' = key /\ ret' = ret /\ frame' = frame /\ stack' = stack
        /\ seen' = seen /\ crossed' = crossed /\ late' = late
    BY <1>1 DEF vars
  <2> QED
    BY <2>1 DEF Typed, TablesTyped, LocalsTyped, CallerFrames, ThreadTyped, WindowIsHalf, Probed,
      ht, s, Bucket
<1>2. ASSUME NEW t \in Threads, ThreadStep(t), Look
      PROVE  Typed'
  <2>1. TablesOf(t) /\ GlobalsOf(t) /\ LocalsOf(t) /\ ThreadTyped(t)'
    BY <1>2, StepEffect
  <2>2. TablesTyped'
    BY <2>1 DEF TablesTyped, TablesOf, GlobalsOf
  <2>3. CallerFrames \subseteq CallerFrames'
    <3>1. DOMAIN SubTables \subseteq DOMAIN SubTables' /\ cur <= cur' /\ cur \in Nat /\ cur' \in Nat
      BY <2>1 DEF TablesOf, GlobalsOf, Typed, TablesTyped
    <3>2. \A f \in Frames : f.j < cur => f.j < cur'
      BY <3>1, FrameTyped
    <3> QED
      BY <3>1, <3>2 DEF CallerFrames
  <2>4. LocalsTyped'
    <3>1. /\ pc' \in [Threads -> Points]
          /\ op' \in [Threads -> {"none", "insert", "query", "delete"}]
      BY <2>1 DEF Typed, LocalsTyped, LocalsOf
    <3>2. /\ key' \in [Threads -> Keys \cup {NULL}]
          /\ ret' \in [Threads -> {0, 1}]
      BY <2>1 DEF Typed, LocalsTyped, LocalsOf
    <3>3. frame' \in [Threads -> Frames]
      BY <2>1 DEF Typed, LocalsTyped, LocalsOf
    <3>4. stack' \in [Threads -> Seq(CallerFrames)]
      BY <2>1 DEF Typed, LocalsTyped, LocalsOf
    <3>5. \A q \in Seq(CallerFrames) : q \in Seq(CallerFrames')
      BY <2>3
    <3> HIDE DEF CallerFrames
    <3>6. stack' \in [Threads -> Seq(CallerFrames')]
      BY <3>4, <3>5
    <3> QED
      BY <3>1, <3>2, <3>3, <3>6 DEF LocalsTyped
  <2>5. \A u \in Threads : ThreadTyped(u)'
    BY <2>1, OtherTyped
  <2>6. WindowIsHalf'
    <3> DEFINE m == MaxTables \div 2
    <3>1. /\ start \in Nat /\ cur \in Nat /\ start' \in Nat /\ cur' \in Nat /\ start <= start'
          /\ m \in Nat /\ cur - start <= m
      BY <2>1, ArrayBounds DEF Typed, TablesTyped, GlobalsOf, WindowIsHalf
    <3>2. CASE UNCHANGED cur
      BY <3>1, <3>2 DEF WindowIsHalf
    <3>3. CASE AdvanceCur(t) /\ cur' # cur
      <4>1. cur' = cur + 1 /\ cur = frame[t].j /\ pc[t] = "advance" /\ start' = start
        BY <3>3 DEF AdvanceCur
      <4>2. frame[t].j - start < m
        BY <4>1 DEF Typed, ThreadTyped
      <4> QED
        BY <3>1, <4>1, <4>2 DEF WindowIsHalf
    <3> QED
      BY <2>1, <3>2, <3>3 DEF GlobalsOf
  <2>7. seen' \in [Threads -> SUBSET {0, 1}] /\ crossed' \in BOOLEAN /\ late' \in BOOLEAN
    <3>1. seen \in [Threads -> SUBSET {0, 1}] /\ crossed \in BOOLEAN /\ late \in BOOLEAN
      BY DEF Typed
    <3> DEFINE C == Contents'
    <3>2. seen' = [u \in Threads |-> IF op'[u] = "none" THEN {}
                     ELSE seen[u] \cup {IF key'[u] \in C THEN 1 ELSE 0}]
      BY <1>2 DEF Look
    <3>3. crossed' = (crossed \/ Crosses) /\ late' = (late \/ ~InLine')
      BY <1>2 DEF Look
    <3> HIDE DEF C
    <3> QED
      BY <3>1, <3>2, <3>3
  <2> QED
    BY <2>2, <2>4, <2>5, <2>6, <2>7 DEF Typed
<1> QED
  BY <1>1, <1>2, Zenon DEF Next, ThreadStep

\* In every behaviour, Sound or not, every state is Typed.
THEOREM Typing == Spec => []Typed
<1>1. Init => Typed
  BY InitTyped
<1>2. Typed /\ [Next]_vars => Typed'
  BY TypedStep
<1> QED
  BY <1>1, <1>2, PTL DEF Spec

\* Every variable has its type, whatever crosses and however late: the checked TypeOK.
THEOREM TypeCorrect == Spec => []TypeOK
<1>1. Typed => TypeOK
  <2> SUFFICES ASSUME Typed PROVE TypeOK
    OBVIOUS
  <2>1. TablesTyped /\ LocalsTyped
    BY DEF Typed
  <2>2. \A n \in DOMAIN SubTables :
          /\ SubTables[n].TableSize \in Nat \ {0}
          /\ SubTables[n].InnerTable \in [0 .. SubTables[n].TableSize - 1 -> Pointers]
          /\ SubTables[n].threadCopy \in [Threads -> Nat]
          /\ SubTables[n].insertCount \in Nat /\ SubTables[n].deleteCount \in Nat
    BY <2>1, SubTablesTyped, TableTyped
  <2>3. \A t \in Threads : stack[t] \in Seq(Frames)
    <3>1. CallerFrames \subseteq Frames
      BY DEF CallerFrames
    <3>2. \A q \in Seq(CallerFrames) : q \in Seq(Frames)
      <4> HIDE DEF CallerFrames
      <4> QED
        BY <3>1
    <3> QED
      BY <2>1, <3>2 DEF LocalsTyped
  <2> QED
    BY <2>1, <2>2, <2>3 DEF Typed, TablesTyped, LocalsTyped, TypeOK
<1> QED
  BY <1>1, Typing, PTL

\* Racing addDrops do not take the window of subtables in use beyond half of the circular
\* array, for any number of threads: between the assertion of getNextTableSize and the
\* compare-and-swap of head->cur a thread keeps its iter_j, and head->start only grows.
THEOREM WindowIsHalfCorrect == Spec => []WindowIsHalf
<1>1. Typed => WindowIsHalf
  BY DEF Typed
<1> QED
  BY <1>1, Typing, PTL
-----------------------------------------------------------------------------
(* While Sound: the subtable of iter_j is SubTables[iter_j + 1]            *)

At(jj, x) == SubTables[jj + 1].InnerTable[x]
Places(jj) == Slots(SubTables[jj + 1])
Probe(k, n, jj) == Slot(k, n, SubTables[jj + 1])
ProbeOf(f) == Probe(f.val, f.i, f.j)

\* Probe m of subtable j2 comes before probe n of subtable jj.
Before(j2, m, jj, n) == j2 < jj \/ (j2 = jj /\ m < n)

\* k's probes from subtable lo on, up to probe n of jj, have met neither NULL nor k.
PassedTo(k, lo, jj, n) ==
  \A j2 \in 0 .. jj, m \in Attempts :
    lo <= j2 /\ Before(j2, m, jj, n) => Other(Probe(k, m, j2), k)

\* k's probes from probe n0 of subtable lo on, up to probe n of jj, meet no NULL.
Clear(k, lo, n0, jj, n) ==
  \A j2 \in 0 .. jj, m \in Attempts :
    ~Before(j2, m, lo, n0) /\ Before(j2, m, jj, n) => Probe(k, m, j2) # Null

\* From probe n0 of subtable lo on, below hi, the path of e's key comes to e before it comes to
\* NULL.
Finds(e, lo, n0, hi) ==
  \E jj \in 0 .. hi - 1, n \in Attempts :
    /\ ~Before(jj, n, lo, n0)
    /\ Probe(val[e], n, jj).ent = e
    /\ Clear(val[e], lo, n0, jj, n)

\* The insert of t that has marked a slot it has not counted yet.
IsPending(t) ==
  pc[t] \in {"copy", "count"} \/ (stack[t] # <<>> /\ Head(stack[t]).back = "count")
Marker(t) == IF pc[t] \in {"copy", "count"} THEN frame[t] ELSE Head(stack[t])
PendingAt(t, jj, x) ==
  IsPending(t) /\ Marker(t).j = jj /\ Bucket(Marker(t).val, Marker(t).i, SubTables[jj + 1]) = x

\* The slots that have been copied or passed over.
Completed(jj) ==
  {x \in Places(jj) : At(jj, x).bool = 1 /\ \A t \in Threads : ~PendingAt(t, jj, x)}
\* The copies counted.
Tally(jj) == UNION {{u} \X (1 .. SubTables[jj + 1].threadCopy[u]) : u \in Threads}

\* The subtables in use are in their places, and those above are empty.
InOrder ==
  /\ start < cur /\ cur <= Len(SubTables)
  /\ InLine
  /\ \A jj \in cur .. Len(SubTables) - 1 :
       /\ \A x \in Places(jj) : At(jj, x) = Null
       /\ \A u \in Threads : SubTables[jj + 1].threadCopy[u] = 0

\* Slots are marked in no subtable above start, and in those below all of them; what has
\* been copied is deleted or found further up, and no more copies are counted than complete.
Copied ==
  \A jj \in 0 .. cur - 1 :
    /\ jj > start => \A x \in Places(jj) : At(jj, x).bool = 0
    /\ jj < start => Completed(jj) = Places(jj)
    /\ jj = start => \A x \in Completed(jj) :
         isDeleted[At(jj, x).ent] = 0 => Finds(At(jj, x).ent, start + 1, 0, cur)
    /\ IsFiniteSet(Tally(jj)) /\ Cardinality(Tally(jj)) <= Cardinality(Completed(jj))

\* From start on a path finds the entries that are not deleted, and those in slots there.
Found ==
  /\ \A e \in Present : isDeleted[e] = 0 => Finds(e, start, 0, cur)
  /\ \A jj \in start .. cur - 1 : \A x \in Places(jj) :
       At(jj, x) # Null => Finds(At(jj, x).ent, start, 0, cur)

\* A slot in use is on the path of its key, and above start on that from start + 1 on.
PathTo(k, jj, n) == Clear(k, IF jj = start THEN start ELSE start + 1, 0, jj, n)
OnPath ==
  \A jj \in start .. cur - 1 : \A x \in Places(jj) :
    At(jj, x) # Null =>
      \E n \in Attempts : /\ Bucket(val[At(jj, x).ent], n, SubTables[jj + 1]) = x
                          /\ PathTo(val[At(jj, x).ent], jj, n)

\* From start on, a key is once in a subtable, and all its slots hold the same entry.
OncePerSubtable ==
  \A jj \in start .. cur - 1 : \A x, y \in Places(jj) :
    At(jj, x) # Null /\ At(jj, y) # Null /\ val[At(jj, x).ent] = val[At(jj, y).ent] => x = y
SameEntry ==
  \A j1, j2 \in start .. cur - 1 : \A x \in Places(j1), y \in Places(j2) :
    At(j1, x) # Null /\ At(j2, y) # Null /\ val[At(j1, x).ent] = val[At(j2, y).ent]
      => At(j1, x).ent = At(j2, y).ent

\* Each mark is one thread's to copy.
Distinct ==
  \A t, u \in Threads : \A jj \in 0 .. cur - 1 : \A x \in Places(jj) :
    PendingAt(t, jj, x) /\ PendingAt(u, jj, x) => t = u

\* The entry an insert brought with it is nobody else's.
Own(t) == IF stack[t] = <<>> THEN frame[t].ent ELSE Last(stack[t]).ent
Fresh ==
  \A t \in Threads : op[t] = "insert" =>
    /\ Own(t) \in Entries \ Present /\ isDeleted[Own(t)] = 0
    /\ \A u \in Threads : op[u] = "insert" /\ Own(u) = Own(t) => u = t

\* An insert passes the slots from start on, one called while start was there those above it.
Origin(t) == IF stack[t] # <<>> /\ Head(stack[t]).exStart = start THEN start + 1 ELSE start

\* The callers of the insert that t is in: one that copies an entry, and one that puts
\* an entry in again, which may copy another in its turn.
CopyCaller(t, g) ==
  /\ g.back = "count" /\ pc[t] \in InsertPoints \ CopyPoints /\ ~frame[t].doCopy
  /\ g.j = start /\ g.exStart = start /\ g.doCopy /\ start + 1 < cur /\ start < frame[t].j
  /\ ProbeOf(g) = [ent |-> frame[t].ent, bool |-> 1]
  /\ frame[t].val # g.val /\ g.val = key[t] /\ val[g.ent] = key[t]
  /\ PassedTo(g.val, start, g.j, g.i)
AgainCaller(t, d, f) ==
  /\ d.back = "dComp" /\ d.val = key[t] /\ f.val = key[t]
  /\ d.exStart <= start /\ d.exStart < f.j
  /\ ProbeOf(d) = [ent |-> f.ent, bool |-> 1]
StackInv(t) ==
  stack[t] # <<>> =>
    LET g == stack[t][1] d == stack[t][2]
    IN /\ pc[t] \in InsertPoints
       /\ \/ stack[t] = <<g>> /\ CopyCaller(t, g)
          \/ stack[t] = <<g>> /\ AgainCaller(t, g, frame[t])
          \/ stack[t] = <<g, d>> /\ CopyCaller(t, g) /\ AgainCaller(t, d, g)

\* What an insertTable, checkTableQuery or deleteVal at p with the locals f has established.
FrameAt(p, f) ==
  /\ p \in {"table", "size", "grow", "advance", "qtable"} => f.i = 0
  /\ p \in {"table", "size", "grow", "advance"} => f.j <= cur /\ ~f.doCopy
  /\ p \in InsertPoints => val[f.ent] = f.val
  /\ p \in InsertPoints /\ f.doCopy => f.j <= start /\ f.j + 1 < cur
  /\ p \in CopyPoints => f.doCopy /\ Other(ProbeOf(f), f.val)
  /\ p \in {"copy", "count"} => ProbeOf(f).bool = 1 /\ f.j = start
  /\ p = "count" =>
       /\ f.exStart = start
       /\ isDeleted[ProbeOf(f).ent] = 0 => Finds(ProbeOf(f).ent, start + 1, 0, cur)
  /\ p = "start" => f.exStart = f.j
  /\ p \in {"undeleted", "delete"} => HasKey(ProbeOf(f), f.val)
PassedAt(p, f, lo) == p \in InsertPoints => PassedTo(f.val, lo, f.j, f.i)
FrameInv(t) == FrameAt(pc[t], frame[t]) /\ PassedAt(pc[t], frame[t], Origin(t))

CallInv(t) ==
  /\ pc[t] = "idle" <=> op[t] = "none"
  /\ pc[t] \in InsertPoints \cup DonePoints => op[t] = "insert"
  /\ pc[t] \in QueryPoints => op[t] \in {"query", "delete"}
  /\ pc[t] = "delete" => op[t] = "delete"
  /\ pc[t] \notin InsertPoints => stack[t] = <<>>
  /\ pc[t] # "idle" => key[t] \in Keys
  /\ pc[t] # "idle" /\ stack[t] = <<>> => frame[t].val = key[t]

ThreadInv(t) == CallInv(t) /\ StackInv(t) /\ FrameInv(t)

\* The answers seen include today's, and a search that has always seen its key is
\* before it on its path.
SeenInv(t) ==
  /\ op[t] # "none" => (IF key[t] \in Contents THEN 1 ELSE 0) \in seen[t]
  /\ op[t] = "none" => seen[t] = {}
  /\ pc[t] \in {"qtable", "qlookup"} /\ 0 \notin seen[t] =>
       \E e \in Present : /\ val[e] = key[t] /\ isDeleted[e] = 0
                          /\ Finds(e, frame[t].j, frame[t].i, frame[t].limit)
  /\ pc[t] = "delete" /\ isDeleted[ProbeOf(frame[t]).ent] = 1 => 0 \in seen[t]
  /\ pc[t] = "claim" /\ stack[t] = <<>> /\ HasKey(ProbeOf(frame[t]), key[t]) => 1 \in seen[t]

Deep ==
  /\ InOrder /\ Copied /\ Found /\ OnPath /\ OncePerSubtable /\ SameEntry /\ Distinct /\ Fresh
  /\ \A t \in Threads : ThreadInv(t) /\ SeenInv(t)

\* The inductive invariant.
Inv == Typed /\ (Sound => Deep)
-----------------------------------------------------------------------------
(* The memory while Sound                                                  *)

\* The window and the subtables.
LEMMA Window ==
  ASSUME Typed, InOrder
  PROVE  /\ start \in Nat /\ cur \in Nat /\ Len(SubTables) \in Nat
         /\ start < cur /\ cur <= Len(SubTables)
         /\ \A jj \in 0 .. Len(SubTables) - 1 :
              jj \in Nat /\ jj + 1 \in DOMAIN SubTables /\ SubTables[jj + 1] \in SubTableSet
<1>1. /\ start \in Nat /\ cur \in Nat /\ start < cur /\ cur <= Len(SubTables)
      /\ Len(SubTables) \in Nat /\ DOMAIN SubTables = 1 .. Len(SubTables)
      /\ \A n \in DOMAIN SubTables : SubTables[n] \in SubTableSet
  BY SubTablesTyped DEF InOrder, Typed, TablesTyped
<1>2. \A jj \in 0 .. Len(SubTables) - 1 : jj \in Nat /\ jj + 1 \in DOMAIN SubTables
  BY <1>1
<1> QED
  BY <1>1, <1>2

\* What a slot holds.
LEMMA AtTyped ==
  ASSUME Typed, InOrder, NEW jj \in 0 .. Len(SubTables) - 1, NEW x \in Places(jj)
  PROVE  /\ At(jj, x) \in Pointers
         /\ At(jj, x).ent \in Entries \cup {NULL} /\ At(jj, x).bool \in {0, 1}
         /\ At(jj, x) # Null <=> At(jj, x).ent # NULL
         /\ At(jj, x) # Null => At(jj, x).ent \in Entries /\ val[At(jj, x).ent] \in Keys
         /\ At(jj, x) = Null => At(jj, x).ent = NULL /\ At(jj, x).bool = 0
         /\ At(jj, x) = [ent |-> At(jj, x).ent, bool |-> At(jj, x).bool]
         /\ At(jj, x) # Null => At(jj, x).ent \in Present
<1>1. SubTables[jj + 1] \in SubTableSet /\ jj + 1 \in DOMAIN SubTables
  BY Window
<1>2. At(jj, x) \in Pointers
  BY <1>1, TableTyped DEF At, Places
<1>3. ASSUME At(jj, x) # Null
      PROVE  At(jj, x).ent \in Present
  <2> DEFINE E(n) == {SubTables[n].InnerTable[y].ent : y \in Slots(SubTables[n])}
             all == UNION {E(n) : n \in DOMAIN SubTables}
             e == At(jj, x).ent
  <2>1. e \in E(jj + 1)
    BY DEF At, Places
  <2>2. e \in all
    BY <1>1, <2>1
  <2>3. e # NULL
    BY <1>2, <1>3, PointerTyped
  <2>4. Present = all \ {NULL}
    BY Zenon DEF Present
  <2> HIDE DEF E, all, e
  <2>5. e \in all \ {NULL}
    BY <2>2, <2>3
  <2>6. e \in Present
    BY <2>4, <2>5, Zenon
  <2> QED
    BY <2>6 DEF e
<1> QED
  BY <1>2, <1>3, PointerTyped

\* What a probe finds.
LEMMA ProbeTyped ==
  ASSUME Typed, InOrder, NEW jj \in 0 .. Len(SubTables) - 1, NEW k \in Keys, NEW n \in Attempts
  PROVE  /\ Bucket(k, n, SubTables[jj + 1]) \in Places(jj)
         /\ Probe(k, n, jj) = At(jj, Bucket(k, n, SubTables[jj + 1]))
         /\ Probe(k, n, jj) \in Pointers
         /\ Probe(k, n, jj) # Null <=> Probe(k, n, jj).ent # NULL
         /\ Probe(k, n, jj) # Null => /\ Probe(k, n, jj).ent \in Entries
                                      /\ Probe(k, n, jj).ent \in Present
                                      /\ val[Probe(k, n, jj).ent] \in Keys
         /\ Probe(k, n, jj) = Null => Probe(k, n, jj).bool = 0
         /\ Probe(k, n, jj).bool \in {0, 1}
<1>1. SubTables[jj + 1] \in SubTableSet
  BY Window
<1>2. Bucket(k, n, SubTables[jj + 1]) \in Places(jj)
  BY <1>1, BucketInRange DEF Places
<1>3. Probe(k, n, jj) = At(jj, Bucket(k, n, SubTables[jj + 1]))
  BY DEF Probe, Slot, At
<1> QED
  BY <1>2, <1>3, AtTyped

\* Where t probes.
LEMMA ProbedIs ==
  ASSUME Typed, InOrder, NEW t \in Threads, pc[t] \in ProbePoints
  PROVE  /\ frame[t].j \in 0 .. Len(SubTables) - 1 /\ frame[t].j < cur /\ frame[t].j \in Nat
         /\ frame[t].ht = frame[t].j + 1
         /\ frame[t].i \in Attempts /\ frame[t].val \in Keys
         /\ ht(t) = SubTables[frame[t].j + 1]
         /\ s(t) \in Places(frame[t].j)
         /\ s(t) = Bucket(frame[t].val, frame[t].i, SubTables[frame[t].j + 1])
         /\ Probed(t) = At(frame[t].j, s(t)) /\ Probed(t) = ProbeOf(frame[t])
         /\ Probed(t) \in Pointers
<1>1. /\ frame[t].ht \in DOMAIN SubTables /\ ht(t) = SubTables[frame[t].ht]
      /\ frame[t].i \in Attempts /\ frame[t].val \in Keys
      /\ frame[t].j \in Nat /\ frame[t].j < cur /\ cur \in Nat
      /\ s(t) \in Slots(ht(t)) /\ Probed(t) \in Pointers
      /\ Probed(t) = SubTables[frame[t].ht].InnerTable[s(t)]
  BY ProbeInRange
<1>2. frame[t].ht = frame[t].j + 1
  <2>1. frame[t].ht # None
    BY <1>1, SubTablesTyped DEF Typed, None
  <2> QED
    BY <2>1 DEF InOrder, InLine
<1>3. frame[t].j \in 0 .. Len(SubTables) - 1
  BY <1>1, Window
<1>4. s(t) = Bucket(frame[t].val, frame[t].i, SubTables[frame[t].j + 1])
  BY <1>1, <1>2 DEF s
<1>5. Probed(t) = ProbeOf(frame[t])
  BY <1>1, <1>2 DEF Probed, ProbeOf, Probe, s, Slot
<1> QED
  BY <1>1, <1>2, <1>3, <1>4, <1>5 DEF Places, At

\* A step of t in a behaviour that stays Sound.
Good(t) ==
  /\ Typed /\ Deep /\ ThreadStep(t) /\ Look /\ Sound'
  /\ Typed' /\ TablesOf(t) /\ GlobalsOf(t) /\ LocalsOf(t)

\* The step of a thread is one.
LEMMA GoodStep ==
  ASSUME Inv, NEW t \in Threads, ThreadStep(t), Look, Sound'
  PROVE  Good(t) /\ InLine' /\ ~Crosses
<1>1. crossed \in BOOLEAN /\ late \in BOOLEAN
  BY DEF Inv, Typed
<1>2. Sound /\ InLine' /\ ~Crosses
  BY <1>1 DEF Sound, Look
<1>3. Typed'
  <2>1. [Next]_vars
    BY DEF Next, ThreadStep
  <2> QED
    BY <2>1, TypedStep DEF Inv
<1> QED
  BY <1>2, <1>3, StepEffect DEF Inv, Good

\* What it does to the window.
LEMMA WindowStep ==
  ASSUME NEW t \in Threads, Good(t)
  PROVE  /\ InOrder /\ InLine' /\ ~Crosses
         /\ start \in Nat /\ cur \in Nat /\ start' \in Nat /\ cur' \in Nat
         /\ start < cur /\ cur <= Len(SubTables) /\ Len(SubTables) \in Nat
         /\ start <= start' /\ cur <= cur'
         /\ Len(SubTables') \in Nat /\ Len(SubTables) <= Len(SubTables')
         /\ 0 .. Len(SubTables) - 1 \subseteq 0 .. Len(SubTables') - 1
<1>1. InOrder /\ Typed /\ GlobalsOf(t) /\ TablesOf(t)
  BY DEF Good, Deep
<1>2. InLine' /\ ~Crosses
  <2>1. ~crossed' /\ ~late' /\ Look /\ crossed' \in BOOLEAN /\ late' \in BOOLEAN
    BY DEF Good, Sound, Typed
  <2> QED
    BY <2>1 DEF Look
<1>3. /\ start \in Nat /\ cur \in Nat /\ start < cur /\ cur <= Len(SubTables)
      /\ Len(SubTables) \in Nat /\ DOMAIN SubTables = 1 .. Len(SubTables)
  BY <1>1, Window, SubTablesTyped DEF Typed
<1>4. /\ Len(SubTables') \in Nat /\ DOMAIN SubTables' = 1 .. Len(SubTables')
      /\ DOMAIN SubTables \subseteq DOMAIN SubTables'
  BY <1>1 DEF TablesOf
<1>5. Len(SubTables) <= Len(SubTables')
  <2>1. Len(SubTables) \in DOMAIN SubTables'
    BY <1>3, <1>4
  <2> QED
    BY <1>3, <1>4, <2>1
<1> QED
  BY <1>1, <1>2, <1>3, <1>4, <1>5 DEF GlobalsOf

\* What it does to a slot.
LEMMA AtStep ==
  ASSUME NEW t \in Threads, Good(t), NEW jj \in 0 .. Len(SubTables) - 1
  PROVE  /\ Places(jj)' = Places(jj)
         /\ SubTables'[jj + 1].TableSize = SubTables[jj + 1].TableSize
         /\ \A x \in Places(jj) :
              /\ At(jj, x) # Null => At(jj, x)' # Null /\ At(jj, x)'.ent = At(jj, x).ent
              /\ At(jj, x).bool = 1 => At(jj, x)' = At(jj, x)
              /\ \/ At(jj, x)' = At(jj, x)
                 \/ /\ Claims(t) /\ jj = frame[t].j /\ x = s(t) /\ At(jj, x) = Null
                    /\ At(jj, x)' = [ent |-> frame[t].ent, bool |-> 0]
                 \/ /\ Marks(t) /\ jj = frame[t].j /\ x = s(t) /\ At(jj, x).bool = 0
                    /\ At(jj, x)' = [ent |-> At(jj, x).ent, bool |-> 1]
         /\ \A u \in Threads : SubTables'[jj + 1].threadCopy[u] = SubTables[jj + 1].threadCopy[u] +
              (IF CountCopy(t) /\ u = t /\ jj = frame[t].j THEN 1 ELSE 0)
<1>1. Typed /\ InOrder /\ TablesOf(t) /\ jj + 1 \in DOMAIN SubTables /\ jj \in Nat
  BY WindowStep, Window DEF Good
<1>2. /\ SubTables'[jj + 1].TableSize = SubTables[jj + 1].TableSize
      /\ Slots(SubTables'[jj + 1]) = Slots(SubTables[jj + 1])
      /\ \A x \in Slots(SubTables[jj + 1]) : SubTables[jj + 1].InnerTable[x] # Null =>
           SubTables'[jj + 1].InnerTable[x].ent = SubTables[jj + 1].InnerTable[x].ent
           /\ SubTables'[jj + 1].InnerTable[x] # Null
  BY <1>1, SlotsKept
<1>3. /\ Marks(t) \/ Claims(t) \/ CountCopy(t) => pc[t] \in ProbePoints
      /\ pc[t] \in ProbePoints => /\ frame[t].ht = frame[t].j + 1 /\ frame[t].j \in Nat
                                  /\ Probed(t) = At(frame[t].j, s(t))
  BY <1>1, ProbedIs DEF Marks, setPtr, Claims, ClaimSlot, CountCopy, ProbePoints, CopyPoints
<1>4. ASSUME NEW x \in Places(jj)
      PROVE  \/ At(jj, x)' = At(jj, x)
             \/ /\ Claims(t) /\ jj = frame[t].j /\ x = s(t) /\ At(jj, x) = Null
                /\ At(jj, x)' = [ent |-> frame[t].ent, bool |-> 0]
             \/ /\ Marks(t) /\ jj = frame[t].j /\ x = s(t) /\ At(jj, x).bool = 0
                /\ At(jj, x)' = [ent |-> At(jj, x).ent, bool |-> 1]
  <2>1. At(jj, x)' = After(t, jj + 1, x)
    BY <1>1, <1>4 DEF TablesOf, At, Places
  <2>2. CASE ~((Marks(t) \/ Claims(t)) /\ jj + 1 = frame[t].ht /\ x = s(t))
    BY <2>1, <2>2 DEF After, At
  <2>3. CASE (Marks(t) \/ Claims(t)) /\ jj + 1 = frame[t].ht /\ x = s(t)
    <3>1. jj = frame[t].j /\ Probed(t) = At(jj, x)
      BY <1>1, <1>3, <2>3
    <3>2. ~(Marks(t) /\ Claims(t))
      BY DEF Marks, setPtr, Claims, ClaimSlot
    <3> QED
      BY <2>1, <2>3, <3>1, <3>2 DEF After, At, Marks, Claims
  <2> QED
    BY <2>2, <2>3
<1>5. ASSUME NEW x \in Places(jj), At(jj, x).bool = 1
      PROVE  At(jj, x)' = At(jj, x)
  BY <1>4, <1>5 DEF Null
<1>6. \A u \in Threads : SubTables'[jj + 1].threadCopy[u] = SubTables[jj + 1].threadCopy[u] +
              (IF CountCopy(t) /\ u = t /\ jj = frame[t].j THEN 1 ELSE 0)
  <2>1. CountCopy(t) => (jj = frame[t].j <=> jj + 1 = frame[t].ht)
    BY <1>1, <1>3
  <2> QED
    BY <1>1, <2>1 DEF TablesOf
<1> QED
  BY <1>2, <1>4, <1>5, <1>6 DEF Places, At

\* There is a first probe.
LEMMA FirstAttempt == 0 \in Attempts
BY HashtableSmartLazyAssumption DEF Attempts

\* What it does to a probe.
LEMMA ProbeStep ==
  ASSUME NEW t \in Threads, Good(t), NEW jj \in 0 .. Len(SubTables) - 1, NEW k \in Keys,
         NEW n \in Attempts
  PROVE  /\ Bucket(k, n, SubTables[jj + 1])' = Bucket(k, n, SubTables[jj + 1])
         /\ Probe(k, n, jj)' = At(jj, Bucket(k, n, SubTables[jj + 1]))'
         /\ Probe(k, n, jj) # Null =>
              Probe(k, n, jj)' # Null /\ Probe(k, n, jj)'.ent = Probe(k, n, jj).ent
         /\ Probe(k, n, jj).bool = 1 => Probe(k, n, jj)' = Probe(k, n, jj)
         /\ Other(Probe(k, n, jj), k) => Other(Probe(k, n, jj), k)'
         /\ HasKey(Probe(k, n, jj), k) => HasKey(Probe(k, n, jj), k)'
<1>1. PICK x \in Places(jj) : x = Bucket(k, n, SubTables[jj + 1]) /\ Probe(k, n, jj) = At(jj, x)
  BY WindowStep, ProbeTyped DEF Good
<1>2. SubTables'[jj + 1].TableSize = SubTables[jj + 1].TableSize
  BY AtStep
<1>3. Bucket(k, n, SubTables[jj + 1])' = x
  BY <1>1, <1>2 DEF Bucket
<1>4. Probe(k, n, jj)' = At(jj, Bucket(k, n, SubTables[jj + 1]))'
  BY DEF Probe, Slot, At
<1>5. /\ At(jj, x) # Null => At(jj, x)' # Null /\ At(jj, x)'.ent = At(jj, x).ent
      /\ At(jj, x).bool = 1 => At(jj, x)' = At(jj, x)
  BY AtStep
<1>6. At(jj, x)' = Probe(k, n, jj)'
  BY <1>3, <1>4 DEF At
<1>7. /\ Probe(k, n, jj) # Null =>
           Probe(k, n, jj)' # Null /\ Probe(k, n, jj)'.ent = Probe(k, n, jj).ent
      /\ Probe(k, n, jj).bool = 1 => Probe(k, n, jj)' = Probe(k, n, jj)
  BY <1>1, <1>5, <1>6
<1> QED
  BY <1>1, <1>3, <1>4, <1>7 DEF Other, HasKey

\* The subtables above those in use are empty.
LEMMA NewEmpty ==
  ASSUME NEW t \in Threads, Good(t), NEW jj \in cur .. Len(SubTables') - 1
  PROVE  /\ \A x \in Places(jj)' : At(jj, x)' = Null
         /\ \A u \in Threads : SubTables'[jj + 1].threadCopy[u] = 0
<1>1. /\ InOrder /\ Typed /\ TablesOf(t) /\ cur \in Nat /\ Len(SubTables) \in Nat
      /\ cur <= Len(SubTables) /\ Len(SubTables') \in Nat /\ jj \in Nat
  BY WindowStep DEF Good
<1>2. CASE jj \in cur .. Len(SubTables) - 1
  <2>1. jj \in 0 .. Len(SubTables) - 1
    BY <1>1, <1>2
  <2>2. /\ \A x \in Places(jj) : At(jj, x) = Null
        /\ \A u \in Threads : SubTables[jj + 1].threadCopy[u] = 0
    BY <1>1, <1>2 DEF InOrder
  <2>3. (Claims(t) \/ Marks(t) \/ CountCopy(t)) => jj # frame[t].j
    <3>1. Claims(t) \/ Marks(t) \/ CountCopy(t) => pc[t] \in ProbePoints
      BY DEF Marks, setPtr, Claims, ClaimSlot, CountCopy, ProbePoints, CopyPoints
    <3> QED
      BY <1>1, <1>2, <3>1, ProbedIs
  <2> QED
    BY <2>1, <2>2, <2>3, AtStep
<1>3. CASE jj \in Len(SubTables) .. Len(SubTables') - 1
  <2>1. jj + 1 \in DOMAIN SubTables' \ DOMAIN SubTables
    <3>1. DOMAIN SubTables = 1 .. Len(SubTables)
      BY <1>1, SubTablesTyped DEF Typed
    <3>2. DOMAIN SubTables' = 1 .. Len(SubTables')
      BY <1>1 DEF TablesOf
    <3> QED
      BY <1>1, <1>3, <3>1, <3>2
  <2>2. /\ \A x \in Slots(SubTables'[jj + 1]) : SubTables'[jj + 1].InnerTable[x] = Null
        /\ \A u \in Threads : SubTables'[jj + 1].threadCopy[u] = 0
    BY <1>1, <2>1 DEF TablesOf
  <2>3. \A x \in Places(jj)' : At(jj, x)' = Null
    BY <2>2 DEF Places, At, Slots
  <2> QED
    BY <2>2, <2>3
<1> QED
  BY <1>1, <1>2, <1>3

\* What has been passed stays passed.
LEMMA PassedStays ==
  ASSUME NEW t \in Threads, Good(t), NEW k \in Keys, NEW lo \in Nat, NEW lo2 \in Nat, lo <= lo2,
         NEW jj \in Nat, NEW n \in Attempts, jj < cur \/ (jj <= cur /\ n = 0),
         PassedTo(k, lo, jj, n)
  PROVE  PassedTo(k, lo2, jj, n)'
<1> SUFFICES ASSUME NEW j2 \in 0 .. jj, NEW m \in Attempts, lo2 <= j2, Before(j2, m, jj, n)
             PROVE  Other(Probe(k, m, j2), k)'
  BY DEF PassedTo, Before
<1>1. cur \in Nat /\ Len(SubTables) \in Nat /\ cur <= Len(SubTables) /\ HashAttempts \in Nat
  BY WindowStep, HashtableSmartLazyAssumption
<1>2. j2 < cur
  BY <1>1 DEF Before, Attempts
<1>3. j2 \in 0 .. Len(SubTables) - 1
  BY <1>1, <1>2
<1>4. Other(Probe(k, m, j2), k)
  BY DEF PassedTo
<1> QED
  BY <1>3, <1>4, ProbeStep

\* A path that is clear stays clear.
LEMMA ClearStays ==
  ASSUME NEW t \in Threads, Good(t), NEW k \in Keys, NEW lo \in Nat, NEW n0 \in Attempts,
         NEW jj \in Nat, NEW n \in Attempts, jj < cur, Clear(k, lo, n0, jj, n)
  PROVE  Clear(k, lo, n0, jj, n)'
<1> SUFFICES ASSUME NEW j2 \in 0 .. jj, NEW m \in Attempts, ~Before(j2, m, lo, n0),
                    Before(j2, m, jj, n)
             PROVE  Probe(k, m, j2)' # Null
  BY DEF Clear, Before, Null
<1>1. cur \in Nat /\ Len(SubTables) \in Nat /\ cur <= Len(SubTables)
  BY WindowStep
<1>2. j2 \in 0 .. Len(SubTables) - 1
  BY <1>1
<1>3. Probe(k, m, j2) # Null
  BY DEF Clear
<1> QED
  BY <1>2, <1>3, ProbeStep

\* An entry that a path finds is found after any step.
LEMMA FindsStays ==
  ASSUME NEW t \in Threads, Good(t), NEW e \in Entries, NEW lo \in Nat, NEW n0 \in Attempts,
         NEW hi \in Nat, hi <= cur, NEW hi2 \in Nat, hi <= hi2, Finds(e, lo, n0, hi)
  PROVE  Finds(e, lo, n0, hi2)'
<1>1. PICK jj \in 0 .. hi - 1, n \in Attempts :
        /\ ~Before(jj, n, lo, n0)
        /\ Probe(val[e], n, jj).ent = e
        /\ Clear(val[e], lo, n0, jj, n)
  BY DEF Finds
<1>2. /\ val[e] \in Keys /\ e # NULL /\ cur \in Nat /\ Len(SubTables) \in Nat
      /\ cur <= Len(SubTables)
  BY WindowStep, HashtableSmartLazyAssumption DEF Keys
<1>3. jj \in Nat /\ jj < cur /\ jj \in 0 .. Len(SubTables) - 1 /\ jj \in 0 .. hi2 - 1
  BY <1>2
<1>4. Probe(val[e], n, jj)'.ent = e
  <2>1. Probe(val[e], n, jj) # Null
    BY <1>1, <1>2 DEF Null
  <2> QED
    BY <1>1, <1>2, <1>3, <2>1, ProbeStep
<1>5. Clear(val[e], lo, n0, jj, n)'
  BY <1>1, <1>2, <1>3, ClearStays
<1>6. ~Before(jj, n, lo, n0)'
  BY <1>1 DEF Before
<1> QED
  BY <1>3, <1>4, <1>5, <1>6 DEF Finds

\* A path that finds an entry goes on.
LEMMA FindsHere ==
  ASSUME NEW e \in Entries, NEW lo \in Nat, NEW n0 \in Attempts, NEW hi \in Nat,
         Finds(e, lo, n0, hi)
  PROVE  lo < hi /\ Probe(val[e], n0, lo) # Null
<1>1. PICK jj \in 0 .. hi - 1, n \in Attempts :
        /\ ~Before(jj, n, lo, n0)
        /\ Probe(val[e], n, jj).ent = e
        /\ Clear(val[e], lo, n0, jj, n)
  BY DEF Finds
<1>2. e # NULL /\ HashAttempts \in Nat
  BY HashtableSmartLazyAssumption
<1>3. lo < hi /\ lo <= jj
  BY <1>1 DEF Before
<1>4. CASE jj = lo /\ n = n0
  BY <1>1, <1>2, <1>3, <1>4 DEF Null
<1>5. CASE ~(jj = lo /\ n = n0)
  <2>1. Before(lo, n0, jj, n) /\ ~Before(lo, n0, lo, n0) /\ lo \in 0 .. jj
    BY <1>1, <1>2, <1>3, <1>5 DEF Before, Attempts
  <2> QED
    BY <1>1, <1>3, <2>1 DEF Clear
<1> QED
  BY <1>4, <1>5

\* After a probe that is not the entry, the path still finds it.
LEMMA FindsNext ==
  ASSUME NEW e \in Entries, NEW lo \in Nat, NEW n0 \in Attempts, NEW hi \in Nat,
         Finds(e, lo, n0, hi), Probe(val[e], n0, lo).ent # e
  PROVE  /\ n0 + 1 \in Attempts => Finds(e, lo, n0 + 1, hi)
         /\ n0 + 1 = HashAttempts => Finds(e, lo + 1, 0, hi)
<1>1. PICK jj \in 0 .. hi - 1, n \in Attempts :
        /\ ~Before(jj, n, lo, n0)
        /\ Probe(val[e], n, jj).ent = e
        /\ Clear(val[e], lo, n0, jj, n)
  BY DEF Finds
<1>2. HashAttempts \in Nat \ {0} /\ jj \in Nat /\ n \in Nat /\ n < HashAttempts
  BY HashtableSmartLazyAssumption DEF Attempts
<1>3. ~(jj = lo /\ n = n0)
  BY <1>1
<1>4. ASSUME n0 + 1 \in Attempts
      PROVE  Finds(e, lo, n0 + 1, hi)
  <2>1. ~Before(jj, n, lo, n0 + 1)
    BY <1>1, <1>2, <1>3 DEF Before, Attempts
  <2>2. Clear(val[e], lo, n0 + 1, jj, n)
    <3>1. \A j2 \in 0 .. jj, m \in Attempts :
            ~Before(j2, m, lo, n0 + 1) => ~Before(j2, m, lo, n0)
      BY <1>2 DEF Before, Attempts
    <3> QED
      BY <1>1, <3>1 DEF Clear
  <2> QED
    BY <1>1, <2>1, <2>2 DEF Finds
<1>5. ASSUME n0 + 1 = HashAttempts
      PROVE  Finds(e, lo + 1, 0, hi)
  <2>1. ~Before(jj, n, lo + 1, 0)
    BY <1>1, <1>2, <1>3, <1>5 DEF Before, Attempts
  <2>2. Clear(val[e], lo + 1, 0, jj, n)
    <3>1. \A j2 \in 0 .. jj, m \in Attempts :
            ~Before(j2, m, lo + 1, 0) => ~Before(j2, m, lo, n0)
      BY <1>2 DEF Before, Attempts
    <3> QED
      BY <1>1, <3>1 DEF Clear
  <2> QED
    BY <1>1, <2>1, <2>2 DEF Finds
<1> QED
  BY <1>4, <1>5

\* A path that is clear up to an entry finds it, below any subtable above.
LEMMA ClearFinds ==
  ASSUME NEW e \in Entries, NEW lo \in Nat, NEW jj \in Nat, NEW n \in Attempts, lo <= jj,
         NEW hi \in Nat, jj < hi, Probe(val[e], n, jj).ent = e,
         PassedTo(val[e], lo, jj, n) \/ Clear(val[e], lo, 0, jj, n)
  PROVE  Finds(e, lo, 0, hi)
<1>1. ~Before(jj, n, lo, 0) /\ jj \in 0 .. hi - 1
  BY HashtableSmartLazyAssumption DEF Before, Attempts
<1>2. Clear(val[e], lo, 0, jj, n)
  <2>1. \A j2 \in 0 .. jj, m \in Attempts : ~Before(j2, m, lo, 0) => lo <= j2
    BY DEF Before
  <2> QED
    BY <2>1 DEF Clear, PassedTo, Other
<1> QED
  BY <1>1, <1>2 DEF Finds

\* Where a key's path has come to NULL no entry of the key is found.
LEMMA PassedNull ==
  ASSUME NEW e \in Entries, NEW lo \in Nat, NEW jj \in Nat, NEW n \in Attempts, lo <= jj,
         NEW hi \in Nat, Finds(e, lo, 0, hi), PassedTo(val[e], lo, jj, n)
  PROVE  Probe(val[e], n, jj) # Null /\ (n = 0 => jj < hi)
<1>1. PICK j1 \in 0 .. hi - 1, n1 \in Attempts :
        /\ ~Before(j1, n1, lo, 0)
        /\ Probe(val[e], n1, j1).ent = e
        /\ Clear(val[e], lo, 0, j1, n1)
  BY DEF Finds
<1>2. e # NULL /\ HashAttempts \in Nat
  BY HashtableSmartLazyAssumption
<1>3. lo <= j1
  BY <1>1 DEF Before
<1>4. ~Before(j1, n1, jj, n)
  <2> SUFFICES ASSUME Before(j1, n1, jj, n)
               PROVE  FALSE
    OBVIOUS
  <2>1. j1 \in 0 .. jj
    BY DEF Before
  <2>2. Other(Probe(val[e], n1, j1), val[e])
    BY <1>3, <2>1 DEF PassedTo
  <2> QED
    BY <1>1, <2>2 DEF Other, HasKey
<1>5. CASE j1 = jj /\ n1 = n
  BY <1>1, <1>2, <1>5 DEF Null
<1>6. CASE ~(j1 = jj /\ n1 = n)
  <2>1. Before(jj, n, j1, n1) /\ ~Before(jj, n, lo, 0) /\ jj \in 0 .. j1
    BY <1>2, <1>4, <1>6 DEF Before, Attempts
  <2> QED
    BY <1>1, <2>1 DEF Clear
<1> QED
  BY <1>5, <1>6
-----------------------------------------------------------------------------
(* What is being copied, and how much has been                             *)

\* The inserts that t is called from.
LEMMA StackIs ==
  ASSUME Typed, NEW t \in Threads, StackInv(t), stack[t] # <<>>
  PROVE  \E g \in CallerFrames :
           /\ g = Head(stack[t]) /\ pc[t] \in InsertPoints
           /\ \/ stack[t] = <<g>> /\ Tail(stack[t]) = <<>> /\ CopyCaller(t, g)
              \/ stack[t] = <<g>> /\ Tail(stack[t]) = <<>> /\ AgainCaller(t, g, frame[t])
              \/ \E d \in CallerFrames : /\ stack[t] = <<g, d>> /\ Tail(stack[t]) = <<d>>
                                         /\ CopyCaller(t, g) /\ AgainCaller(t, d, g)
<1>1. stack[t] \in Seq(CallerFrames)
  BY LocalsTypes
<1>2. PICK st \in Seq(CallerFrames) : st = stack[t] /\ st # <<>>
  BY <1>1
<1>3. st[1] \in CallerFrames /\ st[1] = Head(st)
  BY <1>2
<1>4. pc[t] \in InsertPoints
  BY DEF StackInv
<1>5. PICK g \in CallerFrames : g = st[1]
  BY <1>3
<1>6. CASE st = <<g>> /\ CopyCaller(t, g)
  <2>1. Tail(<<g>>) = <<>>
    OBVIOUS
  <2> QED
    BY <1>2, <1>3, <1>4, <1>5, <1>6, <2>1
<1>7. CASE st = <<g>> /\ AgainCaller(t, g, frame[t])
  <2>1. Tail(<<g>>) = <<>>
    OBVIOUS
  <2> QED
    BY <1>2, <1>3, <1>4, <1>5, <1>7, <2>1
<1>8. CASE st = <<g, st[2]>> /\ CopyCaller(t, g) /\ AgainCaller(t, st[2], g)
  <2>1. PICK d : d = st[2]
    OBVIOUS
  <2>2. st = <<g, d>> /\ Len(<<g, d>>) = 2
    BY <1>8, <2>1
  <2>3. d \in CallerFrames
    BY <1>2, <2>1, <2>2
  <2>4. Tail(<<g, d>>) = <<d>>
    OBVIOUS
  <2> QED
    BY <1>2, <1>3, <1>4, <1>5, <1>8, <2>1, <2>2, <2>3, <2>4
<1>9. \/ st = <<g>> /\ CopyCaller(t, g)
      \/ st = <<g>> /\ AgainCaller(t, g, frame[t])
      \/ st = <<g, st[2]>> /\ CopyCaller(t, g) /\ AgainCaller(t, st[2], g)
  BY <1>2, <1>5 DEF StackInv
<1> QED
  BY <1>6, <1>7, <1>8, <1>9

\* The fields of a caller.
LEMMA CallerTyped ==
  ASSUME Typed, InOrder, NEW g \in CallerFrames
  PROVE  /\ g \in Frames /\ g.ht \in DOMAIN SubTables /\ g.val \in Keys /\ g.ent \in Entries
         /\ g.j \in Nat /\ g.j < cur /\ g.i \in Attempts /\ g.exStart \in Nat
         /\ g.doCopy \in BOOLEAN /\ g.back \in {"dComp", "count"}
         /\ g.j \in 0 .. Len(SubTables) - 1
<1>1. g \in Frames /\ g.ht \in DOMAIN SubTables /\ g.val \in Keys /\ g.ent \in Entries
      /\ g.j < cur /\ g.back \in {"dComp", "count"}
  BY DEF CallerFrames
<1> QED
  BY <1>1, FrameTyped, Window

\* The marked slot that a thread is copying.
LEMMA PendingTyped ==
  ASSUME Typed, Deep, NEW u \in Threads, IsPending(u)
  PROVE  /\ Marker(u) \in Frames /\ Marker(u).val \in Keys /\ Marker(u).i \in Attempts
         /\ Marker(u).j = start /\ start \in 0 .. Len(SubTables) - 1
         /\ ProbeOf(Marker(u)).bool = 1
         /\ \E x \in Places(start) :
              /\ x = Bucket(Marker(u).val, Marker(u).i, SubTables[start + 1])
              /\ PendingAt(u, start, x) /\ At(start, x).bool = 1
<1>0. InOrder /\ ThreadInv(u) /\ StackInv(u) /\ FrameAt(pc[u], frame[u])
  BY DEF Deep, ThreadInv, FrameInv
<1>1. start \in 0 .. Len(SubTables) - 1
  BY <1>0, Window
<1>2. /\ Marker(u) \in Frames /\ Marker(u).val \in Keys /\ Marker(u).i \in Attempts
      /\ Marker(u).j = start /\ ProbeOf(Marker(u)).bool = 1
  <2>1. CASE pc[u] \in {"copy", "count"}
    <3>1. Marker(u) = frame[u]
      BY <2>1 DEF Marker
    <3>2. ProbeOf(frame[u]).bool = 1 /\ frame[u].j = start
      BY <1>0, <2>1 DEF FrameAt
    <3>3. frame[u] \in Frames /\ frame[u].val \in Keys /\ frame[u].i \in Attempts
      BY <2>1, <1>0, LocalsTypes, ProbedIs DEF ProbePoints, CopyPoints
    <3> QED
      BY <3>1, <3>2, <3>3
  <2>2. CASE pc[u] \notin {"copy", "count"}
    <3>1. stack[u] # <<>> /\ Head(stack[u]).back = "count" /\ Marker(u) = Head(stack[u])
      BY <2>2 DEF IsPending, Marker
    <3>2. PICK g \in CallerFrames :
           /\ g = Head(stack[u])
           /\ CopyCaller(u, g) \/ AgainCaller(u, g, frame[u])
      BY <1>0, <3>1, StackIs
    <3>3. CopyCaller(u, g)
      BY <3>1, <3>2 DEF AgainCaller
    <3>4. g \in Frames /\ g.val \in Keys /\ g.i \in Attempts
      BY <1>0, CallerTyped
    <3>5. g.j = start /\ ProbeOf(g).bool = 1
      BY <3>3 DEF CopyCaller
    <3> QED
      BY <3>1, <3>2, <3>4, <3>5
  <2> QED
    BY <2>1, <2>2
<1>3. PICK g \in Frames : g = Marker(u) /\ g.val \in Keys /\ g.i \in Attempts /\ g.j = start
  BY <1>2
<1>4. PICK x \in Places(start) : x = Bucket(g.val, g.i, SubTables[start + 1])
  BY <1>0, <1>1, <1>3, ProbeTyped
<1>5. ProbeOf(g) = At(start, x)
  BY <1>0, <1>1, <1>3, <1>4, ProbeTyped DEF ProbeOf
<1>6. PendingAt(u, start, x)
  BY <1>3, <1>4 DEF PendingAt
<1> QED
  BY <1>1, <1>2, <1>3, <1>4, <1>5, <1>6

\* The slots of a subtable are finitely many.
LEMMA SlotsFinite ==
  ASSUME Typed, InOrder, NEW jj \in 0 .. Len(SubTables) - 1
  PROVE  /\ IsFiniteSet(Completed(jj)) /\ Cardinality(Completed(jj)) \in Nat
         /\ Cardinality(Completed(jj)) <= SubTables[jj + 1].TableSize
         /\ Cardinality(Completed(jj)) = SubTables[jj + 1].TableSize => Completed(jj) = Places(jj)
         /\ SubTables[jj + 1].TableSize \in Nat
<1>0. SubTables[jj + 1] \in SubTableSet
  BY Window
<1>1. PICK m \in Nat \ {0} : m = SubTables[jj + 1].TableSize
  BY <1>0, TableTyped
<1>2. IsFiniteSet(0 .. m - 1) /\ Cardinality(0 .. m - 1) = m
  <2>1. PICK a \in Int, b \in Int : a = 0 /\ b = m - 1
    OBVIOUS
  <2>2. IsFiniteSet(a .. b) /\ Cardinality(a .. b) = IF a > b THEN 0 ELSE b - a + 1
    BY FS_Interval
  <2> QED
    BY <2>1, <2>2
<1>3. Places(jj) = 0 .. m - 1
  BY <1>0, <1>1, TableTyped DEF Places
<1>4. Completed(jj) \subseteq Places(jj)
  BY DEF Completed
<1>5. /\ IsFiniteSet(Completed(jj)) /\ Cardinality(Completed(jj)) <= m
      /\ Cardinality(Completed(jj)) = m => Completed(jj) = Places(jj)
  BY <1>2, <1>3, <1>4, FS_Subset
<1>6. Cardinality(Completed(jj)) \in Nat
  BY <1>5, FS_CardinalityType
<1> QED
  BY <1>1, <1>3, <1>5, <1>6

\* The sum over the threads is the size only when every slot has been copied.
LEMMA SumIsSize ==
  ASSUME Typed, InOrder, Copied, NEW jj \in 0 .. cur - 1,
         sumArr(SubTables[jj + 1]) = SubTables[jj + 1].TableSize
  PROVE  Completed(jj) = Places(jj)
<1>1. jj \in 0 .. Len(SubTables) - 1
  BY Window
<1>2. IsFiniteSet(Tally(jj)) /\ Cardinality(Tally(jj)) <= Cardinality(Completed(jj))
  BY DEF Copied
<1>3. Cardinality(Tally(jj)) = SubTables[jj + 1].TableSize
  BY DEF sumArr, Tally
<1>4. Cardinality(Tally(jj)) \in Nat
  BY <1>2, FS_CardinalityType
<1> QED
  BY <1>1, <1>2, <1>3, <1>4, SlotsFinite

\* When head->start moves on every slot behind it has been copied.
LEMMA StartStep ==
  ASSUME NEW t \in Threads, Good(t)
  PROVE  \/ start' = start
         \/ /\ AdvanceStart(t) /\ start' = start + 1 /\ frame[t].j = start
            /\ start + 1 < cur /\ Completed(start) = Places(start)
            /\ UNCHANGED <<SubTables, cur, isDeleted>>
<1>0. /\ InOrder /\ Copied /\ Typed /\ FrameAt(pc[t], frame[t]) /\ GlobalsOf(t)
      /\ start \in Nat /\ cur \in Nat /\ start < cur
  BY WindowStep DEF Deep, Good, ThreadInv, FrameInv
<1> SUFFICES ASSUME start' # start
             PROVE  /\ AdvanceStart(t) /\ start' = start + 1 /\ frame[t].j = start
                    /\ start + 1 < cur /\ Completed(start) = Places(start)
                    /\ UNCHANGED <<SubTables, cur, isDeleted>>
  OBVIOUS
<1>1. AdvanceStart(t) /\ start' = start + 1
  BY <1>0 DEF GlobalsOf
<1>2. /\ pc[t] = "start" /\ sumArr(ht(t)) = ht(t).TableSize /\ start = frame[t].exStart
      /\ UNCHANGED <<SubTables, cur, isDeleted>>
  BY <1>1 DEF AdvanceStart
<1>3. /\ frame[t].exStart = frame[t].j /\ frame[t].doCopy
      /\ frame[t].j + 1 < cur
  BY <1>0, <1>2 DEF FrameAt, InsertPoints, CopyPoints
<1>4. frame[t].j = start /\ ht(t) = SubTables[start + 1]
  BY <1>0, <1>2, <1>3, ProbedIs DEF ProbePoints, CopyPoints
<1>5. Completed(start) = Places(start)
  BY <1>0, <1>2, <1>4, SumIsSize
<1> QED
  BY <1>1, <1>2, <1>3, <1>4, <1>5

\* While a slot is being copied head->start does not move on.
LEMMA StartStays ==
  ASSUME NEW t \in Threads, Good(t), NEW u \in Threads, IsPending(u)
  PROVE  start' = start
<1>1. PICK x \in Places(start) : PendingAt(u, start, x)
  BY PendingTyped DEF Good
<1>2. x \notin Completed(start)
  BY <1>1 DEF Completed
<1> QED
  BY <1>1, <1>2, StartStep

\* The thread invariant of t and what its step leaves of the other threads.
LEMMA ThreadIs ==
  ASSUME NEW t \in Threads, Good(t), NEW u \in Threads
  PROVE  /\ CallInv(u) /\ StackInv(u) /\ FrameAt(pc[u], frame[u])
         /\ PassedAt(pc[u], frame[u], Origin(u)) /\ ThreadTyped(u) /\ SeenInv(u)
         /\ InOrder /\ Typed
  BY DEF Good, Deep, ThreadInv, FrameInv, Typed

\* The locals of the other threads stay.
LEMMA OthersStay ==
  ASSUME NEW t \in Threads, Good(t), NEW u \in Threads, u # t
  PROVE  /\ pc'[u] = pc[u] /\ op'[u] = op[u] /\ key'[u] = key[u] /\ ret'[u] = ret[u]
         /\ frame'[u] = frame[u] /\ stack'[u] = stack[u]
<1>1. Typed /\ LocalsOf(t)
  BY DEF Good
<1> QED
  BY <1>1, LocalsTypes DEF LocalsOf

\* A step of t that neither begins nor ends the copy of a slot.
SamePending(t) ==
  /\ ~Marks(t) /\ ~CountCopy(t)
  /\ IsPending(t)' <=> IsPending(t)
  /\ IsPending(t) => /\ Marker(t)'.val = Marker(t).val /\ Marker(t)'.i = Marker(t).i
                     /\ Marker(t)'.j = Marker(t).j

\* A step in which no insertTable is called or returns.
LEMMA QuietPending ==
  ASSUME NEW t \in Threads, stack'[t] = stack[t],
         pc[t] \notin {"copy", "count"}, pc'[t] \notin {"copy", "count"}, ~Marks(t)
  PROVE  SamePending(t)
<1>1. ~CountCopy(t)
  BY DEF CountCopy
<1>2. IsPending(t)' <=> IsPending(t)
  BY DEF IsPending
<1>3. IsPending(t) => Marker(t)' = Marker(t)
  BY DEF IsPending, Marker
<1> QED
  BY <1>1, <1>2, <1>3 DEF SamePending

\* A return.
LEMMA ReturnPending ==
  ASSUME NEW t \in Threads, Good(t), NEW r \in {0, 1}, Return(t, r),
         pc[t] \notin {"copy", "count", "setPtr"}
  PROVE  SamePending(t)
<1>0. StackInv(t) /\ Typed /\ ~Marks(t) /\ ~CountCopy(t)
  BY ThreadIs DEF Marks, setPtr, CountCopy
<1>1. CASE stack[t] = <<>>
  BY <1>0, <1>1, ReturnEffect, QuietPending
<1>2. CASE stack[t] # <<>>
  <2>1. PICK g \in CallerFrames :
          /\ g = Head(stack[t])
          /\ \/ CopyCaller(t, g)
             \/ Tail(stack[t]) = <<>> /\ AgainCaller(t, g, frame[t])
    BY <1>0, <1>2, StackIs
  <2>2. pc'[t] = g.back /\ frame'[t] = g /\ stack'[t] = Tail(stack[t])
    BY <1>0, <1>2, <2>1, ReturnEffect
  <2>3. CASE CopyCaller(t, g)
    <3>1. g.back = "count"
      BY <2>3 DEF CopyCaller
    <3>2. IsPending(t) /\ IsPending(t)' /\ Marker(t) = g /\ Marker(t)' = g
      BY <1>0, <1>2, <2>1, <2>2, <3>1 DEF IsPending, Marker
    <3> QED
      BY <1>0, <3>2 DEF SamePending
  <2>4. CASE Tail(stack[t]) = <<>> /\ AgainCaller(t, g, frame[t])
    <3>1. g.back = "dComp"
      BY <2>4 DEF AgainCaller
    <3>2. ~IsPending(t) /\ ~IsPending(t)'
      BY <1>0, <1>2, <2>1, <2>2, <2>4, <3>1 DEF IsPending
    <3> QED
      BY <1>0, <3>2 DEF SamePending
  <2> QED
    BY <2>1, <2>3, <2>4
<1> QED
  BY <1>1, <1>2

\* insertTable is called again.
LEMMA CallPending ==
  ASSUME NEW t \in Threads, Good(t), CopyUp(t) \/ Undeleted(t)
  PROVE  SamePending(t)
<1>0. /\ StackInv(t) /\ CallInv(t) /\ Typed /\ ~Marks(t) /\ ~CountCopy(t)
      /\ DOMAIN pc = Threads /\ DOMAIN frame = Threads
  BY ThreadIs, LocalsTypes DEF Marks, setPtr, CountCopy, CopyUp, Undeleted
<1>1. CASE CopyUp(t) /\ isDeleted[Probed(t).ent] = 0
  <2>1. pc[t] = "copy" /\ CallAgain(t, Probed(t).ent, "count")
    BY <1>1 DEF CopyUp
  <2>2. pc'[t] = "table" /\ \E f \in CallerFrames :
              /\ f.back = "count" /\ f.exStart = start /\ stack'[t] = <<f>> \o stack[t]
              /\ f.val = frame[t].val /\ f.ent = frame[t].ent /\ f.ht = frame[t].ht
              /\ f.j = frame[t].j /\ f.i = frame[t].i /\ f.doCopy = frame[t].doCopy
    BY <1>0, <2>1, CallAgainEffect, CallerPushed
  <2>3. PICK f \in CallerFrames :
              /\ f.back = "count" /\ stack'[t] = <<f>> \o stack[t]
              /\ f.val = frame[t].val /\ f.j = frame[t].j /\ f.i = frame[t].i
    BY <2>2
  <2>4. stack'[t] # <<>> /\ Head(stack'[t]) = f
    <3>1. PICK st \in Seq(CallerFrames) : st = stack[t]
      BY <1>0, LocalsTypes
    <3>2. <<f>> \o st # <<>> /\ Head(<<f>> \o st) = f
      OBVIOUS
    <3> QED
      BY <2>3, <3>1, <3>2
  <2>5. IsPending(t) /\ Marker(t) = frame[t]
    BY <2>1 DEF IsPending, Marker
  <2>6. IsPending(t)' /\ Marker(t)' = f
    BY <2>2, <2>3, <2>4 DEF IsPending, Marker
  <2> QED
    BY <1>0, <2>3, <2>5, <2>6 DEF SamePending
<1>2. CASE CopyUp(t) /\ isDeleted[Probed(t).ent] # 0
  <2>1. /\ pc[t] = "copy" /\ pc' = [pc EXCEPT ![t] = "count"]
        /\ frame' = [frame EXCEPT ![t].exStart = start]
    BY <1>2 DEF CopyUp, Goto
  <2>2. pc'[t] = "count"
    BY <1>0, <2>1
  <2>3. frame'[t] = [frame[t] EXCEPT !.exStart = start]
    BY <1>0, <2>1
  <2>4. PICK f \in Frames : f = frame[t]
    BY <1>0, LocalsTypes
  <2>5. frame'[t].val = f.val /\ frame'[t].i = f.i /\ frame'[t].j = f.j
    BY <2>3, <2>4 DEF Frames
  <2>6. IsPending(t) /\ Marker(t) = f /\ IsPending(t)' /\ Marker(t)' = frame'[t]
    BY <2>1, <2>2, <2>4 DEF IsPending, Marker
  <2> QED
    BY <1>0, <2>5, <2>6 DEF SamePending
<1>3. CASE Undeleted(t) /\ Probed(t).bool # 1
  BY <1>0, <1>3, ReturnPending DEF Undeleted
<1>4. CASE Undeleted(t) /\ Probed(t).bool = 1
  <2>1. pc[t] = "undeleted" /\ CallAgain(t, Probed(t).ent, "dComp")
    BY <1>4 DEF Undeleted
  <2>2. PICK f \in CallerFrames :
          pc'[t] = "table" /\ f.back = "dComp" /\ stack'[t] = <<f>> \o stack[t]
    BY <1>0, <2>1, CallAgainEffect, CallerPushed
  <2>3. stack[t] = <<>>
    BY <1>0, <2>1 DEF CallInv, InsertPoints, CopyPoints
  <2>4. stack'[t] = <<f>> /\ Head(<<f>>) = f
    BY <2>2, <2>3
  <2>5. ~IsPending(t) /\ ~IsPending(t)'
    BY <2>1, <2>2, <2>3, <2>4 DEF IsPending
  <2> QED
    BY <1>0, <2>5 DEF SamePending
<1> QED
  BY <1>1, <1>2, <1>3, <1>4

\* How a step of t changes what t is copying.
LEMMA MarkerStep ==
  ASSUME NEW t \in Threads, Good(t)
  PROVE  \/ SamePending(t)
         \/ /\ Marks(t) /\ ~CountCopy(t) /\ ~IsPending(t)
            /\ IsPending(t)' /\ Marker(t)' = frame[t] /\ pc[t] = "setPtr"
         \/ /\ CountCopy(t) /\ ~Marks(t) /\ ~IsPending(t)'
            /\ IsPending(t) /\ Marker(t) = frame[t] /\ pc[t] = "count"
<1>0. /\ StackInv(t) /\ CallInv(t) /\ Typed /\ DOMAIN pc = Threads
      /\ (CopyPoints \cap {"copy", "count"}) \subseteq CopyPoints
  BY ThreadIs, LocalsTypes
<1>n. ASSUME NEW again \in Points, NEW after \in Points, NextAttempt(t, again, after)
      PROVE  stack'[t] = stack[t] /\ pc'[t] \in {again, after}
  BY <1>0, <1>n DEF NextAttempt, Goto, call
<1>m. /\ "lookup" \in Points /\ "table" \in Points /\ "qlookup" \in Points /\ "qtable" \in Points
      /\ "setPtr" \in Points
  BY DEF Points
<1>c. ASSUME pc[t] \in CopyPoints, stack[t] # <<>>
      PROVE  Head(stack[t]).back = "dComp"
  <2>1. PICK g \in CallerFrames :
          /\ g = Head(stack[t])
          /\ CopyCaller(t, g) \/ AgainCaller(t, g, frame[t])
    BY <1>0, <1>c, StackIs
  <2>2. ~CopyCaller(t, g)
    BY <1>c DEF CopyCaller
  <2> QED
    BY <2>1, <2>2 DEF AgainCaller
<1>1. CASE CallInsert(t) \/ CallQuery(t) \/ CallDelete(t)
  <2>1. pc[t] = "idle" /\ stack' = stack /\ pc'[t] \in {"table", "qtable"}
    BY <1>0, <1>1 DEF CallInsert, CallQuery, CallDelete, Start, Goto
  <2> QED
    BY <2>1, QuietPending DEF Marks, setPtr
<1>2. CASE InsertTable(t) \/ NextTableSize(t) \/ addDrop(t) \/ AdvanceCur(t)
  <2>1. stack' = stack /\ pc[t] \in {"table", "size", "grow", "advance"}
        /\ pc'[t] \in {"lookup", "size", "grow", "advance", "table"}
    BY <1>0, <1>2 DEF InsertTable, NextTableSize, addDrop, AdvanceCur, Goto, call
  <2> QED
    BY <2>1, QuietPending DEF Marks, setPtr
<1>3. CASE lookup(t)
  <2>0. pc[t] = "lookup"
    BY <1>3 DEF lookup
  <2>1. CASE Return(t, 0)
    BY <2>0, <2>1, ReturnPending
  <2>2. CASE stack' = stack /\ pc'[t] \in {"claim", "undeleted", "setPtr", "lookup", "table"}
    BY <2>0, <2>2, QuietPending DEF Marks, setPtr
  <2>3. CASE NextAttempt(t, "lookup", "table")
    BY <1>n, <1>m, <2>0, <2>3, QuietPending DEF Marks, setPtr
  <2>4. \/ Return(t, 0) \/ NextAttempt(t, "lookup", "table")
        \/ stack' = stack /\ pc'[t] \in {"claim", "undeleted", "setPtr", "lookup", "table"}
    BY <1>0, <1>3 DEF lookup, Goto, call
  <2> QED
    BY <2>1, <2>2, <2>3, <2>4
<1>4. CASE Undeleted(t) \/ CopyUp(t)
  BY <1>4, CallPending
<1>5. CASE ReturnComp(t)
  BY <1>5, ReturnPending DEF ReturnComp
<1>6. CASE setPtr(t) /\ ~Marks(t)
  <2>1. pc[t] = "setPtr" /\ NextAttempt(t, "lookup", "table")
    BY <1>6 DEF setPtr, Marks
  <2> QED
    BY <1>n, <1>m, <1>6, <2>1, QuietPending
<1>7. CASE Marks(t)
  <2>1. pc[t] = "setPtr" /\ pc'[t] = "copy" /\ stack' = stack /\ frame' = frame /\ ~CountCopy(t)
    BY <1>0, <1>7 DEF Marks, setPtr, CountCopy, Goto, call
  <2>2. stack[t] # <<>> => Head(stack[t]).back = "dComp"
    BY <1>c, <2>1 DEF CopyPoints
  <2>3. ~IsPending(t) /\ IsPending(t)' /\ Marker(t)' = frame[t]
    BY <2>1, <2>2 DEF IsPending, Marker
  <2> QED
    BY <1>7, <2>1, <2>3
<1>8. CASE CountCopy(t)
  <2>1. pc[t] = "count" /\ pc'[t] = "start" /\ stack' = stack /\ ~Marks(t)
    BY <1>0, <1>8 DEF Marks, setPtr, CountCopy, Goto, call
  <2>2. stack[t] # <<>> => Head(stack[t]).back = "dComp"
    BY <1>c, <2>1 DEF CopyPoints
  <2>3. IsPending(t) /\ ~IsPending(t)' /\ Marker(t) = frame[t]
    BY <2>1, <2>2 DEF IsPending, Marker
  <2> QED
    BY <1>8, <2>1, <2>3
<1>9. CASE AdvanceStart(t) \/ Retire(t)
  <2>0. pc[t] \in {"start", "retire"} /\ ~Marks(t)
    BY <1>9 DEF AdvanceStart, Retire, Marks, setPtr
  <2>1. NextAttempt(t, "lookup", "table") \/ (stack' = stack /\ pc'[t] = "retire")
    BY <1>0, <1>9 DEF AdvanceStart, Retire, Goto, call
  <2> QED
    BY <1>n, <1>m, <2>0, <2>1, QuietPending
<1>10. CASE ClaimSlot(t)
  <2>0. pc[t] = "claim" /\ ~Marks(t)
    BY <1>10 DEF ClaimSlot, Marks, setPtr
  <2>1. NextAttempt(t, "lookup", "table") \/ Return(t, 0) \/ Return(t, 1)
    BY <1>10 DEF ClaimSlot
  <2> QED
    BY <1>n, <1>m, <2>0, <2>1, QuietPending, ReturnPending
<1>11. CASE QueryTable(t) \/ lookupQuery(t) \/ setDelete(t)
  <2>0. pc[t] \in {"qtable", "qlookup", "delete"} /\ ~Marks(t)
    BY <1>11 DEF QueryTable, lookupQuery, setDelete, Marks, setPtr
  <2>1. \/ NextAttempt(t, "qlookup", "qtable") \/ Return(t, 0) \/ Return(t, 1)
        \/ stack' = stack /\ pc'[t] \in {"qlookup", "delete"}
    BY <1>0, <1>11 DEF QueryTable, lookupQuery, setDelete, Goto, call
  <2> QED
    BY <1>n, <1>m, <2>0, <2>1, QuietPending, ReturnPending
<1> QED
  BY <1>1, <1>2, <1>3, <1>4, <1>5, <1>6, <1>7, <1>8, <1>9, <1>10, <1>11
  DEF Good, ThreadStep, Step

\* What is being copied after a step.
LEMMA PendingAtStep ==
  ASSUME NEW t \in Threads, Good(t), NEW u \in Threads, NEW jj \in 0 .. Len(SubTables) - 1, NEW x
  PROVE  PendingAt(u, jj, x)' <=>
           \/ PendingAt(u, jj, x) /\ ~(u = t /\ CountCopy(t))
           \/ u = t /\ Marks(t) /\ jj = frame[t].j /\ x = s(t)
<1>0. Typed /\ Deep /\ InOrder
  BY DEF Good, Deep
<1>b. ASSUME NEW k \in Keys, NEW n \in Attempts
      PROVE  Bucket(k, n, SubTables'[jj + 1]) = Bucket(k, n, SubTables[jj + 1])
  <2>1. Bucket(k, n, SubTables[jj + 1])' = Bucket(k, n, SubTables[jj + 1])
    BY <1>b, ProbeStep
  <2> QED
    BY <2>1
<1>p. IsPending(u) => Marker(u).val \in Keys /\ Marker(u).i \in Attempts
  BY <1>0, PendingTyped
<1>s. ASSUME IsPending(u)' <=> IsPending(u), ~(u = t /\ (Marks(t) \/ CountCopy(t))),
             IsPending(u) => /\ Marker(u)'.val = Marker(u).val /\ Marker(u)'.i = Marker(u).i
                             /\ Marker(u)'.j = Marker(u).j
      PROVE  PendingAt(u, jj, x)' <=>
               \/ PendingAt(u, jj, x) /\ ~(u = t /\ CountCopy(t))
               \/ u = t /\ Marks(t) /\ jj = frame[t].j /\ x = s(t)
  <2>1. CASE IsPending(u)
    <3>1. PICK k \in Keys, n \in Attempts : k = Marker(u).val /\ n = Marker(u).i
      BY <1>p, <2>1
    <3>2. PendingAt(u, jj, x)' <=>
            Marker(u)'.j = jj /\ Bucket(k, n, SubTables'[jj + 1]) = x
      BY <1>s, <2>1, <3>1 DEF PendingAt
    <3>3. PendingAt(u, jj, x) <=>
            Marker(u).j = jj /\ Bucket(k, n, SubTables[jj + 1]) = x
      BY <2>1, <3>1 DEF PendingAt
    <3> QED
      BY <1>b, <1>s, <2>1, <3>2, <3>3
  <2>2. CASE ~IsPending(u)
    BY <1>s, <2>2 DEF PendingAt
  <2> QED
    BY <2>1, <2>2
<1>1. CASE u # t
  <2>1. IsPending(u)' = IsPending(u) /\ Marker(u)' = Marker(u)
    BY <1>1, OthersStay DEF IsPending, Marker
  <2> QED
    BY <1>1, <1>s, <2>1
<1>2. CASE u = t /\ SamePending(t)
  BY <1>2, <1>s DEF SamePending
<1>3. CASE /\ u = t /\ Marks(t) /\ ~CountCopy(t) /\ ~IsPending(t)
           /\ IsPending(t)' /\ Marker(t)' = frame[t] /\ pc[t] = "setPtr"
  <2>1. PICK k \in Keys, n \in Attempts : k = frame[t].val /\ n = frame[t].i
    BY <1>0, <1>3, ProbedIs DEF ProbePoints, CopyPoints
  <2>2. s(t) = Bucket(k, n, SubTables[frame[t].j + 1])
    BY <1>0, <1>3, <2>1, ProbedIs DEF ProbePoints, CopyPoints
  <2>3. PendingAt(t, jj, x)' <=> frame[t].j = jj /\ Bucket(k, n, SubTables'[jj + 1]) = x
    BY <1>3, <2>1 DEF PendingAt
  <2>4. ~PendingAt(t, jj, x)
    BY <1>3 DEF PendingAt
  <2> QED
    BY <1>b, <1>3, <2>2, <2>3, <2>4
<1>4. CASE /\ u = t /\ CountCopy(t) /\ ~Marks(t) /\ ~IsPending(t)'
           /\ IsPending(t) /\ Marker(t) = frame[t] /\ pc[t] = "count"
  BY <1>4 DEF PendingAt
<1> QED
  BY <1>1, <1>2, <1>3, <1>4, MarkerStep

\* The slot that t marks has no mark yet, and is in the subtable at head->start.
LEMMA MarksWhere ==
  ASSUME NEW t \in Threads, Good(t), Marks(t)
  PROVE  /\ frame[t].j = start /\ s(t) \in Places(start) /\ At(start, s(t)).bool = 0
         /\ start' = start
<1>1. /\ pc[t] = "setPtr" /\ pc[t] \in ProbePoints /\ pc[t] \in InsertPoints
      /\ Probed(t).bool = 0
  BY DEF Marks, setPtr, ProbePoints, InsertPoints, CopyPoints
<1>2. /\ Typed /\ InOrder /\ Copied /\ frame[t].doCopy /\ frame[t].j <= start
      /\ start \in Nat /\ cur \in Nat
  BY <1>1, ThreadIs, WindowStep DEF FrameAt, CopyPoints, Good, Deep
<1>3. /\ frame[t].j \in Nat /\ frame[t].j < cur /\ s(t) \in Places(frame[t].j)
      /\ At(frame[t].j, s(t)).bool = 0
  BY <1>1, <1>2, ProbedIs
<1>4. ~(frame[t].j < start)
  <2> SUFFICES ASSUME frame[t].j < start
               PROVE  FALSE
    OBVIOUS
  <2>1. frame[t].j \in 0 .. cur - 1
    BY <1>2, <1>3
  <2>2. Completed(frame[t].j) = Places(frame[t].j)
    BY <1>2, <2>1 DEF Copied
  <2> QED
    BY <1>3, <2>2 DEF Completed
<1>5. start' = start
  BY <1>1, StartStep DEF AdvanceStart
<1> QED
  BY <1>2, <1>3, <1>4, <1>5

\* Each thread copies a slot of its own.
LEMMA DistinctStep ==
  ASSUME NEW t \in Threads, Good(t)
  PROVE  Distinct'
<1> SUFFICES ASSUME NEW v \in Threads, NEW u \in Threads, NEW jj \in 0 .. cur' - 1,
                    NEW x \in Places(jj)', PendingAt(v, jj, x)', PendingAt(u, jj, x)'
             PROVE  v = u
  BY DEF Distinct
<1>0. /\ InOrder /\ Typed /\ Deep /\ Distinct /\ start \in Nat /\ cur \in Nat /\ start < cur
      /\ cur <= Len(SubTables) /\ Len(SubTables) \in Nat /\ cur' \in Nat
  BY WindowStep DEF Good, Deep
<1>1. CASE jj \in 0 .. cur - 1
  <2>1. jj \in 0 .. Len(SubTables) - 1
    BY <1>0, <1>1
  <2>2. Places(jj)' = Places(jj)
    BY <2>1, AtStep
  <2>3. x \in Places(jj)
    BY <2>2
  <2>4. ASSUME NEW w \in Threads, PendingAt(w, jj, x)
        PROVE  jj = start /\ At(jj, x).bool = 1
    <3>1. IsPending(w) /\ Marker(w).j = jj
          /\ Bucket(Marker(w).val, Marker(w).i, SubTables[jj + 1]) = x
      BY <2>4 DEF PendingAt
    <3> QED
      BY <1>0, <3>1, PendingTyped
  <2>5. Marks(t) /\ jj = frame[t].j /\ x = s(t) => At(jj, x).bool = 0
    BY MarksWhere
  <2>6. ASSUME NEW w \in Threads
        PROVE  PendingAt(w, jj, x)' <=>
                 \/ PendingAt(w, jj, x) /\ ~(w = t /\ CountCopy(t))
                 \/ w = t /\ Marks(t) /\ jj = frame[t].j /\ x = s(t)
    BY <2>1, PendingAtStep
  <2>7. PendingAt(v, jj, x) /\ PendingAt(u, jj, x) => v = u
    BY <1>0, <1>1, <2>3 DEF Distinct
  <2> QED
    BY <2>4, <2>5, <2>6, <2>7
<1>2. CASE jj \notin 0 .. cur - 1
  <2>1. start' = start
    BY <1>0, <1>2, StartStep
  <2>2. ASSUME NEW w \in Threads
        PROVE  ~PendingAt(w, jj, x)'
    <3>0. jj # start
      BY <1>0, <1>2
    <3> SUFFICES ASSUME IsPending(w)'
                 PROVE  Marker(w)'.j = start
      BY <3>0 DEF PendingAt
    <3>1. CASE w # t
      <4>1. IsPending(w) /\ Marker(w)' = Marker(w)
        BY <3>1, OthersStay DEF IsPending, Marker
      <4> QED
        BY <1>0, <4>1, PendingTyped
    <3>2. CASE w = t /\ SamePending(t)
      BY <1>0, <3>2, PendingTyped DEF SamePending
    <3>3. CASE w = t /\ Marks(t) /\ Marker(t)' = frame[t]
      BY <3>3, MarksWhere
    <3> QED
      BY <3>1, <3>2, <3>3, MarkerStep
  <2> QED
    BY <2>2
<1> QED
  BY <1>1, <1>2

\* A slot is copied from when its copy is counted.
LEMMA CompletedStep ==
  ASSUME NEW t \in Threads, Good(t), NEW jj \in 0 .. cur - 1
  PROVE  /\ Places(jj)' = Places(jj)
         /\ Completed(jj)' = Completed(jj) \cup
              (IF CountCopy(t) /\ jj = frame[t].j THEN {s(t)} ELSE {})
         /\ CountCopy(t) /\ jj = frame[t].j =>
              s(t) \in Places(jj) /\ s(t) \notin Completed(jj)
<1>0. /\ InOrder /\ Typed /\ Deep /\ Distinct /\ cur \in Nat
      /\ cur <= Len(SubTables) /\ Len(SubTables) \in Nat
  BY WindowStep DEF Good, Deep
<1>1. jj \in 0 .. Len(SubTables) - 1
  BY <1>0
<1>2. Places(jj)' = Places(jj)
  BY <1>1, AtStep
<1>3. ASSUME NEW x \in Places(jj), NEW u \in Threads
      PROVE  PendingAt(u, jj, x)' <=>
               \/ PendingAt(u, jj, x) /\ ~(u = t /\ CountCopy(t))
               \/ u = t /\ Marks(t) /\ jj = frame[t].j /\ x = s(t)
  BY <1>1, PendingAtStep
<1>c. ASSUME CountCopy(t)
      PROVE  /\ ~Marks(t) /\ IsPending(t) /\ Marker(t) = frame[t]
             /\ s(t) \in Places(frame[t].j) /\ At(frame[t].j, s(t)).bool = 1
             /\ PendingAt(t, frame[t].j, s(t))
             /\ \A x : PendingAt(t, jj, x) => jj = frame[t].j /\ x = s(t)
  <2>1. pc[t] = "count" /\ pc[t] \in ProbePoints
    BY <1>c DEF CountCopy, ProbePoints, CopyPoints
  <2>2. ~Marks(t) /\ IsPending(t) /\ Marker(t) = frame[t]
    BY <2>1 DEF Marks, setPtr, IsPending, Marker
  <2>3. /\ s(t) \in Places(frame[t].j) /\ At(frame[t].j, s(t)) = ProbeOf(frame[t])
        /\ s(t) = Bucket(frame[t].val, frame[t].i, SubTables[frame[t].j + 1])
    BY <1>0, <2>1, ProbedIs
  <2>4. ProbeOf(frame[t]).bool = 1
    BY <2>1, ThreadIs DEF FrameAt
  <2>5. PendingAt(t, frame[t].j, s(t))
    BY <2>2, <2>3 DEF PendingAt
  <2>6. \A x : PendingAt(t, jj, x) => jj = frame[t].j /\ x = s(t)
    BY <2>2, <2>3 DEF PendingAt
  <2> QED
    BY <2>2, <2>3, <2>4, <2>5, <2>6
<1>4. ASSUME NEW x \in Places(jj)
      PROVE  x \in Completed(jj)' <=>
               x \in Completed(jj) \/ (CountCopy(t) /\ jj = frame[t].j /\ x = s(t))
  <2>0. x \in Completed(jj)' <=> At(jj, x)'.bool = 1 /\ \A u \in Threads : ~PendingAt(u, jj, x)'
    BY <1>2 DEF Completed
  <2>1. CASE Marks(t) /\ jj = frame[t].j /\ x = s(t)
    <3>1. PendingAt(t, jj, x)' /\ ~CountCopy(t)
      BY <1>3, <1>c, <2>1
    <3>2. At(jj, x).bool = 0
      BY <2>1, MarksWhere
    <3> QED
      BY <2>0, <3>1, <3>2 DEF Completed
  <2>2. CASE CountCopy(t) /\ jj = frame[t].j /\ x = s(t)
    <3>1. PendingAt(t, jj, x) /\ At(jj, x).bool = 1 /\ ~Marks(t)
      BY <1>c, <2>2
    <3>2. At(jj, x)'.bool = 1
      BY <1>1, <3>1, AtStep
    <3>3. \A u \in Threads : ~PendingAt(u, jj, x)'
      BY <1>0, <1>3, <2>2, <3>1 DEF Distinct
    <3> QED
      BY <2>0, <2>2, <3>2, <3>3
  <2>3. CASE ~(Marks(t) /\ jj = frame[t].j /\ x = s(t))
             /\ ~(CountCopy(t) /\ jj = frame[t].j /\ x = s(t))
    <3>1. At(jj, x)'.bool = 1 <=> At(jj, x).bool = 1
      <4>1. At(jj, x)' = At(jj, x)
            \/ (At(jj, x) = Null /\ At(jj, x)' = [ent |-> frame[t].ent, bool |-> 0])
        BY <1>1, <2>3, AtStep
      <4> QED
        BY <4>1 DEF Null
    <3>2. \A u \in Threads : PendingAt(u, jj, x)' <=> PendingAt(u, jj, x)
      BY <1>3, <1>c, <2>3
    <3> QED
      BY <2>0, <2>3, <3>1, <3>2 DEF Completed
  <2> QED
    BY <2>1, <2>2, <2>3
<1>5. CountCopy(t) /\ jj = frame[t].j => s(t) \in Places(jj) /\ s(t) \notin Completed(jj)
  BY <1>c DEF Completed
<1>6. Completed(jj)' \subseteq Places(jj) /\ Completed(jj) \subseteq Places(jj)
  BY <1>2 DEF Completed
<1>7. Completed(jj)' = Completed(jj) \cup (IF CountCopy(t) /\ jj = frame[t].j THEN {s(t)} ELSE {})
  BY <1>4, <1>5, <1>6
<1> QED
  BY <1>2, <1>5, <1>7

\* The copies counted by each of the threads, of which one counts one more.
LEMMA TallyMore ==
  ASSUME NEW c, NEW d, \A u \in Threads : c[u] \in Nat, NEW t \in Threads,
         \A u \in Threads : d[u] = IF u = t THEN c[u] + 1 ELSE c[u],
         NEW S, S = UNION {{u} \X (1 .. c[u]) : u \in Threads},
         NEW T, T = UNION {{u} \X (1 .. d[u]) : u \in Threads}
  PROVE  \E x : x \notin S /\ T = S \cup {x}
<1>1. <<t, c[t] + 1>> \notin S
  OBVIOUS
<1>2. \A u \in Threads :
        d[u] \in Nat /\ \A n \in 1 .. d[u] : n \in 1 .. c[u] \/ (u = t /\ n = c[t] + 1)
  OBVIOUS
<1>3. \A u \in Threads : \A n \in 1 .. c[u] : n \in 1 .. d[u]
  OBVIOUS
<1>4. c[t] + 1 \in 1 .. d[t]
  OBVIOUS
<1>5. ASSUME NEW x \in T
      PROVE  x \in S \cup {<<t, c[t] + 1>>}
  <2>1. PICK u \in Threads : x \in {u} \X (1 .. d[u])
    OBVIOUS
  <2>2. PICK n \in 1 .. d[u] : x = <<u, n>>
    BY <2>1
  <2> QED
    BY <1>2, <2>2
<1>6. ASSUME NEW x \in S
      PROVE  x \in T
  <2>1. PICK u \in Threads : x \in {u} \X (1 .. c[u])
    OBVIOUS
  <2>2. PICK n \in 1 .. c[u] : x = <<u, n>>
    BY <2>1
  <2> QED
    BY <1>3, <2>2
<1>7. <<t, c[t] + 1>> \in T
  BY <1>4
<1> QED
  BY <1>1, <1>5, <1>6, <1>7

\* The subtables in use are in their places after a step.
LEMMA OrderStep ==
  ASSUME NEW t \in Threads, Good(t)
  PROVE  InOrder' /\ start' < cur' /\ cur' <= Len(SubTables')
<1>0. /\ start \in Nat /\ cur \in Nat /\ start' \in Nat /\ cur' \in Nat
      /\ start < cur /\ cur <= Len(SubTables) /\ Len(SubTables) \in Nat
      /\ cur <= cur' /\ Len(SubTables') \in Nat
  BY WindowStep
<1>1. start' < cur'
  <2>1. start' = start \/ (start' = start + 1 /\ start + 1 < cur)
    BY StartStep
  <2> QED
    BY <1>0, <2>1
<1>2. cur' <= Len(SubTables')
  <2>a. PICK a \in Nat : a = start'
    BY <1>0
  <2>b. PICK b \in Nat : b = cur'
    BY <1>0
  <2>0. a < b
    BY <1>1, <2>a, <2>b
  <2>1. PICK n \in Nat : n = b - 1
    BY <2>0
  <2>c. n \in a .. b - 1
    BY <2>0, <2>1
  <2>2. n \in start' .. cur' - 1
    BY <2>a, <2>b, <2>c
  <2>3. TableArray'[IndexOf(n)] = n + 1
    BY <2>2, WindowStep DEF InLine
  <2>4. IndexOf(n) \in 0 .. MaxTables - 1
    BY ArrayBounds
  <2>5. TableArray'[IndexOf(n)] \in {None} \cup DOMAIN SubTables'
    BY <2>4 DEF Good, GlobalsOf
  <2>6. n + 1 \in DOMAIN SubTables'
    BY <2>3, <2>5 DEF None
  <2>7. DOMAIN SubTables' = 1 .. Len(SubTables')
    BY DEF Good, TablesOf
  <2> QED
    <3>1. n + 1 = b
      BY <2>1
    <3>2. b \in 1 .. Len(SubTables')
      BY <2>6, <2>7, <3>1
    <3> QED
      BY <1>0, <2>b, <3>2
<1>3. ASSUME NEW jj \in cur' .. Len(SubTables') - 1
      PROVE  /\ \A x \in Places(jj)' : At(jj, x)' = Null
             /\ \A u \in Threads : SubTables'[jj + 1].threadCopy[u] = 0
  <2>1. jj \in cur .. Len(SubTables') - 1
    BY <1>0
  <2> QED
    BY <2>1, NewEmpty
<1> QED
  BY <1>1, <1>2, <1>3, WindowStep DEF InOrder

\* The tally after a step: a copy that is counted is a copy that is complete.
LEMMA TallyStep ==
  ASSUME NEW t \in Threads, Good(t), NEW jj \in 0 .. cur' - 1
  PROVE  IsFiniteSet(Tally(jj))' /\ Cardinality(Tally(jj))' <= Cardinality(Completed(jj))'
<1>0. /\ InOrder /\ Typed /\ Deep /\ Copied /\ cur \in Nat /\ cur' \in Nat
      /\ cur <= Len(SubTables) /\ Len(SubTables) \in Nat /\ Len(SubTables') \in Nat
      /\ cur' <= Len(SubTables')
  BY WindowStep, OrderStep DEF Good, Deep
<1>1. CASE jj \notin 0 .. cur - 1
  <2>2. jj \in cur .. Len(SubTables') - 1
    <3>a. PICK a \in Nat : a = cur'
      BY <1>0
    <3>b. PICK b \in Nat : b = Len(SubTables')
      BY <1>0
    <3>1. a <= b /\ jj \in 0 .. a - 1
      BY <1>0, <3>a, <3>b
    <3>2. jj \in cur .. b - 1
      BY <1>0, <1>1, <3>1
    <3> QED
      BY <3>2, <3>b
  <2>3. /\ \A x \in Places(jj)' : At(jj, x)' = Null
        /\ \A u \in Threads : SubTables'[jj + 1].threadCopy[u] = 0
    BY <2>2, NewEmpty
  <2>4. \A u \in Threads : {u} \X (1 .. 0) = {}
    OBVIOUS
  <2>5. Tally(jj)' = {}
    BY <2>3, <2>4 DEF Tally
  <2>6. Completed(jj)' = {}
    BY <2>3 DEF Completed, Null
  <2> QED
    BY <2>5, <2>6, FS_EmptySet
<1>2. CASE jj \in 0 .. cur - 1
  <2>j. jj \in 0 .. Len(SubTables) - 1
    BY <1>0, <1>2
  <2>0. /\ IsFiniteSet(Tally(jj)) /\ Cardinality(Tally(jj)) <= Cardinality(Completed(jj))
        /\ Cardinality(Tally(jj)) \in Nat
    BY <1>0, <1>2, FS_CardinalityType DEF Copied
  <2>c. IsFiniteSet(Completed(jj)) /\ Cardinality(Completed(jj)) \in Nat
    BY <1>0, <2>j, SlotsFinite
  <2>t. \A u \in Threads : SubTables[jj + 1].threadCopy[u] \in Nat
    <3>1. SubTables[jj + 1] \in SubTableSet
      BY <1>0, <2>j, Window
    <3> QED
      BY <3>1, TableTyped
  <2>1. CASE CountCopy(t) /\ jj = frame[t].j
    <3>2. Completed(jj)' = Completed(jj) \cup {s(t)} /\ s(t) \notin Completed(jj)
      BY <1>2, <2>1, CompletedStep
    <3>3. \E x : x \notin Tally(jj) /\ Tally(jj)' = Tally(jj) \cup {x}
      <4>1. PICK c : c = [u \in Threads |-> SubTables[jj + 1].threadCopy[u]]
        OBVIOUS
      <4>2. PICK d : d = [u \in Threads |-> SubTables'[jj + 1].threadCopy[u]]
        OBVIOUS
      <4>3. \A u \in Threads : SubTables'[jj + 1].threadCopy[u] = SubTables[jj + 1].threadCopy[u] +
              (IF CountCopy(t) /\ u = t /\ jj = frame[t].j THEN 1 ELSE 0)
        BY <2>j, AtStep
      <4>4. \A u \in Threads : c[u] \in Nat /\ d[u] = IF u = t THEN c[u] + 1 ELSE c[u]
        BY <2>1, <2>t, <4>1, <4>2, <4>3
      <4>5. Tally(jj) = UNION {{u} \X (1 .. c[u]) : u \in Threads}
        BY <4>1 DEF Tally
      <4>6. Tally(jj)' = UNION {{u} \X (1 .. d[u]) : u \in Threads}
        BY <4>2 DEF Tally
      <4> QED
        BY <4>4, <4>5, <4>6, TallyMore
    <3>4. PICK x : x \notin Tally(jj) /\ Tally(jj)' = Tally(jj) \cup {x}
      BY <3>3
    <3>5. /\ IsFiniteSet(Tally(jj) \cup {x})
          /\ Cardinality(Tally(jj) \cup {x}) = Cardinality(Tally(jj)) + 1
      BY <2>0, <3>4, FS_AddElement
    <3>6. Cardinality(Completed(jj) \cup {s(t)}) = Cardinality(Completed(jj)) + 1
      BY <2>c, <3>2, FS_AddElement
    <3> QED
      BY <2>0, <2>c, <3>2, <3>4, <3>5, <3>6
  <2>2. CASE ~(CountCopy(t) /\ jj = frame[t].j)
    <3>1. Completed(jj)' = Completed(jj)
      BY <1>2, <2>2, CompletedStep
    <3>2. \A u \in Threads : SubTables'[jj + 1].threadCopy[u] = SubTables[jj + 1].threadCopy[u] +
              (IF CountCopy(t) /\ u = t /\ jj = frame[t].j THEN 1 ELSE 0)
      BY <2>j, AtStep
    <3>3. \A u \in Threads : SubTables'[jj + 1].threadCopy[u] = SubTables[jj + 1].threadCopy[u]
      BY <2>2, <2>t, <3>2
    <3>4. Tally(jj)' = Tally(jj)
      BY <3>3 DEF Tally
    <3> QED
      BY <2>0, <3>1, <3>4
  <2> QED
    BY <2>1, <2>2
<1> QED
  BY <1>1, <1>2
-----------------------------------------------------------------------------
(* The entries                                                             *)

\* A step puts at most the entry of a claim among those present, and takes none away.
LEMMA PresentStep ==
  ASSUME NEW t \in Threads, Good(t), NEW e
  PROVE  /\ e \in Present => e \in Present'
         /\ e \in Present' => e \in Present \/ (Claims(t) /\ e = frame[t].ent)
<1>0. /\ Typed /\ InOrder /\ TablesOf(t) /\ Len(SubTables) \in Nat /\ Len(SubTables') \in Nat
      /\ cur \in Nat /\ cur <= Len(SubTables)
      /\ DOMAIN SubTables = 1 .. Len(SubTables) /\ DOMAIN SubTables' = 1 .. Len(SubTables')
      /\ DOMAIN SubTables \subseteq DOMAIN SubTables'
  BY WindowStep, SubTablesTyped DEF Good, TablesOf, Typed
<1>1. e \in Present <=> e # NULL /\ \E n \in DOMAIN SubTables :
        \E x \in Slots(SubTables[n]) : e = SubTables[n].InnerTable[x].ent
  <2> DEFINE E(n) == {SubTables[n].InnerTable[x].ent : x \in DOMAIN SubTables[n].InnerTable}
             all == UNION {E(n) : n \in DOMAIN SubTables}
  <2>1. Present = all \ {NULL}
    BY Zenon DEF Present, Slots
  <2>2. \A n : e \in E(n) <=> \E x \in Slots(SubTables[n]) : e = SubTables[n].InnerTable[x].ent
    BY DEF Slots
  <2> HIDE DEF E
  <2>3. e \in all <=> \E n \in DOMAIN SubTables : e \in E(n)
    OBVIOUS
  <2> HIDE DEF all
  <2>4. e \in all \ {NULL} <=> e # NULL /\ e \in all
    OBVIOUS
  <2> QED
    BY <2>1, <2>2, <2>3, <2>4, Zenon
<1>2. e \in Present' <=> e # NULL /\ \E n \in DOMAIN SubTables' :
        \E x \in Slots(SubTables'[n]) : e = SubTables'[n].InnerTable[x].ent
  <2> DEFINE E(n) == {SubTables'[n].InnerTable[x].ent : x \in DOMAIN SubTables'[n].InnerTable}
             all == UNION {E(n) : n \in DOMAIN SubTables'}
  <2>1. Present' = all \ {NULL}
    BY Zenon DEF Present, Slots
  <2>2. \A n : e \in E(n) <=> \E x \in Slots(SubTables'[n]) : e = SubTables'[n].InnerTable[x].ent
    BY DEF Slots
  <2> HIDE DEF E
  <2>3. e \in all <=> \E n \in DOMAIN SubTables' : e \in E(n)
    OBVIOUS
  <2> HIDE DEF all
  <2>4. e \in all \ {NULL} <=> e # NULL /\ e \in all
    OBVIOUS
  <2> QED
    BY <2>1, <2>2, <2>3, <2>4, Zenon
<1>s. \A n \in DOMAIN SubTables : n - 1 \in 0 .. Len(SubTables) - 1 /\ (n - 1) + 1 = n
  BY <1>0
<1>3. ASSUME e \in Present
      PROVE  e \in Present'
  <2>1. PICK n \in DOMAIN SubTables : \E x \in Slots(SubTables[n]) :
                                        e = SubTables[n].InnerTable[x].ent
    BY <1>1, <1>3
  <2>2. PICK x \in Slots(SubTables[n]) : e = SubTables[n].InnerTable[x].ent
    BY <2>1
  <2>3. e # NULL /\ SubTables[n].InnerTable[x] # Null
    BY <1>1, <1>3, <2>2 DEF Null
  <2>4. /\ Slots(SubTables'[n]) = Slots(SubTables[n])
        /\ SubTables'[n].InnerTable[x].ent = SubTables[n].InnerTable[x].ent
    BY <1>0, <2>3, SlotsKept
  <2> QED
    BY <1>0, <1>2, <2>2, <2>3, <2>4
<1>4. ASSUME e \in Present', e \notin Present
      PROVE  Claims(t) /\ e = frame[t].ent
  <2>1. PICK n \in DOMAIN SubTables' : \E x \in Slots(SubTables'[n]) :
                                        e = SubTables'[n].InnerTable[x].ent
    BY <1>2, <1>4
  <2>2. PICK x \in Slots(SubTables'[n]) : e = SubTables'[n].InnerTable[x].ent
    BY <2>1
  <2>3. e # NULL
    BY <1>2, <1>4
  <2>4. n \in DOMAIN SubTables
    BY <1>0, <2>2, <2>3 DEF TablesOf, Null
  <2>5. PICK jj \in 0 .. Len(SubTables) - 1 : n = jj + 1
    BY <1>s, <2>4
  <2>6. Places(jj)' = Places(jj) /\ Slots(SubTables'[n]) = Places(jj)'
        /\ At(jj, x)' = SubTables'[n].InnerTable[x] /\ At(jj, x) = SubTables[n].InnerTable[x]
        /\ Slots(SubTables[n]) = Places(jj)
    BY <2>5, AtStep DEF Places, At, Slots
  <2>7. x \in Places(jj)
    BY <2>6
  <2>8. At(jj, x).ent # e
    BY <1>1, <1>4, <2>3, <2>4, <2>6, <2>7
  <2>9. \/ At(jj, x)' = At(jj, x)
        \/ Claims(t) /\ At(jj, x)' = [ent |-> frame[t].ent, bool |-> 0]
        \/ At(jj, x)' = [ent |-> At(jj, x).ent, bool |-> 1]
    BY <2>5, <2>7, AtStep
  <2> QED
    BY <2>2, <2>6, <2>8, <2>9
<1> QED
  BY <1>3, <1>4

\* A slot whose mark is not set is in a subtable in use from head->start on.
LEMMA UnmarkedWhere ==
  ASSUME Typed, Deep, NEW jj \in 0 .. cur - 1, NEW x \in Places(jj), At(jj, x).bool = 0
  PROVE  jj \in start .. cur - 1
<1>1. /\ start \in Nat /\ cur \in Nat /\ Copied
  BY Window DEF Deep
<1>2. ~(jj < start)
  <2>1. jj < start => Completed(jj) = Places(jj)
    BY <1>1 DEF Copied
  <2>2. x \notin Completed(jj)
    BY DEF Completed
  <2> QED
    BY <2>1, <2>2
<1> QED
  BY <1>1, <1>2

\* What a path finds is in a slot.
LEMMA FindsSlot ==
  ASSUME Typed, InOrder, NEW e \in Entries, NEW lo \in Nat, Finds(e, lo, 0, cur)
  PROVE  \E jj \in 0 .. cur - 1 : \E x \in Places(jj) :
           lo <= jj /\ At(jj, x) # Null /\ At(jj, x).ent = e /\ e \in Present
<1>1. PICK jj \in 0 .. cur - 1, n \in Attempts :
        /\ ~Before(jj, n, lo, 0)
        /\ Probe(val[e], n, jj).ent = e
  BY DEF Finds
<1>2. val[e] \in Keys /\ e # NULL
  BY HashtableSmartLazyAssumption DEF Keys
<1>3. jj \in 0 .. Len(SubTables) - 1 /\ lo <= jj
  BY <1>1, Window DEF Before
<1>4. PICK x \in Places(jj) : Probe(val[e], n, jj) = At(jj, x)
  BY <1>2, <1>3, ProbeTyped
<1>5. At(jj, x) # Null /\ e \in Present
  BY <1>1, <1>2, <1>3, <1>4, AtTyped DEF Null
<1> QED
  BY <1>1, <1>3, <1>4, <1>5

\* A claim: of a new entry, whose key is nowhere, or of one that is found from head->start
\* on, above it.
LEMMA ClaimIs ==
  ASSUME NEW t \in Threads, Good(t), Claims(t)
  PROVE  /\ frame[t].j \in start .. cur - 1 /\ frame[t].j \in 0 .. Len(SubTables) - 1
         /\ frame[t].j \in Nat /\ frame[t].i \in Attempts /\ frame[t].val \in Keys
         /\ s(t) \in Places(frame[t].j) /\ At(frame[t].j, s(t)) = Null
         /\ s(t) = Bucket(frame[t].val, frame[t].i, SubTables[frame[t].j + 1])
         /\ ProbeOf(frame[t]) = Null
         /\ frame[t].ent \in Entries /\ val[frame[t].ent] = frame[t].val
         /\ UNCHANGED <<start, cur, isDeleted>>
         /\ PassedTo(frame[t].val, Origin(t), frame[t].j, frame[t].i)
         /\ \/ /\ stack[t] = <<>> /\ Origin(t) = start /\ frame[t].ent \notin Present
               /\ isDeleted[frame[t].ent] = 0
               /\ \A e \in Entries : val[e] = frame[t].val => ~Finds(e, start, 0, cur)
            \/ /\ stack[t] # <<>> /\ Origin(t) = start + 1 /\ start < frame[t].j
               /\ frame[t].ent \in Present /\ Finds(frame[t].ent, start, 0, cur)
<1>1. /\ pc[t] = "claim" /\ Probed(t) = Null /\ UNCHANGED <<start, cur, isDeleted>>
      /\ Return(t, 1)
  BY DEF Claims, ClaimSlot
<1>2. pc[t] \in InsertPoints /\ pc[t] \in ProbePoints
  BY <1>1 DEF InsertPoints, ProbePoints
<1>3. /\ Typed /\ Deep /\ InOrder /\ Found /\ CallInv(t) /\ StackInv(t) /\ Fresh
      /\ start \in Nat /\ cur \in Nat /\ start < cur /\ cur <= Len(SubTables)
      /\ Len(SubTables) \in Nat
  BY WindowStep, ThreadIs DEF Good, Deep
<1>4. /\ frame[t].j \in 0 .. Len(SubTables) - 1 /\ frame[t].j < cur /\ frame[t].j \in Nat
      /\ frame[t].i \in Attempts /\ frame[t].val \in Keys
      /\ s(t) \in Places(frame[t].j)
      /\ s(t) = Bucket(frame[t].val, frame[t].i, SubTables[frame[t].j + 1])
      /\ At(frame[t].j, s(t)) = Null /\ ProbeOf(frame[t]) = Null
  BY <1>1, <1>2, <1>3, ProbedIs
<1>5. frame[t].j \in start .. cur - 1
  <2>1. frame[t].j \in 0 .. cur - 1 /\ At(frame[t].j, s(t)).bool = 0
    BY <1>3, <1>4 DEF Null
  <2> QED
    BY <1>3, <1>4, <2>1, UnmarkedWhere
<1>6. /\ frame[t].ent \in Entries /\ val[frame[t].ent] = frame[t].val
      /\ PassedTo(frame[t].val, Origin(t), frame[t].j, frame[t].i)
  BY <1>2, ThreadIs DEF FrameAt, PassedAt, ThreadTyped
<1>7. CASE stack[t] = <<>>
  <2>1. Origin(t) = start /\ Own(t) = frame[t].ent /\ op[t] = "insert"
    BY <1>2, <1>3, <1>7 DEF Origin, Own, CallInv
  <2>2. frame[t].ent \notin Present /\ isDeleted[frame[t].ent] = 0
    BY <1>3, <2>1 DEF Fresh
  <2>3. ASSUME NEW e \in Entries, val[e] = frame[t].val, Finds(e, start, 0, cur)
        PROVE  FALSE
    <3>1. Probe(val[e], frame[t].i, frame[t].j) # Null
      BY <1>3, <1>4, <1>5, <1>6, <2>1, <2>3, PassedNull
    <3> QED
      BY <1>4, <2>3, <3>1 DEF ProbeOf
  <2> QED
    BY <1>1, <1>4, <1>5, <1>6, <1>7, <2>1, <2>2, <2>3
<1>8. CASE stack[t] # <<>>
  <2>1. PICK g \in CallerFrames :
          /\ g = Head(stack[t])
          /\ \/ CopyCaller(t, g)
             \/ stack[t] = <<g>> /\ AgainCaller(t, g, frame[t])
    BY <1>3, <1>8, StackIs
  <2>2. /\ g.val \in Keys /\ g.i \in Attempts /\ g.j \in Nat /\ g.j < cur
        /\ g.j \in 0 .. Len(SubTables) - 1
    BY <1>3, CallerTyped
  <2>3. ProbeOf(g) = [ent |-> frame[t].ent, bool |-> 1]
    BY <2>1 DEF CopyCaller, AgainCaller
  <2>4. PICK x \in Places(g.j) : ProbeOf(g) = At(g.j, x)
    BY <1>3, <2>2, ProbeTyped DEF ProbeOf
  <2>5. At(g.j, x) # Null /\ At(g.j, x).ent = frame[t].ent /\ frame[t].ent \in Present
    BY <1>3, <2>2, <2>3, <2>4, AtTyped DEF Null
  <2>6. CASE CopyCaller(t, g)
    <3>1. g.j = start /\ g.exStart = start /\ start < frame[t].j
      BY <2>6 DEF CopyCaller
    <3>2. Finds(frame[t].ent, start, 0, cur)
      BY <1>3, <2>2, <2>4, <2>5, <3>1 DEF Found
    <3>3. Origin(t) = start + 1
      BY <1>8, <2>1, <3>1 DEF Origin
    <3> QED
      BY <1>1, <1>4, <1>5, <1>6, <1>8, <2>5, <3>1, <3>2, <3>3
  <2>7. CASE stack[t] = <<g>> /\ AgainCaller(t, g, frame[t])
    <3>1. g.back = "dComp" /\ g.exStart < frame[t].j
      BY <2>7 DEF AgainCaller
    <3>2. pc'[t] = "dComp"
      BY <1>1, <1>3, <1>8, <2>1, <3>1, ReturnEffect
    <3>3. isDeleted[frame[t].ent] # 1
      BY <1>1, <3>2, WindowStep DEF Crosses
    <3>4. isDeleted[frame[t].ent] = 0
      BY <1>3, <1>6, <3>3 DEF Typed, TablesTyped
    <3>5. Finds(frame[t].ent, start, 0, cur)
      BY <1>3, <2>5, <3>4 DEF Found
    <3>6. g.exStart = start
      <4> SUFFICES ASSUME g.exStart # start
                   PROVE  FALSE
        OBVIOUS
      <4>1. Origin(t) = start
        BY <1>8, <2>1 DEF Origin
      <4>2. Probe(val[frame[t].ent], frame[t].i, frame[t].j) # Null
        BY <1>3, <1>4, <1>5, <1>6, <3>5, <4>1, PassedNull
      <4> QED
        BY <1>4, <1>6, <4>2 DEF ProbeOf
    <3>7. Origin(t) = start + 1
      BY <1>8, <2>1, <3>6 DEF Origin
    <3> QED
      BY <1>1, <1>4, <1>5, <1>6, <1>8, <2>5, <3>1, <3>5, <3>6, <3>7
  <2> QED
    BY <2>1, <2>6, <2>7
<1> QED
  BY <1>7, <1>8

\* No other entry of its key is where a claim is made, nor another slot in its subtable.
LEMMA ClaimAlone ==
  ASSUME NEW t \in Threads, Good(t), Claims(t), NEW jj \in start .. cur - 1,
         NEW x \in Places(jj), At(jj, x) # Null, val[At(jj, x).ent] = frame[t].val
  PROVE  stack[t] # <<>> /\ At(jj, x).ent = frame[t].ent /\ jj # frame[t].j
<1>1. /\ Typed /\ Deep /\ InOrder /\ Found /\ OnPath /\ SameEntry /\ start \in Nat /\ cur \in Nat
      /\ start < cur /\ cur <= Len(SubTables) /\ Len(SubTables) \in Nat
  BY WindowStep, ThreadIs DEF Good, Deep
<1>2. jj \in 0 .. Len(SubTables) - 1 /\ jj \in Nat
  BY <1>1
<1>3. At(jj, x).ent \in Entries /\ Finds(At(jj, x).ent, start, 0, cur)
  BY <1>1, <1>2, AtTyped DEF Found
<1>4. /\ stack[t] # <<>> /\ Origin(t) = start + 1 /\ start < frame[t].j
      /\ Finds(frame[t].ent, start, 0, cur) /\ frame[t].ent \in Entries
      /\ val[frame[t].ent] = frame[t].val
  BY <1>3, ClaimIs
<1>5. At(jj, x).ent = frame[t].ent
  <2>1. PICK j1 \in 0 .. cur - 1 : \E y \in Places(j1) :
          start <= j1 /\ At(j1, y) # Null /\ At(j1, y).ent = frame[t].ent
    BY <1>1, <1>4, FindsSlot
  <2>2. PICK y \in Places(j1) :
          start <= j1 /\ At(j1, y) # Null /\ At(j1, y).ent = frame[t].ent
    BY <2>1
  <2>3. j1 \in start .. cur - 1
    BY <1>1, <2>2
  <2> QED
    BY <1>1, <1>4, <2>2, <2>3 DEF SameEntry
<1>6. jj # frame[t].j
  <2> SUFFICES ASSUME jj = frame[t].j
               PROVE  FALSE
    OBVIOUS
  <2>0. PICK k \in Keys, m \in Attempts : k = frame[t].val /\ m = frame[t].i
    BY ClaimIs
  <2>1. /\ PassedTo(k, start + 1, jj, m) /\ Probe(k, m, jj) = Null
        /\ start < jj
    BY <1>4, <2>0, ClaimIs DEF ProbeOf
  <2>2. PICK n \in Attempts :
          /\ Bucket(k, n, SubTables[jj + 1]) = x
          /\ Clear(k, start + 1, 0, jj, n)
    <3>1. jj # start
      BY <1>1, <2>1
    <3> QED
      BY <1>1, <2>0, <3>1 DEF OnPath, PathTo
  <2>3. Probe(k, n, jj) = At(jj, x) /\ HasKey(At(jj, x), k)
    BY <1>1, <1>2, <2>0, <2>2, ProbeTyped DEF HasKey
  <2>4. n \in Nat /\ m \in Nat /\ n # m
    BY <2>1, <2>3 DEF Attempts, HasKey
  <2>5. CASE n < m
    <3>1. Before(jj, n, jj, m) /\ jj \in 0 .. jj /\ start + 1 <= jj
      BY <1>1, <1>2, <2>1, <2>5 DEF Before
    <3>2. Other(Probe(k, n, jj), k)
      BY <2>1, <3>1 DEF PassedTo
    <3> QED
      BY <2>3, <3>2 DEF Other
  <2>6. CASE m < n
    <3>1. Before(jj, m, jj, n) /\ jj \in 0 .. jj /\ ~Before(jj, m, start + 1, 0)
      BY <1>1, <1>2, <2>1, <2>4, <2>6 DEF Before
    <3> QED
      BY <2>1, <2>2, <3>1 DEF Clear
  <2> QED
    BY <2>4, <2>5, <2>6
<1> QED
  BY <1>4, <1>5, <1>6

\* The slots in use after a step.
LEMMA SlotStep ==
  ASSUME NEW t \in Threads, Good(t), NEW jj \in start' .. cur' - 1, NEW x \in Places(jj)',
         At(jj, x)' # Null
  PROVE  /\ jj \in start .. cur - 1 /\ jj \in 0 .. Len(SubTables) - 1 /\ jj \in Nat
         /\ x \in Places(jj)
         /\ \/ At(jj, x) # Null /\ At(jj, x)'.ent = At(jj, x).ent
            \/ /\ Claims(t) /\ jj = frame[t].j /\ x = s(t) /\ At(jj, x) = Null
               /\ At(jj, x)'.ent = frame[t].ent
<1>1. /\ start \in Nat /\ cur \in Nat /\ start' \in Nat /\ cur' \in Nat /\ start <= start'
      /\ start < cur /\ cur <= Len(SubTables) /\ Len(SubTables) \in Nat
      /\ Len(SubTables') \in Nat /\ cur' <= Len(SubTables')
  BY WindowStep, OrderStep
<1>2. jj \in Nat /\ start <= jj /\ jj < cur'
  <2>a. PICK a \in Nat : a = start'
    BY <1>1
  <2>b. PICK b \in Nat : b = cur'
    BY <1>1
  <2>1. jj \in a .. b - 1 /\ start <= a
    BY <1>1, <2>a, <2>b
  <2>2. jj \in Nat /\ start <= jj /\ jj < b
    BY <1>1, <2>1
  <2> QED
    BY <2>2, <2>b
<1>3. jj < cur
  <2> SUFFICES ASSUME ~(jj < cur)
               PROVE  FALSE
    OBVIOUS
  <2>1. jj \in cur .. Len(SubTables') - 1
    BY <1>1, <1>2
  <2> QED
    BY <2>1, NewEmpty
<1>4. jj \in start .. cur - 1 /\ jj \in 0 .. Len(SubTables) - 1
  BY <1>1, <1>2, <1>3
<1>5. x \in Places(jj)
  BY <1>4, AtStep
<1>6. /\ At(jj, x) # Null => At(jj, x)' # Null /\ At(jj, x)'.ent = At(jj, x).ent
      /\ \/ At(jj, x)' = At(jj, x)
         \/ /\ Claims(t) /\ jj = frame[t].j /\ x = s(t) /\ At(jj, x) = Null
            /\ At(jj, x)' = [ent |-> frame[t].ent, bool |-> 0]
         \/ /\ Marks(t) /\ jj = frame[t].j /\ x = s(t)
            /\ At(jj, x)' = [ent |-> At(jj, x).ent, bool |-> 1]
  BY <1>4, <1>5, AtStep
<1>7. Marks(t) /\ jj = frame[t].j /\ x = s(t) => At(jj, x) # Null
  <2> SUFFICES ASSUME Marks(t), jj = frame[t].j, x = s(t)
               PROVE  At(jj, x) # Null
    OBVIOUS
  <2>1. pc[t] = "setPtr"
    BY DEF Marks, setPtr
  <2>2. Other(ProbeOf(frame[t]), frame[t].val) /\ Typed /\ InOrder
    BY <2>1, ThreadIs DEF FrameAt, CopyPoints
  <2>3. ProbeOf(frame[t]) = At(frame[t].j, s(t))
    BY <2>1, <2>2, ProbedIs DEF ProbePoints, CopyPoints
  <2> QED
    BY <2>2, <2>3 DEF Other
<1> QED
  BY <1>2, <1>4, <1>5, <1>6, <1>7

\* A key stays once in a subtable.
LEMMA OnceStep ==
  ASSUME NEW t \in Threads, Good(t)
  PROVE  OncePerSubtable' /\ SameEntry'
<1>0. OncePerSubtable /\ SameEntry
  BY DEF Good, Deep
<1>1. ASSUME NEW j1 \in start' .. cur' - 1, NEW j2 \in start' .. cur' - 1,
             NEW x \in Places(j1)', NEW y \in Places(j2)',
             At(j1, x)' # Null, At(j2, y)' # Null, val[At(j1, x)'.ent] = val[At(j2, y)'.ent]
      PROVE  At(j1, x)'.ent = At(j2, y)'.ent /\ (j1 = j2 => x = y)
  <2>1. /\ j1 \in start .. cur - 1 /\ x \in Places(j1)
        /\ \/ At(j1, x) # Null /\ At(j1, x)'.ent = At(j1, x).ent
           \/ /\ Claims(t) /\ j1 = frame[t].j /\ x = s(t) /\ At(j1, x) = Null
              /\ At(j1, x)'.ent = frame[t].ent
    BY <1>1, SlotStep
  <2>2. /\ j2 \in start .. cur - 1 /\ y \in Places(j2)
        /\ \/ At(j2, y) # Null /\ At(j2, y)'.ent = At(j2, y).ent
           \/ /\ Claims(t) /\ j2 = frame[t].j /\ y = s(t) /\ At(j2, y) = Null
              /\ At(j2, y)'.ent = frame[t].ent
    BY <1>1, SlotStep
  <2>3. Claims(t) => val[frame[t].ent] = frame[t].val
    BY ClaimIs
  <2>4. CASE At(j1, x) # Null /\ At(j2, y) # Null
    <3>1. val[At(j1, x).ent] = val[At(j2, y).ent]
      BY <1>1, <2>1, <2>2, <2>4
    <3>2. At(j1, x).ent = At(j2, y).ent
      BY <1>0, <2>1, <2>2, <2>4, <3>1 DEF SameEntry
    <3>3. j1 = j2 => x = y
      BY <1>0, <2>1, <2>2, <2>4, <3>1 DEF OncePerSubtable
    <3> QED
      BY <2>1, <2>2, <2>4, <3>2, <3>3
  <2>5. CASE At(j1, x) = Null /\ At(j2, y) # Null
    <3>1. Claims(t) /\ val[At(j2, y).ent] = frame[t].val
      BY <1>1, <2>1, <2>2, <2>3, <2>5
    <3>2. At(j2, y).ent = frame[t].ent /\ j2 # frame[t].j
      BY <2>2, <2>5, <3>1, ClaimAlone
    <3> QED
      BY <2>1, <2>2, <2>5, <3>2
  <2>6. CASE At(j1, x) # Null /\ At(j2, y) = Null
    <3>1. Claims(t) /\ val[At(j1, x).ent] = frame[t].val
      BY <1>1, <2>1, <2>2, <2>3, <2>6
    <3>2. At(j1, x).ent = frame[t].ent /\ j1 # frame[t].j
      BY <2>1, <2>6, <3>1, ClaimAlone
    <3> QED
      BY <2>1, <2>2, <2>6, <3>2
  <2>7. CASE At(j1, x) = Null /\ At(j2, y) = Null
    BY <2>1, <2>2, <2>7
  <2> QED
    BY <2>4, <2>5, <2>6, <2>7
<1>2. OncePerSubtable'
  BY <1>1 DEF OncePerSubtable
<1>3. SameEntry'
  BY <1>1 DEF SameEntry
<1> QED
  BY <1>2, <1>3

\* A path that is clear is clear from further up.
LEMMA ClearMore ==
  ASSUME NEW k, NEW lo \in Nat, NEW lo2 \in Nat, lo <= lo2, NEW jj \in Nat, NEW n \in Attempts,
         Clear(k, lo, 0, jj, n) \/ PassedTo(k, lo, jj, n)
  PROVE  Clear(k, lo2, 0, jj, n)
<1>1. \A j2 \in 0 .. jj, m \in Attempts :
        ~Before(j2, m, lo2, 0) => ~Before(j2, m, lo, 0) /\ lo <= j2
  BY DEF Before, Attempts
<1> QED
  BY <1>1 DEF Clear, PassedTo, Other

\* Slots stay on the paths of their keys.
LEMMA OnPathStep ==
  ASSUME NEW t \in Threads, Good(t)
  PROVE  OnPath'
<1>0. /\ OnPath /\ start \in Nat /\ cur \in Nat /\ start' \in Nat /\ Typed /\ InOrder
      /\ 0 \in Attempts
  BY WindowStep, HashtableSmartLazyAssumption DEF Good, Deep, Attempts
<1> SUFFICES ASSUME NEW jj \in start' .. cur' - 1, NEW x \in Places(jj)', At(jj, x)' # Null
             PROVE  \E n \in Attempts :
                      /\ Bucket(val[At(jj, x).ent], n, SubTables[jj + 1])' = x
                      /\ PathTo(val[At(jj, x).ent], jj, n)'
  BY DEF OnPath
<1>1. /\ jj \in start .. cur - 1 /\ jj \in 0 .. Len(SubTables) - 1 /\ jj \in Nat
      /\ x \in Places(jj)
      /\ \/ At(jj, x) # Null /\ At(jj, x)'.ent = At(jj, x).ent
         \/ /\ Claims(t) /\ jj = frame[t].j /\ x = s(t) /\ At(jj, x) = Null
            /\ At(jj, x)'.ent = frame[t].ent
  BY SlotStep
<1>2. PICK st \in Nat : st = start'
  BY <1>0
<1>3. PICK lo2 \in Nat : lo2 = IF jj = st THEN st ELSE st + 1
  OBVIOUS
<1>4. (IF jj = start THEN start ELSE start + 1) <= lo2
  <2>1. st = start \/ st = start + 1
    BY <1>2, StartStep
  <2>2. st <= jj
    BY <1>2
  <2> QED
    BY <1>0, <1>1, <1>3, <2>1, <2>2
<1>5. \E k \in Keys, n \in Attempts :
        /\ k = val[At(jj, x)'.ent] /\ Bucket(k, n, SubTables[jj + 1]) = x
        /\ Clear(k, lo2, 0, jj, n)
  <2>1. CASE At(jj, x) # Null /\ At(jj, x)'.ent = At(jj, x).ent
    <3>0. PICK k \in Keys : k = val[At(jj, x).ent]
      BY <1>0, <1>1, <2>1, AtTyped
    <3>1. PICK n \in Attempts :
            /\ Bucket(k, n, SubTables[jj + 1]) = x
            /\ Clear(k, IF jj = start THEN start ELSE start + 1, 0, jj, n)
      BY <1>0, <1>1, <2>1, <3>0 DEF OnPath, PathTo
    <3>2. PICK lo \in Nat : lo = IF jj = start THEN start ELSE start + 1
      BY <1>0
    <3>3. Clear(k, lo2, 0, jj, n)
      BY <1>1, <1>4, <3>1, <3>2, ClearMore
    <3> QED
      BY <2>1, <3>0, <3>1, <3>3
  <2>2. CASE /\ Claims(t) /\ jj = frame[t].j /\ x = s(t) /\ At(jj, x) = Null
             /\ At(jj, x)'.ent = frame[t].ent
    <3>1. PICK k \in Keys, n \in Attempts : k = frame[t].val /\ n = frame[t].i
      BY <2>2, ClaimIs
    <3>2. PICK lo \in Nat : lo = Origin(t)
      BY <1>0, <2>2, ClaimIs
    <3>3. lo <= lo2
      <4>1. lo = start \/ (lo = start + 1 /\ start < jj)
        BY <2>2, <3>2, ClaimIs
      <4> QED
        BY <1>0, <1>1, <1>4, <4>1
    <3>4. /\ val[frame[t].ent] = k /\ Bucket(k, n, SubTables[jj + 1]) = x
          /\ PassedTo(k, lo, jj, n)
      BY <2>2, <3>1, <3>2, ClaimIs
    <3>5. Clear(k, lo2, 0, jj, n)
      BY <1>1, <3>3, <3>4, ClearMore
    <3> QED
      BY <2>2, <3>4, <3>5
  <2> QED
    BY <1>1, <2>1, <2>2
<1>6. PICK k \in Keys, n \in Attempts :
        /\ k = val[At(jj, x)'.ent] /\ Bucket(k, n, SubTables[jj + 1]) = x
        /\ Clear(k, lo2, 0, jj, n)
  BY <1>5
<1>7. Bucket(k, n, SubTables[jj + 1])' = x
  BY <1>1, <1>6, ProbeStep
<1>8. Clear(k, lo2, 0, jj, n)'
  BY <1>0, <1>1, <1>6, ClearStays
<1>9. lo2 = IF jj = start' THEN start' ELSE start' + 1
  BY <1>2, <1>3
<1> QED
  BY <1>6, <1>7, <1>8, <1>9 DEF PathTo, Clear, Before

\* The entries that are present are entries.
LEMMA PresentTyped ==
  ASSUME Typed
  PROVE  Present \subseteq Entries
<1> DEFINE E(n) == {SubTables[n].InnerTable[x].ent : x \in DOMAIN SubTables[n].InnerTable}
           all == UNION {E(n) : n \in DOMAIN SubTables}
<1>1. Present = all \ {NULL}
  BY Zenon DEF Present, Slots
<1>2. ASSUME NEW n \in DOMAIN SubTables, NEW e \in E(n), e # NULL
      PROVE  e \in Entries
  <2>1. SubTables[n] \in SubTableSet
    BY SubTablesTyped DEF Typed
  <2>2. PICK x \in DOMAIN SubTables[n].InnerTable : e = SubTables[n].InnerTable[x].ent
    BY <1>2
  <2>3. SubTables[n].InnerTable[x] \in Pointers
    BY <2>1, <2>2, TableTyped DEF Slots
  <2> QED
    BY <1>2, <2>2, <2>3, PointerTyped
<1> HIDE DEF E
<1>3. \A e \in all : \E n \in DOMAIN SubTables : e \in E(n)
  OBVIOUS
<1> QED
  BY <1>1, <1>2, <1>3

\* An undelete: of an entry in a slot without a mark, on the path from head->start on.
LEMMA UndeleteIs ==
  ASSUME NEW t \in Threads, Good(t), lookup(t), Flagged(Probed(t), frame[t].val)
  PROVE  /\ pc[t] = "lookup" /\ pc'[t] = "undeleted" /\ stack[t] = <<>>
         /\ frame[t].j \in start .. cur - 1 /\ frame[t].j \in 0 .. Len(SubTables) - 1
         /\ s(t) \in Places(frame[t].j) /\ Probed(t) = At(frame[t].j, s(t))
         /\ At(frame[t].j, s(t)) # Null /\ At(frame[t].j, s(t)).bool = 0
         /\ Probed(t).ent \in Present /\ Probed(t).ent \in Entries
         /\ val[Probed(t).ent] = frame[t].val /\ UNCHANGED <<start, cur>>
         /\ isDeleted[Probed(t).ent] = 1
         /\ isDeleted' = [isDeleted EXCEPT ![Probed(t).ent] = 0]
         /\ PassedTo(frame[t].val, start, frame[t].j, frame[t].i)
         /\ Finds(Probed(t).ent, start, 0, cur)
<1>1. /\ pc[t] = "lookup" /\ UNCHANGED <<start, cur>>
      /\ Probed(t) # Null /\ val[Probed(t).ent] = frame[t].val /\ isDeleted[Probed(t).ent] = 1
      /\ isDeleted' = [isDeleted EXCEPT ![Probed(t).ent] = 0]
      /\ Goto(t, "undeleted")
  BY DEF lookup, Flagged, HasKey, Live, Other
<1>2. /\ Typed /\ Deep /\ InOrder /\ start \in Nat /\ cur \in Nat /\ cur <= Len(SubTables)
      /\ Len(SubTables) \in Nat
  BY WindowStep DEF Good
<1>3. pc'[t] = "undeleted"
  BY <1>1, <1>2, LocalsTypes DEF Goto
<1>4. stack[t] = <<>> /\ Probed(t).bool # 1
  BY <1>1, <1>3, WindowStep DEF Crosses
<1>5. /\ frame[t].j \in 0 .. Len(SubTables) - 1 /\ frame[t].j < cur /\ frame[t].j \in Nat
      /\ s(t) \in Places(frame[t].j) /\ Probed(t) = At(frame[t].j, s(t))
      /\ frame[t].i \in Attempts /\ frame[t].val \in Keys /\ Probed(t) = ProbeOf(frame[t])
  BY <1>1, <1>2, ProbedIs DEF ProbePoints
<1>6. /\ At(frame[t].j, s(t)).bool = 0 /\ Probed(t).ent \in Entries /\ Probed(t).ent \in Present
  BY <1>1, <1>2, <1>4, <1>5, AtTyped
<1>7. frame[t].j \in start .. cur - 1
  <2>1. frame[t].j \in 0 .. cur - 1
    BY <1>2, <1>5
  <2> QED
    BY <1>2, <1>5, <1>6, <2>1, UnmarkedWhere
<1>8. PassedTo(frame[t].val, start, frame[t].j, frame[t].i)
  BY <1>1, <1>4, ThreadIs DEF PassedAt, InsertPoints, Origin
<1>9. Finds(Probed(t).ent, start, 0, cur)
  <2>1. PICK k \in Keys, n \in Attempts, e \in Entries, jj \in Nat :
          k = frame[t].val /\ n = frame[t].i /\ e = Probed(t).ent /\ jj = frame[t].j
    BY <1>5, <1>6
  <2>2. /\ val[e] = k /\ PassedTo(k, start, jj, n) /\ Probe(k, n, jj).ent = e
        /\ start <= jj /\ jj < cur
    BY <1>1, <1>2, <1>5, <1>7, <1>8, <2>1 DEF ProbeOf
  <2> QED
    BY <1>2, <2>1, <2>2, ClearFinds
<1> QED
  BY <1>1, <1>3, <1>4, <1>5, <1>6, <1>7, <1>8, <1>9

\* What a step does to the flag of an entry.
LEMMA FlagStep ==
  ASSUME NEW t \in Threads, Good(t), NEW e \in Entries, isDeleted'[e] # isDeleted[e]
  PROVE  \/ /\ setDelete(t) /\ pc[t] = "delete" /\ e = Probed(t).ent
            /\ isDeleted[e] = 0 /\ isDeleted'[e] = 1
         \/ /\ lookup(t) /\ Flagged(Probed(t), frame[t].val) /\ e = Probed(t).ent
            /\ isDeleted[e] = 1 /\ isDeleted'[e] = 0
         \/ /\ CallInsert(t) /\ e \notin Present /\ isDeleted'[e] = 0
<1>0. isDeleted \in [Entries -> {0, 1}] /\ ThreadStep(t)
  BY DEF Good, Typed, TablesTyped
<1>1. CASE setDelete(t)
  BY <1>0, <1>1 DEF setDelete
<1>2. CASE lookup(t)
  <2>1. Flagged(Probed(t), frame[t].val) /\ isDeleted' = [isDeleted EXCEPT ![Probed(t).ent] = 0]
    BY <1>2 DEF lookup
  <2> QED
    BY <1>0, <1>2, <2>1 DEF Flagged
<1>3. CASE CallInsert(t)
  <2>1. PICK d \in Entries \ Referenced : isDeleted' = [isDeleted EXCEPT ![d] = 0]
    BY <1>3 DEF CallInsert
  <2>2. d \notin Present
    BY <2>1 DEF Referenced
  <2> QED
    BY <1>0, <1>3, <2>1, <2>2
<1>4. CASE ~setDelete(t) /\ ~lookup(t) /\ ~CallInsert(t)
  <2>1. UNCHANGED isDeleted
    BY <1>0, <1>4, Zenon DEF ThreadStep, Step, CallQuery, CallDelete, InsertTable, Undeleted,
      ReturnComp, setPtr, CopyUp, CountCopy, AdvanceStart, Retire, ClaimSlot, NextTableSize,
      addDrop, AdvanceCur, QueryTable, lookupQuery, shared
  <2> QED
    BY <2>1
<1> QED
  BY <1>1, <1>2, <1>3, <1>4

\* What a claim has put in the slot is found there.
LEMMA ClaimFinds ==
  ASSUME NEW t \in Threads, Good(t), Claims(t), NEW e, e = frame[t].ent, NEW o, o = Origin(t),
         NEW hi, hi = cur
  PROVE  Finds(e, o, 0, hi)'
<1>1. /\ Typed /\ InOrder /\ start \in Nat /\ cur \in Nat /\ TablesOf(t)
  BY WindowStep DEF Good
<1>2. PICK k \in Keys, n \in Attempts, jj \in Nat :
        k = frame[t].val /\ n = frame[t].i /\ jj = frame[t].j
  BY ClaimIs
<1>3. /\ jj \in start .. cur - 1 /\ jj \in 0 .. Len(SubTables) - 1 /\ s(t) \in Places(jj)
      /\ s(t) = Bucket(k, n, SubTables[jj + 1]) /\ PassedTo(k, o, jj, n)
      /\ o \in Nat /\ o <= jj /\ e \in Entries /\ val[e] = k
  BY <1>1, <1>2, ClaimIs
<1>4. Probe(k, n, jj)'.ent = e
  <2>1. frame[t].ht = jj + 1
    BY <1>1, <1>2, ProbedIs DEF Claims, ClaimSlot, ProbePoints
  <2>2. SubTables'[jj + 1].InnerTable[s(t)] = After(t, jj + 1, s(t))
    BY <1>1, <1>3, Window DEF TablesOf, Places
  <2>3. ~Marks(t)
    BY DEF Claims, ClaimSlot, Marks, setPtr
  <2>4. SubTables'[jj + 1].InnerTable[s(t)].ent = e
    BY <2>1, <2>2, <2>3 DEF After
  <2>5. Bucket(k, n, SubTables[jj + 1])' = s(t)
    BY <1>3, ProbeStep
  <2> QED
    BY <2>4, <2>5 DEF Probe, Slot
<1>5. Clear(k, o, 0, jj, n)'
  <2>1. Clear(k, o, 0, jj, n) /\ 0 \in Attempts
    BY <1>3, ClearMore, HashtableSmartLazyAssumption DEF Attempts
  <2>2. jj < cur
    BY <1>1, <1>3
  <2> QED
    BY <1>3, <2>1, <2>2, ClearStays
<1>6. ~Before(jj, n, o, 0)'
  BY <1>3 DEF Before, Attempts
<1>7. jj \in 0 .. hi - 1
  BY <1>1, <1>3
<1> QED
  BY <1>3, <1>4, <1>5, <1>6, <1>7 DEF Finds

\* From the next subtable on a path finds the entries in slots there.
LEMMA AboveStart ==
  ASSUME Typed, Deep, NEW jj \in start .. cur - 1, start < jj, NEW x \in Places(jj),
         At(jj, x) # Null
  PROVE  Finds(At(jj, x).ent, start + 1, 0, cur)
<1>1. /\ InOrder /\ OnPath /\ start \in Nat /\ cur \in Nat /\ jj \in 0 .. Len(SubTables) - 1
      /\ jj \in Nat /\ start + 1 <= jj /\ jj < cur /\ start + 1 \in Nat
  BY Window DEF Deep
<1>2. PICK e \in Entries : e = At(jj, x).ent /\ val[e] \in Keys
  BY <1>1, AtTyped
<1>3. PICK n \in Attempts : /\ Bucket(val[e], n, SubTables[jj + 1]) = x
                            /\ Clear(val[e], start + 1, 0, jj, n)
  <2>1. jj # start
    BY <1>1
  <2> QED
    BY <1>2, <2>1 DEF OnPath, PathTo, Deep
<1>4. Probe(val[e], n, jj).ent = e
  BY <1>1, <1>2, <1>3, ProbeTyped
<1>5. Finds(e, start + 1, 0, cur)
  BY <1>1, <1>3, <1>4, ClearFinds
<1> QED
  BY <1>2, <1>5

\* When the slots at head->start are copied, a path finds the entries from the next subtable on.
LEMMA FoundAbove ==
  ASSUME Typed, Deep, Completed(start) = Places(start), NEW e \in Entries,
         Finds(e, start, 0, cur), isDeleted[e] = 0
  PROVE  Finds(e, start + 1, 0, cur)
<1>1. /\ InOrder /\ Copied /\ start \in Nat /\ cur \in Nat
  BY Window DEF Deep
<1>2. PICK jj \in 0 .. cur - 1 : \E x \in Places(jj) :
           start <= jj /\ At(jj, x) # Null /\ At(jj, x).ent = e
  BY <1>1, FindsSlot
<1>3. PICK x \in Places(jj) : start <= jj /\ At(jj, x) # Null /\ At(jj, x).ent = e
  BY <1>2
<1>4. CASE jj = start
  BY <1>1, <1>3, <1>4 DEF Copied
<1>5. CASE jj # start
  <2>1. start < jj /\ jj \in start .. cur - 1
    BY <1>1, <1>3, <1>5
  <2> QED
    BY <1>3, <2>1, AboveStart
<1> QED
  BY <1>4, <1>5

\* What is found in the state to come, with head->start and head->cur read in it.
LEMMA FindsWill ==
  ASSUME NEW e, NEW lo, lo = start', NEW hi, hi = cur', Finds(e, lo, 0, hi)'
  PROVE  Finds(e, start, 0, cur)'
BY DEF Finds, Clear, Before

\* Paths find the entries after a step.
LEMMA FoundStep ==
  ASSUME NEW t \in Threads, Good(t)
  PROVE  Found'
<1>0. /\ Typed /\ Deep /\ InOrder /\ Found /\ start \in Nat /\ cur \in Nat
      /\ start' \in Nat /\ cur' \in Nat /\ cur <= cur'
  BY WindowStep DEF Good, Deep
<1>1. PICK lo \in Nat : lo = start'
  BY <1>0
<1>2. PICK hi \in Nat : hi = cur' /\ cur <= hi
  BY <1>0
<1>s. ASSUME NEW e \in Entries, Finds(e, lo, 0, cur)
      PROVE  Finds(e, start, 0, cur)'
  <2>1. Finds(e, lo, 0, hi)'
    BY <1>0, <1>2, <1>s, FirstAttempt, FindsStays
  <2> QED
    BY <1>1, <1>2, <2>1, FindsWill
<1>c. ASSUME Claims(t), NEW e, e = frame[t].ent
      PROVE  Finds(e, start, 0, cur)'
  <2>1. UNCHANGED <<start, cur>> /\ e \in Entries
    BY <1>c, ClaimIs
  <2>2. CASE Origin(t) = start
    <3>1. Finds(e, lo, 0, hi)'
      BY <1>1, <1>2, <1>c, <2>1, <2>2, ClaimFinds
    <3> QED
      BY <1>1, <1>2, <3>1, FindsWill
  <2>3. CASE Finds(e, start, 0, cur)
    BY <1>1, <1>s, <2>1, <2>3
  <2> QED
    BY <1>c, <2>2, <2>3, ClaimIs
<1>3. ASSUME NEW e \in Present', isDeleted'[e] = 0
      PROVE  Finds(e, start, 0, cur)'
  <2>1. CASE e \notin Present
    BY <1>3, <1>c, <2>1, PresentStep
  <2>2. CASE e \in Present /\ isDeleted[e] = 0
    <3>1. e \in Entries /\ Finds(e, start, 0, cur)
      BY <1>0, <2>2, PresentTyped DEF Found
    <3>2. CASE start' = start
      BY <1>1, <1>s, <3>1, <3>2
    <3>3. CASE start' = start + 1 /\ Completed(start) = Places(start)
      BY <1>0, <1>1, <1>s, <2>2, <3>1, <3>3, FoundAbove
    <3> QED
      BY <3>2, <3>3, StartStep
  <2>3. CASE e \in Present /\ isDeleted[e] # 0
    <3>1. e \in Entries
      BY <1>0, <2>3, PresentTyped
    <3>2. lookup(t) /\ Flagged(Probed(t), frame[t].val) /\ e = Probed(t).ent
      BY <1>3, <2>3, <3>1, FlagStep
    <3>3. Finds(e, start, 0, cur) /\ start' = start
      BY <3>2, UndeleteIs
    <3> QED
      BY <1>1, <1>s, <3>1, <3>3
  <2> QED
    BY <2>1, <2>2, <2>3
<1>4. ASSUME NEW jj \in start' .. cur' - 1, NEW x \in Places(jj)', At(jj, x)' # Null,
             NEW e, e = At(jj, x)'.ent
      PROVE  Finds(e, start, 0, cur)'
  <2>1. /\ jj \in start .. cur - 1 /\ jj \in 0 .. Len(SubTables) - 1 /\ jj \in Nat
        /\ x \in Places(jj)
        /\ \/ At(jj, x) # Null /\ e = At(jj, x).ent
           \/ Claims(t) /\ e = frame[t].ent
    BY <1>4, SlotStep
  <2>2. CASE At(jj, x) # Null /\ e = At(jj, x).ent
    <3>1. e \in Entries /\ Finds(e, start, 0, cur)
      BY <1>0, <2>1, <2>2, AtTyped DEF Found
    <3>2. CASE start' = start
      BY <1>1, <1>s, <3>1, <3>2
    <3>3. CASE start' = start + 1
      <4>1. start < jj
        BY <1>0, <1>1, <3>3
      <4>2. Finds(e, start + 1, 0, cur)
        BY <1>0, <2>1, <2>2, <4>1, AboveStart
      <4> QED
        BY <1>1, <1>s, <3>1, <3>3, <4>2
    <3> QED
      BY <3>2, <3>3, StartStep
  <2>3. CASE Claims(t) /\ e = frame[t].ent
    BY <1>c, <2>3
  <2> QED
    BY <2>1, <2>2, <2>3
<1>5. \A jj \in start' .. cur' - 1 : \A x \in Places(jj)' :
        At(jj, x)' # Null => Finds(At(jj, x).ent, start, 0, cur)'
  <2> SUFFICES ASSUME NEW jj \in start' .. cur' - 1, NEW x \in Places(jj)', At(jj, x)' # Null
               PROVE  Finds(At(jj, x).ent, start, 0, cur)'
    OBVIOUS
  <2>1. PICK e : e = At(jj, x)'.ent
    OBVIOUS
  <2>2. Finds(e, start, 0, cur)'
    BY <1>4, <2>1
  <2> QED
    BY <2>1, <2>2 DEF Finds
<1> QED
  BY <1>3, <1>5 DEF Found

\* The same from the subtable after head->start on.
LEMMA FindsWillAbove ==
  ASSUME NEW e, NEW lo, lo = start' + 1, NEW hi, hi = cur', Finds(e, lo, 0, hi)'
  PROVE  Finds(e, start + 1, 0, cur)'
<1>1. PICK jj \in 0 .. hi - 1, n \in Attempts :
        /\ ~Before(jj, n, lo, 0)
        /\ Probe(val[e], n, jj)'.ent = e
        /\ Clear(val[e], lo, 0, jj, n)'
  BY DEF Finds, Before
<1>2. Clear(val[e], start + 1, 0, jj, n)'
  BY <1>1 DEF Clear, Before
<1>3. ~Before(jj, n, start + 1, 0)'
  BY <1>1 DEF Before
<1> QED
  BY <1>1, <1>2, <1>3 DEF Finds

\* An entry in a marked slot of the subtable at head->start is found above it unless it is
\* flagged: an insert only clears the flag of an entry that a path finds above.
LEMMA MarkedFound ==
  ASSUME NEW t \in Threads, Good(t), start' = start, NEW x \in Places(start),
         At(start, x).bool = 1, NEW e, e = At(start, x).ent,
         isDeleted[e] = 0 => Finds(e, start + 1, 0, cur), isDeleted'[e] = 0
  PROVE  Finds(e, start + 1, 0, cur)'
<1>0. /\ Typed /\ Deep /\ InOrder /\ start \in Nat /\ cur \in Nat /\ start < cur
      /\ cur' \in Nat /\ cur <= cur' /\ cur <= Len(SubTables) /\ Len(SubTables) \in Nat
  BY WindowStep DEF Good, Deep
<1>1. PICK jj \in 0 .. Len(SubTables) - 1 : jj = start /\ jj \in start .. cur - 1
  BY <1>0
<1>2. At(jj, x) # Null /\ e = At(jj, x).ent /\ e \in Entries /\ e \in Present
      /\ At(jj, x).bool = 1 /\ x \in Places(jj)
  BY <1>0, <1>1, AtTyped
<1>3. Finds(e, start + 1, 0, cur)
  <2>1. CASE isDeleted[e] = 0
    BY <2>1
  <2>2. CASE isDeleted[e] # 0
    <3>1. lookup(t) /\ Flagged(Probed(t), frame[t].val) /\ e = Probed(t).ent
      BY <1>2, <2>2, FlagStep
    <3>2. PICK j2 \in start .. cur - 1, y \in Places(frame[t].j) :
            /\ j2 = frame[t].j /\ y = s(t)
            /\ At(j2, y) # Null /\ At(j2, y).ent = e /\ At(j2, y).bool = 0
      BY <3>1, UndeleteIs
    <3>3. j2 # start
      <4> SUFFICES ASSUME j2 = start
                   PROVE  FALSE
        OBVIOUS
      <4>1. x = y
        BY <1>0, <1>1, <1>2, <3>2 DEF Deep, OncePerSubtable
      <4> QED
        BY <1>1, <1>2, <3>2, <4>1
    <3>4. start < j2
      BY <1>0, <3>2, <3>3
    <3> QED
      BY <1>0, <3>2, <3>4, AboveStart
  <2> QED
    BY <2>1, <2>2
<1>4. PICK lo \in Nat : lo = start + 1
  BY <1>0
<1>5. PICK hi \in Nat : hi = cur' /\ cur <= hi
  BY <1>0
<1>6. Finds(e, lo, 0, hi)'
  BY <1>0, <1>2, <1>3, <1>4, <1>5, FirstAttempt, FindsStays
<1>7. lo = start' + 1
  BY <1>4
<1> QED
  BY <1>5, <1>6, <1>7, FindsWillAbove

\* What has been copied is found further up after a step.
LEMMA CopiedFound ==
  ASSUME NEW t \in Threads, Good(t), NEW jj, jj = start', NEW x \in Completed(jj)',
         NEW e, e = At(jj, x)'.ent, isDeleted'[e] = 0
  PROVE  Finds(e, start + 1, 0, cur)'
<1>0. /\ Typed /\ Deep /\ InOrder /\ Copied /\ start \in Nat /\ cur \in Nat /\ start < cur
      /\ start' \in Nat /\ cur' \in Nat /\ cur <= cur' /\ cur <= Len(SubTables)
      /\ Len(SubTables) \in Nat
  BY WindowStep DEF Good, Deep
<1>1. start' = start
  <2> SUFFICES ASSUME start' # start
               PROVE  FALSE
    OBVIOUS
  <2>1. AdvanceStart(t) /\ jj = start + 1 /\ start + 1 < cur
    BY StartStep
  <2>2. jj \in 0 .. cur - 1 /\ jj > start
    BY <1>0, <2>1
  <2>3. x \in Completed(jj)
    <3>1. ~CountCopy(t)
      BY <2>1 DEF AdvanceStart, CountCopy
    <3> QED
      BY <2>2, <3>1, CompletedStep
  <2>4. x \in Places(jj) /\ At(jj, x).bool = 1
    BY <2>3 DEF Completed
  <2> QED
    BY <1>0, <2>2, <2>4 DEF Copied
<1>2. jj \in 0 .. cur - 1 /\ jj = start /\ jj \in 0 .. Len(SubTables) - 1
      /\ start \in start .. cur - 1
  BY <1>0, <1>1
<1>3. x \in Places(jj) /\ (x \in Completed(jj) \/ (CountCopy(t) /\ jj = frame[t].j /\ x = s(t)))
  <2>1. Completed(jj)' \subseteq Places(jj)'
    BY DEF Completed
  <2> QED
    BY <1>2, <2>1, CompletedStep
<1>4. At(jj, x).bool = 1 /\ (CountCopy(t) /\ jj = frame[t].j /\ x = s(t) =>
                               At(jj, x) = ProbeOf(frame[t]) /\ pc[t] = "count")
  <2>1. CASE x \in Completed(jj) /\ ~(CountCopy(t) /\ jj = frame[t].j /\ x = s(t))
    BY <2>1 DEF Completed
  <2>2. CASE CountCopy(t) /\ jj = frame[t].j /\ x = s(t)
    <3>1. pc[t] = "count"
      BY <2>2 DEF CountCopy
    <3>2. ProbeOf(frame[t]).bool = 1
      BY <3>1, ThreadIs DEF FrameAt
    <3>3. At(jj, x) = ProbeOf(frame[t])
      BY <1>0, <2>2, <3>1, ProbedIs DEF ProbePoints, CopyPoints
    <3> QED
      BY <3>1, <3>2, <3>3
  <2> QED
    BY <1>3, <2>1, <2>2
<1>5. At(jj, x)' = At(jj, x)
  BY <1>2, <1>3, <1>4, AtStep
<1>6. e = At(start, x).ent /\ At(start, x).bool = 1 /\ x \in Places(start)
  BY <1>2, <1>3, <1>4, <1>5
<1>7. isDeleted[e] = 0 => Finds(e, start + 1, 0, cur)
  <2> SUFFICES ASSUME isDeleted[e] = 0
               PROVE  Finds(e, start + 1, 0, cur)
    OBVIOUS
  <2>1. CASE CountCopy(t) /\ jj = frame[t].j /\ x = s(t)
    BY <1>2, <1>4, <1>6, <2>1, ThreadIs DEF FrameAt
  <2>2. CASE x \in Completed(jj)
    BY <1>0, <1>2, <1>6, <2>2 DEF Copied
  <2> QED
    BY <1>3, <2>1, <2>2
<1> QED
  BY <1>1, <1>6, <1>7, MarkedFound

\* Marks, copies and counts after a step.
LEMMA CopiedStep ==
  ASSUME NEW t \in Threads, Good(t)
  PROVE  Copied'
<1>0. /\ Typed /\ Deep /\ InOrder /\ Copied /\ start \in Nat /\ cur \in Nat /\ start < cur
      /\ start' \in Nat /\ cur' \in Nat /\ cur <= cur' /\ cur <= Len(SubTables)
      /\ Len(SubTables) \in Nat /\ start <= start'
      /\ Len(SubTables') \in Nat /\ cur' <= Len(SubTables')
  BY WindowStep, OrderStep DEF Good, Deep
<1>1. PICK lo \in Nat : lo = start' /\ start <= lo
  BY <1>0
<1>2. PICK hi \in Nat : hi = cur' /\ cur <= hi
  BY <1>0
<1>3. ASSUME NEW jj \in 0 .. hi - 1, jj > lo, NEW x \in Places(jj)'
      PROVE  At(jj, x)'.bool = 0
  <2>1. CASE jj < cur
    <3>1. jj \in 0 .. Len(SubTables) - 1 /\ jj > start /\ jj \in 0 .. cur - 1 /\ jj # start
      BY <1>0, <1>1, <1>3, <2>1
    <3>2. x \in Places(jj) /\ At(jj, x).bool = 0
      BY <1>0, <3>1, AtStep DEF Copied
    <3>3. ~(Marks(t) /\ jj = frame[t].j)
      BY <3>1, MarksWhere
    <3> QED
      BY <3>1, <3>2, <3>3, AtStep
  <2>2. CASE ~(jj < cur)
    <3>1. PICK m \in Nat : m = Len(SubTables') /\ hi <= m
      BY <1>0, <1>2
    <3>2. jj \in cur .. m - 1
      BY <1>0, <1>3, <2>2, <3>1
    <3>3. At(jj, x)' = Null
      BY <3>1, <3>2, NewEmpty
    <3> QED
      BY <3>3 DEF Null
  <2> QED
    BY <2>1, <2>2
<1>4. ASSUME NEW jj \in 0 .. hi - 1, jj < lo
      PROVE  Completed(jj)' = Places(jj)'
  <2>1. jj \in 0 .. cur - 1 /\ Completed(jj) = Places(jj)
    <3>1. CASE jj < start
      BY <1>0, <3>1 DEF Copied
    <3>2. CASE ~(jj < start)
      <4>1. lo = start + 1 /\ Completed(start) = Places(start)
        BY <1>0, <1>1, <1>4, <3>2, StartStep
      <4>2. jj = start
        BY <1>0, <1>4, <3>2, <4>1
      <4> QED
        BY <1>0, <4>1, <4>2
    <3> QED
      BY <3>1, <3>2
  <2>2. Completed(jj)' \subseteq Places(jj)'
    BY DEF Completed
  <2> QED
    BY <2>1, <2>2, CompletedStep
<1>5. ASSUME NEW jj, jj = start', NEW x \in Completed(jj)', isDeleted'[At(jj, x)'.ent] = 0
      PROVE  Finds(At(jj, x).ent, start + 1, 0, cur)'
  <2>1. PICK e : e = At(jj, x)'.ent
    OBVIOUS
  <2>2. Finds(e, start + 1, 0, cur)'
    BY <1>5, <2>1, CopiedFound
  <2> QED
    BY <2>1, <2>2 DEF Finds, Clear, Before
<1>6. \A jj \in 0 .. cur' - 1 :
        IsFiniteSet(Tally(jj))' /\ Cardinality(Tally(jj))' <= Cardinality(Completed(jj))'
  BY TallyStep
<1> QED
  BY <1>1, <1>2, <1>3, <1>4, <1>5, <1>6 DEF Copied

\* The kinds of step: a call, a return, a call of insertTable by lookup, or a step within a call.
LEMMA StepKind ==
  ASSUME NEW t \in Threads, Good(t)
  PROVE  \/ pc[t] = "idle" /\ (CallInsert(t) \/ CallQuery(t) \/ CallDelete(t))
         \/ \E r \in {0, 1} : Return(t, r)
         \/ /\ pc[t] \in {"undeleted", "copy"}
            /\ \E back \in {"dComp", "count"} : CallAgain(t, Probed(t).ent, back)
         \/ /\ UNCHANGED call
            /\ frame'[t].val = frame[t].val /\ frame'[t].ent = frame[t].ent
<1>0. Typed /\ DOMAIN frame = Threads /\ frame[t] \in Frames
  BY LocalsTypes DEF Good
<1>n. ASSUME NextAttempt(t, "lookup", "table") \/ NextAttempt(t, "qlookup", "qtable")
      PROVE  UNCHANGED call /\ frame'[t].val = frame[t].val /\ frame'[t].ent = frame[t].ent
  <2>1. /\ "lookup" \in Points /\ "table" \in Points /\ "qlookup" \in Points
        /\ "qtable" \in Points
    BY DEF Points
  <2> QED
    BY <1>0, <1>n, <2>1, NextEffect
<1>1. CASE CallInsert(t) \/ CallQuery(t) \/ CallDelete(t)
  BY <1>1, Zenon DEF CallInsert, CallQuery, CallDelete, Start
<1>2. CASE InsertTable(t) \/ NextTableSize(t) \/ addDrop(t) \/ AdvanceCur(t)
  <2>1. UNCHANGED call
    BY <1>2 DEF InsertTable, NextTableSize, addDrop, AdvanceCur, call
  <2>2. frame'[t].val = frame[t].val /\ frame'[t].ent = frame[t].ent
    BY <1>0, <1>2 DEF InsertTable, NextTableSize, addDrop, AdvanceCur, Frames
  <2> QED
    BY <2>1, <2>2
<1>3. CASE lookup(t) \/ lookupQuery(t) \/ setDelete(t) \/ ReturnComp(t) \/ ClaimSlot(t)
  <2>1. \/ Return(t, 0) \/ Return(t, 1) \/ UNCHANGED <<call, frame>>
        \/ NextAttempt(t, "lookup", "table") \/ NextAttempt(t, "qlookup", "qtable")
    BY <1>3 DEF lookup, lookupQuery, setDelete, ReturnComp, ClaimSlot
  <2> QED
    BY <1>n, <2>1
<1>4. CASE Undeleted(t) \/ CopyUp(t)
  <2>1. CASE UNCHANGED call /\ frame' = [frame EXCEPT ![t].exStart = start]
    BY <1>0, <2>1 DEF Frames
  <2>2. \/ Return(t, 1) \/ (UNCHANGED call /\ frame' = [frame EXCEPT ![t].exStart = start])
        \/ /\ pc[t] \in {"undeleted", "copy"}
           /\ CallAgain(t, Probed(t).ent, "dComp") \/ CallAgain(t, Probed(t).ent, "count")
    BY <1>4 DEF Undeleted, CopyUp
  <2> QED
    BY <2>1, <2>2
<1>5. CASE setPtr(t) \/ CountCopy(t) \/ AdvanceStart(t) \/ Retire(t)
  <2>1. UNCHANGED <<call, frame>> \/ NextAttempt(t, "lookup", "table")
    BY <1>5 DEF setPtr, CountCopy, AdvanceStart, Retire
  <2> QED
    BY <1>n, <2>1
<1>6. CASE QueryTable(t)
  <2>1. CASE frame' = [frame EXCEPT ![t].ht = TableArray[IndexOf(frame[t].j)]] /\ UNCHANGED call
    BY <1>0, <2>1 DEF Frames
  <2>2. \/ Return(t, 0) \/ Return(t, 1)
        \/ frame' = [frame EXCEPT ![t].ht = TableArray[IndexOf(frame[t].j)]] /\ UNCHANGED call
    BY <1>6 DEF QueryTable, TakeTable
  <2> QED
    BY <2>1, <2>2
<1> QED
  BY <1>1, <1>2, <1>3, <1>4, <1>5, <1>6 DEF Good, ThreadStep, Step

\* What an insert brought with it is still referred to.
LEMMA OwnReferenced ==
  ASSUME Typed, NEW u \in Threads
  PROVE  Own(u) \in Referenced
<1>1. Own(u) \in {frame[u].ent} \cup {stack[u][n].ent : n \in DOMAIN stack[u]}
  <2>1. CASE stack[u] = <<>>
    BY <2>1 DEF Own
  <2>2. CASE stack[u] # <<>>
    <3>1. PICK st \in Seq(CallerFrames) : st = stack[u] /\ st # <<>>
      BY <2>2, LocalsTypes
    <3>2. Len(st) \in DOMAIN st
      BY <3>1
    <3>3. Last(st) = st[Len(st)]
      BY DEF Last
    <3> QED
      BY <2>2, <3>1, <3>2, <3>3 DEF Own
  <2> QED
    BY <2>1, <2>2
<1> QED
  BY <1>1 DEF Referenced

\* Two frames, one on top of the other.
LEMMA PushTwo ==
  ASSUME NEW S, NEW f \in S, NEW g \in S
  PROVE  <<f>> \o <<g>> = <<f, g>>
<1>1. <<f>> \in Seq(S) /\ <<g>> \in Seq(S) /\ <<f, g>> \in Seq(S)
  OBVIOUS
<1>2. <<f>> \o <<g>> \in Seq(S)
  BY <1>1
<1>3. PICK p \in Seq(S) : p = <<f>> \o <<g>>
  BY <1>2
<1>4. PICK q \in Seq(S) : q = <<f, g>>
  BY <1>1
<1>5. Len(p) = 2 /\ Len(q) = 2 /\ p[1] = f /\ p[2] = g /\ q[1] = f /\ q[2] = g
  BY <1>1, <1>3, <1>4
<1>6. \A n \in 1 .. Len(p) : p[n] = q[n]
  BY <1>5
<1>7. p = q
  BY <1>5, <1>6
<1> QED
  BY <1>3, <1>4, <1>7

\* An insert keeps the entry that it brought with it, which was nobody's.
LEMMA OwnStep ==
  ASSUME NEW t \in Threads, Good(t), op'[t] = "insert"
  PROVE  \/ op[t] = "insert" /\ Own(t)' = Own(t)
         \/ /\ CallInsert(t) /\ pc[t] = "idle" /\ Own(t)' \in Entries \ Referenced
            /\ isDeleted'[Own(t)'] = 0
<1>0. /\ Typed /\ CallInv(t) /\ StackInv(t) /\ isDeleted \in [Entries -> {0, 1}]
      /\ DOMAIN op = Threads /\ DOMAIN stack = Threads
  BY ThreadIs, LocalsTypes DEF Typed, TablesTyped
<1>1. CASE pc[t] = "idle" /\ (CallInsert(t) \/ CallQuery(t) \/ CallDelete(t))
  <2>1. CallInsert(t)
    <3>1. op'[t] = "query" \/ op'[t] = "delete" \/ CallInsert(t)
      BY <1>0, <1>1 DEF CallQuery, CallDelete, Start
    <3> QED
      BY <3>1
  <2>2. PICK e \in Entries \ Referenced :
          /\ Start(t, "insert", val[e], e, "table")
          /\ isDeleted' = [isDeleted EXCEPT ![e] = 0]
    BY <2>1 DEF CallInsert
  <2>3. stack[t] = <<>>
    BY <1>0, <1>1 DEF CallInv, InsertPoints, CopyPoints
  <2>4. stack'[t] = <<>> /\ frame'[t].ent = e
    <3>1. val[e] \in Keys /\ "table" \in Points /\ e \in Entries \cup {NULL}
      BY DEF Keys, Points
    <3>2. PICK k \in Keys : k = val[e] /\ Start(t, "insert", k, e, "table")
      BY <2>2, <3>1
    <3>3. DOMAIN frame = Threads
      BY <1>0, LocalsTypes
    <3>4. frame'[t].ent = e /\ UNCHANGED stack
      BY <3>2, <3>3 DEF Start, NoFrame
    <3> QED
      BY <2>3, <3>4
  <2> QED
    BY <1>0, <1>1, <2>1, <2>2, <2>4 DEF Own
<1>2. ASSUME NEW r \in {0, 1}, Return(t, r)
      PROVE  op[t] = "insert" /\ Own(t)' = Own(t)
  <2>1. stack[t] # <<>> /\ frame'[t] = Head(stack[t]) /\ stack'[t] = Tail(stack[t])
        /\ op'[t] = op[t]
    BY <1>0, <1>2, ReturnEffect
  <2>2. PICK g \in CallerFrames :
          /\ g = Head(stack[t])
          /\ \/ stack[t] = <<g>> /\ Tail(stack[t]) = <<>>
             \/ \E d \in CallerFrames : stack[t] = <<g, d>> /\ Tail(stack[t]) = <<d>>
    BY <1>0, <2>1, StackIs
  <2>3. CASE stack[t] = <<g>> /\ Tail(stack[t]) = <<>>
    <3>1. Last(<<g>>) = g
      BY DEF Last
    <3> QED
      BY <2>1, <2>2, <2>3, <3>1 DEF Own
  <2>4. CASE \E d \in CallerFrames : stack[t] = <<g, d>> /\ Tail(stack[t]) = <<d>>
    <3>1. PICK d \in CallerFrames : stack[t] = <<g, d>> /\ Tail(stack[t]) = <<d>>
      BY <2>4
    <3>2. Last(<<g, d>>) = d /\ Last(<<d>>) = d /\ <<d>> # <<>>
      BY DEF Last
    <3> QED
      BY <2>1, <3>1, <3>2 DEF Own
  <2> QED
    BY <2>2, <2>3, <2>4
<1>3. ASSUME pc[t] \in {"undeleted", "copy"}, NEW back \in {"dComp", "count"},
             CallAgain(t, Probed(t).ent, back)
      PROVE  op[t] = "insert" /\ Own(t)' = Own(t)
  <2>1. PICK f \in CallerFrames : stack'[t] = <<f>> \o stack[t] /\ f.ent = frame[t].ent
    <3>1. \E f \in CallerFrames :
              /\ f.back = back /\ f.exStart = start /\ stack'[t] = <<f>> \o stack[t]
              /\ f.val = frame[t].val /\ f.ent = frame[t].ent /\ f.ht = frame[t].ht
              /\ f.j = frame[t].j /\ f.i = frame[t].i /\ f.doCopy = frame[t].doCopy
      BY <1>0, <1>3, CallerPushed
    <3> QED
      BY <3>1
  <2>2. op'[t] = op[t]
    BY <1>3 DEF CallAgain
  <2>3. CASE stack[t] = <<>>
    <3>1. stack'[t] = <<f>> /\ Last(<<f>>) = f /\ <<f>> # <<>>
      BY <2>1, <2>3 DEF Last
    <3> QED
      BY <2>1, <2>2, <2>3, <3>1 DEF Own
  <2>4. CASE stack[t] # <<>>
    <3>1. pc[t] = "copy"
      BY <1>0, <1>3, <2>4 DEF CallInv, InsertPoints, CopyPoints
    <3>2. PICK g \in CallerFrames : stack[t] = <<g>>
      <4>1. ASSUME NEW g, CopyCaller(t, g)
            PROVE  FALSE
        BY <3>1, <4>1 DEF CopyCaller, CopyPoints
      <4> QED
        BY <1>0, <2>4, <4>1, StackIs
    <3>3. <<f>> \o <<g>> = <<f, g>>
      BY PushTwo
    <3>4. Last(<<f, g>>) = g /\ Last(<<g>>) = g /\ <<f, g>> # <<>>
      BY DEF Last
    <3> QED
      BY <2>1, <2>2, <2>4, <3>2, <3>3, <3>4 DEF Own
  <2> QED
    BY <2>3, <2>4
<1>4. CASE /\ UNCHANGED call
           /\ frame'[t].val = frame[t].val /\ frame'[t].ent = frame[t].ent
  BY <1>4 DEF call, Own
<1> QED
  BY <1>1, <1>2, <1>3, <1>4, StepKind

\* The entries brought by the inserts stay new.
LEMMA FreshStep ==
  ASSUME NEW t \in Threads, Good(t)
  PROVE  Fresh'
<1>0. Typed /\ Fresh /\ InOrder /\ isDeleted \in [Entries -> {0, 1}]
  BY DEF Good, Deep, Typed, TablesTyped
<1>1. ASSUME NEW u \in Threads, op'[u] = "insert"
      PROVE  \/ op[u] = "insert" /\ Own(u)' = Own(u)
             \/ /\ u = t /\ CallInsert(t) /\ pc[t] = "idle" /\ Own(u)' \in Entries \ Referenced
                /\ isDeleted'[Own(u)'] = 0
  <2>1. CASE u = t
    BY <1>1, <2>1, OwnStep
  <2>2. CASE u # t
    BY <1>1, <2>2, OthersStay DEF Own
  <2> QED
    BY <2>1, <2>2
<1>2. ASSUME NEW u \in Threads, op'[u] = "insert", op[u] = "insert", Own(u)' = Own(u)
      PROVE  Own(u) \in Entries \ Present' /\ isDeleted'[Own(u)] = 0
  <2>1. PICK e \in Entries : e = Own(u) /\ e \notin Present /\ isDeleted[e] = 0
    BY <1>0, <1>2 DEF Fresh
  <2>2. e \notin Present'
    <3> SUFFICES ASSUME e \in Present'
                 PROVE  FALSE
      OBVIOUS
    <3>1. Claims(t) /\ e = frame[t].ent
      BY <2>1, PresentStep
    <3>2. stack[t] = <<>>
      BY <2>1, <3>1, ClaimIs
    <3>3. pc[t] = "claim" /\ Return(t, 1)
      BY <3>1 DEF Claims, ClaimSlot
    <3>4. op[t] = "insert"
      BY <3>3, ThreadIs DEF CallInv, InsertPoints
    <3>5. u = t
      BY <1>0, <1>2, <2>1, <3>1, <3>2, <3>4 DEF Fresh, Own
    <3>6. op'[t] = "none"
      BY <1>0, <3>2, <3>3, ReturnEffect
    <3> QED
      BY <1>2, <3>5, <3>6
  <2>3. isDeleted'[e] = 0
    <3> SUFFICES ASSUME isDeleted'[e] # 0
                 PROVE  FALSE
      OBVIOUS
    <3>1. pc[t] = "delete" /\ e = Probed(t).ent
      BY <2>1, FlagStep
    <3>2. Probed(t) # Null
      BY <1>0, <3>1 DEF Typed, ThreadTyped
    <3>3. PICK jj \in 0 .. Len(SubTables) - 1, x \in Places(frame[t].j) :
            jj = frame[t].j /\ Probed(t) = At(jj, x)
      BY <1>0, <3>1, ProbedIs DEF ProbePoints
    <3>4. e \in Present
      BY <1>0, <3>1, <3>2, <3>3, AtTyped
    <3> QED
      BY <2>1, <3>4
  <2> QED
    BY <2>1, <2>2, <2>3
<1>3. ASSUME CallInsert(t), pc[t] = "idle", NEW e \in Entries \ Referenced
      PROVE  e \notin Present' /\ \A u \in Threads : Own(u) # e
  <2>1. e \notin Present
    BY <1>3 DEF Referenced
  <2>2. ~Claims(t)
    BY <1>3 DEF Claims, ClaimSlot
  <2> QED
    BY <1>0, <1>3, <2>1, <2>2, PresentStep, OwnReferenced
<1>4. ASSUME NEW u \in Threads, op'[u] = "insert"
      PROVE  /\ Own(u)' \in Entries \ Present' /\ isDeleted'[Own(u)'] = 0
             /\ \A w \in Threads : op'[w] = "insert" /\ Own(w)' = Own(u)' => w = u
  <2>1. Own(u)' \in Entries \ Present' /\ isDeleted'[Own(u)'] = 0
    BY <1>1, <1>2, <1>3, <1>4
  <2>2. ASSUME NEW w \in Threads, op'[w] = "insert", Own(w)' = Own(u)'
        PROVE  w = u
    BY <1>0, <1>1, <1>3, <1>4, <2>2 DEF Fresh
  <2> QED
    BY <2>1, <2>2
<1> QED
  BY <1>4 DEF Fresh
-----------------------------------------------------------------------------
(* The threads                                                             *)

\* The invariant of a frame in the state to come.
LEMMA FrameWillBe ==
  ASSUME NEW t, NEW p, NEW f, NEW lo, pc'[t] = p, frame'[t] = f, Origin(t)' = lo,
         PassedAt(p, f, lo)', FrameAt(p, f)'
  PROVE  FrameInv(t)'
BY DEF FrameInv, PassedAt, FrameAt

\* Where the points are.
LEMMA PointsAre ==
  /\ InsertPoints \subseteq ProbePoints \cup {"table", "size", "grow", "advance"}
  /\ "idle" \notin InsertPoints /\ InsertPoints \cap QueryPoints = {}
  /\ InsertPoints \cap DonePoints = {} /\ CopyPoints \subseteq InsertPoints
  /\ CopyPoints \subseteq ProbePoints /\ InsertPoints \subseteq Points
  /\ {"copy", "count"} \subseteq CopyPoints
BY DEF InsertPoints, QueryPoints, DonePoints, CopyPoints, ProbePoints, Points

\* What an insert has passed stays passed, from a later subtable on too.
LEMMA PassedAtStays ==
  ASSUME NEW t \in Threads, Good(t), NEW p, NEW f \in Frames, NEW lo \in Nat, NEW hi \in Nat,
         lo <= hi, PassedAt(p, f, lo),
         p \in InsertPoints => f.val \in Keys /\ (f.j < cur \/ (f.j <= cur /\ f.i = 0))
  PROVE  PassedAt(p, f, hi)'
<1> SUFFICES ASSUME p \in InsertPoints
             PROVE  PassedTo(f.val, hi, f.j, f.i)'
  BY DEF PassedAt
<1>1. PICK k \in Keys, n \in Attempts, jj \in Nat : k = f.val /\ n = f.i /\ jj = f.j
  BY FrameTyped
<1>2. PassedTo(k, lo, jj, n) /\ (jj < cur \/ (jj <= cur /\ n = 0))
  BY <1>1 DEF PassedAt
<1>3. PassedTo(k, hi, jj, n)'
  BY <1>2, PassedStays
<1> QED
  BY <1>1, <1>3

\* What a point and a frame say stays true.
LEMMA FrameAtStays ==
  ASSUME NEW t \in Threads, Good(t), NEW p \in Points, NEW f \in Frames, FrameAt(p, f),
         p \in ProbePoints => f.val \in Keys /\ f.j < cur,
         p \in {"copy", "count"} => start' = start
  PROVE  FrameAt(p, f)'
<1>0. /\ Typed /\ InOrder /\ start \in Nat /\ start' \in Nat /\ start <= start'
      /\ cur \in Nat /\ cur' \in Nat /\ cur <= cur' /\ start < cur
      /\ cur <= Len(SubTables) /\ Len(SubTables) \in Nat
      /\ f.j \in Nat /\ f.i \in Attempts
  BY WindowStep, FrameTyped DEF Good
<1>1. /\ p \in {"table", "size", "grow", "advance", "qtable"} => f.i = 0
      /\ p \in {"table", "size", "grow", "advance"} => f.j <= cur' /\ ~f.doCopy
      /\ p \in InsertPoints => val[f.ent] = f.val
      /\ p \in InsertPoints /\ f.doCopy => f.j <= start' /\ f.j + 1 < cur'
      /\ p \in CopyPoints => f.doCopy
      /\ p \in {"copy", "count"} => f.j = start'
      /\ p = "count" => f.exStart = start'
      /\ p = "start" => f.exStart = f.j
  BY <1>0 DEF FrameAt
<1>2. ASSUME p \in CopyPoints \cup {"undeleted", "delete"}
      PROVE  /\ p \in CopyPoints => Other(ProbeOf(f), f.val)'
             /\ p \in {"copy", "count"} => ProbeOf(f)'.bool = 1 /\ ProbeOf(f)' = ProbeOf(f)
             /\ p \in {"undeleted", "delete"} => HasKey(ProbeOf(f), f.val)'
  <2>1. PICK k \in Keys, n \in Attempts, jj \in 0 .. Len(SubTables) - 1 :
          k = f.val /\ n = f.i /\ jj = f.j
    BY <1>0, <1>2 DEF ProbePoints, DonePoints
  <2>2. /\ p \in CopyPoints => Other(Probe(k, n, jj), k)
        /\ p \in {"copy", "count"} => Probe(k, n, jj).bool = 1
        /\ p \in {"undeleted", "delete"} => HasKey(Probe(k, n, jj), k)
    BY <2>1 DEF FrameAt, ProbeOf
  <2>3. /\ Probe(k, n, jj).bool = 1 => Probe(k, n, jj)' = Probe(k, n, jj)
        /\ Other(Probe(k, n, jj), k) => Other(Probe(k, n, jj), k)'
        /\ HasKey(Probe(k, n, jj), k) => HasKey(Probe(k, n, jj), k)'
    BY ProbeStep
  <2>4. ProbeOf(f) = Probe(k, n, jj) /\ ProbeOf(f)' = Probe(k, n, jj)'
    BY <2>1 DEF ProbeOf
  <2>5. /\ p \in CopyPoints => Other(ProbeOf(f), f.val)'
        /\ p \in {"undeleted", "delete"} => HasKey(ProbeOf(f), f.val)'
    BY <2>1, <2>2, <2>3, <2>4 DEF Other, HasKey
  <2> QED
    BY <2>2, <2>3, <2>4, <2>5
<1>3. ASSUME p = "count", isDeleted'[ProbeOf(f)'.ent] = 0
      PROVE  Finds(ProbeOf(f).ent, start + 1, 0, cur)'
  <2>1. start' = start /\ f.j = start /\ ProbeOf(f).bool = 1 /\ f.val \in Keys
    BY <1>3, PointsAre DEF FrameAt
  <2>2. PICK x \in Places(start) : ProbeOf(f) = At(start, x)
    BY <1>0, <2>1, ProbeTyped DEF ProbeOf
  <2>3. PICK e : e = At(start, x).ent
    OBVIOUS
  <2>4. isDeleted[e] = 0 => Finds(e, start + 1, 0, cur)
    BY <1>3, <2>2, <2>3 DEF FrameAt
  <2>5. ProbeOf(f)'.ent = e
    BY <1>2, <1>3, <2>2, <2>3, PointsAre
  <2>6. Finds(e, start + 1, 0, cur)'
    BY <1>3, <2>1, <2>2, <2>3, <2>4, <2>5, MarkedFound
  <2> QED
    BY <2>5, <2>6 DEF Finds, Clear, Before
<1> QED
  BY <1>1, <1>2, <1>3, PointsAre DEF FrameAt

\* The insert that copies waits where it was while the one that it called goes on.
LEMMA CopyCallerStays ==
  ASSUME NEW t \in Threads, Good(t), NEW u \in Threads, NEW g \in CallerFrames,
         stack[u] # <<>>, g = Head(stack[u]), CopyCaller(u, g), key'[u] = key[u],
         pc'[u] \in InsertPoints \ CopyPoints, ~frame'[u].doCopy,
         frame'[u].ent = frame[u].ent, frame'[u].val = frame[u].val, NEW jj \in Nat,
         jj = frame'[u].j, start < jj
  PROVE  CopyCaller(u, g)'
<1>0. /\ Typed /\ InOrder /\ start \in Nat /\ cur \in Nat /\ cur' \in Nat /\ cur <= cur'
  BY WindowStep DEF Good
<1>1. start' = start
  BY StartStays DEF IsPending, CopyCaller
<1>2. PICK k \in Keys, n \in Attempts, j0 \in 0 .. Len(SubTables) - 1 :
        k = g.val /\ n = g.i /\ j0 = g.j /\ j0 < cur
  BY <1>0, CallerTyped
<1>3. Probe(k, n, j0) = [ent |-> frame[u].ent, bool |-> 1] /\ PassedTo(k, start, j0, n)
  BY <1>2 DEF CopyCaller, ProbeOf
<1>4. Probe(k, n, j0)' = [ent |-> frame[u].ent, bool |-> 1]
  BY <1>3, ProbeStep
<1>5. PICK lo \in Nat : lo = start
  BY <1>0
<1>6. PassedTo(k, lo, j0, n)'
  BY <1>2, <1>3, <1>5, PassedStays
<1>7. PassedTo(g.val, start, g.j, g.i)' /\ ProbeOf(g)' = [ent |-> frame'[u].ent, bool |-> 1]
  BY <1>1, <1>2, <1>4, <1>5, <1>6 DEF ProbeOf
<1>8. start' + 1 < cur'
  BY <1>0, <1>1 DEF CopyCaller
<1> QED
  BY <1>1, <1>7, <1>8 DEF CopyCaller

\* So does the insert that puts an entry in again.
LEMMA AgainCallerStays ==
  ASSUME NEW t \in Threads, Good(t), NEW u \in Threads, NEW d \in CallerFrames, NEW f,
         AgainCaller(u, d, f), key'[u] = key[u], NEW f2, f2.val = f.val, f2.ent = f.ent,
         f.j \in Nat, f2.j \in Nat, f.j <= f2.j
  PROVE  AgainCaller(u, d, f2)'
<1>0. /\ Typed /\ InOrder /\ start \in Nat /\ start' \in Nat /\ start <= start'
  BY WindowStep DEF Good
<1>1. PICK k \in Keys, n \in Attempts, j0 \in 0 .. Len(SubTables) - 1 :
        k = d.val /\ n = d.i /\ j0 = d.j /\ d.exStart \in Nat
  BY <1>0, CallerTyped
<1>2. Probe(k, n, j0) = [ent |-> f.ent, bool |-> 1]
  BY <1>1 DEF AgainCaller, ProbeOf
<1>3. Probe(k, n, j0)' = [ent |-> f.ent, bool |-> 1]
  BY <1>2, ProbeStep
<1>4. ProbeOf(d)' = [ent |-> f2.ent, bool |-> 1]
  BY <1>1, <1>3 DEF ProbeOf
<1>5. d.exStart <= start' /\ d.exStart < f2.j
  BY <1>0, <1>1 DEF AgainCaller
<1> QED
  BY <1>4, <1>5 DEF AgainCaller

\* The callers in the state to come.
LEMMA StackWillBe ==
  ASSUME NEW u, NEW st, st = stack'[u], NEW f, f = frame'[u],
         \/ st = <<>>
         \/ /\ pc'[u] \in InsertPoints
            /\ \E g : st = <<g>> /\ (CopyCaller(u, g)' \/ AgainCaller(u, g, f)')
         \/ /\ pc'[u] \in InsertPoints
            /\ \E g, d : st = <<g, d>> /\ CopyCaller(u, g)' /\ AgainCaller(u, d, g)'
  PROVE  StackInv(u)'
<1>1. CASE st = <<>>
  BY <1>1 DEF StackInv
<1>2. ASSUME pc'[u] \in InsertPoints, NEW g, st = <<g>>, CopyCaller(u, g)' \/ AgainCaller(u, g, f)'
      PROVE  StackInv(u)'
  <2>1. st[1] = g
    BY <1>2
  <2> QED
    BY <1>2, <2>1 DEF StackInv
<1>3. ASSUME pc'[u] \in InsertPoints, NEW g, NEW d, st = <<g, d>>, CopyCaller(u, g)',
             AgainCaller(u, d, g)'
      PROVE  StackInv(u)'
  <2>1. st[1] = g /\ st[2] = d
    BY <1>3
  <2> QED
    BY <1>3, <2>1 DEF StackInv
<1> QED
  BY <1>1, <1>2, <1>3

\* The callers of an insert wait where they were while it goes on.
LEMMA StackStays ==
  ASSUME NEW t \in Threads, Good(t), NEW u \in Threads, stack'[u] = stack[u], key'[u] = key[u],
         stack[u] # <<>> =>
           /\ pc'[u] \in InsertPoints
           /\ frame'[u].ent = frame[u].ent /\ frame'[u].val = frame[u].val
           /\ frame[u].j \in Nat /\ frame'[u].j \in Nat /\ frame[u].j <= frame'[u].j
           /\ CopyCaller(u, Head(stack[u])) => pc'[u] \notin CopyPoints /\ ~frame'[u].doCopy
  PROVE  StackInv(u)'
<1>0. Typed /\ StackInv(u) /\ start \in Nat
  BY ThreadIs, WindowStep
<1>1. PICK f : f = frame'[u]
  OBVIOUS
<1>2. PICK st : st = stack[u] /\ st = stack'[u]
  OBVIOUS
<1>3. CASE stack[u] = <<>>
  BY <1>1, <1>2, <1>3, StackWillBe
<1>4. CASE stack[u] # <<>>
  <2>1. PICK g \in CallerFrames :
           /\ g = Head(stack[u])
           /\ \/ stack[u] = <<g>> /\ CopyCaller(u, g)
              \/ stack[u] = <<g>> /\ AgainCaller(u, g, frame[u])
              \/ \E d \in CallerFrames : /\ stack[u] = <<g, d>>
                                         /\ CopyCaller(u, g) /\ AgainCaller(u, d, g)
    BY <1>0, <1>4, StackIs
  <2>2. ASSUME CopyCaller(u, g)
        PROVE  CopyCaller(u, g)'
    <3>1. PICK jj \in Nat : jj = frame'[u].j /\ start < jj
      BY <1>0, <1>4, <2>2 DEF CopyCaller
    <3> QED
      BY <1>4, <2>1, <2>2, <3>1, CopyCallerStays
  <2>3. ASSUME AgainCaller(u, g, frame[u])
        PROVE  AgainCaller(u, g, f)'
    <3>1. PICK f0 : f0 = frame[u]
      OBVIOUS
    <3> QED
      BY <1>1, <1>4, <2>3, <3>1, AgainCallerStays
  <2>4. ASSUME NEW d \in CallerFrames, AgainCaller(u, d, g)
        PROVE  AgainCaller(u, d, g)'
    <3>1. g.j \in Nat /\ g.j <= g.j
      BY <1>0, ThreadIs, CallerTyped
    <3> QED
      BY <2>4, <3>1, AgainCallerStays
  <2>5. pc'[u] \in InsertPoints
    BY <1>4
  <2>6. CASE st = <<g>> /\ (CopyCaller(u, g) \/ AgainCaller(u, g, frame[u]))
    <3>1. CopyCaller(u, g)' \/ AgainCaller(u, g, f)'
      BY <2>2, <2>3, <2>6
    <3> QED
      BY <1>1, <1>2, <2>5, <2>6, <3>1, StackWillBe
  <2>7. ASSUME NEW d \in CallerFrames, st = <<g, d>>, CopyCaller(u, g), AgainCaller(u, d, g)
        PROVE  StackInv(u)'
    <3>1. CopyCaller(u, g)' /\ AgainCaller(u, d, g)'
      BY <2>2, <2>4, <2>7
    <3> QED
      BY <1>1, <1>2, <2>5, <2>7, <3>1, StackWillBe
  <2> QED
    BY <1>2, <2>1, <2>6, <2>7
<1> QED
  BY <1>3, <1>4

\* The origin of an insert moves up with head->start, if at all.
LEMMA OriginStep ==
  ASSUME NEW t \in Threads, Good(t), NEW u \in Threads, stack'[u] = stack[u]
  PROVE  Origin(u) \in Nat /\ Origin(u)' \in Nat /\ Origin(u) <= Origin(u)'
<1>0. Typed /\ start \in Nat /\ start' \in Nat /\ start <= start'
  BY WindowStep DEF Good
<1>1. CASE stack[u] = <<>>
  BY <1>0, <1>1 DEF Origin
<1>2. CASE stack[u] # <<>>
  <2>1. PICK st \in Seq(CallerFrames) : st = stack[u] /\ st # <<>>
    BY <1>0, <1>2, LocalsTypes
  <2>2. Head(st) \in CallerFrames
    BY <2>1
  <2>3. PICK x \in Nat : x = Head(st).exStart
    BY <2>2, FrameTyped DEF CallerFrames
  <2>4. Origin(u) = IF x = start THEN start + 1 ELSE start
    BY <1>2, <2>1, <2>3 DEF Origin
  <2>5. Origin(u)' = IF x = start' THEN start' + 1 ELSE start'
    BY <1>2, <2>1, <2>3 DEF Origin
  <2>6. PICK a \in Nat : a = start
    BY <1>0
  <2>7. PICK b \in Nat : b = start'
    BY <1>0
  <2>8. a <= b
    BY <1>0, <2>6, <2>7
  <2>9. Origin(u) = (IF x = a THEN a + 1 ELSE a) /\ Origin(u)' = (IF x = b THEN b + 1 ELSE b)
    BY <2>4, <2>5, <2>6, <2>7
  <2>10. \/ Origin(u) = a
         \/ Origin(u) = a + 1 /\ x = a
    BY <2>9
  <2>11. \/ Origin(u)' = b /\ x # b
         \/ Origin(u)' = b + 1
    BY <2>9
  <2> QED
    BY <2>3, <2>8, <2>10, <2>11
<1> QED
  BY <1>1, <1>2

\* A step of t leaves the invariant of the other threads true.
LEMMA ThreadStays ==
  ASSUME NEW t \in Threads, Good(t), NEW u \in Threads, u # t
  PROVE  ThreadInv(u)'
<1>0. /\ CallInv(u) /\ StackInv(u) /\ FrameAt(pc[u], frame[u])
      /\ PassedAt(pc[u], frame[u], Origin(u)) /\ ThreadTyped(u) /\ Typed
      /\ start \in Nat /\ cur \in Nat
  BY ThreadIs, WindowStep
<1>1. /\ pc'[u] = pc[u] /\ op'[u] = op[u] /\ key'[u] = key[u]
      /\ frame'[u] = frame[u] /\ stack'[u] = stack[u]
  BY OthersStay
<1>2. CallInv(u)'
  BY <1>0, <1>1 DEF CallInv
<1>3. PICK p \in Points : p = pc[u]
  BY <1>0, LocalsTypes
<1>4. PICK f \in Frames : f = frame[u]
  BY <1>0, LocalsTypes
<1>5. f.j \in Nat
  BY FrameTyped
<1>6. StackInv(u)'
  <2>1. stack[u] # <<>> => pc[u] \in InsertPoints
    BY <1>0 DEF StackInv
  <2>2. CopyCaller(u, Head(stack[u])) => pc[u] \notin CopyPoints /\ ~frame[u].doCopy
    BY DEF CopyCaller
  <2> QED
    BY <1>1, <1>4, <1>5, <2>1, <2>2, StackStays
<1>7. PICK lo \in Nat : lo = Origin(u)
  BY <1>1, OriginStep
<1>8. PICK hi \in Nat : hi = Origin(u)' /\ lo <= hi
  BY <1>1, <1>7, OriginStep
<1>9. PassedAt(p, f, lo) /\ FrameAt(p, f)
  BY <1>0, <1>3, <1>4, <1>7
<1>10. p \in ProbePoints => f.val \in Keys /\ f.j < cur
  BY <1>0, <1>3, <1>4 DEF ThreadTyped, ProbePoints, CopyPoints, DonePoints
<1>11. p \in InsertPoints => f.val \in Keys /\ (f.j < cur \/ (f.j <= cur /\ f.i = 0))
  <2>1. p \in InsertPoints => f.val \in Keys
    BY <1>0, <1>3, <1>4, PointsAre DEF ThreadTyped
  <2> QED
    BY <1>9, <1>10, <2>1, PointsAre DEF FrameAt
<1>12. PassedAt(p, f, hi)'
  BY <1>8, <1>9, <1>11, PassedAtStays
<1>13. FrameAt(p, f)'
  <2>1. p \in {"copy", "count"} => start' = start
    BY <1>3, StartStays DEF IsPending
  <2> QED
    BY <1>9, <1>10, <2>1, FrameAtStays
<1>14. FrameInv(u)'
  BY <1>1, <1>3, <1>4, <1>8, <1>12, <1>13, FrameWillBe
<1> QED
  BY <1>2, <1>6, <1>14 DEF ThreadInv

\* A step of an insertTable that stays in it, at point p with frame f.
LEMMA WithinStep ==
  ASSUME NEW t \in Threads, Good(t), UNCHANGED call, pc[t] \in InsertPoints,
         NEW p \in InsertPoints, p = pc'[t], NEW f \in Frames, f = frame'[t],
         f.ent = frame[t].ent, f.val = frame[t].val, PassedAt(p, f, Origin(t)),
         f.j < cur \/ (f.j <= cur /\ f.i = 0), frame[t].j <= f.j,
         CopyCaller(t, Head(stack[t])) => ~f.doCopy /\ p \notin CopyPoints,
         FrameAt(p, f)'
  PROVE  ThreadInv(t)'
<1>0. CallInv(t) /\ ThreadTyped(t) /\ Typed /\ pc[t] # "idle" /\ frame[t].val \in Keys
  BY ThreadIs, PointsAre DEF ThreadTyped
<1>1. /\ stack'[t] = stack[t] /\ key'[t] = key[t] /\ op'[t] = op[t]
      /\ p # "idle" /\ p \notin QueryPoints /\ p \notin DonePoints
  BY PointsAre DEF call
<1>2. CallInv(t)'
  BY <1>0, <1>1 DEF CallInv, QueryPoints
<1>3. frame[t].j \in Nat /\ f.j \in Nat
  BY <1>0, LocalsTypes, FrameTyped
<1>4. StackInv(t)'
  BY <1>1, <1>3, StackStays
<1>5. PICK lo \in Nat : lo = Origin(t)
  BY <1>1, OriginStep
<1>6. PICK hi \in Nat : hi = Origin(t)' /\ lo <= hi
  BY <1>1, <1>5, OriginStep
<1>7. PassedAt(p, f, hi)'
  <2>1. PassedAt(p, f, lo) /\ f.val \in Keys
    BY <1>0, <1>5
  <2> QED
    BY <1>6, <2>1, PassedAtStays
<1>8. FrameInv(t)'
  BY <1>6, <1>7, FrameWillBe
<1> QED
  BY <1>2, <1>4, <1>8 DEF ThreadInv

\* A step of an insertTable after which its point and its frame say what was true before.
LEMMA QuietStep ==
  ASSUME NEW t \in Threads, Good(t), UNCHANGED call, pc[t] \in InsertPoints,
         NEW p \in InsertPoints, p = pc'[t], NEW f \in Frames, f = frame'[t],
         f.ent = frame[t].ent, f.val = frame[t].val, PassedAt(p, f, Origin(t)),
         f.j < cur \/ (f.j <= cur /\ f.i = 0 /\ p \notin ProbePoints), frame[t].j <= f.j,
         CopyCaller(t, Head(stack[t])) => ~f.doCopy /\ p \notin CopyPoints,
         FrameAt(p, f), p \in {"copy", "count"} => start' = start
  PROVE  ThreadInv(t)'
<1>1. f.val \in Keys
  BY ThreadIs, PointsAre DEF ThreadTyped
<1>2. p \in Points
  BY PointsAre
<1>3. FrameAt(p, f)'
  BY <1>1, <1>2, FrameAtStays
<1>4. f.j < cur \/ (f.j <= cur /\ f.i = 0)
  OBVIOUS
<1> QED
  BY <1>3, <1>4, WithinStep

\* What an insert has passed when it goes on to its next probe.
LEMMA PassedNext ==
  ASSUME NEW k, NEW lo \in Nat, NEW jj \in Nat, NEW n \in Attempts,
         PassedTo(k, lo, jj, n), Other(Probe(k, n, jj), k)
  PROVE  /\ PassedTo(k, lo, jj, n + 1)
         /\ n + 1 = HashAttempts => PassedTo(k, lo, jj + 1, 0)
<1>0. n \in Nat /\ \A m \in Attempts : m \in Nat /\ m < HashAttempts
  BY HashtableSmartLazyAssumption DEF Attempts
<1>1. ASSUME NEW j2 \in 0 .. jj, NEW m \in Attempts, lo <= j2, Before(j2, m, jj, n + 1)
      PROVE  Other(Probe(k, m, j2), k)
  <2>1. CASE Before(j2, m, jj, n)
    BY <1>1, <2>1 DEF PassedTo
  <2>2. CASE ~Before(j2, m, jj, n)
    <3>1. j2 = jj /\ m = n
      BY <1>0, <1>1, <2>2 DEF Before
    <3> QED
      BY <3>1
  <2> QED
    BY <2>1, <2>2
<1>2. ASSUME n + 1 = HashAttempts, NEW j2 \in 0 .. jj + 1, NEW m \in Attempts, lo <= j2,
             Before(j2, m, jj + 1, 0)
      PROVE  Other(Probe(k, m, j2), k)
  <2>1. j2 \in 0 .. jj /\ Before(j2, m, jj, n + 1)
    BY <1>0, <1>2 DEF Before
  <2> QED
    BY <1>1, <1>2, <2>1
<1> QED
  BY <1>1, <1>2 DEF PassedTo

\* The next probe of an insertTable.
LEMMA NextWithin ==
  ASSUME NEW t \in Threads, Good(t), pc[t] \in {"lookup", "setPtr", "start", "retire", "claim"},
         NextAttempt(t, "lookup", "table"), Other(Probed(t), frame[t].val)
  PROVE  ThreadInv(t)'
<1>0. /\ pc[t] \in ProbePoints /\ pc[t] \in InsertPoints
      /\ Typed /\ InOrder /\ cur \in Nat
      /\ FrameAt(pc[t], frame[t]) /\ PassedAt(pc[t], frame[t], Origin(t))
  BY ThreadIs, WindowStep DEF ProbePoints, InsertPoints, CopyPoints
<1>1. PICK k \in Keys, n \in Attempts, jj \in Nat :
        k = frame[t].val /\ n = frame[t].i /\ jj = frame[t].j /\ jj < cur
  BY <1>0, ProbedIs
<1>2. /\ UNCHANGED call /\ frame'[t].val = k /\ frame'[t].ent = frame[t].ent
      /\ frame'[t] \in Frames
      /\ \/ /\ pc'[t] = "lookup" /\ frame'[t].i = n + 1 /\ frame'[t].j = jj /\ n + 1 \in Attempts
            /\ frame'[t].doCopy = frame[t].doCopy
         \/ /\ pc'[t] = "table" /\ n + 1 = HashAttempts /\ frame'[t].i = 0
            /\ frame'[t].j = jj + 1 /\ frame'[t].doCopy = FALSE
  <2>1. "lookup" \in Points /\ "table" \in Points
    BY DEF Points
  <2>2. /\ LocalsOf(t) /\ UNCHANGED call
        /\ frame'[t].val = frame[t].val /\ frame'[t].ent = frame[t].ent
        /\ \/ /\ pc'[t] = "lookup" /\ frame[t].i + 1 \in Attempts
              /\ frame'[t].i = frame[t].i + 1 /\ frame'[t].j = frame[t].j
              /\ frame'[t].doCopy = frame[t].doCopy
           \/ /\ pc'[t] = "table" /\ frame[t].i + 1 = HashAttempts /\ frame'[t].i = 0
              /\ frame'[t].j = frame[t].j + 1 /\ frame'[t].doCopy = FALSE
    BY <1>0, <2>1, NextEffect
  <2>3. frame'[t] \in Frames
    BY <2>2 DEF LocalsOf
  <2> QED
    BY <1>1, <2>2, <2>3
<1>3. PICK f \in Frames : f = frame'[t]
  BY <1>2
<1>4. PICK p : p = pc'[t]
  OBVIOUS
<1>5. PICK lo \in Nat : lo = Origin(t)
  BY <1>2, OriginStep DEF call
<1>6. PassedTo(k, lo, jj, n) /\ Other(Probe(k, n, jj), k)
  <2>1. ProbeOf(frame[t]) = Probe(k, n, jj) /\ Probed(t) = ProbeOf(frame[t])
    BY <1>0, <1>1, ProbedIs DEF ProbeOf
  <2> QED
    BY <1>0, <1>1, <1>5, <2>1 DEF PassedAt
<1>7. PassedTo(k, lo, jj, n + 1) /\ (n + 1 = HashAttempts => PassedTo(k, lo, jj + 1, 0))
  BY <1>6, PassedNext
<1>8. /\ p \in InsertPoints /\ p \notin CopyPoints /\ p \notin {"copy", "count"}
      /\ p \in {"lookup", "table"} /\ jj <= f.j
      /\ f.j < cur \/ (f.j <= cur /\ f.i = 0 /\ p \notin ProbePoints)
  BY <1>0, <1>1, <1>2, <1>3, <1>4
  DEF InsertPoints, CopyPoints, ProbePoints, DonePoints
<1>9. PassedAt(p, f, lo)
  BY <1>2, <1>3, <1>4, <1>7 DEF PassedAt
<1>10. FrameAt(p, f)
  <2>1. val[f.ent] = f.val
    BY <1>0, <1>1, <1>2, <1>3 DEF FrameAt
  <2>2. f.doCopy => f.j <= start /\ f.j + 1 < cur
    BY <1>0, <1>1, <1>2, <1>3 DEF FrameAt
  <2>3. p = "table" => f.i = 0 /\ f.j <= cur /\ ~f.doCopy
    BY <1>0, <1>1, <1>2, <1>3, <1>4
  <2> QED
    BY <1>8, <2>1, <2>2, <2>3 DEF FrameAt
<1>11. CopyCaller(t, Head(stack[t])) => ~f.doCopy
  BY <1>2, <1>3 DEF CopyCaller
<1> QED
  BY <1>0, <1>1, <1>2, <1>3, <1>4, <1>5, <1>8, <1>9, <1>10, <1>11, QuietStep

\* A copy ends when its insert returns: its entry is found above head->start.
LEMMA CopyReturns ==
  ASSUME NEW t \in Threads, Good(t), NEW g \in CallerFrames, stack[t] # <<>>,
         g = Head(stack[t]), CopyCaller(t, g), NEW e, e = frame[t].ent,
         Finds(e, start + 1, 0, cur)', frame'[t] = g, pc'[t] = "count"
  PROVE  /\ start' = start /\ g.val \in Keys /\ FrameAt("count", g)'
         /\ \A hi \in Nat : start <= hi => PassedAt("count", g, hi)'
<1>0. /\ Typed /\ InOrder /\ start \in Nat /\ cur \in Nat /\ cur' \in Nat /\ cur <= cur'
      /\ FrameAt(pc[t], frame[t]) /\ ThreadTyped(t)
  BY WindowStep, ThreadIs DEF Good
<1>1. start' = start
  BY StartStays DEF IsPending, CopyCaller
<1>2. PICK k \in Keys, n \in Attempts, jj \in 0 .. Len(SubTables) - 1 :
        k = g.val /\ n = g.i /\ jj = g.j /\ jj < cur /\ jj \in Nat
  BY <1>0, CallerTyped
<1>3. /\ Probe(k, n, jj) = [ent |-> e, bool |-> 1] /\ PassedTo(k, start, jj, n)
      /\ jj = start /\ g.exStart = start /\ g.doCopy /\ start + 1 < cur
      /\ frame[t].val # k /\ val[g.ent] = k /\ pc[t] \in InsertPoints
  BY <1>2 DEF CopyCaller, ProbeOf
<1>4. Probe(k, n, jj)' = [ent |-> e, bool |-> 1]
  BY <1>3, ProbeStep
<1>5. e \in Entries /\ val[e] # k /\ e # NULL
  BY <1>0, <1>3, PointsAre, HashtableSmartLazyAssumption DEF FrameAt, ThreadTyped
<1>6. ProbeOf(g)' = [ent |-> e, bool |-> 1]
  BY <1>2, <1>4 DEF ProbeOf
<1>7. Other(ProbeOf(g), g.val)'
  BY <1>2, <1>5, <1>6 DEF Other, HasKey, Null
<1>8. FrameAt("count", g)'
  <2>1. ProbeOf(g)'.bool = 1 /\ g.j = start' /\ g.exStart = start'
    BY <1>1, <1>2, <1>3, <1>6
  <2>2. g.j <= start' /\ g.j + 1 < cur' /\ g.doCopy /\ val[g.ent] = g.val
    BY <1>0, <1>1, <1>2, <1>3
  <2>3. Finds(ProbeOf(g).ent, start + 1, 0, cur)'
    BY <1>6 DEF Finds, Clear, Before
  <2> QED
    BY <1>7, <2>1, <2>2, <2>3 DEF FrameAt, InsertPoints, CopyPoints
<1>9. ASSUME NEW hi \in Nat, start <= hi
      PROVE  PassedAt("count", g, hi)'
  <2>1. PassedTo(k, hi, jj, n)'
    BY <1>0, <1>2, <1>3, <1>9, PassedStays
  <2> QED
    BY <1>2, <2>1 DEF PassedAt
<1> QED
  BY <1>1, <1>2, <1>8, <1>9

\* The return to the harness, or to the caller on the stack.
LEMMA ReturnThread ==
  ASSUME NEW t \in Threads, Good(t), NEW r \in {0, 1}, Return(t, r), NEW e, e = frame[t].ent,
         stack[t] # <<>> /\ CopyCaller(t, Head(stack[t])) => Finds(e, start + 1, 0, cur)'
  PROVE  ThreadInv(t)'
<1>0. /\ Typed /\ InOrder /\ start \in Nat /\ start' \in Nat /\ start <= start'
      /\ CallInv(t) /\ StackInv(t) /\ ThreadTyped(t)
  BY WindowStep, ThreadIs DEF Good
<1>1. CASE stack[t] = <<>>
  <2>1. /\ pc'[t] = "idle" /\ op'[t] = "none" /\ frame'[t] = NoFrame /\ stack'[t] = <<>>
    BY <1>0, <1>1, ReturnEffect
  <2>2. CallInv(t)'
    BY <2>1 DEF CallInv, InsertPoints, DonePoints, CopyPoints, QueryPoints
  <2>3. StackInv(t)'
    BY <2>1 DEF StackInv
  <2>4. FrameAt("idle", NoFrame)'
    BY DEF FrameAt, InsertPoints, CopyPoints
  <2>5. PICK lo : lo = Origin(t)'
    OBVIOUS
  <2>6. PassedAt("idle", NoFrame, lo)'
    BY DEF PassedAt, InsertPoints, CopyPoints
  <2>7. FrameInv(t)'
    BY <2>1, <2>4, <2>5, <2>6, FrameWillBe
  <2> QED
    BY <2>2, <2>3, <2>7 DEF ThreadInv
<1>2. CASE stack[t] # <<>>
  <2>1. PICK g \in CallerFrames :
           /\ g = Head(stack[t]) /\ pc[t] \in InsertPoints
           /\ \/ stack[t] = <<g>> /\ Tail(stack[t]) = <<>> /\ CopyCaller(t, g)
              \/ stack[t] = <<g>> /\ Tail(stack[t]) = <<>> /\ AgainCaller(t, g, frame[t])
              \/ \E d \in CallerFrames : /\ stack[t] = <<g, d>> /\ Tail(stack[t]) = <<d>>
                                         /\ CopyCaller(t, g) /\ AgainCaller(t, d, g)
    BY <1>0, <1>2, StackIs
  <2>2. /\ pc'[t] = g.back /\ frame'[t] = g /\ stack'[t] = Tail(stack[t])
        /\ op'[t] = op[t] /\ key'[t] = key[t]
    BY <1>0, <1>2, <2>1, ReturnEffect
  <2>3. op[t] = "insert" /\ key[t] \in Keys
    BY <1>0, <2>1, PointsAre DEF CallInv
  <2>4. CASE CopyCaller(t, g)
    <3>1. pc'[t] = "count" /\ g.val = key[t]
      BY <2>2, <2>4 DEF CopyCaller
    <3>2. /\ start' = start /\ g.val \in Keys /\ FrameAt("count", g)'
          /\ \A hi \in Nat : start <= hi => PassedAt("count", g, hi)'
      BY <1>2, <2>1, <2>2, <2>4, <3>1, CopyReturns
    <3>3. CallInv(t)'
      BY <2>2, <2>3, <3>1 DEF CallInv, InsertPoints, DonePoints, CopyPoints, QueryPoints
    <3>4. \/ stack'[t] = <<>>
          \/ \E d \in CallerFrames : stack'[t] = <<d>> /\ AgainCaller(t, d, g)
      BY <2>1, <2>2, <2>4 DEF CopyCaller, AgainCaller
    <3>5. StackInv(t)'
      <4>1. CASE stack'[t] = <<>>
        BY <4>1 DEF StackInv
      <4>2. CASE \E d \in CallerFrames : stack'[t] = <<d>> /\ AgainCaller(t, d, g)
        <5>1. PICK d \in CallerFrames : stack'[t] = <<d>> /\ AgainCaller(t, d, g)
          BY <4>2
        <5>2. g.j \in Nat /\ g.j <= g.j
          BY <1>0, CallerTyped
        <5>3. AgainCaller(t, d, g)'
          BY <2>2, <5>1, <5>2, AgainCallerStays
        <5>4. pc'[t] \in InsertPoints
          BY <3>1 DEF InsertPoints, CopyPoints
        <5> QED
          BY <2>2, <5>1, <5>3, <5>4, StackWillBe
      <4> QED
        BY <3>4, <4>1, <4>2
    <3>6. PICK hi \in Nat : hi = Origin(t)' /\ start <= hi
      BY <1>0 DEF Origin
    <3>7. FrameInv(t)'
      BY <2>2, <3>1, <3>2, <3>6, FrameWillBe
    <3> QED
      BY <3>3, <3>5, <3>7 DEF ThreadInv
  <2>5. CASE AgainCaller(t, g, frame[t]) /\ stack'[t] = <<>>
    <3>1. pc'[t] = "dComp" /\ g.val = key[t]
      BY <2>2, <2>5 DEF AgainCaller
    <3>2. CallInv(t)'
      BY <2>2, <2>3, <2>5, <3>1 DEF CallInv, InsertPoints, DonePoints, CopyPoints, QueryPoints
    <3>3. StackInv(t)'
      BY <2>5 DEF StackInv
    <3>4. FrameAt("dComp", g)'
      BY DEF FrameAt, InsertPoints, CopyPoints
    <3>5. PICK lo : lo = Origin(t)'
      OBVIOUS
    <3>6. PassedAt("dComp", g, lo)'
      BY DEF PassedAt, InsertPoints, CopyPoints
    <3>7. FrameInv(t)'
      BY <2>2, <3>1, <3>4, <3>5, <3>6, FrameWillBe
    <3> QED
      BY <3>2, <3>3, <3>7 DEF ThreadInv
  <2> QED
    BY <2>1, <2>2, <2>4, <2>5
<1> QED
  BY <1>1, <1>2

\* A call begins at head->start.
LEMMA CallThread ==
  ASSUME NEW t \in Threads, Good(t), pc[t] = "idle", CallInsert(t) \/ CallQuery(t) \/ CallDelete(t)
  PROVE  ThreadInv(t)'
<1>0. /\ Typed /\ InOrder /\ start \in Nat /\ cur \in Nat /\ start < cur
      /\ CallInv(t) /\ stack[t] = <<>> /\ DOMAIN frame = Threads /\ DOMAIN op = Threads
      /\ DOMAIN key = Threads /\ DOMAIN pc = Threads
  BY WindowStep, ThreadIs, LocalsTypes DEF CallInv, InsertPoints, CopyPoints
<1>1. PICK o \in {"insert", "query", "delete"}, k \in Keys, e \in Entries \cup {NULL},
        label \in {"table", "qtable"} :
          /\ Start(t, o, k, e, label)
          /\ IF o = "insert" THEN label = "table" /\ e \in Entries /\ k = val[e]
                             ELSE label = "qtable"
  <2>1. CASE CallInsert(t)
    <3>1. PICK e \in Entries \ Referenced : Start(t, "insert", val[e], e, "table")
      BY <2>1 DEF CallInsert
    <3>2. val[e] \in Keys
      BY DEF Keys
    <3> QED
      BY <3>1, <3>2
  <2>2. CASE CallQuery(t)
    BY <2>2 DEF CallQuery
  <2>3. CASE CallDelete(t)
    BY <2>3 DEF CallDelete
  <2> QED
    BY <1>0, <2>1, <2>2, <2>3
<1>2. /\ pc'[t] = label /\ op'[t] = o /\ key'[t] = k /\ start' = start /\ cur' = cur
      /\ stack'[t] = <<>> /\ frame'[t].val = k /\ frame'[t].ent = e /\ frame'[t].j = start
      /\ frame'[t].i = 0 /\ frame'[t].doCopy = FALSE
  BY <1>0, <1>1 DEF Start, Goto, NoFrame
<1>3. PICK f : f = frame'[t]
  OBVIOUS
<1>4. PICK p : p = pc'[t]
  OBVIOUS
<1>5. CallInv(t)'
  BY <1>1, <1>2 DEF CallInv, InsertPoints, DonePoints, CopyPoints, QueryPoints
<1>6. StackInv(t)'
  BY <1>2 DEF StackInv
<1>7. PICK lo \in Nat : lo = start
  BY <1>0
<1>8. PassedAt(p, f, lo)'
  <2>1. PassedTo(k, lo, lo, 0)'
    <3>1. \A j2 \in 0 .. lo, m \in Attempts : ~(lo <= j2 /\ Before(j2, m, lo, 0))
      BY DEF Before, Attempts
    <3> QED
      BY <3>1 DEF PassedTo, Before
  <2> QED
    BY <1>2, <1>3, <1>7, <2>1 DEF PassedAt
<1>9. FrameAt(p, f)'
  BY <1>0, <1>1, <1>2, <1>3, <1>4 DEF FrameAt, InsertPoints, CopyPoints
<1>10. Origin(t)' = lo
  BY <1>2, <1>7 DEF Origin
<1>11. FrameInv(t)'
  BY <1>3, <1>4, <1>8, <1>9, <1>10, FrameWillBe
<1> QED
  BY <1>5, <1>6, <1>11 DEF ThreadInv

\* lookup calls insertTable for the entry of the slot it looks at.
LEMMA CallAgainThread ==
  ASSUME NEW t \in Threads, Good(t), NEW back \in {"dComp", "count"},
         CallAgain(t, Probed(t).ent, back), UNCHANGED shared, Probed(t).bool = 1,
         \/ pc[t] = "undeleted" /\ back = "dComp"
         \/ pc[t] = "copy" /\ back = "count"
  PROVE  ThreadInv(t)'
<1>0. /\ Typed /\ InOrder /\ start \in Nat /\ cur \in Nat /\ start < cur /\ pc[t] \in ProbePoints
      /\ CallInv(t) /\ StackInv(t) /\ FrameAt(pc[t], frame[t])
      /\ PassedAt(pc[t], frame[t], Origin(t)) /\ pc[t] # "idle"
      /\ start' = start /\ cur' = cur /\ SubTables' = SubTables
  BY WindowStep, ThreadIs DEF Good, ProbePoints, CopyPoints, DonePoints, shared
<1>1. PICK k \in Keys, n \in Attempts, jj \in 0 .. Len(SubTables) - 1 :
        k = frame[t].val /\ n = frame[t].i /\ jj = frame[t].j /\ jj < cur /\ jj \in Nat
        /\ Probed(t) = Probe(k, n, jj)
  BY <1>0, ProbedIs DEF ProbeOf
<1>2. PICK e \in Entries : e = Probed(t).ent /\ val[e] \in Keys
  BY <1>0, CallAgainEffect
<1>3. Probed(t) = [ent |-> e, bool |-> 1]
  BY <1>0, <1>1, <1>2, ProbeTyped DEF Pointers, Null
<1>4. /\ op'[t] = op[t] /\ key'[t] = key[t] /\ pc'[t] = "table"
      /\ frame'[t].val = val[e] /\ frame'[t].ent = e /\ frame'[t].j = start + 1
      /\ frame'[t].i = 0 /\ frame'[t].doCopy = FALSE
  BY <1>0, <1>2, CallAgainEffect
<1>5. \E f \in CallerFrames :
        /\ f.back = back /\ f.exStart = start /\ stack'[t] = <<f>> \o stack[t]
        /\ f.val = frame[t].val /\ f.ent = frame[t].ent /\ f.ht = frame[t].ht
        /\ f.j = frame[t].j /\ f.i = frame[t].i /\ f.doCopy = frame[t].doCopy
  <2>1. /\ pc[t] \in {"undeleted", "copy"} /\ Typed /\ back \in {"dComp", "count"}
        /\ CallAgain(t, Probed(t).ent, back)
    BY <1>0
  <2> QED
    BY <2>1, CallerPushed, Zenon
<1>6. PICK g \in CallerFrames :
        /\ g.back = back /\ g.exStart = start /\ stack'[t] = <<g>> \o stack[t]
        /\ g.val = k /\ g.ent = frame[t].ent /\ g.j = jj /\ g.i = n
        /\ g.doCopy = frame[t].doCopy
  BY <1>1, <1>5
<1>7. ProbeOf(g)' = [ent |-> e, bool |-> 1]
  BY <1>0, <1>1, <1>3, <1>6, Zenon DEF ProbeOf, Probe, Slot, Bucket
<1>8. PICK f : f = frame'[t]
  OBVIOUS
<1>9. op[t] = "insert" /\ key[t] \in Keys
  BY <1>0 DEF CallInv, InsertPoints, CopyPoints, DonePoints
<1>10. CASE pc[t] = "undeleted" /\ back = "dComp"
  <2>1. stack[t] = <<>> /\ frame[t].val = key[t]
    BY <1>0, <1>10 DEF CallInv, InsertPoints, CopyPoints
  <2>2. stack'[t] = <<g>>
    BY <1>6, <2>1
  <2>3. val[e] = k
    <3>1. ProbeOf(frame[t]) = Probed(t)
      BY <1>0, ProbedIs
    <3> QED
      BY <1>0, <1>1, <1>2, <1>10, <3>1 DEF FrameAt, HasKey
  <2>4. AgainCaller(t, g, f)'
    BY <1>0, <1>1, <1>4, <1>6, <1>7, <1>8, <1>10, <2>1, <2>3 DEF AgainCaller
  <2> QED
    <3>1. pc'[t] \in InsertPoints
      BY <1>4 DEF InsertPoints
    <3>2. StackInv(t)'
      BY <1>8, <2>2, <2>4, <3>1, StackWillBe
    <3>3. CallInv(t)'
      BY <1>4, <1>9, <2>2 DEF CallInv, InsertPoints, DonePoints, CopyPoints, QueryPoints
    <3>4. Origin(t)' = start + 1
      BY <1>0, <1>6, <2>2 DEF Origin
    <3>5. ThreadInv(t)' <=> FrameInv(t)'
      BY <3>2, <3>3 DEF ThreadInv
    <3>6. PICK lo \in Nat : lo = start + 1
      BY <1>0
    <3>7. PICK p : p = pc'[t]
      OBVIOUS
    <3>8. PassedAt(p, f, lo)'
      BY <1>4, <1>8, <3>6, <3>7 DEF PassedAt, PassedTo, Before, Attempts
    <3>9. FrameAt(p, f)'
      BY <1>0, <1>4, <1>8, <3>7 DEF FrameAt, InsertPoints, CopyPoints
    <3>10. FrameInv(t)'
      BY <1>8, <3>4, <3>6, <3>7, <3>8, <3>9, FrameWillBe
    <3> QED
      BY <3>5, <3>10
<1>11. CASE pc[t] = "copy" /\ back = "count"
  <2>1. /\ frame[t].doCopy /\ Other(ProbeOf(frame[t]), frame[t].val) /\ jj = start
        /\ jj + 1 < cur /\ val[frame[t].ent] = k
    BY <1>0, <1>1, <1>11 DEF FrameAt, InsertPoints, CopyPoints
  <2>2. val[e] # k
    <3>1. ProbeOf(frame[t]) = Probed(t)
      BY <1>0, ProbedIs
    <3> QED
      BY <1>1, <1>2, <2>1, <3>1 DEF Other, HasKey
  <2>3. PassedTo(k, Origin(t), jj, n)
    BY <1>0, <1>1, <1>11 DEF PassedAt, InsertPoints, CopyPoints
  <2>4. \/ stack[t] = <<>> /\ frame[t].val = key[t]
        \/ \E d \in CallerFrames : stack[t] = <<d>> /\ AgainCaller(t, d, frame[t])
    <3>1. ASSUME NEW d, CopyCaller(t, d)
          PROVE  FALSE
      BY <1>11, <3>1 DEF CopyCaller, CopyPoints
    <3>2. stack[t] = <<>> => frame[t].val = key[t]
      BY <1>0 DEF CallInv
    <3> QED
      BY <1>0, <3>1, <3>2, StackIs
  <2>5. k = key[t] /\ PassedTo(k, start, jj, n)
    <3>1. CASE stack[t] = <<>>
      <4>1. Origin(t) = start
        BY <3>1 DEF Origin
      <4>2. frame[t].val = key[t]
        BY <1>0, <3>1 DEF CallInv
      <4> QED
        BY <1>1, <2>3, <4>1, <4>2
    <3>2. CASE \E d \in CallerFrames : stack[t] = <<d>> /\ AgainCaller(t, d, frame[t])
      <4>1. PICK d \in CallerFrames : stack[t] = <<d>> /\ AgainCaller(t, d, frame[t])
        BY <3>2
      <4>2. Head(stack[t]) = d /\ stack[t] # <<>> /\ d.exStart \in Nat
        BY <1>0, <4>1, CallerTyped
      <4>3. d.exStart # start
        BY <1>0, <1>1, <2>1, <4>1, <4>2 DEF AgainCaller
      <4>4. Origin(t) = start
        BY <4>2, <4>3 DEF Origin
      <4> QED
        BY <1>1, <2>3, <4>1, <4>4 DEF AgainCaller
    <3> QED
      BY <2>4, <3>1, <3>2
  <2>6. PassedTo(g.val, start, g.j, g.i)'
    <3>1. PICK lo \in Nat : lo = start
      BY <1>0
    <3>2. PassedTo(k, lo, jj, n)'
      BY <1>1, <2>5, <3>1, PassedStays
    <3> QED
      BY <1>0, <1>6, <3>1, <3>2
  <2>7. CopyCaller(t, g)'
    <3>1. pc'[t] \in InsertPoints \ CopyPoints
      BY <1>4 DEF InsertPoints, CopyPoints
    <3>2. /\ g.back = "count" /\ g.j = start' /\ g.exStart = start' /\ g.doCopy
          /\ start' + 1 < cur' /\ start' < frame'[t].j /\ ~frame'[t].doCopy
          /\ frame'[t].val # g.val /\ g.val = key'[t] /\ val[g.ent] = key'[t]
          /\ ProbeOf(g)' = [ent |-> frame'[t].ent, bool |-> 1]
      BY <1>0, <1>1, <1>4, <1>6, <1>7, <1>11, <2>1, <2>2, <2>5
    <3> QED
      BY <2>6, <3>1, <3>2 DEF CopyCaller
  <2>8. \/ stack'[t] = <<g>>
        \/ \E d \in CallerFrames : stack'[t] = <<g, d>> /\ AgainCaller(t, d, g)'
    <3>1. CASE stack[t] = <<>>
      BY <1>6, <3>1
    <3>2. CASE \E d \in CallerFrames : stack[t] = <<d>> /\ AgainCaller(t, d, frame[t])
      <4>1. PICK d \in CallerFrames : stack[t] = <<d>> /\ AgainCaller(t, d, frame[t])
        BY <3>2
      <4>2. <<g>> \o <<d>> = <<g, d>>
        BY PushTwo
      <4>3. PICK f0 : f0 = frame[t]
        OBVIOUS
      <4>4. AgainCaller(t, d, g)'
        <5>1. g.val = f0.val /\ g.ent = f0.ent /\ f0.j \in Nat /\ g.j \in Nat /\ f0.j <= g.j
          BY <1>1, <1>6, <4>3
        <5> QED
          BY <1>4, <4>1, <4>3, <5>1, AgainCallerStays
      <4> QED
        BY <1>6, <4>1, <4>2, <4>4
    <3> QED
      BY <2>4, <3>1, <3>2
  <2> QED
    <3>1. pc'[t] \in InsertPoints
      BY <1>4 DEF InsertPoints
    <3>2. StackInv(t)'
      BY <1>8, <2>7, <2>8, <3>1, StackWillBe
    <3>3. stack'[t] # <<>> /\ Head(stack'[t]) = g
      <4>1. \A d : <<g, d>> # <<>> /\ Head(<<g, d>>) = g
        OBVIOUS
      <4>2. <<g>> # <<>> /\ Head(<<g>>) = g
        OBVIOUS
      <4> QED
        BY <2>8, <4>1, <4>2
    <3>4. CallInv(t)'
      BY <1>4, <1>9, <3>3 DEF CallInv, InsertPoints, DonePoints, CopyPoints, QueryPoints
    <3>5. Origin(t)' = start + 1
      BY <1>0, <1>6, <3>3 DEF Origin
    <3>6. PICK lo \in Nat : lo = start + 1
      BY <1>0
    <3>7. PICK p : p = pc'[t]
      OBVIOUS
    <3>8. PassedAt(p, f, lo)'
      BY <1>4, <1>8, <3>6, <3>7 DEF PassedAt, PassedTo, Before, Attempts
    <3>9. FrameAt(p, f)'
      BY <1>0, <1>4, <1>8, <3>7 DEF FrameAt, InsertPoints, CopyPoints
    <3>10. FrameInv(t)'
      BY <1>8, <3>5, <3>6, <3>7, <3>8, <3>9, FrameWillBe
    <3> QED
      BY <3>2, <3>4, <3>10 DEF ThreadInv
<1> QED
  BY <1>10, <1>11

\* An insert called for a copy that finds its key finds the entry that it copies.
LEMMA NestedFinds ==
  ASSUME NEW t \in Threads, Good(t), pc[t] \in {"lookup", "claim"}, stack[t] # <<>>,
         NEW g \in CallerFrames, g = Head(stack[t]), CopyCaller(t, g),
         HasKey(Probed(t), frame[t].val), NEW e, e = frame[t].ent
  PROVE  Finds(e, start + 1, 0, cur)'
<1>0. /\ Typed /\ Deep /\ InOrder /\ start \in Nat /\ cur \in Nat /\ start < cur /\ cur' \in Nat
      /\ cur <= cur' /\ cur <= Len(SubTables) /\ Len(SubTables) \in Nat
      /\ pc[t] \in ProbePoints /\ pc[t] \in InsertPoints
      /\ FrameAt(pc[t], frame[t]) /\ PassedAt(pc[t], frame[t], Origin(t)) /\ ThreadTyped(t)
  BY WindowStep, ThreadIs DEF Good, ProbePoints, InsertPoints
<1>1. PICK k \in Keys, n \in Attempts, jj \in start .. cur - 1 :
        k = frame[t].val /\ n = frame[t].i /\ jj = frame[t].j /\ jj \in Nat /\ start < jj
  BY <1>0, ProbedIs DEF CopyCaller
<1>2. PICK x \in Places(jj) : Probed(t) = At(jj, x) /\ Probed(t) = Probe(k, n, jj)
  BY <1>0, <1>1, ProbedIs DEF ProbeOf
<1>3. e \in Entries /\ val[e] = k
  BY <1>0, <1>1, PointsAre DEF FrameAt, ThreadTyped
<1>4. PICK y \in Places(start) : At(start, y) = [ent |-> e, bool |-> 1]
  <2>1. g.val \in Keys /\ g.i \in Attempts /\ g.j = start /\ g.j \in 0 .. Len(SubTables) - 1
    BY <1>0, CallerTyped DEF CopyCaller
  <2> QED
    <3>1. PICK gk \in Keys, gn \in Attempts, gj \in 0 .. Len(SubTables) - 1 :
            gk = g.val /\ gn = g.i /\ gj = g.j /\ gj = start
      BY <2>1
    <3>2. /\ Bucket(gk, gn, SubTables[gj + 1]) \in Places(gj)
          /\ Probe(gk, gn, gj) = At(gj, Bucket(gk, gn, SubTables[gj + 1]))
      BY <1>0, ProbeTyped
    <3>3. Probe(gk, gn, gj) = [ent |-> e, bool |-> 1]
      BY <3>1 DEF CopyCaller, ProbeOf
    <3> QED
      BY <3>1, <3>2, <3>3
<1>5. At(jj, x).ent = e
  <2>1. start \in start .. cur - 1
    BY <1>0
  <2>2. At(start, y) # Null /\ At(start, y).ent = e
    BY <1>3, <1>4, HashtableSmartLazyAssumption DEF Null
  <2>3. At(jj, x) # Null /\ val[At(jj, x).ent] = k
    BY <1>1, <1>2 DEF HasKey
  <2>4. SameEntry
    BY <1>0 DEF Deep
  <2> QED
    BY <1>1, <1>3, <2>1, <2>2, <2>3, <2>4 DEF SameEntry
<1>6. PICK lo \in Nat : lo = start + 1 /\ lo <= jj
  BY <1>0, <1>1
<1>7. PassedTo(k, lo, jj, n)
  <2>1. Origin(t) = lo
    BY <1>6 DEF Origin, CopyCaller
  <2> QED
    BY <1>0, <1>1, <2>1 DEF PassedAt
<1>8. Finds(e, lo, 0, cur)
  <2>1. jj < cur /\ Probe(val[e], n, jj).ent = e
    BY <1>0, <1>1, <1>2, <1>3, <1>5
  <2>2. PassedTo(val[e], lo, jj, n)
    BY <1>3, <1>7
  <2> QED
    BY <1>0, <1>1, <1>3, <1>6, <2>1, <2>2, ClearFinds
<1>9. PICK hi \in Nat : hi = cur' /\ cur <= hi
  BY <1>0
<1>10. Finds(e, lo, 0, hi)'
  BY <1>0, <1>3, <1>8, <1>9, FirstAttempt, FindsStays
<1>11. start' = start
  BY StartStays DEF IsPending, CopyCaller
<1> QED
  BY <1>6, <1>9, <1>10, <1>11, FindsWillAbove

\* The locals of an insertTable at a point where it probes.
LEMMA InsertIs ==
  ASSUME NEW t \in Threads, Good(t), pc[t] \in InsertPoints
  PROVE  /\ Typed /\ InOrder /\ start \in Nat /\ cur \in Nat /\ cur' \in Nat /\ start < cur
         /\ cur <= cur' /\ CallInv(t) /\ StackInv(t) /\ ThreadTyped(t)
         /\ FrameAt(pc[t], frame[t]) /\ PassedAt(pc[t], frame[t], Origin(t))
         /\ frame[t] \in Frames /\ frame[t].j \in Nat /\ frame[t].val \in Keys
         /\ frame[t].i \in Attempts /\ frame[t].doCopy \in BOOLEAN
         /\ PassedTo(frame[t].val, Origin(t), frame[t].j, frame[t].i)
         /\ val[frame[t].ent] = frame[t].val
         /\ frame[t].doCopy => frame[t].j <= start /\ frame[t].j + 1 < cur
         /\ DOMAIN pc = Threads /\ DOMAIN frame = Threads
         /\ pc[t] \in ProbePoints => /\ frame[t].j < cur /\ frame[t].j \in 0 .. Len(SubTables) - 1
                                     /\ Probed(t) = ProbeOf(frame[t])
<1>1. /\ Typed /\ InOrder /\ start \in Nat /\ cur \in Nat /\ cur' \in Nat /\ start < cur
      /\ cur <= cur' /\ CallInv(t) /\ StackInv(t) /\ ThreadTyped(t)
      /\ FrameAt(pc[t], frame[t]) /\ PassedAt(pc[t], frame[t], Origin(t))
  BY WindowStep, ThreadIs DEF Good
<1>2. /\ frame[t] \in Frames /\ frame[t].j \in Nat /\ frame[t].val \in Keys
      /\ frame[t].i \in Attempts /\ frame[t].doCopy \in BOOLEAN
      /\ DOMAIN pc = Threads /\ DOMAIN frame = Threads
  BY <1>1, LocalsTypes, FrameTyped, PointsAre DEF ThreadTyped
<1>3. pc[t] \in ProbePoints => /\ frame[t].j < cur /\ frame[t].j \in 0 .. Len(SubTables) - 1
                               /\ Probed(t) = ProbeOf(frame[t])
  BY <1>1, ProbedIs
<1>4. /\ PassedTo(frame[t].val, Origin(t), frame[t].j, frame[t].i)
      /\ val[frame[t].ent] = frame[t].val
      /\ frame[t].doCopy => frame[t].j <= start /\ frame[t].j + 1 < cur
  BY <1>1 DEF FrameAt, PassedAt
<1> QED
  BY <1>1, <1>2, <1>3, <1>4

\* A step of an insertTable that goes to another point with the same frame.
LEMMA GotoStep ==
  ASSUME NEW t \in Threads, Good(t), UNCHANGED <<call, frame>>, pc[t] \in InsertPoints,
         NEW p \in InsertPoints, p = pc'[t], NEW f, f = frame[t],
         f.j < cur \/ (f.j <= cur /\ f.i = 0 /\ p \notin ProbePoints),
         p \in CopyPoints => f.doCopy, FrameAt(p, f), p \in {"copy", "count"} => start' = start
  PROVE  ThreadInv(t)'
<1>1. f \in Frames /\ f = frame'[t] /\ f.j \in Nat /\ f.j <= f.j /\ PassedAt(p, f, Origin(t))
  BY InsertIs DEF PassedAt
<1>2. CopyCaller(t, Head(stack[t])) => ~f.doCopy /\ p \notin CopyPoints
  BY DEF CopyCaller
<1> QED
  BY <1>1, <1>2, QuietStep

\* The loop over the subtables: an entry is to be copied when its subtable is at
\* head->start and is not the last.
LEMMA InsertTableThread ==
  ASSUME NEW t \in Threads, Good(t), InsertTable(t)
  PROVE  ThreadInv(t)'
<1>0. /\ pc[t] = "table" /\ pc[t] \in InsertPoints /\ UNCHANGED call /\ start' = start
      /\ UNCHANGED shared
  BY DEF InsertTable, InsertPoints, shared
<1>1. /\ FrameAt("table", frame[t]) /\ frame[t].i = 0 /\ frame[t].j <= cur /\ ~frame[t].doCopy
  BY <1>0, InsertIs DEF FrameAt
<1>2. CASE frame[t].j < cur
  <2>1. PICK n \in Nat : n = TableArray[IndexOf(frame[t].j)]
    <3>1. IndexOf(frame[t].j) \in 0 .. MaxTables - 1 /\ Typed
      BY <1>0, InsertIs, ArrayBounds
    <3>2. /\ TableArray \in [0 .. MaxTables - 1 -> {None} \cup DOMAIN SubTables]
          /\ DOMAIN SubTables \subseteq Nat /\ None \in Nat
      BY <3>1, SubTablesTyped DEF Typed, TablesTyped, None
    <3> QED
      BY <3>1, <3>2
  <2>2. PICK c \in BOOLEAN : c = (IndexOf(frame[t].j) = IndexOf(start) /\ cur - start > 1)
    OBVIOUS
  <2>3. /\ frame' = [frame EXCEPT ![t].ht = n, ![t].doCopy = c] /\ pc'[t] = "lookup"
    BY <1>0, <1>2, <2>1, <2>2, InsertIs DEF InsertTable, Goto
  <2>4. /\ frame'[t].val = frame[t].val /\ frame'[t].ent = frame[t].ent
        /\ frame'[t].j = frame[t].j /\ frame'[t].i = frame[t].i /\ frame'[t].doCopy = c
        /\ frame'[t] \in Frames
    BY <1>0, <2>3, InsertIs DEF Frames
  <2>5. PICK f \in Frames : f = frame'[t]
    BY <2>4
  <2>6. PICK jj \in Nat : jj = frame[t].j
    BY <1>0, InsertIs
  <2>7. c => jj <= start /\ jj + 1 < cur
    <3> SUFFICES ASSUME c
                 PROVE  jj <= start /\ jj + 1 < cur
      OBVIOUS
    <3>1. start \in Nat /\ cur \in Nat /\ start < cur
      BY <1>0, InsertIs
    <3>2. CASE jj < start
      BY <3>1, <3>2
    <3>3. CASE jj \in start .. cur - 1
      <4>1. start \in start .. cur - 1
        BY <3>1
      <4>2. InLine
        BY <1>0, InsertIs DEF InOrder
      <4>3. TableArray[IndexOf(jj)] = jj + 1 /\ TableArray[IndexOf(start)] = start + 1
        BY <3>3, <4>1, <4>2 DEF InLine
      <4>4. IndexOf(jj) = IndexOf(start) /\ cur - start > 1
        BY <2>2, <2>6
      <4>5. jj + 1 = start + 1
        BY <4>3, <4>4
      <4> QED
        BY <2>6, <3>1, <4>4, <4>5
    <3> QED
      BY <1>2, <2>6, <3>1, <3>2, <3>3
  <2>8. FrameAt("lookup", f)
    BY <1>0, <2>4, <2>5, <2>6, <2>7, InsertIs DEF FrameAt, CopyPoints
  <2>9. PassedAt("lookup", f, Origin(t))
    BY <1>0, <2>4, <2>5, InsertIs DEF PassedAt
  <2>10. CopyCaller(t, Head(stack[t])) => ~f.doCopy
    <3>1. CopyCaller(t, Head(stack[t])) => start < jj
      BY <2>6 DEF CopyCaller
    <3> QED
      BY <1>0, <2>4, <2>5, <2>6, <2>7, <3>1, InsertIs
  <2>11. PICK p \in InsertPoints : p = "lookup"
    BY DEF InsertPoints
  <2>12. p \notin CopyPoints /\ p \notin {"copy", "count"}
    BY <2>11 DEF CopyPoints
  <2>13. f.j < cur /\ frame[t].j <= f.j
    BY <1>2, <2>4, <2>5, <2>6
  <2> QED
    BY <1>0, <2>3, <2>4, <2>5, <2>8, <2>9, <2>10, <2>11, <2>12, <2>13, QuietStep
<1>3. CASE ~(frame[t].j < cur)
  <2>1. frame' = frame /\ pc'[t] = "size"
    BY <1>0, <1>3, InsertIs DEF InsertTable, Goto
  <2>2. PICK p \in InsertPoints : p = "size"
    BY DEF InsertPoints
  <2>3. PICK f : f = frame[t]
    OBVIOUS
  <2>4. p \notin CopyPoints /\ p \notin ProbePoints
    BY <2>2 DEF CopyPoints, ProbePoints, DonePoints
  <2>5. FrameAt(p, f)
    BY <1>0, <1>1, <2>2, <2>3, <2>4, InsertIs DEF FrameAt
  <2> QED
    BY <1>0, <1>1, <2>1, <2>2, <2>3, <2>4, <2>5, GotoStep
<1> QED
  BY <1>2, <1>3

\* lookup.
LEMMA LookupThread ==
  ASSUME NEW t \in Threads, Good(t), lookup(t)
  PROVE  ThreadInv(t)'
<1>0. pc[t] = "lookup" /\ pc[t] \in InsertPoints /\ pc[t] \in ProbePoints
  BY DEF lookup, InsertPoints, ProbePoints
<1>1. PICK f : f = frame[t]
  OBVIOUS
<1>2. CASE Probed(t) = Null /\ Goto(t, "claim") /\ UNCHANGED <<call, frame>>
  <2>1. PICK p \in InsertPoints : p = "claim"
    BY DEF InsertPoints
  <2>2. p \notin CopyPoints /\ p = pc'[t]
    BY <1>0, <1>2, <2>1, InsertIs DEF CopyPoints, Goto
  <2>3. FrameAt(p, f)
    BY <1>0, <1>1, <2>1, <2>2, InsertIs DEF FrameAt
  <2> QED
    BY <1>0, <1>1, <1>2, <2>1, <2>2, <2>3, InsertIs, GotoStep
<1>3. CASE Live(Probed(t), frame[t].val) /\ Return(t, 0)
  <2>1. HasKey(Probed(t), frame[t].val)
    BY <1>3 DEF Live
  <2>2. PICK e : e = frame[t].ent
    OBVIOUS
  <2>3. ASSUME stack[t] # <<>>, CopyCaller(t, Head(stack[t]))
        PROVE  Finds(e, start + 1, 0, cur)'
    <3>1. PICK g \in CallerFrames : g = Head(stack[t])
      BY <1>0, <2>3, InsertIs, StackIs
    <3> QED
      BY <1>0, <2>1, <2>2, <2>3, <3>1, NestedFinds
  <2> QED
    BY <1>3, <2>2, <2>3, ReturnThread
<1>4. CASE Flagged(Probed(t), frame[t].val) /\ Goto(t, "undeleted") /\ UNCHANGED <<call, frame>>
  <2>1. stack[t] = <<>> /\ pc'[t] = "undeleted"
    BY <1>4, UndeleteIs
  <2>2. /\ stack'[t] = <<>> /\ op'[t] = op[t] /\ key'[t] = key[t] /\ frame'[t] = f
    BY <1>1, <1>4, <2>1 DEF call
  <2>3. CallInv(t)'
    BY <1>0, <1>1, <2>1, <2>2, InsertIs
    DEF CallInv, InsertPoints, DonePoints, CopyPoints, QueryPoints
  <2>4. StackInv(t)'
    BY <2>2 DEF StackInv
  <2>5. PICK p \in Points : p = "undeleted"
    BY DEF Points
  <2>6. p \notin InsertPoints /\ p \notin CopyPoints /\ p \notin {"copy", "count"}
    BY <2>5 DEF InsertPoints, CopyPoints
  <2>7. FrameAt(p, f)
    <3>1. HasKey(ProbeOf(f), f.val)
      BY <1>0, <1>1, <1>4, InsertIs DEF Flagged
    <3> QED
      BY <2>5, <2>6, <3>1 DEF FrameAt
  <2>8. FrameAt(p, f)'
    BY <1>0, <1>1, <2>6, <2>7, InsertIs, FrameAtStays
  <2>9. PICK lo : lo = Origin(t)'
    OBVIOUS
  <2>10. PassedAt(p, f, lo)'
    BY <2>6 DEF PassedAt
  <2>11. FrameInv(t)'
    BY <2>1, <2>2, <2>5, <2>8, <2>9, <2>10, FrameWillBe
  <2> QED
    BY <2>3, <2>4, <2>11 DEF ThreadInv
<1>5. CASE Other(Probed(t), frame[t].val) /\ NextAttempt(t, "lookup", "table")
  BY <1>0, <1>5, NextWithin
<1>6. CASE /\ Other(Probed(t), frame[t].val) /\ frame[t].doCopy /\ Goto(t, "setPtr")
           /\ UNCHANGED <<call, frame>>
  <2>1. PICK p \in InsertPoints : p = "setPtr"
    BY DEF InsertPoints, CopyPoints
  <2>2. p = pc'[t]
    BY <1>0, <1>6, <2>1, InsertIs DEF Goto
  <2>3. FrameAt(p, f)
    BY <1>0, <1>1, <1>6, <2>1, InsertIs DEF FrameAt
  <2> QED
    BY <1>0, <1>1, <1>6, <2>1, <2>2, <2>3, InsertIs, GotoStep
<1> QED
  BY <1>2, <1>3, <1>4, <1>5, <1>6 DEF lookup

\* What follows an undelete.
LEMMA UndeletedThread ==
  ASSUME NEW t \in Threads, Good(t), Undeleted(t) \/ ReturnComp(t)
  PROVE  ThreadInv(t)'
<1>1. CASE Undeleted(t) /\ Probed(t).bool = 1
  BY <1>1, CallAgainThread DEF Undeleted
<1>2. CASE Return(t, 1) /\ pc[t] \in DonePoints
  <2>1. stack[t] = <<>>
    BY <1>2, ThreadIs, PointsAre DEF CallInv
  <2>2. PICK e : e = frame[t].ent
    OBVIOUS
  <2> QED
    BY <1>2, <2>1, <2>2, ReturnThread
<1> QED
  BY <1>1, <1>2 DEF Undeleted, ReturnComp, DonePoints

\* setPtr.
LEMMA SetPtrThread ==
  ASSUME NEW t \in Threads, Good(t), setPtr(t)
  PROVE  ThreadInv(t)'
<1>0. pc[t] = "setPtr" /\ pc[t] \in InsertPoints /\ pc[t] \in ProbePoints /\ pc[t] \in CopyPoints
  BY DEF setPtr, InsertPoints, ProbePoints, CopyPoints
<1>1. Other(Probed(t), frame[t].val) /\ frame[t].doCopy
  BY <1>0, InsertIs DEF FrameAt
<1>2. CASE ~Marks(t)
  <2>1. NextAttempt(t, "lookup", "table")
    BY <1>2 DEF setPtr, Marks
  <2> QED
    BY <1>0, <1>1, <2>1, NextWithin
<1>3. CASE Marks(t)
  <2>1. UNCHANGED <<call, frame>> /\ pc'[t] = "copy"
    BY <1>0, <1>3, InsertIs DEF setPtr, Marks, Goto
  <2>2. PICK p \in InsertPoints : p = "copy" /\ p \in CopyPoints /\ p \in Points
    BY DEF InsertPoints, CopyPoints, Points
  <2>3. PICK f \in Frames : f = frame[t] /\ f = frame'[t]
    BY <1>0, <2>1, InsertIs
  <2>4. FrameAt("setPtr", f)'
    <3>1. FrameAt("setPtr", f) /\ f.val \in Keys /\ f.j < cur
      BY <1>0, <2>3, InsertIs
    <3>2. PICK q \in Points : q = "setPtr"
      BY DEF Points
    <3>3. FrameAt(q, f)'
      BY <3>1, <3>2, FrameAtStays
    <3> QED
      BY <3>2, <3>3
  <2>5. f.j = start' /\ start' = start
    BY <1>3, <2>3, MarksWhere
  <2>6. ProbeOf(f)'.bool = 1
    <3>1. PICK jj \in 0 .. Len(SubTables) - 1, x \in Places(frame[t].j) :
            jj = f.j /\ x = s(t) /\ x = Bucket(f.val, f.i, SubTables[jj + 1])
      BY <1>0, <2>3, InsertIs, ProbedIs
    <3>2. x \in Places(jj) /\ jj = frame[t].j
      BY <2>3, <3>1
    <3>3. At(jj, x)'.bool = 1
      <4>1. frame[t].ht = frame[t].j + 1 /\ Typed
        BY <1>0, InsertIs, ProbedIs
      <4>2. SubTables'[jj + 1].InnerTable[x] = After(t, jj + 1, x)
        <5>1. jj + 1 \in DOMAIN SubTables /\ x \in Slots(SubTables[jj + 1])
          BY <1>0, <3>2, <4>1, InsertIs, Window DEF Places
        <5> QED
          BY <5>1 DEF Good, TablesOf
      <4>3. After(t, jj + 1, x).bool = 1
        BY <1>3, <3>1, <3>2, <4>1 DEF After
      <4> QED
        BY <4>2, <4>3 DEF At
    <3>4. f.val \in Keys /\ f.i \in Attempts
      BY <1>0, <2>3, InsertIs
    <3>5. Probe(f.val, f.i, jj)' = At(jj, Bucket(f.val, f.i, SubTables[jj + 1]))'
      BY <3>4, ProbeStep
    <3>6. Bucket(f.val, f.i, SubTables[jj + 1])' = x
      BY <3>1, <3>4, ProbeStep
    <3> QED
      BY <3>1, <3>3, <3>5, <3>6 DEF ProbeOf, At
  <2>7. FrameAt(p, f)'
    BY <1>0, <2>2, <2>4, <2>5, <2>6 DEF FrameAt
  <2>8. PassedAt(p, f, Origin(t))
    BY <1>0, <2>3, InsertIs DEF PassedAt
  <2>9. CopyCaller(t, Head(stack[t])) => ~f.doCopy /\ p \notin CopyPoints
    BY <1>1 DEF CopyCaller
  <2>10. f.j < cur /\ frame[t].j <= f.j
    <3>1. frame[t].j \in Nat /\ frame[t].j < cur
      BY <1>0, InsertIs
    <3> QED
      BY <2>3, <3>1
  <2> QED
    BY <1>0, <2>1, <2>2, <2>3, <2>7, <2>8, <2>9, <2>10, WithinStep
<1> QED
  BY <1>2, <1>3

\* The copy of an entry.
LEMMA CopyUpThread ==
  ASSUME NEW t \in Threads, Good(t), CopyUp(t)
  PROVE  ThreadInv(t)'
<1>0. /\ pc[t] = "copy" /\ pc[t] \in InsertPoints /\ pc[t] \in ProbePoints /\ pc[t] \in CopyPoints
      /\ UNCHANGED shared
  BY DEF CopyUp, InsertPoints, ProbePoints, CopyPoints
<1>1. /\ Other(Probed(t), frame[t].val) /\ frame[t].doCopy /\ Probed(t).bool = 1
      /\ frame[t].j = start
  BY <1>0, InsertIs DEF FrameAt
<1>2. CASE isDeleted[Probed(t).ent] = 0
  BY <1>0, <1>1, <1>2, CallAgainThread DEF CopyUp
<1>3. CASE isDeleted[Probed(t).ent] # 0
  <2>1. UNCHANGED call /\ pc'[t] = "count" /\ frame' = [frame EXCEPT ![t].exStart = start]
    BY <1>0, <1>3, InsertIs DEF CopyUp, Goto
  <2>2. PICK st \in Nat : st = start
    BY <1>0, InsertIs
  <2>3. /\ frame'[t].val = frame[t].val /\ frame'[t].ent = frame[t].ent
        /\ frame'[t].j = frame[t].j /\ frame'[t].i = frame[t].i
        /\ frame'[t].doCopy = frame[t].doCopy
        /\ frame'[t] \in Frames /\ frame'[t].exStart = st
    BY <1>0, <2>1, <2>2, InsertIs DEF Frames
  <2>4. PICK f \in Frames : f = frame'[t]
    BY <2>3
  <2>5. PICK p \in InsertPoints : p = "count" /\ p \in CopyPoints
    BY DEF InsertPoints, CopyPoints
  <2>6. ProbeOf(f) = ProbeOf(frame[t]) /\ ProbeOf(f) = Probed(t)
    BY <1>0, <2>3, <2>4, InsertIs DEF ProbeOf
  <2>7. FrameAt(p, f)
    <3>1. val[f.ent] = f.val /\ f.j <= start /\ f.j + 1 < cur
      BY <1>0, <1>1, <2>3, <2>4, InsertIs
    <3>2. isDeleted[ProbeOf(f).ent] # 0 /\ f.doCopy /\ Other(ProbeOf(f), f.val)
      BY <1>1, <1>3, <2>3, <2>4, <2>6
    <3>3. ProbeOf(f).bool = 1 /\ f.j = start /\ f.exStart = start
      BY <1>1, <2>2, <2>3, <2>4, <2>6
    <3> QED
      BY <2>5, <3>1, <3>2, <3>3 DEF FrameAt
  <2>8. PassedAt(p, f, Origin(t))
    BY <1>0, <2>3, <2>4, InsertIs DEF PassedAt
  <2>9. CopyCaller(t, Head(stack[t])) => ~f.doCopy /\ p \notin CopyPoints
    BY <1>1 DEF CopyCaller
  <2>10. f.j < cur /\ frame[t].j <= f.j
    BY <1>0, <2>3, <2>4, InsertIs
  <2>11. start' = start
    BY <1>0 DEF shared
  <2> QED
    BY <1>0, <2>1, <2>3, <2>4, <2>5, <2>7, <2>8, <2>9, <2>10, <2>11, QuietStep
<1> QED
  BY <1>2, <1>3

\* The count of a copy, the advance of head->start and the retirement that follows it.
LEMMA CountThread ==
  ASSUME NEW t \in Threads, Good(t), CountCopy(t) \/ AdvanceStart(t) \/ Retire(t)
  PROVE  ThreadInv(t)'
<1>0. pc[t] \in {"count", "start", "retire"} /\ pc[t] \in InsertPoints /\ pc[t] \in ProbePoints
      /\ pc[t] \in CopyPoints
  BY DEF CountCopy, AdvanceStart, Retire, InsertPoints, ProbePoints, CopyPoints
<1>1. Other(Probed(t), frame[t].val) /\ frame[t].doCopy /\ Other(ProbeOf(frame[t]), frame[t].val)
  BY <1>0, InsertIs DEF FrameAt
<1>2. CASE NextAttempt(t, "lookup", "table")
  <2>1. pc[t] # "count"
    <3> SUFFICES ASSUME pc[t] = "count"
                 PROVE  FALSE
      OBVIOUS
    <3>1. CountCopy(t)
      BY DEF AdvanceStart, Retire
    <3>2. pc'[t] = "start" /\ DOMAIN pc = Threads
      BY <1>0, <3>1, InsertIs DEF CountCopy, Goto
    <3> QED
      BY <1>2, <3>2 DEF NextAttempt, Goto
  <2> QED
    BY <1>0, <1>1, <1>2, <2>1, NextWithin
<1>3. CASE UNCHANGED <<call, frame>> /\ CountCopy(t)
  <2>1. pc'[t] = "start" /\ pc[t] = "count"
    BY <1>3, <1>0, InsertIs DEF CountCopy, Goto
  <2>2. PICK p \in InsertPoints : p = "start" /\ p \in CopyPoints
    BY DEF InsertPoints, CopyPoints
  <2>3. PICK f : f = frame[t]
    OBVIOUS
  <2>4. f.exStart = f.j
    BY <1>0, <2>1, <2>3, InsertIs DEF FrameAt
  <2>5. FrameAt(p, f)
    BY <1>0, <1>1, <2>2, <2>3, <2>4, InsertIs DEF FrameAt
  <2> QED
    BY <1>0, <1>1, <1>3, <2>1, <2>2, <2>3, <2>5, InsertIs, GotoStep
<1>4. CASE UNCHANGED <<call, frame>> /\ Goto(t, "retire")
  <2>1. pc'[t] = "retire"
    BY <1>4, <1>0, InsertIs DEF Goto
  <2>2. PICK p \in InsertPoints : p = "retire" /\ p \in CopyPoints
    BY DEF InsertPoints, CopyPoints
  <2>3. PICK f : f = frame[t]
    OBVIOUS
  <2>4. FrameAt(p, f)
    BY <1>0, <1>1, <2>2, <2>3, InsertIs DEF FrameAt
  <2> QED
    BY <1>0, <1>1, <1>4, <2>1, <2>2, <2>3, <2>4, InsertIs, GotoStep
<1> QED
  BY <1>2, <1>3, <1>4 DEF CountCopy, AdvanceStart, Retire

\* The claim of a slot.
LEMMA ClaimThread ==
  ASSUME NEW t \in Threads, Good(t), ClaimSlot(t)
  PROVE  ThreadInv(t)'
<1>0. pc[t] = "claim" /\ pc[t] \in InsertPoints /\ pc[t] \in ProbePoints
  BY DEF ClaimSlot, InsertPoints, ProbePoints
<1>1. PICK e : e = frame[t].ent
  OBVIOUS
<1>2. CASE Claims(t)
  <2>1. Return(t, 1)
    BY <1>2 DEF Claims, ClaimSlot
  <2>2. ASSUME stack[t] # <<>>, CopyCaller(t, Head(stack[t]))
        PROVE  Finds(e, start + 1, 0, cur)'
    <3>1. PICK o : o = Origin(t)
      OBVIOUS
    <3>2. PICK hi : hi = cur
      OBVIOUS
    <3>3. Finds(e, o, 0, hi)'
      BY <1>1, <1>2, <3>1, <3>2, ClaimFinds
    <3>4. start' = start /\ cur' = cur
      BY <1>2, ClaimIs
    <3>5. o = start' + 1 /\ hi = cur'
      BY <2>2, <3>1, <3>2, <3>4 DEF Origin, CopyCaller
    <3> QED
      BY <3>3, <3>5, FindsWillAbove
  <2> QED
    BY <1>1, <2>1, <2>2, ReturnThread
<1>3. CASE Probed(t) # Null /\ HasKey(Probed(t), frame[t].val)
  <2>1. Return(t, 0)
    BY <1>3 DEF ClaimSlot
  <2>2. ASSUME stack[t] # <<>>, CopyCaller(t, Head(stack[t]))
        PROVE  Finds(e, start + 1, 0, cur)'
    <3>1. PICK g \in CallerFrames : g = Head(stack[t])
      BY <1>0, <2>2, InsertIs, StackIs
    <3> QED
      BY <1>0, <1>1, <1>3, <2>2, <3>1, NestedFinds
  <2> QED
    BY <1>1, <2>1, <2>2, ReturnThread
<1>4. CASE Probed(t) # Null /\ ~HasKey(Probed(t), frame[t].val)
  <2>1. NextAttempt(t, "lookup", "table") /\ Other(Probed(t), frame[t].val)
    BY <1>4 DEF ClaimSlot, Other
  <2> QED
    BY <1>0, <2>1, NextWithin
<1> QED
  BY <1>2, <1>3, <1>4 DEF Claims

\* The growth of the window.
LEMMA GrowThread ==
  ASSUME NEW t \in Threads, Good(t), NextTableSize(t) \/ addDrop(t) \/ AdvanceCur(t)
  PROVE  ThreadInv(t)'
<1>0. /\ pc[t] \in {"size", "grow", "advance"} /\ pc[t] \in InsertPoints /\ UNCHANGED call
      /\ pc'[t] \in {"grow", "advance", "table"}
  BY LocalsTypes DEF NextTableSize, addDrop, AdvanceCur, Goto, InsertPoints, Good
<1>1. /\ frame'[t].val = frame[t].val /\ frame'[t].ent = frame[t].ent
      /\ frame'[t].j = frame[t].j /\ frame'[t].i = frame[t].i
      /\ frame'[t].doCopy = frame[t].doCopy /\ frame'[t] \in Frames
  <2>1. frame'[t] \in Frames
    BY DEF Good, LocalsOf
  <2>2. frame[t] \in Frames /\ DOMAIN frame = Threads
    BY <1>0, InsertIs
  <2>3. \/ frame' = frame
        \/ \E z : frame' = [frame EXCEPT ![t].size = z]
    <3>1. CASE NextTableSize(t)
      <4>1. PICK T : T = SubTables[TableArray[IndexOf(frame[t].j - 1)]]
        OBVIOUS
      <4>2. PICK z : z = IF MostlyInserts(T) \/ cur - start > ManyTables
                           THEN 2 * T.TableSize ELSE T.TableSize
        OBVIOUS
      <4>3. frame' = [frame EXCEPT ![t].size = z]
        BY <3>1, <4>1, <4>2 DEF NextTableSize
      <4> QED
        BY <4>3
    <3>2. CASE addDrop(t)
      BY <3>2 DEF addDrop
    <3>3. CASE AdvanceCur(t)
      BY <3>3 DEF AdvanceCur
    <3> QED
      BY <3>1, <3>2, <3>3
  <2> QED
    BY <2>1, <2>2, <2>3 DEF Frames
<1>2. frame[t].i = 0 /\ frame[t].j <= cur /\ ~frame[t].doCopy
  BY <1>0, InsertIs DEF FrameAt
<1>3. PICK f \in Frames : f = frame'[t]
  BY <1>1
<1>4. PICK p \in InsertPoints : p = pc'[t]
  BY <1>0 DEF InsertPoints
<1>5. p \notin CopyPoints /\ p \notin ProbePoints /\ p \notin {"copy", "count"}
  BY <1>0, <1>4 DEF CopyPoints, ProbePoints, DonePoints
<1>6. FrameAt(p, f)
  BY <1>0, <1>1, <1>2, <1>3, <1>4, <1>5, InsertIs DEF FrameAt
<1>7. PassedAt(p, f, Origin(t))
  BY <1>0, <1>1, <1>3, InsertIs DEF PassedAt
<1>8. f.j <= cur /\ f.i = 0 /\ frame[t].j <= f.j /\ ~f.doCopy
  BY <1>0, <1>1, <1>2, <1>3, InsertIs
<1> QED
  BY <1>0, <1>1, <1>3, <1>4, <1>5, <1>6, <1>7, <1>8, QuietStep

\* A step of a search that goes on.
LEMMA SearchStep ==
  ASSUME NEW t \in Threads, Good(t), UNCHANGED call, pc[t] \in QueryPoints,
         NEW p \in QueryPoints, p = pc'[t], NEW f, f = frame'[t], f.val = frame[t].val,
         p = "qtable" => f.i = 0, p = "delete" => op[t] = "delete" /\ HasKey(ProbeOf(f), f.val)'
  PROVE  ThreadInv(t)'
<1>1. /\ CallInv(t) /\ stack[t] = <<>> /\ op[t] \in {"query", "delete"} /\ key[t] \in Keys
      /\ frame[t].val = key[t]
  BY ThreadIs DEF CallInv, InsertPoints, QueryPoints, CopyPoints
<1>2. stack'[t] = <<>> /\ op'[t] = op[t] /\ key'[t] = key[t]
  BY <1>1 DEF call
<1>3. p \notin InsertPoints /\ p \notin DonePoints /\ p # "idle" /\ p \notin CopyPoints
      /\ p \notin {"undeleted", "copy", "count", "start", "table", "size", "grow", "advance"}
  BY DEF InsertPoints, QueryPoints, DonePoints, CopyPoints
<1>4. CallInv(t)'
  BY <1>1, <1>2, <1>3 DEF CallInv
<1>5. StackInv(t)'
  BY <1>2 DEF StackInv
<1>6. FrameAt(p, f)'
  BY <1>3 DEF FrameAt
<1>7. PICK lo : lo = Origin(t)'
  OBVIOUS
<1>8. PassedAt(p, f, lo)'
  BY <1>3 DEF PassedAt
<1>9. FrameInv(t)'
  BY <1>6, <1>7, <1>8, FrameWillBe
<1> QED
  BY <1>4, <1>5, <1>9 DEF ThreadInv

\* checkTableQuery and deleteVal.
LEMMA QueryThread ==
  ASSUME NEW t \in Threads, Good(t), QueryTable(t) \/ lookupQuery(t) \/ setDelete(t)
  PROVE  ThreadInv(t)'
<1>0. /\ pc[t] \in QueryPoints /\ Typed /\ InOrder /\ pc[t] \notin InsertPoints /\ CallInv(t)
      /\ DOMAIN frame = Threads /\ DOMAIN pc = Threads /\ frame[t] \in Frames
  BY ThreadIs, LocalsTypes
  DEF QueryTable, lookupQuery, setDelete, InsertPoints, QueryPoints, CopyPoints
<1>1. CASE Return(t, 0) \/ Return(t, 1)
  <2>1. stack[t] = <<>>
    BY <1>0 DEF CallInv
  <2>2. PICK e : e = frame[t].ent
    OBVIOUS
  <2> QED
    BY <1>1, <2>1, <2>2, ReturnThread
<1>2. CASE QueryTable(t) /\ UNCHANGED call /\ TakeTable(t) /\ Goto(t, "qlookup")
  <2>1. PICK p \in QueryPoints : p = "qlookup"
    BY DEF QueryPoints
  <2>2. p = pc'[t] /\ p \notin {"qtable", "delete"}
    BY <1>0, <1>2, <2>1 DEF Goto
  <2>3. frame'[t].val = frame[t].val
    BY <1>0, <1>2 DEF TakeTable, Frames
  <2>4. PICK f : f = frame'[t]
    OBVIOUS
  <2> QED
    BY <1>0, <1>2, <2>1, <2>2, <2>3, <2>4, SearchStep
<1>3. CASE NextAttempt(t, "qlookup", "qtable")
  <2>1. /\ UNCHANGED call /\ frame'[t].val = frame[t].val
        /\ pc'[t] = "qlookup" \/ (pc'[t] = "qtable" /\ frame'[t].i = 0)
    <3>1. "qlookup" \in Points /\ "qtable" \in Points
      BY DEF Points
    <3> QED
      BY <1>0, <1>3, <3>1, NextEffect
  <2>2. PICK f : f = frame'[t]
    OBVIOUS
  <2>3. PICK p \in QueryPoints : p = pc'[t]
    BY <2>1 DEF QueryPoints
  <2> QED
    BY <1>0, <2>1, <2>2, <2>3, SearchStep
<1>4. CASE /\ lookupQuery(t) /\ Live(Probed(t), frame[t].val) /\ op[t] # "query"
           /\ Goto(t, "delete") /\ UNCHANGED <<call, frame>>
  <2>1. PICK p \in QueryPoints : p = "delete"
    BY DEF QueryPoints
  <2>2. p = pc'[t] /\ pc[t] = "qlookup"
    BY <1>0, <1>4, <2>1 DEF Goto, lookupQuery
  <2>3. PICK f : f = frame[t] /\ f = frame'[t]
    BY <1>4
  <2>4. op[t] = "delete"
    BY <1>0, <1>4 DEF CallInv
  <2>5. PICK jj \in 0 .. Len(SubTables) - 1, k \in Keys, n \in Attempts :
          jj = f.j /\ k = f.val /\ n = f.i
    BY <1>0, <2>2, <2>3, ProbedIs DEF ProbePoints
  <2>6. HasKey(Probe(k, n, jj), k)
    BY <1>0, <1>4, <2>2, <2>3, <2>5, ProbedIs DEF ProbePoints, ProbeOf, Live
  <2>7. HasKey(Probe(k, n, jj), k)'
    BY <2>6, ProbeStep
  <2>8. HasKey(ProbeOf(f), f.val)'
    BY <2>5, <2>7 DEF ProbeOf, HasKey
  <2>9. p # "qtable" /\ f.val = frame[t].val
    BY <2>1, <2>3
  <2> QED
    BY <1>0, <1>4, <2>1, <2>2, <2>3, <2>4, <2>8, <2>9, SearchStep
<1> QED
  BY <1>1, <1>2, <1>3, <1>4 DEF QueryTable, lookupQuery, setDelete

\* Every thread keeps its invariant in every step.
LEMMA ThreadsStep ==
  ASSUME NEW t \in Threads, Good(t), NEW u \in Threads
  PROVE  ThreadInv(u)'
<1>1. CASE u # t
  BY <1>1, ThreadStays
<1>2. CASE u = t
  <2>1. CASE CallInsert(t) \/ CallQuery(t) \/ CallDelete(t)
    <3>1. pc[t] = "idle"
      BY <2>1 DEF CallInsert, CallQuery, CallDelete, Start
    <3> QED
      BY <1>2, <2>1, <3>1, CallThread
  <2>2. CASE Step(t)
    BY <1>2, <2>2, InsertTableThread, LookupThread, UndeletedThread, SetPtrThread, CopyUpThread,
       CountThread, ClaimThread, GrowThread, QueryThread DEF Step
  <2> QED
    BY <2>1, <2>2 DEF Good, ThreadStep
<1> QED
  BY <1>1, <1>2
-----------------------------------------------------------------------------
(* The keys in the table, and the history                                  *)

\* What is in the table.
LEMMA ContentsAre ==
  ASSUME NEW k
  PROVE  k \in Contents <=> \E e \in Present : isDeleted[e] = 0 /\ val[e] = k
BY DEF Contents

\* Two entries of one key that paths from head->start find are the same.
LEMMA FoundOnce ==
  ASSUME Typed, Deep, NEW e \in Entries, NEW d \in Entries, val[e] = val[d],
         Finds(e, start, 0, cur), Finds(d, start, 0, cur)
  PROVE  e = d
<1>1. InOrder /\ SameEntry /\ start \in Nat /\ cur \in Nat
  BY Window DEF Deep
<1>2. PICK j1 \in 0 .. cur - 1 : \E x \in Places(j1) :
        start <= j1 /\ At(j1, x) # Null /\ At(j1, x).ent = e
  BY <1>1, FindsSlot
<1>3. PICK x \in Places(j1) : start <= j1 /\ At(j1, x) # Null /\ At(j1, x).ent = e
  BY <1>2
<1>4. PICK j2 \in 0 .. cur - 1 : \E y \in Places(j2) :
        start <= j2 /\ At(j2, y) # Null /\ At(j2, y).ent = d
  BY <1>1, FindsSlot
<1>5. PICK y \in Places(j2) : start <= j2 /\ At(j2, y) # Null /\ At(j2, y).ent = d
  BY <1>4
<1>6. j1 \in start .. cur - 1 /\ j2 \in start .. cur - 1
  BY <1>1, <1>3, <1>5
<1> QED
  BY <1>1, <1>3, <1>5, <1>6 DEF SameEntry

\* The steps that put a key in the table and those that take one out.
Inserts(t) ==
  (Claims(t) /\ stack[t] = <<>>) \/ (lookup(t) /\ Flagged(Probed(t), frame[t].val))
Removes(t) == setDelete(t) /\ isDeleted[Probed(t).ent] = 0

\* A step that inserts: the key was not in the table, and is then.
LEMMA ContentsInsert ==
  ASSUME NEW t \in Threads, Good(t), Inserts(t)
  PROVE  key[t] \notin Contents /\ Contents' = Contents \cup {key[t]}
<1>0. /\ Typed /\ Deep /\ InOrder /\ Found /\ start \in Nat /\ Present \subseteq Entries
      /\ isDeleted \in [Entries -> {0, 1}]
  BY Window, PresentTyped DEF Good, Deep, Typed, TablesTyped
<1>1. CASE Claims(t) /\ stack[t] = <<>>
  <2>1. /\ frame[t].ent \in Entries /\ val[frame[t].ent] = frame[t].val
        /\ isDeleted[frame[t].ent] = 0 /\ isDeleted' = isDeleted /\ frame[t].ent \notin Present
        /\ \A e \in Entries : val[e] = frame[t].val => ~Finds(e, start, 0, cur)
    BY <1>1, ClaimIs
  <2>2. frame[t].val = key[t]
    BY <1>1, ThreadIs DEF CallInv, Claims, ClaimSlot
  <2>3. PICK e : e = frame[t].ent
    OBVIOUS
  <2>4. \A d : d \in Present' <=> d \in Present \/ d = e
    <3>1. e \in Present'
      <4>1. PICK jj \in 0 .. Len(SubTables) - 1 : jj = frame[t].j
        BY <1>1, ClaimIs
      <4>2. PICK x \in Places(jj) : x = s(t)
        BY <1>1, <4>1, ClaimIs
      <4>3. At(jj, x)' = [ent |-> e, bool |-> 0]
        <5>1. At(jj, x)' = After(t, jj + 1, x)
          BY <4>1, <4>2, Window DEF Good, TablesOf, At, Places, Deep
        <5>2. frame[t].ht = jj + 1 /\ ~Marks(t)
          BY <1>0, <1>1, <4>1, ProbedIs DEF Claims, ClaimSlot, Marks, setPtr, ProbePoints
        <5> QED
          BY <1>1, <2>3, <4>2, <5>1, <5>2 DEF After
      <4>4. jj + 1 \in DOMAIN SubTables' /\ x \in Slots(SubTables'[jj + 1])
        <5>1. jj + 1 \in DOMAIN SubTables
          BY <1>0, Window
        <5>2. Places(jj)' = Places(jj)
          BY AtStep
        <5> QED
          BY <5>1, <5>2 DEF Good, TablesOf, Places
      <4>5. SubTables'[jj + 1].InnerTable[x].ent = e /\ e # NULL
        BY <2>1, <2>3, <4>3, HashtableSmartLazyAssumption DEF At
      <4> QED
        <5>1. PICK m \in DOMAIN SubTables' : m = jj + 1
          BY <4>4
        <5>2. x \in Slots(SubTables'[m]) /\ SubTables'[m].InnerTable[x].ent = e /\ e # NULL
          BY <4>4, <4>5, <5>1
        <5>3. e \in {SubTables'[m].InnerTable[y].ent : y \in Slots(SubTables'[m])}
          BY <5>2
        <5> QED
          BY <5>2, <5>3 DEF Present
    <3> QED
      BY <2>3, <3>1, PresentStep
  <2>5. \A d \in Present : isDeleted[d] = 0 => val[d] # key[t]
    BY <1>0, <2>1, <2>2 DEF Found
  <2>6. key[t] \notin Contents
    BY <2>5, ContentsAre
  <2>7. ASSUME NEW k
        PROVE  k \in Contents' <=> k \in Contents \cup {key[t]}
    <3>1. k \in Contents' <=> \E d \in Present' : isDeleted'[d] = 0 /\ val[d] = k
      BY DEF Contents
    <3> QED
      BY <2>1, <2>2, <2>3, <2>4, <3>1, ContentsAre
  <2> QED
    BY <2>6, <2>7
<1>2. CASE lookup(t) /\ Flagged(Probed(t), frame[t].val)
  <2>1. PICK e \in Present : e = Probed(t).ent
    BY <1>2, UndeleteIs
  <2>2. /\ e \in Entries /\ val[e] = frame[t].val /\ stack[t] = <<>> /\ isDeleted[e] = 1
        /\ isDeleted' = [isDeleted EXCEPT ![e] = 0] /\ Finds(e, start, 0, cur)
        /\ pc[t] = "lookup"
    BY <1>2, <2>1, UndeleteIs
  <2>3. frame[t].val = key[t]
    BY <2>2, ThreadIs DEF CallInv
  <2>4. \A d : d \in Present' <=> d \in Present
    BY <2>2, PresentStep DEF Claims, ClaimSlot
  <2>5. \A d \in Present : isDeleted[d] = 0 => val[d] # key[t]
    <3> SUFFICES ASSUME NEW d \in Present, isDeleted[d] = 0, val[d] = key[t]
                 PROVE  FALSE
      OBVIOUS
    <3>1. d \in Entries /\ Finds(d, start, 0, cur)
      BY <1>0 DEF Found
    <3>2. d = e
      BY <1>0, <2>2, <2>3, <3>1, FoundOnce
    <3> QED
      BY <2>2, <3>2
  <2>6. key[t] \notin Contents
    BY <2>5, ContentsAre
  <2>7. ASSUME NEW k
        PROVE  k \in Contents' <=> k \in Contents \cup {key[t]}
    <3>1. k \in Contents' <=> \E d \in Present' : isDeleted'[d] = 0 /\ val[d] = k
      BY DEF Contents
    <3>2. \A d \in Present : isDeleted'[d] = IF d = e THEN 0 ELSE isDeleted[d]
      BY <1>0, <2>2
    <3> QED
      BY <2>2, <2>3, <2>4, <3>1, <3>2, ContentsAre
  <2> QED
    BY <2>6, <2>7
<1> QED
  BY <1>1, <1>2 DEF Inserts

\* A step that removes: the key was in the table, and with its one entry it is gone.
LEMMA ContentsRemove ==
  ASSUME NEW t \in Threads, Good(t), Removes(t)
  PROVE  key[t] \in Contents /\ Contents' = Contents \ {key[t]}
<1>0. /\ Typed /\ Deep /\ InOrder /\ Found /\ start \in Nat /\ Present \subseteq Entries
      /\ isDeleted \in [Entries -> {0, 1}] /\ pc[t] = "delete"
  BY Window, PresentTyped DEF Good, Deep, Typed, TablesTyped, Removes, setDelete
<1>1. /\ HasKey(Probed(t), frame[t].val) /\ frame[t].val = key[t]
  <2>1. Probed(t) = ProbeOf(frame[t])
    BY <1>0, ProbedIs DEF ProbePoints
  <2>2. HasKey(ProbeOf(frame[t]), frame[t].val)
    BY <1>0, ThreadIs DEF FrameAt
  <2>3. stack[t] = <<>>
    BY <1>0, ThreadIs DEF CallInv, InsertPoints, CopyPoints
  <2> QED
    BY <1>0, <2>1, <2>2, <2>3, ThreadIs DEF CallInv
<1>2. PICK e \in Present : e = Probed(t).ent
  BY <1>0, <1>1, ProbedIs, AtTyped DEF ProbePoints, HasKey
<1>3. val[e] = key[t] /\ isDeleted[e] = 0 /\ isDeleted' = [isDeleted EXCEPT ![e] = 1]
  BY <1>1, <1>2 DEF Removes, setDelete, HasKey
<1>4. \A d : d \in Present' <=> d \in Present
  BY <1>0, PresentStep DEF Claims, ClaimSlot
<1>5. \A d \in Present : isDeleted[d] = 0 /\ val[d] = key[t] => d = e
  <2> SUFFICES ASSUME NEW d \in Present, isDeleted[d] = 0, val[d] = key[t]
               PROVE  d = e
    OBVIOUS
  <2>1. /\ d \in Entries /\ Finds(d, start, 0, cur)
        /\ e \in Entries /\ Finds(e, start, 0, cur)
    BY <1>0, <1>3 DEF Found
  <2> QED
    BY <1>0, <1>3, <2>1, FoundOnce
<1>6. key[t] \in Contents
  BY <1>3, ContentsAre
<1>7. ASSUME NEW k
      PROVE  k \in Contents' <=> k \in Contents \ {key[t]}
  <2>1. k \in Contents' <=> \E d \in Present' : isDeleted'[d] = 0 /\ val[d] = k
    BY DEF Contents
  <2>2. \A d \in Present : isDeleted'[d] = IF d = e THEN 1 ELSE isDeleted[d]
    BY <1>0, <1>3
  <2> QED
    BY <1>3, <1>4, <1>5, <2>1, <2>2, ContentsAre
<1> QED
  BY <1>6, <1>7

\* What is in the table after a step.
LEMMA ContentsStep ==
  ASSUME NEW t \in Threads, Good(t)
  PROVE  /\ Inserts(t) => key[t] \notin Contents /\ Contents' = Contents \cup {key[t]}
         /\ Removes(t) => key[t] \in Contents /\ Contents' = Contents \ {key[t]}
         /\ ~Inserts(t) /\ ~Removes(t) => Contents' = Contents
<1> SUFFICES ASSUME ~Inserts(t), ~Removes(t)
             PROVE  Contents' = Contents
  BY ContentsInsert, ContentsRemove
<1>0. Typed /\ Present \subseteq Entries
  BY PresentTyped DEF Good
<1>1. ASSUME NEW d
      PROVE  d \in Present' <=> d \in Present
  <2>1. Claims(t) => frame[t].ent \in Present
    BY ClaimIs DEF Inserts
  <2> QED
    BY <2>1, PresentStep
<1>2. ASSUME NEW d \in Present
      PROVE  isDeleted'[d] = isDeleted[d]
  BY <1>0, FlagStep DEF Inserts, Removes
<1>3. ASSUME NEW k
      PROVE  k \in Contents' <=> k \in Contents
  <2>1. k \in Contents' <=> \E d \in Present' : isDeleted'[d] = 0 /\ val[d] = k
    BY DEF Contents
  <2> QED
    BY <1>1, <1>2, <2>1, ContentsAre
<1> QED
  BY <1>3

\* The entry whose flag is set is one of the call's key.
LEMMA RemovedKey ==
  ASSUME NEW t \in Threads, Good(t), pc[t] \in QueryPoints
  PROVE  /\ stack[t] = <<>> /\ frame[t].val = key[t] /\ key[t] \in Keys
         /\ op[t] \in {"query", "delete"}
         /\ pc[t] = "delete" => HasKey(Probed(t), key[t]) /\ val[Probed(t).ent] = key[t]
<1>1. stack[t] = <<>> /\ frame[t].val = key[t] /\ key[t] \in Keys /\ op[t] \in {"query", "delete"}
  BY ThreadIs DEF CallInv, QueryPoints, InsertPoints, CopyPoints
<1>2. ASSUME pc[t] = "delete"
      PROVE  HasKey(Probed(t), key[t])
  <2>1. Typed /\ InOrder /\ HasKey(ProbeOf(frame[t]), frame[t].val)
    BY <1>2, ThreadIs DEF FrameAt
  <2> QED
    BY <1>1, <1>2, <2>1, ProbedIs DEF ProbePoints
<1> QED
  BY <1>1, <1>2 DEF HasKey

\* A step that leads to a point of a search is one of a search.
LEMMA QueryFrom ==
  ASSUME NEW t \in Threads, Good(t), pc'[t] \in QueryPoints
  PROVE  \/ CallQuery(t) \/ CallDelete(t)
         \/ (QueryTable(t) \/ lookupQuery(t)) /\ op'[t] = op[t]
<1>1. op'[t] \in {"query", "delete"}
  BY ThreadsStep DEF ThreadInv, CallInv
<1>2. DOMAIN op = Threads /\ DOMAIN pc = Threads /\ Typed /\ pc[t] \in Points
  BY LocalsTypes DEF Good
<1>3. ASSUME CallInsert(t)
      PROVE  FALSE
  BY <1>1, <1>2, <1>3 DEF CallInsert, Start
<1>4. CASE Step(t)
  <2>1. pc[t] # "idle"
    BY <1>4, Zenon DEF Step, InsertTable, lookup, Undeleted, ReturnComp, setPtr, CopyUp, CountCopy,
                AdvanceStart, Retire, ClaimSlot, NextTableSize, addDrop, AdvanceCur, QueryTable,
                lookupQuery, setDelete
  <2>2. op'[t] = op[t]
    BY <1>1, <1>2, <2>1, StepKind, ReturnEffect DEF call, CallAgain
  <2>3. pc[t] \notin InsertPoints \cup DonePoints
    BY <1>1, <2>2, ThreadIs DEF CallInv
  <2>4. ASSUME setDelete(t)
        PROVE  FALSE
    <3>1. \E r \in {0, 1} : Return(t, r)
      BY <2>4 DEF setDelete
    <3>2. stack[t] = <<>>
      BY <2>3, ThreadIs DEF CallInv
    <3> QED
      BY <1>1, <1>2, <3>1, <3>2, ReturnEffect
  <2> QED
    BY <1>4, <2>2, <2>3, <2>4, Zenon
    DEF Step, InsertTable, lookup, Undeleted, ReturnComp, setPtr, CopyUp, CountCopy, AdvanceStart,
        Retire, ClaimSlot, NextTableSize, addDrop, AdvanceCur, InsertPoints, CopyPoints, DonePoints
<1> QED
  BY <1>3, <1>4 DEF Good, ThreadStep

\* A search that has always seen its key is before its entry on the path: in the state
\* before the step.
LEMMA SeenFinds ==
  ASSUME NEW t \in Threads, Good(t), NEW u \in Threads, pc'[u] \in {"qtable", "qlookup"},
         0 \notin seen[u], key'[u] \in Contents', NEW jj, jj = frame'[u].j, NEW n, n = frame'[u].i,
         NEW l, l = frame'[u].limit
  PROVE  /\ l <= cur
         /\ \E e \in Present : val[e] = key'[u] /\ isDeleted[e] = 0 /\ Finds(e, jj, n, l)
<1>0. /\ Typed /\ Deep /\ InOrder /\ Found /\ start \in Nat /\ cur \in Nat
      /\ Present \subseteq Entries /\ CallInv(u) /\ SeenInv(u) /\ ThreadTyped(u)
  BY Window, PresentTyped, ThreadIs DEF Good, Deep
<1>1. CASE u # t
  BY <1>0, <1>1, OthersStay DEF SeenInv, ThreadTyped, QueryPoints
<1>2. CASE u = t /\ (CallQuery(t) \/ CallDelete(t))
  <2>1. PICK k \in Keys, o \in {"query", "delete"} : Start(t, o, k, NULL, "qtable")
    BY <1>2 DEF CallQuery, CallDelete
  <2>2. pc[t] = "idle" /\ "qtable" \in Points
    BY <2>1 DEF Start, Points
  <2>3. key'[t] = k /\ jj = start /\ n = 0 /\ l = cur
    <3>1. /\ key' = [key EXCEPT ![t] = k] /\ DOMAIN key = Threads /\ DOMAIN frame = Threads
          /\ o # "insert"
          /\ frame' = [frame EXCEPT ![t] =
                 [NoFrame EXCEPT !.val = k, !.ent = NULL, !.j = start,
                                 !.limit = IF o = "insert" THEN 0 ELSE cur]]
      BY <1>0, <2>1, LocalsTypes DEF Start
    <3>2. frame'[t] = [NoFrame EXCEPT !.val = k, !.ent = NULL, !.j = start, !.limit = cur]
      BY <3>1
    <3> QED
      BY <1>2, <3>1, <3>2 DEF NoFrame
  <2>4. Contents' = Contents
    BY <2>2, ContentsStep
    DEF Inserts, Removes, Claims, ClaimSlot, lookup, setDelete
  <2>5. PICK e \in Present : val[e] = key'[u] /\ isDeleted[e] = 0
    BY <2>4, ContentsAre
  <2> QED
    BY <1>0, <2>3, <2>5 DEF Found
<1>3. CASE u = t /\ (QueryTable(t) \/ lookupQuery(t))
  <2>1. pc[t] \in {"qtable", "qlookup"} /\ pc[t] \in QueryPoints
    BY <1>3 DEF QueryTable, lookupQuery, QueryPoints
  <2>2. /\ stack[t] = <<>> /\ frame[t].val = key[t] /\ frame[t].limit <= cur
        /\ frame[t] \in Frames /\ DOMAIN frame = Threads /\ DOMAIN pc = Threads
    BY <1>0, <1>3, <2>1, RemovedKey, LocalsTypes DEF ThreadTyped
  <2>3. ASSUME NEW r \in {0, 1}, Return(t, r)
        PROVE  FALSE
    BY <1>0, <1>3, <2>2, <2>3, ReturnEffect
  <2>4. PICK e \in Present : /\ val[e] = key[t] /\ isDeleted[e] = 0
                             /\ Finds(e, frame[t].j, frame[t].i, frame[t].limit)
    BY <1>0, <1>3, <2>1 DEF SeenInv
  <2>5. CASE QueryTable(t)
    <3>1. TakeTable(t) /\ UNCHANGED call
      BY <2>3, <2>5 DEF QueryTable
    <3>2. frame'[t].j = frame[t].j /\ frame'[t].i = frame[t].i /\ frame'[t].limit = frame[t].limit
      BY <2>2, <3>1 DEF TakeTable, Frames
    <3> QED
      BY <1>3, <2>2, <2>4, <3>1, <3>2 DEF call
  <2>6. CASE lookupQuery(t)
    <3>1. /\ NextAttempt(t, "qlookup", "qtable") /\ pc[t] = "qlookup"
          /\ Other(Probed(t), frame[t].val) \/ Flagged(Probed(t), frame[t].val)
      <4>1. ~Goto(t, "delete")
        BY <1>3, <2>2 DEF Goto
      <4> QED
        BY <2>3, <2>6, <4>1 DEF lookupQuery
    <3>2. "qlookup" \in Points /\ "qtable" \in Points
      BY DEF Points
    <3>3. UNCHANGED call
      BY <3>1 DEF NextAttempt
    <3>4. PICK lo \in Nat, n0 \in Attempts, hi \in Nat :
            lo = frame[t].j /\ n0 = frame[t].i /\ hi = frame[t].limit
      BY <2>2, FrameTyped
    <3>5. e \in Entries /\ Finds(e, lo, n0, hi)
      BY <1>0, <2>4, <3>4
    <3>6. Probe(val[e], n0, lo).ent # e
      <4>1. Probed(t) = Probe(val[e], n0, lo)
        BY <1>0, <2>2, <2>4, <3>1, <3>4, ProbedIs DEF ProbePoints, ProbeOf
      <4> QED
        BY <2>2, <2>4, <3>1, <4>1 DEF Other, Flagged, HasKey
    <3>7. /\ n0 + 1 \in Attempts => Finds(e, lo, n0 + 1, hi)
          /\ n0 + 1 = HashAttempts => Finds(e, lo + 1, 0, hi)
      BY <3>5, <3>6, FindsNext
    <3>8. /\ l = hi
          /\ \/ n0 + 1 \in Attempts /\ n = n0 + 1 /\ jj = lo
             \/ n0 + 1 = HashAttempts /\ n = 0 /\ jj = lo + 1
      BY <1>0, <1>3, <3>1, <3>2, <3>4, NextEffect
    <3> QED
      BY <1>3, <2>2, <2>4, <3>3, <3>4, <3>7, <3>8 DEF call
  <2> QED
    BY <1>3, <2>5, <2>6
<1> QED
  BY <1>1, <1>2, <1>3, QueryFrom DEF QueryPoints

\* A set flag is seen by the delete that finds it set.
LEMMA DeleteSees ==
  ASSUME NEW t \in Threads, Good(t), NEW u \in Threads, pc'[u] = "delete", NEW f, f = frame'[u],
         NEW e, e = ProbeOf(f)'.ent, isDeleted'[e] = 1
  PROVE  0 \in seen[u] \/ key'[u] \notin Contents'
<1>0. /\ Typed /\ Deep /\ InOrder /\ CallInv(u) /\ SeenInv(u) /\ FrameAt(pc[u], frame[u])
      /\ DOMAIN pc = Threads /\ DOMAIN frame = Threads /\ frame[u] \in Frames
      /\ isDeleted \in [Entries -> {0, 1}] /\ stack[u] \in Seq(CallerFrames)
  BY ThreadIs, LocalsTypes DEF Good, Typed, TablesTyped
<1>1. CASE u # t
  <2>1. pc[u] = "delete" /\ f = frame[u] /\ key'[u] = key[u] /\ pc[u] \in ProbePoints
    BY <1>1, OthersStay DEF ProbePoints
  <2>2. PICK jj \in 0 .. Len(SubTables) - 1, k \in Keys, n \in Attempts :
          jj = f.j /\ k = f.val /\ n = f.i
    BY <1>0, <2>1, ProbedIs
  <2>3. HasKey(Probe(k, n, jj), k)
    BY <1>0, <2>1, <2>2 DEF FrameAt, ProbeOf
  <2>4. e = Probe(k, n, jj).ent /\ e \in Entries /\ val[e] = k
    <3>1. Probe(k, n, jj)'.ent = Probe(k, n, jj).ent
      BY <2>3, ProbeStep DEF HasKey
    <3>2. ProbeOf(f)' = Probe(k, n, jj)'
      BY <2>2 DEF ProbeOf
    <3> QED
      BY <1>0, <2>3, <3>1, <3>2, ProbeTyped DEF HasKey
  <2>5. k = key[u]
    <3>1. stack[u] = <<>>
      BY <1>0, <2>1 DEF CallInv, InsertPoints, CopyPoints
    <3> QED
      BY <1>0, <2>1, <2>2, <3>1 DEF CallInv
  <2>6. CASE isDeleted[e] = 1
    <3>1. e = ProbeOf(frame[u]).ent
      BY <2>1, <2>2, <2>4 DEF ProbeOf
    <3> QED
      BY <1>0, <2>1, <2>6, <3>1 DEF SeenInv
  <2>7. CASE isDeleted[e] # 1
    <3>1. setDelete(t) /\ pc[t] = "delete" /\ e = Probed(t).ent /\ isDeleted[e] = 0
      BY <2>4, <2>7, FlagStep
    <3>2. Removes(t) /\ val[e] = key[t]
      BY <3>1, RemovedKey DEF Removes, QueryPoints
    <3> QED
      BY <2>1, <2>4, <2>5, <3>2, ContentsStep
  <2> QED
    BY <2>6, <2>7
<1>2. CASE u = t
  <2>1. ~CallQuery(t) /\ ~CallDelete(t) /\ ~QueryTable(t)
    <3>1. ASSUME NEW o \in {"query", "delete"}, NEW k \in Keys, Start(t, o, k, NULL, "qtable")
          PROVE  FALSE
      BY <1>0, <1>2, <3>1 DEF Start, Goto
    <3>2. ASSUME QueryTable(t)
          PROVE  FALSE
      <4>1. stack[t] = <<>>
        BY <3>2, RemovedKey DEF QueryTable, QueryPoints
      <4>2. ~Goto(t, "qlookup")
        BY <1>0, <1>2 DEF Goto
      <4>3. PICK r \in {0, 1} : Return(t, r)
        BY <3>2, <4>2 DEF QueryTable
      <4> QED
        BY <1>0, <1>2, <4>1, <4>3, ReturnEffect
    <3> QED
      BY <3>1, <3>2 DEF CallQuery, CallDelete
  <2>2. lookupQuery(t)
    BY <1>2, <2>1, QueryFrom DEF QueryPoints
  <2>3. stack[t] = <<>> /\ pc[t] = "qlookup" /\ pc[t] \in ProbePoints /\ pc[t] \in QueryPoints
    BY <2>2, RemovedKey DEF lookupQuery, QueryPoints, ProbePoints
  <2>4. Live(Probed(t), frame[t].val) /\ frame' = frame /\ isDeleted' = isDeleted
    <3>1. \A r \in {0, 1} : ~Return(t, r)
      BY <1>0, <1>2, <2>3, ReturnEffect
    <3>2. ~NextAttempt(t, "qlookup", "qtable")
      BY <1>0, <1>2 DEF NextAttempt, Goto
    <3> QED
      BY <2>2, <3>1, <3>2 DEF lookupQuery, shared
  <2>5. PICK jj \in 0 .. Len(SubTables) - 1, k \in Keys, n \in Attempts :
          jj = f.j /\ k = f.val /\ n = f.i /\ Probed(t) = Probe(k, n, jj)
    BY <1>0, <1>2, <2>3, <2>4, ProbedIs DEF ProbeOf
  <2>6. e = Probed(t).ent
    <3>1. Probe(k, n, jj)'.ent = Probe(k, n, jj).ent
      BY <2>4, <2>5, ProbeStep DEF Live, HasKey
    <3>2. ProbeOf(f)' = Probe(k, n, jj)'
      BY <2>5 DEF ProbeOf
    <3> QED
      BY <2>5, <3>1, <3>2
  <2> QED
    BY <2>4, <2>6 DEF Live
<1> QED
  BY <1>1, <1>2

\* An insert about to claim a slot that another has taken for its key has seen the key.
LEMMA ClaimSees ==
  ASSUME NEW t \in Threads, Good(t), NEW u \in Threads, pc'[u] = "claim", stack'[u] = <<>>,
         NEW f, f = frame'[u], NEW k, k = key'[u], HasKey(ProbeOf(f), k)'
  PROVE  1 \in seen[u] \/ k \in Contents'
<1>0. /\ Typed /\ Deep /\ InOrder /\ CallInv(u) /\ SeenInv(u)
      /\ DOMAIN pc = Threads /\ DOMAIN frame = Threads /\ start \in Nat /\ cur \in Nat
  BY ThreadIs, LocalsTypes, Window DEF Good
<1>1. CASE u # t
  <2>1. /\ pc[u] = "claim" /\ f = frame[u] /\ k = key[u] /\ stack[u] = <<>>
        /\ pc[u] \in ProbePoints /\ pc[u] \in InsertPoints
    BY <1>1, OthersStay DEF ProbePoints, InsertPoints
  <2>2. PICK jj \in 0 .. Len(SubTables) - 1, n \in Attempts :
          jj = f.j /\ n = f.i /\ k = f.val /\ k \in Keys /\ jj \in Nat
    BY <1>0, <2>1, ProbedIs DEF CallInv
  <2>3. HasKey(Probe(k, n, jj), k)'
    BY <2>2 DEF ProbeOf, HasKey
  <2>4. CASE HasKey(Probe(k, n, jj), k)
    <3>1. HasKey(ProbeOf(frame[u]), key[u])
      BY <2>1, <2>2, <2>4 DEF ProbeOf
    <3> QED
      BY <1>0, <2>1, <3>1 DEF SeenInv
  <2>5. CASE ~HasKey(Probe(k, n, jj), k)
    <3>1. Probe(k, n, jj) = Null
      <4>1. ASSUME Other(Probe(k, n, jj), k)
            PROVE  FALSE
        <5>1. Other(Probe(k, n, jj), k)'
          BY <2>2, <4>1, ProbeStep
        <5> QED
          BY <2>3, <5>1 DEF Other, HasKey
      <4> QED
        BY <2>5, <4>1 DEF Other
    <3>2. PICK x \in Places(jj) : x = Bucket(k, n, SubTables[jj + 1])
      BY <1>0, <2>2, ProbeTyped
    <3>3. At(jj, x) = Null /\ At(jj, x)' # Null /\ val[At(jj, x)'.ent] = k
      <4>1. Probe(k, n, jj)' = At(jj, Bucket(k, n, SubTables[jj + 1]))'
        BY <2>2, ProbeStep
      <4>2. Bucket(k, n, SubTables[jj + 1])' = x
        BY <2>2, <3>2, ProbeStep
      <4>3. At(jj, Bucket(k, n, SubTables[jj + 1]))' = At(jj, x)'
        BY <4>2 DEF At
      <4>4. Probe(k, n, jj) = At(jj, x)
        BY <1>0, <2>2, <3>2, ProbeTyped
      <4>5. Probe(k, n, jj)' # Null /\ val[Probe(k, n, jj)'.ent] = k
        BY <2>3 DEF HasKey
      <4> QED
        BY <3>1, <4>1, <4>3, <4>4, <4>5
    <3>4. Claims(t) /\ jj = frame[t].j /\ At(jj, x)'.ent = frame[t].ent
      <4>1. \/ At(jj, x)' = At(jj, x)
            \/ /\ Claims(t) /\ jj = frame[t].j /\ x = s(t) /\ At(jj, x) = Null
               /\ At(jj, x)' = [ent |-> frame[t].ent, bool |-> 0]
            \/ /\ Marks(t) /\ jj = frame[t].j /\ x = s(t) /\ At(jj, x).bool = 0
               /\ At(jj, x)' = [ent |-> At(jj, x).ent, bool |-> 1]
        BY AtStep
      <4>2. ASSUME Marks(t), jj = frame[t].j, x = s(t)
            PROVE  At(jj, x) # Null
        <5>1. pc[t] = "setPtr" /\ Probed(t) # Null
          BY <4>2, ThreadIs DEF Marks, setPtr, ThreadTyped
        <5> QED
          BY <1>0, <4>2, <5>1, ProbedIs DEF ProbePoints, CopyPoints
      <4> QED
        BY <3>3, <4>1, <4>2
    <3>5. frame[t].ent \in Entries /\ val[frame[t].ent] = k /\ val[frame[t].ent] = frame[t].val
      BY <3>3, <3>4, ClaimIs
    <3>6. CASE stack[t] = <<>>
      <4>1. key[t] = k
        BY <3>4, <3>5, <3>6, ThreadIs DEF CallInv, Claims, ClaimSlot
      <4> QED
        BY <3>4, <3>6, <4>1, ContentsStep DEF Inserts
    <3>7. CASE stack[t] # <<>>
      <4>1. Finds(frame[t].ent, start, 0, cur)
        BY <3>4, <3>7, ClaimIs
      <4>2. PassedTo(k, start, jj, n)
        BY <1>0, <2>1, <2>2, ThreadIs DEF PassedAt, Origin
      <4>3. start <= jj
        <5>1. jj \in start .. cur - 1
          BY <3>4, ClaimIs
        <5> QED
          BY <1>0, <2>2, <5>1
      <4>4. Probe(k, n, jj) # Null
        <5>1. PICK e \in Entries : e = frame[t].ent
          BY <3>5
        <5>2. val[e] = k /\ Finds(e, start, 0, cur)
          BY <3>5, <4>1, <5>1
        <5> QED
          BY <1>0, <2>2, <4>2, <4>3, <5>2, PassedNull
      <4> QED
        BY <3>1, <4>4
    <3> QED
      BY <3>6, <3>7
  <2> QED
    BY <2>4, <2>5
<1>2. CASE u = t
  <2>1. ~InsertTable(t) /\ ~QueryTable(t) /\ ~setDelete(t)
    <3>1. \A label \in Points : Goto(t, label) => label = "claim"
      BY <1>0, <1>2 DEF Goto
    <3>2. \A r \in {0, 1} : ~Return(t, r)
      <4> SUFFICES ASSUME NEW r \in {0, 1}, Return(t, r)
                   PROVE  FALSE
        OBVIOUS
      <4>1. CASE stack[t] = <<>>
        BY <1>0, <1>2, <4>1, ReturnEffect
      <4>2. CASE stack[t] # <<>>
        BY <1>0, <1>2, <4>2, ReturnEffect, CallerTyped
      <4> QED
        BY <4>1, <4>2
    <3> QED
      BY <3>1, <3>2 DEF InsertTable, QueryTable, setDelete, Points
  <2>2. \A r \in {0, 1} : ~Return(t, r)
    <3> SUFFICES ASSUME NEW r \in {0, 1}, Return(t, r)
                 PROVE  FALSE
      OBVIOUS
    <3>1. CASE stack[t] = <<>>
      BY <1>0, <1>2, <3>1, ReturnEffect
    <3>2. CASE stack[t] # <<>>
      BY <1>0, <1>2, <3>2, ReturnEffect, CallerTyped
    <3> QED
      BY <3>1, <3>2
  <2>3. \A label : Goto(t, label) => label = "claim"
    BY <1>0, <1>2 DEF Goto
  <2>4. /\ ~NextAttempt(t, "lookup", "table") /\ ~NextAttempt(t, "qlookup", "qtable")
        /\ \A e, back : ~CallAgain(t, e, back)
    <3>1. \A label \in {"lookup", "table", "qlookup", "qtable"} : ~Goto(t, label)
      BY <2>3
    <3> QED
      BY <3>1, Zenon DEF NextAttempt, CallAgain
  <2>5. lookup(t) /\ Probed(t) = Null /\ Goto(t, "claim") /\ UNCHANGED <<SubTables, call, frame>>
    BY <2>1, <2>2, <2>3, <2>4, Zenon
    DEF Good, ThreadStep, Step, CallInsert, CallQuery, CallDelete, Start, lookup, Undeleted,
        ReturnComp, setPtr, CopyUp, CountCopy, AdvanceStart, Retire, ClaimSlot, NextTableSize,
        addDrop, AdvanceCur, lookupQuery
  <2>6. pc[t] \in ProbePoints
    BY <2>5 DEF lookup, ProbePoints
  <2>7. f = frame[t] /\ ProbeOf(f) = Null
    BY <1>0, <1>2, <2>5, <2>6, ProbedIs
  <2>8. ProbeOf(f)' = ProbeOf(f)
    BY <2>5 DEF ProbeOf, Probe, Slot, Bucket
  <2> QED
    BY <2>7, <2>8 DEF HasKey
<1> QED
  BY <1>1, <1>2

\* What a call has seen, after a step.
LEMMA SeenStep ==
  ASSUME NEW t \in Threads, Good(t), NEW u \in Threads
  PROVE  SeenInv(u)'
<1>0. /\ CallInv(u)' /\ Typed /\ InOrder /\ Present \subseteq Entries
      /\ isDeleted \in [Entries -> {0, 1}] /\ isDeleted' \in [Entries -> {0, 1}]
      /\ cur \in Nat /\ cur' \in Nat /\ frame'[u] \in Frames /\ key'[u] \in Keys \cup {NULL}
  <2>1. CallInv(u)'
    BY ThreadsStep DEF ThreadInv
  <2>2. frame'[u] \in Frames /\ key'[u] \in Keys \cup {NULL} /\ isDeleted' \in [Entries -> {0, 1}]
    BY DEF Good, Typed, LocalsTyped, TablesTyped
  <2> QED
    BY <2>1, <2>2, PresentTyped, WindowStep DEF Good, Typed, TablesTyped
<1>1. /\ op'[u] # "none" => (IF key'[u] \in Contents' THEN 1 ELSE 0) \in seen'[u]
      /\ op'[u] = "none" => seen'[u] = {}
      /\ op'[u] # "none" => seen[u] \subseteq seen'[u]
  BY DEF Good, Look
<1>2. ASSUME pc'[u] \in {"qtable", "qlookup"}, 0 \notin seen'[u]
      PROVE  \E e \in Present' : /\ val[e] = key'[u] /\ isDeleted'[e] = 0
                                 /\ Finds(e, frame[u].j, frame[u].i, frame[u].limit)'
  <2>1. op'[u] # "none" /\ 0 \notin seen[u] /\ key'[u] \in Contents'
    BY <1>0, <1>1, <1>2 DEF CallInv, QueryPoints
  <2>2. PICK jj \in Nat, n \in Attempts, l \in Nat :
          jj = frame'[u].j /\ n = frame'[u].i /\ l = frame'[u].limit
    BY <1>0, FrameTyped
  <2>3. /\ l <= cur
        /\ \E e \in Present : val[e] = key'[u] /\ isDeleted[e] = 0 /\ Finds(e, jj, n, l)
    BY <1>2, <2>1, <2>2, SeenFinds
  <2>4. PICK e \in Entries :
          e \in Present /\ val[e] = key'[u] /\ isDeleted[e] = 0 /\ Finds(e, jj, n, l)
    BY <1>0, <2>3
  <2>5. isDeleted'[e] = 0
    <3> SUFFICES ASSUME isDeleted'[e] # 0
                 PROVE  FALSE
      OBVIOUS
    <3>1. setDelete(t) /\ pc[t] = "delete" /\ e = Probed(t).ent
      BY <2>4, FlagStep
    <3>2. Removes(t) /\ val[e] = key[t]
      BY <2>4, <3>1, RemovedKey DEF Removes, QueryPoints
    <3> QED
      BY <2>1, <2>4, <3>2, ContentsStep
  <2>6. Finds(e, jj, n, l)'
    <3>1. l <= l
      BY <2>2
    <3> QED
      BY <2>2, <2>3, <2>4, <3>1, FindsStays
  <2>7. e \in Present'
    BY <2>4, PresentStep
  <2>8. Finds(e, frame[u].j, frame[u].i, frame[u].limit)'
    BY <2>2, <2>6 DEF Finds, Clear, Before
  <2> QED
    BY <2>4, <2>5, <2>7, <2>8
<1>3. ASSUME pc'[u] = "delete", isDeleted'[ProbeOf(frame[u])'.ent] = 1
      PROVE  0 \in seen'[u]
  <2>1. PICK f : f = frame'[u]
    OBVIOUS
  <2>2. PICK e : e = ProbeOf(f)'.ent
    OBVIOUS
  <2>3. isDeleted'[e] = 1
    BY <1>3, <2>1, <2>2 DEF ProbeOf
  <2>4. 0 \in seen[u] \/ key'[u] \notin Contents'
    BY <1>3, <2>1, <2>2, <2>3, DeleteSees
  <2> QED
    BY <1>0, <1>1, <1>3, <2>4 DEF CallInv
<1>4. ASSUME pc'[u] = "claim", stack'[u] = <<>>, HasKey(ProbeOf(frame[u]), key[u])'
      PROVE  1 \in seen'[u]
  <2>1. PICK f : f = frame'[u]
    OBVIOUS
  <2>2. PICK k : k = key'[u]
    OBVIOUS
  <2>3. HasKey(ProbeOf(f), k)'
    BY <1>4, <2>1, <2>2 DEF HasKey, ProbeOf
  <2>4. 1 \in seen[u] \/ k \in Contents'
    BY <1>4, <2>1, <2>2, <2>3, ClaimSees
  <2> QED
    BY <1>0, <1>1, <1>4, <2>2, <2>4 DEF CallInv
<1> QED
  BY <1>1, <1>2, <1>3, <1>4 DEF SeenInv
-----------------------------------------------------------------------------
(* The inductive invariant                                                 *)

\* No slot holds an entry at the start.
LEMMA PresentInit ==
  ASSUME Init
  PROVE  Present = {}
<1>1. /\ DOMAIN SubTables = {1} /\ SubTables[1] = createTable(InitSize)
  BY DEF Init
<1>2. \A x \in Slots(SubTables[1]) : SubTables[1].InnerTable[x] = Null
  BY <1>1 DEF createTable, Slots
<1>3. ASSUME NEW e \in Present
      PROVE  FALSE
  <2>1. e # NULL /\ \E n \in DOMAIN SubTables : \E x \in Slots(SubTables[n]) :
          e = SubTables[n].InnerTable[x].ent
    BY Zenon DEF Present
  <2> QED
    BY <1>1, <1>2, <2>1 DEF Null
<1> QED
  BY <1>3

\* It holds at the start,
LEMMA InitInv ==
  ASSUME Init
  PROVE  Inv
<1>0. /\ Typed /\ start = 0 /\ cur = 1 /\ InitSize \in Nat \ {0}
      /\ SubTables = <<createTable(InitSize)>>
  BY InitTyped, HashtableSmartLazyAssumption DEF Init
<1>1. /\ Len(SubTables) = 1 /\ DOMAIN SubTables = {1} /\ SubTables[1] = createTable(InitSize)
  BY <1>0
<1>2. /\ \A x \in Slots(SubTables[1]) : SubTables[1].InnerTable[x] = Null
      /\ \A u \in Threads : SubTables[1].threadCopy[u] = 0
  BY <1>1 DEF createTable, Slots
<1>3. \A x \in Places(0) : At(0, x) = Null
  BY <1>2 DEF Places, At
<1>4. InOrder
  <2>1. \A jj \in start .. cur - 1 : TableArray[IndexOf(jj)] = jj + 1
    <3>1. 0 \in 0 .. MaxTables - 1 /\ IndexOf(0) = 0
      BY HashtableSmartLazyAssumption DEF IndexOf
    <3>2. TableArray[0] = 1
      BY <3>1 DEF Init
    <3>3. \A jj \in start .. cur - 1 : jj = 0
      BY <1>0
    <3> QED
      BY <3>1, <3>2, <3>3
  <2>2. \A t \in Threads : frame[t].ht \in {None, frame[t].j + 1}
    BY DEF Init, NoFrame
  <2>3. cur .. Len(SubTables) - 1 = {}
    BY <1>0, <1>1
  <2> QED
    BY <1>0, <1>1, <2>1, <2>2, <2>3 DEF InOrder, InLine
<1>5. \A jj \in 0 .. cur - 1 : jj = 0
  BY <1>0
<1>6. Copied
  <2>1. Null.bool = 0
    BY DEF Null
  <2>2. Completed(0) = {}
    BY <1>3, <2>1 DEF Completed
  <2>3. Tally(0) = {}
    <3>1. \A u \in Threads : {u} \X (1 .. SubTables[0 + 1].threadCopy[u]) = {}
      BY <1>2
    <3> QED
      BY <3>1 DEF Tally
  <2>4. IsFiniteSet(Tally(0)) /\ Cardinality(Tally(0)) <= Cardinality(Completed(0))
    BY <2>2, <2>3, FS_EmptySet
  <2> QED
    BY <1>0, <1>5, <2>2, <2>4 DEF Copied
<1>7. Present = {}
  BY PresentInit
<1>8. Found /\ OnPath /\ OncePerSubtable /\ SameEntry
  <2>1. \A jj \in start .. cur - 1 : jj = 0
    BY <1>0
  <2> QED
    BY <1>3, <1>7, <2>1 DEF Found, OnPath, OncePerSubtable, SameEntry
<1>9. Distinct /\ Fresh
  BY DEF Init, Distinct, PendingAt, IsPending, Fresh
<1>10. ASSUME NEW t \in Threads
       PROVE  ThreadInv(t) /\ SeenInv(t)
  <2>1. /\ pc[t] = "idle" /\ op[t] = "none" /\ stack[t] = <<>> /\ seen[t] = {}
    BY DEF Init
  <2>2. CallInv(t)
    BY <2>1 DEF CallInv, InsertPoints, CopyPoints, DonePoints, QueryPoints
  <2>3. StackInv(t)
    BY <2>1 DEF StackInv
  <2>4. FrameInv(t)
    BY <2>1 DEF FrameInv, FrameAt, PassedAt, InsertPoints, CopyPoints
  <2> QED
    BY <2>1, <2>2, <2>3, <2>4 DEF ThreadInv, SeenInv
<1> QED
  BY <1>0, <1>4, <1>6, <1>8, <1>9, <1>10 DEF Inv, Deep

\* it stays true when nothing changes,
LEMMA StutterInv ==
  ASSUME Inv, UNCHANGED vars
  PROVE  Inv'
<1>1. /\ SubTables' = SubTables /\ freed' = freed /\ TableArray' = TableArray /\ toFree' = toFree
      /\ start' = start /\ cur' = cur /\ isDeleted' = isDeleted
      /\ pc' = pc /\ op' = op /\ key' = key /\ ret' = ret /\ frame' = frame /\ stack' = stack
      /\ seen' = seen /\ crossed' = crossed /\ late' = late
  BY DEF vars
<1>2. Typed'
  BY TypedStep DEF Inv
<1>3. /\ \A jj : Places(jj)' = Places(jj)
      /\ \A jj, x : At(jj, x)' = At(jj, x)
      /\ \A k, n, jj : Probe(k, n, jj)' = Probe(k, n, jj)
      /\ \A f : ProbeOf(f)' = ProbeOf(f)
  BY <1>1 DEF Places, At, Probe, ProbeOf, Slot, Slots, Bucket
<1>4. /\ \A k, lo, jj, n : PassedTo(k, lo, jj, n)' = PassedTo(k, lo, jj, n)
      /\ \A k, lo, n0, jj, n : Clear(k, lo, n0, jj, n)' = Clear(k, lo, n0, jj, n)
  BY <1>1, <1>3 DEF PassedTo, Clear
<1>5. \A e, lo, n0, hi : Finds(e, lo, n0, hi)' = Finds(e, lo, n0, hi)
  BY <1>1, <1>3, <1>4 DEF Finds
<1>6. \A t, jj, x : PendingAt(t, jj, x)' = PendingAt(t, jj, x)
  BY <1>1 DEF PendingAt, IsPending, Marker, Bucket
<1>7. \A jj : Completed(jj)' = Completed(jj) /\ Tally(jj)' = Tally(jj)
  BY <1>1, <1>3, <1>6 DEF Completed, Tally
<1>8. Present' = Present /\ Contents' = Contents
  BY <1>1 DEF Present, Contents, Slots
<1> SUFFICES ASSUME Sound
             PROVE  Deep'
  BY <1>1, <1>2 DEF Inv, Sound
<1> Deep
  BY DEF Inv
<1>9. InOrder' /\ Found' /\ SameEntry' /\ OncePerSubtable'
  BY <1>1, <1>3, <1>5, <1>8 DEF Deep, InOrder, InLine, Found, SameEntry, OncePerSubtable
<1>10. OnPath'
  BY <1>1, <1>3, <1>4 DEF Deep, OnPath, PathTo, Bucket
<1>11. Copied'
  BY <1>1, <1>3, <1>5, <1>7 DEF Deep, Copied
<1>12. Distinct' /\ Fresh'
  BY <1>1, <1>3, <1>6, <1>8 DEF Deep, Distinct, Fresh, Own
<1>13. ASSUME NEW t \in Threads
       PROVE  ThreadInv(t)' /\ SeenInv(t)'
  <2> ThreadInv(t) /\ SeenInv(t)
    BY DEF Deep
  <2>1. CallInv(t)' /\ SeenInv(t)'
    BY <1>1, <1>3, <1>5, <1>8 DEF ThreadInv, CallInv, SeenInv
  <2>2. StackInv(t)'
    <3>1. /\ \A g : CopyCaller(t, g)' = CopyCaller(t, g)
          /\ \A d, f : AgainCaller(t, d, f)' = AgainCaller(t, d, f)
      BY <1>1, <1>3, <1>4 DEF CopyCaller, AgainCaller
    <3> QED
      BY <1>1, <3>1 DEF ThreadInv, StackInv
  <2>3. FrameInv(t)'
    BY <1>1, <1>3, <1>4, <1>5 DEF ThreadInv, FrameInv, FrameAt, PassedAt, Origin
  <2> QED
    BY <2>1, <2>2, <2>3 DEF ThreadInv
<1> QED
  BY <1>9, <1>10, <1>11, <1>12, <1>13 DEF Deep

\* and every step keeps it.
LEMMA StepInv ==
  ASSUME Inv, NEW t \in Threads, ThreadStep(t), Look
  PROVE  Inv'
<1>1. Typed'
  BY TypedStep DEF Inv, Next, ThreadStep
<1>2. ASSUME Sound'
      PROVE  Deep'
  <2>1. Good(t)
    BY <1>2, GoodStep
  <2>2. /\ InOrder' /\ Copied' /\ Found' /\ OnPath' /\ OncePerSubtable' /\ SameEntry'
        /\ Distinct' /\ Fresh'
    BY <2>1, OrderStep, CopiedStep, FoundStep, OnPathStep, OnceStep, DistinctStep, FreshStep
  <2>3. \A u \in Threads : ThreadInv(u)' /\ SeenInv(u)'
    BY <2>1, ThreadsStep, SeenStep
  <2> QED
    BY <2>2, <2>3 DEF Deep
<1> QED
  BY <1>1, <1>2 DEF Inv

\* The inductive invariant holds throughout: what it says of the paths, the copies and the
\* threads, as long as nothing has crossed and the array is used as a line.
THEOREM Invariance == Spec => []Inv
<1>1. Inv /\ [Next]_vars => Inv'
  BY StutterInv, StepInv DEF Next, ThreadStep
<1> QED
  BY <1>1, InitInv, PTL DEF Spec

\* When head->start moves on, what is left behind is copied or deleted: a call that starts
\* now finds every key in the table.  The copier of a marked slot is the only one whose
\* count can complete the sum, and an undelete of an unmarked slot is found from head->start.
THEOREM StartLosesNoKeyCorrect == Spec => []StartLosesNoKey
<1>1. Inv => StartLosesNoKey
  <2> SUFFICES ASSUME Inv, Sound, NEW k \in Contents
               PROVE  Reaches(k, start)
    BY DEF StartLosesNoKey
  <2>1. /\ Typed /\ InOrder /\ Found /\ InLine /\ start \in Nat /\ cur \in Nat
        /\ cur <= Len(SubTables) /\ Len(SubTables) \in Nat /\ Present \subseteq Entries
    BY Window, PresentTyped DEF Inv, Deep, InOrder
  <2>2. PICK e \in Entries : e \in Present /\ isDeleted[e] = 0 /\ val[e] = k
    BY <2>1, ContentsAre
  <2>3. Finds(e, start, 0, cur)
    BY <2>1, <2>2 DEF Found
  <2>4. PICK jj \in 0 .. cur - 1, n \in Attempts :
          /\ ~Before(jj, n, start, 0) /\ Probe(k, n, jj).ent = e
          /\ Clear(k, start, 0, jj, n)
    BY <2>2, <2>3 DEF Finds
  <2>5. jj \in start .. cur - 1 /\ jj \in Nat /\ Attempts \subseteq Nat
    BY <2>1, <2>4 DEF Before, Attempts
  <2>6. \A j2 \in start .. cur - 1 : \A m : Slot(k, m, Table(j2)) = Probe(k, m, j2)
    BY <2>1 DEF InLine, Table, Probe
  <2>7. Live(Slot(k, n, Table(jj)), k)
    <3>1. Probe(k, n, jj).ent # NULL
      BY <2>2, <2>4, HashtableSmartLazyAssumption
    <3> QED
      BY <2>2, <2>4, <2>5, <2>6, <3>1 DEF Live, HasKey, Null
  <2>8. ASSUME NEW j2 \in start .. jj, NEW m \in Attempts, j2 < jj \/ m < n
        PROVE  Slot(k, m, Table(j2)) # Null
    <3>1. j2 \in start .. cur - 1 /\ j2 \in 0 .. jj /\ j2 \in Nat
      BY <2>1, <2>5, <2>8
    <3>2. ~Before(j2, m, start, 0)
      BY <2>1, <2>5, <3>1 DEF Before
    <3>3. Before(j2, m, jj, n)
      BY <2>5, <2>8, <3>1 DEF Before
    <3>4. Probe(k, m, j2) # Null
      BY <2>4, <3>1, <3>2, <3>3 DEF Clear
    <3> QED
      BY <2>6, <3>1, <3>4
  <2> QED
    BY <2>5, <2>7, <2>8 DEF Reaches
<1> QED
  BY <1>1, Invariance, PTL

\* A key has one entry that is not flagged, however deletes, undeletes and copies interleave.
THEOREM OneLiveEntryCorrect == Spec => []OneLiveEntry
<1>1. Inv => OneLiveEntry
  <2> SUFFICES ASSUME Inv, Sound, NEW e1 \in Present, NEW e2 \in Present, val[e1] = val[e2],
                      isDeleted[e1] = 0, isDeleted[e2] = 0
               PROVE  e1 = e2
    BY DEF OneLiveEntry
  <2>1. Typed /\ Deep /\ Found /\ Present \subseteq Entries
    BY PresentTyped DEF Inv, Deep
  <2>2. /\ e1 \in Entries /\ Finds(e1, start, 0, cur)
        /\ e2 \in Entries /\ Finds(e2, start, 0, cur)
    BY <2>1 DEF Found
  <2> QED
    BY <2>1, <2>2, FoundOnce
<1> QED
  BY <1>1, Invariance, PTL
-----------------------------------------------------------------------------
(* Refinement of ConcurrentSet                                             *)

\* The calls as ConcurrentSet sees them: over, once they have taken effect.
SetOp == [t \in Threads |-> IF TookEffect(t) THEN "none" ELSE op[t]]
SetKey == [t \in Threads |-> IF TookEffect(t) THEN NULL ELSE key[t]]
SetRet == [t \in Threads |-> IF TookEffect(t) THEN 1 ELSE ret[t]]
SetSeen == [t \in Threads |-> IF TookEffect(t) THEN {} ELSE seen[t]]

Undeletes(t) == lookup(t) /\ Flagged(Probed(t), frame[t].val)

\* The last of the callers.
LEMMA LastIs ==
  ASSUME NEW g, NEW d
  PROVE  Last(<<g>>) = g /\ Last(<<g, d>>) = d /\ Head(<<g>>) = g /\ Head(<<g, d>>) = g
         /\ <<g>> # <<>> /\ <<g, d>> # <<>>
BY DEF Last

\* A call that has taken effect is an insert's.
LEMMA TookIs ==
  ASSUME NEW t \in Threads, Good(t), TookEffect(t)
  PROVE  op[t] = "insert" /\ (stack[t] = <<>> => pc[t] \in DonePoints)
<1>1. CASE stack[t] = <<>>
  BY <1>1, ThreadIs DEF TookEffect, CallInv, DonePoints
<1>2. CASE stack[t] # <<>>
  BY <1>2, ThreadIs DEF CallInv
<1> QED
  BY <1>1, <1>2

\* Only an undelete makes the call of t one that has taken effect before its return.
LEMMA TookStep ==
  ASSUME NEW t \in Threads, Good(t)
  PROVE  /\ Undeletes(t) => ~TookEffect(t) /\ TookEffect(t)'
         /\ ~Undeletes(t) /\ op'[t] # "none" => (TookEffect(t)' <=> TookEffect(t))
         /\ op'[t] = "none" => ~TookEffect(t)'
<1>0. /\ Typed /\ InOrder /\ StackInv(t) /\ CallInv(t) /\ CallInv(t)' /\ StackInv(t)'
      /\ DOMAIN pc = Threads /\ DOMAIN op = Threads /\ stack[t] \in Seq(CallerFrames)
  <2>1. ThreadInv(t)'
    BY ThreadsStep
  <2> QED
    BY <2>1, ThreadIs, LocalsTypes DEF Good, ThreadInv
<1>1. ASSUME op'[t] = "none"
      PROVE  ~TookEffect(t)'
  BY <1>0, <1>1 DEF CallInv, InsertPoints, DonePoints, TookEffect
<1>2. ASSUME Undeletes(t)
      PROVE  ~TookEffect(t) /\ TookEffect(t)'
  <2>1. pc[t] = "lookup" /\ pc'[t] = "undeleted" /\ stack[t] = <<>>
    BY <1>2, UndeleteIs DEF Undeletes
  <2>2. stack'[t] = <<>>
    BY <1>0, <2>1 DEF CallInv, InsertPoints, CopyPoints
  <2> QED
    BY <2>1, <2>2 DEF TookEffect
<1>3. ASSUME ~Undeletes(t), op'[t] # "none"
      PROVE  TookEffect(t)' <=> TookEffect(t)
  <2>1. CASE CallInsert(t) \/ CallQuery(t) \/ CallDelete(t)
    <3>1. pc[t] = "idle" /\ stack' = stack /\ pc'[t] \in {"table", "qtable"}
      BY <1>0, <2>1 DEF CallInsert, CallQuery, CallDelete, Start, Goto
    <3>2. stack[t] = <<>> /\ stack'[t] = <<>>
      BY <1>0, <3>1 DEF CallInv, InsertPoints, CopyPoints
    <3> QED
      BY <3>1, <3>2 DEF TookEffect
  <2>2. ASSUME NEW r \in {0, 1}, Return(t, r)
        PROVE  TookEffect(t)' <=> TookEffect(t)
    <3>1. stack[t] # <<>>
      BY <1>0, <1>3, <2>2, ReturnEffect
    <3>2. PICK g \in CallerFrames :
            /\ g = Head(stack[t])
            /\ \/ stack[t] = <<g>> /\ Tail(stack[t]) = <<>>
               \/ \E d \in CallerFrames : stack[t] = <<g, d>> /\ Tail(stack[t]) = <<d>>
      BY <1>0, <3>1, StackIs
    <3>3. pc'[t] = g.back /\ stack'[t] = Tail(stack[t]) /\ g.back \in {"dComp", "count"}
      BY <1>0, <2>2, <3>1, <3>2, ReturnEffect, CallerTyped
    <3>4. CASE stack[t] = <<g>> /\ Tail(stack[t]) = <<>>
      <4>1. Last(stack[t]) = g
        BY <3>4, LastIs
      <4>2. TookEffect(t) <=> g.back = "dComp"
        BY <3>1, <4>1 DEF TookEffect
      <4>3. TookEffect(t)' <=> pc'[t] \in {"undeleted", "dComp"}
        BY <3>3, <3>4 DEF TookEffect
      <4> QED
        BY <3>3, <4>2, <4>3
    <3>5. ASSUME NEW d \in CallerFrames, stack[t] = <<g, d>>, Tail(stack[t]) = <<d>>
          PROVE  TookEffect(t)' <=> TookEffect(t)
      <4>1. Last(stack[t]) = d /\ Last(<<d>>) = d /\ <<d>> # <<>>
        <5>1. Last(<<g, d>>) = d
          BY LastIs
        <5>2. Last(<<d>>) = d /\ <<d>> # <<>>
          BY LastIs
        <5> QED
          BY <3>5, <5>1, <5>2
      <4>2. stack'[t] = <<d>>
        BY <3>3, <3>5
      <4>3. stack'[t] # <<>> /\ Last(stack'[t]) = d
        BY <4>1, <4>2
      <4>4. TookEffect(t)' <=> d.back = "dComp"
        BY <4>3 DEF TookEffect
      <4> QED
        BY <3>1, <4>1, <4>4 DEF TookEffect
    <3> QED
      BY <3>2, <3>4, <3>5
  <2>3. ASSUME pc[t] \in {"undeleted", "copy"}, NEW back \in {"dComp", "count"},
               CallAgain(t, Probed(t).ent, back),
               (Undeleted(t) /\ back = "dComp") \/ (CopyUp(t) /\ back = "count")
        PROVE  TookEffect(t)' <=> TookEffect(t)
    <3>1. PICK f \in CallerFrames : f.back = back /\ stack'[t] = <<f>> \o stack[t]
      BY <1>0, <2>3, CallerPushed
    <3>2. CASE stack[t] = <<>>
      <4>1. stack'[t] = <<f>>
        BY <3>1, <3>2
      <4>2. stack'[t] # <<>> /\ Last(stack'[t]) = f
        BY <4>1, LastIs
      <4>3. TookEffect(t)' <=> back = "dComp"
        BY <3>1, <4>2 DEF TookEffect
      <4>4. TookEffect(t) <=> pc[t] = "undeleted"
        BY <2>3, <3>2 DEF TookEffect
      <4> QED
        BY <2>3, <4>3, <4>4 DEF Undeleted, CopyUp
    <3>3. CASE stack[t] # <<>>
      <4>1. PICK g \in CallerFrames :
              \/ stack[t] = <<g>>
              \/ \E d \in CallerFrames : stack[t] = <<g, d>> /\ CopyCaller(t, g)
        BY <1>0, <3>3, StackIs
      <4>2. pc[t] = "copy"
        BY <1>0, <2>3, <3>3 DEF CallInv, InsertPoints, CopyPoints
      <4>3. ~CopyCaller(t, g)
        BY <4>2 DEF CopyCaller, CopyPoints
      <4>4. stack[t] = <<g>>
        BY <4>1, <4>3
      <4>5. stack'[t] = <<f, g>>
        BY <3>1, <4>4, PushTwo
      <4>6. /\ stack'[t] # <<>> /\ Last(stack'[t]) = g
            /\ Last(stack[t]) = g
        <5>1. Last(<<f, g>>) = g /\ <<f, g>> # <<>>
          BY LastIs
        <5>2. Last(<<g>>) = g
          BY LastIs
        <5> QED
          BY <4>4, <4>5, <5>1, <5>2
      <4> QED
        BY <3>3, <4>6 DEF TookEffect
    <3> QED
      BY <3>2, <3>3
  <2>4. ASSUME UNCHANGED call, Step(t), \A r \in {0, 1} : ~Return(t, r),
               \A back \in {"dComp", "count"} : ~CallAgain(t, Probed(t).ent, back)
        PROVE  TookEffect(t)' <=> TookEffect(t)
    <3>1. stack'[t] = stack[t]
      BY <2>4 DEF call
    <3>2. CASE stack[t] # <<>>
      BY <3>1, <3>2 DEF TookEffect
    <3>3. CASE stack[t] = <<>>
      <4>1. pc[t] \notin {"undeleted", "dComp"}
        BY <2>4, Zenon
        DEF Step, InsertTable, lookup, Undeleted, ReturnComp, setPtr, CopyUp, CountCopy,
            AdvanceStart, Retire, ClaimSlot, NextTableSize, addDrop, AdvanceCur, QueryTable,
            lookupQuery, setDelete
      <4>2. \A label : Goto(t, label) => pc'[t] = label
        BY <1>0 DEF Goto
      <4>3. /\ NextAttempt(t, "lookup", "table") => pc'[t] \in {"lookup", "table"}
            /\ NextAttempt(t, "qlookup", "qtable") => pc'[t] \in {"qlookup", "qtable"}
        BY <4>2 DEF NextAttempt
      <4>4. pc'[t] \notin {"undeleted", "dComp"}
        <5>1. CASE lookup(t)
          BY <1>3, <2>4, <4>2, <4>3, <5>1 DEF lookup, Undeletes
        <5>2. CASE setPtr(t) \/ CopyUp(t) \/ CountCopy(t) \/ AdvanceStart(t) \/ Retire(t)
                   \/ ClaimSlot(t)
          BY <2>4, <4>2, <4>3, <5>2
          DEF setPtr, CopyUp, CountCopy, AdvanceStart, Retire, ClaimSlot
        <5>3. CASE InsertTable(t) \/ NextTableSize(t) \/ addDrop(t) \/ AdvanceCur(t)
          BY <4>2, <5>3 DEF InsertTable, NextTableSize, addDrop, AdvanceCur
        <5>4. CASE QueryTable(t) \/ lookupQuery(t) \/ setDelete(t)
          BY <2>4, <4>2, <4>3, <5>4 DEF QueryTable, lookupQuery, setDelete
        <5>5. CASE Undeleted(t) \/ ReturnComp(t)
          BY <4>1, <5>5 DEF Undeleted, ReturnComp
        <5> QED
          BY <2>4, <5>1, <5>2, <5>3, <5>4, <5>5 DEF Step
      <4> QED
        <5>1. stack'[t] = <<>>
          BY <3>1, <3>3
        <5> QED
          BY <3>3, <4>1, <4>4, <5>1, Zenon DEF TookEffect
    <3> QED
      BY <3>2, <3>3
  <2>5. CASE Step(t)
    <3>1. \/ \E r \in {0, 1} : Return(t, r)
          \/ /\ pc[t] \in {"undeleted", "copy"}
             /\ \E back \in {"dComp", "count"} :
                  /\ CallAgain(t, Probed(t).ent, back)
                  /\ (Undeleted(t) /\ back = "dComp") \/ (CopyUp(t) /\ back = "count")
          \/ /\ UNCHANGED call /\ \A r \in {0, 1} : ~Return(t, r)
             /\ \A back \in {"dComp", "count"} : ~CallAgain(t, Probed(t).ent, back)
      <4>1. Undeleted(t) => \/ \E r \in {0, 1} : Return(t, r)
                            \/ CallAgain(t, Probed(t).ent, "dComp") /\ pc[t] = "undeleted"
        BY DEF Undeleted
      <4>2. CopyUp(t) => \/ CallAgain(t, Probed(t).ent, "count") /\ pc[t] = "copy"
                         \/ UNCHANGED call
        BY DEF CopyUp
      <4>3. \A back : CallAgain(t, Probed(t).ent, back) => ~UNCHANGED call
        <5> SUFFICES ASSUME NEW back, CallAgain(t, Probed(t).ent, back), UNCHANGED call
                     PROVE  FALSE
          OBVIOUS
        <5>1. PICK f : f = [frame[t] EXCEPT !.back = back, !.exStart = start]
          OBVIOUS
        <5>2. stack'[t] = <<f>> \o stack[t]
          BY <1>0, <5>1, LocalsTypes DEF CallAgain
        <5>3. Len(stack[t]) \in Nat /\ Len(stack'[t]) = 1 + Len(stack[t])
          <6>1. PICK st \in Seq(CallerFrames) : st = stack[t]
            BY <1>0
          <6>2. PICK m \in Nat : m = Len(stack[t]) /\ DOMAIN st = 1 .. m
            BY <6>1
          <6> QED
            BY <5>2, <6>1, <6>2
        <5>4. stack'[t] = stack[t]
          <6>1. stack' = stack
            BY Zenon DEF call
          <6> QED
            BY <6>1, Zenon
        <5> QED
          BY <5>3, <5>4
      <4>4. \/ \E r \in {0, 1} : Return(t, r)
            \/ Undeleted(t) \/ CopyUp(t)
            \/ UNCHANGED call
        BY <2>5, Zenon
        DEF Step, InsertTable, lookup, ReturnComp, setPtr, CountCopy,
            AdvanceStart, Retire, ClaimSlot, NextTableSize, addDrop, AdvanceCur, QueryTable,
            lookupQuery, setDelete, NextAttempt
      <4>5. CASE UNCHANGED call /\ \A r \in {0, 1} : ~Return(t, r)
        BY <4>3, <4>5
      <4>6. CASE Undeleted(t) /\ CallAgain(t, Probed(t).ent, "dComp") /\ pc[t] = "undeleted"
        BY <4>6
      <4>7. CASE CopyUp(t) /\ CallAgain(t, Probed(t).ent, "count") /\ pc[t] = "copy"
        BY <4>7
      <4> QED
        BY <4>1, <4>2, <4>4, <4>5, <4>6, <4>7
    <3> QED
      BY <2>2, <2>3, <2>4, <2>5, <3>1
  <2> QED
    BY <2>1, <2>5 DEF Good, ThreadStep
<1> QED
  BY <1>1, <1>2, <1>3

\* What the calls in progress see is what ConcurrentSet says they see.
LEMMA LookImplements ==
  ASSUME NEW t \in Threads, Good(t)
  PROVE  Set!Look
<1>0. /\ seen \in [Threads -> SUBSET {0, 1}] /\ DOMAIN op = Threads /\ DOMAIN op' = Threads
      /\ seen' = [u \in Threads |->
           IF op'[u] = "none" THEN {}
           ELSE seen[u] \cup {IF key'[u] \in Contents' THEN 1 ELSE 0}]
  BY LocalsTypes DEF Good, Typed, LocalsTyped, Look
<1>1. ASSUME NEW u \in Threads
      PROVE  SetSeen'[u] = IF SetOp'[u] = "none" THEN {}
                           ELSE SetSeen[u] \cup {IF SetKey'[u] \in Contents' THEN 1 ELSE 0}
  <2>1. CASE TookEffect(u)'
    BY <2>1 DEF SetSeen, SetOp
  <2>2. CASE ~TookEffect(u)' /\ op'[u] = "none"
    BY <1>0, <2>2 DEF SetSeen, SetOp
  <2>3. CASE ~TookEffect(u)' /\ op'[u] # "none"
    <3>1. ~TookEffect(u)
      <4>1. CASE u = t
        BY <2>3, <4>1, TookStep
      <4>2. CASE u # t
        BY <2>3, <4>2, OthersStay DEF TookEffect
      <4> QED
        BY <4>1, <4>2
    <3>2. /\ SetSeen[u] = seen[u] /\ SetSeen'[u] = seen'[u] /\ SetOp'[u] = op'[u]
          /\ SetKey'[u] = key'[u]
      BY <2>3, <3>1 DEF SetSeen, SetOp, SetKey
    <3> QED
      BY <1>0, <2>3, <3>2
  <2> QED
    BY <2>1, <2>2, <2>3
<1>2. SetSeen' = [u \in Threads |->
        IF SetOp'[u] = "none" THEN {}
        ELSE SetSeen[u] \cup {IF SetKey'[u] \in Contents' THEN 1 ELSE 0}]
  BY <1>1 DEF SetSeen
<1> QED
  BY <1>2 DEF Set!Look, SetSeen, SetOp, SetKey

\* The other calls, as ConcurrentSet sees them, stay.
LEMMA SetOthers ==
  ASSUME NEW t \in Threads, Good(t)
  PROVE  /\ SetOp' = [SetOp EXCEPT ![t] = SetOp'[t]]
         /\ SetKey' = [SetKey EXCEPT ![t] = SetKey'[t]]
         /\ SetRet' = [SetRet EXCEPT ![t] = SetRet'[t]]
<1>1. ASSUME NEW u \in Threads, u # t
      PROVE  SetOp'[u] = SetOp[u] /\ SetKey'[u] = SetKey[u] /\ SetRet'[u] = SetRet[u]
  <2>1. TookEffect(u)' <=> TookEffect(u)
    BY <1>1, OthersStay DEF TookEffect
  <2> QED
    BY <1>1, <2>1, OthersStay DEF SetOp, SetKey, SetRet
<1> QED
  BY <1>1 DEF SetOp, SetKey, SetRet

\* A call takes effect, or returns without having done so before: it is over for
\* ConcurrentSet, with the value that it returns.
LEMMA EndImplements ==
  ASSUME NEW t \in Threads, Good(t), NEW r \in {0, 1}, NEW S, S = Contents',
         \/ Return(t, r) /\ stack[t] = <<>> /\ ~TookEffect(t)
         \/ Undeletes(t) /\ r = 1
  PROVE  Set!Complete(t, S, r)
<1>1. SetOp'[t] = "none" /\ SetKey'[t] = NULL /\ SetRet'[t] = r
  <2>1. CASE Undeletes(t) /\ r = 1
    BY <2>1, TookStep DEF SetOp, SetKey, SetRet
  <2>2. CASE Return(t, r) /\ stack[t] = <<>> /\ ~TookEffect(t)
    <3>1. op'[t] = "none" /\ key'[t] = NULL /\ ret'[t] = r
      BY <2>2, ReturnEffect DEF Good
    <3>2. ~TookEffect(t)'
      BY <3>1, TookStep
    <3> QED
      BY <3>1, <3>2 DEF SetOp, SetKey, SetRet
  <2> QED
    BY <2>1, <2>2
<1>2. /\ SetOp' = [SetOp EXCEPT ![t] = "none"] /\ SetKey' = [SetKey EXCEPT ![t] = NULL]
      /\ SetRet' = [SetRet EXCEPT ![t] = r]
  BY <1>1, SetOthers
<1>3. Set!Look
  BY LookImplements
<1> QED
  BY <1>2, <1>3 DEF Set!Complete, SetOp, SetKey, SetRet

\* A step after which the calls and the keys are what they were is none of ConcurrentSet's.
LEMMA StutterImplements ==
  ASSUME NEW t \in Threads, Good(t), Contents' = Contents,
         SetOp' = SetOp, SetKey' = SetKey, SetRet' = SetRet
  PROVE  Set!vars' = Set!vars
<1>1. Set!Look
  BY LookImplements
<1>2. ASSUME NEW u \in Threads
      PROVE  SetSeen'[u] = SetSeen[u]
  <2>1. SetSeen'[u] = IF SetOp'[u] = "none" THEN {}
                      ELSE SetSeen[u] \cup {IF SetKey'[u] \in Contents' THEN 1 ELSE 0}
    BY <1>1 DEF Set!Look, SetSeen, SetOp, SetKey
  <2>2. CASE SetOp[u] = "none"
    <3>1. SetSeen[u] = {}
      <4>1. CASE TookEffect(u)
        BY <4>1 DEF SetSeen
      <4>2. CASE ~TookEffect(u)
        BY <2>2, <4>2, ThreadIs DEF SetSeen, SetOp, SeenInv
      <4> QED
        BY <4>1, <4>2
    <3> QED
      BY <2>1, <2>2, <3>1
  <2>3. CASE SetOp[u] # "none"
    <3>1. ~TookEffect(u) /\ op[u] # "none"
      BY <2>3 DEF SetOp
    <3>2. SetSeen[u] = seen[u] /\ SetKey[u] = key[u]
      BY <3>1 DEF SetSeen, SetKey
    <3>3. (IF key[u] \in Contents THEN 1 ELSE 0) \in seen[u]
      BY <3>1, ThreadIs DEF SeenInv
    <3> QED
      BY <2>1, <2>3, <3>2, <3>3
  <2> QED
    BY <2>2, <2>3
<1>3. SetSeen' = SetSeen
  BY <1>2 DEF SetSeen
<1> QED
  BY <1>3 DEF Set!vars, SetSeen, SetOp, SetKey, SetRet

\* A call.
LEMMA CallImplements ==
  ASSUME NEW t \in Threads, Good(t), NEW o \in {"insert", "query", "delete"}, NEW k \in Keys,
         NEW e, NEW label \in {"table", "qtable"}, Start(t, o, k, e, label)
  PROVE  Set!Next
<1>0. /\ pc[t] = "idle" /\ op[t] = "none" /\ stack[t] = <<>> /\ stack'[t] = <<>>
      /\ pc'[t] = label /\ op'[t] = o /\ key'[t] = k /\ ret'[t] = 0
  <2>1. CallInv(t) /\ Typed
    BY ThreadIs
  <2>2. /\ DOMAIN pc = Threads /\ DOMAIN op = Threads /\ DOMAIN key = Threads
        /\ DOMAIN ret = Threads
    BY <2>1, LocalsTypes
  <2> QED
    BY <2>1, <2>2 DEF CallInv, Start, Goto, InsertPoints, CopyPoints
<1>1. ~TookEffect(t) /\ ~TookEffect(t)'
  BY <1>0 DEF TookEffect
<1>2. SetOp[t] = "none" /\ SetOp'[t] = o /\ SetKey'[t] = k /\ SetRet'[t] = 0
  BY <1>0, <1>1 DEF SetOp, SetKey, SetRet
<1>3. /\ SetOp' = [SetOp EXCEPT ![t] = o] /\ SetKey' = [SetKey EXCEPT ![t] = k]
      /\ SetRet' = [SetRet EXCEPT ![t] = 0]
  BY <1>2, SetOthers
<1>4. Contents' = Contents
  BY <1>0, ContentsStep DEF Inserts, Removes, Claims, ClaimSlot, lookup, setDelete
<1>5. Set!Look
  BY LookImplements
<1>6. Set!Invoke(t, o, k)
  BY <1>2, <1>3, <1>4, <1>5 DEF Set!Invoke, SetOp, SetKey, SetRet
<1> QED
  BY <1>6 DEF Set!Next

\* A query that has seen its key at every instant does not run out of subtables or into NULL,
\* and a delete does not either.
LEMMA SearchGoesOn ==
  ASSUME NEW t \in Threads, Good(t), pc[t] \in {"qtable", "qlookup"}, 0 \notin seen[t]
  PROVE  /\ frame[t].j < frame[t].limit /\ frame[t].j < cur
         /\ pc[t] = "qlookup" => Probed(t) # Null
<1>0. /\ SeenInv(t) /\ Typed /\ InOrder /\ FrameAt(pc[t], frame[t]) /\ frame[t] \in Frames
      /\ Present \subseteq Entries /\ op[t] # "none"
  <2>1. SeenInv(t) /\ Typed /\ InOrder /\ FrameAt(pc[t], frame[t]) /\ CallInv(t)
    BY ThreadIs
  <2> QED
    BY <2>1, LocalsTypes, PresentTyped DEF CallInv
<1>1. PICK jj \in Nat, n \in Attempts, l \in Nat :
        jj = frame[t].j /\ n = frame[t].i /\ l = frame[t].limit
  BY <1>0, FrameTyped
<1>2. PICK e \in Entries : val[e] = key[t] /\ Finds(e, jj, n, l)
  BY <1>0, <1>1 DEF SeenInv
<1>3. jj < l /\ Probe(key[t], n, jj) # Null
  BY <1>2, FindsHere
<1>4. l <= cur
  <2>1. ThreadTyped(t)
    BY ThreadIs
  <2> QED
    BY <1>1, <2>1 DEF ThreadTyped, QueryPoints
<1>5. pc[t] = "qlookup" => Probed(t) # Null
  <2> SUFFICES ASSUME pc[t] = "qlookup"
               PROVE  Probed(t) # Null
    OBVIOUS
  <2>1. Probed(t) = ProbeOf(frame[t])
    BY <1>0, ProbedIs DEF ProbePoints
  <2>2. CallInv(t)
    BY ThreadIs
  <2>3. frame[t].val = key[t]
    BY <2>2 DEF CallInv, InsertPoints, CopyPoints
  <2> QED
    BY <1>1, <1>3, <2>1, <2>3 DEF ProbeOf
<1> QED
  BY <1>0, <1>1, <1>3, <1>4, <1>5, Window

\* With t's own call as it was, they all are.
LEMMA SetSame ==
  ASSUME NEW t \in Threads, Good(t), SetOp'[t] = SetOp[t], SetKey'[t] = SetKey[t],
         SetRet'[t] = SetRet[t]
  PROVE  SetOp' = SetOp /\ SetKey' = SetKey /\ SetRet' = SetRet
<1>1. /\ SetOp = [u \in Threads |-> SetOp[u]] /\ SetKey = [u \in Threads |-> SetKey[u]]
      /\ SetRet = [u \in Threads |-> SetRet[u]]
  BY DEF SetOp, SetKey, SetRet
<1>2. /\ [SetOp EXCEPT ![t] = SetOp[t]] = SetOp /\ [SetKey EXCEPT ![t] = SetKey[t]] = SetKey
      /\ [SetRet EXCEPT ![t] = SetRet[t]] = SetRet
  BY <1>1
<1> QED
  BY <1>2, SetOthers

\* A call that returns before it has been over for ConcurrentSet.
LEMMA ReturnImplements ==
  ASSUME NEW t \in Threads, Good(t), NEW r \in {0, 1}, Return(t, r), Step(t), stack[t] = <<>>,
         ~TookEffect(t)
  PROVE  Set!Next \/ NoReturnValue
<1>0. /\ pc'[t] = "idle" /\ ret'[t] = r /\ Typed /\ InOrder /\ DOMAIN pc = Threads
      /\ DOMAIN ret = Threads /\ CallInv(t) /\ SeenInv(t) /\ FrameAt(pc[t], frame[t])
      /\ op[t] \in {"none", "insert", "query", "delete"} /\ frame[t] \in Frames
      /\ isDeleted \in [Entries -> {0, 1}] /\ Present \subseteq Entries
  BY ReturnEffect, ThreadIs, LocalsTypes, PresentTyped DEF Good, Typed, TablesTyped
<1>1. /\ \A label : Goto(t, label) => label = "idle"
      /\ \A q : Return(t, q) => q = r
      /\ ~NextAttempt(t, "lookup", "table") /\ ~NextAttempt(t, "qlookup", "qtable")
      /\ \A e, back : ~CallAgain(t, e, back)
  <2>1. \A label : Goto(t, label) => label = "idle"
    BY <1>0 DEF Goto
  <2>2. \A q : Return(t, q) => q = r
    BY <1>0 DEF Return
  <2> QED
    BY <2>1, <2>2 DEF NextAttempt, CallAgain
<1>2. SetOp[t] = op[t] /\ SetKey[t] = key[t] /\ SetSeen[t] = seen[t]
  BY DEF SetOp, SetKey, SetSeen
<1>3. \A S : S = Contents' => Set!Complete(t, S, r)
  BY EndImplements
<1>4. ASSUME op[t] = "insert",
             \/ key[t] \notin Contents /\ Contents' = Contents \cup {key[t]} /\ r = 1
             \/ 1 \in seen[t] /\ Contents' = Contents /\ r = 0
      PROVE  Set!Next
  <2>1. Set!Insert(t)
    <3>1. CASE key[t] \notin Contents /\ Contents' = Contents \cup {key[t]} /\ r = 1
      <4>1. Set!Complete(t, Contents \cup {key[t]}, 1)
        BY <1>3, <3>1
      <4> QED
        BY <1>2, <1>4, <3>1, <4>1 DEF Set!Insert, SetOp, SetKey
    <3>2. CASE 1 \in seen[t] /\ Contents' = Contents /\ r = 0
      <4>1. Set!Complete(t, Contents, 0)
        BY <1>3, <3>2
      <4> QED
        BY <1>2, <1>4, <3>2, <4>1 DEF Set!Insert, SetOp, SetSeen
    <3> QED
      BY <1>4, <3>1, <3>2
  <2> QED
    BY <2>1 DEF Set!Next
<1>5. ASSUME op[t] = "query", r \in seen[t], Contents' = Contents
      PROVE  Set!Next
  <2>1. Set!Complete(t, Contents, r)
    BY <1>3, <1>5
  <2>2. Set!Query(t)
    BY <1>2, <1>5, <2>1 DEF Set!Query, SetOp, SetSeen
  <2> QED
    BY <2>2 DEF Set!Next
<1>6. ASSUME op[t] = "delete",
             \/ key[t] \in Contents /\ Contents' = Contents \ {key[t]} /\ r = 1
             \/ 0 \in seen[t] /\ Contents' = Contents /\ r = 0
      PROVE  Set!Next
  <2>1. Set!Delete(t)
    <3>1. CASE key[t] \in Contents /\ Contents' = Contents \ {key[t]} /\ r = 1
      <4>1. Set!Complete(t, Contents \ {key[t]}, 1)
        BY <1>3, <3>1
      <4> QED
        BY <1>2, <1>6, <3>1, <4>1 DEF Set!Delete, SetOp, SetKey
    <3>2. CASE 0 \in seen[t] /\ Contents' = Contents /\ r = 0
      <4>1. Set!Complete(t, Contents, 0)
        BY <1>3, <3>2
      <4> QED
        BY <1>2, <1>6, <3>2, <4>1 DEF Set!Delete, SetOp, SetSeen
    <3> QED
      BY <1>6, <3>1, <3>2
  <2> QED
    BY <2>1 DEF Set!Next
<1>7. ASSUME pc[t] \in {"lookup", "qlookup"}, Live(Probed(t), frame[t].val)
      PROVE  1 \in seen[t]
  <2>1. frame[t].val = key[t] /\ op[t] # "none"
    BY <1>0, <1>7 DEF CallInv
  <2>2. /\ frame[t].j \in 0 .. Len(SubTables) - 1 /\ s(t) \in Places(frame[t].j)
        /\ Probed(t) = At(frame[t].j, s(t))
    BY <1>0, <1>7, ProbedIs DEF ProbePoints
  <2>3. Probed(t).ent \in Present /\ isDeleted[Probed(t).ent] = 0 /\ val[Probed(t).ent] = key[t]
    BY <1>0, <1>7, <2>1, <2>2, AtTyped DEF Live, HasKey
  <2>4. key[t] \in Contents
    BY <2>3, ContentsAre
  <2> QED
    BY <1>0, <2>1, <2>4 DEF SeenInv
<1>8. CASE lookup(t)
  <2>1. Live(Probed(t), frame[t].val) /\ r = 0 /\ pc[t] = "lookup"
    BY <1>1, <1>8 DEF lookup
  <2>2. Contents' = Contents
    <3>1. ~Inserts(t) /\ ~Removes(t)
      BY <2>1 DEF Inserts, Removes, Claims, ClaimSlot, setDelete, Live, Flagged
    <3> QED
      BY <3>1, ContentsStep
  <2> QED
    BY <1>0, <1>4, <1>7, <2>1, <2>2 DEF CallInv, InsertPoints
<1>9. CASE ClaimSlot(t)
  <2>0. op[t] = "insert" /\ pc[t] = "claim" /\ frame[t].val = key[t]
    BY <1>0, <1>9 DEF ClaimSlot, CallInv, InsertPoints
  <2>1. CASE Probed(t) = Null
    <3>1. r = 1 /\ Inserts(t)
      BY <1>1, <1>9, <2>1 DEF ClaimSlot, Inserts, Claims
    <3> QED
      BY <1>4, <2>0, <3>1, ContentsStep
  <2>2. CASE Probed(t) # Null
    <3>1. HasKey(Probed(t), key[t]) /\ r = 0
      BY <1>1, <1>9, <2>0, <2>2 DEF ClaimSlot
    <3>2. ~Inserts(t) /\ ~Removes(t)
      BY <2>0, <2>2 DEF Inserts, Claims, Removes, setDelete, lookup
    <3>3. Probed(t) = ProbeOf(frame[t])
      BY <1>0, <2>0, ProbedIs DEF ProbePoints
    <3>4. 1 \in seen[t]
      BY <1>0, <2>0, <3>1, <3>3 DEF SeenInv
    <3> QED
      BY <1>4, <2>0, <3>1, <3>2, <3>4, ContentsStep
  <2> QED
    BY <2>1, <2>2
<1>10. CASE QueryTable(t)
  <2>1. /\ pc[t] = "qtable" /\ op[t] \in {"query", "delete"}
        /\ frame[t].limit \in Nat /\ cur \in Nat /\ frame[t].j \in Nat
    BY <1>0, <1>10, FrameTyped, Window DEF QueryTable, CallInv, QueryPoints
  <2>2. PICK limit \in {frame[t].limit, cur} :
          /\ ~(frame[t].j < limit)
          /\ \E q \in (IF op[t] = "query" THEN {0} ELSE {0, 1}) : Return(t, q)
    BY <1>1, <1>10 DEF QueryTable
  <2>3. 0 \in seen[t]
    BY <2>1, <2>2, SearchGoesOn
  <2>4. Contents' = Contents
    BY <2>1, ContentsStep DEF Inserts, Removes, Claims, ClaimSlot, setDelete, lookup
  <2>5. CASE op[t] = "query"
    BY <1>1, <1>5, <2>2, <2>3, <2>4, <2>5
  <2>6. CASE op[t] = "delete"
    <3>1. Set!Complete(t, Contents, r)
      BY <1>3, <2>4
    <3> QED
      BY <2>1, <2>3, <2>6, <3>1 DEF NoReturnValue
  <2> QED
    BY <2>1, <2>5, <2>6
<1>11. CASE lookupQuery(t)
  <2>1. pc[t] = "qlookup" /\ op[t] \in {"query", "delete"}
    BY <1>0, <1>11 DEF lookupQuery, CallInv, QueryPoints
  <2>2. Contents' = Contents
    BY <2>1, ContentsStep DEF Inserts, Removes, Claims, ClaimSlot, setDelete, lookup
  <2>3. CASE Probed(t) = Null /\ r = 0
    <3>1. 0 \in seen[t]
      BY <2>1, <2>3, SearchGoesOn
    <3> QED
      BY <1>5, <1>6, <2>1, <2>2, <2>3, <3>1
  <2>4. CASE Live(Probed(t), frame[t].val) /\ r = 1 /\ op[t] = "query"
    BY <1>5, <1>7, <2>1, <2>2, <2>4
  <2> QED
    BY <1>1, <1>11, <2>3, <2>4 DEF lookupQuery
<1>12. CASE setDelete(t)
  <2>1. pc[t] = "delete" /\ op[t] = "delete"
    BY <1>0, <1>12 DEF setDelete, CallInv
  <2>2. CASE isDeleted[Probed(t).ent] = 0
    <3>1. r = 1 /\ Removes(t)
      BY <1>1, <1>12, <2>2 DEF setDelete, Removes
    <3> QED
      BY <1>6, <2>1, <3>1, ContentsStep
  <2>3. CASE isDeleted[Probed(t).ent] # 0
    <3>1. r = 0 /\ ~Removes(t) /\ ~Inserts(t)
      BY <1>1, <1>12, <2>1, <2>3
      DEF setDelete, Removes, Inserts, Claims, ClaimSlot, lookup
    <3>2. HasKey(Probed(t), frame[t].val) /\ Probed(t) = ProbeOf(frame[t])
      <4>1. Probed(t) = ProbeOf(frame[t])
        BY <1>0, <2>1, ProbedIs DEF ProbePoints
      <4> QED
        BY <1>0, <2>1, <4>1 DEF FrameAt
    <3>3. Probed(t).ent \in Entries
      BY <1>0, <2>1, <3>2, ProbedIs, AtTyped DEF ProbePoints, HasKey
    <3>4. 0 \in seen[t]
      BY <1>0, <2>1, <2>3, <3>2, <3>3 DEF SeenInv
    <3> QED
      BY <1>6, <2>1, <3>1, <3>4, ContentsStep
  <2> QED
    BY <2>2, <2>3
<1>13. CASE Undeleted(t) \/ ReturnComp(t)
  BY <1>13 DEF Undeleted, ReturnComp, TookEffect
<1>14. ~(\/ InsertTable(t) \/ setPtr(t) \/ CopyUp(t) \/ CountCopy(t) \/ AdvanceStart(t)
         \/ Retire(t) \/ NextTableSize(t) \/ addDrop(t) \/ AdvanceCur(t))
  BY <1>1
  DEF InsertTable, setPtr, CopyUp, CountCopy, AdvanceStart, Retire, NextTableSize, addDrop,
      AdvanceCur
<1> QED
  BY <1>8, <1>9, <1>10, <1>11, <1>12, <1>13, <1>14 DEF Step

\* Every step of a thread is one of ConcurrentSet, or changes nothing there, or is the return
\* of a deleteVal that has no value to return.
LEMMA StepImplements ==
  ASSUME NEW t \in Threads, Good(t)
  PROVE  Set!vars' = Set!vars \/ Set!Next \/ NoReturnValue
<1>0. Typed /\ CallInv(t) /\ DOMAIN pc = Threads /\ op[t] \in {"none", "insert", "query", "delete"}
  BY ThreadIs, LocalsTypes
<1>1. CASE CallInsert(t)
  <2>1. PICK e \in Entries \ Referenced : Start(t, "insert", val[e], e, "table")
    BY <1>1 DEF CallInsert
  <2>2. val[e] \in Keys
    BY DEF Keys
  <2> QED
    BY <2>1, <2>2, CallImplements
<1>2. CASE CallQuery(t)
  BY <1>2, CallImplements DEF CallQuery
<1>3. CASE CallDelete(t)
  BY <1>3, CallImplements DEF CallDelete
<1>4. CASE Undeletes(t)
  <2>1. Inserts(t) /\ op[t] = "insert" /\ ~TookEffect(t)
    <3>1. pc[t] = "lookup"
      BY <1>4 DEF Undeletes, lookup
    <3> QED
      BY <1>0, <1>4, <3>1, TookStep DEF Undeletes, Inserts, CallInv, InsertPoints
  <2>2. key[t] \notin Contents /\ Contents' = Contents \cup {key[t]}
    BY <2>1, ContentsStep
  <2>3. Set!Complete(t, Contents \cup {key[t]}, 1)
    BY <1>4, <2>2, EndImplements
  <2>4. SetOp[t] = "insert" /\ SetKey[t] = key[t]
    BY <2>1 DEF SetOp, SetKey
  <2>5. Set!Insert(t)
    BY <2>2, <2>3, <2>4 DEF Set!Insert, SetOp, SetKey
  <2> QED
    BY <2>5 DEF Set!Next
<1>5. ASSUME Step(t), ~Undeletes(t), NEW r \in {0, 1}, Return(t, r), stack[t] = <<>>
      PROVE  Set!vars' = Set!vars \/ Set!Next \/ NoReturnValue
  <2>1. CASE ~TookEffect(t)
    BY <1>5, <2>1, ReturnImplements
  <2>2. CASE TookEffect(t)
    <3>1. pc[t] \in DonePoints
      BY <1>5, <2>2, TookIs
    <3>2. r = 1
      <4>1. /\ op'[t] = "none" /\ ret'[t] = r /\ DOMAIN ret = Threads
        BY <1>0, <1>5, ReturnEffect, LocalsTypes
      <4>2. Return(t, 1)
        <5>1. pc'[t] = "idle"
          BY <1>0, <1>5, ReturnEffect
        <5>2. ~CallAgain(t, Probed(t).ent, "dComp")
          <6>1. ~Goto(t, "table")
            BY <1>0, <5>1 DEF Goto
          <6> QED
            BY <6>1, Zenon DEF CallAgain
        <5>3. Undeleted(t) \/ ReturnComp(t)
          BY <1>5, <3>1, Zenon
          DEF Step, DonePoints, InsertTable, lookup, setPtr, CopyUp, CountCopy, AdvanceStart,
              Retire, ClaimSlot, NextTableSize, addDrop, AdvanceCur, QueryTable, lookupQuery,
              setDelete
        <5> QED
          BY <5>2, <5>3 DEF Undeleted, ReturnComp
      <4> QED
        BY <1>5, <4>1, <4>2 DEF Return
    <3>3. /\ op'[t] = "none" /\ key'[t] = NULL /\ ret'[t] = 1
      BY <1>0, <1>5, <3>2, ReturnEffect
    <3>4. ~TookEffect(t)'
      BY <3>3, TookStep
    <3>5. /\ SetOp'[t] = SetOp[t] /\ SetKey'[t] = SetKey[t] /\ SetRet'[t] = SetRet[t]
      BY <2>2, <3>3, <3>4 DEF SetOp, SetKey, SetRet
    <3>6. SetOp' = SetOp /\ SetKey' = SetKey /\ SetRet' = SetRet
      BY <3>5, SetSame
    <3>7. Contents' = Contents
      BY <3>1, ContentsStep
      DEF DonePoints, Inserts, Removes, Claims, ClaimSlot, lookup, setDelete
    <3> QED
      BY <3>6, <3>7, StutterImplements
  <2> QED
    BY <2>1, <2>2
<1>6. ASSUME Step(t), ~Undeletes(t), \A r \in {0, 1} : ~(Return(t, r) /\ stack[t] = <<>>)
      PROVE  Set!vars' = Set!vars
  <2>1. op' = op /\ key' = key /\ ret' = ret
    <3>1. \/ \E r \in {0, 1} : Return(t, r)
          \/ \E e, back : CallAgain(t, e, back)
          \/ UNCHANGED call
      BY <1>6, Zenon
      DEF Step, InsertTable, lookup, Undeleted, ReturnComp, setPtr, CopyUp, CountCopy,
          AdvanceStart, Retire, ClaimSlot, NextTableSize, addDrop, AdvanceCur, QueryTable,
          lookupQuery, setDelete, NextAttempt
    <3>2. ASSUME NEW r \in {0, 1}, Return(t, r)
          PROVE  op' = op /\ key' = key /\ ret' = ret
      BY <1>6, <3>2 DEF Return
    <3>3. CASE UNCHANGED call
      BY <3>3 DEF call
    <3>4. CASE \E e, back : CallAgain(t, e, back)
      BY <3>4, Zenon DEF CallAgain
    <3> QED
      BY <3>1, <3>2, <3>3, <3>4, Zenon
  <2>2. op'[t] # "none"
    <3>1. pc[t] # "idle"
      BY <1>6, Zenon
      DEF Step, InsertTable, lookup, Undeleted, ReturnComp, setPtr, CopyUp, CountCopy,
          AdvanceStart, Retire, ClaimSlot, NextTableSize, addDrop, AdvanceCur, QueryTable,
          lookupQuery, setDelete
    <3> QED
      BY <1>0, <2>1, <3>1 DEF CallInv
  <2>3. TookEffect(t)' <=> TookEffect(t)
    BY <1>6, <2>2, TookStep
  <2>4. SetOp'[t] = SetOp[t] /\ SetKey'[t] = SetKey[t] /\ SetRet'[t] = SetRet[t]
    BY <2>1, <2>3 DEF SetOp, SetKey, SetRet
  <2>5. SetOp' = SetOp /\ SetKey' = SetKey /\ SetRet' = SetRet
    BY <2>4, SetSame
  <2>6. ~Inserts(t) /\ ~Removes(t)
    <3>1. ~(Claims(t) /\ stack[t] = <<>>)
      BY <1>6 DEF Claims, ClaimSlot
    <3>2. ~Removes(t)
      <4> SUFFICES ASSUME Removes(t)
                   PROVE  FALSE
        OBVIOUS
      <4>1. Return(t, 1) /\ pc[t] = "delete"
        BY DEF Removes, setDelete
      <4>2. stack[t] = <<>>
        BY <1>0, <4>1 DEF CallInv, InsertPoints, CopyPoints
      <4> QED
        BY <1>6, <4>1, <4>2
    <3> QED
      BY <1>6, <3>1, <3>2 DEF Inserts, Undeletes
  <2> QED
    BY <2>5, <2>6, ContentsStep, StutterImplements
<1> QED
  BY <1>1, <1>2, <1>3, <1>4, <1>5, <1>6 DEF Good, ThreadStep

\* hashtable_delete_smart_lazy.c is a linearizable set while its entries move and are deleted
\* and undeleted, but for the value deleteVal gives for an absent key: until an undelete
\* crosses the copy of its entry, every step is, through Contents, one of ConcurrentSet.
THEOREM LinearizabilityCorrect == Spec => LinearizableUntilCrossed
<1>1. Init => Set!Init
  <2> SUFFICES ASSUME Init
               PROVE  Set!Init
    OBVIOUS
  <2>1. Present = {}
    BY PresentInit
  <2>2. Contents = {}
    BY <2>1 DEF Contents
  <2>3. \A t \in Threads : ~TookEffect(t)
    BY DEF Init, TookEffect
  <2>4. /\ SetOp = [t \in Threads |-> "none"] /\ SetKey = [t \in Threads |-> NULL]
        /\ SetRet = [t \in Threads |-> 0] /\ SetSeen = [t \in Threads |-> {}]
    BY <2>3 DEF Init, SetOp, SetKey, SetRet, SetSeen
  <2> QED
    BY <2>2, <2>4 DEF Set!Init, SetOp, SetKey, SetRet, SetSeen
<1>2. Inv /\ [Next]_vars => [Sound' /\ Set!vars' # Set!vars => Set!Next \/ NoReturnValue]_vars
  <2> SUFFICES ASSUME Inv, Next, Sound', Set!vars' # Set!vars
               PROVE  Set!Next \/ NoReturnValue
    OBVIOUS
  <2>1. PICK t \in Threads : ThreadStep(t) /\ Look
    BY DEF Next, ThreadStep
  <2>2. Good(t)
    BY <2>1, GoodStep
  <2> QED
    BY <2>2, StepImplements
<1> QED
  BY <1>1, <1>2, Invariance, PTL DEF Spec, LinearizableUntilCrossed
-----------------------------------------------------------------------------
(* How long the array is used as a line                                    *)

\* The subtables made fill the array from its start, in their order,
Filled == \A n \in 0 .. MaxTables - 1 : TableArray[n] = IF n < Len(SubTables) THEN n + 1 ELSE None

\* none has been retired,
NoneRetired == freed = {} /\ \A n \in 0 .. MaxTables - 1 : toFree[n] = None

\* and a frame has the subtable of its iter_j; what t retires is above them.
Straight(t) ==
  /\ frame[t].ht \in {None, frame[t].j + 1}
  /\ \A n \in DOMAIN stack[t] : stack[t][n].ht = stack[t][n].j + 1
  /\ pc[t] = "retire" => frame[t].exStart < MaxTables \div 2
  /\ pc[t] = "advance" => frame[t].j < Len(SubTables)

Few == ~crossed /\ Len(SubTables) <= MaxTables \div 2
LineInv == Few => ~late /\ Filled /\ NoneRetired /\ \A t \in Threads : Straight(t)

\* A step of t in a behaviour that has made few subtables.
Early(t) ==
  /\ Typed /\ Deep /\ Filled /\ NoneRetired /\ (\A u \in Threads : Straight(u))
  /\ ThreadStep(t) /\ TablesOf(t) /\ GlobalsOf(t) /\ LocalsOf(t)
  /\ Len(SubTables) <= MaxTables \div 2 /\ Len(SubTables') <= MaxTables \div 2
  /\ Len(SubTables) <= Len(SubTables') /\ Len(SubTables') \in Nat

\* The steps of such a behaviour.
LEMMA EarlyStep ==
  ASSUME Inv, LineInv, NEW t \in Threads, ThreadStep(t), Look, Few'
  PROVE  Early(t)
<1>1. Typed /\ TablesOf(t) /\ GlobalsOf(t) /\ LocalsOf(t) /\ crossed \in BOOLEAN
  BY StepEffect DEF Inv, Typed
<1>2. /\ Len(SubTables') \in Nat /\ DOMAIN SubTables' = 1 .. Len(SubTables')
      /\ DOMAIN SubTables \subseteq DOMAIN SubTables'
  BY <1>1 DEF TablesOf
<1>3. Len(SubTables) \in Nat /\ DOMAIN SubTables = 1 .. Len(SubTables)
  BY <1>1, SubTablesTyped DEF Typed
<1>4. Len(SubTables) <= Len(SubTables')
  <2>1. CASE Len(SubTables) = 0
    BY <1>2, <2>1
  <2>2. CASE Len(SubTables) # 0
    <3>1. Len(SubTables) \in DOMAIN SubTables'
      BY <1>2, <1>3, <2>2
    <3> QED
      BY <1>2, <3>1
  <2> QED
    BY <2>1, <2>2
<1>5. ~crossed' /\ Len(SubTables') <= MaxTables \div 2
  BY DEF Few
<1>6. Len(SubTables) <= MaxTables \div 2
  BY <1>2, <1>3, <1>4, <1>5, ArrayBounds
<1>7. Few
  BY <1>1, <1>5, <1>6 DEF Few, Look
<1>8. Sound /\ Filled /\ NoneRetired /\ \A u \in Threads : Straight(u)
  BY <1>7 DEF LineInv, Few, Sound
<1> QED
  BY <1>1, <1>2, <1>4, <1>5, <1>6, <1>8 DEF Early, Inv

\* The sizes.
LEMMA EarlyWindow ==
  ASSUME NEW t \in Threads, Early(t)
  PROVE  /\ start \in Nat /\ cur \in Nat /\ Len(SubTables) \in Nat
         /\ start < cur /\ cur <= Len(SubTables) /\ cur < MaxTables
         /\ frame[t] \in Frames /\ frame[t].j \in Nat /\ frame[t].exStart \in Nat
         /\ FrameAt(pc[t], frame[t]) /\ ThreadTyped(t) /\ Straight(t)
         /\ MaxTables \in Nat /\ MaxTables \div 2 \in Nat
         /\ MaxTables \div 2 + MaxTables \div 2 = MaxTables /\ MaxTables \div 2 > 1
         /\ \A n \in Nat : n < MaxTables => IndexOf(n) = n
<1>1. Typed /\ InOrder /\ Len(SubTables) <= MaxTables \div 2 /\ Straight(t)
  BY DEF Early, Deep
<1>2. /\ MaxTables \in Nat /\ MaxTables \div 2 \in Nat /\ MaxTables \div 2 > 1
      /\ MaxTables \div 2 + MaxTables \div 2 = MaxTables
      /\ \A n \in Nat : n < MaxTables => IndexOf(n) = n
  <2>1. MaxTables \in {4, 8, 16, 32, 64}
    BY HashtableSmartLazyAssumption
  <2>2. \A m \in {4, 8, 16, 32, 64}, n \in Nat : n < m => n % m = n
    OBVIOUS
  <2>3. \A n \in Nat : n < MaxTables => IndexOf(n) = n
    BY <2>1, <2>2 DEF IndexOf
  <2> QED
    BY <2>1, <2>3
<1>3. /\ start \in Nat /\ cur \in Nat /\ Len(SubTables) \in Nat
      /\ start < cur /\ cur <= Len(SubTables)
  BY <1>1, Window
<1>4. cur < MaxTables
  BY <1>1, <1>2, <1>3
<1>5. frame[t] \in Frames /\ frame[t].j \in Nat /\ frame[t].exStart \in Nat
  BY <1>1, LocalsTypes, FrameTyped
<1>6. FrameAt(pc[t], frame[t]) /\ ThreadTyped(t)
  BY <1>1 DEF Early, Deep, ThreadInv, FrameInv, Typed
<1> QED
  BY <1>1, <1>2, <1>3, <1>4, <1>5, <1>6

\* Only addDrop makes a subtable, and only it and a retirement change the arrays.
LEMMA ArrayStep ==
  ASSUME NEW t \in Threads, Early(t), ~addDrop(t)
  PROVE  Len(SubTables') = Len(SubTables) /\ (Retire(t) \/ UNCHANGED array)
<1>1. SubTables \in Seq(SubTableSet) /\ SubTables' \in Seq(SubTableSet)
  BY DEF Early, Typed, TablesTyped, TablesOf
<1>2. DOMAIN SubTables' = DOMAIN SubTables
  <2>1. CASE CallInsert(t) \/ CallQuery(t) \/ CallDelete(t)
    BY <2>1, Zenon DEF CallInsert, CallQuery, CallDelete, Start
  <2>2. CASE InsertTable(t) \/ Undeleted(t) \/ ReturnComp(t) \/ CopyUp(t) \/ AdvanceStart(t)
             \/ Retire(t) \/ NextTableSize(t) \/ AdvanceCur(t) \/ QueryTable(t) \/ lookupQuery(t)
    BY <2>2, Zenon DEF shared, InsertTable, Undeleted, ReturnComp, CopyUp, AdvanceStart,
         Retire, NextTableSize, AdvanceCur, QueryTable, lookupQuery
  <2>3. CASE lookup(t) \/ setDelete(t) \/ setPtr(t) \/ CountCopy(t) \/ ClaimSlot(t)
    BY <2>3 DEF lookup, setDelete, setPtr, CountCopy, ClaimSlot
  <2> QED
    BY <2>1, <2>2, <2>3 DEF Early, ThreadStep, Step
<1>3. Retire(t) \/ UNCHANGED array
  <2>1. CASE CallInsert(t) \/ CallQuery(t) \/ CallDelete(t)
    BY <2>1, Zenon DEF CallInsert, CallQuery, CallDelete, Start
  <2>2. CASE InsertTable(t) \/ Undeleted(t) \/ ReturnComp(t) \/ CopyUp(t) \/ AdvanceStart(t)
             \/ NextTableSize(t) \/ AdvanceCur(t) \/ QueryTable(t) \/ lookupQuery(t)
    BY <2>2, Zenon DEF shared, InsertTable, Undeleted, ReturnComp, CopyUp, AdvanceStart,
         NextTableSize, AdvanceCur, QueryTable, lookupQuery
  <2>3. CASE lookup(t) \/ setDelete(t) \/ setPtr(t) \/ CountCopy(t) \/ ClaimSlot(t)
    BY <2>3, Zenon DEF lookup, setDelete, setPtr, CountCopy, ClaimSlot
  <2> QED
    BY <2>1, <2>2, <2>3 DEF Early, ThreadStep, Step
<1> QED
  BY <1>1, <1>2, <1>3

\* The next subtable takes the next place; the place retired has none, nor one to free.
LEMMA FilledStep ==
  ASSUME NEW t \in Threads, Early(t)
  PROVE  Filled' /\ NoneRetired' /\ (addDrop(t) => frame[t].j < Len(SubTables'))
<1>1. /\ Filled /\ NoneRetired /\ DOMAIN TableArray = 0 .. MaxTables - 1
      /\ DOMAIN toFree = 0 .. MaxTables - 1
      /\ Len(SubTables) <= MaxTables \div 2 /\ Len(SubTables) \in Nat /\ cur <= Len(SubTables)
      /\ MaxTables \in Nat /\ MaxTables \div 2 \in Nat /\ MaxTables \div 2 > 1
      /\ MaxTables \div 2 + MaxTables \div 2 = MaxTables
      /\ frame[t].j \in Nat /\ frame[t].exStart \in Nat /\ cur \in Nat
      /\ \A n \in Nat : n < MaxTables => IndexOf(n) = n
  BY EarlyWindow DEF Early, Typed, TablesTyped
<1>2. CASE addDrop(t)
  <2>r. NoneRetired'
    BY <1>1, <1>2 DEF addDrop, NoneRetired
  <2>1. /\ frame[t].j <= cur /\ IndexOf(frame[t].j) = frame[t].j
        /\ frame[t].j \in 0 .. MaxTables - 1
    <3>1. frame[t].j <= cur
      BY <1>2, EarlyWindow DEF addDrop, FrameAt
    <3> QED
      BY <1>1, <3>1
  <2>j. PICK jj \in 0 .. MaxTables - 1 : jj = frame[t].j
    BY <2>1
  <2>t. TableArray[jj] = IF jj < Len(SubTables) THEN jj + 1 ELSE None
    BY <1>1 DEF Filled
  <2>2. CASE TableArray[frame[t].j] = None
    <3>1. frame[t].j = Len(SubTables)
      <4>1. jj \in Nat /\ TableArray[jj] = 0 /\ jj <= cur
        BY <1>1, <2>1, <2>2, <2>j DEF None
      <4>2. ~(jj < Len(SubTables))
        BY <1>1, <2>t, <4>1
      <4> QED
        BY <1>1, <2>j, <4>1, <4>2
    <3>2. /\ SubTables' = Append(SubTables, createTable(frame[t].size))
          /\ TableArray' = [TableArray EXCEPT ![frame[t].j] = Len(SubTables')]
      BY <1>2, <2>1, <2>2 DEF addDrop
    <3>3. Len(SubTables') = Len(SubTables) + 1
      BY <3>2 DEF Early, Typed, TablesTyped
    <3>4. PICK m \in Nat : m = Len(SubTables') /\ m = Len(SubTables) + 1
      BY <1>1, <3>3
    <3>5. \A n \in 0 .. MaxTables - 1 : TableArray'[n] = IF n = jj THEN m ELSE TableArray[n]
      BY <1>1, <2>j, <3>2, <3>4
    <3>6. \A n \in 0 .. MaxTables - 1 : TableArray'[n] = IF n < m THEN n + 1 ELSE None
      BY <1>1, <2>j, <3>1, <3>4, <3>5 DEF Filled
    <3> QED
      BY <2>j, <2>r, <3>1, <3>4, <3>6 DEF Filled
  <2>3. CASE TableArray[frame[t].j] # None
    <3>1. SubTables' = SubTables /\ TableArray' = TableArray
      BY <1>2, <2>1, <2>3 DEF addDrop
    <3>2. frame[t].j < Len(SubTables)
      BY <1>1, <2>j, <2>t, <2>3
    <3> QED
      BY <1>1, <2>r, <3>1, <3>2 DEF Filled
  <2> QED
    BY <2>2, <2>3
<1>3. CASE Retire(t)
  <2>1. frame[t].exStart < MaxTables \div 2
    BY <1>3, EarlyWindow DEF Retire, Straight
  <2>2. PICK p \in Nat : p = frame[t].exStart + MaxTables \div 2
    BY <1>1
  <2>3. p < MaxTables /\ Len(SubTables) <= p /\ Place(t) = p
    BY <1>1, <2>1, <2>2 DEF Place
  <2>4. TableArray[p] = None /\ TableArray' = [TableArray EXCEPT ![p] = None]
    BY <1>1, <1>3, <2>3 DEF Retire, Filled
  <2>5. \A n \in 0 .. MaxTables - 1 : TableArray'[n] = TableArray[n]
    BY <1>1, <2>4
  <2>6. ~addDrop(t)
    BY <1>3 DEF Retire, addDrop
  <2>7. NoneRetired'
    <3>1. toFree[p] = None /\ toFree' = [toFree EXCEPT ![p] = TableArray[p]]
      BY <1>1, <1>3, <2>2, <2>3 DEF Retire, NoneRetired
    <3>2. freed' = {}
      BY <1>1, <1>3, <2>3, <3>1 DEF Retire, NoneRetired
    <3> QED
      BY <1>1, <2>4, <3>1, <3>2 DEF NoneRetired
  <2> QED
    BY <1>1, <2>5, <2>6, <2>7, ArrayStep DEF Filled
<1>4. CASE ~addDrop(t) /\ ~Retire(t)
  <2>1. /\ TableArray' = TableArray /\ toFree' = toFree /\ freed' = freed
        /\ Len(SubTables') = Len(SubTables)
    BY <1>4, ArrayStep DEF array
  <2> QED
    BY <1>1, <1>4, <2>1 DEF Filled, NoneRetired
<1> QED
  BY <1>2, <1>3, <1>4
\* What a step does to the subtable t looks at: it stays, is dropped, is looked up, or is that
\* of a caller.
LEMMA HandleStep ==
  ASSUME NEW t \in Threads, Early(t)
  PROVE  \/ stack'[t] = stack[t] /\ frame'[t].ht = None
         \/ /\ stack'[t] = stack[t] /\ frame'[t].j = frame[t].j
            /\ \/ frame'[t].ht = frame[t].ht
               \/ frame'[t].ht = TableArray[IndexOf(frame[t].j)] /\ frame[t].j < cur
         \/ /\ stack[t] # <<>> /\ frame'[t] = Head(stack[t]) /\ stack'[t] = Tail(stack[t])
         \/ /\ frame'[t].ht = None /\ frame[t].ht # None
            /\ \E f \in CallerFrames : /\ stack'[t] = <<f>> \o stack[t]
                                       /\ f.ht = frame[t].ht /\ f.j = frame[t].j
<1>0. /\ Typed /\ DOMAIN frame = Threads /\ frame[t] \in Frames /\ cur \in Nat
      /\ frame[t].j \in Nat /\ ThreadTyped(t)
  BY EarlyWindow, LocalsTypes DEF Early
<1>n. ASSUME NextAttempt(t, "lookup", "table") \/ NextAttempt(t, "qlookup", "qtable")
      PROVE  /\ stack'[t] = stack[t]
             /\ \/ frame'[t].ht = None
                \/ frame'[t].ht = frame[t].ht /\ frame'[t].j = frame[t].j
  <2>1. /\ "lookup" \in Points /\ "table" \in Points /\ "qlookup" \in Points
        /\ "qtable" \in Points
    BY DEF Points
  <2>2. UNCHANGED call => stack'[t] = stack[t]
    BY DEF call
  <2> QED
    BY <1>0, <1>n, <2>1, <2>2, NextEffect
<1>r. ASSUME Return(t, 0) \/ Return(t, 1)
      PROVE  \/ stack'[t] = stack[t] /\ frame'[t].ht = None
             \/ stack[t] # <<>> /\ frame'[t] = Head(stack[t]) /\ stack'[t] = Tail(stack[t])
  <2>1. NoFrame.ht = None
    BY DEF NoFrame
  <2> QED
    BY <1>0, <1>r, <2>1, ReturnEffect
<1>k. ASSUME UNCHANGED call
      PROVE  stack'[t] = stack[t]
  BY <1>k DEF call
<1>1. CASE CallInsert(t) \/ CallQuery(t) \/ CallDelete(t)
  <2>1. stack' = stack
    BY <1>1, Zenon DEF CallInsert, CallQuery, CallDelete, Start
  <2>2. "table" \in Points /\ "qtable" \in Points
    BY DEF Points
  <2>3. CASE CallInsert(t)
    <3>1. PICK e \in Entries : Start(t, "insert", val[e], e, "table")
      BY <2>3 DEF CallInsert
    <3>2. val[e] \in Keys
      BY DEF Keys
    <3> QED
      BY <1>0, <2>1, <2>2, <3>1, <3>2, StartEffect
  <2>4. CASE CallQuery(t) \/ CallDelete(t)
    <3>1. PICK k \in Keys :
            Start(t, "query", k, NULL, "qtable") \/ Start(t, "delete", k, NULL, "qtable")
      BY <2>4 DEF CallQuery, CallDelete
    <3>2. NULL \in Entries \cup {NULL}
      OBVIOUS
    <3>3. CASE Start(t, "query", k, NULL, "qtable")
      BY <1>0, <2>1, <2>2, <3>2, <3>3, StartEffect
    <3>4. CASE Start(t, "delete", k, NULL, "qtable")
      BY <1>0, <2>1, <2>2, <3>2, <3>4, StartEffect
    <3> QED
      BY <3>1, <3>3, <3>4
  <2> QED
    BY <1>1, <2>3, <2>4
<1>2. CASE NextTableSize(t) \/ addDrop(t) \/ AdvanceCur(t)
  <2>1. UNCHANGED call
    BY <1>2 DEF NextTableSize, addDrop, AdvanceCur
  <2>2. frame'[t].ht = frame[t].ht /\ frame'[t].j = frame[t].j
    BY <1>0, <1>2 DEF NextTableSize, addDrop, AdvanceCur, Frames
  <2> QED
    BY <1>k, <2>1, <2>2
<1>3. CASE lookup(t) \/ lookupQuery(t) \/ setDelete(t) \/ ReturnComp(t) \/ ClaimSlot(t)
  <2>1. \/ Return(t, 0) \/ Return(t, 1) \/ UNCHANGED <<call, frame>>
        \/ NextAttempt(t, "lookup", "table") \/ NextAttempt(t, "qlookup", "qtable")
    BY <1>3 DEF lookup, lookupQuery, setDelete, ReturnComp, ClaimSlot
  <2> QED
    BY <1>n, <1>r, <1>k, <2>1
<1>4. CASE Undeleted(t) \/ CopyUp(t)
  <2>1. CASE UNCHANGED call /\ frame' = [frame EXCEPT ![t].exStart = start]
    BY <1>0, <1>k, <2>1 DEF Frames
  <2>2. \/ Return(t, 1) \/ (UNCHANGED call /\ frame' = [frame EXCEPT ![t].exStart = start])
        \/ /\ pc[t] \in {"undeleted", "copy"}
           /\ CallAgain(t, Probed(t).ent, "dComp") \/ CallAgain(t, Probed(t).ent, "count")
    BY <1>4 DEF Undeleted, CopyUp
  <2>3. ASSUME NEW back \in {"dComp", "count"}, pc[t] \in {"undeleted", "copy"},
               CallAgain(t, Probed(t).ent, back)
        PROVE  /\ frame'[t].ht = None /\ frame[t].ht # None
               /\ \E f \in CallerFrames : /\ stack'[t] = <<f>> \o stack[t]
                                          /\ f.ht = frame[t].ht /\ f.j = frame[t].j
    <3>1. frame'[t].ht = None
      BY <1>0, <2>3, CallAgainEffect
    <3>2. \E f \in CallerFrames : /\ stack'[t] = <<f>> \o stack[t]
                                  /\ f.ht = frame[t].ht /\ f.j = frame[t].j
      BY <1>0, <2>3, CallerPushed
    <3>3. frame[t].ht \in DOMAIN SubTables
      BY <1>0, <2>3 DEF ThreadTyped, ProbePoints, CopyPoints, DonePoints
    <3>4. frame[t].ht # None
      BY <1>0, <3>3, SubTablesTyped DEF Typed, None
    <3> QED
      BY <3>1, <3>2, <3>4
  <2> QED
    BY <1>r, <2>1, <2>2, <2>3
<1>5. CASE setPtr(t) \/ CountCopy(t) \/ AdvanceStart(t) \/ Retire(t)
  <2>1. UNCHANGED <<call, frame>> \/ NextAttempt(t, "lookup", "table")
    BY <1>5 DEF setPtr, CountCopy, AdvanceStart, Retire
  <2> QED
    BY <1>n, <1>k, <2>1
<1>6. CASE QueryTable(t)
  <2>1. PICK limit \in {frame[t].limit, cur} :
          IF frame[t].j < limit
            THEN HasTable(t) /\ TakeTable(t) /\ Goto(t, "qlookup") /\ UNCHANGED call
            ELSE \E r \in (IF op[t] = "query" THEN {0} ELSE {0, 1}) : Return(t, r)
    BY <1>6 DEF QueryTable
  <2>2. CASE ~(frame[t].j < limit)
    BY <1>r, <2>1, <2>2
  <2>3. CASE frame[t].j < limit
    <3>1. /\ frame' = [frame EXCEPT ![t].ht = TableArray[IndexOf(frame[t].j)]]
          /\ UNCHANGED call
      BY <2>1, <2>3 DEF TakeTable
    <3>2. /\ frame'[t].ht = TableArray[IndexOf(frame[t].j)] /\ frame'[t].j = frame[t].j
      BY <1>0, <3>1 DEF Frames
    <3>3. frame[t].limit <= cur /\ frame[t].limit \in Nat
      BY <1>0, <1>6, LocalsTypes, FrameTyped DEF QueryTable, ThreadTyped, QueryPoints
    <3>4. frame[t].j < cur
      BY <1>0, <2>3, <3>3
    <3> QED
      BY <1>k, <3>1, <3>2, <3>4
  <2> QED
    BY <2>2, <2>3
<1>7. CASE InsertTable(t)
  <2>1. UNCHANGED call
    BY <1>7 DEF InsertTable
  <2>2. CASE frame[t].j < cur
    <3>1. PICK c : frame' = [frame EXCEPT ![t].ht = TableArray[IndexOf(frame[t].j)],
                                          ![t].doCopy = c]
      BY <1>7, <2>2 DEF InsertTable
    <3>2. frame'[t].ht = TableArray[IndexOf(frame[t].j)] /\ frame'[t].j = frame[t].j
      BY <1>0, <3>1 DEF Frames
    <3> QED
      BY <1>k, <2>1, <2>2, <3>2
  <2>3. CASE ~(frame[t].j < cur)
    BY <1>7, <1>k, <2>1, <2>3 DEF InsertTable
  <2> QED
    BY <2>2, <2>3
<1> QED
  BY <1>1, <1>2, <1>3, <1>4, <1>5, <1>6, <1>7 DEF Early, ThreadStep, Step
\* Where t is when it comes to retire a place, or has been in addDrop.
LEMMA LatePoints ==
  ASSUME NEW t \in Threads, Early(t)
  PROVE  /\ pc'[t] = "retire" => /\ pc[t] = "start" /\ frame'[t].exStart = frame[t].exStart
         /\ pc'[t] = "advance" => addDrop(t) /\ frame'[t].j = frame[t].j
<1>0. /\ Typed /\ DOMAIN pc = Threads /\ DOMAIN frame = Threads /\ frame[t] \in Frames
      /\ stack[t] \in Seq(CallerFrames)
  BY EarlyWindow, LocalsTypes DEF Early
<1> DEFINE Else == pc'[t] \notin {"retire", "advance"}
<1>g. ASSUME NEW p \in Points \ {"retire", "advance"}, Goto(t, p)
      PROVE  Else
  BY <1>0, <1>g DEF Goto
<1>n. ASSUME NextAttempt(t, "lookup", "table") \/ NextAttempt(t, "qlookup", "qtable")
      PROVE  Else
  BY <1>0, <1>n, Zenon DEF NextAttempt, Goto
<1>r. ASSUME Return(t, 0) \/ Return(t, 1)
      PROVE  Else
  <2>1. stack[t] # <<>> => Head(stack[t]).back \in {"dComp", "count"}
    BY <1>0 DEF CallerFrames
  <2> QED
    BY <1>0, <1>r, <2>1 DEF Return, Goto
<1>1. CASE CallInsert(t) \/ CallQuery(t) \/ CallDelete(t)
  BY <1>1, <1>g DEF CallInsert, CallQuery, CallDelete, Start, Points
<1>2. CASE InsertTable(t) \/ NextTableSize(t) \/ AdvanceCur(t) \/ QueryTable(t)
  BY <1>2, <1>g, <1>r DEF InsertTable, NextTableSize, AdvanceCur, QueryTable, Points
<1>3. CASE lookup(t) \/ lookupQuery(t) \/ setDelete(t) \/ ReturnComp(t) \/ ClaimSlot(t)
  BY <1>3, <1>g, <1>n, <1>r DEF lookup, lookupQuery, setDelete, ReturnComp, ClaimSlot, Points
<1>4. CASE Undeleted(t) \/ CopyUp(t) \/ setPtr(t) \/ CountCopy(t) \/ Retire(t)
  BY <1>4, <1>g, <1>n, <1>r DEF Undeleted, CopyUp, CallAgain, setPtr, CountCopy, Retire, Points
<1>5. CASE addDrop(t)
  BY <1>0, <1>5 DEF addDrop, Goto, Frames
<1>6. CASE AdvanceStart(t)
  <2>1. Else \/ (pc[t] = "start" /\ UNCHANGED frame /\ Goto(t, "retire"))
    BY <1>6, <1>n DEF AdvanceStart
  <2> QED
    BY <1>0, <2>1 DEF Goto
<1> QED
  BY <1>1, <1>2, <1>3, <1>4, <1>5, <1>6 DEF Early, ThreadStep, Step

\* A frame keeps the subtable of its iter_j, on the stack and when it comes back from there.
LEMMA StraightStep ==
  ASSUME NEW t \in Threads, Early(t)
  PROVE  \A u \in Threads : Straight(u)'
<1>0. /\ start \in Nat /\ cur \in Nat /\ Len(SubTables) \in Nat
      /\ start < cur /\ cur <= Len(SubTables) /\ cur < MaxTables
      /\ Len(SubTables) <= MaxTables \div 2 /\ Len(SubTables) <= Len(SubTables')
      /\ Len(SubTables') \in Nat /\ MaxTables \in Nat /\ MaxTables \div 2 \in Nat
      /\ Filled /\ Straight(t) /\ LocalsOf(t) /\ Typed
  BY EarlyWindow DEF Early
<1>1. ASSUME NEW u \in Threads, u # t
      PROVE  Straight(u)'
  <2>1. /\ frame'[u] = frame[u] /\ stack'[u] = stack[u] /\ pc'[u] = pc[u]
        /\ frame[u] \in Frames /\ frame[u].j \in Nat
    BY <1>0, <1>1, LocalsTypes, FrameTyped DEF LocalsOf
  <2>2. Straight(u)
    BY DEF Early
  <2> QED
    BY <1>0, <2>1, <2>2 DEF Straight
<1>2. /\ frame'[t].ht \in {None, frame'[t].j + 1}
      /\ \A n \in DOMAIN stack'[t] : stack'[t][n].ht = stack'[t][n].j + 1
  <2>1. /\ frame[t].ht \in {None, frame[t].j + 1} /\ frame[t].j \in Nat
        /\ \A n \in DOMAIN stack[t] : stack[t][n].ht = stack[t][n].j + 1
        /\ stack[t] \in Seq(CallerFrames)
    BY <1>0, EarlyWindow, LocalsTypes DEF Straight
  <2>2. CASE stack'[t] = stack[t] /\ frame'[t].ht = None
    BY <2>1, <2>2
  <2>3. CASE /\ stack'[t] = stack[t] /\ frame'[t].j = frame[t].j
             /\ \/ frame'[t].ht = frame[t].ht
                \/ frame'[t].ht = TableArray[IndexOf(frame[t].j)] /\ frame[t].j < cur
    <3>1. CASE frame'[t].ht = frame[t].ht
      BY <2>1, <2>3, <3>1
    <3>2. CASE frame'[t].ht = TableArray[IndexOf(frame[t].j)] /\ frame[t].j < cur
      <4>1. PICK jj \in Nat : jj = frame[t].j /\ jj < cur
        BY <2>1, <3>2
      <4>2. IndexOf(jj) = jj /\ jj \in 0 .. MaxTables - 1 /\ jj < Len(SubTables)
        BY <1>0, <4>1, EarlyWindow
      <4>3. TableArray[jj] = jj + 1
        BY <1>0, <4>2 DEF Filled
      <4> QED
        BY <2>1, <2>3, <3>2, <4>1, <4>2, <4>3
    <3> QED
      BY <2>3, <3>1, <3>2
  <2>4. CASE stack[t] # <<>> /\ frame'[t] = Head(stack[t]) /\ stack'[t] = Tail(stack[t])
    <3>1. 1 \in DOMAIN stack[t] /\ Head(stack[t]) = stack[t][1]
      BY <2>1, <2>4
    <3>2. \A n \in DOMAIN Tail(stack[t]) :
            n + 1 \in DOMAIN stack[t] /\ Tail(stack[t])[n] = stack[t][n + 1]
      BY <2>1, <2>4
    <3> QED
      BY <2>1, <2>4, <3>1, <3>2
  <2>5. CASE /\ frame'[t].ht = None /\ frame[t].ht # None
             /\ \E f \in CallerFrames : /\ stack'[t] = <<f>> \o stack[t]
                                        /\ f.ht = frame[t].ht /\ f.j = frame[t].j
    <3>1. PICK f \in CallerFrames : /\ stack'[t] = <<f>> \o stack[t]
                                    /\ f.ht = frame[t].ht /\ f.j = frame[t].j
      BY <2>5
    <3>2. f.ht = f.j + 1
      BY <2>1, <2>5, <3>1
    <3>3. PICK st \in Seq(CallerFrames) : st = stack[t]
      BY <2>1
    <3>4. \A n \in DOMAIN (<<f>> \o st) :
            (<<f>> \o st)[n] = f \/ (n - 1 \in DOMAIN st /\ (<<f>> \o st)[n] = st[n - 1])
      BY <3>3
    <3>5. \A n \in DOMAIN stack'[t] : stack'[t][n].ht = stack'[t][n].j + 1
      BY <2>1, <3>1, <3>2, <3>3, <3>4
    <3> QED
      BY <2>5, <3>5
  <2> QED
    BY <2>2, <2>3, <2>4, <2>5, HandleStep
<1>3. pc'[t] = "retire" => frame'[t].exStart < MaxTables \div 2
  <2> SUFFICES ASSUME pc'[t] = "retire"
               PROVE  frame'[t].exStart < MaxTables \div 2
    OBVIOUS
  <2>1. pc[t] = "start" /\ frame'[t].exStart = frame[t].exStart
    BY LatePoints
  <2>2. frame[t].exStart = frame[t].j /\ frame[t].j + 1 < cur /\ frame[t].j \in Nat
    BY <2>1, EarlyWindow DEF FrameAt, InsertPoints, CopyPoints
  <2> QED
    BY <1>0, <2>1, <2>2
<1>4. pc'[t] = "advance" => frame'[t].j < Len(SubTables')
  BY LatePoints, FilledStep
<1>5. Straight(t)'
  BY <1>2, <1>3, <1>4 DEF Straight
<1> QED
  BY <1>1, <1>5
\* The array is a line at the start,
LEMMA LineInit ==
  ASSUME Init
  PROVE  LineInv
<1>1. SubTables = <<createTable(InitSize)>> /\ ~late
  BY DEF Init
<1>2. Len(SubTables) = 1
  BY <1>1
<1>3. Filled
  BY <1>2 DEF Init, Filled
<1>4. NoneRetired /\ \A t \in Threads : Straight(t)
  BY DEF Init, NoneRetired, Straight, NoFrame
<1> QED
  BY <1>1, <1>3, <1>4 DEF LineInv

\* and stays one while few subtables have been made.
LEMMA LineStep ==
  ASSUME Inv, LineInv, NEW t \in Threads, ThreadStep(t), Look
  PROVE  LineInv'
<1> SUFFICES ASSUME Few'
             PROVE  ~late' /\ Filled' /\ NoneRetired' /\ \A u \in Threads : Straight(u)'
  BY DEF LineInv
<1>1. Early(t) /\ ~late
  <2>1. Early(t)
    BY EarlyStep
  <2>2. ~crossed
    BY DEF Inv, Typed, Look, Few
  <2> QED
    BY <2>1, <2>2 DEF LineInv, Few, Early
<1>2. Filled' /\ NoneRetired' /\ \A u \in Threads : Straight(u)'
  BY <1>1, FilledStep, StraightStep
<1>3. InLine'
  <2>1. /\ cur \in Nat /\ cur <= Len(SubTables) /\ Len(SubTables) <= Len(SubTables')
        /\ Len(SubTables) \in Nat /\ Len(SubTables') \in Nat /\ start' \in Nat /\ cur' \in Nat
        /\ Len(SubTables') <= MaxTables \div 2 /\ frame[t].j \in Nat
        /\ MaxTables \in Nat /\ MaxTables \div 2 \in Nat
        /\ MaxTables \div 2 + MaxTables \div 2 = MaxTables /\ MaxTables \div 2 > 1
        /\ \A n \in Nat : n < MaxTables => IndexOf(n) = n
    BY <1>1, EarlyWindow DEF Early, GlobalsOf
  <2>2. cur' <= Len(SubTables')
    <3>1. CASE cur' = cur
      BY <2>1, <3>1
    <3>2. CASE AdvanceCur(t) /\ cur' # cur
      <4>1. cur = frame[t].j /\ cur' = cur + 1 /\ pc[t] = "advance"
        BY <3>2 DEF AdvanceCur
      <4>2. frame[t].j < Len(SubTables)
        BY <1>1, <4>1, EarlyWindow DEF Straight
      <4> QED
        BY <2>1, <4>1, <4>2
    <3> QED
      BY <1>1, <3>1, <3>2 DEF Early, GlobalsOf
  <2>3. ASSUME NEW jj \in start' .. cur' - 1
        PROVE  TableArray'[IndexOf(jj)] = jj + 1
    <3>a. PICK a \in Nat : a = start'
      BY <2>1
    <3>b. PICK b \in Nat : b = cur'
      BY <2>1
    <3>c. jj \in a .. b - 1 /\ b <= Len(SubTables')
      BY <2>2, <2>3, <3>a, <3>b
    <3>1. jj \in Nat /\ jj < Len(SubTables')
      BY <2>1, <3>c
    <3>2. jj \in 0 .. MaxTables - 1 /\ IndexOf(jj) = jj
      BY <2>1, <3>1
    <3> QED
      BY <1>2, <3>1, <3>2 DEF Filled
  <2> QED
    BY <1>2, <2>3 DEF InLine, Straight
<1> QED
  BY <1>1, <1>2, <1>3 DEF Look

\* More than half of the circular array has to be used before a subtable in use can lose its
\* place or one is freed, however slow the thread that retires: with the other theorems, what
\* is promised while Sound holds as long as no undelete crosses a copy and no more than 32
\* subtables are made.
THEOREM LineUntilHalfCorrect == Spec => []LineUntilHalf
<1>1. Inv /\ LineInv /\ [Next]_vars => LineInv'
  <2> SUFFICES ASSUME Inv, LineInv, [Next]_vars
               PROVE  LineInv'
    OBVIOUS
  <2>1. CASE UNCHANGED vars
    BY <2>1 DEF vars, LineInv, Few, Filled, NoneRetired, Straight
  <2>2. CASE Next
    BY <2>2, LineStep DEF Next, ThreadStep
  <2> QED
    BY <2>1, <2>2
<1>2. LineInv => LineUntilHalf
  BY DEF LineInv, NoneRetired, Few, LineUntilHalf
<1> QED
  BY <1>1, <1>2, LineInit, Invariance, PTL DEF Spec
=============================================================================
