------------------------ MODULE HashtableDeleteProofs ------------------------
(***************************************************************************)
(* Proofs about HashtableDelete, for any set of threads, any entries and   *)
(* keys, any number of probes, any initial size, and any choice of slots   *)
(* that stays inside the subtables (PlacesFit), as the remainders of any   *)
(* hash function do.                                                       *)
(***************************************************************************)
EXTENDS HashtableDelete, TLAPS

InsertPoints == {"table", "lookup", "expect", "claim", "recheck", "reload", "grow", "advance"}
QueryPoints == {"qtable", "qlookup", "setPtr", "mark"}
ProbePoints == {"lookup", "expect", "claim", "recheck", "qlookup", "setPtr", "mark"}

\* A subtable is a non-empty array of pointers.
IsSubTable(T) ==
  /\ T = [TableSize |-> T.TableSize, InnerTable |-> T.InnerTable]
  /\ T.TableSize \in Nat \ {0} /\ T.TableSize % InitSize = 0
  /\ T.InnerTable \in [0 .. T.TableSize - 1 -> Pointers]

TablesTyped ==
  /\ DOMAIN TableArray \subseteq Nat
  /\ \A jj \in DOMAIN TableArray : IsSubTable(TableArray[jj])
  /\ cur \in Nat
  /\ PlacesFit

LocalsTyped ==
  /\ pc \in [Threads -> Points]
  /\ op \in [Threads -> {"none", "insert", "query", "delete"}]
  /\ key \in [Threads -> Keys \cup {NULL}]
  /\ ret \in [Threads -> {0, 1}]
  /\ j \in [Threads -> Nat]
  /\ i \in [Threads -> Attempts]
  /\ LocalCur \in [Threads -> Nat]
  /\ ent \in [Threads -> Entries \cup {NULL}]
  /\ expected \in [Threads -> Pointers]

HistoryTyped == seen \in [Threads -> SUBSET {0, 1}] /\ overwritten \in BOOLEAN

Typed == TablesTyped /\ LocalsTyped /\ HistoryTyped

\* The subtables are 0 to cur-1, and at most one that head->cur does not count
\* yet, which is still empty.
InOrder ==
  /\ 1 <= cur
  /\ DOMAIN TableArray \in {0 .. cur - 1, 0 .. cur}
  /\ cur \in DOMAIN TableArray => \A s \in Slots(cur) : At(cur, s) = Null

\* The probes of k up to probe n of subtable jj meet no NULL, nor an entry of k:
\* the second as long as no entry of another key has been replaced.
PassedBy(ptr, k) == ptr # Null /\ (overwritten \/ ~HasKey(ptr, k))
PassedBelow(k, jj) ==
  \A j2 \in DOMAIN TableArray, m \in Attempts : j2 < jj => PassedBy(Slot(k, m, j2), k)
Passed(k, jj, n) ==
  PassedBelow(k, jj) /\ \A m \in Attempts : m < n => PassedBy(Slot(k, m, jj), k)

\* Every entry is where its key's probes lead.
OnPath ==
  \A jj \in DOMAIN TableArray : \A s \in Slots(jj) :
    At(jj, s) # Null =>
      \E n \in Attempts : /\ Bucket(val[At(jj, s).ent], n, jj) = s
                          /\ Passed(val[At(jj, s).ent], jj, n)

\* What thread t has established by the time it is where it is.
ThreadInv(t) ==
  /\ pc[t] = "idle" <=> op[t] = "none"
  /\ pc[t] \in InsertPoints <=> op[t] = "insert"
  /\ pc[t] \in {"setPtr", "mark"} => op[t] = "delete"
  /\ pc[t] # "idle" => key[t] \in Keys
  /\ pc[t] = "idle" => j[t] = 0
  /\ j[t] <= cur
  /\ pc[t] # "idle" => LocalCur[t] <= cur
  /\ pc[t] \in InsertPoints => /\ j[t] <= LocalCur[t] /\ 1 <= LocalCur[t]
                               /\ ent[t] \in Entries /\ val[ent[t]] = key[t]
  /\ pc[t] \in ProbePoints \cup {"reload"} => j[t] < cur
  /\ pc[t] \in {"idle", "table", "reload", "grow", "advance", "qtable"} => i[t] = 0
  /\ pc[t] # "idle" => PassedBelow(key[t], j[t])
  /\ pc[t] \in ProbePoints => Passed(key[t], j[t], i[t])
  /\ pc[t] = "reload" => PassedBelow(key[t], j[t] + 1)
  /\ pc[t] \in {"grow", "advance"} => j[t] = LocalCur[t]
  /\ pc[t] = "advance" => LocalCur[t] \in DOMAIN TableArray
  /\ pc[t] \in {"recheck", "setPtr", "mark"} => Probed(t) # Null
  /\ pc[t] \in {"setPtr", "mark"} => overwritten \/ HasKey(Probed(t), key[t])
  /\ pc[t] = "claim" => expected[t] = Null \/ (getBool(expected[t]) = 1 /\ Probed(t) # Null)
  /\ pc[t] = "mark" => expected[t] # Null /\ getBool(expected[t]) = 0

\* What t's history says, as long as no entry of another key has been replaced:
\* a compare-and-swap that fails at t's own key fails because the key came or went
\* during the call, and a query that has never seen its key missing finds it below
\* the head->cur it started with.
SeenInv(t) ==
  /\ op[t] = "none" => seen[t] = {}
  /\ op[t] # "none" => (IF key[t] \in Contents THEN 1 ELSE 0) \in seen[t]
  /\ ~overwritten =>
       /\ op[t] = "query" /\ 0 \notin seen[t] =>
            \E jj \in DOMAIN TableArray :
              jj < LocalCur[t] /\ \E s \in Slots(jj) : HasKey(At(jj, s), key[t])
       /\ pc[t] = "claim" /\ Probed(t) # expected[t] /\ HasKey(Probed(t), key[t]) =>
            1 \in seen[t]
       /\ pc[t] = "recheck" /\ HasKey(Probed(t), key[t]) => 1 \in seen[t]
       /\ pc[t] = "mark" /\ Probed(t) # expected[t] => 0 \in seen[t]

\* The inductive invariant.
Inv == Typed /\ InOrder /\ OnPath /\ \A t \in Threads : ThreadInv(t) /\ SeenInv(t)

ThreadStep(t) == CallInsert(t) \/ CallQuery(t) \/ CallDelete(t) \/ Step(t)

-----------------------------------------------------------------------------
(* The locals                                                              *)

\* The inductive invariant gives every variable its type.
LEMMA TypedIsTypeOK ==
  Typed => TypeOK
BY DEF Typed, TablesTyped, LocalsTyped, HistoryTyped, IsSubTable, TypeOK, Slots

\* A pointer to an entry is not Null, and the mark is its low bit.
LEMMA PointerFacts ==
  /\ Null \in Pointers /\ getBool(Null) = 0
  /\ \A ptr \in Pointers :
       /\ ptr # Null => ptr.ent \in Entries
       /\ Marked(ptr) \in Pointers \/ ptr = Null
       /\ Marked(ptr) = [ent |-> ptr.ent, bool |-> 1]
       /\ getPtr(ptr) \in Pointers /\ getPtr(ptr) = [ent |-> ptr.ent, bool |-> 0]
       /\ getBool(ptr) \in {0, 1}
  /\ \A e \in Entries, b \in {0, 1} :
       [ent |-> e, bool |-> b] \in Pointers /\ [ent |-> e, bool |-> b] # Null
BY HashtableDeleteAssumption DEF Null, Pointers, getBool, getPtr, Marked

\* The remainder by the size of a subtable is a slot of it, whatever the hash
\* function of hashtable_delete.c.
LEMMA RemaindersFit ==
  ASSUME NEW Hash \in [Keys -> [Attempts -> Nat]], Place = Remainders(Hash)
  PROVE  PlacesFit
<1>1. \A x \in Nat, y \in Nat \ {0} : x % y \in 0 .. y - 1
  OBVIOUS
<1> SUFFICES ASSUME NEW k \in Keys, NEW n \in Attempts, NEW size \in Nat \ {0}
             PROVE  Place[k][n][size] \in 0 .. size - 1
  BY DEF PlacesFit
<1>2. Place[k][n][size] = Hash[k][n] % size
  BY DEF Remainders
<1> QED
  BY <1>1, <1>2

\* Doubling keeps the size of a subtable a multiple of the first one's.
LEMMA TwiceWhole ==
  ASSUME NEW x \in Nat, NEW n \in Nat \ {0}, x % n = 0
  PROVE  (2 * x) % n = 0
<1>1. PICK q \in Nat : x = n * q
  <2> WITNESS x \div n \in Nat
  <2> QED
    OBVIOUS
<1>2. 2 * q \in Nat /\ 2 * x = n * (2 * q)
  BY <1>1
<1>3. \A y \in Nat : (n * y) % n = 0
  OBVIOUS
<1> QED
  BY <1>2, <1>3

\* A probe always looks inside its subtable.
LEMMA BucketInRange ==
  ASSUME TablesTyped, NEW k \in Keys, NEW n \in Attempts, NEW jj \in DOMAIN TableArray
  PROVE  Bucket(k, n, jj) \in Slots(jj) /\ Slot(k, n, jj) \in Pointers
<1>1. TableArray[jj].TableSize \in Nat \ {0} /\ TableArray[jj].TableSize % InitSize = 0
  BY DEF TablesTyped, IsSubTable
<1>2. Bucket(k, n, jj) \in Slots(jj)
  BY <1>1 DEF Bucket, Slots, TablesTyped, PlacesFit
<1>3. TableArray[jj].InnerTable \in [Slots(jj) -> Pointers]
  BY DEF TablesTyped, IsSubTable, Slots
<1> QED
  BY <1>2, <1>3 DEF Slot

\* The two ways in which a thread goes on after a probe keep its locals typed.
LEMMA ReturnTyped ==
  ASSUME LocalsTyped, NEW t \in Threads, NEW r \in {0, 1}, Return(t, r)
  PROVE  LocalsTyped'
<1>1. 0 \in Attempts
  BY HashtableDeleteAssumption DEF Attempts
<1> QED
  BY <1>1, PointerFacts DEF LocalsTyped, Return, Goto, Points

\* NextAttempt, the step of the probe loop, leaves a thread's locals typed.
LEMMA NextAttemptTyped ==
  ASSUME LocalsTyped, NEW t \in Threads, NEW again \in Points, NEW after \in Points,
         NEW jj \in Nat, NextAttempt(t, again, after, jj)
  PROVE  LocalsTyped'
<1>1. i[t] \in Attempts /\ HashAttempts \in Nat \ {0}
  BY HashtableDeleteAssumption DEF LocalsTyped
<1>2. CASE i[t] + 1 < HashAttempts
  <2>1. i[t] + 1 \in Attempts
    BY <1>1, <1>2 DEF Attempts
  <2> QED
    BY <1>2, <2>1, PointerFacts DEF LocalsTyped, NextAttempt, Goto, call
<1>3. CASE ~(i[t] + 1 < HashAttempts)
  <2>1. 0 \in Attempts
    BY <1>1 DEF Attempts
  <2> QED
    BY <1>3, <2>1, PointerFacts DEF LocalsTyped, NextAttempt, Goto, call
<1> QED
  BY <1>2, <1>3

\* The slot a thread looks at is there.
LEMMA ProbedTyped ==
  ASSUME Inv, NEW t \in Threads, pc[t] \in ProbePoints
  PROVE  /\ key[t] \in Keys /\ i[t] \in Attempts /\ j[t] \in DOMAIN TableArray /\ j[t] \in Nat
         /\ cur \in Nat /\ j[t] < cur /\ DOMAIN TableArray \subseteq Nat
         /\ Bucket(key[t], i[t], j[t]) \in Slots(j[t])
         /\ Probed(t) = At(j[t], Bucket(key[t], i[t], j[t]))
         /\ Probed(t) \in Pointers
<1> TablesTyped /\ LocalsTyped /\ InOrder /\ ThreadInv(t)
  BY DEF Inv, Typed
<1>1. key[t] \in Keys /\ j[t] < cur
  BY DEF ThreadInv, ProbePoints
<1>2. i[t] \in Attempts /\ cur \in Nat /\ j[t] \in Nat
  BY DEF TablesTyped, LocalsTyped
<1>3. j[t] \in DOMAIN TableArray
  BY <1>1, <1>2 DEF InOrder
<1> QED
  BY <1>1, <1>2, <1>3, BucketInRange DEF Probed, Slot, At, TablesTyped

\* A call gives every local of its thread a value of its type.
LEMMA StartTyped ==
  ASSUME LocalsTyped, TablesTyped, NEW t \in Threads, NEW o \in {"insert", "query", "delete"},
         NEW k \in Keys, NEW label \in Points, Start(t, o, k, label),
         UNCHANGED ent \/ \E e \in Entries : ent' = [ent EXCEPT ![t] = e]
  PROVE  LocalsTyped'
BY DEF LocalsTyped, TablesTyped, Start, Goto

\* Every step keeps the locals typed.
LEMMA LocalsStep ==
  ASSUME Inv, NEW t \in Threads, ThreadStep(t)
  PROVE  LocalsTyped'
<1> USE DEF Points
<1>0. TablesTyped /\ LocalsTyped
  BY DEF Inv, Typed
<1>t. j[t] \in Nat /\ i[t] \in Attempts /\ LocalCur[t] \in Nat /\ cur \in Nat
  BY <1>0 DEF TablesTyped, LocalsTyped
<1>1. CASE CallInsert(t)
  <2>1. PICK e \in Entries : Start(t, "insert", val[e], "table") /\ ent' = [ent EXCEPT ![t] = e]
    BY <1>1 DEF CallInsert
  <2>2. val[e] \in Keys
    BY DEF Keys
  <2> QED
    BY <1>0, <2>1, <2>2, StartTyped
<1>2. CASE CallQuery(t) \/ CallDelete(t)
  <2>1. PICK k \in Keys : Start(t, "query", k, "qtable") \/ Start(t, "delete", k, "qtable")
    BY <1>2 DEF CallQuery, CallDelete
  <2>2. UNCHANGED ent
    BY <1>2 DEF CallQuery, CallDelete
  <2> QED
    BY <1>0, <2>1, <2>2, StartTyped
<1>3. ASSUME NEW label \in Points, Goto(t, label), UNCHANGED <<call, locals>>
      PROVE  LocalsTyped'
  BY <1>0, <1>3 DEF LocalsTyped, Goto, call, locals
<1>4. ASSUME NEW r \in {0, 1}, Return(t, r)
      PROVE  LocalsTyped'
  BY <1>0, <1>4, ReturnTyped
<1>5. CASE InsertTable(t) \/ addDrop(t)
  BY <1>3, <1>5 DEF InsertTable, addDrop, call, locals
<1>6. CASE lookup(t)
  <2>1. CASE NextAttempt(t, "lookup", "reload", j[t])
    BY <1>0, <1>t, <2>1, NextAttemptTyped
  <2> QED
    BY <1>3, <1>4, <1>6, <2>1 DEF lookup, call, locals
<1>7. CASE ChooseExpected(t)
  <2>1. Probed(t) \in Pointers
    BY <1>7, ProbedTyped DEF ChooseExpected, ProbePoints
  <2>2. expected' \in [Threads -> Pointers]
    BY <1>0, <1>7, <2>1, PointerFacts DEF ChooseExpected, LocalsTyped
  <2> QED
    BY <1>0, <1>7, <2>2 DEF LocalsTyped, ChooseExpected, Goto, call
<1>8. CASE ClaimSlot(t)
  BY <1>3, <1>4, <1>8 DEF ClaimSlot, Swaps, call, locals
<1>9. CASE RecheckSlot(t)
  <2>1. CASE NextAttempt(t, "lookup", "reload", j[t])
    BY <1>0, <1>t, <2>1, NextAttemptTyped
  <2> QED
    BY <1>4, <1>9, <2>1 DEF RecheckSlot
<1>10. CASE ReloadCur(t) \/ AdvanceCur(t)
  BY <1>0, <1>t, <1>10 DEF LocalsTyped, ReloadCur, AdvanceCur, Goto, call
<1>11. CASE QueryTable(t)
  BY <1>3, <1>4, <1>11 DEF QueryTable, call, locals
<1>12. CASE lookupQuery(t)
  <2>1. CASE NextAttempt(t, "qlookup", "qtable", j[t] + 1)
    BY <1>0, <1>t, <2>1, NextAttemptTyped
  <2> QED
    BY <1>3, <1>4, <1>12, <2>1 DEF lookupQuery, call, locals
<1>13. CASE ReadPtr(t)
  <2>1. Probed(t) \in Pointers
    BY <1>13, ProbedTyped DEF ReadPtr, ProbePoints
  <2>2. expected' \in [Threads -> Pointers]
    BY <1>0, <1>13, <2>1, PointerFacts DEF ReadPtr, LocalsTyped
  <2> QED
    BY <1>0, <1>13, <2>2 DEF LocalsTyped, ReadPtr, Goto, call
<1>14. CASE setPtr(t)
  BY <1>4, <1>14 DEF setPtr, Swaps
<1> QED
  BY <1>1, <1>2, <1>5, <1>6, <1>7, <1>8, <1>9, <1>10, <1>11, <1>12, <1>13, <1>14 DEF ThreadStep, Step
-----------------------------------------------------------------------------
(* The memory                                                              *)

\* A step that changes no slot: it may add an empty subtable behind head->cur.
Quiet ==
  /\ cur <= cur'
  /\ \A jj \in DOMAIN TableArray : jj \in DOMAIN TableArray' /\ TableArray'[jj] = TableArray[jj]
  /\ \A jj \in DOMAIN TableArray' :
       jj \in DOMAIN TableArray \/ (jj >= cur /\ \A s \in Slots(jj)' : At(jj, s)' = Null)

\* A step that changes one slot, the one t looks at.
Writes(t, new) ==
  /\ cur' = cur
  /\ DOMAIN TableArray' = DOMAIN TableArray
  /\ \A jj \in DOMAIN TableArray :
       /\ TableArray'[jj].TableSize = TableArray[jj].TableSize
       /\ \A s \in Slots(jj) :
            At(jj, s)' = IF jj = j[t] /\ s = Bucket(key[t], i[t], j[t]) THEN new ELSE At(jj, s)

\* The two compare-and-swaps that succeed on a slot: insertTable's and setPtr's.
Claims(t) ==
  pc[t] = "claim" /\ Probed(t) = expected[t] /\ Writes(t, [ent |-> ent[t], bool |-> 0])
Marks(t) ==
  pc[t] = "mark" /\ Probed(t) = expected[t] /\ Writes(t, Marked(expected[t]))

Tables == TablesTyped' /\ InOrder'

\* A step that leaves the shared memory alone.
LEMMA SharedUnchanged ==
  ASSUME TablesTyped, InOrder, UNCHANGED shared
  PROVE  Tables /\ Quiet
<1>1. TableArray' = TableArray /\ cur' = cur /\ cur \in Nat
  BY DEF shared, TablesTyped
<1>2. TablesTyped'
  BY <1>1 DEF TablesTyped
<1>3. InOrder'
  BY <1>1 DEF InOrder, At, Slots
<1>4. Quiet
  BY <1>1 DEF Quiet
<1> QED
  BY <1>2, <1>3, <1>4 DEF Tables

\* A compare-and-swap of a slot.
LEMMA SwapsWrites ==
  ASSUME Inv, NEW t \in Threads, pc[t] \in ProbePoints, NEW new \in Pointers, Swaps(t, new)
  PROVE  Tables /\ Writes(t, new)
<1> DEFINE b == Bucket(key[t], i[t], j[t])
<1> TablesTyped /\ InOrder
  BY DEF Inv, Typed
<1>1. /\ j[t] \in DOMAIN TableArray /\ j[t] \in Nat /\ cur \in Nat /\ j[t] < cur
      /\ b \in Slots(j[t])
  BY ProbedTyped
<1>2. TableArray' = [TableArray EXCEPT ![j[t]].InnerTable[b] = new] /\ cur' = cur
  BY DEF Swaps
<1> HIDE DEF b
<1>3. DOMAIN TableArray' = DOMAIN TableArray
  BY <1>2
<1>4. \A jj \in DOMAIN TableArray : jj # j[t] => TableArray'[jj] = TableArray[jj]
  BY <1>2
<1>5. TableArray'[j[t]] = [TableArray[j[t]] EXCEPT !.InnerTable[b] = new]
  BY <1>1, <1>2
<1>6. IsSubTable(TableArray[j[t]])
  BY <1>1 DEF TablesTyped
<1>7. TableArray'[j[t]] = [TableSize |-> TableArray[j[t]].TableSize,
                           InnerTable |-> [TableArray[j[t]].InnerTable EXCEPT ![b] = new]]
  <2>1. TableArray[j[t]] = [TableSize |-> TableArray[j[t]].TableSize,
                            InnerTable |-> TableArray[j[t]].InnerTable]
    BY <1>6 DEF IsSubTable
  <2> QED
    BY <1>5, <2>1
<1>8. IsSubTable(TableArray'[j[t]])
  BY <1>1, <1>6, <1>7 DEF IsSubTable, Slots
<1>9. \A s \in Slots(j[t]) :
        TableArray'[j[t]].InnerTable[s] = IF s = b THEN new ELSE TableArray[j[t]].InnerTable[s]
  BY <1>1, <1>6, <1>7 DEF IsSubTable, Slots
<1>10. TablesTyped'
  BY <1>2, <1>3, <1>4, <1>8 DEF TablesTyped
<1>11. InOrder'
  BY <1>1, <1>2, <1>3, <1>4 DEF InOrder, At, Slots
<1>12. Writes(t, new)
  BY <1>2, <1>3, <1>4, <1>7, <1>9 DEF Writes, At, b
<1> QED
  BY <1>10, <1>11, <1>12 DEF Tables

\* Publishing a subtable.
LEMMA TablesAddDrop ==
  ASSUME Inv, NEW t \in Threads, addDrop(t)
  PROVE  Tables /\ Quiet
<1> DEFINE new == createTable(2 * TableArray[LocalCur[t] - 1].TableSize)
<1> TablesTyped /\ LocalsTyped /\ InOrder /\ ThreadInv(t)
  BY DEF Inv, Typed
<1>1. CASE LocalCur[t] \in DOMAIN TableArray
  BY <1>1, SharedUnchanged DEF addDrop, shared
<1>2. CASE LocalCur[t] \notin DOMAIN TableArray
  <2>1. cur \in Nat /\ LocalCur[t] \in Nat /\ 1 <= LocalCur[t] /\ LocalCur[t] <= cur
    BY DEF ThreadInv, addDrop, InsertPoints, TablesTyped, LocalsTyped
  <2>2. LocalCur[t] = cur /\ DOMAIN TableArray = 0 .. cur - 1
    BY <1>2, <2>1 DEF InOrder
  <2>3. /\ cur' = cur
        /\ DOMAIN TableArray' = 0 .. cur
        /\ TableArray'[cur] = new
        /\ \A jj \in 0 .. cur - 1 : TableArray'[jj] = TableArray[jj]
    <3>1. /\ cur' = cur
          /\ TableArray' = [jj \in (0 .. cur - 1) \cup {cur} |->
                              IF jj = cur THEN new ELSE TableArray[jj]]
      BY <1>2, <2>2 DEF addDrop
    <3>2. (0 .. cur - 1) \cup {cur} = 0 .. cur
      BY <2>1
    <3> HIDE DEF new
    <3> QED
      BY <2>1, <3>1, <3>2
  <2>4. IsSubTable(TableArray[cur - 1])
    BY <2>1, <2>2 DEF TablesTyped
  <2>5. /\ IsSubTable(new)
        /\ \A s \in 0 .. new.TableSize - 1 : new.InnerTable[s] = Null
    <3> DEFINE size == TableArray[cur - 1].TableSize
    <3>1. size \in Nat \ {0} /\ size % InitSize = 0 /\ new = createTable(2 * size)
      BY <2>2, <2>4 DEF IsSubTable
    <3> HIDE DEF size, new
    <3>2. 2 * size \in Nat \ {0}
      BY <3>1
    <3>3. (2 * size) % InitSize = 0
      BY <3>1, HashtableDeleteAssumption, TwiceWhole
    <3> QED
      BY <3>1, <3>2, <3>3, PointerFacts DEF IsSubTable, createTable
  <2> HIDE DEF new
  <2>6. TablesTyped'
    BY <2>1, <2>2, <2>3, <2>5 DEF TablesTyped
  <2>7. Quiet
    BY <2>1, <2>2, <2>3, <2>5 DEF Quiet, At, Slots
  <2>8. InOrder'
    BY <2>1, <2>2, <2>3, <2>5 DEF InOrder, At, Slots
  <2> QED
    BY <2>6, <2>7, <2>8 DEF Tables
<1> QED
  BY <1>1, <1>2

\* Moving head->cur on.
LEMMA TablesAdvance ==
  ASSUME Inv, NEW t \in Threads, AdvanceCur(t)
  PROVE  Tables /\ Quiet
<1> TablesTyped /\ InOrder /\ ThreadInv(t)
  BY DEF Inv, Typed
<1>1. CASE cur # LocalCur[t]
  BY <1>1, SharedUnchanged DEF AdvanceCur, shared
<1>2. CASE cur = LocalCur[t]
  <2>1. cur \in Nat /\ 1 <= cur /\ cur' = cur + 1 /\ TableArray' = TableArray
    BY <1>2 DEF AdvanceCur, InOrder, TablesTyped
  <2>2. DOMAIN TableArray = 0 .. cur
    BY <1>2, <2>1 DEF AdvanceCur, ThreadInv, InOrder
  <2>3. TablesTyped'
    BY <2>1 DEF TablesTyped
  <2>4. Quiet
    BY <2>1 DEF Quiet
  <2>5. InOrder'
    BY <2>1, <2>2 DEF InOrder
  <2> QED
    BY <2>3, <2>4, <2>5 DEF Tables
<1> QED
  BY <1>1, <1>2

\* Every step of a thread keeps the array of subtables in order, and writes to at
\* most one slot of it: by a compare-and-swap that finds what it expects.
LEMMA TablesStep ==
  ASSUME Inv, NEW t \in Threads, ThreadStep(t)
  PROVE  Tables /\ (Quiet \/ Claims(t) \/ Marks(t))
<1> TablesTyped /\ LocalsTyped /\ InOrder /\ ThreadInv(t)
  BY DEF Inv, Typed
<1>1. CASE UNCHANGED shared
  BY <1>1, SharedUnchanged
<1>2. CASE ClaimSlot(t)
  <2>1. CASE Swaps(t, [ent |-> ent[t], bool |-> 0])
    <3>1. [ent |-> ent[t], bool |-> 0] \in Pointers /\ pc[t] \in ProbePoints
      BY <1>2, PointerFacts DEF ClaimSlot, ThreadInv, InsertPoints, ProbePoints
    <3>2. Tables /\ Writes(t, [ent |-> ent[t], bool |-> 0])
      BY <2>1, <3>1, SwapsWrites
    <3> QED
      BY <1>2, <2>1, <3>2 DEF Claims, ClaimSlot, Swaps
  <2> QED
    BY <1>1, <1>2, <2>1 DEF ClaimSlot
<1>3. CASE setPtr(t)
  <2>1. CASE Swaps(t, Marked(expected[t]))
    <3>1. Marked(expected[t]) \in Pointers /\ pc[t] \in ProbePoints
      BY <1>3, PointerFacts DEF setPtr, ThreadInv, LocalsTyped, ProbePoints
    <3>2. Tables /\ Writes(t, Marked(expected[t]))
      BY <2>1, <3>1, SwapsWrites
    <3> QED
      BY <1>3, <2>1, <3>2 DEF Marks, setPtr, Swaps
  <2> QED
    BY <1>1, <1>3, <2>1 DEF setPtr
<1>4. CASE addDrop(t)
  BY <1>4, TablesAddDrop
<1>5. CASE AdvanceCur(t)
  BY <1>5, TablesAdvance
<1> QED
  BY <1>1, <1>2, <1>3, <1>4, <1>5
  DEF ThreadStep, Step, CallInsert, CallQuery, CallDelete, Start, InsertTable, lookup, ChooseExpected,
      RecheckSlot, ReloadCur, QueryTable, lookupQuery, ReadPtr

\* What every step does to the shared memory: an entry gives way only to another
\* entry, and until overwritten is set only to one of its key.
Grows ==
  /\ cur <= cur'
  /\ overwritten => overwritten'
  /\ \A jj \in DOMAIN TableArray :
       /\ jj \in DOMAIN TableArray'
       /\ TableArray'[jj].TableSize = TableArray[jj].TableSize
       /\ \A s \in Slots(jj) :
            At(jj, s) # Null => /\ At(jj, s)' # Null
                                /\ overwritten' \/ HasKey(At(jj, s)', val[At(jj, s).ent])
  /\ \A jj \in DOMAIN TableArray' : jj \in DOMAIN TableArray \/ jj >= cur

\* Every step keeps what Grows says: a slot that holds an entry of a key goes on
\* holding one, until an insert overwrites, and cur and the subtables only grow.
LEMMA GrowsStep ==
  ASSUME Inv, NEW t \in Threads, ThreadStep(t), Look
  PROVE  Grows
<1> TablesTyped /\ LocalsTyped /\ ThreadInv(t)
  BY DEF Inv, Typed
<1>1. overwritten => overwritten'
  BY DEF Look
<1>2. ASSUME NEW jj \in DOMAIN TableArray, NEW s \in Slots(jj), At(jj, s) # Null
      PROVE  overwritten' \/ HasKey(At(jj, s)', val[At(jj, s).ent])
  BY <1>2 DEF Look, Overwrites
<1>3. CASE Quiet
  BY <1>1, <1>2, <1>3 DEF Grows, Quiet, At
<1>4. ASSUME NEW new \in Pointers \ {Null}, Writes(t, new)
      PROVE  Grows
  <2>1. cur \in Nat /\ cur' = cur
    BY <1>4 DEF TablesTyped, Writes
  <2>2. ASSUME NEW jj \in DOMAIN TableArray, NEW s \in Slots(jj), At(jj, s) # Null
        PROVE  At(jj, s)' # Null
    BY <1>4, <2>2 DEF Writes
  <2> QED
    BY <1>1, <1>2, <1>4, <2>1, <2>2 DEF Grows, Writes
<1>5. CASE Claims(t)
  <2>1. ent[t] \in Entries
    BY <1>5 DEF Claims, ThreadInv, InsertPoints
  <2>2. [ent |-> ent[t], bool |-> 0] \in Pointers \ {Null}
    BY <2>1, PointerFacts
  <2> QED
    BY <1>4, <1>5, <2>2 DEF Claims
<1>6. CASE Marks(t)
  <2>1. expected[t] \in Pointers \ {Null}
    BY <1>6 DEF Marks, ThreadInv, LocalsTyped
  <2>2. Marked(expected[t]) \in Pointers \ {Null}
    BY <2>1, PointerFacts
  <2> QED
    BY <1>4, <1>6, <2>2 DEF Marks
<1> QED
  BY <1>3, <1>5, <1>6, TablesStep
-----------------------------------------------------------------------------
(* The paths                                                               *)

\* Every probe keeps its slot, and the slot its entry or at least an entry.
LEMMA SlotStable ==
  ASSUME TablesTyped, Grows, NEW k \in Keys, NEW n \in Attempts, NEW jj \in DOMAIN TableArray
  PROVE  /\ jj \in DOMAIN TableArray'
         /\ Bucket(k, n, jj)' = Bucket(k, n, jj)
         /\ Slot(k, n, jj) # Null =>
              /\ Slot(k, n, jj)' # Null
              /\ overwritten' \/ HasKey(Slot(k, n, jj)', val[Slot(k, n, jj).ent])
<1>1. Bucket(k, n, jj) \in Slots(jj)
  BY BucketInRange
<1>2. jj \in DOMAIN TableArray' /\ Bucket(k, n, jj)' = Bucket(k, n, jj)
  BY DEF Grows, Bucket
<1>3. /\ Slot(k, n, jj) = At(jj, Bucket(k, n, jj))
      /\ Slot(k, n, jj)' = At(jj, Bucket(k, n, jj))'
  BY DEF Slot, At
<1> QED
  BY <1>1, <1>2, <1>3 DEF Grows, At

\* A slot once passed on the way to a key stays passed.
LEMMA PassedByStable ==
  ASSUME TablesTyped, Grows, NEW k \in Keys, NEW n \in Attempts, NEW jj \in DOMAIN TableArray,
         NEW k2 \in Keys, PassedBy(Slot(k, n, jj), k2)
  PROVE  PassedBy(Slot(k, n, jj), k2)'
<1>1. Slot(k, n, jj)' # Null
  BY SlotStable DEF PassedBy
<1>2. overwritten' \/ ~HasKey(Slot(k, n, jj)', k2)
  BY SlotStable DEF PassedBy, HasKey, Grows
<1> QED
  BY <1>1, <1>2 DEF PassedBy

\* What a thread has found taken below subtable jj stays taken.
LEMMA PassedBelowStable ==
  ASSUME TablesTyped, Grows, NEW k \in Keys, NEW jj \in Nat, jj <= cur, TablesTyped',
         PassedBelow(k, jj)
  PROVE  PassedBelow(k, jj)'
<1> SUFFICES ASSUME NEW j2 \in DOMAIN TableArray', NEW m \in Attempts, j2 < jj
             PROVE  PassedBy(Slot(k, m, j2), k)'
  BY DEF PassedBelow
<1>1. j2 \in Nat /\ cur \in Nat
  BY DEF TablesTyped
<1>2. j2 \in DOMAIN TableArray
  BY <1>1 DEF Grows
<1>3. PassedBy(Slot(k, m, j2), k)
  BY <1>2 DEF PassedBelow
<1> QED
  BY <1>2, <1>3, PassedByStable

\* So the slots a thread has passed stay passed while others insert, delete and grow.
LEMMA PassedStable ==
  ASSUME TablesTyped, Grows, NEW k \in Keys, NEW jj \in DOMAIN TableArray, jj <= cur, TablesTyped',
         NEW n \in Attempts, Passed(k, jj, n)
  PROVE  Passed(k, jj, n)'
<1>1. jj \in Nat
  BY DEF TablesTyped
<1>2. PassedBelow(k, jj)'
  BY <1>1, PassedBelowStable DEF Passed
<1>3. ASSUME NEW m \in Attempts, m < n
      PROVE  PassedBy(Slot(k, m, jj), k)'
  <2>1. PassedBy(Slot(k, m, jj), k)
    BY <1>3 DEF Passed
  <2> QED
    BY <2>1, PassedByStable
<1> QED
  BY <1>2, <1>3 DEF Passed

\* Entries stay on the paths of their keys, and a new one is put on its own.
LEMMA OnPathStep ==
  ASSUME Inv, NEW t \in Threads, ThreadStep(t), Look
  PROVE  OnPath'
<1> Grows /\ TablesTyped' /\ InOrder'
  BY GrowsStep, TablesStep DEF Tables
<1> TablesTyped /\ LocalsTyped /\ InOrder /\ OnPath /\ ThreadInv(t) /\ cur \in Nat
  BY DEF Inv, Typed, TablesTyped
<1> DEFINE Placed(jj, s, k) == \E n \in Attempts : Bucket(k, n, jj) = s /\ Passed(k, jj, n)
<1> SUFFICES ASSUME NEW jj \in DOMAIN TableArray', NEW s \in Slots(jj)', At(jj, s)' # Null
             PROVE  Placed(jj, s, val[At(jj, s).ent])'
  BY DEF OnPath, At
<1>1. ASSUME NEW k \in Keys, jj \in DOMAIN TableArray, Placed(jj, s, k)
      PROVE  Placed(jj, s, k)'
  <2>1. PICK n \in Attempts : Bucket(k, n, jj) = s /\ Passed(k, jj, n)
    BY <1>1
  <2>2. jj <= cur
    BY <1>1 DEF InOrder
  <2> QED
    BY <1>1, <2>1, <2>2, SlotStable, PassedStable
<1>2. ASSUME jj \in DOMAIN TableArray, s \in Slots(jj), At(jj, s) # Null,
             At(jj, s)'.ent = At(jj, s).ent
      PROVE  Placed(jj, s, val[At(jj, s).ent])'
  <2>1. At(jj, s) \in Pointers
    BY <1>2 DEF TablesTyped, IsSubTable, Slots, At
  <2>2. val[At(jj, s).ent] \in Keys
    BY <1>2, <2>1, PointerFacts DEF Keys
  <2>3. Placed(jj, s, val[At(jj, s).ent])
    BY <1>2 DEF OnPath
  <2> HIDE DEF Placed
  <2>4. PICK k \in Keys : k = val[At(jj, s).ent] /\ Placed(jj, s, k)'
    BY <1>1, <1>2, <2>2, <2>3
  <2> QED
    BY <1>2, <2>4 DEF Placed, Passed, PassedBelow, PassedBy, Slot, Bucket
<1>3. CASE Quiet
  BY <1>2, <1>3 DEF Quiet, At, Slots
<1>4. ASSUME NEW new, Writes(t, new)
      PROVE  /\ jj \in DOMAIN TableArray /\ s \in Slots(jj)
             /\ At(jj, s)' = IF jj = j[t] /\ s = Bucket(key[t], i[t], j[t]) THEN new ELSE At(jj, s)
  BY <1>4 DEF Writes, Slots
<1>5. CASE Claims(t)
  <2> DEFINE new == [ent |-> ent[t], bool |-> 0]
  <2>1. Writes(t, new)
    BY <1>5 DEF Claims
  <2>2. CASE jj = j[t] /\ s = Bucket(key[t], i[t], j[t])
    <3>1. key[t] \in Keys /\ val[ent[t]] = key[t] /\ Passed(key[t], j[t], i[t]) /\ i[t] \in Attempts
      BY <1>5 DEF Claims, ThreadInv, InsertPoints, ProbePoints, LocalsTyped
    <3>2. Placed(jj, s, key[t])
      BY <2>2, <3>1
    <3>3. At(jj, s)'.ent = ent[t]
      BY <1>4, <2>1, <2>2
    <3> HIDE DEF Placed
    <3>4. PICK k \in Keys : k = val[At(jj, s)'.ent] /\ Placed(jj, s, k)'
      BY <1>1, <1>4, <2>1, <3>1, <3>2, <3>3
    <3> QED
      BY <3>4 DEF Placed, Passed, PassedBelow, PassedBy, Slot, Bucket
  <2>3. CASE ~(jj = j[t] /\ s = Bucket(key[t], i[t], j[t]))
    BY <1>2, <1>4, <2>1, <2>3
  <2> QED
    BY <2>2, <2>3
<1>6. CASE Marks(t)
  <2>1. Writes(t, Marked(expected[t]))
    BY <1>6 DEF Marks
  <2>2. CASE jj = j[t] /\ s = Bucket(key[t], i[t], j[t])
    <3>1. At(jj, s) = expected[t]
      BY <1>6, <2>2 DEF Marks, Probed, Slot, At
    <3>2. expected[t] \in Pointers /\ expected[t] # Null
      BY <1>6 DEF Marks, ThreadInv, LocalsTyped
    <3>3. At(jj, s)'.ent = At(jj, s).ent
      BY <1>4, <2>1, <2>2, <3>1, <3>2, PointerFacts
    <3> QED
      BY <1>2, <1>4, <2>1, <3>1, <3>2, <3>3
  <2>3. CASE ~(jj = j[t] /\ s = Bucket(key[t], i[t], j[t]))
    BY <1>2, <1>4, <2>1, <2>3
  <2> QED
    BY <2>2, <2>3
<1> QED
  BY <1>3, <1>5, <1>6, TablesStep

\* Two entries of one key would each have to be before the other on its path.
LEMMA NoDuplicate ==
  ASSUME TablesTyped, OnPath
  PROVE  NoDuplicateKey
<1> SUFFICES ASSUME ~overwritten, NEW j1 \in DOMAIN TableArray, NEW j2 \in DOMAIN TableArray,
                    NEW s1 \in Slots(j1), NEW s2 \in Slots(j2), NEW k \in Keys,
                    HasKey(At(j1, s1), k), HasKey(At(j2, s2), k)
             PROVE  j1 = j2 /\ s1 = s2
  BY DEF NoDuplicateKey
<1>1. PICK n1 \in Attempts : Bucket(k, n1, j1) = s1 /\ Passed(k, j1, n1)
  BY DEF OnPath, HasKey
<1>2. PICK n2 \in Attempts : Bucket(k, n2, j2) = s2 /\ Passed(k, j2, n2)
  BY DEF OnPath, HasKey
<1>3. HasKey(Slot(k, n1, j1), k) /\ HasKey(Slot(k, n2, j2), k)
  BY <1>1, <1>2 DEF Slot, At
<1>4. j1 \in Nat /\ j2 \in Nat
  BY DEF TablesTyped
<1>5. j1 = j2
  BY <1>1, <1>2, <1>3, <1>4 DEF Passed, PassedBelow, PassedBy
<1>6. n1 = n2
  BY <1>1, <1>2, <1>3, <1>5 DEF Passed, PassedBy, Attempts
<1> QED
  BY <1>1, <1>2, <1>5, <1>6
-----------------------------------------------------------------------------
(* What the threads know                                                   *)

SameLocals(u) ==
  /\ pc'[u] = pc[u] /\ op'[u] = op[u] /\ key'[u] = key[u] /\ ret'[u] = ret[u] /\ ent'[u] = ent[u]
  /\ j'[u] = j[u] /\ i'[u] = i[u] /\ LocalCur'[u] = LocalCur[u] /\ expected'[u] = expected[u]

\* A step of t leaves the locals of the other threads alone.
LEMMA OthersUnchanged ==
  ASSUME LocalsTyped, NEW t \in Threads, ThreadStep(t),
         NEW u \in Threads, u # t
  PROVE  SameLocals(u)
<1>1. \A r : Return(t, r) => SameLocals(u)
  BY DEF LocalsTyped, Return, Goto, SameLocals
<1>2. ASSUME NEW again, NEW after, NEW jj, NextAttempt(t, again, after, jj)
      PROVE  SameLocals(u)
  <2>1. CASE i[t] + 1 < HashAttempts
    BY <1>2, <2>1 DEF LocalsTyped, NextAttempt, Goto, call, SameLocals
  <2>2. CASE ~(i[t] + 1 < HashAttempts)
    BY <1>2, <2>2 DEF LocalsTyped, NextAttempt, Goto, call, SameLocals
  <2> QED
    BY <2>1, <2>2
<1>3. ASSUME NEW label, Goto(t, label), UNCHANGED <<call, locals>>
      PROVE  SameLocals(u)
  BY <1>3 DEF LocalsTyped, Goto, call, locals, SameLocals
<1>4. ASSUME NEW o, NEW k, NEW label, Start(t, o, k, label), ent'[u] = ent[u]
      PROVE  SameLocals(u)
  BY <1>4 DEF LocalsTyped, Start, Goto, SameLocals
<1>5. CASE CallInsert(t)
  <2>1. PICK e \in Entries : Start(t, "insert", val[e], "table") /\ ent' = [ent EXCEPT ![t] = e]
    BY <1>5 DEF CallInsert
  <2>2. ent'[u] = ent[u]
    BY <2>1 DEF LocalsTyped
  <2> QED
    BY <1>4, <2>1, <2>2
<1>6. CASE CallQuery(t) \/ CallDelete(t)
  BY <1>4, <1>6 DEF CallQuery, CallDelete
<1>7. CASE ReloadCur(t) \/ AdvanceCur(t)
  BY <1>7 DEF LocalsTyped, ReloadCur, AdvanceCur, Goto, call, SameLocals
<1>8. CASE InsertTable(t) \/ addDrop(t)
  BY <1>3, <1>8 DEF InsertTable, addDrop, call, locals
<1>9. CASE lookup(t) \/ ClaimSlot(t) \/ RecheckSlot(t) \/ setPtr(t)
  BY <1>1, <1>2, <1>3, <1>9 DEF lookup, ClaimSlot, RecheckSlot, setPtr, Swaps, call, locals
<1>10. CASE QueryTable(t) \/ lookupQuery(t)
  BY <1>1, <1>2, <1>3, <1>10 DEF QueryTable, lookupQuery, call, locals
<1>11. CASE ChooseExpected(t) \/ ReadPtr(t)
  BY <1>11 DEF LocalsTyped, ChooseExpected, ReadPtr, Goto, call, SameLocals
<1> QED
  BY <1>5, <1>6, <1>7, <1>8, <1>9, <1>10, <1>11 DEF ThreadStep, Step

\* What a thread has found on its way stays so, as long as it stays where it is.
LEMMA KnownStable ==
  ASSUME Inv, Grows, TablesTyped', NEW u \in Threads, pc[u] # "idle",
         key'[u] = key[u], j'[u] = j[u], i'[u] = i[u]
  PROVE  /\ PassedBelow(key[u], j[u])'
         /\ pc[u] \in ProbePoints => Passed(key[u], j[u], i[u])'
         /\ pc[u] = "reload" => PassedBelow(key[u], j[u] + 1)'
         /\ pc[u] \in ProbePoints /\ Probed(u) # Null =>
              /\ Probed(u)' # Null
              /\ overwritten' \/ HasKey(Probed(u)', val[Probed(u).ent])
<1> TablesTyped /\ LocalsTyped /\ ThreadInv(u)
  BY DEF Inv, Typed
<1>1. /\ cur \in Nat /\ j[u] \in Nat /\ i[u] \in Attempts /\ key[u] \in Keys /\ j[u] <= cur
      /\ pc[u] = "reload" => j[u] < cur
  BY DEF TablesTyped, LocalsTyped, ThreadInv
<1>2. \A k \in Keys, n \in Nat : n <= cur /\ PassedBelow(k, n) => PassedBelow(k, n)'
  BY PassedBelowStable
<1>3. PassedBelow(key[u], j[u])'
  <2>1. PICK k \in Keys, n \in Nat : k = key[u] /\ n = j[u] /\ PassedBelow(k, n)'
    BY <1>1, <1>2 DEF ThreadInv
  <2> QED
    BY <2>1 DEF PassedBelow, PassedBy, Slot, Bucket
<1>4. pc[u] = "reload" => PassedBelow(key[u], j[u] + 1)'
  <2> SUFFICES ASSUME pc[u] = "reload"
               PROVE  PassedBelow(key[u], j[u] + 1)'
    OBVIOUS
  <2>1. j[u] + 1 \in Nat /\ j[u] + 1 <= cur
    BY <1>1
  <2>2. PICK k \in Keys, n \in Nat : k = key[u] /\ n = j[u] + 1 /\ PassedBelow(k, n)'
    BY <1>1, <1>2, <2>1 DEF ThreadInv
  <2> QED
    BY <2>2 DEF PassedBelow, PassedBy, Slot, Bucket
<1>5. pc[u] \in ProbePoints => Passed(key[u], j[u], i[u])'
  <2> SUFFICES ASSUME pc[u] \in ProbePoints
               PROVE  Passed(key[u], j[u], i[u])'
    OBVIOUS
  <2>1. \A k \in Keys, jj \in DOMAIN TableArray, n \in Attempts :
          jj <= cur /\ Passed(k, jj, n) => Passed(k, jj, n)'
    BY PassedStable
  <2>2. j[u] \in DOMAIN TableArray /\ Passed(key[u], j[u], i[u])
    BY ProbedTyped DEF ThreadInv
  <2>3. PICK k \in Keys, jj \in DOMAIN TableArray, n \in Attempts :
          k = key[u] /\ jj = j[u] /\ n = i[u] /\ Passed(k, jj, n)'
    BY <1>1, <2>1, <2>2
  <2> QED
    BY <2>3 DEF Passed, PassedBelow, PassedBy, Slot, Bucket
<1>6. pc[u] \in ProbePoints /\ Probed(u) # Null =>
        /\ Probed(u)' # Null
        /\ overwritten' \/ HasKey(Probed(u)', val[Probed(u).ent])
  <2> SUFFICES ASSUME pc[u] \in ProbePoints, Probed(u) # Null
               PROVE  /\ Probed(u)' # Null
                      /\ overwritten' \/ HasKey(Probed(u)', val[Probed(u).ent])
    OBVIOUS
  <2>1. PICK k \in Keys, jj \in DOMAIN TableArray, n \in Attempts :
          k = key[u] /\ jj = j[u] /\ n = i[u]
    BY <1>1, ProbedTyped
  <2>2. Probed(u) = Slot(k, n, jj) /\ Probed(u)' = Slot(k, n, jj)'
    BY <2>1 DEF Probed, Slot, Bucket
  <2> QED
    BY <2>2, SlotStable
<1> QED
  BY <1>3, <1>4, <1>5, <1>6

\* What a thread has established survives the steps of the others.
LEMMA ThreadInvStable ==
  ASSUME Inv, NEW t \in Threads, ThreadStep(t), Look,
         NEW u \in Threads, u # t
  PROVE  ThreadInv(u)'
<1> Grows /\ TablesTyped' /\ LocalsTyped'
  BY TablesStep, GrowsStep, LocalsStep DEF Tables
<1> TablesTyped /\ LocalsTyped /\ ThreadInv(u)
  BY DEF Inv, Typed
<1>1. /\ cur \in Nat /\ cur' \in Nat /\ cur <= cur' /\ pc[u] \in Points
      /\ j[u] \in Nat /\ LocalCur[u] \in Nat
  BY DEF TablesTyped, LocalsTyped, Grows
<1>2. SameLocals(u)
  BY OthersUnchanged
<1>3. pc[u] # "idle" =>
        /\ PassedBelow(key[u], j[u])'
        /\ pc[u] \in ProbePoints => Passed(key[u], j[u], i[u])'
        /\ pc[u] = "reload" => PassedBelow(key[u], j[u] + 1)'
        /\ pc[u] \in ProbePoints /\ Probed(u) # Null =>
             /\ Probed(u)' # Null
             /\ overwritten' \/ HasKey(Probed(u)', val[Probed(u).ent])
  BY <1>2, KnownStable DEF SameLocals
<1>4. pc[u] \in {"setPtr", "mark"} => overwritten' \/ HasKey(Probed(u)', key[u])
  BY <1>3 DEF ThreadInv, ProbePoints, Grows, HasKey
<1>5. pc[u] = "advance" => LocalCur[u] \in DOMAIN TableArray'
  BY DEF ThreadInv, Grows
<1>6. pc[u] \in {"recheck", "setPtr", "mark"} => Probed(u)' # Null
  BY <1>3 DEF ThreadInv, ProbePoints
<1>7. pc[u] = "claim" => expected[u] = Null \/ (getBool(expected[u]) = 1 /\ Probed(u)' # Null)
  BY <1>3 DEF ThreadInv, ProbePoints
<1> QED
  BY <1>1, <1>2, <1>3, <1>4, <1>5, <1>6, <1>7 DEF ThreadInv, SameLocals, InsertPoints, ProbePoints, getBool

\* A call that returns owes nothing.
LEMMA ReturnInv ==
  ASSUME LocalsTyped, cur' \in Nat, NEW t \in Threads, NEW r, Return(t, r)
  PROVE  ThreadInv(t)'
<1>1. pc'[t] = "idle" /\ op'[t] = "none" /\ j'[t] = 0 /\ i'[t] = 0
  BY DEF Return, Goto, LocalsTyped
<1> QED
  BY <1>1 DEF ThreadInv, InsertPoints, ProbePoints

\* One more slot that is neither NULL nor the key's.
LEMMA PassedNext ==
  ASSUME NEW k \in Keys, NEW jj \in Nat, NEW n \in Attempts, DOMAIN TableArray \subseteq Nat,
         Passed(k, jj, n), PassedBy(Slot(k, n, jj), k)
  PROVE  /\ Passed(k, jj, n + 1)
         /\ n + 1 = HashAttempts => PassedBelow(k, jj + 1)
<1>1. \A m \in Attempts : m < n + 1 => PassedBy(Slot(k, m, jj), k)
  BY DEF Passed, Attempts
<1>2. n + 1 = HashAttempts => PassedBelow(k, jj + 1)
  BY <1>1 DEF Passed, PassedBelow, Attempts
<1> QED
  BY <1>1, <1>2 DEF Passed

\* The next probe, after a slot that holds another key.
LEMMA NextAttemptInv ==
  ASSUME Inv, Look, UNCHANGED shared, NEW t \in Threads, Other(Probed(t), key[t]), ThreadStep(t),
         NEW again, NEW after, NEW jj, NextAttempt(t, again, after, jj),
         \/ pc[t] \in {"lookup", "recheck"} /\ again = "lookup" /\ after = "reload" /\ jj = j[t]
         \/ pc[t] = "qlookup" /\ again = "qlookup" /\ after = "qtable" /\ jj = j[t] + 1
  PROVE  ThreadInv(t)'
<1> Grows /\ TablesTyped'
  BY GrowsStep, TablesStep DEF Tables
<1> TablesTyped /\ LocalsTyped /\ ThreadInv(t)
  BY DEF Inv, Typed
<1>1. /\ cur \in Nat /\ j[t] \in Nat /\ LocalCur[t] \in Nat /\ i[t] \in Attempts
      /\ DOMAIN TableArray \subseteq Nat /\ j[t] \in DOMAIN TableArray
      /\ key[t] \in Keys /\ j[t] < cur /\ Passed(key[t], j[t], i[t])
  BY ProbedTyped DEF TablesTyped, LocalsTyped, ThreadInv, ProbePoints
<1>2. /\ Passed(key[t], j[t], i[t] + 1)
      /\ i[t] + 1 = HashAttempts => PassedBelow(key[t], j[t] + 1)
  BY <1>1, PassedNext DEF Probed, Other, PassedBy
<1>3. cur' = cur
  BY DEF shared
<1>4. op'[t] = op[t] /\ key'[t] = key[t] /\ LocalCur'[t] = LocalCur[t] /\ ent'[t] = ent[t]
  BY DEF NextAttempt, call
<1>5. CASE i[t] + 1 < HashAttempts
  <2>1. pc'[t] = again /\ i'[t] = i[t] + 1 /\ j'[t] = j[t]
    BY <1>5 DEF NextAttempt, Goto, LocalsTyped
  <2>2. i[t] + 1 \in Attempts
    BY <1>1, <1>5, HashtableDeleteAssumption DEF Attempts
  <2>3. \A k \in Keys, j1 \in DOMAIN TableArray, n \in Attempts :
          j1 <= cur /\ Passed(k, j1, n) => Passed(k, j1, n)'
    BY PassedStable
  <2>4. PICK k \in Keys, j1 \in DOMAIN TableArray, n \in Attempts :
          k = key[t] /\ j1 = j[t] /\ n = i[t] + 1 /\ Passed(k, j1, n)'
    BY <1>1, <1>2, <2>2, <2>3
  <2>5. Passed(key[t], j[t], i[t])'
    BY <1>4, <2>1, <2>4 DEF Passed, PassedBelow, PassedBy, Slot, Bucket
  <2>6. PassedBelow(key[t], j[t])'
    BY <2>5 DEF Passed
  <2> QED
    BY <1>1, <1>3, <1>4, <2>1, <2>5, <2>6 DEF ThreadInv, InsertPoints, ProbePoints
<1>6. CASE ~(i[t] + 1 < HashAttempts)
  <2>1. pc'[t] = after /\ i'[t] = 0 /\ j'[t] = jj
    BY <1>6 DEF NextAttempt, Goto, LocalsTyped
  <2>2. i[t] + 1 = HashAttempts
    BY <1>1, <1>6, HashtableDeleteAssumption DEF Attempts
  <2>3. \A k \in Keys, n \in Nat : n <= cur /\ PassedBelow(k, n) => PassedBelow(k, n)'
    BY PassedBelowStable
  <2>4. PICK k \in Keys, n \in Nat : k = key[t] /\ n = j[t] + 1 /\ PassedBelow(k, n)'
    BY <1>1, <1>2, <2>2, <2>3
  <2>5. CASE after = "reload" /\ jj = j[t]
    <3>1. PassedBelow(key[t], j[t] + 1)'
      BY <1>4, <2>1, <2>4, <2>5 DEF PassedBelow, PassedBy, Slot, Bucket
    <3>2. DOMAIN TableArray' \subseteq Nat
      BY DEF TablesTyped
    <3>3. PassedBelow(key[t], j[t])'
      BY <1>1, <2>1, <2>5, <3>1, <3>2 DEF PassedBelow
    <3> QED
      BY <1>1, <1>3, <1>4, <2>1, <2>5, <3>1, <3>3 DEF ThreadInv, InsertPoints, ProbePoints
  <2>6. CASE after = "qtable" /\ jj = j[t] + 1
    <3>1. PassedBelow(key[t], j[t])'
      BY <1>4, <2>1, <2>4, <2>6 DEF PassedBelow, PassedBy, Slot, Bucket
    <3> QED
      BY <1>1, <1>3, <1>4, <2>1, <2>6, <3>1 DEF ThreadInv, InsertPoints, ProbePoints
  <2> QED
    BY <2>5, <2>6
<1> QED
  BY <1>5, <1>6

\* Each step establishes what the thread knows afterwards.
LEMMA ThreadInvStep ==
  ASSUME Inv, NEW t \in Threads, ThreadStep(t), Look
  PROVE  ThreadInv(t)'
<1> Grows /\ TablesTyped' /\ LocalsTyped'
  BY TablesStep, GrowsStep, LocalsStep DEF Tables
<1> TablesTyped /\ LocalsTyped /\ InOrder /\ ThreadInv(t)
  BY DEF Inv, Typed
<1>t. /\ cur \in Nat /\ cur' \in Nat /\ cur <= cur' /\ 1 <= cur
      /\ j[t] \in Nat /\ LocalCur[t] \in Nat /\ i[t] \in Attempts
      /\ DOMAIN TableArray \subseteq Nat /\ DOMAIN TableArray' \subseteq Nat
  BY DEF TablesTyped, LocalsTyped, Grows, InOrder
<1>0. \A m \in Attempts : ~(m < 0)
  BY DEF Attempts
<1>r. ASSUME NEW r, Return(t, r)
      PROVE  ThreadInv(t)'
  BY <1>t, <1>r, ReturnInv
<1>s. ASSUME NEW label, Goto(t, label), UNCHANGED <<call, locals>>
      PROVE  /\ pc'[t] = label
             /\ op'[t] = op[t] /\ key'[t] = key[t] /\ j'[t] = j[t] /\ i'[t] = i[t] /\ ent'[t] = ent[t]
             /\ LocalCur'[t] = LocalCur[t] /\ expected'[t] = expected[t]
  BY <1>s DEF Goto, call, locals, LocalsTyped
<1>k. ASSUME pc[t] # "idle", key'[t] = key[t], j'[t] = j[t], i'[t] = i[t]
      PROVE  /\ PassedBelow(key[t], j[t])'
             /\ i[t] = 0 => Passed(key[t], j[t], i[t])'
             /\ pc[t] \in ProbePoints => Passed(key[t], j[t], i[t])'
             /\ UNCHANGED shared => Probed(t)' = Probed(t)
  <2>1. PassedBelow(key[t], j[t])' /\ (pc[t] \in ProbePoints => Passed(key[t], j[t], i[t])')
    BY <1>k, KnownStable
  <2>2. i[t] = 0 => Passed(key[t], j[t], i[t])'
    BY <1>k, <1>0, <2>1 DEF Passed
  <2>3. UNCHANGED shared => Probed(t)' = Probed(t)
    BY <1>k DEF shared, Probed, Slot, Bucket
  <2> QED
    BY <2>1, <2>2, <2>3
<1>b. ASSUME NEW o \in {"insert", "query", "delete"}, NEW k \in Keys, NEW label, Start(t, o, k, label)
      PROVE  /\ pc'[t] = label /\ op'[t] = o /\ key'[t] = k /\ LocalCur'[t] = cur
             /\ j'[t] = 0 /\ i'[t] = 0 /\ cur' = cur
             /\ PassedBelow(key[t], j[t])'
  <2>1. /\ pc'[t] = label /\ op'[t] = o /\ key'[t] = k /\ LocalCur'[t] = cur
        /\ j'[t] = 0 /\ i'[t] = 0 /\ cur' = cur
    BY <1>b DEF Start, Goto, shared, ThreadInv, LocalsTyped
  <2> QED
    BY <1>t, <2>1 DEF PassedBelow
<1>1. CASE CallInsert(t)
  <2>1. PICK e \in Entries : Start(t, "insert", val[e], "table") /\ ent' = [ent EXCEPT ![t] = e]
    BY <1>1 DEF CallInsert
  <2>2. val[e] \in Keys /\ ent'[t] = e
    BY <2>1 DEF Keys, LocalsTyped
  <2>3. /\ pc'[t] = "table" /\ op'[t] = "insert" /\ key'[t] = val[e] /\ LocalCur'[t] = cur
        /\ j'[t] = 0 /\ i'[t] = 0 /\ cur' = cur /\ PassedBelow(key[t], j[t])'
    BY <1>b, <2>1, <2>2
  <2> QED
    BY <1>t, <2>2, <2>3 DEF ThreadInv, InsertPoints, ProbePoints
<1>2. CASE CallQuery(t) \/ CallDelete(t)
  <2>1. PICK k \in Keys : Start(t, "query", k, "qtable") \/ Start(t, "delete", k, "qtable")
    BY <1>2 DEF CallQuery, CallDelete
  <2>2. /\ pc'[t] = "qtable" /\ op'[t] \in {"query", "delete"} /\ key'[t] = k /\ LocalCur'[t] = cur
        /\ j'[t] = 0 /\ i'[t] = 0 /\ cur' = cur /\ PassedBelow(key[t], j[t])'
    BY <1>b, <2>1
  <2> QED
    BY <1>t, <2>2 DEF ThreadInv, InsertPoints, ProbePoints
<1>3. CASE InsertTable(t)
  <2>1. /\ pc[t] = "table" /\ pc'[t] = (IF j[t] < cur THEN "lookup" ELSE "grow") /\ cur' = cur
        /\ op'[t] = op[t] /\ key'[t] = key[t] /\ j'[t] = j[t] /\ i'[t] = i[t] /\ ent'[t] = ent[t]
        /\ LocalCur'[t] = LocalCur[t]
    BY <1>3, <1>s DEF InsertTable, shared
  <2>2. PassedBelow(key[t], j[t])' /\ Passed(key[t], j[t], i[t])'
    BY <1>k, <2>1 DEF ThreadInv
  <2> QED
    BY <1>t, <2>1, <2>2 DEF ThreadInv, InsertPoints, ProbePoints
<1>4. CASE lookup(t)
  <2>1. CASE Goto(t, "expect") /\ UNCHANGED <<call, locals>>
    <3>1. /\ pc[t] = "lookup" /\ pc'[t] = "expect" /\ cur' = cur
          /\ op'[t] = op[t] /\ key'[t] = key[t] /\ j'[t] = j[t] /\ i'[t] = i[t] /\ ent'[t] = ent[t]
          /\ LocalCur'[t] = LocalCur[t]
      BY <1>4, <1>s, <2>1 DEF lookup, shared
    <3>2. PassedBelow(key[t], j[t])' /\ Passed(key[t], j[t], i[t])'
      BY <1>k, <3>1 DEF ProbePoints
    <3> QED
      BY <1>t, <3>1, <3>2 DEF ThreadInv, InsertPoints, ProbePoints
  <2>2. CASE Other(Probed(t), key[t]) /\ NextAttempt(t, "lookup", "reload", j[t])
    BY <1>4, <2>2, NextAttemptInv DEF lookup
  <2> QED
    BY <1>4, <1>r, <2>1, <2>2 DEF lookup
<1>5. CASE ChooseExpected(t)
  <2>1. /\ pc[t] = "expect" /\ pc'[t] = "claim" /\ cur' = cur /\ UNCHANGED shared
        /\ op'[t] = op[t] /\ key'[t] = key[t] /\ j'[t] = j[t] /\ i'[t] = i[t] /\ ent'[t] = ent[t]
        /\ LocalCur'[t] = LocalCur[t]
        /\ expected'[t] = (IF getBool(Probed(t)) = 1 THEN Probed(t) ELSE Null)
    BY <1>5 DEF ChooseExpected, Goto, shared, call, LocalsTyped
  <2>2. /\ PassedBelow(key[t], j[t])' /\ Passed(key[t], j[t], i[t])'
        /\ Probed(t)' = Probed(t)
    BY <1>k, <2>1 DEF ProbePoints
  <2>3. expected'[t] = Null \/ (getBool(expected'[t]) = 1 /\ Probed(t)' # Null)
    BY <2>1, <2>2, PointerFacts
  <2> QED
    BY <1>t, <2>1, <2>2, <2>3 DEF ThreadInv, InsertPoints, ProbePoints, getBool
<1>6. CASE ClaimSlot(t)
  <2>1. CASE /\ Probed(t) # expected[t] /\ Goto(t, "recheck")
             /\ UNCHANGED <<shared, call, locals>>
    <3>1. /\ pc[t] = "claim" /\ pc'[t] = "recheck" /\ cur' = cur /\ UNCHANGED shared
          /\ op'[t] = op[t] /\ key'[t] = key[t] /\ j'[t] = j[t] /\ i'[t] = i[t] /\ ent'[t] = ent[t]
          /\ LocalCur'[t] = LocalCur[t]
      BY <1>6, <1>s, <2>1 DEF ClaimSlot, shared
    <3>2. /\ PassedBelow(key[t], j[t])' /\ Passed(key[t], j[t], i[t])'
          /\ Probed(t)' = Probed(t)
      BY <1>k, <3>1 DEF ProbePoints
    <3>3. Probed(t) # Null
      BY <2>1, <3>1 DEF ThreadInv
    <3> QED
      BY <1>t, <3>1, <3>2, <3>3 DEF ThreadInv, InsertPoints, ProbePoints
  <2> QED
    BY <1>6, <1>r, <2>1 DEF ClaimSlot, Swaps
<1>7. CASE RecheckSlot(t)
  <2>1. CASE ~HasKey(Probed(t), key[t]) /\ NextAttempt(t, "lookup", "reload", j[t])
    <3>1. pc[t] = "recheck" /\ Other(Probed(t), key[t]) /\ UNCHANGED shared
      BY <1>7, <2>1 DEF RecheckSlot, ThreadInv, Other
    <3> QED
      BY <2>1, <3>1, NextAttemptInv
  <2> QED
    BY <1>7, <1>r, <2>1 DEF RecheckSlot
<1>8. CASE ReloadCur(t)
  <2>1. /\ pc[t] = "reload" /\ pc'[t] = "table" /\ LocalCur'[t] = cur /\ j'[t] = j[t] + 1
        /\ op'[t] = op[t] /\ key'[t] = key[t] /\ i'[t] = i[t] /\ ent'[t] = ent[t]
        /\ cur' = cur
    BY <1>8 DEF ReloadCur, Goto, shared, call, LocalsTyped
  <2>2. j[t] + 1 <= cur /\ key[t] \in Keys /\ PassedBelow(key[t], j[t] + 1)
    BY <1>t, <2>1 DEF ThreadInv
  <2>3. \A k \in Keys, n \in Nat : n <= cur /\ PassedBelow(k, n) => PassedBelow(k, n)'
    BY PassedBelowStable
  <2>4. PICK k \in Keys, n \in Nat : k = key[t] /\ n = j[t] + 1 /\ PassedBelow(k, n)'
    BY <1>t, <2>2, <2>3
  <2>5. PassedBelow(key[t], j[t])'
    BY <2>1, <2>4 DEF PassedBelow, PassedBy, Slot, Bucket
  <2> QED
    BY <1>t, <2>1, <2>2, <2>5 DEF ThreadInv, InsertPoints, ProbePoints
<1>9. CASE addDrop(t)
  <2>1. /\ pc[t] = "grow" /\ pc'[t] = "advance" /\ cur' = cur
        /\ op'[t] = op[t] /\ key'[t] = key[t] /\ j'[t] = j[t] /\ i'[t] = i[t] /\ ent'[t] = ent[t]
        /\ LocalCur'[t] = LocalCur[t]
    BY <1>9 DEF addDrop, Goto, call, locals, LocalsTyped
  <2>2. LocalCur[t] \in DOMAIN TableArray'
    <3>1. CASE LocalCur[t] \in DOMAIN TableArray
      BY <3>1 DEF Grows
    <3>2. CASE LocalCur[t] \notin DOMAIN TableArray
      BY <1>9, <3>2 DEF addDrop
    <3> QED
      BY <3>1, <3>2
  <2>3. PassedBelow(key[t], j[t])'
    BY <1>k, <2>1
  <2> QED
    BY <1>t, <2>1, <2>2, <2>3 DEF ThreadInv, InsertPoints, ProbePoints
<1>10. CASE AdvanceCur(t)
  <2>1. /\ pc[t] = "advance" /\ pc'[t] = "table" /\ j'[t] = LocalCur[t]
        /\ op'[t] = op[t] /\ key'[t] = key[t] /\ i'[t] = i[t] /\ ent'[t] = ent[t]
        /\ LocalCur'[t] = LocalCur[t]
    BY <1>10 DEF AdvanceCur, Goto, call, LocalsTyped
  <2>2. j'[t] = j[t]
    BY <2>1 DEF ThreadInv
  <2>3. PassedBelow(key[t], j[t])'
    BY <1>k, <2>1, <2>2
  <2> QED
    BY <1>t, <2>1, <2>2, <2>3 DEF ThreadInv, InsertPoints, ProbePoints
<1>11. CASE QueryTable(t)
  <2>1. PICK limit \in {cur} \cup (IF op[t] = "query" THEN {LocalCur[t]} ELSE {}) :
          IF j[t] < limit
            THEN Goto(t, "qlookup") /\ UNCHANGED <<call, locals>>
            ELSE Return(t, 0)
    BY <1>11 DEF QueryTable
  <2>2. CASE j[t] < limit
    <3>1. /\ pc[t] = "qtable" /\ pc'[t] = "qlookup" /\ cur' = cur
          /\ op'[t] = op[t] /\ key'[t] = key[t] /\ j'[t] = j[t] /\ i'[t] = i[t]
          /\ LocalCur'[t] = LocalCur[t]
      BY <1>11, <1>s, <2>1, <2>2 DEF QueryTable, shared
    <3>2. PassedBelow(key[t], j[t])' /\ Passed(key[t], j[t], i[t])'
      BY <1>k, <3>1 DEF ThreadInv
    <3>3. limit \in Nat /\ limit <= cur
      BY <1>t, <3>1 DEF ThreadInv
    <3>4. j[t] < cur
      BY <1>t, <2>2, <3>3
    <3> QED
      BY <1>t, <3>1, <3>2, <3>4 DEF ThreadInv, InsertPoints, ProbePoints
  <2> QED
    BY <1>r, <2>1, <2>2
<1>12. CASE lookupQuery(t)
  <2>1. CASE /\ Live(Probed(t), key[t]) /\ op[t] # "query"
             /\ Goto(t, "setPtr") /\ UNCHANGED <<call, locals>>
    <3>1. /\ pc[t] = "qlookup" /\ pc'[t] = "setPtr" /\ cur' = cur /\ UNCHANGED shared
          /\ op'[t] = op[t] /\ key'[t] = key[t] /\ j'[t] = j[t] /\ i'[t] = i[t]
          /\ LocalCur'[t] = LocalCur[t]
      BY <1>12, <1>s, <2>1 DEF lookupQuery, shared
    <3>2. /\ PassedBelow(key[t], j[t])' /\ Passed(key[t], j[t], i[t])'
          /\ Probed(t)' = Probed(t)
      BY <1>k, <3>1 DEF ProbePoints
    <3>3. op[t] = "delete"
      BY <2>1, <3>1 DEF ThreadInv, InsertPoints, LocalsTyped
    <3>4. Probed(t)' # Null /\ HasKey(Probed(t)', key[t])
      BY <2>1, <3>2 DEF Live, HasKey
    <3> QED
      BY <1>t, <3>1, <3>2, <3>3, <3>4 DEF ThreadInv, InsertPoints, ProbePoints
  <2>2. CASE Other(Probed(t), key[t]) /\ NextAttempt(t, "qlookup", "qtable", j[t] + 1)
    BY <1>12, <2>2, NextAttemptInv DEF lookupQuery
  <2> QED
    BY <1>12, <1>r, <2>1, <2>2 DEF lookupQuery
<1>13. CASE ReadPtr(t)
  <2>1. /\ pc[t] = "setPtr" /\ pc'[t] = "mark" /\ cur' = cur /\ UNCHANGED shared
        /\ op'[t] = op[t] /\ key'[t] = key[t] /\ j'[t] = j[t] /\ i'[t] = i[t]
        /\ LocalCur'[t] = LocalCur[t] /\ expected'[t] = getPtr(Probed(t))
    BY <1>13 DEF ReadPtr, Goto, shared, call, LocalsTyped
  <2>2. /\ PassedBelow(key[t], j[t])' /\ Passed(key[t], j[t], i[t])'
        /\ Probed(t)' = Probed(t)
    BY <1>k, <2>1 DEF ProbePoints
  <2>3. Probed(t) \in Pointers /\ Probed(t) # Null /\ (overwritten \/ HasKey(Probed(t), key[t]))
    BY <2>1, ProbedTyped DEF ThreadInv, ProbePoints
  <2>4. expected'[t] # Null /\ getBool(expected'[t]) = 0
    BY <2>1, <2>3, PointerFacts DEF getBool
  <2>5. overwritten' \/ HasKey(Probed(t)', key[t])
    BY <2>2, <2>3 DEF Grows
  <2> QED
    BY <1>t, <2>1, <2>2, <2>3, <2>4, <2>5 DEF ThreadInv, InsertPoints, ProbePoints, getBool
<1>14. CASE setPtr(t)
  BY <1>14, <1>r DEF setPtr, Swaps
<1> QED
  BY <1>1, <1>2, <1>3, <1>4, <1>5, <1>6, <1>7, <1>8, <1>9, <1>10, <1>11, <1>12, <1>13, <1>14
  DEF ThreadStep, Step
-----------------------------------------------------------------------------
(* The contents, and what the calls have seen of them                      *)

\* What a call may conclude from a slot that holds its key, from a NULL slot behind
\* slots it has passed, and from running out of subtables.
LEMMA FoundIn ==
  ASSUME Inv, ~overwritten, NEW t \in Threads, pc[t] \in ProbePoints, HasKey(Probed(t), key[t])
  PROVE  key[t] \in Contents <=> getBool(Probed(t)) = 0
<1> DEFINE b == Bucket(key[t], i[t], j[t])
<1>1. j[t] \in DOMAIN TableArray /\ b \in Slots(j[t]) /\ Probed(t) = At(j[t], b) /\ key[t] \in Keys
  BY ProbedTyped
<1> HIDE DEF b
<1>2. NoDuplicateKey
  BY NoDuplicate DEF Inv, Typed
<1>3. \A jj \in DOMAIN TableArray : \A s \in Slots(jj) :
        Live(At(jj, s), key[t]) => At(jj, s) = Probed(t)
  BY <1>1, <1>2 DEF NoDuplicateKey, Live
<1> QED
  BY <1>1, <1>3 DEF Contents, Live

\* A key whose path is NULL at the slot a thread has come to is not in the table.
LEMMA NotIn ==
  ASSUME Inv, ~overwritten, NEW t \in Threads, pc[t] \in ProbePoints, Probed(t) = Null
  PROVE  key[t] \notin Contents
<1> SUFFICES ASSUME NEW j2 \in DOMAIN TableArray, NEW s2 \in Slots(j2), HasKey(At(j2, s2), key[t])
             PROVE  FALSE
  BY DEF Contents, Live
<1>1. PICK n2 \in Attempts : Bucket(key[t], n2, j2) = s2 /\ Passed(key[t], j2, n2)
  BY DEF Inv, OnPath, HasKey
<1>2. HasKey(Slot(key[t], n2, j2), key[t]) /\ Slot(key[t], n2, j2) # Null
  BY <1>1 DEF Slot, At, HasKey
<1>3. /\ j[t] \in Nat /\ j2 \in Nat /\ j[t] \in DOMAIN TableArray /\ i[t] \in Attempts
      /\ Slot(key[t], i[t], j[t]) = Null /\ Passed(key[t], j[t], i[t])
  BY ProbedTyped DEF Probed, Inv, ThreadInv
<1>4. j[t] = j2
  BY <1>1, <1>2, <1>3 DEF Passed, PassedBelow, PassedBy
<1>5. i[t] = n2
  BY <1>1, <1>2, <1>3, <1>4 DEF Passed, PassedBy, Attempts
<1> QED
  BY <1>2, <1>3, <1>4, <1>5

\* Nor is a key of a query that has passed all slots of all subtables.
LEMMA RunOut ==
  ASSUME Inv, ~overwritten, NEW t \in Threads, pc[t] = "qtable", ~(j[t] < cur)
  PROVE  key[t] \notin Contents
<1> SUFFICES ASSUME NEW j2 \in DOMAIN TableArray, NEW s2 \in Slots(j2), HasKey(At(j2, s2), key[t])
             PROVE  FALSE
  BY DEF Contents, Live
<1>1. PICK n2 \in Attempts : Bucket(key[t], n2, j2) = s2
  BY DEF Inv, OnPath, HasKey
<1>2. HasKey(Slot(key[t], n2, j2), key[t]) /\ At(j2, s2) # Null
  BY <1>1 DEF Slot, At, HasKey
<1>3. j2 \in Nat /\ cur \in Nat /\ j[t] \in Nat
  BY DEF Inv, Typed, TablesTyped, LocalsTyped
<1>4. j2 < cur
  BY <1>2, <1>3 DEF Inv, InOrder
<1>5. PassedBelow(key[t], j[t])
  BY DEF Inv, ThreadInv
<1> QED
  BY <1>2, <1>3, <1>4, <1>5 DEF PassedBelow, PassedBy

\* The contents change only when a compare-and-swap succeeds, and then by its key.
LEMMA ContentsStep ==
  ASSUME Inv, NEW t \in Threads, ThreadStep(t), Look
  PROVE  /\ Quiet => Contents' = Contents
         /\ Claims(t) /\ ~overwritten' =>
              key[t] \in Keys \ Contents /\ Contents' = Contents \cup {key[t]}
         /\ Marks(t) /\ ~overwritten' =>
              key[t] \in Contents /\ Contents' = Contents \ {key[t]}
<1> DEFINE b == Bucket(key[t], i[t], j[t])
<1> Grows
  BY GrowsStep
<1> TablesTyped /\ LocalsTyped /\ ThreadInv(t)
  BY DEF Inv, Typed
<1>1. ASSUME Quiet
      PROVE  Contents' = Contents
  <2>1. ASSUME NEW k \in Contents
        PROVE  k \in Contents'
    BY <1>1 DEF Quiet, Contents, At, Slots
  <2>2. ASSUME NEW k \in Contents'
        PROVE  k \in Contents
    <3>1. PICK jj \in DOMAIN TableArray' : \E s \in Slots(jj)' : Live(At(jj, s)', k)
      BY <2>2 DEF Contents
    <3>2. PICK s \in Slots(jj)' : Live(At(jj, s)', k)
      BY <3>1
    <3>3. At(jj, s)' # Null
      BY <3>2 DEF Live, HasKey
    <3>4. jj \in DOMAIN TableArray /\ TableArray'[jj] = TableArray[jj]
      BY <1>1, <3>3 DEF Quiet
    <3> QED
      BY <2>2, <3>2, <3>4 DEF Contents, At, Slots
  <2> QED
    BY <2>1, <2>2
<1>2. ASSUME pc[t] \in ProbePoints, Probed(t) = expected[t]
      PROVE  /\ key[t] \in Keys /\ j[t] \in DOMAIN TableArray /\ b \in Slots(j[t])
             /\ At(j[t], b) = expected[t]
  BY <1>2, ProbedTyped
<1> HIDE DEF b
<1>3. ASSUME NEW new, Writes(t, new)
      PROVE  \A k \in Keys :
               k \in Contents' <=>
                 \E jj \in DOMAIN TableArray : \E s \in Slots(jj) :
                   Live(IF jj = j[t] /\ s = b THEN new ELSE At(jj, s), k)
  <2>1. DOMAIN TableArray' = DOMAIN TableArray
    BY <1>3 DEF Writes
  <2>2. \A jj \in DOMAIN TableArray : Slots(jj)' = Slots(jj)
    BY <1>3 DEF Writes, Slots
  <2>3. \A jj \in DOMAIN TableArray : \A s \in Slots(jj) :
          At(jj, s)' = IF jj = j[t] /\ s = b THEN new ELSE At(jj, s)
    BY <1>3 DEF Writes, b
  <2> QED
    BY <2>1, <2>2, <2>3 DEF Contents
<1>4. ASSUME Claims(t), ~overwritten'
      PROVE  key[t] \in Keys \ Contents /\ Contents' = Contents \cup {key[t]}
  <2> DEFINE new == [ent |-> ent[t], bool |-> 0]
  <2>1. /\ key[t] \in Keys /\ j[t] \in DOMAIN TableArray /\ b \in Slots(j[t])
        /\ At(j[t], b) = expected[t] /\ Probed(t) = expected[t] /\ pc[t] \in ProbePoints
    BY <1>2, <1>4 DEF Claims, ProbePoints
  <2>2. Writes(t, new) /\ ~overwritten /\ ent[t] \in Entries /\ val[ent[t]] = key[t]
    BY <1>4 DEF Claims, Grows, ThreadInv, InsertPoints
  <2>3. new # Null /\ HasKey(new, key[t]) /\ getBool(new) = 0
    BY <2>2, PointerFacts DEF HasKey, getBool
  <2>4. \A jj \in DOMAIN TableArray : \A s \in Slots(jj) :
          /\ jj = j[t] /\ s = b => At(jj, s)' = new
          /\ At(jj, s) # Null => HasKey(At(jj, s)', val[At(jj, s).ent])
    BY <1>4, <2>2 DEF Writes, Grows, b
  <2>5. expected[t] # Null => HasKey(expected[t], key[t]) /\ getBool(expected[t]) = 1
    <3>1. expected[t] # Null => HasKey(new, val[expected[t].ent])
      BY <2>1, <2>4
    <3>2. val[new.ent] = key[t]
      BY <2>2
    <3> QED
      BY <1>4, <3>1, <3>2 DEF Claims, ThreadInv, HasKey
  <2>6. key[t] \notin Contents
    <3>1. CASE expected[t] = Null
      BY <2>1, <2>2, <3>1, NotIn
    <3>2. CASE expected[t] # Null
      BY <2>1, <2>2, <2>5, <3>2, FoundIn
    <3> QED
      BY <3>1, <3>2
  <2> HIDE DEF new
  <2>7. \A k \in Keys :
          k \in Contents' <=>
            \E j2 \in DOMAIN TableArray : \E s2 \in Slots(j2) :
              Live(IF j2 = j[t] /\ s2 = b THEN new ELSE At(j2, s2), k)
    BY <1>3, <2>2
  <2>8. Contents' \subseteq Contents \cup {key[t]}
    <3> SUFFICES ASSUME NEW k \in Contents'
                 PROVE  k \in Contents \/ k = key[t]
      OBVIOUS
    <3>1. k \in Keys
      BY DEF Contents
    <3>2. PICK j2 \in DOMAIN TableArray : \E s2 \in Slots(j2) :
            Live(IF j2 = j[t] /\ s2 = b THEN new ELSE At(j2, s2), k)
      BY <2>7, <3>1
    <3> QED
      BY <2>3, <3>1, <3>2 DEF Contents, Live, HasKey
  <2>9. Contents \cup {key[t]} \subseteq Contents'
    <3>1. key[t] \in Contents'
      BY <2>1, <2>3, <2>7 DEF Live
    <3>2. ASSUME NEW k \in Contents
          PROVE  k \in Contents'
      <4>1. k \in Keys
        BY DEF Contents
      <4>2. PICK j2 \in DOMAIN TableArray : \E s2 \in Slots(j2) : Live(At(j2, s2), k)
        BY DEF Contents
      <4>3. PICK s2 \in Slots(j2) : Live(At(j2, s2), k)
        BY <4>2
      <4>4. ~(j2 = j[t] /\ s2 = b)
        BY <2>1, <2>5, <4>3 DEF Live, HasKey
      <4> QED
        BY <2>7, <4>1, <4>3, <4>4
    <3> QED
      BY <3>1, <3>2
  <2> QED
    BY <2>1, <2>6, <2>8, <2>9
<1>5. ASSUME Marks(t), ~overwritten'
      PROVE  key[t] \in Contents /\ Contents' = Contents \ {key[t]}
  <2> DEFINE new == Marked(expected[t])
  <2>1. /\ key[t] \in Keys /\ j[t] \in DOMAIN TableArray /\ b \in Slots(j[t])
        /\ At(j[t], b) = expected[t] /\ Probed(t) = expected[t] /\ pc[t] \in ProbePoints
    BY <1>2, <1>5 DEF Marks, ProbePoints
  <2>2. /\ Writes(t, new) /\ ~overwritten /\ HasKey(expected[t], key[t])
        /\ getBool(expected[t]) = 0
    BY <1>5 DEF Marks, Grows, ThreadInv
  <2>3. getBool(new) = 1
    <3>1. expected[t] \in Pointers
      BY DEF LocalsTyped
    <3> QED
      BY <3>1, PointerFacts DEF getBool
  <2>4. key[t] \in Contents
    BY <2>1, <2>2, FoundIn
  <2>5. NoDuplicateKey
    BY NoDuplicate DEF Inv, Typed
  <2> HIDE DEF new
  <2>6. \A k \in Keys :
          k \in Contents' <=>
            \E jj \in DOMAIN TableArray : \E s \in Slots(jj) :
              Live(IF jj = j[t] /\ s = b THEN new ELSE At(jj, s), k)
    BY <1>3, <2>2
  <2>7. ASSUME NEW k \in Contents'
        PROVE  k \in Contents \ {key[t]}
    <3>1. k \in Keys
      BY DEF Contents
    <3>2. PICK jj \in DOMAIN TableArray : \E s \in Slots(jj) :
            Live(IF jj = j[t] /\ s = b THEN new ELSE At(jj, s), k)
      BY <2>6, <3>1
    <3>3. PICK s \in Slots(jj) : Live(IF jj = j[t] /\ s = b THEN new ELSE At(jj, s), k)
      BY <3>2
    <3>4. ~(jj = j[t] /\ s = b)
      BY <2>3, <3>3 DEF Live
    <3>5. Live(At(jj, s), k)
      BY <3>3, <3>4
    <3>6. k # key[t]
      BY <2>1, <2>2, <2>5, <3>4, <3>5 DEF NoDuplicateKey, Live
    <3> QED
      BY <3>1, <3>5, <3>6 DEF Contents
  <2>8. ASSUME NEW k \in Contents, k # key[t]
        PROVE  k \in Contents'
    <3>1. k \in Keys
      BY DEF Contents
    <3>2. PICK jj \in DOMAIN TableArray : \E s \in Slots(jj) : Live(At(jj, s), k)
      BY DEF Contents
    <3>3. PICK s \in Slots(jj) : Live(At(jj, s), k)
      BY <3>2
    <3>4. ~(jj = j[t] /\ s = b)
      BY <2>1, <2>2, <2>8, <3>3 DEF Live, HasKey
    <3> QED
      BY <2>6, <3>1, <3>3, <3>4
  <2> QED
    BY <2>4, <2>7, <2>8
<1> QED
  BY <1>1, <1>4, <1>5

\* What a step does to the slot that another thread, or t itself, looks at.
LEMMA ProbedStep ==
  ASSUME Inv, NEW t \in Threads, NEW u \in Threads, pc[u] \in ProbePoints,
         key'[u] = key[u], j'[u] = j[u], i'[u] = i[u]
  PROVE  /\ Quiet => Probed(u)' = Probed(u)
         /\ \A new : Writes(t, new) /\ pc[t] \in ProbePoints =>
              \/ Probed(u)' = Probed(u)
              \/ Probed(u)' = new /\ Probed(u) = Probed(t)
<1> DEFINE b == Bucket(key[u], i[u], j[u])
<1>1. j[u] \in DOMAIN TableArray /\ b \in Slots(j[u]) /\ Probed(u) = At(j[u], b)
  BY ProbedTyped
<1>2. ASSUME TableArray'[j[u]].TableSize = TableArray[j[u]].TableSize
      PROVE  Probed(u)' = TableArray'[j[u]].InnerTable[b]
  BY <1>2 DEF Probed, Slot, Bucket
<1>3. Quiet => Probed(u)' = Probed(u)
  BY <1>1, <1>2 DEF Quiet, At
<1>4. ASSUME NEW new, Writes(t, new), pc[t] \in ProbePoints
      PROVE  \/ Probed(u)' = Probed(u)
             \/ Probed(u)' = new /\ Probed(u) = Probed(t)
  <2>1. Probed(u)' = TableArray'[j[u]].InnerTable[b]
    BY <1>1, <1>2, <1>4 DEF Writes
  <2>2. \A jj \in DOMAIN TableArray : \A s \in Slots(jj) :
          TableArray'[jj].InnerTable[s] =
            IF jj = j[t] /\ s = Bucket(key[t], i[t], j[t]) THEN new ELSE At(jj, s)
    BY <1>4 DEF Writes, At
  <2>3. Probed(t) = At(j[t], Bucket(key[t], i[t], j[t]))
    BY <1>4, ProbedTyped
  <2> HIDE DEF b
  <2> QED
    BY <1>1, <2>1, <2>2, <2>3
<1> QED
  BY <1>3, <1>4

\* A call keeps its key and its copy of head->cur while it queries.
LEMMA QueryKeeps ==
  ASSUME Inv, NEW t \in Threads, ThreadStep(t), op'[t] = "query", pc[t] # "idle"
  PROVE  op[t] = "query" /\ key'[t] = key[t] /\ LocalCur'[t] = LocalCur[t]
<1> LocalsTyped /\ ThreadInv(t)
  BY DEF Inv, Typed
<1>1. \A r : ~Return(t, r)
  BY DEF Return, LocalsTyped
<1>2. CASE InsertTable(t) \/ ReloadCur(t) \/ addDrop(t) \/ AdvanceCur(t) \/ ChooseExpected(t)
  <2>1. op'[t] = "insert"
    BY <1>2 DEF ThreadInv, InsertPoints, InsertTable, ReloadCur, addDrop, AdvanceCur, ChooseExpected, call
  <2> QED
    BY <2>1
<1>3. CASE lookup(t) \/ RecheckSlot(t) \/ ClaimSlot(t)
  BY <1>1, <1>3 DEF lookup, RecheckSlot, ClaimSlot, Swaps, NextAttempt, call, locals
<1>4. CASE QueryTable(t) \/ lookupQuery(t)
  BY <1>1, <1>4 DEF QueryTable, lookupQuery, NextAttempt, call, locals
<1>5. CASE ReadPtr(t) \/ setPtr(t)
  BY <1>1, <1>5 DEF ReadPtr, setPtr, Swaps, call
<1> QED
  BY <1>2, <1>3, <1>4, <1>5 DEF ThreadStep, CallInsert, CallQuery, CallDelete, Start, Step

\* A call that goes on is still the same call.
LEMMA CallKeeps ==
  ASSUME Inv, NEW t \in Threads, ThreadStep(t), pc'[t] \in {"claim", "recheck", "mark"}
  PROVE  /\ key'[t] = key[t] /\ j'[t] = j[t] /\ i'[t] = i[t] /\ op'[t] = op[t] /\ UNCHANGED shared
         /\ \/ pc'[t] = "claim" /\ ChooseExpected(t)
            \/ pc'[t] = "recheck" /\ pc[t] = "claim" /\ Probed(t) # expected[t]
            \/ pc'[t] = "mark" /\ ReadPtr(t)
<1> LocalsTyped
  BY DEF Inv, Typed
<1>1. \A r : ~Return(t, r)
  BY DEF Return, Goto, LocalsTyped
<1>2. \A label : Goto(t, label) => pc'[t] = label
  BY DEF Goto, LocalsTyped
<1>3. ~CallInsert(t) /\ ~CallQuery(t) /\ ~CallDelete(t)
  BY <1>2 DEF CallInsert, CallQuery, CallDelete, Start
<1>4. ~InsertTable(t) /\ ~ReloadCur(t) /\ ~addDrop(t) /\ ~AdvanceCur(t)
  BY <1>2 DEF InsertTable, ReloadCur, addDrop, AdvanceCur
<1>5. ~lookup(t) /\ ~RecheckSlot(t)
  BY <1>1, <1>2 DEF lookup, RecheckSlot, NextAttempt
<1>6. ~QueryTable(t) /\ ~lookupQuery(t) /\ ~setPtr(t)
  BY <1>1, <1>2 DEF QueryTable, lookupQuery, setPtr, Swaps, NextAttempt
<1>7. CASE ChooseExpected(t) \/ ReadPtr(t)
  BY <1>2, <1>7 DEF ChooseExpected, ReadPtr, call
<1>8. CASE ClaimSlot(t)
  BY <1>1, <1>2, <1>8 DEF ClaimSlot, Swaps, call, locals
<1> QED
  BY <1>3, <1>4, <1>5, <1>6, <1>7, <1>8 DEF ThreadStep, Step

\* A query that has not seen its key missing still finds an entry of it.
LEMMA QuerySeen ==
  ASSUME Inv, NEW t \in Threads, ThreadStep(t), Look, NEW u \in Threads,
         ~overwritten', op'[u] = "query", 0 \notin seen'[u]
  PROVE  \E jj \in DOMAIN TableArray' :
           jj < LocalCur'[u] /\ \E s \in Slots(jj)' : HasKey(At(jj, s)', key'[u])
<1> Grows
  BY GrowsStep
<1> TablesTyped /\ LocalsTyped /\ ThreadInv(u) /\ ThreadInv(t) /\ SeenInv(u)
  BY DEF Inv, Typed
<1>1. seen'[u] = seen[u] \cup {IF key'[u] \in Contents' THEN 1 ELSE 0}
  BY DEF Look
<1>2. ASSUME NEW jj \in DOMAIN TableArray, NEW s \in Slots(jj), HasKey(At(jj, s), key'[u])
      PROVE  jj \in DOMAIN TableArray' /\ s \in Slots(jj)' /\ HasKey(At(jj, s)', key'[u])
  <2>1. val[At(jj, s).ent] = key'[u] /\ At(jj, s) # Null
    BY <1>2 DEF HasKey
  <2> QED
    BY <2>1 DEF Grows, Slots
<1>3. CASE u = t /\ pc[t] = "idle"
  <2>1. ~Step(t)
    BY <1>3 DEF Step, InsertTable, lookup, ChooseExpected, ClaimSlot, RecheckSlot, ReloadCur, addDrop,
                AdvanceCur, QueryTable, lookupQuery, ReadPtr, setPtr
  <2>2. PICK o, k, label : Start(t, o, k, label)
    BY <2>1 DEF ThreadStep, CallInsert, CallQuery, CallDelete
  <2>3. LocalCur'[t] = cur /\ UNCHANGED shared
    BY <2>2 DEF Start, LocalsTyped
  <2>4. Contents' = Contents
    BY <2>3 DEF shared, Contents, Slots, At
  <2>5. key'[t] \in Contents
    BY <1>1, <1>3, <2>4
  <2>6. PICK jj \in DOMAIN TableArray : \E s \in Slots(jj) : Live(At(jj, s), key'[t])
    BY <2>5 DEF Contents
  <2>7. jj < cur
    <3>1. cur \in Nat /\ jj \in Nat
      BY DEF TablesTyped
    <3> QED
      BY <2>6, <3>1 DEF Inv, InOrder, Live, HasKey
  <2> QED
    BY <1>2, <1>3, <2>3, <2>6, <2>7 DEF Live
<1>4. CASE ~(u = t /\ pc[t] = "idle")
  <2>1. op[u] = "query" /\ key'[u] = key[u] /\ LocalCur'[u] = LocalCur[u]
    <3>1. CASE u = t
      BY <1>4, <3>1, QueryKeeps
    <3>2. CASE u # t
      BY <3>2, OthersUnchanged DEF SameLocals
    <3> QED
      BY <3>1, <3>2
  <2>2. 0 \notin seen[u] /\ ~overwritten
    BY <1>1 DEF Grows
  <2>3. PICK jj \in DOMAIN TableArray :
          jj < LocalCur[u] /\ \E s \in Slots(jj) : HasKey(At(jj, s), key[u])
    BY <2>1, <2>2 DEF SeenInv
  <2> QED
    BY <1>2, <2>1, <2>3
<1> QED
  BY <1>3, <1>4

\* The history of the thread that moves keeps up.
LEMMA SeenInvOwn ==
  ASSUME Inv, NEW t \in Threads, ThreadStep(t), Look, ~overwritten'
  PROVE  /\ pc'[t] = "claim" /\ Probed(t)' # expected'[t] /\ HasKey(Probed(t)', key'[t]) => 1 \in seen'[t]
         /\ pc'[t] = "recheck" /\ HasKey(Probed(t)', key'[t]) => 1 \in seen'[t]
         /\ pc'[t] = "mark" /\ Probed(t)' # expected'[t] => 0 \in seen'[t]
<1> SUFFICES ASSUME pc'[t] \in {"claim", "recheck", "mark"}
             PROVE  /\ pc'[t] = "claim" /\ Probed(t)' # expected'[t] /\ HasKey(Probed(t)', key'[t]) =>
                         1 \in seen'[t]
                    /\ pc'[t] = "recheck" /\ HasKey(Probed(t)', key'[t]) => 1 \in seen'[t]
                    /\ pc'[t] = "mark" /\ Probed(t)' # expected'[t] => 0 \in seen'[t]
  OBVIOUS
<1> TablesTyped /\ LocalsTyped /\ InOrder /\ ThreadInv(t) /\ SeenInv(t) /\ ~overwritten
  BY GrowsStep DEF Inv, Typed, Grows
<1>1. /\ key'[t] = key[t] /\ j'[t] = j[t] /\ i'[t] = i[t] /\ op'[t] = op[t] /\ UNCHANGED shared
      /\ \/ pc'[t] = "claim" /\ ChooseExpected(t)
         \/ pc'[t] = "recheck" /\ pc[t] = "claim" /\ Probed(t) # expected[t]
         \/ pc'[t] = "mark" /\ ReadPtr(t)
  BY CallKeeps
<1>2. pc[t] \in ProbePoints /\ op[t] # "none"
  BY <1>1 DEF ChooseExpected, ReadPtr, ProbePoints, ThreadInv
<1>3. Quiet
  BY <1>1, SharedUnchanged
<1>4. Probed(t)' = Probed(t) /\ Contents' = Contents
  BY <1>1, <1>2, <1>3, ProbedStep, ContentsStep
<1>5. seen'[t] = seen[t] \cup {IF key[t] \in Contents THEN 1 ELSE 0}
  BY <1>1, <1>2, <1>4 DEF Look
<1>6. Probed(t) \in Pointers
  BY <1>2, ProbedTyped
<1>7. CASE pc'[t] = "claim"
  <2>1. expected'[t] = IF getBool(Probed(t)) = 1 THEN Probed(t) ELSE Null
    BY <1>1, <1>7 DEF ChooseExpected, LocalsTyped
  <2>2. ASSUME Probed(t) # expected'[t], HasKey(Probed(t), key[t])
        PROVE  key[t] \in Contents
    BY <1>2, <1>6, <2>1, <2>2, FoundIn, PointerFacts
  <2> QED
    BY <1>1, <1>4, <1>5, <1>7, <2>2
<1>8. CASE pc'[t] = "recheck"
  BY <1>1, <1>4, <1>5, <1>8 DEF SeenInv
<1>9. CASE pc'[t] = "mark"
  <2>1. expected'[t] = getPtr(Probed(t)) /\ HasKey(Probed(t), key[t])
    BY <1>1, <1>9 DEF ReadPtr, ThreadInv, LocalsTyped
  <2>2. ASSUME Probed(t) # expected'[t]
        PROVE  key[t] \notin Contents
    <3>1. getBool(Probed(t)) # 0
      BY <1>6, <2>1, <2>2 DEF getPtr, getBool, Pointers, Null
    <3> QED
      BY <1>2, <2>1, <3>1, FoundIn
  <2> QED
    BY <1>4, <1>5, <1>9, <2>2
<1> QED
  BY <1>7, <1>8, <1>9

\* And so does that of each thread it meets at a slot.
LEMMA SeenInvOthers ==
  ASSUME Inv, NEW t \in Threads, ThreadStep(t), Look, ~overwritten', NEW u \in Threads, u # t
  PROVE  /\ pc'[u] = "claim" /\ Probed(u)' # expected'[u] /\ HasKey(Probed(u)', key'[u]) => 1 \in seen'[u]
         /\ pc'[u] = "recheck" /\ HasKey(Probed(u)', key'[u]) => 1 \in seen'[u]
         /\ pc'[u] = "mark" /\ Probed(u)' # expected'[u] => 0 \in seen'[u]
<1> SUFFICES ASSUME pc[u] \in {"claim", "recheck", "mark"}
             PROVE  /\ pc'[u] = "claim" /\ Probed(u)' # expected'[u] /\ HasKey(Probed(u)', key'[u]) =>
                         1 \in seen'[u]
                    /\ pc'[u] = "recheck" /\ HasKey(Probed(u)', key'[u]) => 1 \in seen'[u]
                    /\ pc'[u] = "mark" /\ Probed(u)' # expected'[u] => 0 \in seen'[u]
  BY OthersUnchanged DEF SameLocals, Inv, Typed
<1> Grows /\ TablesTyped'
  BY GrowsStep, TablesStep DEF Tables
<1> TablesTyped /\ LocalsTyped /\ ThreadInv(u) /\ ThreadInv(t) /\ SeenInv(u) /\ ~overwritten
  BY DEF Inv, Typed, Grows
<1>1. SameLocals(u) /\ op[u] # "none" /\ pc[u] \in ProbePoints
  BY OthersUnchanged DEF ThreadInv, ProbePoints
<1>2. seen'[u] = seen[u] \cup {IF key[u] \in Contents' THEN 1 ELSE 0}
  BY <1>1 DEF Look, SameLocals
<1>3. Quiet => Probed(u)' = Probed(u)
  BY <1>1, ProbedStep DEF SameLocals
<1>4. ASSUME NEW new, Writes(t, new), pc[t] \in ProbePoints
      PROVE  Probed(u)' = Probed(u) \/ (Probed(u)' = new /\ Probed(u) = Probed(t))
  BY <1>1, <1>4, ProbedStep DEF SameLocals
<1>5. CASE Probed(u)' = Probed(u)
  BY <1>1, <1>2, <1>5 DEF SeenInv, SameLocals
<1>6. ASSUME Claims(t), Probed(u)' = [ent |-> ent[t], bool |-> 0], Probed(u) = Probed(t)
      PROVE  /\ HasKey(Probed(u)', key[u]) => 1 \in seen'[u]
             /\ pc[u] = "mark" => 0 \in seen'[u]
  <2>1. HasKey(Probed(u)', key[u]) => key[u] = key[t]
    BY <1>6 DEF HasKey, Claims, ThreadInv, InsertPoints
  <2>2. key[t] \in Contents'
    BY <1>6, ContentsStep
  <2>3. Probed(u) = expected[t]
    BY <1>6 DEF Claims
  <2>4. pc[u] = "mark" => Probed(u) # expected[u]
    BY <1>6, <2>3 DEF Claims, ThreadInv
  <2> QED
    BY <1>2, <2>1, <2>2, <2>4 DEF SeenInv
<1>7. ASSUME Marks(t), Probed(u)' = Marked(expected[t]), Probed(u) = Probed(t)
      PROVE  /\ pc[u] \in {"claim", "recheck"} /\ HasKey(Probed(u)', key[u]) => 1 \in seen'[u]
             /\ pc[u] = "mark" => 0 \in seen'[u]
  <2>1. /\ Probed(u) = expected[t] /\ expected[t] # Null /\ getBool(expected[t]) = 0
        /\ HasKey(expected[t], key[t]) /\ expected[t] \in Pointers
    BY <1>7 DEF Marks, ThreadInv, LocalsTyped
  <2>2. HasKey(Probed(u)', key[u]) => HasKey(Probed(u), key[u])
    BY <1>7, <2>1, PointerFacts DEF HasKey
  <2>3. pc[u] = "claim" => Probed(u) # expected[u]
    BY <2>1 DEF ThreadInv
  <2>4. pc[u] = "mark" => key[u] = key[t]
    BY <2>1 DEF ThreadInv, HasKey
  <2>5. key[t] \notin Contents'
    BY <1>7, ContentsStep
  <2> QED
    BY <1>2, <2>2, <2>3, <2>4, <2>5 DEF SeenInv
<1>8. CASE Claims(t)
  BY <1>1, <1>4, <1>5, <1>6, <1>8 DEF Claims, ProbePoints, SameLocals
<1>9. CASE Marks(t)
  BY <1>1, <1>4, <1>5, <1>7, <1>9 DEF Marks, ProbePoints, SameLocals
<1> QED
  BY <1>3, <1>5, <1>8, <1>9, TablesStep

\* The history keeps up with every step.
LEMMA SeenInvStep ==
  ASSUME Inv, NEW t \in Threads, ThreadStep(t), Look, NEW u \in Threads
  PROVE  SeenInv(u)'
<1>1. seen'[u] = IF op'[u] = "none" THEN {}
                 ELSE seen[u] \cup {IF key'[u] \in Contents' THEN 1 ELSE 0}
  BY DEF Look
<1>2. ASSUME ~overwritten'
      PROVE  /\ pc'[u] = "claim" /\ Probed(u)' # expected'[u] /\ HasKey(Probed(u)', key'[u]) => 1 \in seen'[u]
             /\ pc'[u] = "recheck" /\ HasKey(Probed(u)', key'[u]) => 1 \in seen'[u]
             /\ pc'[u] = "mark" /\ Probed(u)' # expected'[u] => 0 \in seen'[u]
  BY <1>2, SeenInvOwn, SeenInvOthers
<1>3. ASSUME ~overwritten', op'[u] = "query", 0 \notin seen'[u]
      PROVE  \E jj \in DOMAIN TableArray' :
               jj < LocalCur'[u] /\ \E s \in Slots(jj)' : HasKey(At(jj, s)', key'[u])
  BY <1>3, QuerySeen
<1> QED
  BY <1>1, <1>2, <1>3 DEF SeenInv, At
-----------------------------------------------------------------------------
(* The invariant, and what follows from it                                 *)

\* initTable establishes the inductive invariant.
LEMMA InitInv ==
  PlacesFit /\ Init => Inv
<1> SUFFICES ASSUME PlacesFit, Init
             PROVE  Inv
  OBVIOUS
<1>1. /\ DOMAIN TableArray = {0} /\ TableArray[0] = createTable(InitSize) /\ cur = 1
      /\ IsSubTable(createTable(InitSize))
      /\ \A s \in 0 .. InitSize - 1 : createTable(InitSize).InnerTable[s] = Null
      /\ createTable(InitSize).TableSize = InitSize
  BY HashtableDeleteAssumption, PointerFacts DEF Init, createTable, IsSubTable
<1>2. TablesTyped
  BY <1>1 DEF TablesTyped
<1>3. LocalsTyped /\ HistoryTyped
  <2>1. 0 \in Attempts
    BY HashtableDeleteAssumption DEF Attempts
  <2>2. LocalsTyped
    BY <2>1, PointerFacts DEF Init, LocalsTyped, Points
  <2> QED
    BY <2>2 DEF Init, HistoryTyped
<1>4. InOrder
  BY <1>1 DEF InOrder
<1>5. OnPath
  BY <1>1 DEF OnPath, At, Slots
<1>6. ASSUME NEW t \in Threads
      PROVE  ThreadInv(t) /\ SeenInv(t)
  BY <1>1 DEF Init, ThreadInv, SeenInv, InsertPoints, ProbePoints
<1> QED
  BY <1>2, <1>3, <1>4, <1>5, <1>6 DEF Inv, Typed

\* Every step of the table preserves the inductive invariant.
LEMMA StepInv ==
  Inv /\ [Next]_vars => Inv'
<1> SUFFICES ASSUME Inv, [Next]_vars
             PROVE  Inv'
  OBVIOUS
<1>1. CASE UNCHANGED vars
  <2>0. /\ TableArray' = TableArray /\ cur' = cur /\ overwritten' = overwritten /\ pc' = pc
        /\ op' = op /\ key' = key /\ ret' = ret /\ j' = j /\ i' = i /\ LocalCur' = LocalCur
        /\ ent' = ent /\ expected' = expected /\ seen' = seen
    BY <1>1 DEF vars
  <2> Typed /\ InOrder /\ OnPath
    BY DEF Inv
  <2>1. TablesTyped' /\ InOrder' /\ LocalsTyped' /\ HistoryTyped'
    BY <2>0 DEF Typed, TablesTyped, LocalsTyped, HistoryTyped, InOrder, At, Slots
  <2>2. \A k, n, jj : Bucket(k, n, jj)' = Bucket(k, n, jj) /\ Slot(k, n, jj)' = Slot(k, n, jj)
    BY <2>0 DEF Bucket, Slot
  <2>3. \A k, jj : PassedBelow(k, jj)' <=> PassedBelow(k, jj)
    BY <2>0, <2>2 DEF PassedBelow, PassedBy
  <2>4. \A k, n, jj : Passed(k, jj, n)' <=> Passed(k, jj, n)
    BY <2>0, <2>2, <2>3 DEF Passed, PassedBy
  <2>5. \A jj, s : At(jj, s)' = At(jj, s) /\ Slots(jj)' = Slots(jj)
    BY <2>0 DEF At, Slots
  <2>6. OnPath'
    BY <2>0, <2>2, <2>4, <2>5 DEF OnPath
  <2>7. Contents' = Contents
    BY <2>0, <2>5 DEF Contents
  <2>8. ASSUME NEW t \in Threads
        PROVE  ThreadInv(t)' /\ SeenInv(t)'
    <3>1. ThreadInv(t) /\ SeenInv(t)
      BY DEF Inv
    <3>2. Probed(t)' = Probed(t)
      BY <2>0, <2>2 DEF Probed, Slot, Bucket
    <3>3. ThreadInv(t)'
      BY <2>0, <2>3, <2>4, <3>1, <3>2 DEF ThreadInv, PassedBelow, Passed, PassedBy, Slot, Bucket
    <3>4. SeenInv(t)'
      BY <2>0, <2>5, <2>7, <3>1, <3>2 DEF SeenInv, At, Slots
    <3> QED
      BY <3>3, <3>4
  <2> QED
    BY <2>1, <2>6, <2>8 DEF Inv, Typed
<1>2. CASE Next
  <2>1. PICK t \in Threads : ThreadStep(t) /\ Look
    BY <1>2 DEF Next, ThreadStep
  <2>2. TablesTyped' /\ InOrder' /\ LocalsTyped'
    BY <2>1, TablesStep, LocalsStep DEF Tables
  <2>3. HistoryTyped'
    <3>1. \A u \in Threads : seen[u] \subseteq {0, 1}
      BY DEF Inv, Typed, HistoryTyped
    <3>2. seen' \in [Threads -> SUBSET {0, 1}]
      BY <2>1, <3>1 DEF Look
    <3>3. overwritten' \in BOOLEAN
      BY <2>1 DEF Look
    <3> QED
      BY <3>2, <3>3 DEF HistoryTyped
  <2>4. OnPath'
    BY <2>1, OnPathStep
  <2>5. ASSUME NEW u \in Threads
        PROVE  ThreadInv(u)' /\ SeenInv(u)'
    BY <2>1, ThreadInvStep, ThreadInvStable, SeenInvStep
  <2> QED
    BY <2>2, <2>3, <2>4, <2>5 DEF Inv, Typed
<1> QED
  BY <1>1, <1>2

\* Every reachable state satisfies the inductive invariant: what each thread inside
\* insertTable, checkTableQuery or deleteVal has learnt about the slots it has passed
\* is still true, whatever the other threads insert and delete meanwhile.
THEOREM Invariance ==
  PlacesFit /\ Spec => []Inv
BY InitInv, StepInv, PTL DEF Spec

\* Every variable always has its type.
THEOREM TypeCorrect ==
  PlacesFit /\ Spec => []TypeOK
<1>1. Inv => TypeOK
  BY TypedIsTypeOK DEF Inv
<1> QED
  BY <1>1, Invariance, PTL

\* Deleting opens no gap: an entry, marked or not, is on the probe path of its key and
\* no slot before it is NULL, whatever inserts and deletes overlap, overwritten marks
\* of other keys included.
THEOREM NoGapBeforeEntryCorrect ==
  PlacesFit /\ Spec => []NoGapBeforeEntry
<1>1. Inv => NoGapBeforeEntry
  BY DEF Inv, OnPath, NoGapBeforeEntry, Passed, PassedBelow, PassedBy
<1> QED
  BY <1>1, Invariance, PTL

\* A key has at most one entry, marked or not, as long as no insert has replaced the
\* marked entry of another key.
THEOREM NoDuplicateKeyCorrect ==
  PlacesFit /\ Spec => []NoDuplicateKey
<1>1. Inv => NoDuplicateKey
  BY NoDuplicate DEF Inv, Typed
<1> QED
  BY <1>1, Invariance, PTL

\* Marking is the only way out of the table, and only a marked slot takes another entry.
THEOREM LeavesOnlyMarkedCorrect ==
  PlacesFit /\ Spec => LeavesOnlyMarked
<1> DEFINE Leaves(jj, s) ==
             At(jj, s) # Null /\ At(jj, s)' # At(jj, s) =>
               IF getBool(At(jj, s)) = 0
                 THEN At(jj, s)' = Marked(At(jj, s))
                 ELSE At(jj, s)' # Null /\ getBool(At(jj, s)') = 0
           AllLeave == \A jj \in DOMAIN TableArray : \A s \in Slots(jj) : Leaves(jj, s)
<1>1. Inv /\ [Next]_vars => [AllLeave]_vars
  <2> SUFFICES ASSUME Inv, Next, NEW jj \in DOMAIN TableArray, NEW s \in Slots(jj)
               PROVE  Leaves(jj, s)
    OBVIOUS
  <2>1. PICK t \in Threads : ThreadStep(t)
    BY DEF Next, ThreadStep
  <2> LocalsTyped /\ ThreadInv(t)
    BY DEF Inv, Typed
  <2>2. CASE Quiet
    BY <2>2 DEF Quiet, At
  <2>3. CASE Claims(t)
    <3>1. CASE jj = j[t] /\ s = Bucket(key[t], i[t], j[t])
      <4>1. At(jj, s) = expected[t] /\ At(jj, s)' = [ent |-> ent[t], bool |-> 0]
        BY <2>3, <3>1 DEF Claims, Writes, Probed, Slot, At
      <4>2. ent[t] \in Entries
        BY <2>3 DEF Claims, ThreadInv, InsertPoints
      <4>3. At(jj, s)' # Null /\ getBool(At(jj, s)') = 0
        BY <4>1, <4>2, PointerFacts DEF getBool
      <4>4. At(jj, s) # Null => getBool(At(jj, s)) = 1
        BY <2>3, <4>1 DEF Claims, ThreadInv
      <4> QED
        BY <4>3, <4>4
    <3>2. CASE ~(jj = j[t] /\ s = Bucket(key[t], i[t], j[t]))
      BY <2>3, <3>2 DEF Claims, Writes
    <3> QED
      BY <3>1, <3>2
  <2>4. CASE Marks(t)
    <3>1. CASE jj = j[t] /\ s = Bucket(key[t], i[t], j[t])
      <4>1. At(jj, s) = expected[t] /\ At(jj, s)' = Marked(expected[t])
        BY <2>4, <3>1 DEF Marks, Writes, Probed, Slot, At
      <4>2. getBool(expected[t]) = 0
        BY <2>4 DEF Marks, ThreadInv
      <4> QED
        BY <4>1, <4>2
    <3>2. CASE ~(jj = j[t] /\ s = Bucket(key[t], i[t], j[t]))
      BY <2>4, <3>2 DEF Marks, Writes
    <3> QED
      BY <3>1, <3>2
  <2> QED
    BY <2>1, <2>2, <2>3, <2>4, TablesStep
<1> QED
  BY <1>1, Invariance, PTL DEF Spec, LeavesOnlyMarked
-----------------------------------------------------------------------------
(* Linearizability until an insert replaces another key's marked entry     *)

\* An insert or a delete that returns 1 takes effect at its compare-and-swap; every
\* other call returns an answer that its history has seen.
LEMMA StepImplements ==
  ASSUME Inv, NEW t \in Threads, ThreadStep(t), Look, ~overwritten'
  PROVE  [Set!Next]_(Set!vars)
<1> Grows
  BY GrowsStep
<1> TablesTyped /\ LocalsTyped /\ ThreadInv(t) /\ SeenInv(t) /\ ~overwritten
  BY DEF Inv, Typed, Grows
<1>c. /\ UNCHANGED shared => Contents' = Contents
      /\ Quiet => Contents' = Contents
      /\ Claims(t) => key[t] \notin Contents /\ Contents' = Contents \cup {key[t]}
      /\ Marks(t) => key[t] \in Contents /\ Contents' = Contents \ {key[t]}
  BY ContentsStep, SharedUnchanged DEF Inv
<1>l. Set!Look
  BY DEF Look, Set!Look
<1>s. op[t] # "none" => /\ key[t] \in Contents => 1 \in seen[t]
                        /\ key[t] \notin Contents => 0 \in seen[t]
  BY DEF SeenInv
<1>n. ASSUME Contents' = Contents, UNCHANGED call
      PROVE  UNCHANGED Set!vars
  <2>1. op' = op /\ key' = key /\ ret' = ret
    BY <1>n DEF call
  <2>2. ASSUME NEW u \in Threads
        PROVE  seen'[u] = seen[u]
    <3>1. SeenInv(u)
      BY DEF Inv
    <3> QED
      BY <1>n, <2>1, <3>1 DEF Look, SeenInv
  <2>3. seen' = seen
    BY <2>2 DEF Look, Inv, Typed, HistoryTyped
  <2> QED
    BY <1>n, <2>1, <2>3 DEF Set!vars
<1>b. ASSUME NEW o \in {"insert", "query", "delete"}, NEW k \in Keys, NEW label, Start(t, o, k, label)
      PROVE  Set!Next
  <2>1. Set!Invoke(t, o, k)
    BY <1>b, <1>c, <1>l DEF Start, shared, ThreadInv, Set!Invoke
  <2> QED
    BY <2>1 DEF Set!Next
<1>r. ASSUME NEW r \in {0, 1}, Return(t, r), Contents' = Contents, r \in seen[t],
             op[t] = "insert" /\ r = 1 => FALSE, op[t] = "delete" /\ r = 1 => FALSE,
             op[t] = "insert" => 1 \in seen[t], pc[t] # "idle"
      PROVE  Set!Next
  <2>1. op[t] \in {"insert", "query", "delete"}
    BY <1>r DEF LocalsTyped, ThreadInv
  <2>2. Set!Complete(t, Contents, r)
    BY <1>l, <1>r DEF Return, Set!Complete
  <2>3. Set!Insert(t) \/ Set!Query(t) \/ Set!Delete(t)
    BY <1>r, <2>1, <2>2 DEF Set!Insert, Set!Query, Set!Delete
  <2> QED
    BY <2>3 DEF Set!Next
<1>1. CASE CallInsert(t) \/ CallQuery(t) \/ CallDelete(t)
  <2>1. PICK o \in {"insert", "query", "delete"}, k \in Keys, label \in Points : Start(t, o, k, label)
    BY <1>1 DEF CallInsert, CallQuery, CallDelete, Keys, Points
  <2> QED
    BY <1>b, <2>1
<1>2. CASE InsertTable(t) \/ ChooseExpected(t) \/ ReloadCur(t) \/ ReadPtr(t)
  BY <1>2, <1>c, <1>n DEF InsertTable, ChooseExpected, ReloadCur, ReadPtr
<1>3. CASE addDrop(t) \/ AdvanceCur(t)
  <2>1. UNCHANGED call /\ Contents' = Contents
    BY <1>3, <1>c, TablesAddDrop, TablesAdvance DEF addDrop, AdvanceCur
  <2> QED
    BY <1>n, <2>1
<1>4. CASE lookup(t)
  <2>1. Contents' = Contents /\ pc[t] = "lookup"
    BY <1>4, <1>c DEF lookup
  <2>2. CASE UNCHANGED call
    BY <1>n, <2>1, <2>2
  <2>3. CASE Live(Probed(t), key[t]) /\ Return(t, 0)
    <3>1. 1 \in seen[t] /\ op[t] = "insert"
      BY <1>s, <2>1, <2>3, FoundIn DEF Live, ThreadInv, InsertPoints, ProbePoints
    <3>2. Set!Insert(t)
      BY <1>l, <2>1, <2>3, <3>1 DEF Return, Set!Insert, Set!Complete
    <3> QED
      BY <3>2 DEF Set!Next
  <2> QED
    BY <1>4, <2>2, <2>3 DEF lookup, NextAttempt
<1>5. CASE ClaimSlot(t)
  <2>1. CASE Swaps(t, [ent |-> ent[t], bool |-> 0])
    <3>1. Claims(t) /\ op[t] = "insert" /\ Return(t, 1)
      <4>1. [ent |-> ent[t], bool |-> 0] \in Pointers /\ pc[t] \in ProbePoints
        BY <1>5, PointerFacts DEF ClaimSlot, ThreadInv, InsertPoints, ProbePoints
      <4> QED
        BY <1>5, <2>1, <4>1, SwapsWrites DEF Claims, ClaimSlot, Swaps, ThreadInv, InsertPoints
    <3>2. Set!Insert(t)
      BY <1>c, <1>l, <3>1 DEF Return, Set!Insert, Set!Complete
    <3> QED
      BY <3>2 DEF Set!Next
  <2> QED
    BY <1>5, <1>c, <1>n, <2>1 DEF ClaimSlot
<1>6. CASE RecheckSlot(t)
  <2>1. Contents' = Contents /\ pc[t] = "recheck"
    BY <1>6, <1>c DEF RecheckSlot
  <2>2. CASE UNCHANGED call
    BY <1>n, <2>1, <2>2
  <2>3. CASE HasKey(Probed(t), key[t]) /\ Return(t, 0)
    <3>1. 1 \in seen[t] /\ op[t] = "insert"
      BY <2>1, <2>3 DEF SeenInv, ThreadInv, InsertPoints
    <3>2. Set!Insert(t)
      BY <1>l, <2>1, <2>3, <3>1 DEF Return, Set!Insert, Set!Complete
    <3> QED
      BY <3>2 DEF Set!Next
  <2> QED
    BY <1>6, <2>2, <2>3 DEF RecheckSlot, NextAttempt
<1>7. CASE QueryTable(t)
  <2>1. Contents' = Contents /\ pc[t] = "qtable" /\ op[t] \in {"query", "delete"}
    BY <1>7, <1>c DEF QueryTable, ThreadInv, InsertPoints, LocalsTyped
  <2>2. PICK limit \in {cur} \cup (IF op[t] = "query" THEN {LocalCur[t]} ELSE {}) :
          IF j[t] < limit
            THEN Goto(t, "qlookup") /\ UNCHANGED <<call, locals>>
            ELSE Return(t, 0)
    BY <1>7 DEF QueryTable
  <2>3. CASE j[t] < limit
    BY <1>n, <2>1, <2>2, <2>3
  <2>4. CASE ~(j[t] < limit)
    <3>1. 0 \in seen[t]
      <4>1. CASE limit = cur
        BY <1>s, <2>1, <2>4, <4>1, RunOut
      <4>2. CASE op[t] = "query" /\ limit = LocalCur[t]
        <5> SUFFICES ASSUME 0 \notin seen[t]
                     PROVE  FALSE
          OBVIOUS
        <5>1. PICK jj \in DOMAIN TableArray :
                jj < LocalCur[t] /\ \E s \in Slots(jj) : HasKey(At(jj, s), key[t])
          BY <4>2 DEF SeenInv
        <5>2. PICK s \in Slots(jj) : HasKey(At(jj, s), key[t])
          BY <5>1
        <5>3. PICK n \in Attempts : Bucket(key[t], n, jj) = s
          BY <5>2 DEF Inv, OnPath, HasKey
        <5>4. HasKey(Slot(key[t], n, jj), key[t])
          BY <5>2, <5>3 DEF Slot, At
        <5>5. jj < j[t]
          BY <2>4, <4>2, <5>1 DEF TablesTyped, LocalsTyped
        <5>6. PassedBelow(key[t], j[t])
          BY <2>1 DEF ThreadInv
        <5> QED
          BY <5>4, <5>5, <5>6 DEF PassedBelow, PassedBy
      <4> QED
        BY <4>1, <4>2
    <3> QED
      BY <1>r, <2>1, <2>2, <2>4, <3>1
  <2> QED
    BY <2>3, <2>4
<1>8. CASE lookupQuery(t)
  <2>1. /\ Contents' = Contents /\ pc[t] = "qlookup" /\ op[t] \in {"query", "delete"}
        /\ pc[t] \in ProbePoints
    BY <1>8, <1>c DEF lookupQuery, ThreadInv, InsertPoints, LocalsTyped, ProbePoints
  <2>2. CASE UNCHANGED call
    BY <1>n, <2>1, <2>2
  <2>3. CASE (Probed(t) = Null \/ Deleted(Probed(t), key[t])) /\ Return(t, 0)
    <3>1. key[t] \notin Contents
      BY <2>1, <2>3, NotIn, FoundIn DEF Deleted
    <3> QED
      BY <1>r, <1>s, <2>1, <2>3, <3>1
  <2>4. CASE Live(Probed(t), key[t]) /\ op[t] = "query" /\ Return(t, 1)
    <3>1. key[t] \in Contents
      BY <2>1, <2>4, FoundIn DEF Live
    <3> QED
      BY <1>r, <1>s, <2>1, <2>4, <3>1
  <2> QED
    BY <1>8, <2>2, <2>3, <2>4 DEF lookupQuery, NextAttempt
<1>9. CASE setPtr(t)
  <2>1. pc[t] = "mark" /\ op[t] = "delete" /\ pc[t] \in ProbePoints
    BY <1>9 DEF setPtr, ThreadInv, ProbePoints
  <2>2. CASE Swaps(t, Marked(expected[t]))
    <3>1. Marked(expected[t]) \in Pointers
      BY <2>1, PointerFacts DEF ThreadInv, LocalsTyped
    <3>2. Marks(t) /\ Return(t, 1)
      BY <2>1, <2>2, <3>1, SwapsWrites DEF Marks, Swaps
    <3>3. Set!Delete(t)
      BY <1>c, <1>l, <2>1, <3>2 DEF Return, Set!Delete, Set!Complete
    <3> QED
      BY <3>3 DEF Set!Next
  <2>3. CASE Probed(t) # expected[t] /\ Return(t, 0) /\ UNCHANGED shared
    <3>1. 0 \in seen[t]
      BY <2>1, <2>3 DEF SeenInv
    <3> QED
      BY <1>c, <1>r, <2>1, <2>3, <3>1
  <2> QED
    BY <1>9, <2>2, <2>3 DEF setPtr
<1> QED
  BY <1>1, <1>2, <1>3, <1>4, <1>5, <1>6, <1>7, <1>8, <1>9 DEF ThreadStep, Step

\* hashtable_delete.c is a linearizable set for any threads, keys and hash function,
\* up to the first insert that replaces the marked entry of another key.
THEOREM Linearizability ==
  PlacesFit /\ Spec => LinearizableUntilOverwritten
<1>1. Init => Set!Init
  <2> SUFFICES ASSUME Init
               PROVE  Set!Init
    OBVIOUS
  <2>1. Contents = {}
    BY HashtableDeleteAssumption
    DEF Init, createTable, Contents, Live, HasKey, At, Slots
  <2> QED
    BY <2>1 DEF Init, Set!Init
<1>2. Inv /\ [Next]_vars => [overwritten' \/ Set!Next]_(Set!vars)
  <2> SUFFICES ASSUME Inv, [Next]_vars
               PROVE  [overwritten' \/ Set!Next]_(Set!vars)
    OBVIOUS
  <2>1. CASE UNCHANGED vars
    BY <2>1 DEF vars, Set!vars, Contents, At, Slots
  <2>2. CASE Next
    <3>1. PICK t \in Threads : ThreadStep(t) /\ Look
      BY <2>2 DEF Next, ThreadStep
    <3>2. CASE ~overwritten'
      BY <3>1, <3>2, StepImplements
    <3> QED
      BY <3>2
  <2> QED
    BY <2>1, <2>2
<1> QED
  BY <1>1, <1>2, Invariance, PTL DEF Spec, LinearizableUntilOverwritten
=============================================================================
