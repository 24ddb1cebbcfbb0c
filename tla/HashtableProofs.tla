--------------------------- MODULE HashtableProofs ---------------------------
(***************************************************************************)
(* Proofs about Hashtable, for any set of threads, any keys, any number of *)
(* probes, any initial size, and any choice of slots that stays inside the *)
(* subtables (PlacesFit), as the remainders of any hash function do.       *)
(***************************************************************************)
EXTENDS Hashtable, FiniteSetTheorems, TLAPS

InsertPoints == {"table", "lookup", "claim", "recheck", "reload", "grow", "advance"}
QueryPoints == {"qtable", "qlookup"}

\* What thread t has established by the time it is where it is.
ThreadInv(t) ==
  /\ pc[t] = "idle" <=> op[t] = "none"
  /\ pc[t] \in InsertPoints <=> op[t] = "insert"
  /\ pc[t] # "idle" => key[t] \in Keys
  /\ pc[t] = "idle" => j[t] = 0
  /\ j[t] <= cur
  /\ pc[t] # "idle" => LocalCur[t] <= cur
  /\ pc[t] \in InsertPoints => j[t] <= LocalCur[t] /\ 1 <= LocalCur[t]
  /\ pc[t] \in {"lookup", "claim", "recheck", "reload", "qlookup"} => j[t] < cur
  /\ pc[t] \in {"idle", "table", "reload", "grow", "advance", "qtable"} => i[t] = 0
  /\ pc[t] # "idle" => PassedBelow(key[t], j[t])
  /\ pc[t] \in {"lookup", "claim", "recheck", "qlookup"} => Passed(key[t], j[t], i[t])
  /\ pc[t] = "recheck" => Probed(t) # NULL
  /\ pc[t] = "reload" => PassedBelow(key[t], j[t] + 1)
  /\ pc[t] \in {"grow", "advance"} => j[t] = LocalCur[t]
  /\ pc[t] = "advance" => LocalCur[t] \in DOMAIN TableArray

\* What t's history says.  A query that has never seen its key missing finds it
\* below the head->cur it started with.
SeenInv(t) ==
  /\ op[t] = "none" => seen[t] = {}
  /\ op[t] # "none" => (IF key[t] \in Contents THEN 1 ELSE 0) \in seen[t]
  /\ pc[t] \in QueryPoints /\ 0 \notin seen[t] =>
       \E jj \in DOMAIN TableArray : jj < LocalCur[t] /\ \E s \in Slots(jj) : Holds(jj, s, key[t])

\* The subtable that head->cur does not count yet is still empty.
NewestEmpty ==
  /\ 1 <= cur
  /\ cur \in DOMAIN TableArray => \A s \in Slots(cur) : Holds(cur, s, NULL)

\* The inductive invariant.
IInv ==
  /\ PlacesFit
  /\ TypeOK
  /\ SubtablesInOrder
  /\ NewestEmpty
  /\ FirstNullBucket
  /\ \A t \in Threads : ThreadInv(t) /\ SeenInv(t)

\* The remainder by the size of a subtable is a slot of it, whatever the hash
\* function of hashtable.c.
LEMMA RemaindersFit ==
  ASSUME NEW Hash \in [Keys -> [Attempts -> Nat]], Place = Remainders(Hash)
  PROVE  PlacesFit
<1>1. \A x \in Nat, y \in Nat \ {0} : x % y \in 0 .. y - 1
  OBVIOUS
<1> SUFFICES ASSUME NEW k \in Keys, NEW n \in Attempts, NEW size \in Nat \ {0}
             PROVE  Place[k][n][size] \in 0 .. size - 1
  BY DEF PlacesFit
<1>2. Place[k][n][size] = Hash[k][n] % size
  BY DEF Remainders
<1> QED
  BY <1>1, <1>2

\* A probe always looks inside its subtable.
LEMMA BucketInRange ==
  ASSUME PlacesFit, TypeOK, NEW k \in Keys, NEW n \in Attempts, NEW jj \in DOMAIN TableArray
  PROVE  Bucket(k, n, jj) \in Slots(jj)
<1>1. TableArray[jj].TableSize \in Nat \ {0} /\ TableArray[jj].TableSize % InitSize = 0
  BY DEF TypeOK, TablesTyped, IsSubTable
<1> QED
  BY <1>1 DEF Bucket, Slots, PlacesFit

\* Doubling keeps the size of a subtable a multiple of the first one's.
LEMMA TwiceWhole ==
  ASSUME NEW x \in Nat, NEW n \in Nat \ {0}, x % n = 0
  PROVE  (2 * x) % n = 0
<1>1. PICK q \in Nat : x = n * q
  <2> WITNESS x \div n \in Nat
  <2> QED
    OBVIOUS
<1>2. 2 * q \in Nat /\ 2 * x = n * (2 * q)
  BY <1>1
<1>3. \A y \in Nat : (n * y) % n = 0
  OBVIOUS
<1> QED
  BY <1>2, <1>3

\* What every step does to the shared memory: it adds subtables behind
\* head->cur and fills NULL slots, and changes nothing else.
Grows ==
  /\ cur <= cur'
  /\ \A jj \in DOMAIN TableArray :
       /\ jj \in DOMAIN TableArray'
       /\ TableArray'[jj].TableSize = TableArray[jj].TableSize
       /\ \A s \in Slots(jj) :
            \/ Holds(jj, s, NULL)
            \/ TableArray'[jj].InnerTable[s] = TableArray[jj].InnerTable[s]
  /\ \A jj \in DOMAIN TableArray' : jj \in DOMAIN TableArray \/ jj >= cur

\* A taken slot keeps its key, and every probe keeps its slot.
LEMMA SlotStable ==
  ASSUME PlacesFit, TypeOK, Grows, NEW k \in Keys, NEW n \in Attempts, NEW jj \in DOMAIN TableArray
  PROVE  /\ jj \in DOMAIN TableArray'
         /\ Bucket(k, n, jj)' = Bucket(k, n, jj)
         /\ Slot(k, n, jj) # NULL => Slot(k, n, jj)' = Slot(k, n, jj)
<1>1. Bucket(k, n, jj) \in Slots(jj)
  BY BucketInRange
<1>2. jj \in DOMAIN TableArray' /\ Bucket(k, n, jj)' = Bucket(k, n, jj)
  BY DEF Grows, Bucket
<1> QED
  BY <1>1, <1>2 DEF Grows, Slot, Holds

\* What a thread has found taken below subtable jj stays taken.
LEMMA PassedBelowStable ==
  ASSUME PlacesFit, TypeOK, Grows, NEW k \in Keys, NEW jj \in Nat, jj <= cur, TablesTyped',
         PassedBelow(k, jj)
  PROVE  PassedBelow(k, jj)'
<1> SUFFICES ASSUME NEW j2 \in DOMAIN TableArray', NEW m \in Attempts, j2 < jj
             PROVE  Slot(k, m, j2)' \notin {NULL, k}
  BY DEF PassedBelow
<1>1. j2 \in Nat /\ cur \in Nat
  BY DEF TypeOK, TablesTyped
<1>2. j2 \in DOMAIN TableArray
  BY <1>1 DEF Grows
<1>3. Slot(k, m, j2) \notin {NULL, k}
  BY <1>2 DEF PassedBelow
<1> QED
  BY <1>2, <1>3, SlotStable

\* A slot once passed on the way to a key stays passed: its bucket never becomes
\* empty or turns into the key again (the buckets of hashtable.c are written once).
LEMMA PassedStable ==
  ASSUME PlacesFit, TypeOK, Grows, NEW k \in Keys, NEW jj \in DOMAIN TableArray, jj <= cur, TablesTyped',
         NEW n \in Attempts, Passed(k, jj, n)
  PROVE  Passed(k, jj, n)'
<1>1. jj \in Nat
  BY DEF TypeOK, TablesTyped
<1>2. PassedBelow(k, jj)'
  BY <1>1, PassedBelowStable DEF Passed
<1>3. ASSUME NEW m \in Attempts, m < n
      PROVE  Slot(k, m, jj)' \notin {NULL, k}
  <2>1. Slot(k, m, jj) \notin {NULL, k}
    BY <1>3 DEF Passed
  <2> QED
    BY <2>1, SlotStable
<1> QED
  BY <1>2, <1>3 DEF Passed

\* The two ways in which a thread goes on after a probe keep its locals typed.
LEMMA ReturnTyped ==
  ASSUME LocalsTyped, NEW t \in Threads, NEW r \in {0, 1}, Return(t, r)
  PROVE  LocalsTyped'
BY HashtableAssumption DEF LocalsTyped, Return, Goto, Entries, Points, Attempts

\* NextAttempt, the step of the probe loop, leaves a thread's locals typed.
LEMMA NextAttemptTyped ==
  ASSUME LocalsTyped, NEW t \in Threads, NEW again \in Points, NEW after \in Points,
         NEW jj \in Nat, NextAttempt(t, again, after, jj)
  PROVE  LocalsTyped'
<1>1. i[t] \in Attempts /\ HashAttempts \in Nat \ {0}
  BY HashtableAssumption DEF LocalsTyped
<1>2. CASE i[t] + 1 < HashAttempts
  <2>1. i[t] + 1 \in Attempts
    BY <1>1, <1>2 DEF Attempts
  <2> QED
    BY <1>2, <2>1 DEF LocalsTyped, NextAttempt, Goto, call
<1>3. CASE ~(i[t] + 1 < HashAttempts)
  <2>1. 0 \in Attempts
    BY <1>1 DEF Attempts
  <2> QED
    BY <1>3, <2>1 DEF LocalsTyped, NextAttempt, Goto, call
<1> QED
  BY <1>2, <1>3

\* Every step keeps the locals typed.
LEMMA LocalsStep ==
  ASSUME TypeOK, NEW t \in Threads, ThreadStep(t)
  PROVE  LocalsTyped'
<1> USE HashtableAssumption DEF Points
<1>0. TablesTyped /\ LocalsTyped
  BY DEF TypeOK
<1>t. j[t] \in Nat /\ i[t] \in Attempts /\ LocalCur[t] \in Nat /\ cur \in Nat /\ 0 \in Attempts
  BY <1>0 DEF TablesTyped, LocalsTyped, Attempts
<1>1. CASE CallInsert(t)
  <2>1. PICK k \in Keys : key' = [key EXCEPT ![t] = k]
    BY <1>1 DEF CallInsert
  <2> QED
    BY <1>0, <1>1, <1>t, <2>1 DEF LocalsTyped, CallInsert, Goto, Entries
<1>2. CASE CallQuery(t)
  <2>1. PICK k \in Keys : key' = [key EXCEPT ![t] = k]
    BY <1>2 DEF CallQuery
  <2> QED
    BY <1>0, <1>2, <1>t, <2>1 DEF LocalsTyped, CallQuery, Goto, Entries
<1>3. CASE InsertTable(t)
  BY <1>0, <1>3 DEF LocalsTyped, InsertTable, Goto, call, locals
<1>4. CASE lookup(t)
  <2>1. CASE Probed(t) = NULL /\ Goto(t, "claim") /\ UNCHANGED <<call, locals>>
    BY <1>0, <2>1 DEF LocalsTyped, Goto, call, locals
  <2>2. CASE Return(t, 0)
    BY <1>0, <2>2, ReturnTyped
  <2>3. CASE NextAttempt(t, "lookup", "reload", j[t])
    BY <1>0, <1>t, <2>3, NextAttemptTyped
  <2> QED
    BY <1>4, <2>1, <2>2, <2>3 DEF lookup
<1>5. CASE ClaimSlot(t)
  <2>1. CASE Return(t, 1)
    BY <1>0, <2>1, ReturnTyped
  <2>2. CASE Goto(t, "recheck") /\ UNCHANGED <<TableArray, call, locals>>
    BY <1>0, <2>2 DEF LocalsTyped, Goto, call, locals
  <2> QED
    BY <1>5, <2>1, <2>2 DEF ClaimSlot
<1>6. CASE RecheckSlot(t)
  <2>1. CASE Return(t, 0)
    BY <1>0, <2>1, ReturnTyped
  <2>2. CASE NextAttempt(t, "lookup", "reload", j[t])
    BY <1>0, <1>t, <2>2, NextAttemptTyped
  <2> QED
    BY <1>6, <2>1, <2>2 DEF RecheckSlot
<1>7. CASE ReloadCur(t)
  BY <1>0, <1>t, <1>7 DEF LocalsTyped, ReloadCur, Goto, call
<1>8. CASE addDrop(t)
  BY <1>0, <1>8 DEF LocalsTyped, addDrop, Goto, call, locals
<1>9. CASE AdvanceCur(t)
  BY <1>0, <1>t, <1>9 DEF LocalsTyped, AdvanceCur, Goto, call
<1>10. CASE QueryTable(t)
  <2>1. CASE Goto(t, "qlookup") /\ UNCHANGED <<call, locals>>
    BY <1>0, <2>1 DEF LocalsTyped, Goto, call, locals
  <2>2. CASE Return(t, 0)
    BY <1>0, <2>2, ReturnTyped
  <2> QED
    BY <1>10, <2>1, <2>2 DEF QueryTable
<1>11. CASE lookupQuery(t)
  <2>1. CASE Return(t, 0) \/ Return(t, 1)
    BY <1>0, <2>1, ReturnTyped
  <2>2. CASE NextAttempt(t, "qlookup", "qtable", j[t] + 1)
    BY <1>0, <1>t, <2>2, NextAttemptTyped
  <2> QED
    BY <1>11, <2>1, <2>2 DEF lookupQuery
<1> QED
  BY <1>1, <1>2, <1>3, <1>4, <1>5, <1>6, <1>7, <1>8, <1>9, <1>10, <1>11 DEF ThreadStep, Step

Tables == TablesTyped' /\ Grows /\ SubtablesInOrder' /\ NewestEmpty'

\* A step that leaves the shared memory alone.
LEMMA TablesUnchanged ==
  ASSUME IInv, UNCHANGED shared
  PROVE  Tables
<1> PlacesFit /\ TypeOK /\ SubtablesInOrder /\ NewestEmpty
  BY DEF IInv
<1>1. TableArray' = TableArray /\ cur' = cur /\ cur \in Nat
  BY DEF shared, TypeOK, TablesTyped
<1>2. TablesTyped'
  BY <1>1 DEF TypeOK, TablesTyped
<1>3. Grows
  BY <1>1 DEF Grows
<1>4. SubtablesInOrder' /\ NewestEmpty'
  BY <1>1 DEF SubtablesInOrder, NewestEmpty, Holds, Slots
<1> QED
  BY <1>2, <1>3, <1>4 DEF Tables

\* Claiming a slot.
LEMMA TablesClaim ==
  ASSUME IInv, NEW t \in Threads, ClaimSlot(t)
  PROVE  Tables
<1> DEFINE b == Bucket(key[t], i[t], j[t])
<1> PlacesFit /\ TypeOK /\ SubtablesInOrder /\ NewestEmpty /\ ThreadInv(t)
  BY DEF IInv
<1>1. CASE Probed(t) # NULL
  BY <1>1, TablesUnchanged DEF ClaimSlot, shared
<1>2. CASE Probed(t) = NULL
  <2>1. /\ key[t] \in Keys /\ i[t] \in Attempts /\ cur \in Nat /\ j[t] \in Nat
        /\ j[t] \in DOMAIN TableArray /\ j[t] < cur
    BY DEF ThreadInv, ClaimSlot, SubtablesInOrder, TypeOK, TablesTyped, LocalsTyped
  <2>2. TableArray' = [TableArray EXCEPT ![j[t]].InnerTable[b] = key[t]] /\ cur' = cur
    BY <1>2 DEF ClaimSlot
  <2>3. b \in Slots(j[t]) /\ Holds(j[t], b, NULL)
    BY <1>2, <2>1, BucketInRange DEF Probed, Slot, Holds
  <2> HIDE DEF b
  <2>4. DOMAIN TableArray' = DOMAIN TableArray
    BY <2>2
  <2>5. \A jj \in DOMAIN TableArray : jj # j[t] => TableArray'[jj] = TableArray[jj]
    BY <2>2
  <2>6. TableArray'[j[t]] = [TableArray[j[t]] EXCEPT !.InnerTable[b] = key[t]]
    BY <2>1, <2>2
  <2>7. IsSubTable(TableArray[j[t]])
    BY <2>1 DEF TypeOK, TablesTyped
  <2>8. /\ IsSubTable(TableArray'[j[t]])
        /\ TableArray'[j[t]].TableSize = TableArray[j[t]].TableSize
        /\ \A s \in Slots(j[t]) : s # b =>
             TableArray'[j[t]].InnerTable[s] = TableArray[j[t]].InnerTable[s]
    <3>1. TableArray[j[t]] = [TableSize |-> TableArray[j[t]].TableSize,
                              InnerTable |-> TableArray[j[t]].InnerTable]
      BY <2>7 DEF IsSubTable
    <3>2. TableArray'[j[t]] = [TableSize |-> TableArray[j[t]].TableSize,
                               InnerTable |-> [TableArray[j[t]].InnerTable EXCEPT ![b] = key[t]]]
      BY <2>6, <3>1
    <3> QED
      BY <2>1, <2>3, <2>7, <3>2 DEF IsSubTable, Slots, Entries
  <2>9. TablesTyped'
    BY <2>2, <2>4, <2>5, <2>8 DEF TypeOK, TablesTyped
  <2>10. Grows
    BY <2>1, <2>2, <2>3, <2>4, <2>5, <2>8 DEF Grows, Holds
  <2>11. SubtablesInOrder'
    BY <2>1, <2>2, <2>4, <2>5, <2>8 DEF SubtablesInOrder
  <2>12. NewestEmpty'
    BY <2>1, <2>2, <2>4, <2>5 DEF NewestEmpty, Holds, Slots
  <2> QED
    BY <2>9, <2>10, <2>11, <2>12 DEF Tables
<1> QED
  BY <1>1, <1>2

\* Publishing a subtable.
LEMMA TablesAddDrop ==
  ASSUME IInv, NEW t \in Threads, addDrop(t)
  PROVE  Tables
<1> DEFINE new == createTable(2 * TableArray[LocalCur[t] - 1].TableSize)
<1> PlacesFit /\ TypeOK /\ SubtablesInOrder /\ NewestEmpty /\ ThreadInv(t)
  BY DEF IInv
<1>1. CASE LocalCur[t] \in DOMAIN TableArray
  BY <1>1, TablesUnchanged DEF addDrop, shared
<1>2. CASE LocalCur[t] \notin DOMAIN TableArray
  <2>1. cur \in Nat /\ LocalCur[t] \in Nat /\ 1 <= LocalCur[t] /\ LocalCur[t] <= cur
    BY DEF ThreadInv, addDrop, InsertPoints, TypeOK, TablesTyped, LocalsTyped
  <2>2. LocalCur[t] = cur /\ DOMAIN TableArray = 0 .. cur - 1
    BY <1>2, <2>1 DEF SubtablesInOrder
  <2>3. /\ cur' = cur
        /\ DOMAIN TableArray' = 0 .. cur
        /\ TableArray'[cur] = new
        /\ \A jj \in 0 .. cur - 1 : TableArray'[jj] = TableArray[jj]
    <3>1. /\ cur' = cur
          /\ TableArray' = [jj \in (0 .. cur - 1) \cup {cur} |->
                              IF jj = cur THEN new ELSE TableArray[jj]]
      BY <1>2, <2>2 DEF addDrop
    <3>2. (0 .. cur - 1) \cup {cur} = 0 .. cur
      BY <2>1
    <3> HIDE DEF new
    <3> QED
      BY <2>1, <3>1, <3>2
  <2>4. IsSubTable(TableArray[cur - 1])
    BY <2>1, <2>2 DEF TypeOK, TablesTyped
  <2>5. /\ IsSubTable(new)
        /\ new.TableSize = 2 * TableArray[cur - 1].TableSize
        /\ \A s \in 0 .. new.TableSize - 1 : new.InnerTable[s] = NULL
    <3> DEFINE size == TableArray[cur - 1].TableSize
    <3>1. size \in Nat \ {0} /\ size % InitSize = 0 /\ new = createTable(2 * size)
      BY <2>2, <2>4 DEF IsSubTable
    <3> HIDE DEF size, new
    <3>2. (2 * size) % InitSize = 0
      BY <3>1, HashtableAssumption, TwiceWhole
    <3> QED
      BY <3>1, <3>2 DEF IsSubTable, createTable, Entries, size
  <2> HIDE DEF new
  <2>6. TablesTyped'
    BY <2>1, <2>2, <2>3, <2>5 DEF TypeOK, TablesTyped
  <2>7. Grows
    BY <2>1, <2>2, <2>3 DEF Grows
  <2>8. SubtablesInOrder'
    BY <2>1, <2>2, <2>3, <2>5 DEF SubtablesInOrder
  <2>9. NewestEmpty'
    BY <2>1, <2>3, <2>5 DEF NewestEmpty, Holds, Slots
  <2> QED
    BY <2>6, <2>7, <2>8, <2>9 DEF Tables
<1> QED
  BY <1>1, <1>2

\* Moving head->cur on.
LEMMA TablesAdvance ==
  ASSUME IInv, NEW t \in Threads, AdvanceCur(t)
  PROVE  Tables
<1> PlacesFit /\ TypeOK /\ SubtablesInOrder /\ NewestEmpty /\ ThreadInv(t)
  BY DEF IInv
<1>1. CASE cur # LocalCur[t]
  BY <1>1, TablesUnchanged DEF AdvanceCur, shared
<1>2. CASE cur = LocalCur[t]
  <2>1. cur \in Nat /\ 1 <= cur /\ cur' = cur + 1 /\ TableArray' = TableArray
    BY <1>2 DEF AdvanceCur, NewestEmpty, TypeOK, TablesTyped
  <2>2. DOMAIN TableArray = 0 .. cur
    BY <1>2, <2>1 DEF AdvanceCur, ThreadInv, SubtablesInOrder
  <2>3. TablesTyped'
    BY <2>1 DEF TypeOK, TablesTyped
  <2>4. Grows
    BY <2>1 DEF Grows
  <2>5. SubtablesInOrder'
    BY <2>1, <2>2 DEF SubtablesInOrder
  <2>6. NewestEmpty'
    BY <2>1, <2>2 DEF NewestEmpty
  <2> QED
    BY <2>3, <2>4, <2>5, <2>6 DEF Tables
<1> QED
  BY <1>1, <1>2

\* Every step of a thread keeps what holds of the array of subtables: the cases of
\* Next, put together.
LEMMA TablesStep ==
  ASSUME IInv, NEW t \in Threads, ThreadStep(t)
  PROVE  Tables
<1>1. CASE ClaimSlot(t)
  BY <1>1, TablesClaim
<1>2. CASE addDrop(t)
  BY <1>2, TablesAddDrop
<1>3. CASE AdvanceCur(t)
  BY <1>3, TablesAdvance
<1>4. CASE UNCHANGED shared
  BY <1>4, TablesUnchanged
<1> QED
  BY <1>1, <1>2, <1>3, <1>4
  DEF ThreadStep, Step, CallInsert, CallQuery, InsertTable, lookup, RecheckSlot, ReloadCur, QueryTable,
      lookupQuery, shared

\* The only way a key gets into a slot is a successful claim.
LEMMA KeyOrigin ==
  ASSUME IInv, NEW t \in Threads, ThreadStep(t),
         NEW jj \in DOMAIN TableArray', NEW s \in Slots(jj)', NEW k \in Keys, Holds(jj, s, k)'
  PROVE  \/ jj \in DOMAIN TableArray /\ s \in Slots(jj) /\ Holds(jj, s, k)
         \/ /\ ClaimSlot(t) /\ Probed(t) = NULL
            /\ k = key[t] /\ jj = j[t] /\ s = Bucket(key[t], i[t], j[t])
<1> Grows /\ NewestEmpty' /\ SubtablesInOrder'
  BY TablesStep DEF Tables
<1> PlacesFit /\ TypeOK /\ SubtablesInOrder /\ cur \in Nat
  BY DEF IInv, TypeOK, TablesTyped
<1>1. CASE ClaimSlot(t) /\ Probed(t) = NULL
  <2> DEFINE b == Bucket(key[t], i[t], j[t])
  <2>1. TableArray' = [TableArray EXCEPT ![j[t]].InnerTable[b] = key[t]]
    BY <1>1 DEF ClaimSlot
  <2>2. jj \in DOMAIN TableArray /\ s \in Slots(jj)
    BY <2>1 DEF Slots, Grows
  <2>3. CASE jj = j[t] /\ s = b
    <3>1. key[t] \in Keys /\ i[t] \in Attempts
      BY <1>1 DEF IInv, ThreadInv, ClaimSlot, TypeOK, LocalsTyped
    <3>2. b \in Slots(j[t])
      BY <2>2, <2>3
    <3>3. IsSubTable(TableArray[jj])
      BY <2>2 DEF TypeOK, TablesTyped
    <3> HIDE DEF b
    <3>4. TableArray'[jj].InnerTable = [TableArray[jj].InnerTable EXCEPT ![b] = key[t]]
      <4>1. TableArray[jj] = [TableSize |-> TableArray[jj].TableSize,
                              InnerTable |-> TableArray[jj].InnerTable]
        BY <3>3 DEF IsSubTable
      <4>2. TableArray'[jj] = [TableArray[jj] EXCEPT !.InnerTable[b] = key[t]]
        BY <2>1, <2>2, <2>3
      <4> QED
        BY <4>1, <4>2
    <3>5. k = key[t]
      BY <2>2, <2>3, <3>2, <3>3, <3>4 DEF Holds, IsSubTable, Slots
    <3> QED
      BY <1>1, <2>3, <3>5 DEF b
  <2>4. CASE ~(jj = j[t] /\ s = b)
    <3> HIDE DEF b
    <3>1. CASE jj # j[t]
      BY <2>1, <2>2, <3>1 DEF Holds
    <3>2. CASE jj = j[t] /\ s # b
      <4>1. IsSubTable(TableArray[jj])
        BY <2>2 DEF TypeOK, TablesTyped
      <4>2. TableArray[jj] = [TableSize |-> TableArray[jj].TableSize,
                              InnerTable |-> TableArray[jj].InnerTable]
        BY <4>1 DEF IsSubTable
      <4>3. TableArray'[jj] = [TableArray[jj] EXCEPT !.InnerTable[b] = key[t]]
        BY <2>1, <2>2, <3>2
      <4>4. TableArray'[jj].InnerTable = [TableArray[jj].InnerTable EXCEPT ![b] = key[t]]
        BY <4>2, <4>3
      <4> QED
        BY <2>2, <3>2, <4>1, <4>4 DEF Holds, IsSubTable, Slots
    <3> QED
      BY <2>4, <3>1, <3>2
  <2> QED
    BY <2>3, <2>4
<1>2. CASE addDrop(t)
  <2>1. CASE jj \in DOMAIN TableArray
    <3>1. TableArray'[jj] = TableArray[jj]
      <4>1. CASE LocalCur[t] \in DOMAIN TableArray
        BY <1>2, <4>1 DEF addDrop
      <4>2. CASE LocalCur[t] \notin DOMAIN TableArray
        BY <1>2, <2>1, <4>2 DEF addDrop
      <4> QED
        BY <4>1, <4>2
    <3> QED
      BY <2>1, <3>1 DEF Holds, Slots
  <2>2. CASE jj \notin DOMAIN TableArray
    <3>1. cur' = cur /\ jj = cur
      BY <1>2, <2>2 DEF addDrop, SubtablesInOrder
    <3>2. Holds(jj, s, NULL)'
      BY <3>1 DEF NewestEmpty, Holds, Slots
    <3> QED
      BY <3>2, HashtableAssumption DEF Holds
  <2> QED
    BY <2>1, <2>2
<1>3. CASE TableArray' = TableArray
  BY <1>3 DEF Holds, Slots
<1> QED
  BY <1>1, <1>2, <1>3
  DEF ThreadStep, Step, CallInsert, CallQuery, InsertTable, lookup, RecheckSlot, ReloadCur, QueryTable,
      lookupQuery, AdvanceCur, ClaimSlot, shared

\* A key goes into the first NULL slot of its path, and that stays so.
LEMMA FirstNullBucketStep ==
  ASSUME IInv, NEW t \in Threads, ThreadStep(t)
  PROVE  FirstNullBucket'
<1> Grows /\ TablesTyped' /\ LocalsTyped'
  BY TablesStep, LocalsStep DEF Tables, IInv
<1> PlacesFit /\ TypeOK /\ SubtablesInOrder /\ cur \in Nat /\ FirstNullBucket
  BY DEF IInv, TypeOK, TablesTyped
<1> SUFFICES ASSUME NEW jj \in DOMAIN TableArray', NEW s \in Slots(jj)', NEW k \in Keys,
                    Holds(jj, s, k)'
             PROVE  \E n \in Attempts : Bucket(k, n, jj)' = s /\ Passed(k, jj, n)'
  BY DEF FirstNullBucket
<1>1. CASE jj \in DOMAIN TableArray /\ s \in Slots(jj) /\ Holds(jj, s, k)
  <2>1. PICK n \in Attempts : Bucket(k, n, jj) = s /\ Passed(k, jj, n)
    BY <1>1 DEF FirstNullBucket
  <2>2. jj <= cur
    BY <1>1 DEF SubtablesInOrder
  <2> QED
    BY <1>1, <2>1, <2>2, SlotStable, PassedStable
<1>2. CASE /\ ClaimSlot(t) /\ Probed(t) = NULL
           /\ k = key[t] /\ jj = j[t] /\ s = Bucket(key[t], i[t], j[t])
  <2>1. i[t] \in Attempts /\ j[t] < cur /\ Passed(key[t], j[t], i[t])
    BY <1>2 DEF IInv, ThreadInv, ClaimSlot, TypeOK, LocalsTyped
  <2>2. jj \in DOMAIN TableArray /\ jj <= cur
    BY <1>2, <2>1 DEF SubtablesInOrder, TypeOK, LocalsTyped
  <2> QED
    BY <1>2, <2>1, <2>2, SlotStable, PassedStable
<1> QED
  BY <1>1, <1>2, KeyOrigin

SameLocals(u) ==
  /\ pc'[u] = pc[u] /\ op'[u] = op[u] /\ key'[u] = key[u] /\ ret'[u] = ret[u]
  /\ j'[u] = j[u] /\ i'[u] = i[u] /\ LocalCur'[u] = LocalCur[u]

\* A step of t leaves the locals of the other threads alone.
LEMMA OthersUnchanged ==
  ASSUME LocalsTyped, NEW t \in Threads, ThreadStep(t),
         NEW u \in Threads, u # t
  PROVE  SameLocals(u)
<1>1. \A r : Return(t, r) => SameLocals(u)
  BY DEF LocalsTyped, Return, Goto, SameLocals
<1>2. ASSUME NEW again, NEW after, NEW jj, NextAttempt(t, again, after, jj)
      PROVE  SameLocals(u)
  <2>1. CASE i[t] + 1 < HashAttempts
    BY <1>2, <2>1 DEF LocalsTyped, NextAttempt, Goto, call, SameLocals
  <2>2. CASE ~(i[t] + 1 < HashAttempts)
    BY <1>2, <2>2 DEF LocalsTyped, NextAttempt, Goto, call, SameLocals
  <2> QED
    BY <2>1, <2>2
<1>3. ASSUME NEW label, Goto(t, label), UNCHANGED <<call, locals>>
      PROVE  SameLocals(u)
  BY <1>3 DEF LocalsTyped, Goto, call, locals, SameLocals
<1>4. CASE CallInsert(t) \/ CallQuery(t)
  BY <1>4 DEF LocalsTyped, CallInsert, CallQuery, Goto, SameLocals
<1>5. CASE ReloadCur(t) \/ AdvanceCur(t)
  BY <1>5 DEF LocalsTyped, ReloadCur, AdvanceCur, Goto, call, SameLocals
<1>6. CASE InsertTable(t) \/ addDrop(t)
  BY <1>3, <1>6 DEF InsertTable, addDrop, call, locals
<1>7. CASE lookup(t) \/ ClaimSlot(t) \/ RecheckSlot(t)
  BY <1>1, <1>2, <1>3, <1>7 DEF lookup, ClaimSlot, RecheckSlot, call, locals
<1>8. CASE QueryTable(t) \/ lookupQuery(t)
  BY <1>1, <1>2, <1>3, <1>8 DEF QueryTable, lookupQuery, call, locals
<1> QED
  BY <1>4, <1>5, <1>6, <1>7, <1>8 DEF ThreadStep, Step

\* What a thread has established survives the steps of the others.
LEMMA ThreadInvStable ==
  ASSUME IInv, NEW t \in Threads, ThreadStep(t),
         NEW u \in Threads, u # t
  PROVE  ThreadInv(u)'
<1> Grows /\ TablesTyped' /\ LocalsTyped'
  BY TablesStep, LocalsStep DEF Tables, IInv
<1> PlacesFit /\ TypeOK /\ SubtablesInOrder /\ ThreadInv(u)
  BY DEF IInv
<1>1. /\ cur \in Nat /\ cur' \in Nat /\ cur <= cur' /\ pc[u] \in Points
      /\ j[u] \in Nat /\ LocalCur[u] \in Nat /\ i[u] \in Attempts
  BY DEF TypeOK, TablesTyped, LocalsTyped, Grows
<1>2. /\ pc'[u] = pc[u] /\ op'[u] = op[u] /\ key'[u] = key[u]
      /\ j'[u] = j[u] /\ i'[u] = i[u] /\ LocalCur'[u] = LocalCur[u]
  BY OthersUnchanged DEF TypeOK, SameLocals
<1>3. /\ j[u] <= cur
      /\ pc[u] # "idle" => key[u] \in Keys
      /\ pc[u] \in {"lookup", "claim", "recheck", "reload", "qlookup"} =>
           j[u] < cur /\ j[u] \in DOMAIN TableArray
  BY <1>1 DEF ThreadInv, SubtablesInOrder
<1>4. pc[u] # "idle" => PassedBelow(key[u], j[u])'
  <2> SUFFICES ASSUME pc[u] # "idle"
               PROVE  PassedBelow(key[u], j[u])'
    OBVIOUS
  <2>1. PassedBelow(key[u], j[u])
    BY DEF ThreadInv
  <2>2. \A kk \in Keys, n \in Nat : n <= cur /\ PassedBelow(kk, n) => PassedBelow(kk, n)'
    BY PassedBelowStable
  <2>3. PICK kk \in Keys, n \in Nat : kk = key[u] /\ n = j[u] /\ PassedBelow(kk, n)'
    BY <1>1, <1>3, <2>1, <2>2
  <2> QED
    BY <1>2, <2>3 DEF PassedBelow, Slot, Bucket
<1>5. pc[u] \in {"lookup", "claim", "recheck", "qlookup"} => Passed(key[u], j[u], i[u])'
  <2> SUFFICES ASSUME pc[u] \in {"lookup", "claim", "recheck", "qlookup"}
               PROVE  Passed(key[u], j[u], i[u])'
    OBVIOUS
  <2>1. Passed(key[u], j[u], i[u])
    BY DEF ThreadInv
  <2>2. key[u] \in Keys /\ j[u] \in DOMAIN TableArray /\ j[u] <= cur /\ i[u] \in Attempts
    BY <1>1, <1>3
  <2>3. \A kk \in Keys, jj \in DOMAIN TableArray, n \in Attempts :
          jj <= cur /\ Passed(kk, jj, n) => Passed(kk, jj, n)'
    BY PassedStable
  <2>4. PICK kk \in Keys, jj \in DOMAIN TableArray, n \in Attempts :
          kk = key[u] /\ jj = j[u] /\ n = i[u] /\ Passed(kk, jj, n)'
    BY <2>1, <2>2, <2>3
  <2> QED
    BY <1>2, <2>4 DEF Passed, PassedBelow, Slot, Bucket
<1>6. pc[u] = "reload" => PassedBelow(key[u], j[u] + 1)'
  <2> SUFFICES ASSUME pc[u] = "reload"
               PROVE  PassedBelow(key[u], j[u] + 1)'
    OBVIOUS
  <2>1. PassedBelow(key[u], j[u] + 1)
    BY DEF ThreadInv
  <2>2. key[u] \in Keys /\ j[u] + 1 \in Nat /\ j[u] + 1 <= cur
    BY <1>1, <1>3
  <2>3. \A kk \in Keys, n \in Nat : n <= cur /\ PassedBelow(kk, n) => PassedBelow(kk, n)'
    BY PassedBelowStable
  <2>4. PICK kk \in Keys, n \in Nat : kk = key[u] /\ n = j[u] + 1 /\ PassedBelow(kk, n)'
    BY <2>1, <2>2, <2>3
  <2> QED
    BY <1>2, <2>4 DEF PassedBelow, Slot, Bucket
<1>7. pc[u] = "recheck" => Probed(u)' # NULL
  <2> SUFFICES ASSUME pc[u] = "recheck"
               PROVE  Probed(u)' # NULL
    OBVIOUS
  <2>1. Slot(key[u], i[u], j[u]) # NULL
    BY DEF ThreadInv, Probed
  <2>2. PICK kk \in Keys, n \in Attempts, jj \in DOMAIN TableArray :
          kk = key[u] /\ jj = j[u] /\ n = i[u] /\ Slot(kk, n, jj) # NULL
    BY <1>1, <1>3, <2>1
  <2>3. Slot(kk, n, jj)' # NULL
    BY <2>2, SlotStable
  <2> QED
    BY <1>2, <2>2, <2>3 DEF Probed, Slot, Bucket
<1>8. pc[u] = "advance" => LocalCur'[u] \in DOMAIN TableArray'
  BY <1>2 DEF ThreadInv, Grows
<1> QED
  BY <1>1, <1>2, <1>3, <1>4, <1>5, <1>6, <1>7, <1>8 DEF ThreadInv, InsertPoints

\* A call that returns owes nothing.
LEMMA ReturnInv ==
  ASSUME TypeOK, cur' \in Nat, NEW t \in Threads, NEW r \in {0, 1}, Return(t, r)
  PROVE  ThreadInv(t)'
<1>1. pc'[t] = "idle" /\ op'[t] = "none" /\ j'[t] = 0 /\ i'[t] = 0
  BY DEF Return, Goto, TypeOK, LocalsTyped
<1> QED
  BY <1>1 DEF ThreadInv, InsertPoints

\* One more slot that is neither NULL nor the key.
LEMMA PassedNext ==
  ASSUME NEW k \in Keys, NEW jj \in Nat, NEW n \in Attempts, DOMAIN TableArray \subseteq Nat,
         Passed(k, jj, n), Slot(k, n, jj) \notin {NULL, k}
  PROVE  /\ Passed(k, jj, n + 1)
         /\ n + 1 = HashAttempts => PassedBelow(k, jj + 1)
<1>1. \A m \in Attempts : m < n + 1 => Slot(k, m, jj) \notin {NULL, k}
  BY DEF Passed, Attempts
<1>2. n + 1 = HashAttempts => PassedBelow(k, jj + 1)
  BY <1>1 DEF Passed, PassedBelow, Attempts
<1> QED
  BY <1>1, <1>2 DEF Passed

\* The next probe, after a slot that holds another key.
LEMMA NextAttemptInv ==
  ASSUME IInv, UNCHANGED shared, NEW t \in Threads, Probed(t) \notin {NULL, key[t]},
         NEW again, NEW after, NEW jj, NextAttempt(t, again, after, jj),
         \/ pc[t] \in {"lookup", "recheck"} /\ again = "lookup" /\ after = "reload" /\ jj = j[t]
         \/ pc[t] = "qlookup" /\ again = "qlookup" /\ after = "qtable" /\ jj = j[t] + 1
  PROVE  ThreadInv(t)'
<1> PlacesFit /\ TypeOK /\ ThreadInv(t)
  BY DEF IInv
<1>1. /\ cur \in Nat /\ j[t] \in Nat /\ LocalCur[t] \in Nat /\ i[t] \in Attempts
      /\ DOMAIN TableArray \subseteq Nat
      /\ key[t] \in Keys /\ j[t] < cur /\ Passed(key[t], j[t], i[t])
  BY DEF TypeOK, TablesTyped, LocalsTyped, ThreadInv
<1>2. /\ Passed(key[t], j[t], i[t] + 1)
      /\ i[t] + 1 = HashAttempts => PassedBelow(key[t], j[t] + 1)
  BY <1>1, PassedNext DEF Probed
<1>3. TableArray' = TableArray /\ cur' = cur
  BY DEF shared
<1>4. op'[t] = op[t] /\ key'[t] = key[t] /\ LocalCur'[t] = LocalCur[t]
  BY DEF NextAttempt, call
<1>5. CASE i[t] + 1 < HashAttempts
  <2>1. pc'[t] = again /\ i'[t] = i[t] + 1 /\ j'[t] = j[t]
    BY <1>5 DEF NextAttempt, Goto, TypeOK, LocalsTyped
  <2>2. Passed(key[t], j[t], i[t])'
    BY <1>2, <1>3, <1>4, <2>1 DEF Passed, PassedBelow, Slot, Bucket
  <2>3. PassedBelow(key[t], j[t])'
    BY <2>2 DEF Passed
  <2> QED
    BY <1>1, <1>3, <1>4, <2>1, <2>2, <2>3 DEF ThreadInv, InsertPoints
<1>6. CASE ~(i[t] + 1 < HashAttempts)
  <2>1. pc'[t] = after /\ i'[t] = 0 /\ j'[t] = jj
    BY <1>6 DEF NextAttempt, Goto, TypeOK, LocalsTyped
  <2>2. i[t] + 1 = HashAttempts
    BY <1>1, <1>6, HashtableAssumption DEF Attempts
  <2>3. CASE after = "reload" /\ jj = j[t]
    <3>1. PassedBelow(key[t], j[t] + 1)'
      BY <1>2, <1>3, <1>4, <2>1, <2>2, <2>3 DEF PassedBelow, Slot, Bucket
    <3>2. PassedBelow(key[t], j[t])'
      BY <1>1, <1>3, <1>4, <2>1, <2>3 DEF Passed, PassedBelow, Slot, Bucket
    <3> QED
      BY <1>1, <1>3, <1>4, <2>1, <2>3, <3>1, <3>2 DEF ThreadInv, InsertPoints
  <2>4. CASE after = "qtable" /\ jj = j[t] + 1
    <3>1. PassedBelow(key[t], j[t])'
      BY <1>2, <1>3, <1>4, <2>1, <2>2, <2>4 DEF PassedBelow, Slot, Bucket
    <3> QED
      BY <1>1, <1>3, <1>4, <2>1, <2>4, <3>1 DEF ThreadInv, InsertPoints
  <2> QED
    BY <2>3, <2>4
<1> QED
  BY <1>5, <1>6

\* Each step establishes what the thread knows afterwards.
LEMMA ThreadInvStep ==
  ASSUME IInv, NEW t \in Threads, ThreadStep(t)
  PROVE  ThreadInv(t)'
<1> PlacesFit /\ TypeOK /\ SubtablesInOrder /\ NewestEmpty /\ ThreadInv(t)
  BY DEF IInv
<1> Grows /\ TablesTyped' /\ LocalsTyped'
  BY TablesStep, LocalsStep DEF Tables, IInv
<1>t. /\ cur \in Nat /\ cur' \in Nat /\ cur <= cur' /\ 1 <= cur
      /\ j[t] \in Nat /\ LocalCur[t] \in Nat /\ i[t] \in Attempts
      /\ DOMAIN TableArray \subseteq Nat
  BY DEF TypeOK, TablesTyped, LocalsTyped, Grows, NewestEmpty
<1>1. CASE CallInsert(t)
  <2>1. /\ pc'[t] = "table" /\ op'[t] = "insert" /\ key'[t] \in Keys /\ LocalCur'[t] = cur
        /\ j'[t] = 0 /\ i'[t] = 0 /\ cur' = cur /\ TableArray' = TableArray
    BY <1>1 DEF CallInsert, Goto, shared, ThreadInv, TypeOK, LocalsTyped
  <2>2. PassedBelow(key[t], j[t])'
    BY <1>t, <2>1 DEF PassedBelow
  <2> QED
    BY <1>t, <2>1, <2>2 DEF ThreadInv, InsertPoints
<1>2. CASE CallQuery(t)
  <2>1. /\ pc'[t] = "qtable" /\ op'[t] = "query" /\ key'[t] \in Keys /\ LocalCur'[t] = cur
        /\ j'[t] = 0 /\ i'[t] = 0 /\ cur' = cur /\ TableArray' = TableArray
    BY <1>2 DEF CallQuery, Goto, shared, ThreadInv, TypeOK, LocalsTyped
  <2>2. PassedBelow(key[t], j[t])'
    BY <1>t, <2>1 DEF PassedBelow
  <2> QED
    BY <1>t, <2>1, <2>2 DEF ThreadInv, InsertPoints
<1>3. CASE InsertTable(t)
  <2>1. /\ pc'[t] = IF j[t] < cur THEN "lookup" ELSE "grow"
        /\ op'[t] = op[t] /\ key'[t] = key[t] /\ j'[t] = j[t] /\ i'[t] = i[t]
        /\ LocalCur'[t] = LocalCur[t] /\ cur' = cur /\ TableArray' = TableArray
    BY <1>3 DEF InsertTable, Goto, shared, call, locals, TypeOK, LocalsTyped
  <2>2. pc[t] = "table"
    BY <1>3 DEF InsertTable
  <2>3. PassedBelow(key[t], j[t])'
    BY <2>1, <2>2 DEF ThreadInv, PassedBelow, Slot, Bucket
  <2>4. Passed(key[t], j[t], i[t])'
    BY <1>t, <2>1, <2>2, <2>3 DEF ThreadInv, Passed, Attempts
  <2> QED
    BY <1>t, <2>1, <2>2, <2>3, <2>4 DEF ThreadInv, InsertPoints
<1>4. CASE lookup(t)
  <2>1. CASE Probed(t) = NULL /\ Goto(t, "claim") /\ UNCHANGED <<call, locals>>
    <3>1. /\ pc[t] = "lookup" /\ pc'[t] = "claim"
          /\ op'[t] = op[t] /\ key'[t] = key[t] /\ j'[t] = j[t] /\ i'[t] = i[t]
          /\ LocalCur'[t] = LocalCur[t] /\ cur' = cur /\ TableArray' = TableArray
      BY <1>4, <2>1 DEF lookup, Goto, shared, call, locals, TypeOK, LocalsTyped
    <3>2. Passed(key[t], j[t], i[t])' /\ PassedBelow(key[t], j[t])'
      BY <3>1 DEF ThreadInv, Passed, PassedBelow, Slot, Bucket
    <3> QED
      BY <1>t, <3>1, <3>2 DEF ThreadInv, InsertPoints
  <2>2. CASE Return(t, 0)
    BY <1>t, <2>2, ReturnInv
  <2>3. CASE Probed(t) \notin {NULL, key[t]} /\ NextAttempt(t, "lookup", "reload", j[t])
    BY <1>4, <2>3, NextAttemptInv DEF lookup
  <2> QED
    BY <1>4, <2>1, <2>2, <2>3 DEF lookup
<1>5. CASE ClaimSlot(t)
  <2>1. CASE Return(t, 1)
    BY <1>t, <2>1, ReturnInv
  <2>2. CASE Probed(t) # NULL /\ Goto(t, "recheck") /\ UNCHANGED <<TableArray, call, locals>>
    <3>1. /\ pc[t] = "claim" /\ pc'[t] = "recheck"
          /\ op'[t] = op[t] /\ key'[t] = key[t] /\ j'[t] = j[t] /\ i'[t] = i[t]
          /\ LocalCur'[t] = LocalCur[t] /\ cur' = cur /\ TableArray' = TableArray
      BY <1>5, <2>2 DEF ClaimSlot, Goto, call, locals, TypeOK, LocalsTyped
    <3>2. /\ Passed(key[t], j[t], i[t])' /\ PassedBelow(key[t], j[t])'
          /\ Probed(t)' # NULL
      BY <2>2, <3>1 DEF ThreadInv, Passed, PassedBelow, Slot, Bucket, Probed
    <3> QED
      BY <1>t, <3>1, <3>2 DEF ThreadInv, InsertPoints
  <2> QED
    BY <1>5, <2>1, <2>2 DEF ClaimSlot
<1>6. CASE RecheckSlot(t)
  <2>1. CASE Return(t, 0)
    BY <1>t, <2>1, ReturnInv
  <2>2. CASE Probed(t) # key[t] /\ NextAttempt(t, "lookup", "reload", j[t])
    <3>1. pc[t] = "recheck" /\ Probed(t) # NULL /\ UNCHANGED shared
      BY <1>6 DEF RecheckSlot, ThreadInv
    <3> QED
      BY <2>2, <3>1, NextAttemptInv
  <2> QED
    BY <1>6, <2>1, <2>2 DEF RecheckSlot
<1>7. CASE ReloadCur(t)
  <2>1. /\ pc[t] = "reload" /\ pc'[t] = "table" /\ LocalCur'[t] = cur /\ j'[t] = j[t] + 1
        /\ op'[t] = op[t] /\ key'[t] = key[t] /\ i'[t] = i[t]
        /\ cur' = cur /\ TableArray' = TableArray
    BY <1>7 DEF ReloadCur, Goto, shared, call, TypeOK, LocalsTyped
  <2>2. PassedBelow(key[t], j[t])'
    BY <2>1 DEF ThreadInv, PassedBelow, Slot, Bucket
  <2> QED
    BY <1>t, <2>1, <2>2 DEF ThreadInv, InsertPoints
<1>8. CASE addDrop(t)
  <2>1. /\ pc[t] = "grow" /\ pc'[t] = "advance"
        /\ op'[t] = op[t] /\ key'[t] = key[t] /\ j'[t] = j[t] /\ i'[t] = i[t]
        /\ LocalCur'[t] = LocalCur[t] /\ cur' = cur
    BY <1>8 DEF addDrop, Goto, call, locals, TypeOK, LocalsTyped
  <2>2. LocalCur[t] \in DOMAIN TableArray'
    <3>1. CASE LocalCur[t] \in DOMAIN TableArray
      BY <3>1 DEF Grows
    <3>2. CASE LocalCur[t] \notin DOMAIN TableArray
      BY <1>8, <3>2 DEF addDrop
    <3> QED
      BY <3>1, <3>2
  <2>3. key[t] \in Keys /\ j[t] \in Nat /\ j[t] <= cur /\ PassedBelow(key[t], j[t])
    BY <1>t, <2>1 DEF ThreadInv
  <2>4. PassedBelow(key[t], j[t])'
    <3>1. \A kk \in Keys, n \in Nat : n <= cur /\ PassedBelow(kk, n) => PassedBelow(kk, n)'
      BY PassedBelowStable
    <3>2. PICK kk \in Keys, n \in Nat : kk = key[t] /\ n = j[t] /\ PassedBelow(kk, n)'
      BY <2>3, <3>1
    <3> QED
      BY <2>1, <3>2 DEF PassedBelow, Slot, Bucket
  <2> QED
    BY <1>t, <2>1, <2>2, <2>3, <2>4 DEF ThreadInv, InsertPoints
<1>9. CASE AdvanceCur(t)
  <2>1. /\ pc[t] = "advance" /\ pc'[t] = "table" /\ j'[t] = LocalCur[t]
        /\ op'[t] = op[t] /\ key'[t] = key[t] /\ i'[t] = i[t]
        /\ LocalCur'[t] = LocalCur[t] /\ TableArray' = TableArray
    BY <1>9 DEF AdvanceCur, Goto, call, TypeOK, LocalsTyped
  <2>2. PassedBelow(key[t], j[t])'
    BY <2>1 DEF ThreadInv, PassedBelow, Slot, Bucket
  <2> QED
    BY <1>t, <2>1, <2>2 DEF ThreadInv, InsertPoints
<1>10. CASE QueryTable(t)
  <2>1. ASSUME NEW limit \in {LocalCur[t], cur}, j[t] < limit, Goto(t, "qlookup"),
               UNCHANGED <<call, locals>>
        PROVE  ThreadInv(t)'
    <3>1. /\ pc[t] = "qtable" /\ pc'[t] = "qlookup"
          /\ op'[t] = op[t] /\ key'[t] = key[t] /\ j'[t] = j[t] /\ i'[t] = i[t]
          /\ LocalCur'[t] = LocalCur[t] /\ cur' = cur /\ TableArray' = TableArray
      BY <1>10, <2>1 DEF QueryTable, Goto, shared, call, locals, TypeOK, LocalsTyped
    <3>2. PassedBelow(key[t], j[t])'
      BY <3>1 DEF ThreadInv, PassedBelow, Slot, Bucket
    <3>3. Passed(key[t], j[t], i[t])'
      BY <1>t, <3>1, <3>2 DEF ThreadInv, Passed, Attempts
    <3> QED
      BY <1>t, <2>1, <3>1, <3>2, <3>3 DEF ThreadInv, InsertPoints
  <2>2. CASE Return(t, 0)
    BY <1>t, <2>2, ReturnInv
  <2> QED
    BY <1>10, <2>1, <2>2 DEF QueryTable
<1>11. CASE lookupQuery(t)
  <2>1. CASE Return(t, 0) \/ Return(t, 1)
    BY <1>t, <2>1, ReturnInv
  <2>2. CASE /\ Probed(t) \notin {NULL, key[t]}
             /\ NextAttempt(t, "qlookup", "qtable", j[t] + 1)
    BY <1>11, <2>2, NextAttemptInv DEF lookupQuery
  <2> QED
    BY <1>11, <2>1, <2>2 DEF lookupQuery
<1> QED
  BY <1>1, <1>2, <1>3, <1>4, <1>5, <1>6, <1>7, <1>8, <1>9, <1>10, <1>11 DEF ThreadStep, Step

\* A query keeps its key and its copy of head->cur to the end.
LEMMA QueryKeeps ==
  ASSUME IInv, NEW t \in Threads, ThreadStep(t), pc'[t] \in QueryPoints, pc[t] # "idle"
  PROVE  pc[t] \in QueryPoints /\ key'[t] = key[t] /\ LocalCur'[t] = LocalCur[t]
<1> LocalsTyped
  BY DEF IInv, TypeOK
<1>1. \A r : ~Return(t, r)
  BY DEF Return, Goto, LocalsTyped, QueryPoints
<1>2. \A label : Goto(t, label) => pc'[t] = label
  BY DEF Goto, LocalsTyped
<1>3. CASE QueryTable(t)
  BY <1>1, <1>3 DEF QueryTable, QueryPoints, call, locals
<1>4. CASE lookupQuery(t)
  BY <1>1, <1>4 DEF lookupQuery, QueryPoints, NextAttempt, call
<1>5. CASE InsertTable(t) \/ ReloadCur(t) \/ addDrop(t) \/ AdvanceCur(t) \/ ClaimSlot(t)
  BY <1>1, <1>2, <1>5 DEF InsertTable, ReloadCur, addDrop, AdvanceCur, ClaimSlot, QueryPoints
<1>6. CASE lookup(t) \/ RecheckSlot(t)
  BY <1>1, <1>2, <1>6 DEF lookup, RecheckSlot, NextAttempt, QueryPoints
<1> QED
  BY <1>3, <1>4, <1>5, <1>6 DEF ThreadStep, CallInsert, CallQuery, Step

\* The history keeps up with every step.
LEMMA SeenInvStep ==
  ASSUME IInv, NEW t \in Threads, ThreadStep(t), Look, NEW u \in Threads
  PROVE  SeenInv(u)'
<1> PlacesFit /\ TypeOK /\ SeenInv(u) /\ ThreadInv(u)
  BY DEF IInv
<1> Grows
  BY TablesStep DEF Tables
<1>1. seen'[u] = IF op'[u] = "none" THEN {}
                 ELSE seen[u] \cup {IF key'[u] \in Contents' THEN 1 ELSE 0}
  BY DEF Look
<1>2. ASSUME pc'[u] \in QueryPoints, 0 \notin seen'[u]
      PROVE  \E jj \in DOMAIN TableArray' : /\ jj < LocalCur'[u]
                                            /\ \E s \in Slots(jj)' : Holds(jj, s, key[u])'
  <2>1. ASSUME NEW jj \in DOMAIN TableArray, NEW s \in Slots(jj), Holds(jj, s, key'[u]),
               key'[u] \in Keys
        PROVE  jj \in DOMAIN TableArray' /\ s \in Slots(jj)' /\ Holds(jj, s, key[u])'
    BY <2>1, HashtableAssumption DEF Grows, Slots, Holds
  <2>2. CASE u = t /\ pc[t] = "idle"
    <3>1. /\ CallQuery(t) /\ key'[t] \in Keys /\ LocalCur'[t] = cur /\ op'[t] # "none"
          /\ TableArray' = TableArray
      <4>1. CASE CallQuery(t)
        BY <4>1 DEF CallQuery, shared, TypeOK, LocalsTyped
      <4>2. CASE CallInsert(t)
        BY <1>2, <2>2, <4>2 DEF CallInsert, Goto, TypeOK, LocalsTyped, QueryPoints
      <4>3. ~Step(t)
        BY <2>2 DEF Step, InsertTable, lookup, ClaimSlot, RecheckSlot, ReloadCur, addDrop,
                    AdvanceCur, QueryTable, lookupQuery
      <4> QED
        BY <4>1, <4>2, <4>3 DEF ThreadStep
    <3>2. key'[t] \in Contents'
      BY <1>1, <1>2, <2>2, <3>1
    <3>3. PICK jj \in DOMAIN TableArray : \E s \in Slots(jj) : Holds(jj, s, key'[t])
      BY <3>1, <3>2 DEF Contents, Slots, Holds
    <3>4. jj < cur
      <4>1. cur \in Nat /\ jj \in Nat
        BY DEF TypeOK, TablesTyped
      <4>2. key'[t] # NULL
        BY <3>1, HashtableAssumption
      <4> QED
        BY <3>3, <4>1, <4>2 DEF IInv, NewestEmpty, SubtablesInOrder, Holds
    <3> QED
      BY <2>1, <2>2, <3>1, <3>3, <3>4
  <2>3. CASE ~(u = t /\ pc[t] = "idle")
    <3>1. /\ pc[u] \in QueryPoints /\ key'[u] = key[u] /\ LocalCur'[u] = LocalCur[u]
          /\ op'[u] # "none"
      <4>1. CASE u = t
        BY <1>2, <2>3, <4>1, QueryKeeps, ThreadInvStep DEF ThreadInv, QueryPoints
      <4>2. CASE u # t
        BY <1>2, <4>2, OthersUnchanged DEF SameLocals, TypeOK, ThreadInv, QueryPoints
      <4> QED
        BY <4>1, <4>2
    <3>2. 0 \notin seen[u]
      BY <1>1, <1>2, <3>1
    <3>3. PICK jj \in DOMAIN TableArray :
            jj < LocalCur[u] /\ \E s \in Slots(jj) : Holds(jj, s, key[u])
      BY <3>1, <3>2 DEF SeenInv
    <3>4. key[u] \in Keys
      BY <3>1 DEF ThreadInv, QueryPoints
    <3> QED
      BY <2>1, <3>1, <3>3, <3>4
  <2> QED
    BY <2>2, <2>3
<1> QED
  BY <1>1, <1>2 DEF SeenInv

\* initTable establishes the inductive invariant.
LEMMA InitInv ==
  PlacesFit /\ Init => IInv
<1> SUFFICES ASSUME PlacesFit, Init
             PROVE  IInv
  OBVIOUS
<1>1. /\ DOMAIN TableArray = {0} /\ TableArray[0] = createTable(InitSize) /\ cur = 1
      /\ IsSubTable(createTable(InitSize))
      /\ \A s \in 0 .. InitSize - 1 : createTable(InitSize).InnerTable[s] = NULL
      /\ createTable(InitSize).TableSize = InitSize
  BY HashtableAssumption DEF Init, createTable, IsSubTable, Entries
<1>2. TypeOK
  BY <1>1, HashtableAssumption
  DEF Init, TypeOK, TablesTyped, LocalsTyped, Points, Entries, Attempts
<1>3. SubtablesInOrder /\ NewestEmpty
  BY <1>1 DEF SubtablesInOrder, NewestEmpty
<1>4. FirstNullBucket
  BY <1>1, HashtableAssumption DEF FirstNullBucket, Holds, Slots
<1>5. ASSUME NEW t \in Threads
      PROVE  ThreadInv(t) /\ SeenInv(t)
  BY <1>1 DEF Init, ThreadInv, SeenInv, InsertPoints, QueryPoints
<1> QED
  BY <1>2, <1>3, <1>4, <1>5 DEF IInv

\* Every step of the table preserves the inductive invariant.
LEMMA StepInv ==
  IInv /\ [Next]_vars => IInv'
<1> SUFFICES ASSUME IInv, [Next]_vars
             PROVE  IInv'
  OBVIOUS
<1>1. CASE UNCHANGED vars
  <2>1. Tables
    BY <1>1, TablesUnchanged DEF vars, shared
  <2>2. LocalsTyped' /\ seen' \in [Threads -> SUBSET {0, 1}]
    BY <1>1 DEF vars, IInv, TypeOK, LocalsTyped
  <2>3. FirstNullBucket'
    BY <1>1 DEF vars, IInv, FirstNullBucket, Holds, Slots, Passed, PassedBelow, Slot, Bucket
  <2>4. ASSUME NEW t \in Threads
        PROVE  ThreadInv(t)' /\ SeenInv(t)'
    <3>1. ThreadInv(t)'
      BY <1>1 DEF vars, IInv, ThreadInv, Passed, PassedBelow, Slot, Bucket, Probed
    <3>2. SeenInv(t)'
      BY <1>1 DEF vars, IInv, SeenInv, Contents, Holds, Slots
    <3> QED
      BY <3>1, <3>2
  <2> QED
    BY <2>1, <2>2, <2>3, <2>4 DEF IInv, PlacesFit, Tables, TypeOK
<1>2. CASE Next
  <2>1. PICK t \in Threads : ThreadStep(t) /\ Look
    BY <1>2 DEF Next
  <2>2. Tables
    BY <2>1, TablesStep
  <2>3. LocalsTyped' /\ seen' \in [Threads -> SUBSET {0, 1}]
    <3>1. LocalsTyped'
      BY <2>1, LocalsStep DEF IInv
    <3>2. seen' \in [Threads -> SUBSET {0, 1}]
      <4>1. \A u \in Threads : seen[u] \subseteq {0, 1}
        BY DEF IInv, TypeOK
      <4> QED
        BY <2>1, <4>1 DEF Look
    <3> QED
      BY <3>1, <3>2
  <2>4. FirstNullBucket'
    BY <2>1, FirstNullBucketStep
  <2>5. ASSUME NEW u \in Threads
        PROVE  ThreadInv(u)' /\ SeenInv(u)'
    BY <2>1, ThreadInvStep, ThreadInvStable, SeenInvStep
  <2> QED
    BY <2>2, <2>3, <2>4, <2>5 DEF IInv, PlacesFit, Tables, TypeOK
<1> QED
  BY <1>1, <1>2

\* Every reachable state satisfies the inductive invariant: what each thread
\* inside insertTable or checkTableQuery has learnt about the slots it has
\* passed is still true, whatever the other threads did meanwhile.
THEOREM Invariance ==
  PlacesFit /\ Spec => []IInv
<1>1. PlacesFit /\ Init => IInv
  BY InitInv
<1>2. IInv /\ [Next]_vars => IInv'
  BY StepInv
<1> QED
  BY <1>1, <1>2, PTL DEF Spec

\* Every variable of hashtable.c always has its type, and so every index the
\* code computes is inside its array.
THEOREM TypeCorrect ==
  PlacesFit /\ Spec => []TypeOK
<1>1. IInv => TypeOK
  BY DEF IInv
<1> QED
  BY <1>1, Invariance, PTL

\* The rule checkTableQuery stops by: no key lies behind a NULL slot of its path.
THEOREM FirstNullBucketCorrect ==
  PlacesFit /\ Spec => []FirstNullBucket
<1>1. IInv => FirstNullBucket
  BY DEF IInv
<1> QED
  BY <1>1, Invariance, PTL

\* Racing addDrops number the subtables 0, 1, 2, ... and double their size.
THEOREM SubtablesInOrderCorrect ==
  PlacesFit /\ Spec => []SubtablesInOrder
<1>1. IInv => SubtablesInOrder
  BY DEF IInv
<1> QED
  BY <1>1, Invariance, PTL

\* Of two slots that hold the same key, the later one on the key's path would
\* have had to pass the earlier one.
LEMMA NoDuplicate ==
  IInv => NoDuplicateKey
<1> SUFFICES ASSUME IInv,
                    NEW j1 \in DOMAIN TableArray, NEW j2 \in DOMAIN TableArray,
                    NEW s1 \in Slots(j1), NEW s2 \in Slots(j2), NEW k \in Keys,
                    Holds(j1, s1, k), Holds(j2, s2, k)
             PROVE  j1 = j2 /\ s1 = s2
  BY DEF NoDuplicateKey
<1>1. PICK n1 \in Attempts : Bucket(k, n1, j1) = s1 /\ Passed(k, j1, n1)
  BY DEF IInv, FirstNullBucket
<1>2. PICK n2 \in Attempts : Bucket(k, n2, j2) = s2 /\ Passed(k, j2, n2)
  BY DEF IInv, FirstNullBucket
<1>3. Slot(k, n1, j1) = k /\ Slot(k, n2, j2) = k
  BY <1>1, <1>2 DEF Slot, Holds
<1>4. j1 \in Nat /\ j2 \in Nat
  BY DEF IInv, TypeOK, TablesTyped
<1>5. j1 = j2
  BY <1>1, <1>2, <1>3, <1>4 DEF Passed, PassedBelow
<1>6. n1 = n2
  BY <1>1, <1>2, <1>3, <1>5 DEF Passed, Attempts
<1> QED
  BY <1>1, <1>2, <1>5, <1>6

\* However inserts of one key race, the key ends up in one slot: an insert that
\* loses the compare-and-swap either finds its key there or goes on.
THEOREM NoDuplicateKeyCorrect ==
  PlacesFit /\ Spec => []NoDuplicateKey
BY Invariance, NoDuplicate, PTL
-----------------------------------------------------------------------------
(* How far TableArray grows                                                *)

\* Behind every subtable but the first is a key that ran out of slots before it.
GrowthWitness ==
  \A n \in DOMAIN TableArray \ {0} : \E k \in Keys : PassedBelow(k, n)

\* Every step keeps a key that has passed all buckets below each subtable: addDrop
\* is reached only by a call that ran out of subtables.
LEMMA GrowthWitnessStep ==
  ASSUME IInv, GrowthWitness, NEW t \in Threads, ThreadStep(t)
  PROVE  GrowthWitness'
<1> Grows /\ TablesTyped' /\ SubtablesInOrder'
  BY TablesStep DEF Tables
<1> PlacesFit /\ TypeOK /\ SubtablesInOrder /\ ThreadInv(t)
  BY DEF IInv
<1>1. cur \in Nat /\ DOMAIN TableArray \subseteq Nat /\ DOMAIN TableArray' \subseteq Nat
  BY DEF TypeOK, TablesTyped
<1>2. \A k \in Keys, n \in Nat : n <= cur /\ PassedBelow(k, n) => PassedBelow(k, n)'
  BY PassedBelowStable
<1> SUFFICES ASSUME NEW n \in DOMAIN TableArray' \ {0}
             PROVE  \E k \in Keys : PassedBelow(k, n)'
  BY DEF GrowthWitness
<1>3. CASE n \in DOMAIN TableArray
  <2>1. n \in Nat /\ n <= cur
    BY <1>1, <1>3 DEF SubtablesInOrder
  <2> QED
    BY <1>2, <1>3, <2>1 DEF GrowthWitness
<1>4. CASE n \notin DOMAIN TableArray
  <2>1. addDrop(t) /\ n = LocalCur[t]
    <3>1. CASE addDrop(t)
      BY <1>4, <3>1 DEF addDrop
    <3>2. CASE ClaimSlot(t)
      BY <1>4, <3>2 DEF ClaimSlot
    <3>3. CASE TableArray' = TableArray
      BY <1>4, <3>3
    <3> QED
      BY <3>1, <3>2, <3>3
      DEF ThreadStep, Step, CallInsert, CallQuery, InsertTable, lookup, RecheckSlot, ReloadCur, QueryTable,
          lookupQuery, AdvanceCur, shared
  <2>2. key[t] \in Keys /\ n \in Nat /\ n <= cur /\ PassedBelow(key[t], n)
    BY <1>1, <2>1 DEF addDrop, ThreadInv, InsertPoints
  <2> QED
    BY <1>2, <2>2
<1> QED
  BY <1>3, <1>4

\* The keys in the way of k lie one in each subtable, and are all different.
LEMMA OneKeyPerSubtable ==
  ASSUME IInv, NEW k \in Keys, NEW n \in Nat, n \in DOMAIN TableArray, PassedBelow(k, n)
  PROVE  n + 1 <= Cardinality(Keys)
<1> DEFINE f == [jj \in 0 .. n - 1 |-> Slot(k, 0, jj)]
<1> PlacesFit /\ TypeOK /\ SubtablesInOrder /\ NoDuplicateKey
  BY NoDuplicate DEF IInv
<1>1. cur \in Nat /\ 0 \in Attempts /\ n <= cur
  BY HashtableAssumption DEF Attempts, TypeOK, TablesTyped, SubtablesInOrder
<1>2. \A jj \in 0 .. n - 1 : /\ jj \in DOMAIN TableArray
                             /\ Bucket(k, 0, jj) \in Slots(jj)
                             /\ Slot(k, 0, jj) \in Keys \ {k}
  <2> SUFFICES ASSUME NEW jj \in 0 .. n - 1
               PROVE  /\ jj \in DOMAIN TableArray
                      /\ Bucket(k, 0, jj) \in Slots(jj)
                      /\ Slot(k, 0, jj) \in Keys \ {k}
    OBVIOUS
  <2>1. jj \in DOMAIN TableArray /\ jj < n
    BY <1>1 DEF SubtablesInOrder
  <2>2. Bucket(k, 0, jj) \in Slots(jj)
    BY <1>1, <2>1, BucketInRange
  <2>3. IsSubTable(TableArray[jj])
    BY <2>1 DEF TypeOK, TablesTyped
  <2>4. Slot(k, 0, jj) \in Entries
    BY <2>2, <2>3 DEF IsSubTable, Slot, Slots
  <2>5. Slot(k, 0, jj) \notin {NULL, k}
    BY <1>1, <2>1 DEF PassedBelow
  <2> QED
    BY <2>1, <2>2, <2>4, <2>5 DEF Entries
<1>3. f \in Injection(0 .. n - 1, Keys \ {k})
  <2>1. ASSUME NEW j1 \in 0 .. n - 1, NEW j2 \in 0 .. n - 1,
               Slot(k, 0, j1) = Slot(k, 0, j2)
        PROVE  j1 = j2
    <3> DEFINE k1 == Slot(k, 0, j1)
    <3>1. k1 \in Keys /\ j1 \in DOMAIN TableArray /\ j2 \in DOMAIN TableArray
      BY <1>2
    <3>2. Holds(j1, Bucket(k, 0, j1), k1) /\ Holds(j2, Bucket(k, 0, j2), k1)
      BY <2>1 DEF Slot, Holds
    <3>3. Bucket(k, 0, j1) \in Slots(j1) /\ Bucket(k, 0, j2) \in Slots(j2)
      BY <1>2
    <3> HIDE DEF k1
    <3> QED
      BY <3>1, <3>2, <3>3 DEF NoDuplicateKey
  <2> QED
    BY <1>2, <2>1 DEF Injection, IsInjective
<1>4. IsFiniteSet(Keys \ {k}) /\ Cardinality(Keys \ {k}) = Cardinality(Keys) - 1
  BY HashtableAssumption, FS_RemoveElement
<1>5. Cardinality(0 .. n - 1) = n
  BY FS_Interval
<1>6. Cardinality(0 .. n - 1) <= Cardinality(Keys \ {k})
  BY <1>3, <1>4, FS_Injection
<1>7. Cardinality(Keys) \in Nat
  BY HashtableAssumption, FS_CardinalityType
<1> QED
  BY <1>4, <1>5, <1>6, <1>7

\* TableArray has max_tables = 64 places and the code checks no bound: it never
\* needs more of them than there are keys, and no subtable behind the newest is
\* empty.
THEOREM GrowthIsEarnedCorrect ==
  PlacesFit /\ Spec => []GrowthIsEarned
<1>1. Init => GrowthWitness
  BY DEF Init, GrowthWitness
<1>2. IInv /\ GrowthWitness /\ [Next]_vars => GrowthWitness'
  <2> SUFFICES ASSUME IInv, GrowthWitness, [Next]_vars
               PROVE  GrowthWitness'
    OBVIOUS
  <2>1. CASE UNCHANGED vars
    BY <2>1 DEF vars, GrowthWitness, PassedBelow, Slot, Bucket
  <2>2. CASE Next
    BY <2>2, GrowthWitnessStep DEF Next
  <2> QED
    BY <2>1, <2>2
<1>3. IInv /\ GrowthWitness => GrowthIsEarned
  <2> SUFFICES ASSUME IInv, GrowthWitness
               PROVE  GrowthIsEarned
    OBVIOUS
  <2> PlacesFit /\ TypeOK /\ SubtablesInOrder /\ NewestEmpty
    BY DEF IInv
  <2>1. cur \in Nat /\ DOMAIN TableArray \subseteq Nat /\ 0 \in Attempts
    BY HashtableAssumption DEF TypeOK, TablesTyped, Attempts
  <2>2. ASSUME NEW jj \in DOMAIN TableArray, jj + 1 \in DOMAIN TableArray
        PROVE  \E s \in Slots(jj) : ~Holds(jj, s, NULL)
    <3>1. PICK k \in Keys : PassedBelow(k, jj + 1)
      BY <2>1, <2>2 DEF GrowthWitness
    <3>2. Slot(k, 0, jj) # NULL
      BY <2>1, <3>1 DEF PassedBelow
    <3>3. Bucket(k, 0, jj) \in Slots(jj)
      BY <2>1, BucketInRange
    <3> QED
      BY <3>2, <3>3 DEF Slot, Holds
  <2>3. cur <= Cardinality(Keys)
    <3>1. CASE cur = 1
      <4>1. Cardinality(Keys) # 0 /\ Cardinality(Keys) \in Nat
        BY HashtableAssumption, FS_EmptySet, FS_CardinalityType
      <4> QED
        BY <3>1, <4>1
    <3>2. CASE cur # 1
      <4>1. cur - 1 \in DOMAIN TableArray \ {0} /\ cur - 1 \in Nat
        BY <2>1, <3>2 DEF NewestEmpty, SubtablesInOrder
      <4>2. PICK k \in Keys : PassedBelow(k, cur - 1)
        BY <4>1 DEF GrowthWitness
      <4>3. cur - 1 + 1 <= Cardinality(Keys)
        BY <4>1, <4>2, OneKeyPerSubtable
      <4> QED
        BY <2>1, <4>3
    <3> QED
      BY <3>1, <3>2
  <2> QED
    BY <2>2, <2>3 DEF GrowthIsEarned
<1> QED
  BY <1>1, <1>2, <1>3, Invariance, PTL DEF Spec
-----------------------------------------------------------------------------
(* insertTable and checkTableQuery implement ConcurrentSet                 *)

\* What a query may conclude from a slot that holds its key, from a NULL slot
\* behind slots it has passed, and from running out of subtables.
LEMMA FoundIn ==
  ASSUME PlacesFit, TypeOK, NEW k \in Keys, NEW n \in Attempts, NEW jj \in DOMAIN TableArray,
         Slot(k, n, jj) = k
  PROVE  k \in Contents
BY BucketInRange DEF Contents, Slot, Holds

\* A key whose next bucket is NULL, behind buckets it has passed, is nowhere in
\* the table: the "not found" of lookupQuery and the empty slot of insertTable.
LEMMA NotIn ==
  ASSUME IInv, NEW k \in Keys, NEW n \in Attempts, NEW jj \in DOMAIN TableArray,
         Passed(k, jj, n), Slot(k, n, jj) = NULL
  PROVE  k \notin Contents
<1> SUFFICES ASSUME NEW j2 \in DOMAIN TableArray, NEW s2 \in Slots(j2), Holds(j2, s2, k)
             PROVE  FALSE
  BY DEF Contents
<1>1. PICK n2 \in Attempts : Bucket(k, n2, j2) = s2 /\ Passed(k, j2, n2)
  BY DEF IInv, FirstNullBucket
<1>2. Slot(k, n2, j2) = k /\ k # NULL
  BY <1>1, HashtableAssumption DEF Slot, Holds
<1>3. jj \in Nat /\ j2 \in Nat
  BY DEF IInv, TypeOK, TablesTyped
<1>4. jj = j2
  BY <1>1, <1>2, <1>3 DEF Passed, PassedBelow
<1>5. n = n2
  BY <1>1, <1>2, <1>4 DEF Passed, Attempts
<1> QED
  BY <1>2, <1>4, <1>5

\* A key that has passed every bucket of every subtable is nowhere in the table.
LEMMA RunOut ==
  ASSUME IInv, NEW k \in Keys, NEW jj \in Nat, ~(jj < cur), PassedBelow(k, jj)
  PROVE  k \notin Contents
<1> SUFFICES ASSUME NEW j2 \in DOMAIN TableArray, NEW s2 \in Slots(j2), Holds(j2, s2, k)
             PROVE  FALSE
  BY DEF Contents
<1>1. PICK n2 \in Attempts : Bucket(k, n2, j2) = s2
  BY DEF IInv, FirstNullBucket
<1>2. Slot(k, n2, j2) = k /\ k # NULL
  BY <1>1, HashtableAssumption DEF Slot, Holds
<1>3. j2 \in Nat /\ cur \in Nat
  BY DEF IInv, TypeOK, TablesTyped
<1>4. j2 < cur
  BY <1>2, <1>3 DEF IInv, SubtablesInOrder, NewestEmpty, Holds
<1> QED
  BY <1>2, <1>3, <1>4 DEF PassedBelow

\* The contents change only when a claim succeeds, and then by the claimed key.
LEMMA ContentsStep ==
  ASSUME IInv, NEW t \in Threads, ThreadStep(t)
  PROVE  /\ ClaimSlot(t) /\ Probed(t) = NULL =>
              key[t] \notin Contents /\ Contents' = Contents \cup {key[t]}
         /\ ~(ClaimSlot(t) /\ Probed(t) = NULL) => Contents' = Contents
<1> Grows
  BY TablesStep DEF Tables
<1>1. Contents \subseteq Contents'
  <2> SUFFICES ASSUME NEW k \in Keys, NEW jj \in DOMAIN TableArray, NEW s \in Slots(jj),
                      Holds(jj, s, k)
               PROVE  k \in Contents'
    BY DEF Contents
  <2>1. jj \in DOMAIN TableArray' /\ s \in Slots(jj)' /\ Holds(jj, s, k)'
    BY HashtableAssumption DEF Grows, Slots, Holds
  <2> QED
    BY <2>1 DEF Contents
<1>2. ASSUME NEW k \in Contents'
      PROVE  k \in Contents \/ (ClaimSlot(t) /\ Probed(t) = NULL /\ k = key[t])
  <2>1. k \in Keys
    BY <1>2 DEF Contents
  <2>2. PICK jj \in DOMAIN TableArray' : \E s \in Slots(jj)' : Holds(jj, s, k)'
    BY <1>2 DEF Contents
  <2>3. PICK s \in Slots(jj)' : Holds(jj, s, k)'
    BY <2>2
  <2>4. \/ jj \in DOMAIN TableArray /\ s \in Slots(jj) /\ Holds(jj, s, k)
        \/ ClaimSlot(t) /\ Probed(t) = NULL /\ k = key[t]
    BY <2>1, <2>3, KeyOrigin
  <2> QED
    BY <2>1, <2>4 DEF Contents
<1>3. CASE ClaimSlot(t) /\ Probed(t) = NULL
  <2> DEFINE b == Bucket(key[t], i[t], j[t])
  <2>1. /\ key[t] \in Keys /\ i[t] \in Attempts /\ j[t] \in DOMAIN TableArray
        /\ Passed(key[t], j[t], i[t])
    BY <1>3 DEF IInv, ClaimSlot, ThreadInv, SubtablesInOrder, TypeOK, TablesTyped, LocalsTyped
  <2>2. key[t] \notin Contents
    BY <1>3, <2>1, NotIn DEF Probed
  <2>3. b \in Slots(j[t]) /\ IsSubTable(TableArray[j[t]])
    BY <2>1, BucketInRange DEF IInv, TypeOK, TablesTyped
  <2>4. TableArray' = [TableArray EXCEPT ![j[t]].InnerTable[b] = key[t]]
    BY <1>3 DEF ClaimSlot
  <2> HIDE DEF b
  <2>5. TableArray'[j[t]].InnerTable[b] = key[t]
    <3>1. TableArray[j[t]] = [TableSize |-> TableArray[j[t]].TableSize,
                              InnerTable |-> TableArray[j[t]].InnerTable]
      BY <2>3 DEF IsSubTable
    <3>2. TableArray'[j[t]] = [TableArray[j[t]] EXCEPT !.InnerTable[b] = key[t]]
      BY <2>1, <2>4
    <3>3. TableArray'[j[t]].InnerTable = [TableArray[j[t]].InnerTable EXCEPT ![b] = key[t]]
      BY <3>1, <3>2
    <3> QED
      BY <2>3, <3>3 DEF IsSubTable, Slots
  <2>6. \E jj \in DOMAIN TableArray' : \E s \in Slots(jj)' : TableArray'[jj].InnerTable[s] = key[t]
    BY <2>1, <2>3, <2>5 DEF Grows, Slots
  <2>7. key[t] \in Contents'
    BY <2>1, <2>6 DEF Contents, Holds
  <2> QED
    BY <1>1, <1>2, <1>3, <2>2, <2>7
<1> QED
  BY <1>1, <1>2, <1>3

\* An insert that returns 1 takes effect at its compare-and-swap; an insert that
\* returns 0, and every query, returns an answer that its history has seen.
LEMMA StepImplements ==
  ASSUME IInv, NEW t \in Threads, ThreadStep(t), Look
  PROVE  [Set!Next]_(Set!vars)
<1> PlacesFit /\ TypeOK /\ ThreadInv(t) /\ SeenInv(t) /\ SubtablesInOrder
  BY DEF IInv
<1>t. /\ cur \in Nat /\ j[t] \in Nat /\ i[t] \in Attempts /\ LocalCur[t] \in Nat
      /\ DOMAIN TableArray \subseteq Nat
      /\ pc[t] # "idle" => key[t] \in Keys
      /\ pc[t] \in {"lookup", "claim", "recheck", "qlookup"} => j[t] \in DOMAIN TableArray
  BY DEF TypeOK, TablesTyped, LocalsTyped, ThreadInv, SubtablesInOrder
<1>c. /\ ClaimSlot(t) /\ Probed(t) = NULL =>
           key[t] \notin Contents /\ Contents' = Contents \cup {key[t]}
      /\ ~(ClaimSlot(t) /\ Probed(t) = NULL) => Contents' = Contents
  BY ContentsStep
<1>l. Set!Look
  BY DEF Look, Set!Look
<1>p. /\ pc[t] \in InsertPoints => op[t] = "insert"
      /\ pc[t] \in QueryPoints => op[t] = "query"
  BY DEF ThreadInv, InsertPoints, QueryPoints, TypeOK, LocalsTyped, Points
<1>s. pc[t] # "idle" => /\ key[t] \in Contents => 1 \in seen[t]
                        /\ key[t] \notin Contents => 0 \in seen[t]
  BY DEF ThreadInv, SeenInv
<1>1. ASSUME NEW o \in {"insert", "query"}, NEW k \in Keys, pc[t] = "idle",
             key' = [key EXCEPT ![t] = k], op' = [op EXCEPT ![t] = o], ret' = [ret EXCEPT ![t] = 0],
             Contents' = Contents
      PROVE  Set!Next
  <2>1. Set!Invoke(t, o, k)
    BY <1>1, <1>l DEF ThreadInv, Set!Invoke
  <2> QED
    BY <2>1 DEF Set!Next
<1>2. ASSUME Contents' = Contents, UNCHANGED call
      PROVE  UNCHANGED Set!vars
  <2>1. op' = op /\ key' = key /\ ret' = ret
    BY <1>2 DEF call
  <2>2. ASSUME NEW u \in Threads
        PROVE  seen'[u] = seen[u]
    <3>1. SeenInv(u)
      BY DEF IInv
    <3> QED
      BY <1>2, <2>1, <3>1 DEF Look, SeenInv
  <2>3. seen' = seen
    BY <2>2 DEF Look, TypeOK
  <2> QED
    BY <1>2, <2>1, <2>3 DEF Set!vars
<1>3. ASSUME pc[t] \in {"lookup", "recheck"}, Probed(t) = key[t], Return(t, 0),
             Contents' = Contents
      PROVE  Set!Next
  <2>1. op[t] = "insert" /\ 1 \in seen[t]
    BY <1>t, <1>3, <1>p, <1>s, FoundIn DEF InsertPoints, Probed
  <2>2. Set!Insert(t)
    BY <1>3, <1>l, <2>1 DEF Return, Set!Insert, Set!Complete
  <2> QED
    BY <2>2 DEF Set!Next
<1>4. ASSUME NEW r \in {0, 1}, pc[t] \in QueryPoints, r \in seen[t], Return(t, r),
             Contents' = Contents
      PROVE  Set!Next
  <2>1. Set!Query(t)
    BY <1>4, <1>l, <1>p DEF Return, Set!Query, Set!Complete
  <2> QED
    BY <2>1 DEF Set!Next
<1>5. CASE CallInsert(t)
  <2>1. PICK k \in Keys : key' = [key EXCEPT ![t] = k]
    BY <1>5 DEF CallInsert
  <2> QED
    BY <1>1, <1>5, <1>c, <2>1 DEF CallInsert, ClaimSlot
<1>6. CASE CallQuery(t)
  <2>1. PICK k \in Keys : key' = [key EXCEPT ![t] = k]
    BY <1>6 DEF CallQuery
  <2> QED
    BY <1>1, <1>6, <1>c, <2>1 DEF CallQuery, ClaimSlot
<1>7. CASE InsertTable(t) \/ ReloadCur(t) \/ addDrop(t) \/ AdvanceCur(t)
  <2>1. UNCHANGED call /\ ~ClaimSlot(t)
    BY <1>7 DEF InsertTable, ReloadCur, addDrop, AdvanceCur, ClaimSlot
  <2> QED
    BY <1>2, <1>c, <2>1
<1>8. CASE lookup(t) \/ RecheckSlot(t)
  <2>1. Contents' = Contents /\ pc[t] \in {"lookup", "recheck"}
    BY <1>8, <1>c DEF lookup, RecheckSlot, ClaimSlot
  <2>2. CASE UNCHANGED call
    BY <1>2, <2>1, <2>2
  <2>3. CASE Probed(t) = key[t] /\ Return(t, 0)
    BY <1>3, <2>1, <2>3
  <2> QED
    BY <1>8, <2>2, <2>3 DEF lookup, RecheckSlot, NextAttempt
<1>9. CASE ClaimSlot(t)
  <2>1. CASE Probed(t) = NULL /\ Return(t, 1)
    <3>1. Set!Insert(t)
      BY <1>9, <1>c, <1>l, <1>p, <2>1
      DEF ClaimSlot, InsertPoints, Return, Set!Insert, Set!Complete
    <3> QED
      BY <3>1 DEF Set!Next
  <2>2. CASE Probed(t) # NULL /\ UNCHANGED call
    BY <1>2, <1>c, <2>2
  <2> QED
    BY <1>9, <2>1, <2>2 DEF ClaimSlot
<1>10. CASE QueryTable(t)
  <2>1. Contents' = Contents /\ pc[t] = "qtable"
    BY <1>10, <1>c DEF QueryTable, ClaimSlot
  <2>2. CASE UNCHANGED call
    BY <1>2, <2>1, <2>2
  <2>3. ASSUME NEW limit \in {LocalCur[t], cur}, ~(j[t] < limit), Return(t, 0)
        PROVE  Set!Next
    <3>1. key[t] \in Keys /\ PassedBelow(key[t], j[t])
      BY <1>t, <2>1 DEF ThreadInv
    <3>2. 0 \in seen[t]
      <4>1. CASE limit = cur
        BY <1>t, <1>s, <2>1, <2>3, <3>1, <4>1, RunOut
      <4>2. CASE limit = LocalCur[t]
        <5> SUFFICES ASSUME 0 \notin seen[t]
                     PROVE  FALSE
          OBVIOUS
        <5>1. PICK jj \in DOMAIN TableArray :
                jj < LocalCur[t] /\ \E s \in Slots(jj) : Holds(jj, s, key[t])
          BY <2>1 DEF SeenInv, QueryPoints
        <5>2. PICK n \in Attempts : Slot(key[t], n, jj) = key[t]
          BY <3>1, <5>1 DEF IInv, FirstNullBucket, Slot, Holds
        <5> QED
          BY <1>t, <2>3, <3>1, <4>2, <5>1, <5>2 DEF PassedBelow
      <4> QED
        BY <4>1, <4>2
    <3> QED
      BY <1>4, <2>1, <2>3, <3>2 DEF QueryPoints
  <2> QED
    BY <1>10, <2>2, <2>3 DEF QueryTable
<1>11. CASE lookupQuery(t)
  <2>1. Contents' = Contents /\ pc[t] = "qlookup"
    BY <1>11, <1>c DEF lookupQuery, ClaimSlot
  <2>2. CASE UNCHANGED call
    BY <1>2, <2>1, <2>2
  <2>3. CASE Probed(t) = NULL /\ Return(t, 0)
    <3>1. key[t] \notin Contents
      BY <1>t, <2>1, <2>3, NotIn DEF ThreadInv, Probed
    <3> QED
      BY <1>4, <1>s, <2>1, <2>3, <3>1 DEF QueryPoints
  <2>4. CASE Probed(t) = key[t] /\ Return(t, 1)
    <3>1. key[t] \in Contents
      BY <1>t, <2>1, <2>4, FoundIn DEF Probed
    <3> QED
      BY <1>4, <1>s, <2>1, <2>4, <3>1 DEF QueryPoints
  <2> QED
    BY <1>11, <2>2, <2>3, <2>4 DEF lookupQuery, NextAttempt
<1> QED
  BY <1>5, <1>6, <1>7, <1>8, <1>9, <1>10, <1>11 DEF ThreadStep, Step

\* hashtable.c is a linearizable set: every behaviour of its compare-and-swaps
\* and reads is, through Contents, a behaviour of ConcurrentSet.
THEOREM Linearizability ==
  PlacesFit /\ Spec => Linearizable
<1>1. Init => Set!Init
  <2> SUFFICES ASSUME Init
               PROVE  Set!Init
    OBVIOUS
  <2>1. Contents = {}
    BY HashtableAssumption DEF Init, createTable, Contents, Holds, Slots
  <2> QED
    BY <2>1 DEF Init, Set!Init
<1>2. IInv /\ [Next]_vars => [Set!Next]_(Set!vars)
  <2> SUFFICES ASSUME IInv, [Next]_vars
               PROVE  [Set!Next]_(Set!vars)
    OBVIOUS
  <2>1. CASE UNCHANGED vars
    BY <2>1 DEF vars, Set!vars, Contents, Holds, Slots
  <2>2. CASE Next
    BY <2>2, StepImplements DEF Next
  <2> QED
    BY <2>1, <2>2
<1> QED
  BY <1>1, <1>2, Invariance, PTL DEF Spec, Linearizable, Set!Spec
=============================================================================
