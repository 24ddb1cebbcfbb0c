------------------------------ MODULE Hashtable ------------------------------
(***************************************************************************)
(* lib/hashtable.c ("open/multiprobe/remain"): a growing list of open-     *)
(* addressing subtables.  A key probes HashAttempts slots of subtable 0,   *)
(* then HashAttempts slots of subtable 1, and so on; an insert claims the  *)
(* first NULL slot on that path by compare-and-swap, and when the path     *)
(* runs out publishes a subtable of twice the size, also by compare-and-   *)
(* swap.  Nothing is ever locked, moved or removed.                        *)
(*                                                                         *)
(* A step of a thread is one access to the shared memory: one read or one  *)
(* compare-and-swap.  A slot, once written, never changes, so the two      *)
(* reads of a slot that lookup and lookupQuery make (the test for NULL and *)
(* the read of ->val) are one step.  head->cur is a plain int: -O3 keeps   *)
(* the value it had when checkTableQuery started, an unoptimised build     *)
(* reads it again for each subtable; the model allows both, mixed.         *)
(***************************************************************************)
EXTENDS Integers, FiniteSets

CONSTANTS Threads,       \* the threads of the harness
          Keys,          \* the values of entry.val
          NULL,          \* the null pointer
          HashAttempts,  \* head->hashAttempts: probes per subtable
          InitSize,      \* the size of the first subtable
          Place          \* Place[k][n][size]: the slot that probe n of key k
                         \* looks at in a subtable of size slots

Attempts == 0 .. HashAttempts - 1

ASSUME HashtableAssumption ==
  /\ IsFiniteSet(Keys) /\ Keys # {}  \* val is an unsigned long
  /\ NULL \notin Keys
  /\ HashAttempts \in Nat \ {0}
  /\ InitSize \in Nat \ {0}

\* buckets[i] % ht->TableSize, with Hash[k][i] = murmur3_32(k, kSize, seeds[i]).
Remainders(Hash) ==
  [k \in Keys |-> [n \in Attempts |-> [size \in Nat \ {0} |-> Hash[k][n] % size]]]

\* No probe looks past the end of a subtable, whose size is InitSize, doubled a
\* number of times.
PlacesFit ==
  \A k \in Keys, n \in Attempts, size \in Nat \ {0} :
    size % InitSize = 0 => Place[k][n][size] \in 0 .. size - 1

VARIABLES TableArray,  \* head->TableArray; its domain is the non-NULL indices
          cur,         \* head->cur: the subtables in use are 0 .. cur-1
          pc,          \* pc[t]: the point of insertTable or checkTableQuery t is at
          op, key,     \* the call t is in, and its key
          ret,         \* what t's last call returned; 0 during a call
          j, i,        \* t's loop counters: the subtable and the probe
          LocalCur,    \* t's copy of head->cur
          seen         \* history: the answers right at some instant of t's call

vars == <<TableArray, cur, pc, op, key, ret, j, i, LocalCur, seen>>
shared == <<TableArray, cur>>
call == <<op, key, ret>>
locals == <<j, i, LocalCur>>

Entries == Keys \cup {NULL}

\* Mutant: calloc of one slot too few.
createTable_OneShort(tsize) ==
  [TableSize |-> tsize, InnerTable |-> [s \in 0 .. tsize - 2 |-> NULL]]

createTable(tsize) ==
  [TableSize |-> tsize, InnerTable |-> [s \in 0 .. tsize - 1 |-> NULL]]

\* The slot of subtable jj that probe n of key k looks at, and what is in it.
Bucket(k, n, jj) == Place[k][n][TableArray[jj].TableSize]
Slot(k, n, jj) == TableArray[jj].InnerTable[Bucket(k, n, jj)]
Probed(t) == Slot(key[t], i[t], j[t])

Init ==
  /\ TableArray = [jj \in {0} |-> createTable(InitSize)]
  /\ cur = 1
  /\ pc = [t \in Threads |-> "idle"]
  /\ op = [t \in Threads |-> "none"]
  /\ key = [t \in Threads |-> NULL]
  /\ ret = [t \in Threads |-> 0]
  /\ j = [t \in Threads |-> 0]
  /\ i = [t \in Threads |-> 0]
  /\ LocalCur = [t \in Threads |-> 0]
  /\ seen = [t \in Threads |-> {}]

Goto(t, label) == pc' = [pc EXCEPT ![t] = label]

Return(t, r) ==
  /\ Goto(t, "idle")
  /\ ret' = [ret EXCEPT ![t] = r]
  /\ op' = [op EXCEPT ![t] = "none"]
  /\ key' = [key EXCEPT ![t] = NULL]
  /\ j' = [j EXCEPT ![t] = 0]
  /\ i' = [i EXCEPT ![t] = 0]
  /\ LocalCur' = [LocalCur EXCEPT ![t] = 0]

\* `continue': the next probe of this subtable, or on to subtable jj.
NextAttempt(t, again, after, jj) ==
  /\ UNCHANGED <<call, LocalCur>>
  /\ IF i[t] + 1 < HashAttempts
       THEN /\ Goto(t, again)
            /\ i' = [i EXCEPT ![t] = @ + 1]
            /\ UNCHANGED j
       ELSE /\ Goto(t, after)
            /\ i' = [i EXCEPT ![t] = 0]
            /\ j' = [j EXCEPT ![t] = jj]
-----------------------------------------------------------------------------
(* insertTable(head, getStart(head) = 0, ent, tid)                         *)

CallInsert(t) ==
  /\ pc[t] = "idle"
  /\ \E k \in Keys : key' = [key EXCEPT ![t] = k]
  /\ op' = [op EXCEPT ![t] = "insert"]
  /\ LocalCur' = [LocalCur EXCEPT ![t] = cur]
  /\ Goto(t, "table")
  /\ ret' = [ret EXCEPT ![t] = 0]
  /\ UNCHANGED <<shared, j, i>>

\* Mutant: the loop stops one subtable early.
InsertTable_OffByOne(t) ==
  /\ pc[t] = "table"
  /\ Goto(t, IF j[t] + 1 < cur THEN "lookup" ELSE "grow")
  /\ UNCHANGED <<shared, call, locals>>

\* The test j < head->cur of the loop over subtables.
InsertTable(t) ==
  /\ pc[t] = "table"
  /\ Goto(t, IF j[t] < cur THEN "lookup" ELSE "grow")
  /\ UNCHANGED <<shared, call, locals>>

lookup(t) ==
  /\ pc[t] = "lookup"
  /\ UNCHANGED shared
  /\ \/ Probed(t) = NULL /\ Goto(t, "claim") /\ UNCHANGED <<call, locals>>
     \/ Probed(t) = key[t] /\ Return(t, 0)
     \/ Probed(t) \notin {NULL, key[t]} /\ NextAttempt(t, "lookup", "reload", j[t])

\* The compare-and-swap of the slot from NULL to the entry.
ClaimSlot(t) ==
  /\ pc[t] = "claim"
  /\ UNCHANGED cur
  /\ IF Probed(t) = NULL
       THEN /\ TableArray' = [TableArray EXCEPT
                   ![j[t]].InnerTable[Bucket(key[t], i[t], j[t])] = key[t]]
            /\ Return(t, 1)
       ELSE Goto(t, "recheck") /\ UNCHANGED <<TableArray, call, locals>>

\* Mutants: a lost compare-and-swap is not followed by the comparison of the
\* keys; or leaves the subtable instead of trying its next slot.
RecheckSlot_NoCompare(t) ==
  /\ pc[t] = "recheck"
  /\ UNCHANGED shared
  /\ NextAttempt(t, "lookup", "reload", j[t])

RecheckSlot_Break(t) ==
  /\ pc[t] = "recheck"
  /\ UNCHANGED shared
  /\ IF Probed(t) = key[t]
       THEN Return(t, 0)
       ELSE /\ Goto(t, "reload")
            /\ i' = [i EXCEPT ![t] = 0]
            /\ UNCHANGED <<call, j, LocalCur>>

\* The compare-and-swap failed: another thread's entry is in the slot.
RecheckSlot(t) ==
  /\ pc[t] = "recheck"
  /\ UNCHANGED shared
  /\ IF Probed(t) = key[t]
       THEN Return(t, 0)
       ELSE NextAttempt(t, "lookup", "reload", j[t])

\* LocalCur = head->cur, then j++.
ReloadCur(t) ==
  /\ pc[t] = "reload"
  /\ LocalCur' = [LocalCur EXCEPT ![t] = cur]
  /\ j' = [j EXCEPT ![t] = @ + 1]
  /\ Goto(t, "table")
  /\ UNCHANGED <<shared, call, i>>

\* Mutants: a store where the compare-and-swap is; the loser of the
\* compare-and-swap leaves head->cur to the winner.
addDrop_Store(t) ==
  /\ pc[t] = "grow"
  /\ TableArray' = [jj \in DOMAIN TableArray \cup {LocalCur[t]} |->
                      IF jj = LocalCur[t]
                        THEN createTable(2 * TableArray[LocalCur[t] - 1].TableSize)
                        ELSE TableArray[jj]]
  /\ Goto(t, "advance")
  /\ UNCHANGED <<cur, call, locals>>

addDrop_WinnerAdvances(t) ==
  /\ pc[t] = "grow"
  /\ UNCHANGED <<cur, call, locals>>
  /\ IF LocalCur[t] \in DOMAIN TableArray
       THEN Goto(t, "table") /\ UNCHANGED TableArray
       ELSE /\ Goto(t, "advance")
            /\ TableArray' = [jj \in DOMAIN TableArray \cup {LocalCur[t]} |->
                 IF jj = LocalCur[t]
                   THEN createTable(2 * TableArray[LocalCur[t] - 1].TableSize)
                   ELSE TableArray[jj]]

\* addDrop: the new subtable goes in at LocalCur, unless one is there already.
addDrop(t) ==
  /\ pc[t] = "grow"
  /\ TableArray' =
       IF LocalCur[t] \in DOMAIN TableArray
         THEN TableArray
         ELSE [jj \in DOMAIN TableArray \cup {LocalCur[t]} |->
                 IF jj = LocalCur[t]
                   THEN createTable(2 * TableArray[LocalCur[t] - 1].TableSize)
                   ELSE TableArray[jj]]
  /\ Goto(t, "advance")
  /\ UNCHANGED <<cur, call, locals>>

\* Mutant: an increment where the compare-and-swap is.
AdvanceCur_Increment(t) ==
  /\ pc[t] = "advance"
  /\ cur' = cur + 1
  /\ j' = [j EXCEPT ![t] = LocalCur[t]]
  /\ Goto(t, "table")
  /\ UNCHANGED <<TableArray, call, i, LocalCur>>

\* The end of addDrop, which moves head->cur on whoever added the subtable,
\* and start = LocalCur.
AdvanceCur(t) ==
  /\ pc[t] = "advance"
  /\ cur' = IF cur = LocalCur[t] THEN LocalCur[t] + 1 ELSE cur
  /\ j' = [j EXCEPT ![t] = LocalCur[t]]
  /\ Goto(t, "table")
  /\ UNCHANGED <<TableArray, call, i, LocalCur>>
-----------------------------------------------------------------------------
(* checkTableQuery(head, val)                                              *)

CallQuery(t) ==
  /\ pc[t] = "idle"
  /\ \E k \in Keys : key' = [key EXCEPT ![t] = k]
  /\ op' = [op EXCEPT ![t] = "query"]
  /\ LocalCur' = [LocalCur EXCEPT ![t] = cur]
  /\ Goto(t, "qtable")
  /\ ret' = [ret EXCEPT ![t] = 0]
  /\ UNCHANGED <<shared, j, i>>

\* The test j < head->cur, with head->cur read now or when the call started.
QueryTable(t) ==
  /\ pc[t] = "qtable"
  /\ UNCHANGED shared
  /\ \E limit \in {LocalCur[t], cur} :
       IF j[t] < limit
         THEN Goto(t, "qlookup") /\ UNCHANGED <<call, locals>>
         ELSE Return(t, 0)

lookupQuery(t) ==
  /\ pc[t] = "qlookup"
  /\ UNCHANGED shared
  /\ \/ Probed(t) = NULL /\ Return(t, 0)
     \/ Probed(t) = key[t] /\ Return(t, 1)
     \/ Probed(t) \notin {NULL, key[t]} /\ NextAttempt(t, "qlookup", "qtable", j[t] + 1)
-----------------------------------------------------------------------------
Step(t) ==
  \/ InsertTable(t) \/ lookup(t) \/ ClaimSlot(t) \/ RecheckSlot(t)
  \/ ReloadCur(t) \/ addDrop(t) \/ AdvanceCur(t)
  \/ QueryTable(t) \/ lookupQuery(t)

Slots(jj) == 0 .. TableArray[jj].TableSize - 1
Holds(jj, s, k) == TableArray[jj].InnerTable[s] = k

\* The keys in the table.
Contents ==
  {k \in Keys : \E jj \in DOMAIN TableArray : \E s \in Slots(jj) : Holds(jj, s, k)}

\* The history variable follows the calls in progress and constrains nothing.
Look ==
  seen' = [t \in Threads |->
             IF op'[t] = "none" THEN {}
             ELSE seen[t] \cup {IF key'[t] \in Contents' THEN 1 ELSE 0}]

ThreadStep(t) == CallInsert(t) \/ CallQuery(t) \/ Step(t)

Next == \E t \in Threads : ThreadStep(t) /\ Look

Spec == Init /\ [][Next]_vars
-----------------------------------------------------------------------------
(* Properties                                                              *)

\* A subtable is a non-empty array of entries, as large as several of the first.
IsSubTable(T) ==
  /\ T = [TableSize |-> T.TableSize, InnerTable |-> T.InnerTable]
  /\ T.TableSize \in Nat \ {0} /\ T.TableSize % InitSize = 0
  /\ T.InnerTable \in [0 .. T.TableSize - 1 -> Entries]

Points == {"idle", "table", "lookup", "claim", "recheck", "reload", "grow", "advance",
           "qtable", "qlookup"}

TablesTyped ==
  /\ DOMAIN TableArray \subseteq Nat
  /\ \A jj \in DOMAIN TableArray : IsSubTable(TableArray[jj])
  /\ cur \in Nat

LocalsTyped ==
  /\ pc \in [Threads -> Points]
  /\ op \in [Threads -> {"none", "insert", "query"}]
  /\ key \in [Threads -> Entries]
  /\ ret \in [Threads -> {0, 1}]
  /\ j \in [Threads -> Nat]
  /\ i \in [Threads -> Attempts]
  /\ LocalCur \in [Threads -> Nat]

\* Every variable has its type.
TypeOK == TablesTyped /\ LocalsTyped /\ seen \in [Threads -> SUBSET {0, 1}]

\* The probes of k up to probe n of subtable jj met neither NULL nor k.
PassedBelow(k, jj) ==
  \A j2 \in DOMAIN TableArray, m \in Attempts :
    j2 < jj => Slot(k, m, j2) \notin {NULL, k}
Passed(k, jj, n) ==
  /\ PassedBelow(k, jj)
  /\ \A m \in Attempts : m < n => Slot(k, m, jj) \notin {NULL, k}

\* The first-NULL-bucket rule that checkTableQuery relies on when it answers
\* 0 at a NULL slot (impl.tex): a key is on its own probe path, and every
\* slot before it on that path is taken by another key.
FirstNullBucket ==
  \A jj \in DOMAIN TableArray : \A s \in Slots(jj), k \in Keys :
    Holds(jj, s, k) => \E n \in Attempts : Bucket(k, n, jj) = s /\ Passed(k, jj, n)

\* However inserts of one key race, it is in at most one slot of one subtable.
NoDuplicateKey ==
  \A j1, j2 \in DOMAIN TableArray : \A s1 \in Slots(j1), s2 \in Slots(j2), k \in Keys :
    Holds(j1, s1, k) /\ Holds(j2, s2, k) => j1 = j2 /\ s1 = s2

\* Racing addDrops leave no hole and skip no index: the subtables are 0 to
\* cur-1, and at most one more that cur does not count yet; each has twice
\* the slots of the one before.
SubtablesInOrder ==
  /\ DOMAIN TableArray \in {0 .. cur - 1, 0 .. cur}
  /\ \A jj \in DOMAIN TableArray \ {0} :
       TableArray[jj].TableSize = 2 * TableArray[jj - 1].TableSize

\* A subtable is added only after every slot on some key's path is taken in
\* all the others, so none but the newest is empty, and there are never more
\* subtables than keys (TableArray has max_tables = 64 places).
GrowthIsEarned ==
  /\ \A jj \in DOMAIN TableArray :
       jj + 1 \in DOMAIN TableArray => \E s \in Slots(jj) : ~Holds(jj, s, NULL)
  /\ cur <= Cardinality(Keys)

Set == INSTANCE ConcurrentSet WITH members <- Contents, Ops <- {"insert", "query"}

\* insertTable and checkTableQuery are linearizable: of the inserts of a key
\* exactly one returns 1, and every other answer was right at some instant of
\* its call.
Linearizable == Set!Spec
=============================================================================
