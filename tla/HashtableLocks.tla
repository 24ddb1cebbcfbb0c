---------------------------- MODULE HashtableLocks ----------------------------
(***************************************************************************)
(* lib/hashtable_locks.c ("linked-locks/single-probe/move"): one array of  *)
(* chains, a read-write lock on each chain for appending to it, and one    *)
(* read-write lock, swapLock, on the array: every call holds it for        *)
(* reading, newTable holds it for writing while it puts an empty array of  *)
(* twice the size in place of the old one.  The thread that swapped the    *)
(* arrays then inserts the old blocks again, one at a time, as any insert. *)
(*                                                                         *)
(* Chains only grow at their end, so a pointer into a chain is a position  *)
(* in it, and a chain is the sequence of its keys.  Walking a chain takes  *)
(* no chain lock: each block read is a step.  Appending is one step, since *)
(* all appends to a chain hold its lock.                                   *)
(***************************************************************************)
EXTENDS Integers, Sequences, SequencesExt, FiniteSets

CONSTANTS Threads,   \* the threads of the harness
          Keys,      \* the values of entry.val
          NULL,      \* no key
          InitSize,  \* the size of the first array
          Hash       \* Hash[k] = murmur3_32(k, kSize, head->seed)

ASSUME HashtableLocksAssumption ==
  /\ IsFiniteSet(Keys) /\ Keys # {} /\ NULL \notin Keys
  /\ NULL \notin Threads
  /\ InitSize \in Nat \ {0}
  /\ Hash \in [Keys -> Nat]

VARIABLES table,       \* head->table: slot -> chain; its domain is 0 .. TableSize-1
          resizing,    \* head->resizing
          tableLocks,  \* head->tableLocks: slot -> the thread that holds it, or NULL
          readers,     \* the threads that hold swapLock for reading
          cur,         \* head->cur, "approx of amount of elements in table"
          pc,          \* pc[t]: the point of its call that t is at
          op, key,     \* the call t is in, and its key
          ret,         \* what t's last call returned; 0 during a call
          node,        \* the key of the block that t's insertTable_inner inserts
          start,       \* the slot of node
          n,           \* how many blocks of the chain t has passed: its `p'
          val,         \* the result of addNode
          old,         \* what of prevTable t's newTable has still to insert; <<>> outside newTable
          seen         \* history: what was right of the array at some instant of t's call

vars == <<table, resizing, tableLocks, readers, cur, pc, op, key, ret, node, start, n, val,
          old, seen>>
shared == <<table, resizing, tableLocks, readers, cur>>
call == <<op, key, ret, old>>
locals == <<node, start, n, val>>

TableSize == Cardinality(DOMAIN table)
Chain(t) == table[start[t]]

Init ==
  /\ table = [s \in 0 .. InitSize - 1 |-> <<>>]
  /\ resizing = 0
  /\ tableLocks = [s \in 0 .. InitSize - 1 |-> NULL]
  /\ readers = {}
  /\ cur = 0
  /\ pc = [t \in Threads |-> "idle"]
  /\ op = [t \in Threads |-> "none"]
  /\ key = [t \in Threads |-> NULL]
  /\ ret = [t \in Threads |-> 0]
  /\ node = [t \in Threads |-> NULL]
  /\ start = [t \in Threads |-> 0]
  /\ n = [t \in Threads |-> 0]
  /\ val = [t \in Threads |-> 0]
  /\ old = [t \in Threads |-> <<>>]
  /\ seen = [t \in Threads |-> {}]

Goto(t, label) == pc' = [pc EXCEPT ![t] = label]

SetLocals(t, k, s, m, v) ==
  /\ node' = [node EXCEPT ![t] = k]
  /\ start' = [start EXCEPT ![t] = s]
  /\ n' = [n EXCEPT ![t] = m]
  /\ val' = [val EXCEPT ![t] = v]

Return(t, r) ==
  /\ Goto(t, "idle")
  /\ ret' = [ret EXCEPT ![t] = r]
  /\ op' = [op EXCEPT ![t] = "none"]
  /\ key' = [key EXCEPT ![t] = NULL]
  /\ SetLocals(t, NULL, 0, 0, 0)
  /\ old' = [old EXCEPT ![t] = <<>>]

\* The end of insertTable_inner: in newTable, go on with the next old block.
ReturnInner(t, r) ==
  IF old[t] = <<>>
    THEN Return(t, r)
    ELSE /\ Goto(t, "readd")
         /\ SetLocals(t, NULL, 0, 0, 0)
         /\ UNCHANGED call

Lock(t) == tableLocks[start[t]] = NULL /\ tableLocks' = [tableLocks EXCEPT ![start[t]] = t]
Unlock(t) == tableLocks' = [tableLocks EXCEPT ![start[t]] = NULL]
-----------------------------------------------------------------------------
(* insertTable_inner and addNode                                           *)

CallInsert(t) ==
  /\ pc[t] = "idle"
  /\ \E k \in Keys : key' = [key EXCEPT ![t] = k] /\ SetLocals(t, k, 0, 0, 0)
  /\ op' = [op EXCEPT ![t] = "insert"]
  /\ Goto(t, "enter")
  /\ ret' = [ret EXCEPT ![t] = 0]
  /\ UNCHANGED <<shared, old>>

\* rdlock of swapLock (no thread holds it for writing between two steps).
InsertInner(t) ==
  /\ pc[t] = "enter"
  /\ readers' = readers \cup {t}
  /\ SetLocals(t, node[t], Hash[node[t]] % TableSize, 0, 0)
  /\ Goto(t, "first")
  /\ UNCHANGED <<table, resizing, tableLocks, cur, call>>

\* Is the slot empty?
addNode(t) ==
  /\ pc[t] = "first"
  /\ Goto(t, IF Chain(t) = <<>> THEN "lockfirst" ELSE "walk")
  /\ UNCHANGED <<shared, call, locals>>

LockFirst(t) ==
  /\ pc[t] = "lockfirst"
  /\ Lock(t)
  /\ Goto(t, "putfirst")
  /\ UNCHANGED <<table, resizing, readers, cur, call, locals>>

\* A slip of PutFirst: the slot is not looked at again under the lock.
PutFirst_NoSecondLook(t) ==
  /\ pc[t] = "putfirst"
  /\ Unlock(t)
  /\ table' = [table EXCEPT ![start[t]] = <<node[t]>>]
  /\ Goto(t, "count")
  /\ UNCHANGED <<resizing, readers, cur, call, locals>>

\* With the lock, if the slot is still empty.
PutFirst(t) ==
  /\ pc[t] = "putfirst"
  /\ Unlock(t)
  /\ IF Chain(t) = <<>>
       THEN table' = [table EXCEPT ![start[t]] = <<node[t]>>] /\ Goto(t, "count")
       ELSE UNCHANGED table /\ Goto(t, "walk")
  /\ UNCHANGED <<resizing, readers, cur, call, locals>>

Walk(t) ==
  /\ pc[t] = "walk"
  /\ UNCHANGED <<shared, call>>
  /\ IF n[t] = Len(Chain(t))
       THEN Goto(t, "locklast") /\ UNCHANGED locals
       ELSE IF Chain(t)[n[t] + 1] = node[t]
              THEN Goto(t, "unlock") /\ SetLocals(t, node[t], start[t], 0, -1)
              ELSE Goto(t, "walk") /\ SetLocals(t, node[t], start[t], n[t] + 1, 0)

LockLast(t) ==
  /\ pc[t] = "locklast"
  /\ Lock(t)
  /\ Goto(t, "putlast")
  /\ UNCHANGED <<table, resizing, readers, cur, call, locals>>

\* A slip of PutLast: the blocks added since the walk are not looked at.
PutLast_NoSecondWalk(t) ==
  /\ pc[t] = "putlast"
  /\ Unlock(t)
  /\ table' = [table EXCEPT ![start[t]] = Append(@, node[t])]
  /\ Goto(t, "count")
  /\ UNCHANGED <<resizing, readers, cur, call, locals>>

\* With the lock, look at the blocks added since, and then append.
PutLast(t) ==
  /\ pc[t] = "putlast"
  /\ Unlock(t)
  /\ IF \E m \in n[t] .. Len(Chain(t)) : Chain(t)[m] = node[t]
       THEN /\ Goto(t, "unlock")
            /\ SetLocals(t, node[t], start[t], 0, -1)
            /\ UNCHANGED table
       ELSE /\ table' = [table EXCEPT ![start[t]] = Append(@, node[t])]
            /\ Goto(t, "count")
            /\ UNCHANGED locals
  /\ UNCHANGED <<resizing, readers, cur, call>>

\* head->cur++ holds no lock that excludes another thread's: read, then write.
ReadCur(t) ==
  /\ pc[t] = "count"
  /\ SetLocals(t, node[t], start[t], 0, cur)
  /\ Goto(t, "write")
  /\ UNCHANGED <<shared, call>>

WriteCur(t) ==
  /\ pc[t] = "write"
  /\ cur' = val[t] + 1
  /\ Goto(t, "unlock")
  /\ UNCHANGED <<table, resizing, tableLocks, readers, call, locals>>

\* unlock of swapLock, and the result.
LeaveInner(t) ==
  /\ pc[t] = "unlock"
  /\ readers' = readers \ {t}
  /\ IF val[t] = -1
       THEN ReturnInner(t, 0)
       ELSE Goto(t, "load") /\ UNCHANGED <<call, locals>>
  /\ UNCHANGED <<table, resizing, tableLocks, cur>>

\* Is the table too full, and no thread resizing it?
TestLoad(t) ==
  /\ pc[t] = "load"
  /\ IF resizing = 0 /\ val[t] > TableSize
       THEN Goto(t, "cas") /\ UNCHANGED <<call, locals>>
       ELSE ReturnInner(t, 1)
  /\ UNCHANGED shared

\* A slip of StartResizing: head->resizing is stored to, not swapped.
StartResizing_Store(t) ==
  /\ pc[t] = "cas"
  /\ resizing' = 1 /\ Goto(t, "swap")
  /\ UNCHANGED <<table, tableLocks, readers, cur, call, locals>>

StartResizing(t) ==
  /\ pc[t] = "cas"
  /\ IF resizing = 0
       THEN resizing' = 1 /\ Goto(t, "swap") /\ UNCHANGED <<call, locals>>
       ELSE ReturnInner(t, 1) /\ UNCHANGED resizing
  /\ UNCHANGED <<table, tableLocks, readers, cur>>
-----------------------------------------------------------------------------
(* newTable(head)                                                          *)

\* A slip of newTable: the array grows and its locks do not.
newTable_SameLocks(t) ==
  /\ pc[t] = "swap"
  /\ readers = {}
  /\ old' = [old EXCEPT ![t] = table]
  /\ table' = [s \in 0 .. 2 * TableSize - 1 |-> <<>>]
  /\ cur' = 0
  /\ SetLocals(t, NULL, 0, 0, 0)
  /\ Goto(t, "readd")
  /\ UNCHANGED <<resizing, tableLocks, readers, op, key, ret>>

\* A slip of newTable: the new array starts with the count of the old one.
newTable_SameCount(t) ==
  /\ pc[t] = "swap"
  /\ readers = {}
  /\ old' = [old EXCEPT ![t] = table]
  /\ table' = [s \in 0 .. 2 * TableSize - 1 |-> <<>>]
  /\ tableLocks' = [s \in 0 .. 2 * TableSize - 1 |-> NULL]
  /\ SetLocals(t, NULL, 0, 0, 0)
  /\ Goto(t, "readd")
  /\ UNCHANGED <<cur, resizing, readers, op, key, ret>>

\* Under the wrlock of swapLock, which waits until nobody reads.
newTable(t) ==
  /\ pc[t] = "swap"
  /\ readers = {}
  /\ old' = [old EXCEPT ![t] = table]
  /\ table' = [s \in 0 .. 2 * TableSize - 1 |-> <<>>]
  /\ tableLocks' = [s \in 0 .. 2 * TableSize - 1 |-> NULL]
  /\ cur' = 0
  /\ SetLocals(t, NULL, 0, 0, 0)
  /\ Goto(t, "readd")
  /\ UNCHANGED <<resizing, readers, op, key, ret>>

\* The slots of prevTable with blocks left in them.
Left(t) == {s \in DOMAIN old[t] : old[t][s] # <<>>}

\* The next old block, or resizing = 0 and back to insertTable, which returns 1.
ReAdd(t) ==
  /\ pc[t] = "readd"
  /\ UNCHANGED <<table, tableLocks, readers, cur>>
  /\ \/ Left(t) = {} /\ resizing' = 0 /\ Return(t, 1)
     \/ \E s \in Left(t) :
          /\ \A u \in Left(t) : s <= u
          /\ SetLocals(t, Head(old[t][s]), 0, 0, 0)
          /\ old' = [old EXCEPT ![t][s] = Tail(@)]
          /\ Goto(t, "enter")
          /\ UNCHANGED <<resizing, op, key, ret>>
-----------------------------------------------------------------------------
(* checkTableQuery(head, val)                                              *)

CallQuery(t) ==
  /\ pc[t] = "idle"
  /\ \E k \in Keys : key' = [key EXCEPT ![t] = k]
  /\ op' = [op EXCEPT ![t] = "query"]
  /\ Goto(t, "query")
  /\ ret' = [ret EXCEPT ![t] = 0]
  /\ UNCHANGED <<shared, old, locals>>

checkTableQuery(t) ==
  /\ pc[t] = "query"
  /\ readers' = readers \cup {t}
  /\ SetLocals(t, key[t], Hash[key[t]] % TableSize, 0, 0)
  /\ Goto(t, "qwalk")
  /\ UNCHANGED <<table, resizing, tableLocks, cur, call>>

\* A slip of WalkQuery: the last block of the chain is not looked at.
WalkQuery_StopsShort(t) ==
  /\ pc[t] = "qwalk"
  /\ UNCHANGED <<shared, call>>
  /\ IF n[t] + 1 >= Len(Chain(t))
       THEN Goto(t, "qunlock") /\ SetLocals(t, key[t], start[t], n[t], 0)
       ELSE IF Chain(t)[n[t] + 1] = key[t]
              THEN Goto(t, "qunlock") /\ SetLocals(t, key[t], start[t], n[t], 1)
              ELSE Goto(t, "qwalk") /\ SetLocals(t, key[t], start[t], n[t] + 1, 0)

WalkQuery(t) ==
  /\ pc[t] = "qwalk"
  /\ UNCHANGED <<shared, call>>
  /\ IF n[t] = Len(Chain(t))
       THEN Goto(t, "qunlock") /\ SetLocals(t, key[t], start[t], n[t], 0)
       ELSE IF Chain(t)[n[t] + 1] = key[t]
              THEN Goto(t, "qunlock") /\ SetLocals(t, key[t], start[t], n[t], 1)
              ELSE Goto(t, "qwalk") /\ SetLocals(t, key[t], start[t], n[t] + 1, 0)

LeaveQuery(t) ==
  /\ pc[t] = "qunlock"
  /\ readers' = readers \ {t}
  /\ Return(t, val[t])
  /\ UNCHANGED <<table, resizing, tableLocks, cur>>
-----------------------------------------------------------------------------
Step(t) ==
  \/ InsertInner(t) \/ addNode(t) \/ LockFirst(t) \/ PutFirst(t) \/ Walk(t) \/ LockLast(t)
  \/ PutLast(t) \/ ReadCur(t) \/ WriteCur(t) \/ LeaveInner(t) \/ TestLoad(t)
  \/ StartResizing(t) \/ newTable(t) \/ ReAdd(t)
  \/ checkTableQuery(t) \/ WalkQuery(t) \/ LeaveQuery(t)

InTable == UNION {ToSet(table[s]) : s \in DOMAIN table}

\* The keys that t's newTable has still to insert again, and the one it is at.
Detached(t) ==
  (UNION {ToSet(old[t][s]) : s \in DOMAIN old[t]})
    \cup (IF old[t] = <<>> \/ node[t] = NULL THEN {} ELSE {node[t]})

\* The keys in the array and those on their way into it from the one before.
Contents == InTable \cup UNION {Detached(t) : t \in Threads}

\* The history variable follows the calls in progress and constrains nothing.
Look ==
  seen' = [t \in Threads |->
             IF op'[t] = "none" THEN {}
             ELSE seen[t] \cup {IF key'[t] \in InTable' THEN 1 ELSE 0}]

Next == \E t \in Threads : (CallInsert(t) \/ CallQuery(t) \/ Step(t)) /\ Look

Spec == Init /\ [][Next]_vars
-----------------------------------------------------------------------------
(* Properties                                                              *)

Points == {"idle", "enter", "first", "lockfirst", "putfirst", "walk", "locklast", "putlast",
           "count", "write", "unlock", "load", "cas", "swap", "readd", "query", "qwalk",
           "qunlock"}

\* Every variable has its type.
TypeOK ==
  /\ DOMAIN table = 0 .. TableSize - 1 /\ \A s \in DOMAIN table : table[s] \in Seq(Keys)
  /\ resizing \in {0, 1}
  /\ tableLocks \in [DOMAIN table -> Threads \cup {NULL}]
  /\ readers \subseteq Threads
  /\ cur \in Nat
  /\ pc \in [Threads -> Points]
  /\ op \in [Threads -> {"none", "insert", "query"}]
  /\ key \in [Threads -> Keys \cup {NULL}] /\ node \in [Threads -> Keys \cup {NULL}]
  /\ ret \in [Threads -> {0, 1}]
  /\ start \in [Threads -> DOMAIN table] /\ n \in [Threads -> Nat]
  /\ val \in [Threads -> Nat \cup {-1}]
  /\ \A t \in Threads : \A s \in DOMAIN old[t] : old[t][s] \in Seq(Keys)
  /\ seen \in [Threads -> SUBSET {0, 1}]

\* A key is at most once in the array, and in the slot that a query of the array
\* as it is now looks in.
OncePerTable ==
  /\ \A s \in DOMAIN table : IsInjective(table[s])
  /\ \A s \in DOMAIN table : \A k \in ToSet(table[s]) : s = Hash[k] % TableSize

\* The swap waits for every walk: while a thread takes the old chains apart, no
\* other call that began before the swap is still inside them, and only one
\* thread at a time does so.
OneRehash ==
  /\ \A t, u \in Threads : pc[t] \in {"swap", "readd"} /\ pc[u] \in {"swap", "readd"} => t = u
  /\ (\E t \in Threads : pc[t] \in {"swap", "readd"} \/ old[t] # <<>>) => resizing = 1
  /\ \A t \in Threads : t \in readers => start[t] \in DOMAIN table /\ n[t] <= Len(Chain(t))

\* Moving loses no key, however inserts and the rehash overlap.
NothingLost == [][Contents \subseteq Contents']_vars

\* head->cur loses increments but invents none, so a resize means that the table
\* really is too full.
CurNotAbove == cur <= Cardinality(InTable)

\* A query, and an insert that returns 0, answer what was right of the array at
\* some instant of the call: swapLock keeps the array they walk in place.
RightOfTheArray ==
  [][\A t \in Threads :
       op[t] # "none" /\ op'[t] = "none" =>
         IF op[t] = "query" THEN ret'[t] \in seen[t] ELSE ret'[t] = 0 => 1 \in seen[t]]_vars

\* hashtable.h: insertTable is to "return 1 if inserted, 0 if already there".  A
\* key that an insert puts into the array, to return 1, is not there already,
\* neither in the array nor among the blocks of a rehash under way.
InsertsOnlyNew ==
  [][\A t \in Threads :
       /\ pc[t] \in {"putfirst", "putlast"} /\ pc'[t] = "count"
       /\ old[t] = <<>>
       => key[t] \notin Contents]_vars
=============================================================================
