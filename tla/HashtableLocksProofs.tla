------------------------- MODULE HashtableLocksProofs -------------------------
(***************************************************************************)
(* Proofs about HashtableLocks, for any set of threads, any keys, any hash *)
(* function and any initial size.                                          *)
(***************************************************************************)
EXTENDS HashtableLocks, FiniteSetTheorems, TLAPS

InnerPoints == {"first", "lockfirst", "putfirst", "walk", "locklast", "putlast", "count",
                "write", "unlock"}
InsertPoints == InnerPoints \cup {"enter", "load", "cas", "swap", "readd"}
ReadPoints == InnerPoints \cup {"qwalk", "qunlock"}
QueryPoints == {"query", "qwalk", "qunlock"}
WalkPoints == {"walk", "locklast", "putlast", "qwalk"}

\* The key that t looks for.
Wanted(t) == IF op[t] = "query" THEN key[t] ELSE node[t]

ArrayTyped ==
  /\ TableSize \in Nat \ {0}
  /\ table \in [0 .. TableSize - 1 -> Seq(Keys)]
  /\ resizing \in {0, 1}
  /\ tableLocks \in [0 .. TableSize - 1 -> Threads \cup {NULL}]
  /\ readers \subseteq Threads
  /\ cur \in Nat

LocalsTyped ==
  /\ pc \in [Threads -> Points]
  /\ op \in [Threads -> {"none", "insert", "query"}]
  /\ key \in [Threads -> Keys \cup {NULL}]
  /\ ret \in [Threads -> {0, 1}]
  /\ node \in [Threads -> Keys \cup {NULL}]
  /\ start \in [Threads -> 0 .. TableSize - 1]
  /\ n \in [Threads -> Nat]
  /\ val \in [Threads -> Nat \cup {-1}]
  /\ old = [t \in Threads |-> old[t]]
  /\ \A t \in Threads : \A s \in DOMAIN old[t] : old[t][s] \in Seq(Keys)
  /\ seen \in [Threads -> SUBSET {0, 1}]

Typed == ArrayTyped /\ LocalsTyped

\* t's call has taken the array apart, or is about to.
Rehashing(t) == pc[t] = "swap" \/ old[t] # <<>>
OneRehasher ==
  /\ \A t, u \in Threads : Rehashing(t) /\ Rehashing(u) => t = u
  /\ \A t \in Threads : Rehashing(t) => resizing = 1

\* The keys of the blocks that are in the array and not yet counted by their threads.
Pending == {t \in Threads : pc[t] \in {"count", "write"}}
Settled == InTable \ {node[t] : t \in Pending}

\* Two threads never append the same key, and head->cur, or the copy of it a thread
\* is to add one to, counts at most the keys whose inserts have counted.
Counts ==
  /\ \A t, u \in Pending : node[t] = node[u] => t = u
  /\ cur <= Cardinality(Settled)
  /\ \A t \in Threads : pc[t] = "write" => val[t] <= Cardinality(Settled)

\* What thread t has established by the time it is where it is.
ThreadInv(t) ==
  /\ pc[t] = "idle" <=> op[t] = "none"
  /\ pc[t] \in InsertPoints <=> op[t] = "insert"
  /\ pc[t] # "idle" => key[t] \in Keys
  /\ pc[t] \in ReadPoints <=> t \in readers
  /\ pc[t] \in InnerPoints \cup {"enter", "load", "cas"} =>
       node[t] \in Keys /\ (old[t] = <<>> => node[t] = key[t])
  /\ pc[t] = "readd" => old[t] # <<>> /\ node[t] = NULL
  /\ pc[t] = "swap" => old[t] = <<>>
  /\ old[t] # <<>> => pc[t] \in InsertPoints
  /\ pc[t] \in ReadPoints => start[t] = Hash[Wanted(t)] % TableSize
  /\ pc[t] \in {"walk", "locklast", "putlast"} => Chain(t) # <<>>
  /\ pc[t] \in {"locklast", "putlast"} => 1 <= n[t]
  /\ pc[t] \in {"first", "lockfirst", "putfirst"} => n[t] = 0
  /\ pc[t] \in ReadPoints => n[t] <= Len(Chain(t))
  /\ pc[t] \in WalkPoints => \A m \in 1 .. n[t] : Chain(t)[m] # Wanted(t)
  /\ pc[t] = "qunlock" => val[t] \in {0, 1} \cap seen[t]
  /\ pc[t] \in {"count", "write", "unlock"} => node[t] \in ToSet(Chain(t))
  /\ pc[t] \in {"load", "cas"} /\ old[t] # <<>> => node[t] \in InTable
  /\ pc[t] \in {"write", "load", "cas"} => val[t] \in Nat
  /\ pc[t] = "unlock" /\ val[t] = -1 /\ old[t] = <<>> => 1 \in seen[t]

\* The inductive invariant.
Inv == Typed /\ OncePerTable /\ OneRehasher /\ Counts /\ \A t \in Threads : ThreadInv(t)

ThreadStep(t) == CallInsert(t) \/ CallQuery(t) \/ Step(t)
-----------------------------------------------------------------------------
(* Types                                                                   *)

\* The size of an array of m slots is m.
LEMMA SizeOfArray ==
  \A m \in Nat : Cardinality(0 .. m - 1) = m
<1> SUFFICES ASSUME NEW m \in Nat
             PROVE  Cardinality(0 .. m - 1) = m
  OBVIOUS
<1>1. Cardinality(0 .. m - 1) = IF 0 > m - 1 THEN 0 ELSE (m - 1) - 0 + 1
  BY FS_Interval
<1> QED
  BY <1>1

\* The inductive invariant gives every variable its type.
LEMMA TypedIsTypeOK ==
  Typed => TypeOK
BY DEF Typed, ArrayTyped, LocalsTyped, TypeOK

\* Every step leaves an array of chains and a lock for each, the same number or
\* twice as many.
LEMMA ArrayStep ==
  ASSUME Typed, NEW t \in Threads, ThreadInv(t), ThreadStep(t)
  PROVE  ArrayTyped' /\ TableSize' \in {TableSize, 2 * TableSize}
<1> USE DEF Typed, ArrayTyped
<1>1. ASSUME UNCHANGED table
      PROVE  TableSize' = TableSize
  BY <1>1 DEF TableSize
<1>2. start[t] \in 0 .. TableSize - 1
  BY DEF LocalsTyped
<1>3. CASE UNCHANGED shared
  BY <1>1, <1>3 DEF shared
<1>4. CASE UNCHANGED <<table, resizing, tableLocks, cur>> /\ readers' \in SUBSET Threads
  BY <1>1, <1>4
<1>5. CASE UNCHANGED <<table, tableLocks, readers, cur>> /\ resizing' \in {0, 1}
  BY <1>1, <1>5
<1>6. CASE UNCHANGED <<table, resizing, readers, cur>> /\ Lock(t)
  BY <1>1, <1>2, <1>6 DEF Lock
<1>7. CASE WriteCur(t)
  <2>1. val[t] \in Nat
    BY <1>7 DEF WriteCur, ThreadInv
  <2> QED
    BY <1>1, <1>7, <2>1 DEF WriteCur
<1>8. ASSUME UNCHANGED <<resizing, readers, cur>>, Unlock(t),
             UNCHANGED table \/ \E c \in Seq(Keys) : table' = [table EXCEPT ![start[t]] = c]
      PROVE  ArrayTyped' /\ TableSize' \in {TableSize, 2 * TableSize}
  <2>1. DOMAIN table' = DOMAIN table /\ \A s \in DOMAIN table : table'[s] \in Seq(Keys)
    BY <1>2, <1>8
  <2>2. TableSize' = TableSize
    BY <2>1 DEF TableSize
  <2>3. table' \in [0 .. TableSize' - 1 -> Seq(Keys)]
    BY <1>8, <2>1, <2>2
  <2> QED
    BY <1>2, <1>8, <2>2, <2>3 DEF Unlock
<1>9. CASE PutFirst(t) \/ PutLast(t)
  <2>1. node[t] \in Keys
    BY <1>9 DEF PutFirst, PutLast, ThreadInv, InnerPoints
  <2>2. <<node[t]>> \in Seq(Keys) /\ Append(table[start[t]], node[t]) \in Seq(Keys)
    BY <1>2, <2>1
  <2>3. UNCHANGED table \/ \E c \in Seq(Keys) : table' = [table EXCEPT ![start[t]] = c]
    BY <1>9, <2>2 DEF PutFirst, PutLast
  <2> QED
    BY <1>8, <1>9, <2>3 DEF PutFirst, PutLast
<1>10. CASE newTable(t)
  <2>1. 2 * TableSize \in Nat \ {0}
    OBVIOUS
  <2>2. DOMAIN table' = 0 .. 2 * TableSize - 1
    BY <1>10 DEF newTable
  <2>3. TableSize' = 2 * TableSize
    BY <2>1, <2>2, SizeOfArray DEF TableSize
  <2> HIDE DEF TableSize
  <2>4. <<>> \in Seq(Keys)
    OBVIOUS
  <2>5. table' \in [0 .. TableSize' - 1 -> Seq(Keys)]
    BY <1>10, <2>3, <2>4 DEF newTable
  <2> QED
    BY <1>10, <2>1, <2>3, <2>5 DEF newTable
<1> QED
  BY <1>3, <1>4, <1>5, <1>6, <1>7, <1>9, <1>10
  DEF ThreadStep, Step, CallInsert, CallQuery, InsertInner, addNode, LockFirst, Walk, LockLast,
      ReadCur, LeaveInner, TestLoad, StartResizing, ReAdd, checkTableQuery, WalkQuery,
      LeaveQuery, shared

\* The locals of an insertTable_inner or a walk are typed if what they are set to is.
LEMMA SetLocalsTyped ==
  ASSUME Typed, NEW t \in Threads, ArrayTyped', TableSize' \in {TableSize, 2 * TableSize},
         NEW k \in Keys \cup {NULL}, NEW s \in 0 .. TableSize' - 1, NEW m \in Nat,
         NEW v \in Nat \cup {-1}, SetLocals(t, k, s, m, v)
  PROVE  /\ node' \in [Threads -> Keys \cup {NULL}]
         /\ start' \in [Threads -> 0 .. TableSize' - 1]
         /\ n' \in [Threads -> Nat]
         /\ val' \in [Threads -> Nat \cup {-1}]
<1>1. TableSize \in Nat /\ TableSize' \in Nat /\ TableSize <= TableSize'
  BY DEF Typed, ArrayTyped
<1>2. start \in [Threads -> 0 .. TableSize' - 1]
  BY <1>1 DEF Typed, LocalsTyped
<1> QED
  BY <1>2 DEF Typed, LocalsTyped, SetLocals

\* So they are after a return, of an insertTable_inner or of a call.
LEMMA ReturnTyped ==
  ASSUME Typed, NEW t \in Threads, ArrayTyped', TableSize' \in {TableSize, 2 * TableSize},
         NEW r \in {0, 1}, Return(t, r) \/ ReturnInner(t, r)
  PROVE  /\ pc' \in [Threads -> Points]
         /\ op' \in [Threads -> {"none", "insert", "query"}]
         /\ key' \in [Threads -> Keys \cup {NULL}]
         /\ ret' \in [Threads -> {0, 1}]
         /\ node' \in [Threads -> Keys \cup {NULL}]
         /\ start' \in [Threads -> 0 .. TableSize' - 1]
         /\ n' \in [Threads -> Nat]
         /\ val' \in [Threads -> Nat \cup {-1}]
         /\ old' = [u \in Threads |-> old'[u]]
         /\ \A u \in Threads : \A s \in DOMAIN old'[u] : old'[u][s] \in Seq(Keys)
<1>1. SetLocals(t, NULL, 0, 0, 0)
  BY DEF Return, ReturnInner
<1>2. 0 \in 0 .. TableSize' - 1
  BY DEF ArrayTyped
<1>3. DOMAIN <<>> = {}
  OBVIOUS
<1>4. /\ node' \in [Threads -> Keys \cup {NULL}]
      /\ start' \in [Threads -> 0 .. TableSize' - 1]
      /\ n' \in [Threads -> Nat]
      /\ val' \in [Threads -> Nat \cup {-1}]
  BY <1>1, <1>2, SetLocalsTyped
<1>5. CASE Return(t, r)
  BY <1>3, <1>4, <1>5 DEF Return, Typed, LocalsTyped, Goto, Points
<1>6. CASE ReturnInner(t, r) /\ old[t] # <<>>
  BY <1>4, <1>6 DEF ReturnInner, Typed, LocalsTyped, Goto, Points, call
<1> QED
  BY <1>5, <1>6 DEF ReturnInner

\* The history follows, whatever the step.
LEMMA LookTyped ==
  ASSUME Look
  PROVE  seen \in [Threads -> SUBSET {0, 1}] => seen' \in [Threads -> SUBSET {0, 1}]
BY DEF Look

\* Every step keeps the locals typed.
LEMMA LocalsStep ==
  ASSUME Typed, NEW t \in Threads, ThreadInv(t), ThreadStep(t), Look
  PROVE  LocalsTyped'
<1>1. ArrayTyped' /\ TableSize' \in {TableSize, 2 * TableSize}
  BY ArrayStep
<1>2. TableSize \in Nat /\ TableSize' \in Nat /\ TableSize <= TableSize' /\ TableSize # 0
  BY <1>1 DEF Typed, ArrayTyped
<1>3. start \in [Threads -> 0 .. TableSize' - 1] /\ start[t] \in 0 .. TableSize' - 1
      /\ 0 \in 0 .. TableSize' - 1
  BY <1>2 DEF Typed, LocalsTyped
<1>4. \A k \in Keys : Hash[k] % TableSize \in 0 .. TableSize' - 1
  <2>1. \A k \in Keys : Hash[k] \in Nat
    BY HashtableLocksAssumption
  <2>2. \A x \in Nat, y \in Nat \ {0} : x % y \in 0 .. y - 1
    OBVIOUS
  <2>3. \A k \in Keys : Hash[k] % TableSize \in 0 .. TableSize - 1
    BY <1>2, <2>1, <2>2
  <2> QED
    BY <1>2, <2>3
<1>5. seen' \in [Threads -> SUBSET {0, 1}]
  BY LookTyped DEF Typed, LocalsTyped
<1> DEFINE Set(k, s, m, v) ==
             /\ k \in Keys \cup {NULL} /\ s \in 0 .. TableSize' - 1
             /\ m \in Nat /\ v \in Nat \cup {-1} /\ SetLocals(t, k, s, m, v)
           Calls == UNCHANGED call
           Locals == UNCHANGED locals \/ \E k, s, m, v : Set(k, s, m, v)
<1>6. ASSUME \E label \in Points : Goto(t, label), Calls, Locals
      PROVE  LocalsTyped'
  <2>1. /\ node' \in [Threads -> Keys \cup {NULL}]
        /\ start' \in [Threads -> 0 .. TableSize' - 1]
        /\ n' \in [Threads -> Nat]
        /\ val' \in [Threads -> Nat \cup {-1}]
    BY <1>1, <1>3, <1>6, SetLocalsTyped DEF locals, Typed, LocalsTyped
  <2> QED
    BY <1>5, <1>6, <2>1 DEF Typed, LocalsTyped, Goto, call
<1>7. ASSUME NEW r \in {0, 1}, Return(t, r) \/ ReturnInner(t, r)
      PROVE  LocalsTyped'
  BY <1>1, <1>5, <1>7, ReturnTyped DEF LocalsTyped
<1>8. CASE CallInsert(t) \/ CallQuery(t)
  <2>1. /\ node' \in [Threads -> Keys \cup {NULL}]
        /\ start' \in [Threads -> 0 .. TableSize' - 1]
        /\ n' \in [Threads -> Nat]
        /\ val' \in [Threads -> Nat \cup {-1}]
    BY <1>1, <1>3, <1>8, SetLocalsTyped DEF CallInsert, CallQuery, locals, Typed, LocalsTyped
  <2>2. \E k \in Keys : key' = [key EXCEPT ![t] = k]
    BY <1>8 DEF CallInsert, CallQuery
  <2>3. \E o \in {"insert", "query"} : op' = [op EXCEPT ![t] = o]
    BY <1>8 DEF CallInsert, CallQuery
  <2>4. UNCHANGED old /\ ret' = [ret EXCEPT ![t] = 0]
    BY <1>8 DEF CallInsert, CallQuery
  <2>5. pc' \in [Threads -> Points]
    BY <1>8 DEF CallInsert, CallQuery, Goto, Points, Typed, LocalsTyped
  <2>6. op' \in [Threads -> {"none", "insert", "query"}] /\ key' \in [Threads -> Keys \cup {NULL}]
    BY <2>2, <2>3 DEF Typed, LocalsTyped
  <2>7. ret' \in [Threads -> {0, 1}]
    BY <2>4 DEF Typed, LocalsTyped
  <2>8. /\ old' = [u \in Threads |-> old'[u]]
        /\ \A u \in Threads : \A s \in DOMAIN old'[u] : old'[u][s] \in Seq(Keys)
    BY <2>4 DEF Typed, LocalsTyped
  <2> QED
    BY <1>5, <2>1, <2>5, <2>6, <2>7, <2>8 DEF LocalsTyped
<1>9. CASE InsertInner(t) \/ checkTableQuery(t)
  <2>1. /\ InsertInner(t) => node[t] \in Keys
        /\ checkTableQuery(t) => key[t] \in Keys
    BY DEF InsertInner, checkTableQuery, ThreadInv
  <2>2. Locals
    BY <1>4, <1>9, <2>1 DEF InsertInner, checkTableQuery, Typed, LocalsTyped
  <2> QED
    BY <1>6, <1>9, <2>2 DEF InsertInner, checkTableQuery, Points
<1>10. CASE addNode(t) \/ LockFirst(t) \/ PutFirst(t) \/ LockLast(t) \/ WriteCur(t)
  BY <1>6, <1>10 DEF addNode, LockFirst, PutFirst, LockLast, WriteCur, Points
<1>11. CASE Walk(t) \/ PutLast(t) \/ ReadCur(t)
  <2>1. node[t] \in Keys \cup {NULL} /\ n[t] \in Nat /\ n[t] + 1 \in Nat /\ cur \in Nat
    BY DEF Typed, LocalsTyped, ArrayTyped
  <2>2. Locals
    BY <1>3, <1>11, <2>1 DEF Walk, PutLast, ReadCur
  <2> QED
    BY <1>6, <1>11, <2>2 DEF Walk, PutLast, ReadCur, Points
<1>12. CASE LeaveInner(t) \/ TestLoad(t) \/ StartResizing(t)
  BY <1>6, <1>7, <1>12 DEF LeaveInner, TestLoad, StartResizing, Points
<1>13. CASE newTable(t)
  <2>1. SetLocals(t, NULL, 0, 0, 0)
    BY <1>13 DEF newTable
  <2>2. \A s \in DOMAIN table : table[s] \in Seq(Keys)
    BY DEF Typed, ArrayTyped
  <2>3. /\ old' = [u \in Threads |-> old'[u]]
        /\ \A u \in Threads : \A s \in DOMAIN old'[u] : old'[u][s] \in Seq(Keys)
    BY <1>13, <2>2 DEF newTable, Typed, LocalsTyped
  <2>4. pc' \in [Threads -> Points]
    BY <1>13 DEF newTable, Goto, Points, Typed, LocalsTyped
  <2> QED
    BY <1>1, <1>3, <1>5, <1>13, <2>1, <2>3, <2>4, SetLocalsTyped DEF newTable, Typed, LocalsTyped
<1>14. CASE ReAdd(t)
  <2>1. CASE Return(t, 1)
    BY <1>7, <2>1
  <2>2. ASSUME NEW s \in Left(t), SetLocals(t, Head(old[t][s]), 0, 0, 0),
               old' = [old EXCEPT ![t][s] = Tail(@)],
               Goto(t, "enter"), UNCHANGED <<op, key, ret>>
        PROVE  LocalsTyped'
    <3>1. old[t][s] \in Seq(Keys) /\ old[t][s] # <<>> /\ s \in DOMAIN old[t]
      BY <2>2 DEF Left, Typed, LocalsTyped
    <3>2. Head(old[t][s]) \in Keys /\ Tail(old[t][s]) \in Seq(Keys)
      BY <3>1
    <3>3. /\ old' = [u \in Threads |-> old'[u]]
          /\ \A u \in Threads : \A x \in DOMAIN old'[u] : old'[u][x] \in Seq(Keys)
      BY <2>2, <3>2 DEF Typed, LocalsTyped
    <3> QED
      BY <1>1, <1>3, <1>5, <2>2, <3>2, <3>3, SetLocalsTyped DEF Typed, LocalsTyped, Goto, Points
  <2> QED
    BY <1>14, <2>1, <2>2 DEF ReAdd
<1>15. CASE WalkQuery(t)
  <2>1. key[t] \in Keys \cup {NULL} /\ n[t] \in Nat /\ n[t] + 1 \in Nat
    BY DEF Typed, LocalsTyped
  <2>2. Locals
    BY <1>3, <1>15, <2>1 DEF WalkQuery
  <2> QED
    BY <1>6, <1>15, <2>2 DEF WalkQuery, Points
<1>16. CASE LeaveQuery(t)
  BY <1>7, <1>16 DEF LeaveQuery, ThreadInv
<1> QED
  BY <1>8, <1>9, <1>10, <1>11, <1>12, <1>13, <1>14, <1>15, <1>16 DEF ThreadStep, Step
-----------------------------------------------------------------------------
(* What a step does to the array                                           *)

\* t's block goes to the end of its chain, where its key is not.
Appends(t) ==
  /\ pc[t] \in {"putfirst", "putlast"}
  /\ node[t] \notin ToSet(Chain(t))
  /\ table' = [table EXCEPT ![start[t]] = Append(@, node[t])]
  /\ Goto(t, "count")
  /\ UNCHANGED <<resizing, readers, cur, call, locals>>

\* A key is in a chain if it is somewhere in it.
LEMMA ToSetFacts ==
  /\ \A c \in Seq(Keys), k \in Keys :
       /\ k \in ToSet(c) <=> \E m \in 1 .. Len(c) : c[m] = k
       /\ ToSet(Append(c, k)) = ToSet(c) \cup {k}
       /\ IsInjective(c) /\ k \notin ToSet(c) => IsInjective(Append(c, k))
       /\ ToSet(c) \subseteq Keys
  /\ ToSet(<<>>) = {} /\ IsInjective(<<>>)
<1>1. ASSUME NEW c \in Seq(Keys), NEW k \in Keys
      PROVE  /\ k \in ToSet(c) <=> \E m \in 1 .. Len(c) : c[m] = k
             /\ ToSet(Append(c, k)) = ToSet(c) \cup {k}
             /\ IsInjective(c) /\ k \notin ToSet(c) => IsInjective(Append(c, k))
             /\ ToSet(c) \subseteq Keys
  <2>1. DOMAIN c = 1 .. Len(c) /\ Len(c) \in Nat
    OBVIOUS
  <2>2. /\ DOMAIN Append(c, k) = 1 .. Len(c) + 1
        /\ \A m \in 1 .. Len(c) : Append(c, k)[m] = c[m]
        /\ Append(c, k)[Len(c) + 1] = k
    OBVIOUS
  <2>3. ToSet(Append(c, k)) = ToSet(c) \cup {k}
    BY <2>1, <2>2 DEF ToSet
  <2>4. IsInjective(c) /\ k \notin ToSet(c) => IsInjective(Append(c, k))
    BY <2>1, <2>2 DEF ToSet, IsInjective
  <2>5. ToSet(c) \subseteq Keys
    BY DEF ToSet
  <2> QED
    BY <2>1, <2>3, <2>4, <2>5 DEF ToSet
<1>2. ToSet(<<>>) = {} /\ IsInjective(<<>>)
  BY DEF ToSet, IsInjective
<1> QED
  BY <1>1, <1>2

\* With the chain lock, a thread whose key is not in its chain appends it.
LEMMA PutAppends ==
  ASSUME Typed, NEW t \in Threads, ThreadInv(t),
         \/ PutFirst(t) /\ Chain(t) = <<>>
         \/ PutLast(t) /\ ~\E m \in n[t] .. Len(Chain(t)) : Chain(t)[m] = node[t]
  PROVE  Appends(t)
<1>1. CASE PutFirst(t) /\ Chain(t) = <<>>
  <2>1. Append(<<>>, node[t]) = <<node[t]>>
    BY DEF ThreadInv
  <2> QED
    BY <1>1, <2>1, ToSetFacts DEF PutFirst, Appends, Chain
<1>2. CASE PutLast(t) /\ ~\E m \in n[t] .. Len(Chain(t)) : Chain(t)[m] = node[t]
  <2>1. /\ node[t] \in Keys /\ pc[t] = "putlast" /\ op[t] = "insert" /\ 1 <= n[t]
        /\ \A m \in 1 .. n[t] : Chain(t)[m] # node[t]
    BY <1>2 DEF PutLast, ThreadInv, InnerPoints, InsertPoints, WalkPoints, Wanted
  <2>2. Chain(t) \in Seq(Keys) /\ n[t] \in Nat
    BY DEF Typed, ArrayTyped, LocalsTyped, Chain
  <2>3. node[t] \notin ToSet(Chain(t))
    BY <1>2, <2>1, <2>2, ToSetFacts
  <2> QED
    BY <1>2, <2>1, <2>3 DEF PutLast, Appends
<1> QED
  BY <1>1, <1>2

\* A step leaves the chains alone, appends to one, or takes them all away.
LEMMA TableStep ==
  ASSUME Typed, NEW t \in Threads, ThreadInv(t), ThreadStep(t)
  PROVE  UNCHANGED table \/ Appends(t) \/ newTable(t)
<1>1. CASE PutFirst(t) \/ PutLast(t)
  BY <1>1, PutAppends DEF PutFirst, PutLast
<1> QED
  BY <1>1
  DEF ThreadStep, Step, CallInsert, CallQuery, InsertInner, addNode, LockFirst, Walk, LockLast,
      ReadCur, WriteCur, LeaveInner, TestLoad, StartResizing, ReAdd, checkTableQuery, WalkQuery,
      LeaveQuery, shared

\* Where a key is if it is in the array.
LEMMA InTableFacts ==
  ASSUME ArrayTyped
  PROVE  /\ \A k : k \in InTable <=> \E s \in 0 .. TableSize - 1 : k \in ToSet(table[s])
         /\ InTable \subseteq Keys
         /\ IsFiniteSet(InTable) /\ Cardinality(InTable) \in Nat
<1>1. \A k : k \in InTable <=> \E s \in 0 .. TableSize - 1 : k \in ToSet(table[s])
  BY DEF ArrayTyped, InTable
<1>2. InTable \subseteq Keys
  BY <1>1, ToSetFacts DEF ArrayTyped, ToSet
<1> QED
  BY <1>1, <1>2, FS_Subset, FS_CardinalityType, HashtableLocksAssumption

\* A key that is not in the slot its hash leads to is not in the array.
LEMMA NewKey ==
  ASSUME Inv, NEW t \in Threads, Appends(t)
  PROVE  /\ node[t] \in Keys /\ node[t] \notin InTable
         /\ start[t] \in 0 .. TableSize - 1 /\ start[t] = Hash[node[t]] % TableSize
<1>1. node[t] \in Keys /\ start[t] = Hash[node[t]] % TableSize
  BY DEF Inv, ThreadInv, Appends, InnerPoints, InsertPoints, ReadPoints, Wanted
<1>2. start[t] \in 0 .. TableSize - 1
  BY DEF Inv, Typed, LocalsTyped
<1>3. node[t] \notin InTable
  BY <1>1, <1>2, InTableFacts DEF Inv, Typed, OncePerTable, Appends, Chain, ArrayTyped
<1> QED
  BY <1>1, <1>2, <1>3

\* The step that appends adds the key to the array, and every chain keeps what it has.
LEMMA AppendsFacts ==
  ASSUME Inv, NEW t \in Threads, Appends(t)
  PROVE  /\ TableSize' = TableSize
         /\ InTable' = InTable \cup {node[t]}
         /\ \A s \in 0 .. TableSize - 1 :
              /\ table[s] \in Seq(Keys)
              /\ table'[s] = IF s = start[t] THEN Append(table[s], node[t]) ELSE table[s]
              /\ Len(table[s]) <= Len(table'[s])
              /\ \A m \in 1 .. Len(table[s]) : table'[s][m] = table[s][m]
              /\ table[s] # <<>> => table'[s] # <<>>
              /\ ToSet(table[s]) \subseteq ToSet(table'[s])
<1>1. node[t] \in Keys /\ start[t] \in 0 .. TableSize - 1
  BY NewKey
<1>2. ArrayTyped
  BY DEF Inv, Typed
<1>3. DOMAIN table' = DOMAIN table /\ DOMAIN table = 0 .. TableSize - 1
  BY <1>2 DEF Appends, ArrayTyped
<1>4. TableSize' = TableSize
  BY <1>3 DEF TableSize
<1>5. ASSUME NEW s \in 0 .. TableSize - 1
      PROVE  /\ table[s] \in Seq(Keys)
             /\ table'[s] = IF s = start[t] THEN Append(table[s], node[t]) ELSE table[s]
  BY <1>2, <1>3 DEF Appends, ArrayTyped
<1>6. ASSUME NEW s \in 0 .. TableSize - 1
      PROVE  /\ Len(table[s]) <= Len(table'[s])
             /\ \A m \in 1 .. Len(table[s]) : table'[s][m] = table[s][m]
             /\ table[s] # <<>> => table'[s] # <<>>
  <2>1. ASSUME NEW c \in Seq(Keys)
        PROVE  /\ Len(c) <= Len(Append(c, node[t]))
               /\ \A m \in 1 .. Len(c) : Append(c, node[t])[m] = c[m]
               /\ Append(c, node[t]) # <<>>
    <3> SUFFICES ASSUME NEW k \in Keys
                 PROVE  /\ Len(c) <= Len(Append(c, k))
                        /\ \A m \in 1 .. Len(c) : Append(c, k)[m] = c[m]
                        /\ Append(c, k) # <<>>
      BY <1>1
    <3>1. Len(c) \in Nat /\ Len(Append(c, k)) = Len(c) + 1 /\ Append(c, k) \in Seq(Keys)
      OBVIOUS
    <3>2. \A m \in 1 .. Len(c) : Append(c, k)[m] = c[m]
      OBVIOUS
    <3>3. Len(<<>>) = 0
      OBVIOUS
    <3> QED
      BY <3>1, <3>2, <3>3
  <2>2. CASE s = start[t]
    BY <1>5, <2>1, <2>2
  <2>3. CASE s # start[t]
    <3>1. table'[s] = table[s] /\ Len(table[s]) \in Nat
      BY <1>5, <2>3
    <3> QED
      BY <3>1
  <2> QED
    BY <2>2, <2>3
<1>7. ASSUME NEW s \in 0 .. TableSize - 1
      PROVE  ToSet(table'[s]) = IF s = start[t] THEN ToSet(table[s]) \cup {node[t]}
                                                ELSE ToSet(table[s])
  BY <1>1, <1>5, ToSetFacts
<1>8. InTable' = InTable \cup {node[t]}
  BY <1>1, <1>3, <1>7 DEF InTable
<1> QED
  BY <1>4, <1>5, <1>6, <1>7, <1>8

\* Where no step appends and none takes the array away, the array stays.
LEMMA SameFacts ==
  ASSUME UNCHANGED table
  PROVE  TableSize' = TableSize /\ InTable' = InTable
BY DEF TableSize, InTable

\* newTable leaves all chains of the array empty.
LEMMA NewTableFacts ==
  ASSUME ArrayTyped, NEW t \in Threads, newTable(t)
  PROVE  /\ InTable' = {}
         /\ DOMAIN table' = 0 .. 2 * TableSize - 1
         /\ \A s \in DOMAIN table' : table'[s] = <<>>
<1>1. /\ DOMAIN table' = 0 .. 2 * TableSize - 1
      /\ \A s \in DOMAIN table' : table'[s] = <<>>
  BY DEF newTable
<1> QED
  BY <1>1, ToSetFacts DEF InTable

\* A key stays at most once in the array, in its slot.
LEMMA OncePerTableStep ==
  ASSUME Inv, NEW t \in Threads, ThreadStep(t)
  PROVE  OncePerTable'
<1>1. CASE UNCHANGED table
  BY <1>1, SameFacts DEF Inv, OncePerTable
<1>2. CASE Appends(t)
  <2>1. DOMAIN table' = DOMAIN table /\ DOMAIN table = 0 .. TableSize - 1
    BY <1>2 DEF Appends, Inv, Typed, ArrayTyped
  <2>2. ASSUME NEW s \in 0 .. TableSize - 1, s # start[t]
        PROVE  IsInjective(table'[s]) /\ \A k \in ToSet(table'[s]) : s = Hash[k] % TableSize
    BY <1>2, <2>1, <2>2, AppendsFacts DEF Inv, OncePerTable
  <2>3. /\ IsInjective(table'[start[t]])
        /\ \A k \in ToSet(table'[start[t]]) : start[t] = Hash[k] % TableSize
    <3>1. /\ table'[start[t]] = Append(table[start[t]], node[t])
          /\ table[start[t]] \in Seq(Keys) /\ node[t] \in Keys
          /\ start[t] \in DOMAIN table /\ start[t] = Hash[node[t]] % TableSize
      BY <1>2, <2>1, NewKey, AppendsFacts
    <3>2. node[t] \notin ToSet(table[start[t]])
      BY <1>2 DEF Appends, Chain
    <3> QED
      BY <3>1, <3>2, ToSetFacts DEF Inv, OncePerTable
  <2> QED
    BY <1>2, <2>1, <2>2, <2>3, AppendsFacts DEF OncePerTable
<1>3. CASE newTable(t)
  BY <1>3, NewTableFacts, ToSetFacts DEF OncePerTable, Inv, Typed
<1> QED
  BY <1>1, <1>2, <1>3, TableStep DEF Inv, Typed

-----------------------------------------------------------------------------
(* The threads                                                             *)

\* A step of one thread leaves the locals of the others alone.
LEMMA OthersStep ==
  ASSUME Typed, NEW t \in Threads, ThreadStep(t), Look, NEW u \in Threads, u # t
  PROVE  /\ pc'[u] = pc[u] /\ op'[u] = op[u] /\ key'[u] = key[u] /\ node'[u] = node[u]
         /\ start'[u] = start[u] /\ n'[u] = n[u] /\ val'[u] = val[u] /\ old'[u] = old[u]
         /\ u \in readers' <=> u \in readers
         /\ op[u] # "none" => seen[u] \subseteq seen'[u]
<1> USE DEF Typed, LocalsTyped, ArrayTyped, Goto, SetLocals, call, locals, shared
<1>r. ASSUME NEW r, Return(t, r) \/ ReturnInner(t, r)
      PROVE  /\ pc'[u] = pc[u] /\ op'[u] = op[u] /\ key'[u] = key[u] /\ node'[u] = node[u]
             /\ start'[u] = start[u] /\ n'[u] = n[u] /\ val'[u] = val[u] /\ old'[u] = old[u]
  BY <1>r DEF Return, ReturnInner
<1> DEFINE Rest == /\ pc'[u] = pc[u] /\ op'[u] = op[u] /\ key'[u] = key[u] /\ node'[u] = node[u]
                   /\ start'[u] = start[u] /\ n'[u] = n[u] /\ val'[u] = val[u] /\ old'[u] = old[u]
                   /\ u \in readers' <=> u \in readers
<1>0. SUFFICES Rest
  BY DEF Look
<1>1. CASE CallInsert(t) \/ CallQuery(t)
  BY <1>1 DEF CallInsert, CallQuery
<1>2. CASE InsertInner(t) \/ addNode(t) \/ LockFirst(t) \/ PutFirst(t)
  BY <1>2 DEF InsertInner, addNode, LockFirst, PutFirst
<1>3. CASE Walk(t) \/ LockLast(t) \/ PutLast(t) \/ ReadCur(t) \/ WriteCur(t)
  BY <1>3 DEF Walk, LockLast, PutLast, ReadCur, WriteCur
<1>4. CASE LeaveInner(t)
  BY <1>4, <1>r DEF LeaveInner
<1>5. CASE TestLoad(t) \/ StartResizing(t)
  BY <1>5, <1>r DEF TestLoad, StartResizing
<1>6. CASE newTable(t)
  BY <1>6 DEF newTable
<1>7. CASE ReAdd(t)
  BY <1>7, <1>r DEF ReAdd
<1>8. CASE checkTableQuery(t) \/ WalkQuery(t)
  BY <1>8 DEF checkTableQuery, WalkQuery
<1>9. CASE LeaveQuery(t)
  BY <1>9, <1>r DEF LeaveQuery
<1> QED
  BY <1>1, <1>2, <1>3, <1>4, <1>5, <1>6, <1>7, <1>8, <1>9 DEF ThreadStep, Step

\* What the other threads have established stays true: swapLock keeps the array while
\* they walk it, and its chains only grow.
LEMMA OthersInv ==
  ASSUME Inv, NEW t \in Threads, ThreadStep(t), Look, NEW u \in Threads, u # t
  PROVE  ThreadInv(u)'
<1> Typed /\ ThreadInv(t) /\ ThreadInv(u)
  BY DEF Inv
<1>1. /\ pc'[u] = pc[u] /\ op'[u] = op[u] /\ key'[u] = key[u] /\ node'[u] = node[u]
      /\ start'[u] = start[u] /\ n'[u] = n[u] /\ val'[u] = val[u] /\ old'[u] = old[u]
      /\ u \in readers' <=> u \in readers
      /\ op[u] # "none" => seen[u] \subseteq seen'[u]
  BY OthersStep
<1>2. Wanted(u)' = Wanted(u)
  BY <1>1 DEF Wanted
<1>3. start[u] \in 0 .. TableSize - 1 /\ n[u] \in Nat
  BY DEF Typed, LocalsTyped
<1>4. pc[u] \in {"qunlock", "unlock"} => op[u] # "none"
  BY DEF ThreadInv
<1>5. CASE UNCHANGED table
  <2>1. TableSize' = TableSize /\ InTable' = InTable /\ Chain(u)' = Chain(u)
    BY <1>1, <1>5, SameFacts DEF Chain
  <2> QED
    BY <1>1, <1>2, <1>4, <2>1 DEF ThreadInv
<1>6. CASE Appends(t)
  <2> DEFINE c == table[start[u]]
             c2 == table'[start[u]]
  <2>0. c \in Seq(Keys) /\ Len(c) \in Nat
    BY <1>3 DEF Typed, ArrayTyped
  <2>1. /\ TableSize' = TableSize /\ InTable \subseteq InTable'
        /\ c2 = c \/ c2 = Append(c, node[t])
        /\ Len(c) <= Len(c2)
        /\ \A m \in 1 .. Len(c) : c2[m] = c[m]
        /\ c # <<>> => c2 # <<>>
        /\ ToSet(c) \subseteq ToSet(c2)
    BY <1>3, <1>6, AppendsFacts
  <2>2. Chain(u) = c /\ Chain(u)' = c2
    BY <1>1 DEF Chain
  <2>3. Len(c2) \in Nat
    BY <1>6, <2>0, <2>1, NewKey
  <2> HIDE DEF c, c2
  <2>4. n[u] <= Len(c) => n[u] <= Len(c2)
    BY <1>3, <2>0, <2>1, <2>3
  <2>5. n[u] <= Len(c) => \A m \in 1 .. n[u] : c2[m] = c[m]
    BY <1>3, <2>0, <2>1
  <2>6. WalkPoints \subseteq ReadPoints
    BY DEF WalkPoints, ReadPoints, InnerPoints
  <2> QED
    BY <1>1, <1>2, <1>4, <2>0, <2>1, <2>2, <2>4, <2>5, <2>6 DEF ThreadInv
<1>7. CASE newTable(t)
  <2>1. readers = {} /\ pc[t] = "swap"
    BY <1>7 DEF newTable
  <2>2. pc[u] \notin ReadPoints
    BY <2>1 DEF ThreadInv
  <2>3. old[u] = <<>>
    BY <2>1 DEF Inv, OneRehasher, Rehashing
  <2> QED
    BY <1>1, <2>2, <2>3 DEF ThreadInv, ReadPoints, InnerPoints, WalkPoints
<1> QED
  BY <1>5, <1>6, <1>7, TableStep

\* A thread that returns to the harness, or to its newTable, has nothing left to know.
LEMMA ReturnInv ==
  ASSUME Typed, NEW t \in Threads, NEW r, ThreadInv(t), t \notin readers',
         Return(t, r) \/ (ReturnInner(t, r) /\ pc[t] \in InsertPoints)
  PROVE  ThreadInv(t)'
<1> USE DEF Typed, LocalsTyped, SetLocals, Goto, call, InsertPoints, InnerPoints, ReadPoints,
            WalkPoints
<1>1. CASE Return(t, r)
  <2>1. pc'[t] = "idle" /\ op'[t] = "none" /\ old'[t] = <<>>
    BY <1>1 DEF Return
  <2> QED
    BY <2>1 DEF ThreadInv
<1>2. CASE old[t] # <<>> /\ ReturnInner(t, r) /\ pc[t] \in InsertPoints
  <2>1. /\ pc'[t] = "readd" /\ op'[t] = op[t] /\ key'[t] = key[t] /\ old'[t] = old[t]
        /\ node'[t] = NULL
    <3>1. Goto(t, "readd") /\ SetLocals(t, NULL, 0, 0, 0) /\ UNCHANGED call
      BY <1>2 DEF ReturnInner
    <3> QED
      BY <3>1
  <2> QED
    BY <1>2, <2>1 DEF ThreadInv
<1> QED
  BY <1>1, <1>2 DEF ReturnInner

\* What a thread establishes by its own step.
LEMMA SelfInv ==
  ASSUME Inv, NEW t \in Threads, ThreadStep(t), Look
  PROVE  ThreadInv(t)'
<1> Typed /\ ThreadInv(t)
  BY DEF Inv
<1>1. /\ op'[t] # "none" => (IF key'[t] \in InTable' THEN 1 ELSE 0) \in seen'[t]
      /\ op[t] # "none" /\ op'[t] # "none" => seen[t] \subseteq seen'[t]
  BY DEF Look
<1> USE DEF SetLocals, Goto, call, locals, shared, InsertPoints, InnerPoints, ReadPoints,
            WalkPoints
<1>2. CASE CallInsert(t)
  BY <1>2 DEF CallInsert, ThreadInv, Typed, LocalsTyped
<1>3. CASE CallQuery(t)
  BY <1>3 DEF CallQuery, ThreadInv, Typed, LocalsTyped
<1>4. CASE InsertInner(t)
  <2>1. TableSize' = TableSize
    BY <1>4, SameFacts DEF InsertInner
  <2> QED
    BY <1>4, <2>1 DEF InsertInner, ThreadInv, Typed, LocalsTyped, Wanted
<1>5. CASE addNode(t)
  BY <1>5, SameFacts DEF addNode, ThreadInv, Typed, LocalsTyped, Wanted, Chain
<1>6. CASE LockFirst(t)
  BY <1>6, SameFacts DEF LockFirst, ThreadInv, Typed, LocalsTyped, Wanted, Chain
<1>7. CASE PutFirst(t)
  <2>1. CASE Chain(t) = <<>>
    <3>1. Appends(t)
      BY <1>7, <2>1, PutAppends
    <3>2. /\ TableSize' = TableSize
          /\ table'[start[t]] = Append(table[start[t]], node[t]) /\ table[start[t]] \in Seq(Keys)
          /\ node[t] \in Keys /\ ToSet(table'[start[t]]) = ToSet(table[start[t]]) \cup {node[t]}
          /\ Len(table[start[t]]) <= Len(table'[start[t]])
      <4>1. node[t] \in Keys /\ start[t] \in 0 .. TableSize - 1
        BY <3>1, NewKey
      <4>2. /\ TableSize' = TableSize
            /\ table'[start[t]] = Append(table[start[t]], node[t])
            /\ table[start[t]] \in Seq(Keys)
            /\ Len(table[start[t]]) <= Len(table'[start[t]])
        BY <3>1, <4>1, AppendsFacts
      <4> QED
        BY <4>1, <4>2, ToSetFacts
    <3> QED
      BY <1>7, <2>1, <3>2 DEF PutFirst, ThreadInv, Typed, LocalsTyped, Wanted, Chain
  <2>2. CASE Chain(t) # <<>>
    BY <1>7, <2>2, SameFacts DEF PutFirst, ThreadInv, Typed, LocalsTyped, Wanted, Chain
  <2> QED
    BY <2>1, <2>2
<1>8. CASE Walk(t)
  <2>1. /\ TableSize' = TableSize /\ InTable' = InTable /\ Chain(t) = table[start[t]]
        /\ table[start[t]] \in Seq(Keys) /\ n[t] \in Nat /\ Len(table[start[t]]) \in Nat
        /\ start[t] \in 0 .. TableSize - 1
    BY <1>8, SameFacts DEF Walk, Chain, Typed, ArrayTyped, LocalsTyped
  <2>2. CASE n[t] = Len(Chain(t))
    <3>1. table[start[t]] # <<>> => 1 <= Len(table[start[t]])
      BY <2>1
    <3> QED
      BY <1>8, <2>1, <2>2, <3>1 DEF Walk, ThreadInv, Typed, LocalsTyped, Wanted, Chain
  <2>3. CASE n[t] # Len(Chain(t)) /\ Chain(t)[n[t] + 1] = node[t]
    <3>1. node[t] \in ToSet(table[start[t]]) /\ node[t] \in Keys
      <4>1. n[t] + 1 \in 1 .. Len(table[start[t]]) /\ node[t] \in Keys
        BY <1>8, <2>1, <2>3 DEF Walk, ThreadInv
      <4> QED
        BY <2>1, <2>3, <4>1, ToSetFacts
    <3>2. node[t] \in InTable
      BY <2>1, <3>1, InTableFacts DEF Typed
    <3> QED
      BY <1>1, <1>8, <2>1, <2>3, <3>1, <3>2
      DEF Walk, ThreadInv, Typed, LocalsTyped, Wanted, Chain
  <2>4. CASE n[t] # Len(Chain(t)) /\ Chain(t)[n[t] + 1] # node[t]
    <3>1. n[t] + 1 <= Len(Chain(t)) /\ op[t] = "insert"
      BY <1>8, <2>1, <2>4 DEF Walk, ThreadInv
    <3>2. \A m \in 1 .. n[t] + 1 : Chain(t)[m] # node[t]
      BY <1>8, <2>1, <2>4, <3>1 DEF Walk, ThreadInv, Wanted
    <3> QED
      BY <1>8, <2>1, <2>4, <3>1, <3>2 DEF Walk, ThreadInv, Typed, LocalsTyped, Wanted, Chain
  <2> QED
    BY <2>2, <2>3, <2>4
<1>9. CASE LockLast(t)
  BY <1>9, SameFacts DEF LockLast, ThreadInv, Typed, LocalsTyped, Wanted, Chain
<1>10. CASE PutLast(t)
  <2>1. CASE \E m \in n[t] .. Len(Chain(t)) : Chain(t)[m] = node[t]
    <3>1. /\ TableSize' = TableSize /\ InTable' = InTable /\ Chain(t) = table[start[t]]
          /\ table[start[t]] \in Seq(Keys) /\ n[t] \in Nat /\ Len(table[start[t]]) \in Nat
          /\ start[t] \in 0 .. TableSize - 1
      BY <1>10, <2>1, SameFacts DEF PutLast, Chain, Typed, ArrayTyped, LocalsTyped
    <3>2. node[t] \in ToSet(table[start[t]]) /\ node[t] \in Keys
      BY <1>10, <2>1, <3>1, ToSetFacts DEF PutLast, ThreadInv
    <3>3. node[t] \in InTable
      BY <3>1, <3>2, InTableFacts DEF Typed
    <3> QED
      BY <1>1, <1>10, <2>1, <3>1, <3>2, <3>3
      DEF PutLast, ThreadInv, Typed, LocalsTyped, Wanted, Chain
  <2>2. CASE ~\E m \in n[t] .. Len(Chain(t)) : Chain(t)[m] = node[t]
    <3>1. Appends(t)
      BY <1>10, <2>2, PutAppends
    <3>2. /\ TableSize' = TableSize
          /\ table'[start[t]] = Append(table[start[t]], node[t]) /\ table[start[t]] \in Seq(Keys)
          /\ node[t] \in Keys /\ ToSet(table'[start[t]]) = ToSet(table[start[t]]) \cup {node[t]}
          /\ Len(table[start[t]]) <= Len(table'[start[t]])
      <4>1. node[t] \in Keys /\ start[t] \in 0 .. TableSize - 1
        BY <3>1, NewKey
      <4>2. /\ TableSize' = TableSize
            /\ table'[start[t]] = Append(table[start[t]], node[t])
            /\ table[start[t]] \in Seq(Keys)
            /\ Len(table[start[t]]) <= Len(table'[start[t]])
        BY <3>1, <4>1, AppendsFacts
      <4> QED
        BY <4>1, <4>2, ToSetFacts
    <3>3. n[t] <= Len(table'[start[t]])
      BY <1>10, <3>2 DEF PutLast, ThreadInv, Chain, Typed, LocalsTyped
    <3> QED
      BY <1>10, <2>2, <3>2, <3>3 DEF PutLast, ThreadInv, Typed, LocalsTyped, Wanted, Chain
  <2> QED
    BY <2>1, <2>2
<1>11. CASE ReadCur(t)
  BY <1>11, SameFacts DEF ReadCur, ThreadInv, Typed, LocalsTyped, ArrayTyped, Wanted, Chain
<1>12. CASE WriteCur(t)
  BY <1>12, SameFacts DEF WriteCur, ThreadInv, Typed, LocalsTyped, Wanted, Chain
<1>13. CASE LeaveInner(t)
  <2>1. t \notin readers' /\ InTable' = InTable /\ pc[t] = "unlock"
    BY <1>13, SameFacts DEF LeaveInner
  <2>2. node[t] \in InTable
    BY <2>1, InTableFacts DEF ThreadInv, Chain, Typed, LocalsTyped
  <2>3. CASE ReturnInner(t, 0)
    BY <2>1, <2>3, ReturnInv
  <2>4. CASE val[t] # -1 /\ Goto(t, "load") /\ UNCHANGED <<call, locals>>
    BY <1>13, <2>1, <2>2, <2>4 DEF LeaveInner, ThreadInv, Typed, LocalsTyped, Wanted, Chain
  <2> QED
    BY <1>13, <2>3, <2>4 DEF LeaveInner
<1>14. CASE TestLoad(t) \/ StartResizing(t)
  <2>1. t \notin readers' /\ InTable' = InTable /\ pc[t] \in {"load", "cas"}
    BY <1>14, SameFacts DEF TestLoad, StartResizing, ThreadInv
  <2>2. CASE ReturnInner(t, 1)
    BY <2>1, <2>2, ReturnInv
  <2>3. CASE resizing = 0 /\ ~ReturnInner(t, 1)
    <3>1. old[t] = <<>>
      BY <2>3 DEF Inv, OneRehasher, Rehashing
    <3> QED
      BY <1>14, <2>1, <2>3, <3>1
      DEF TestLoad, StartResizing, ThreadInv, Typed, LocalsTyped, Wanted, Chain
  <2> QED
    BY <1>14, <2>2, <2>3 DEF TestLoad, StartResizing
<1>15. CASE newTable(t)
  <2>1. table # <<>>
    <3>1. 0 \in DOMAIN table
      BY DEF Typed, ArrayTyped
    <3>2. DOMAIN <<>> = {}
      OBVIOUS
    <3> QED
      BY <3>1, <3>2
  <2> QED
    BY <1>15, <2>1 DEF newTable, ThreadInv, Typed, LocalsTyped
<1>16. CASE ReAdd(t)
  <2>1. CASE Return(t, 1)
    <3>1. t \notin readers'
      BY <1>16 DEF ReAdd, ThreadInv
    <3> QED
      BY <2>1, <3>1, ReturnInv
  <2>2. ASSUME NEW s \in Left(t), SetLocals(t, Head(old[t][s]), 0, 0, 0),
               old' = [old EXCEPT ![t][s] = Tail(@)],
               Goto(t, "enter"), UNCHANGED <<op, key, ret>>
        PROVE  ThreadInv(t)'
    <3>1. old[t][s] \in Seq(Keys) /\ old[t][s] # <<>> /\ s \in DOMAIN old[t]
      BY <2>2 DEF Left, Typed, LocalsTyped
    <3>2. Head(old[t][s]) \in Keys
      BY <3>1
    <3>3. old'[t] # <<>>
      <4>1. s \in DOMAIN old'[t]
        BY <2>2, <3>1 DEF Typed, LocalsTyped
      <4>2. DOMAIN <<>> = {}
        OBVIOUS
      <4> QED
        BY <4>1, <4>2
    <3> QED
      BY <1>16, <2>2, <3>2, <3>3 DEF ReAdd, ThreadInv, Typed, LocalsTyped
  <2> QED
    BY <1>16, <2>1, <2>2 DEF ReAdd
<1>17. CASE checkTableQuery(t)
  <2>1. TableSize' = TableSize
    BY <1>17, SameFacts DEF checkTableQuery
  <2> QED
    BY <1>17, <2>1 DEF checkTableQuery, ThreadInv, Typed, LocalsTyped, Wanted
<1>18. CASE WalkQuery(t)
  <2>1. /\ TableSize' = TableSize /\ InTable' = InTable /\ Chain(t) = table[start[t]]
        /\ table[start[t]] \in Seq(Keys) /\ n[t] \in Nat /\ Len(table[start[t]]) \in Nat
        /\ start[t] \in 0 .. TableSize - 1 /\ key[t] \in Keys /\ op[t] = "query"
        /\ start[t] = Hash[key[t]] % TableSize
    BY <1>18, SameFacts
    DEF WalkQuery, Chain, Typed, ArrayTyped, LocalsTyped, ThreadInv, Wanted
  <2>2. CASE n[t] = Len(Chain(t))
    <3>1. key[t] \notin ToSet(table[start[t]])
      BY <1>18, <2>1, <2>2, ToSetFacts DEF WalkQuery, ThreadInv, Wanted
    <3>2. key[t] \notin InTable
      BY <2>1, <3>1, InTableFacts DEF Inv, Typed, OncePerTable, ArrayTyped
    <3> QED
      BY <1>1, <1>18, <2>1, <2>2, <3>2
      DEF WalkQuery, ThreadInv, Typed, LocalsTyped, Wanted, Chain
  <2>3. CASE n[t] # Len(Chain(t)) /\ Chain(t)[n[t] + 1] = key[t]
    <3>1. n[t] + 1 \in 1 .. Len(table[start[t]])
      BY <1>18, <2>1, <2>3 DEF WalkQuery, ThreadInv
    <3>2. key[t] \in InTable
      BY <2>1, <2>3, <3>1, ToSetFacts, InTableFacts DEF Typed
    <3> QED
      BY <1>1, <1>18, <2>1, <2>3, <3>1, <3>2
      DEF WalkQuery, ThreadInv, Typed, LocalsTyped, Wanted, Chain
  <2>4. CASE n[t] # Len(Chain(t)) /\ Chain(t)[n[t] + 1] # key[t]
    <3>1. n[t] + 1 <= Len(Chain(t))
      BY <1>18, <2>1, <2>4 DEF WalkQuery, ThreadInv
    <3>2. \A m \in 1 .. n[t] + 1 : Chain(t)[m] # key[t]
      BY <1>18, <2>1, <2>4, <3>1 DEF WalkQuery, ThreadInv, Wanted
    <3> QED
      BY <1>18, <2>1, <2>4, <3>1, <3>2
      DEF WalkQuery, ThreadInv, Typed, LocalsTyped, Wanted, Chain
  <2> QED
    BY <2>2, <2>3, <2>4
<1>19. CASE LeaveQuery(t)
  BY <1>19, ReturnInv DEF LeaveQuery
<1> QED
  BY <1>2, <1>3, <1>4, <1>5, <1>6, <1>7, <1>8, <1>9, <1>10, <1>11, <1>12, <1>13, <1>14, <1>15,
     <1>16, <1>17, <1>18, <1>19 DEF ThreadStep, Step
-----------------------------------------------------------------------------
(* One rehash at a time, and the count                                     *)

\* resizing keeps a second thread out of newTable until the last old block is in.
LEMMA OneRehasherStep ==
  ASSUME Inv, NEW t \in Threads, ThreadStep(t), Look
  PROVE  OneRehasher'
<1> Typed /\ ThreadInv(t) /\ OneRehasher
  BY DEF Inv
<1> USE DEF Typed, LocalsTyped, Goto, call, shared
<1>1. \A u \in Threads : u # t => (Rehashing(u)' <=> Rehashing(u))
  BY OthersStep DEF Rehashing
<1>2. ASSUME NEW r, ReturnInner(t, r), pc[t] # "swap"
      PROVE  Rehashing(t)' => Rehashing(t)
  BY <1>2 DEF Rehashing, ReturnInner, Return
<1>3. CASE UNCHANGED resizing /\ (Rehashing(t)' => Rehashing(t))
  BY <1>1, <1>3 DEF OneRehasher
<1>4. CASE StartResizing(t)
  <2>1. CASE resizing = 0
    BY <1>1, <1>4, <2>1 DEF StartResizing, OneRehasher
  <2>2. CASE resizing # 0
    BY <1>2, <1>3, <1>4, <2>2 DEF StartResizing
  <2> QED
    BY <2>1, <2>2
<1>5. CASE newTable(t)
  <2>1. Rehashing(t) /\ UNCHANGED resizing
    BY <1>5 DEF newTable, Rehashing
  <2> QED
    BY <1>3, <2>1
<1>6. CASE ReAdd(t)
  <2>1. Rehashing(t)
    BY <1>6 DEF ReAdd, Rehashing, ThreadInv
  <2>2. CASE Return(t, 1)
    <3>1. ~Rehashing(t)'
      BY <2>2 DEF Return, Rehashing
    <3> QED
      BY <1>1, <2>1, <3>1 DEF OneRehasher
  <2>3. CASE UNCHANGED resizing
    BY <1>3, <2>1, <2>3
  <2> QED
    BY <1>6, <2>2, <2>3 DEF ReAdd
<1>7. CASE LeaveInner(t) \/ TestLoad(t)
  <2>1. UNCHANGED resizing /\ pc[t] # "swap"
    BY <1>7 DEF LeaveInner, TestLoad
  <2>2. CASE \E r \in {0, 1} : ReturnInner(t, r)
    BY <1>2, <1>3, <2>1, <2>2
  <2>3. CASE UNCHANGED old /\ pc'[t] # "swap"
    BY <1>3, <2>1, <2>3 DEF Rehashing
  <2> QED
    BY <1>7, <2>2, <2>3 DEF LeaveInner, TestLoad
<1>8. CASE LeaveQuery(t)
  <2>1. ~Rehashing(t)' /\ UNCHANGED resizing
    BY <1>8 DEF LeaveQuery, Return, Rehashing
  <2> QED
    BY <1>3, <2>1
<1>9. CASE UNCHANGED <<resizing, old>> /\ pc'[t] # "swap"
  BY <1>3, <1>9 DEF Rehashing
<1> QED
  BY <1>4, <1>5, <1>6, <1>7, <1>8, <1>9
  DEF ThreadStep, Step, CallInsert, CallQuery, InsertInner, addNode, LockFirst, PutFirst, Walk,
      LockLast, PutLast, ReadCur, WriteCur, checkTableQuery, WalkQuery

\* What has been counted is a finite set of keys of the array, and a block not yet
\* counted is in it.
LEMMA SettledFacts ==
  ASSUME Inv
  PROVE  /\ IsFiniteSet(Settled) /\ Cardinality(Settled) \in Nat
         /\ \A u \in Pending : node[u] \in InTable
<1>1. IsFiniteSet(Settled)
  BY InTableFacts, FS_Subset DEF Inv, Typed, Settled
<1>2. ASSUME NEW u \in Pending
      PROVE  node[u] \in InTable
  <2>1. u \in Threads /\ node[u] \in ToSet(table[start[u]]) /\ start[u] \in 0 .. TableSize - 1
    BY DEF Pending, Inv, ThreadInv, Typed, LocalsTyped, Chain
  <2> QED
    BY <2>1, InTableFacts DEF Inv, Typed
<1> QED
  BY <1>1, <1>2, FS_CardinalityType

\* head->cur stays at or below the number of keys counted: an increment can be lost,
\* and none is made up.
LEMMA CountsStep ==
  ASSUME Inv, NEW t \in Threads, ThreadStep(t), Look
  PROVE  Counts'
<1> Typed /\ ThreadInv(t) /\ Counts
  BY DEF Inv
<1> USE DEF Typed, LocalsTyped, Goto
<1>1. \A u \in Threads : u # t => pc'[u] = pc[u] /\ node'[u] = node[u] /\ val'[u] = val[u]
  BY OthersStep
<1>2. IsFiniteSet(Settled) /\ Cardinality(Settled) \in Nat /\ \A u \in Pending : node[u] \in InTable
  BY SettledFacts
<1>3. CASE /\ UNCHANGED <<table, cur>> /\ (pc[t] \notin {"count", "write"})
           /\ pc'[t] \notin {"count", "write"}
  <2>1. Pending' = Pending /\ \A u \in Pending : u # t
    BY <1>1, <1>3 DEF Pending
  <2>2. \A u \in Pending : node'[u] = node[u] /\ u \in Threads
    BY <1>1, <2>1 DEF Pending
  <2>3. InTable' = InTable
    BY <1>3, SameFacts
  <2>4. Settled' = Settled
    BY <2>1, <2>2, <2>3 DEF Settled
  <2>5. \A u \in Threads : pc'[u] = "write" => pc[u] = "write" /\ val'[u] = val[u]
    BY <1>1, <1>3
  <2> QED
    BY <1>3, <2>1, <2>2, <2>4, <2>5 DEF Counts
<1>4. CASE Appends(t)
  <2>1. Pending' = Pending \cup {t} /\ UNCHANGED <<cur, node>> /\ pc'[t] = "count"
    BY <1>1, <1>4 DEF Pending, Appends, locals
  <2>2. node[t] \notin InTable /\ InTable' = InTable \cup {node[t]}
    BY <1>4, NewKey, AppendsFacts
  <2>3. Settled' = Settled
    BY <1>2, <2>1, <2>2 DEF Settled
  <2>4. \A u \in Threads : pc'[u] = "write" => pc[u] = "write" /\ val'[u] = val[u]
    BY <1>1, <2>1
  <2>5. \A u, v \in Pending' : node'[u] = node'[v] => u = v
    BY <1>2, <2>1, <2>2 DEF Counts
  <2> QED
    BY <2>1, <2>3, <2>4, <2>5 DEF Counts
<1>5. CASE ReadCur(t)
  <2>1. node' = node /\ val'[t] = cur /\ cur' = cur /\ table' = table
    BY <1>5 DEF ReadCur, SetLocals, shared
  <2>2. Pending' = Pending
    BY <1>1, <1>5 DEF Pending, ReadCur
  <2>3. Settled' = Settled
    BY <2>1, <2>2, SameFacts DEF Settled
  <2> QED
    BY <1>1, <2>1, <2>2, <2>3 DEF Counts, Pending
<1>6. CASE WriteCur(t)
  <2>1. /\ UNCHANGED <<table, locals>> /\ cur' = val[t] + 1 /\ pc[t] = "write"
        /\ pc'[t] = "unlock" /\ val[t] \in Nat
    BY <1>6 DEF WriteCur, ThreadInv
  <2>2. Pending' = Pending \ {t} /\ t \in Pending
    BY <1>1, <2>1 DEF Pending
  <2>3. Settled' = Settled \cup {node[t]} /\ node[t] \notin Settled
    BY <1>2, <2>1, <2>2, SameFacts DEF Settled, Counts, locals
  <2>4. Cardinality(Settled') = Cardinality(Settled) + 1
    BY <1>2, <2>3, FS_AddElement
  <2>5. val[t] + 1 <= Cardinality(Settled')
    BY <1>2, <2>1, <2>4 DEF Counts
  <2>6. ASSUME NEW u \in Threads, pc'[u] = "write"
        PROVE  val'[u] <= Cardinality(Settled')
    <3>1. u # t /\ pc[u] = "write" /\ val'[u] = val[u] /\ val[u] \in Nat
      BY <1>1, <2>1, <2>6 DEF Inv, ThreadInv
    <3>2. val[u] <= Cardinality(Settled)
      BY <3>1 DEF Counts
    <3> QED
      BY <1>2, <2>4, <3>1, <3>2
  <2> QED
    BY <2>1, <2>2, <2>5, <2>6 DEF Counts, locals
<1>7. CASE newTable(t)
  <2>1. \A u \in Threads : pc[u] \notin {"count", "write"}
    BY <1>7 DEF newTable, Inv, ThreadInv, ReadPoints, InnerPoints
  <2>2. \A u \in Threads : pc'[u] \notin {"count", "write"}
    BY <1>1, <1>7, <2>1 DEF newTable
  <2>3. InTable' = {} /\ cur' = 0
    BY <1>7, NewTableFacts DEF newTable
  <2>4. Pending' = {} /\ Settled' = {}
    BY <2>2, <2>3 DEF Pending, Settled
  <2>5. Cardinality(Settled') = 0
    BY <2>4, FS_EmptySet
  <2> QED
    BY <2>2, <2>3, <2>4, <2>5 DEF Counts
<1>8. CASE (PutFirst(t) \/ PutLast(t)) /\ ~Appends(t)
  BY <1>3, <1>8, PutAppends DEF PutFirst, PutLast
<1>9. ASSUME NEW r, Return(t, r) \/ ReturnInner(t, r)
      PROVE  pc'[t] \notin {"count", "write"}
  BY <1>9 DEF Return, ReturnInner
<1>10. CASE LeaveInner(t) \/ TestLoad(t) \/ StartResizing(t) \/ ReAdd(t) \/ LeaveQuery(t)
  BY <1>3, <1>9, <1>10 DEF LeaveInner, TestLoad, StartResizing, ReAdd, LeaveQuery, shared
<1> QED
  BY <1>3, <1>4, <1>5, <1>6, <1>7, <1>8, <1>10
  DEF ThreadStep, Step, CallInsert, CallQuery, InsertInner, addNode, LockFirst, Walk, LockLast,
      checkTableQuery, WalkQuery, shared
-----------------------------------------------------------------------------
(* The invariant                                                           *)

\* An empty array, and no call under way.
LEMMA InitInv ==
  Init => Inv
<1> SUFFICES ASSUME Init PROVE Inv
  OBVIOUS
<1>1. InitSize \in Nat \ {0}
  BY HashtableLocksAssumption
<1>2. DOMAIN table = 0 .. InitSize - 1 /\ \A s \in DOMAIN table : table[s] = <<>>
  BY DEF Init
<1>3. TableSize = InitSize
  BY <1>1, <1>2, SizeOfArray DEF TableSize
<1>4. ArrayTyped
  <2> HIDE DEF TableSize
  <2>1. <<>> \in Seq(Keys)
    OBVIOUS
  <2> QED
    BY <1>1, <1>3, <2>1 DEF Init, ArrayTyped
<1>5. LocalsTyped
  <2> HIDE DEF TableSize
  <2>1. 0 \in 0 .. TableSize - 1 /\ DOMAIN <<>> = {}
    BY <1>1, <1>3
  <2>2. start \in [Threads -> 0 .. TableSize - 1]
    BY <2>1 DEF Init
  <2>3. /\ old = [t \in Threads |-> old[t]]
        /\ \A t \in Threads : \A s \in DOMAIN old[t] : old[t][s] \in Seq(Keys)
    BY <2>1 DEF Init
  <2> QED
    BY <2>2, <2>3 DEF Init, LocalsTyped, Points
<1>6. OncePerTable
  BY <1>2, ToSetFacts DEF OncePerTable
<1>7. OneRehasher
  BY DEF Init, OneRehasher, Rehashing
<1>8. Counts
  <2>1. InTable = {}
    BY <1>2, ToSetFacts DEF InTable
  <2>2. Pending = {}
    BY DEF Init, Pending
  <2>3. Settled = {}
    BY <2>1 DEF Settled
  <2>4. Cardinality(Settled) = 0 /\ cur = 0 /\ \A t \in Threads : pc[t] = "idle"
    BY <2>3, FS_EmptySet DEF Init
  <2> QED
    BY <2>2, <2>4 DEF Counts
<1>9. ASSUME NEW t \in Threads PROVE ThreadInv(t)
  BY DEF Init, ThreadInv, InsertPoints, InnerPoints, ReadPoints, WalkPoints
<1> QED
  BY <1>4, <1>5, <1>6, <1>7, <1>8, <1>9 DEF Inv, Typed

\* Every step keeps the invariant.
LEMMA StepInv ==
  Inv /\ [Next]_vars => Inv'
<1>1. ASSUME Inv, NEW t \in Threads, ThreadStep(t), Look
      PROVE  Inv'
  <2>1. Typed'
    BY <1>1, ArrayStep, LocalsStep DEF Inv, Typed
  <2>2. ASSUME NEW u \in Threads PROVE ThreadInv(u)'
    BY <1>1, OthersInv, SelfInv
  <2> QED
    BY <1>1, <2>1, <2>2, OncePerTableStep, OneRehasherStep, CountsStep DEF Inv
<1>2. ASSUME Inv, UNCHANGED vars
      PROVE  Inv'
  <2>1. /\ table' = table /\ resizing' = resizing /\ tableLocks' = tableLocks
        /\ readers' = readers /\ cur' = cur /\ pc' = pc /\ op' = op /\ key' = key /\ ret' = ret
        /\ node' = node /\ start' = start /\ n' = n /\ val' = val /\ old' = old /\ seen' = seen
    BY <1>2 DEF vars
  <2>2. TableSize' = TableSize /\ InTable' = InTable
    BY <2>1, SameFacts
  <2>3. ArrayTyped' /\ LocalsTyped'
    BY <1>2, <2>1, <2>2 DEF Inv, Typed, ArrayTyped, LocalsTyped
  <2>4. OncePerTable' /\ OneRehasher'
    BY <1>2, <2>1, <2>2 DEF Inv, OncePerTable, OneRehasher, Rehashing
  <2>5. Counts'
    <3>1. Pending' = Pending
      BY <2>1 DEF Pending
    <3>2. Settled' = Settled
      BY <2>1, <2>2, <3>1 DEF Settled
    <3> QED
      BY <1>2, <2>1, <3>1, <3>2 DEF Inv, Counts
  <2>6. ASSUME NEW u \in Threads PROVE ThreadInv(u)'
    <3>1. Chain(u)' = Chain(u) /\ Wanted(u)' = Wanted(u)
      BY <2>1 DEF Chain, Wanted
    <3> QED
      BY <1>2, <2>1, <2>2, <3>1 DEF Inv, ThreadInv
  <2> QED
    BY <2>3, <2>4, <2>5, <2>6 DEF Inv, Typed
<1> QED
  BY <1>1, <1>2 DEF Next, ThreadStep

\* The inductive invariant holds throughout.
THEOREM Invariance ==
  Spec => []Inv
<1> QED
  BY InitInv, StepInv, PTL DEF Spec
-----------------------------------------------------------------------------
(* The properties                                                          *)

\* Every variable has its type, whatever the threads, the keys, their hashes and the
\* initial size: the array and its locks always have the same slots.
THEOREM TypeCorrect ==
  Spec => []TypeOK
<1>1. Inv => TypeOK
  BY TypedIsTypeOK DEF Inv
<1> QED
  BY <1>1, Invariance, PTL

\* A key is at most once in the array and in the slot that a query looks in: the second
\* look under the chain lock is enough, however many threads insert.
THEOREM OncePerTableCorrect ==
  Spec => []OncePerTable
<1>1. Inv => OncePerTable
  BY DEF Inv
<1> QED
  BY <1>1, Invariance, PTL

\* One thread at a time takes an array apart, and nobody is inside it then.
THEOREM OneRehashCorrect ==
  Spec => []OneRehash
<1>1. ASSUME Inv PROVE OneRehash
  <2>1. \A t \in Threads : pc[t] \in {"swap", "readd"} => Rehashing(t)
    BY <1>1 DEF Inv, ThreadInv, Rehashing
  <2>2. \A t, u \in Threads : pc[t] \in {"swap", "readd"} /\ pc[u] \in {"swap", "readd"} => t = u
    BY <1>1, <2>1 DEF Inv, OneRehasher
  <2>3. (\E t \in Threads : pc[t] \in {"swap", "readd"} \/ old[t] # <<>>) => resizing = 1
    BY <1>1, <2>1 DEF Inv, OneRehasher, Rehashing
  <2>4. ASSUME NEW t \in Threads, t \in readers
        PROVE  start[t] \in DOMAIN table /\ n[t] <= Len(Chain(t))
    BY <1>1, <2>4 DEF Inv, ThreadInv, Typed, ArrayTyped, LocalsTyped
  <2> QED
    BY <2>2, <2>3, <2>4 DEF OneRehash
<1> QED
  BY <1>1, Invariance, PTL

\* head->cur never exceeds the number of keys in the array, whatever increments are lost.
THEOREM CurNotAboveCorrect ==
  Spec => []CurNotAbove
<1>1. ASSUME Inv PROVE CurNotAbove
  <2>1. Settled \subseteq InTable
    BY DEF Settled
  <2>2. IsFiniteSet(InTable) /\ Cardinality(InTable) \in Nat
    BY <1>1, InTableFacts DEF Inv, Typed
  <2>3. Cardinality(Settled) <= Cardinality(InTable) /\ Cardinality(Settled) \in Nat
    BY <2>1, <2>2, FS_Subset, FS_CardinalityType
  <2>4. cur <= Cardinality(Settled) /\ cur \in Nat
    BY <1>1 DEF Inv, Counts, Typed, ArrayTyped
  <2> QED
    BY <2>2, <2>3, <2>4 DEF CurNotAbove
<1> QED
  BY <1>1, Invariance, PTL

\* A block of a chain is its first or one of the rest.
LEMMA HeadAndTail ==
  ASSUME NEW c \in Seq(Keys), c # <<>>
  PROVE  ToSet(c) \subseteq {Head(c)} \cup ToSet(Tail(c))
<1> SUFFICES ASSUME NEW m \in DOMAIN c, m # 1
             PROVE  \E x \in DOMAIN Tail(c) : Tail(c)[x] = c[m]
  BY DEF ToSet
<1>1. m \in 1 .. Len(c) /\ Len(c) \in Nat
  OBVIOUS
<1>2. m - 1 \in DOMAIN Tail(c) /\ Tail(c)[m - 1] = c[(m - 1) + 1]
  BY <1>1
<1>3. (m - 1) + 1 = m
  BY <1>1
<1> QED
  BY <1>2, <1>3

\* The keys of the chains of o, and x with them unless o is empty or x no key.
LEMMA OldBlocks ==
  ASSUME NEW o, NEW x, NEW k
  PROVE  k \in (UNION {ToSet(o[s]) : s \in DOMAIN o})
               \cup (IF o = <<>> \/ x = NULL THEN {} ELSE {x})
         <=> (\E s \in DOMAIN o : k \in ToSet(o[s])) \/ (o # <<>> /\ x # NULL /\ k = x)
<1>1. k \in UNION {ToSet(o[s]) : s \in DOMAIN o} <=> \E s \in DOMAIN o : k \in ToSet(o[s])
  OBVIOUS
<1>2. k \in (IF o = <<>> \/ x = NULL THEN {} ELSE {x}) <=> o # <<>> /\ x # NULL /\ k = x
  OBVIOUS
<1> QED
  BY <1>1, <1>2

\* Which old blocks a thread has still to insert, before and after a step.
LEMMA DetachedFacts ==
  ASSUME NEW t \in Threads
  PROVE  /\ \A k : k \in Detached(t) <=>
                     \/ \E s \in DOMAIN old[t] : k \in ToSet(old[t][s])
                     \/ old[t] # <<>> /\ node[t] # NULL /\ k = node[t]
         /\ \A k : k \in Detached(t)' <=>
                     \/ \E s \in DOMAIN old'[t] : k \in ToSet(old'[t][s])
                     \/ old'[t] # <<>> /\ node'[t] # NULL /\ k = node'[t]
BY OldBlocks DEF Detached

\* A step of one thread moves no old block of another's.
LEMMA OthersDetached ==
  ASSUME Inv, NEW t \in Threads, ThreadStep(t), Look, NEW u \in Threads, u # t
  PROVE  Detached(u)' = Detached(u)
<1>1. old'[u] = old[u] /\ node'[u] = node[u]
  BY OthersStep DEF Inv
<1> QED
  BY <1>1 DEF Detached

\* The old blocks a thread has still to insert: after its step they are still old
\* blocks, or in the array.
LEMMA SelfDetached ==
  ASSUME Inv, NEW t \in Threads, ThreadStep(t), Look
  PROVE  Detached(t) \subseteq Detached(t)' \cup InTable'
<1> Typed /\ ThreadInv(t)
  BY DEF Inv
<1> USE DEF Typed, LocalsTyped, Goto, SetLocals, call, locals, shared
<1>1. CASE old[t] = <<>>
  <2>1. DOMAIN <<>> = {}
    OBVIOUS
  <2> QED
    BY <1>1, <2>1 DEF Detached
<1>2. CASE old[t] # <<>>
  <2>1. CASE old'[t] = old[t] /\ node'[t] = node[t]
    BY <2>1 DEF Detached
  <2>2. CASE old'[t] = old[t] /\ node[t] \in InTable'
    BY <2>2, DetachedFacts
  <2>3. pc[t] \in InsertPoints /\ pc[t] # "swap"
    BY <1>2 DEF ThreadInv
  <2>4. ASSUME NEW r, ReturnInner(t, r), UNCHANGED table, pc[t] \in {"unlock", "load", "cas"}
        PROVE  old'[t] = old[t] /\ node[t] \in InTable'
    <3>1. InTable' = InTable /\ UNCHANGED old
      BY <1>2, <2>4, SameFacts DEF ReturnInner
    <3>2. node[t] \in InTable
      BY <1>2, <2>4, InTableFacts DEF ThreadInv, Chain
    <3> QED
      BY <3>1, <3>2
  <2>5. CASE LeaveInner(t) \/ TestLoad(t) \/ StartResizing(t)
    <3>1. CASE \E r \in {0, 1} : ReturnInner(t, r)
      BY <2>2, <2>4, <2>5, <3>1 DEF LeaveInner, TestLoad, StartResizing
    <3>2. CASE UNCHANGED <<call, locals>>
      BY <2>1, <3>2
    <3> QED
      BY <2>5, <3>1, <3>2 DEF LeaveInner, TestLoad, StartResizing
  <2>6. CASE ReAdd(t)
    <3>1. node[t] = NULL /\ pc[t] = "readd"
      BY <2>6 DEF ReAdd, ThreadInv
    <3>2. CASE Left(t) = {}
      <4>1. \A s \in DOMAIN old[t] : old[t][s] = <<>>
        BY <3>2 DEF Left
      <4> QED
        BY <3>1, <4>1, ToSetFacts DEF Detached
    <3>3. ASSUME NEW s \in Left(t), SetLocals(t, Head(old[t][s]), 0, 0, 0),
                 old' = [old EXCEPT ![t][s] = Tail(@)]
          PROVE  Detached(t) \subseteq Detached(t)'
      <4>1. /\ old[t][s] \in Seq(Keys) /\ old[t][s] # <<>> /\ s \in DOMAIN old[t]
            /\ node'[t] = Head(old[t][s])
        BY <3>3 DEF Left
      <4>2. node'[t] \in Keys /\ node'[t] # NULL
        BY <4>1, HashtableLocksAssumption
      <4>3. /\ DOMAIN old'[t] = DOMAIN old[t] /\ old'[t][s] = Tail(old[t][s])
            /\ \A x \in DOMAIN old[t] : x # s => old'[t][x] = old[t][x]
        BY <3>3, <4>1
      <4>4. old'[t] # <<>>
        <5>1. DOMAIN <<>> = {}
          OBVIOUS
        <5> QED
          BY <4>1, <4>3, <5>1
      <4>5. ToSet(old[t][s]) \subseteq {node'[t]} \cup ToSet(old'[t][s])
        BY <4>1, <4>3, HeadAndTail
      <4>6. node'[t] \in Detached(t)'
        BY <4>2, <4>4, DetachedFacts
      <4>7. \A x \in DOMAIN old[t] : ToSet(old'[t][x]) \subseteq Detached(t)'
        BY <4>3 DEF Detached
      <4>8. ASSUME NEW k \in Detached(t) PROVE k \in Detached(t)'
        <5>1. PICK x \in DOMAIN old[t] : k \in ToSet(old[t][x])
          BY <3>1, <4>8 DEF Detached
        <5> QED
          BY <4>1, <4>3, <4>5, <4>6, <4>7, <5>1
      <4> QED
        BY <4>8
    <3> QED
      BY <2>6, <3>2, <3>3 DEF ReAdd
  <2>7. CASE /\ UNCHANGED old
             /\ \/ UNCHANGED node
                \/ \E s, m, v : SetLocals(t, node[t], s, m, v)
    BY <2>1, <2>7
  <2> QED
    BY <2>3, <2>5, <2>6, <2>7
    DEF ThreadStep, Step, CallInsert, CallQuery, InsertInner, addNode, LockFirst, PutFirst, Walk,
        LockLast, PutLast, ReadCur, WriteCur, newTable, checkTableQuery, WalkQuery, LeaveQuery,
        InsertPoints, InnerPoints
<1> QED
  BY <1>1, <1>2

\* Moving loses no key: what was in the array or on its way into it stays in one or
\* the other, however inserts, queries and the rehash overlap.
THEOREM NothingLostCorrect ==
  Spec => NothingLost
<1>1. ASSUME Inv, [Next]_vars
      PROVE  Contents \subseteq Contents'
  <2>1. CASE UNCHANGED vars
    <3>1. table' = table /\ old' = old /\ node' = node
      BY <2>1 DEF vars
    <3>2. InTable' = InTable /\ \A u \in Threads : Detached(u)' = Detached(u)
      BY <3>1, SameFacts DEF Detached
    <3> QED
      BY <3>2 DEF Contents
  <2>2. ASSUME NEW t \in Threads, ThreadStep(t), Look
        PROVE  Contents \subseteq Contents'
    <3>1. \A u \in Threads : Detached(u) \subseteq Contents'
      BY <1>1, <2>2, OthersDetached, SelfDetached DEF Contents
    <3>2. InTable \subseteq Contents'
      <4>1. CASE InTable \subseteq InTable'
        BY <4>1 DEF Contents
      <4>2. CASE newTable(t)
        <5>1. old'[t] = table
          <6>1. old = [u \in Threads |-> old[u]] /\ old' = [old EXCEPT ![t] = table]
            BY <1>1, <4>2 DEF newTable, Inv, Typed, LocalsTyped
          <6> QED
            BY <6>1
        <5>2. InTable \subseteq Detached(t)'
          BY <5>1 DEF InTable, Detached
        <5> QED
          BY <5>2 DEF Contents
      <4> QED
        BY <1>1, <2>2, <4>1, <4>2, TableStep, AppendsFacts, SameFacts DEF Inv
    <3> QED
      BY <3>1, <3>2 DEF Contents
  <2> QED
    BY <1>1, <2>1, <2>2 DEF Next, ThreadStep
<1> QED
  BY <1>1, Invariance, PTL DEF Spec, NothingLost

\* The answer of a query, and of an insert that finds its key, was right of the array
\* at some instant of the call.
THEOREM RightOfTheArrayCorrect ==
  Spec => RightOfTheArray
<1> DEFINE Right(t) ==
             op[t] # "none" /\ op'[t] = "none" =>
               IF op[t] = "query" THEN ret'[t] \in seen[t] ELSE ret'[t] = 0 => 1 \in seen[t]
<1>1. ASSUME Inv, NEW u \in Threads, [Next]_vars
      PROVE  Right(u)
  <2>1. CASE UNCHANGED vars
    BY <2>1 DEF vars
  <2>2. ASSUME NEW t \in Threads, ThreadStep(t), Look, u # t
        PROVE  Right(u)
    BY <1>1, <2>2, OthersStep DEF Inv
  <2>3. ASSUME ThreadStep(u), Look
        PROVE  Right(u)
    <3> Typed /\ ThreadInv(u)
      BY <1>1 DEF Inv
    <3> USE DEF Typed, LocalsTyped
    <3>2. CASE LeaveInner(u)
      <4>1. pc[u] = "unlock" /\ op[u] = "insert"
        BY <3>2 DEF LeaveInner, ThreadInv, InsertPoints, InnerPoints
      <4>2. CASE val[u] = -1 /\ ReturnInner(u, 0)
        <5>1. CASE old[u] = <<>>
          BY <4>1, <4>2, <5>1 DEF ThreadInv
        <5>2. CASE old[u] # <<>>
          BY <4>1, <4>2, <5>2 DEF ReturnInner, call
        <5> QED
          BY <5>1, <5>2
      <4>3. CASE UNCHANGED call
        BY <4>1, <4>3 DEF call
      <4> QED
        BY <3>2, <4>2, <4>3 DEF LeaveInner
    <3>3. CASE TestLoad(u) \/ StartResizing(u) \/ ReAdd(u)
      <4>1. op[u] = "insert"
        BY <3>3 DEF TestLoad, StartResizing, ReAdd, ThreadInv, InsertPoints, InnerPoints
      <4>2. CASE Return(u, 1) \/ ReturnInner(u, 1)
        BY <4>1, <4>2 DEF Return, ReturnInner, call
      <4>3. CASE UNCHANGED op
        BY <4>1, <4>3
      <4> QED
        BY <3>3, <4>2, <4>3 DEF TestLoad, StartResizing, ReAdd, call
    <3>4. CASE LeaveQuery(u)
      BY <3>4 DEF LeaveQuery, Return, ThreadInv, InsertPoints, InnerPoints
    <3>5. CASE CallInsert(u) \/ CallQuery(u)
      BY <3>5 DEF CallInsert, CallQuery, ThreadInv
    <3>6. CASE UNCHANGED op
      BY <3>6
    <3> QED
      BY <2>3, <3>2, <3>3, <3>4, <3>5, <3>6
      DEF ThreadStep, Step, InsertInner, addNode, LockFirst, PutFirst, Walk, LockLast, PutLast,
          ReadCur, WriteCur, newTable, checkTableQuery, WalkQuery, call
  <2> QED
    BY <1>1, <2>1, <2>2, <2>3 DEF Next, ThreadStep
<1>2. Inv /\ [Next]_vars =>
        [\A t \in Threads :
           op[t] # "none" /\ op'[t] = "none" =>
             IF op[t] = "query" THEN ret'[t] \in seen[t] ELSE ret'[t] = 0 => 1 \in seen[t]]_vars
  BY <1>1
<1> QED
  BY <1>2, Invariance, PTL DEF Spec, RightOfTheArray
=============================================================================
