------------------------- MODULE HashtableSmartLazy -------------------------
(***************************************************************************)
(* lib/hashtable_delete_smart_lazy.c: hashtable_lazy.c with deletion.  A   *)
(* key is deleted by a flag in its entry, which the slots of the entry in  *)
(* the old and in the new subtable share; a flagged entry is not copied    *)
(* up, and so disappears with its subtable.  An insert that comes upon a   *)
(* flagged entry of its key clears the flag instead of inserting its own,  *)
(* and if the slot is marked "copied" by then, when the copier may have    *)
(* passed the entry over, inserts the entry again further up.  The array   *)
(* of subtables is circular; the thread that moves head->start on retires  *)
(* the subtable max_tables/2 places ahead of it, and frees the one that    *)
(* was retired there a round before.                                       *)
(*                                                                         *)
(* A step of a thread is one access to the shared memory, except where no  *)
(* thread can tell two from one:                                           *)
(*  - a slot, once not NULL, keeps its pointer (only the low bit changes), *)
(*    so the reads of a slot and the read or compare-and-swap of the flag  *)
(*    of its entry are one, and so are a lost compare-and-swap of a slot   *)
(*    and the comparison of the keys after it;                             *)
(*  - head->cur only grows, so LocalCur equals iter_j when the loop over   *)
(*    the subtables ends, and `start=LocalCur' leaves iter_j where it is;  *)
(*  - head->start stays while a slot of its subtable is marked and not     *)
(*    counted, so the reads of it around a copy are one.                   *)
(* Every access takes effect at once.  (HashtableLazy models the store     *)
(* buffers; here sumArr may miss the increments of other threads.)         *)
(***************************************************************************)
EXTENDS Integers, FiniteSets, Sequences, FiniteSetsExt, SequencesExt

CONSTANTS Threads,       \* the threads of the harness; `tid' in the code
          Entries,       \* the memory for entries: how many can be in use at once
          val,           \* val[e]: the key of entry e
          NULL,          \* the null pointer
          HashAttempts,  \* head->hashAttempts: probes per subtable
          InitSize,      \* the size of the first subtable
          Hash,          \* Hash[k][i] = murmur3_32(k, kSize, seeds[i])
          MaxTables,     \* max_tables = 64, the places of the circular array
          ManyTables,    \* TO_MANY_TABLES = 8
          MaxSubTables,  \* bound: the subtables created in a behaviour
          MaxDeletes     \* bound: the deletes that set a flag in a behaviour

Keys == {val[e] : e \in Entries}
Attempts == 0 .. HashAttempts - 1

ASSUME HashtableSmartLazyAssumption ==
  /\ IsFiniteSet(Entries) /\ Entries # {} /\ IsFiniteSet(Threads)
  /\ NULL \notin Entries \cup Keys
  /\ DOMAIN val = Entries
  /\ HashAttempts \in Nat \ {0}
  /\ InitSize \in Nat \ {0}
  /\ Hash \in [Keys -> [Attempts -> Nat]]
  /\ MaxTables \in {4, 8, 16, 32, 64}
  /\ ManyTables \in Nat /\ MaxSubTables \in Nat \ {0} /\ MaxDeletes \in Nat

VARIABLES SubTables,   \* the subtables created so far; a pointer to one is its index
          freed,       \* those given to free()
          TableArray,  \* head->TableArray
          toFree,      \* head->toFree
          start, cur,  \* head->start, head->cur: the subtables in use are start .. cur-1
          isDeleted,   \* isDeleted[e]: the flag of entry e
          pc,          \* pc[t]: the point of its call that t is at
          op, key,     \* the call t is in, and its key
          ret,         \* what t's last call returned; 0 during a call
          frame,       \* the locals of the insertTable, checkTableQuery or deleteVal t is in
          stack,       \* the frames of the insertTables that called it, from lookup
          seen,        \* history: the answers right at some instant of t's call
          crossed,     \* history: have an undelete and the copy of its entry crossed?
          late         \* history: has a place of the array been used for another round?

vars == <<SubTables, freed, TableArray, toFree, start, cur, isDeleted, pc, op, key, ret,
          frame, stack, seen, crossed, late>>
array == <<TableArray, toFree, freed>>
shared == <<SubTables, array, start, cur, isDeleted>>
call == <<op, key, ret, stack>>

\* What a slot holds: an entry pointer and its low bit.
Null == [ent |-> NULL, bool |-> 0]
Pointers == [ent : Entries, bool : {0, 1}] \cup {Null}
None == 0                          \* no subtable
IndexOf(jj) == jj % MaxTables      \* iter_j & (max_tables-1)

\* Mutant: calloc of one slot too few.
createTable_OneShort(tsize) ==
  [TableSize |-> tsize,
   InnerTable |-> [s \in 0 .. tsize - 2 |-> Null],
   threadCopy |-> [t \in Threads |-> 0],
   insertCount |-> 0, deleteCount |-> 0]

\* Of insertCount and deleteCount only the sums over the threads are used.
createTable(tsize) ==
  [TableSize |-> tsize,
   InnerTable |-> [s \in 0 .. tsize - 1 |-> Null],
   threadCopy |-> [t \in Threads |-> 0],
   insertCount |-> 0, deleteCount |-> 0]

\* A call's key or entry, its subtable ht, the loop counters, and what it has
\* read: head->cur, doCopy, head->start and the size for a new subtable.  `back'
\* is the point at which a caller in the stack goes on.
NoFrame ==
  [val |-> NULL, ent |-> NULL, ht |-> None, j |-> 0, i |-> 0, limit |-> 0,
   doCopy |-> FALSE, exStart |-> 0, size |-> 0, back |-> "idle"]

Init ==
  /\ SubTables = <<createTable(InitSize)>>
  /\ freed = {}
  /\ TableArray = [n \in 0 .. MaxTables - 1 |-> IF n = 0 THEN 1 ELSE None]
  /\ toFree = [n \in 0 .. MaxTables - 1 |-> None]
  /\ start = 0 /\ cur = 1
  /\ isDeleted = [e \in Entries |-> 0]
  /\ pc = [t \in Threads |-> "idle"]
  /\ op = [t \in Threads |-> "none"]
  /\ key = [t \in Threads |-> NULL]
  /\ ret = [t \in Threads |-> 0]
  /\ frame = [t \in Threads |-> NoFrame]
  /\ stack = [t \in Threads |-> <<>>]
  /\ seen = [t \in Threads |-> {}]
  /\ crossed = FALSE /\ late = FALSE

ht(t) == SubTables[frame[t].ht]
Bucket(k, n, T) == Hash[k][n] % T.TableSize
Slot(k, n, T) == T.InnerTable[Bucket(k, n, T)]
s(t) == Bucket(frame[t].val, frame[t].i, ht(t))
Probed(t) == ht(t).InnerTable[s(t)]

HasKey(ptr, k) == ptr # Null /\ val[ptr.ent] = k
Live(ptr, k) == HasKey(ptr, k) /\ isDeleted[ptr.ent] = 0
Flagged(ptr, k) == HasKey(ptr, k) /\ isDeleted[ptr.ent] = 1
Other(ptr, k) == ptr # Null /\ ~HasKey(ptr, k)

Goto(t, label) == pc' = [pc EXCEPT ![t] = label]

\* A return to the harness, or to the lookup that called insertTable, which
\* ignores the result.
Return(t, r) ==
  IF stack[t] = <<>>
    THEN /\ Goto(t, "idle")
         /\ ret' = [ret EXCEPT ![t] = r]
         /\ op' = [op EXCEPT ![t] = "none"]
         /\ key' = [key EXCEPT ![t] = NULL]
         /\ frame' = [frame EXCEPT ![t] = NoFrame]
         /\ UNCHANGED stack
    ELSE /\ Goto(t, Head(stack[t]).back)
         /\ frame' = [frame EXCEPT ![t] = Head(stack[t])]
         /\ stack' = [stack EXCEPT ![t] = Tail(@)]
         /\ UNCHANGED <<op, key, ret>>

\* `continue': the next probe of this subtable, or the next subtable.
NextAttempt(t, again, after) ==
  /\ UNCHANGED call
  /\ IF frame[t].i + 1 < HashAttempts
       THEN /\ Goto(t, again)
            /\ frame' = [frame EXCEPT ![t].i = @ + 1, ![t].exStart = 0]
       ELSE /\ Goto(t, after)
            /\ frame' = [frame EXCEPT ![t].i = 0, ![t].j = @ + 1, ![t].ht = None,
                                      ![t].doCopy = FALSE, ![t].exStart = 0]

\* insertTable(head, head->start+1, e, tid), called from lookup.
CallAgain(t, e, back) ==
  /\ stack' = [stack EXCEPT ![t] = <<[frame[t] EXCEPT !.back = back, !.exStart = start]>> \o @]
  /\ frame' = [frame EXCEPT ![t] = [NoFrame EXCEPT !.val = val[e], !.ent = e, !.j = start + 1]]
  /\ Goto(t, "table")
  /\ UNCHANGED <<op, key, ret>>

\* The subtable of iter_j.  A NULL pointer there would end the program.
HasTable(t) == TableArray[IndexOf(frame[t].j)] # None
TakeTable(t) == frame' = [frame EXCEPT ![t].ht = TableArray[IndexOf(frame[t].j)]]

Slots(T) == DOMAIN T.InnerTable

\* The entries in slots, and the pointers that some slot or some thread still has.
Present ==
  (UNION {{SubTables[n].InnerTable[x].ent : x \in Slots(SubTables[n])} : n \in DOMAIN SubTables})
    \ {NULL}
Referenced ==
  Present \cup UNION {{frame[t].ent} \cup {stack[t][n].ent : n \in DOMAIN stack[t]} : t \in Threads}

Start(t, o, k, e, label) ==
  /\ pc[t] = "idle"
  /\ key' = [key EXCEPT ![t] = k]
  /\ op' = [op EXCEPT ![t] = o]
  /\ frame' = [frame EXCEPT ![t] =
                 [NoFrame EXCEPT !.val = k, !.ent = e, !.j = start,
                                 !.limit = IF o = "insert" THEN 0 ELSE cur]]
  /\ Goto(t, label)
  /\ ret' = [ret EXCEPT ![t] = 0]
  /\ UNCHANGED <<SubTables, array, start, cur, stack>>
-----------------------------------------------------------------------------
(* insertTable(head, getStart(head), ent, tid), with a new entry           *)

CallInsert(t) ==
  \E e \in Entries \ Referenced :
    /\ Start(t, "insert", val[e], e, "table")
    /\ isDeleted' = [isDeleted EXCEPT ![e] = 0]

\* The head of the loop over the subtables: iter_j < head->cur, ht and doCopy.
InsertTable(t) ==
  /\ pc[t] = "table"
  /\ UNCHANGED <<shared, call>>
  /\ IF frame[t].j < cur
       THEN /\ HasTable(t)
            /\ frame' = [frame EXCEPT
                 ![t].ht = TableArray[IndexOf(frame[t].j)],
                 ![t].doCopy = (IndexOf(frame[t].j) = IndexOf(start) /\ cur - start > 1)]
            /\ Goto(t, "lookup")
       ELSE Goto(t, "size") /\ UNCHANGED frame

\* A flagged entry of the key is undeleted, by compare-and-swap; if that is lost
\* the entry is not flagged any more.
lookup(t) ==
  /\ pc[t] = "lookup"
  /\ UNCHANGED <<array, start, cur>>
  /\ \/ /\ Probed(t) = Null /\ Goto(t, "claim")
        /\ UNCHANGED <<SubTables, isDeleted, call, frame>>
     \/ /\ Live(Probed(t), frame[t].val) /\ Return(t, 0)
        /\ UNCHANGED <<SubTables, isDeleted>>
     \/ /\ Flagged(Probed(t), frame[t].val)
        /\ isDeleted' = [isDeleted EXCEPT ![Probed(t).ent] = 0]
        /\ SubTables' = [SubTables EXCEPT ![frame[t].ht].insertCount = @ + 1]
        /\ Goto(t, "undeleted")
        /\ UNCHANGED <<call, frame>>
     \/ /\ Other(Probed(t), frame[t].val)
        /\ IF frame[t].doCopy
             THEN Goto(t, "setPtr") /\ UNCHANGED <<call, frame>>
             ELSE NextAttempt(t, "lookup", "table")
        /\ UNCHANGED <<SubTables, isDeleted>>

\* Has the slot been marked?  Then its entry goes in again, further up.
Undeleted(t) ==
  /\ pc[t] = "undeleted"
  /\ UNCHANGED shared
  /\ IF Probed(t).bool = 1
       THEN CallAgain(t, Probed(t).ent, "dComp")
       ELSE Return(t, 1)

\* lookup returned dComp.
ReturnComp(t) ==
  /\ pc[t] = "dComp"
  /\ Return(t, 1)
  /\ UNCHANGED shared

\* lookup marks the slot as copied, unless another thread has.
setPtr(t) ==
  /\ pc[t] = "setPtr"
  /\ UNCHANGED <<array, start, cur, isDeleted>>
  /\ IF Probed(t).bool = 0
       THEN /\ SubTables' = [SubTables EXCEPT ![frame[t].ht].InnerTable[s(t)].bool = 1]
            /\ Goto(t, "copy")
            /\ UNCHANGED <<call, frame>>
       ELSE NextAttempt(t, "lookup", "table") /\ UNCHANGED SubTables

\* Mutant: the entry is counted as copied and not inserted again.
CopyUp_Never(t) ==
  /\ pc[t] = "copy"
  /\ UNCHANGED <<shared, call>>
  /\ Goto(t, "count")
  /\ frame' = [frame EXCEPT ![t].exStart = start]

\* An entry that is not flagged is inserted again, further up.
CopyUp(t) ==
  /\ pc[t] = "copy"
  /\ UNCHANGED shared
  /\ IF isDeleted[Probed(t).ent] = 0
       THEN CallAgain(t, Probed(t).ent, "count")
       ELSE /\ Goto(t, "count")
            /\ frame' = [frame EXCEPT ![t].exStart = start]
            /\ UNCHANGED call

\* ht->threadCopy[tid]++
CountCopy(t) ==
  /\ pc[t] = "count"
  /\ SubTables' = [SubTables EXCEPT ![frame[t].ht].threadCopy[t] = @ + 1]
  /\ Goto(t, "start")
  /\ UNCHANGED <<array, start, cur, isDeleted, call, frame>>

\* The sum over the threads, as the number of the copies counted: the first, second, ...
\* of each thread.
sumArr(T) == Cardinality(UNION {{u} \X (1 .. T.threadCopy[u]) : u \in Threads})

\* Has every slot of the subtable been copied?  If so, the compare-and-swap of
\* head->start (the sum, once complete, stays so).  The increments of the other
\* threads may not have reached memory yet; then the sum is not complete.
AdvanceStart(t) ==
  /\ pc[t] = "start"
  /\ UNCHANGED <<SubTables, array, cur, isDeleted>>
  /\ \/ /\ sumArr(ht(t)) = ht(t).TableSize /\ start = frame[t].exStart
        /\ start' = start + 1 /\ Goto(t, "retire") /\ UNCHANGED <<call, frame>>
     \/ /\ ht(t).threadCopy[t] # ht(t).TableSize \/ start # frame[t].exStart
        /\ NextAttempt(t, "lookup", "table") /\ UNCHANGED start

\* Mutant: a quarter of the array ahead, exStart-(max_tables>>2).
Place_Quarter(t) == IndexOf(frame[t].exStart + MaxTables \div 4)

\* The place (exStart - max_tables/2) of the circular array: free what was
\* retired there, and retire what is in use there.
Place(t) == IndexOf(frame[t].exStart + MaxTables \div 2)
Retire(t) ==
  /\ pc[t] = "retire"
  /\ freed' = freed \cup ({toFree[Place(t)]} \ {None})
  /\ toFree' = [toFree EXCEPT ![Place(t)] = TableArray[Place(t)]]
  /\ TableArray' = [TableArray EXCEPT ![Place(t)] = None]
  /\ NextAttempt(t, "lookup", "table")
  /\ UNCHANGED <<SubTables, start, cur, isDeleted>>

\* Mutant: a lost compare-and-swap is not followed by the comparison of the keys.
ClaimSlot_NoCompare(t) ==
  /\ pc[t] = "claim"
  /\ UNCHANGED <<array, start, cur, isDeleted>>
  /\ IF Probed(t) = Null
       THEN /\ SubTables' = [SubTables EXCEPT
                 ![frame[t].ht].InnerTable[s(t)] = [ent |-> frame[t].ent, bool |-> 0],
                 ![frame[t].ht].insertCount = @ + 1]
            /\ Return(t, 1)
       ELSE NextAttempt(t, "lookup", "table") /\ UNCHANGED SubTables

\* The compare-and-swap of the slot from NULL to the entry.
ClaimSlot(t) ==
  /\ pc[t] = "claim"
  /\ UNCHANGED <<array, start, cur, isDeleted>>
  /\ IF Probed(t) = Null
       THEN /\ SubTables' = [SubTables EXCEPT
                 ![frame[t].ht].InnerTable[s(t)] = [ent |-> frame[t].ent, bool |-> 0],
                 ![frame[t].ht].insertCount = @ + 1]
            /\ Return(t, 1)
       ELSE /\ UNCHANGED SubTables
            /\ IF HasKey(Probed(t), frame[t].val)
                 THEN Return(t, 0)
                 ELSE NextAttempt(t, "lookup", "table")

\* getDelRatio > DOUBLE_NEXT: inserts over deletes, more than 1.1.
MostlyInserts(T) == 10 * T.insertCount > 11 * T.deleteCount

\* Mutant: the assertion allows one subtable more.
NextTableSize_OffByOne(t) ==
  /\ pc[t] = "size"
  /\ TableArray[IndexOf(frame[t].j - 1)] # None
  /\ LET T == SubTables[TableArray[IndexOf(frame[t].j - 1)]]
     IN frame' = [frame EXCEPT ![t].size =
          IF MostlyInserts(T) \/ cur - start > ManyTables THEN 2 * T.TableSize ELSE T.TableSize]
  /\ cur - start <= MaxTables \div 2
  /\ Goto(t, "grow")
  /\ UNCHANGED <<shared, call>>

\* The size of the next subtable, then the assertion that the window of subtables
\* in use is less than half of the array; if it fails, the program ends.
NextTableSize(t) ==
  /\ pc[t] = "size"
  /\ TableArray[IndexOf(frame[t].j - 1)] # None
  /\ LET T == SubTables[TableArray[IndexOf(frame[t].j - 1)]]
     IN frame' = [frame EXCEPT ![t].size =
          IF MostlyInserts(T) \/ cur - start > ManyTables THEN 2 * T.TableSize ELSE T.TableSize]
  /\ cur - start < MaxTables \div 2
  /\ Goto(t, "grow")
  /\ UNCHANGED <<shared, call>>

\* addDrop: the new subtable goes in at LocalCur, unless one is there already.
addDrop(t) ==
  /\ pc[t] = "grow"
  /\ IF TableArray[IndexOf(frame[t].j)] = None
       THEN /\ Len(SubTables) < MaxSubTables
            /\ SubTables' = Append(SubTables, createTable(frame[t].size))
            /\ TableArray' = [TableArray EXCEPT ![IndexOf(frame[t].j)] = Len(SubTables')]
       ELSE UNCHANGED <<SubTables, TableArray>>
  /\ frame' = [frame EXCEPT ![t].size = 0]
  /\ Goto(t, "advance")
  /\ UNCHANGED <<toFree, freed, start, cur, isDeleted, call>>

\* The end of addDrop.
AdvanceCur(t) ==
  /\ pc[t] = "advance"
  /\ cur' = IF cur = frame[t].j THEN cur + 1 ELSE cur
  /\ Goto(t, "table")
  /\ UNCHANGED <<SubTables, array, start, isDeleted, call, frame>>
-----------------------------------------------------------------------------
(* checkTableQuery(head, val) and deleteVal(head, val, tid)                *)

CallQuery(t) == UNCHANGED isDeleted /\ \E k \in Keys : Start(t, "query", k, NULL, "qtable")

Deletes == MapThenSumSet(LAMBDA n : SubTables[n].deleteCount, DOMAIN SubTables)
CallDelete(t) ==
  /\ Deletes < MaxDeletes
  /\ UNCHANGED isDeleted
  /\ \E k \in Keys : Start(t, "delete", k, NULL, "qtable")

\* The test iter_j < head->cur, with head->cur read now or when the loop started.
\* checkTableQuery ends with 0; deleteVal has no return there, and gives what
\* happens to be in the register: 1 stands for all that is not 0.
QueryTable(t) ==
  /\ pc[t] = "qtable"
  /\ UNCHANGED shared
  /\ \E limit \in {frame[t].limit, cur} :
       IF frame[t].j < limit
         THEN HasTable(t) /\ TakeTable(t) /\ Goto(t, "qlookup") /\ UNCHANGED call
         ELSE \E r \in (IF op[t] = "query" THEN {0} ELSE {0, 1}) : Return(t, r)

\* A flagged entry of the key does not end the search.
lookupQuery(t) ==
  /\ pc[t] = "qlookup"
  /\ UNCHANGED shared
  /\ \/ Probed(t) = Null /\ Return(t, 0)
     \/ /\ Live(Probed(t), frame[t].val)
        /\ IF op[t] = "query"
             THEN Return(t, 1)
             ELSE Goto(t, "delete") /\ UNCHANGED <<call, frame>>
     \/ /\ Other(Probed(t), frame[t].val) \/ Flagged(Probed(t), frame[t].val)
        /\ NextAttempt(t, "qlookup", "qtable")

\* Mutant: deleteVal returns 1 whether it set the flag or not.
setDelete_IgnoreFailure(t) ==
  /\ pc[t] = "delete"
  /\ UNCHANGED <<array, start, cur>>
  /\ isDeleted' = [isDeleted EXCEPT ![Probed(t).ent] = 1]
  /\ SubTables' = [SubTables EXCEPT ![frame[t].ht].deleteCount = @ + 1]
  /\ Return(t, 1)

\* setDelete, a compare-and-swap of the flag, and the end of deleteVal.
setDelete(t) ==
  /\ pc[t] = "delete"
  /\ UNCHANGED <<array, start, cur>>
  /\ IF isDeleted[Probed(t).ent] = 0
       THEN /\ isDeleted' = [isDeleted EXCEPT ![Probed(t).ent] = 1]
            /\ SubTables' = [SubTables EXCEPT ![frame[t].ht].deleteCount = @ + 1]
            /\ Return(t, 1)
       ELSE Return(t, 0) /\ UNCHANGED <<SubTables, isDeleted>>
-----------------------------------------------------------------------------
Step(t) ==
  \/ InsertTable(t) \/ lookup(t) \/ Undeleted(t) \/ ReturnComp(t) \/ setPtr(t) \/ CopyUp(t)
  \/ CountCopy(t) \/ AdvanceStart(t) \/ Retire(t) \/ ClaimSlot(t)
  \/ NextTableSize(t) \/ addDrop(t) \/ AdvanceCur(t)
  \/ QueryTable(t) \/ lookupQuery(t) \/ setDelete(t)

\* The keys with an entry that is not flagged.
Contents == {val[e] : e \in {d \in Present : isDeleted[d] = 0}}

\* An insert clears the flag of an entry in a marked slot, or a copy clears one, or an
\* insert puts in again an entry that it has undeleted and that is flagged once more.
Crosses ==
  \E t \in Threads :
    \/ /\ pc[t] = "lookup" /\ pc'[t] = "undeleted"
       /\ Probed(t).bool = 1 \/ stack[t] # <<>>
    \/ /\ pc[t] = "claim" /\ pc'[t] = "dComp"
       /\ Probed(t) = Null /\ isDeleted[frame[t].ent] = 1

\* The circular array is used as a line: the subtables in use are in their places, and
\* none was taken from the place of another.
InLine ==
  /\ \A jj \in start .. cur - 1 : TableArray[IndexOf(jj)] = jj + 1
  /\ \A t \in Threads : frame[t].ht \in {None, frame[t].j + 1}

\* The history variables follow the calls in progress and constrain nothing.
Look ==
  /\ LET members == Contents'
     IN seen' = [t \in Threads |->
          IF op'[t] = "none" THEN {}
          ELSE seen[t] \cup {IF key'[t] \in members THEN 1 ELSE 0}]
  /\ crossed' = (crossed \/ Crosses)
  /\ late' = (late \/ ~InLine')

Next == \E t \in Threads : (CallInsert(t) \/ CallQuery(t) \/ CallDelete(t) \/ Step(t)) /\ Look

Spec == Init /\ [][Next]_vars
-----------------------------------------------------------------------------
(* Properties                                                              *)

Points == {"idle", "table", "lookup", "undeleted", "dComp", "setPtr", "copy", "count",
           "start", "retire", "claim", "size", "grow", "advance", "qtable", "qlookup", "delete"}

Frames == [val : Keys \cup {NULL}, ent : Entries \cup {NULL}, ht : Nat, j : Nat, i : Attempts,
           limit : Nat, doCopy : BOOLEAN, exStart : Nat, size : Nat, back : Points]

\* Every variable has its type.
TypeOK ==
  /\ \A n \in DOMAIN SubTables :
       /\ SubTables[n].TableSize \in Nat \ {0}
       /\ SubTables[n].InnerTable \in [0 .. SubTables[n].TableSize - 1 -> Pointers]
       /\ SubTables[n].threadCopy \in [Threads -> Nat]
       /\ SubTables[n].insertCount \in Nat /\ SubTables[n].deleteCount \in Nat
  /\ freed \subseteq DOMAIN SubTables
  /\ TableArray \in [0 .. MaxTables - 1 -> {None} \cup DOMAIN SubTables]
  /\ toFree \in [0 .. MaxTables - 1 -> {None} \cup DOMAIN SubTables]
  /\ start \in Nat /\ cur \in Nat
  /\ isDeleted \in [Entries -> {0, 1}]
  /\ pc \in [Threads -> Points]
  /\ op \in [Threads -> {"none", "insert", "query", "delete"}]
  /\ key \in [Threads -> Keys \cup {NULL}]
  /\ ret \in [Threads -> {0, 1}]
  /\ frame \in [Threads -> Frames]
  /\ \A t \in Threads : stack[t] \in Seq(Frames)
  /\ seen \in [Threads -> SUBSET {0, 1}]
  /\ crossed \in BOOLEAN /\ late \in BOOLEAN

Sound == ~crossed /\ ~late
InUse == start .. cur - 1
Table(jj) == SubTables[TableArray[IndexOf(jj)]]
InPlace == \A jj \in InUse : TableArray[IndexOf(jj)] # None

\* The path of k from subtable `first' on reaches a slot with an entry of k that
\* is not flagged before it reaches a NULL slot.
Reaches(k, first) ==
  \E jj \in first .. cur - 1, n \in Attempts :
    /\ Live(Slot(k, n, Table(jj)), k)
    /\ \A j2 \in first .. jj, m \in Attempts :
         j2 < jj \/ m < n => Slot(k, m, Table(j2)) # Null

\* When head->start moves on, what is left behind is copied or deleted: a call
\* that starts now finds every key that is in the table.
StartLosesNoKey == Sound => \A k \in Contents : Reaches(k, start)

\* A key has one entry that is not flagged, however deletes, undeletes and copies
\* interleave, so one delete removes it from the old and the new subtable.
OneLiveEntry ==
  Sound =>
    \A e1, e2 \in Present :
      val[e1] = val[e2] /\ isDeleted[e1] = 0 /\ isDeleted[e2] = 0 => e1 = e2

\* Racing addDrops do not take the window of subtables in use beyond half of the
\* circular array, although the assertion and the growth are far apart.
WindowIsHalf == cur - start <= MaxTables \div 2

\* Before more subtables have been made than half the places of the circular array, no
\* subtable in use loses its place, no thread takes another for it and none is freed, however
\* long a thread waits between moving head->start on and retiring: what the comment there
\* relies on, as long as no undelete has crossed a copy.
LineUntilHalf == ~crossed /\ Len(SubTables) <= MaxTables \div 2 => ~late /\ freed = {}

\* An insert that has undeleted an entry has taken effect; what is left of it is
\* the question whether to insert the entry again.
TookEffect(t) ==
  IF stack[t] = <<>> THEN pc[t] \in {"undeleted", "dComp"} ELSE Last(stack[t]).back = "dComp"

Set == INSTANCE ConcurrentSet WITH
         members <- Contents,
         op <- [t \in Threads |-> IF TookEffect(t) THEN "none" ELSE op[t]],
         key <- [t \in Threads |-> IF TookEffect(t) THEN NULL ELSE key[t]],
         ret <- [t \in Threads |-> IF TookEffect(t) THEN 1 ELSE ret[t]],
         seen <- [t \in Threads |-> IF TookEffect(t) THEN {} ELSE seen[t]],
         Ops <- {"insert", "query", "delete"}

\* deleteVal of an absent key may run out of subtables, with no return value.
NoReturnValue ==
  \E t \in Threads : /\ op[t] = "delete" /\ pc[t] = "qtable" /\ 0 \in seen[t]
                     /\ \E r \in {0, 1} : Set!Complete(t, Contents, r)

\* insertTable, checkTableQuery and deleteVal are linearizable while entries move
\* and are deleted and undeleted, but for the value that deleteVal gives for an
\* absent key, until an undelete crosses the copy of its entry.
LinearizableUntilCrossed ==
  /\ Set!Init
  /\ [][Sound' /\ Set!vars' # Set!vars => Set!Next \/ NoReturnValue]_vars

\* The comment "this is my fix to what I believe is the race": an insert that
\* undeletes an entry of a marked slot puts it in again further up.  When no
\* thread is inside a call, every key with an entry that is not flagged is found.
UndeletedIsFound ==
  (\A t \in Threads : pc[t] = "idle") /\ InPlace => \A k \in Contents : Reaches(k, start)
=============================================================================
