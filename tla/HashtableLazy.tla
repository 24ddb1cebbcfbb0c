---------------------------- MODULE HashtableLazy ----------------------------
(***************************************************************************)
(* lib/hashtable_lazy.c ("open/multiprobe/lazymove"): hashtable.c whose    *)
(* smallest subtable is emptied as the table grows.  While more than one   *)
(* subtable is in use, an insert that passes a slot of subtable            *)
(* head->start marks it "copied" with a compare-and-swap of its low bit,   *)
(* and the thread whose mark it is inserts that entry again, further up,   *)
(* before it goes on.  Each thread counts its copies in threadCopy[tid];   *)
(* the one that finds the sum equal to the size of the subtable moves      *)
(* head->start on.                                                         *)
(*                                                                         *)
(* A step of a thread is one access to the shared memory.  threadCopy is   *)
(* written with a plain `add' and read right after it, so here the order   *)
(* of memory shows: on x86-64 a store waits in the thread's buffer, where  *)
(* only that thread sees it, until some later moment, and at the latest    *)
(* until the thread's next compare-and-swap, which drains the buffer.      *)
(* Every other shared write of the program is a compare-and-swap.          *)
(***************************************************************************)
EXTENDS Integers, FiniteSets, Sequences

CONSTANTS Threads,       \* the threads of the harness; `tid' in the code
          Keys,          \* the values of entry.val
          NULL,          \* the null pointer
          HashAttempts,  \* head->hashAttempts: probes per subtable
          InitSize,      \* the size of the first subtable
          Hash           \* Hash[k][i] = murmur3_32(k, kSize, seeds[i])

Attempts == 0 .. HashAttempts - 1

ASSUME HashtableLazyAssumption ==
  /\ IsFiniteSet(Keys) /\ Keys # {} /\ IsFiniteSet(Threads)
  /\ NULL \notin Keys
  /\ HashAttempts \in Nat \ {0}
  /\ InitSize \in Nat \ {0}
  /\ Hash \in [Keys -> [Attempts -> Nat]]

VARIABLES TableArray,  \* head->TableArray; its domain is the non-NULL indices
          start, cur,  \* head->start, head->cur: the subtables in use are start .. cur-1
          buffer,      \* buffer[t]: the subtable whose threadCopy[t] has an increment that
                       \* the other threads do not see yet, or None
          pc,          \* pc[t]: the point of its call that t is at
          op, key,     \* the call t is in, and its key
          ret,         \* what t's last call returned; 0 during a call
          frame,       \* the locals of the insertTable or checkTableQuery t is in
          stack,       \* the frames of the insertTables that called it, from lookup
          seen         \* history: the answers right at some instant of t's call

vars == <<TableArray, start, cur, buffer, pc, op, key, ret, frame, stack, seen>>
shared == <<TableArray, start, cur, buffer>>
call == <<op, key, ret, stack>>

None == -1

\* What a slot holds: an entry pointer, here its key, and the pointer's low bit.
Null == [key |-> NULL, bool |-> 0]
Pointers == [key : Keys, bool : {0, 1}] \cup {Null}

\* The key of the entry, the loop counters, the copy of head->cur, whether the
\* slots of subtable j are copied, and lookup's copy of head->start.
NoFrame ==
  [ent |-> NULL, j |-> 0, i |-> 0, LocalCur |-> 0, doCopy |-> FALSE, exStart |-> 0]

\* Mutant: calloc of one slot too few.
createTable_OneShort(tsize) ==
  [TableSize |-> tsize,
   InnerTable |-> [s \in 0 .. tsize - 2 |-> Null],
   threadCopy |-> [t \in Threads |-> 0]]

createTable(tsize) ==
  [TableSize |-> tsize,
   InnerTable |-> [s \in 0 .. tsize - 1 |-> Null],
   threadCopy |-> [t \in Threads |-> 0]]

Bucket(k, n, jj) == Hash[k][n] % TableArray[jj].TableSize
Slot(k, n, jj) == TableArray[jj].InnerTable[Bucket(k, n, jj)]
Probed(t) == Slot(frame[t].ent, frame[t].i, frame[t].j)

Init ==
  /\ TableArray = [jj \in {0} |-> createTable(InitSize)]
  /\ start = 0 /\ cur = 1
  /\ buffer = [t \in Threads |-> None]
  /\ pc = [t \in Threads |-> "idle"]
  /\ op = [t \in Threads |-> "none"]
  /\ key = [t \in Threads |-> NULL]
  /\ ret = [t \in Threads |-> 0]
  /\ frame = [t \in Threads |-> NoFrame]
  /\ stack = [t \in Threads |-> <<>>]
  /\ seen = [t \in Threads |-> {}]

Goto(t, label) == pc' = [pc EXCEPT ![t] = label]

\* A return to the harness, or to the lookup that called insertTable, which
\* ignores the result.
Return(t, r) ==
  IF stack[t] = <<>>
    THEN /\ Goto(t, "idle")
         /\ ret' = [ret EXCEPT ![t] = r]
         /\ op' = [op EXCEPT ![t] = "none"]
         /\ key' = [key EXCEPT ![t] = NULL]
         /\ frame' = [frame EXCEPT ![t] = NoFrame]
         /\ UNCHANGED stack
    ELSE /\ Goto(t, "count")
         /\ frame' = [frame EXCEPT ![t] = Head(stack[t])]
         /\ stack' = [stack EXCEPT ![t] = Tail(@)]
         /\ UNCHANGED <<op, key, ret>>

\* `continue': the next probe of this subtable, or on to subtable jj.
NextAttempt(t, again, after, jj) ==
  /\ UNCHANGED call
  /\ IF frame[t].i + 1 < HashAttempts
       THEN /\ Goto(t, again)
            /\ frame' = [frame EXCEPT ![t].i = @ + 1, ![t].exStart = 0]
       ELSE /\ Goto(t, after)
            /\ frame' = [frame EXCEPT ![t].i = 0, ![t].j = jj, ![t].exStart = 0]

\* A compare-and-swap waits for the thread's buffer to drain.
Drained(t) == buffer[t] = None
-----------------------------------------------------------------------------
(* insertTable(head, start, ent, tid)                                      *)

\* The harness calls it with getStart(head).
CallInsert(t) ==
  /\ pc[t] = "idle"
  /\ \E k \in Keys :
       /\ key' = [key EXCEPT ![t] = k]
       /\ frame' = [frame EXCEPT ![t] = [NoFrame EXCEPT !.ent = k, !.j = start]]
  /\ op' = [op EXCEPT ![t] = "insert"]
  /\ Goto(t, "table")
  /\ ret' = [ret EXCEPT ![t] = 0]
  /\ UNCHANGED <<shared, stack>>

\* The test j < head->cur of the loop over subtables.  LocalCur is not used in
\* the loop before it is loaded again; here it keeps the head->cur of the test.
InsertTable(t) ==
  /\ pc[t] = "table"
  /\ IF frame[t].j < cur
       THEN Goto(t, "docopy") /\ frame' = [frame EXCEPT ![t].LocalCur = cur]
       ELSE Goto(t, "grow") /\ UNCHANGED frame
  /\ UNCHANGED <<shared, call>>

\* Is this the smallest subtable, and not the only one?  -O3 uses the head->cur
\* of the test j < head->cur, an unoptimised build reads it again.
ReadStart(t) ==
  /\ pc[t] = "docopy"
  /\ \E c \in {frame[t].LocalCur, cur} :
       frame' = [frame EXCEPT ![t].doCopy = (frame[t].j = start /\ c - start > 1),
                              ![t].LocalCur = 0]
  /\ Goto(t, "lookup")
  /\ UNCHANGED <<shared, call>>

lookup(t) ==
  /\ pc[t] = "lookup"
  /\ UNCHANGED shared
  /\ \/ Probed(t) = Null /\ Goto(t, "claim") /\ UNCHANGED <<call, frame>>
     \/ Probed(t).key = frame[t].ent /\ Return(t, 0)
     \/ /\ Probed(t).key \notin {NULL, frame[t].ent}
        /\ IF frame[t].doCopy
             THEN Goto(t, "setPtr") /\ UNCHANGED <<call, frame>>
             ELSE NextAttempt(t, "lookup", "reload", frame[t].j)

\* Mutant: a failed compare-and-swap is tried again.
setPtr_Retry(t) ==
  /\ pc[t] = "setPtr"
  /\ Drained(t)
  /\ UNCHANGED <<start, cur, buffer, call, frame>>
  /\ IF Probed(t).bool = 0
       THEN /\ TableArray' = [TableArray EXCEPT
                   ![frame[t].j].InnerTable[Bucket(frame[t].ent, frame[t].i, frame[t].j)].bool = 1]
            /\ Goto(t, "copy")
       ELSE Goto(t, "setPtr") /\ UNCHANGED TableArray

\* lookup marks the slot as copied, unless another thread has.
setPtr(t) ==
  /\ pc[t] = "setPtr"
  /\ Drained(t)
  /\ UNCHANGED <<start, cur, buffer>>
  /\ IF Probed(t).bool = 0
       THEN /\ TableArray' = [TableArray EXCEPT
                   ![frame[t].j].InnerTable[Bucket(frame[t].ent, frame[t].i, frame[t].j)].bool = 1]
            /\ Goto(t, "copy")
            /\ UNCHANGED <<call, frame>>
       ELSE NextAttempt(t, "lookup", "reload", frame[t].j) /\ UNCHANGED TableArray

\* Mutant: the entry is inserted again from head->start, where it is.
CallCopy_FromStart(t) ==
  /\ pc[t] = "copy"
  /\ stack' = [stack EXCEPT ![t] = <<[frame[t] EXCEPT !.exStart = start]>> \o @]
  /\ frame' = [frame EXCEPT ![t] = [NoFrame EXCEPT !.ent = Probed(t).key, !.j = start]]
  /\ Goto(t, "table")
  /\ UNCHANGED <<shared, op, key, ret>>

\* insertTable(head, head->start+1, <the entry in the slot>, tid)
CallCopy(t) ==
  /\ pc[t] = "copy"
  /\ stack' = [stack EXCEPT ![t] = <<[frame[t] EXCEPT !.exStart = start]>> \o @]
  /\ frame' = [frame EXCEPT ![t] = [NoFrame EXCEPT !.ent = Probed(t).key, !.j = start + 1]]
  /\ Goto(t, "table")
  /\ UNCHANGED <<shared, op, key, ret>>

\* ht->threadCopy[tid]++, into the buffer.
CountCopy(t) ==
  /\ pc[t] = "count"
  /\ Drained(t)
  /\ buffer' = [buffer EXCEPT ![t] = frame[t].j]
  /\ Goto(t, "sum")
  /\ UNCHANGED <<TableArray, start, cur, call, frame>>

\* threadCopy[u] of subtable jj as thread t sees it.
Counted(t, jj, u) ==
  TableArray[jj].threadCopy[u] + (IF u = t /\ buffer[t] = jj THEN 1 ELSE 0)

\* The sum over the threads, as the number of the copies counted: the first, second, ...
\* of each thread.
sumArr(t, jj) == Cardinality(UNION {{u} \X (1 .. Counted(t, jj, u)) : u \in Threads})

\* Mutant: one copy short of the size is taken for all of them.
SumCopies_OffByOne(t) ==
  /\ pc[t] = "sum"
  /\ UNCHANGED shared
  /\ IF sumArr(t, frame[t].j) >= TableArray[frame[t].j].TableSize - 1
       THEN Goto(t, "start") /\ UNCHANGED <<call, frame>>
       ELSE NextAttempt(t, "lookup", "reload", frame[t].j)

\* Has every slot of the subtable been copied?
SumCopies(t) ==
  /\ pc[t] = "sum"
  /\ UNCHANGED shared
  /\ IF sumArr(t, frame[t].j) = TableArray[frame[t].j].TableSize
       THEN Goto(t, "start") /\ UNCHANGED <<call, frame>>
       ELSE NextAttempt(t, "lookup", "reload", frame[t].j)

\* The compare-and-swap of head->start.
AdvanceStart(t) ==
  /\ pc[t] = "start"
  /\ Drained(t)
  /\ start' = IF start = frame[t].exStart THEN start + 1 ELSE start
  /\ NextAttempt(t, "lookup", "reload", frame[t].j)
  /\ UNCHANGED <<TableArray, cur, buffer>>

\* The compare-and-swap of the slot from NULL to the entry.
ClaimSlot(t) ==
  /\ pc[t] = "claim"
  /\ Drained(t)
  /\ UNCHANGED <<start, cur, buffer>>
  /\ IF Probed(t) = Null
       THEN /\ TableArray' = [TableArray EXCEPT
                   ![frame[t].j].InnerTable[Bucket(frame[t].ent, frame[t].i, frame[t].j)] =
                     [key |-> frame[t].ent, bool |-> 0]]
            /\ Return(t, 1)
       ELSE Goto(t, "recheck") /\ UNCHANGED <<TableArray, call, frame>>

\* Mutant: a lost compare-and-swap is not followed by the comparison of the keys.
RecheckSlot_NoCompare(t) ==
  /\ pc[t] = "recheck"
  /\ UNCHANGED shared
  /\ NextAttempt(t, "lookup", "reload", frame[t].j)

\* The compare-and-swap failed: another thread's entry is in the slot.
RecheckSlot(t) ==
  /\ pc[t] = "recheck"
  /\ UNCHANGED shared
  /\ IF Probed(t).key = frame[t].ent
       THEN Return(t, 0)
       ELSE NextAttempt(t, "lookup", "reload", frame[t].j)

\* LocalCur = head->cur, then j++.
ReloadCur(t) ==
  /\ pc[t] = "reload"
  /\ frame' = [frame EXCEPT ![t].LocalCur = cur, ![t].j = @ + 1, ![t].doCopy = FALSE]
  /\ Goto(t, "table")
  /\ UNCHANGED <<shared, call>>

\* addDrop: the new subtable goes in at LocalCur, unless one is there already.
addDrop(t) ==
  /\ pc[t] = "grow"
  /\ Drained(t)
  /\ LET at == frame[t].LocalCur
     IN TableArray' =
          IF at \in DOMAIN TableArray
            THEN TableArray
            ELSE [jj \in DOMAIN TableArray \cup {at} |->
                    IF jj = at THEN createTable(2 * TableArray[at - 1].TableSize)
                    ELSE TableArray[jj]]
  /\ Goto(t, "advance")
  /\ UNCHANGED <<start, cur, buffer, call, frame>>

\* The end of addDrop, and start = LocalCur.
AdvanceCur(t) ==
  /\ pc[t] = "advance"
  /\ Drained(t)
  /\ cur' = IF cur = frame[t].LocalCur THEN cur + 1 ELSE cur
  /\ frame' = [frame EXCEPT ![t].j = frame[t].LocalCur]
  /\ Goto(t, "table")
  /\ UNCHANGED <<TableArray, start, buffer, call>>

\* The processor writes the buffered increment to memory.
Drain(t) ==
  /\ buffer[t] # None
  /\ TableArray' = [TableArray EXCEPT ![buffer[t]].threadCopy[t] = @ + 1]
  /\ buffer' = [buffer EXCEPT ![t] = None]
  /\ UNCHANGED <<start, cur, pc, call, frame>>
-----------------------------------------------------------------------------
(* checkTableQuery(head, val)                                              *)

CallQuery(t) ==
  /\ pc[t] = "idle"
  /\ \E k \in Keys :
       /\ key' = [key EXCEPT ![t] = k]
       /\ frame' = [frame EXCEPT ![t] = [NoFrame EXCEPT !.ent = k, !.j = start]]
  /\ op' = [op EXCEPT ![t] = "query"]
  /\ Goto(t, "qtable")
  /\ ret' = [ret EXCEPT ![t] = 0]
  /\ UNCHANGED <<shared, stack>>

\* The test j < head->cur.
QueryTable(t) ==
  /\ pc[t] = "qtable"
  /\ UNCHANGED shared
  /\ IF frame[t].j < cur
       THEN Goto(t, "qlookup") /\ UNCHANGED <<call, frame>>
       ELSE Return(t, 0)

\* Mutant: a copied slot is passed over, as if its key were further up already.
lookupQuery_SkipCopied(t) ==
  /\ pc[t] = "qlookup"
  /\ UNCHANGED shared
  /\ \/ Probed(t) = Null /\ Return(t, 0)
     \/ Probed(t) = [key |-> frame[t].ent, bool |-> 0] /\ Return(t, 1)
     \/ /\ Probed(t) \notin {Null, [key |-> frame[t].ent, bool |-> 0]}
        /\ NextAttempt(t, "qlookup", "qtable", frame[t].j + 1)

lookupQuery(t) ==
  /\ pc[t] = "qlookup"
  /\ UNCHANGED shared
  /\ \/ Probed(t) = Null /\ Return(t, 0)
     \/ Probed(t).key = frame[t].ent /\ Return(t, 1)
     \/ /\ Probed(t).key \notin {NULL, frame[t].ent}
        /\ NextAttempt(t, "qlookup", "qtable", frame[t].j + 1)
-----------------------------------------------------------------------------
Step(t) ==
  \/ InsertTable(t) \/ ReadStart(t) \/ lookup(t) \/ setPtr(t) \/ CallCopy(t) \/ CountCopy(t)
  \/ SumCopies(t) \/ AdvanceStart(t) \/ ClaimSlot(t) \/ RecheckSlot(t) \/ ReloadCur(t)
  \/ addDrop(t) \/ AdvanceCur(t) \/ Drain(t)
  \/ QueryTable(t) \/ lookupQuery(t)

Slots(jj) == 0 .. TableArray[jj].TableSize - 1
At(jj, s) == TableArray[jj].InnerTable[s]

\* The keys in the table; a copied slot still holds its key.
Contents ==
  {k \in Keys : \E jj \in DOMAIN TableArray : \E s \in Slots(jj) : At(jj, s).key = k}

\* The history variable follows the calls in progress and constrains nothing.
Look ==
  seen' = [t \in Threads |->
             IF op'[t] = "none" THEN {}
             ELSE seen[t] \cup {IF key'[t] \in Contents' THEN 1 ELSE 0}]

Next == \E t \in Threads : (CallInsert(t) \/ CallQuery(t) \/ Step(t)) /\ Look

Spec == Init /\ [][Next]_vars
-----------------------------------------------------------------------------
(* Properties                                                              *)

Points == {"idle", "table", "docopy", "lookup", "setPtr", "copy", "count", "sum", "start",
           "claim", "recheck", "reload", "grow", "advance", "qtable", "qlookup"}

Frames == [ent : Keys \cup {NULL}, j : Nat, i : Attempts, LocalCur : Nat,
           doCopy : BOOLEAN, exStart : Nat]

\* Every variable has its type, and an insert that copies calls insertTable no
\* more than once at a time: its copies find nothing more to copy.
TypeOK ==
  /\ DOMAIN TableArray \subseteq Nat
  /\ \A jj \in DOMAIN TableArray :
       /\ TableArray[jj].TableSize \in Nat \ {0}
       /\ TableArray[jj].InnerTable \in [Slots(jj) -> Pointers]
       /\ TableArray[jj].threadCopy \in [Threads -> Nat]
  /\ start \in Nat /\ cur \in Nat
  /\ buffer \in [Threads -> Nat \cup {None}]
  /\ pc \in [Threads -> Points]
  /\ op \in [Threads -> {"none", "insert", "query"}]
  /\ key \in [Threads -> Keys \cup {NULL}]
  /\ ret \in [Threads -> {0, 1}]
  /\ frame \in [Threads -> Frames]
  /\ \A t \in Threads : stack[t] \in Seq(Frames) /\ Len(stack[t]) <= 1
  /\ seen \in [Threads -> SUBSET {0, 1}]

\* The path of k from subtable `first' on reaches a slot that holds k before it
\* reaches a NULL slot.
Reaches(k, first) ==
  \E jj \in first .. cur - 1, n \in Attempts :
    /\ Slot(k, n, jj).key = k
    /\ \A j2 \in first .. jj, m \in Attempts :
         j2 < jj \/ m < n => Slot(k, m, j2) # Null

\* When head->start moves on, everything below it has been copied: a call that
\* starts now finds every key that is in the table.
StartLosesNoKey == \A k \in Contents : Reaches(k, start)

\* threadCopy counts copies that are complete: what it counts in subtable jj is
\* at most the marked slots whose keys are also further up.
CountedIsCopied ==
  \A jj \in DOMAIN TableArray :
    Cardinality(UNION {{u} \X (1 .. TableArray[jj].threadCopy[u]) : u \in Threads})
      <= Cardinality({s \in Slots(jj) : At(jj, s).bool = 1 /\ Reaches(At(jj, s).key, jj + 1)})

\* A key is moved, not doubled: it has at most one slot that is not marked, and
\* exactly one when no thread is inside a call, which is what freeAll counts.
Unmarked(k) ==
  UNION {{jj} \X {s \in Slots(jj) : At(jj, s) = [key |-> k, bool |-> 0]} :
         jj \in DOMAIN TableArray}
OneUnmarkedSlot ==
  \A k \in Contents :
    /\ Cardinality(Unmarked(k)) <= 1
    /\ (\A t \in Threads : pc[t] = "idle") => Cardinality(Unmarked(k)) = 1

\* The comment in lookup: "if all items have been copied (sum of all threads copy
\* values equals sub table size) update start field in the hashtable".  Once no
\* thread is inside a call and every store has reached memory, the smallest
\* subtable has a slot that is not copied.
EmptiedIsLeft ==
  (\A t \in Threads : pc[t] = "idle" /\ buffer[t] = None)
    => \E s \in Slots(start) : At(start, s).bool = 0

Set == INSTANCE ConcurrentSet WITH members <- Contents, Ops <- {"insert", "query"}

\* insertTable and checkTableQuery are linearizable while entries move.
Linearizable == Set!Spec
=============================================================================
