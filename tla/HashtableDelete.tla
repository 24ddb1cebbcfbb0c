--------------------------- MODULE HashtableDelete ---------------------------
(***************************************************************************)
(* lib/hashtable_delete.c: hashtable.c with deletion.  A slot holds a      *)
(* pointer to an entry; deleteVal sets the low bit of that pointer and     *)
(* leaves it in place, so that no path gets a NULL slot in its middle, and *)
(* an insert of the same key may put its own entry over a marked one.      *)
(*                                                                         *)
(* A slot can now change more than once, so each read of it is a step of   *)
(* its own: lookup's, the one that chooses the expected value of the       *)
(* compare-and-swap, the compare-and-swap, and the one after its failure.  *)
(* (-O3 merges the reads that follow one another in lookup, in             *)
(* lookupQuery, in setPtr, and around getBool in insertTable.)             *)
(*                                                                         *)
(* Every insert brings an entry of its own (harness.c allocates one for    *)
(* each call).  The model takes one that no slot and no thread refers to.  *)
(***************************************************************************)
EXTENDS Integers, FiniteSets

CONSTANTS Threads,       \* the threads of the harness
          Entries,       \* the memory for entries: how many can be in use at once
          val,           \* val[e]: the key of entry e
          NULL,          \* the null pointer
          HashAttempts,  \* head->hashAttempts: probes per subtable
          InitSize,      \* the size of the first subtable
          Place          \* Place[k][n][size]: the slot that probe n of key k
                         \* looks at in a subtable of size slots

Keys == {val[e] : e \in Entries}
Attempts == 0 .. HashAttempts - 1

ASSUME HashtableDeleteAssumption ==
  /\ IsFiniteSet(Entries) /\ Entries # {}
  /\ NULL \notin Entries \cup Keys
  /\ DOMAIN val = Entries
  /\ HashAttempts \in Nat \ {0}
  /\ InitSize \in Nat \ {0}

\* buckets[i] % ht->TableSize, with Hash[k][i] = murmur3_32(k, kSize, seeds[i]).
Remainders(Hash) ==
  [k \in Keys |-> [n \in Attempts |-> [size \in Nat \ {0} |-> Hash[k][n] % size]]]

\* No probe looks past the end of a subtable, whose size is InitSize, doubled a
\* number of times.
PlacesFit ==
  \A k \in Keys, n \in Attempts, size \in Nat \ {0} :
    size % InitSize = 0 => Place[k][n][size] \in 0 .. size - 1

VARIABLES TableArray,  \* head->TableArray; its domain is the non-NULL indices
          cur,         \* head->cur
          pc,          \* pc[t]: the point of its call that t is at
          op, key,     \* the call t is in, and its key
          ret,         \* what t's last call returned; 0 during a call
          j, i,        \* t's loop counters: the subtable and the probe
          LocalCur,    \* t's copy of head->cur
          ent,         \* the entry t inserts
          expected,    \* what t's next compare-and-swap expects in its slot
          seen,        \* history: the answers right at some instant of t's call
          overwritten  \* history: has an insert replaced another key's marked entry?

vars == <<TableArray, cur, pc, op, key, ret, j, i, LocalCur, ent, expected, seen, overwritten>>
shared == <<TableArray, cur>>
call == <<op, key, ret, ent>>
locals == <<j, i, LocalCur, expected>>

\* What a slot holds: a pointer and its low bit, the mark of a deletion.
Null == [ent |-> NULL, bool |-> 0]
Pointers == [ent : Entries, bool : {0, 1}] \cup {Null}

getBool(ptr) == ptr.bool
getPtr(ptr) == [ptr EXCEPT !.bool = 0]
Marked(ptr) == [ptr EXCEPT !.bool = 1]
HasKey(ptr, k) == ptr # Null /\ val[ptr.ent] = k
Live(ptr, k) == HasKey(ptr, k) /\ getBool(ptr) = 0
Deleted(ptr, k) == HasKey(ptr, k) /\ getBool(ptr) = 1
Other(ptr, k) == ptr # Null /\ ~HasKey(ptr, k)

\* Mutant: calloc of one slot too few.
createTable_OneShort(tsize) ==
  [TableSize |-> tsize, InnerTable |-> [s \in 0 .. tsize - 2 |-> Null]]

createTable(tsize) ==
  [TableSize |-> tsize, InnerTable |-> [s \in 0 .. tsize - 1 |-> Null]]

Bucket(k, n, jj) == Place[k][n][TableArray[jj].TableSize]
Slot(k, n, jj) == TableArray[jj].InnerTable[Bucket(k, n, jj)]
Probed(t) == Slot(key[t], i[t], j[t])

Init ==
  /\ TableArray = [jj \in {0} |-> createTable(InitSize)]
  /\ cur = 1
  /\ pc = [t \in Threads |-> "idle"]
  /\ op = [t \in Threads |-> "none"]
  /\ key = [t \in Threads |-> NULL]
  /\ ret = [t \in Threads |-> 0]
  /\ j = [t \in Threads |-> 0]
  /\ i = [t \in Threads |-> 0]
  /\ LocalCur = [t \in Threads |-> 0]
  /\ ent = [t \in Threads |-> NULL]
  /\ expected = [t \in Threads |-> Null]
  /\ seen = [t \in Threads |-> {}]
  /\ overwritten = FALSE

Goto(t, label) == pc' = [pc EXCEPT ![t] = label]

Return(t, r) ==
  /\ Goto(t, "idle")
  /\ ret' = [ret EXCEPT ![t] = r]
  /\ op' = [op EXCEPT ![t] = "none"]
  /\ key' = [key EXCEPT ![t] = NULL]
  /\ j' = [j EXCEPT ![t] = 0]
  /\ i' = [i EXCEPT ![t] = 0]
  /\ LocalCur' = [LocalCur EXCEPT ![t] = 0]
  /\ ent' = [ent EXCEPT ![t] = NULL]
  /\ expected' = [expected EXCEPT ![t] = Null]

\* `continue': the next probe of this subtable, or on to subtable jj.
NextAttempt(t, again, after, jj) ==
  /\ UNCHANGED <<call, LocalCur>>
  /\ expected' = [expected EXCEPT ![t] = Null]
  /\ IF i[t] + 1 < HashAttempts
       THEN /\ Goto(t, again)
            /\ i' = [i EXCEPT ![t] = @ + 1]
            /\ UNCHANGED j
       ELSE /\ Goto(t, after)
            /\ i' = [i EXCEPT ![t] = 0]
            /\ j' = [j EXCEPT ![t] = jj]

\* A compare-and-swap of the slot that t looks at.
Swaps(t, new) ==
  /\ Probed(t) = expected[t]
  /\ TableArray' = [TableArray EXCEPT
                      ![j[t]].InnerTable[Bucket(key[t], i[t], j[t])] = new]
  /\ UNCHANGED cur
  /\ Return(t, 1)

Slots(jj) == 0 .. TableArray[jj].TableSize - 1
At(jj, s) == TableArray[jj].InnerTable[s]

\* The pointers that some slot or some thread still has.
Referenced ==
  UNION {{At(jj, s).ent : s \in Slots(jj)} : jj \in DOMAIN TableArray}
    \cup {ent[t] : t \in Threads} \cup {expected[t].ent : t \in Threads}

Start(t, o, k, label) ==
  /\ pc[t] = "idle"
  /\ key' = [key EXCEPT ![t] = k]
  /\ op' = [op EXCEPT ![t] = o]
  /\ LocalCur' = [LocalCur EXCEPT ![t] = cur]
  /\ Goto(t, label)
  /\ ret' = [ret EXCEPT ![t] = 0]
  /\ UNCHANGED <<shared, j, i, expected>>
-----------------------------------------------------------------------------
(* insertTable(head, getStart(head) = 0, ent, tid)                         *)

CallInsert(t) ==
  \E e \in Entries \ Referenced :
    /\ Start(t, "insert", val[e], "table")
    /\ ent' = [ent EXCEPT ![t] = e]

\* The test j < head->cur of the loop over subtables.
InsertTable(t) ==
  /\ pc[t] = "table"
  /\ Goto(t, IF j[t] < cur THEN "lookup" ELSE "grow")
  /\ UNCHANGED <<shared, call, locals>>

\* NULL and a marked entry of the same key are free.
lookup(t) ==
  /\ pc[t] = "lookup"
  /\ UNCHANGED shared
  /\ \/ /\ Probed(t) = Null \/ Deleted(Probed(t), key[t])
        /\ Goto(t, "expect") /\ UNCHANGED <<call, locals>>
     \/ Live(Probed(t), key[t]) /\ Return(t, 0)
     \/ Other(Probed(t), key[t]) /\ NextAttempt(t, "lookup", "reload", j[t])

\* expected is what the slot holds now, if that is marked, and else NULL.
ChooseExpected(t) ==
  /\ pc[t] = "expect"
  /\ expected' = [expected EXCEPT ![t] = IF getBool(Probed(t)) = 1 THEN Probed(t) ELSE Null]
  /\ Goto(t, "claim")
  /\ UNCHANGED <<shared, call, j, i, LocalCur>>

ClaimSlot(t) ==
  /\ pc[t] = "claim"
  /\ \/ Swaps(t, [ent |-> ent[t], bool |-> 0])
     \/ /\ Probed(t) # expected[t]
        /\ Goto(t, "recheck") /\ UNCHANGED <<shared, call, locals>>

\* Mutant: a lost compare-and-swap is not followed by the comparison of the keys.
RecheckSlot_NoCompare(t) ==
  /\ pc[t] = "recheck"
  /\ UNCHANGED shared
  /\ NextAttempt(t, "lookup", "reload", j[t])

\* The compare-and-swap failed: another thread's entry is in the slot.
RecheckSlot(t) ==
  /\ pc[t] = "recheck"
  /\ UNCHANGED shared
  /\ IF HasKey(Probed(t), key[t])
       THEN Return(t, 0)
       ELSE NextAttempt(t, "lookup", "reload", j[t])

\* LocalCur = head->cur, then j++.
ReloadCur(t) ==
  /\ pc[t] = "reload"
  /\ LocalCur' = [LocalCur EXCEPT ![t] = cur]
  /\ j' = [j EXCEPT ![t] = @ + 1]
  /\ Goto(t, "table")
  /\ UNCHANGED <<shared, call, i, expected>>

\* Mutant: the loser of the compare-and-swap leaves head->cur to the winner.
addDrop_WinnerAdvances(t) ==
  /\ pc[t] = "grow"
  /\ UNCHANGED <<cur, call, locals>>
  /\ IF LocalCur[t] \in DOMAIN TableArray
       THEN Goto(t, "table") /\ UNCHANGED TableArray
       ELSE /\ Goto(t, "advance")
            /\ TableArray' = [jj \in DOMAIN TableArray \cup {LocalCur[t]} |->
                 IF jj = LocalCur[t]
                   THEN createTable(2 * TableArray[LocalCur[t] - 1].TableSize)
                   ELSE TableArray[jj]]

\* addDrop: the new subtable goes in at LocalCur, unless one is there already.
addDrop(t) ==
  /\ pc[t] = "grow"
  /\ TableArray' =
       IF LocalCur[t] \in DOMAIN TableArray
         THEN TableArray
         ELSE [jj \in DOMAIN TableArray \cup {LocalCur[t]} |->
                 IF jj = LocalCur[t]
                   THEN createTable(2 * TableArray[LocalCur[t] - 1].TableSize)
                   ELSE TableArray[jj]]
  /\ Goto(t, "advance")
  /\ UNCHANGED <<cur, call, locals>>

\* The end of addDrop, and start = LocalCur.
AdvanceCur(t) ==
  /\ pc[t] = "advance"
  /\ cur' = IF cur = LocalCur[t] THEN LocalCur[t] + 1 ELSE cur
  /\ j' = [j EXCEPT ![t] = LocalCur[t]]
  /\ Goto(t, "table")
  /\ UNCHANGED <<TableArray, call, i, LocalCur, expected>>
-----------------------------------------------------------------------------
(* checkTableQuery(head, val) and deleteVal(head, val, tid)                *)

CallQuery(t) == UNCHANGED ent /\ \E k \in Keys : Start(t, "query", k, "qtable")
CallDelete(t) == UNCHANGED ent /\ \E k \in Keys : Start(t, "delete", k, "qtable")

\* The test j < head->cur.  Only in checkTableQuery, which calls nothing inside
\* the loop, does the compiler keep the head->cur of the start of the call.
QueryTable(t) ==
  /\ pc[t] = "qtable"
  /\ UNCHANGED shared
  /\ \E limit \in {cur} \cup (IF op[t] = "query" THEN {LocalCur[t]} ELSE {}) :
       IF j[t] < limit
         THEN Goto(t, "qlookup") /\ UNCHANGED <<call, locals>>
         ELSE Return(t, 0)

lookupQuery(t) ==
  /\ pc[t] = "qlookup"
  /\ UNCHANGED shared
  /\ \/ /\ Probed(t) = Null \/ Deleted(Probed(t), key[t])
        /\ Return(t, 0)
     \/ /\ Live(Probed(t), key[t])
        /\ IF op[t] = "query"
             THEN Return(t, 1)
             ELSE Goto(t, "setPtr") /\ UNCHANGED <<call, locals>>
     \/ /\ Other(Probed(t), key[t])
        /\ NextAttempt(t, "qlookup", "qtable", j[t] + 1)

\* setPtr reads the slot again: the pointer it marks is the one there now.
ReadPtr(t) ==
  /\ pc[t] = "setPtr"
  /\ expected' = [expected EXCEPT ![t] = getPtr(Probed(t))]
  /\ Goto(t, "mark")
  /\ UNCHANGED <<shared, call, j, i, LocalCur>>

\* Mutants: deleteVal returns 1 whether setPtr succeeded or not; the slot is
\* emptied instead of marked.
setPtr_IgnoreFailure(t) ==
  /\ pc[t] = "mark"
  /\ \/ Swaps(t, Marked(expected[t]))
     \/ Probed(t) # expected[t] /\ Return(t, 1) /\ UNCHANGED shared

setPtr_Empty(t) ==
  /\ pc[t] = "mark"
  /\ \/ Swaps(t, Null)
     \/ Probed(t) # expected[t] /\ Return(t, 0) /\ UNCHANGED shared

\* A failed compare-and-swap is setPtr's, and so deleteVal's, 0.
setPtr(t) ==
  /\ pc[t] = "mark"
  /\ \/ Swaps(t, Marked(expected[t]))
     \/ Probed(t) # expected[t] /\ Return(t, 0) /\ UNCHANGED shared
-----------------------------------------------------------------------------
Step(t) ==
  \/ InsertTable(t) \/ lookup(t) \/ ChooseExpected(t) \/ ClaimSlot(t) \/ RecheckSlot(t)
  \/ ReloadCur(t) \/ addDrop(t) \/ AdvanceCur(t)
  \/ QueryTable(t) \/ lookupQuery(t) \/ ReadPtr(t) \/ setPtr(t)

\* The keys with an entry that is not marked.
Contents ==
  {k \in Keys : \E jj \in DOMAIN TableArray : \E s \in Slots(jj) :
                  Live(At(jj, s), k)}

Overwrites ==
  \E jj \in DOMAIN TableArray : \E s \in Slots(jj) :
    At(jj, s) # Null /\ ~HasKey(At(jj, s)', val[At(jj, s).ent])

\* The history variables follow the calls in progress and constrain nothing.
Look ==
  /\ seen' = [t \in Threads |->
                IF op'[t] = "none" THEN {}
                ELSE seen[t] \cup {IF key'[t] \in Contents' THEN 1 ELSE 0}]
  /\ overwritten' = (overwritten \/ Overwrites)

Next == \E t \in Threads : (CallInsert(t) \/ CallQuery(t) \/ CallDelete(t) \/ Step(t)) /\ Look

Spec == Init /\ [][Next]_vars
-----------------------------------------------------------------------------
(* Properties                                                              *)

Points == {"idle", "table", "lookup", "expect", "claim", "recheck", "reload", "grow",
           "advance", "qtable", "qlookup", "setPtr", "mark"}

\* Every variable has its type.
TypeOK ==
  /\ DOMAIN TableArray \subseteq Nat
  /\ \A jj \in DOMAIN TableArray :
       /\ TableArray[jj].TableSize \in Nat \ {0} /\ TableArray[jj].TableSize % InitSize = 0
       /\ TableArray[jj].InnerTable \in [Slots(jj) -> Pointers]
  /\ cur \in Nat
  /\ pc \in [Threads -> Points]
  /\ op \in [Threads -> {"none", "insert", "query", "delete"}]
  /\ key \in [Threads -> Keys \cup {NULL}]
  /\ ret \in [Threads -> {0, 1}]
  /\ j \in [Threads -> Nat] /\ i \in [Threads -> Attempts] /\ LocalCur \in [Threads -> Nat]
  /\ ent \in [Threads -> Entries \cup {NULL}]
  /\ expected \in [Threads -> Pointers]
  /\ seen \in [Threads -> SUBSET {0, 1}]
  /\ overwritten \in BOOLEAN

\* Deleting opens no gap: whatever inserts and deletes overlap, an entry, marked
\* or not, is on the probe path of its key and no slot before it is NULL.
NoGapBeforeEntry ==
  \A jj \in DOMAIN TableArray : \A s \in Slots(jj) :
    At(jj, s) # Null =>
      LET k == val[At(jj, s).ent]
      IN \E n \in Attempts :
           /\ Bucket(k, n, jj) = s
           /\ \A j2 \in DOMAIN TableArray, m \in Attempts :
                j2 < jj \/ (j2 = jj /\ m < n) => Slot(k, m, j2) # Null

\* A key has at most one entry, marked or not, as long as no insert has replaced
\* the marked entry of another key.
NoDuplicateKey ==
  overwritten \/
  \A j1, j2 \in DOMAIN TableArray : \A s1 \in Slots(j1), s2 \in Slots(j2), k \in Keys :
    HasKey(At(j1, s1), k) /\ HasKey(At(j2, s2), k) => j1 = j2 /\ s1 = s2

\* Whatever overlaps, an entry in the table leaves its slot only after deleteVal
\* has marked it there, and only for an entry that is not marked.
LeavesOnlyMarked ==
  [][\A jj \in DOMAIN TableArray : \A s \in Slots(jj) :
       At(jj, s) # Null /\ At(jj, s)' # At(jj, s) =>
         IF getBool(At(jj, s)) = 0
           THEN At(jj, s)' = Marked(At(jj, s))
           ELSE At(jj, s)' # Null /\ getBool(At(jj, s)') = 0]_vars

Set == INSTANCE ConcurrentSet WITH members <- Contents, Ops <- {"insert", "query", "delete"}

\* insertTable, checkTableQuery and deleteVal are linearizable: of the inserts of
\* an absent key and the deletes of a present one exactly one returns 1.
Linearizable == Set!Spec

\* They are, whatever overlaps, until an insert replaces another key's marked entry.
LinearizableUntilOverwritten == Set!Init /\ [][overwritten' \/ Set!Next]_(Set!vars)
=============================================================================
