------------------------- MODULE HashtableDeleteCache -------------------------
(***************************************************************************)
(* lib/hashtable_delete_cache.c: hashtable_delete.c with each of the       *)
(* HashAttempts probes of a subtable spread over a line of readsPerLine    *)
(* slots, as in HashtableCache.  The tag of a key is in the upper 16 bits  *)
(* of the pointers to its entries, and in a short of each call: unlike in  *)
(* hashtable_cache.c, both sides of every comparison have the same width.  *)
(*                                                                         *)
(* The loops over attempts and over the slots of a line are one loop of    *)
(* hashtable_delete.c with HashAttempts * readsPerLine probes; the steps   *)
(* of HashtableDelete that the tags do not touch are the steps here.       *)
(***************************************************************************)
EXTENDS Lines, FiniteSets, TLAPS

CONSTANTS Threads,       \* the threads of the harness
          Entries, val,  \* the memory for entries, and the key of each
          NULL,          \* the null pointer
          HashAttempts,  \* head->hashAttempts: lines per subtable
          Hash,          \* Hash[k][i] = murmur3_32(k, kSize, seeds[i])
          mixed          \* mixed[k] = k ^ (k >> 16)

VARIABLES TableArray, cur, pc, op, key, ret, j, i, LocalCur, ent, expected, seen,
          overwritten    \* as in HashtableDelete

vars == <<TableArray, cur, pc, op, key, ret, j, i, LocalCur, ent, expected, seen, overwritten>>
shared == <<TableArray, cur>>
call == <<op, key, ret, ent>>
locals == <<j, i, LocalCur, expected>>

\* (short)(tag & 0xff)
genHashTag(k) == mixed[k] % 2 ^ 8

\* The tag in the upper 16 bits of a pointer to an entry: setTag puts the low 16
\* bits of the short there, and getEntTag takes them out as a short.
getEntTag(e) == ((genHashTag(val[e]) + 2 ^ 15) % 2 ^ 16) - 2 ^ 15

\* The start of a line, (buckets[i] % (TableSize >> log)) << log, and the slot
\* in the line.
LinePlace ==
  [k \in {val[e] : e \in Entries} |-> [n \in 0 .. HashAttempts * readsPerLine - 1 |->
     [size \in Nat \ {0} |->
        (Hash[k][n \div readsPerLine] % (size \div lineStride)) * lineStride
          + InLine(genHashTag(k), n)]]]

Table == INSTANCE HashtableDelete WITH
           HashAttempts <- HashAttempts * readsPerLine,
           InitSize <- initTable,
           Place <- LinePlace

Init == Table!Init

\* The slot has the tag, and then the key, of the call.
Same(ptr, tag, k) ==
  ptr # Table!Null /\ getEntTag(ptr.ent) = tag /\ val[ptr.ent] = k

\* The slot's tag is compared with that of the thread's own entry, before the keys.
lookup(t) ==
  /\ pc[t] = "lookup"
  /\ UNCHANGED shared
  /\ LET slot == Table!Probed(t)
         same == Same(slot, getEntTag(ent[t]), val[ent[t]])
     IN \/ /\ slot = Table!Null \/ (same /\ Table!getBool(slot) = 1)
           /\ Table!Goto(t, "expect") /\ UNCHANGED <<call, locals>>
        \/ same /\ Table!getBool(slot) = 0 /\ Table!Return(t, 0)
        \/ slot # Table!Null /\ ~same /\ Table!NextAttempt(t, "lookup", "reload", j[t])

\* lookupQuery has the tag of the key it looks for in vTag, a short.
lookupQuery(t) ==
  /\ pc[t] = "qlookup"
  /\ UNCHANGED shared
  /\ LET slot == Table!Probed(t)
         same == Same(slot, genHashTag(key[t]), key[t])
     IN \/ /\ slot = Table!Null \/ (same /\ Table!getBool(slot) = 1)
           /\ Table!Return(t, 0)
        \/ /\ same /\ Table!getBool(slot) = 0
           /\ IF op[t] = "query"
                THEN Table!Return(t, 1)
                ELSE Table!Goto(t, "setPtr") /\ UNCHANGED <<call, locals>>
        \/ slot # Table!Null /\ ~same /\ Table!NextAttempt(t, "qlookup", "qtable", j[t] + 1)

ThreadStep(t) ==
  \/ Table!CallInsert(t) \/ Table!CallQuery(t) \/ Table!CallDelete(t)
  \/ Table!InsertTable(t) \/ lookup(t) \/ Table!ChooseExpected(t) \/ Table!ClaimSlot(t)
  \/ Table!RecheckSlot(t) \/ Table!ReloadCur(t) \/ Table!addDrop(t) \/ Table!AdvanceCur(t)
  \/ Table!QueryTable(t) \/ lookupQuery(t) \/ Table!ReadPtr(t) \/ Table!setPtr(t)

Next == \E t \in Threads : ThreadStep(t) /\ Table!Look

Spec == Init /\ [][Next]_vars
-----------------------------------------------------------------------------
(* The tags change nothing                                                 *)

Inserting == {"table", "lookup", "expect", "claim", "recheck", "reload", "grow", "advance"}

\* The k ^ (k >> 16) of every key is a number, and an insert is of its entry's key.
Calls ==
  /\ mixed \in [Table!Keys -> Int]
  /\ pc = [t \in Threads |-> pc[t]]
  /\ op = [t \in Threads |-> op[t]]
  /\ key = [t \in Threads |-> key[t]]
  /\ ent = [t \in Threads |-> ent[t]]
  /\ \A t \in Threads :
       /\ pc[t] # "idle" => key[t] \in Table!Keys
       /\ pc[t] \in Inserting => key[t] = val[ent[t]]

\* Every step keeps it so.
LEMMA CallsStep ==
  ASSUME Calls, NEW t \in Threads, ThreadStep(t)
  PROVE  Calls'
<1> USE DEF Calls, Inserting, Table!Keys, Table!Goto, Table!shared, Table!call, Table!locals, call,
            locals, shared
<1>r. ASSUME NEW r, Table!Return(t, r)
      PROVE  Calls'
  BY <1>r DEF Table!Return
<1>n. ASSUME NEW again \in {"lookup", "qlookup"}, NEW after \in {"reload", "qtable"}, NEW jj,
             Table!NextAttempt(t, again, after, jj), pc[t] # "idle",
             again = "lookup" \/ after = "reload" => pc[t] \in Inserting
      PROVE  Calls'
  BY <1>n DEF Table!NextAttempt
<1>1. CASE Table!CallInsert(t)
  <2>1. PICK e \in Entries : /\ Table!Start(t, "insert", val[e], "table")
                             /\ ent' = [ent EXCEPT ![t] = e]
    BY <1>1 DEF Table!CallInsert
  <2>2. /\ pc' = [pc EXCEPT ![t] = "table"] /\ op' = [op EXCEPT ![t] = "insert"]
        /\ key' = [key EXCEPT ![t] = val[e]]
    BY <2>1 DEF Table!Start
  <2>3. pc'[t] = "table" /\ key'[t] = val[e] /\ ent'[t] = e
    BY <2>1, <2>2
  <2>4. ASSUME NEW u \in Threads, u # t
        PROVE  pc'[u] = pc[u] /\ key'[u] = key[u] /\ ent'[u] = ent[u]
    BY <2>1, <2>2, <2>4
  <2> QED
    BY <2>1, <2>2, <2>3, <2>4
<1>2. CASE Table!CallQuery(t) \/ Table!CallDelete(t)
  BY <1>2 DEF Table!CallQuery, Table!CallDelete, Table!Start
<1>3. CASE lookup(t)
  BY <1>3, <1>r, <1>n DEF lookup
<1>4. CASE Table!InsertTable(t) \/ Table!ChooseExpected(t) \/ Table!ReloadCur(t)
  BY <1>4 DEF Table!InsertTable, Table!ChooseExpected, Table!ReloadCur
<1>5. CASE Table!ClaimSlot(t) \/ Table!setPtr(t)
  BY <1>5, <1>r DEF Table!ClaimSlot, Table!setPtr, Table!Swaps
<1>6. CASE Table!RecheckSlot(t)
  BY <1>6, <1>r, <1>n DEF Table!RecheckSlot
<1>7. CASE Table!addDrop(t) \/ Table!AdvanceCur(t)
  BY <1>7 DEF Table!addDrop, Table!AdvanceCur
<1>8. CASE Table!QueryTable(t)
  BY <1>8, <1>r DEF Table!QueryTable
<1>9. CASE lookupQuery(t)
  BY <1>9, <1>r, <1>n DEF lookupQuery
<1>10. CASE Table!ReadPtr(t)
  BY <1>10 DEF Table!ReadPtr
<1> QED
  BY <1>1, <1>2, <1>3, <1>4, <1>5, <1>6, <1>7, <1>8, <1>9, <1>10 DEF ThreadStep

\* A tag of 8 bits survives the way through the pointer.
LEMMA TagSurvives ==
  ASSUME mixed \in [Table!Keys -> Int], NEW e, val[e] \in Table!Keys
  PROVE  getEntTag(e) = genHashTag(val[e])
<1>1. mixed[val[e]] % 2 ^ 8 \in 0 .. 255
  BY DEF Table!Keys
<1> QED
  BY <1>1 DEF getEntTag, genHashTag

\* So the tags of an entry and of a key are equal if the keys are.
LEMMA TagsOfOneKey ==
  ASSUME Calls, NEW t \in Threads, pc[t] # "idle", NEW ptr
  PROVE  /\ Same(ptr, genHashTag(key[t]), key[t]) <=> Table!HasKey(ptr, key[t])
         /\ pc[t] = "lookup" =>
              (Same(ptr, getEntTag(ent[t]), val[ent[t]]) <=> Table!HasKey(ptr, key[t]))
BY TagSurvives DEF Calls, Inserting, Same, Table!HasKey

\* Every step of the cache-line table is a step of hashtable_delete.c.
LEMMA StepIsTables ==
  ASSUME Calls, NEW t \in Threads, ThreadStep(t)
  PROVE  Table!CallInsert(t) \/ Table!CallQuery(t) \/ Table!CallDelete(t) \/ Table!Step(t)
<1> DEFINE slot == Table!Probed(t)
<1> USE DEF Table!Live, Table!Deleted, Table!Other, Table!shared, Table!call,
            Table!locals, shared, call, locals
<1>1. CASE lookup(t)
  <2>1. pc[t] = "lookup"
    BY <1>1 DEF lookup
  <2>2. Same(slot, getEntTag(ent[t]), val[ent[t]]) <=> Table!HasKey(slot, key[t])
    BY <2>1, TagsOfOneKey
  <2>3. Table!lookup(t)
    BY <1>1, <2>2 DEF lookup, Table!lookup
  <2> QED
    BY <2>3 DEF Table!Step
<1>2. CASE lookupQuery(t)
  <2>1. pc[t] = "qlookup"
    BY <1>2 DEF lookupQuery
  <2>2. Same(slot, genHashTag(key[t]), key[t]) <=> Table!HasKey(slot, key[t])
    BY <2>1, TagsOfOneKey
  <2>3. Table!lookupQuery(t)
    BY <1>2, <2>2 DEF lookupQuery, Table!lookupQuery
  <2> QED
    BY <2>3 DEF Table!Step
<1>3. CASE ~lookup(t) /\ ~lookupQuery(t)
  BY <1>3 DEF ThreadStep, Table!Step
<1> QED
  BY <1>1, <1>2, <1>3

\* hashtable_delete_cache.c does what hashtable_delete.c does with the slots of
\* HashAttempts lines for its probes, whatever slots the masks name: the tags
\* change no answer.  What HashtableDeleteProofs shows of hashtable_delete.c, it
\* shows of places that are in their subtables (its PlacesFit), which need not
\* be so unless the lines are whole (WholeLines).
THEOREM Implementation ==
  mixed \in [Table!Keys -> Int] /\ Spec => Table!Spec
<1>1. mixed \in [Table!Keys -> Int] /\ Init => Calls /\ Table!Init
  BY DEF Init, Table!Init, Calls, Inserting
<1>2. Calls /\ [Next]_vars => Calls' /\ [Table!Next]_(Table!vars)
  <2> SUFFICES ASSUME Calls, [Next]_vars
               PROVE  Calls' /\ [Table!Next]_(Table!vars)
    OBVIOUS
  <2>1. CASE Next
    BY <2>1, CallsStep, StepIsTables DEF Next, Table!Next
  <2>2. CASE UNCHANGED vars
    BY <2>2 DEF vars, Table!vars, Calls, Table!Keys
  <2> QED
    BY <2>1, <2>2
<1> QED
  BY <1>1, <1>2, PTL DEF Spec, Table!Spec
=============================================================================
