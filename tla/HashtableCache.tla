---------------------------- MODULE HashtableCache ----------------------------
(***************************************************************************)
(* lib/hashtable_cache.c ("open/cache/remain"), and hashtable_cache_np.c,  *)
(* which is the same but for the prefetches: hashtable.c with each of the  *)
(* HashAttempts probes of a subtable spread over a line of readsPerLine    *)
(* slots.  A key starts at the slot of the line that its tag names and     *)
(* goes round the line.  The pointer in a slot has the tag of its key in   *)
(* its upper 16 bits, so that most comparisons need not follow it.         *)
(*                                                                         *)
(* The loops over attempts and over the slots of a line are one loop of    *)
(* hashtable.c with HashAttempts * readsPerLine probes; the steps of       *)
(* Hashtable that the tags do not touch are the steps here.  The tag in a  *)
(* slot is the tag of its key (hashtag), so it is no state of its own.     *)
(***************************************************************************)
EXTENDS Lines, FiniteSets

CONSTANTS Threads,       \* the threads of the harness
          Keys,          \* the values of entry.val
          NULL,          \* the null pointer
          HashAttempts,  \* head->hashAttempts: lines per subtable
          Hash,          \* Hash[k][i] = murmur3_32(k, kSize, seeds[i])
          hashtag        \* hashtag[k] = genHashTag(k)

ASSUME HashtableCacheAssumption ==
  /\ IsFiniteSet(Keys) /\ Keys # {}
  /\ NULL \notin Keys
  /\ HashAttempts \in Nat \ {0}
  /\ Hash \in [Keys -> [0 .. HashAttempts - 1 -> Nat]]
  /\ hashtag \in [Keys -> -(2 ^ 15) .. 2 ^ 15 - 1]  \* a short

VARIABLES TableArray, cur, pc, op, key, ret, j, i, LocalCur, seen  \* as in Hashtable

vars == <<TableArray, cur, pc, op, key, ret, j, i, LocalCur, seen>>
shared == <<TableArray, cur>>
call == <<op, key, ret>>
locals == <<j, i, LocalCur>>

\* The start of a line, buckets[i] & tsizeMask with tsizeMask the size less 1
\* in whole strides, and the slot in the line.
LinePlace ==
  [k \in Keys |-> [n \in 0 .. HashAttempts * readsPerLine - 1 |-> [size \in Nat \ {0} |->
     LET tsizeMask == ((size - 1) \div lineStride) * lineStride
     IN Masked(Hash[k][n \div readsPerLine], tsizeMask) + InLine(hashtag[k], n)]]]

Table == INSTANCE Hashtable WITH
           HashAttempts <- HashAttempts * readsPerLine,
           InitSize <- initTable,
           Place <- LinePlace

Init == Table!Init

\* Mutant: equal tags are taken for equal keys.
lookup_TagOnly(t) ==
  /\ pc[t] = "lookup"
  /\ UNCHANGED shared
  /\ LET slot == Table!Probed(t) IN
     \/ slot = NULL /\ Table!Goto(t, "claim") /\ UNCHANGED <<call, locals>>
     \/ slot # NULL /\ hashtag[slot] = hashtag[key[t]] /\ Table!Return(t, 0)
     \/ /\ slot # NULL /\ hashtag[slot] # hashtag[key[t]]
        /\ Table!NextAttempt(t, "lookup", "reload", j[t])

\* The tags of the slot and of the entry are compared before the keys.
lookup(t) ==
  /\ pc[t] = "lookup"
  /\ UNCHANGED shared
  /\ LET slot == Table!Probed(t)
         same == hashtag[slot] = hashtag[key[t]] /\ slot = key[t]
     IN \/ slot = NULL /\ Table!Goto(t, "claim") /\ UNCHANGED <<call, locals>>
        \/ slot # NULL /\ same /\ Table!Return(t, 0)
        \/ slot # NULL /\ ~same /\ Table!NextAttempt(t, "lookup", "reload", j[t])

\* The conversion of a short to the char vTag, which keeps its low 8 bits.
Char(tag) == ((tag + 128) % 256) - 128

\* Mutant: a slot with another tag ends the search.
lookupQuery_StopAtTag(t) ==
  /\ pc[t] = "qlookup"
  /\ UNCHANGED shared
  /\ LET slot == Table!Probed(t)
         same == hashtag[slot] = Char(hashtag[key[t]])
     IN \/ (IF slot = NULL THEN TRUE ELSE ~same) /\ Table!Return(t, 0)
        \/ slot # NULL /\ same /\ slot = key[t] /\ Table!Return(t, 1)
        \/ /\ slot # NULL /\ same /\ slot # key[t]
           /\ Table!NextAttempt(t, "qlookup", "qtable", j[t] + 1)

\* lookupQuery has the tag of its key as a char and the tag of the slot as a
\* short: a key whose tag is no char differs from its own entry.
lookupQuery(t) ==
  /\ pc[t] = "qlookup"
  /\ UNCHANGED shared
  /\ LET slot == Table!Probed(t)
         same == hashtag[slot] = Char(hashtag[key[t]]) /\ slot = key[t]
     IN \/ slot = NULL /\ Table!Return(t, 0)
        \/ slot # NULL /\ same /\ Table!Return(t, 1)
        \/ slot # NULL /\ ~same /\ Table!NextAttempt(t, "qlookup", "qtable", j[t] + 1)

ThreadStep(t) ==
  \/ Table!CallInsert(t) \/ Table!InsertTable(t) \/ lookup(t) \/ Table!ClaimSlot(t)
  \/ Table!RecheckSlot(t) \/ Table!ReloadCur(t) \/ Table!addDrop(t) \/ Table!AdvanceCur(t)
  \/ Table!CallQuery(t) \/ Table!QueryTable(t) \/ lookupQuery(t)

Next == \E t \in Threads : ThreadStep(t) /\ Table!Look

Spec == Init /\ [][Next]_vars
-----------------------------------------------------------------------------
(* Properties                                                              *)

\* No call looks past the end of its subtable, whatever slot of a line its tag
\* names; so it is if the lines are whole, and else it need not be.
ProbesInTable ==
  \A t \in Threads : pc[t] \in {"lookup", "claim", "recheck", "qlookup"} =>
    Table!Bucket(key[t], i[t], j[t]) \in Table!Slots(j[t])

\* The first-NULL-bucket rule holds line by line: a key is on its own path
\* round its lines, and no slot before it on that path is empty, although two
\* keys of one line go round it from different slots.
FirstNullBucket == Table!FirstNullBucket

\* However inserts of one key race, it is in at most one slot of one line.
NoDuplicateKey == Table!NoDuplicateKey

\* The keys that lookupQuery can recognise.
Narrow == {k \in Keys : hashtag[k] \in -128 .. 127}

\* hashtable_cache.c does what hashtable.c does with the slots of HashAttempts
\* lines for its probes: the tags change no answer, but for the queries of keys
\* whose tags are no chars.
ImplementsHashtable ==
  /\ Table!Init
  /\ [][\/ Table!Next
        \/ \E t \in Threads : key[t] \notin Narrow /\ lookupQuery(t) /\ Table!Look]_vars

\* insertTable and checkTableQuery are linearizable: a query sees if an entry is
\* in the table.  It does not hold of keys whose tags are no chars.
Linearizable == Table!Set!Spec

\* A query of a key in the table whose tag is no char gives 0.
MissesWideTag ==
  \E t \in Threads : /\ op[t] = "query" /\ key[t] \notin Narrow
                     /\ Table!Set!Complete(t, Table!Contents, 0)

\* insertTable and checkTableQuery are linearizable, but for queries of keys
\* whose tags are no chars: those are inserted once, and not found.
LinearizableButWideTags ==
  Table!Set!Init /\ [][Table!Set!Next \/ MissesWideTag]_(Table!Set!vars)
=============================================================================
