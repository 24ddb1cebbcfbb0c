---------------------------- MODULE ConcurrentSet ----------------------------
(***************************************************************************)
(* What lib/hashtable.h promises of every table, whichever file of lib/    *)
(* implements it: a set of keys shared by threads, on which each call      *)
(* takes effect at one instant between its invocation and its return.      *)
(*   insertTable      returns 1 if the key was inserted, 0 if already there*)
(*   checkTableQuery  returns 1 if the key is in the table, 0 if not       *)
(*   deleteVal        returns 1 if it removed the key, 0 if it was absent  *)
(*                                                                         *)
(* A call that changes the set does so in one step.  A call that only      *)
(* looks may return any answer that was right at some instant since its    *)
(* invocation: `seen' holds those answers.  This is linearizability, with  *)
(* the instant of a looking call left open until it returns, because an    *)
(* implementation may commit to an answer before it knows that it has.     *)
(*                                                                         *)
(* A table implements this specification when its own steps, seen through  *)
(* a mapping of its slots to `members', are steps of this module or        *)
(* stutters.                                                               *)
(***************************************************************************)
CONSTANTS Threads,  \* the callers; `tid' in the code
          Keys,     \* the values of entry.val
          Ops,      \* the operations the table at hand offers
          NULL      \* no key

VARIABLES members,  \* the keys in the table
          op,       \* op[t]: the call t is in, or "none"
          key,      \* key[t]: its argument
          ret,      \* ret[t]: what t's last call returned; 0 during a call
          seen      \* seen[t]: what a query of key[t] would have returned, at each instant so far

vars == <<members, op, key, ret, seen>>

Init ==
  /\ members = {}
  /\ op = [t \in Threads |-> "none"]
  /\ key = [t \in Threads |-> NULL]
  /\ ret = [t \in Threads |-> 0]
  /\ seen = [t \in Threads |-> {}]

\* Every call in progress sees the set as it is after the step.
Look ==
  seen' = [t \in Threads |->
             IF op'[t] = "none" THEN {}
             ELSE seen[t] \cup {IF key'[t] \in members' THEN 1 ELSE 0}]

Invoke(t, o, k) ==
  /\ op[t] = "none"
  /\ op' = [op EXCEPT ![t] = o]
  /\ key' = [key EXCEPT ![t] = k]
  /\ ret' = [ret EXCEPT ![t] = 0]
  /\ UNCHANGED members
  /\ Look

\* The call of t leaves the set as S and returns r.
Complete(t, S, r) ==
  /\ members' = S
  /\ ret' = [ret EXCEPT ![t] = r]
  /\ op' = [op EXCEPT ![t] = "none"]
  /\ key' = [key EXCEPT ![t] = NULL]
  /\ Look

Insert(t) ==
  /\ op[t] = "insert"
  /\ \/ key[t] \notin members /\ Complete(t, members \cup {key[t]}, 1)
     \/ 1 \in seen[t] /\ Complete(t, members, 0)

Query(t) ==
  /\ op[t] = "query"
  /\ \/ 1 \in seen[t] /\ Complete(t, members, 1)
     \/ 0 \in seen[t] /\ Complete(t, members, 0)

Delete(t) ==
  /\ op[t] = "delete"
  /\ \/ key[t] \in members /\ Complete(t, members \ {key[t]}, 1)
     \/ 0 \in seen[t] /\ Complete(t, members, 0)

Next ==
  \E t \in Threads :
    \/ \E o \in Ops, k \in Keys : Invoke(t, o, k)
    \/ Insert(t)
    \/ Query(t)
    \/ Delete(t)

Spec == Init /\ [][Next]_vars
=============================================================================
