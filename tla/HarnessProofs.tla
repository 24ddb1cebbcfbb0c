----------------------------- MODULE HarnessProofs -----------------------------
(***************************************************************************)
(* Proofs about Harness, for any number of threads, calls and trials.      *)
(*                                                                         *)
(* The barriers keep the threads in step because each has passed as many   *)
(* of them as any other, or one more and then it waits; all else follows   *)
(* from where thread 0 is.                                                 *)
(***************************************************************************)
EXTENDS Harness, FiniteSetTheorems, TLAPS

\* The points at which a thread has arrived at so many barriers of its trial.
Stage1 == {"leavefirst", "notefirst", "trial", "call", "second"}
Stage2 == {"leavesecond", "notesecond", "summary", "after", "decide", "free", "last"}
Stage3 == {"leavelast", "while", "done"}
Stage(t) ==
  IF pc[t] \in Stage1 THEN 1 ELSE IF pc[t] \in Stage2 THEN 2 ELSE IF pc[t] \in Stage3 THEN 3 ELSE 0

\* At how many barriers t has arrived since it started.
Passed(t) == 3 * trial[t] + Stage(t)

\* Has t arrived at a barrier that another thread has not?
Ahead(t) == \E u \in Threads : Passed(u) < Passed(t)

WaitsAt(t, b) ==
  IF b = "loop" THEN pc[t] \in {"leavefirst", "leavesecond"} ELSE pc[t] = "leavelast"

\* Who is ahead waits, for one barrier only, and who waits and is not ahead may leave.
Sync(t) ==
  /\ \A u \in Threads : Passed(t) <= Passed(u) + 1
  /\ Ahead(t) => pc[t] \in {"leavefirst", "leavesecond", "leavelast"}
  /\ \A b \in Barriers : t \in arrived[b] <=> WaitsAt(t, b) /\ Ahead(t)
  /\ \A b \in Barriers : t \in released[b] <=> WaitsAt(t, b) /\ ~Ahead(t)

\* What t alone has established where it is.
ThreadInv(t) ==
  /\ pc[t] \in {"none", "start"} => trial[t] = 0
  /\ pc[t] \in {"init", "summary", "after", "decide", "free"} => t = 0
  /\ head[t] # None => pc[t] \in {"call", "decide"} /\ head[t] = trial[t]
  /\ pc[t] = "summary" => n[t] \in Threads
  /\ pc[t] \notin {"call", "summary"} => n[t] = 0
  /\ pc[t] \in {"trial", "call", "second"} \cup Stage2 \cup Stage3 =>
       endWait[t] # None /\ endWait[t].trial = trial[t]

\* What thread 0 does for all: the table, the count of the trials and their results.
ZeroInv ==
  /\ trial[0] < Capacity
  /\ pc[0] \in {"free"} \cup Stage3 \cup {"last"} /\ notDone = 1 => trial[0] + 1 < Capacity
  /\ IF pc[0] \in {"last"} \cup Stage3
       THEN allocated = {} /\ trialNumber = trial[0] + 1
       ELSE trialNumber = trial[0]
  /\ pc[0] \in {"none", "start", "setup", "init"} => allocated = {}
  /\ pc[0] \in ({"first"} \cup Stage1 \cup Stage2) \ {"last"} =>
       allocated = {globalHead} /\ globalHead = trial[0]
  /\ pc[0] = "summary" => \A u \in Threads : u < n[0] =>
       barrierEnds[u] # None /\ barrierEnds[u].trial = trial[0]
  /\ pc[0] \in {"after", "decide", "free"} => \A u \in Threads :
       barrierEnds[u] # None /\ barrierEnds[u].trial = trial[0]

Finished == {t \in Threads : pc[t] = "done"}

\* The points at which thread 0 has decided whether there is another trial.
Decided == {"free", "last"} \cup Stage3

\* Only the last of the planned trials ends the loop; no error is compared before it.
TrialsInv ==
  /\ trial[0] < trialsToRun /\ small = FALSE
  /\ notDone = IF pc[0] \in Decided /\ trial[0] + 1 = trialsToRun THEN 0 ELSE 1
  /\ pc[0] = "done" => notDone = 0

\* main has created the threads up to its count, and joins those that are done.
MainInv ==
  /\ main.at = "create" => \A t \in Threads : t >= main.i => pc[t] = "none"
  /\ main.at = "wait" => main.i = 0
  /\ main.at = "join" => \A t \in Threads : t < main.i => pc[t] = "done"
  /\ main.at = "report" => \A t \in Threads : pc[t] = "done"
  /\ threadsDone + (IF main.at \in {"join", "report"} THEN 1 ELSE 0) = Cardinality(Finished)

\* The inductive invariant.
Inv ==
  /\ TypeOK
  /\ \A t \in Threads : Sync(t) /\ ThreadInv(t)
  /\ ZeroInv
  /\ MainInv
-----------------------------------------------------------------------------
(* Constants and counts                                                    *)

\* There is a thread 0, and place for at least one trial.
LEMMA ConstantFacts ==
  /\ nthreads \in Nat \ {0} /\ 0 \in Threads /\ Threads \subseteq Nat
  /\ IsFiniteSet(Threads) /\ Cardinality(Threads) = nthreads
  /\ trialsToRun \in Nat \ {0} /\ Capacity \in Nat \ {0} /\ trialsToRun <= Capacity
  /\ stopError => Capacity = 10 * trialsToRun
<1>1. nthreads \in Nat \ {0} /\ trials \in Nat /\ stopError \in BOOLEAN
  BY HarnessAssumption
<1>2. IsFiniteSet(Threads) /\ Cardinality(Threads) = nthreads
  <2>1. 0 \in Int /\ nthreads - 1 \in Int /\ 0 <= nthreads - 1
    BY <1>1
  <2>2. IsFiniteSet(0 .. nthreads - 1) /\ Cardinality(0 .. nthreads - 1) = (nthreads - 1) - 0 + 1
    BY <2>1, FS_Interval
  <2> QED
    BY <1>1, <2>2 DEF Threads
<1>3. trialsToRun \in Nat \ {0}
  BY <1>1 DEF trialsToRun
<1> HIDE DEF trialsToRun
<1>4. Capacity = IF stopError THEN 10 * trialsToRun ELSE trialsToRun
  BY <1>1, <1>3 DEF Capacity
<1> QED
  BY <1>1, <1>2, <1>3, <1>4 DEF Threads

\* How far a thread is, in numbers.
LEMMA PassedFacts ==
  ASSUME TypeOK, NEW t \in Threads
  PROVE  /\ trial[t] \in Nat /\ Stage(t) \in 0 .. 3 /\ Passed(t) \in Nat
         /\ Passed(t) = 3 * trial[t] + Stage(t)
         /\ pc[t] \in Stage1 <=> Stage(t) = 1
         /\ pc[t] \in Stage2 <=> Stage(t) = 2
         /\ pc[t] \in Stage3 <=> Stage(t) = 3
<1>1. trial[t] \in Nat /\ Stage(t) \in 0 .. 3
  BY DEF TypeOK, Stage
<1>2. Passed(t) \in Nat /\ Passed(t) = 3 * trial[t] + Stage(t)
  BY <1>1 DEF Passed
<1> QED
  BY <1>1, <1>2 DEF Stage, Stage1, Stage2, Stage3

\* Where all are while t is between two barriers: between the same two, or at the
\* second of them.
LEMMA Together ==
  ASSUME TypeOK, NEW t \in Threads, NEW u \in Threads, Sync(t), Sync(u),
         pc[t] \notin {"leavefirst", "leavesecond", "leavelast"}
  PROVE  /\ Passed(u) \in {Passed(t), Passed(t) + 1}
         /\ Passed(u) = Passed(t) + 1 => pc[u] \in {"leavefirst", "leavesecond", "leavelast"}
<1>1. ~Ahead(t)
  BY DEF Sync
<1>2. Passed(t) <= Passed(u) /\ Passed(u) <= Passed(t) + 1 /\ Passed(t) \in Nat /\ Passed(u) \in Nat
  BY <1>1, PassedFacts DEF Ahead, Sync
<1>3. Passed(u) = Passed(t) + 1 => Ahead(u)
  BY <1>2 DEF Ahead
<1> QED
  BY <1>2, <1>3 DEF Sync
-----------------------------------------------------------------------------
(* The barriers                                                            *)

\* A step of one thread leaves the others where they are.
LEMMA OthersStep ==
  ASSUME TypeOK, NEW t \in Threads, run(t), NEW u \in Threads, u # t
  PROVE  /\ pc'[u] = pc[u] /\ trial'[u] = trial[u] /\ head'[u] = head[u] /\ n'[u] = n[u]
         /\ endWait'[u] = endWait[u]
<1> USE DEF TypeOK, Goto, summary
<1>1. CASE StartThread(t) \/ setupToCollectTrialStats(t) \/ initTable(t) \/ StartTrial(t)
  BY <1>1 DEF StartThread, setupToCollectTrialStats, initTable, StartTrial
<1>2. CASE startThreadTimer(t) \/ endThreadTimer(t) \/ EndLoop(t)
  BY <1>2 DEF startThreadTimer, endThreadTimer, EndLoop, Arrive, Leave, Note
<1>3. CASE insertTrial(t) \/ getBTsummary(t) \/ InsertAfter(t)
  BY <1>3 DEF insertTrial, getBTsummary, InsertAfter
<1>4. CASE Decide(t) \/ freeAll(t) \/ While(t)
  BY <1>4 DEF Decide, freeAll, While
<1> QED
  BY <1>1, <1>2, <1>3, <1>4 DEF run

\* A step that takes no thread to a barrier or from it keeps them in step.
LEMMA KeepSync ==
  ASSUME TypeOK, TypeOK', \A u \in Threads : Sync(u), UNCHANGED barriers,
         \A u \in Threads : Passed(u)' = Passed(u),
         \A u \in Threads :
           \/ pc'[u] = pc[u]
           \/ /\ pc[u] \notin {"leavefirst", "leavesecond", "leavelast"}
              /\ pc'[u] \notin {"leavefirst", "leavesecond", "leavelast"}
  PROVE  \A u \in Threads : Sync(u)'
<1> TAKE u \in Threads
<1>1. Ahead(u)' <=> Ahead(u)
  BY DEF Ahead
<1>2. \A b \in Barriers : WaitsAt(u, b)' <=> WaitsAt(u, b)
  BY DEF WaitsAt
<1> QED
  BY <1>1, <1>2 DEF Sync, barriers

\* Arriving: the last one lets all leave.
LEMMA ArriveSync ==
  ASSUME TypeOK, TypeOK', \A u \in Threads : Sync(u), NEW t \in Threads, NEW b \in Barriers,
         NEW label, Arrive(t, b, label),
         \A u \in Threads : u # t => pc'[u] = pc[u], trial' = trial,
         \/ pc[t] = "first" /\ b = "loop" /\ label = "leavefirst"
         \/ pc[t] = "second" /\ b = "loop" /\ label = "leavesecond"
         \/ pc[t] = "last" /\ b = "endLoop" /\ label = "leavelast"
  PROVE  \A u \in Threads : Sync(u)'
<1> DEFINE p == Passed(t)
<1>1. /\ pc[t] \notin {"leavefirst", "leavesecond", "leavelast"} /\ pc'[t] = label
      /\ WaitsAt(t, b)'
  BY DEF Arrive, Goto, TypeOK, WaitsAt
<1>2. \A u \in Threads : /\ Passed(u) \in Nat /\ Passed(u) \in {p, p + 1}
                         /\ Passed(u) = p + 1 => pc[u] \in {"leavefirst", "leavesecond", "leavelast"}
  BY <1>1, Together, PassedFacts
<1>3. Passed(t)' = p + 1 /\ \A u \in Threads : u # t => Passed(u)' = Passed(u)
  <2>1. Stage(t)' = Stage(t) + 1
    BY <1>1 DEF Stage, Stage1, Stage2, Stage3
  <2>2. \A u \in Threads : u # t => Stage(u)' = Stage(u)
    BY DEF Stage
  <2> QED
    BY <2>1, <2>2, PassedFacts DEF Passed
<1>4. \A u \in Threads : Ahead(u) <=> Passed(u) = p + 1
  BY <1>2 DEF Ahead
<1> DEFINE All == arrived[b] \cup {t} = Threads
<1>5. ASSUME NEW u \in Threads, u # t
      PROVE  u \in arrived[b] <=> Passed(u) = p + 1
  <2>1. u \in arrived[b] => Passed(u) = p + 1
    BY <1>4 DEF Sync
  <2>2. ASSUME Passed(u) = p + 1
        PROVE  WaitsAt(u, b)
    <3>1. 3 * trial[u] + Stage(u) = 3 * trial[t] + Stage(t) + 1
      BY <2>2, PassedFacts
    <3>2. /\ trial[u] \in Nat /\ trial[t] \in Nat /\ Stage(u) \in 1 .. 3 /\ Stage(t) \in 0 .. 2
          /\ pc[u] \in {"leavefirst", "leavesecond", "leavelast"}
      BY <1>2, <2>2, PassedFacts DEF Stage, Stage1, Stage2, Stage3
    <3>3. Stage(u) = Stage(t) + 1
      BY <3>1, <3>2
    <3> QED
      BY <3>2, <3>3 DEF Stage, Stage1, Stage2, Stage3, WaitsAt
  <2> QED
    BY <1>4, <2>1, <2>2 DEF Sync
<1>6. t \notin arrived[b] /\ \A c \in Barriers : t \notin arrived[c] /\ t \notin released[c]
  BY <1>1 DEF Sync, WaitsAt
<1>7. arrived[b] \subseteq Threads /\ arrived \in [Barriers -> SUBSET Threads]
      /\ released \in [Barriers -> SUBSET Threads]
  BY DEF TypeOK
<1>8. \A u \in Threads, c \in Barriers : u # t => (WaitsAt(u, c)' <=> WaitsAt(u, c))
  BY DEF WaitsAt
<1>9. \A u \in Threads, c, d \in Barriers : WaitsAt(u, c)' /\ WaitsAt(u, d)' => c = d
  BY DEF WaitsAt, Barriers
<1>10. CASE All
  <2>1. \A u \in Threads : Passed(u)' = p + 1
    BY <1>3, <1>5, <1>10
  <2>2. \A u \in Threads : ~Ahead(u)'
    BY <1>2, <2>1 DEF Ahead
  <2>3. \A u \in Threads : WaitsAt(u, b)' /\ pc'[u] \in {"leavefirst", "leavesecond", "leavelast"}
    <3>1. \A u \in Threads : u # t => WaitsAt(u, b)
      BY <1>10 DEF Sync
    <3> QED
      BY <1>1, <1>8, <3>1 DEF WaitsAt
  <2>4. /\ arrived' = [arrived EXCEPT ![b] = {}]
        /\ released' = [released EXCEPT ![b] = Threads]
    BY <1>10 DEF Arrive
  <2>5. \A u \in Threads, c \in Barriers : u \notin arrived'[c]
    <3>1. ASSUME NEW u \in Threads, NEW c \in Barriers, c # b, u \in arrived[c]
          PROVE  FALSE
      BY <1>6, <1>8, <1>9, <2>3, <3>1 DEF Sync
    <3> QED
      BY <1>7, <2>4, <3>1
  <2>6. \A u \in Threads, c \in Barriers : u \in released'[c] <=> WaitsAt(u, c)'
    <3>1. ASSUME NEW u \in Threads, NEW c \in Barriers, c # b
          PROVE  u \notin released[c] /\ ~WaitsAt(u, c)'
      BY <1>6, <1>8, <1>9, <2>3, <3>1 DEF Sync
    <3> QED
      BY <1>7, <2>3, <2>4, <3>1
  <2>7. \A u, v \in Threads : Passed(u)' <= Passed(v)' + 1
    BY <1>2, <2>1
  <2> QED
    BY <2>2, <2>3, <2>5, <2>6, <2>7 DEF Sync
<1>11. CASE ~All
  <2>1. PICK w \in Threads : w # t /\ Passed(w) = p
    BY <1>2, <1>5, <1>7, <1>11
  <2>2. \A u \in Threads : Passed(u)' \in {p, p + 1}
    BY <1>2, <1>3
  <2>3. \A u \in Threads : Ahead(u)' <=> Passed(u)' = p + 1
    BY <1>2, <1>3, <2>1, <2>2 DEF Ahead
  <2>4. arrived' = [arrived EXCEPT ![b] = @ \cup {t}] /\ released' = released
    BY <1>11 DEF Arrive
  <2>5. ASSUME NEW u \in Threads, u # t
        PROVE  Sync(u)'
    <3>1. Ahead(u)' <=> Ahead(u)
      BY <1>3, <1>4, <2>3, <2>5
    <3>2. \A c \in Barriers : (u \in arrived'[c] <=> u \in arrived[c]) /\ released'[c] = released[c]
      BY <1>7, <2>4, <2>5
    <3>3. \A v \in Threads : Passed(u)' <= Passed(v)' + 1
      BY <1>2, <2>2
    <3>4. Sync(u) /\ pc'[u] = pc[u]
      BY <2>5
    <3> QED
      BY <1>8, <2>5, <3>1, <3>2, <3>3, <3>4 DEF Sync
  <2>6. Sync(t)'
    <3>1. Ahead(t)'
      BY <1>3, <2>3
    <3>2. \A c \in Barriers : t \in arrived'[c] <=> c = b
      BY <1>6, <1>7, <2>4
    <3>3. \A v \in Threads : Passed(t)' <= Passed(v)' + 1
      BY <1>2, <2>2
    <3>4. pc'[t] \in {"leavefirst", "leavesecond", "leavelast"}
      BY <1>1
    <3> QED
      BY <1>1, <1>6, <1>9, <2>4, <3>1, <3>2, <3>3, <3>4 DEF Sync
  <2> QED
    BY <2>5, <2>6
<1> QED
  BY <1>10, <1>11

\* Leaving a barrier whose last thread has arrived.
LEMMA LeaveSync ==
  ASSUME TypeOK, TypeOK', \A u \in Threads : Sync(u), NEW t \in Threads, NEW b \in Barriers,
         NEW label, Leave(t, b, label),
         \A u \in Threads : u # t => pc'[u] = pc[u], trial' = trial,
         \/ pc[t] = "leavefirst" /\ b = "loop" /\ label = "notefirst"
         \/ pc[t] = "leavesecond" /\ b = "loop" /\ label = "notesecond"
         \/ pc[t] = "leavelast" /\ b = "endLoop" /\ label = "while"
  PROVE  \A u \in Threads : Sync(u)'
<1>1. pc'[t] = label /\ ~Ahead(t) /\ WaitsAt(t, b)
  BY DEF Leave, Goto, TypeOK, Sync
<1>2. \A u \in Threads : Passed(u)' = Passed(u)
  <2>1. \A u \in Threads : Stage(u)' = Stage(u)
    BY <1>1 DEF Stage, Stage1, Stage2, Stage3
  <2> QED
    BY <2>1 DEF Passed
<1>3. \A u \in Threads : Ahead(u)' <=> Ahead(u)
  BY <1>2 DEF Ahead
<1>4. \A u \in Threads, c \in Barriers : u # t => (WaitsAt(u, c)' <=> WaitsAt(u, c))
  BY DEF WaitsAt
<1>5. \A c \in Barriers : ~WaitsAt(t, c)' /\ (WaitsAt(t, c) => c = b)
  BY <1>1 DEF WaitsAt, Barriers
<1>6. arrived' = arrived /\ released' = [released EXCEPT ![b] = @ \ {t}]
      /\ released \in [Barriers -> SUBSET Threads]
  BY DEF Leave, TypeOK
<1>7. ASSUME NEW u \in Threads, u # t
      PROVE  Sync(u)'
  <2>1. \A c \in Barriers : (u \in released'[c] <=> u \in released[c]) /\ arrived'[c] = arrived[c]
    BY <1>6, <1>7
  <2>2. Sync(u) /\ pc'[u] = pc[u]
    BY <1>7
  <2> QED
    BY <1>2, <1>3, <1>4, <1>7, <2>1, <2>2 DEF Sync
<1>8. Sync(t)'
  <2>1. \A c \in Barriers : t \notin released'[c] /\ t \notin arrived'[c]
    BY <1>1, <1>5, <1>6 DEF Sync
  <2> QED
    BY <1>1, <1>2, <1>3, <1>5, <2>1 DEF Sync
<1> QED
  BY <1>7, <1>8
-----------------------------------------------------------------------------
(* main                                                                    *)

\* The threads that have finished are counted, but for the one main has waited for.
LEMMA MainStep ==
  ASSUME Inv, NEW t \in Threads, run(t)
  PROVE  MainInv' /\ threadsDone' \in 0 .. nthreads
<1> TypeOK /\ MainInv
  BY DEF Inv
<1> USE DEF TypeOK, Goto
<1>1. main' = main /\ \A u \in Threads : u # t => pc'[u] = pc[u]
  <2>1. main' = main
    BY DEF run, StartThread, setupToCollectTrialStats, initTable, startThreadTimer, StartTrial,
           insertTrial, endThreadTimer, getBTsummary, InsertAfter, Decide, freeAll, EndLoop, While
  <2> QED
    BY <2>1, OthersStep
<1>2. pc[t] \notin {"none", "done"}
  BY DEF run, StartThread, setupToCollectTrialStats, initTable, startThreadTimer, StartTrial,
         insertTrial, endThreadTimer, getBTsummary, InsertAfter, Decide, freeAll, EndLoop, While
<1>3. CASE pc'[t] # "done" /\ threadsDone' = threadsDone
  <2>1. Finished' = Finished
    BY <1>1, <1>2, <1>3 DEF Finished
  <2> QED
    BY <1>1, <1>2, <1>3, <2>1, ConstantFacts DEF MainInv
<1>4. CASE pc'[t] = "done" /\ threadsDone' = threadsDone + 1
  <2>1. Finished' = Finished \cup {t} /\ t \notin Finished /\ Finished' \subseteq Threads
    BY <1>1, <1>2, <1>4 DEF Finished
  <2>2. IsFiniteSet(Finished) /\ Cardinality(Finished') <= nthreads
        /\ Cardinality(Finished) \in Nat /\ Cardinality(Finished') \in Nat
    BY <2>1, ConstantFacts, FS_Subset, FS_CardinalityType
  <2>3. Cardinality(Finished') = Cardinality(Finished) + 1
    BY <2>1, <2>2, FS_AddElement
  <2>4. threadsDone \in Nat /\ nthreads \in Nat
    BY ConstantFacts
  <2>5. threadsDone' \in 0 .. nthreads
    <3>1. threadsDone + (IF main.at \in {"join", "report"} THEN 1 ELSE 0) = Cardinality(Finished)
      BY DEF MainInv
    <3> QED
      BY <1>4, <2>2, <2>3, <2>4, <3>1
  <2>6. /\ main'.at = "create" => \A u \in Threads : u >= main'.i => pc'[u] = "none"
        /\ main'.at = "wait" => main'.i = 0
        /\ main'.at = "join" => \A u \in Threads : u < main'.i => pc'[u] = "done"
        /\ main'.at = "report" => \A u \in Threads : pc'[u] = "done"
    BY <1>1, <1>2, <1>4 DEF MainInv
  <2>7. threadsDone' + (IF main'.at \in {"join", "report"} THEN 1 ELSE 0) = Cardinality(Finished')
    BY <1>1, <1>4, <2>2, <2>3, <2>4 DEF MainInv
  <2> QED
    BY <2>5, <2>6, <2>7 DEF MainInv
<1>5. CASE While(t)
  BY <1>3, <1>4, <1>5 DEF While
<1>6. CASE startThreadTimer(t) \/ endThreadTimer(t) \/ EndLoop(t)
  BY <1>3, <1>6 DEF startThreadTimer, endThreadTimer, EndLoop, Arrive, Leave, Note
<1> QED
  BY <1>3, <1>5, <1>6
  DEF run, StartThread, setupToCollectTrialStats, initTable, StartTrial, insertTrial,
      getBTsummary, InsertAfter, Decide, freeAll

\* main's own steps.
LEMMA MainOwnStep ==
  ASSUME Inv, Main
  PROVE  /\ MainInv' /\ main' \in [at : {"create", "wait", "join", "report"}, i : Threads]
         /\ threadsDone' \in 0 .. nthreads
         /\ \/ pc' = pc
            \/ \E u \in Threads : pc[u] = "none" /\ pc' = [pc EXCEPT ![u] = "start"]
<1> TypeOK /\ MainInv
  BY DEF Inv
<1> USE DEF TypeOK
<1>1. nthreads \in Nat \ {0} /\ Threads = 0 .. nthreads - 1
  BY ConstantFacts DEF Threads
<1>2. main.i \in Threads /\ main = [at |-> main.at, i |-> main.i]
  OBVIOUS
<1>3. CASE Create
  <2>1. pc[main.i] = "none" /\ pc' = [pc EXCEPT ![main.i] = "start"] /\ threadsDone' = threadsDone
        /\ main.at = "create"
    BY <1>1, <1>2, <1>3 DEF Create, MainInv
  <2>2. main' = IF main.i + 1 < nthreads THEN [at |-> "create", i |-> main.i + 1]
                ELSE [at |-> "wait", i |-> 0]
    BY <1>2, <1>3 DEF Create
  <2>3. main' \in [at : {"create", "wait", "join", "report"}, i : Threads]
    BY <1>1, <1>2, <2>2
  <2>4. Finished' = Finished
    BY <2>1 DEF Finished
  <2>5. main'.at = "create" => \A t \in Threads : t >= main'.i => pc'[t] = "none"
    <3> SUFFICES ASSUME main.i + 1 < nthreads, NEW t \in Threads, t >= main.i + 1
                 PROVE  pc'[t] = "none"
      BY <2>2
    <3>1. t >= main.i /\ t # main.i
      BY <1>1, <1>2
    <3> QED
      BY <2>1, <3>1 DEF MainInv
  <2>6. main'.at \in {"create", "wait"} /\ (main'.at = "wait" => main'.i = 0)
    BY <2>2
  <2> QED
    BY <1>2, <2>1, <2>3, <2>4, <2>5, <2>6 DEF MainInv
<1>4. CASE SemWait
  <2>1. main' = [at |-> "join", i |-> 0] /\ threadsDone' = threadsDone - 1 /\ threadsDone > 0
        /\ pc' = pc /\ main.at = "wait"
    BY <1>2, <1>4 DEF SemWait, MainInv
  <2>2. Finished' = Finished
    BY <2>1 DEF Finished
  <2>3. threadsDone' \in 0 .. nthreads
    BY <1>1, <2>1
  <2>4. threadsDone' + 1 = Cardinality(Finished')
    BY <1>1, <2>1, <2>2 DEF MainInv
  <2>5. \A t \in Threads : ~(t < 0)
    BY <1>1
  <2> QED
    BY <1>1, <2>1, <2>3, <2>4, <2>5 DEF MainInv
<1>5. CASE Join
  <2>1. pc[main.i] = "done" /\ pc' = pc /\ threadsDone' = threadsDone /\ main.at = "join"
    BY <1>5 DEF Join
  <2>2. main' = IF main.i + 1 < nthreads THEN [at |-> "join", i |-> main.i + 1]
                ELSE [at |-> "report", i |-> 0]
    BY <1>2, <1>5, <2>1 DEF Join
  <2>3. Finished' = Finished
    BY <2>1 DEF Finished
  <2>4. \A t \in Threads : t < main.i + 1 => pc'[t] = "done"
    <3> SUFFICES ASSUME NEW t \in Threads, t < main.i + 1
                 PROVE  pc'[t] = "done"
      OBVIOUS
    <3>1. t < main.i \/ t = main.i
      BY <1>1, <1>2
    <3> QED
      BY <2>1, <3>1 DEF MainInv
  <2>5. ~(main.i + 1 < nthreads) => \A t \in Threads : pc'[t] = "done"
    BY <1>1, <1>2, <2>4
  <2>6. main' \in [at : {"create", "wait", "join", "report"}, i : Threads]
    BY <1>1, <1>2, <2>2
  <2>7. threadsDone' + 1 = Cardinality(Finished') /\ main'.at \in {"join", "report"}
    BY <2>1, <2>2, <2>3 DEF MainInv
  <2> QED
    BY <2>1, <2>2, <2>4, <2>5, <2>6, <2>7 DEF MainInv
<1> QED
  BY <1>2, <1>3, <1>4, <1>5 DEF Main, Create, MainInv, SemWait, Join
-----------------------------------------------------------------------------
(* Types                                                                   *)

\* A step of a thread leaves every variable of its type.
LEMMA TypeStep ==
  ASSUME Inv, NEW t \in Threads, run(t)
  PROVE  TypeOK'
<1> TypeOK /\ ThreadInv(t) /\ ZeroInv
  BY DEF Inv
<1>1. threadsDone' \in 0 .. nthreads
  BY MainStep
<1> USE <1>1, ConstantFacts DEF TypeOK, Goto, Points, barriers, tables, results, summary
<1>2. CASE StartThread(t)
  BY <1>2 DEF StartThread
<1>3. CASE setupToCollectTrialStats(t)
  <2>1. t = 0 => trialNumber \in 0 .. Capacity - 1
    BY <1>3 DEF setupToCollectTrialStats, ZeroInv, Stage3
  <2>2. [u \in Threads |-> None] \in [Threads -> Times]
    BY DEF Times
  <2> QED
    BY <1>3, <2>1, <2>2 DEF setupToCollectTrialStats
<1>4. CASE initTable(t)
  BY <1>4 DEF initTable
<1>5. ASSUME NEW b \in Barriers, NEW label \in Points, Arrive(t, b, label) \/ Leave(t, b, label)
      PROVE  /\ pc' \in [Threads -> Points]
             /\ arrived' \in [Barriers -> SUBSET Threads]
             /\ released' \in [Barriers -> SUBSET Threads]
  BY <1>5 DEF Arrive, Leave
<1>6. ASSUME NEW at \in {"start", "end"}, NEW label \in Points, Note(t, at, label)
      PROVE  pc' \in [Threads -> Points] /\ endWait' \in [Threads -> Times]
  BY <1>6 DEF Note, Times
<1>7. CASE startThreadTimer(t) \/ endThreadTimer(t) \/ EndLoop(t)
  BY <1>5, <1>6, <1>7 DEF startThreadTimer, endThreadTimer, EndLoop, Barriers
<1>8. CASE StartTrial(t)
  BY <1>8 DEF StartTrial
<1>9. CASE insertTrial(t)
  BY <1>9 DEF insertTrial
<1>10. CASE getBTsummary(t)
  BY <1>10 DEF getBTsummary, ThreadInv
<1>11. CASE InsertAfter(t)
  BY <1>11 DEF InsertAfter
<1>12. CASE Decide(t)
  BY <1>12 DEF Decide
<1>13. CASE freeAll(t)
  <2>1. trialNumber + 1 \in 0 .. Capacity
    <3>1. trialNumber = trial[0] /\ trial[0] < Capacity
      BY <1>13 DEF freeAll, ZeroInv, Stage3, ThreadInv
    <3> QED
      BY <3>1
  <2> QED
    BY <1>13, <2>1 DEF freeAll
<1>14. CASE While(t)
  BY <1>14 DEF While
<1> QED
  BY <1>2, <1>3, <1>4, <1>7, <1>8, <1>9, <1>10, <1>11, <1>12, <1>13, <1>14 DEF run
-----------------------------------------------------------------------------
(* The threads                                                             *)

\* Every step of a thread keeps all in step.
LEMMA SyncStep ==
  ASSUME Inv, NEW t \in Threads, run(t)
  PROVE  \A u \in Threads : Sync(u)'
<1> TypeOK /\ TypeOK' /\ (\A u \in Threads : Sync(u)) /\ ThreadInv(t)
  BY TypeStep DEF Inv
<1>1. \A u \in Threads : u # t => pc'[u] = pc[u] /\ trial'[u] = trial[u]
  BY OthersStep
<1>2. ASSUME UNCHANGED barriers, Passed(t)' = Passed(t),
             pc[t] \notin {"leavefirst", "leavesecond", "leavelast"},
             pc'[t] \notin {"leavefirst", "leavesecond", "leavelast"}
      PROVE  \A u \in Threads : Sync(u)'
  <2>1. \A u \in Threads : Passed(u)' = Passed(u)
    BY <1>1, <1>2 DEF Passed, Stage
  <2> QED
    BY <1>1, <1>2, <2>1, KeepSync
<1>3. ASSUME UNCHANGED <<barriers, trial>>, Stage(t)' = Stage(t),
             pc[t] \notin {"leavefirst", "leavesecond", "leavelast"},
             pc'[t] \notin {"leavefirst", "leavesecond", "leavelast"}
      PROVE  \A u \in Threads : Sync(u)'
  BY <1>2, <1>3 DEF Passed
<1>4. CASE startThreadTimer(t) \/ endThreadTimer(t) \/ EndLoop(t)
  <2>1. trial' = trial
    BY <1>4 DEF startThreadTimer, endThreadTimer, EndLoop
  <2>2. CASE \/ pc[t] = "first" /\ Arrive(t, "loop", "leavefirst")
             \/ pc[t] = "second" /\ Arrive(t, "loop", "leavesecond")
             \/ pc[t] = "last" /\ Arrive(t, "endLoop", "leavelast")
    BY <1>1, <2>1, <2>2, ArriveSync DEF Barriers
  <2>3. CASE \/ pc[t] = "leavefirst" /\ Leave(t, "loop", "notefirst")
             \/ pc[t] = "leavesecond" /\ Leave(t, "loop", "notesecond")
             \/ pc[t] = "leavelast" /\ Leave(t, "endLoop", "while")
    BY <1>1, <2>1, <2>3, LeaveSync DEF Barriers
  <2>4. CASE UNCHANGED barriers /\ pc[t] \in {"notefirst", "notesecond"}
    BY <1>3, <1>4, <2>1, <2>4
    DEF startThreadTimer, endThreadTimer, EndLoop, Note, Goto, TypeOK, Stage, Stage1, Stage2,
        Stage3
  <2> QED
    BY <1>4, <2>2, <2>3, <2>4 DEF startThreadTimer, endThreadTimer, EndLoop
<1>5. CASE While(t)
  <2>1. UNCHANGED barriers /\ pc[t] = "while" /\ pc'[t] \in {"setup", "done"}
    BY <1>5 DEF While, Goto, TypeOK
  <2>2. Passed(t)' = Passed(t)
    <3>1. CASE notDone = 1
      <4>1. Stage(t) = 3 /\ Stage(t)' = 0 /\ trial'[t] = trial[t] + 1 /\ trial[t] \in Nat
        BY <1>5, <3>1 DEF While, Goto, TypeOK, Stage, Stage1, Stage2, Stage3
      <4> QED
        BY <4>1 DEF Passed
    <3>2. CASE notDone # 1
      <4>1. Stage(t) = 3 /\ Stage(t)' = 3 /\ trial'[t] = trial[t]
        BY <1>5, <3>2 DEF While, Goto, TypeOK, Stage, Stage1, Stage2, Stage3
      <4> QED
        BY <4>1 DEF Passed
    <3> QED
      BY <3>1, <3>2
  <2> QED
    BY <1>2, <2>1, <2>2
<1> USE DEF Goto, TypeOK, Stage, Stage1, Stage2, Stage3
<1>6. CASE StartThread(t) \/ setupToCollectTrialStats(t) \/ initTable(t) \/ StartTrial(t)
  BY <1>3, <1>6 DEF StartThread, setupToCollectTrialStats, initTable, StartTrial
<1>7. CASE insertTrial(t)
  BY <1>3, <1>7 DEF insertTrial
<1>8. CASE getBTsummary(t) \/ InsertAfter(t) \/ Decide(t) \/ freeAll(t)
  BY <1>3, <1>8 DEF getBTsummary, InsertAfter, Decide, freeAll
<1> QED
  BY <1>4, <1>5, <1>6, <1>7, <1>8 DEF run

\* While a thread calls the table, thread 0 keeps it: the table is that of its trial.
LEMMA TableIsThere ==
  ASSUME Inv, NEW t \in Threads, pc[t] \in {"trial", "call", "decide", "after"}
  PROVE  allocated = {globalHead} /\ globalHead = trial[t]
<1> TypeOK /\ Sync(t) /\ Sync(0) /\ ThreadInv(t) /\ ZeroInv
  BY ConstantFacts DEF Inv
<1>1. CASE pc[t] \in {"trial", "call"}
  <2>1. /\ Passed(0) \in {Passed(t), Passed(t) + 1}
        /\ Passed(0) = Passed(t) + 1 => pc[0] \in {"leavefirst", "leavesecond", "leavelast"}
    BY <1>1, Together, ConstantFacts
  <2>2. Stage(t) = 1
    BY <1>1 DEF Stage, Stage1
  <2>3. /\ Passed(0) = 3 * trial[0] + Stage(0) /\ Passed(t) = 3 * trial[t] + Stage(t)
        /\ trial[0] \in Nat /\ trial[t] \in Nat /\ Stage(0) \in 0 .. 3
    BY PassedFacts, ConstantFacts
  <2>4. trial[0] = trial[t] /\ (Stage(0) = 1 \/ (Stage(0) = 2 /\ pc[0] = "leavesecond"))
    <3>1. CASE Passed(0) = Passed(t)
      <4>1. Stage(0) = 1 /\ trial[0] = trial[t]
        BY <2>2, <2>3, <3>1
      <4> QED
        BY <4>1
    <3>2. CASE Passed(0) = Passed(t) + 1
      <4>1. Stage(0) = 2 /\ trial[0] = trial[t]
        BY <2>2, <2>3, <3>2
      <4> QED
        BY <2>1, <3>2, <4>1 DEF Stage, Stage1, Stage2, Stage3
    <3> QED
      BY <2>1, <3>1, <3>2
  <2>5. pc[0] \in ({"first"} \cup Stage1 \cup Stage2) \ {"last"}
    BY <2>4 DEF Stage, Stage1, Stage2, Stage3
  <2> QED
    BY <2>4, <2>5 DEF ZeroInv
<1>2. CASE pc[t] \in {"decide", "after"}
  BY <1>2 DEF ThreadInv, ZeroInv, Stage2
<1> QED
  BY <1>1, <1>2

\* What a thread establishes by its own step.
LEMMA SelfStep ==
  ASSUME Inv, NEW t \in Threads, run(t)
  PROVE  ThreadInv(t)'
<1> TypeOK /\ ThreadInv(t)
  BY DEF Inv
<1> USE ConstantFacts DEF TypeOK, Goto, barriers, tables, results, summary, Stage2, Stage3
<1>1. ASSUME NEW at \in {"start", "end"}, NEW label, Note(t, at, label), trial' = trial
      PROVE  endWait'[t] # None /\ endWait'[t].trial = trial'[t]
  <2>1. endWait'[t] = [trial |-> trial[t], at |-> at]
    BY <1>1 DEF Note
  <2>2. endWait'[t] \in [trial : Nat, at : {"start", "end"}]
    BY <2>1
  <2> QED
    BY <1>1, <2>1, <2>2, HarnessAssumption
<1>2. CASE StartThread(t)
  BY <1>2 DEF StartThread, ThreadInv
<1>3. CASE setupToCollectTrialStats(t)
  BY <1>3 DEF setupToCollectTrialStats, ThreadInv
<1>4. CASE initTable(t)
  BY <1>4 DEF initTable, ThreadInv
<1>5. CASE startThreadTimer(t)
  <2>1. CASE pc[t] = "notefirst"
    BY <1>1, <1>5, <2>1 DEF startThreadTimer, ThreadInv, Note
  <2>2. CASE pc[t] # "notefirst"
    BY <1>5, <2>2 DEF startThreadTimer, ThreadInv, Arrive, Leave
  <2> QED
    BY <2>1, <2>2
<1>6. CASE endThreadTimer(t)
  <2>1. CASE pc[t] = "notesecond"
    <3>1. Note(t, "end", IF t = 0 THEN "summary" ELSE "last") /\ trial' = trial
      BY <1>6, <2>1 DEF endThreadTimer
    <3>2. endWait'[t] # None /\ endWait'[t].trial = trial'[t]
      BY <1>1, <3>1
    <3>3. head'[t] = head[t] /\ n'[t] = n[t] /\ n[t] = 0 /\ head[t] = None
      BY <1>6, <2>1 DEF endThreadTimer, ThreadInv
    <3>4. pc'[t] = IF t = 0 THEN "summary" ELSE "last"
      BY <3>1 DEF Note
    <3> QED
      BY <3>2, <3>3, <3>4 DEF ThreadInv
  <2>2. CASE pc[t] # "notesecond"
    BY <1>6, <2>2 DEF endThreadTimer, ThreadInv, Arrive, Leave
  <2> QED
    BY <2>1, <2>2
<1>7. CASE StartTrial(t)
  <2>1. globalHead = trial[t]
    BY <1>7, TableIsThere DEF StartTrial
  <2> QED
    BY <1>7, <2>1 DEF StartTrial, ThreadInv
<1>8. CASE insertTrial(t)
  BY <1>8 DEF insertTrial, ThreadInv
<1>9. CASE getBTsummary(t)
  <2>1. n[t] \in Threads /\ pc[t] = "summary" /\ t = 0
    BY <1>9 DEF getBTsummary, ThreadInv
  <2>2. n[t] + 1 < nthreads => n[t] + 1 \in Threads
    BY <2>1 DEF Threads
  <2> QED
    BY <1>9, <2>1, <2>2 DEF getBTsummary, ThreadInv
<1>10. CASE InsertAfter(t)
  <2>1. globalHead = trial[t]
    BY <1>10, TableIsThere DEF InsertAfter
  <2> QED
    BY <1>10, <2>1 DEF InsertAfter, ThreadInv
<1>11. CASE Decide(t)
  BY <1>11 DEF Decide, ThreadInv
<1>12. CASE freeAll(t)
  BY <1>12 DEF freeAll, ThreadInv
<1>13. CASE EndLoop(t)
  BY <1>13 DEF EndLoop, ThreadInv, Arrive, Leave
<1>14. CASE While(t)
  BY <1>14 DEF While, ThreadInv
<1> QED
  BY <1>2, <1>3, <1>4, <1>5, <1>6, <1>7, <1>8, <1>9, <1>10, <1>11, <1>12, <1>13, <1>14 DEF run

\* What the others have established stays true.
LEMMA OthersInv ==
  ASSUME Inv, NEW t \in Threads, run(t), NEW u \in Threads, u # t
  PROVE  ThreadInv(u)'
<1>1. /\ pc'[u] = pc[u] /\ trial'[u] = trial[u] /\ head'[u] = head[u] /\ n'[u] = n[u]
      /\ endWait'[u] = endWait[u]
  BY OthersStep DEF Inv
<1> QED
  BY <1>1 DEF Inv, ThreadInv

\* A thread that starts finds thread 0 no further than at its first barrier.
LEMMA StartIsEarly ==
  ASSUME Inv, NEW t \in Threads, pc[t] = "start"
  PROVE  Stage(0) \in {0, 1}
<1> TypeOK /\ Sync(t) /\ Sync(0) /\ ThreadInv(t) /\ 0 \in Threads
  BY ConstantFacts DEF Inv
<1>1. Passed(0) \in {Passed(t), Passed(t) + 1}
  BY Together
<1>2. Stage(t) = 0 /\ trial[t] = 0
  BY DEF Stage, Stage1, Stage2, Stage3, ThreadInv
<1>3. /\ Passed(0) = 3 * trial[0] + Stage(0) /\ Passed(t) = 3 * trial[t] + Stage(t)
      /\ trial[0] \in Nat /\ Stage(0) \in 0 .. 3
  BY PassedFacts
<1> QED
  BY <1>1, <1>2, <1>3

\* The others leave alone what thread 0 does for all.
LEMMA OthersZero ==
  ASSUME Inv, NEW t \in Threads, run(t), t # 0
  PROVE  ZeroInv'
<1> TypeOK /\ ThreadInv(t) /\ ZeroInv /\ 0 \in Threads
  BY ConstantFacts DEF Inv
<1>1. pc'[0] = pc[0] /\ trial'[0] = trial[0] /\ n'[0] = n[0]
  BY OthersStep
<1>2. ASSUME UNCHANGED <<tables, trialNumber, barrierEnds>>, UNCHANGED notDone \/ StartThread(t)
      PROVE  ZeroInv'
  <2>1. CASE UNCHANGED notDone
    BY <1>1, <1>2, <2>1 DEF ZeroInv, tables
  <2>2. CASE StartThread(t)
    <3>1. pc[0] \notin {"free"} \cup Stage3 \cup {"last"}
      BY <2>2, StartIsEarly DEF StartThread, Stage, Stage1, Stage2, Stage3
    <3> QED
      BY <1>1, <1>2, <3>1 DEF ZeroInv, tables
  <2> QED
    BY <1>2, <2>1, <2>2
<1>3. pc[t] \notin {"init", "summary", "after", "decide", "free"}
  BY DEF ThreadInv
<1>4. CASE setupToCollectTrialStats(t)
  BY <1>2, <1>4 DEF setupToCollectTrialStats, results
<1> QED
  BY <1>2, <1>3, <1>4
  DEF run, StartThread, initTable, startThreadTimer, StartTrial, insertTrial, endThreadTimer,
      getBTsummary, InsertAfter, Decide, freeAll, EndLoop, While, results, summary

\* The times of a trial's end: written by all before thread 0 copies the first.
LEMMA TimesAreThere ==
  ASSUME Inv, pc[0] = "summary", NEW u \in Threads
  PROVE  endWait[u] # None /\ endWait[u].trial = trial[0]
<1> TypeOK /\ Sync(u) /\ Sync(0) /\ ThreadInv(u) /\ 0 \in Threads
  BY ConstantFacts DEF Inv
<1>1. /\ Passed(u) \in {Passed(0), Passed(0) + 1}
      /\ Passed(u) = Passed(0) + 1 => pc[u] \in {"leavefirst", "leavesecond", "leavelast"}
  BY Together
<1>2. /\ Passed(u) = 3 * trial[u] + Stage(u) /\ Passed(0) = 3 * trial[0] + 2
      /\ trial[u] \in Nat /\ trial[0] \in Nat /\ Stage(u) \in 0 .. 3
  <2>1. Stage(0) = 2
    BY DEF Stage, Stage1, Stage2
  <2> QED
    BY <2>1, PassedFacts
<1>3. CASE Passed(u) = Passed(0)
  <2>1. Stage(u) = 2 /\ trial[u] = trial[0]
    BY <1>2, <1>3
  <2> QED
    BY <2>1, PassedFacts DEF ThreadInv
<1>4. CASE Passed(u) = Passed(0) + 1
  <2>1. Stage(u) # 0
    BY <1>1, <1>4 DEF Stage, Stage1, Stage2, Stage3
  <2>2. /\ Stage(u) \in 1 .. 3 /\ trial[u] \in Nat /\ trial[0] \in Nat
        /\ 3 * trial[u] + Stage(u) = 3 * trial[0] + 3
    BY <1>2, <1>4, <2>1
  <2>3. trial[u] = trial[0]
    BY <2>2
  <2>4. Stage(u) = 3
    BY <2>2, <2>3
  <2> QED
    BY <2>3, <2>4, PassedFacts DEF ThreadInv
<1> QED
  BY <1>1, <1>3, <1>4

\* The slots that have been read after the one at m, and after the last.
LEMMA UpTo ==
  ASSUME NEW m \in Threads, NEW u \in Threads
  PROVE  /\ u < m + 1 <=> u < m \/ u = m
         /\ ~(m + 1 < nthreads) => u < m + 1
BY HarnessAssumption DEF Threads

\* Thread 0 makes the table, sums up, decides and frees in this order.
LEMMA OwnZero ==
  ASSUME Inv, run(0)
  PROVE  ZeroInv'
<1> TypeOK /\ TypeOK' /\ ThreadInv(0) /\ ZeroInv /\ 0 \in Threads /\ Capacity \in Nat \ {0}
  BY TypeStep, ConstantFacts DEF Inv
<1> USE DEF TypeOK, Goto, tables, results, summary, Stage1, Stage2, Stage3
<1>1. CASE StartThread(0)
  BY <1>1 DEF StartThread, ZeroInv
<1>2. CASE setupToCollectTrialStats(0)
  BY <1>2 DEF setupToCollectTrialStats, ZeroInv
<1>3. CASE initTable(0)
  BY <1>3 DEF initTable, ZeroInv
<1>4. CASE startThreadTimer(0)
  BY <1>4 DEF startThreadTimer, ZeroInv, Arrive, Leave, Note
<1>5. CASE StartTrial(0)
  BY <1>5 DEF StartTrial, ZeroInv
<1>6. CASE insertTrial(0)
  BY <1>6 DEF insertTrial, ZeroInv
<1>7. CASE endThreadTimer(0)
  <2>1. CASE pc[0] = "notesecond"
    <3>1. pc'[0] = "summary" /\ n'[0] = 0 /\ trial'[0] = trial[0]
      BY <1>7, <2>1 DEF endThreadTimer, Note, ThreadInv
    <3>2. \A u \in Threads : ~(u < 0)
      BY ConstantFacts
    <3> QED
      BY <1>7, <2>1, <3>1, <3>2 DEF endThreadTimer, ZeroInv
  <2>2. CASE pc[0] # "notesecond"
    BY <1>7, <2>2 DEF endThreadTimer, ZeroInv, Arrive, Leave
  <2> QED
    BY <2>1, <2>2
<1>8. CASE getBTsummary(0)
  <2>1. /\ pc[0] = "summary" /\ n[0] \in Threads /\ Threads = 0 .. nthreads - 1
        /\ nthreads \in Nat \ {0}
    BY <1>8, ConstantFacts DEF getBTsummary, ThreadInv, Threads
  <2>2. endWait[n[0]] # None /\ endWait[n[0]].trial = trial[0]
    BY <2>1, TimesAreThere
  <2>3. barrierEnds' = [barrierEnds EXCEPT ![n[0]] = endWait[n[0]]] /\ trial' = trial
    BY <1>8 DEF getBTsummary
  <2>4. \A u \in Threads : u < n[0] + 1 =>
          barrierEnds'[u] # None /\ barrierEnds'[u].trial = trial'[0]
    <3>1. \A u \in Threads : u < n[0] + 1 <=> (u < n[0] \/ u = n[0])
      BY <2>1, UpTo
    <3> QED
      BY <2>1, <2>2, <2>3, <3>1 DEF ZeroInv
  <2>5. CASE n[0] + 1 < nthreads
    <3>1. n'[0] = n[0] + 1 /\ pc'[0] = "summary"
      BY <1>8, <2>1, <2>5 DEF getBTsummary
    <3>2. UNCHANGED <<results, tables, trial>>
      BY <1>8 DEF getBTsummary
    <3>3. \A u \in Threads : u < n'[0] =>
            barrierEnds'[u] # None /\ barrierEnds'[u].trial = trial'[0]
      BY <2>4, <3>1
    <3> QED
      BY <2>1, <3>1, <3>2, <3>3 DEF ZeroInv
  <2>6. CASE ~(n[0] + 1 < nthreads)
    <3>1. pc'[0] \in {"after", "decide"}
      BY <1>8, <2>6 DEF getBTsummary
    <3>2. \A u \in Threads : u < n[0] + 1
      BY <2>1, <2>6, UpTo
    <3> QED
      BY <1>8, <2>1, <2>3, <2>4, <3>1, <3>2 DEF getBTsummary, ZeroInv
  <2> QED
    BY <2>5, <2>6
<1>9. CASE InsertAfter(0)
  BY <1>9 DEF InsertAfter, ZeroInv
<1>10. CASE Decide(0)
  <2> DEFINE compare == stopError /\ trialNumber + 1 > trialsToRun
             enough == IF compare THEN 10 * trialsToRun ELSE trialsToRun
  <2>1. /\ pc[0] = "decide" /\ pc'[0] = "free"
        /\ notDone' = IF (compare /\ small') \/ trialNumber + 1 >= enough THEN 0 ELSE notDone
        /\ UNCHANGED <<trialNumber, tables, summary, trial, n>>
    BY <1>10 DEF Decide
  <2>2. enough \in Nat /\ enough <= Capacity
    BY ConstantFacts
  <2>3. trialNumber = trial[0]
    BY <2>1 DEF ZeroInv
  <2>4. notDone' = 1 => trial[0] + 1 < Capacity
    BY <2>1, <2>2, <2>3
  <2> QED
    BY <2>1, <2>4 DEF ZeroInv
<1>11. CASE freeAll(0)
  BY <1>11 DEF freeAll, ZeroInv
<1>12. CASE EndLoop(0)
  BY <1>12 DEF EndLoop, ZeroInv, Arrive, Leave
<1>13. CASE While(0)
  BY <1>13 DEF While, ZeroInv
<1> QED
  BY <1>1, <1>2, <1>3, <1>4, <1>5, <1>6, <1>7, <1>8, <1>9, <1>10, <1>11, <1>12, <1>13 DEF run
-----------------------------------------------------------------------------
(* The invariant                                                           *)

\* No thread, no trial, no table.
LEMMA InitInv ==
  Init => Inv
<1> SUFFICES ASSUME Init PROVE Inv
  OBVIOUS
<1>1. TypeOK
  <2>1. main \in [at : {"create", "wait", "join", "report"}, i : Threads]
    BY ConstantFacts DEF Init
  <2>2. tdp \in 0 .. Capacity - 1 /\ trialNumber \in 0 .. Capacity /\ threadsDone \in 0 .. nthreads
    BY ConstantFacts DEF Init
  <2> QED
    BY <2>1, <2>2 DEF Init, TypeOK, Points, Times
<1>2. ASSUME NEW t \in Threads
      PROVE  Sync(t) /\ ThreadInv(t)
  <2>1. \A u \in Threads : Passed(u) = 0
    BY DEF Init, Passed, Stage, Stage1, Stage2, Stage3
  <2>2. ~Ahead(t) /\ \A b \in Barriers : ~WaitsAt(t, b)
    BY <2>1 DEF Ahead, Init, WaitsAt
  <2>3. Sync(t)
    BY <2>1, <2>2 DEF Sync, Init
  <2> QED
    BY <2>3 DEF Init, ThreadInv, Stage2, Stage3
<1>3. ZeroInv
  BY ConstantFacts DEF Init, ZeroInv, Stage1, Stage2, Stage3
<1>4. MainInv
  <2>1. Finished = {}
    BY DEF Init, Finished
  <2>2. Cardinality(Finished) = 0
    BY <2>1, FS_EmptySet
  <2> QED
    BY <2>2 DEF Init, MainInv
<1> QED
  BY <1>1, <1>2, <1>3, <1>4 DEF Inv

\* Every step keeps the invariant.
LEMMA StepInv ==
  Inv /\ [Next]_vars => Inv'
<1>1. ASSUME Inv, NEW t \in Threads, run(t)
      PROVE  Inv'
  <2>1. ZeroInv'
    BY <1>1, OthersZero, OwnZero
  <2>2. \A u \in Threads : Sync(u)' /\ ThreadInv(u)'
    BY <1>1, SyncStep, SelfStep, OthersInv
  <2> QED
    BY <1>1, <2>1, <2>2, TypeStep, MainStep DEF Inv
<1>2. ASSUME Inv, Main
      PROVE  Inv'
  <2>1. /\ MainInv' /\ main' \in [at : {"create", "wait", "join", "report"}, i : Threads]
        /\ threadsDone' \in 0 .. nthreads
        /\ \/ pc' = pc
           \/ \E u \in Threads : pc[u] = "none" /\ pc' = [pc EXCEPT ![u] = "start"]
    BY <1>2, MainOwnStep
  <2>2. UNCHANGED <<results, tables, head, n, barriers, summary, trial>>
    BY <1>2 DEF Main, Create, SemWait, Join
  <2>3. \A u \in Threads : pc'[u] = pc[u] \/ (pc[u] = "none" /\ pc'[u] = "start")
    BY <1>2, <2>1 DEF Inv, TypeOK
  <2>4. TypeOK'
    BY <1>2, <2>1, <2>2
    DEF Inv, TypeOK, results, tables, barriers, summary, Points
  <2>5. \A u \in Threads : Passed(u)' = Passed(u)
    BY <2>2, <2>3 DEF Passed, Stage, Stage1, Stage2, Stage3
  <2>6. \A u \in Threads : Sync(u)'
    BY <1>2, <2>2, <2>3, <2>4, <2>5, KeepSync DEF Inv
  <2>7. \A u \in Threads : ThreadInv(u)'
    BY <1>2, <2>2, <2>3 DEF Inv, ThreadInv, summary, Stage2, Stage3
  <2>8. ZeroInv'
    BY <1>2, <2>2, <2>3, ConstantFacts
    DEF Inv, ZeroInv, results, tables, summary, Stage1, Stage2, Stage3
  <2> QED
    BY <2>1, <2>4, <2>6, <2>7, <2>8 DEF Inv
<1>3. ASSUME Inv, UNCHANGED vars
      PROVE  Inv'
  <2>1. /\ main' = main /\ pc' = pc /\ threadsDone' = threadsDone /\ notDone' = notDone
        /\ trialNumber' = trialNumber /\ globalHead' = globalHead /\ allocated' = allocated
        /\ head' = head /\ n' = n /\ arrived' = arrived /\ released' = released
        /\ endWait' = endWait /\ tdp' = tdp /\ barrierEnds' = barrierEnds /\ trial' = trial
        /\ small' = small
    BY <1>3 DEF vars
  <2>2. TypeOK'
    BY <1>3, <2>1 DEF Inv, TypeOK
  <2>3. \A u \in Threads : Passed(u)' = Passed(u)
    BY <2>1 DEF Passed, Stage
  <2>4. \A u \in Threads : Sync(u)'
    BY <1>3, <2>1, <2>2, <2>3, KeepSync DEF Inv, barriers
  <2>5. \A u \in Threads : ThreadInv(u)'
    BY <1>3, <2>1 DEF Inv, ThreadInv
  <2>6. ZeroInv' /\ MainInv'
    BY <1>3, <2>1 DEF Inv, ZeroInv, MainInv, Finished
  <2> QED
    BY <2>2, <2>4, <2>5, <2>6 DEF Inv
<1> QED
  BY <1>1, <1>2, <1>3 DEF Next

\* The inductive invariant holds throughout.
THEOREM Invariance ==
  Spec => []Inv
<1> QED
  BY InitInv, StepInv, PTL DEF Spec

\* A step of run keeps count of the planned trials.
LEMMA TrialsRun ==
  ASSUME Inv, TrialsInv, NEW t \in Threads, run(t)
  PROVE  TrialsInv'
<1> TypeOK /\ ZeroInv /\ 0 \in Threads /\ trialsToRun \in Nat \ {0}
  BY ConstantFacts DEF Inv
<1> HIDE DEF trialsToRun
<1>1. CASE t # 0
  <2>1. pc'[0] = pc[0] /\ trial'[0] = trial[0]
    BY <1>1, OthersStep
  <2>2. CASE StartThread(t)
    <3>1. pc[0] \notin Decided
      BY <2>2, StartIsEarly DEF StartThread, Stage, Stage1, Stage2, Stage3, Decided
    <3> QED
      BY <2>1, <2>2, <3>1 DEF StartThread, TrialsInv, Decided, Stage3
  <2>3. CASE Decide(t) \/ freeAll(t) \/ initTable(t) \/ getBTsummary(t) \/ InsertAfter(t)
    BY <1>1, <2>3 DEF Inv, ThreadInv, Decide, freeAll, initTable, getBTsummary, InsertAfter
  <2>4. CASE ~StartThread(t) /\ ~Decide(t)
    <3>1. UNCHANGED <<notDone, small>>
      BY <2>4 DEF run, setupToCollectTrialStats, initTable, startThreadTimer, StartTrial,
        insertTrial, endThreadTimer, getBTsummary, InsertAfter, freeAll, EndLoop, While, results
    <3> QED
      BY <2>1, <3>1 DEF TrialsInv
  <2> QED
    BY <2>2, <2>3, <2>4
<1>2. CASE t = 0
  <2> USE <1>2 DEF TypeOK, Goto, results, TrialsInv, Decided, Stage3
  <2>1. CASE StartThread(0)
    BY <2>1 DEF StartThread
  <2>2. CASE setupToCollectTrialStats(0) \/ initTable(0) \/ startThreadTimer(0) \/ StartTrial(0)
    BY <2>2 DEF setupToCollectTrialStats, initTable, startThreadTimer, StartTrial, Arrive, Leave,
      Note
  <2>3. CASE insertTrial(0) \/ endThreadTimer(0) \/ getBTsummary(0) \/ InsertAfter(0)
    BY <2>3 DEF insertTrial, endThreadTimer, getBTsummary, InsertAfter, Arrive, Leave, Note
  <2>4. CASE Decide(0)
    <3>1. pc[0] = "decide" /\ trialNumber = trial[0] /\ trial[0] \in Nat
      BY <2>4 DEF Decide, ZeroInv
    <3>2. ~(trialNumber + 1 > trialsToRun) /\ notDone = 1
      BY <3>1
    <3>3. small' = FALSE /\ notDone' = IF trialNumber + 1 >= trialsToRun THEN 0 ELSE 1
      BY <2>4, <3>2 DEF Decide
    <3>4. pc'[0] = "free" /\ trial' = trial
      BY <2>4 DEF Decide
    <3> QED
      BY <3>1, <3>2, <3>3, <3>4
  <2>5. CASE freeAll(0) \/ EndLoop(0)
    BY <2>5 DEF freeAll, EndLoop, Arrive, Leave
  <2>6. CASE While(0)
    BY <2>6 DEF While
  <2> QED
    BY <1>2, <2>1, <2>2, <2>3, <2>4, <2>5, <2>6 DEF run
<1> QED
  BY <1>1, <1>2

\* So does every step.
LEMMA TrialsStep ==
  Inv /\ TrialsInv /\ [Next]_vars => TrialsInv'
<1> SUFFICES ASSUME Inv, TrialsInv, [Next]_vars
             PROVE  TrialsInv'
  OBVIOUS
<1> 0 \in Threads
  BY ConstantFacts
<1>1. CASE Main
  <2>1. UNCHANGED <<notDone, small, trial>>
    BY <1>1 DEF Main, Create, SemWait, Join, results
  <2>2. \/ pc' = pc
        \/ \E u \in Threads : pc[u] = "none" /\ pc' = [pc EXCEPT ![u] = "start"]
    BY <1>1, MainOwnStep
  <2>3. pc'[0] = pc[0] \/ (pc[0] = "none" /\ pc'[0] = "start")
    BY <2>2 DEF Inv, TypeOK
  <2> QED
    BY <2>1, <2>3 DEF TrialsInv, Decided, Stage3
<1>2. CASE \E t \in Threads : run(t)
  BY <1>2, TrialsRun
<1>3. CASE UNCHANGED vars
  BY <1>3 DEF vars, TrialsInv
<1> QED
  BY <1>1, <1>2, <1>3 DEF Next

\* The loop ends with the last of the planned trials, and no sooner.
LEMMA Trials ==
  Spec => []TrialsInv
<1>1. Init => TrialsInv
  BY ConstantFacts DEF Init, TrialsInv, Decided, Stage3
<1> QED
  BY <1>1, TrialsStep, Invariance, PTL DEF Spec
-----------------------------------------------------------------------------
(* The properties                                                          *)

\* Every variable has its type, for any number of threads, calls and trials: no place of
\* trialData beyond its end is used, and no barrier or semaphore counts wrong.
THEOREM TypeCorrect ==
  Spec => []TypeOK
<1>1. Inv => TypeOK
  BY DEF Inv
<1> QED
  BY <1>1, Invariance, PTL

\* Every call is made on the table of the trial its thread is in, while it is there.
THEOREM CallsAreInTheTrialCorrect ==
  Spec => []CallsAreInTheTrial
<1>1. ASSUME Inv PROVE CallsAreInTheTrial
  <2> SUFFICES ASSUME NEW t \in Threads, head[t] # None
               PROVE  head[t] = trial[t] /\ head[t] \in allocated
    BY DEF CallsAreInTheTrial
  <2>1. head[t] = trial[t] /\ pc[t] \in {"call", "decide"}
    BY <1>1 DEF Inv, ThreadInv
  <2> QED
    BY <1>1, <2>1, TableIsThere
<1> QED
  BY <1>1, Invariance, PTL

\* When main reports, all threads have finished the same trial, the last of those planned
\* and not one that --terror has stopped, and no table is left.
THEOREM ReportIsFinalCorrect ==
  Spec => []ReportIsFinal
<1>1. ASSUME Inv, TrialsInv PROVE ReportIsFinal
  <2>1. TypeOK /\ ZeroInv /\ MainInv /\ 0 \in Threads
    BY <1>1, ConstantFacts DEF Inv
  <2>2. Cardinality(allocated) <= 1
    <3>1. allocated = {} \/ allocated = {globalHead}
      BY <2>1 DEF ZeroInv, TypeOK, Points, Stage1, Stage2, Stage3
    <3>2. Cardinality({}) = 0 /\ Cardinality({globalHead}) = 1
      BY FS_EmptySet, FS_Singleton
    <3> QED
      BY <3>1, <3>2
  <2>3. ASSUME main.at = "report", NEW t \in Threads
        PROVE  allocated = {} /\ pc[t] = "done" /\ trialNumber = trial[t] + 1
    <3>1. pc[t] = "done" /\ pc[0] = "done"
      BY <2>1, <2>3 DEF MainInv
    <3>2. allocated = {} /\ trialNumber = trial[0] + 1
      BY <2>1, <3>1 DEF ZeroInv, Stage3
    <3>3. Stage(t) = 3 /\ Stage(0) = 3
      BY <3>1 DEF Stage, Stage1, Stage2, Stage3
    <3>4. Passed(t) = Passed(0)
      BY <1>1, <2>1, <3>1, Together DEF Inv
    <3>5. trial[t] = trial[0]
      BY <2>1, <3>3, <3>4, PassedFacts
    <3> QED
      BY <3>1, <3>2, <3>5
  <2>4. ASSUME main.at = "report"
        PROVE  trialNumber = trialsToRun /\ ~small
    <3>1. pc[0] = "done" /\ trialNumber = trial[0] + 1
      BY <2>1, <2>3, <2>4
    <3> QED
      BY <1>1, <3>1 DEF TrialsInv
  <2>5. main.at = "report" => allocated = {}
    BY <2>1, <2>3
  <2> QED
    BY <1>1, <2>1, <2>2, <2>3, <2>4, <2>5 DEF ReportIsFinal
<1> QED
  BY <1>1, Invariance, Trials, PTL

\* The times that thread 0 sums up are those of its trial, of all threads.
THEOREM EndsAreOfThisTrialCorrect ==
  Spec => []EndsAreOfThisTrial
<1>1. Inv => EndsAreOfThisTrial
  BY DEF Inv, ZeroInv, EndsAreOfThisTrial
<1> QED
  BY <1>1, Invariance, PTL
=============================================================================
