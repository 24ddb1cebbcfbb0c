------------------------------- MODULE Harness -------------------------------
(***************************************************************************)
(* src/harness.c with the barriers of src/util.c: main starts the threads; *)
(* in each trial thread 0 makes a table, all threads call it between two   *)
(* crossings of loopBarrier, and thread 0 sums the trial up, frees the     *)
(* table and decides whether there is another trial before all meet at     *)
(* endLoopBarrier.  The table is anything with initTable, calls, freeAll.  *)
(*                                                                         *)
(* pthread_barrier_wait is two steps, arriving and leaving.  The last to   *)
(* arrive lets all leave, each in its own time, and one that has left may  *)
(* come back to the same barrier before another has left it.               *)
(***************************************************************************)
EXTENDS Integers, FiniteSets

CONSTANTS nthreads,       \* the threads are 0 .. nthreads-1
          numInsertions,  \* the calls each thread makes in a trial
          trials,         \* --trials
          stopError,      \* is --terror positive?  If not, it is 0
          testDelIns,     \* does thread 0 insert after the trial?
          None            \* no table, no time

ASSUME HarnessAssumption ==
  /\ nthreads \in Nat \ {0}
  /\ numInsertions \in Nat
  /\ trials \in Nat
  /\ stopError \in BOOLEAN /\ testDelIns \in BOOLEAN
  /\ None \notin Nat /\ None \notin [trial : Nat, at : {"start", "end"}]

Threads == 0 .. nthreads - 1
Barriers == {"loop", "endLoop"}

trialsToRun == IF trials # 0 THEN trials ELSE IF stopError THEN 5 ELSE 1

\* The length of trialData.
Capacity == trialsToRun * (IF stopError THEN 10 ELSE 1)

VARIABLES main,        \* the point of main, and how many threads it has started or joined
          pc,          \* pc[t]: the point of run that t is at
          threadsDone, \* the semaphore
          notDone, trialNumber,
          globalHead,  \* the table, named by the trial it was made for
          allocated,   \* the tables that are initialised and not freed
          head,        \* head[t]: the table t was given for its calls
          n,           \* n[t]: how many calls t has made, or slots of endWait it has read
          arrived,     \* arrived[b]: the threads waiting at b
          released,    \* released[b]: those that b lets leave
          endWait,     \* loopBarrier.endWait: when each thread left, as [trial, at]
          tdp,         \* the index of the trial's data in trialData
          barrierEnds, \* tdp->barrierEnds
          trial,       \* history: the trial that t is in
          small        \* history: was the last comparison of stddev with stopError true?

vars == <<main, pc, threadsDone, notDone, trialNumber, globalHead, allocated, head, n, arrived,
          released, endWait, tdp, barrierEnds, trial, small>>
barriers == <<arrived, released>>
tables == <<globalHead, allocated>>
results == <<trialNumber, notDone, small>>
summary == <<endWait, tdp, barrierEnds>>

Init ==
  /\ main = [at |-> "create", i |-> 0]
  /\ pc = [t \in Threads |-> "none"]
  /\ threadsDone = 0
  /\ notDone = 1 /\ trialNumber = 0
  /\ globalHead = None /\ allocated = {}
  /\ head = [t \in Threads |-> None]
  /\ n = [t \in Threads |-> 0]
  /\ arrived = [b \in Barriers |-> {}] /\ released = [b \in Barriers |-> {}]
  /\ endWait = [t \in Threads |-> None]
  /\ tdp = 0
  /\ barrierEnds = [t \in Threads |-> None]
  /\ trial = [t \in Threads |-> 0]
  /\ small = FALSE

Goto(t, label) == pc' = [pc EXCEPT ![t] = label]

\* The first half of pthread_barrier_wait.
Arrive(t, b, next) ==
  /\ Goto(t, next)
  /\ IF arrived[b] \cup {t} = Threads
       THEN /\ arrived' = [arrived EXCEPT ![b] = {}]
            /\ released' = [released EXCEPT ![b] = Threads]
       ELSE /\ arrived' = [arrived EXCEPT ![b] = @ \cup {t}]
            /\ UNCHANGED released

\* The second half.
Leave(t, b, next) ==
  /\ t \in released[b]
  /\ released' = [released EXCEPT ![b] = @ \ {t}]
  /\ Goto(t, next)
  /\ UNCHANGED arrived

\* The end of myBarrier writes down how long the wait was.
Note(t, at, next) ==
  /\ endWait' = [endWait EXCEPT ![t] = [trial |-> trial[t], at |-> at]]
  /\ Goto(t, next)
-----------------------------------------------------------------------------
(* main                                                                    *)

\* pthread_create, one thread after the other.
Create ==
  /\ main.at = "create"
  /\ pc' = [pc EXCEPT ![main.i] = "start"]
  /\ main' = IF main.i + 1 < nthreads THEN [main EXCEPT !.i = @ + 1]
             ELSE [at |-> "wait", i |-> 0]
  /\ UNCHANGED <<threadsDone, results, tables, head, n, barriers, summary, trial>>

SemWait ==
  /\ main.at = "wait"
  /\ threadsDone > 0
  /\ threadsDone' = threadsDone - 1
  /\ main' = [main EXCEPT !.at = "join"]
  /\ UNCHANGED <<pc, results, tables, head, n, barriers, summary, trial>>

\* Mutant: the semaphore is taken for the end of all threads.
Join_None ==
  /\ main.at = "join"
  /\ main' = [at |-> "report", i |-> 0]
  /\ UNCHANGED <<pc, threadsDone, results, tables, head, n, barriers, summary, trial>>

\* pthread_join, and then the report on all trials.
Join ==
  /\ main.at = "join"
  /\ pc[main.i] = "done"
  /\ main' = IF main.i + 1 < nthreads THEN [main EXCEPT !.i = @ + 1]
             ELSE [at |-> "report", i |-> 0]
  /\ UNCHANGED <<pc, threadsDone, results, tables, head, n, barriers, summary, trial>>
-----------------------------------------------------------------------------
(* run                                                                     *)

StartThread(t) ==
  /\ pc[t] = "start"
  /\ notDone' = 1
  /\ Goto(t, "setup")
  /\ UNCHANGED <<main, threadsDone, trialNumber, small, tables, head, n, barriers, summary,
                 trial>>

\* setupToCollectTrialStats: thread 0 takes the next place of trialData.
setupToCollectTrialStats(t) ==
  /\ pc[t] = "setup"
  /\ IF t = 0
       THEN /\ tdp' = trialNumber
            /\ barrierEnds' = [u \in Threads |-> None]
            /\ Goto(t, "init")
       ELSE Goto(t, "first") /\ UNCHANGED <<tdp, barrierEnds>>
  /\ UNCHANGED <<main, threadsDone, results, tables, head, n, barriers, endWait, trial>>

initTable(t) ==
  /\ pc[t] = "init"
  /\ globalHead' = trial[t]
  /\ allocated' = allocated \cup {trial[t]}
  /\ Goto(t, "first")
  /\ UNCHANGED <<main, threadsDone, results, head, n, barriers, summary, trial>>

\* Mutant: the start of the trial is another barrier, whose times nobody reads.
startThreadTimer_OwnBarrier(t) ==
  /\ \/ pc[t] = "first" /\ Arrive(t, "endLoop", "leavefirst")
     \/ pc[t] = "leavefirst" /\ Leave(t, "endLoop", "notefirst")
     \/ pc[t] = "notefirst" /\ Goto(t, "trial") /\ UNCHANGED barriers
  /\ UNCHANGED <<main, threadsDone, results, tables, head, n, summary, trial>>

startThreadTimer(t) ==
  /\ \/ pc[t] = "first" /\ Arrive(t, "loop", "leavefirst") /\ UNCHANGED endWait
     \/ pc[t] = "leavefirst" /\ Leave(t, "loop", "notefirst") /\ UNCHANGED endWait
     \/ pc[t] = "notefirst" /\ Note(t, "start", "trial") /\ UNCHANGED barriers
  /\ UNCHANGED <<main, threadsDone, results, tables, head, n, tdp, barrierEnds, trial>>

\* insertTrial or checkTable, with globalHead as it is now.
StartTrial(t) ==
  /\ pc[t] = "trial"
  /\ head' = [head EXCEPT ![t] = globalHead]
  /\ Goto(t, "call")
  /\ UNCHANGED <<main, threadsDone, results, tables, n, barriers, summary, trial>>

\* A call of the table.
insertTrial(t) ==
  /\ pc[t] = "call"
  /\ IF n[t] < numInsertions
       THEN n' = [n EXCEPT ![t] = @ + 1] /\ UNCHANGED <<pc, head>>
       ELSE /\ n' = [n EXCEPT ![t] = 0]
            /\ head' = [head EXCEPT ![t] = None]
            /\ Goto(t, "second")
  /\ UNCHANGED <<main, threadsDone, results, tables, barriers, summary, trial>>

\* Mutant: nobody waits at the end of the trial.
endThreadTimer_NoBarrier(t) ==
  /\ \/ pc[t] = "second" /\ Goto(t, "notesecond") /\ UNCHANGED endWait
     \/ pc[t] = "notesecond" /\ Note(t, "end", IF t = 0 THEN "summary" ELSE "last")
  /\ UNCHANGED <<main, threadsDone, results, tables, head, n, barriers, tdp, barrierEnds, trial>>

\* Thread 0 goes on to the summary, the others to the end of the loop.
endThreadTimer(t) ==
  /\ \/ pc[t] = "second" /\ Arrive(t, "loop", "leavesecond") /\ UNCHANGED endWait
     \/ pc[t] = "leavesecond" /\ Leave(t, "loop", "notesecond") /\ UNCHANGED endWait
     \/ /\ pc[t] = "notesecond"
        /\ Note(t, "end", IF t = 0 THEN "summary" ELSE "last")
        /\ UNCHANGED barriers
  /\ UNCHANGED <<main, threadsDone, results, tables, head, n, tdp, barrierEnds, trial>>

\* The threads' times are copied one by one.
getBTsummary(t) ==
  /\ pc[t] = "summary"
  /\ barrierEnds' = [barrierEnds EXCEPT ![n[t]] = endWait[n[t]]]
  /\ IF n[t] + 1 < nthreads
       THEN n' = [n EXCEPT ![t] = @ + 1] /\ UNCHANGED pc
       ELSE n' = [n EXCEPT ![t] = 0] /\ Goto(t, IF testDelIns THEN "after" ELSE "decide")
  /\ UNCHANGED <<main, threadsDone, results, tables, head, barriers, endWait, tdp, trial>>

\* The inserts of testDelIns.
InsertAfter(t) ==
  /\ pc[t] = "after"
  /\ head' = [head EXCEPT ![t] = globalHead]
  /\ Goto(t, "decide")
  /\ UNCHANGED <<main, threadsDone, results, tables, n, barriers, summary, trial>>

\* Mutant: trials are counted from 0 and compared as if from 1.
Decide_OneMore(t) ==
  /\ pc[t] = "decide"
  /\ head' = [head EXCEPT ![t] = None]
  /\ notDone' = IF trialNumber >= trialsToRun THEN 0 ELSE notDone
  /\ Goto(t, "free")
  /\ UNCHANGED <<main, threadsDone, trialNumber, small, tables, n, barriers, summary, trial>>

\* Is this the last trial?  stddev may be anything.
Decide(t) ==
  /\ pc[t] = "decide"
  /\ head' = [head EXCEPT ![t] = None]
  /\ LET compare == stopError /\ trialNumber + 1 > trialsToRun
         enough == IF compare THEN 10 * trialsToRun ELSE trialsToRun
     IN /\ small' \in IF compare THEN BOOLEAN ELSE {small}
        /\ notDone' = IF (compare /\ small') \/ trialNumber + 1 >= enough THEN 0 ELSE notDone
  /\ Goto(t, "free")
  /\ UNCHANGED <<main, threadsDone, trialNumber, tables, n, barriers, summary, trial>>

\* freeAll, and trialNumber++.
freeAll(t) ==
  /\ pc[t] = "free"
  /\ allocated' = allocated \ {globalHead}
  /\ trialNumber' = trialNumber + 1
  /\ Goto(t, "last")
  /\ UNCHANGED <<main, threadsDone, notDone, small, globalHead, head, n, barriers, summary,
                 trial>>

\* Mutant: the barriers of the next trial are taken to be enough.
EndLoop_NoBarrier(t) ==
  /\ pc[t] = "last"
  /\ Goto(t, "while")
  /\ UNCHANGED <<main, threadsDone, results, tables, head, n, barriers, summary, trial>>

\* myBarrier(&endLoopBarrier, tid), whose endWait nobody reads.
EndLoop(t) ==
  /\ \/ pc[t] = "last" /\ Arrive(t, "endLoop", "leavelast")
     \/ pc[t] = "leavelast" /\ Leave(t, "endLoop", "while")
  /\ UNCHANGED <<main, threadsDone, results, tables, head, n, summary, trial>>

\* while (notDone); then semPost.
While(t) ==
  /\ pc[t] = "while"
  /\ IF notDone = 1
       THEN /\ Goto(t, "setup")
            /\ trial' = [trial EXCEPT ![t] = @ + 1]
            /\ UNCHANGED threadsDone
       ELSE /\ Goto(t, "done")
            /\ threadsDone' = threadsDone + 1
            /\ UNCHANGED trial
  /\ UNCHANGED <<main, results, tables, head, n, barriers, summary>>
-----------------------------------------------------------------------------
run(t) ==
  \/ StartThread(t) \/ setupToCollectTrialStats(t) \/ initTable(t) \/ startThreadTimer(t)
  \/ StartTrial(t) \/ insertTrial(t) \/ endThreadTimer(t) \/ getBTsummary(t) \/ InsertAfter(t)
  \/ Decide(t) \/ freeAll(t) \/ EndLoop(t) \/ While(t)

Main == Create \/ SemWait \/ Join

Next == Main \/ \E t \in Threads : run(t)

\* The scheduler runs main and every thread.
Spec == Init /\ [][Next]_vars /\ WF_vars(Main) /\ \A t \in Threads : WF_vars(run(t))
-----------------------------------------------------------------------------
(* Properties                                                              *)

Points == {"none", "start", "setup", "init", "first", "leavefirst", "notefirst", "trial", "call",
           "second", "leavesecond", "notesecond", "summary", "after", "decide", "free", "last",
           "leavelast", "while", "done"}
Times == [trial : Nat, at : {"start", "end"}] \cup {None}

\* Every variable has its type.
TypeOK ==
  /\ main \in [at : {"create", "wait", "join", "report"}, i : Threads]
  /\ pc \in [Threads -> Points]
  /\ threadsDone \in 0 .. nthreads
  /\ notDone \in {0, 1} /\ trialNumber \in 0 .. Capacity /\ tdp \in 0 .. Capacity - 1
  /\ globalHead \in Nat \cup {None} /\ allocated \subseteq Nat
  /\ head \in [Threads -> Nat \cup {None}]
  /\ n \in [Threads -> Nat]
  /\ arrived \in [Barriers -> SUBSET Threads] /\ released \in [Barriers -> SUBSET Threads]
  /\ endWait \in [Threads -> Times] /\ barrierEnds \in [Threads -> Times]
  /\ trial \in [Threads -> Nat] /\ small \in BOOLEAN

\* Whatever pace the threads go at, a call is made on the table of the trial the
\* thread is in, after initTable and before freeAll.
CallsAreInTheTrial ==
  \A t \in Threads : head[t] # None => head[t] = trial[t] /\ head[t] \in allocated

\* There is one table at a time; when main reports, no thread is still running,
\* every trial that was begun is counted and its table freed, and there have been
\* trialsToRun of them, none stopped by the error, with --terror or without.
ReportIsFinal ==
  /\ Cardinality(allocated) <= 1
  /\ main.at = "report" =>
       /\ allocated = {} /\ \A t \in Threads : pc[t] = "done" /\ trialNumber = trial[t] + 1
       /\ trialNumber = trialsToRun /\ ~small

\* The times that thread 0 copies are of the trial it sums up, though the other
\* threads may still have to write those of its end.
EndsAreOfThisTrial ==
  pc[0] \in {"after", "decide", "free"} =>
    \A t \in Threads : barrierEnds[t] # None /\ barrierEnds[t].trial = trial[0]

\* No barrier is left with a thread inside: all threads finish, and main reports.
Terminates == <>(main.at = "report")
=============================================================================
