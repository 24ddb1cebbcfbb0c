# hashidea in TLA+

hashidea is a collection of concurrent hash tables in C behind one interface
(`lib/hashtable.h`), and a benchmark harness that runs one of them with many
threads. This directory specifies the tables and the harness, checks them with TLC on small
instances, and proves with TLAPS the safety properties of the basic table, of the one with
deletion, of the cache-line variants of both, of the one that moves its entries, of the one with
locks and of the harness, for every number of threads, keys, probes and trials, every hash function
and every tag.

Paths below are relative to the repository root, called `src/` in PROJECT.json.

## 1. The system

### Components

| part | state | operations | modelled by |
|---|---|---|---|
| `lib/hashtable.h` | – | `insertTable`, `checkTableQuery`, `deleteVal`, `initTable`, `freeAll`, `getStart` | `ConcurrentSet` |
| `lib/hashtable.c` | `TableArray` (subtables of doubling size), `cur` | insert, query, growth | `Hashtable` |
| `lib/hashtable_delete.c` | the same; the low bit of a slot's pointer marks a deletion | insert, query, delete, growth | `HashtableDelete` |
| `lib/hashtable_lazy.c` | the same and `start`, `threadCopy[]` per subtable; the low bit marks a copied slot | insert, query, growth, copy | `HashtableLazy` |
| `lib/hashtable_delete_smart_lazy.c` | circular `TableArray`, `toFree`, `start`, `cur`; per subtable `threadCopy[]`, `insertCount[]`, `deleteCount[]`; `entry->isDeleted` | insert, query, delete, undelete, copy, growth, retirement of old subtables | `HashtableSmartLazy` |
| `lib/hashtable_cache.c`, `_cache_np.c` | that of `hashtable.c`; a tag in the upper 16 bits of each pointer, `readsPerLine` | those of `hashtable.c`, probing line by line | `HashtableCache`, `Lines` |
| `lib/hashtable_delete_cache.c` | that of `hashtable_delete.c`, with the tags | those of `hashtable_delete.c`, probing line by line | `HashtableDeleteCache`, `Lines` |
| `lib/hashtable_locks.c` | array of chains, a lock per chain, `swapLock`, `resizing`, `cur` | insert, query, rehash | `HashtableLocks` |
| `src/harness.c`, `src/util.c` | `globalHead`, `trialNumber`, `notDone`, `trialData`, two barriers, a semaphore | trials, `main` | `Harness` |
| `lib/hashtable_delete_lazy.c`, `_delete_lazy_cache.c` | the predecessor of the smart-lazy table | insert, query, delete, copy | no (section 5) |
| `lib/hashtable_lazy_cache.c`, `_lazy_cache_np.c` | as `hashtable_lazy.c`, with tags | insert, query, growth | no (section 5) |
| `lib/hashtable_delete_thr.c`, `_thr_cache.c` | `bDel`, `delIndex`, `deleting`, two mutexes, a background thread | the same, moved by the thread | no (section 5) |
| `lib/hashtable_simple_delete.c` | two-bit state of a slot | insert, query, delete with un-delete | no (section 5) |
| `lib/hash.c` | – | `murmur3_32` | a constant of the models |
| `hash_prgs/`, `go_hashidea/`, `lib/maybe.c`, `lib/not_ready/` | – | prototypes | no |
| `libcuckoo/`, `gsl_lib/`, `graphit/`, `src/arg.c`, `dist.c`, `temp.c`, `timing.c` | – | vendored code, plots, command line, sensors | no |

### How the parts interact

The harness starts `nthreads` threads. Per trial, thread 0 calls `initTable`,
all threads meet at a barrier, each makes a sequence of `insertTable`,
`checkTableQuery` and `deleteVal` calls on the one table, all meet again, and
thread 0 calls `freeAll`. The tables share no other state with the harness: a
call reads the entry it is given (freshly allocated for each insert,
`harness.c:423,433,451`) and the head. Inside a table, threads interact only
through the memory of the head and the subtables: compare-and-swap on slots, on
`TableArray[j]`, on `cur`, on `start` and on `isDeleted`, plain loads of the same words, and, in
`hashtable_locks.c`, read-write locks.

### What is hard, and what makes each part correct

* **hashtable.c.** Inserts of one key race over several slots; threads run out of
  subtables together and publish competing ones; a query decides from a single
  NULL slot that the key is nowhere further on (the "first NULL bucket" rule of
  `papers/tr19/impl.tex`). Correct when a key is in at most one slot, no key is
  behind a NULL slot of its path, subtables are numbered without holes, calls
  are linearizable, and a running thread always finishes its call.
* **hashtable_delete.c.** A slot changes more than once. The slot that `lookup`
  judged is read again to choose the expected value of the compare-and-swap.
  Correct when, besides, a mark opens no gap and only marked entries are replaced.
* **hashtable_lazy.c.** Entries are in two subtables for a while; `start` moves
  when a sum of per-thread counters, written without synchronisation, says so.
  Correct when `start` never passes a key that is not further up, a key is
  copied, not doubled, and an emptied subtable is left.
* **hashtable_delete_smart_lazy.c.** An entry may be deleted, undeleted and copied at
  the same time, and it is its flag, shared by its old slot and its new one, that
  says which. The copier reads the flag after it has marked the slot and counts
  the slot after it has copied the entry; an insert that finds a flagged entry
  clears the flag whether the copier has been there or not. Subtables leave a
  circular array half a round before their place is wanted again, and are freed a
  round later. Correct when what `start` leaves behind is deleted or copied, a
  key has one entry that is not flagged, and no place of the array is reused
  while its subtable is in use.
* **the cache-line tables.** A key starts at the slot that its tag names, and goes
  round the line from there, so two keys of a line walk it in different orders;
  the tag is compared before the key, and is kept in a short, in the upper bits
  of a pointer, and in a char. Correct when a line is never cut by the end of a
  subtable, and the tags change no answer.
* **harness.c.** The threads agree on nothing but two barriers, one of which is
  crossed twice in a trial; they leave a barrier at their own pace, and
  thread 0 alone decides when to stop. Correct when every call falls between the
  `initTable` and the `freeAll` of its trial, what is summed up is of the trial it is
  summed up for, and all threads and `main` come to an end.
* **hashtable_locks.c.** Walks hold no chain lock; the rehash takes the array
  away and puts the blocks back one at a time while inserts go on. Correct when
  chains have no duplicates, walks never follow a chain that is being taken
  apart, one thread rehashes, nothing is lost, and answers are right.

PROJECT.json lists the hazards with the line where each bites.

## 2. The modules

`ConcurrentSet` is the promise of `hashtable.h`: a set of keys; a call that
changes it does so in one step between its invocation and its return; a call
that only looks returns what was right at some instant since its invocation.
That instant is not fixed when it occurs: `seen[t]` collects the answers that
have been right so far, and the call returns one of them. The lock-free
tables are shown to implement it, `members` mapped to
`Contents`, the keys found in the slots; where the code keeps the promise only up
to a point, the property names the point (below).

The modules of the tables follow their file function by function. The conventions are
common to them:

* **A step is one access to shared memory.** `pc[t]` says which one comes next.
  Where the code makes several accesses of which at most one can observe a
  change (a slot that is written once is tested for NULL and then its `val` is
  read), they are one step, and the module says so.
* **Optimisation.** `lib/Makefile` builds with `g++ -O3`, and the shared words are
  plain. The models allow both what the compiled code does and what an
  unoptimised build does where they differ: `checkTableQuery` of `hashtable.c`
  and `hashtable_delete.c` keeps the `head->cur` it read first (`QueryTable`:
  `limit \in {LocalCur[t], cur}`), `insertTable` of `hashtable_lazy.c` computes
  `doCopy` from the `head->cur` of its loop test (`ReadStart`). Adjacent reads of
  the same word are one load.
* **Order of memory.** On x86-64 loads stay in order and a compare-and-swap drains
  the store buffer, whatever order it asks for. The shared words that the
  lock-free tables write with a plain store while threads run are the counters of
  `hashtable_lazy.c` and `hashtable_delete_smart_lazy.c`. `HashtableLazy` has a store buffer for
  `threadCopy[tid]` (`buffer`, `Drain`); in `HashtableSmartLazy` an increment takes effect
  at once, but the sum over the threads may miss those of the others.
* **Data.** A key is a model value; an entry is its key, save in `HashtableDelete`
  and `HashtableSmartLazy`, where two entries of one key must be told apart. The
  hash function is a constant of the model, and any function is
  allowed. In `Hashtable` and `HashtableDelete` the constant is `Place`, the slot of each probe in a
  subtable of each size, since the cache-line tables come by it in another way: `Remainders(Hash)` are the
  places of these two files, and a table that looks past the end of a subtable can be expressed.
  `PlacesFit` says that none does. `IncrStat` and printing are left out.
* **History variables.** Every action of `Next` is conjoined with `Look`,
  which determines `seen'` and the other history variables, and constrains nothing else.
* **Calls.** A thread outside a call may start any call with any key. `getStart`
  is part of the start of an insert. `ret` is 0 during a call.

Names of actions are those of the functions they stand for where a function is
one step (`lookup`, `addDrop`, `setPtr`, `newTable`); a function of several steps has
an action for each (`addDrop` and `AdvanceCur`). PROJECT.json maps every
definition to its lines. Operators whose name is that of an action and a
suffix (`RecheckSlot_NoCompare`) are slips of that action that no specification
uses: with the slip in place of the action the property that guards against it
fails.

Details worth knowing when reading a module against its file:

* `Hashtable`: `addDrop` always tries to move `cur` on, whether its own
  subtable went in or not; both branches of the `if` are `AdvanceCur`.
* `HashtableDelete`: `ChooseExpected` is `hashtable_delete.c:258-261`, the second
  read of the slot. `Entries` is the memory for entries: an insert takes one that
  no slot and no thread refers to. `overwritten` is a history variable: an insert
  has replaced the marked entry of another key, which the second read makes
  possible. `LinearizableUntilOverwritten` is `Linearizable` up to that moment.
* `HashtableLazy`: `lookup` calls `insertTable` to copy an entry, which may copy in
  its turn, so a thread has a `frame` and a `stack` of frames; `Return` pops one.
* `HashtableSmartLazy`: a pointer to a subtable is its index in `SubTables`, so that
  `TableArray`, `toFree` and `freed` can be followed. A slot, once filled, keeps its
  pointer and only its low bit changes, so reads of it and of its entry's flag that
  follow one another are one step; `head->start` stays while a slot of its subtable is
  marked and not counted, so its reads around a copy are one. `crossed` records that an
  undelete and the copy of its entry crossed: an insert cleared the flag of an entry whose
  slot was marked (the race the comment at lines 314-320 suspects), or a copy (which is an
  insert too) cleared one, or an insert put in again an entry that was flagged once
  more. `late` records that a place of the circular array was used for another
  round: a subtable in use is not in its place, as when `Retire` took it out, or a thread
  half a round behind took another subtable than the one it counts (the comment at 385-389
  relies on no thread being that late). The properties
  are stated until one of them happens; section 3 says what can happen after `crossed`.
  `deleteVal` has no `return` at its end (line 142): `QueryTable` returns any value there,
  and `NoReturnValue` is the clause of the property for it. `TookEffect` maps an
  insert that has undeleted an entry to a call that has returned.
* `HashtableCache`: the two loops, over the lines and over the slots of a line, are one
  loop of `HashAttempts * readsPerLine` probes, and `LinePlace` gives each its slot.
  All steps but `lookup` and `lookupQuery`, which compare tags, are those of an instance of
  `Hashtable`.
  `lookupQuery` takes the tag it looks for as a `char` and compares it with the slot's
  `short`: a key whose tag is not in -128..127 is never found. `Narrow` are the other keys.
* `Lines`: what the two cache-line tables share. The masks are the code's, for any number of
  slots in a line: `Masked` is the `&` of a number with a mask, defined by the bits
  it has (`Masked(x, mask)` is the largest number whose bits both have; `MaskedIsAnd` in the MC module
  compares it with the `&` of the library, which a module with proofs cannot use), and `lineStride` is
  `1 << logReadsPerLine`. `initTable` takes a maximum, as the code does. A line has
  `(int)(entPerLine * lines)` slots, with `lines` what `--lines` says; `harness.c:176` offers 1.5, and the
  comment at `hashtable_cache.c:286-290` goes up to 24 slots. Neither is a power of two, and then the
  masks do not name whole lines: `LinesRunOver` in the MC module has TLC evaluate that with 12 slots in a line the first
  probe may be slot 19 of a subtable of 16, and with 24 slot 39 of 32. `WholeLines` is the condition under
  which lines are whole. A `--lines` of less than one entry, as its default of 0
  (`harness.c:80`), leaves a line without slots and a shift by -1, which C++ leaves undefined, and is excluded
  (`LinesAssumption`).
* `HashtableDeleteCache`: as `HashtableCache`, over `HashtableDelete`; the start of a line is taken by a remainder and a
  shift, the slot in it by the same mask. Here tags have 8 bits, and both
  sides of a comparison are shorts.
* `HashtableLocks`: a chain is a sequence, a pointer into it a position. `old[t]` is the old array
  in the hands of `newTable`, its chains cut by what has been inserted again.
* `Harness`: the table is anything with the calls of `hashtable.h`; it is named by the
  trial it was made for, and a call counts as in progress while a thread has
  `head[t]`. `pthread_barrier_wait` is two steps, arriving and leaving, and a thread
  may be back at a barrier before another has left it; the write of `endWait` that
  follows in `myBarrier` is a third (left out for `endLoopBarrier`, whose times
  nobody reads). `trial` and `small` are history variables. `Decide` keeps the
  branch of `harness.c:577` that compares the error, as an `IF`.

`MCHashtable`, `MCHashtableDelete` and `MCHashtableLazy` give the constants values, and
state `FairSpec` and `WaitFree` for the thread `t1`; the other MC modules
only give values.

## 3. The runs

| run | asks | instance | states, time |
|---|---|---|---|
| `hashtable` | `TypeOK`, `FirstNullBucket`, `NoDuplicateKey`, `SubtablesInOrder`, `GrowthIsEarned`, `Linearizable`, `WaitFree` | 2 threads, 3 keys, 2 probes, first subtable of 1 slot | 59k, 20 s |
| `delete` | `TypeOK`, `NoDuplicateKey`, `NoGapBeforeEntry`, `LeavesOnlyMarked`, `LinearizableUntilOverwritten`, `WaitFree` | 2 threads, 2 keys with 3 entries, 2 probes, first subtable of 1 slot | 192k, 1 min |
| `delete_overlap` | `Linearizable` fails | 2 threads, 2 keys with 2 entries each, 2 probes | |
| `lazy` | `TypeOK`, `StartLosesNoKey`, `CountedIsCopied`, `OneUnmarkedSlot`, `Linearizable`, `WaitFree` | 2 threads, 3 keys, 1 probe, first subtable of 1 slot | 387k, 2 min |
| `lazy_start` | `EmptiedIsLeft` fails | 2 threads, 3 keys, 2 probes, first subtable of 2 slots | |
| `smart_lazy` | `TypeOK`, `StartLosesNoKey`, `OneLiveEntry`, `WindowIsHalf`, `LineUntilHalf`, `LinearizableUntilCrossed` | 2 threads, 2 keys with 3 and 2 entries, 1 probe, array of 4 places, `CONSTRAINT Sound` | 435k, 2 min |
| `smart_lazy_undelete` | `UndeletedIsFound` fails | as `smart_lazy`, without the constraint | |
| `cache` | `ProbesInTable`, `NoDuplicateKey`, `ImplementsHashtable`, `LinearizableButWideTags` | 2 threads, 4 keys, 2 lines of 2 slots, one tag that is no char | 165k, 1 min |
| `cache_wide_tag` | `Linearizable` fails | as `cache`, with 1 thread | |
| `locks_safety` | `TypeOK`, `OncePerTable`, `OneRehash`, `CurNotAbove`, `NothingLost`, `RightOfTheArray`, no deadlock | 2 threads, 4 keys, first array of 1 slot | 1.8M, 2 min |
| `locks_rehash` | `InsertsOnlyNew` fails | 2 threads, 3 keys, first array of 1 slot | |
| `harness_trials` | `TypeOK`, `CallsAreInTheTrial`, `ReportIsFinal`, `EndsAreOfThisTrial`, `Terminates` | 3 threads, 3 trials of 2 calls, no `--terror`, `--testDelIns` | |

**Bounds.** In `Hashtable`, `HashtableDelete`, `HashtableLazy`, `HashtableCache` and `HashtableLocks` nothing is capped
in a guard: the state spaces are finite because keys and entries are, and a table
grows only over full paths (`GrowthIsEarned`, which is also
proved). Two threads are enough for each race listed under the hazards: every one
is between one thread stopped at some step and another that goes through any
number of calls. Three keys on the given hash values make paths cross in
opposite orders, collide in one subtable and part in the next, exhaust a
subtable and grow the table to the fourth; one more key only lengthens the
paths. In `cache`, two keys enter a line at its first slot and two at its second, two
have the same tag, and one has a tag whose `char` is the tag of another. In
`hashtable_locks.c` the third insert into an array of one slot is the
first that finds `val > TableSize`; with a fourth key two threads find it and compete
for `resizing`, and a second rehash follows the first. Two keys of each chain are
exchangeable there, which `SymmetryPairs` uses beside the threads. The harness needs a second trial for a slow thread to be a trial
behind a fast one, and a third so that it is not always the first or the last; three
threads, so that two can be apart while thread 0 waits for neither.

The smart-lazy table, whose subtables come and go for ever, has two caps: `MaxSubTables`
(3), the subtables that are ever made, in the guard of `addDrop`, and `MaxDeletes` (2), the deletes that
set a flag, in the guard of `CallDelete`. With an array of 4 places (`MaxTables`, 64 in
the code) this reaches the copy of two subtables (`start` = 2), growth to a larger
subtable and to one of the same size, retirement, a retirement of a subtable in use
(`late`), every way an undelete meets a copy (`crossed`), and the window at its limit. The run
goes no further where `Sound` ends (`CONSTRAINT Sound`), since most of its properties promise nothing from
there on; without the constraint it takes twice the time and finds nothing more. It does not reach the
release of a retired subtable, for which seven must be made, nor `TO_MANY_TABLES`
(8 in both). `LineUntilHalf` promises that nothing is released before half the array has been used: that
is proved (section 4), and vacuous in this instance; that no subtable in use is retired so early is not, since the third
subtable can be.

Deadlock is checked in every run of a table but the smart-lazy: a thread can always start a
call. The smart-lazy table may stop at its caps, at the assertion of line 533, and at a NULL
in `TableArray`. The program of `Harness` ends, so its run does not check deadlock, and
`Terminates` says more.

**Fairness.** `FairSpec` asks weak fairness of the steps of `t1` alone: a running
thread is given processor time by the scheduler. Nothing is asked of the other
thread, which may stop anywhere in a call or run for ever, so `WaitFree` says that no
call waits for another thread. It holds because an insert that loses a
compare-and-swap has lost it to a slot or a subtable that stays: with finitely many keys, and in
`HashtableDelete` with finitely many entries in use at once, this cannot go on.
`Harness` asks it of `main` and of every thread, which are all threads of the
operating system and are run by its scheduler; that a barrier lets its threads go once all
have come is `pthread_barrier_wait`'s promise.
No liveness is stated of `HashtableLocks`: its rehash waits for readers, and
the default kind of `pthread_rwlock_t` lets new readers in before a waiting writer.
None is stated of `HashtableSmartLazy`, whose caps stop calls.

### What the failing runs show

* `delete_overlap`. Thread 2 inserts *b* and finds a slot NULL. Thread 1 inserts *a* there, inserts
  *b* further on, which returns 1, and deletes *a*. Thread 2 reads the slot again, finds it
  marked, takes the marked pointer of *a* as expected value, puts *b* over it and returns 1
  as well: *b* is in two places. That is the key of the overwriting insert; a second
  overwrite can double the overwritten key too, since an insert of it may have gone past
  the slot. `delete` shows the table linearizable as long as no marked entry of another key has been replaced.
* `lazy_start`. Two threads copy the last two slots of a subtable at the same time. Each
  increments its `threadCopy` and sums all of them; each increment is
  still in its store buffer when the other reads. Neither finds the sum complete, every
  slot is marked, so no later call copies or sums: `start` stays, and with it a
  useless probe of that subtable in every later call; moving stops for good.
  Answers stay right (`lazy`).
* `smart_lazy_undelete`. A thread marks a slot of subtable 0, sees the entry's flag set, passes it
  over, counts it and moves `start` to 1. An insert that found the flagged entry earlier
  clears the flag, sees the mark, and inserts the entry again from `head->start+1`, now 2. The
  path of its key has a NULL slot in subtable 1, where every later query stops: `insertTable`
  returned 1, `checkTableQuery` returns 0. The comment at line 339 calls this call the fix of the race.
  The same call has another effect, which the third history of `crossed` excludes from `smart_lazy`: if
  the entry is deleted once more before its slot is marked, its copier passes it over, and the insert that
  undeleted it puts it in again with its flag set. A new insert of the key that loses the
  compare-and-swap of a NULL slot to it compares the keys only (line 506) and returns 0, though the
  key was in the table at no instant of its call. The case takes a third entry of the key, which is
  why `smart_lazy` has one: without that disjunct of `Crosses`, `LinearizableUntilCrossed` fails there.
* `locks_rehash`. While `newTable` puts the old blocks back, an insert of a key not yet back finds it
  absent and returns 1, though nobody removed it. Likewise a query returns 0. The
  answers are right of the array alone (`RightOfTheArray`).
* `cache_wide_tag`. A key has the tag 129. `insertTable` puts it in, the tag in the upper bits of the
  pointer; `checkTableQuery` hands the tag to `lookupQuery` as a `char`, -127, which differs from the
  slot's: the query returns 0 for a key in the table. `cache` shows that this is the
  only departure from `ConcurrentSet` (`MissesWideTag`).

### What two properties leave open

`EndsAreOfThisTrial` says that the times thread 0 copies in `getBTsummary` are of the trial it sums
up, not that they are those of its end, as the comment at `util.c:108` has it: thread 0 may
be there before another thread has written its time of the second crossing, and then copies that of the first.

`ReportIsFinal` says that when `main` reports there have been `trialsToRun` trials. That is so with
`--terror` too, though `harness.c:170` says "Run trials til get to error below this": the last planned trial
fails the test `trialNumber+1 > trialsToRun` (577) and ends the run by the `else` branch (585), so that
lines 578-584, which look at the standard deviation, are never reached, nor is the room for ten
times as many trials (657). The theorem `ReportIsFinalCorrect` covers both values of `stopError`.

## 4. The proofs

`HashtableProofs` proves of `Hashtable`, for all constants that satisfy
`HashtableAssumption` (finitely many keys, at least one probe and one slot, any set of
threads) and whose places are in their subtables (`PlacesFit`, the hypothesis of each theorem, which the
remainders of any hash values meet: `RemaindersFit`):

| theorem | statement |
|---|---|
| `RemaindersFit` | `PlacesFit`, if `Place = Remainders(Hash)` for a `Hash` with values in `Nat` |
| `Invariance` | `PlacesFit /\ Spec => []IInv` |
| `TypeCorrect`, `FirstNullBucketCorrect`, `SubtablesInOrderCorrect`, `NoDuplicateKeyCorrect` | the invariants of the run `hashtable` |
| `GrowthIsEarnedCorrect` | no more subtables than keys |
| `Linearizability` | `Spec => Linearizable`, the refinement of `ConcurrentSet` |

**The argument.** None of the invariants is inductive alone: that an insert puts
its key where no other slot holds it depends on what the thread learnt at every
slot it looked at. `IInv` therefore adds, for each thread (`ThreadInv`), that the slots before
the one it is at are taken by other keys (`Passed`), that its `LocalCur` is never above
`cur`, and that it has been through all subtables below it when it comes to grow the table; and of the
table, that a subtable which `cur` does not count yet is still empty (`NewestEmpty`). What
makes `Passed` stable is that a slot, once written, never changes (`SlotStable`) and that
subtables are only added at the end. Then a compare-and-swap from NULL lands on the first NULL
slot of the path, which gives `FirstNullBucket`, and two slots with the same
key would each have to lie before the other, which gives `NoDuplicateKey`. `SeenInv`
ties the history variable to this: from the `seen` of a query the answer
it returns can be read off. `GrowthIsEarned` needs an injection: each subtable after
the first has a key that passes all slots below it (`GrowthWitness`), and
counting those keys bounds `cur`.

`Linearizability` maps a successful `ClaimSlot` to the abstract insert, a return
with 0 or of a query to the corresponding abstract return, the start of a call to
`Invoke`, and everything else to a stutter.

`HashtableCacheProofs` proves of `HashtableCache`, for any tags and any number of lines; the last
three rows with the hypothesis `WholeLines`:

| theorem | statement |
|---|---|
| `Implementation` | `Spec => ImplementsHashtable`: a step of `hashtable.c`, or a query of a key with a wide tag |
| `PowersAreWhole` | `WholeLines`, if the size asked for, the entries of a cache line and the slots of a line are powers of two |
| `NoDuplicateKeyCorrect`, `ProbesInTableCorrect` | the invariants of the run `cache` |
| `FirstNullBucketCorrect` | that of `hashtable`: no key lies behind a NULL slot of its path round the lines |
| `Linearizability` | `Spec => LinearizableButWideTags` |

**The argument.** The theorems about `Hashtable` are instantiated, not repeated. A query of a
key with a wide tag is not a step of `Hashtable`, since it walks past its own key; but it is the
step of a query of another key, with the same hash values, that nobody ever inserts.
`Shadow(k)` is such a key, and the specification with `ShadowKey` for `key` and
`ShadowSeen` for `seen` implements the instance of `Hashtable` over the keys and their shadows
(`ShadowImplementation`). The invariant `CInv` says besides `IInv` of that instance that no slot has
a shadow, so `Contents` is the same with shadows and without. The refinement of
`ConcurrentSet` with shadows then gives the one without: the 0 that the query of a shadow
returns is the 0 of `MissesWideTag`. That the probes
of the instance are in their subtables is `WholeLinesFit`: a mask bounds what it lets through
(`MaskedBound`), the start of a line is a multiple of the stride below the size less one
(`LastLine`), and every size is the first one, a multiple of a line, doubled. `ProbesInTable` follows with the
invariant of `hashtable.c`, which has the subtables where the probes look. For lines that are not whole
nothing but `Implementation` is claimed, and nothing else holds: `LinesRunOver` has the probes past the end.

`HashtableDeleteProofs` proves of `HashtableDelete`, for all constants that satisfy
`HashtableDeleteAssumption` and `PlacesFit` (`RemaindersFit` again):

| theorem | statement |
|---|---|
| `Invariance` | `PlacesFit /\ Spec => []Inv` |
| `TypeCorrect`, `NoGapBeforeEntryCorrect`, `NoDuplicateKeyCorrect` | the invariants of the run `delete` |
| `LeavesOnlyMarkedCorrect` | its action property |
| `Linearizability` | `Spec => LinearizableUntilOverwritten`, the refinement of `ConcurrentSet` until the first overwriting insert |

**The argument.** `Inv` is built as `IInv` is, but a slot does change here, so less stays true of
the slots a thread has passed. `PassedBy` says that such a slot is not NULL, and that it holds
no entry of the key *or an entry of another key has been replaced* (`overwritten`).
Its first half never stops to hold, since no step writes NULL; the second holds until
an insert puts its entry where a marked one of another key was (`Grows`). `OnPath` is the
inductive form of `NoGapBeforeEntry`: an entry is not just at some probe of its key, the probes before have been
passed in the sense of `PassedBy`. Two entries of a key would each have to be before the other, hence
`NoDuplicateKey`. A step writes at most one slot, by a compare-and-swap that finds
what it expects (`Claims`, `Marks`), so all of this has to be shown for two kinds of writes
only. `SeenInv` gives the answers of the calls that fail: an insert whose compare-and-swap
meets its own key saw it come in, a delete whose compare-and-swap fails saw the key go
or come back, both during the call; and a query that has run out of slots saw its key missing.

That `NoDuplicateKey` and `Linearizability` end at `overwritten` is no weakness of the proof: the run
`delete_overlap` shows what is lost then. `LeavesOnlyMarked`, `NoGapBeforeEntry` and `TypeOK` have no such limit.

`HashtableDeleteCache` proves `Implementation`, `Spec => Table!Spec` over `HashtableDelete`, from the only
assumption that `k ^ (k >> 16)` is an integer: a tag survives its way through the pointer
(`TagSurvives`), and an insert's key is the key of its entry (`Calls`), so comparing tags first changes no
answer. It holds for lines of any number of slots. Where the constants of the instance satisfy
`HashtableDeleteAssumption` and `PlacesFit`, the theorems of `HashtableDeleteProofs` hold of this table too; the
second is not so if the slots of a line are no power of two.

`HashtableLazyProofs` proves of `HashtableLazy`, for all constants that satisfy
`HashtableLazyAssumption` (finitely many keys and threads, any hash values):

| theorem | statement |
|---|---|
| `Invariance` | `Spec => []Inv` |
| `TypeCorrect`, `StartLosesNoKeyCorrect`, `CountedIsCopiedCorrect`, `OneUnmarkedSlotCorrect` | the invariants of the run `lazy` |
| `Linearizability` | `Spec => Linearizable`, the refinement of `ConcurrentSet` |

**The argument.** It turns on the counters. `Tally(jj)` are the copies counted in a
subtable, those in a store buffer that only their thread sees included; `Completed(jj)` are its marked
slots that no thread is still copying (`PendingAt`). A mark is made by one compare-and-swap, so each is
one thread's to copy (`Distinct`), and the step in which that thread counts it adds one
element to each of the two sets: `Tally` never has more than `Completed` (`Copied`). What
`sumArr` returns is at most the tally, so when it equals `TableSize` all slots have been copied
(`SumIsSize`), and only then does `start` move. The store buffer can thus delay the sum, which `lazy_start`
shows, but never make it too large.

For the keys `Copied` says that the key of a completed slot is reached from the next subtable on
(`ReachesFrom`), and that subtables above `start` have no marks. Hence `Found`: a path that came to its
key in the subtable that `start` leaves comes to it again above. A copy begins at `head->start + 1`,
which is just above its slot because `start` cannot move while the slot is not completed (`StartStays`);
so what a nested `insertTable` has not passed is only what holds its key marked (`StackInv`,
`Origin`), and it copies nothing itself (`doCopy` is false above `start`): the recursion is one deep (`TypeOK`: `Len(stack[t]) <= 1`). A claim for the harness therefore finds its key nowhere, one for a copy only marked
(`NewKey`), which gives `OneUnmarkedSlot`. `SeenInv` says that a query that has always seen its key has
it before it on its path, whichever copy that is: a query that returns 0 saw the key missing.

`HashtableSmartLazyProofs` proves of `HashtableSmartLazy`, for any threads, keys, entries, probes and hash
values (`HashtableSmartLazyAssumption`):

| theorem | statement |
|---|---|
| `Typing` | `Spec => []Typed` |
| `TypeCorrect`, `WindowIsHalfCorrect` | two invariants of the run `smart_lazy`, without its constraint: also after an undelete has crossed a copy, and when the array has gone round |
| `Invariance` | `Spec => []Inv` |
| `StartLosesNoKeyCorrect`, `OneLiveEntryCorrect` | two more of its invariants |
| `LinearizabilityCorrect` | `Spec => LinearizableUntilCrossed`, the refinement of `ConcurrentSet` while `Sound` |
| `LineUntilHalfCorrect` | an invariant of the run: how long `late` stays false, and with it `Sound` as far as the array goes |

**The argument.** `Typed` adds to the types what the locals are at each point: where a thread looks at a slot its
subtable exists (`ThreadTyped`), and the frames in a stack are those of inserts at a subtable in use
(`CallerFrames`). For the window it says that an insert which comes to the assertion is at
`iter_j <= head->cur`, or at most one above `head->start` (a nested `insertTable` starts there, though
`head->start` may have moved since it was read). `head->cur` only becomes `iter_j + 1`, and from the assertion on
`iter_j - head->start` is less than half the array and does not grow, because `iter_j` stays and `head->start` never
goes back. That bounds the window whichever threads have passed the assertion in the meantime.

`Inv` is `Typed /\ (Sound => Deep)`, and `Sound` never comes back once it is lost; so a step need only be
followed where its outcome is `Sound`, and there `InLine` says that the subtable of `iter_j` is the one it
was created as. Three things separate the table from `HashtableLazy`:

* *A path is one of entries.* `Finds(e, ...)` says that a path comes to the entry `e`, flagged or
  not, before it comes to NULL: deleting and undeleting do not disturb it, and no slot returns to NULL, so it
  only grows. An entry that is not flagged is found from `head->start` on (`Found`), and a copied one that is
  not flagged from the subtable after it (`Copied`); a flagged entry may be left behind.
* *An undelete must not bring back what was passed over.* An unmarked slot, or the slots of the subtables
  above `head->start`, are still on the paths, which is why `Found` holds of them flagged or not. In
  a marked slot it is what `Crosses` names, and `Sound` ends.
* *One key, one entry.* The slots of a key from `head->start` on hold the same entry (`SameEntry`), once
  per subtable (`OncePerSubtable`). Hence `OneLiveEntry`: two entries that are not flagged are both found
  from `head->start` on. A claim keeps it because the path has been passed (`PassedTo`, from `Origin`).

`StackInv` lists who can be waiting for whom: an insert whose copy is being inserted, an insert which puts in again what it has
undeleted, or both, so the recursion is at most two deep. The counters are those of
`HashtableLazy` (`Tally`, `Completed`, `Distinct`). In the refinement an insert takes effect
when it claims its slot or undeletes an entry, and what it still does after an undelete is a stutter
(`TookEffect`); that no claim of a copy changes `Contents` is where the flag of the copied entry, cleared or not,
has to be the same before and after (`Crosses` again).

What the theorems say of a behaviour ends with `Sound`. On `crossed` this is what the code gives: `smart_lazy_undelete`
shows a key lost after it. On `late`, `LineUntilHalf` says how far it is away. `LineInv` adds to `Inv` that the
subtables made fill the array from its start (`Filled`), that none has been retired (`NoneRetired`), and that frames,
also those on a stack, have the subtable of their
`iter_j` (`Straight`). A thread that retires has an `exStart` below `head->cur`, so the place half an array above it
is still empty while half an array has been made, however late it comes to it. The comment at
385-389 puts this at 2^32 times the first size in inserts, which is so if every subtable is twice the one before; after
enough deletes `nextTableSize` is that of the last one, and 32 of them take far fewer.

`HashtableLocksProofs` proves of `HashtableLocks`, for any threads, keys, hash values and initial size
(`HashtableLocksAssumption`):

| theorem | statement |
|---|---|
| `Invariance` | `Spec => []Inv` |
| `TypeCorrect`, `OncePerTableCorrect`, `OneRehashCorrect`, `CurNotAboveCorrect` | the invariants of the run `locks_safety` |
| `NothingLostCorrect`, `RightOfTheArrayCorrect` | its action properties |

**The argument.** A walk holds no chain lock, so what it has learnt is about a prefix of a chain: the blocks up
to its position do not hold its key (`ThreadInv`). Chains only grow at the end, which keeps that true, and a
thread appends only under the lock, at the end of what it has seen; so the key it appends is new
(`OncePerTable`). The array is exchanged only when nobody reads (`readers`), that is, when no thread has
a position in a chain. `CurNotAbove` needs a count that a lost increment cannot exceed: `Settled` are the keys in
the array without those whose threads have not come to the end of `head->cur++`. Both halves of
the increment keep `cur`, and what its threads are about to write into it, at most the size of
`Settled`, because `Pending` threads have different keys. `NothingLost` needs no count: a block leaves `old[t]`
only to be `node[t]`, and leaves that only when its key is in the array.

`HarnessProofs` proves of `Harness`, for any number of threads, calls and trials (`HarnessAssumption`):

| theorem | statement |
|---|---|
| `Invariance` | `Spec => []Inv` |
| `TypeCorrect`, `CallsAreInTheTrialCorrect`, `ReportIsFinalCorrect`, `EndsAreOfThisTrialCorrect` | the invariants of the run `harness_trials` |

**The argument.** `Passed(t)` counts the barriers t has arrived at since it started, three for each trial and
its `Stage` in this one. `Sync` says that no two threads differ by more than one, that who is ahead is
waiting in the barrier, and that the sets `arrived` and `released` of the barriers are determined by this.
`startBarrier` serves twice in a trial: that a slow thread still leaving it the first time
is not let through with those that have arrived for the second is what `Sync` says of `released`. Everything else is said of
thread 0 alone (`ZeroInv`): what it has done for all the others, between two barriers it has passed, is
true for them when they have passed the same (`Together`). `MainInv` counts the posts of `threadsDone`
against the threads that have ended. `TrialsInv`, on top of it, says that `notDone` becomes 0 in the
last of the planned trials and in no other, and that no error has been compared.

The proofs rest on no assumption about the hash function but, in the cache-line tables, on one about the lines, on none about fairness, and on the
abstraction of section 2 (one access, one step).

**Model-checked only:** `WaitFree` and `Terminates`: liveness and fairness are out of the prover's reach. Every
other property of a passing run is also a theorem.
`HashtableDeleteCache` is not model-checked: its steps are those of `HashtableDelete`, to which the proof reduces it.

## 5. Not modelled

* `lib/hashtable_delete_lazy.c` is the file the smart-lazy table was made from. It lacks the
  circular array and the second insert of an undeleted entry; what the two share is in
  `HashtableSmartLazy`. `hashtable_delete_lazy_cache.c` is the same, line by line.
* `lib/hashtable_lazy_cache.c` and `_lazy_cache_np.c`: `getPtr` masks with `~ptrMask` where `ptrMask` is
  wanted, so the compare-and-swap of `setPtr` expects 0 or 1 in a slot that holds an entry and
  never succeeds. Nothing is copied, `start` stays, and what is left is the algorithm of `hashtable_cache.c`.
* `lib/hashtable_delete_thr.c` and `_thr_cache.c`: the background thread is woken and stopped by
  unlocking mutexes that another thread has locked, or nobody. POSIX leaves that
  undefined: there is no set of outcomes to choose from.
* `lib/hashtable_simple_delete.c`: an insert that meets an occupied slot expects the pointer 1
  there, which no slot holds, so `deleteAdd` is never called; and it goes on with its own pointer tagged, through
  which every later comparison of keys reads two bytes off. What could be modelled is not the algorithm of the file.
* Tear-down: `freeAll` walks the subtables alone, after every call of the trial (`CallsAreInTheTrial`).
* `murmur3_32` (a constant function), command line, random
  distributions, temperature, timing and the statistics of the harness (sequential input and output), the adapter
  `hashtable_cuckoo.cpp`, the prototypes in `hash_prgs/`, `go_hashidea/` and `lib/not_ready/`, and vendored
  code (`libcuckoo/`, `gsl_lib/`), which is most of the repository's lines.

Left open: what holds of the smart-lazy table when the array has been round, that is, how
late a thread may be before it walks a subtable that is freed.
