# A verification of the ion-core job system

ion-core (`src/ion` of the repository) is a C++20 core library that replaces the
standard library in the programs built on it. Most of it is sequential data
handling. Its concurrent heart is the job system: a pool of worker, companion
and IO threads, jobs that are split into tasks, parallel loops, timed jobs. A
mistake there shows as a thread that sleeps for ever, a task that runs twice or
a job that is used after it was destroyed, once in a million runs; tests seldom
reach it. This project models the job system in TLA+, with the parts of the
library that it serves or rests on (the log, the file readers, the temporary
allocator, the ring buffer, the ranges of ids), checks it with TLC and proves
its safety with TLAPS.

`PROJECT.json` has the details: every definition with the lines it models, the
runs, for every checked property a mutated definition that breaks it, the
hazards of the code with the properties that cover them, the findings and the
theorems. Paths below are relative to `src/src/ion/`.

## Inventory

### The job system

| Component | State | Operations | What is hard |
|---|---|---|---|
| Job queue: `jobs/JobQueue.h`, `.inl`, `concurrency/SCThreadSynchronizer.cpp` | the task list under `mMutex`; `mIsStarving`, `mIsRunning` and the condition variable under the synchronizer's lock | `AddTasks`, `PushTask`, `Signal`, `RunBlocked`, `TryWait`, `Steal`, `GetJobTask`, `Stop` | two locks and a flag read without any; the owner decides to sleep under one lock, tasks arrive under the other |
| Thread pool, workers: `jobs/ThreadPool.{h,cpp}` | a queue per worker and queue 0, `mNumWaiting`, `mJoblessQueueIndex` | `PushTask`, `AddTasks`, `WakeUp`, the stealing loop of `Worker`, `StopThreads` | sleepers are found through a counter changed outside every lock; thieves pass locked queues by |
| Thread pool, companions: the same files | `mCompanionJobQueue`, `mNumBackgroundWorkers`, `mCompanionWorkersActive`, `mCompanionWorkersNeeded` | `PushBackgroundTask`, `AddCompanionWorker`, `RemoveCompanionWorker`, `CompanionWorker` | one thread with two duties, three lock-free counters, threads created while tasks block |
| Thread pool, IO threads: the same files | the IO queue with several owners, `mIOThreads` | `PushIOTask`, `LongJobWorker`, `LongTaskRun`, the IO half of `StopThreads` | threads are started on demand, by tasks that are running too; the queue is drained at the stop |
| `Job`, `WaitableJob`: `jobs/Job.{h,cpp}`, `jobs/WaitableJob.{h,cpp}` | `mNumTasksAvailable`, `mNumTasksInProgress` | `Execute`, `DoWork`, `Wait`, destructor | requests that meet the end of a run; a waiter that helps; destruction right after `Wait` |
| `RepeatableIOJob`: `jobs/Job.{h,cpp}` | `mIsStarving`, `mIsDone`, `mMutex` | `Execute`, `DoWork`, `Wait`, destructor | both flags are read without the mutex |
| Parallel loops: `jobs/ParallelForJob.{h,cpp}`, `jobs/ListJob.h`, `jobs/IntermediateListJob.h`, `JobScheduler::ParallelFor` | partitions with an atomic index each, the counters of `WaitableJob` | serial start, `AddTaskLists`, `TaskList`, `TaskListBatched`, `TaskListPartitioned` | lock-free claims with rests at every seam; the job is a local variable |
| Timed jobs: `jobs/TimedJob.{h,cpp}`, `jobs/JobDispatcher.{h,cpp}` | `mState`, `mNumTasksInProgress`, `mInQueue`, `mTimedQueue`, the dispatcher's synchronizer | `PushJob`, `Cancel`, `WaitUntilDone`, `Reschedule`, `RescheduleImmediately`, the dispatcher loop, stop | a job wanders between four places while its owner cancels or destroys it |
| `JobGroup`: `jobs/JobGroup.{h,cpp}` | `mNumJobsAvailable`, a single-owner queue | `PushJob`, `Finalize`, `Work` | the count is read and changed outside the queue's lock; who finalizes and who waits meet |
| Delayed tasks: `JobScheduler::PushDelayedJob`, `BeginTimeCritical`, `EndTimeCritical` | the count of time-critical blocks, `mTasks` | enter, leave, push | a task delayed to a block that has just ended |
| `JobIntermediate`, `ParallelSort`, `SplittingJob` | containers per task list; ranges | claim, merge, sort | the claims, which are those of the loops; `SplittingJob` is unfinished in the source |

How they interact: a job pushes `JobWork` items, each naming the job, into the
queues of the pool (`PushTask`, `AddTasks`, `PushIOTask`). Whoever takes an item
calls the job's `DoWork`: the owner of the queue, a thief, a companion, or a
thread that waits for that very job and searches the queues for it. A thread
that blocks inside a task tells the pool (`UnlockAndWaitEnsureWork`), which
wakes or creates a companion in its stead. The dispatcher is a thread of its own
with a pool of its own; it pushes timed jobs when they are due. Tracing and the
file loader use `RepeatableIOJob` on the IO threads. Nothing is persisted and no
messages are sent, so there is no crash recovery and no lossy channel here; the
hard behaviour is interleaving, ordering and orderly shut-down.

What makes each part correct:

* queue: no announced task waits behind a sleeping owner; a task is taken once;
  the stop drops no announced task and ends the owner;
* pool: a sleeping worker is found by the push that needs it; all workers end;
* companions: the counters are right; background tasks run; a blocked thread is
  replaced; all companions end;
* jobs: runs do not overlap; no request is lost; `Wait` returns, and only when
  everything is done and nobody touches the job any more;
* loops: every item once, whoever claims it, whether anybody helps or not;
* timed jobs: one place at a time, at most one run begins after `Cancel`, the
  dispatcher never oversleeps a job, `WaitUntilDone` returns;
* IO threads: an IO task that is queued has a thread that is to look at the
  list; the stop ends every thread and leaves no task;
* groups: `Work` says FALSE only when everything pushed has run, and says it in
  the end; delayed tasks: each reaches the pool.

### The rest of the library

| Component | State and operations | What is hard | Standing |
|---|---|---|---|
| Files (`filesystem/Folder.cpp`, `FileContentJob.cpp`) | the readers of a folder, the list of loads, `mLock`, on top of `RepeatableIOJob` | `Execute` is called for the first item of the list only; the last reader waits and destroys with the folder locked | `FileReaders` |
| Temporary allocator (`temporary/`) | pages with two counters each, the registry of pools | any thread releases, one allocates, the last one purges; a page is read again after it was counted empty | `TemporaryPages` |
| Tracing (`tracing/Tracing.cpp`) | `gTotalMessages`, the queue of messages, the flush lock | the count is not under the lock; a scheduler that ends flushes until the count is zero | `Tracing` |
| `RingBuffer`, `DynamicRingBuffer` (`container/`) | a circular buffer and an overflow behind it | erasure from the middle, room in front of an overflow | `RingBuffer` |
| Id ranges (`util/IdRangePool.h`) | free ranges in a heap and two maps | merging with the top and both neighbours, over and over | `IdRangePool` |
| `IdPool`, `NodeHierarchy`, database, containers, memory pools, core start and stop, tweakables | data of one thread at a time | nothing that interleaves | not modelled |
| Lock-free queues, mutexes, condition variables, threads | wrappers of vendored or platform code | what they promise | built into the actions: a section under a lock is one step, notifications are sent at the unlock, a wait may end for no reason |
| Serialization, JSON, strings, SIMD, fixed point, time, hardware queries, vendored code | data conversion or plain I/O | | not modelled |

## Modules

Each C++ section under one lock is one action, because everything it touches is
written under that lock only; every read without a lock and every atomic counter
is an action of its own. Names are those of the source. Every
operator whose comment begins with "Mutant" is a wrong variant of a definition
that no specification uses; a property is checked against one each.

Memory is sequentially consistent in the models. The source reads and writes
`mIsStarving` with acquire and release only. In the queue that is enough, because
both sides pass through `mMutex` in between: a push leaves it before it reads
the flag, the owner sets the flag before it takes it to look at the list. For
`RepeatableIOJob` it is enough where the list of requests has a mutex
(`FileContentJob`); with the lock-free list and the relaxed count of `tracing/`
the models say nothing of what a weaker memory order may do.

| Module | Models | How it corresponds |
|---|---|---|
| `TaskHandoff` | what a queue promises | a stage per task: offered, announced, running, done; no locks, no queue |
| `JobQueue` | one queue, its owner, producers, thieves | `AddTasks` appends and leaves the lock; `SignalCheck` reads the flag, `SignalLocked` clears it and notifies; `PopOwn`, `FindEmpty` and `TryWait...` are `RunBlocked` and the wait; `Steal` takes the tail, `FindJobTask` any place. Implements `TaskHandoff` through `stageBar` |
| `WorkerPool` | all workers, queue 0, pushes, wake-ups, stealing, stop | the queues of `JobQueue` with sets for lists, plus `mNumWaiting`, the ring walk of `AddTasks` and `WakeUp`, the sweep of a thief |
| `Companions` | companion threads and blocking | the pool's queues are one set searched in one step and the workers' loop is coarse, because `WorkerPool` has both in detail; the counters, the locked sections of `CompanionWorker` and thread creation are exact |
| `Job` | `Job` and every way through `WaitableJob::Wait` | the queues are the number of this job's `JobWork`, and whether the owner's search has gone by the queue it was pushed to; the owner takes what it finds, workers may take it first |
| `ParallelFor` | the call from the serial start to the end of `Wait` | one action per atomic claim; the partitions are computed as in the source; the wait is that of `Job` |
| `RepeatableIOJob` | the job with its mutex | the mutex is a variable, because `DoWork` publishes `mIsDone` while it holds it |
| `TimedJobs` | jobs, owners, pool threads, dispatcher | clocks are reduced to whether a job is due; the queues are counts, of the pool's it matters only which jobs are in queue 0; a waiting owner looks, visits queue 0, looks, visits the others, and so on |
| `FileReaders` | loaders of one file, the job that reads it, the destruction by the last of them | EXTENDS `RepeatableIOJob`: its callers are the loaders, its requests are `mWorkList`; the folder's mutex and the list are added |
| `IOPool` | IO threads | the multi-owner queue is a number of tasks under one lock, so each section is one action; a push that finds nobody waiting looks for room and starts a thread in two more |
| `JobGroup` | a group, its pushers and its owner | the queue is that of `JobQueue`, its jobs a number; each access to `mNumJobsAvailable` is an action |
| `DelayedTasks` | time-critical blocks and delayed jobs | `IsActive` is read in one action, the job added in another |
| `TemporaryPages` | the pool of one thread, the threads that release | every atomic access is an action; blocks have size 1 |
| `Tracing` | loggers, `LogJob`, the scheduler's destructor | of `RepeatableIOJob` it uses the promise: a round after each request, one at a time |
| `RingBuffer` | `RingBuffer` and `DynamicRingBuffer` | an action per call, beside the list that the calls mean |
| `IdRangePool` | `Reserve` and `Free` | a step per round of the loops in `Free`, with the range that is in hand; the next call begins when nothing is |
| `JobQueue_proofs` (and `RingBuffer`), `WorkerPool_proofs`, `Job_proofs` (and `JobGroup`), `FileReaders_proofs` (with `RepeatableIOJob`, and `Tracing`), `TimedJobs_proofs`, `ThreadPool_proofs` (`Companions` and `IOPool`), `ParallelFor_proofs`, `Allocators_proofs` (`TemporaryPages` and `IdRangePool`) | theorems | see below |

The `MC...` modules give small constants and the symmetry. `MCParts` composes the
parts that are small: it extends `ParallelFor`, `IOPool`, `TemporaryPages`,
`JobGroup`, `RingBuffer`, `Tracing` and `IdRangePool`, so that TLC evaluates their
assumptions and checks the very properties that are proved, and has an instance of
`DelayedTasks`. A behaviour is about one of them, which its first state chooses;
nothing in the code relates them.

`WorkerPool`, `Companions`, `Job` and `TimedJobs` overlap where the components
meet: each has its own part exact and the neighbour reduced to what it promises
(`Job` relies on nothing of the pool, which may leave a `JobWork` in queue 0 as
`pool_queue_zero` shows; `TimedJobs` relies on a task in a worker's own queue being
taken, which is `FirstQueueIsServed` of `WorkerPool`; `WorkerPool` relies on a queue not losing wake-ups, which `JobQueue`
checks and proves, although it keeps the flags and shows it again). `FileReaders`
has the whole `RepeatableIOJob` inside; that the pool takes its `JobWork` in the
end is what `IOPool` shows.

## Runs

Every cfg says `CHECK_DEADLOCK FALSE`: after the last push, request or stop
there is nothing left to do, and the system rests.

| Run | Instance | Shows |
|---|---|---|
| `job_queue` | 3 tasks, 2 producers, 1 thief, batches up to 2 | no lost wake-up, each task once, the stop leaves no announced task behind and ends the owner, the queue implements `TaskHandoff` with its liveness |
| `pool` | 2 workers and the main thread push 2 tasks, batches up to 2 | `WakeUp` never gives up while somebody sleeps; a task that went to a worker's queue first is not left there; a whole batch is taken; all workers end |
| `pool_queue_zero` | the same with a thread that owns no queue, batches of 1 | violation: queue 0 has no owner |
| `job` | 2 callers with 2 requests each, 2 workers, a helping owner | no lost request, destroyed unused, `Wait` returns whether workers take the job or not, and only when served |
| `files` | 3 loaders of one file with 2 loads each, 2 IO threads | an item that was added without `Execute` is served; a job is destroyed idle; every load is called back; the last reader gets out of the folder |
| `repeatable_destroy` | 2 callers with 1 request each, 2 IO threads | violation: the mutex destroyed while locked |
| `companions` | 1 worker, 1 companion and 1 that can be created, limit 1, a task, 2 background tasks | the counters agree with the threads, background tasks run, all companions end |
| `companions_blocked` | 2 companions from the start, 2 tasks, no background task | violation: a companion sleeps on a stale search |
| `timed` | a periodic and a one-shot job, 1 pool thread, owners that help, 2 pushes each, the stop after all jobs are gone | one place, destroyed unused, no sleep on a job in `mInQueue` or on one that was moved forward, one run at most begins after `Cancel` |
| `timed_live` | a periodic job, 2 pool threads, the stop at any time | `WaitUntilDone` returns, an active job runs again and again unless it rests in queue 0, the dispatcher ends |
| `timed_stop` | a periodic job, 1 pool thread, 1 push, the stop at any time | violation: rescheduled on a stopped dispatcher |
| `parts` | one of eight parts at a time, see the next table | each part's promise, in every interleaving of its own threads |

| Part of `parts` | Instance | Shows |
|---|---|---|
| `ParallelFor` | 2 workers and the caller, eight calls: one for each kind of list, with rests at every seam | every item exactly once, return without help, nobody in the job afterwards, the assertions |
| `JobGroup` | 2 pushers, 3 jobs | `Work` says FALSE only when all has run; a finalized group ends |
| `DelayedTasks` | 2 blocks, 2 jobs | a delayed job reaches the pool if blocks keep ending |
| `IOPool` | 2 pushers outside, 2 places for IO threads, 4 pushes | a queued task has a thread that is to look; after the stop nothing is queued; the stop ends |
| `TemporaryPages` | 2 threads that release, 2 pages of 2 blocks, 5 allocations | no block handed out twice; a pool is purged when, and only when, it is unused |
| `Tracing` | 3 loggers, the IO thread, the thread that destroys the scheduler | `FlushUntilEmpty` returns when what was logged is printed |
| `RingBuffer` | a ring of 3, up to 5 elements of 2 values | the ring and its overflow are the list in its order |
| `IdRangePool` | short ranges up to 2, requests of 1 to 3, ids up to 9 | after every round of `Free` too, every id is in one range: reserved, free or in hand |

**Why the bounds are enough for the question.** Two producers and a thief are the
fewest that race for one list and one flag; three tasks let a batch of two meet
another push. Two workers let one be woken while the other steals, and a third
queue, queue 0, lies between them on the ring. Two callers with two requests
each let a request meet the first round, the end of a round, and a second round.
The loops have between four and seven items, so that there are several batches
in a partition, several partitions, and rests in both. A third companion or a second
worker multiplies the states beyond a quick check without a new kind of step. Three
loaders let one close the reader, one wait for the folder, and one load again.
Two places for IO threads and four tasks let a task push another while both are
busy, and a push find the pool full. Two pages of two blocks let a page be
skipped, emptied and used again, and an allocation find no page. A ring of
three with five elements wraps with an overflow behind it; nine ids hold a used
range between a short and a long free one. Where there are theorems (see below)
they remove the bounds for safety.

Bounds in the models: `MaxBatch` (tasks of one `AddTasks`), `MaxRequests` (calls
of `Execute` by one caller, loads of one loader), `MaxPushes` (`PushJob` calls of
one job; IO tasks in all), `MaxPartitions` (the capacity of the array in the
source, less here), `MaxJobs` (jobs of a group), `MaxPages` (`MaxPagesPerThread`,
less here), `TSize` (blocks in a page; the size of a ring), `MaxBlocks`
(allocations), `MaxItems` (elements of a list), `Counts` and `MaxTotal` (lengths of
ranges, ids). A task is pushed once, a logger logs once.

## Fairness

A thread that can run is scheduled, and a task, a job's function or
`RunTimedTask` returns: weak fairness of each thread's own steps. Nothing is
assumed of pushes, requests, stealing, helping, `Cancel`, `Stop`, allocation,
`Finalize`, the begin and end of a time-critical block, or waking for no reason; in particular the owner of a queue may not rely on the timeout of
its wait, which is 49 days. Beyond that:

* nothing is assumed of the workers in `Job` and `ParallelFor`: a `JobWork` may rest
  in queue 0 (`pool_queue_zero`), and the workers may be busy for ever. A waiter that
  searches the queues must do without them; the waiter that is an IO job does not
  search, and `WaitReturns` promises its return only if the job does not rest in a
  queue for ever;
* `FileReaders` assumes that an IO thread takes a queued `JobWork`, which is what
  `IOPool` shows: the IO queue is one list, and whoever goes to sleep has looked at it;
* `Companions` has strong fairness for the return of a task, since a task that
  blocks again and again still ends;
* `TimedJobs` lets timers run down and the dispatcher's sleep end, whose length
  is at most a minute (`JobDispatcher.cpp`). It assumes that the workers take a
  job's `JobWork` from the queues they own (`FirstQueueIsServed`), and not that they
  come to queue 0, which the dispatcher's push may choose: there only the owner in
  `WaitUntilDone` is sure to look, and `ActiveJobRuns` exempts a job that rests in
  it. With several jobs that are always late the assumption would need the order of
  the queue, and what else the pool has to do, which the model does not have; so the
  liveness run has one job;
* `FileReaders` has only weak fairness, of a loader inside `Execute`, with its
  access or in the destruction too; that a loader which asks for content gets the
  folder's mutex is not assumed;
* in `IOPool` a stop that was asked for goes through; the sequential parts,
  `TemporaryPages` and `Tracing` have safety properties only.

## What the runs found

Four places where the code does not do what it says; `PROJECT.json` quotes both sides.

* `ThreadPool.cpp:468`: with workers nobody runs queue 0. A task pushed there
  while no worker counts as waiting stays until a later push wakes one. The
  comment makes the main thread its worker. In `pool` the related loss through
  a thief that passes a locked queue by (`Steal` with `TryLock`) is why
  `BatchIsServed` has the premise that no thief did. Two more properties carry the
  consequence in a premise: `Wait` of an IO job (`WaitReturns` of `Job`) and a
  periodic job (`ActiveJobRuns`) may be kept waiting by it for ever.
* `Job.cpp:113`: `RepeatableIOJob::Wait` can return, and the destructor run,
  while `DoWork` still holds the job's mutex.
* `JobDispatcher.cpp:158`: the dispatcher is stopped before the pool that runs
  its jobs; a job that is running then fails the assertion in `Reschedule`.
* `ThreadPool.cpp:479`: a companion that is about to sleep still counts as
  active, so a task pushed while every worker is blocked can wake nobody.

One more is part of a premise: `TryWaitUntil` looks at `mIsRunning` only when
nobody has signalled, so a periodic job that is always late keeps a stopped
dispatcher running. `StopEnds` therefore assumes that jobs are not run for ever.

## Proofs

TLAPS checks, for every value of the constants that meets the assumptions in the
modules: distinct kinds of threads are distinct, and threads that are counted
are finitely many; bounds are naturals; a batch, a page, a ring and a range have
room for something; the arguments of a parallel loop are numbers with a positive
batch size; a value that stands for nobody is nobody. Nothing else is assumed,
and TLC evaluates every one of them in a run.

* **JobQueue.** `TypeInv` adds to `TypeOK` that the owner has a task while it
  runs one. `WakeupInv` is the core of the rest: `NoLostWakeup` speaks of an
  owner that sleeps or is about to, and is not enough for the one that ends.
  `QuietMeansUnannounced` says it of every place after the owner's last look at
  its list (`PastItsLook`): while the flag says that it starves, each task in
  the list belongs to a push that has not returned. That needs
  `IdleHasNoBatch` (a push that returned has nothing to signal) and
  `SleeperIsReachable` (the flag of a sleeper is set and its queue runs).
  `OnceInv` is `RunOnce` with the types; it rests on lemmas about removing an
  element of a sequence. From these: `TypeCorrect`, `NeverLosesWakeup`,
  `SleeperAlwaysReachable`, `StopLeavesNoTaskBehind` (an action property),
  `TasksRunOnce`, and `QueueKeepsHandoff`: the queue implements `TaskHandoff`,
  initial states and steps. For the last, `HandoffInv` adds that the owner's
  hand is empty unless it runs a task, and `StagesAreRight` reads the stage of a
  task off the place where it is; then each action of the queue is an action of
  the hand-over or a stutter.
* **WorkerPool.** `SleepersAreCounted` compares one counter with the threads
  between two of their steps, so `PoolInv` counts them: `mNumWaiting` is the
  number of workers from `EnterWait` to `LeaveWait` (`WaitingCounted`, a
  cardinality). `HomeIsServed` is about a task in the queue where its push
  began: that queue's owner will look at it, or the push is about to signal it.
  `PushesHold` and `SweepsHold` say what a push and a thief know in the middle
  of their walk round the queues.
* **Job.** `JobInv` says where the one `JobWork` is: `mNumTasksInProgress` is 0
  exactly when it is nowhere, `mNumTasksAvailable` is one less than that during
  a call and the same otherwise (`CountersAreRight`); the thread that decided to
  leave holds the lock, so neither the next push nor a waiter gets past it
  (`HolderIsLast`); after the last `Wait` all is quiet (`ClosedIsQuiet`). From
  it: type correctness, calls in sequence, the code's assertions, no lost
  request, destroyed unused, and that `Wait` returns only when what was asked
  for was done.
* **RepeatableIOJob.** `RunsAreSequential` needs the meaning of `mIsDone`: FALSE
  exactly while a `JobWork` is queued or a worker has not decided to stop
  (`DoneMeansInactive`), and that the worker that decided still holds the mutex
  (`HolderUnlocks`), so that the next push cannot come before it has left.
  `StarvingIsRight` ties `mIsStarving` to both. From `JobInv` the five safety
  properties.
* **FileReaders.** `FilesInv` has the same parts and the locks: a loader that is
  inside `Execute` or waits for the job holds the folder's mutex
  (`FolderIsLocked`), so the two exclude each other; an item that is being
  served has a run (`ActiveIsServed`). From it: no item is stranded in a list
  whose first item called `Execute`, a job is destroyed idle, runs in sequence.
* **TimedJobs.** `OnePlace` counts with a sum; `TimedInv` says it place by place:
  a job that is in one is in no other (`HasOnePlace`), the count is 0 exactly
  when it is in none, and the state is inactive then (`IsCounted`). A thread in
  `DoWork` is the only one of its job (`WorkInv`), and what the dispatcher has
  still to visit is in `mTimedQueue` (`VisitsAreTimed`). `LateIsLast`: a job that
  ran after it was cancelled is past the pool and `mTimedQueue` until it is
  removed or restored. `QuietIsCovered` extends `NoStaleSleep` to the scan before
  the sleep. From it type correctness and the four safety properties, with the
  stop at any time.
* **Companions.** `CountersMatch` is inductive once each thread is at one of its
  places (`PlacesOK`): three counters that are changed before, inside and after
  the lock, each by its own code, are at every step the cardinality of a set of
  threads. `CompanionMoves` and `WorkerMoves` say what one step of a thread does
  to all such sets, `Stirred` that notifications, the stop and the creation of a
  thread change none of them. `mNumWaiting` is counted in the same way, so that
  type correctness says that no counter underflows.
* **IOPool.** A push that finds a thread which was notified and has not got the
  lock notifies nobody, so `IOTaskHasThread` alone is not inductive:
  `SleepersAreCovered` says that a sleeper next to a queued task has a colleague
  that is to look. `PushersAreAlive` says that only a running task pushes
  once the joins have begun; `StoppedIsAwake` and `JoinedHaveEnded` carry the stop.
* **ParallelFor.** Two inductive invariants, one on top of the other. `ControlInv`
  is about who has the job: `mNumTasksAvailable` counts the entries that are not
  pushed yet, queued or taken and not begun (`AvailableIsCounted`), and
  `mNumTasksInProgress` adds the threads in the list that are not the caller's own
  visit (`ProgressIsCounted`), both cardinalities; so when the caller sees zero under
  the lock nobody has the job (`WaitIsOver`), which gives `ReturnedUnused` and the
  assertions. `ItemsInv` is about the items: the partitions that `Set` computes
  with its divisions follow on each other and have every item (`JobCoversItems`,
  from `NewPartitionsCover`); an item is claimed when its partition's index is past
  it, and then it has run or is in the batch of exactly one thread (`ItemsOnce`); a
  thread that leaves the round has seen each partition exhausted, which stays so
  (`VisitOK`). When the caller returns it went round itself
  (`CallerIsThrough`) and nobody holds a batch, hence `AllItemsRun`.
* **JobGroup.** `JobsAreCounted`: `mNumJobsAvailable` is the jobs that are being
  pushed, queued or run, plus one until `Finalize`. A job that pushes another
  is still counted itself, so the count cannot reach zero in between;
  `FinalizedIsClosed` says that afterwards only the owner's jobs push.
* **Tracing.** `MessagesAreCounted`: `gTotalMessages` is the number of messages that
  were counted and not printed, plus what the holder of the flush lock, and
  `FlushUntilEmpty` after it unlocked, have printed and not subtracted. A count of
  zero therefore means that nothing is on its way, which is `FlushedIsPrinted`.
* **RingBuffer.** The property is inductive with the types; the work is in what each
  call does to the elements behind `At`, in particular `Erase`, which moves one of
  two sides of a range that may be cut by the end of the buffer. Lemmas on
  concatenation carry a call at one end of ring and overflow to their list.
* **IdRangePool.** `Partitioned` says with the ends of the ranges what the property
  says with sets of ids; `JoinKeeps`, `SplitKeeps`, `DropKeeps` and `AddKeeps` say
  that each change of a range keeps it. The range in hand is one of the parts,
  which is why the model takes a step for each round of `Free`. From the same
  invariant: the code's assertions, and `MergedTopStaysHighest`, that the element
  which the code makes longer inside its priority queue is in order there.
* **TemporaryPages.** `Counted`: what a page has given out and not counted back
  is the number of its blocks in use, a cardinality; so a page that looks empty
  is. `OwnerIsAt`, `ReleasersHold` and `MarkedWhenEnding` say what each thread
  knows in the middle of its operation, `PurgeIsToCome` that a pool that can be
  purged has somebody who is about to.

Proofs have a step for every action and below it one for each conjunct it can
disturb. Every invariant and every action property of the passing runs is
proved. Properties that are proved and that no run repeats: type correctness of
the modules named above; `RunOnce`, `NoTaskLeftBehind` and `SleeperIsReachable` of
the queue; `RunsAreSequential` and `AssertionsHold` of `Job`; the five of
`RepeatableIOJob`, of which `files` checks the consequences; `PagesAreCounted`;
`RangeAssertionsHold` and `TopStaysHighest`.

**Only model-checked:** liveness (fairness and ENABLED are out of the prover's
reach): the ends of stops, waits, loops and groups, `DelayedTasks`, whose only
promise is of that kind, and the second half of `ImplementsHandoff`. The runs that
expect a violation have no theorems.

## What is not modelled

In the parts that are modelled: a pool without workers, where the main thread
runs the queues; nested parallel loops and loops that an IO job starts; the
containers of `JobIntermediate`; the clock arithmetic of timed jobs and their
order; `ExecuteLong` and `IOJob` (one flag); memory orders weaker than sequential
consistency (see Modules); failures to create a thread; the growth of the
vectors of companions and IO threads while `StopThreads` walks them; the two
reads of `gSharedScheduler` in `tracing/`, between which a scheduler may end; the
reuse of a purged pool's address; the destruction of a `JobGroup`, which nothing
keeps from coming before `Finalize` has left the queue (nobody in the repository uses
the class, so nobody says when a group goes; the thread in `Signal` is exempt from
`GroupIsComplete`); the backup allocator and block alignment;
parsing of resources and the file calls; the Windows event variant of the
synchronizer. The hazards without a property are listed with their reason in
`PROJECT.json`.

The rest of the library is left out because nothing in it interleaves and a
model would repeat the code: the id pool, the node hierarchy, the database, the
containers, memory pools, tweakables and the reference counts of core start and
stop are data that one thread has at a time, or that one lock covers call by
call; serialization, JSON, strings, fixed point and SIMD are conversions; time,
hardware and debug tools have no state that the program depends on. Lock-free
queues, locks and threads wrap vendored or platform code and appear as what
they promise. `SplittingJob` is unfinished in the source.

## Plan

Done, in this order: `JobQueue` with `TaskHandoff`, `RepeatableIOJob`,
`WorkerPool`, `Job`, `TimedJobs`, `Companions`, `ParallelFor`; then `FileReaders`,
`JobGroup`, `DelayedTasks`, `IOPool`, `TemporaryPages`, `RingBuffer`, `IdRangePool`,
`Tracing`; the proofs about all of them but `DelayedTasks`.

What is left, the most valuable first:

1. `Companions` and `IOPool` in one module, since both are stopped by one
   `StopThreads` that walks their vectors; their theorems are in one module already.
2. A pool without workers: `PushTask` runs into queue 0, which only
   `BlockingWait` and the main thread serve.
3. Abstract specifications to refine: of `Job` (a request is made, served, waited
   for) and of `ParallelFor` (each item is run by one thread), with the steps of
   `ControlInv` and `JobInv` as the mapping's invariants.

Runs are to stay few: a new module shares a run with a module that answers the
same question where the state spaces allow it.
