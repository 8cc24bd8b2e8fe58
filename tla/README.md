# A verification of Voda Scheduler

Voda is a scheduler for elastic deep learning jobs on Kubernetes. A job asks for
between `MinNumProc` and `MaxNumProc` GPUs; the scheduler starts, halts and resizes
MPIJobs whenever something has changed. This directory holds TLA+ modules of its
core, translated from the Go source under `src/`, their TLC configurations, and
theorems that TLAPS proves. `PROJECT.json` maps every definition to its lines.

In this text `S:` is `src/pkg/scheduler/scheduler/scheduler.go`, `P:` is
`src/pkg/placement/placement_manager.go`, `H:` is `src/pkg/service/service/handlers.go`;
other files are in `src/pkg` too.

## 1. The system

### Components, their state and their operations

| Component | State | Operations | Correct when |
|---|---|---|---|
| Training service (`H:`) | none of its own; writes job documents, job info and base job info to MongoDB | create, delete a job: MongoDB first, message second, roll back of a creation | what the user is told is what becomes of the job; no request is half done and forgotten |
| Message queue (`rabbitmq.go`) | one queue of create and delete messages for each GPU type | publish, receive with automatic acknowledgement | a message reaches the scheduler once, in order |
| Scheduler, life of jobs (`S:`) | `ReadyJobsMap`, `DoneJobsMap`, `JobNumGPU`, `Algorithm` | `CreateTrainingJob`, `DeleteTrainingJob`, `updateMPIJob`, `resched`, `constructStatusOnRestart` | memory, MongoDB and the MPIJobs in Kubernetes agree; never more GPUs than there are; nothing lost in a crash |
| Scheduler, rescheduling loop (`S:263-364`) | `reschedCh`, `SchedulerLock`, `lastResched`, `reschedBlockedUntil` | `TriggerResched`, `Run`, `resched` | every change is followed by an allocation that has seen it; nobody waits for ever |
| Scheduler, node accounting (`S:689-747`) | `TotalGPUs` | `discoverGPUs`, node informer handlers | `TotalGPUs` is the sum over the nodes once the informer has told everything, and an allocation follows |
| Scheduler, time metrics (`S:757-813`) | durations and priorities of jobs | `updateTimeMetrics` | no time is lost; Tiresias demotes for GPU time that was used, and no job starves |
| Resource allocator (`resource_allocator.go`) | none | one HTTP request: job info from MongoDB, algorithm by name, `Schedule` | it answers every request of the scheduler |
| Scheduling algorithms (`src/pkg/algorithm`) | none beyond a call | `Schedule` of eight algorithms, `validateResult` | valid allocations, in the order each algorithm promises; loops end |
| Placement manager (`P:`) | `nodeStates`, `jobStates`, `podNodeName` | `Place`, pod and node handlers, `constructStatusOnRestart` | the three tables agree, nodes are not overcommitted, pods run where the table says |
| Metrics collector (Python), command line, Prometheus metrics, charts | - | - | not modelled, see section 8 |

### How they interact

    user -> training service -> MongoDB (job documents)
                             -> RabbitMQ -> readMsgs() ----.
    MPIJob operator -> informer -> updateMPIJob() ---------+-> maps, under SchedulerLock
    nodes -> informer -> addNode(), deleteNode() ----------'        |
    updateTimeMetrics(), every tick ----------------> TriggerResched() -> reschedCh -> Run()
    Run() -> resched(): allocator -> compareResults() -> create/update/delete MPIJobs
                        -> unlock -> PlacementManager.Place() -> tolerations, pod deletions

- *Locks.* Every handler holds `SchedulerLock` from its first line to its last. `resched()`
  holds it from the request to the allocator to the last Kubernetes call, releases it,
  and holds it for reading in `Place()`. `placementLock` guards the tables of the
  placement manager; its handlers and `Place()` take it.
- *Channel.* `TriggerResched` sends on a bounded channel, most callers with
  `SchedulerLock` held. Only `Run()` receives.
- *What survives a crash.* Job documents, messages not delivered yet, MPIJobs, pods
  with their tolerations. Everything else is rebuilt by the two functions named
  `constructStatusOnRestart`.

### What is hard

- *Concurrency.* Finish notices wait for the lock while `resched()` deletes and creates
  MPIJobs of the same names; events are stamped while `Run()` sets `lastResched`; pods
  are created while `Place()` has not updated its table; requests of users look for a
  record by name and act on what they have found while others do the same.
- *Partial failure.* Every MongoDB, RabbitMQ, Kubernetes or allocator call may fail,
  some after having taken effect; most failures are logged and not repeated.
- *Crash.* Any step may be the last: between MongoDB and the queue, between two changes
  of one allocation, between the list of the restart and that of the informer.
- *Ordering.* GPUs have to be taken before they are given; stale events have to be told
  from fresh ones by time stamps; notices about nodes come after a count that has
  seen their changes.
- *Boundaries.* Minimum, portion and maximum of a job that coincide or do not fit; a
  counter that is compared with zero and can step over it; a clock of twelve hours.

The hazards, each at its line, with the properties that watch it, are in
`PROJECT.json` under `hazards`.

## 2. Modules

| Module | What it models |
|---|---|
| `Maps` | Go maps as functions on the keys present: put, delete, zero value of a missing key, sum over some keys |
| `Scheduler` | life of the jobs of one scheduler with everything around it |
| `JobLifecycle` | abstract: what Voda promises about a job |
| `SchedulerRefinement` | the mapping under which `Scheduler` implements `JobLifecycle` |
| `ReschedLoop` | channel, lock, time stamps and rate limit of the rescheduling loop |
| `ClusterNodes` | `TotalGPUs`, the node handlers and the informer that calls them |
| `TiresiasPriority` | `updateTimeMetrics`, the two queues of Tiresias and the starts and halts between two ticks |
| `TrainingService` | many requests of users at a time, with failures and roll backs |
| `Algorithms` | one request to the allocator, and the algorithm that serves it |
| `Placement` | the placement manager with the pods and nodes it watches |
| `MC...` | instances of the module of that name for TLC |
| `MapsProofs` | lemmas about maps, sums over sets and sequences, which the other proofs cite |
| `SchedulerProofs` | theorems about `Scheduler`: maps, life of jobs, durability, notices, GPUs, capacity |
| `ReschedLoopProofs`, `ClusterNodesProofs`, `TiresiasProofs`, `TrainingServiceProofs`, `AlgorithmsProofs`, `PlacementProofs` | theorems about the module of that name (`TiresiasProofs`: about `TiresiasPriority`) |

How they fit together: `Scheduler` takes the answer of the allocator from
`ValidAllocations`, the set that `validateResult` lets pass, in which jobs of a priority
without a queue (`Unqueued`) may have no entry; `Algorithms` shows which
requests are answered, whatever their numbers are, and that an answer is in that set.
(`Scheduler` has only jobs with `1 <= MinProc <= MaxProc`: the answers that pass are the same
for a minimum of 0 or less, and a job whose minimum exceeds its maximum never gets a GPU.) `Scheduler` reduces the
channel to the set of pending kinds of events, and `ReschedLoop` reduces the jobs to a
count of changes, so the two look at the same loop from its two sides: what is
dropped when `lastResched` is set (`ReschedEnd`, `Kept`) is what `SetLastResched` and
`Aged` make stale. `Placement` begins where `Scheduler` has the action `Unlock`, and its
environment is the scheduler that resizes jobs.

Three modules take one cause of rescheduling apart that `Scheduler` has as an event or
a constant. `ClusterNodes` is about the number that `Scheduler` has as `TotalGpus`, and
reduces the rest of the scheduler to the number it last planned with.
`TiresiasPriority` is about the events that a tick sends; it has the jobs of `Scheduler`
without failing calls, and allocations that are applied at once. `TrainingService` has
the steps of a request that `Scheduler` joins into `InsertMetadata`, `Publish` and
`RollBack`, for many requests at a time, and reduces the schedulers to what they take from
their queues. A composition of all of them in one state machine would be far beyond
TLC; each pair shares only the values named here.

### Scheduler

Actions and code: `InsertMetadata`, `RemoveMetadata`, `Publish` and `RollBack` are the two
halves of the requests in `H:`, which may end after the first (`unpublished`: the
publication fails and so does the roll back, or the service dies); `ReadMsg` is a message in `readMsgs` with
`CreateTrainingJob` or `DeleteTrainingJob`; `UpdateMPIJob` is `updateMPIJob` to its end
in `handleJobDoneInternal`; `MPIJobUpdated` is the operator with the informer;
`Resched`, `HaltTrainingJob`, `StartTrainingJob`, `ScaleTrainingJob` and `Unlock` are
`resched()` with one step for each change that `applySchedulerResults` applies;
`ReschedFails` is its early return; `ReschedEnd` is the line of `Run()` that sets
`lastResched`; `Crash`, `FindMetadata`, `ListMPIJobs` and `CacheSynced` are a crash and
the steps of a restart.

`ReadyJobs` and `DoneJobs` keep the `Status` of a job, `JobNumGPU` its GPUs (a key that is
missing differs from 0, as in `compareResults`), `todo` what is left of the groups
`halts`, `scaleIns`, `starts`, `scaleOuts`, which are applied in this order, within a
group in any order because Go iterates over a map. `metadata` is the `Status` of the
document in MongoDB; the code writes `Waiting` on acceptance and a final status at the
end, never `Running`.

A call that may fail has the alternative `Fault(kind)`. An allocation without an entry for
a ready job is a mishap, too (`unlisted`). `mishaps` records what has gone
wrong in a behaviour, and a property names the kinds that excuse it: that list of
excuses is what a run shows, since everything that is not named is then known not to
break the property.

### JobLifecycle and SchedulerRefinement

`JobLifecycle` says what a user relies on and nothing of how it is done: a job is run
only between its acceptance and its end or deletion, the end that is reported is one
that an execution had, ends are final, deleted jobs do not come back. Executions stop
and start at any time. The refinement mapping computes the phase of a job from its
document and the maps (`PhaseOf`), its execution from its MPIJob, and the ends that may
still be reported from the MPIJob and the notices under way (`EndsOf`). Since a crash
takes the memory of all jobs at once, a step of `JobLifecycle` may move any number of
jobs.

Two things turn out to be part of the promise. An acceptance is written to memory and
to MongoDB; when the second fails, a crash takes it back (`Forget`). And a job that was
deleted by its user may be started once more until the scheduler has its message
(phase `deleting`).

### ReschedLoop

A change is a number; `planned` is the last number that an allocation has seen. A time
stamp is `stale`, `fresh` or `future` with respect to `lastResched`: `SetLastResched`
makes every fresh one stale, and leaves a retry (stamped after the rate limit) in the
future. A sender changes, stamps and sends in three steps, because `time.Now()` is
evaluated before the send, and the send blocks; a handler holds the lock during all
three, a ticker (`updateTimeMetrics`) only during the first. `runPc` follows `Run()` and
`resched()` line by line. `gap` collects the changes stamped between the release of the
lock and the assignment of `lastResched`.

### ClusterNodes

`Join`, `Leave` and `Resize` are changes in the cluster; an informer that watches puts a
notice into the queue of the handlers at once, one whose watch is broken learns of them
with its next `List`, as updates, additions and tombstones
(`cache.DeletedFinalStateUnknown`). `AddNode`, `UpdateNode`, `DeleteNode` and
`DeleteUnknown` are the handlers (S:694-747): the first counts the nodes that are there
*now* (`DiscoverGPUs`), the others add and subtract what their notice says. `Start` is the
count in `NewScheduler`. `drift` names why `TotalGpus` may be wrong, in the way that
`mishaps` does in `Scheduler`; a count clears it, unless the informer has yet to report
what was counted (`Ahead`). `Resched` is `resched()` up to the release of the lock,
`FinishResched` the assignment of `lastResched` in `Run()`: the event of a handler that has
run in between (`placing`) is older then and goes nowhere (`ignored`), as in the `gap` of
`ReschedLoop`.

### TiresiasPriority

`UpdateTimeMetrics` is a tick (S:757-813): `Charged` charges the time since the job was
last updated to its present status, `Prioritized` moves the job between queues. Between
two ticks, `Resched` applies an allocation of Tiresias (`Orders`, `Allocations`) with the
resets of `startTrainingJob` and `haltTrainingJob`; a halt of a job that has GPUs but no MPIJob
fails and resets nothing. `types.MaxTime`, the first start of a job that has not started
(`Never`), is not a number of milliseconds in 64 bits: it comes out of MongoDB as the last
time before the year 1 (`Stored`, `LongAgo`), so that Tiresias takes such a job for the one that
started first. A document keeps the metrics of the
submission: `handleJobDoneInternal` is the only one to save others, and a restart goes back
to them. `since` and `used` are history: when a waiting job began to wait, and
the GPU time of an execution. A deletion takes a job out of the maps as its end does, so
`HandleJobCompleted` stands for both. The time that passes between `time.Since` and the
`time.Now` of the next line is none. `GpuDuration` and `TotalGpuDuration` are read by gauges
only and left out.

### TrainingService

Each step is a call to MongoDB or RabbitMQ: `FindBaseInfo`, `InsertBaseInfo`,
`InsertJobInfo`, `InsertMetadata`, `PublishCreation`, and `RemoveInfo`, `RemoveMetadata` of
the roll back for `CreateTrainingJob`; `FindDocument`, `RemoveDocument`, `PublishDeletion` for
`DeleteTrainingJob`. A name is a category and a reading of the clock with the format of
H:86, which has twelve hours. Records are not unique, a removal takes any of the name
(`RemoveOne`), and `by` says whose they are. A call may fail with or
without effect: an insertion that has taken effect and errs is refused and not rolled
back (`leftovers`, which has the documents whose removal fails, too).

`Take` is a scheduler that handles a message: `Find` may fail, and the job is forgotten; the
update of its document may fail, and the job is only in memory (`held` without
`accepted`) until it is done (`UpdateDocument`). `RestartScheduler` is a crash and the reading of the
accepted documents. A message is lost by a `Find` that fails, with a scheduler it was
delivered to (it is acknowledged on delivery), or between publisher and broker, which
confirms nothing (`Publish`). `lost` remembers these messages.

### Algorithms

One step is one iteration of a loop of `Schedule`. The iteration orders come from stable
sorts on the attributes of jobs (`Arranged`); `Sorted` takes the number each job is sorted
by, and the number of the sort before where the code sorts twice. `Basic` hands out the portion,
`Share` the rounds of the two elastic ones, `Compact` and `Award` are ElasticTiresias,
`TakeOne` is AFS-L, `FillRow` and `Backtrack` are the table of FfDLOptimizer, `Validate` is
`validateResult`. Speedups are natural numbers, quotients are compared by
cross-multiplication or with a common multiple, so that the comparisons are those of
the code without rounding. `request.info` says whether the jobs have the `Info` that algorithms
read: as the code is they do not (section 4).

The numbers of workers and the priority of a job are any integers, since nothing validates
them; `WellFormed` names what a reasonable request has. A job of another priority than
0 and 1 is in no queue of Tiresias (`Queued`). An average of no workers is 0/0, which compares with
nothing (`Undefined`): the sort by gain may then have any result (`Rankings`).

### Placement

`nodeStates` and `jobStates` are the two perspectives of `types.go`, `podNodeName` is the
table of pods. `Place` is `releaseSlots` and the beginning of `bestFit`, `BestFit` an
iteration of its loop, `BindNodes` the choice of names for the nodes of the plan,
`updateJobStates` and `updatePodNodeName`, `MigratePod` a deletion of `deletePods`.
The Hungarian algorithm, a library, is modelled by what it returns, some assignment with
the highest score. `pc = "panicked"` is a nil pointer that a handler dereferences: the
process dies and may be restarted. `strays` marks pods that were added before the
table had them, have outlived their place in it, or carry a second toleration, and those
left as they were by a call that failed: the `Get` or `Update` of `AddPod`, the `Delete` of
`MigratePod`, both logged only.

## 3. Runs

Bounds are the CONSTANTS of the configurations; all of them bound the environment, none
the code. A counter at its bound disables an action of the environment, never one of
the program, except that `MaxNotices` limits the notices that have not been handled.

| Run | Instance | Shows |
|---|---|---|
| `scheduler_crash` | 2 jobs of 1-2 GPUs on 3 GPUs, both may have no entry in an allocation, 1 crash, no failing call | `TypeOK`, `MapsConsistent`; `ActiveIsAccounted`: no active MPIJob without a running job that has its GPUs; `WithinCapacity`: at no moment within an allocation do the MPIJobs ask for more than there is |
| `scheduler_failures` | 1 job on 2 GPUs, which may have no entry, 2 crashes, 2 failing calls, 1 notice at a time | `MemoryIsDurable`, `NoRequestForgotten`, `PanicNeedsLateNotice`, `RunningIsBacked`, `StatusMatchesAllocation`; `ImplementsLifecycle`: the refinement |
| `scheduler_liveness` | 1 job, 1 GPU, 1 crash, 1 failing call, fair | `RequestsAreServed`, `FinishedLeavesReady`, `AllocationIsRetried` |
| `resched_loop` | 2 handlers, 1 ticker, channel of 4, 4 changes, 2 failed allocations, up to 1 restored job, fair | `NoCircularWait`, `LostOnlyInGap`, `ChangeIsPlanned`, `TakenIsServed` |
| `cluster_nodes` | 2 nodes of 1 or 2 GPUs, 3 changes, 1 broken watch, 1 failing list, 1 restart, fair | `CountIsExact`: the scheduler knows and has planned with the GPUs there are, or has ignored an event in the gap; `NegativeIsExplained`: no GPU is taken away twice; `CountSettles` |
| `tiresias_priority` | 2 jobs that each need all 2 GPUs, threshold 2, knob 2, priorities 0 and 2, time up to 8, 1 crash | `TimeIsAccounted`, `StarvationIsBounded`, `DemotionIsEarned` |
| `training_service` | 2 creations, 2 deletions, 2 categories, 2 types of GPU, half days of one reading, 2 failing calls, lost messages or restarts | `CreatedIsServed`, `RefusedLeavesNothing`, `DeletedIsDropped` |
| `algorithms` | all requests of `AllRequests`: up to 3 well formed jobs, up to 2 with any of 11 combinations of numbers and, for the Tiresias pair, priorities 0 to 2, with and without `Info`; fair | `PanicsAreExplained`: missing `Info`, a request that is not well formed and the bounds of section 4 are the only reasons; `StarvedByEarlierOnly`, `WorkConserving`, `ThroughputIsMaximal`, `AwardsGainMostOfSmall`, `FirstQueueKeeps`, `Terminates` |
| `placement_fit` | 2 jobs of up to 2 workers, 2 nodes of 2 GPUs | `OvercommittedOnlyIfSplit`, `PlacedAsRequested` |
| `placement_nodes` | 1 job of up to 2 workers, 2 nodes of 1 GPU, 2 node changes, 1 restart, fair | `TypeOK`, `PerspectivesAgree`, `SlotsSumUp`, `PodsFollowTable`, `PlaceEnds` |

Why these sizes. *Scheduler*: two jobs on three GPUs are the smallest contention, in
which one has to be scaled in or halted before the other grows, so all four groups
occur; a crash between any two of their steps is included. The hazards of failing
calls are about one job at a time and need two faults or two crashes in a row (a
roll back after a crash, a notice that outlives its MPIJob), hence one job with more of
each. `JobSymmetry` is sound since both jobs have the same limits and nothing orders
jobs. *ReschedLoop*: a channel of four with four changes is filled by two handlers, a
ticker and the retries; one handler in the channel, one with the lock and a retry is the
largest conflict there is. *ClusterNodes*: every way of being wrong needs one change that
is counted before it is reported, or one count that fails, and a second change after
that; three changes of two nodes include a node that leaves and comes back with
another size while the other joins, and a restart in the middle. *TiresiasPriority*: two
jobs of which only one can run make each other wait, starve and be promoted; with an
interval of 1 a tick may come at every time, or with starts and halts on both sides;
until 8 a job can be demoted, wait twice as long as it ran, and be promoted. Priority 2 is
one that has no queue. *TrainingService*: two creations share a category, a name or
nothing, two deletions race for one document or delete both jobs; two failures let a
publication and its roll back fail; half days of one reading are the shortest in which
two times of one day have the same name and the next day has another. *Algorithms*: three jobs make a first, a later and a
last one, with equal and different keys, and totals go from 0 to beyond the sum of the
maximums. Two jobs of any kind (`AnyRequests`) meet each known panic: a minimum that is the
maximum or more than one GPU, no GPU, no `Info`, numbers that are 0, negative or out of
order, a priority without a queue. *Placement*: two nodes of one GPU split a job of two; two nodes of two GPUs
hold two jobs in every way that needs no split.

`CHECK_DEADLOCK FALSE` is set everywhere: the environment is bounded, a request to
the allocator ends, and the scheduler may wait for events that do not come. Where
waiting for ever would be an error, a property says so (`NoCircularWait`,
`TakenIsServed`, `PlaceEnds`, `Terminates`).

A definition whose comment begins with *Mutant* is a variant of the definition after it
with a plausible bug. `PROJECT.json` lists for each property the mutant that violates
it: it shows that the property depends on that line of the code.

### Runs that find a violation

Each checks what a comment, a document or an assertion of the repository says, and TLC
finds a behaviour of the code that contradicts it.

| Run | What happens |
|---|---|
| `status_after_restart` | `constructStatusOnRestart` (S:1042-1072) enters only jobs with an active MPIJob into `JobNumGPU`, and `compareResults` loops over the old result. A job that waits at a restart and is then allocated GPUs is in no group: it holds GPUs and is never started, against `types.go:38`. It recovers only when its allocation changes again. |
| `placement_hang` | The last part of a split job is placed with the workers of the whole job (P:479), `totalClusterSlots` becomes negative without being 0, and the loop (P:452) goes on with no free slot, both locks held. |

## 4. Other disagreements met while modelling

These follow from the same modules and shaped their properties and instances.

- *Late notice* (S:619). `updateMPIJob` goes by job name. A notice that waits for the lock
  while its MPIJob is deleted and created again makes the job done; the notice of the new
  MPIJob, with another result, then finds it in `DoneJobsMap` and panics (S:635, S:663).
  `PanicNeedsLateNotice` says that this is the only way.
- *Finished after a restart* (S:1004-1008). An MPIJob that finishes after the list of
  `constructStatusOnRestart` and before that of the informer is an addition, which nobody
  handles: the job stays Running with its GPUs. `FinishedLeavesReady` excuses exactly
  this (mishap `missed`); the code has a TODO to verify the concern.
- *Full channel* (S:264). A handler that sends on the full channel holds the lock that
  `resched()` waits for. The real capacity is 100, and `NoCircularWait` shows that it
  takes as many changes.
- *Ignored event* (S:309). `lastResched` is set after `resched()` has released the lock. An
  event stamped in between is ignored although no allocation has seen its change, against
  the comment at S:313; the change waits for the next event. `LostOnlyInGap` shows that
  there is no other window.
- *Status code* (S:423). The error body of the allocator is read as an empty allocation,
  which halts every job (mishap `unlisted` of `StatusMatchesAllocation`).
- *Missing info.* `getJobsInfo` (`resource_allocator.go:134`) assigns `Info` to the loop variable,
  a copy, so the jobs do not get what the comment at `:113` says, and an algorithm that
  reads it dereferences nil: it is the first excuse of `PanicsAreExplained`, and what else the
  properties of `Algorithms` say of the algorithms that read it is about requests that have it.
- *Bounds of the algorithms.* In ElasticFIFO a job whose minimum did not fit is marked as
  satisfied, but the rounds (`elastic_fifo.go:59`) look at the maximum first and give it
  a GPU, less than the minimum that `validateResult` (`utils.go:32`) insists on. ElasticSRJF does not see that a minimum is already the
  maximum (`elastic_srjf.go:56`), nor does ElasticTiresias after a compaction (`:137`);
  AFS-L (`afsl.go:49`) and FfDLOptimizer (`ffdl_optimizer.go:93`) do not know a minimum.
  Each may end in the panic of `validateResult`. FfDLOptimizer without GPUs panics too
  (`:109`). `BoundsOverlooked` has all of them, and `PanicsHaveReasons` shows that a well formed
  request that has its `Info` panics for no other reason.
- *Numbers of users.* `NewTrainingJob` takes the numbers of workers and the priority as they are
  written, and 0 for those that are missing (`trainingjob.go:112` has a TODO). They can make an
  algorithm give negative numbers of GPUs, or more than there are, and panic. With a
  minimum of 0 ElasticTiresias may never end: the job gets its minimum, nothing, with the
  gain of a first worker, and so again and again (`elastic_tiresias.go:136`); hence the
  hypothesis of `Terminates`.
- *Negative totals.* `TotalGPUs` can become negative (`NegativeIsExplained` says how), and
  the allocator panics for a request with less than no GPUs, since an allocation of
  nothing exceeds it.
- *Node accounting.* A notice about a change that a count has already seen is accounted for
  again (S:701, `ahead`); a failing list leaves 0 and triggers nothing (S:702,
  `uncounted`); a capacity that changes under its UID is ignored by `updateNode` and taken
  away with its new value (S:724, `resized`); a tombstone is not a node (S:736, `missed`); a
  node that left before the informer saw it stays counted (`unseen`). `CountIsExact` says
  that there is nothing else, and that the next count heals all but `ahead`. An event that
  falls into the gap of *Ignored event* leaves the allocation with the old number until the
  next event (`ignored`).
- *Promotion.* GPU time is forgotten only at a start, so a job that was promoted while it
  waited is demoted again at the next tick (S:790), and a running job that once
  waited long changes its priority at every tick, against `tiresias.go:30`. Each change
  triggers rescheduling. Hence `StarvationIsBounded` speaks of the first queue once
  reached, not of staying there.
- *Priorities beyond the queues.* `JOB_PRIORITY` is not checked. A job with priority 2 or more
  is in no queue and gets no entry in Tiresias' result, and `compareResults` overlooks it when
  it is given GPUs later (S:454): it waits with them (mishap `unlisted`), until its
  allocation changes. The job is promoted at the next tick if it has never run, and is
  held up longer only after a restart, in which its MPIJob may have run.
- *Never, long ago.* `FirstStartTime` of a new job is `types.MaxTime`, whose milliseconds overflow
  in MongoDB: the scheduler reads a time before the year 1, and Tiresias (`tiresias.go:71`)
  puts a job that has never started before all others of its queue, not behind them.
- *Half done requests.* An `Insert` of metadata that errs after it has taken effect (H:112) is
  not rolled back, and neither is one whose `Remove` fails (H:129, logged only) or after
  which the service dies: a submitted document stays that no message is about
  (`leftovers`, mishap `unpublished`). A message is gone when `Find` fails for it (S:862) or
  the scheduler dies with it (`lost`).
- *Charged at once.* Time in which a document waited for its acceptance, or the scheduler was
  down, is charged at the next tick to what the job does then (S:771): a job can be demoted
  for GPU time it has not used (`late` in `DemotionIsEarned`).
- *Names.* A name ends with a time on a clock of twelve hours (H:86): two jobs of a category
  that are created twelve hours apart, or in the same second, have the same name and
  share their records and MPIJob. All properties of `TrainingService` excuse such jobs
  (`Shared`).
- *Base job info.* Two first jobs of a category may both find none and insert it (H:188).
  The metrics collector updates only the record of a job itself, so new jobs inherit the
  linear speedup of the base for ever. `DeleteTrainingJob` leaves the job info behind.
- *`JOB_NAME`.* `setEnvJobName` (H:170) appends to a copy of the slice: a specification without
  the variable does not get it.
- *Command line.* The loop of `voda delete` (`cmd/cmd/cmd.go`) sends the first argument each
  time, unquoted, where the handler decodes a JSON string.
- *Leftover GPUs* of ElasticTiresias (`:109`): running jobs whose minimum exceeds the free
  GPUs are dropped although they need only one more, against the comment at `:117`;
  hence the `OfSmall` in `AwardsGainMostOfSmall`.
- *Placement.* A job that was split can overcommit a node (P:479 against `types.go:48`);
  `bindNodes` ignores the sizes of nodes (P:510); handlers dereference the state of a
  node that has been removed (P:191, P:370); `deleteNode` changes a copy (P:297 against
  `types.go:26`, hence `changes = 0` in `SlotsSumUp`); a pod added before the table has
  it never gets a toleration (P:198), and one that outlives its place is not migrated
  (P:590), against `doc/design/placement-management.md:29` and `:31`, hence `strays`. A
  restart adds every pod again (P:664): a pod whose job has moved in the meantime gets a
  second toleration, and if the scheduler dies before `deletePods` reaches it, the next
  restart reads only the first and leaves the pod with both. A failing update (P:234) or
  deletion (P:626) of a pod is only logged, and leaves it without a toleration or with that
  of its old node. A node that leaves can take
  the other part of a split job with it, and a restart counts only the pods that are
  there: what is left of the job is then on one node only and may still exceed it, hence
  `changes = 0` and `restarts = 0` in `OvercommittedOnlyIfSplit`.

## 5. Fairness

- `Scheduler`: weak fairness of `ReschedStep`, `Restart` and `Publish`, steps of goroutines
  that nothing disables for good and of a process that Kubernetes restarts. Strong fairness
  of `ReadMsg` and `UpdateMPIJob`: both need `SchedulerLock`, which `resched()` takes again
  and again; Go's `RWMutex` hands it to a waiting writer, so a handler that is enabled
  again and again gets it. No fairness for the environment: users, MPIJobs and
  crashes may stop.
- `ReschedLoop`: weak fairness of the stamps and sends of each sender (once it has the lock,
  only room in the channel can delay it), strong fairness of `RunStep` for the same
  reason as above, weak fairness of the clock. A send that is starved by others cannot
  happen within the bound of changes.
- `ClusterNodes`: weak fairness of `Handlers`, `List`, `Resched`, `FinishResched` and `Start`: an
  informer calls its handlers one after the other and lists again when a watch breaks, `Run()`
  receives events and returns from `resched()`, Kubernetes restarts a pod. None for the nodes, which may stop changing.
- `TiresiasPriority` and `TrainingService` are checked for safety only. That a tick comes
  in time is a guard of time itself (`Advance`), as in specifications of real time.
- `Algorithms`: one goroutine that runs. `Placement`: `Place()` is a call in the goroutine
  of `Run()`; its handlers are not assumed to run.

## 6. Proofs

All theorems hold for any sets of jobs, senders, nodes and requests, any limits and any
bounds, from the assumptions that the modules declare on their constants. Two of those about
`Algorithms` have a hypothesis on the speedups besides, given below. Each follows the same line:
`Init` implies an inductive invariant, every disjunct of `Next` preserves it (a lemma per
action, or for the actions that leave alone what it is about), it implies the property,
and temporal logic concludes.

| Theorem | Property | Inductive invariant |
|---|---|---|
| `TypeCorrect` | `Scheduler.TypeOK` | itself |
| `MapsAlwaysConsistent` | `MapsConsistent` | `MapsInv` |
| `RunningAlwaysBacked` | `RunningIsBacked` | `BackedInv` |
| `LifecycleImplemented` | `ImplementsLifecycle` | `LifeInv`, then each step is one of `JobLifecycle` |
| `CrashLosesNoJob` | `MemoryIsDurable` | `DurableInv` |
| `RequestsAreRemembered` | `NoRequestForgotten` | `DurableInv` |
| `PanicsOnlyLate` | `PanicNeedsLateNotice` | `PanicInv` |
| `NoGpuLeaks` | `ActiveIsAccounted` | `AccountInv` |
| `StatusAgrees` | `StatusMatchesAllocation` | `StatusInv` |
| `CapacityIsKept` | `WithinCapacity` | `CapacityInv` |
| `WakeUpsAreKept` | `ReschedLoop.LostOnlyInGap` | `LoopInv` |
| `NobodyIsLockedIn` | `ReschedLoop.NoCircularWait` | `LoopInv` |
| `NodeTypesCorrect` | `ClusterNodes.TypeOK` | itself |
| `CountStaysExact` | `ClusterNodes.CountIsExact` | `CountInv` |
| `NegativeCountsExplained` | `ClusterNodes.NegativeIsExplained` | `CountInv` |
| `NoTimeIsLost` | `TiresiasPriority.TimeIsAccounted` | `PriorityInv` |
| `NobodyStarves` | `TiresiasPriority.StarvationIsBounded` | `PriorityInv` |
| `DemotionsAreEarned` | `TiresiasPriority.DemotionIsEarned` | `PriorityInv`, `GpuInv` |
| `AllocatesWithinTotal` | `Algorithms.TypeOK` | `RoomInv` |
| `StarvedByEarlier` | `Algorithms.StarvedByEarlierOnly` | `RoomInv`, `Waiting` |
| `ConservesWork` | `Algorithms.WorkConserving` | `RoomInv`, `Content`, `Watched` |
| `FirstQueueKeepsItsGPUs` | `Algorithms.FirstQueueKeeps` | `RoomInv` |
| `PanicsHaveReasons` | `Algorithms.PanicsAreExplained` | `RoomInv`, `Content`, `Watched`, `Solvable`, `Bounded` |
| `OptimizesThroughput` | `Algorithms.ThroughputIsMaximal` | `RoomInv`, `Tabulated`, `Traced` |
| `AwardsWhereMostGained` | `Algorithms.AwardsGainMostOfSmall` | `RoomInv`, `Efficient` |
| `CreationsAreServed` | `TrainingService.CreatedIsServed` | `ServiceInv` |
| `RefusalsLeaveNothing` | `TrainingService.RefusedLeavesNothing` | `ServiceInv` |
| `DeletionsAreDelivered` | `TrainingService.DeletedIsDropped` | `ServiceInv` |
| `PlacementTypes` | `Placement.TypeOK` | `NodesInv` |
| `PlacementPerspectives` | `Placement.PerspectivesAgree` | `NodesInv` |
| `ListsSumUp` | `Placement.SlotsSumUp` | `NodesInv` |
| `PlacesAllWorkers` | `Placement.PlacedAsRequested` | `NodesInv` |
| `OvercommitsOnlyIfSplit` | `Placement.OvercommittedOnlyIfSplit` | `NodesInv` |
| `PodsTolerateTheirNode` | `Placement.PodsFollowTable` | `NodesInv`, `Tolerations` |

- `MapsInv`. The maps are disjoint and nested, and the changes to apply are about ready
  jobs, so `ReadyJobsMap[job]` in `applySchedulerResults` is never nil. That a change to
  apply stays about a ready job needs that no handler runs while changes are pending
  (`OnlyWhenApplying`), and that a job which is started or resized has an allocation needs
  `StartsAllocated`. A restart enters jobs into `ReadyJobs` before `JobNumGPU` is rebuilt,
  so `OnlyWhenApplying` also says that a scheduler which is not up has allocated nothing.
- `BackedInv`. A restart copies the statuses of MongoDB before it looks at MPIJobs, so the
  claim needs that MongoDB never says `Running` (`NeverSavedRunning`).
- `LifeInv`. That a message never makes a done or a deleted job ready again needs that a
  deletion is published after the document is gone (`DeletedFirst`) and that the
  scheduler knows the jobs that MongoDB has as done (`DoneIsKnown`), which a restart
  provides. With it every action is shown to move each job as `JobLifecycle` allows
  (`MovesOn`), and to execute it as it allows (`ExecutesOn`).
- `DurableInv` extends `LifeInv`. That a creation may be rolled back without trace needs that
  nobody has seen it (`Unseen`).
- `PanicInv` extends `LifeInv`. As long as no notice is late, all that is known of the end
  of a job says the same (`EndsAgree`), and agrees with the status of a job that is done
  (`DoneEnds`).
- `AccountInv` extends `PanicInv`, because the notice of a job's end must not take the
  allocation of an MPIJob that was created since. While changes are pending, an active
  MPIJob has its allocation or is in one of the groups that will change it (`Accounted`),
  and what is to be started or resized gets at least one GPU (`Positive`). While a restart
  reads, the MPIJob has a ready job, and its replicas become the allocation.
- `StatusInv` extends `DurableInv` and `BackedInv`. As long as none of its mishaps has
  happened (an allocation without an entry is one), allocations and ready jobs have the same keys, a job still to be halted is
  `Running` without GPUs and a job still to be started is `Waiting` with some (`Matched`).
  That every change then takes effect needs that a running job has an MPIJob (`Backed`) and
  a waiting one has none; the latter holds when a job is accepted because a creation is
  delivered once, and nothing of its job exists until then (`Untouched`).
- `CapacityInv` extends `AccountInv`. Both the MPIJobs and the allocation fit the cluster while
  nothing has gone wrong that `WithinCapacity` excuses; an MPIJob that is to be scaled in has
  more than its allocation, one to be scaled out less (`Directed`). An MPIJob is created or
  grown only when no halt and no scaling in is left to apply: then no MPIJob has more than
  its allocation, and their sum, with the new one, is at most that of the allocation.
- `LoopInv`. Each event in the channel, in the hand of a sender, taken by `Run()` or owed by
  a restart is due to a change (`EventsOfChanges`), since a retry replaces the event it
  answers: so the channel cannot be full before there have been as many changes as it
  holds, and who holds the lock gets out. `NoneLost` follows a change from the lock to
  `lastResched`.
- `CountInv`. What the handlers will make of `TotalGPUs` is foreseen from the notices in
  the queue (`IsForecast`): a number for each prefix of it. A forecast without additions
  ends at the GPUs of the nodes the informer has seen, and none of its numbers is
  negative, unless something is amiss (`Foreseen`); an addition makes what comes before it
  irrelevant, since `addNode` counts anew. That the informer catches up after a watch
  breaks, in any order of the nodes that its list returns, needs that nodes which come
  back have another UID and nothing else has changed under one (`Synced`). That a change of the
  count is planned needs that the last rescheduling has ignored nothing; while it is going on,
  nothing can have been ignored yet.
- `PriorityInv`. The waiting time that is charged covers the time since the job began to
  wait (`WaitingIsCharged`), and a job that was waiting at the last tick did not starve
  then (`NotStarved`); the distance to the next tick is bounded by `Clock`.
- `GpuInv`, on top of it. The GPU time of a job that is charged already, with that which the
  next tick will charge, is at most what it has used and one interval on all its GPUs
  (`Covered`), unless its document lay about (`late`). The second part is only as long as
  an interval if every tick finds the job Running or Waiting as it is, hence
  `RunsOnItsGpus` and `DocumentsAreAccepted`: a running job has its MPIJob and all its GPUs,
  no document says Running, and what the scheduler knows has been accepted.
- `RoomInv`, like the invariants of `Algorithms` after it, is about requests that are well formed
  (`Good`); of others the theorems say what the properties say. Which loop runs belongs to the algorithm (`Phases`). The jobs that the first loop has yet
  to visit are the last of the order and have nothing (`InOrder`); it gives each its portion
  or nothing (`Portions`), so a job that gets its portion gains no less than it had, and what
  is free never becomes negative: a job is given only what is left. Sorting permutes, hence
  no job is in a queue twice (`Once`), and FfDLOptimizer goes back over jobs that have
  nothing yet (`Chosen`).
- `Waiting`. A job that the first loop leaves without does not fit beside the portions of those
  before it that have some. Rounds and awards only add to what the others have.
- `Content` and `Watched`. A job that is called satisfied has its maximum, or less than its
  minimum even with all that is free; AFS-L has every job below its maximum in its queue.
- `Bounded` and `Solvable` say that no allocation ever is outside of its limits and that
  FfDLOptimizer's table has a solution for as many GPUs as jobs. They hold for every request
  that has none of the reasons which `PanicsAreExplained` names, that is a well formed one that has
  its `Info` where it is read and no bound that its algorithm overlooks (`KeptBounds`: a minimum
  of one GPU for ElasticFIFO, ElasticSRJF, AFS-L and FfDLOptimizer, a minimum below the maximum for
  ElasticSRJF and ElasticTiresias, and at least one GPU for FfDLOptimizer). No request is left out:
  whatever panics has one of the reasons. (A total below 0, *Negative totals*, is no
  request of the module.)
- `Tabulated`. Row j of the table bounds the throughput of every allocation to the first j
  jobs from above, and is far below zero where there are fewer GPUs than jobs. A row with
  one more job takes the best of what is left for that job (`BestRow`). The hypothesis
  `Modest`: the speedups of all jobs add up to less than 10000, the code's mark of a
  missing solution, which otherwise could be taken for one.
- `Traced`. On the way back, what the last jobs have been given and what the table has for the
  others make up the optimum, since `SOL` is a number of GPUs that attains its entry.
- `Efficient`. While GPUs are free, the loop of gains sees every job that can use a single one;
  and no such job would gain more from its next GPU than an awarded one from its last. An
  award goes to the greatest gain (`SortedHead`) and cannot raise another, by the
  hypothesis `Concave`: no speedup grows faster with another worker, up to the maximum. The
  speedups of run `algorithms` are of that kind; estimates of the metrics
  collector need not be.
- `ServiceInv`. Documents have the name and the type of the request that inserted them
  (`OwnDocuments`), so that a removal by name takes the one document of a job that shares
  its name with nobody; messages and deletions are about jobs whose creation was confirmed
  (`Known`). Each of the three promises is then stated from the step on that establishes it
  (`Served`, `Refused`, `Dropped`). That a restart does not bring back a job that was refused
  needs that a document is accepted only after its message was published (`Taken`).
- `NodesInv` has a part about the plan of `bestFit` and one about the tables. While nothing has
  changed, the requests fit the nodes the manager knows (`Known`). The slots that
  `bestFit` counts are those that are free on the plan (`Room`), and the first job that asks is only on
  nodes that it has filled (`Parts`): so what is bound to a node is not bound to it twice,
  and the free slots of a node are what its workers leave, unless the loop has gone
  astray and never ends (`Booked`, `Stuck`). As long as no job is split, no node lacks slots,
  there are as many as are still asked for (`Open`), and a job that is done has all its
  workers on one node (`Fit`). `BindNodes` then makes the two perspectives of one
  assignment of the plan to names (`Perspectives`, `Sums`), whatever the Hungarian algorithm
  returns, since it is a permutation of the nodes.
- `Tolerations` follows a pod that is no stray: it waits for its addition without toleration, or
  tolerates the node of the table, or is about to be deleted for it (`Tolerates`). Calls
  that fail make strays.

`MapsProofs` has what these proofs know of sums. The sum over a set is a fold of the community
modules, and what a fold computes is proved there by removing one element at a time.
Where an induction would be used, a proof takes the smallest counterexample of a
finite set or of a set of numbers and shows that there is a smaller one.

Type invariants that no run checks are part of inductive invariants (`ReschedLoop`,
`ClusterNodes`, `TiresiasPriority`, `TrainingService`).

Only model-checked: liveness (`RequestsAreServed`, `FinishedLeavesReady`, `AllocationIsRetried`,
`ChangeIsPlanned`, `TakenIsServed`, `CountSettles`, `PlaceEnds`, `Terminates`), which needs
fairness and ENABLED and is out of TLAPS's reach here. Every safety property that a
passing run checks is proved.

## 7. Plan

Done: all modules of section 2, and the theorems of section 6. What could follow:

1. An abstract mailbox (every change is seen by a later allocation) that `ReschedLoop` is shown
   to implement outside the gap.
2. `ClusterNodes` composed with `Scheduler`, whose `TotalGpus` would be a variable: allocations
   made with a total that nodes have since left.

## 8. Not modelled

- *Metrics collector* (`src/python`): a batch job that writes estimates to MongoDB;
  `Algorithms` takes the numbers as arbitrary.
- *Job specifications* (`handlers.go`, `trainingjob.go`): conversions without shared state,
  except for what they do to names and priorities.
- *Command line, Prometheus metrics, Helm charts, scripts, examples*: no state the scheduler reads.
- *Launcher pods* of the placement manager, which tolerate every node.
- *`addOrUpdateDummyAnnotationForLauncher`*: touches an annotation and no state of the program.
- *Data races*: `configureAlgorithm` and `configureRateLimit` write without the lock. The model
  lets the algorithm change at any step; a half written string is not modelled.
- *Connections* to RabbitMQ and MongoDB that break and are not opened again: a publication or
  call that fails is modelled, the channel that a consumer has lost is not.

## 9. Running

    tlc -config scheduler_crash.cfg MCScheduler
    tlc -config cluster_nodes.cfg MCClusterNodes
    tlapm SchedulerProofs.tla

The module of a run is in `PROJECT.json` under `runs`. Every run ends within two or three
minutes on two workers; so does each proof module but `SchedulerProofs`, `AlgorithmsProofs`,
`PlacementProofs` and `TiresiasProofs`, which take longer.
