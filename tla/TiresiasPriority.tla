--------------------------- MODULE TiresiasPriority ---------------------------
(***************************************************************************)
(* Time and priority: updateTimeMetrics (scheduler.go), which charges the  *)
(* time since its last tick to whatever a job is doing now and moves jobs  *)
(* between the two queues of Tiresias, together with what it depends on:   *)
(* documents that may wait long before they are accepted, the allocations  *)
(* of Tiresias (tiresias.go) that start and halt jobs between two ticks,   *)
(* and a restart, after which the metrics are those of the document.       *)
(*                                                                         *)
(* Calls to Kubernetes and MongoDB do not fail here and resched() takes no *)
(* time; module Scheduler has its steps and failures.                      *)
(***************************************************************************)
EXTENDS Integers, Sequences, FiniteSetsExt, SequencesExt, Maps

CONSTANTS
    Jobs,            \* names of training jobs
    NumProc,         \* [Jobs -> Nat], job.Config.NumProc
    TotalGpus,       \* GPUs of the scheduler
    Threshold,       \* TiresiasThresholdsSec[0]
    PromoteKnob,     \* TiresiasPromoteKnob
    UserPriorities,  \* values of JOB_PRIORITY in job specifications
    Interval,        \* the most time between two ticks of a scheduler that runs
    MaxTime,         \* bound on time
    MaxCrashes       \* bound on crashes

ASSUME JobsAssumption == IsFiniteSet(Jobs) /\ NumProc \in [Jobs -> Nat \ {0}]
ASSUME SettingsAssumption ==
    /\ {TotalGpus, Threshold, PromoteKnob, MaxTime, MaxCrashes} \subseteq Nat
    /\ Interval \in Nat \ {0}
    /\ UserPriorities \subseteq Nat

TiresiasQueueNum == 2

VARIABLES
    now,
    (* MongoDB and Kubernetes *)
    documents,     \* the job documents of submitted, accepted and done jobs
    mpijobs,       \* the jobs that have an MPIJob
    (* the scheduler's memory *)
    up,
    ReadyJobs,     \* ReadyJobsMap
    JobNumGPU,
    reschedCh,     \* a rescheduling event is pending
    ticked,        \* the time of the last tick
    (* history *)
    since,         \* when a job began to wait, or was last in the first queue
    used,          \* GPU time of a job since its last start, truly
    late,          \* jobs that were started or restored with time not charged yet
    crashes

vars == <<now, documents, mpijobs, up, ReadyJobs, JobNumGPU, reschedCh, ticked,
          since, used, late, crashes>>

Never   == MaxTime + 1      \* types.MaxTime, the last of all times
LongAgo == -1               \* what comes back for it: its milliseconds overflow, to
                            \* the last one before the year 1

TrainingJob ==
    [Status : {"Submitted", "Waiting", "Running", "Completed"},
     Priority : Nat, SubmitTime : Nat, FirstStartTime : Int, LastUpdateTime : Nat,
     RunningDuration : Nat, WaitingDuration : Nat, TotalDuration : Nat,
     LastRunningDuration : Nat, LastWaitingDuration : Nat, LastGpuDuration : Nat]

TypeOK ==
    /\ {now, ticked, crashes} \subseteq Nat
    /\ IsMap(documents, Jobs, TrainingJob)
    /\ mpijobs \subseteq Jobs
    /\ {up, reschedCh} \subseteq BOOLEAN
    /\ IsMap(ReadyJobs, Jobs, TrainingJob)
    /\ IsMap(JobNumGPU, Jobs, Nat)
    /\ since \in [Jobs -> Nat] /\ used \in [Jobs -> Nat]
    /\ late \subseteq Jobs

Init ==
    /\ now = 0 /\ ticked = 0 /\ crashes = 0
    /\ documents = EmptyMap /\ ReadyJobs = EmptyMap /\ JobNumGPU = EmptyMap
    /\ mpijobs = {}
    /\ up = TRUE /\ reschedCh = FALSE
    /\ since = [j \in Jobs |-> 0] /\ used = [j \in Jobs |-> 0]
    /\ late = {}

-----------------------------------------------------------------------------
(* Around the scheduler.                                                    *)

\* Time passes, from the first submission on.  A scheduler that runs ticks in
\* time.
Advance ==
    /\ now < MaxTime /\ documents # EmptyMap
    /\ up => now < ticked + Interval
    /\ now' = now + 1
    /\ used' = [j \in Jobs |-> IF j \in mpijobs THEN used[j] + NumProc[j] ELSE used[j]]
    /\ UNCHANGED <<documents, mpijobs, up, ReadyJobs, JobNumGPU, reschedCh, ticked,
                   since, late, crashes>>

\* NewTrainingJob, with the priority the user asks for.
NewTrainingJob(priority) ==
    [Status |-> "Submitted", Priority |-> priority, SubmitTime |-> now,
     FirstStartTime |-> Never, LastUpdateTime |-> now,
     RunningDuration |-> 0, WaitingDuration |-> 0, TotalDuration |-> 0,
     LastRunningDuration |-> 0, LastWaitingDuration |-> 0, LastGpuDuration |-> 0]

\* A job as MongoDB has it, in milliseconds since 1970.
Stored(job) == [job EXCEPT !.FirstStartTime = IF @ = Never THEN LongAgo ELSE @]

\* The training service writes the document of a new job.
Submit(j, priority) ==
    /\ j \notin DOMAIN documents
    /\ documents' = Put(documents, j, Stored(NewTrainingJob(priority)))
    /\ UNCHANGED <<now, mpijobs, up, ReadyJobs, JobNumGPU, reschedCh, ticked,
                   since, used, late, crashes>>

\* s.CreateTrainingJob, when its message has been delivered.
CreateTrainingJob(j) ==
    /\ up
    /\ j \in DOMAIN documents /\ documents[j].Status = "Submitted"
    /\ LET job == [documents[j] EXCEPT !.Status = "Waiting"]
       IN documents' = Put(documents, j, job) /\ ReadyJobs' = Put(ReadyJobs, j, job)
    /\ JobNumGPU' = Put(JobNumGPU, j, 0)
    /\ reschedCh' = TRUE
    /\ since' = [since EXCEPT ![j] = now]
    /\ UNCHANGED <<now, mpijobs, up, ticked, used, late, crashes>>

\* handleJobCompleted.  The metrics it saves in the document are not read again.
HandleJobCompleted(j) ==
    /\ up /\ j \in mpijobs
    /\ mpijobs' = mpijobs \ {j}
    /\ documents' = Put(documents, j, [documents[j] EXCEPT !.Status = "Completed"])
    /\ ReadyJobs' = Without(ReadyJobs, {j})
    /\ JobNumGPU' = Without(JobNumGPU, {j})
    /\ reschedCh' = TRUE
    /\ since' = [since EXCEPT ![j] = 0] /\ used' = [used EXCEPT ![j] = 0]
    /\ late' = late \ {j}
    /\ UNCHANGED <<now, up, ticked, crashes>>

Crash ==
    /\ up /\ crashes < MaxCrashes
    /\ crashes' = crashes + 1
    /\ up' = FALSE /\ reschedCh' = FALSE
    /\ ReadyJobs' = EmptyMap /\ JobNumGPU' = EmptyMap
    /\ UNCHANGED <<now, documents, mpijobs, ticked, since, used, late>>

\* constructStatusOnRestart, TriggerResched and the start of a new ticker.  The
\* documents are those of the acceptance: nothing in between has saved them.
Restart ==
    LET accepted == { j \in DOMAIN documents : documents[j].Status \in {"Waiting", "Running"} }
    IN /\ ~up
       /\ up' = TRUE /\ reschedCh' = TRUE /\ ticked' = now
       /\ ReadyJobs' = [j \in accepted |->
                           IF j \in mpijobs THEN [documents[j] EXCEPT !.Status = "Running"]
                                            ELSE documents[j]]
       /\ JobNumGPU' = [j \in mpijobs |-> NumProc[j]]
       /\ since' = [j \in Jobs |-> IF j \in accepted THEN now ELSE 0]
       /\ late' = late \cup accepted
       /\ UNCHANGED <<now, documents, mpijobs, used, crashes>>

-----------------------------------------------------------------------------
(* updateTimeMetrics, for one job.                                          *)

\* The time since the last tick is charged to the present status.
Charged(job, gpus) ==
    LET elapsed == now - job.LastUpdateTime
    IN IF job.Status = "Running"
       THEN [job EXCEPT !.RunningDuration = @ + elapsed,
                        !.TotalDuration = @ + elapsed,
                        !.LastRunningDuration = @ + elapsed,
                        !.LastGpuDuration = @ + elapsed * gpus,
                        !.LastUpdateTime = now]
       ELSE [job EXCEPT !.WaitingDuration = @ + elapsed,
                        !.TotalDuration = @ + elapsed,
                        !.LastWaitingDuration = @ + elapsed,
                        !.LastUpdateTime = now]

\* Mutant: the threshold of the first queue holds in every queue.
CrossesFirst(job) == job.LastGpuDuration > Threshold

\* LastGpuDuration > TiresiasThresholdsSec[Priority]: infinity in the last
\* queue, and 0, of a missing key, for priorities that have no queue.
CrossesThreshold(job) ==
    \/ job.Priority = 0 /\ job.LastGpuDuration > Threshold
    \/ job.Priority >= TiresiasQueueNum /\ job.LastGpuDuration > 0

TiresiasDemotePriority(priority) ==
    IF priority < TiresiasQueueNum - 1 THEN priority + 1 ELSE priority

TiresiasPromotePriority(priority) == 0

\* The job has waited longer than the STARVELIMIT.
Starves(job) ==
    /\ job.LastWaitingDuration >= job.LastRunningDuration * PromoteKnob
    /\ job.Priority > 0

PriorityChanges(job) == CrossesThreshold(job) \/ Starves(job)

\* Tiresias' rules of priority changes.
Prioritized(job) ==
    IF CrossesThreshold(job)
    THEN [job EXCEPT !.Priority = TiresiasDemotePriority(@)]
    ELSE IF Starves(job)
         THEN [job EXCEPT !.Priority = TiresiasPromotePriority(@)]
         ELSE job

\* A tick: a demotion that changes nothing triggers rescheduling like any other.
UpdateTimeMetrics ==
    LET charged == [j \in DOMAIN ReadyJobs |-> Charged(ReadyJobs[j], At(JobNumGPU, j))]
    IN /\ up /\ now > ticked
       /\ ticked' = now
       /\ ReadyJobs' = [j \in DOMAIN ReadyJobs |-> Prioritized(charged[j])]
       /\ reschedCh' = (reschedCh \/ \E j \in DOMAIN charged : PriorityChanges(charged[j]))
       /\ since' = [j \in Jobs |->
                       IF j \in DOMAIN ReadyJobs /\ 0 \in {ReadyJobs[j].Priority, ReadyJobs'[j].Priority}
                       THEN now ELSE since[j]]
       /\ UNCHANGED <<now, documents, mpijobs, up, JobNumGPU, used, late, crashes>>

-----------------------------------------------------------------------------
(* resched() with the algorithm Tiresias.                                   *)

Queued == { j \in DOMAIN ReadyJobs : ReadyJobs[j].Priority < TiresiasQueueNum }

\* Jobs of the first queue come first, then those that started first.  Jobs that
\* have not started yet have come out of MongoDB as if they had long ago: they come
\* before all others, in the order of Go's map iteration, any.
Before(i, j) ==
    \/ ReadyJobs[i].Priority < ReadyJobs[j].Priority
    \/ /\ ReadyJobs[i].Priority = ReadyJobs[j].Priority
       /\ ReadyJobs[i].FirstStartTime < ReadyJobs[j].FirstStartTime

Orders == { order \in SetToSeqs(Queued) :
               \A i, k \in DOMAIN order : i < k => ~Before(order[k], order[i]) }

\* NumProc for a job if so many GPUs are left by those before it, else none; no
\* entry for a job that is in no queue.
Allocations ==
    { result \in [Queued -> 0..TotalGpus] :
        \E order \in Orders : \A i \in DOMAIN order :
            LET free == TotalGpus - MapThenSumSet(LAMBDA k : result[order[k]], 1..(i - 1))
                need == NumProc[order[i]]
            IN result[order[i]] = IF free >= need THEN need ELSE 0 }

\* Mutant: the metrics of the last run are kept.
StartedKept(job) == [job EXCEPT !.Status = "Running"]

\* startTrainingJob
Started(job) ==
    [job EXCEPT !.Status = "Running", !.LastGpuDuration = 0, !.LastRunningDuration = 0,
                !.FirstStartTime = IF job.RunningDuration = 0 THEN now ELSE @]

\* Mutant: the clock of the job starts anew with its waiting time.
HaltedNow(job) ==
    [job EXCEPT !.Status = "Waiting", !.LastWaitingDuration = 0, !.LastUpdateTime = now]

\* haltTrainingJob
Halted(job) == [job EXCEPT !.Status = "Waiting", !.LastWaitingDuration = 0]

\* compareResults and applySchedulerResults look at the jobs of the old result.  A job
\* that has got GPUs without being in it has no MPIJob: to halt it fails, and
\* changes nothing but the allocation.
Resched ==
    /\ up /\ reschedCh
    /\ reschedCh' = FALSE
    /\ \E new \in Allocations :
          LET halts  == { j \in mpijobs \cap DOMAIN JobNumGPU : At(new, j) < JobNumGPU[j] }
              starts == { j \in DOMAIN JobNumGPU : JobNumGPU[j] < At(new, j) }
          IN /\ JobNumGPU' = new
             /\ ReadyJobs' = [j \in DOMAIN ReadyJobs |->
                                 IF j \in halts THEN Halted(ReadyJobs[j])
                                 ELSE IF j \in starts THEN Started(ReadyJobs[j])
                                 ELSE ReadyJobs[j]]
             /\ mpijobs' = (mpijobs \ halts) \cup starts
             /\ since' = [j \in Jobs |-> IF j \in halts THEN now ELSE since[j]]
             /\ used' = [j \in Jobs |-> IF j \in starts THEN 0 ELSE used[j]]
             /\ late' = (late \ starts) \cup
                           { j \in starts : now - ReadyJobs[j].LastUpdateTime > Interval }
    /\ UNCHANGED <<now, documents, up, ticked, crashes>>

-----------------------------------------------------------------------------
Next ==
    \/ Advance
    \/ \E j \in Jobs, priority \in UserPriorities : Submit(j, priority)
    \/ \E j \in Jobs : CreateTrainingJob(j) \/ HandleJobCompleted(j)
    \/ UpdateTimeMetrics
    \/ Resched
    \/ Crash
    \/ Restart

Spec == Init /\ [][Next]_vars

-----------------------------------------------------------------------------
\* No time is lost: what is charged to a job, to its running and its waiting, and
\* what the next tick will charge add up to the time since it was submitted,
\* though documents wait in the queue, jobs are halted and restarted between
\* two ticks, and a restart goes back to the metrics of the acceptance.
TimeIsAccounted ==
    \A j \in DOMAIN ReadyJobs :
        LET job == ReadyJobs[j]
        IN /\ job.TotalDuration = job.RunningDuration + job.WaitingDuration
           /\ job.TotalDuration + (now - job.LastUpdateTime) = now - job.SubmitTime

\* A waiting job is back in the first queue once it has waited PromoteKnob times
\* as long as it last ran, or at the next tick after that; one that has never run
\* at the very next tick, whatever priority its user gave it.  A priority that has
\* no queue, and keeps a job out of every allocation, lasts longer only after a
\* restart.  (A job that is promoted may not stay in the first queue: the GPU time
\* of its last run, for which it was demoted, is forgotten only when it starts,
\* and demotes it again at the next tick.)
StarvationIsBounded ==
    \A j \in DOMAIN ReadyJobs :
        LET job == ReadyJobs[j]
        IN /\ /\ job.Status = "Waiting" /\ job.Priority > 0
              /\ job.Priority < TiresiasQueueNum \/ job.LastGpuDuration = 0
              => now - since[j] <= PromoteKnob * job.LastRunningDuration + Interval
           /\ job.Priority >= TiresiasQueueNum
              => now - since[j] <= Interval \/ crashes > 0

\* A job is demoted for GPU time it has used since its last start, give or take
\* the time between two ticks; only one whose document lay about, before it
\* was accepted or while the scheduler was down, pays for time it did not run.
DemotionIsEarned ==
    [][\A j \in DOMAIN ReadyJobs \cap DOMAIN ReadyJobs' :
          ReadyJobs[j].Priority = 0 /\ ReadyJobs'[j].Priority = 1 =>
              used[j] + NumProc[j] * Interval > Threshold \/ j \in late]_vars
=============================================================================
