----------------------------- MODULE Scheduler -----------------------------
(***************************************************************************)
(* The life of the training jobs of one scheduler of Voda                  *)
(* (src/pkg/scheduler/scheduler/scheduler.go): what the scheduler          *)
(* remembers of its jobs, the MPIJobs it creates, resizes and deletes for  *)
(* them, and everything that happens around it: the training service that  *)
(* writes job metadata and publishes messages, the MPIJob operator that    *)
(* finishes jobs, the informer that reports it late or not at all, calls   *)
(* that fail, and the scheduler's own crashes and restarts.                *)
(*                                                                         *)
(* Rescheduling events and their time stamps are reduced here to the set   *)
(* reschedCh; module ReschedLoop has the channel and the clock.            *)
(***************************************************************************)
EXTENDS Naturals, Sequences, FiniteSets, FiniteSetsExt, SequencesExt, Maps

CONSTANTS
    Jobs,          \* names of training jobs; a name is submitted at most once
    TotalGpus,     \* GPUs of the nodes this scheduler manages
    MinProc,       \* [Jobs -> Nat], job.Config.MinNumProc
    MaxProc,       \* [Jobs -> Nat], job.Config.MaxNumProc
    Unqueued,      \* jobs whose JOB_PRIORITY is that of no queue of Tiresias
    MaxCrashes,    \* bound on crashes of the scheduler
    MaxFaults,     \* bound on failing calls and outages
    MaxNotices     \* bound on undelivered finish notices of one job

ASSUME JobsAssumption == IsFiniteSet(Jobs)
ASSUME GpusAssumption == TotalGpus \in Nat
ASSUME ProcAssumption ==
    /\ MinProc \in [Jobs -> Nat \ {0}]
    /\ MaxProc \in [Jobs -> Nat \ {0}]
    /\ \A j \in Jobs : MinProc[j] <= MaxProc[j]
ASSUME UnqueuedAssumption == Unqueued \subseteq Jobs
ASSUME BoundsAssumption ==
    MaxCrashes \in Nat /\ MaxFaults \in Nat /\ MaxNotices \in Nat

VARIABLES
    (* the scheduler's memory, lost in a crash *)
    ReadyJobs,     \* ReadyJobsMap: the Status of each waiting or running job
    DoneJobs,      \* DoneJobsMap: the Status of each completed or failed job
    JobNumGPU,     \* JobNumGPU: the GPUs allocated to each ready job
    proc,          \* where the scheduler process is, see ProcStates
    todo,          \* changes the resched() in progress has yet to apply
    reschedCh,     \* kinds of rescheduling events that are pending
    Algorithm,     \* is s.Algorithm one the allocator knows?
    (* the cluster, the database and the queue, which survive it *)
    mpijobs,       \* the MPIJob objects in Kubernetes
    updates,       \* finish notices of the informer, not yet handled
    metadata,      \* Status in the job's document in MongoDB
    outbox,        \* messages the training service is about to publish
    queue,         \* messages in RabbitMQ and in the s.msgs channel
    submitted,     \* job names that have been used
    (* history: what the environment did, for bounds and properties *)
    crashes, faults, mishaps

memory  == <<ReadyJobs, DoneJobs, JobNumGPU>>
service == <<outbox, submitted>>
control == <<proc, todo, reschedCh, Algorithm>>
history == <<crashes, faults, mishaps>>
vars == <<memory, control, mpijobs, updates, metadata, service, queue, history>>

ReadyStatus == {"Waiting", "Running"}
DoneStatus  == {"Completed", "Failed"}
MetaStatus  == {"Submitted"} \cup ReadyStatus \cup DoneStatus
FinishPhase == {"Succeeded", "Failed"}
MPIJob      == [replicas : Nat, phase : {"Active"} \cup FinishPhase]
Message     == [verb : {"create", "delete"}, job : Jobs]
Groups      == {"halts", "scaleIns", "starts", "scaleOuts"}

\* down:     no scheduler process (it crashed, or panicked) 
\* found:    constructStatusOnRestart() has read MongoDB, not yet the MPIJobs
\* syncing:  Run() has started readMsgs(), the MPIJob informer is not listing yet
\* idle:     Run() waits in its select, or for the rate limit
\* applying: resched() holds SchedulerLock and applies the new allocation
\* placing:  resched() has released the lock, lastResched is not set yet
\* retrying: as placing, after resched() failed to get an allocation
ProcStates == {"down", "panicked", "found", "syncing", "idle", "applying",
               "placing", "retrying"}

\* What may go wrong around the scheduler.
Mishaps == {"restart",     \* the scheduler was restarted with jobs in MongoDB
            "rejected",    \* a call to the Kubernetes API failed, without effect
            "unanswered",  \* a call failed, after it had taken effect
            "unreachable", \* the allocator could not be reached
            "mongo",       \* an update of MongoDB failed
            "unpublished", \* a document was inserted or removed and the message
                           \* about it never reached the queue
            "lost",        \* auto-acknowledged messages died with the scheduler
            "unlisted",    \* an allocation, or the error of the allocator that was
                           \* read as one, had no entry for a ready job
            "late",        \* an MPIJob was created before the notice that an
                           \* earlier one of the job finished was handled
            "orphan",      \* an MPIJob outlived the metadata of its job
            "missed"}      \* an MPIJob finished between the lists of a restart

NoChanges == [g \in Groups |-> {}]

TypeOK ==
    /\ IsMap(ReadyJobs, Jobs, ReadyStatus)
    /\ IsMap(DoneJobs, Jobs, DoneStatus)
    /\ IsMap(JobNumGPU, Jobs, Nat)
    /\ proc \in ProcStates
    /\ todo \in [Groups -> SUBSET Jobs]
    /\ reschedCh \subseteq {"now", "retry"}
    /\ Algorithm \in {"known", "unknown"}
    /\ IsMap(mpijobs, Jobs, MPIJob)
    /\ updates \in [Jobs -> Seq(FinishPhase)]
    /\ IsMap(metadata, Jobs, MetaStatus)
    /\ outbox \subseteq Message
    /\ queue \in Seq(Message)
    /\ submitted \subseteq Jobs
    /\ crashes \in Nat /\ faults \in Nat
    /\ mishaps \subseteq Mishaps

Init ==
    /\ ReadyJobs = EmptyMap /\ DoneJobs = EmptyMap /\ JobNumGPU = EmptyMap
    /\ proc = "down"
    /\ todo = NoChanges
    /\ reschedCh = {}
    /\ Algorithm = "known"
    /\ mpijobs = EmptyMap
    /\ updates = [j \in Jobs |-> <<>>]
    /\ metadata = EmptyMap
    /\ outbox = {} /\ queue = <<>> /\ submitted = {}
    /\ crashes = 0 /\ faults = 0 /\ mishaps = {}

-----------------------------------------------------------------------------
\* The calls of an action that may fail: at most MaxFaults times in a behaviour.
NoFault == UNCHANGED <<faults, mishaps>>
Fault(kind) ==
    /\ faults < MaxFaults
    /\ faults' = faults + 1
    /\ mishaps' = mishaps \cup {kind}

\* Mutant: resched() releases the lock before it applies its changes.
LockFreeWhileApplying == proc \in {"syncing", "idle", "applying", "placing", "retrying"}

\* A handler that needs SchedulerLock can run: the process is up and resched()
\* does not hold the lock.
LockFree == proc \in {"syncing", "idle", "placing", "retrying"}

TriggerResched == reschedCh' = reschedCh \cup {"now"}

-----------------------------------------------------------------------------
(* The training service: handlers.go.  Each request writes MongoDB first    *)
(* and publishes second.                                                   *)

\* CreateTrainingJob, up to the insertion of the metadata.
InsertMetadata(j) ==
    /\ j \notin submitted
    /\ submitted' = submitted \cup {j}
    /\ metadata' = Put(metadata, j, "Submitted")
    /\ outbox' = outbox \cup {[verb |-> "create", job |-> j]}
    /\ UNCHANGED <<memory, control, mpijobs, updates, queue, history>>

\* DeleteTrainingJob, up to the removal of the metadata.  The user has the
\* name of the job from the reply to its creation.
RemoveMetadata(j) ==
    /\ j \in DOMAIN metadata
    /\ [verb |-> "create", job |-> j] \notin outbox
    /\ metadata' = Without(metadata, {j})
    /\ outbox' = outbox \cup {[verb |-> "delete", job |-> j]}
    /\ UNCHANGED <<memory, control, mpijobs, updates, queue, submitted, history>>

\* Mutant: the document stays.
RollBackForgotten(j) == UNCHANGED metadata

\* The creation could not be published: its document is removed again.
RollBack(j) == metadata' = Without(metadata, {j})

\* PublishToQueue and what follows an error.  Only a creation is rolled back, and
\* the document stays if its removal fails too, or if the training service dies
\* after the insertion.  A deletion is not rolled back.  A publication that errs
\* has no effect: the broker drops a message whose frames are not all there.  One
\* that does not err may have none either: nobody waits for a confirmation.
Publish(m) ==
    /\ m \in outbox
    /\ outbox' = outbox \ {m}
    /\ \/ queue' = Append(queue, m) /\ NoFault /\ UNCHANGED metadata
       \/ /\ m.verb = "create"
          /\ faults < MaxFaults /\ faults' = faults + 1
          /\ RollBack(m.job)
          /\ UNCHANGED <<queue, mishaps>>
       \/ Fault("unpublished") /\ UNCHANGED <<queue, metadata>>
    /\ UNCHANGED <<memory, control, mpijobs, updates, submitted, crashes>>

-----------------------------------------------------------------------------
(* The MPIJob operator and the informer.                                    *)

\* An update of the MPIJob of j: it succeeds or fails, or something of an MPIJob
\* that has finished is written again.  The informer delivers the update to
\* updateMPIJob once it is listing; an MPIJob that is already finished in its
\* first list is an addition, for which no handler is registered.
MPIJobUpdated(j) ==
    /\ j \in DOMAIN mpijobs
    /\ Len(updates[j]) < MaxNotices
    /\ \E phase \in FinishPhase :
          /\ mpijobs[j].phase \in {"Active", phase}
          /\ mpijobs' = [mpijobs EXCEPT ![j].phase = phase]
          /\ updates' = IF proc \in {"idle", "applying", "placing", "retrying"}
                        THEN [updates EXCEPT ![j] = Append(@, phase)]
                        ELSE updates
    /\ mishaps' = IF proc = "syncing" /\ mpijobs[j].phase = "Active"
                  THEN mishaps \cup {"missed"} ELSE mishaps
    /\ UNCHANGED <<memory, control, metadata, service, queue, crashes, faults>>

-----------------------------------------------------------------------------
(* Handlers.  Each holds SchedulerLock from its first line to its last.      *)

JobExists(j) == j \in DOMAIN ReadyJobs \cup DOMAIN DoneJobs

\* Mutant: a document that is gone is written again.
CreateTrainingJobUpserted(j) ==
    /\ ~JobExists(j)
    /\ metadata' = Put(metadata, j, "Waiting")
    /\ ReadyJobs' = Put(ReadyJobs, j, "Waiting")
    /\ JobNumGPU' = Put(JobNumGPU, j, 0)
    /\ UNCHANGED DoneJobs /\ TriggerResched /\ NoFault

\* s.CreateTrainingJob
CreateTrainingJob(j) ==
    \/ /\ JobExists(j) \/ j \notin DOMAIN metadata
       /\ UNCHANGED <<memory, reschedCh, metadata>> /\ NoFault
    \/ /\ ~JobExists(j) /\ j \in DOMAIN metadata
       /\ Fault("mongo")                       \* the metadata is not found
       /\ UNCHANGED <<memory, reschedCh, metadata>>
    \/ /\ ~JobExists(j) /\ j \in DOMAIN metadata
       /\ \/ metadata' = Put(metadata, j, "Waiting") /\ NoFault
          \/ Fault("mongo") /\ UNCHANGED metadata
       /\ ReadyJobs' = Put(ReadyJobs, j, "Waiting")
       /\ JobNumGPU' = Put(JobNumGPU, j, 0)
       /\ UNCHANGED DoneJobs
       /\ TriggerResched

IsRunning(j) == j \in DOMAIN ReadyJobs /\ ReadyJobs[j] = "Running"

\* Mutant: only the MPIJob of a done job is deleted.
NeedDeleteIfDone(j) == j \notin DOMAIN ReadyJobs /\ j \in DOMAIN DoneJobs

\* A job that is not waiting has an MPIJob to delete.
NeedDelete(j) == IsRunning(j) \/ (j \notin DOMAIN ReadyJobs /\ j \in DOMAIN DoneJobs)

\* s.DeleteTrainingJob
DeleteTrainingJob(j) ==
    /\ IF j \in DOMAIN ReadyJobs
       THEN /\ ReadyJobs' = Without(ReadyJobs, {j})
            /\ JobNumGPU' = Without(JobNumGPU, {j})
            /\ UNCHANGED DoneJobs
       ELSE /\ DoneJobs' = Without(DoneJobs, {j})
            /\ UNCHANGED <<ReadyJobs, JobNumGPU>>
    /\ \/ mpijobs' = (IF NeedDelete(j) THEN Without(mpijobs, {j}) ELSE mpijobs) /\ NoFault
       \/ NeedDelete(j) /\ j \in DOMAIN mpijobs /\ Fault("rejected") /\ UNCHANGED mpijobs
    /\ IF IsRunning(j) THEN TriggerResched ELSE UNCHANGED reschedCh

\* One message of readMsgs.
ReadMsg ==
    /\ LockFree
    /\ queue # <<>>
    /\ queue' = Tail(queue)
    /\ LET m == Head(queue) IN
       \/ m.verb = "create" /\ CreateTrainingJob(m.job) /\ UNCHANGED mpijobs
       \/ m.verb = "delete" /\ DeleteTrainingJob(m.job) /\ UNCHANGED metadata
    /\ UNCHANGED <<proc, todo, Algorithm, updates, service, crashes>>

\* Mutant: the phase of the MPIJob is taken for the status of the job.
PhaseAsStatus(phase) == phase

DoneAs(phase) == IF phase = "Succeeded" THEN "Completed" ELSE "Failed"

\* Mutant: the final status is not written to MongoDB.
JobsDoneUnsaved(ready, done) ==
    /\ ReadyJobs' = Without(ready, DOMAIN done)
    /\ DoneJobs' = [j \in DOMAIN DoneJobs \cup DOMAIN done |->
                       IF j \in DOMAIN done THEN done[j] ELSE DoneJobs[j]]
    /\ UNCHANGED metadata /\ NoFault

\* handleJobDoneInternal for the jobs of done, a map from jobs to their final
\* status, from the ready jobs in ready.
JobsDone(ready, done) ==
    /\ ReadyJobs' = Without(ready, DOMAIN done)
    /\ DoneJobs' = [j \in DOMAIN DoneJobs \cup DOMAIN done |->
                       IF j \in DOMAIN done THEN done[j] ELSE DoneJobs[j]]
    /\ \/ metadata' = [j \in DOMAIN metadata |->
                          IF j \in DOMAIN done THEN done[j] ELSE metadata[j]]
          /\ NoFault
       \/ DOMAIN done # {} /\ Fault("mongo") /\ UNCHANGED metadata

\* Mutant: repeated notices are handled too.
FirstNoticeAlways(j, status) == JobExists(j)

\* Mutant: notices about waiting jobs are ignored.
FirstNoticeIfRunning(j, status) == IsRunning(j)

\* getJobStatus(j) differs from status: the notice is the first of its kind.
FirstNotice(j, status) ==
    \/ j \in DOMAIN ReadyJobs
    \/ j \in DOMAIN DoneJobs /\ DoneJobs[j] # status

\* updateMPIJob, for the next notice about j.  handleJobCompleted and
\* handleJobFailed panic if the job is not a ready one.
UpdateMPIJob(j) ==
    /\ LockFree
    /\ updates[j] # <<>>
    /\ updates' = [updates EXCEPT ![j] = Tail(@)]
    /\ LET status == DoneAs(Head(updates[j])) IN
       \/ /\ ~FirstNotice(j, status)
          /\ UNCHANGED <<memory, proc, reschedCh, metadata>> /\ NoFault
       \/ /\ FirstNotice(j, status) /\ j \in DOMAIN ReadyJobs
          /\ JobsDone(ReadyJobs, [i \in {j} |-> status])
          /\ JobNumGPU' = Without(JobNumGPU, {j})
          /\ TriggerResched
          /\ UNCHANGED proc
       \/ /\ FirstNotice(j, status) /\ j \notin DOMAIN ReadyJobs
          /\ proc' = "panicked"
          /\ UNCHANGED <<memory, reschedCh, metadata>> /\ NoFault
    /\ UNCHANGED <<todo, Algorithm, mpijobs, service, queue, crashes>>

\* updateTimeMetrics changes the priority of some job.
PriorityChanged ==
    /\ LockFree /\ DOMAIN ReadyJobs # {}
    /\ TriggerResched
    /\ UNCHANGED <<memory, proc, todo, Algorithm, mpijobs, updates, metadata,
                   service, queue, history>>

\* configureAlgorithm, which takes any name and does not take the lock.
ConfigureAlgorithm ==
    /\ proc \in ProcStates \ {"down", "panicked", "found"}
    /\ \/ Algorithm = "known" /\ faults < MaxFaults
          /\ faults' = faults + 1 /\ Algorithm' = "unknown"
       \/ Algorithm = "unknown" /\ Algorithm' = "known" /\ UNCHANGED faults
    /\ UNCHANGED <<memory, proc, todo, reschedCh, mpijobs, updates, metadata,
                   service, queue, crashes, mishaps>>

-----------------------------------------------------------------------------
(* resched().  The lock is held from the request to the allocator until the *)
(* last change is applied.                                                 *)

\* The answers that pass validateResult.  Tiresias and ElasticTiresias look for
\* jobs in their own queues only, and may have no entry for the others.
ValidAllocations ==
    { alloc \in UNION { [DOMAIN ReadyJobs \ left -> 0..TotalGpus] : left \in SUBSET Unqueued } :
        /\ \A j \in DOMAIN alloc :
              alloc[j] > 0 => alloc[j] \in MinProc[j]..MaxProc[j]
        /\ SumOver(alloc, DOMAIN alloc) <= TotalGpus }

\* Mutant: a running job is started, a waiting one scaled out.
StartsIfAny(old, new) == { j \in DOMAIN old : old[j] < At(new, j) /\ old[j] # 0 }

\* compareResults, for the jobs of the old result.
Halts(old, new)     == { j \in DOMAIN old \cap DOMAIN ReadyJobs :
                            At(new, j) < old[j] /\ At(new, j) = 0 }
ScaleIns(old, new)  == { j \in DOMAIN old : At(new, j) < old[j] /\ At(new, j) # 0 }
Starts(old, new)    == { j \in DOMAIN old : old[j] < At(new, j) /\ old[j] = 0 }
ScaleOuts(old, new) == { j \in DOMAIN old : old[j] < At(new, j) /\ old[j] # 0 }

Changes(old, new) ==
    [g \in Groups |-> CASE g = "halts"     -> Halts(old, new)
                        [] g = "scaleIns"  -> ScaleIns(old, new)
                        [] g = "starts"    -> Starts(old, new)
                        [] g = "scaleOuts" -> ScaleOuts(old, new)]

\* Run() receives an event that is not stale and calls resched(), which takes
\* the lock, gets an allocation and compares it with the present one.  A name
\* the allocator does not know makes it answer with an error, {}, whose status
\* code is not looked at.
Resched(event) ==
    /\ proc = "idle"
    /\ event \in reschedCh
    /\ reschedCh' = reschedCh \ {event}
    /\ \E alloc \in IF Algorithm = "known" THEN ValidAllocations ELSE {EmptyMap} :
          /\ JobNumGPU' = alloc
          /\ todo' = Changes(JobNumGPU, alloc)
          /\ mishaps' = mishaps \cup
               (IF DOMAIN alloc = DOMAIN ReadyJobs THEN {} ELSE {"unlisted"})
    /\ proc' = "applying"
    /\ UNCHANGED <<ReadyJobs, DoneJobs, Algorithm, mpijobs, updates, metadata,
                   service, queue, crashes, faults>>

\* The allocator cannot be reached: another attempt is due after the rate limit.
ReschedFails(event) ==
    /\ proc = "idle"
    /\ event \in reschedCh
    /\ Fault("unreachable")
    /\ reschedCh' = (reschedCh \ {event}) \cup {"retry"}
    /\ proc' = "retrying"
    /\ UNCHANGED <<memory, todo, Algorithm, mpijobs, updates, metadata,
                   service, queue, crashes>>

\* Mutant: the groups are applied in any order.
TurnAny(group) == proc = "applying"

\* applySchedulerResults works through its groups in this order.
Turn(group) ==
    /\ proc = "applying"
    /\ group # "halts" => todo["halts"] = {}
    /\ group \in {"starts", "scaleOuts"} => todo["scaleIns"] = {}
    /\ group = "scaleOuts" => todo["starts"] = {}

\* The next change of a group, in the order of Go's map iteration: any.
Apply(group, j) ==
    /\ Turn(group)
    /\ j \in todo[group]
    /\ todo' = [todo EXCEPT ![group] = @ \ {j}]

\* The call of an applied change fails, before it takes effect or after.
Rejected == Fault("rejected") /\ UNCHANGED <<mpijobs, ReadyJobs>>

\* Mutant: a halted job stays Running.
MarkHaltedForgotten(j) == UNCHANGED ReadyJobs

MarkHalted(j) == ReadyJobs' = [ReadyJobs EXCEPT ![j] = "Waiting"]

\* haltTrainingJob
HaltTrainingJob(j) ==
    /\ Apply("halts", j)
    /\ \/ /\ j \in DOMAIN mpijobs
          /\ mpijobs' = Without(mpijobs, {j})
          /\ \/ MarkHalted(j) /\ NoFault
             \/ Fault("unanswered") /\ UNCHANGED ReadyJobs
       \/ j \notin DOMAIN mpijobs /\ UNCHANGED <<mpijobs, ReadyJobs>> /\ NoFault
       \/ Rejected
    /\ UNCHANGED <<DoneJobs, JobNumGPU, proc, reschedCh, Algorithm, updates,
                   metadata, service, queue, crashes>>

\* The mishap of creating an MPIJob for j now.
Late(j) == IF updates[j] = <<>> THEN {} ELSE {"late"}

\* startTrainingJob
StartTrainingJob(j) ==
    /\ Apply("starts", j)
    /\ \/ /\ j \notin DOMAIN mpijobs
          /\ mpijobs' = Put(mpijobs, j, [replicas |-> JobNumGPU[j], phase |-> "Active"])
          /\ \/ /\ ReadyJobs' = [ReadyJobs EXCEPT ![j] = "Running"]
                /\ mishaps' = mishaps \cup Late(j)
                /\ UNCHANGED faults
             \/ /\ UNCHANGED ReadyJobs
                /\ faults < MaxFaults /\ faults' = faults + 1
                /\ mishaps' = mishaps \cup Late(j) \cup {"unanswered"}
       \/ j \in DOMAIN mpijobs /\ UNCHANGED <<mpijobs, ReadyJobs>> /\ NoFault
       \/ Rejected
    /\ UNCHANGED <<DoneJobs, JobNumGPU, proc, reschedCh, Algorithm, updates,
                   metadata, service, queue, crashes>>

\* scaleTrainingJob, of either group.
ScaleTrainingJob(group, j) ==
    /\ Apply(group, j)
    /\ \/ /\ j \in DOMAIN mpijobs
          /\ mpijobs' = [mpijobs EXCEPT ![j].replicas = JobNumGPU[j]]
          /\ NoFault
       \/ j \notin DOMAIN mpijobs /\ UNCHANGED mpijobs /\ NoFault
       \/ Fault("rejected") /\ UNCHANGED mpijobs
    /\ UNCHANGED <<memory, proc, reschedCh, Algorithm, updates, metadata,
                   service, queue, crashes>>

\* Every change is applied: resched() releases the lock.
Unlock ==
    /\ proc = "applying"
    /\ todo = NoChanges
    /\ proc' = "placing"
    /\ UNCHANGED <<memory, todo, reschedCh, Algorithm, mpijobs, updates, metadata,
                   service, queue, history>>

\* Mutant: the retry is as old as the events before it.
KeptNone == {{}}

\* Run() sets lastResched.  The events sent until now have an earlier time
\* stamp and will be ignored; the retry that has just been asked for has a later
\* one, and that of an earlier resched() may have either.
Kept == {reschedCh \cap {"retry"}} \cup (IF proc = "placing" THEN {{}} ELSE {})

ReschedEnd ==
    /\ proc \in {"placing", "retrying"}
    /\ proc' = "idle"
    /\ reschedCh' \in Kept
    /\ UNCHANGED <<memory, todo, Algorithm, mpijobs, updates, metadata,
                   service, queue, history>>

-----------------------------------------------------------------------------
(* Crash and restart.                                                       *)

\* The process exits, after a panic or for any other reason.  Any of the
\* published messages may have been delivered to it, which is all it takes to
\* acknowledge them, and die with it.
Crash ==
    /\ proc # "down"
    /\ \/ proc = "panicked" /\ UNCHANGED crashes
       \/ proc # "panicked" /\ crashes < MaxCrashes /\ crashes' = crashes + 1
    /\ ReadyJobs' = EmptyMap /\ DoneJobs' = EmptyMap /\ JobNumGPU' = EmptyMap
    /\ proc' = "down"
    /\ todo' = NoChanges
    /\ reschedCh' = {}
    /\ Algorithm' = "known"
    /\ updates' = [j \in Jobs |-> <<>>]
    /\ \E n \in 0..Len(queue) :
          /\ queue' = SubSeq(queue, n + 1, Len(queue))
          /\ mishaps' = IF n = 0 THEN mishaps ELSE mishaps \cup {"lost"}
    /\ UNCHANGED <<mpijobs, metadata, service, faults>>

MetaIn(statuses) == { j \in DOMAIN metadata : metadata[j] \in statuses }
ActiveJobs == { j \in DOMAIN mpijobs : mpijobs[j].phase = "Active" }

\* constructStatusOnRestart, step 1: the job documents in MongoDB.  An active
\* MPIJob that belongs to no ready job will only be logged in step 2.
FindMetadata ==
    LET ready == MetaIn(ReadyStatus)
    IN /\ proc = "down"
       /\ proc' = "found"
       /\ ReadyJobs' = Restrict(metadata, ready)
       /\ DoneJobs' = Restrict(metadata, MetaIn(DoneStatus))
       /\ mishaps' = mishaps \cup (IF ready = {} THEN {} ELSE {"restart"})
                             \cup (IF ActiveJobs \subseteq ready THEN {} ELSE {"orphan"})
       /\ UNCHANGED <<JobNumGPU, todo, reschedCh, Algorithm, mpijobs, updates,
                      metadata, service, queue, crashes, faults>>

\* constructStatusOnRestart, step 2: the MPIJobs in the cluster, then
\* TriggerResched and the start of Run().  The allocation is that of the active
\* MPIJobs; finished ones are handled as in updateMPIJob.
ListMPIJobs ==
    LET active   == ActiveJobs \cap DOMAIN ReadyJobs
        finished == (DOMAIN mpijobs \ ActiveJobs) \cap DOMAIN ReadyJobs
    IN /\ proc = "found"
       /\ proc' = "syncing"
       /\ JobsDone([j \in DOMAIN ReadyJobs |->
                       IF j \in active THEN "Running" ELSE ReadyJobs[j]],
                   [j \in finished |-> DoneAs(mpijobs[j].phase)])
       /\ JobNumGPU' = [j \in active |-> mpijobs[j].replicas]
       /\ reschedCh' = {"now"}
       /\ UNCHANGED <<todo, Algorithm, mpijobs, updates, service, queue, crashes>>

\* The informers have listed what they watch: Run() enters its loop.
CacheSynced ==
    /\ proc = "syncing"
    /\ proc' = "idle"
    /\ UNCHANGED <<memory, todo, reschedCh, Algorithm, mpijobs, updates, metadata,
                   service, queue, history>>

-----------------------------------------------------------------------------
Service   == \/ \E j \in Jobs : InsertMetadata(j) \/ RemoveMetadata(j)
             \/ \E m \in outbox : Publish(m)

ReschedStep ==
    \/ \E event \in reschedCh : Resched(event) \/ ReschedFails(event)
    \/ \E j \in Jobs : HaltTrainingJob(j) \/ StartTrainingJob(j)
    \/ \E j \in Jobs, g \in {"scaleIns", "scaleOuts"} : ScaleTrainingJob(g, j)
    \/ Unlock \/ ReschedEnd

Restart == FindMetadata \/ ListMPIJobs \/ CacheSynced

Next ==
    \/ Service
    \/ \E j \in Jobs : MPIJobUpdated(j)
    \/ ReadMsg
    \/ \E j \in Jobs : UpdateMPIJob(j)
    \/ PriorityChanged
    \/ ConfigureAlgorithm
    \/ ReschedStep
    \/ Crash
    \/ Restart

Spec == Init /\ [][Next]_vars

-----------------------------------------------------------------------------
(* Safety.                                                                  *)

Up == proc \notin {"down", "panicked", "found"}

NoneOf(kinds) == mishaps \cap kinds = {}

\* A job is in one of the two maps, GPUs are allocated to ready jobs only, and
\* the changes to apply are about ready jobs: ReadyJobsMap[job] is never nil
\* where startTrainingJob and haltTrainingJob dereference it.
MapsConsistent ==
    /\ DOMAIN ReadyJobs \cap DOMAIN DoneJobs = {}
    /\ DOMAIN JobNumGPU \subseteq DOMAIN ReadyJobs
    /\ \A g \in Groups : todo[g] \subseteq DOMAIN ReadyJobs

\* A job that the scheduler believes to run has an MPIJob, whatever crashed and
\* whatever was refused; only a deletion that took effect and still returned an
\* error (haltTrainingJob) breaks it.
RunningIsBacked ==
    Up /\ NoneOf({"unanswered"}) =>
        \A j \in DOMAIN ReadyJobs : ReadyJobs[j] = "Running" => j \in DOMAIN mpijobs

\* The meaning types.go gives to the two ready statuses, whenever the lock is
\* free: Running with at least one GPU, Waiting with none.  It is broken only
\* by a restart with jobs to restore, a failed call to the Kubernetes API, or an
\* allocation without an entry for a ready job: compareResults overlooks the job
\* when it gets GPUs later.  An error of the allocator taken for an answer and
\* the queues of Tiresias make such allocations.
StatusMatchesAllocation ==
    LockFree /\ NoneOf({"restart", "rejected", "unanswered", "unlisted"}) =>
        \A j \in DOMAIN ReadyJobs : ReadyJobs[j] = "Running" <=> At(JobNumGPU, j) > 0

\* No GPU leaks: whenever the lock is free, an active MPIJob belongs to a ready
\* job that is running, and has the replicas that are allocated to it.  Crashes
\* in the middle of applySchedulerResults do not break it.
ActiveIsAccounted ==
    LockFree /\ NoneOf({"rejected", "unanswered", "late", "orphan"}) =>
        \A j \in ActiveJobs :
            /\ j \in DOMAIN ReadyJobs /\ ReadyJobs[j] = "Running"
            /\ At(JobNumGPU, j) = mpijobs[j].replicas

\* The active MPIJobs never ask for more GPUs than there are, between any two
\* calls of applySchedulerResults: what is taken from jobs is taken first.
WithinCapacity ==
    NoneOf({"rejected", "unanswered", "late", "orphan"}) =>
        SumOver([j \in ActiveJobs |-> mpijobs[j].replicas], ActiveJobs) <= TotalGpus

\* A crash at any moment loses no job: for each job that has a document, the
\* maps in memory are those constructStatusOnRestart would build from MongoDB.
MemoryIsDurable ==
    Up /\ NoneOf({"mongo"}) =>
        \A j \in DOMAIN metadata :
            /\ j \in DOMAIN ReadyJobs <=> metadata[j] \in ReadyStatus
            /\ j \in DOMAIN DoneJobs <=> metadata[j] \in DoneStatus
            /\ j \in DOMAIN DoneJobs => DoneJobs[j] = metadata[j]

Pending(verb, j) == [verb |-> verb, job |-> j] \in outbox \cup Range(queue)

\* No request is forgotten between the training service and the scheduler: a
\* job that is only submitted has its creation under way, a job that the
\* scheduler knows and the database does not has its deletion under way.  It is
\* broken only by a call of the scheduler to MongoDB that failed, by a message that
\* never reached the queue while its document stayed as it was (also because the
\* roll back of a creation failed), or by messages that died with the scheduler.
NoRequestForgotten ==
    Up /\ NoneOf({"mongo", "unpublished", "lost"}) =>
        /\ \A j \in DOMAIN metadata : metadata[j] = "Submitted" => Pending("create", j)
        /\ \A j \in (DOMAIN ReadyJobs \cup DOMAIN DoneJobs) \ DOMAIN metadata :
              Pending("delete", j)

\* handleJobCompleted and handleJobFailed find their job among the ready ones,
\* unless the notice handled is that of an MPIJob which has been replaced.
PanicNeedsLateNotice == proc = "panicked" => "late" \in mishaps

\* StatusMatchesAllocation without its exceptions.
StatusAlwaysMatches ==
    LockFree =>
        \A j \in DOMAIN ReadyJobs : ReadyJobs[j] = "Running" <=> At(JobNumGPU, j) > 0

-----------------------------------------------------------------------------
(* Liveness.                                                                *)

\* The goroutines of the scheduler run, and the service finishes its requests.
\* Handlers wait for SchedulerLock, which resched() releases and takes again
\* and again; Go's RWMutex hands it over to a waiting writer: strong fairness.
Fairness ==
    /\ WF_vars(ReschedStep)
    /\ WF_vars(Restart)
    /\ WF_vars(\E m \in outbox : Publish(m))
    /\ SF_vars(ReadMsg)
    /\ \A j \in Jobs : SF_vars(UpdateMPIJob(j))

FairSpec == Spec /\ Fairness

Undisturbed == mishaps \subseteq {"unreachable", "restart", "unlisted"}

\* Every request of a user reaches the scheduler, crash or not, if no message is
\* lost and no call fails on the way: a submitted job is accepted, or deleted
\* again; a deleted one ends up in no map and without an active MPIJob.
RequestsAreServed ==
    \A j \in Jobs :
        /\ j \in MetaIn({"Submitted"}) ~> (j \notin MetaIn({"Submitted"}) \/ ~Undisturbed)
        /\ (j \in submitted /\ j \notin DOMAIN metadata)
              ~> ((~JobExists(j) /\ j \notin ActiveJobs) \/ ~Undisturbed)

\* A job whose MPIJob has finished does not stay a ready job, to be given GPUs,
\* though the scheduler crash with the notice in hand.  It is broken only by an
\* MPIJob that finishes after the list of constructStatusOnRestart and before
\* that of the informer, which is reported to nobody.
FinishedLeavesReady ==
    \A j \in Jobs :
        (LockFree /\ j \in DOMAIN ReadyJobs \cap (DOMAIN mpijobs \ ActiveJobs))
            ~> (j \notin DOMAIN ReadyJobs
                \/ ~(mishaps \subseteq {"unreachable", "restart", "lost", "orphan", "unlisted"}))

\* When the allocator could not be reached it is asked again, though no other
\* event may ever come: the time stamp of the retry outlives the failed attempt.
AllocationIsRetried == proc = "retrying" ~> (proc = "applying" \/ ~Up)
=============================================================================
