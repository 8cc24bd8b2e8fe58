--------------------------- MODULE SchedulerProofs ---------------------------
(***************************************************************************)
(* Theorems about Scheduler, for every number of jobs, every TotalGpus and *)
(* every bound on crashes, faults and notices: its maps are consistent, it *)
(* implements JobLifecycle, no crash loses a job, and what its MPIJobs,    *)
(* the notices that they finished, the statuses of their jobs and the GPUs *)
(* they use have to do with each other, whatever happens but the few       *)
(* mishaps that each property names.                                       *)
(***************************************************************************)
EXTENDS SchedulerRefinement, MapsProofs

(***************************************************************************)
(* The invariants.                                                         *)
(***************************************************************************)

\* What is still to be started or resized has an allocation.
StartsAllocated ==
    todo["scaleIns"] \cup todo["starts"] \cup todo["scaleOuts"] \subseteq DOMAIN JobNumGPU

\* Changes are pending only while resched() holds the lock; a scheduler that is
\* not up has allocated nothing.
OnlyWhenApplying ==
    /\ proc # "applying" => todo = NoChanges
    /\ proc \in {"down", "found"} => JobNumGPU = EmptyMap

(***************************************************************************)
(* Type correctness.                                                       *)
(***************************************************************************)

\* The types hold initially.
LEMMA InitType == ASSUME Init PROVE TypeOK
  <1>1. /\ IsMap(EmptyMap, Jobs, ReadyStatus) /\ IsMap(EmptyMap, Jobs, DoneStatus)
        /\ IsMap(EmptyMap, Jobs, Nat) /\ IsMap(EmptyMap, Jobs, MPIJob)
        /\ IsMap(EmptyMap, Jobs, MetaStatus)
    BY EmptyIsMap
  <1>2. NoChanges \in [Groups -> SUBSET Jobs]
    BY DEF NoChanges
  <1>3. [j \in Jobs |-> <<>>] \in [Jobs -> Seq(FinishPhase)] /\ <<>> \in Seq(Message)
    OBVIOUS
  <1> QED BY <1>1, <1>2, <1>3 DEF Init, TypeOK, ProcStates, Mishaps

\* Recording a fault, or none, keeps the types of the history.
LEMMA FaultType ==
    ASSUME TypeOK, NEW kind \in Mishaps, NoFault \/ Fault(kind)
    PROVE  faults' \in Nat /\ mishaps' \subseteq Mishaps
  BY DEF TypeOK, NoFault, Fault

\* InsertMetadata preserves the types.
LEMMA InsertMetadataType ==
    ASSUME TypeOK, NEW j \in Jobs, InsertMetadata(j) PROVE TypeOK'
  <1>1. IsMap(Put(metadata, j, "Submitted"), Jobs, MetaStatus)
    <2> "Submitted" \in MetaStatus BY DEF MetaStatus
    <2> QED BY PutMap DEF TypeOK
  <1>2. [verb |-> "create", job |-> j] \in Message
    BY DEF Message
  <1> QED BY <1>1, <1>2 DEF TypeOK, InsertMetadata, memory, control, history

\* RemoveMetadata preserves the types.
LEMMA RemoveMetadataType ==
    ASSUME TypeOK, NEW j \in Jobs, RemoveMetadata(j) PROVE TypeOK'
  <1>1. IsMap(Without(metadata, {j}), Jobs, MetaStatus)
    BY WithoutMap DEF TypeOK
  <1>2. [verb |-> "delete", job |-> j] \in Message
    BY DEF Message
  <1> QED BY <1>1, <1>2 DEF TypeOK, RemoveMetadata, memory, control, history

\* Publish preserves the types.
LEMMA PublishType ==
    ASSUME TypeOK, NEW m \in outbox, Publish(m) PROVE TypeOK'
  <1>1. m \in Message /\ outbox' \subseteq Message
    BY DEF TypeOK, Publish
  <1>2. Append(queue, m) \in Seq(Message)
    BY <1>1 DEF TypeOK
  <1>3. IsMap(Without(metadata, {m.job}), Jobs, MetaStatus)
    BY WithoutMap DEF TypeOK
  <1>4. queue' \in Seq(Message) /\ IsMap(metadata', Jobs, MetaStatus)
    BY <1>2, <1>3 DEF TypeOK, Publish, RollBack
  <1>5. faults' \in Nat /\ mishaps' \subseteq Mishaps
    <2>1. CASE NoFault \/ Fault("unpublished")
      BY <2>1, FaultType DEF Mishaps
    <2>2. CASE faults' = faults + 1 /\ UNCHANGED mishaps
      BY <2>2 DEF TypeOK
    <2> QED BY <2>1, <2>2 DEF Publish
  <1> QED BY <1>1, <1>4, <1>5 DEF TypeOK, Publish, memory, control

\* MPIJobUpdated preserves the types.
LEMMA MPIJobUpdatedType ==
    ASSUME TypeOK, NEW j \in Jobs, MPIJobUpdated(j) PROVE TypeOK'
  <1>1. PICK phase \in FinishPhase :
            /\ mpijobs' = [mpijobs EXCEPT ![j].phase = phase]
            /\ \/ updates' = [updates EXCEPT ![j] = Append(@, phase)]
               \/ updates' = updates
    BY DEF MPIJobUpdated
  <1>2. [mpijobs[j] EXCEPT !.phase = phase] \in MPIJob
    BY DEF MPIJobUpdated, TypeOK, IsMap, MPIJob
  <1>3. IsMap(mpijobs', Jobs, MPIJob)
    <2>1. mpijobs' = [mpijobs EXCEPT ![j] = [mpijobs[j] EXCEPT !.phase = phase]]
      BY <1>1
    <2> QED BY <1>2, <2>1, ExceptMap DEF MPIJobUpdated, TypeOK
  <1>4. updates' \in [Jobs -> Seq(FinishPhase)]
    <2>1. Append(updates[j], phase) \in Seq(FinishPhase)
      BY AppendProperties DEF TypeOK
    <2> QED BY <1>1, <2>1 DEF TypeOK
  <1>5. mishaps' \subseteq Mishaps
    BY DEF MPIJobUpdated, TypeOK, Mishaps
  <1> QED BY <1>3, <1>4, <1>5 DEF TypeOK, MPIJobUpdated, memory, control, service

\* CreateTrainingJob preserves the types.
LEMMA CreateTrainingJobType ==
    ASSUME TypeOK, NEW j \in Jobs, CreateTrainingJob(j)
    PROVE  /\ IsMap(ReadyJobs', Jobs, ReadyStatus) /\ IsMap(DoneJobs', Jobs, DoneStatus)
           /\ IsMap(JobNumGPU', Jobs, Nat) /\ IsMap(metadata', Jobs, MetaStatus)
           /\ reschedCh' \subseteq {"now", "retry"}
           /\ faults' \in Nat /\ mishaps' \subseteq Mishaps
  <1>1. "Waiting" \in ReadyStatus /\ "Waiting" \in MetaStatus /\ "mongo" \in Mishaps
    BY DEF ReadyStatus, MetaStatus, Mishaps
  <1>2. /\ IsMap(Put(ReadyJobs, j, "Waiting"), Jobs, ReadyStatus)
        /\ IsMap(Put(JobNumGPU, j, 0), Jobs, Nat)
        /\ IsMap(Put(metadata, j, "Waiting"), Jobs, MetaStatus)
    BY <1>1, PutMap DEF TypeOK
  <1>3. NoFault \/ Fault("mongo")
    BY DEF CreateTrainingJob
  <1>4. faults' \in Nat /\ mishaps' \subseteq Mishaps
    BY <1>1, <1>3, FaultType
  <1> QED BY <1>2, <1>4 DEF CreateTrainingJob, TriggerResched, TypeOK, memory

\* DeleteTrainingJob preserves the types.
LEMMA DeleteTrainingJobType ==
    ASSUME TypeOK, NEW j \in Jobs, DeleteTrainingJob(j)
    PROVE  /\ IsMap(ReadyJobs', Jobs, ReadyStatus) /\ IsMap(DoneJobs', Jobs, DoneStatus)
           /\ IsMap(JobNumGPU', Jobs, Nat) /\ IsMap(mpijobs', Jobs, MPIJob)
           /\ reschedCh' \subseteq {"now", "retry"}
           /\ faults' \in Nat /\ mishaps' \subseteq Mishaps
  <1>1. /\ IsMap(Without(ReadyJobs, {j}), Jobs, ReadyStatus)
        /\ IsMap(Without(DoneJobs, {j}), Jobs, DoneStatus)
        /\ IsMap(Without(JobNumGPU, {j}), Jobs, Nat)
        /\ IsMap(Without(mpijobs, {j}), Jobs, MPIJob)
    BY WithoutMap DEF TypeOK
  <1>2. faults' \in Nat /\ mishaps' \subseteq Mishaps
    BY FaultType DEF DeleteTrainingJob, Mishaps
  <1> QED BY <1>1, <1>2 DEF DeleteTrainingJob, TriggerResched, TypeOK

\* ReadMsg preserves the types.
LEMMA ReadMsgType == ASSUME TypeOK, ReadMsg PROVE TypeOK'
  <1> DEFINE m == Head(queue)
  <1>1. m \in Message /\ Tail(queue) \in Seq(Message)
    BY HeadTailProperties DEF TypeOK, ReadMsg
  <1>2. m.job \in Jobs
    BY <1>1 DEF Message
  <1>3. CASE CreateTrainingJob(m.job) /\ UNCHANGED mpijobs
    BY <1>1, <1>2, <1>3, CreateTrainingJobType DEF ReadMsg, TypeOK, service
  <1>4. CASE DeleteTrainingJob(m.job) /\ UNCHANGED metadata
    BY <1>1, <1>2, <1>4, DeleteTrainingJobType DEF ReadMsg, TypeOK, service
  <1> QED BY <1>3, <1>4 DEF ReadMsg

\* A finished MPIJob gives its job one of the final statuses.
LEMMA DoneAsType == ASSUME NEW phase PROVE DoneAs(phase) \in DoneStatus
  BY DEF DoneAs, DoneStatus

\* JobsDone preserves the types.
LEMMA JobsDoneType ==
    ASSUME TypeOK, NEW ready, IsMap(ready, Jobs, ReadyStatus),
           NEW done, IsMap(done, Jobs, DoneStatus), JobsDone(ready, done)
    PROVE  /\ IsMap(ReadyJobs', Jobs, ReadyStatus) /\ IsMap(DoneJobs', Jobs, DoneStatus)
           /\ IsMap(metadata', Jobs, MetaStatus)
           /\ faults' \in Nat /\ mishaps' \subseteq Mishaps
  <1>1. IsMap(ReadyJobs', Jobs, ReadyStatus)
    BY WithoutMap DEF JobsDone
  <1>2. IsMap(DoneJobs', Jobs, DoneStatus)
    BY DEF JobsDone, TypeOK, IsMap
  <1>3. IsMap(metadata', Jobs, MetaStatus)
    BY DEF JobsDone, TypeOK, IsMap, MetaStatus
  <1>4. faults' \in Nat /\ mishaps' \subseteq Mishaps
    BY FaultType DEF JobsDone, Mishaps
  <1> QED BY <1>1, <1>2, <1>3, <1>4

\* UpdateMPIJob preserves the types.
LEMMA UpdateMPIJobType ==
    ASSUME TypeOK, NEW j \in Jobs, UpdateMPIJob(j) PROVE TypeOK'
  <1> DEFINE status == DoneAs(Head(updates[j]))
  <1>1. Tail(updates[j]) \in Seq(FinishPhase)
    BY HeadTailProperties DEF TypeOK, UpdateMPIJob
  <1>2. updates' \in [Jobs -> Seq(FinishPhase)]
    BY <1>1 DEF TypeOK, UpdateMPIJob
  <1>3. CASE UNCHANGED <<memory, reschedCh, metadata>> /\ NoFault
    BY <1>2, <1>3 DEF UpdateMPIJob, TypeOK, NoFault, memory, service, ProcStates
  <1>4. CASE /\ JobsDone(ReadyJobs, [i \in {j} |-> status])
             /\ JobNumGPU' = Without(JobNumGPU, {j})
             /\ TriggerResched
             /\ UNCHANGED proc
    <2>1. IsMap([i \in {j} |-> status], Jobs, DoneStatus)
      BY DoneAsType DEF IsMap
    <2>2. IsMap(JobNumGPU', Jobs, Nat)
      BY <1>4, WithoutMap DEF TypeOK
    <2>3. /\ IsMap(ReadyJobs', Jobs, ReadyStatus) /\ IsMap(DoneJobs', Jobs, DoneStatus)
          /\ IsMap(metadata', Jobs, MetaStatus)
          /\ faults' \in Nat /\ mishaps' \subseteq Mishaps
      BY <1>4, <2>1, JobsDoneType DEF TypeOK
    <2> QED BY <1>2, <1>4, <2>2, <2>3 DEF UpdateMPIJob, TypeOK, TriggerResched, service
  <1> QED BY <1>3, <1>4 DEF UpdateMPIJob

\* What compareResults returns are jobs of the old result.
LEMMA ChangesType ==
    ASSUME NEW old, NEW new
    PROVE  /\ Changes(old, new) \in [Groups -> SUBSET DOMAIN old]
           /\ \A g \in Groups : Changes(old, new)[g] \subseteq DOMAIN old
  BY DEF Changes, Groups, Halts, ScaleIns, Starts, ScaleOuts

\* The answers of the allocator are maps, and their keys are the ready jobs.
LEMMA AllocationType ==
    ASSUME TypeOK, NEW alloc, alloc \in ValidAllocations \/ alloc = EmptyMap
    PROVE  IsMap(alloc, Jobs, Nat) /\ DOMAIN alloc \subseteq DOMAIN ReadyJobs
  <1>1. CASE alloc \in ValidAllocations
    <2>1. PICK left \in SUBSET Unqueued : alloc \in [DOMAIN ReadyJobs \ left -> 0..TotalGpus]
      BY <1>1 DEF ValidAllocations
    <2> QED BY <2>1, GpusAssumption DEF TypeOK, IsMap
  <1>2. CASE alloc = EmptyMap
    BY <1>2, EmptyIsMap
  <1> QED BY <1>1, <1>2

\* Resched preserves the types.
LEMMA ReschedType ==
    ASSUME TypeOK, NEW event \in reschedCh, Resched(event) PROVE TypeOK'
  <1>1. PICK alloc : /\ alloc \in ValidAllocations \/ alloc = EmptyMap
                     /\ JobNumGPU' = alloc
                     /\ todo' = Changes(JobNumGPU, alloc)
    BY DEF Resched
  <1>2. IsMap(JobNumGPU', Jobs, Nat)
    BY <1>1, AllocationType
  <1>3. todo' \in [Groups -> SUBSET Jobs]
    BY <1>1, ChangesType DEF TypeOK, IsMap
  <1>4. mishaps' \subseteq Mishaps
    BY DEF Resched, TypeOK, Mishaps
  <1> QED BY <1>2, <1>3, <1>4 DEF Resched, TypeOK, service, ProcStates

\* ReschedFails preserves the types.
LEMMA ReschedFailsType ==
    ASSUME TypeOK, NEW event \in reschedCh, ReschedFails(event) PROVE TypeOK'
  <1>1. faults' \in Nat /\ mishaps' \subseteq Mishaps
    BY FaultType DEF ReschedFails, Mishaps
  <1> QED BY <1>1 DEF ReschedFails, TypeOK, memory, service, ProcStates

\* HaltTrainingJob preserves the types.
LEMMA HaltTrainingJobType ==
    ASSUME TypeOK, MapsConsistent, NEW j \in Jobs, HaltTrainingJob(j) PROVE TypeOK'
  <1>1. j \in DOMAIN ReadyJobs
    BY DEF HaltTrainingJob, Apply, MapsConsistent, Groups
  <1>2. "Waiting" \in ReadyStatus
    BY DEF ReadyStatus
  <1>3. IsMap(ReadyJobs', Jobs, ReadyStatus)
    BY <1>1, <1>2, ExceptMap DEF HaltTrainingJob, MarkHalted, Rejected, TypeOK
  <1>4. IsMap(mpijobs', Jobs, MPIJob)
    <2>1. IsMap(Without(mpijobs, {j}), Jobs, MPIJob)
      BY WithoutMap DEF TypeOK
    <2>2. mpijobs' \in {mpijobs, Without(mpijobs, {j})}
      BY DEF HaltTrainingJob, Rejected
    <2> QED BY <2>1, <2>2 DEF TypeOK
  <1>5. faults' \in Nat /\ mishaps' \subseteq Mishaps
    BY FaultType DEF HaltTrainingJob, Rejected, Mishaps
  <1>6. todo' \in [Groups -> SUBSET Jobs]
    BY DEF HaltTrainingJob, Apply, TypeOK
  <1> QED BY <1>3, <1>4, <1>5, <1>6 DEF HaltTrainingJob, TypeOK, service

\* StartTrainingJob preserves the types.
LEMMA StartTrainingJobType ==
    ASSUME TypeOK, MapsConsistent, StartsAllocated,
           NEW j \in Jobs, StartTrainingJob(j) PROVE TypeOK'
  <1>1. j \in DOMAIN ReadyJobs /\ j \in DOMAIN JobNumGPU
    BY DEF StartTrainingJob, Apply, MapsConsistent, StartsAllocated, Groups
  <1>2. "Running" \in ReadyStatus
    BY DEF ReadyStatus
  <1>3. IsMap(ReadyJobs', Jobs, ReadyStatus)
    BY <1>1, <1>2, ExceptMap DEF StartTrainingJob, Rejected, TypeOK
  <1>4. IsMap(mpijobs', Jobs, MPIJob)
    <2>1. [replicas |-> JobNumGPU[j], phase |-> "Active"] \in MPIJob
      BY <1>1 DEF MPIJob, TypeOK, IsMap
    <2>2. IsMap(Put(mpijobs, j, [replicas |-> JobNumGPU[j], phase |-> "Active"]), Jobs, MPIJob)
      BY <2>1, PutMap DEF TypeOK
    <2>3. \/ mpijobs' = mpijobs
          \/ mpijobs' = Put(mpijobs, j, [replicas |-> JobNumGPU[j], phase |-> "Active"])
      BY DEF StartTrainingJob, Rejected
    <2> QED BY <2>2, <2>3 DEF TypeOK
  <1>5. faults' \in Nat /\ mishaps' \subseteq Mishaps
    <2>1. Late(j) \cup {"unanswered"} \subseteq Mishaps
      BY DEF Late, Mishaps
    <2>2. CASE NoFault \/ Fault("rejected")
      BY <2>2, FaultType DEF Mishaps
    <2>3. CASE /\ faults' \in {faults, faults + 1}
               /\ mishaps' \in {mishaps \cup Late(j), mishaps \cup Late(j) \cup {"unanswered"}}
      BY <2>1, <2>3 DEF TypeOK
    <2> QED BY <2>2, <2>3 DEF StartTrainingJob, Rejected
  <1>6. todo' \in [Groups -> SUBSET Jobs]
    BY DEF StartTrainingJob, Apply, TypeOK
  <1> QED BY <1>3, <1>4, <1>5, <1>6 DEF StartTrainingJob, TypeOK, service

\* ScaleTrainingJob preserves the types.
LEMMA ScaleTrainingJobType ==
    ASSUME TypeOK, StartsAllocated, NEW j \in Jobs, NEW g \in {"scaleIns", "scaleOuts"},
           ScaleTrainingJob(g, j) PROVE TypeOK'
  <1>1. j \in DOMAIN JobNumGPU
    BY DEF ScaleTrainingJob, Apply, StartsAllocated
  <1>2. IsMap(mpijobs', Jobs, MPIJob)
    <2>1. CASE j \in DOMAIN mpijobs /\ mpijobs' = [mpijobs EXCEPT ![j].replicas = JobNumGPU[j]]
      <3>1. [mpijobs[j] EXCEPT !.replicas = JobNumGPU[j]] \in MPIJob
        BY <1>1, <2>1 DEF TypeOK, IsMap, MPIJob
      <3>2. mpijobs' = [mpijobs EXCEPT ![j] = [mpijobs[j] EXCEPT !.replicas = JobNumGPU[j]]]
        BY <2>1
      <3>3. \A r \in MPIJob : IsMap([mpijobs EXCEPT ![j] = r], Jobs, MPIJob)
        BY <2>1, ExceptMap DEF TypeOK
      <3> QED BY <3>1, <3>2, <3>3
    <2>2. CASE mpijobs' = mpijobs
      BY <2>2 DEF TypeOK
    <2> QED BY <2>1, <2>2 DEF ScaleTrainingJob
  <1>3. faults' \in Nat /\ mishaps' \subseteq Mishaps
    BY FaultType DEF ScaleTrainingJob, Mishaps
  <1>4. todo' \in [Groups -> SUBSET Jobs]
    BY DEF ScaleTrainingJob, Apply, TypeOK
  <1> QED BY <1>2, <1>3, <1>4 DEF ScaleTrainingJob, TypeOK, memory, service

\* Crash preserves the types.
LEMMA CrashType == ASSUME TypeOK, Crash PROVE TypeOK'
  <1>1. /\ IsMap(EmptyMap, Jobs, ReadyStatus) /\ IsMap(EmptyMap, Jobs, DoneStatus)
        /\ IsMap(EmptyMap, Jobs, Nat)
    BY EmptyIsMap
  <1>2. NoChanges \in [Groups -> SUBSET Jobs]
    BY DEF NoChanges
  <1>3. [j \in Jobs |-> <<>>] \in [Jobs -> Seq(FinishPhase)]
    OBVIOUS
  <1>4. PICK n \in 0..Len(queue) :
            /\ queue' = SubSeq(queue, n + 1, Len(queue))
            /\ mishaps' \in {mishaps, mishaps \cup {"lost"}}
    BY DEF Crash
  <1>5. queue' \in Seq(Message)
    <2>1. queue \in Seq(Message) /\ Len(queue) \in Nat
      BY LenProperties DEF TypeOK
    <2>2. \A i \in (n + 1)..Len(queue) : queue[i] \in Message
      BY <2>1, ElementOfSeq
    <2> QED BY <1>4, <2>1, <2>2, SubSeqProperties
  <1>6. mishaps' \subseteq Mishaps /\ crashes' \in Nat
    BY <1>4 DEF Crash, TypeOK, Mishaps
  <1> QED BY <1>1, <1>2, <1>3, <1>5, <1>6 DEF Crash, TypeOK, service, ProcStates

\* FindMetadata preserves the types.
LEMMA FindMetadataType == ASSUME TypeOK, FindMetadata PROVE TypeOK'
  <1>1. IsMap(Restrict(metadata, MetaIn(ReadyStatus)), Jobs, ReadyStatus)
    BY RestrictMap DEF TypeOK, MetaIn
  <1>2. IsMap(Restrict(metadata, MetaIn(DoneStatus)), Jobs, DoneStatus)
    BY RestrictMap DEF TypeOK, MetaIn
  <1>3. mishaps' \subseteq Mishaps
    BY DEF FindMetadata, TypeOK, Mishaps
  <1> QED BY <1>1, <1>2, <1>3 DEF FindMetadata, TypeOK, service, ProcStates

\* ListMPIJobs preserves the types.
LEMMA ListMPIJobsType == ASSUME TypeOK, ListMPIJobs PROVE TypeOK'
  <1> DEFINE active   == ActiveJobs \cap DOMAIN ReadyJobs
             finished == (DOMAIN mpijobs \ ActiveJobs) \cap DOMAIN ReadyJobs
             ready    == [j \in DOMAIN ReadyJobs |->
                             IF j \in active THEN "Running" ELSE ReadyJobs[j]]
             done     == [j \in finished |-> DoneAs(mpijobs[j].phase)]
  <1>1. IsMap(ready, Jobs, ReadyStatus)
    BY DEF TypeOK, IsMap, ReadyStatus
  <1>2. IsMap(done, Jobs, DoneStatus)
    BY DoneAsType DEF TypeOK, IsMap
  <1>3. JobsDone(ready, done) /\ JobNumGPU' = [j \in active |-> mpijobs[j].replicas]
    BY DEF ListMPIJobs
  <1> HIDE DEF ready, done
  <1>4. /\ IsMap(ReadyJobs', Jobs, ReadyStatus) /\ IsMap(DoneJobs', Jobs, DoneStatus)
        /\ IsMap(metadata', Jobs, MetaStatus)
        /\ faults' \in Nat /\ mishaps' \subseteq Mishaps
    BY <1>1, <1>2, <1>3, JobsDoneType
  <1>5. IsMap(JobNumGPU', Jobs, Nat)
    BY <1>3 DEF TypeOK, IsMap, MPIJob, ActiveJobs
  <1> QED BY <1>4, <1>5 DEF ListMPIJobs, TypeOK, service, ProcStates

\* Every step preserves the types, given what the other invariants say of the
\* changes that are still to be applied.
LEMMA NextType ==
    ASSUME TypeOK, MapsConsistent, StartsAllocated, [Next]_vars PROVE TypeOK'
  <1>1. CASE Service
    BY <1>1, InsertMetadataType, RemoveMetadataType, PublishType DEF Service
  <1>2. CASE \E j \in Jobs : MPIJobUpdated(j)
    BY <1>2, MPIJobUpdatedType
  <1>3. CASE ReadMsg
    BY <1>3, ReadMsgType
  <1>4. CASE \E j \in Jobs : UpdateMPIJob(j)
    BY <1>4, UpdateMPIJobType
  <1>5. CASE PriorityChanged
    BY <1>5 DEF PriorityChanged, TriggerResched, TypeOK, memory, service, history
  <1>6. CASE ConfigureAlgorithm
    BY <1>6 DEF ConfigureAlgorithm, TypeOK, memory, service
  <1>7. CASE ReschedStep
    <2>1. CASE \E event \in reschedCh : Resched(event) \/ ReschedFails(event)
      BY <2>1, ReschedType, ReschedFailsType
    <2>2. CASE \E j \in Jobs : HaltTrainingJob(j) \/ StartTrainingJob(j)
      BY <2>2, HaltTrainingJobType, StartTrainingJobType
    <2>3. CASE \E j \in Jobs, g \in {"scaleIns", "scaleOuts"} : ScaleTrainingJob(g, j)
      BY <2>3, ScaleTrainingJobType
    <2>4. CASE Unlock
      BY <2>4 DEF Unlock, TypeOK, memory, service, history, ProcStates
    <2>5. CASE ReschedEnd
      BY <2>5 DEF ReschedEnd, Kept, TypeOK, memory, service, history, ProcStates
    <2> QED BY <1>7, <2>1, <2>2, <2>3, <2>4, <2>5 DEF ReschedStep
  <1>8. CASE Crash
    BY <1>8, CrashType
  <1>9. CASE Restart
    <2>1. CASE CacheSynced
      BY <2>1 DEF CacheSynced, TypeOK, memory, service, history, ProcStates
    <2> QED BY <1>9, <2>1, FindMetadataType, ListMPIJobsType DEF Restart
  <1>10. CASE UNCHANGED vars
    BY <1>10 DEF vars, memory, control, service, history, TypeOK
  <1> QED BY <1>1, <1>2, <1>3, <1>4, <1>5, <1>6, <1>7, <1>8, <1>9, <1>10 DEF Next

(***************************************************************************)
(* The maps stay consistent.                                               *)
(***************************************************************************)

MapsInv == TypeOK /\ MapsConsistent /\ StartsAllocated /\ OnlyWhenApplying

\* The maps are consistent initially.
LEMMA InitMaps == ASSUME Init PROVE MapsInv
  <1>1. MapsConsistent /\ StartsAllocated /\ OnlyWhenApplying
    BY DEF Init, MapsConsistent, StartsAllocated, OnlyWhenApplying, NoChanges, Groups, EmptyMap
  <1> QED BY <1>1, InitType DEF MapsInv

\* A step that leaves the maps and the pending changes alone.
LEMMA SameMaps ==
    ASSUME MapsInv, UNCHANGED <<memory, todo>>,
           proc' # "applying" => proc # "applying" \/ todo = NoChanges,
           proc' \notin {"down", "found"} \/ proc = proc'
    PROVE  MapsConsistent' /\ StartsAllocated' /\ OnlyWhenApplying'
  BY DEF MapsInv, MapsConsistent, StartsAllocated, OnlyWhenApplying, memory

\* ReadMsg keeps the maps consistent.
LEMMA ReadMsgMaps ==
    ASSUME MapsInv, ReadMsg PROVE MapsConsistent' /\ StartsAllocated' /\ OnlyWhenApplying'
  <1> DEFINE j == Head(queue).job
  <1> USE DEF MapsInv
  <1>1. j \in Jobs
    <2> Head(queue) \in Message BY HeadTailProperties DEF TypeOK, ReadMsg
    <2> QED BY DEF Message
  <1>2. todo = NoChanges /\ UNCHANGED <<todo, proc>> /\ proc \notin {"down", "found"}
    BY DEF ReadMsg, LockFree, OnlyWhenApplying
  <1>3. DOMAIN JobNumGPU' \subseteq DOMAIN ReadyJobs' /\ DOMAIN ReadyJobs' \cap DOMAIN DoneJobs' = {}
    <2>1. CASE UNCHANGED memory
      BY <2>1 DEF memory, MapsConsistent
    <2>2. CASE /\ ReadyJobs' = Put(ReadyJobs, j, "Waiting") /\ JobNumGPU' = Put(JobNumGPU, j, 0)
               /\ UNCHANGED DoneJobs /\ ~JobExists(j)
      BY <2>2 DEF Put, MapsConsistent, JobExists
    <2>3. CASE ReadyJobs' = Without(ReadyJobs, {j}) /\ JobNumGPU' = Without(JobNumGPU, {j})
               /\ UNCHANGED DoneJobs
      BY <2>3 DEF Without, Restrict, MapsConsistent
    <2>4. CASE DoneJobs' = Without(DoneJobs, {j}) /\ UNCHANGED <<ReadyJobs, JobNumGPU>>
      BY <2>4 DEF Without, Restrict, MapsConsistent
    <2> QED BY <2>1, <2>2, <2>3, <2>4 DEF ReadMsg, CreateTrainingJob, DeleteTrainingJob
  <1> QED BY <1>2, <1>3 DEF MapsConsistent, StartsAllocated, OnlyWhenApplying, NoChanges, Groups

\* UpdateMPIJob keeps the maps consistent.
LEMMA UpdateMPIJobMaps ==
    ASSUME MapsInv, NEW j \in Jobs, UpdateMPIJob(j)
    PROVE  MapsConsistent' /\ StartsAllocated' /\ OnlyWhenApplying'
  <1> DEFINE done == [i \in {j} |-> DoneAs(Head(updates[j]))]
  <1> USE DEF MapsInv
  <1>1. todo = NoChanges /\ UNCHANGED todo /\ proc \notin {"down", "found"}
    BY DEF UpdateMPIJob, LockFree, OnlyWhenApplying
  <1>2. CASE UNCHANGED memory
    <2>1. proc' \notin {"down", "found"}
      BY <1>1 DEF UpdateMPIJob
    <2> QED BY <1>1, <1>2, <2>1, SameMaps
  <1>3. CASE JobsDone(ReadyJobs, done) /\ JobNumGPU' = Without(JobNumGPU, {j}) /\ UNCHANGED proc
    <2>1. /\ DOMAIN ReadyJobs' = DOMAIN ReadyJobs \ {j}
          /\ DOMAIN DoneJobs' = DOMAIN DoneJobs \cup {j}
          /\ DOMAIN JobNumGPU' = DOMAIN JobNumGPU \ {j}
      BY <1>3 DEF JobsDone, Without, Restrict
    <2> QED BY <1>1, <1>3, <2>1
            DEF MapsConsistent, StartsAllocated, OnlyWhenApplying, NoChanges, Groups
  <1> QED BY <1>2, <1>3 DEF UpdateMPIJob

\* Resched keeps the maps consistent.
LEMMA ReschedMaps ==
    ASSUME MapsInv, NEW event \in reschedCh, Resched(event)
    PROVE  MapsConsistent' /\ StartsAllocated' /\ OnlyWhenApplying'
  <1> USE DEF MapsInv
  <1>1. PICK alloc : /\ alloc \in ValidAllocations \/ alloc = EmptyMap
                     /\ JobNumGPU' = alloc
                     /\ todo' = Changes(JobNumGPU, alloc)
    BY DEF Resched
  <1>2. IsMap(alloc, Jobs, Nat) /\ DOMAIN alloc \subseteq DOMAIN ReadyJobs
    BY <1>1, AllocationType
  <1>3. \A g \in Groups : todo'[g] \subseteq DOMAIN ReadyJobs
    BY <1>1, ChangesType DEF MapsConsistent
  <1>4. StartsAllocated'
    <2>1. \A j \in DOMAIN JobNumGPU : JobNumGPU[j] \in Nat
      BY DEF TypeOK, IsMap
    <2>2. /\ todo'["scaleIns"] = ScaleIns(JobNumGPU, alloc)
          /\ todo'["starts"] = Starts(JobNumGPU, alloc)
          /\ todo'["scaleOuts"] = ScaleOuts(JobNumGPU, alloc)
      BY <1>1 DEF Changes, Groups
    <2>3. \A j \in ScaleIns(JobNumGPU, alloc) \cup Starts(JobNumGPU, alloc)
                     \cup ScaleOuts(JobNumGPU, alloc) : At(alloc, j) # 0
      BY <2>1 DEF ScaleIns, Starts, ScaleOuts, At
    <2> QED BY <1>1, <2>2, <2>3 DEF StartsAllocated, At
  <1> QED BY <1>1, <1>2, <1>3, <1>4 DEF Resched, MapsConsistent, OnlyWhenApplying

\* Applying a change removes it from those pending and touches no key.
LEMMA ApplyMaps ==
    ASSUME MapsInv, NEW j \in Jobs, NEW g \in Groups, Apply(g, j),
           UNCHANGED <<proc, JobNumGPU, DoneJobs>>, DOMAIN ReadyJobs' = DOMAIN ReadyJobs
    PROVE  MapsConsistent' /\ StartsAllocated' /\ OnlyWhenApplying'
  <1>1. proc = "applying" /\ \A h \in Groups : todo'[h] \subseteq todo[h]
    BY DEF MapsInv, Apply, Turn, TypeOK
  <1> QED BY <1>1 DEF MapsInv, MapsConsistent, StartsAllocated, OnlyWhenApplying, Groups

\* A crash and a restart keep the maps consistent: they are built from disjoint statuses.
LEMMA RestartMaps ==
    ASSUME MapsInv, Restart PROVE MapsConsistent' /\ StartsAllocated' /\ OnlyWhenApplying'
  <1> USE DEF MapsInv
  <1>1. CASE FindMetadata
    <2>1. DOMAIN ReadyJobs' \cap DOMAIN DoneJobs' = {}
      BY <1>1 DEF FindMetadata, Restrict, MetaIn, ReadyStatus, DoneStatus
    <2> QED BY <1>1, <2>1 DEF FindMetadata, MapsConsistent, StartsAllocated, OnlyWhenApplying,
                              NoChanges, EmptyMap, Groups
  <1>2. CASE ListMPIJobs
    <2> DEFINE active   == ActiveJobs \cap DOMAIN ReadyJobs
               finished == (DOMAIN mpijobs \ ActiveJobs) \cap DOMAIN ReadyJobs
    <2>1. /\ DOMAIN ReadyJobs' = DOMAIN ReadyJobs \ finished
          /\ DOMAIN DoneJobs' = DOMAIN DoneJobs \cup finished
          /\ DOMAIN JobNumGPU' = active
      BY <1>2 DEF ListMPIJobs, JobsDone, Without, Restrict
    <2>2. todo = NoChanges /\ UNCHANGED todo /\ proc' = "syncing"
      BY <1>2 DEF ListMPIJobs, OnlyWhenApplying
    <2> QED BY <2>1, <2>2 DEF MapsConsistent, StartsAllocated, OnlyWhenApplying, NoChanges, Groups
  <1>3. CASE CacheSynced
    BY <1>3, SameMaps DEF CacheSynced
  <1> QED BY <1>1, <1>2, <1>3 DEF Restart

\* MapsInv is inductive.
LEMMA NextMaps == ASSUME MapsInv, [Next]_vars PROVE MapsInv'
  <1>0. TypeOK'
    BY NextType DEF MapsInv
  <1> SUFFICES MapsConsistent' /\ StartsAllocated' /\ OnlyWhenApplying'
    BY <1>0 DEF MapsInv
  <1>1. CASE Service \/ \E j \in Jobs : MPIJobUpdated(j)
    <2>1. UNCHANGED <<memory, todo, proc>>
      BY <1>1 DEF Service, InsertMetadata, RemoveMetadata, Publish, MPIJobUpdated, control
    <2> QED BY <2>1, SameMaps
  <1>2. CASE PriorityChanged \/ ConfigureAlgorithm
    BY <1>2, SameMaps DEF PriorityChanged, ConfigureAlgorithm
  <1>3. CASE ReschedStep
    <2>1. CASE \E event \in reschedCh : Resched(event)
      BY <2>1, ReschedMaps
    <2>2. CASE \E event \in reschedCh : ReschedFails(event)
      BY <2>2, SameMaps DEF ReschedFails, MapsInv, OnlyWhenApplying
    <2>3. CASE \E j \in Jobs : HaltTrainingJob(j)
      <3>1. PICK j \in Jobs : HaltTrainingJob(j)
        BY <2>3
      <3>2. DOMAIN ReadyJobs' = DOMAIN ReadyJobs /\ Apply("halts", j) /\ UNCHANGED <<proc, JobNumGPU, DoneJobs>>
        BY <3>1 DEF HaltTrainingJob, MarkHalted, Rejected
      <3> QED BY <3>2, ApplyMaps DEF Groups
    <2>4. CASE \E j \in Jobs : StartTrainingJob(j)
      <3>1. PICK j \in Jobs : StartTrainingJob(j)
        BY <2>4
      <3>2. DOMAIN ReadyJobs' = DOMAIN ReadyJobs /\ Apply("starts", j) /\ UNCHANGED <<proc, JobNumGPU, DoneJobs>>
        BY <3>1 DEF StartTrainingJob, Rejected
      <3> QED BY <3>2, ApplyMaps DEF Groups
    <2>5. CASE \E j \in Jobs, g \in {"scaleIns", "scaleOuts"} : ScaleTrainingJob(g, j)
      BY <2>5, ApplyMaps DEF ScaleTrainingJob, memory, Groups
    <2>6. CASE Unlock \/ ReschedEnd
      BY <2>6, SameMaps DEF Unlock, ReschedEnd
    <2> QED BY <1>3, <2>1, <2>2, <2>3, <2>4, <2>5, <2>6 DEF ReschedStep
  <1>4. CASE Crash
    BY <1>4 DEF Crash, MapsConsistent, StartsAllocated, OnlyWhenApplying, NoChanges, EmptyMap, Groups
  <1>5. CASE UNCHANGED vars
    BY <1>5, SameMaps DEF vars, control
  <1> QED BY <1>1, <1>2, <1>3, <1>4, <1>5, ReadMsgMaps, UpdateMPIJobMaps, RestartMaps DEF Next

\* The inductive invariant behind the first two theorems.
LEMMA MapsInvariant == Spec => []MapsInv
  <1>1. Init => MapsInv
    BY InitMaps
  <1>2. MapsInv /\ [Next]_vars => MapsInv'
    BY NextMaps
  <1> QED BY <1>1, <1>2, PTL DEF Spec

\* Types: every variable always has its type.
THEOREM TypeCorrect == Spec => []TypeOK
  <1>1. MapsInv => TypeOK
    BY DEF MapsInv
  <1> QED BY <1>1, MapsInvariant, PTL

\* The scheduler's maps are consistent in every state: no job is both ready and
\* done, only ready jobs have GPUs, and what applySchedulerResults has yet to
\* start, resize or halt is a ready job, so that no map access yields nil.
THEOREM MapsAlwaysConsistent == Spec => []MapsConsistent
  <1>1. MapsInv => MapsConsistent
    BY DEF MapsInv
  <1> QED BY <1>1, MapsInvariant, PTL

(***************************************************************************)
(* A running job has an MPIJob.                                            *)
(***************************************************************************)

\* MongoDB never says that a job is running: startTrainingJob does not save it.
NeverSavedRunning == \A j \in DOMAIN metadata : metadata[j] # "Running"

Backed ==
    "unanswered" \notin mishaps =>
        \A j \in DOMAIN ReadyJobs : ReadyJobs[j] = "Running" => j \in DOMAIN mpijobs

BackedInv == NeverSavedRunning /\ Backed

\* Initially nothing is running.
LEMMA InitBacked == ASSUME Init PROVE BackedInv
  BY DEF Init, BackedInv, NeverSavedRunning, Backed, EmptyMap

\* A step that changes neither the documents, nor the ready jobs, nor the keys
\* of the MPIJobs.
LEMMA SameBacked ==
    ASSUME BackedInv, UNCHANGED <<metadata, ReadyJobs>>, DOMAIN mpijobs \subseteq DOMAIN mpijobs',
           mishaps \subseteq mishaps'
    PROVE  BackedInv'
  BY DEF BackedInv, NeverSavedRunning, Backed

\* The training service writes no document with the status Running.
LEMMA ServiceBacked == ASSUME BackedInv, Service PROVE BackedInv'
  <1>1. UNCHANGED <<ReadyJobs, mpijobs>>
    BY DEF Service, InsertMetadata, RemoveMetadata, Publish, memory
  <1>2. "unanswered" \notin mishaps' => "unanswered" \notin mishaps
    BY DEF Service, InsertMetadata, RemoveMetadata, Publish, history, NoFault, Fault
  <1>3. NeverSavedRunning'
    <2>1. CASE UNCHANGED metadata
      BY <2>1 DEF BackedInv, NeverSavedRunning
    <2>2. CASE \E j \in Jobs : metadata' = Put(metadata, j, "Submitted")
      BY <2>2 DEF BackedInv, NeverSavedRunning, Put
    <2>3. CASE \E j : metadata' = Without(metadata, {j})
      BY <2>3 DEF BackedInv, NeverSavedRunning, Without, Restrict
    <2> QED BY <2>1, <2>2, <2>3 DEF Service, InsertMetadata, RemoveMetadata, Publish, RollBack
  <1> QED BY <1>1, <1>2, <1>3 DEF BackedInv, Backed

\* The MPIJob of a running job is deleted only with the job.
LEMMA ReadMsgBacked == ASSUME BackedInv, ReadMsg PROVE BackedInv'
  <1> DEFINE j == Head(queue).job
  <1>1. mishaps \subseteq mishaps'
    BY DEF ReadMsg, CreateTrainingJob, DeleteTrainingJob, NoFault, Fault
  <1>2. CASE CreateTrainingJob(j) /\ UNCHANGED mpijobs
    <2>1. NeverSavedRunning'
      BY <1>2 DEF CreateTrainingJob, BackedInv, NeverSavedRunning, Put
    <2>2. ReadyJobs' = ReadyJobs \/ ReadyJobs' = Put(ReadyJobs, j, "Waiting")
      BY <1>2 DEF CreateTrainingJob, memory
    <2> QED BY <1>1, <1>2, <2>1, <2>2 DEF BackedInv, Backed, Put
  <1>3. CASE DeleteTrainingJob(j) /\ UNCHANGED metadata
    <2>1. mpijobs' \in {mpijobs, Without(mpijobs, {j})}
      BY <1>3 DEF DeleteTrainingJob
    <2>2. /\ DOMAIN ReadyJobs' = DOMAIN ReadyJobs \ {j}
          /\ \A i \in DOMAIN ReadyJobs \ {j} : ReadyJobs'[i] = ReadyJobs[i]
      BY <1>3 DEF DeleteTrainingJob, Without, Restrict
    <2>3. DOMAIN mpijobs \ {j} \subseteq DOMAIN mpijobs'
      BY <2>1 DEF Without, Restrict
    <2> QED BY <1>1, <1>3, <2>2, <2>3 DEF BackedInv, NeverSavedRunning, Backed
  <1> QED BY <1>2, <1>3 DEF ReadMsg

\* Jobs that are done leave the ready jobs; none begins to run.
LEMMA JobsDoneBacked ==
    ASSUME BackedInv, NEW ready, NEW done, JobsDone(ready, done),
           \A j \in DOMAIN done : done[j] \in DoneStatus,
           DOMAIN mpijobs \subseteq DOMAIN mpijobs',
           "unanswered" \notin mishaps =>
               \A j \in DOMAIN ready : ready[j] = "Running" => j \in DOMAIN mpijobs
    PROVE  BackedInv'
  <1>1. mishaps \subseteq mishaps'
    BY DEF JobsDone, NoFault, Fault
  <1>2. NeverSavedRunning'
    BY DEF JobsDone, BackedInv, NeverSavedRunning, DoneStatus
  <1> QED BY <1>1, <1>2 DEF BackedInv, Backed, JobsDone, Without, Restrict

\* A notice removes its job from the ready ones.
LEMMA UpdateMPIJobBacked == ASSUME BackedInv, NEW j \in Jobs, UpdateMPIJob(j) PROVE BackedInv'
  <1> DEFINE done == [i \in {j} |-> DoneAs(Head(updates[j]))]
  <1>1. CASE UNCHANGED <<memory, metadata>> /\ NoFault
    BY <1>1, SameBacked DEF UpdateMPIJob, NoFault, memory
  <1>2. CASE JobsDone(ReadyJobs, done)
    BY <1>2, JobsDoneBacked, DoneAsType DEF UpdateMPIJob, BackedInv, Backed
  <1> QED BY <1>1, <1>2 DEF UpdateMPIJob

\* A job becomes Running after its MPIJob is created, and a call that deletes one
\* marks it as halted, unless the call is unanswered.
LEMMA ReschedStepBacked == ASSUME BackedInv, ReschedStep PROVE BackedInv'
  <1>1. mishaps \subseteq mishaps'
    BY DEF ReschedStep, Resched, ReschedFails, HaltTrainingJob, StartTrainingJob,
           ScaleTrainingJob, Unlock, ReschedEnd, Rejected, NoFault, Fault, history
  <1>2. UNCHANGED metadata
    BY DEF ReschedStep, Resched, ReschedFails, HaltTrainingJob, StartTrainingJob,
           ScaleTrainingJob, Unlock, ReschedEnd
  <1>3. CASE \E j \in Jobs : HaltTrainingJob(j)
    <2>1. PICK j \in Jobs : HaltTrainingJob(j)
      BY <1>3
    <2>2. CASE UNCHANGED <<mpijobs, ReadyJobs>>
      BY <1>1, <1>2, <2>2, SameBacked
    <2>3. CASE mpijobs' = Without(mpijobs, {j}) /\ MarkHalted(j)
      BY <1>1, <1>2, <2>3 DEF BackedInv, NeverSavedRunning, Backed, Without, Restrict, MarkHalted
    <2>4. CASE "unanswered" \in mishaps'
      BY <1>2, <2>4 DEF BackedInv, NeverSavedRunning, Backed
    <2> QED BY <2>1, <2>2, <2>3, <2>4 DEF HaltTrainingJob, Rejected, Fault
  <1>4. CASE \E j \in Jobs : StartTrainingJob(j)
    <2>1. PICK j \in Jobs : StartTrainingJob(j)
      BY <1>4
    <2>2. CASE UNCHANGED ReadyJobs
      <3>1. DOMAIN mpijobs \subseteq DOMAIN mpijobs'
        BY <2>1 DEF StartTrainingJob, Rejected, Put
      <3> QED BY <1>1, <1>2, <2>2, <3>1, SameBacked
    <2>3. CASE /\ ReadyJobs' = [ReadyJobs EXCEPT ![j] = "Running"]
               /\ mpijobs' = Put(mpijobs, j, [replicas |-> JobNumGPU[j], phase |-> "Active"])
      <3>1. DOMAIN mpijobs' = DOMAIN mpijobs \cup {j}
        BY <2>3 DEF Put
      <3> QED BY <1>1, <1>2, <2>3, <3>1 DEF BackedInv, NeverSavedRunning, Backed
    <2> QED BY <2>1, <2>2, <2>3 DEF StartTrainingJob, Rejected
  <1>5. CASE UNCHANGED ReadyJobs /\ DOMAIN mpijobs \subseteq DOMAIN mpijobs'
    BY <1>1, <1>2, <1>5, SameBacked
  <1> QED BY <1>3, <1>4, <1>5 DEF ReschedStep, Resched, ReschedFails,
              ScaleTrainingJob, Unlock, ReschedEnd, memory

\* After a restart a job is Running only if its MPIJob has been listed.
LEMMA RestartBacked == ASSUME BackedInv, Restart PROVE BackedInv'
  <1>1. CASE FindMetadata
    BY <1>1 DEF FindMetadata, Restrict, MetaIn, BackedInv, NeverSavedRunning, Backed
  <1>2. CASE ListMPIJobs
    <2> DEFINE active   == ActiveJobs \cap DOMAIN ReadyJobs
               finished == (DOMAIN mpijobs \ ActiveJobs) \cap DOMAIN ReadyJobs
               ready    == [j \in DOMAIN ReadyJobs |->
                               IF j \in active THEN "Running" ELSE ReadyJobs[j]]
               done     == [j \in finished |-> DoneAs(mpijobs[j].phase)]
    <2>1. JobsDone(ready, done) /\ UNCHANGED mpijobs
      BY <1>2 DEF ListMPIJobs
    <2>2. "unanswered" \notin mishaps =>
              \A j \in DOMAIN ready : ready[j] = "Running" => j \in DOMAIN mpijobs
      BY DEF BackedInv, Backed, ActiveJobs
    <2>3. \A j \in DOMAIN done : done[j] \in DoneStatus
      BY DoneAsType
    <2> QED BY <2>1, <2>2, <2>3, JobsDoneBacked
  <1>3. CASE CacheSynced
    BY <1>3, SameBacked DEF CacheSynced, memory, history
  <1> QED BY <1>1, <1>2, <1>3 DEF Restart

\* BackedInv is inductive.
LEMMA NextBacked == ASSUME BackedInv, [Next]_vars PROVE BackedInv'
  <1>1. CASE \E j \in Jobs : MPIJobUpdated(j)
    <2>1. PICK j \in Jobs : MPIJobUpdated(j)
      BY <1>1
    <2> QED BY <2>1, SameBacked DEF MPIJobUpdated, memory, history
  <1>2. CASE PriorityChanged \/ ConfigureAlgorithm \/ UNCHANGED vars
    BY <1>2, SameBacked DEF PriorityChanged, ConfigureAlgorithm, vars, memory, history
  <1>3. CASE Crash
    BY <1>3 DEF Crash, EmptyMap, BackedInv, NeverSavedRunning, Backed
  <1> QED BY <1>1, <1>2, <1>3, ServiceBacked, ReadMsgBacked, UpdateMPIJobBacked,
             ReschedStepBacked, RestartBacked DEF Next

\* Whatever crashes, is lost, is refused or comes late, a job whose status is
\* Running has an MPIJob, unless a deletion took effect and returned an error.
THEOREM RunningAlwaysBacked == Spec => []RunningIsBacked
  <1>1. Init => BackedInv
    BY InitBacked
  <1>2. BackedInv /\ [Next]_vars => BackedInv'
    BY NextBacked
  <1>3. BackedInv => RunningIsBacked
    BY DEF BackedInv, Backed, RunningIsBacked, NoneOf
  <1> QED BY <1>1, <1>2, <1>3, PTL DEF Spec

-----------------------------------------------------------------------------
(***************************************************************************)
(* Scheduler implements JobLifecycle.                                      *)
(***************************************************************************)

(***************************************************************************)
(* What the steps need besides the consistency of the maps.                *)
(***************************************************************************)

\* Documents and ready jobs are those of names that have been submitted.
OnlySubmitted ==
    /\ DOMAIN metadata \subseteq submitted
    /\ DOMAIN ReadyJobs \subseteq submitted

\* A deletion is published after the document is gone.
DeletedFirst ==
    \A m \in outbox \cup Range(queue) :
        m.verb = "delete" => m.job \in submitted \ DOMAIN metadata

\* A scheduler knows the jobs that are done according to MongoDB, so that it
\* neither accepts them again nor holds them for ready.
DoneIsKnown ==
    /\ proc = "down" => DOMAIN ReadyJobs = {}
    /\ proc # "down" => MetaIn(DoneStatus) \subseteq DOMAIN DoneJobs

LifeInv == MapsInv /\ OnlySubmitted /\ DeletedFirst /\ DoneIsKnown

(***************************************************************************)
(* LifeInv is inductive.                                                   *)
(***************************************************************************)

\* Nothing exists initially.
LEMMA InitLife == ASSUME Init PROVE LifeInv
  <1>1. MapsInv
    BY InitMaps
  <1>2. Range(queue) = {}
    BY DEF Init, Range
  <1> QED BY <1>1, <1>2 DEF Init, LifeInv, OnlySubmitted, DeletedFirst, DoneIsKnown, EmptyMap

\* A step of the scheduler that adds or removes no job.
LEMMA SameLife ==
    ASSUME LifeInv, UNCHANGED <<metadata, submitted, outbox, queue>>,
           DOMAIN ReadyJobs' = DOMAIN ReadyJobs, DOMAIN DoneJobs' = DOMAIN DoneJobs,
           proc' = "down" <=> proc = "down"
    PROVE  (OnlySubmitted /\ DeletedFirst /\ DoneIsKnown)'
  BY DEF LifeInv, OnlySubmitted, DeletedFirst, DoneIsKnown, MetaIn

\* The training service writes documents of new names only, and publishes
\* deletions of documents that it has removed.
LEMMA ServiceLife ==
    ASSUME LifeInv, Service PROVE (OnlySubmitted /\ DeletedFirst /\ DoneIsKnown)'
  <1> USE DEF LifeInv
  <1>1. UNCHANGED <<ReadyJobs, DoneJobs, proc>>
    BY DEF Service, InsertMetadata, RemoveMetadata, Publish, memory, control
  <1>2. CASE \E j \in Jobs : InsertMetadata(j)
    <2>1. PICK j \in Jobs : InsertMetadata(j)
      BY <1>2
    <2>2. DOMAIN metadata' = DOMAIN metadata \cup {j} /\ MetaIn(DoneStatus)' \subseteq MetaIn(DoneStatus)
      BY <2>1 DEF InsertMetadata, Put, MetaIn, DoneStatus
    <2>3. OnlySubmitted' /\ DoneIsKnown'
      BY <1>1, <2>1, <2>2 DEF InsertMetadata, OnlySubmitted, DoneIsKnown
    <2>4. DeletedFirst'
      BY <2>1, <2>2 DEF InsertMetadata, DeletedFirst
    <2> QED BY <2>3, <2>4
  <1>3. CASE \E j \in Jobs : RemoveMetadata(j)
    <2>1. PICK j \in Jobs : RemoveMetadata(j)
      BY <1>3
    <2>2. DOMAIN metadata' = DOMAIN metadata \ {j} /\ MetaIn(DoneStatus)' \subseteq MetaIn(DoneStatus)
      BY <2>1 DEF RemoveMetadata, Without, Restrict, MetaIn
    <2>3. OnlySubmitted' /\ DoneIsKnown'
      BY <1>1, <2>1, <2>2 DEF RemoveMetadata, OnlySubmitted, DoneIsKnown
    <2>4. DeletedFirst'
      BY <2>1, <2>2 DEF RemoveMetadata, DeletedFirst, OnlySubmitted
    <2> QED BY <2>3, <2>4
  <1>4. CASE \E m \in outbox : Publish(m)
    <2>1. PICK m \in outbox : Publish(m)
      BY <1>4
    <2>2. DOMAIN metadata' \subseteq DOMAIN metadata /\ MetaIn(DoneStatus)' \subseteq MetaIn(DoneStatus)
      BY <2>1 DEF Publish, RollBack, Without, Restrict, MetaIn
    <2>3. OnlySubmitted' /\ DoneIsKnown'
      BY <1>1, <2>1, <2>2 DEF Publish, OnlySubmitted, DoneIsKnown
    <2>4. outbox' \cup Range(queue)' \subseteq outbox \cup Range(queue)
      <3>1. m \in Message /\ queue \in Seq(Message)
        BY DEF MapsInv, TypeOK
      <3>2. Range(Append(queue, m)) \subseteq Range(queue) \cup {m}
        BY <3>1, RangeAppend
      <3> QED BY <2>1, <3>2 DEF Publish
    <2>5. DeletedFirst'
      BY <2>1, <2>2, <2>4 DEF Publish, DeletedFirst
    <2> QED BY <2>3, <2>5
  <1> QED BY <1>2, <1>3, <1>4 DEF Service

\* A message: a creation of a document that exists, or a deletion of one that
\* does not.
LEMMA ReadMsgLife ==
    ASSUME LifeInv, ReadMsg PROVE (OnlySubmitted /\ DeletedFirst /\ DoneIsKnown)'
  <1> USE DEF LifeInv
  <1> DEFINE m == Head(queue)
  <1>1. Range(Tail(queue)) \subseteq Range(queue) /\ m \in Range(queue)
    BY RangeTail DEF MapsInv, TypeOK, ReadMsg
  <1>2. /\ proc # "down" /\ proc' = proc
        /\ UNCHANGED <<submitted, outbox>> /\ queue' = Tail(queue)
    BY DEF ReadMsg, LockFree, service
  <1>3. CASE CreateTrainingJob(m.job)
    <2>1. /\ DOMAIN metadata' = DOMAIN metadata
          /\ MetaIn(DoneStatus)' \subseteq MetaIn(DoneStatus)
          /\ DoneJobs' = DoneJobs
          /\ DOMAIN ReadyJobs' \subseteq DOMAIN ReadyJobs \cup DOMAIN metadata
      BY <1>3 DEF CreateTrainingJob, Put, MetaIn, DoneStatus, memory
    <2> QED BY <1>1, <1>2, <2>1 DEF OnlySubmitted, DeletedFirst, DoneIsKnown
  <1>4. CASE m.verb = "delete" /\ DeleteTrainingJob(m.job) /\ UNCHANGED metadata
    <2>1. m.job \notin DOMAIN metadata
      BY <1>1, <1>4 DEF DeletedFirst
    <2>2. /\ DOMAIN ReadyJobs' \subseteq DOMAIN ReadyJobs
          /\ DOMAIN DoneJobs \ {m.job} \subseteq DOMAIN DoneJobs'
      BY <1>4 DEF DeleteTrainingJob, Without, Restrict
    <2>3. MetaIn(DoneStatus)' = MetaIn(DoneStatus) /\ m.job \notin MetaIn(DoneStatus)
      BY <1>4, <2>1 DEF MetaIn
    <2> QED BY <1>1, <1>2, <1>4, <2>2, <2>3 DEF OnlySubmitted, DeletedFirst, DoneIsKnown
  <1> QED BY <1>3, <1>4 DEF ReadMsg

\* A job that is done according to MongoDB is so in memory.
LEMMA JobsDoneLife ==
    ASSUME LifeInv, NEW ready, NEW done, JobsDone(ready, done),
           DOMAIN ready = DOMAIN ReadyJobs,
           UNCHANGED <<submitted, outbox, queue>>, proc # "down", proc' # "down"
    PROVE  (OnlySubmitted /\ DeletedFirst /\ DoneIsKnown)'
  <1> USE DEF LifeInv
  <1>1. /\ DOMAIN ReadyJobs' \subseteq DOMAIN ReadyJobs
        /\ DOMAIN DoneJobs' = DOMAIN DoneJobs \cup DOMAIN done
    BY DEF JobsDone, Without, Restrict
  <1>2. /\ DOMAIN metadata' = DOMAIN metadata
        /\ MetaIn(DoneStatus)' \subseteq MetaIn(DoneStatus) \cup DOMAIN done
    BY DEF JobsDone, MetaIn
  <1> QED BY <1>1, <1>2 DEF OnlySubmitted, DeletedFirst, DoneIsKnown

\* A finish notice.
LEMMA UpdateMPIJobLife ==
    ASSUME LifeInv, NEW j \in Jobs, UpdateMPIJob(j)
    PROVE  (OnlySubmitted /\ DeletedFirst /\ DoneIsKnown)'
  <1>1. proc # "down" /\ proc' # "down" /\ UNCHANGED <<submitted, outbox, queue>>
    BY DEF UpdateMPIJob, LockFree, service
  <1>2. CASE UNCHANGED <<memory, metadata>>
    BY <1>1, <1>2, SameLife DEF memory
  <1>3. CASE JobsDone(ReadyJobs, [i \in {j} |-> DoneAs(Head(updates[j]))])
    BY <1>1, <1>3, JobsDoneLife
  <1> QED BY <1>2, <1>3 DEF UpdateMPIJob

\* The steps of resched() add and remove no job.
LEMMA ReschedStepLife ==
    ASSUME LifeInv, ReschedStep PROVE (OnlySubmitted /\ DeletedFirst /\ DoneIsKnown)'
  <1>1. /\ UNCHANGED <<metadata, submitted, outbox, queue, DoneJobs>>
        /\ proc # "down" /\ proc' # "down"
    BY DEF ReschedStep, Resched, ReschedFails, HaltTrainingJob, StartTrainingJob,
           ScaleTrainingJob, Apply, Turn, Unlock, ReschedEnd, memory, service
  <1>2. DOMAIN ReadyJobs' = DOMAIN ReadyJobs
    BY DEF ReschedStep, Resched, ReschedFails, HaltTrainingJob, StartTrainingJob, MarkHalted,
           ScaleTrainingJob, Rejected, Unlock, ReschedEnd, memory
  <1> QED BY <1>1, <1>2, SameLife

\* A restart reads from MongoDB which jobs are ready and which are done.
LEMMA RestartLife ==
    ASSUME LifeInv, Restart PROVE (OnlySubmitted /\ DeletedFirst /\ DoneIsKnown)'
  <1>1. CASE FindMetadata
    <2>1. /\ DOMAIN ReadyJobs' \subseteq DOMAIN metadata
          /\ DOMAIN DoneJobs' = MetaIn(DoneStatus)
      BY <1>1 DEF FindMetadata, Restrict, MetaIn
    <2> QED BY <1>1, <2>1
            DEF FindMetadata, service, LifeInv, OnlySubmitted, DeletedFirst, DoneIsKnown, MetaIn
  <1>2. CASE ListMPIJobs
    <2> DEFINE active == ActiveJobs \cap DOMAIN ReadyJobs
               finished == (DOMAIN mpijobs \ ActiveJobs) \cap DOMAIN ReadyJobs
               ready == [j \in DOMAIN ReadyJobs |->
                            IF j \in active THEN "Running" ELSE ReadyJobs[j]]
               done  == [j \in finished |-> DoneAs(mpijobs[j].phase)]
    <2>1. JobsDone(ready, done)
      BY <1>2 DEF ListMPIJobs
    <2>2. DOMAIN ready = DOMAIN ReadyJobs
      OBVIOUS
    <2> HIDE DEF ready, done
    <2> QED BY <1>2, <2>1, <2>2, JobsDoneLife DEF ListMPIJobs, service
  <1>3. CASE CacheSynced
    BY <1>3, SameLife DEF CacheSynced, memory, service
  <1> QED BY <1>1, <1>2, <1>3 DEF Restart

\* A crash empties the memory and may lose messages.
LEMMA CrashLife ==
    ASSUME LifeInv, Crash PROVE (OnlySubmitted /\ DeletedFirst /\ DoneIsKnown)'
  <1>1. PICK n \in 0..Len(queue) : queue' = SubSeq(queue, n + 1, Len(queue))
    BY DEF Crash
  <1>2. Range(queue') \subseteq Range(queue)
    BY <1>1, RangeSuffix DEF LifeInv, MapsInv, TypeOK
  <1> QED BY <1>2 DEF Crash, service, LifeInv, OnlySubmitted, DeletedFirst, DoneIsKnown, EmptyMap

\* Every step preserves LifeInv.
LEMMA NextLife == ASSUME LifeInv, [Next]_vars PROVE LifeInv'
  <1>1. MapsInv'
    BY NextMaps DEF LifeInv
  <1>2. CASE \E j \in Jobs : MPIJobUpdated(j)
    BY <1>1, <1>2, SameLife DEF MPIJobUpdated, memory, control, service, LifeInv
  <1>3. CASE PriorityChanged \/ ConfigureAlgorithm \/ UNCHANGED vars
    BY <1>1, <1>3, SameLife
    DEF PriorityChanged, ConfigureAlgorithm, vars, memory, control, service, LifeInv
  <1> QED BY <1>1, <1>2, <1>3, ServiceLife, ReadMsgLife, UpdateMPIJobLife, ReschedStepLife,
             RestartLife, CrashLife DEF Next, LifeInv

(***************************************************************************)
(* The steps, job by job.                                                  *)
(***************************************************************************)

\* A step moves the phase of j as JobLifecycle allows.
MovesOn(j) ==
    \/ PhaseOf(j)' = PhaseOf(j)
    \/ PhaseOf(j) = "new" /\ PhaseOf(j)' = "submitted"
    \/ PhaseOf(j) = "submitted" /\ PhaseOf(j)' = "accepted"
    \/ PhaseOf(j) = "accepted" /\ PhaseOf(j)' \in {"submitted", "deleting"} \cup EndsOf(j)
    \/ PhaseOf(j) \in {"submitted", "accepted", "deleting"} \cup DoneStatus /\ PhaseOf(j)' = "deleted"

\* A step changes the executions of j as JobLifecycle allows.
ExecutesOn(j) ==
    \/ /\ j \in ActiveJobs' \ ActiveJobs
       /\ PhaseOf(j) \in {"accepted", "deleting"}
       /\ KnownEnds(j)' \subseteq KnownEnds(j)
    \/ /\ j \in ActiveJobs \ ActiveJobs'
       /\ \E phase \in FinishPhase : KnownEnds(j)' \subseteq KnownEnds(j) \cup {phase}
    \/ /\ j \in ActiveJobs <=> j \in ActiveJobs'
       /\ KnownEnds(j)' \subseteq KnownEnds(j)

\* MovesOn is what JobLifecycle calls Move.
LEMMA MoveAllowed == ASSUME NEW j \in Jobs, MovesOn(j) PROVE Lifecycle!Move(j)
  BY DEF MovesOn, Lifecycle!Move, Lifecycle!Submit, Lifecycle!Accept, Lifecycle!Forget,
         Lifecycle!Report, Lifecycle!Delete, Lifecycle!Withdraw, Lifecycle!Outcomes, DoneStatus

\* ExecutesOn implies what JobLifecycle calls Execute.
LEMMA ExecuteAllowed == ASSUME NEW j \in Jobs, ExecutesOn(j) PROVE Lifecycle!Execute(j)
  <1>1. \A phase \in FinishPhase : Outcome(phase) \in Lifecycle!Outcomes
    BY DEF FinishPhase, Outcome, Lifecycle!Outcomes
  <1>2. CASE KnownEnds(j)' \subseteq KnownEnds(j)
    <2>1. EndsOf(j)' \subseteq EndsOf(j)
      BY <1>2 DEF EndsOf
    <2>2. \E outcome \in Lifecycle!Outcomes : TRUE
      BY DEF Lifecycle!Outcomes
    <2> QED BY <2>1, <2>2 DEF ExecutesOn, Lifecycle!Execute, Lifecycle!Start, Lifecycle!End,
                             Lifecycle!GoOn
  <1>3. CASE /\ j \in ActiveJobs \ ActiveJobs'
             /\ \E phase \in FinishPhase : KnownEnds(j)' \subseteq KnownEnds(j) \cup {phase}
    <2>1. PICK phase \in FinishPhase : KnownEnds(j)' \subseteq KnownEnds(j) \cup {phase}
      BY <1>3
    <2>2. EndsOf(j)' \subseteq EndsOf(j) \cup {Outcome(phase)}
      BY <2>1 DEF EndsOf
    <2> QED BY <1>1, <1>3, <2>2 DEF Lifecycle!Execute, Lifecycle!End
  <1> QED BY <1>2, <1>3 DEF ExecutesOn

\* The phase of a job stays if neither its document nor its readiness changes.
LEMMA SamePhase ==
    ASSUME NEW j \in Jobs, UNCHANGED submitted, j \in DOMAIN ReadyJobs' <=> j \in DOMAIN ReadyJobs,
           j \in DOMAIN metadata' <=> j \in DOMAIN metadata,
           j \in DOMAIN metadata => metadata'[j] = metadata[j]
    PROVE  MovesOn(j)
  BY DEF MovesOn, PhaseOf

\* The executions of a job stay if its MPIJob and its notices do, or notices are
\* forgotten.
LEMMA SameExecutions ==
    ASSUME NEW j \in Jobs, UNCHANGED mpijobs, Range(updates'[j]) \subseteq Range(updates[j])
    PROVE  ExecutesOn(j)
  BY DEF ExecutesOn, KnownEnds, ActiveJobs

\* The phases that a ready job can have.
LEMMA ReadyPhase ==
    ASSUME LifeInv, NEW j \in DOMAIN ReadyJobs
    PROVE  /\ j \in submitted /\ j \notin MetaIn(DoneStatus)
           /\ PhaseOf(j) = IF j \in DOMAIN metadata THEN "accepted" ELSE "deleting"
  <1>1. j \in submitted /\ j \notin MetaIn(DoneStatus)
    BY DEF LifeInv, OnlySubmitted, DoneIsKnown, MapsInv, MapsConsistent
  <1> QED BY <1>1 DEF PhaseOf, MetaIn

\* The removal of a document.
LEMMA RemovedMoves ==
    ASSUME LifeInv, NEW i \in Jobs, metadata' = Without(metadata, {i}),
           UNCHANGED <<submitted, ReadyJobs>>, NEW j \in Jobs
    PROVE  MovesOn(j)
  <1>1. /\ DOMAIN metadata' = DOMAIN metadata \ {i}
        /\ \A k \in DOMAIN metadata \ {i} : metadata'[k] = metadata[k]
    BY DEF Without, Restrict
  <1>2. CASE j # i \/ j \notin DOMAIN metadata
    BY <1>1, <1>2, SamePhase
  <1>3. CASE j = i /\ j \in DOMAIN metadata
    <2>1. j \in submitted
      BY <1>3 DEF LifeInv, OnlySubmitted
    <2>2. CASE j \in DOMAIN ReadyJobs
      <3>1. PhaseOf(j) = "accepted" /\ PhaseOf(j)' = "deleting"
        BY <1>1, <1>3, <2>1, <2>2, ReadyPhase DEF PhaseOf
      <3> QED BY <3>1 DEF MovesOn
    <2>3. CASE j \notin DOMAIN ReadyJobs
      <3>1. PhaseOf(j)' = "deleted"
        BY <1>1, <1>3, <2>1, <2>3 DEF PhaseOf
      <3>2. PhaseOf(j) \in {"submitted", "accepted"} \cup DoneStatus
        BY <1>3, <2>1, <2>3 DEF PhaseOf
      <3> QED BY <3>1, <3>2 DEF MovesOn
    <2> QED BY <2>2, <2>3
  <1> QED BY <1>2, <1>3

\* The steps of the training service.
LEMMA ServiceSteps ==
    ASSUME LifeInv, Service, NEW j \in Jobs PROVE MovesOn(j) /\ ExecutesOn(j)
  <1>1. UNCHANGED <<ReadyJobs, mpijobs, updates>>
    BY DEF Service, InsertMetadata, RemoveMetadata, Publish, memory
  <1>2. ExecutesOn(j)
    BY <1>1, SameExecutions
  <1>3. CASE \E i \in Jobs : InsertMetadata(i)
    <2>1. PICK i \in Jobs : InsertMetadata(i)
      BY <1>3
    <2>2. CASE j = i
      <3>1. PhaseOf(j) = "new"
        BY <2>1, <2>2 DEF InsertMetadata, PhaseOf
      <3>2. j \in submitted' /\ j \in DOMAIN metadata' /\ metadata'[j] = "Submitted"
        BY <2>1, <2>2 DEF InsertMetadata, Put
      <3>3. j \notin DOMAIN ReadyJobs'
        BY <1>1, <2>1, <2>2 DEF InsertMetadata, LifeInv, OnlySubmitted
      <3>4. PhaseOf(j)' = "submitted"
        BY <3>2, <3>3 DEF PhaseOf, DoneStatus, ReadyStatus
      <3> QED BY <1>2, <3>1, <3>4 DEF MovesOn
    <2>3. CASE j # i
      <3>1. /\ j \in submitted' <=> j \in submitted
            /\ j \in DOMAIN metadata' <=> j \in DOMAIN metadata
            /\ j \in DOMAIN metadata => metadata'[j] = metadata[j]
        BY <2>1, <2>3 DEF InsertMetadata, Put
      <3>2. PhaseOf(j)' = PhaseOf(j)
        BY <1>1, <3>1 DEF PhaseOf
      <3> QED BY <1>2, <3>2 DEF MovesOn
    <2> QED BY <1>2, <2>2, <2>3
  <1>4. CASE \E i \in Jobs : RemoveMetadata(i)
    <2>1. PICK i \in Jobs : metadata' = Without(metadata, {i}) /\ UNCHANGED submitted
      BY <1>4 DEF RemoveMetadata
    <2> QED BY <1>1, <1>2, <2>1, RemovedMoves
  <1>5. CASE \E m \in outbox : Publish(m)
    <2>1. PICK m \in outbox : Publish(m)
      BY <1>5
    <2>2. m.job \in Jobs
      BY DEF LifeInv, MapsInv, TypeOK, Message
    <2>3. UNCHANGED submitted /\ (UNCHANGED metadata \/ metadata' = Without(metadata, {m.job}))
      BY <2>1 DEF Publish, RollBack
    <2> QED BY <1>1, <1>2, <2>2, <2>3, RemovedMoves, SamePhase
  <1> QED BY <1>3, <1>4, <1>5 DEF Service

\* The MPIJob of i ends, or something of a finished one is written again.
LEMMA MPIJobUpdatedSteps ==
    ASSUME LifeInv, NEW i \in Jobs, MPIJobUpdated(i), NEW j \in Jobs
    PROVE  MovesOn(j) /\ ExecutesOn(j)
  <1>1. MovesOn(j)
    BY SamePhase DEF MPIJobUpdated, memory, service
  <1>2. PICK phase \in FinishPhase :
            /\ mpijobs[i].phase \in {"Active", phase}
            /\ mpijobs' = [mpijobs EXCEPT ![i].phase = phase]
            /\ updates' \in {updates, [updates EXCEPT ![i] = Append(@, phase)]}
    BY DEF MPIJobUpdated
  <1>3. i \in DOMAIN mpijobs /\ mpijobs[i] \in MPIJob /\ DOMAIN mpijobs' = DOMAIN mpijobs
    BY <1>2 DEF MPIJobUpdated, LifeInv, MapsInv, TypeOK, IsMap
  <1>4. mpijobs'[i].phase = phase /\ phase # "Active"
    BY <1>2, <1>3 DEF MPIJob, FinishPhase
  <1>5. updates \in [Jobs -> Seq(FinishPhase)]
    BY DEF LifeInv, MapsInv, TypeOK
  <1>6. Range(updates'[i]) \subseteq Range(updates[i]) \cup {phase}
    <2>1. Range(Append(updates[i], phase)) \subseteq Range(updates[i]) \cup {phase}
      BY <1>5, RangeAppend
    <2> QED BY <1>2, <1>5, <2>1
  <1>7. CASE j # i
    <2>1. updates'[j] = updates[j]
      BY <1>2, <1>5, <1>7
    <2>2. j \in DOMAIN mpijobs => mpijobs'[j] = mpijobs[j]
      BY <1>2, <1>7
    <2>3. KnownEnds(j)' = KnownEnds(j) /\ (j \in ActiveJobs <=> j \in ActiveJobs')
      BY <1>3, <2>1, <2>2 DEF KnownEnds, ActiveJobs
    <2> QED BY <1>1, <2>3 DEF ExecutesOn
  <1>8. CASE j = i
    <2>1. KnownEnds(j)' \subseteq KnownEnds(j) \cup {phase} /\ j \notin ActiveJobs'
      BY <1>4, <1>6, <1>8 DEF KnownEnds, ActiveJobs
    <2>2. CASE j \in ActiveJobs
      BY <1>1, <2>1, <2>2 DEF ExecutesOn
    <2>3. CASE j \notin ActiveJobs
      <3>1. phase \in KnownEnds(j)
        BY <1>2, <1>3, <1>8, <2>3 DEF ActiveJobs, KnownEnds
      <3>2. KnownEnds(j)' \subseteq KnownEnds(j)
        BY <2>1, <3>1
      <3> QED BY <1>1, <2>1, <2>3, <3>2 DEF ExecutesOn
    <2> QED BY <1>1, <2>2, <2>3
  <1> QED BY <1>7, <1>8

\* The removal of an MPIJob.
LEMMA RemovedExecutes ==
    ASSUME NEW i, mpijobs' = Without(mpijobs, {i}), UNCHANGED updates, NEW j \in Jobs
    PROVE  ExecutesOn(j)
  <1>1. /\ DOMAIN mpijobs' = DOMAIN mpijobs \ {i}
        /\ \A k \in DOMAIN mpijobs \ {i} : mpijobs'[k] = mpijobs[k]
    BY DEF Without, Restrict
  <1>2. KnownEnds(j)' \subseteq KnownEnds(j) /\ ActiveJobs' \subseteq ActiveJobs
    BY <1>1 DEF KnownEnds, ActiveJobs
  <1>3. \E phase \in FinishPhase : TRUE
    BY DEF FinishPhase
  <1> QED BY <1>2, <1>3 DEF ExecutesOn

\* A message: an acceptance, or the end of a deletion.
LEMMA ReadMsgSteps ==
    ASSUME LifeInv, ReadMsg, NEW j \in Jobs PROVE MovesOn(j) /\ ExecutesOn(j)
  <1> DEFINE m == Head(queue)
  <1>1. m \in Range(queue)
    BY RangeTail DEF LifeInv, MapsInv, TypeOK, ReadMsg
  <1>2. proc # "down" /\ UNCHANGED <<submitted, updates>>
    BY DEF ReadMsg, LockFree, service
  <1>3. CASE CreateTrainingJob(m.job) /\ UNCHANGED mpijobs
    <2>1. ExecutesOn(j)
      BY <1>2, <1>3, SameExecutions
    <2>2. CASE UNCHANGED <<ReadyJobs, metadata>>
      BY <1>2, <2>1, <2>2, SamePhase
    <2>3. CASE /\ ~JobExists(m.job) /\ m.job \in DOMAIN metadata
               /\ ReadyJobs' = Put(ReadyJobs, m.job, "Waiting")
               /\ UNCHANGED metadata \/ metadata' = Put(metadata, m.job, "Waiting")
      <3>1. CASE j # m.job
        BY <1>2, <2>1, <2>3, <3>1, SamePhase DEF Put
      <3>2. CASE j = m.job
        <4>1. j \notin MetaIn(DoneStatus) /\ j \in submitted /\ j \notin DOMAIN ReadyJobs
          BY <1>2, <2>3, <3>2 DEF LifeInv, DoneIsKnown, OnlySubmitted, JobExists
        <4>2. PhaseOf(j) \in {"submitted", "accepted"}
          BY <2>3, <3>2, <4>1 DEF PhaseOf, MetaIn
        <4>3. /\ j \in DOMAIN metadata' /\ j \in DOMAIN ReadyJobs' /\ j \in submitted'
              /\ metadata'[j] \notin DoneStatus
          BY <1>2, <2>3, <3>2, <4>1 DEF Put, MetaIn, DoneStatus
        <4>4. PhaseOf(j)' = "accepted"
          BY <4>3 DEF PhaseOf
        <4> QED BY <2>1, <4>2, <4>4 DEF MovesOn
      <3> QED BY <3>1, <3>2
    <2> QED BY <1>3, <2>2, <2>3 DEF CreateTrainingJob, memory
  <1>4. CASE m.verb = "delete" /\ DeleteTrainingJob(m.job) /\ UNCHANGED metadata
    <2>1. m.job \in submitted \ DOMAIN metadata
      BY <1>1, <1>4 DEF LifeInv, DeletedFirst
    <2>2. UNCHANGED mpijobs \/ mpijobs' = Without(mpijobs, {m.job})
      BY <1>4 DEF DeleteTrainingJob
    <2>3. ExecutesOn(j)
      BY <1>2, <2>2, SameExecutions, RemovedExecutes
    <2>4. UNCHANGED ReadyJobs \/ ReadyJobs' = Without(ReadyJobs, {m.job})
      BY <1>4 DEF DeleteTrainingJob
    <2>5. MovesOn(j)
      <3>1. CASE UNCHANGED ReadyJobs \/ j # m.job
        BY <1>2, <1>4, <2>4, <3>1, SamePhase DEF Without, Restrict
      <3>2. CASE ReadyJobs' = Without(ReadyJobs, {m.job}) /\ j = m.job
        <4>1. PhaseOf(j)' = "deleted"
          BY <1>2, <1>4, <2>1, <3>2 DEF PhaseOf, Without, Restrict
        <4>2. PhaseOf(j) \in {"deleting", "deleted"}
          BY <2>1, <3>2 DEF PhaseOf
        <4> QED BY <4>1, <4>2 DEF MovesOn
      <3> QED BY <2>4, <3>1, <3>2
    <2> QED BY <2>3, <2>5
  <1> QED BY <1>3, <1>4 DEF ReadMsg

\* The jobs of done leave the ready jobs with ends that they are known to have had.
LEMMA JobsDoneMoves ==
    ASSUME LifeInv, UNCHANGED submitted, NEW ready, NEW done, JobsDone(ready, done),
           DOMAIN ready = DOMAIN ReadyJobs, DOMAIN done \subseteq DOMAIN ReadyJobs,
           \A i \in DOMAIN done : done[i] \in EndsOf(i) /\ done[i] \in DoneStatus,
           NEW j \in Jobs
    PROVE  MovesOn(j)
  <1>1. DOMAIN ReadyJobs' = DOMAIN ReadyJobs \ DOMAIN done /\ DOMAIN metadata' = DOMAIN metadata
    BY DEF JobsDone, Without, Restrict
  <1>2. \/ UNCHANGED metadata
        \/ metadata' = [i \in DOMAIN metadata |-> IF i \in DOMAIN done THEN done[i] ELSE metadata[i]]
    BY DEF JobsDone
  <1>3. CASE j \notin DOMAIN done
    BY <1>1, <1>2, <1>3, SamePhase
  <1>4. CASE j \in DOMAIN done
    <2>1. j \in DOMAIN ReadyJobs /\ j \in submitted' /\ j \notin DOMAIN ReadyJobs'
      BY <1>1, <1>4, ReadyPhase
    <2>2. CASE j \notin DOMAIN metadata
      <3>1. PhaseOf(j) = "deleting" /\ PhaseOf(j)' = "deleted"
        BY <1>1, <2>1, <2>2, ReadyPhase DEF PhaseOf
      <3> QED BY <3>1 DEF MovesOn
    <2>3. CASE j \in DOMAIN metadata /\ UNCHANGED metadata
      <3>1. PhaseOf(j) = "accepted" /\ metadata[j] \notin DoneStatus
        BY <2>1, <2>3, ReadyPhase DEF MetaIn
      <3>2. PhaseOf(j)' \in {"accepted", "submitted"}
        BY <1>1, <2>1, <2>3, <3>1 DEF PhaseOf
      <3> QED BY <3>1, <3>2 DEF MovesOn
    <2>4. CASE j \in DOMAIN metadata /\ metadata'[j] = done[j]
      <3>1. PhaseOf(j) = "accepted"
        BY <2>1, <2>4, ReadyPhase
      <3>2. PhaseOf(j)' = done[j]
        BY <1>1, <1>4, <2>1, <2>4 DEF PhaseOf
      <3> QED BY <1>4, <3>1, <3>2 DEF MovesOn
    <2> QED BY <1>2, <1>4, <2>2, <2>3, <2>4
  <1> QED BY <1>3, <1>4

\* A finish notice.
LEMMA UpdateMPIJobSteps ==
    ASSUME LifeInv, NEW i \in Jobs, UpdateMPIJob(i), NEW j \in Jobs
    PROVE  MovesOn(j) /\ ExecutesOn(j)
  <1> DEFINE done == [k \in {i} |-> DoneAs(Head(updates[i]))]
  <1>1. UNCHANGED <<mpijobs, submitted>>
    BY DEF UpdateMPIJob, service
  <1>2. updates \in [Jobs -> Seq(FinishPhase)] /\ updates[i] # <<>>
    BY DEF UpdateMPIJob, LifeInv, MapsInv, TypeOK
  <1>3. Range(Tail(updates[i])) \subseteq Range(updates[i]) /\ Head(updates[i]) \in Range(updates[i])
    BY <1>2, RangeTail
  <1>4. Range(updates'[j]) \subseteq Range(updates[j])
    <2>1. updates' = [updates EXCEPT ![i] = Tail(@)]
      BY DEF UpdateMPIJob
    <2> QED BY <1>2, <1>3, <2>1
  <1>5. ExecutesOn(j)
    BY <1>1, <1>4, SameExecutions
  <1>6. CASE UNCHANGED <<memory, metadata>>
    BY <1>1, <1>5, <1>6, SamePhase DEF memory
  <1>7. CASE i \in DOMAIN ReadyJobs /\ JobsDone(ReadyJobs, done)
    <2>1. Head(updates[i]) \in FinishPhase
      BY <1>2, HeadTailProperties
    <2>2. done[i] \in EndsOf(i) /\ done[i] \in DoneStatus
      BY <1>3, <2>1, DoneAsType DEF EndsOf, KnownEnds, DoneAs, Outcome
    <2>3. DOMAIN done = {i}
      OBVIOUS
    <2> HIDE DEF done
    <2>4. MovesOn(j)
      BY <1>1, <1>7, <2>2, <2>3, JobsDoneMoves
    <2> QED BY <1>5, <2>4
  <1> QED BY <1>6, <1>7 DEF UpdateMPIJob

\* The steps of resched(): they start and stop executions of ready jobs.
LEMMA ReschedStepSteps ==
    ASSUME LifeInv, ReschedStep, NEW j \in Jobs PROVE MovesOn(j) /\ ExecutesOn(j)
  <1>1. UNCHANGED <<metadata, submitted, updates>>
    BY DEF ReschedStep, Resched, ReschedFails, HaltTrainingJob, StartTrainingJob,
           ScaleTrainingJob, Unlock, ReschedEnd, service
  <1>2. DOMAIN ReadyJobs' = DOMAIN ReadyJobs
    BY DEF ReschedStep, Resched, ReschedFails, HaltTrainingJob, StartTrainingJob, MarkHalted,
           ScaleTrainingJob, Rejected, Unlock, ReschedEnd, memory
  <1>3. MovesOn(j)
    BY <1>1, <1>2, SamePhase
  <1>4. CASE UNCHANGED mpijobs
    BY <1>1, <1>3, <1>4, SameExecutions
  <1>5. CASE \E i : mpijobs' = Without(mpijobs, {i})
    BY <1>1, <1>3, <1>5, RemovedExecutes
  <1>6. CASE \E i \in Jobs : StartTrainingJob(i)
    <2>1. PICK i \in Jobs : StartTrainingJob(i)
      BY <1>6
    <2>2. i \in DOMAIN ReadyJobs
      BY <2>1 DEF StartTrainingJob, Apply, LifeInv, MapsInv, MapsConsistent, Groups
    <2>3. CASE /\ i \notin DOMAIN mpijobs
               /\ mpijobs' = Put(mpijobs, i, [replicas |-> JobNumGPU[i], phase |-> "Active"])
      <3>1. /\ DOMAIN mpijobs' = DOMAIN mpijobs \cup {i} /\ mpijobs'[i].phase = "Active"
            /\ \A k \in DOMAIN mpijobs : mpijobs'[k] = mpijobs[k]
        BY <2>3 DEF Put
      <3>2. KnownEnds(j)' \subseteq KnownEnds(j)
        BY <1>1, <2>3, <3>1 DEF KnownEnds, FinishPhase
      <3>3. ActiveJobs' = ActiveJobs \cup {i} /\ i \notin ActiveJobs
        BY <2>3, <3>1 DEF ActiveJobs
      <3>4. PhaseOf(i) \in {"accepted", "deleting"}
        BY <2>2, ReadyPhase
      <3> QED BY <1>3, <3>2, <3>3, <3>4 DEF ExecutesOn
    <2> QED BY <1>4, <2>1, <2>3 DEF StartTrainingJob, Rejected
  <1>7. CASE \E i \in Jobs, g \in {"scaleIns", "scaleOuts"} : ScaleTrainingJob(g, i)
    <2>1. PICK i \in Jobs : \/ UNCHANGED mpijobs
                           \/ mpijobs' = [mpijobs EXCEPT ![i].replicas = JobNumGPU[i]]
      BY <1>7 DEF ScaleTrainingJob
    <2>2. /\ DOMAIN mpijobs' = DOMAIN mpijobs
          /\ \A k \in DOMAIN mpijobs : mpijobs'[k].phase = mpijobs[k].phase
      <3>1. \A k \in DOMAIN mpijobs : mpijobs[k] \in MPIJob
        BY DEF LifeInv, MapsInv, TypeOK, IsMap
      <3> QED BY <2>1, <3>1 DEF MPIJob
    <2>3. KnownEnds(j)' = KnownEnds(j) /\ ActiveJobs' = ActiveJobs
      BY <1>1, <2>2 DEF KnownEnds, ActiveJobs
    <2> QED BY <1>3, <2>3 DEF ExecutesOn
  <1> QED BY <1>4, <1>5, <1>6, <1>7 DEF ReschedStep, Resched, ReschedFails, HaltTrainingJob,
             Rejected, Unlock, ReschedEnd

\* A crash forgets notices, and acceptances and deletions that only the memory
\* knew of.
LEMMA CrashSteps ==
    ASSUME LifeInv, Crash, NEW j \in Jobs PROVE MovesOn(j) /\ ExecutesOn(j)
  <1>1. UNCHANGED <<mpijobs, metadata, submitted>> /\ updates'[j] = <<>> /\ DOMAIN ReadyJobs' = {}
    BY DEF Crash, service, EmptyMap
  <1>2. Range(updates'[j]) \subseteq Range(updates[j])
    BY <1>1 DEF Range
  <1>3. ExecutesOn(j)
    BY <1>1, <1>2, SameExecutions
  <1>4. CASE j \notin DOMAIN ReadyJobs
    BY <1>1, <1>3, <1>4, SamePhase
  <1>5. CASE j \in DOMAIN ReadyJobs
    <2>1. /\ j \in submitted /\ j \notin MetaIn(DoneStatus)
          /\ PhaseOf(j) = IF j \in DOMAIN metadata THEN "accepted" ELSE "deleting"
      BY <1>5, ReadyPhase
    <2>2. PhaseOf(j)' \in IF j \in DOMAIN metadata THEN {"accepted", "submitted"} ELSE {"deleted"}
      BY <1>1, <2>1 DEF PhaseOf, MetaIn
    <2>3. MovesOn(j)
      BY <2>1, <2>2 DEF MovesOn
    <2> QED BY <1>3, <2>3
  <1> QED BY <1>4, <1>5

\* A restart, which learns the ends of MPIJobs that nobody has handled.
LEMMA RestartSteps ==
    ASSUME LifeInv, Restart, NEW j \in Jobs PROVE MovesOn(j) /\ ExecutesOn(j)
  <1>1. UNCHANGED <<mpijobs, updates, submitted>>
    BY DEF Restart, FindMetadata, ListMPIJobs, CacheSynced, service
  <1>2. ExecutesOn(j)
    BY <1>1, SameExecutions
  <1>3. CASE FindMetadata
    <2>1. DOMAIN ReadyJobs = {} /\ DOMAIN ReadyJobs' = MetaIn(ReadyStatus) /\ UNCHANGED metadata
      BY <1>3 DEF FindMetadata, Restrict, LifeInv, DoneIsKnown
    <2>2. PhaseOf(j)' = PhaseOf(j)
      BY <1>1, <2>1 DEF PhaseOf, MetaIn
    <2> QED BY <1>2, <2>2 DEF MovesOn
  <1>4. CASE ListMPIJobs
    <2> DEFINE active   == ActiveJobs \cap DOMAIN ReadyJobs
               finished == (DOMAIN mpijobs \ ActiveJobs) \cap DOMAIN ReadyJobs
               ready    == [i \in DOMAIN ReadyJobs |->
                               IF i \in active THEN "Running" ELSE ReadyJobs[i]]
               done     == [i \in finished |-> DoneAs(mpijobs[i].phase)]
    <2>1. JobsDone(ready, done)
      BY <1>4 DEF ListMPIJobs
    <2>2. DOMAIN ready = DOMAIN ReadyJobs /\ DOMAIN done \subseteq DOMAIN ReadyJobs
      OBVIOUS
    <2>3. \A i \in DOMAIN done : done[i] \in EndsOf(i) /\ done[i] \in DoneStatus
      <3>1. \A i \in finished : mpijobs[i].phase \in KnownEnds(i)
        BY DEF LifeInv, MapsInv, TypeOK, IsMap, MPIJob, ActiveJobs, KnownEnds
      <3> QED BY <3>1, DoneAsType DEF EndsOf, DoneAs, Outcome
    <2> HIDE DEF ready, done
    <2>4. MovesOn(j)
      BY <1>1, <2>1, <2>2, <2>3, JobsDoneMoves
    <2> QED BY <1>2, <2>4
  <1>5. CASE CacheSynced
    BY <1>1, <1>2, <1>5, SamePhase DEF CacheSynced, memory
  <1> QED BY <1>3, <1>4, <1>5 DEF Restart

\* Every step moves and executes every job as JobLifecycle allows.
LEMMA NextSteps ==
    ASSUME LifeInv, [Next]_vars, NEW j \in Jobs PROVE MovesOn(j) /\ ExecutesOn(j)
  <1>1. CASE PriorityChanged \/ ConfigureAlgorithm \/ UNCHANGED vars
    <2>1. UNCHANGED <<mpijobs, updates, submitted, metadata, ReadyJobs>>
      BY <1>1 DEF PriorityChanged, ConfigureAlgorithm, vars, memory, service
    <2> QED BY <2>1, SamePhase, SameExecutions
  <1> QED BY <1>1, ServiceSteps, MPIJobUpdatedSteps, ReadMsgSteps, UpdateMPIJobSteps,
             ReschedStepSteps, CrashSteps, RestartSteps DEF Next

(***************************************************************************)
(* The refinement.                                                         *)
(***************************************************************************)

\* The types of JobLifecycle, of the mapped variables.
MappedTypes ==
    /\ [j \in Jobs |-> PhaseOf(j)] \in [Jobs -> Lifecycle!Phases]
    /\ ActiveJobs \subseteq Jobs
    /\ [j \in Jobs |-> EndsOf(j)] \in [Jobs -> SUBSET Lifecycle!Outcomes]

\* The mapped variables have the types of JobLifecycle.
LEMMA LifeTypes == ASSUME LifeInv PROVE MappedTypes
  <1>1. \A j \in Jobs : PhaseOf(j) \in Lifecycle!Phases
    BY DEF PhaseOf, DoneStatus, Lifecycle!Phases, Lifecycle!Outcomes
  <1>2. \A j \in Jobs : EndsOf(j) \subseteq Lifecycle!Outcomes
    BY DEF EndsOf, Outcome, Lifecycle!Outcomes
  <1>3. ActiveJobs \subseteq Jobs
    BY DEF ActiveJobs, LifeInv, MapsInv, TypeOK, IsMap
  <1> QED BY <1>1, <1>2, <1>3 DEF MappedTypes

\* The initial states of Scheduler are initial states of JobLifecycle.
LEMMA InitRefines == ASSUME Init PROVE Lifecycle!Init
  <1>1. \A j \in Jobs : PhaseOf(j) = "new" /\ EndsOf(j) = {}
    BY DEF Init, PhaseOf, EndsOf, KnownEnds, Range, EmptyMap
  <1>2. ActiveJobs = {}
    BY DEF Init, ActiveJobs, EmptyMap
  <1> QED BY <1>1, <1>2 DEF Lifecycle!Init

\* Every step of Scheduler is a step of JobLifecycle, or a stutter.
LEMMA NextRefines ==
    ASSUME LifeInv, MappedTypes', [Next]_vars PROVE [Lifecycle!Next]_(Lifecycle!vars)
  <1>1. \A j \in Jobs : Lifecycle!Move(j) /\ Lifecycle!Execute(j)
    BY NextSteps, MoveAllowed, ExecuteAllowed
  <1> QED BY <1>1 DEF MappedTypes, Lifecycle!Next

\* The invariant of the refinement.
LEMMA LifeInvariant == Spec => []LifeInv
  <1>1. Init => LifeInv
    BY InitLife
  <1>2. LifeInv /\ [Next]_vars => LifeInv'
    BY NextLife
  <1> QED BY <1>1, <1>2, PTL DEF Spec

\* The scheduler with all that may happen around it, crashes, lost and late
\* messages and failing calls included, keeps the promises of JobLifecycle: jobs
\* run only between their acceptance and the end or the deletion that is known
\* of them, ends are reported as they were and for good, and deleted jobs do not
\* come back.
THEOREM LifecycleImplemented == Spec => ImplementsLifecycle
  <1>1. Init => Lifecycle!Init
    BY InitRefines
  <1>2. LifeInv => MappedTypes
    BY LifeTypes
  <1>3. LifeInv /\ MappedTypes' /\ [Next]_vars => [Lifecycle!Next]_(Lifecycle!vars)
    BY NextRefines
  <1> QED BY <1>1, <1>2, <1>3, LifeInvariant, PTL DEF Spec, ImplementsLifecycle, Lifecycle!Spec

-----------------------------------------------------------------------------
(***************************************************************************)
(* What a crash, and what lies between the training service and the        *)
(* scheduler, cannot lose: the maps in memory follow MongoDB, and every    *)
(* difference between the two has its message under way.                   *)
(***************************************************************************)

(***************************************************************************)
(* The inductive invariant.                                                *)
(***************************************************************************)

\* Messages and done jobs are about names that have been submitted.
MoreSubmitted ==
    /\ DOMAIN DoneJobs \subseteq submitted
    /\ \A m \in outbox \cup Range(queue) : m.job \in submitted
    /\ proc = "down" => DOMAIN DoneJobs = {}

\* MemoryIsDurable also while a restart is reading, and after a panic.
Durable ==
    proc # "down" /\ NoneOf({"mongo"}) =>
        \A j \in DOMAIN metadata :
            /\ j \in DOMAIN ReadyJobs <=> metadata[j] \in ReadyStatus
            /\ j \in DOMAIN DoneJobs <=> metadata[j] \in DoneStatus
            /\ j \in DOMAIN DoneJobs => DoneJobs[j] = metadata[j]

\* A creation that has not been published is of a job that nobody else has seen,
\* so that it can be rolled back.
Create(j) == [verb |-> "create", job |-> j]
Unseen ==
    \A j \in Jobs : Create(j) \in outbox =>
        /\ j \in DOMAIN metadata /\ metadata[j] = "Submitted"
        /\ ~JobExists(j)
        /\ Create(j) \notin Range(queue)

\* NoRequestForgotten, in every state of the process.
Remembered ==
    NoneOf({"mongo", "unpublished", "lost"}) =>
        /\ \A j \in DOMAIN metadata : metadata[j] = "Submitted" => Pending("create", j)
        /\ \A j \in (DOMAIN ReadyJobs \cup DOMAIN DoneJobs) \ DOMAIN metadata :
              Pending("delete", j)

DurableInv == LifeInv /\ MoreSubmitted /\ Durable /\ Unseen /\ Remembered

(***************************************************************************)
(* DurableInv is inductive.                                                *)
(***************************************************************************)

\* Nothing exists initially.
LEMMA InitDurable == ASSUME Init PROVE DurableInv
  <1>1. LifeInv /\ Range(queue) = {}
    BY InitLife DEF Init, Range
  <1> QED BY <1>1 DEF Init, DurableInv, MoreSubmitted, Durable, Unseen, Remembered, EmptyMap, Create

\* A step of the scheduler that adds or removes no job.
LEMMA SameDurable ==
    ASSUME DurableInv, UNCHANGED <<metadata, submitted, outbox, queue, DoneJobs>>,
           DOMAIN ReadyJobs' = DOMAIN ReadyJobs,
           mishaps \subseteq mishaps', proc' = "down" <=> proc = "down"
    PROVE  (MoreSubmitted /\ Durable /\ Unseen /\ Remembered)'
  BY DEF DurableInv, MoreSubmitted, Durable, Unseen, Remembered, NoneOf, JobExists, Pending

\* A new document has its creation under way; it is in no map.
LEMMA InsertDurable ==
    ASSUME DurableInv, NEW i \in Jobs, InsertMetadata(i)
    PROVE  (MoreSubmitted /\ Durable /\ Unseen /\ Remembered)'
  <1> USE DEF DurableInv
  <1>1. /\ UNCHANGED <<ReadyJobs, DoneJobs, proc, queue, mishaps>>
        /\ submitted' = submitted \cup {i} /\ i \notin submitted
        /\ outbox' = outbox \cup {Create(i)}
        /\ DOMAIN metadata' = DOMAIN metadata \cup {i} /\ metadata'[i] = "Submitted"
        /\ \A j \in DOMAIN metadata : j # i => metadata'[j] = metadata[j]
    BY DEF InsertMetadata, Put, memory, control, history, Create
  <1>2. /\ i \notin DOMAIN metadata \cup DOMAIN ReadyJobs \cup DOMAIN DoneJobs
        /\ Create(i) \notin Range(queue)
    BY <1>1 DEF LifeInv, OnlySubmitted, MoreSubmitted, Create
  <1>3. MoreSubmitted'
    BY <1>1 DEF MoreSubmitted, Create
  <1>4. Durable'
    BY <1>1, <1>2 DEF Durable, NoneOf, ReadyStatus, DoneStatus
  <1>5. Unseen'
    BY <1>1, <1>2 DEF Unseen, JobExists, Create
  <1>6. Remembered'
    BY <1>1 DEF Remembered, NoneOf, Pending, Create
  <1> QED BY <1>3, <1>4, <1>5, <1>6

\* A document that is removed has its deletion under way.
LEMMA RemoveDurable ==
    ASSUME DurableInv, NEW i \in Jobs, RemoveMetadata(i)
    PROVE  (MoreSubmitted /\ Durable /\ Unseen /\ Remembered)'
  <1> USE DEF DurableInv
  <1> DEFINE d == [verb |-> "delete", job |-> i]
  <1>1. /\ UNCHANGED <<ReadyJobs, DoneJobs, proc, queue, mishaps, submitted>>
        /\ outbox' = outbox \cup {d} /\ Create(i) \notin outbox /\ i \in DOMAIN metadata
        /\ DOMAIN metadata' = DOMAIN metadata \ {i}
        /\ \A j \in DOMAIN metadata \ {i} : metadata'[j] = metadata[j]
    BY DEF RemoveMetadata, Without, Restrict, memory, control, history, Create
  <1>2. \A j : d # Create(j)
    BY DEF Create
  <1>3. MoreSubmitted'
    BY <1>1 DEF LifeInv, OnlySubmitted, MoreSubmitted
  <1>4. Durable'
    BY <1>1 DEF Durable, NoneOf
  <1>5. Unseen'
    BY <1>1, <1>2 DEF Unseen, JobExists
  <1>6. Remembered'
    BY <1>1 DEF Remembered, NoneOf, Pending
  <1> QED BY <1>3, <1>4, <1>5, <1>6

\* A message moves to the queue, a creation is rolled back that nobody has seen, or
\* a document stays as it is without its message, which Remembered excuses.
LEMMA PublishDurable ==
    ASSUME DurableInv, NEW m \in outbox, Publish(m)
    PROVE  (MoreSubmitted /\ Durable /\ Unseen /\ Remembered)'
  <1> USE DEF DurableInv
  <1>1. /\ UNCHANGED <<ReadyJobs, DoneJobs, proc, submitted>>
        /\ outbox' = outbox \ {m} /\ mishaps \subseteq mishaps'
    BY DEF Publish, memory, control, NoFault, Fault
  <1>2. m \in Message /\ queue \in Seq(Message)
    BY DEF LifeInv, MapsInv, TypeOK
  <1>3. CASE queue' = Append(queue, m) /\ UNCHANGED <<metadata, mishaps>>
    <2>1. Range(queue') = Range(queue) \cup {m}
      BY <1>2, <1>3, RangeAppendExact
    <2>2. MoreSubmitted' /\ Durable'
      BY <1>1, <1>3, <2>1 DEF MoreSubmitted, Durable, NoneOf
    <2>3. Unseen'
      BY <1>1, <1>3, <2>1 DEF Unseen, JobExists
    <2>4. Remembered'
      BY <1>1, <1>3, <2>1 DEF Remembered, NoneOf, Pending
    <2> QED BY <2>2, <2>3, <2>4
  <1>4. CASE m.verb = "create" /\ RollBack(m.job) /\ UNCHANGED <<queue, mishaps>>
    <2>1. m = Create(m.job) /\ m.job \in Jobs
      BY <1>2, <1>4 DEF Message, Create
    <2>2. ~JobExists(m.job) /\ \A j \in Jobs : j # m.job => Create(j) # m
      BY <2>1 DEF Unseen, Create
    <2>3. /\ DOMAIN metadata' = DOMAIN metadata \ {m.job}
          /\ \A j \in DOMAIN metadata \ {m.job} : metadata'[j] = metadata[j]
      BY <1>4 DEF RollBack, Without, Restrict
    <2>4. MoreSubmitted' /\ Durable'
      BY <1>1, <1>4, <2>3 DEF MoreSubmitted, Durable, NoneOf
    <2>5. Unseen'
      BY <1>1, <1>4, <2>1, <2>2, <2>3 DEF Unseen, JobExists
    <2>6. Remembered'
      <3>1. \A j : [verb |-> "delete", job |-> j] # m
        BY <1>4
      <3>2. \A j : j # m.job => [verb |-> "create", job |-> j] # m
        BY <1>4
      <3> QED BY <1>1, <1>4, <2>2, <2>3, <3>1, <3>2 DEF Remembered, NoneOf, Pending, JobExists
    <2> QED BY <2>4, <2>5, <2>6
  <1>5. CASE Fault("unpublished") /\ UNCHANGED <<queue, metadata>>
    <2>1. MoreSubmitted' /\ Durable'
      BY <1>1, <1>5 DEF MoreSubmitted, Durable, NoneOf
    <2>2. Unseen' /\ Remembered'
      BY <1>1, <1>5 DEF Unseen, JobExists, Remembered, NoneOf, Fault
    <2> QED BY <2>1, <2>2
  <1> QED BY <1>3, <1>4, <1>5 DEF Publish, NoFault

\* What a message leaves of the others.
LEMMA OthersPending ==
    ASSUME DurableInv, ReadMsg
    PROVE  /\ Range(queue) = {Head(queue)} \cup Range(queue')
           /\ Head(queue) \in Message /\ UNCHANGED <<outbox, submitted, proc>>
           /\ proc # "down" /\ mishaps \subseteq mishaps'
  <1>1. queue \in Seq(Message) /\ queue # <<>> /\ queue' = Tail(queue)
    BY DEF ReadMsg, DurableInv, LifeInv, MapsInv, TypeOK
  <1>2. Head(queue) \in Message
    BY <1>1, HeadTailProperties
  <1>3. mishaps \subseteq mishaps'
    BY DEF ReadMsg, CreateTrainingJob, DeleteTrainingJob, NoFault, Fault
  <1> QED BY <1>1, <1>2, <1>3, RangeHeadTail DEF ReadMsg, LockFree, service

\* A creation: if the job is known, Durable says that its document is not one of a
\* job that was only submitted.
LEMMA CreateDurable ==
    ASSUME DurableInv, ReadMsg, Head(queue).verb = "create", CreateTrainingJob(Head(queue).job)
    PROVE  (MoreSubmitted /\ Durable /\ Unseen /\ Remembered)'
  <1> USE DEF DurableInv
  <1> DEFINE i == Head(queue).job
  <1>1. /\ Range(queue) = {Create(i)} \cup Range(queue') /\ i \in Jobs
        /\ UNCHANGED <<outbox, submitted, proc>>
        /\ proc # "down" /\ mishaps \subseteq mishaps'
    BY OthersPending DEF Message, Create
  <1>2. /\ \A j : j # i => Create(j) # Create(i)
        /\ \A j : [verb |-> "delete", job |-> j] # Create(i)
    BY DEF Create
  <1>3. \A j \in Jobs : Create(j) \in outbox => j # i
    BY <1>1 DEF Unseen
  <1>4. i \in submitted
    BY OthersPending DEF MoreSubmitted
  <1> HIDE DEF i
  <1>5. \A verb, j : Pending(verb, j) => Pending(verb, j)' \/ [verb |-> verb, job |-> j] = Create(i)
    BY <1>1 DEF Pending
  <1>6. CASE UNCHANGED <<memory, metadata, mishaps>> /\ (JobExists(i) \/ i \notin DOMAIN metadata)
    <2>1. MoreSubmitted' /\ Durable' /\ Unseen'
      BY <1>1, <1>6 DEF MoreSubmitted, Durable, Unseen, NoneOf, JobExists, memory
    <2>2. ASSUME NoneOf({"mongo"}), i \in DOMAIN metadata PROVE metadata[i] # "Submitted"
      BY <1>1, <1>6, <2>2 DEF Durable, JobExists, ReadyStatus, DoneStatus
    <2>3. Remembered'
      BY <1>2, <1>5, <1>6, <2>2 DEF Remembered, NoneOf, memory, Create
    <2> QED BY <2>1, <2>3
  <1>7. CASE Fault("mongo") /\ UNCHANGED <<memory, metadata>>
    <2>1. MoreSubmitted' /\ Durable' /\ Unseen'
      BY <1>1, <1>7 DEF MoreSubmitted, Durable, Unseen, NoneOf, Fault, JobExists, memory
    <2>2. Remembered'
      BY <1>7 DEF Remembered, NoneOf, Fault
    <2> QED BY <2>1, <2>2
  <1>8. CASE /\ ~JobExists(i) /\ i \in DOMAIN metadata
             /\ \/ metadata' = Put(metadata, i, "Waiting") /\ NoFault
                \/ Fault("mongo") /\ UNCHANGED metadata
             /\ ReadyJobs' = Put(ReadyJobs, i, "Waiting")
             /\ UNCHANGED DoneJobs
    <2>1. DOMAIN metadata' = DOMAIN metadata /\ DOMAIN ReadyJobs' = DOMAIN ReadyJobs \cup {i}
      BY <1>8 DEF Put
    <2>2. \A j \in DOMAIN metadata : j # i => metadata'[j] = metadata[j]
      BY <1>8 DEF Put
    <2>3. "mongo" \in mishaps' \/ (metadata'[i] = "Waiting" /\ UNCHANGED mishaps)
      BY <1>8 DEF Put, Fault, NoFault
    <2>4. MoreSubmitted'
      BY <1>1, <1>4, <1>8 DEF MoreSubmitted
    <2>5. Durable'
      BY <1>1, <1>8, <2>1, <2>2, <2>3 DEF Durable, NoneOf, ReadyStatus, DoneStatus, JobExists
    <2>6. Unseen'
      BY <1>1, <1>3, <1>8, <2>1, <2>2 DEF Unseen, JobExists
    <2>7. Remembered'
      BY <1>2, <1>5, <1>8, <2>1, <2>2, <2>3 DEF Remembered, NoneOf, Create
    <2> QED BY <2>4, <2>5, <2>6, <2>7
  <1> QED BY <1>6, <1>7, <1>8 DEF CreateTrainingJob, NoFault, i

\* A deletion is about a job without a document, and takes it out of the maps.
LEMMA DeleteDurable ==
    ASSUME DurableInv, ReadMsg, Head(queue).verb = "delete", DeleteTrainingJob(Head(queue).job),
           UNCHANGED metadata
    PROVE  (MoreSubmitted /\ Durable /\ Unseen /\ Remembered)'
  <1> USE DEF DurableInv
  <1> DEFINE i == Head(queue).job
             d == [verb |-> "delete", job |-> i]
  <1>1. /\ Range(queue) = {d} \cup Range(queue')
        /\ UNCHANGED <<outbox, submitted, proc>>
        /\ proc # "down" /\ mishaps \subseteq mishaps'
    BY OthersPending DEF Message
  <1>2. i \notin DOMAIN metadata
    BY OthersPending DEF LifeInv, DeletedFirst
  <1>3. DOMAIN ReadyJobs \cap DOMAIN DoneJobs = {}
    BY DEF LifeInv, MapsInv, MapsConsistent
  <1>4. /\ DOMAIN ReadyJobs' = DOMAIN ReadyJobs \ {i}
        /\ DOMAIN DoneJobs' = DOMAIN DoneJobs \ {i}
        /\ \A j \in DOMAIN DoneJobs' : DoneJobs'[j] = DoneJobs[j]
    BY <1>3 DEF DeleteTrainingJob, Without, Restrict
  <1>5. \A verb, j : Pending(verb, j) => Pending(verb, j)' \/ [verb |-> verb, job |-> j] = d
    BY <1>1 DEF Pending
  <1> HIDE DEF i
  <1>6. MoreSubmitted' /\ Durable'
    BY <1>1, <1>2, <1>4 DEF MoreSubmitted, Durable, NoneOf
  <1>7. Unseen'
    BY <1>1, <1>4 DEF Unseen, JobExists
  <1>8. Remembered'
    BY <1>1, <1>4, <1>5 DEF Remembered, NoneOf
  <1> QED BY <1>6, <1>7, <1>8

\* A message.
LEMMA ReadMsgDurable ==
    ASSUME DurableInv, ReadMsg PROVE (MoreSubmitted /\ Durable /\ Unseen /\ Remembered)'
  BY CreateDurable, DeleteDurable DEF ReadMsg

\* Jobs that finish were ready, and MongoDB learns of it, or the update fails.
LEMMA JobsDoneDurable ==
    ASSUME DurableInv, NEW ready, NEW done, JobsDone(ready, done),
           DOMAIN ready = DOMAIN ReadyJobs, DOMAIN done \subseteq DOMAIN ReadyJobs,
           \A j \in DOMAIN done : done[j] \in DoneStatus,
           UNCHANGED <<submitted, outbox, queue>>, proc # "down", proc' # "down"
    PROVE  (MoreSubmitted /\ Durable /\ Unseen /\ Remembered)'
  <1> USE DEF DurableInv
  <1>1. /\ DOMAIN ReadyJobs' = DOMAIN ReadyJobs \ DOMAIN done
        /\ DOMAIN DoneJobs' = DOMAIN DoneJobs \cup DOMAIN done
        /\ \A j \in DOMAIN DoneJobs' : DoneJobs'[j] = IF j \in DOMAIN done THEN done[j] ELSE DoneJobs[j]
    BY DEF JobsDone, Without, Restrict
  <1>2. /\ DOMAIN metadata' = DOMAIN metadata
        /\ \A j \in DOMAIN metadata \ DOMAIN done : metadata'[j] = metadata[j]
        /\ \A j \in DOMAIN metadata : metadata'[j] = "Submitted" => metadata[j] = "Submitted"
        /\ \/ /\ \A j \in DOMAIN metadata \cap DOMAIN done : metadata'[j] = done[j]
              /\ UNCHANGED mishaps
           \/ "mongo" \in mishaps'
    BY DEF JobsDone, NoFault, Fault, DoneStatus
  <1>3. DOMAIN ReadyJobs \cap DOMAIN DoneJobs = {} /\ DOMAIN ReadyJobs \subseteq submitted
    BY DEF LifeInv, MapsInv, MapsConsistent, OnlySubmitted
  <1>4. MoreSubmitted'
    BY <1>1, <1>3 DEF MoreSubmitted
  <1>5. Durable'
    BY <1>1, <1>2, <1>3 DEF Durable, NoneOf, DoneStatus, ReadyStatus
  <1>6. Unseen'
    BY <1>1, <1>2 DEF Unseen, JobExists
  <1>7. Remembered'
    BY <1>1, <1>2 DEF Remembered, NoneOf, Pending
  <1> QED BY <1>4, <1>5, <1>6, <1>7

\* A finish notice.
LEMMA UpdateMPIJobDurable ==
    ASSUME DurableInv, NEW j \in Jobs, UpdateMPIJob(j)
    PROVE  (MoreSubmitted /\ Durable /\ Unseen /\ Remembered)'
  <1>1. proc # "down" /\ proc' # "down" /\ UNCHANGED <<submitted, outbox, queue>>
    BY DEF UpdateMPIJob, LockFree, service
  <1>2. CASE UNCHANGED <<memory, metadata, mishaps>>
    BY <1>1, <1>2, SameDurable DEF memory
  <1>3. CASE /\ j \in DOMAIN ReadyJobs
             /\ JobsDone(ReadyJobs, [i \in {j} |-> DoneAs(Head(updates[j]))])
    <2>1. DoneAs(Head(updates[j])) \in DoneStatus
      BY DEF DoneAs, DoneStatus
    <2> QED BY <1>1, <1>3, <2>1, JobsDoneDurable
  <1> QED BY <1>2, <1>3 DEF UpdateMPIJob, NoFault

\* The steps of resched() add and remove no job.
LEMMA ReschedStepDurable ==
    ASSUME DurableInv, ReschedStep PROVE (MoreSubmitted /\ Durable /\ Unseen /\ Remembered)'
  <1>1. /\ UNCHANGED <<metadata, submitted, outbox, queue, DoneJobs>>
        /\ proc # "down" /\ proc' # "down"
    BY DEF ReschedStep, Resched, ReschedFails, HaltTrainingJob, StartTrainingJob,
           ScaleTrainingJob, Apply, Turn, Unlock, ReschedEnd, memory, service
  <1>2. DOMAIN ReadyJobs' = DOMAIN ReadyJobs
    BY DEF ReschedStep, Resched, ReschedFails, HaltTrainingJob, StartTrainingJob, MarkHalted,
           ScaleTrainingJob, Rejected, Unlock, ReschedEnd, memory
  <1>3. mishaps \subseteq mishaps'
    BY DEF ReschedStep, Resched, ReschedFails, HaltTrainingJob, StartTrainingJob,
           ScaleTrainingJob, Rejected, Unlock, ReschedEnd, history, Fault, NoFault
  <1> QED BY <1>1, <1>2, <1>3, SameDurable

\* A restart builds the maps from MongoDB.
LEMMA RestartDurable ==
    ASSUME DurableInv, Restart PROVE (MoreSubmitted /\ Durable /\ Unseen /\ Remembered)'
  <1> USE DEF DurableInv
  <1>1. CASE FindMetadata
    <2>1. /\ UNCHANGED <<metadata, submitted, outbox, queue>> /\ mishaps \subseteq mishaps'
          /\ proc' # "down"
      BY <1>1 DEF FindMetadata, service
    <2>2. /\ DOMAIN ReadyJobs' = MetaIn(ReadyStatus) /\ DOMAIN DoneJobs' = MetaIn(DoneStatus)
          /\ \A j \in DOMAIN DoneJobs' : DoneJobs'[j] = metadata[j]
      BY <1>1 DEF FindMetadata, Restrict, MetaIn
    <2>3. DOMAIN metadata \subseteq submitted
      BY DEF LifeInv, OnlySubmitted
    <2>4. MoreSubmitted' /\ Durable'
      BY <2>1, <2>2, <2>3 DEF MoreSubmitted, Durable, MetaIn
    <2>5. Unseen'
      BY <2>1, <2>2 DEF Unseen, JobExists, MetaIn, ReadyStatus, DoneStatus
    <2>6. Remembered'
      BY <2>1, <2>2 DEF Remembered, NoneOf, MetaIn, Pending
    <2> QED BY <2>4, <2>5, <2>6
  <1>2. CASE ListMPIJobs
    <2> DEFINE active == ActiveJobs \cap DOMAIN ReadyJobs
               finished == (DOMAIN mpijobs \ ActiveJobs) \cap DOMAIN ReadyJobs
               ready == [j \in DOMAIN ReadyJobs |->
                            IF j \in active THEN "Running" ELSE ReadyJobs[j]]
               done  == [j \in finished |-> DoneAs(mpijobs[j].phase)]
    <2>1. JobsDone(ready, done)
      BY <1>2 DEF ListMPIJobs
    <2>2. /\ DOMAIN ready = DOMAIN ReadyJobs /\ DOMAIN done \subseteq DOMAIN ReadyJobs
          /\ \A j \in DOMAIN done : done[j] \in DoneStatus
      BY DEF DoneAs, DoneStatus
    <2> HIDE DEF ready, done
    <2> QED BY <1>2, <2>1, <2>2, JobsDoneDurable DEF ListMPIJobs, service
  <1>3. CASE CacheSynced
    BY <1>3, SameDurable DEF CacheSynced, memory, service, history
  <1> QED BY <1>1, <1>2, <1>3 DEF Restart

\* A crash empties the maps; messages that die with the process are excused.
LEMMA CrashDurable ==
    ASSUME DurableInv, Crash PROVE (MoreSubmitted /\ Durable /\ Unseen /\ Remembered)'
  <1> USE DEF DurableInv
  <1>1. PICK n \in 0..Len(queue) :
            /\ queue' = SubSeq(queue, n + 1, Len(queue))
            /\ mishaps' = IF n = 0 THEN mishaps ELSE mishaps \cup {"lost"}
    BY DEF Crash
  <1>2. queue \in Seq(Message) /\ Range(queue') \subseteq Range(queue)
    BY <1>1, RangeSuffix DEF LifeInv, MapsInv, TypeOK
  <1>3. /\ DOMAIN ReadyJobs' = {} /\ DOMAIN DoneJobs' = {} /\ proc' = "down"
        /\ UNCHANGED <<metadata, outbox, submitted>>
    BY DEF Crash, EmptyMap, service
  <1>4. n # 0 \/ queue' = queue
    BY <1>1, <1>2, SubSeqFull
  <1>5. MoreSubmitted' /\ Durable' /\ Unseen'
    BY <1>2, <1>3 DEF MoreSubmitted, Durable, Unseen, JobExists
  <1>6. Remembered'
    BY <1>1, <1>3, <1>4 DEF Remembered, NoneOf, Pending
  <1> QED BY <1>5, <1>6

\* Every step preserves DurableInv.
LEMMA NextDurable == ASSUME DurableInv, [Next]_vars PROVE DurableInv'
  <1>1. LifeInv'
    BY NextLife DEF DurableInv
  <1>2. CASE \E j \in Jobs : MPIJobUpdated(j)
    BY <1>1, <1>2, SameDurable DEF MPIJobUpdated, memory, control, service, DurableInv
  <1>3. CASE PriorityChanged \/ ConfigureAlgorithm \/ UNCHANGED vars
    BY <1>1, <1>3, SameDurable
    DEF PriorityChanged, ConfigureAlgorithm, vars, memory, control, service, history, DurableInv
  <1>4. CASE Service
    BY <1>1, <1>4, InsertDurable, RemoveDurable, PublishDurable DEF Service, DurableInv
  <1> QED BY <1>1, <1>2, <1>3, <1>4, ReadMsgDurable, UpdateMPIJobDurable, ReschedStepDurable,
             RestartDurable, CrashDurable DEF Next, DurableInv

(***************************************************************************)
(* The theorems.                                                           *)
(***************************************************************************)

\* DurableInv holds in every state.
LEMMA DurableAlways == Spec => []DurableInv
  <1>1. Init => DurableInv
    BY InitDurable
  <1>2. DurableInv /\ [Next]_vars => DurableInv'
    BY NextDurable
  <1> QED BY <1>1, <1>2, PTL DEF Spec

\* A crash at any moment loses no job: as long as MongoDB takes the updates, the
\* maps of the scheduler are those that a restart would build from it.
THEOREM CrashLosesNoJob == Spec => []MemoryIsDurable
  <1>1. DurableInv => MemoryIsDurable
    BY DEF DurableInv, Durable, MemoryIsDurable, Up
  <1> QED BY <1>1, DurableAlways, PTL

\* Wherever the training service and the scheduler disagree about a job, the
\* message that will settle it is under way, unless one was lost.
THEOREM RequestsAreRemembered == Spec => []NoRequestForgotten
  <1>1. DurableInv => NoRequestForgotten
    BY DEF DurableInv, Remembered, NoRequestForgotten
  <1> QED BY <1>1, DurableAlways, PTL

-----------------------------------------------------------------------------
(***************************************************************************)
(* The panics of handleJobCompleted and handleJobFailed: a notice about a  *)
(* job that is already done, with another result, can only be that of an   *)
(* MPIJob which has been replaced before its notice was handled.           *)
(***************************************************************************)

(***************************************************************************)
(* The inductive invariant.                                                *)
(***************************************************************************)

\* No notice outlives its MPIJob into the time of the next one.
Punctual == NoneOf({"late"})

\* Everything that is known of the end of a job says the same, and of a job that
\* is executing nothing is known.
EndsAgree ==
    Punctual => \A j \in Jobs :
        /\ \A p, q \in KnownEnds(j) : p = q
        /\ j \in ActiveJobs => KnownEnds(j) = {}

\* The scheduler or MongoDB has job j done with a status.
DoneWith(j, status) ==
    \/ j \in DOMAIN DoneJobs /\ DoneJobs[j] = status
    \/ j \in DOMAIN metadata /\ metadata[j] = status

\* What is known of the end of a job that is done agrees with its status.
DoneEnds ==
    Punctual => \A j \in Jobs : \A status \in DoneStatus :
        DoneWith(j, status) =>
            /\ j \notin ActiveJobs
            /\ \A p \in KnownEnds(j) : DoneAs(p) = status

PanicInv == LifeInv /\ EndsAgree /\ DoneEnds /\ PanicNeedsLateNotice

(***************************************************************************)
(* PanicInv is inductive.                                                  *)
(***************************************************************************)

\* Nothing exists initially.
LEMMA InitPanic == ASSUME Init PROVE PanicInv
  <1>1. LifeInv
    BY InitLife
  <1>2. DOMAIN mpijobs = {} /\ \A j \in Jobs : Range(updates[j]) = {}
    BY DEF Init, EmptyMap, Range
  <1>3. \A j \in Jobs : KnownEnds(j) = {} /\ j \notin ActiveJobs
    BY <1>2 DEF KnownEnds, ActiveJobs
  <1>4. PanicNeedsLateNotice
    BY DEF Init, PanicNeedsLateNotice
  <1> QED BY <1>1, <1>3, <1>4 DEF PanicInv, EndsAgree, DoneEnds

\* A step that starts nothing, learns of no end and makes no job done.
LEMMA QuietStep ==
    ASSUME PanicInv, mishaps \subseteq mishaps', ActiveJobs' \subseteq ActiveJobs,
           \A j \in Jobs : KnownEnds(j)' \subseteq KnownEnds(j),
           \A j \in Jobs, status \in DoneStatus : DoneWith(j, status)' => DoneWith(j, status),
           proc' = "panicked" => proc = "panicked"
    PROVE  (EndsAgree /\ DoneEnds /\ PanicNeedsLateNotice)'
  <1>1. Punctual' => Punctual
    BY DEF Punctual, NoneOf
  <1>2. EndsAgree'
    BY <1>1 DEF PanicInv, EndsAgree
  <1>3. DoneEnds'
    BY <1>1 DEF PanicInv, DoneEnds
  <1> QED BY <1>2, <1>3 DEF PanicInv, PanicNeedsLateNotice

\* MPIJobs stay and notices do not come.
LEMMA SameEnds ==
    ASSUME UNCHANGED mpijobs, \A j \in Jobs : Range(updates'[j]) \subseteq Range(updates[j])
    PROVE  ActiveJobs' = ActiveJobs /\ \A j \in Jobs : KnownEnds(j)' \subseteq KnownEnds(j)
  BY DEF ActiveJobs, KnownEnds

\* An MPIJob is gone.
LEMMA GoneEnds ==
    ASSUME NEW i, mpijobs' = Without(mpijobs, {i}), UNCHANGED updates
    PROVE  /\ ActiveJobs' \subseteq ActiveJobs
           /\ \A j \in Jobs : KnownEnds(j)' \subseteq KnownEnds(j)
  <1>1. /\ DOMAIN mpijobs' \subseteq DOMAIN mpijobs
        /\ \A j \in DOMAIN mpijobs' : mpijobs'[j] = mpijobs[j]
    BY DEF Without, Restrict
  <1> QED BY <1>1 DEF ActiveJobs, KnownEnds

\* The training service makes no job done.
LEMMA ServicePanic ==
    ASSUME PanicInv, Service PROVE (EndsAgree /\ DoneEnds /\ PanicNeedsLateNotice)'
  <1>1. UNCHANGED <<DoneJobs, proc, mpijobs, updates>> /\ mishaps \subseteq mishaps'
    BY DEF Service, InsertMetadata, RemoveMetadata, Publish, memory, control, history, NoFault, Fault
  <1> DEFINE NoneDone ==
                 \A j \in DOMAIN metadata' : metadata'[j] \in DoneStatus =>
                     j \in DOMAIN metadata /\ metadata'[j] = metadata[j]
  <1>2. NoneDone
    <2>1. ASSUME NEW i \in Jobs, InsertMetadata(i) PROVE NoneDone
      BY <2>1 DEF InsertMetadata, Put, DoneStatus
    <2>2. ASSUME NEW i \in Jobs, RemoveMetadata(i) PROVE NoneDone
      BY <2>2 DEF RemoveMetadata, Without, Restrict
    <2>3. ASSUME NEW m \in outbox, Publish(m) PROVE NoneDone
      BY <2>3 DEF Publish, RollBack, Without, Restrict
    <2> QED BY <2>1, <2>2, <2>3 DEF Service
  <1>3. \A j \in Jobs, status \in DoneStatus : DoneWith(j, status)' => DoneWith(j, status)
    BY <1>1, <1>2 DEF DoneWith
  <1> QED BY <1>1, <1>3, SameEnds, QuietStep

\* A job ends while none of its notices is under way, and is not done yet; or what
\* has ended is written again.
LEMMA EndPanic ==
    ASSUME PanicInv, NEW i \in Jobs, MPIJobUpdated(i)
    PROVE  (EndsAgree /\ DoneEnds /\ PanicNeedsLateNotice)'
  <1> USE DEF PanicInv
  <1>1. PICK phase \in FinishPhase :
            /\ i \in DOMAIN mpijobs /\ mpijobs[i].phase \in {"Active", phase}
            /\ mpijobs' = [mpijobs EXCEPT ![i].phase = phase]
            /\ updates' \in {updates, [updates EXCEPT ![i] = Append(@, phase)]}
    BY DEF MPIJobUpdated
  <1>2. /\ UNCHANGED <<DoneJobs, metadata, proc>> /\ mishaps \subseteq mishaps'
        /\ (\A j \in Jobs, status \in DoneStatus : DoneWith(j, status)' <=> DoneWith(j, status))
    BY DEF MPIJobUpdated, memory, control, DoneWith
  <1>3. /\ DOMAIN mpijobs' = DOMAIN mpijobs /\ mpijobs'[i].phase = phase
        /\ \A j \in DOMAIN mpijobs : j # i => mpijobs'[j] = mpijobs[j]
    BY <1>1 DEF LifeInv, MapsInv, TypeOK, IsMap, MPIJob
  <1>4. updates[i] \in Seq(FinishPhase) /\ updates \in [Jobs -> Seq(FinishPhase)]
    BY DEF LifeInv, MapsInv, TypeOK
  <1>5. /\ \A j \in Jobs : j # i => updates'[j] = updates[j]
        /\ Range(updates'[i]) \subseteq Range(updates[i]) \cup {phase}
    BY <1>1, <1>4, RangeAppend
  <1>6. /\ \A j \in Jobs : j # i => KnownEnds(j)' = KnownEnds(j)
        /\ KnownEnds(i)' \subseteq KnownEnds(i) \cup {phase}
    BY <1>3, <1>5 DEF KnownEnds
  <1>7. ActiveJobs' = ActiveJobs \ {i}
    BY <1>3 DEF ActiveJobs, FinishPhase
  <1>8. i \in ActiveJobs \/ phase \in KnownEnds(i)
    BY <1>1 DEF ActiveJobs, KnownEnds
  <1>9. Punctual' => Punctual
    BY <1>2 DEF Punctual, NoneOf
  <1>10. EndsAgree'
    BY <1>6, <1>7, <1>8, <1>9 DEF EndsAgree
  <1>11. DoneEnds'
    BY <1>2, <1>6, <1>7, <1>8, <1>9 DEF DoneEnds
  <1> QED BY <1>2, <1>10, <1>11 DEF PanicNeedsLateNotice

\* A message starts nothing and makes no job done.
LEMMA ReadMsgPanic ==
    ASSUME PanicInv, ReadMsg PROVE (EndsAgree /\ DoneEnds /\ PanicNeedsLateNotice)'
  <1>1. UNCHANGED <<proc, updates>> /\ mishaps \subseteq mishaps'
    BY DEF ReadMsg, CreateTrainingJob, DeleteTrainingJob, NoFault, Fault
  <1>2. UNCHANGED mpijobs \/ \E i : mpijobs' = Without(mpijobs, {i})
    BY DEF ReadMsg, DeleteTrainingJob
  <1>3. /\ ActiveJobs' \subseteq ActiveJobs
        /\ \A j \in Jobs : KnownEnds(j)' \subseteq KnownEnds(j)
    BY <1>1, <1>2, SameEnds, GoneEnds
  <1>4. /\ \A j \in DOMAIN DoneJobs' : j \in DOMAIN DoneJobs /\ DoneJobs'[j] = DoneJobs[j]
        /\ \A j \in DOMAIN metadata' : metadata'[j] \in DoneStatus =>
              j \in DOMAIN metadata /\ metadata'[j] = metadata[j]
    BY DEF ReadMsg, CreateTrainingJob, DeleteTrainingJob, Put, Without, Restrict, memory, DoneStatus
  <1>5. \A j \in Jobs, status \in DoneStatus : DoneWith(j, status)' => DoneWith(j, status)
    BY <1>4 DEF DoneWith
  <1> QED BY <1>1, <1>3, <1>5, QuietStep

\* Ready jobs become done with the status that their known ends have.
LEMMA JobsDonePanic ==
    ASSUME PanicInv, NEW ready, NEW done, JobsDone(ready, done),
           UNCHANGED mpijobs, \A j \in Jobs : Range(updates'[j]) \subseteq Range(updates[j]),
           DOMAIN done \subseteq DOMAIN ReadyJobs, proc # "down",
           \A j \in DOMAIN done : \E p \in KnownEnds(j) : done[j] = DoneAs(p),
           proc' # "panicked"
    PROVE  (EndsAgree /\ DoneEnds /\ PanicNeedsLateNotice)'
  <1> USE DEF PanicInv
  <1>1. ActiveJobs' = ActiveJobs /\ \A j \in Jobs : KnownEnds(j)' \subseteq KnownEnds(j)
    BY SameEnds
  <1>2. (Punctual' => Punctual) /\ EndsAgree'
    BY <1>1 DEF JobsDone, NoFault, Fault, Punctual, NoneOf, EndsAgree
  <1>3. /\ \A j \in Jobs \ DOMAIN done, status \in DoneStatus : DoneWith(j, status)' => DoneWith(j, status)
        /\ \A j \in DOMAIN done, status \in DoneStatus :
              DoneWith(j, status)' => status = done[j] \/ j \in MetaIn(DoneStatus)
    BY DEF JobsDone, DoneWith, MetaIn
  <1>4. \A j \in DOMAIN done : j \notin MetaIn(DoneStatus)
    BY DEF LifeInv, DoneIsKnown, MapsInv, MapsConsistent
  <1>5. DoneEnds'
    <2> SUFFICES ASSUME Punctual', NEW j \in Jobs, NEW status \in DoneStatus, DoneWith(j, status)'
                 PROVE  j \notin ActiveJobs' /\ \A p \in KnownEnds(j)' : DoneAs(p) = status
      BY DEF DoneEnds
    <2>1. CASE j \in DOMAIN done
      <3>1. PICK p \in KnownEnds(j) : done[j] = DoneAs(p)
        BY <2>1
      <3>2. status = DoneAs(p)
        BY <1>3, <1>4, <2>1, <3>1
      <3>3. j \notin ActiveJobs /\ \A q \in KnownEnds(j) : q = p
        BY <1>2 DEF EndsAgree
      <3> QED BY <1>1, <3>2, <3>3
    <2>2. CASE j \notin DOMAIN done
      BY <1>1, <1>2, <1>3, <2>2 DEF DoneEnds
    <2> QED BY <2>1, <2>2
  <1> QED BY <1>2, <1>5 DEF PanicNeedsLateNotice

\* A finish notice.  The panic needs a job that is done with another status than
\* the notice has, which DoneEnds excludes.
LEMMA NoticePanic ==
    ASSUME PanicInv, NEW i \in Jobs, UpdateMPIJob(i)
    PROVE  (EndsAgree /\ DoneEnds /\ PanicNeedsLateNotice)'
  <1> USE DEF PanicInv
  <1>1. updates \in [Jobs -> Seq(FinishPhase)] /\ updates[i] # <<>>
    BY DEF LifeInv, MapsInv, TypeOK, UpdateMPIJob
  <1>2. updates' = [updates EXCEPT ![i] = Tail(@)] /\ UNCHANGED mpijobs
    BY DEF UpdateMPIJob
  <1>3. Range(Tail(updates[i])) \subseteq Range(updates[i]) /\ Head(updates[i]) \in Range(updates[i])
    BY <1>1, RangeTail
  <1>4. \A j \in Jobs : Range(updates'[j]) \subseteq Range(updates[j])
    BY <1>1, <1>2, <1>3
  <1>5. Head(updates[i]) \in FinishPhase
    BY <1>1, HeadTailProperties
  <1>6. Head(updates[i]) \in KnownEnds(i)
    BY <1>3, <1>5 DEF KnownEnds
  <1>7. proc # "down" /\ proc # "panicked"
    BY DEF UpdateMPIJob, LockFree
  <1> DEFINE status == DoneAs(Head(updates[i]))
  <1>8. CASE ~FirstNotice(i, status) /\ UNCHANGED <<memory, proc, metadata>> /\ NoFault
    <2>1. \A j \in Jobs, st \in DoneStatus : DoneWith(j, st)' => DoneWith(j, st)
      BY <1>8 DEF DoneWith, memory
    <2> QED BY <1>2, <1>4, <1>8, <2>1, SameEnds, QuietStep DEF NoFault
  <1>9. CASE i \in DOMAIN ReadyJobs /\ JobsDone(ReadyJobs, [j \in {i} |-> status]) /\ UNCHANGED proc
    <2> DEFINE done == [j \in {i} |-> status]
    <2>1. /\ DOMAIN done \subseteq DOMAIN ReadyJobs
          /\ \A j \in DOMAIN done : \E p \in KnownEnds(j) : done[j] = DoneAs(p)
      BY <1>6, <1>9
    <2> HIDE DEF done
    <2> QED BY <1>2, <1>4, <1>7, <1>9, <2>1, JobsDonePanic DEF done
  <1>10. CASE /\ FirstNotice(i, status) /\ i \notin DOMAIN ReadyJobs
              /\ UNCHANGED <<memory, metadata>> /\ NoFault
    <2>1. i \in DOMAIN DoneJobs /\ DoneJobs[i] # status
      BY <1>10 DEF FirstNotice
    <2>2. DoneJobs[i] \in DoneStatus /\ DoneWith(i, DoneJobs[i])
      BY <2>1 DEF LifeInv, MapsInv, TypeOK, IsMap, DoneWith
    <2>3. ~Punctual
      BY <1>6, <2>1, <2>2 DEF DoneEnds
    <2>4. ~Punctual'
      BY <1>10, <2>3 DEF NoFault, Punctual, NoneOf
    <2> QED BY <2>4 DEF EndsAgree, DoneEnds, PanicNeedsLateNotice, Punctual, NoneOf
  <1> QED BY <1>8, <1>9, <1>10 DEF UpdateMPIJob

\* A start is late unless all notices about the job have been handled.
LEMMA StartPanic ==
    ASSUME PanicInv, NEW i \in Jobs, StartTrainingJob(i)
    PROVE  (EndsAgree /\ DoneEnds /\ PanicNeedsLateNotice)'
  <1> USE DEF PanicInv
  <1>1. /\ UNCHANGED <<DoneJobs, metadata, updates, proc>> /\ mishaps \subseteq mishaps'
        /\ proc = "applying" /\ i \in todo["starts"]
    BY DEF StartTrainingJob, Apply, Turn, NoFault, Rejected, Fault
  <1>2. (\A j \in Jobs, status \in DoneStatus : DoneWith(j, status)' <=> DoneWith(j, status))
        /\ (Punctual' => Punctual)
    BY <1>1 DEF DoneWith, Punctual, NoneOf
  <1>3. CASE UNCHANGED mpijobs
    <2>1. /\ ActiveJobs' \subseteq ActiveJobs
          /\ \A j \in Jobs : KnownEnds(j)' \subseteq KnownEnds(j)
      BY <1>1, <1>3, SameEnds
    <2> QED BY <1>1, <1>2, <2>1, QuietStep
  <1>4. CASE /\ i \notin DOMAIN mpijobs
             /\ mpijobs' = Put(mpijobs, i, [replicas |-> JobNumGPU[i], phase |-> "Active"])
             /\ Late(i) \subseteq mishaps'
    <2>1. i \in DOMAIN ReadyJobs
      BY <1>1 DEF LifeInv, MapsInv, MapsConsistent, Groups
    <2>2. \A status \in DoneStatus : ~DoneWith(i, status)
      BY <1>1, <2>1 DEF LifeInv, MapsInv, MapsConsistent, DoneIsKnown, MetaIn, DoneWith
    <2>3. Punctual' => Range(updates[i]) = {}
      BY <1>4 DEF Late, Punctual, NoneOf, Range
    <2>4. /\ \A j \in Jobs : j # i => KnownEnds(j)' = KnownEnds(j)
          /\ KnownEnds(i)' = { p \in FinishPhase : p \in Range(updates[i]) }
      BY <1>1, <1>4 DEF KnownEnds, Put, FinishPhase
    <2>5. ActiveJobs' = ActiveJobs \cup {i}
      BY <1>4 DEF ActiveJobs, Put
    <2>6. EndsAgree'
      BY <1>2, <2>3, <2>4, <2>5 DEF EndsAgree
    <2>7. DoneEnds'
      BY <1>2, <2>2, <2>4, <2>5 DEF DoneEnds
    <2> QED BY <1>1, <2>6, <2>7 DEF PanicNeedsLateNotice
  <1> QED BY <1>3, <1>4 DEF StartTrainingJob, Rejected

\* The other steps of resched() delete or resize MPIJobs.
LEMMA ReschedStepPanic ==
    ASSUME PanicInv, ReschedStep PROVE (EndsAgree /\ DoneEnds /\ PanicNeedsLateNotice)'
  <1>1. CASE \E j \in Jobs : StartTrainingJob(j)
    BY <1>1, StartPanic
  <1>2. CASE \/ \E event \in reschedCh : Resched(event) \/ ReschedFails(event)
             \/ \E j \in Jobs : HaltTrainingJob(j)
             \/ \E j \in Jobs, g \in {"scaleIns", "scaleOuts"} : ScaleTrainingJob(g, j)
             \/ Unlock \/ ReschedEnd
    <2>1. UNCHANGED <<DoneJobs, metadata, updates>> /\ proc' # "panicked" /\ mishaps \subseteq mishaps'
      BY <1>2 DEF Resched, ReschedFails, HaltTrainingJob, ScaleTrainingJob, Apply, Turn, Unlock,
                  ReschedEnd, memory, history, NoFault, Fault, Rejected
    <2>2. \A j \in Jobs, status \in DoneStatus : DoneWith(j, status)' => DoneWith(j, status)
      BY <2>1 DEF DoneWith
    <2>3. \/ UNCHANGED mpijobs
          \/ \E i : mpijobs' = Without(mpijobs, {i})
          \/ \E i \in DOMAIN mpijobs : mpijobs' = [mpijobs EXCEPT ![i].replicas = JobNumGPU[i]]
      BY <1>2 DEF Resched, ReschedFails, HaltTrainingJob, ScaleTrainingJob, Unlock, ReschedEnd, Rejected
    <2>4. ASSUME NEW i \in DOMAIN mpijobs, mpijobs' = [mpijobs EXCEPT ![i].replicas = JobNumGPU[i]]
          PROVE  /\ ActiveJobs' \subseteq ActiveJobs
                 /\ \A j \in Jobs : KnownEnds(j)' \subseteq KnownEnds(j)
      <3>1. DOMAIN mpijobs' = DOMAIN mpijobs /\ \A j \in DOMAIN mpijobs : mpijobs'[j].phase = mpijobs[j].phase
        BY <2>4 DEF PanicInv, LifeInv, MapsInv, TypeOK, IsMap, MPIJob
      <3> QED BY <2>1, <3>1 DEF ActiveJobs, KnownEnds
    <2>5. /\ ActiveJobs' \subseteq ActiveJobs
          /\ \A j \in Jobs : KnownEnds(j)' \subseteq KnownEnds(j)
      BY <2>1, <2>3, <2>4, SameEnds, GoneEnds
    <2> QED BY <2>1, <2>2, <2>5, QuietStep
  <1> QED BY <1>1, <1>2 DEF ReschedStep

\* A restart reads what MongoDB and the MPIJobs say of jobs that are done.
LEMMA RestartPanic ==
    ASSUME PanicInv, Restart PROVE (EndsAgree /\ DoneEnds /\ PanicNeedsLateNotice)'
  <1> USE DEF PanicInv
  <1>1. CASE FindMetadata
    <2>1. /\ UNCHANGED <<mpijobs, updates, metadata>> /\ mishaps \subseteq mishaps'
          /\ proc' # "panicked"
          /\ \A j \in DOMAIN DoneJobs' : j \in DOMAIN metadata /\ DoneJobs'[j] = metadata[j]
      BY <1>1 DEF FindMetadata, Restrict, MetaIn
    <2>2. \A j \in Jobs, status \in DoneStatus : DoneWith(j, status)' => DoneWith(j, status)
      BY <2>1 DEF DoneWith
    <2> QED BY <2>1, <2>2, SameEnds, QuietStep
  <1>2. CASE ListMPIJobs
    <2> DEFINE active == ActiveJobs \cap DOMAIN ReadyJobs
               finished == (DOMAIN mpijobs \ ActiveJobs) \cap DOMAIN ReadyJobs
               ready == [j \in DOMAIN ReadyJobs |->
                            IF j \in active THEN "Running" ELSE ReadyJobs[j]]
               done  == [j \in finished |-> DoneAs(mpijobs[j].phase)]
    <2>1. JobsDone(ready, done)
      BY <1>2 DEF ListMPIJobs
    <2>2. /\ DOMAIN done \subseteq DOMAIN ReadyJobs
          /\ \A j \in DOMAIN done : \E p \in KnownEnds(j) : done[j] = DoneAs(p)
      <3>1. \A j \in finished : mpijobs[j].phase \in FinishPhase
        BY DEF LifeInv, MapsInv, TypeOK, IsMap, MPIJob, ActiveJobs
      <3> QED BY <3>1 DEF KnownEnds
    <2> HIDE DEF ready, done
    <2> QED BY <1>2, <2>1, <2>2, JobsDonePanic DEF ListMPIJobs
  <1>3. CASE CacheSynced
    <2>1. UNCHANGED <<DoneJobs, metadata, mpijobs, updates, mishaps>> /\ proc' # "panicked"
      BY <1>3 DEF CacheSynced, memory, history
    <2> QED BY <2>1, SameEnds, QuietStep DEF DoneWith
  <1> QED BY <1>1, <1>2, <1>3 DEF Restart

\* A crash forgets notices and statuses.
LEMMA CrashPanic ==
    ASSUME PanicInv, Crash PROVE (EndsAgree /\ DoneEnds /\ PanicNeedsLateNotice)'
  <1>1. /\ UNCHANGED <<mpijobs, metadata>> /\ mishaps \subseteq mishaps' /\ proc' # "panicked"
        /\ DOMAIN DoneJobs' = {} /\ \A j \in Jobs : Range(updates'[j]) = {}
    BY DEF Crash, EmptyMap, Range
  <1>2. \A j \in Jobs, status \in DoneStatus : DoneWith(j, status)' => DoneWith(j, status)
    BY <1>1 DEF DoneWith
  <1> QED BY <1>1, <1>2, SameEnds, QuietStep

\* Every step preserves PanicInv.
LEMMA NextPanic == ASSUME PanicInv, [Next]_vars PROVE PanicInv'
  <1>1. LifeInv'
    BY NextLife DEF PanicInv
  <1>2. CASE PriorityChanged \/ ConfigureAlgorithm \/ UNCHANGED vars
    <2>1. UNCHANGED <<DoneJobs, metadata, mpijobs, updates, proc, mishaps>>
      BY <1>2 DEF PriorityChanged, ConfigureAlgorithm, vars, memory, control, history
    <2> QED BY <1>1, <2>1, SameEnds, QuietStep DEF DoneWith, PanicInv
  <1> QED BY <1>1, <1>2, ServicePanic, EndPanic, ReadMsgPanic, NoticePanic, ReschedStepPanic,
             RestartPanic, CrashPanic DEF Next, PanicInv

\* The scheduler panics about a finished job only if an MPIJob was replaced before
\* the notice of its end was handled, whatever else crashes or fails.
THEOREM PanicsOnlyLate == Spec => []PanicNeedsLateNotice
  <1>1. Init => PanicInv
    BY InitPanic
  <1>2. PanicInv /\ [Next]_vars => PanicInv'
    BY NextPanic
  <1>3. PanicInv => PanicNeedsLateNotice
    BY DEF PanicInv
  <1> QED BY <1>1, <1>2, <1>3, PTL DEF Spec

-----------------------------------------------------------------------------
(***************************************************************************)
(* Allocations, statuses and MPIJobs: an active MPIJob has the GPUs that   *)
(* are allocated to its job, and a job has the status that goes with its   *)
(* allocation.                                                             *)
(***************************************************************************)

(***************************************************************************)
(* The inductive invariants.                                               *)
(***************************************************************************)

\* What is still to be started or resized has GPUs.
Positive ==
    \A j \in todo["scaleIns"] \cup todo["starts"] \cup todo["scaleOuts"] : At(JobNumGPU, j) # 0

\* ActiveIsAccounted also while changes are pending and while a restart is reading.
Accountable == NoneOf({"rejected", "unanswered", "late", "orphan"})
Accounted ==
    Accountable => \A j \in ActiveJobs :
        /\ mpijobs[j].replicas # 0
        /\ proc = "found" => j \in DOMAIN ReadyJobs
        /\ proc \notin {"down", "found"} =>
              /\ IsRunning(j)
              /\ \/ j \in todo["halts"] \cup todo["scaleIns"] \cup todo["scaleOuts"]
                 \/ At(JobNumGPU, j) = mpijobs[j].replicas

AccountInv == PanicInv /\ Positive /\ Accounted

\* A creation is published and delivered once; until then nothing is known of its
\* job but its document.
Once(messages) ==
    \A i, k \in DOMAIN messages :
        messages[i] = messages[k] /\ messages[i].verb = "create" => i = k
Untouched ==
    /\ DOMAIN mpijobs \subseteq submitted
    /\ Once(queue)
    /\ \A j \in Jobs : Pending("create", j) =>
          /\ j \notin DOMAIN mpijobs /\ ~JobExists(j)
          /\ j \in DOMAIN metadata => metadata[j] = "Submitted"

\* StatusMatchesAllocation also while changes are pending: a job that is still to
\* be halted or started has the status it had before.
Regular == NoneOf({"restart", "rejected", "unanswered", "unlisted"})
MatchedJob(j) ==
    /\ ReadyJobs[j] = "Waiting" => j \notin DOMAIN mpijobs
    /\ j \in todo["halts"] => ReadyJobs[j] = "Running" /\ At(JobNumGPU, j) = 0
    /\ j \in todo["starts"] => ReadyJobs[j] = "Waiting"
    /\ j \notin todo["halts"] \cup todo["starts"] =>
          (ReadyJobs[j] = "Running" <=> At(JobNumGPU, j) # 0)
Matched ==
    Regular =>
        /\ DOMAIN JobNumGPU = DOMAIN ReadyJobs
        /\ \A j \in DOMAIN ReadyJobs : MatchedJob(j)

StatusInv == DurableInv /\ BackedInv /\ Positive /\ Untouched /\ Matched

(***************************************************************************)
(* Positive and Accounted are inductive.                                   *)
(***************************************************************************)

\* Changes only disappear, and allocations stay, or no change is pending.
LEMMA SamePositive ==
    ASSUME Positive,
           \/ UNCHANGED JobNumGPU /\ \A g \in Groups : todo'[g] \subseteq todo[g]
           \/ todo' = NoChanges
    PROVE  Positive'
  BY DEF Positive, NoChanges, Groups

\* An allocation is compared with the present one.
LEMMA ReschedPositive ==
    ASSUME MapsInv, NEW event \in reschedCh, Resched(event)
    PROVE  \E alloc :
              /\ JobNumGPU' = alloc /\ IsMap(alloc, Jobs, Nat)
              /\ todo'["halts"] = Halts(JobNumGPU, alloc)
              /\ todo'["scaleIns"] = ScaleIns(JobNumGPU, alloc)
              /\ todo'["starts"] = Starts(JobNumGPU, alloc)
              /\ todo'["scaleOuts"] = ScaleOuts(JobNumGPU, alloc)
              /\ Positive'
              /\ "unlisted" \notin mishaps' => DOMAIN alloc = DOMAIN ReadyJobs
  <1>1. PICK alloc : /\ alloc \in IF Algorithm = "known" THEN ValidAllocations ELSE {EmptyMap}
                     /\ JobNumGPU' = alloc
                     /\ todo' = Changes(JobNumGPU, alloc)
                     /\ DOMAIN alloc # DOMAIN ReadyJobs => "unlisted" \in mishaps'
    BY DEF Resched
  <1>2. IsMap(alloc, Jobs, Nat)
    BY <1>1, AllocationType DEF MapsInv
  <1>3. /\ todo'["halts"] = Halts(JobNumGPU, alloc)
        /\ todo'["scaleIns"] = ScaleIns(JobNumGPU, alloc)
        /\ todo'["starts"] = Starts(JobNumGPU, alloc)
        /\ todo'["scaleOuts"] = ScaleOuts(JobNumGPU, alloc)
    BY <1>1 DEF Changes, Groups
  <1>4. \A j \in DOMAIN JobNumGPU : JobNumGPU[j] \in Nat
    BY DEF MapsInv, TypeOK, IsMap
  <1>5. Positive'
    BY <1>1, <1>3, <1>4 DEF Positive, ScaleIns, Starts, ScaleOuts, At
  <1>6. "unlisted" \notin mishaps' => DOMAIN alloc = DOMAIN ReadyJobs
    BY <1>1
  <1> QED BY <1>1, <1>2, <1>3, <1>5, <1>6

\* What is to be started or resized has GPUs after every step.
LEMMA NextPositive == ASSUME MapsInv, Positive, [Next]_vars PROVE Positive'
  <1>1. CASE \E event \in reschedCh : Resched(event)
    BY <1>1, ReschedPositive
  <1>2. ASSUME NEW g \in Groups, NEW j \in Jobs, Apply(g, j), UNCHANGED JobNumGPU PROVE Positive'
    <2>1. \A h \in Groups : todo'[h] \subseteq todo[h]
      BY <1>2 DEF Apply, MapsInv, TypeOK
    <2> QED BY <1>2, <2>1, SamePositive
  <1>3. CASE \E j \in Jobs : HaltTrainingJob(j) \/ StartTrainingJob(j)
    BY <1>2, <1>3 DEF HaltTrainingJob, StartTrainingJob, Groups
  <1>4. CASE \E j \in Jobs, g \in {"scaleIns", "scaleOuts"} : ScaleTrainingJob(g, j)
    BY <1>2, <1>4 DEF ScaleTrainingJob, memory, Groups
  <1>5. CASE UNCHANGED <<todo, JobNumGPU>>
    BY <1>5, SamePositive
  <1>6. CASE todo' = NoChanges
    BY <1>6, SamePositive
  <1>7. CASE ReadMsg \/ \E j \in Jobs : UpdateMPIJob(j)
    BY <1>6, <1>7 DEF ReadMsg, UpdateMPIJob, LockFree, MapsInv, OnlyWhenApplying
  <1>8. CASE Restart
    BY <1>5, <1>6, <1>8 DEF Restart, FindMetadata, ListMPIJobs, CacheSynced, MapsInv, OnlyWhenApplying, memory
  <1>9. CASE Service \/ \E j \in Jobs : MPIJobUpdated(j)
    BY <1>5, <1>9 DEF Service, InsertMetadata, RemoveMetadata, Publish, MPIJobUpdated, memory, control
  <1>10. CASE PriorityChanged \/ ConfigureAlgorithm \/ Crash \/ UNCHANGED vars
    BY <1>5, <1>6, <1>10 DEF PriorityChanged, ConfigureAlgorithm, Crash, vars, memory, control
  <1>11. CASE \E event \in reschedCh : ReschedFails(event)
    BY <1>5, <1>11 DEF ReschedFails, memory
  <1>12. CASE Unlock \/ ReschedEnd
    BY <1>5, <1>12 DEF Unlock, ReschedEnd, memory
  <1> QED BY <1>1, <1>3, <1>4, <1>7, <1>8, <1>9, <1>10, <1>11, <1>12 DEF Next, ReschedStep

\* MPIJobs do not start or change size, and their jobs keep status and allocation.
LEMMA SameAccounted ==
    ASSUME AccountInv, mishaps \subseteq mishaps', ActiveJobs' \subseteq ActiveJobs,
           \A j \in ActiveJobs' : mpijobs'[j].replicas = mpijobs[j].replicas,
           \A j \in ActiveJobs' : IsRunning(j) => IsRunning(j)' /\ At(JobNumGPU, j)' = At(JobNumGPU, j),
           \A j \in ActiveJobs' : j \in DOMAIN ReadyJobs => j \in DOMAIN ReadyJobs',
           \A g \in Groups : todo'[g] = todo[g],
           /\ proc' \in {"down", "found"} => proc' = proc
           /\ proc' \notin {"down", "found"} => proc \notin {"down", "found"}
    PROVE  Accounted'
  <1>1. Accountable' => Accountable
    BY DEF Accountable, NoneOf
  <1> QED BY <1>1 DEF AccountInv, Accounted, Groups

\* A step that leaves memory, pending changes and MPIJobs alone.
LEMMA StillAccounted ==
    ASSUME AccountInv, mishaps \subseteq mishaps', UNCHANGED <<memory, todo, mpijobs>>,
           /\ proc' \in {"down", "found"} => proc' = proc
           /\ proc' \notin {"down", "found"} => proc \notin {"down", "found"}
    PROVE  Accounted'
  <1>1. /\ ActiveJobs' = ActiveJobs
        /\ \A j : IsRunning(j)' = IsRunning(j) /\ At(JobNumGPU, j)' = At(JobNumGPU, j)
    BY DEF ActiveJobs, IsRunning, At, memory
  <1> QED BY <1>1, SameAccounted DEF memory

\* An MPIJob that ends is no longer active.
LEMMA EndAccounted == ASSUME AccountInv, NEW i \in Jobs, MPIJobUpdated(i) PROVE Accounted'
  <1>1. PICK phase \in FinishPhase :
            i \in DOMAIN mpijobs /\ mpijobs' = [mpijobs EXCEPT ![i].phase = phase]
    BY DEF MPIJobUpdated
  <1>2. /\ DOMAIN mpijobs' = DOMAIN mpijobs /\ mpijobs'[i].phase = phase
        /\ \A j \in DOMAIN mpijobs : mpijobs'[j].replicas = mpijobs[j].replicas
        /\ \A j \in DOMAIN mpijobs : j # i => mpijobs'[j] = mpijobs[j]
    BY <1>1 DEF AccountInv, PanicInv, LifeInv, MapsInv, TypeOK, IsMap, MPIJob
  <1>3. ActiveJobs' \subseteq ActiveJobs /\ \A j \in ActiveJobs' : j \in DOMAIN mpijobs
    BY <1>2 DEF ActiveJobs, FinishPhase
  <1>4. UNCHANGED <<memory, todo, proc>> /\ mishaps \subseteq mishaps'
    BY DEF MPIJobUpdated, control
  <1>5. \A j : IsRunning(j)' = IsRunning(j) /\ At(JobNumGPU, j)' = At(JobNumGPU, j)
    BY <1>4 DEF IsRunning, At, memory
  <1> QED BY <1>2, <1>3, <1>4, <1>5, SameAccounted DEF memory

\* A message is about a job that has no MPIJob yet, or deletes the one it has.
LEMMA ReadMsgAccounted == ASSUME AccountInv, ReadMsg PROVE Accounted'
  <1> DEFINE i == Head(queue).job
  <1>1. /\ proc \notin {"down", "found"} /\ UNCHANGED <<proc, todo>> /\ todo = NoChanges
        /\ mishaps \subseteq mishaps'
    BY DEF ReadMsg, LockFree, CreateTrainingJob, DeleteTrainingJob, NoFault, Fault,
           AccountInv, PanicInv, LifeInv, MapsInv, OnlyWhenApplying
  <1>2. Accountable => \A j \in ActiveJobs : IsRunning(j)
    BY <1>1 DEF AccountInv, Accounted
  <1> SUFFICES ASSUME Accountable' PROVE Accounted'
    BY DEF Accounted
  <1>3. Accountable
    BY <1>1 DEF Accountable, NoneOf
  <1>4. CASE CreateTrainingJob(i) /\ UNCHANGED mpijobs
    <2>1. ActiveJobs' = ActiveJobs
      BY <1>4 DEF ActiveJobs
    <2>2. CASE UNCHANGED memory
      BY <1>1, <1>4, <2>2, StillAccounted
    <2>3. CASE /\ ~JobExists(i) /\ ReadyJobs' = Put(ReadyJobs, i, "Waiting")
               /\ JobNumGPU' = Put(JobNumGPU, i, 0)
      <3>1. \A j \in ActiveJobs : j # i /\ IsRunning(j)' /\ At(JobNumGPU, j)' = At(JobNumGPU, j)
        BY <1>2, <1>3, <2>3 DEF IsRunning, JobExists, Put, At
      <3> QED BY <1>1, <1>4, <2>1, <3>1, SameAccounted DEF IsRunning
    <2> QED BY <1>4, <2>2, <2>3 DEF CreateTrainingJob
  <1>5. CASE DeleteTrainingJob(i)
    <2>1. ~Fault("rejected")
      BY DEF Accountable, NoneOf, Fault
    <2>2. mpijobs' = IF NeedDelete(i) THEN Without(mpijobs, {i}) ELSE mpijobs
      BY <1>5, <2>1 DEF DeleteTrainingJob
    <2>3. /\ ActiveJobs' \subseteq ActiveJobs \ {i}
          /\ \A j \in ActiveJobs' : mpijobs'[j] = mpijobs[j]
      BY <1>2, <1>3, <2>2 DEF ActiveJobs, NeedDelete, Without, Restrict
    <2>4. \A j : j # i => IsRunning(j)' = IsRunning(j) /\ At(JobNumGPU, j)' = At(JobNumGPU, j)
      BY <1>5 DEF DeleteTrainingJob, IsRunning, At, Without, Restrict
    <2> QED BY <1>1, <1>2, <1>3, <2>3, <2>4, SameAccounted DEF IsRunning
  <1> QED BY <1>4, <1>5 DEF ReadMsg

\* The job of a notice has no active MPIJob, unless the notice is late.
LEMMA NoticeAccounted == ASSUME AccountInv, NEW i \in Jobs, UpdateMPIJob(i) PROVE Accounted'
  <1>1. /\ proc \notin {"down", "found"} /\ proc' \notin {"down", "found"}
        /\ UNCHANGED <<todo, mpijobs>> /\ mishaps \subseteq mishaps'
    BY DEF UpdateMPIJob, LockFree, JobsDone, NoFault, Fault
  <1>2. CASE UNCHANGED memory
    BY <1>1, <1>2, StillAccounted
  <1>3. CASE JobsDone(ReadyJobs, [j \in {i} |-> DoneAs(Head(updates[i]))])
             /\ JobNumGPU' = Without(JobNumGPU, {i})
    <2> SUFFICES ASSUME Accountable' PROVE Accounted'
      BY DEF Accounted
    <2>1. Punctual
      BY <1>1 DEF Accountable, Punctual, NoneOf
    <2>2. Head(updates[i]) \in KnownEnds(i)
      <3>1. updates[i] \in Seq(FinishPhase) /\ updates[i] # <<>>
        BY DEF AccountInv, PanicInv, LifeInv, MapsInv, TypeOK, UpdateMPIJob
      <3> QED BY <3>1, RangeTail, HeadTailProperties DEF KnownEnds
    <2>3. i \notin ActiveJobs
      BY <2>1, <2>2 DEF AccountInv, PanicInv, EndsAgree
    <2>4. \A j : j # i => IsRunning(j)' = IsRunning(j) /\ At(JobNumGPU, j)' = At(JobNumGPU, j)
      BY <1>3 DEF JobsDone, IsRunning, At, Without, Restrict
    <2>5. \A j \in DOMAIN ReadyJobs : j # i => j \in DOMAIN ReadyJobs'
      BY <1>3 DEF JobsDone, Without, Restrict
    <2>6. ActiveJobs' = ActiveJobs
      BY <1>1 DEF ActiveJobs
    <2> QED BY <1>1, <2>3, <2>4, <2>5, <2>6, SameAccounted
  <1> QED BY <1>2, <1>3 DEF UpdateMPIJob

\* An MPIJob whose job gets other GPUs is in one of the groups.
LEMMA ReschedAccounted ==
    ASSUME AccountInv, NEW event \in reschedCh, Resched(event) PROVE Accounted'
  <1>1. PICK alloc :
            /\ JobNumGPU' = alloc /\ IsMap(alloc, Jobs, Nat)
            /\ todo'["halts"] = Halts(JobNumGPU, alloc)
            /\ todo'["scaleIns"] = ScaleIns(JobNumGPU, alloc)
            /\ todo'["starts"] = Starts(JobNumGPU, alloc)
            /\ todo'["scaleOuts"] = ScaleOuts(JobNumGPU, alloc)
    BY ReschedPositive DEF AccountInv, PanicInv, LifeInv
  <1>2. /\ UNCHANGED <<ReadyJobs, mpijobs>> /\ mishaps \subseteq mishaps'
        /\ proc = "idle" /\ proc' = "applying" /\ todo = NoChanges
    BY DEF Resched, AccountInv, PanicInv, LifeInv, MapsInv, OnlyWhenApplying
  <1> SUFFICES ASSUME Accountable', NEW j \in ActiveJobs'
               PROVE  /\ mpijobs'[j].replicas # 0 /\ IsRunning(j)'
                      /\ \/ j \in todo'["halts"] \cup todo'["scaleIns"] \cup todo'["scaleOuts"]
                         \/ At(JobNumGPU', j) = mpijobs'[j].replicas
    BY <1>2 DEF Accounted
  <1>3. /\ j \in ActiveJobs /\ IsRunning(j) /\ At(JobNumGPU, j) = mpijobs[j].replicas
        /\ mpijobs[j].replicas # 0
    BY <1>2 DEF AccountInv, Accounted, Accountable, NoneOf, ActiveJobs, NoChanges, Groups
  <1>4. j \in DOMAIN JobNumGPU /\ JobNumGPU[j] \in Nat /\ JobNumGPU[j] # 0 /\ At(alloc, j) \in Nat
    BY <1>1, <1>3 DEF At, AccountInv, PanicInv, LifeInv, MapsInv, TypeOK, IsMap
  <1>5. \/ j \in Halts(JobNumGPU, alloc) \cup ScaleIns(JobNumGPU, alloc) \cup ScaleOuts(JobNumGPU, alloc)
        \/ At(alloc, j) = JobNumGPU[j]
    BY <1>3, <1>4 DEF Halts, ScaleIns, ScaleOuts, IsRunning
  <1>6. IsRunning(j)'
    BY <1>2, <1>3 DEF IsRunning
  <1> QED BY <1>1, <1>2, <1>3, <1>4, <1>5, <1>6 DEF At

\* A job that is halted has no MPIJob any more.
LEMMA HaltAccounted == ASSUME AccountInv, NEW i \in Jobs, HaltTrainingJob(i) PROVE Accounted'
  <1>1. /\ UNCHANGED <<JobNumGPU, proc>> /\ proc = "applying" /\ mishaps \subseteq mishaps'
        /\ \A g \in Groups : todo[g] \ {i} \subseteq todo'[g] /\ todo'[g] \subseteq todo[g]
        /\ \A g \in Groups : g # "halts" => todo'[g] = todo[g]
    BY DEF HaltTrainingJob, Apply, Turn, NoFault, Fault, Rejected, AccountInv, PanicInv, LifeInv, MapsInv, TypeOK
  <1> SUFFICES ASSUME Accountable' PROVE Accounted'
    BY DEF Accounted
  <1>2. Accountable /\ ~Fault("unanswered") /\ ~Fault("rejected")
    BY <1>1 DEF Accountable, NoneOf, Fault
  <1>3. /\ ActiveJobs' \subseteq ActiveJobs \ {i}
        /\ \A j \in ActiveJobs' : mpijobs'[j] = mpijobs[j]
    BY <1>2 DEF HaltTrainingJob, Rejected, ActiveJobs, Without, Restrict
  <1>4. \A j : j # i => IsRunning(j)' = IsRunning(j)
    BY <1>2 DEF HaltTrainingJob, Rejected, MarkHalted, IsRunning
  <1> QED BY <1>1, <1>2, <1>3, <1>4 DEF AccountInv, Accounted, Groups

\* A job that is started has an MPIJob of its allocation.
LEMMA StartAccounted == ASSUME AccountInv, NEW i \in Jobs, StartTrainingJob(i) PROVE Accounted'
  <1>1. /\ UNCHANGED <<JobNumGPU, proc>> /\ proc = "applying" /\ mishaps \subseteq mishaps'
        /\ i \in todo["starts"]
        /\ \A g \in Groups : g # "starts" => todo'[g] = todo[g]
    BY DEF StartTrainingJob, Apply, Turn, NoFault, Fault, Rejected, AccountInv, PanicInv, LifeInv, MapsInv, TypeOK
  <1>2. i \in DOMAIN ReadyJobs /\ i \in DOMAIN JobNumGPU /\ JobNumGPU[i] # 0
    BY <1>1 DEF AccountInv, PanicInv, LifeInv, MapsInv, MapsConsistent, StartsAllocated, Positive, At, Groups
  <1> SUFFICES ASSUME Accountable' PROVE Accounted'
    BY DEF Accounted
  <1>3. Accountable /\ "unanswered" \notin mishaps' /\ ~Fault("rejected")
    BY <1>1 DEF Accountable, NoneOf, Fault
  <1>4. CASE UNCHANGED <<mpijobs, ReadyJobs>>
    BY <1>1, <1>3, <1>4 DEF AccountInv, Accounted, Groups, ActiveJobs, IsRunning
  <1>5. CASE /\ mpijobs' = Put(mpijobs, i, [replicas |-> JobNumGPU[i], phase |-> "Active"])
             /\ ReadyJobs' = [ReadyJobs EXCEPT ![i] = "Running"]
    <2>1. /\ ActiveJobs' = ActiveJobs \cup {i} /\ mpijobs'[i].replicas = JobNumGPU[i]
          /\ \A j \in ActiveJobs : j # i => mpijobs'[j] = mpijobs[j]
      BY <1>5 DEF ActiveJobs, Put
    <2>2. IsRunning(i)' /\ \A j : j # i => IsRunning(j)' = IsRunning(j)
      BY <1>2, <1>5 DEF IsRunning
    <2>3. At(JobNumGPU', i) = JobNumGPU[i]
      BY <1>1, <1>2 DEF At
    <2> QED BY <1>1, <1>2, <1>3, <2>1, <2>2, <2>3 DEF AccountInv, Accounted, Groups
  <1> QED BY <1>3, <1>4, <1>5 DEF StartTrainingJob, Rejected

\* An MPIJob that is resized has the size of the allocation.
LEMMA ScaleAccounted ==
    ASSUME AccountInv, NEW i \in Jobs, NEW g \in {"scaleIns", "scaleOuts"}, ScaleTrainingJob(g, i)
    PROVE  Accounted'
  <1>1. /\ UNCHANGED <<memory, proc>> /\ proc = "applying" /\ mishaps \subseteq mishaps'
        /\ i \in todo[g] /\ \A h \in Groups : todo[h] \ {i} \subseteq todo'[h]
    BY DEF ScaleTrainingJob, Apply, Turn, NoFault, Fault, AccountInv, PanicInv, LifeInv, MapsInv, TypeOK
  <1>2. i \in DOMAIN JobNumGPU /\ JobNumGPU[i] # 0
    BY <1>1 DEF AccountInv, PanicInv, LifeInv, MapsInv, StartsAllocated, Positive, At
  <1> SUFFICES ASSUME Accountable' PROVE Accounted'
    BY DEF Accounted
  <1>3. Accountable /\ ~Fault("rejected")
    BY <1>1 DEF Accountable, NoneOf, Fault
  <1>4. /\ ActiveJobs' = ActiveJobs
        /\ i \in ActiveJobs => mpijobs'[i].replicas = JobNumGPU[i]
        /\ \A j \in ActiveJobs : j # i => mpijobs'[j] = mpijobs[j]
    <2>1. CASE i \notin DOMAIN mpijobs /\ UNCHANGED mpijobs
      BY <2>1 DEF ActiveJobs
    <2>2. CASE i \in DOMAIN mpijobs /\ mpijobs' = [mpijobs EXCEPT ![i].replicas = JobNumGPU[i]]
      <3>1. mpijobs[i] \in MPIJob
        BY <2>2 DEF AccountInv, PanicInv, LifeInv, MapsInv, TypeOK, IsMap
      <3> QED BY <2>2, <3>1 DEF ActiveJobs, MPIJob
    <2> QED BY <1>3, <2>1, <2>2 DEF ScaleTrainingJob
  <1>5. \A j : IsRunning(j)' = IsRunning(j) /\ At(JobNumGPU', j) = At(JobNumGPU, j)
    BY <1>1 DEF IsRunning, At, memory
  <1> QED BY <1>1, <1>2, <1>3, <1>4, <1>5 DEF AccountInv, Accounted, Groups, At

\* A restart enters the active MPIJobs as they are.
LEMMA RestartAccounted == ASSUME AccountInv, Restart PROVE Accounted'
  <1>1. CASE FindMetadata
    <2>1. /\ UNCHANGED mpijobs /\ proc' = "found" /\ mishaps \subseteq mishaps'
          /\ ActiveJobs \subseteq MetaIn(ReadyStatus) \/ "orphan" \in mishaps'
          /\ DOMAIN ReadyJobs' = MetaIn(ReadyStatus)
      BY <1>1 DEF FindMetadata, Restrict, MetaIn
    <2>2. ActiveJobs' = ActiveJobs
      BY <2>1 DEF ActiveJobs
    <2> QED BY <2>1, <2>2 DEF AccountInv, Accounted, Accountable, NoneOf
  <1>2. CASE ListMPIJobs
    <2> DEFINE active == ActiveJobs \cap DOMAIN ReadyJobs
               finished == (DOMAIN mpijobs \ ActiveJobs) \cap DOMAIN ReadyJobs
    <2>1. /\ UNCHANGED mpijobs /\ proc' = "syncing" /\ mishaps \subseteq mishaps'
          /\ DOMAIN ReadyJobs' = DOMAIN ReadyJobs \ finished
          /\ \A j \in active : ReadyJobs'[j] = "Running"
          /\ JobNumGPU' = [j \in active |-> mpijobs[j].replicas]
      BY <1>2 DEF ListMPIJobs, JobsDone, NoFault, Fault, Without, Restrict
    <2>2. ActiveJobs' = ActiveJobs /\ (Accountable' => Accountable)
      BY <2>1 DEF ActiveJobs, Accountable, NoneOf
    <2>3. Accountable => ActiveJobs \subseteq DOMAIN ReadyJobs
      BY <1>2 DEF ListMPIJobs, AccountInv, Accounted
    <2>4. Accountable => \A j \in ActiveJobs : IsRunning(j)' /\ At(JobNumGPU', j) = mpijobs'[j].replicas
      BY <2>1, <2>3 DEF IsRunning, At
    <2> QED BY <2>1, <2>2, <2>4 DEF AccountInv, Accounted
  <1>3. CASE CacheSynced
    BY <1>3, StillAccounted DEF CacheSynced, history
  <1> QED BY <1>1, <1>2, <1>3 DEF Restart

\* AccountInv is inductive.
LEMMA NextAccount == ASSUME AccountInv, [Next]_vars PROVE AccountInv'
  <1>1. PanicInv' /\ Positive'
    BY NextPanic, NextPositive DEF AccountInv, PanicInv, LifeInv
  <1>2. CASE Service
    BY <1>1, <1>2, StillAccounted
    DEF Service, InsertMetadata, RemoveMetadata, Publish, control, history, NoFault, Fault, AccountInv
  <1>3. CASE PriorityChanged \/ ConfigureAlgorithm \/ UNCHANGED vars
    BY <1>1, <1>3, StillAccounted DEF PriorityChanged, ConfigureAlgorithm, vars, control, history, AccountInv
  <1>4. CASE ReschedStep
    <2>1. CASE \E event \in reschedCh : ReschedFails(event)
      BY <1>1, <2>1, StillAccounted DEF ReschedFails, Fault, AccountInv
    <2>2. CASE Unlock \/ ReschedEnd
      BY <1>1, <2>2, StillAccounted DEF Unlock, ReschedEnd, history, AccountInv
    <2> QED BY <1>1, <1>4, <2>1, <2>2, ReschedAccounted, HaltAccounted, StartAccounted, ScaleAccounted
            DEF ReschedStep, AccountInv
  <1>5. CASE Crash
    <2>1. UNCHANGED mpijobs /\ proc' = "down" /\ mishaps \subseteq mishaps'
      BY <1>5 DEF Crash
    <2> QED BY <1>1, <2>1 DEF AccountInv, Accounted, ActiveJobs, Accountable, NoneOf
  <1> QED BY <1>1, <1>2, <1>3, <1>4, <1>5, EndAccounted, ReadMsgAccounted, NoticeAccounted,
             RestartAccounted DEF Next, AccountInv

\* Nothing is pending and nothing runs initially.
LEMMA InitAccount == ASSUME Init PROVE AccountInv
  <1>1. Positive /\ Accounted
    BY DEF Init, Positive, Accounted, NoChanges, Groups, ActiveJobs, EmptyMap
  <1> QED BY <1>1, InitPanic DEF AccountInv

\* No GPU leaks: whenever the scheduler does not hold the lock to apply changes, an
\* active MPIJob has a running job and the GPUs allocated to it.
THEOREM NoGpuLeaks == Spec => []ActiveIsAccounted
  <1>1. Init => AccountInv
    BY InitAccount
  <1>2. AccountInv /\ [Next]_vars => AccountInv'
    BY NextAccount
  <1>3. AccountInv => ActiveIsAccounted
    BY DEF AccountInv, PanicInv, LifeInv, MapsInv, OnlyWhenApplying, NoChanges, Groups, Accounted,
           Accountable, ActiveIsAccounted, LockFree, IsRunning
  <1> QED BY <1>1, <1>2, <1>3, PTL DEF Spec

(***************************************************************************)
(* Untouched is inductive.                                                 *)
(***************************************************************************)

\* A message that is not there yet may be added once.
LEMMA OnceAppend ==
    ASSUME queue \in Seq(Message), Once(queue), NEW m \in Message,
           m.verb = "create" => m \notin Range(queue)
    PROVE  Once(Append(queue, m))
  <1>1. /\ Append(queue, m) \in Seq(Message) /\ Len(Append(queue, m)) = Len(queue) + 1
        /\ \A i \in 1..Len(queue) : Append(queue, m)[i] = queue[i]
        /\ Append(queue, m)[Len(queue) + 1] = m
    BY AppendProperties
  <1>2. /\ DOMAIN Append(queue, m) = 1..(Len(queue) + 1)
        /\ DOMAIN queue = 1..Len(queue) /\ Len(queue) \in Nat
    BY <1>1, LenProperties
  <1>3. \A i \in 1..(Len(queue) + 1) : i \in DOMAIN queue \/ i = Len(queue) + 1
    BY <1>2
  <1> QED BY <1>1, <1>2, <1>3 DEF Once, Range

\* What follows the first message is delivered once; a creation that was first
\* is not delivered again.
LEMMA OnceTail ==
    ASSUME queue \in Seq(Message), Once(queue), queue # <<>>
    PROVE  /\ Once(Tail(queue))
           /\ Head(queue).verb = "create" => Head(queue) \notin Range(Tail(queue))
  <1>1. /\ Tail(queue) \in Seq(Message) /\ Len(Tail(queue)) = Len(queue) - 1
        /\ \A i \in 1..Len(Tail(queue)) : Tail(queue)[i] = queue[i + 1]
        /\ Head(queue) = queue[1] /\ Len(queue) \in Nat \ {0}
    BY HeadTailProperties, EmptySeq
  <1>2. /\ DOMAIN Tail(queue) = 1..(Len(queue) - 1) /\ DOMAIN queue = 1..Len(queue)
    BY <1>1, LenProperties
  <1>3. \A i \in DOMAIN Tail(queue) : i + 1 \in DOMAIN queue /\ i + 1 # 1 /\ Tail(queue)[i] = queue[i + 1]
    BY <1>1, <1>2
  <1>4. 1 \in DOMAIN queue
    BY <1>1, <1>2
  <1>5. \A i, k \in DOMAIN Tail(queue) : i + 1 = k + 1 => i = k
    BY <1>2
  <1> QED BY <1>1, <1>3, <1>4, <1>5 DEF Once, Range

\* So is what follows the first n messages.
LEMMA OnceSuffix ==
    ASSUME queue \in Seq(Message), Once(queue), NEW n \in 0..Len(queue)
    PROVE  Once(SubSeq(queue, n + 1, Len(queue)))
  <1> DEFINE t == SubSeq(queue, n + 1, Len(queue))
  <1>1. Len(queue) \in Nat /\ DOMAIN queue = 1..Len(queue)
    BY LenProperties
  <1>2. \A i \in (n + 1)..Len(queue) : queue[i] \in Message
    BY <1>1, ElementOfSeq
  <1>3. /\ t \in Seq(Message)
        /\ Len(t) = IF n + 1 <= Len(queue) THEN Len(queue) - (n + 1) + 1 ELSE 0
        /\ \A i \in 1..(Len(queue) - (n + 1) + 1) : t[i] = queue[(n + 1) + i - 1]
    <2>1. n + 1 \in Int /\ Len(queue) \in Int
      BY <1>1
    <2> QED BY <1>2, <2>1, SubSeqProperties
  <1>4. DOMAIN t = 1..Len(t)
    BY <1>3, LenProperties
  <1> HIDE DEF t
  <1>5. n \in Nat /\ n <= Len(queue)
    BY <1>1
  <1>6. Len(t) = Len(queue) - n
    <2>1. CASE n + 1 <= Len(queue)
      <3>1. Len(t) = Len(queue) - (n + 1) + 1
        BY <1>3, <2>1
      <3> QED BY <1>1, <1>5, <3>1
    <2>2. CASE ~(n + 1 <= Len(queue))
      <3>1. Len(t) = 0
        BY <1>3, <2>2
      <3>2. \A k, l \in Nat : k <= l /\ ~(k + 1 <= l) => l = k
        OBVIOUS
      <3>3. Len(queue) = n
        BY <1>1, <1>5, <2>2, <3>2
      <3> QED BY <1>1, <1>5, <3>1, <3>3
    <2> QED BY <2>1, <2>2
  <1>7. \A i \in 1..(Len(queue) - n) : /\ i \in 1..(Len(queue) - (n + 1) + 1)
                                       /\ (n + 1) + i - 1 = n + i /\ n + i \in 1..Len(queue)
    BY <1>1, <1>5
  <1>8. \A i \in DOMAIN t : n + i \in DOMAIN queue /\ t[i] = queue[n + i]
    BY <1>1, <1>3, <1>4, <1>6, <1>7
  <1>9. \A i, k \in DOMAIN t : n + i = n + k => i = k
    BY <1>4, <1>5, <1>6, <1>1
  <1>10. Once(t)
    BY <1>8, <1>9 DEF Once
  <1> QED BY <1>10 DEF t

\* No message is added, no job appears, no document changes that was only written.
LEMMA SameUntouched ==
    ASSUME Untouched, submitted \subseteq submitted', Once(queue'),
           outbox' \cup Range(queue') \subseteq outbox \cup Range(queue),
           DOMAIN mpijobs' \subseteq DOMAIN mpijobs,
           \A j \in Jobs : JobExists(j)' => JobExists(j) \/ j \in MetaIn(ReadyStatus \cup DoneStatus),
           /\ DOMAIN metadata' \subseteq DOMAIN metadata
           /\ \A j \in DOMAIN metadata' : metadata'[j] = metadata[j] \/ JobExists(j)
    PROVE  Untouched'
  <1>1. \A j : Pending("create", j)' => Pending("create", j)
    BY DEF Pending
  <1>2. \A j \in DOMAIN metadata : metadata[j] = "Submitted" => j \notin MetaIn(ReadyStatus \cup DoneStatus)
    BY DEF MetaIn, ReadyStatus, DoneStatus
  <1>3. ASSUME NEW j \in Jobs, Pending("create", j)'
        PROVE  /\ j \notin DOMAIN mpijobs' /\ ~JobExists(j)'
               /\ j \in DOMAIN metadata' => metadata'[j] = "Submitted"
    <2>1. /\ j \notin DOMAIN mpijobs /\ ~JobExists(j)
          /\ j \in DOMAIN metadata => metadata[j] = "Submitted"
      BY <1>1, <1>3 DEF Untouched
    <2>2. ~JobExists(j)'
      BY <1>2, <2>1 DEF MetaIn
    <2> QED BY <2>1, <2>2
  <1> QED BY <1>3 DEF Untouched

\* Publishing a creation for the first time.
LEMMA ServiceUntouched ==
    ASSUME DurableInv, Untouched, Service PROVE Untouched'
  <1> USE DEF DurableInv, LifeInv
  <1>1. UNCHANGED <<ReadyJobs, DoneJobs, mpijobs>>
    BY DEF Service, InsertMetadata, RemoveMetadata, Publish, memory
  <1>2. CASE \E i \in Jobs : InsertMetadata(i)
    <2>1. PICK i \in Jobs : InsertMetadata(i)
      BY <1>2
    <2>2. /\ i \notin DOMAIN mpijobs /\ ~JobExists(i) /\ UNCHANGED queue
          /\ submitted' = submitted \cup {i}
          /\ outbox' = outbox \cup {[verb |-> "create", job |-> i]}
          /\ DOMAIN metadata' = DOMAIN metadata \cup {i} /\ metadata'[i] = "Submitted"
          /\ \A j \in DOMAIN metadata : j # i => metadata'[j] = metadata[j]
      BY <2>1 DEF InsertMetadata, Put, Untouched, OnlySubmitted, MoreSubmitted, JobExists
    <2>3. \A j \in Jobs : j # i /\ Pending("create", j)' => Pending("create", j)
      BY <2>2 DEF Pending
    <2> QED BY <1>1, <2>2, <2>3 DEF Untouched, JobExists
  <1>3. CASE \E i \in Jobs : RemoveMetadata(i)
    <2>1. PICK i \in Jobs : RemoveMetadata(i)
      BY <1>3
    <2>2. /\ UNCHANGED <<queue, submitted>>
          /\ DOMAIN metadata' \subseteq DOMAIN metadata
          /\ \A j \in DOMAIN metadata' : metadata'[j] = metadata[j]
      BY <2>1 DEF RemoveMetadata, Without, Restrict
    <2>3. \A j : Pending("create", j)' => Pending("create", j)
      BY <2>1, <2>2 DEF RemoveMetadata, Pending
    <2> QED BY <1>1, <2>2, <2>3 DEF Untouched, JobExists
  <1>4. CASE \E m \in outbox : Publish(m)
    <2>1. PICK m \in outbox : Publish(m)
      BY <1>4
    <2>2. m \in Message /\ queue \in Seq(Message)
      BY DEF MapsInv, TypeOK
    <2>3. m.verb = "create" => m \notin Range(queue)
      <3>1. m = [verb |-> m.verb, job |-> m.job] /\ m.job \in Jobs
        BY <2>2 DEF Message
      <3> QED BY <3>1 DEF Unseen, Create
    <2>4. Once(Append(queue, m)) /\ Range(Append(queue, m)) = Range(queue) \cup {m}
      BY <2>2, <2>3, OnceAppend, RangeAppendExact DEF Untouched
    <2>5. /\ outbox' \cup Range(queue') \subseteq outbox \cup Range(queue)
          /\ Once(queue') /\ UNCHANGED submitted
          /\ DOMAIN metadata' \subseteq DOMAIN metadata
          /\ \A j \in DOMAIN metadata' : metadata'[j] = metadata[j]
      BY <2>1, <2>4 DEF Publish, RollBack, Without, Restrict, Untouched
    <2> QED BY <1>1, <2>5, SameUntouched DEF JobExists
  <1> QED BY <1>2, <1>3, <1>4 DEF Service

\* A creation is no longer pending when it is handled.
LEMMA ReadMsgUntouched ==
    ASSUME DurableInv, Untouched, ReadMsg PROVE Untouched'
  <1> USE DEF DurableInv, LifeInv
  <1> DEFINE m == Head(queue)
  <1>1. /\ queue \in Seq(Message) /\ queue # <<>> /\ queue' = Tail(queue)
        /\ UNCHANGED <<outbox, submitted>>
    BY DEF ReadMsg, MapsInv, TypeOK, service
  <1>2. /\ Once(queue') /\ (m.verb = "create" => m \notin Range(queue'))
        /\ Range(queue) = {m} \cup Range(queue') /\ m \in Message
    BY <1>1, OnceTail, RangeHeadTail, HeadTailProperties DEF Untouched
  <1>3. m = [verb |-> m.verb, job |-> m.job] /\ m.job \in Jobs
    BY <1>2 DEF Message
  <1>4. ASSUME NEW i \in Jobs, i = m.job, m.verb = "create", CreateTrainingJob(i), UNCHANGED mpijobs
        PROVE  Untouched'
    <2>1. ~Pending("create", i)'
      <3>1. m = Create(i) /\ m \in Range(queue) /\ m \notin Range(queue')
        BY <1>2, <1>3, <1>4 DEF Create
      <3>2. Create(i) \notin outbox
        BY <1>3, <3>1 DEF Unseen
      <3> QED BY <1>1, <3>1, <3>2 DEF Pending, Create
    <2>2. \A j : Pending("create", j)' => Pending("create", j)
      BY <1>1, <1>2 DEF Pending
    <2>3. /\ \A j \in Jobs : j # i => JobExists(j)' = JobExists(j)
          /\ DOMAIN metadata' = DOMAIN metadata
          /\ \A j \in DOMAIN metadata : j # i => metadata'[j] = metadata[j]
      BY <1>4 DEF CreateTrainingJob, JobExists, Put, memory
    <2> HIDE DEF m
    <2>4. ASSUME NEW j \in Jobs, Pending("create", j)'
          PROVE  /\ j \notin DOMAIN mpijobs' /\ ~JobExists(j)'
                 /\ j \in DOMAIN metadata' => metadata'[j] = "Submitted"
      <3>1. j # i
        BY <2>1, <2>4
      <3>2. /\ j \notin DOMAIN mpijobs /\ ~JobExists(j)
            /\ j \in DOMAIN metadata => metadata[j] = "Submitted"
        BY <2>2, <2>4 DEF Untouched
      <3> QED BY <1>4, <2>3, <3>1, <3>2
    <2>5. Once(queue') /\ DOMAIN mpijobs' \subseteq submitted'
      BY <1>1, <1>2, <1>4 DEF Untouched
    <2> QED BY <2>4, <2>5 DEF Untouched
  <1>5. ASSUME NEW i \in Jobs, DeleteTrainingJob(i), UNCHANGED metadata PROVE Untouched'
    <2>1. /\ DOMAIN mpijobs' \subseteq DOMAIN mpijobs
          /\ \A j \in Jobs : JobExists(j)' => JobExists(j)
      BY <1>5 DEF DeleteTrainingJob, JobExists, Without, Restrict
    <2>2. /\ outbox' \cup Range(queue') \subseteq outbox \cup Range(queue)
          /\ submitted \subseteq submitted' /\ Once(queue')
      BY <1>1, <1>2
    <2>3. /\ DOMAIN metadata' \subseteq DOMAIN metadata
          /\ \A j \in DOMAIN metadata' : metadata'[j] = metadata[j] \/ JobExists(j)
      BY <1>5
    <2> QED BY <2>1, <2>2, <2>3, SameUntouched
  <1> QED BY <1>3, <1>4, <1>5 DEF ReadMsg

\* The other steps of the scheduler are about jobs whose creation has been handled.
LEMMA SchedulerUntouched ==
    ASSUME DurableInv, Untouched, (\E j \in Jobs : UpdateMPIJob(j)) \/ ReschedStep \/ Restart
    PROVE  Untouched'
  <1> USE DEF DurableInv, LifeInv
  <1>1. UNCHANGED <<submitted, outbox, queue>>
    BY DEF UpdateMPIJob, ReschedStep, Resched, ReschedFails, HaltTrainingJob, StartTrainingJob,
           ScaleTrainingJob, Unlock, ReschedEnd, Restart, FindMetadata, ListMPIJobs, CacheSynced, service
  <1>2. CASE \E j \in Jobs : StartTrainingJob(j)
    <2>1. PICK i \in Jobs : StartTrainingJob(i)
      BY <1>2
    <2>2. i \in DOMAIN ReadyJobs /\ JobExists(i)
      BY <2>1 DEF StartTrainingJob, Apply, MapsInv, MapsConsistent, JobExists, Groups
    <2>3. /\ DOMAIN mpijobs' \subseteq DOMAIN mpijobs \cup {i}
          /\ UNCHANGED metadata /\ (\A j \in Jobs : JobExists(j)' = JobExists(j))
      BY <2>1 DEF StartTrainingJob, Rejected, Put, JobExists
    <2> QED BY <1>1, <2>2, <2>3 DEF Untouched, Pending, OnlySubmitted
  <1>3. CASE FindMetadata
    <2>1. \A j \in Jobs : JobExists(j)' => j \in MetaIn(ReadyStatus \cup DoneStatus)
      BY <1>3 DEF FindMetadata, JobExists, Restrict, MetaIn
    <2> QED BY <1>1, <1>3, <2>1, SameUntouched DEF FindMetadata, Untouched
  <1>4. ASSUME NEW ready, NEW done, JobsDone(ready, done), DOMAIN ready = DOMAIN ReadyJobs,
               DOMAIN done \subseteq DOMAIN ReadyJobs, UNCHANGED mpijobs
        PROVE  Untouched'
    <2>1. /\ \A j \in Jobs : JobExists(j)' => JobExists(j)
          /\ DOMAIN metadata' = DOMAIN metadata
          /\ \A j \in DOMAIN metadata' : metadata'[j] = metadata[j] \/ JobExists(j)
      BY <1>4 DEF JobsDone, JobExists, Without, Restrict
    <2> QED BY <1>1, <1>4, <2>1, SameUntouched DEF Untouched
  <1>5. CASE ListMPIJobs
    <2> DEFINE active == ActiveJobs \cap DOMAIN ReadyJobs
               finished == (DOMAIN mpijobs \ ActiveJobs) \cap DOMAIN ReadyJobs
               ready == [j \in DOMAIN ReadyJobs |->
                            IF j \in active THEN "Running" ELSE ReadyJobs[j]]
               done  == [j \in finished |-> DoneAs(mpijobs[j].phase)]
    <2>1. JobsDone(ready, done) /\ UNCHANGED mpijobs
      BY <1>5 DEF ListMPIJobs
    <2>2. DOMAIN ready = DOMAIN ReadyJobs /\ DOMAIN done \subseteq DOMAIN ReadyJobs
      OBVIOUS
    <2> HIDE DEF ready, done
    <2> QED BY <1>4, <2>1, <2>2
  <1>6. CASE \E j \in Jobs : UpdateMPIJob(j)
    <2>1. PICK i \in Jobs : UpdateMPIJob(i)
      BY <1>6
    <2>2. CASE UNCHANGED <<memory, metadata>>
      BY <1>1, <2>1, <2>2, SameUntouched DEF UpdateMPIJob, Untouched, memory, JobExists
    <2>3. CASE i \in DOMAIN ReadyJobs /\ JobsDone(ReadyJobs, [j \in {i} |-> DoneAs(Head(updates[i]))])
      BY <1>4, <2>1, <2>3 DEF UpdateMPIJob
    <2> QED BY <2>1, <2>2, <2>3 DEF UpdateMPIJob
  <1>7. CASE /\ UNCHANGED <<metadata, DoneJobs>> /\ DOMAIN ReadyJobs' = DOMAIN ReadyJobs
             /\ DOMAIN mpijobs' \subseteq DOMAIN mpijobs
    BY <1>1, <1>7, SameUntouched DEF Untouched, JobExists
  <1>8. CASE CacheSynced
    BY <1>7, <1>8 DEF CacheSynced, memory
  <1>9. ASSUME ReschedStep, ~\E j \in Jobs : StartTrainingJob(j) PROVE Untouched'
    BY <1>7, <1>9 DEF ReschedStep, Resched, ReschedFails, HaltTrainingJob, MarkHalted, Rejected,
           ScaleTrainingJob, Unlock, ReschedEnd, memory, Without, Restrict
  <1> QED BY <1>2, <1>3, <1>5, <1>6, <1>8, <1>9 DEF Restart

\* Untouched is preserved by every step.
LEMMA NextUntouched == ASSUME DurableInv, Untouched, [Next]_vars PROVE Untouched'
  <1>1. CASE \E j \in Jobs : MPIJobUpdated(j)
    BY <1>1, SameUntouched DEF MPIJobUpdated, memory, service, Untouched, JobExists
  <1>2. CASE PriorityChanged \/ ConfigureAlgorithm \/ UNCHANGED vars
    BY <1>2, SameUntouched DEF PriorityChanged, ConfigureAlgorithm, vars, memory, service, Untouched, JobExists
  <1>3. CASE Crash
    <2>1. PICK n \in 0..Len(queue) : queue' = SubSeq(queue, n + 1, Len(queue))
      BY <1>3 DEF Crash
    <2>2. queue \in Seq(Message)
      BY DEF DurableInv, LifeInv, MapsInv, TypeOK
    <2>3. Once(queue') /\ Range(queue') \subseteq Range(queue)
      BY <2>1, <2>2, OnceSuffix, RangeSuffix DEF Untouched
    <2>4. UNCHANGED <<mpijobs, metadata, submitted, outbox>> /\ \A j \in Jobs : ~JobExists(j)'
      BY <1>3 DEF Crash, service, JobExists, EmptyMap
    <2> QED BY <2>3, <2>4, SameUntouched
  <1> QED BY <1>1, <1>2, <1>3, ServiceUntouched, ReadMsgUntouched, SchedulerUntouched DEF Next

(***************************************************************************)
(* Matched is inductive.                                                   *)
(***************************************************************************)

\* Ready jobs at most disappear with their allocations, and so do their MPIJobs.
LEMMA FewerMatched ==
    ASSUME Matched, mishaps \subseteq mishaps',
           DOMAIN ReadyJobs' \subseteq DOMAIN ReadyJobs,
           DOMAIN JobNumGPU = DOMAIN ReadyJobs => DOMAIN JobNumGPU' = DOMAIN ReadyJobs',
           \A j \in DOMAIN ReadyJobs' : ReadyJobs'[j] = ReadyJobs[j] /\ At(JobNumGPU', j) = At(JobNumGPU, j),
           DOMAIN mpijobs' \subseteq DOMAIN mpijobs,
           todo'["halts"] = todo["halts"], todo'["starts"] = todo["starts"]
    PROVE  Matched'
  <1> SUFFICES ASSUME Regular' PROVE Matched'
    BY DEF Matched
  <1>1. Regular
    BY DEF Regular, NoneOf
  <1>2. ASSUME NEW j \in DOMAIN ReadyJobs' PROVE MatchedJob(j)'
    <2>1. j \in DOMAIN ReadyJobs /\ MatchedJob(j)
      BY <1>1, <1>2 DEF Matched
    <2>2. ReadyJobs'[j] = ReadyJobs[j] /\ At(JobNumGPU', j) = At(JobNumGPU, j)
      BY <1>2
    <2> QED BY <2>1, <2>2 DEF MatchedJob
  <1> QED BY <1>1, <1>2 DEF Matched

\* A step that leaves memory and pending changes alone and creates no MPIJob.
LEMMA SameMatched ==
    ASSUME Matched, mishaps \subseteq mishaps', UNCHANGED <<ReadyJobs, JobNumGPU, todo>>,
           DOMAIN mpijobs' \subseteq DOMAIN mpijobs
    PROVE  Matched'
  BY FewerMatched DEF At

\* An accepted job waits without GPUs, and no MPIJob has its name.
LEMMA CreateMatched ==
    ASSUME StatusInv, NEW i \in Jobs, ReadMsg, Head(queue) = Create(i),
           CreateTrainingJob(i), UNCHANGED mpijobs
    PROVE  Matched'
  <1>1. UNCHANGED todo /\ todo = NoChanges /\ mishaps \subseteq mishaps'
    BY DEF ReadMsg, LockFree, CreateTrainingJob, NoFault, Fault, StatusInv, DurableInv, LifeInv,
           MapsInv, OnlyWhenApplying
  <1>2. CASE UNCHANGED memory
    BY <1>1, <1>2, SameMatched DEF memory, StatusInv
  <1>3. CASE ReadyJobs' = Put(ReadyJobs, i, "Waiting") /\ JobNumGPU' = Put(JobNumGPU, i, 0)
    <2>1. i \notin DOMAIN mpijobs
      <3>1. queue \in Seq(Message) /\ queue # <<>>
        BY DEF ReadMsg, StatusInv, DurableInv, LifeInv, MapsInv, TypeOK
      <3>2. Pending("create", i)
        BY <3>1, RangeTail DEF Pending, Create
      <3> QED BY <3>2 DEF StatusInv, Untouched
    <2> SUFFICES ASSUME Regular' PROVE Matched'
      BY DEF Matched
    <2>2. Regular
      BY <1>1 DEF Regular, NoneOf
    <2>3. /\ DOMAIN ReadyJobs' = DOMAIN ReadyJobs \cup {i} /\ ReadyJobs'[i] = "Waiting"
          /\ DOMAIN JobNumGPU' = DOMAIN JobNumGPU \cup {i} /\ At(JobNumGPU', i) = 0
          /\ \A j \in DOMAIN ReadyJobs : j # i =>
                ReadyJobs'[j] = ReadyJobs[j] /\ At(JobNumGPU', j) = At(JobNumGPU, j)
      BY <1>3 DEF Put, At
    <2>4. todo["halts"] = {} /\ todo["starts"] = {}
      BY <1>1 DEF NoChanges, Groups
    <2>5. ASSUME NEW j \in DOMAIN ReadyJobs' PROVE MatchedJob(j)'
      <3>1. CASE j = i
        BY <1>1, <2>1, <2>3, <2>4, <3>1 DEF MatchedJob
      <3>2. CASE j # i
        <4>1. j \in DOMAIN ReadyJobs /\ MatchedJob(j)
          BY <2>2, <2>3, <3>2 DEF StatusInv, Matched
        <4> QED BY <1>1, <2>3, <3>2, <4>1 DEF MatchedJob
      <3> QED BY <3>1, <3>2
    <2> QED BY <2>2, <2>3, <2>5 DEF StatusInv, Matched
  <1> QED BY <1>2, <1>3 DEF CreateTrainingJob

\* A message leaves the other jobs alone.
LEMMA ReadMsgMatched == ASSUME StatusInv, ReadMsg PROVE Matched'
  <1>1. Head(queue) \in Message
    BY HeadTailProperties DEF ReadMsg, StatusInv, DurableInv, LifeInv, MapsInv, TypeOK
  <1>2. PICK i \in Jobs : i = Head(queue).job
    BY <1>1 DEF Message
  <1>3. CASE Head(queue).verb = "create" /\ CreateTrainingJob(i) /\ UNCHANGED mpijobs
    <2>1. Head(queue) = Create(i)
      BY <1>1, <1>2, <1>3 DEF Message, Create
    <2> QED BY <1>3, <2>1, CreateMatched
  <1>4. CASE DeleteTrainingJob(i)
    <2>1. /\ UNCHANGED todo /\ mishaps \subseteq mishaps'
          /\ DOMAIN mpijobs' \subseteq DOMAIN mpijobs
      BY <1>4 DEF ReadMsg, DeleteTrainingJob, NoFault, Fault, Without, Restrict
    <2>2. CASE i \in DOMAIN ReadyJobs
      <3>1. /\ DOMAIN ReadyJobs' = DOMAIN ReadyJobs \ {i}
            /\ DOMAIN JobNumGPU' = DOMAIN JobNumGPU \ {i}
            /\ \A j \in DOMAIN ReadyJobs' :
                  ReadyJobs'[j] = ReadyJobs[j] /\ At(JobNumGPU', j) = At(JobNumGPU, j)
        BY <1>4, <2>2 DEF DeleteTrainingJob, Without, Restrict, At
      <3> QED BY <2>1, <3>1, FewerMatched DEF StatusInv
    <2>3. CASE i \notin DOMAIN ReadyJobs
      BY <1>4, <2>1, <2>3, SameMatched DEF DeleteTrainingJob, StatusInv
    <2> QED BY <2>2, <2>3
  <1> QED BY <1>2, <1>3, <1>4 DEF ReadMsg

\* A job that is done loses its allocation.
LEMMA NoticeMatched == ASSUME StatusInv, NEW i \in Jobs, UpdateMPIJob(i) PROVE Matched'
  <1>1. UNCHANGED <<todo, mpijobs>> /\ mishaps \subseteq mishaps'
    BY DEF UpdateMPIJob, JobsDone, NoFault, Fault
  <1>2. CASE UNCHANGED memory
    BY <1>1, <1>2, SameMatched DEF memory, StatusInv
  <1>3. CASE /\ JobsDone(ReadyJobs, [j \in {i} |-> DoneAs(Head(updates[i]))])
             /\ JobNumGPU' = Without(JobNumGPU, {i})
    <2>1. /\ DOMAIN ReadyJobs' = DOMAIN ReadyJobs \ {i}
          /\ DOMAIN JobNumGPU' = DOMAIN JobNumGPU \ {i}
          /\ \A j \in DOMAIN ReadyJobs' :
                ReadyJobs'[j] = ReadyJobs[j] /\ At(JobNumGPU', j) = At(JobNumGPU, j)
      BY <1>3 DEF JobsDone, Without, Restrict, At
    <2> QED BY <1>1, <2>1, FewerMatched DEF StatusInv
  <1> QED BY <1>2, <1>3 DEF UpdateMPIJob

\* A job whose GPUs are all taken is to be halted, one that gets its first is to
\* be started.
LEMMA ReschedMatched ==
    ASSUME StatusInv, NEW event \in reschedCh, Resched(event) PROVE Matched'
  <1> SUFFICES ASSUME Regular' PROVE Matched'
    BY DEF Matched
  <1>1. Regular /\ UNCHANGED <<ReadyJobs, mpijobs>> /\ todo = NoChanges
    BY DEF Resched, Regular, NoneOf, StatusInv, DurableInv, LifeInv, MapsInv, OnlyWhenApplying
  <1>2. PICK alloc :
            /\ JobNumGPU' = alloc /\ IsMap(alloc, Jobs, Nat)
            /\ todo'["halts"] = Halts(JobNumGPU, alloc)
            /\ todo'["starts"] = Starts(JobNumGPU, alloc)
            /\ DOMAIN alloc = DOMAIN ReadyJobs
    BY ReschedPositive DEF StatusInv, DurableInv, LifeInv, Regular, NoneOf
  <1>3. DOMAIN JobNumGPU = DOMAIN ReadyJobs /\ todo["halts"] = {} /\ todo["starts"] = {}
    BY <1>1 DEF StatusInv, Matched, NoChanges, Groups
  <1>4. ASSUME NEW j \in DOMAIN ReadyJobs PROVE MatchedJob(j)'
    <2>1. MatchedJob(j) /\ ReadyJobs[j] \in ReadyStatus
      BY <1>1 DEF StatusInv, Matched, DurableInv, LifeInv, MapsInv, TypeOK, IsMap
    <2>2. /\ At(JobNumGPU, j) = JobNumGPU[j] /\ JobNumGPU[j] \in Nat
          /\ At(alloc, j) = alloc[j] /\ alloc[j] \in Nat
      BY <1>1, <1>2, <1>3 DEF At, IsMap, StatusInv, DurableInv, LifeInv, MapsInv, TypeOK
    <2>3. ReadyJobs[j] = "Running" <=> JobNumGPU[j] # 0
      BY <1>3, <2>1, <2>2 DEF MatchedJob
    <2>4. j \in todo'["halts"] <=> alloc[j] = 0 /\ JobNumGPU[j] # 0
      BY <1>2, <1>3, <2>2 DEF Halts
    <2>5. j \in todo'["starts"] <=> alloc[j] # 0 /\ JobNumGPU[j] = 0
      BY <1>2, <1>3, <2>2 DEF Starts
    <2> QED BY <1>1, <1>2, <2>1, <2>2, <2>3, <2>4, <2>5 DEF MatchedJob, ReadyStatus
  <1> QED BY <1>1, <1>2, <1>4 DEF Matched

\* A halted job waits, without an MPIJob.
LEMMA HaltMatched == ASSUME StatusInv, NEW i \in Jobs, HaltTrainingJob(i) PROVE Matched'
  <1>1. /\ UNCHANGED JobNumGPU /\ mishaps \subseteq mishaps'
        /\ i \in todo["halts"] /\ todo'["halts"] = todo["halts"] \ {i}
        /\ todo'["starts"] = todo["starts"]
    BY DEF HaltTrainingJob, Apply, NoFault, Fault, Rejected, StatusInv, DurableInv, LifeInv,
           MapsInv, TypeOK, Groups
  <1> SUFFICES ASSUME Regular' PROVE Matched'
    BY DEF Matched
  <1>2. Regular /\ ~Fault("unanswered") /\ ~Fault("rejected")
    BY <1>1 DEF Regular, NoneOf, Fault
  <1>3. i \in DOMAIN ReadyJobs
    BY <1>1 DEF StatusInv, DurableInv, LifeInv, MapsInv, MapsConsistent, Groups
  <1>4. MatchedJob(i) /\ ReadyJobs[i] = "Running" /\ At(JobNumGPU, i) = 0
    BY <1>1, <1>2, <1>3 DEF StatusInv, Matched, MatchedJob
  <1>5. i \in DOMAIN mpijobs
    BY <1>2, <1>3, <1>4 DEF StatusInv, BackedInv, Backed, Regular, NoneOf
  <1>6. mpijobs' = Without(mpijobs, {i}) /\ ReadyJobs' = [ReadyJobs EXCEPT ![i] = "Waiting"]
    BY <1>2, <1>5 DEF HaltTrainingJob, MarkHalted, Rejected
  <1>7. /\ DOMAIN mpijobs' = DOMAIN mpijobs \ {i} /\ DOMAIN ReadyJobs' = DOMAIN ReadyJobs
        /\ ReadyJobs'[i] = "Waiting" /\ \A j \in DOMAIN ReadyJobs : j # i => ReadyJobs'[j] = ReadyJobs[j]
    BY <1>3, <1>6 DEF Without, Restrict
  <1>8. ASSUME NEW j \in DOMAIN ReadyJobs PROVE MatchedJob(j)'
    <2>1. CASE j = i
      <3>1. i \notin todo["starts"]
        BY <1>4 DEF MatchedJob
      <3> QED BY <1>1, <1>4, <1>7, <2>1, <3>1 DEF MatchedJob
    <2>2. CASE j # i
      <3>1. MatchedJob(j)
        BY <1>2 DEF StatusInv, Matched
      <3> QED BY <1>1, <1>7, <2>2, <3>1 DEF MatchedJob
    <2> QED BY <2>1, <2>2
  <1> QED BY <1>1, <1>2, <1>7, <1>8 DEF StatusInv, Matched

\* A started job runs, with the GPUs it was given.
LEMMA StartMatched == ASSUME StatusInv, NEW i \in Jobs, StartTrainingJob(i) PROVE Matched'
  <1>1. /\ UNCHANGED JobNumGPU /\ mishaps \subseteq mishaps'
        /\ i \in todo["starts"] /\ todo'["starts"] = todo["starts"] \ {i}
        /\ todo["halts"] = {} /\ todo'["halts"] = {}
    BY DEF StartTrainingJob, Apply, Turn, NoFault, Fault, Rejected, StatusInv, DurableInv, LifeInv,
           MapsInv, TypeOK, Groups
  <1> SUFFICES ASSUME Regular' PROVE Matched'
    BY DEF Matched
  <1>2. Regular /\ "unanswered" \notin mishaps' /\ ~Fault("rejected")
    BY <1>1 DEF Regular, NoneOf, Fault
  <1>3. i \in DOMAIN ReadyJobs
    BY <1>1 DEF StatusInv, DurableInv, LifeInv, MapsInv, MapsConsistent, Groups
  <1>4. MatchedJob(i) /\ ReadyJobs[i] = "Waiting" /\ At(JobNumGPU, i) # 0 /\ i \notin DOMAIN mpijobs
    BY <1>1, <1>2, <1>3 DEF StatusInv, Matched, MatchedJob, Positive
  <1>5. /\ mpijobs' = Put(mpijobs, i, [replicas |-> JobNumGPU[i], phase |-> "Active"])
        /\ ReadyJobs' = [ReadyJobs EXCEPT ![i] = "Running"]
    BY <1>2, <1>4 DEF StartTrainingJob, Rejected
  <1>6. /\ DOMAIN mpijobs' = DOMAIN mpijobs \cup {i} /\ DOMAIN ReadyJobs' = DOMAIN ReadyJobs
        /\ ReadyJobs'[i] = "Running" /\ \A j \in DOMAIN ReadyJobs : j # i => ReadyJobs'[j] = ReadyJobs[j]
    BY <1>3, <1>5 DEF Put
  <1>7. ASSUME NEW j \in DOMAIN ReadyJobs PROVE MatchedJob(j)'
    <2>1. CASE j = i
      BY <1>1, <1>4, <1>6, <2>1 DEF MatchedJob
    <2>2. CASE j # i
      <3>1. MatchedJob(j)
        BY <1>2 DEF StatusInv, Matched
      <3> QED BY <1>1, <1>6, <2>2, <3>1 DEF MatchedJob
    <2> QED BY <2>1, <2>2
  <1> QED BY <1>1, <1>2, <1>6, <1>7 DEF StatusInv, Matched

\* A restart that finds no ready job starts from nothing; one that finds some has
\* Waiting jobs that hold GPUs.
LEMMA RestartMatched == ASSUME StatusInv, Restart PROVE Matched'
  <1>1. CASE FindMetadata
    <2>1. DOMAIN ReadyJobs' = {} \/ "restart" \in mishaps'
      BY <1>1 DEF FindMetadata, Restrict
    <2>2. DOMAIN JobNumGPU' = {}
      BY <1>1 DEF FindMetadata, StatusInv, DurableInv, LifeInv, MapsInv, OnlyWhenApplying, EmptyMap
    <2> QED BY <2>1, <2>2 DEF Matched, Regular, NoneOf
  <1>2. CASE ListMPIJobs
    <2>1. DOMAIN JobNumGPU = {} /\ mishaps \subseteq mishaps'
      BY <1>2 DEF ListMPIJobs, JobsDone, NoFault, Fault, StatusInv, DurableInv, LifeInv, MapsInv,
                  OnlyWhenApplying, EmptyMap
    <2>2. Regular' => DOMAIN ReadyJobs = {}
      BY <2>1 DEF StatusInv, Matched, Regular, NoneOf
    <2>3. DOMAIN ReadyJobs' \subseteq DOMAIN ReadyJobs /\ DOMAIN JobNumGPU' \subseteq DOMAIN ReadyJobs
      BY <1>2 DEF ListMPIJobs, JobsDone, Without, Restrict
    <2> QED BY <2>2, <2>3 DEF Matched
  <1>3. CASE CacheSynced
    BY <1>3, SameMatched DEF CacheSynced, memory, history, StatusInv
  <1> QED BY <1>1, <1>2, <1>3 DEF Restart

\* StatusInv is inductive.
LEMMA NextStatus == ASSUME StatusInv, [Next]_vars PROVE StatusInv'
  <1>1. DurableInv' /\ BackedInv' /\ Positive' /\ Untouched'
    BY NextDurable, NextBacked, NextPositive, NextUntouched DEF StatusInv, DurableInv, LifeInv
  <1>2. CASE Service
    <2>1. UNCHANGED <<ReadyJobs, JobNumGPU, todo, mpijobs>> /\ mishaps \subseteq mishaps'
      BY <1>2 DEF Service, InsertMetadata, RemoveMetadata, Publish, memory, control, history, NoFault, Fault
    <2> QED BY <1>1, <2>1, SameMatched DEF StatusInv
  <1>3. CASE \E j \in Jobs : MPIJobUpdated(j)
    <2>1. /\ UNCHANGED <<ReadyJobs, JobNumGPU, todo>> /\ mishaps \subseteq mishaps'
          /\ DOMAIN mpijobs' = DOMAIN mpijobs
      BY <1>3 DEF MPIJobUpdated, memory, control
    <2> QED BY <1>1, <2>1, SameMatched DEF StatusInv
  <1>4. CASE PriorityChanged \/ ConfigureAlgorithm \/ UNCHANGED vars
    <2>1. UNCHANGED <<ReadyJobs, JobNumGPU, todo, mpijobs, mishaps>>
      BY <1>4 DEF PriorityChanged, ConfigureAlgorithm, vars, memory, control, history
    <2> QED BY <1>1, <2>1, SameMatched DEF StatusInv
  <1>5. CASE ReschedStep
    <2>1. CASE \/ \E event \in reschedCh : ReschedFails(event)
               \/ Unlock \/ ReschedEnd
      <3>1. UNCHANGED <<ReadyJobs, JobNumGPU, todo, mpijobs>> /\ mishaps \subseteq mishaps'
        BY <2>1 DEF ReschedFails, Unlock, ReschedEnd, Fault, memory, history
      <3> QED BY <1>1, <3>1, SameMatched DEF StatusInv
    <2>2. CASE \E j \in Jobs, g \in {"scaleIns", "scaleOuts"} : ScaleTrainingJob(g, j)
      <3>1. /\ UNCHANGED <<ReadyJobs, JobNumGPU>> /\ mishaps \subseteq mishaps'
            /\ DOMAIN mpijobs' = DOMAIN mpijobs
            /\ todo'["halts"] = todo["halts"] /\ todo'["starts"] = todo["starts"]
        BY <2>2 DEF ScaleTrainingJob, Apply, NoFault, Fault, memory, StatusInv, DurableInv, LifeInv,
                    MapsInv, TypeOK, Groups
      <3> QED BY <1>1, <3>1, FewerMatched DEF StatusInv
    <2> QED BY <1>1, <1>5, <2>1, <2>2, ReschedMatched, HaltMatched, StartMatched DEF ReschedStep, StatusInv
  <1>6. CASE Crash
    BY <1>1, <1>6 DEF Crash, EmptyMap, Matched, StatusInv
  <1> QED BY <1>1, <1>2, <1>3, <1>4, <1>5, <1>6, ReadMsgMatched, NoticeMatched, RestartMatched
          DEF Next, StatusInv

\* Running means at least one GPU and Waiting none whenever the lock is free, however
\* requests, notices, allocations and crashes follow each other; what breaks it are a
\* restart that restores jobs, a failed call and an error read as an allocation.
THEOREM StatusAgrees == Spec => []StatusMatchesAllocation
  <1>1. Init => StatusInv
    <2>1. Init => Positive /\ Untouched /\ Matched
      BY DEF Init, Positive, Untouched, Matched, NoChanges, Groups, EmptyMap, Once, Pending, Range
    <2> QED BY <2>1, InitDurable, InitBacked DEF StatusInv
  <1>2. StatusInv /\ [Next]_vars => StatusInv'
    BY NextStatus
  <1>3. StatusInv => StatusMatchesAllocation
    <2> SUFFICES ASSUME StatusInv, LockFree, Regular, NEW j \in DOMAIN ReadyJobs
                 PROVE  ReadyJobs[j] = "Running" <=> At(JobNumGPU, j) > 0
      BY DEF StatusMatchesAllocation, Regular
    <2>1. j \notin todo["halts"] \cup todo["starts"]
      BY DEF StatusInv, DurableInv, LifeInv, MapsInv, OnlyWhenApplying, LockFree, NoChanges, Groups
    <2>2. ReadyJobs[j] = "Running" <=> At(JobNumGPU, j) # 0
      BY <2>1 DEF StatusInv, Matched, MatchedJob
    <2>3. At(JobNumGPU, j) \in Nat
      BY DEF At, StatusInv, DurableInv, LifeInv, MapsInv, TypeOK, IsMap
    <2> QED BY <2>2, <2>3
  <1> QED BY <1>1, <1>2, <1>3, PTL DEF Spec

-----------------------------------------------------------------------------
(***************************************************************************)
(* The cluster is never asked for more GPUs than it has.                   *)
(***************************************************************************)

Replicas == [j \in ActiveJobs |-> mpijobs[j].replicas]
UsedFits == SumOver(Replicas, ActiveJobs) <= TotalGpus
AllocationFits == SumOver(JobNumGPU, DOMAIN JobNumGPU) <= TotalGpus

\* An MPIJob that waits to be scaled in has too much, one that waits to be scaled
\* out has too little.
Directed ==
    \A j \in ActiveJobs :
        /\ j \in todo["scaleIns"] => At(JobNumGPU, j) <= mpijobs[j].replicas
        /\ j \in todo["scaleOuts"] => mpijobs[j].replicas <= At(JobNumGPU, j)

CapacityInv == AccountInv /\ (Accountable => UsedFits /\ AllocationFits /\ Directed)

\* Demands that are not zero and do not exceed the allocation fit with it.
LEMMA FitsAllocation ==
    ASSUME NEW alloc, IsFiniteSet(DOMAIN alloc), \A j \in DOMAIN alloc : alloc[j] \in Nat,
           NEW used, NEW S,
           \A j \in S : used[j] \in Nat /\ used[j] # 0 /\ used[j] <= At(alloc, j)
    PROVE  SumOver(used, S) <= SumOver(alloc, DOMAIN alloc)
  <1>1. S \subseteq DOMAIN alloc
    BY DEF At
  <1>2. IsFiniteSet(S)
    BY <1>1, FS_Subset
  <1>3. SumOver(used, S) <= SumOver(alloc, S)
    BY <1>1, <1>2, SumMonotone DEF At
  <1>4. SumOver(alloc, S) <= SumOver(alloc, DOMAIN alloc)
    BY <1>1, SumSubset
  <1>5. SumOver(used, S) \in Int /\ SumOver(alloc, S) \in Int /\ SumOver(alloc, DOMAIN alloc) \in Int
    BY <1>1, <1>2, SumInt
  <1> QED BY <1>3, <1>4, <1>5

\* What has gone wrong stays on record.
LEMMA MishapsGrow == ASSUME [Next]_vars PROVE mishaps \subseteq mishaps'
  <1>1. CASE Service \/ \E j \in Jobs : MPIJobUpdated(j)
    BY <1>1 DEF Service, InsertMetadata, RemoveMetadata, Publish, MPIJobUpdated, NoFault, Fault, history
  <1>2. CASE ReadMsg \/ \E j \in Jobs : UpdateMPIJob(j)
    BY <1>2 DEF ReadMsg, CreateTrainingJob, DeleteTrainingJob, UpdateMPIJob, JobsDone, NoFault, Fault
  <1>3. CASE PriorityChanged \/ ConfigureAlgorithm \/ UNCHANGED vars
    BY <1>3 DEF PriorityChanged, ConfigureAlgorithm, vars, history
  <1>4. CASE ReschedStep
    BY <1>4 DEF ReschedStep, Resched, ReschedFails, HaltTrainingJob, StartTrainingJob, ScaleTrainingJob,
                Rejected, Unlock, ReschedEnd, NoFault, Fault, history
  <1>5. CASE Crash \/ Restart
    BY <1>5 DEF Crash, Restart, FindMetadata, ListMPIJobs, CacheSynced, JobsDone, NoFault, Fault, history
  <1> QED BY <1>1, <1>2, <1>3, <1>4, <1>5 DEF Next

\* The maps of sizes are finite maps to numbers.
LEMMA SizesFinite ==
    ASSUME TypeOK
    PROVE  /\ IsFiniteSet(DOMAIN JobNumGPU) /\ \A j \in DOMAIN JobNumGPU : JobNumGPU[j] \in Nat
           /\ IsFiniteSet(ActiveJobs) /\ \A j \in ActiveJobs : j \in DOMAIN mpijobs /\ mpijobs[j].replicas \in Nat
           /\ \A j : At(JobNumGPU, j) \in Nat
           /\ TotalGpus \in Nat
  <1>1. DOMAIN JobNumGPU \subseteq Jobs /\ ActiveJobs \subseteq Jobs
    BY DEF TypeOK, IsMap, ActiveJobs
  <1>2. \A j \in ActiveJobs : j \in DOMAIN mpijobs /\ mpijobs[j].replicas \in Nat
    BY DEF TypeOK, IsMap, ActiveJobs, MPIJob
  <1>3. \A j \in DOMAIN JobNumGPU : JobNumGPU[j] \in Nat
    BY DEF TypeOK, IsMap
  <1> QED BY <1>1, <1>2, <1>3, JobsAssumption, GpusAssumption, FS_Subset DEF At

\* No allocation gives away more than there is.
LEMMA NextAllocationFits ==
    ASSUME CapacityInv, Accountable, [Next]_vars PROVE AllocationFits'
  <1> USE DEF CapacityInv
  <1>0. TypeOK /\ MapsInv
    BY DEF AccountInv, PanicInv, LifeInv, MapsInv
  <1>a. /\ IsFiniteSet(DOMAIN JobNumGPU) /\ \A j \in DOMAIN JobNumGPU : JobNumGPU[j] \in Nat
        /\ SumOver(JobNumGPU, DOMAIN JobNumGPU) \in Int /\ TotalGpus \in Nat
    BY <1>0, SizesFinite, SumInt
  <1>b. SumOver(EmptyMap, DOMAIN EmptyMap) = 0
    <2>1. DOMAIN EmptyMap = {}
      BY DEF EmptyMap
    <2> QED BY <2>1, SumEmpty
  <1>1. CASE UNCHANGED JobNumGPU
    BY <1>1 DEF AllocationFits
  <1>2. CASE JobNumGPU' = EmptyMap
    BY <1>2, <1>a, <1>b DEF AllocationFits
  <1>3. ASSUME NEW i, JobNumGPU' = Without(JobNumGPU, {i}) PROVE AllocationFits'
    <2>1. SumOver(JobNumGPU', DOMAIN JobNumGPU') <= SumOver(JobNumGPU, DOMAIN JobNumGPU)
      BY <1>3, <1>a, SumWithout
    <2>2. SumOver(JobNumGPU', DOMAIN JobNumGPU') \in Int
      <3>1. \A j \in DOMAIN JobNumGPU' : j \in DOMAIN JobNumGPU /\ JobNumGPU'[j] \in Int
        BY <1>3, <1>a DEF Without, Restrict
      <3> QED BY <3>1, <1>a, FS_Subset, SumInt
    <2> QED BY <2>1, <2>2, <1>a DEF AllocationFits
  <1>4. ASSUME NEW i, ~JobExists(i), JobNumGPU' = Put(JobNumGPU, i, 0) PROVE AllocationFits'
    <2>1. i \notin DOMAIN JobNumGPU
      BY <1>4, <1>0 DEF JobExists, MapsInv, MapsConsistent
    <2> QED BY <1>4, <2>1, <1>a, SumPutZero DEF AllocationFits
  <1>5. CASE \E event \in reschedCh : Resched(event)
    <2>1. JobNumGPU' = EmptyMap \/ JobNumGPU' \in ValidAllocations
      BY <1>5 DEF Resched
    <2> QED BY <2>1, <1>2 DEF ValidAllocations, AllocationFits
  <1>6. CASE ListMPIJobs
    <2> DEFINE active == ActiveJobs \cap DOMAIN ReadyJobs
    <2>1. JobNumGPU' = [j \in active |-> mpijobs[j].replicas]
      BY <1>6 DEF ListMPIJobs
    <2>2. IsFiniteSet(ActiveJobs) /\ \A j \in ActiveJobs : Replicas[j] \in Nat
      BY <1>0, SizesFinite DEF Replicas
    <2>3. SumOver(JobNumGPU', active) = SumOver(Replicas, active)
      BY <2>1, <2>2, FS_Subset, SumSame DEF Replicas
    <2>4. SumOver(Replicas, active) <= SumOver(Replicas, ActiveJobs)
      BY <2>2, SumSubset
    <2>5. SumOver(Replicas, active) \in Int /\ SumOver(Replicas, ActiveJobs) \in Int
      BY <2>2, FS_Subset, SumInt
    <2> QED BY <2>1, <2>3, <2>4, <2>5, <1>a DEF AllocationFits, UsedFits
  <1>7. CASE ReadMsg \/ \E j \in Jobs : UpdateMPIJob(j)
    BY <1>1, <1>3, <1>4, <1>7 DEF ReadMsg, CreateTrainingJob, DeleteTrainingJob, UpdateMPIJob, memory
  <1>8. CASE Service \/ (\E j \in Jobs : MPIJobUpdated(j)) \/ PriorityChanged \/ ConfigureAlgorithm \/ UNCHANGED vars
    BY <1>1, <1>8 DEF Service, InsertMetadata, RemoveMetadata, Publish, MPIJobUpdated, PriorityChanged,
                      ConfigureAlgorithm, vars, memory
  <1>9. CASE ReschedStep
    BY <1>1, <1>5, <1>9 DEF ReschedStep, ReschedFails, HaltTrainingJob, StartTrainingJob, ScaleTrainingJob,
                           Unlock, ReschedEnd, memory
  <1>10. CASE Crash \/ Restart
    BY <1>1, <1>2, <1>6, <1>10 DEF Crash, Restart, FindMetadata, CacheSynced, memory
  <1> QED BY <1>7, <1>8, <1>9, <1>10 DEF Next

\* Changes are pending only for MPIJobs that differ from their allocation in the
\* direction of the change.
LEMMA SameDirected ==
    ASSUME Directed, UNCHANGED JobNumGPU, \A g \in Groups : todo'[g] \subseteq todo[g],
           \A j \in ActiveJobs' : \/ j \in ActiveJobs /\ mpijobs'[j].replicas = mpijobs[j].replicas
                                  \/ mpijobs'[j].replicas = At(JobNumGPU, j) /\ At(JobNumGPU, j) \in Nat
    PROVE  Directed'
  <1>1. \A j : At(JobNumGPU, j)' = At(JobNumGPU, j)
    BY DEF At
  <1>2. todo'["scaleIns"] \subseteq todo["scaleIns"] /\ todo'["scaleOuts"] \subseteq todo["scaleOuts"]
    BY DEF Groups
  <1> SUFFICES ASSUME NEW j \in ActiveJobs'
               PROVE  /\ j \in todo["scaleIns"] => At(JobNumGPU, j) <= mpijobs'[j].replicas
                      /\ j \in todo["scaleOuts"] => mpijobs'[j].replicas <= At(JobNumGPU, j)
    BY <1>1, <1>2 DEF Directed
  <1>3. CASE j \in ActiveJobs /\ mpijobs'[j].replicas = mpijobs[j].replicas
    BY <1>3 DEF Directed
  <1>4. CASE mpijobs'[j].replicas = At(JobNumGPU, j) /\ At(JobNumGPU, j) \in Nat
    BY <1>4
  <1> QED BY <1>3, <1>4

\* What an MPIJob's call leaves: fewer active ones, one more, or one resized.
LEMMA ActiveAfter ==
    ASSUME TypeOK, NEW i \in Jobs
    PROVE  /\ UNCHANGED mpijobs =>
                 ActiveJobs' = ActiveJobs /\ \A j \in ActiveJobs : mpijobs'[j] = mpijobs[j]
           /\ mpijobs' = Without(mpijobs, {i}) =>
                 ActiveJobs' \subseteq ActiveJobs /\ \A j \in ActiveJobs' : mpijobs'[j] = mpijobs[j]
           /\ mpijobs' = Put(mpijobs, i, [replicas |-> JobNumGPU[i], phase |-> "Active"]) =>
                 /\ ActiveJobs' = ActiveJobs \cup {i} /\ mpijobs'[i].replicas = JobNumGPU[i]
                 /\ \A j \in ActiveJobs : j # i => mpijobs'[j] = mpijobs[j]
           /\ i \in DOMAIN mpijobs /\ mpijobs' = [mpijobs EXCEPT ![i].replicas = JobNumGPU[i]] =>
                 /\ ActiveJobs' = ActiveJobs
                 /\ i \in ActiveJobs => mpijobs'[i].replicas = JobNumGPU[i]
                 /\ \A j \in ActiveJobs : j # i => mpijobs'[j] = mpijobs[j]
  <1>1. UNCHANGED mpijobs => ActiveJobs' = ActiveJobs
    BY DEF ActiveJobs
  <1>2. mpijobs' = Without(mpijobs, {i}) =>
            ActiveJobs' \subseteq ActiveJobs /\ \A j \in ActiveJobs' : mpijobs'[j] = mpijobs[j]
    BY DEF ActiveJobs, Without, Restrict
  <1>3. mpijobs' = Put(mpijobs, i, [replicas |-> JobNumGPU[i], phase |-> "Active"]) =>
            /\ ActiveJobs' = ActiveJobs \cup {i} /\ mpijobs'[i].replicas = JobNumGPU[i]
            /\ \A j \in ActiveJobs : j # i => mpijobs'[j] = mpijobs[j]
    BY DEF ActiveJobs, Put
  <1>4. ASSUME i \in DOMAIN mpijobs, mpijobs' = [mpijobs EXCEPT ![i].replicas = JobNumGPU[i]]
        PROVE  /\ ActiveJobs' = ActiveJobs
               /\ i \in ActiveJobs => mpijobs'[i].replicas = JobNumGPU[i]
               /\ \A j \in ActiveJobs : j # i => mpijobs'[j] = mpijobs[j]
    <2>1. mpijobs[i] \in MPIJob
      BY <1>4 DEF TypeOK, IsMap
    <2> QED BY <1>4, <2>1 DEF ActiveJobs, MPIJob
  <1> QED BY <1>1, <1>2, <1>3, <1>4

\* The active MPIJobs need no more while none starts and none grows.
LEMMA FewerUsed ==
    ASSUME TypeOK, TypeOK', UsedFits, ActiveJobs' \subseteq ActiveJobs,
           \A j \in ActiveJobs' : mpijobs'[j].replicas <= mpijobs[j].replicas
    PROVE  UsedFits'
  <1>1. IsFiniteSet(ActiveJobs) /\ \A j \in ActiveJobs : Replicas[j] \in Nat
    BY SizesFinite DEF Replicas
  <1>2. \A j \in ActiveJobs' : Replicas'[j] = mpijobs'[j].replicas /\ mpijobs'[j].replicas \in Nat
    BY DEF Replicas, TypeOK, IsMap, ActiveJobs, MPIJob
  <1>3. \A j \in ActiveJobs' : Replicas'[j] \in Int /\ Replicas[j] \in Int /\ Replicas'[j] <= Replicas[j]
    BY <1>1, <1>2 DEF Replicas
  <1>4. SumOver(Replicas', ActiveJobs') <= SumOver(Replicas, ActiveJobs')
    BY <1>1, <1>3, FS_Subset, SumMonotone
  <1>5. SumOver(Replicas, ActiveJobs') <= SumOver(Replicas, ActiveJobs)
    BY <1>1, SumSubset
  <1>6. /\ SumOver(Replicas', ActiveJobs') \in Int /\ SumOver(Replicas, ActiveJobs') \in Int
        /\ SumOver(Replicas, ActiveJobs) \in Int /\ TotalGpus \in Int
    BY <1>1, <1>3, FS_Subset, SumInt, GpusAssumption
  <1> QED BY <1>4, <1>5, <1>6 DEF UsedFits

\* Once the halts and the scale-ins are done, no MPIJob exceeds its allocation.
LEMMA AllocatedUsed ==
    ASSUME TypeOK, TypeOK', AllocationFits, UNCHANGED JobNumGPU,
           \A j \in ActiveJobs' : mpijobs'[j].replicas # 0 /\ mpijobs'[j].replicas <= At(JobNumGPU, j)
    PROVE  UsedFits'
  <1>1. IsFiniteSet(DOMAIN JobNumGPU) /\ \A j \in DOMAIN JobNumGPU : JobNumGPU[j] \in Nat
    BY SizesFinite
  <1>2. \A j \in ActiveJobs' : Replicas'[j] = mpijobs'[j].replicas /\ mpijobs'[j].replicas \in Nat
    BY DEF Replicas, TypeOK, IsMap, ActiveJobs, MPIJob
  <1>3. SumOver(Replicas', ActiveJobs') <= SumOver(JobNumGPU, DOMAIN JobNumGPU)
    BY <1>1, <1>2, FitsAllocation
  <1>4. ActiveJobs' \subseteq Jobs
    BY DEF ActiveJobs, TypeOK, IsMap
  <1>5. SumOver(Replicas', ActiveJobs') \in Int /\ SumOver(JobNumGPU, DOMAIN JobNumGPU) \in Int
    BY <1>1, <1>2, <1>4, JobsAssumption, FS_Subset, SumInt
  <1> QED BY <1>3, <1>5, GpusAssumption DEF UsedFits, AllocationFits

\* The changes of resched(): what is taken from jobs is taken first.
LEMMA ApplyCapacity ==
    ASSUME CapacityInv, AccountInv', Accountable, Accountable', NEW i \in Jobs,
           \/ HaltTrainingJob(i) \/ StartTrainingJob(i)
           \/ \E g \in {"scaleIns", "scaleOuts"} : ScaleTrainingJob(g, i)
    PROVE  UsedFits' /\ Directed'
  <1>0. TypeOK /\ TypeOK' /\ UsedFits /\ AllocationFits /\ Directed /\ Accounted /\ Positive
        /\ StartsAllocated
    BY DEF CapacityInv, AccountInv, PanicInv, LifeInv, MapsInv
  <1>1. /\ UNCHANGED <<JobNumGPU, proc>> /\ proc = "applying"
        /\ \A g \in Groups : todo'[g] \subseteq todo[g] /\ todo[g] \ {i} \subseteq todo'[g]
    BY <1>0 DEF HaltTrainingJob, StartTrainingJob, ScaleTrainingJob, Apply, Turn, TypeOK, memory
  <1>a. \A j : At(JobNumGPU, j) \in Nat
    BY <1>0, SizesFinite
  <1>b. \A j \in ActiveJobs : mpijobs[j].replicas \in Nat /\ mpijobs[j].replicas # 0
    BY <1>0, SizesFinite DEF Accounted
  <1>2. CASE HaltTrainingJob(i)
    <2>1. ~Fault("rejected")
      BY DEF Accountable, NoneOf, Fault
    <2>2. ActiveJobs' \subseteq ActiveJobs /\ \A j \in ActiveJobs' : mpijobs'[j] = mpijobs[j]
      BY <1>2, <2>1, <1>0, ActiveAfter DEF HaltTrainingJob, Rejected
    <2>3. \A j \in ActiveJobs' : mpijobs'[j].replicas <= mpijobs[j].replicas
      BY <1>b, <2>2
    <2> QED BY <1>0, <1>1, <2>2, <2>3, FewerUsed, SameDirected
  <1>3. ASSUME todo["halts"] = {}, todo["scaleIns"] = {},
               \A j \in ActiveJobs' : \/ j \in ActiveJobs /\ mpijobs'[j] = mpijobs[j]
                                      \/ mpijobs'[j].replicas = At(JobNumGPU, j)
        PROVE  UsedFits' /\ Directed'
    <2>1. \A j \in ActiveJobs : mpijobs[j].replicas <= At(JobNumGPU, j)
      BY <1>0, <1>1, <1>3, <1>a, <1>b DEF CapacityInv, Accounted, Directed
    <2>2. \A j \in ActiveJobs' : mpijobs'[j].replicas <= At(JobNumGPU, j)
      BY <1>3, <1>a, <2>1
    <2>3. \A j \in ActiveJobs' : mpijobs'[j].replicas # 0
      BY DEF AccountInv, Accounted
    <2>4. UsedFits'
      BY <1>0, <1>1, <2>2, <2>3, AllocatedUsed
    <2> QED BY <1>0, <1>1, <1>3, <1>a, <2>4, SameDirected
  <1>4. CASE StartTrainingJob(i)
    <2>1. todo["halts"] = {} /\ todo["scaleIns"] = {} /\ i \in todo["starts"]
      BY <1>4 DEF StartTrainingJob, Apply, Turn
    <2>2. At(JobNumGPU, i) = JobNumGPU[i]
      BY <2>1, <1>0 DEF StartsAllocated, At
    <2>3. \/ UNCHANGED mpijobs
          \/ mpijobs' = Put(mpijobs, i, [replicas |-> JobNumGPU[i], phase |-> "Active"])
      BY <1>4 DEF StartTrainingJob, Rejected
    <2> QED BY <1>0, <1>3, <2>1, <2>2, <2>3, ActiveAfter
  <1>5. ASSUME NEW g \in {"scaleIns", "scaleOuts"}, ScaleTrainingJob(g, i) PROVE UsedFits' /\ Directed'
    <2>1. i \in todo[g] /\ At(JobNumGPU, i) = JobNumGPU[i]
      BY <1>5, <1>0 DEF ScaleTrainingJob, Apply, StartsAllocated, At
    <2>2. \/ UNCHANGED mpijobs
          \/ i \in DOMAIN mpijobs /\ mpijobs' = [mpijobs EXCEPT ![i].replicas = JobNumGPU[i]]
      BY <1>5 DEF ScaleTrainingJob
    <2>3. /\ ActiveJobs' = ActiveJobs
          /\ \A j \in ActiveJobs : \/ mpijobs'[j] = mpijobs[j]
                                   \/ j = i /\ mpijobs'[j].replicas = At(JobNumGPU, j)
      BY <1>0, <2>1, <2>2, ActiveAfter
    <2>4. CASE g = "scaleOuts"
      <3>1. todo["halts"] = {} /\ todo["scaleIns"] = {}
        BY <1>5, <2>4 DEF ScaleTrainingJob, Apply, Turn
      <3> QED BY <1>3, <2>3, <3>1
    <2>5. CASE g = "scaleIns"
      <3>1. \A j \in ActiveJobs' : mpijobs'[j].replicas <= mpijobs[j].replicas
        BY <1>0, <1>b, <2>1, <2>3, <2>5 DEF Directed
      <3> QED BY <1>0, <1>1, <1>a, <2>3, <3>1, FewerUsed, SameDirected
    <2> QED BY <2>4, <2>5
  <1> QED BY <1>2, <1>4, <1>5

\* CapacityInv is inductive.
LEMMA NextCapacity == ASSUME CapacityInv, [Next]_vars PROVE CapacityInv'
  <1>1. AccountInv'
    BY NextAccount DEF CapacityInv
  <1> SUFFICES ASSUME Accountable' PROVE UsedFits' /\ AllocationFits' /\ Directed'
    BY <1>1 DEF CapacityInv
  <1>2. Accountable
    BY MishapsGrow DEF Accountable, NoneOf
  <1>3. AllocationFits'
    BY <1>2, NextAllocationFits
  <1>4. TypeOK /\ TypeOK' /\ UsedFits /\ Directed /\ OnlyWhenApplying /\ MapsInv
    BY <1>1, <1>2 DEF CapacityInv, AccountInv, PanicInv, LifeInv, MapsInv
  <1>5. ASSUME ActiveJobs' \subseteq ActiveJobs,
               \A j \in ActiveJobs' : mpijobs'[j].replicas = mpijobs[j].replicas
        PROVE  UsedFits'
    <2>1. \A j \in ActiveJobs' : mpijobs'[j].replicas <= mpijobs[j].replicas
      BY <1>4, <1>5, SizesFinite
    <2> QED BY <1>4, <1>5, <2>1, FewerUsed
  <1>6. CASE todo' = NoChanges /\ UNCHANGED mpijobs
    <2>1. Directed'
      BY <1>6 DEF Directed, NoChanges, Groups
    <2>2. ActiveJobs' = ActiveJobs
      BY <1>6 DEF ActiveJobs
    <2> QED BY <1>3, <1>5, <1>6, <2>1, <2>2
  <1>7. CASE UNCHANGED <<todo, JobNumGPU, mpijobs>>
    <2>1. ActiveJobs' = ActiveJobs
      BY <1>7 DEF ActiveJobs
    <2> QED BY <1>3, <1>4, <1>5, <1>7, <2>1, SameDirected
  <1>8. ASSUME NEW i \in Jobs, MPIJobUpdated(i) PROVE UsedFits' /\ Directed'
    <2>1. PICK phase \in FinishPhase :
            i \in DOMAIN mpijobs /\ mpijobs' = [mpijobs EXCEPT ![i].phase = phase]
      BY <1>8 DEF MPIJobUpdated
    <2>2. mpijobs[i] \in MPIJob
      BY <1>4, <2>1 DEF TypeOK, IsMap
    <2>3. ActiveJobs' \subseteq ActiveJobs /\ \A j \in ActiveJobs' : mpijobs'[j].replicas = mpijobs[j].replicas
      BY <2>1, <2>2 DEF ActiveJobs, FinishPhase, MPIJob
    <2>4. UNCHANGED <<todo, JobNumGPU>>
      BY <1>8 DEF MPIJobUpdated, memory, control
    <2> QED BY <1>4, <1>5, <2>3, <2>4, SameDirected
  <1>9. CASE ReadMsg
    <2>1. todo' = NoChanges
      BY <1>4, <1>9 DEF ReadMsg, LockFree, OnlyWhenApplying
    <2>2. PICK i : i = Head(queue).job
      OBVIOUS
    <2>3. UNCHANGED mpijobs \/ mpijobs' = Without(mpijobs, {i})
      BY <1>9, <2>2 DEF ReadMsg, DeleteTrainingJob
    <2>4. ActiveJobs' \subseteq ActiveJobs /\ \A j \in ActiveJobs' : mpijobs'[j] = mpijobs[j]
      BY <2>3 DEF ActiveJobs, Without, Restrict
    <2> QED BY <1>3, <1>5, <2>1, <2>4 DEF Directed, NoChanges, Groups
  <1>10. CASE \E j \in Jobs : UpdateMPIJob(j)
    BY <1>4, <1>6, <1>10 DEF UpdateMPIJob, LockFree, OnlyWhenApplying
  <1>11. ASSUME NEW event \in reschedCh, Resched(event) PROVE UsedFits' /\ Directed'
    <2>1. PICK alloc :
              /\ JobNumGPU' = alloc /\ IsMap(alloc, Jobs, Nat)
              /\ todo'["scaleIns"] = ScaleIns(JobNumGPU, alloc)
              /\ todo'["scaleOuts"] = ScaleOuts(JobNumGPU, alloc)
      BY <1>4, <1>11, ReschedPositive
    <2>2. UNCHANGED mpijobs /\ proc = "idle" /\ todo = NoChanges
      BY <1>4, <1>11 DEF Resched, OnlyWhenApplying
    <2>3. ActiveJobs' = ActiveJobs
      BY <2>2 DEF ActiveJobs
    <2>4. \A j \in ActiveJobs : At(JobNumGPU, j) = mpijobs[j].replicas /\ mpijobs[j].replicas \in Nat
      BY <1>2, <1>4, <2>2, SizesFinite DEF CapacityInv, AccountInv, Accounted, NoChanges, Groups
    <2>5. \A j : At(JobNumGPU', j) = At(alloc, j) /\ At(alloc, j) \in Nat /\ At(JobNumGPU, j) \in Nat
      BY <1>4, <2>1, SizesFinite DEF At, IsMap
    <2>6. \A j \in ActiveJobs :
             /\ j \in ScaleIns(JobNumGPU, alloc) => At(alloc, j) <= mpijobs[j].replicas
             /\ j \in ScaleOuts(JobNumGPU, alloc) => mpijobs[j].replicas <= At(alloc, j)
      <3> SUFFICES ASSUME NEW j \in ActiveJobs
                   PROVE  /\ j \in ScaleIns(JobNumGPU, alloc) => At(alloc, j) <= mpijobs[j].replicas
                          /\ j \in ScaleOuts(JobNumGPU, alloc) => mpijobs[j].replicas <= At(alloc, j)
        OBVIOUS
      <3>1. j \in DOMAIN JobNumGPU => JobNumGPU[j] = mpijobs[j].replicas
        BY <2>4 DEF At
      <3> QED BY <2>4, <2>5, <3>1 DEF ScaleIns, ScaleOuts
    <2>7. Directed'
      BY <2>1, <2>2, <2>3, <2>5, <2>6 DEF Directed
    <2> QED BY <1>5, <2>2, <2>3, <2>7
  <1>12. CASE ReschedStep
    <2>1. CASE \E j \in Jobs : HaltTrainingJob(j) \/ StartTrainingJob(j)
      BY <1>1, <1>2, <1>3, <2>1, ApplyCapacity
    <2>2. CASE \E j \in Jobs, g \in {"scaleIns", "scaleOuts"} : ScaleTrainingJob(g, j)
      BY <1>1, <1>2, <1>3, <2>2, ApplyCapacity
    <2>3. CASE (\E event \in reschedCh : ReschedFails(event)) \/ Unlock \/ ReschedEnd
      BY <1>7, <2>3 DEF ReschedFails, Unlock, ReschedEnd, memory
    <2> QED BY <1>3, <1>11, <1>12, <2>1, <2>2, <2>3 DEF ReschedStep
  <1>13. CASE Service \/ PriorityChanged \/ ConfigureAlgorithm \/ UNCHANGED vars
    BY <1>7, <1>13 DEF Service, InsertMetadata, RemoveMetadata, Publish, PriorityChanged, ConfigureAlgorithm,
                       vars, memory, control
  <1>14. CASE Crash \/ Restart
    BY <1>4, <1>6, <1>7, <1>14 DEF Crash, Restart, FindMetadata, ListMPIJobs, CacheSynced, memory, OnlyWhenApplying
  <1> QED BY <1>3, <1>8, <1>9, <1>10, <1>12, <1>13, <1>14 DEF Next

\* The active MPIJobs never ask for more GPUs than the cluster has, between any
\* two calls of applySchedulerResults.
THEOREM CapacityIsKept == Spec => []WithinCapacity
  <1>1. Init => CapacityInv
    <2> SUFFICES ASSUME Init PROVE CapacityInv
      OBVIOUS
    <2>1. AccountInv
      BY InitAccount
    <2>2. ActiveJobs = {} /\ JobNumGPU = EmptyMap /\ DOMAIN EmptyMap = {}
      BY DEF Init, ActiveJobs, EmptyMap
    <2> QED BY <2>1, <2>2, SumEmpty, GpusAssumption DEF CapacityInv, UsedFits, AllocationFits, Directed
  <1>2. CapacityInv /\ [Next]_vars => CapacityInv'
    BY NextCapacity
  <1>3. CapacityInv => WithinCapacity
    BY DEF CapacityInv, WithinCapacity, UsedFits, Replicas, Accountable
  <1> QED BY <1>1, <1>2, <1>3, PTL DEF Spec
=============================================================================
