---------------------------- MODULE TiresiasProofs ---------------------------
(***************************************************************************)
(* Time and priority for any jobs, thresholds, knobs and intervals: no     *)
(* time is lost, and a waiting job is promoted in time.                    *)
(***************************************************************************)
EXTENDS TiresiasPriority, MapsProofs

(***************************************************************************)
(* The inductive invariant.                                                *)
(***************************************************************************)

\* No duration is saved while a job is alive: a document has those of a job that was
\* just submitted.
Fresh(job) ==
    /\ job.TotalDuration = 0 /\ job.RunningDuration = 0 /\ job.WaitingDuration = 0
    /\ job.LastRunningDuration = 0 /\ job.LastWaitingDuration = 0 /\ job.LastGpuDuration = 0
    /\ job.LastUpdateTime = job.SubmitTime /\ job.SubmitTime <= now
DocumentsAreFresh == \A j \in DOMAIN documents : Fresh(documents[j])

\* A scheduler that is up has ticked within the interval; what it knows has a document.
Clock ==
    /\ ticked <= now /\ \A j \in Jobs : since[j] <= now
    /\ up => now <= ticked + Interval
    /\ ~up => crashes > 0
    /\ \A j \in DOMAIN ReadyJobs : ReadyJobs[j].LastUpdateTime <= now
    /\ DOMAIN ReadyJobs # {} => up
    /\ mpijobs \cup DOMAIN ReadyJobs \cup DOMAIN JobNumGPU \subseteq DOMAIN documents

\* The waiting time that is charged covers the time since the job began to wait.
WaitingIsCharged ==
    \A j \in DOMAIN ReadyJobs :
        LET job == ReadyJobs[j]
        IN job.Status = "Waiting" => job.LastUpdateTime <= since[j] + job.LastWaitingDuration

\* A job that was waiting at the last tick, and has a priority to gain, did not starve.
NotStarved ==
    \A j \in DOMAIN ReadyJobs :
        LET job == ReadyJobs[j]
        IN /\ job.Status = "Waiting" /\ job.Priority > 0
           /\ job.Priority < TiresiasQueueNum \/ job.LastGpuDuration = 0
           => \/ since[j] >= ticked
              \/ job.LastUpdateTime = ticked /\ ~Starves(job)

\* Until the first crash a priority without a queue lasts to the next tick, and its
\* job never runs.
NoQueueNoRun ==
    crashes = 0 =>
        \A j \in DOMAIN ReadyJobs :
            LET job == ReadyJobs[j]
            IN job.Priority >= TiresiasQueueNum =>
                 /\ job.Status = "Waiting"
                 /\ job.LastRunningDuration = 0 /\ job.LastGpuDuration = 0
                 /\ since[j] >= ticked

PriorityInv ==
    /\ TypeOK /\ DocumentsAreFresh /\ Clock
    /\ TimeIsAccounted
    /\ WaitingIsCharged /\ NotStarved /\ NoQueueNoRun

(***************************************************************************)
(* Jobs and maps.                                                          *)
(***************************************************************************)

\* The fields of a job have their types.
LEMMA JobFields ==
    ASSUME NEW job \in TrainingJob
    PROVE  /\ job.Status \in {"Submitted", "Waiting", "Running", "Completed"}
           /\ job.Priority \in Nat /\ job.SubmitTime \in Nat /\ job.FirstStartTime \in Int
           /\ job.LastUpdateTime \in Nat /\ job.RunningDuration \in Nat
           /\ job.WaitingDuration \in Nat /\ job.TotalDuration \in Nat
           /\ job.LastRunningDuration \in Nat /\ job.LastWaitingDuration \in Nat
           /\ job.LastGpuDuration \in Nat
  BY DEF TrainingJob

\* A change of the status is a change of the status.
LEMMA StatusJob ==
    ASSUME NEW job \in TrainingJob, NEW status \in {"Submitted", "Waiting", "Running", "Completed"}
    PROVE  LET new == [job EXCEPT !.Status = status]
           IN /\ new \in TrainingJob /\ new.Status = status
              /\ new.Priority = job.Priority /\ new.SubmitTime = job.SubmitTime
              /\ new.LastUpdateTime = job.LastUpdateTime
              /\ new.RunningDuration = job.RunningDuration
              /\ new.WaitingDuration = job.WaitingDuration
              /\ new.TotalDuration = job.TotalDuration
              /\ new.LastRunningDuration = job.LastRunningDuration
              /\ new.LastWaitingDuration = job.LastWaitingDuration
              /\ new.LastGpuDuration = job.LastGpuDuration
  BY DEF TrainingJob

\* A product of natural numbers is one.
LEMMA Product == ASSUME NEW a \in Nat, NEW b \in Nat PROVE a * b \in Nat /\ a * b = b * a
  OBVIOUS

\* What updateTimeMetrics charges.
LEMMA ChargedJob ==
    ASSUME NEW job \in TrainingJob, NEW gpus \in Nat, now \in Nat, job.LastUpdateTime <= now
    PROVE  LET new == Charged(job, gpus)
               elapsed == now - job.LastUpdateTime
           IN /\ new \in TrainingJob
              /\ new.Status = job.Status /\ new.Priority = job.Priority
              /\ new.SubmitTime = job.SubmitTime /\ new.LastUpdateTime = now
              /\ new.TotalDuration = job.TotalDuration + elapsed
              /\ new.RunningDuration + new.WaitingDuration
                    = job.RunningDuration + job.WaitingDuration + elapsed
              /\ job.Status = "Waiting" =>
                    /\ new.LastWaitingDuration = job.LastWaitingDuration + elapsed
                    /\ new.LastRunningDuration = job.LastRunningDuration
                    /\ new.LastGpuDuration = job.LastGpuDuration
  <1> DEFINE elapsed == now - job.LastUpdateTime
  <1>1. elapsed \in Nat
    BY JobFields
  <1>2. elapsed * gpus \in Nat
    BY <1>1, Product
  <1>3. CASE job.Status = "Running"
    <2>1. PICK gpuTime \in Nat : gpuTime = elapsed * gpus
      BY <1>2
    <2>2. Charged(job, gpus) =
            [job EXCEPT !.RunningDuration = @ + elapsed, !.TotalDuration = @ + elapsed,
                        !.LastRunningDuration = @ + elapsed,
                        !.LastGpuDuration = @ + gpuTime, !.LastUpdateTime = now]
      BY <1>3, <2>1, Zenon DEF Charged
    <2> HIDE DEF elapsed
    <2>3. /\ job.RunningDuration + elapsed \in Nat /\ job.TotalDuration + elapsed \in Nat
          /\ job.LastRunningDuration + elapsed \in Nat /\ job.LastGpuDuration + gpuTime \in Nat
      BY <1>1, <2>1, JobFields
    <2>4. Charged(job, gpus) \in TrainingJob
      BY <2>2, <2>3 DEF TrainingJob
    <2>5. /\ Charged(job, gpus).Status = job.Status /\ Charged(job, gpus).Priority = job.Priority
          /\ Charged(job, gpus).SubmitTime = job.SubmitTime
          /\ Charged(job, gpus).LastUpdateTime = now
          /\ Charged(job, gpus).TotalDuration = job.TotalDuration + elapsed
          /\ Charged(job, gpus).RunningDuration = job.RunningDuration + elapsed
          /\ Charged(job, gpus).WaitingDuration = job.WaitingDuration
      BY <2>2 DEF TrainingJob
    <2> QED BY <1>1, <1>3, <2>4, <2>5, JobFields DEF elapsed
  <1>4. CASE job.Status # "Running"
    <2>1. Charged(job, gpus) =
            [job EXCEPT !.WaitingDuration = @ + elapsed, !.TotalDuration = @ + elapsed,
                        !.LastWaitingDuration = @ + elapsed, !.LastUpdateTime = now]
      BY <1>4, Zenon DEF Charged
    <2> HIDE DEF elapsed
    <2>2. /\ job.WaitingDuration + elapsed \in Nat /\ job.TotalDuration + elapsed \in Nat
          /\ job.LastWaitingDuration + elapsed \in Nat
      BY <1>1, JobFields
    <2>3. Charged(job, gpus) \in TrainingJob
      BY <2>1, <2>2 DEF TrainingJob
    <2>4. /\ Charged(job, gpus).Status = job.Status /\ Charged(job, gpus).Priority = job.Priority
          /\ Charged(job, gpus).SubmitTime = job.SubmitTime
          /\ Charged(job, gpus).LastUpdateTime = now
          /\ Charged(job, gpus).TotalDuration = job.TotalDuration + elapsed
          /\ Charged(job, gpus).RunningDuration = job.RunningDuration
          /\ Charged(job, gpus).WaitingDuration = job.WaitingDuration + elapsed
          /\ Charged(job, gpus).LastWaitingDuration = job.LastWaitingDuration + elapsed
          /\ Charged(job, gpus).LastRunningDuration = job.LastRunningDuration
          /\ Charged(job, gpus).LastGpuDuration = job.LastGpuDuration
      BY <2>1 DEF TrainingJob
    <2> QED BY <1>1, <2>3, <2>4, JobFields DEF elapsed
  <1> QED BY <1>3, <1>4

\* The rules of priority change nothing but the priority.
LEMMA PrioritizedJob ==
    ASSUME NEW job \in TrainingJob
    PROVE  LET new == Prioritized(job)
           IN /\ new \in TrainingJob
              /\ new.Status = job.Status /\ new.SubmitTime = job.SubmitTime
              /\ new.LastUpdateTime = job.LastUpdateTime
              /\ new.RunningDuration = job.RunningDuration
              /\ new.WaitingDuration = job.WaitingDuration
              /\ new.TotalDuration = job.TotalDuration
              /\ new.LastRunningDuration = job.LastRunningDuration
              /\ new.LastWaitingDuration = job.LastWaitingDuration
              /\ new.LastGpuDuration = job.LastGpuDuration
              /\ new.Priority =
                    IF CrossesThreshold(job) THEN TiresiasDemotePriority(job.Priority)
                    ELSE IF Starves(job) THEN 0 ELSE job.Priority
  <1>1. TiresiasDemotePriority(job.Priority) \in Nat
    BY JobFields DEF TiresiasDemotePriority, TiresiasQueueNum
  <1>2. CASE CrossesThreshold(job)
    BY <1>1, <1>2 DEF Prioritized, TrainingJob
  <1>3. CASE ~CrossesThreshold(job) /\ Starves(job)
    BY <1>3 DEF Prioritized, TrainingJob, TiresiasPromotePriority
  <1>4. CASE ~CrossesThreshold(job) /\ ~Starves(job)
    BY <1>4 DEF Prioritized, TrainingJob
  <1> QED BY <1>2, <1>3, <1>4

\* A start and a halt leave what is accounted alone.
LEMMA StartedJob ==
    ASSUME NEW job \in TrainingJob, now \in Nat
    PROVE  LET new == Started(job)
           IN /\ new \in TrainingJob /\ new.Status = "Running"
              /\ new.Priority = job.Priority /\ new.SubmitTime = job.SubmitTime
              /\ new.LastUpdateTime = job.LastUpdateTime
              /\ new.RunningDuration = job.RunningDuration
              /\ new.WaitingDuration = job.WaitingDuration
              /\ new.TotalDuration = job.TotalDuration
  <1> DEFINE first == IF job.RunningDuration = 0 THEN now ELSE job.FirstStartTime
  <1>1. first \in Int
    BY JobFields
  <1>2. Started(job) = [job EXCEPT !.Status = "Running", !.LastGpuDuration = 0,
                                   !.LastRunningDuration = 0, !.FirstStartTime = first]
    BY DEF Started
  <1> HIDE DEF first
  <1>3. Started(job) \in TrainingJob
    <2>1. Started(job) =
            [Status |-> "Running", Priority |-> job.Priority, SubmitTime |-> job.SubmitTime,
             FirstStartTime |-> first, LastUpdateTime |-> job.LastUpdateTime,
             RunningDuration |-> job.RunningDuration, WaitingDuration |-> job.WaitingDuration,
             TotalDuration |-> job.TotalDuration, LastRunningDuration |-> 0,
             LastWaitingDuration |-> job.LastWaitingDuration, LastGpuDuration |-> 0]
      BY <1>2 DEF TrainingJob
    <2> QED BY <1>1, <2>1, JobFields DEF TrainingJob
  <1>4. /\ Started(job).Status = "Running"
        /\ Started(job).Priority = job.Priority /\ Started(job).SubmitTime = job.SubmitTime
        /\ Started(job).LastUpdateTime = job.LastUpdateTime
        /\ Started(job).RunningDuration = job.RunningDuration
        /\ Started(job).WaitingDuration = job.WaitingDuration
        /\ Started(job).TotalDuration = job.TotalDuration
    BY <1>2 DEF TrainingJob
  <1> QED BY <1>3, <1>4

LEMMA HaltedJob ==
    ASSUME NEW job \in TrainingJob
    PROVE  LET new == Halted(job)
           IN /\ new \in TrainingJob /\ new.Status = "Waiting"
              /\ new.Priority = job.Priority /\ new.SubmitTime = job.SubmitTime
              /\ new.LastUpdateTime = job.LastUpdateTime
              /\ new.RunningDuration = job.RunningDuration
              /\ new.WaitingDuration = job.WaitingDuration
              /\ new.TotalDuration = job.TotalDuration
              /\ new.LastRunningDuration = job.LastRunningDuration
              /\ new.LastGpuDuration = job.LastGpuDuration
              /\ new.LastWaitingDuration = 0
  BY DEF Halted, TrainingJob

(***************************************************************************)
(* Every action keeps the invariant.                                       *)
(***************************************************************************)

\* The jobs of the maps are jobs.
LEMMA JobsOfMaps ==
    ASSUME PriorityInv
    PROVE  /\ \A j \in DOMAIN ReadyJobs : j \in Jobs /\ ReadyJobs[j] \in TrainingJob
           /\ \A j \in DOMAIN documents : j \in Jobs /\ documents[j] \in TrainingJob
           /\ now \in Nat /\ ticked \in Nat /\ crashes \in Nat /\ Interval \in Nat
           /\ \A j \in Jobs : since[j] \in Nat /\ used[j] \in Nat
           /\ \A j \in Jobs : At(JobNumGPU, j) \in Nat
  BY SettingsAssumption DEF PriorityInv, TypeOK, IsMap, At

LEMMA InitInv == ASSUME Init PROVE PriorityInv
  <1>1. /\ IsMap(EmptyMap, Jobs, TrainingJob) /\ IsMap(EmptyMap, Jobs, Nat)
        /\ DOMAIN EmptyMap = {}
    BY EmptyIsMap
  <1>2. TypeOK
    <2>1. [j \in Jobs |-> 0] \in [Jobs -> Nat]
      OBVIOUS
    <2>2. up \in BOOLEAN /\ reschedCh \in BOOLEAN /\ now \in Nat /\ ticked \in Nat /\ crashes \in Nat
      BY DEF Init
    <2>3. since \in [Jobs -> Nat] /\ used \in [Jobs -> Nat] /\ late \subseteq Jobs /\ mpijobs \subseteq Jobs
      BY <2>1 DEF Init
    <2>4. documents = EmptyMap /\ ReadyJobs = EmptyMap /\ JobNumGPU = EmptyMap
      BY DEF Init
    <2> QED BY <1>1, <2>2, <2>3, <2>4 DEF TypeOK
  <1> QED BY <1>1, <1>2, SettingsAssumption
       DEF Init, PriorityInv, DocumentsAreFresh, Clock, TimeIsAccounted, WaitingIsCharged,
           NotStarved, NoQueueNoRun

\* Time only brings the next tick nearer.
LEMMA AdvanceInv == ASSUME PriorityInv, Advance PROVE PriorityInv'
  <1>1. now' = now + 1 /\ now' \in Nat
    BY JobsOfMaps DEF Advance
  <1>2. TypeOK'
    <2>1. used' \in [Jobs -> Nat]
      BY JobsAssumption, JobsOfMaps DEF Advance
    <2> QED BY <1>1, <2>1 DEF Advance, PriorityInv, TypeOK
  <1>3. DocumentsAreFresh'
    BY <1>1, JobsOfMaps, JobFields DEF Advance, PriorityInv, DocumentsAreFresh, Fresh
  <1>4. Clock'
    BY <1>1, JobsOfMaps, JobFields DEF Advance, PriorityInv, Clock
  <1>5. TimeIsAccounted'
    BY <1>1, JobsOfMaps, JobFields DEF Advance, PriorityInv, TimeIsAccounted
  <1>6. WaitingIsCharged' /\ NotStarved' /\ NoQueueNoRun'
    BY DEF Advance, PriorityInv, WaitingIsCharged, NotStarved, NoQueueNoRun, Starves
  <1> QED BY <1>2, <1>3, <1>4, <1>5, <1>6 DEF PriorityInv

\* A new document has nothing charged.
LEMMA SubmitInv ==
    ASSUME PriorityInv, NEW j \in Jobs, NEW priority \in UserPriorities, Submit(j, priority)
    PROVE  PriorityInv'
  <1>1. /\ Stored(NewTrainingJob(priority)) \in TrainingJob
        /\ Fresh(Stored(NewTrainingJob(priority)))
    BY SettingsAssumption, JobsOfMaps DEF NewTrainingJob, TrainingJob, Stored, Never, LongAgo, Fresh
  <1>2. /\ IsMap(documents', Jobs, TrainingJob)
        /\ DOMAIN documents' = DOMAIN documents \cup {j}
        /\ \A x \in DOMAIN documents' :
              documents'[x] = IF x = j THEN Stored(NewTrainingJob(priority)) ELSE documents[x]
    <2>1. documents' = Put(documents, j, Stored(NewTrainingJob(priority)))
      BY DEF Submit
    <2>2. IsMap(documents, Jobs, TrainingJob)
      BY DEF PriorityInv, TypeOK
    <2> QED BY <1>1, <2>1, <2>2 DEF IsMap, Put
  <1>3. TypeOK'
    BY <1>2 DEF Submit, PriorityInv, TypeOK
  <1>4. DocumentsAreFresh'
    BY <1>1, <1>2 DEF Submit, PriorityInv, DocumentsAreFresh, Fresh
  <1>5. Clock'
    BY <1>2 DEF Submit, PriorityInv, Clock
  <1>6. TimeIsAccounted' /\ WaitingIsCharged' /\ NotStarved' /\ NoQueueNoRun'
    BY DEF Submit, PriorityInv, TimeIsAccounted, WaitingIsCharged, NotStarved, NoQueueNoRun,
           Starves
  <1> QED BY <1>3, <1>4, <1>5, <1>6 DEF PriorityInv

\* A job begins to wait when it is accepted, with all the time since its submission
\* to be charged.
LEMMA CreateTrainingJobInv ==
    ASSUME PriorityInv, NEW j \in Jobs, CreateTrainingJob(j) PROVE PriorityInv'
  <1> DEFINE job == [documents[j] EXCEPT !.Status = "Waiting"]
  <1>1. job \in TrainingJob /\ job.Status = "Waiting" /\ Fresh(job)
    <2>1. documents[j] \in TrainingJob /\ Fresh(documents[j])
      BY JobsOfMaps DEF CreateTrainingJob, PriorityInv, DocumentsAreFresh
    <2> QED BY <2>1, StatusJob DEF Fresh
  <1>0. /\ documents' = Put(documents, j, job) /\ ReadyJobs' = Put(ReadyJobs, j, job)
        /\ JobNumGPU' = Put(JobNumGPU, j, 0)
        /\ IsMap(documents, Jobs, TrainingJob) /\ IsMap(ReadyJobs, Jobs, TrainingJob)
        /\ IsMap(JobNumGPU, Jobs, Nat)
    BY DEF CreateTrainingJob, PriorityInv, TypeOK
  <1> HIDE DEF job
  <1>2. /\ IsMap(documents', Jobs, TrainingJob)
        /\ DOMAIN documents' = DOMAIN documents \cup {j}
        /\ \A x \in DOMAIN documents' : documents'[x] = IF x = j THEN job ELSE documents[x]
    BY <1>0, <1>1 DEF IsMap, Put
  <1>3. /\ IsMap(ReadyJobs', Jobs, TrainingJob)
        /\ DOMAIN ReadyJobs' = DOMAIN ReadyJobs \cup {j}
        /\ \A x \in DOMAIN ReadyJobs' : ReadyJobs'[x] = IF x = j THEN job ELSE ReadyJobs[x]
    BY <1>0, <1>1 DEF IsMap, Put
  <1>4. IsMap(JobNumGPU', Jobs, Nat) /\ DOMAIN JobNumGPU' = DOMAIN JobNumGPU \cup {j}
    BY <1>0 DEF IsMap, Put
  <1>5. since' = [since EXCEPT ![j] = now] /\ UNCHANGED <<now, mpijobs, up, ticked, used, late, crashes>>
    BY DEF CreateTrainingJob
  <1>6. since' \in [Jobs -> Nat] /\ \A x \in Jobs : since'[x] = IF x = j THEN now ELSE since[x]
    BY <1>5, JobsOfMaps DEF PriorityInv, TypeOK
  <1>7. TypeOK'
    BY <1>2, <1>3, <1>4, <1>5, <1>6 DEF CreateTrainingJob, PriorityInv, TypeOK
  <1>8. DocumentsAreFresh'
    BY <1>1, <1>2, <1>5 DEF PriorityInv, DocumentsAreFresh, Fresh
  <1>9. Clock'
    BY <1>1, <1>2, <1>3, <1>4, <1>5, <1>6, JobsOfMaps, JobFields DEF Fresh, CreateTrainingJob, PriorityInv, Clock
  <1>10. TimeIsAccounted'
    BY <1>1, <1>3, <1>5, JobsOfMaps, JobFields DEF Fresh, PriorityInv, TimeIsAccounted
  <1>11. WaitingIsCharged'
    BY <1>1, <1>3, <1>5, <1>6, JobsOfMaps, JobFields DEF Fresh, PriorityInv, WaitingIsCharged
  <1>12. NotStarved'
    BY <1>1, <1>3, <1>5, <1>6, JobsOfMaps, JobFields DEF Fresh, PriorityInv, NotStarved, Clock, Starves
  <1>13. NoQueueNoRun'
    BY <1>1, <1>3, <1>5, <1>6, JobsOfMaps, JobFields DEF Fresh, PriorityInv, NoQueueNoRun, Clock
  <1> QED BY <1>7, <1>8, <1>9, <1>10, <1>11, <1>12, <1>13 DEF PriorityInv

\* A job that is done is not looked at any more.
LEMMA HandleJobCompletedInv ==
    ASSUME PriorityInv, NEW j \in Jobs, HandleJobCompleted(j) PROVE PriorityInv'
  <1> DEFINE job == [documents[j] EXCEPT !.Status = "Completed"]
  <1>1. j \in DOMAIN documents
    BY DEF HandleJobCompleted, PriorityInv, Clock
  <1>2. job \in TrainingJob /\ Fresh(job)
    <2>1. documents[j] \in TrainingJob /\ Fresh(documents[j])
      BY <1>1, JobsOfMaps DEF PriorityInv, DocumentsAreFresh
    <2> QED BY <2>1, StatusJob DEF Fresh
  <1>0. /\ documents' = Put(documents, j, job) /\ ReadyJobs' = Without(ReadyJobs, {j})
        /\ JobNumGPU' = Without(JobNumGPU, {j})
        /\ IsMap(documents, Jobs, TrainingJob) /\ IsMap(ReadyJobs, Jobs, TrainingJob)
        /\ IsMap(JobNumGPU, Jobs, Nat)
    BY DEF HandleJobCompleted, PriorityInv, TypeOK
  <1> HIDE DEF job
  <1>3. /\ IsMap(documents', Jobs, TrainingJob)
        /\ DOMAIN documents' = DOMAIN documents
        /\ \A x \in DOMAIN documents' : documents'[x] = IF x = j THEN job ELSE documents[x]
    BY <1>0, <1>1, <1>2 DEF IsMap, Put
  <1>4. /\ IsMap(ReadyJobs', Jobs, TrainingJob)
        /\ DOMAIN ReadyJobs' = DOMAIN ReadyJobs \ {j}
        /\ \A x \in DOMAIN ReadyJobs' : ReadyJobs'[x] = ReadyJobs[x]
    BY <1>0 DEF IsMap, Without, Restrict
  <1>5. IsMap(JobNumGPU', Jobs, Nat) /\ DOMAIN JobNumGPU' = DOMAIN JobNumGPU \ {j}
    BY <1>0 DEF IsMap, Without, Restrict
  <1>6. /\ mpijobs' \subseteq mpijobs /\ late' \subseteq late
        /\ UNCHANGED <<now, up, ticked, crashes>> /\ reschedCh' = TRUE
    BY DEF HandleJobCompleted
  <1>7. /\ since' \in [Jobs -> Nat] /\ used' \in [Jobs -> Nat]
        /\ \A x \in Jobs : since'[x] = IF x = j THEN 0 ELSE since[x]
    BY DEF HandleJobCompleted, PriorityInv, TypeOK
  <1>8. TypeOK'
    BY <1>3, <1>4, <1>5, <1>6, <1>7 DEF PriorityInv, TypeOK
  <1>9. DocumentsAreFresh'
    BY <1>2, <1>3, <1>6 DEF PriorityInv, DocumentsAreFresh, Fresh
  <1>10. Clock'
    BY <1>3, <1>4, <1>5, <1>6, <1>7, JobsOfMaps DEF PriorityInv, Clock
  <1>11. TimeIsAccounted'
    BY <1>4, <1>6 DEF PriorityInv, TimeIsAccounted
  <1>12. WaitingIsCharged' /\ NotStarved' /\ NoQueueNoRun'
    BY <1>4, <1>6, <1>7, JobsOfMaps DEF PriorityInv, WaitingIsCharged, NotStarved, NoQueueNoRun, Starves
  <1> QED BY <1>8, <1>9, <1>10, <1>11, <1>12 DEF PriorityInv

\* A crash leaves no job in memory.
LEMMA CrashInv == ASSUME PriorityInv, Crash PROVE PriorityInv'
  <1>1. /\ IsMap(EmptyMap, Jobs, TrainingJob) /\ IsMap(EmptyMap, Jobs, Nat)
        /\ DOMAIN EmptyMap = {}
    BY EmptyIsMap
  <1>2. TypeOK'
    <2>1. ReadyJobs' = EmptyMap /\ JobNumGPU' = EmptyMap /\ crashes' = crashes + 1
      BY DEF Crash
    <2>2. IsMap(ReadyJobs', Jobs, TrainingJob) /\ IsMap(JobNumGPU', Jobs, Nat)
      BY <1>1, <2>1
    <2>3. {now', ticked', crashes'} \subseteq Nat
      BY <2>1, JobsOfMaps DEF Crash
    <2>4. {up', reschedCh'} \subseteq BOOLEAN
      BY DEF Crash
    <2> QED BY <2>2, <2>3, <2>4 DEF Crash, PriorityInv, TypeOK
  <1>3. DocumentsAreFresh'
    BY DEF Crash, PriorityInv, DocumentsAreFresh, Fresh
  <1>4. Clock'
    BY <1>1, JobsOfMaps DEF Crash, PriorityInv, Clock
  <1> QED BY <1>1, <1>2, <1>3, <1>4 DEF Crash, PriorityInv, TimeIsAccounted, WaitingIsCharged,
                                  NotStarved, NoQueueNoRun

\* A restart reads documents nothing has been charged to, and runs from now on.
LEMMA RestartInv == ASSUME PriorityInv, Restart PROVE PriorityInv'
  <1> DEFINE accepted == { j \in DOMAIN documents : documents[j].Status \in {"Waiting", "Running"} }
             Restored(j) == IF j \in mpijobs THEN [documents[j] EXCEPT !.Status = "Running"]
                                             ELSE documents[j]
  <1>1. /\ ReadyJobs' = [j \in accepted |-> Restored(j)]
        /\ JobNumGPU' = [j \in mpijobs |-> NumProc[j]]
        /\ since' = [j \in Jobs |-> IF j \in accepted THEN now ELSE 0]
        /\ up' = TRUE /\ reschedCh' = TRUE /\ ticked' = now
        /\ late' = late \cup accepted
        /\ UNCHANGED <<now, documents, mpijobs, used, crashes>>
    BY DEF Restart
  <1>2. \A j \in accepted : Restored(j) \in TrainingJob /\ Fresh(Restored(j))
    <2> SUFFICES ASSUME NEW j \in accepted PROVE Restored(j) \in TrainingJob /\ Fresh(Restored(j))
      OBVIOUS
    <2>1. documents[j] \in TrainingJob /\ Fresh(documents[j])
      BY JobsOfMaps DEF PriorityInv, DocumentsAreFresh
    <2>2. [documents[j] EXCEPT !.Status = "Running"] \in TrainingJob
      BY <2>1, StatusJob
    <2>3. Fresh([documents[j] EXCEPT !.Status = "Running"])
      BY <2>1, StatusJob DEF Fresh
    <2> QED BY <2>1, <2>2, <2>3
  <1>3. accepted \subseteq DOMAIN documents /\ accepted \subseteq Jobs /\ mpijobs \subseteq DOMAIN documents
    BY JobsOfMaps DEF PriorityInv, Clock
  <1> HIDE DEF accepted, Restored
  <1>4. /\ DOMAIN ReadyJobs' = accepted
        /\ \A j \in DOMAIN ReadyJobs' :
              /\ ReadyJobs'[j] \in TrainingJob /\ since'[j] = now
              /\ ReadyJobs'[j].TotalDuration = 0 /\ ReadyJobs'[j].RunningDuration = 0
              /\ ReadyJobs'[j].WaitingDuration = 0 /\ ReadyJobs'[j].LastWaitingDuration = 0
              /\ ReadyJobs'[j].LastUpdateTime = ReadyJobs'[j].SubmitTime
              /\ ReadyJobs'[j].SubmitTime \in Nat /\ ReadyJobs'[j].SubmitTime <= now
    BY <1>1, <1>2, <1>3, JobFields DEF Fresh
  <1>5. since' \in [Jobs -> Nat] /\ \A j \in Jobs : since'[j] <= now
    BY <1>1, JobsOfMaps
  <1>6. /\ IsMap(ReadyJobs', Jobs, TrainingJob) /\ IsMap(JobNumGPU', Jobs, Nat)
        /\ DOMAIN JobNumGPU' = mpijobs
    BY <1>1, <1>3, <1>2, JobsAssumption, JobsOfMaps DEF IsMap, PriorityInv, TypeOK
  <1>7. TypeOK'
    BY <1>1, <1>3, <1>5, <1>6, JobsOfMaps DEF PriorityInv, TypeOK
  <1>8. DocumentsAreFresh'
    BY <1>1 DEF PriorityInv, DocumentsAreFresh, Fresh
  <1>9. Clock'
    BY <1>1, <1>3, <1>4, <1>5, <1>6, JobsOfMaps DEF PriorityInv, Clock
  <1>10. TimeIsAccounted'
    BY <1>1, <1>4, JobsOfMaps DEF TimeIsAccounted
  <1>11. WaitingIsCharged' /\ NotStarved'
    BY <1>1, <1>4, JobsOfMaps DEF WaitingIsCharged, NotStarved
  <1>12. NoQueueNoRun'
    BY <1>1 DEF Restart, PriorityInv, Clock, NoQueueNoRun
  <1> QED BY <1>7, <1>8, <1>9, <1>10, <1>11, <1>12 DEF PriorityInv

\* A tick: what it charges is what has passed, and it leaves nobody starving.
LEMMA UpdateTimeMetricsInv == ASSUME PriorityInv, UpdateTimeMetrics PROVE PriorityInv'
  <1> DEFINE charged == [j \in DOMAIN ReadyJobs |-> Charged(ReadyJobs[j], At(JobNumGPU, j))]
  <1>1. /\ ReadyJobs' = [j \in DOMAIN ReadyJobs |-> Prioritized(charged[j])]
        /\ up /\ now > ticked /\ ticked' = now
        /\ since' = [j \in Jobs |->
                       IF j \in DOMAIN ReadyJobs /\ 0 \in {ReadyJobs[j].Priority, ReadyJobs'[j].Priority}
                       THEN now ELSE since[j]]
        /\ reschedCh' = (reschedCh \/ \E j \in DOMAIN charged : PriorityChanges(charged[j]))
        /\ UNCHANGED <<now, documents, mpijobs, up, JobNumGPU, used, late, crashes>>
    BY DEF UpdateTimeMetrics
  <1>2. DOMAIN ReadyJobs' = DOMAIN ReadyJobs
    BY <1>1
  <1>3. \A j \in DOMAIN ReadyJobs :
           /\ j \in Jobs /\ ReadyJobs[j] \in TrainingJob /\ At(JobNumGPU, j) \in Nat
           /\ ReadyJobs[j].LastUpdateTime <= now
           /\ charged[j] = Charged(ReadyJobs[j], At(JobNumGPU, j))
           /\ ReadyJobs'[j] = Prioritized(charged[j])
    BY <1>1, JobsOfMaps DEF PriorityInv, Clock
  <1> HIDE DEF charged
  <1>4. \A j \in DOMAIN ReadyJobs :
           LET job == ReadyJobs[j]
               new == charged[j]
               elapsed == now - job.LastUpdateTime
           IN /\ new \in TrainingJob
              /\ new.Status = job.Status /\ new.Priority = job.Priority
              /\ new.SubmitTime = job.SubmitTime /\ new.LastUpdateTime = now
              /\ new.TotalDuration = job.TotalDuration + elapsed
              /\ new.RunningDuration + new.WaitingDuration
                    = job.RunningDuration + job.WaitingDuration + elapsed
              /\ job.Status = "Waiting" =>
                    /\ new.LastWaitingDuration = job.LastWaitingDuration + elapsed
                    /\ new.LastRunningDuration = job.LastRunningDuration
                    /\ new.LastGpuDuration = job.LastGpuDuration
    <2> TAKE j \in DOMAIN ReadyJobs
    <2> QED BY <1>3, ChargedJob, JobsOfMaps
  <1>5. \A j \in DOMAIN ReadyJobs :
           LET job == charged[j]
               new == ReadyJobs'[j]
           IN /\ new \in TrainingJob
              /\ new.Status = job.Status /\ new.SubmitTime = job.SubmitTime
              /\ new.LastUpdateTime = job.LastUpdateTime
              /\ new.RunningDuration = job.RunningDuration
              /\ new.WaitingDuration = job.WaitingDuration
              /\ new.TotalDuration = job.TotalDuration
              /\ new.LastRunningDuration = job.LastRunningDuration
              /\ new.LastWaitingDuration = job.LastWaitingDuration
              /\ new.LastGpuDuration = job.LastGpuDuration
              /\ new.Priority =
                    IF CrossesThreshold(job) THEN TiresiasDemotePriority(job.Priority)
                    ELSE IF Starves(job) THEN 0 ELSE job.Priority
    <2> TAKE j \in DOMAIN ReadyJobs
    <2> QED BY <1>3, <1>4, PrioritizedJob
  <1>6. /\ since' \in [Jobs -> Nat]
        /\ \A j \in DOMAIN ReadyJobs :
              since'[j] = IF ReadyJobs[j].Priority = 0 \/ ReadyJobs'[j].Priority = 0
                          THEN now ELSE since[j]
        /\ \A j \in Jobs : since'[j] <= now
    BY <1>1, <1>3, JobsOfMaps DEF PriorityInv, Clock
  <1>7. TypeOK'
    <2>1. IsMap(ReadyJobs', Jobs, TrainingJob)
      BY <1>1, <1>2, <1>3, <1>5 DEF IsMap
    <2>2. {up', reschedCh'} \subseteq BOOLEAN
      BY <1>1 DEF PriorityInv, TypeOK
    <2>3. {now', ticked', crashes'} \subseteq Nat
      BY <1>1, JobsOfMaps
    <2> QED BY <1>1, <1>6, <2>1, <2>2, <2>3 DEF PriorityInv, TypeOK
  <1>8. DocumentsAreFresh'
    BY <1>1 DEF PriorityInv, DocumentsAreFresh, Fresh
  <1>9. Clock'
    BY <1>1, <1>2, <1>4, <1>5, <1>6, JobsOfMaps DEF PriorityInv, Clock
  <1>10. TimeIsAccounted'
    BY <1>1, <1>2, <1>3, <1>4, <1>5, JobsOfMaps, JobFields DEF PriorityInv, TimeIsAccounted
  <1>11. WaitingIsCharged'
    BY <1>1, <1>2, <1>3, <1>4, <1>5, <1>6, JobsOfMaps, JobFields DEF PriorityInv, WaitingIsCharged
  <1>12. NotStarved'
    <2> SUFFICES ASSUME NEW j \in DOMAIN ReadyJobs,
                        ReadyJobs'[j].Status = "Waiting", ReadyJobs'[j].Priority > 0,
                        \/ ReadyJobs'[j].Priority < TiresiasQueueNum
                        \/ ReadyJobs'[j].LastGpuDuration = 0,
                        since'[j] # now
                 PROVE  /\ ReadyJobs'[j].LastUpdateTime = now
                        /\ ~Starves(ReadyJobs'[j])
      BY <1>1, <1>2, <1>3, <1>6, JobsOfMaps DEF NotStarved, Starves
    <2>1. charged[j] \in TrainingJob /\ charged[j].Priority \in Nat /\ charged[j].Priority # 0
      BY <1>4, <1>6, JobFields
    <2>2. ~CrossesThreshold(charged[j])
      BY <1>5, <2>1 DEF CrossesThreshold, TiresiasDemotePriority, TiresiasQueueNum
    <2>3. ~Starves(charged[j]) /\ ReadyJobs'[j].Priority = charged[j].Priority
      BY <1>5, <2>2
    <2> QED BY <1>4, <1>5, <2>3 DEF Starves
  <1>13. NoQueueNoRun'
    <2> SUFFICES ASSUME crashes = 0, NEW j \in DOMAIN ReadyJobs,
                        ReadyJobs'[j].Priority >= TiresiasQueueNum
                 PROVE  FALSE
      BY <1>1, <1>2 DEF NoQueueNoRun
    <2>1. /\ charged[j] \in TrainingJob /\ charged[j].Priority \in Nat
          /\ charged[j].LastWaitingDuration \in Nat /\ charged[j].LastGpuDuration \in Nat
      BY <1>4, JobFields
    <2>2. charged[j].Priority >= TiresiasQueueNum
      BY <1>5, <2>1 DEF TiresiasDemotePriority, TiresiasQueueNum
    <2>3. charged[j].LastRunningDuration = 0 /\ charged[j].LastGpuDuration = 0
      BY <1>4, <2>2 DEF PriorityInv, NoQueueNoRun
    <2>4. ~CrossesThreshold(charged[j])
      BY <2>1, <2>2, <2>3 DEF CrossesThreshold, TiresiasQueueNum
    <2>5. 0 * PromoteKnob = 0
      BY SettingsAssumption
    <2>6. Starves(charged[j])
      BY <2>1, <2>2, <2>3, <2>5 DEF Starves, TiresiasQueueNum
    <2> QED BY <1>5, <2>4, <2>6 DEF TiresiasQueueNum
  <1> QED BY <1>7, <1>8, <1>9, <1>10, <1>11, <1>12, <1>13 DEF PriorityInv

\* Jobs that are halted begin to wait; only jobs in a queue are started.
LEMMA ReschedInv == ASSUME PriorityInv, Resched PROVE PriorityInv'
  <1>1. PICK new \in Allocations :
          LET halts  == { j \in mpijobs \cap DOMAIN JobNumGPU : At(new, j) < JobNumGPU[j] }
              starts == { j \in DOMAIN JobNumGPU : JobNumGPU[j] < At(new, j) }
          IN /\ JobNumGPU' = new
             /\ ReadyJobs' = [j \in DOMAIN ReadyJobs |->
                                 IF j \in halts THEN Halted(ReadyJobs[j])
                                 ELSE IF j \in starts THEN Started(ReadyJobs[j])
                                 ELSE ReadyJobs[j]]
             /\ mpijobs' = (mpijobs \ halts) \cup starts
             /\ since' = [j \in Jobs |-> IF j \in halts THEN now ELSE since[j]]
             /\ used' = [j \in Jobs |-> IF j \in starts THEN 0 ELSE used[j]]
             /\ late' = (late \ starts) \cup
                           { j \in starts : now - ReadyJobs[j].LastUpdateTime > Interval }
    BY DEF Resched
  <1> DEFINE halts  == { j \in mpijobs \cap DOMAIN JobNumGPU : At(new, j) < JobNumGPU[j] }
             starts == { j \in DOMAIN JobNumGPU : JobNumGPU[j] < At(new, j) }
  <1>2. /\ up /\ reschedCh' = FALSE /\ UNCHANGED <<now, documents, up, ticked, crashes>>
    BY DEF Resched
  <1>3. /\ DOMAIN new = Queued /\ Queued \subseteq DOMAIN ReadyJobs /\ new \in [Queued -> Nat]
    BY SettingsAssumption DEF Allocations, Queued
  <1>4. /\ starts \subseteq Queued /\ starts \cap halts = {}
        /\ starts \subseteq Jobs /\ halts \subseteq Jobs
    BY <1>3 DEF At, PriorityInv, TypeOK, IsMap
  <1>5. /\ JobNumGPU' = new
        /\ mpijobs' = (mpijobs \ halts) \cup starts
        /\ since' = [j \in Jobs |-> IF j \in halts THEN now ELSE since[j]]
        /\ used' = [j \in Jobs |-> IF j \in starts THEN 0 ELSE used[j]]
        /\ late' = (late \ starts) \cup { j \in starts : now - ReadyJobs[j].LastUpdateTime > Interval }
        /\ DOMAIN ReadyJobs' = DOMAIN ReadyJobs
        /\ ReadyJobs' = [j \in DOMAIN ReadyJobs |-> ReadyJobs'[j]]
        /\ \A j \in DOMAIN ReadyJobs :
              ReadyJobs'[j] = IF j \in halts THEN Halted(ReadyJobs[j])
                              ELSE IF j \in starts THEN Started(ReadyJobs[j])
                              ELSE ReadyJobs[j]
    BY <1>1
  <1> HIDE DEF halts, starts
  <1>6. \A j \in DOMAIN ReadyJobs :
           /\ ReadyJobs'[j] \in TrainingJob
           /\ ReadyJobs'[j].Priority = ReadyJobs[j].Priority
           /\ ReadyJobs'[j].SubmitTime = ReadyJobs[j].SubmitTime
           /\ ReadyJobs'[j].LastUpdateTime = ReadyJobs[j].LastUpdateTime
           /\ ReadyJobs'[j].RunningDuration = ReadyJobs[j].RunningDuration
           /\ ReadyJobs'[j].WaitingDuration = ReadyJobs[j].WaitingDuration
           /\ ReadyJobs'[j].TotalDuration = ReadyJobs[j].TotalDuration
           /\ j \in starts => ReadyJobs'[j].Status = "Running"
           /\ j \in halts =>
                 /\ ReadyJobs'[j].Status = "Waiting" /\ ReadyJobs'[j].LastWaitingDuration = 0
                 /\ ReadyJobs'[j].LastRunningDuration = ReadyJobs[j].LastRunningDuration
                 /\ ReadyJobs'[j].LastGpuDuration = ReadyJobs[j].LastGpuDuration
           /\ j \notin halts \cup starts => ReadyJobs'[j] = ReadyJobs[j]
    <2> TAKE j \in DOMAIN ReadyJobs
    <2>0. ReadyJobs[j] \in TrainingJob /\ now \in Nat
      BY JobsOfMaps
    <2>1. CASE j \in halts
      BY <1>4, <1>5, <2>0, <2>1, HaltedJob
    <2>2. CASE j \in starts
      BY <1>4, <1>5, <2>0, <2>2, StartedJob
    <2>3. CASE j \notin halts \cup starts
      BY <1>5, <2>0, <2>3
    <2> QED BY <2>1, <2>2, <2>3
  <1>7. /\ since' \in [Jobs -> Nat] /\ used' \in [Jobs -> Nat]
        /\ \A j \in Jobs : since'[j] = IF j \in halts THEN now ELSE since[j]
    BY <1>5, JobsOfMaps
  <1>8. TypeOK'
    <2>1. IsMap(ReadyJobs', Jobs, TrainingJob)
      BY <1>5, <1>6, JobsOfMaps DEF IsMap
    <2>2. IsMap(JobNumGPU', Jobs, Nat)
      BY <1>3, <1>5, JobsOfMaps DEF IsMap
    <2>3. mpijobs' \subseteq Jobs /\ late' \subseteq Jobs
      BY <1>4, <1>5 DEF PriorityInv, TypeOK
    <2> QED BY <1>2, <1>7, <2>1, <2>2, <2>3 DEF PriorityInv, TypeOK
  <1>9. DocumentsAreFresh'
    BY <1>2 DEF PriorityInv, DocumentsAreFresh, Fresh
  <1>10. Clock'
    BY <1>2, <1>3, <1>4, <1>5, <1>6, <1>7, JobsOfMaps DEF PriorityInv, Clock
  <1>11. TimeIsAccounted'
    BY <1>2, <1>5, <1>6 DEF PriorityInv, TimeIsAccounted
  <1>12. WaitingIsCharged'
    BY <1>2, <1>5, <1>6, <1>7, JobsOfMaps, JobFields DEF PriorityInv, WaitingIsCharged, Clock
  <1>13. NotStarved'
    BY <1>2, <1>5, <1>6, <1>7, JobsOfMaps, JobFields DEF PriorityInv, NotStarved, Clock, Starves
  <1>14. NoQueueNoRun'
    BY <1>2, <1>4, <1>5, <1>6, <1>7, JobsOfMaps, JobFields
       DEF PriorityInv, NoQueueNoRun, Clock, Queued, TiresiasQueueNum
  <1> QED BY <1>8, <1>9, <1>10, <1>11, <1>12, <1>13, <1>14 DEF PriorityInv

(***************************************************************************)
(* The theorems.                                                           *)
(***************************************************************************)

\* The invariant, of every behaviour.
LEMMA PriorityInvariant == Spec => []PriorityInv
  <1>1. Init => PriorityInv
    BY InitInv
  <1>2. PriorityInv /\ [Next]_vars => PriorityInv'
    <2> SUFFICES ASSUME PriorityInv, [Next]_vars PROVE PriorityInv'
      OBVIOUS
    <2>1. CASE Advance
      BY <2>1, AdvanceInv
    <2>2. CASE \E j \in Jobs, priority \in UserPriorities : Submit(j, priority)
      BY <2>2, SubmitInv
    <2>3. CASE \E j \in Jobs : CreateTrainingJob(j) \/ HandleJobCompleted(j)
      BY <2>3, CreateTrainingJobInv, HandleJobCompletedInv
    <2>4. CASE UpdateTimeMetrics
      BY <2>4, UpdateTimeMetricsInv
    <2>5. CASE Resched
      BY <2>5, ReschedInv
    <2>6. CASE Crash
      BY <2>6, CrashInv
    <2>7. CASE Restart
      BY <2>7, RestartInv
    <2>8. CASE UNCHANGED vars
      BY <2>8 DEF vars, PriorityInv, TypeOK, DocumentsAreFresh, Fresh, Clock, TimeIsAccounted,
                  WaitingIsCharged, NotStarved, NoQueueNoRun, Starves
    <2> QED BY <2>1, <2>2, <2>3, <2>4, <2>5, <2>6, <2>7, <2>8 DEF Next
  <1> QED BY <1>1, <1>2, PTL DEF Spec

\* What is charged to a job and what the next tick will charge is the time since its
\* submission.
THEOREM NoTimeIsLost == Spec => []TimeIsAccounted
  <1>1. PriorityInv => TimeIsAccounted
    BY DEF PriorityInv
  <1> QED BY <1>1, PriorityInvariant, PTL

\* No job waits in a lower queue longer than the limit, except for the ticks that
\* measure it.
THEOREM NobodyStarves == Spec => []StarvationIsBounded
  <1>1. PriorityInv => StarvationIsBounded
    <2> SUFFICES ASSUME PriorityInv, NEW j \in DOMAIN ReadyJobs
                 PROVE  LET job == ReadyJobs[j]
                        IN /\ /\ job.Status = "Waiting" /\ job.Priority > 0
                              /\ job.Priority < TiresiasQueueNum \/ job.LastGpuDuration = 0
                              => now - since[j] <= PromoteKnob * job.LastRunningDuration + Interval
                           /\ job.Priority >= TiresiasQueueNum
                              => now - since[j] <= Interval \/ crashes > 0
      BY DEF StarvationIsBounded
    <2> DEFINE job == ReadyJobs[j]
    <2>1. /\ job \in TrainingJob /\ since[j] \in Nat /\ now \in Nat /\ ticked \in Nat
          /\ Interval \in Nat /\ crashes \in Nat /\ PromoteKnob \in Nat
      BY JobsOfMaps, SettingsAssumption
    <2>2. now <= ticked + Interval
      BY DEF PriorityInv, Clock
    <2>3. PICK limit \in Nat : /\ limit = PromoteKnob * job.LastRunningDuration
                               /\ limit = job.LastRunningDuration * PromoteKnob
      BY <2>1, JobFields, Product
    <2>4. ASSUME job.Status = "Waiting", job.Priority > 0,
                 job.Priority < TiresiasQueueNum \/ job.LastGpuDuration = 0
          PROVE  now - since[j] <= limit + Interval
      <3>1. CASE since[j] >= ticked
        BY <2>1, <2>2, <2>3, <3>1
      <3>2. CASE job.LastUpdateTime = ticked /\ ~Starves(job)
        <4>1. job.LastWaitingDuration < limit
          BY <2>1, <2>3, <2>4, <3>2, JobFields DEF Starves
        <4>2. ticked <= since[j] + job.LastWaitingDuration
          BY <2>4, <3>2 DEF PriorityInv, WaitingIsCharged
        <4> QED BY <2>1, <2>2, <2>3, <4>1, <4>2, JobFields
      <3> QED BY <2>4, <3>1, <3>2 DEF PriorityInv, NotStarved
    <2>5. ASSUME job.Priority >= TiresiasQueueNum, crashes = 0
          PROVE  now - since[j] <= Interval
      BY <2>1, <2>2, <2>5 DEF PriorityInv, NoQueueNoRun
    <2> QED BY <2>1, <2>3, <2>4, <2>5
  <1> QED BY <1>1, PriorityInvariant, PTL


(***************************************************************************)
(* Demotions.  What a job is demoted for is the GPU time it has used since *)
(* it was started: what has been charged of it, and what the next tick     *)
(* will charge, exceed it by the time before the first tick at most.       *)
(***************************************************************************)

\* The GPU time that the next tick will charge.
Uncharged(j) ==
    IF ReadyJobs[j].Status = "Running" THEN (now - ReadyJobs[j].LastUpdateTime) * NumProc[j]
                                       ELSE 0

\* A job that runs has its MPIJob and all its GPUs, which are those it is charged for.
RunsOnItsGpus ==
    \A j \in DOMAIN ReadyJobs :
        ReadyJobs[j].Status = "Running" => j \in mpijobs /\ At(JobNumGPU, j) = NumProc[j]

\* No document says that a job runs; the jobs in memory have been accepted.
DocumentsAreAccepted ==
    /\ \A j \in DOMAIN documents : documents[j].Status # "Running"
    /\ \A j \in DOMAIN ReadyJobs : documents[j].Status # "Submitted"

\* The use of a job that was started and found in time.
Covered(j) ==
    ReadyJobs[j].LastGpuDuration + Uncharged(j) <= used[j] + NumProc[j] * Interval

GpuInv ==
    /\ RunsOnItsGpus /\ DocumentsAreAccepted
    /\ \A j \in DOMAIN ReadyJobs : j \notin late => Covered(j)

\* Two facts about products.
LEMMA GrowingProduct ==
    ASSUME NEW a \in Nat, NEW n \in Nat PROVE (a + 1) * n = a * n + n /\ a * n \in Nat
  OBVIOUS

LEMMA BoundedProduct ==
    ASSUME NEW a \in Nat, NEW b \in Nat, NEW n \in Nat, a <= b
    PROVE  a * n \in Nat /\ n * b \in Nat /\ a * n <= n * b
  <1>1. PICK d \in Nat : b = a + d
    <2>1. b - a \in Nat /\ b = a + (b - a)
      OBVIOUS
    <2> QED BY <2>1
  <1>2. n * (a + d) = a * n + d * n /\ a * n \in Nat /\ d * n \in Nat
    OBVIOUS
  <1>3. n * b = a * n + d * n
    BY <1>1, <1>2
  <1> QED BY <1>2, <1>3

\* What updateTimeMetrics charges of the GPU time.
LEMMA ChargedGpus ==
    ASSUME NEW job \in TrainingJob, NEW gpus \in Nat, now \in Nat, job.LastUpdateTime <= now
    PROVE  Charged(job, gpus).LastGpuDuration
             = job.LastGpuDuration
               + (IF job.Status = "Running" THEN (now - job.LastUpdateTime) * gpus ELSE 0)
  <1>1. job.LastGpuDuration \in Nat
    BY JobFields
  <1>2. CASE job.Status = "Running"
    <2>1. Charged(job, gpus).LastGpuDuration
             = job.LastGpuDuration + (now - job.LastUpdateTime) * gpus
      BY <1>2, Zenon DEF Charged, TrainingJob
    <2> QED BY <1>2, <2>1
  <1>3. CASE job.Status # "Running"
    <2>1. Charged(job, gpus).LastGpuDuration = job.LastGpuDuration
      BY <1>3 DEF Charged, TrainingJob
    <2> QED BY <1>1, <1>3, <2>1
  <1> QED BY <1>2, <1>3

\* The sequences of a set name each of its elements.
LEMMA Listed ==
    ASSUME NEW S, IsFiniteSet(S), NEW o \in SetToSeqs(S), NEW x \in S
    PROVE  \E i \in DOMAIN o : o[i] = x
  <1>1. o \in [1..Cardinality(S) -> S] /\ \A i, k \in 1..Cardinality(S) : i # k => o[i] # o[k]
    BY DEF SetToSeqs
  <1>2. /\ o \in Seq(S) /\ Len(o) = Cardinality(S) /\ DOMAIN o = 1..Cardinality(S)
        /\ Cardinality(S) \in Nat
        /\ \A y \in S : \E i \in 1..Cardinality(S) : o[i] = y
        /\ { o[i] : i \in 1..Cardinality(S) } = S
    BY <1>1, Enumerates
  <1> QED BY <1>2

\* Tiresias gives a job all the GPUs it needs, or none.
LEMMA AllOrNothing ==
    ASSUME PriorityInv, NEW new \in Allocations, NEW j \in Queued
    PROVE  new[j] = NumProc[j] \/ new[j] = 0
  <1>1. IsFiniteSet(Queued)
    <2>1. Queued \subseteq Jobs
      BY JobsOfMaps DEF Queued
    <2> QED BY <2>1, JobsAssumption, FS_Subset
  <1>2. PICK order \in Orders : \A i \in DOMAIN order :
            LET free == TotalGpus - MapThenSumSet(LAMBDA k : new[order[k]], 1..(i - 1))
                need == NumProc[order[i]]
            IN new[order[i]] = IF free >= need THEN need ELSE 0
    BY DEF Allocations
  <1>3. order \in SetToSeqs(Queued)
    BY DEF Orders
  <1>4. PICK i \in DOMAIN order : order[i] = j
    BY <1>1, <1>3, Listed
  <1> QED BY <1>2, <1>4

LEMMA InitGpu == ASSUME Init PROVE GpuInv
  BY EmptyIsMap DEF Init, GpuInv, RunsOnItsGpus, DocumentsAreAccepted, EmptyMap

\* What was covered stays so, if a job, its use and its clock stay the same.
LEMMA SameCovered ==
    ASSUME NEW j, Covered(j), now' = now, used'[j] = used[j], ReadyJobs'[j] = ReadyJobs[j]
    PROVE  Covered(j)'
  BY DEF Covered, Uncharged

\* The time that passes is used by the jobs that run.
LEMMA AdvanceGpu == ASSUME PriorityInv, GpuInv, Advance PROVE GpuInv'
  <1>1. /\ now' = now + 1 /\ UNCHANGED <<documents, mpijobs, ReadyJobs, JobNumGPU, late>>
        /\ used' = [j \in Jobs |-> IF j \in mpijobs THEN used[j] + NumProc[j] ELSE used[j]]
    BY DEF Advance
  <1>2. RunsOnItsGpus' /\ DocumentsAreAccepted'
    BY <1>1 DEF GpuInv, RunsOnItsGpus, DocumentsAreAccepted, At
  <1>3. ASSUME NEW j \in DOMAIN ReadyJobs, j \notin late PROVE Covered(j)'
    <2>1. /\ ReadyJobs[j] \in TrainingJob /\ j \in Jobs /\ used[j] \in Nat /\ NumProc[j] \in Nat
          /\ now \in Nat /\ ReadyJobs[j].LastUpdateTime <= now /\ Interval \in Nat
      BY JobsOfMaps, JobsAssumption DEF PriorityInv, Clock
    <2>2. Covered(j)
      BY <1>3 DEF GpuInv
    <2>3. ReadyJobs[j].LastGpuDuration \in Nat /\ ReadyJobs[j].LastUpdateTime \in Nat
      BY <2>1, JobFields
    <2> DEFINE passed == now - ReadyJobs[j].LastUpdateTime
               most == NumProc[j] * Interval
               p == passed * NumProc[j]
    <2>4. passed \in Nat /\ most \in Nat
      BY <2>1, <2>3, Product
    <2>5. now' - ReadyJobs'[j].LastUpdateTime = passed + 1
      BY <1>1, <2>1, <2>3
    <2> HIDE DEF passed, most
    <2>6. (passed + 1) * NumProc[j] = p + NumProc[j] /\ p \in Nat
      BY <2>1, <2>4, GrowingProduct
    <2>7. CASE ReadyJobs[j].Status = "Running"
      <3>1. used'[j] = used[j] + NumProc[j]
        BY <1>1, <2>1, <2>7 DEF GpuInv, RunsOnItsGpus
      <3>2. Uncharged(j) = p /\ Uncharged(j)' = p + NumProc[j]
        BY <1>1, <2>5, <2>6, <2>7 DEF Uncharged, passed
      <3> HIDE DEF p
      <3>3. ReadyJobs[j].LastGpuDuration + p <= used[j] + most
        BY <2>2, <3>2 DEF Covered, most
      <3>4. ReadyJobs[j].LastGpuDuration + (p + NumProc[j]) <= (used[j] + NumProc[j]) + most
        BY <2>1, <2>3, <2>4, <2>6, <3>3
      <3> QED BY <1>1, <3>1, <3>2, <3>4 DEF Covered, most
    <2>8. CASE ReadyJobs[j].Status # "Running"
      <3>1. used'[j] \in Nat /\ used'[j] >= used[j]
        BY <1>1, <2>1
      <3>2. Uncharged(j) = 0 /\ Uncharged(j)' = 0
        BY <1>1, <2>8 DEF Uncharged
      <3>3. ReadyJobs[j].LastGpuDuration + 0 <= used'[j] + most
        <4>1. ReadyJobs[j].LastGpuDuration + 0 <= used[j] + most
          BY <2>2, <3>2 DEF Covered, most
        <4> QED BY <2>1, <2>3, <2>4, <3>1, <4>1
      <3> QED BY <1>1, <3>2, <3>3 DEF Covered, most
    <2> QED BY <2>7, <2>8
  <1> QED BY <1>1, <1>2, <1>3 DEF GpuInv

LEMMA SubmitGpu ==
    ASSUME PriorityInv, GpuInv, NEW j \in Jobs, NEW priority \in UserPriorities,
           Submit(j, priority)
    PROVE  GpuInv'
  <1>1. /\ UNCHANGED <<now, mpijobs, ReadyJobs, JobNumGPU, late, used>>
        /\ documents' = Put(documents, j, Stored(NewTrainingJob(priority))) /\ j \notin DOMAIN documents
    BY DEF Submit
  <1>2. Stored(NewTrainingJob(priority)).Status = "Submitted"
    BY DEF NewTrainingJob, Stored
  <1>3. RunsOnItsGpus'
    BY <1>1 DEF GpuInv, RunsOnItsGpus, At
  <1>4. DOMAIN ReadyJobs \subseteq DOMAIN documents
    BY DEF PriorityInv, Clock
  <1>5. DocumentsAreAccepted'
    BY <1>1, <1>2, <1>4 DEF GpuInv, DocumentsAreAccepted, Put
  <1>6. \A x \in DOMAIN ReadyJobs' : x \notin late' => Covered(x)'
    BY <1>1, SameCovered DEF GpuInv
  <1> QED BY <1>3, <1>5, <1>6 DEF GpuInv

LEMMA CreateTrainingJobGpu ==
    ASSUME PriorityInv, GpuInv, NEW j \in Jobs, CreateTrainingJob(j) PROVE GpuInv'
  <1> DEFINE job == [documents[j] EXCEPT !.Status = "Waiting"]
  <1>1. /\ documents' = Put(documents, j, job) /\ ReadyJobs' = Put(ReadyJobs, j, job)
        /\ JobNumGPU' = Put(JobNumGPU, j, 0)
        /\ UNCHANGED <<now, mpijobs, used, late>>
    BY DEF CreateTrainingJob
  <1>2. documents[j] \in TrainingJob /\ documents[j].LastGpuDuration = 0
    BY JobsOfMaps DEF CreateTrainingJob, PriorityInv, DocumentsAreFresh, Fresh
  <1>3. job.Status = "Waiting" /\ job.LastGpuDuration = 0
    BY <1>2, StatusJob
  <1> HIDE DEF job
  <1>4. /\ DOMAIN ReadyJobs' = DOMAIN ReadyJobs \cup {j}
        /\ \A x \in DOMAIN ReadyJobs' : ReadyJobs'[x] = IF x = j THEN job ELSE ReadyJobs[x]
        /\ DOMAIN documents' = DOMAIN documents \cup {j}
        /\ \A x \in DOMAIN documents' : documents'[x] = IF x = j THEN job ELSE documents[x]
        /\ \A x : x # j => At(JobNumGPU, x)' = At(JobNumGPU, x)
    BY <1>1 DEF Put, At
  <1>5. RunsOnItsGpus'
    BY <1>1, <1>3, <1>4 DEF GpuInv, RunsOnItsGpus
  <1>6. DocumentsAreAccepted'
    <2>1. DOMAIN ReadyJobs \subseteq DOMAIN documents
      BY DEF PriorityInv, Clock
    <2> QED BY <1>3, <1>4, <2>1 DEF GpuInv, DocumentsAreAccepted
  <1>7. Covered(j)'
    <2>1. /\ used[j] \in Nat /\ NumProc[j] * Interval \in Nat
      BY JobsOfMaps, JobsAssumption, Product
    <2>2. Uncharged(j)' = 0 /\ ReadyJobs'[j].LastGpuDuration = 0
      BY <1>3, <1>4 DEF Uncharged
    <2>3. \A a, b \in Nat : 0 + 0 <= a + b
      OBVIOUS
    <2>4. 0 + 0 <= used[j] + NumProc[j] * Interval
      BY <2>1, <2>3
    <2> QED BY <1>1, <2>2, <2>4 DEF Covered
  <1>8. ASSUME NEW x \in DOMAIN ReadyJobs', x \notin late' PROVE Covered(x)'
    BY <1>1, <1>4, <1>7, <1>8, SameCovered DEF GpuInv
  <1> QED BY <1>5, <1>6, <1>8 DEF GpuInv

LEMMA HandleJobCompletedGpu ==
    ASSUME PriorityInv, GpuInv, NEW j \in Jobs, HandleJobCompleted(j) PROVE GpuInv'
  <1>1. /\ mpijobs' = mpijobs \ {j} /\ late' = late \ {j} /\ now' = now
        /\ documents' = Put(documents, j, [documents[j] EXCEPT !.Status = "Completed"])
        /\ ReadyJobs' = Without(ReadyJobs, {j}) /\ JobNumGPU' = Without(JobNumGPU, {j})
        /\ used' = [used EXCEPT ![j] = 0]
    BY DEF HandleJobCompleted
  <1>2. j \in DOMAIN documents /\ DOMAIN ReadyJobs \subseteq DOMAIN documents
    BY DEF HandleJobCompleted, PriorityInv, Clock
  <1>3. [documents[j] EXCEPT !.Status = "Completed"].Status = "Completed"
    BY <1>2, JobsOfMaps, StatusJob
  <1>4. /\ DOMAIN ReadyJobs' = DOMAIN ReadyJobs \ {j}
        /\ \A x \in DOMAIN ReadyJobs' : ReadyJobs'[x] = ReadyJobs[x]
        /\ \A x : x # j => At(JobNumGPU, x)' = At(JobNumGPU, x)
        /\ \A x \in DOMAIN documents' : \/ x = j /\ documents'[x].Status = "Completed"
                                        \/ x \in DOMAIN documents /\ documents'[x] = documents[x]
        /\ \A x \in DOMAIN documents : x # j => documents'[x] = documents[x]
    BY <1>1, <1>3 DEF Without, Restrict, Put, At
  <1>5. RunsOnItsGpus'
    BY <1>1, <1>4 DEF GpuInv, RunsOnItsGpus
  <1>6. DocumentsAreAccepted'
    BY <1>2, <1>4 DEF GpuInv, DocumentsAreAccepted
  <1>7. ASSUME NEW x \in DOMAIN ReadyJobs', x \notin late' PROVE Covered(x)'
    <2>1. x \in Jobs /\ used'[x] = used[x]
      BY <1>1, <1>4, JobsOfMaps DEF PriorityInv, TypeOK
    <2> QED BY <1>1, <1>4, <1>7, <2>1, SameCovered DEF GpuInv
  <1> QED BY <1>5, <1>6, <1>7 DEF GpuInv

LEMMA CrashGpu == ASSUME PriorityInv, GpuInv, Crash PROVE GpuInv'
  <1>1. ReadyJobs' = EmptyMap /\ documents' = documents
    BY DEF Crash
  <1>2. DOMAIN ReadyJobs' = {}
    BY <1>1 DEF EmptyMap
  <1> QED BY <1>1, <1>2 DEF GpuInv, RunsOnItsGpus, DocumentsAreAccepted

\* All jobs that a restart finds are late: their documents have been lying about.
LEMMA RestartGpu == ASSUME PriorityInv, GpuInv, Restart PROVE GpuInv'
  <1> DEFINE accepted == { j \in DOMAIN documents : documents[j].Status \in {"Waiting", "Running"} }
             Restored(j) == IF j \in mpijobs THEN [documents[j] EXCEPT !.Status = "Running"]
                                             ELSE documents[j]
  <1>1. /\ ReadyJobs' = [j \in accepted |-> Restored(j)]
        /\ JobNumGPU' = [j \in mpijobs |-> NumProc[j]]
        /\ late' = late \cup accepted
        /\ UNCHANGED <<documents, mpijobs>>
    BY DEF Restart
  <1>2. \A j \in accepted : documents[j].Status = "Waiting"
    BY DEF GpuInv, DocumentsAreAccepted
  <1>3. RunsOnItsGpus'
    BY <1>1, <1>2 DEF RunsOnItsGpus, At
  <1>4. DocumentsAreAccepted'
    BY <1>1, <1>2 DEF GpuInv, DocumentsAreAccepted
  <1> QED BY <1>1, <1>3, <1>4 DEF GpuInv

\* What a tick makes of a job.
LEMMA Tick ==
    ASSUME PriorityInv, GpuInv, UpdateTimeMetrics, NEW j \in DOMAIN ReadyJobs
    PROVE  LET job == ReadyJobs[j]
               new == ReadyJobs'[j]
           IN /\ new.Status = job.Status /\ new.LastUpdateTime = now
              /\ new.LastGpuDuration = job.LastGpuDuration + Uncharged(j)
              /\ job.Priority = 0 /\ new.Priority # 0 => new.LastGpuDuration > Threshold
  <1> DEFINE charged == Charged(ReadyJobs[j], At(JobNumGPU, j))
  <1>1. ReadyJobs'[j] = Prioritized(charged)
    BY DEF UpdateTimeMetrics
  <1>2. /\ ReadyJobs[j] \in TrainingJob /\ At(JobNumGPU, j) \in Nat /\ now \in Nat /\ j \in Jobs
        /\ ReadyJobs[j].LastUpdateTime <= now
    BY JobsOfMaps DEF PriorityInv, Clock
  <1>3. /\ charged \in TrainingJob /\ charged.Status = ReadyJobs[j].Status
        /\ charged.LastUpdateTime = now /\ charged.Priority = ReadyJobs[j].Priority
    BY <1>2, ChargedJob
  <1>4. charged.LastGpuDuration = ReadyJobs[j].LastGpuDuration + Uncharged(j)
    <2>1. charged.LastGpuDuration
             = ReadyJobs[j].LastGpuDuration
               + (IF ReadyJobs[j].Status = "Running"
                  THEN (now - ReadyJobs[j].LastUpdateTime) * At(JobNumGPU, j) ELSE 0)
      BY <1>2, ChargedGpus
    <2>2. ReadyJobs[j].Status = "Running" => At(JobNumGPU, j) = NumProc[j]
      BY DEF GpuInv, RunsOnItsGpus
    <2> QED BY <2>1, <2>2 DEF Uncharged
  <1> HIDE DEF charged
  <1>5. LET new == ReadyJobs'[j]
        IN /\ new.Status = charged.Status /\ new.LastUpdateTime = charged.LastUpdateTime
           /\ new.LastGpuDuration = charged.LastGpuDuration
           /\ new.Priority = IF CrossesThreshold(charged)
                             THEN TiresiasDemotePriority(charged.Priority)
                             ELSE IF Starves(charged) THEN 0 ELSE charged.Priority
    BY <1>1, <1>3, PrioritizedJob
  <1>6. charged.Priority = 0 /\ CrossesThreshold(charged) => charged.LastGpuDuration > Threshold
    BY DEF CrossesThreshold, TiresiasQueueNum
  <1> QED BY <1>3, <1>4, <1>5, <1>6

\* A tick turns what is to be charged into what has been charged.
LEMMA UpdateTimeMetricsGpu == ASSUME PriorityInv, GpuInv, UpdateTimeMetrics PROVE GpuInv'
  <1>1. /\ UNCHANGED <<now, documents, mpijobs, JobNumGPU, used, late>>
        /\ DOMAIN ReadyJobs' = DOMAIN ReadyJobs
    BY DEF UpdateTimeMetrics
  <1>2. RunsOnItsGpus'
    BY <1>1, Tick DEF GpuInv, RunsOnItsGpus, At
  <1>3. DocumentsAreAccepted'
    BY <1>1 DEF GpuInv, DocumentsAreAccepted
  <1>4. ASSUME NEW j \in DOMAIN ReadyJobs, j \notin late PROVE Covered(j)'
    <2>1. /\ ReadyJobs[j] \in TrainingJob /\ j \in Jobs /\ NumProc[j] \in Nat /\ now \in Nat
          /\ ReadyJobs[j].LastUpdateTime <= now
      BY JobsOfMaps, JobsAssumption DEF PriorityInv, Clock
    <2>2. Uncharged(j)' = 0
      <3>1. (now - now) * NumProc[j] = 0
        BY <2>1
      <3>2. ReadyJobs'[j].LastUpdateTime = now /\ now' = now
        BY <1>1, Tick
      <3> QED BY <3>1, <3>2 DEF Uncharged
    <2>3. Uncharged(j) \in Nat
      <3>1. now - ReadyJobs[j].LastUpdateTime \in Nat
        BY <2>1, JobFields
      <3>2. (now - ReadyJobs[j].LastUpdateTime) * NumProc[j] \in Nat
        BY <2>1, <3>1, Product
      <3> QED BY <3>2 DEF Uncharged
    <2>4. ReadyJobs'[j].LastGpuDuration + Uncharged(j)'
             = ReadyJobs[j].LastGpuDuration + Uncharged(j)
      <3>1. ReadyJobs'[j].LastGpuDuration = ReadyJobs[j].LastGpuDuration + Uncharged(j)
        BY Tick
      <3>2. ReadyJobs[j].LastGpuDuration \in Nat
        BY <2>1, JobFields
      <3>3. \A a, b \in Nat : (a + b) + 0 = a + b
        OBVIOUS
      <3> QED BY <2>2, <2>3, <3>1, <3>2, <3>3
    <2>5. Covered(j)
      BY <1>4 DEF GpuInv
    <2> QED BY <1>1, <2>4, <2>5 DEF Covered
  <1> QED BY <1>1, <1>2, <1>3, <1>4 DEF GpuInv

\* A start begins with nothing charged and at most an interval to be charged, unless
\* the job is late; a halt stops the charging.
LEMMA ReschedGpu == ASSUME PriorityInv, GpuInv, Resched PROVE GpuInv'
  <1>1. PICK new \in Allocations :
          LET halts  == { j \in mpijobs \cap DOMAIN JobNumGPU : At(new, j) < JobNumGPU[j] }
              starts == { j \in DOMAIN JobNumGPU : JobNumGPU[j] < At(new, j) }
          IN /\ JobNumGPU' = new
             /\ ReadyJobs' = [j \in DOMAIN ReadyJobs |->
                                 IF j \in halts THEN Halted(ReadyJobs[j])
                                 ELSE IF j \in starts THEN Started(ReadyJobs[j])
                                 ELSE ReadyJobs[j]]
             /\ mpijobs' = (mpijobs \ halts) \cup starts
             /\ since' = [j \in Jobs |-> IF j \in halts THEN now ELSE since[j]]
             /\ used' = [j \in Jobs |-> IF j \in starts THEN 0 ELSE used[j]]
             /\ late' = (late \ starts) \cup
                           { j \in starts : now - ReadyJobs[j].LastUpdateTime > Interval }
    BY DEF Resched
  <1> DEFINE halts  == { j \in mpijobs \cap DOMAIN JobNumGPU : At(new, j) < JobNumGPU[j] }
             starts == { j \in DOMAIN JobNumGPU : JobNumGPU[j] < At(new, j) }
  <1>2. now' = now /\ documents' = documents
    BY DEF Resched
  <1>3. DOMAIN new = Queued /\ new \in [Queued -> Nat]
    BY SettingsAssumption DEF Allocations
  <1>4. \A j \in DOMAIN JobNumGPU : JobNumGPU[j] \in Nat /\ At(JobNumGPU, j) = JobNumGPU[j]
    BY DEF PriorityInv, TypeOK, IsMap, At
  <1>5. \A j \in Jobs : /\ NumProc[j] \in Nat \ {0} /\ At(new, j) \in Nat
                        /\ At(new, j) \in {0, NumProc[j]}
    BY <1>3, AllOrNothing, JobsAssumption DEF At
  <1>6. DOMAIN JobNumGPU \subseteq Jobs /\ DOMAIN ReadyJobs \subseteq Jobs
    BY JobsOfMaps DEF PriorityInv, TypeOK, IsMap
  <1>7. /\ starts \cap halts = {} /\ starts \subseteq Jobs
        /\ \A j \in starts : At(new, j) = NumProc[j]
        /\ \A j \in mpijobs \cap DOMAIN JobNumGPU : j \notin starts \cup halts => At(new, j) = JobNumGPU[j]
    BY <1>4, <1>5, <1>6
  <1>8. /\ JobNumGPU' = new
        /\ mpijobs' = (mpijobs \ halts) \cup starts
        /\ used' = [j \in Jobs |-> IF j \in starts THEN 0 ELSE used[j]]
        /\ late' = (late \ starts) \cup { j \in starts : now - ReadyJobs[j].LastUpdateTime > Interval }
        /\ DOMAIN ReadyJobs' = DOMAIN ReadyJobs
        /\ \A j \in DOMAIN ReadyJobs :
              ReadyJobs'[j] = IF j \in halts THEN Halted(ReadyJobs[j])
                              ELSE IF j \in starts THEN Started(ReadyJobs[j])
                              ELSE ReadyJobs[j]
    BY <1>1
  <1> HIDE DEF halts, starts
  <1>9. \A j \in DOMAIN ReadyJobs :
           /\ ReadyJobs[j] \in TrainingJob
           /\ j \in halts => /\ ReadyJobs'[j].Status = "Waiting"
                             /\ ReadyJobs'[j].LastGpuDuration = ReadyJobs[j].LastGpuDuration
           /\ j \in starts => /\ ReadyJobs'[j].Status = "Running" /\ ReadyJobs'[j].LastGpuDuration = 0
                              /\ ReadyJobs'[j].LastUpdateTime = ReadyJobs[j].LastUpdateTime
           /\ j \notin halts \cup starts => ReadyJobs'[j] = ReadyJobs[j]
    <2> TAKE j \in DOMAIN ReadyJobs
    <2>1. ReadyJobs[j] \in TrainingJob
      BY JobsOfMaps
    <2>2. CASE j \in halts
      BY <1>7, <1>8, <2>1, <2>2, HaltedJob
    <2>3. CASE j \in starts
      <3>1. ReadyJobs'[j] = Started(ReadyJobs[j])
        BY <1>7, <1>8, <2>3
      <3> QED BY <1>7, <2>1, <2>3, <3>1 DEF Started, TrainingJob
    <2>4. CASE j \notin halts \cup starts
      BY <1>8, <2>1, <2>4
    <2> QED BY <2>2, <2>3, <2>4
  <1>10. RunsOnItsGpus'
    <2> SUFFICES ASSUME NEW j \in DOMAIN ReadyJobs, ReadyJobs'[j].Status = "Running"
                 PROVE  j \in mpijobs' /\ At(new, j) = NumProc[j]
      BY <1>8 DEF RunsOnItsGpus, At
    <2>1. j \notin halts
      BY <1>9
    <2>2. CASE j \in starts
      BY <1>7, <1>8, <2>2
    <2>3. CASE j \notin starts
      <3>1. j \in mpijobs /\ At(JobNumGPU, j) = NumProc[j]
        BY <1>9, <2>1, <2>3 DEF GpuInv, RunsOnItsGpus
      <3>2. j \in DOMAIN JobNumGPU
        BY <1>5, <1>6, <3>1 DEF At
      <3> QED BY <1>4, <1>7, <1>8, <2>1, <2>3, <3>1, <3>2
    <2> QED BY <2>2, <2>3
  <1>11. DocumentsAreAccepted'
    BY <1>2, <1>8 DEF GpuInv, DocumentsAreAccepted
  <1>12. ASSUME NEW j \in DOMAIN ReadyJobs, j \notin late' PROVE Covered(j)'
    <2>1. /\ j \in Jobs /\ ReadyJobs[j] \in TrainingJob /\ used[j] \in Nat /\ NumProc[j] \in Nat
          /\ now \in Nat /\ ReadyJobs[j].LastUpdateTime <= now /\ Interval \in Nat
      BY JobsOfMaps, JobsAssumption DEF PriorityInv, Clock
    <2>2. /\ ReadyJobs[j].LastGpuDuration \in Nat /\ ReadyJobs[j].LastUpdateTime \in Nat
          /\ now - ReadyJobs[j].LastUpdateTime \in Nat
      BY <2>1, JobFields
    <2> DEFINE passed == now - ReadyJobs[j].LastUpdateTime
    <2>3. CASE j \in starts
      <3>1. passed <= Interval /\ passed \in Nat
        BY <1>8, <1>12, <2>1, <2>2, <2>3
      <3> HIDE DEF passed
      <3>2. /\ passed * NumProc[j] \in Nat /\ NumProc[j] * Interval \in Nat
            /\ passed * NumProc[j] <= NumProc[j] * Interval
        BY <2>1, <3>1, BoundedProduct
      <3>3. Uncharged(j)' = passed * NumProc[j] /\ ReadyJobs'[j].LastGpuDuration = 0
        BY <1>2, <1>9, <2>3 DEF Uncharged, passed
      <3>4. used'[j] = 0
        BY <1>8, <2>1, <2>3
      <3>5. \A a, b \in Nat : a <= b => 0 + a <= 0 + b
        OBVIOUS
      <3>6. 0 + passed * NumProc[j] <= 0 + NumProc[j] * Interval
        BY <3>2, <3>5
      <3> QED BY <3>3, <3>4, <3>6 DEF Covered
    <2>4. CASE j \notin starts
      <3>1. j \notin late /\ used'[j] = used[j]
        BY <1>8, <1>12, <2>1, <2>4
      <3>2. Covered(j)
        BY <3>1 DEF GpuInv
      <3>3. CASE j \in halts
        <4>1. Uncharged(j)' = 0 /\ ReadyJobs'[j].LastGpuDuration = ReadyJobs[j].LastGpuDuration
          BY <1>9, <3>3 DEF Uncharged
        <4>2. Uncharged(j) \in Nat /\ NumProc[j] * Interval \in Nat
          <5>1. passed * NumProc[j] \in Nat /\ NumProc[j] * Interval \in Nat
            BY <2>1, <2>2, Product
          <5> QED BY <5>1 DEF Uncharged
        <4>3. \A a, u, w, m \in Nat : a + u <= w + m => a + 0 <= w + m
          OBVIOUS
        <4>4. ReadyJobs[j].LastGpuDuration + 0 <= used[j] + NumProc[j] * Interval
          BY <2>1, <2>2, <3>2, <4>2, <4>3 DEF Covered
        <4> QED BY <3>1, <4>1, <4>4 DEF Covered
      <3>4. CASE j \notin halts
        BY <1>2, <1>9, <2>4, <3>1, <3>2, <3>4, SameCovered
      <3> QED BY <3>3, <3>4
    <2> QED BY <2>3, <2>4
  <1> QED BY <1>8, <1>10, <1>11, <1>12 DEF GpuInv

\* The use of GPUs, in every behaviour.
LEMMA GpuInvariant == Spec => [](PriorityInv /\ GpuInv)
  <1>1. PriorityInv /\ GpuInv /\ [Next]_vars => GpuInv'
    <2> SUFFICES ASSUME PriorityInv, GpuInv, [Next]_vars PROVE GpuInv'
      OBVIOUS
    <2>1. CASE Advance
      BY <2>1, AdvanceGpu
    <2>2. CASE \E j \in Jobs, priority \in UserPriorities : Submit(j, priority)
      BY <2>2, SubmitGpu
    <2>3. CASE \E j \in Jobs : CreateTrainingJob(j) \/ HandleJobCompleted(j)
      BY <2>3, CreateTrainingJobGpu, HandleJobCompletedGpu
    <2>4. CASE UpdateTimeMetrics
      BY <2>4, UpdateTimeMetricsGpu
    <2>5. CASE Resched
      BY <2>5, ReschedGpu
    <2>6. CASE Crash
      BY <2>6, CrashGpu
    <2>7. CASE Restart
      BY <2>7, RestartGpu
    <2>8. CASE UNCHANGED vars
      BY <2>8 DEF vars, GpuInv, RunsOnItsGpus, DocumentsAreAccepted, Covered, Uncharged, At
    <2> QED BY <2>1, <2>2, <2>3, <2>4, <2>5, <2>6, <2>7, <2>8 DEF Next
  <1> QED BY <1>1, InitGpu, PriorityInvariant, PTL DEF Spec

\* No step but a tick gives a job of the first queue a lower priority.
LEMMA PriorityStays ==
    ASSUME PriorityInv, GpuInv, [Next]_vars, ~UpdateTimeMetrics,
           NEW j \in DOMAIN ReadyJobs \cap DOMAIN ReadyJobs'
    PROVE  ReadyJobs'[j].Priority = ReadyJobs[j].Priority
  <1>1. CASE Advance \/ UNCHANGED vars
    BY <1>1 DEF Advance, vars
  <1>2. CASE \E i \in Jobs, priority \in UserPriorities : Submit(i, priority)
    BY <1>2 DEF Submit
  <1>3. ASSUME NEW i \in Jobs, CreateTrainingJob(i)
        PROVE  ReadyJobs'[j].Priority = ReadyJobs[j].Priority
    <2>1. i # j
      BY <1>3 DEF CreateTrainingJob, GpuInv, DocumentsAreAccepted
    <2> QED BY <1>3, <2>1 DEF CreateTrainingJob, Put
  <1>4. ASSUME NEW i \in Jobs, HandleJobCompleted(i)
        PROVE  ReadyJobs'[j].Priority = ReadyJobs[j].Priority
    <2>1. ReadyJobs' = Without(ReadyJobs, {i})
      BY <1>4 DEF HandleJobCompleted
    <2> QED BY <2>1 DEF Without, Restrict
  <1>5. CASE Resched
    <2>1. \/ ReadyJobs'[j] = Halted(ReadyJobs[j])
          \/ ReadyJobs'[j] = Started(ReadyJobs[j])
          \/ ReadyJobs'[j] = ReadyJobs[j]
      BY <1>5 DEF Resched
    <2> QED BY <2>1, JobsOfMaps, HaltedJob, StartedJob
  <1>6. CASE Crash
    <2>1. ReadyJobs' = EmptyMap
      BY <1>6 DEF Crash
    <2> QED BY <2>1 DEF EmptyMap
  <1>7. CASE Restart
    BY <1>7 DEF Restart, PriorityInv, Clock
  <1> QED BY <1>1, <1>2, <1>3, <1>4, <1>5, <1>6, <1>7 DEF Next

\* A job is demoted for the GPU time it has used, give or take an interval, unless its
\* document lay about.
THEOREM DemotionsAreEarned == Spec => DemotionIsEarned
  <1> DEFINE Earned == \A j \in DOMAIN ReadyJobs \cap DOMAIN ReadyJobs' :
                          ReadyJobs[j].Priority = 0 /\ ReadyJobs'[j].Priority = 1 =>
                              used[j] + NumProc[j] * Interval > Threshold \/ j \in late
  <1>1. PriorityInv /\ GpuInv /\ [Next]_vars => Earned
    <2> SUFFICES ASSUME PriorityInv, GpuInv, [Next]_vars,
                        NEW j \in DOMAIN ReadyJobs \cap DOMAIN ReadyJobs',
                        ReadyJobs[j].Priority = 0, ReadyJobs'[j].Priority = 1, j \notin late
                 PROVE  used[j] + NumProc[j] * Interval > Threshold
      OBVIOUS
    <2>1. UpdateTimeMetrics
      BY PriorityStays
    <2>2. /\ ReadyJobs'[j].LastGpuDuration = ReadyJobs[j].LastGpuDuration + Uncharged(j)
          /\ ReadyJobs'[j].LastGpuDuration > Threshold
      BY <2>1, Tick
    <2>3. ReadyJobs'[j].LastGpuDuration <= used[j] + NumProc[j] * Interval
      BY <2>2 DEF GpuInv, Covered
    <2>4. ReadyJobs'[j].LastGpuDuration \in Nat
      BY <2>1, UpdateTimeMetricsInv, JobFields DEF PriorityInv, TypeOK, IsMap
    <2>5. used[j] \in Nat /\ NumProc[j] * Interval \in Nat /\ Threshold \in Nat
      BY JobsOfMaps, JobsAssumption, SettingsAssumption, Product
    <2>6. \A a, b, t, u \in Nat : a > t /\ a <= b + u => b + u > t
      OBVIOUS
    <2> QED BY <2>2, <2>3, <2>4, <2>5, <2>6
  <1>2. Spec => [][Earned]_vars
    BY <1>1, GpuInvariant, PTL DEF Spec
  <1> QED BY <1>2 DEF DemotionIsEarned
=============================================================================
