------------------------ MODULE SchedulerRefinement -------------------------
(***************************************************************************)
(* Scheduler implements JobLifecycle: the phase of a job is what its       *)
(* document in MongoDB and the memory of the scheduler say of it, its      *)
(* executions are its MPIJobs.                                             *)
(***************************************************************************)
EXTENDS Scheduler

\* The meaning of the phase of a finished MPIJob.
Outcome(phase) == IF phase = "Succeeded" THEN "Completed" ELSE "Failed"

PhaseOf(j) ==
    IF j \notin submitted THEN "new"
    ELSE IF j \in DOMAIN metadata
         THEN IF metadata[j] \in DoneStatus THEN metadata[j]
              ELSE IF metadata[j] \in ReadyStatus \/ j \in DOMAIN ReadyJobs THEN "accepted"
              ELSE "submitted"
         ELSE IF j \in DOMAIN ReadyJobs THEN "deleting" ELSE "deleted"

\* The ends of executions that the cluster, or a notice under way, still knows of.
KnownEnds(j) == { phase \in FinishPhase :
                     \/ j \in DOMAIN mpijobs /\ mpijobs[j].phase = phase
                     \/ phase \in Range(updates[j]) }

EndsOf(j) == { Outcome(phase) : phase \in KnownEnds(j) }

Lifecycle == INSTANCE JobLifecycle WITH
    phase   <- [j \in Jobs |-> PhaseOf(j)],
    running <- ActiveJobs,
    ended   <- [j \in Jobs |-> EndsOf(j)]

\* Every behaviour of the scheduler, with any crashes, lost messages and failing
\* calls, is one that JobLifecycle allows.
ImplementsLifecycle == Lifecycle!Spec
=============================================================================
