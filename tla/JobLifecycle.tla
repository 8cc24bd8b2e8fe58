---------------------------- MODULE JobLifecycle ----------------------------
(***************************************************************************)
(* What Voda promises about a training job, whatever crashes, is lost, is  *)
(* refused or comes late: only accepted jobs are run, and none after its   *)
(* end or its deletion is known; the end that is reported is one that an   *)
(* execution had; it is final; a deleted job does not come back.           *)
(*                                                                         *)
(* In a step any number of jobs may move, as all do when a scheduler dies. *)
(***************************************************************************)
CONSTANT Jobs

VARIABLES
    phase,     \* how far the job has come
    running,   \* the jobs that are being executed
    ended      \* how executions of a job have ended, as far as that is known

vars == <<phase, running, ended>>

Outcomes == {"Completed", "Failed"}
Phases   == {"new", "submitted", "accepted", "deleting", "deleted"} \cup Outcomes

Init ==
    /\ phase = [j \in Jobs |-> "new"]
    /\ running = {}
    /\ ended = [j \in Jobs |-> {}]

-----------------------------------------------------------------------------
Submit(j) == phase[j] = "new" /\ phase'[j] = "submitted"

Accept(j) == phase[j] = "submitted" /\ phase'[j] = "accepted"

\* An acceptance that could not be saved does not outlive the scheduler.
Forget(j) == phase[j] = "accepted" /\ phase'[j] = "submitted"

Report(j) == phase[j] = "accepted" /\ phase'[j] \in ended[j]

\* The user deletes the job, or its creation is rolled back; a scheduler that
\* holds the job is told later.
Delete(j) ==
    \/ phase[j] = "accepted" /\ phase'[j] = "deleting"
    \/ phase[j] \in {"submitted", "accepted"} \cup Outcomes /\ phase'[j] = "deleted"

Withdraw(j) == phase[j] = "deleting" /\ phase'[j] = "deleted"

Move(j) == \/ Submit(j) \/ Accept(j) \/ Forget(j) \/ Report(j) \/ Delete(j) \/ Withdraw(j)
           \/ phase'[j] = phase[j]

-----------------------------------------------------------------------------
Start(j) ==
    /\ phase[j] \in {"accepted", "deleting"}
    /\ j \in running' \ running
    /\ ended'[j] \subseteq ended[j]

\* The execution is stopped, or ends by itself.
End(j) ==
    /\ j \in running \ running'
    /\ \E outcome \in Outcomes : ended'[j] \subseteq ended[j] \cup {outcome}

GoOn(j) ==
    /\ j \in running <=> j \in running'
    /\ ended'[j] \subseteq ended[j]

Execute(j) == Start(j) \/ End(j) \/ GoOn(j)

-----------------------------------------------------------------------------
Next ==
    /\ phase' \in [Jobs -> Phases]
    /\ running' \subseteq Jobs
    /\ ended' \in [Jobs -> SUBSET Outcomes]
    /\ \A j \in Jobs : Move(j) /\ Execute(j)

Spec == Init /\ [][Next]_vars
=============================================================================
