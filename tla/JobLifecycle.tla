---------------------------- MODULE JobLifecycle ----------------------------
(***************************************************************************)
(* What the agent job queue promises to everything that reads agent_job,   *)
(* without saying who does it: a job is executed at most once (there is no *)
(* way back from "running"), a job that ended has ended for good, an       *)
(* accepted cancellation is never answered by "completed", and a task has  *)
(* one active job at a time.  AgentJobQueue and Conductor implement it.    *)
(***************************************************************************)
EXTENDS JobTable

CONSTANTS Jobs,     \* ids of agent_job rows
          Tasks,    \* ids of tasks
          NoTask    \* the task of a job that has not been inserted

VARIABLES status,   \* status[j]: the status column of job j
          taskOf    \* taskOf[j]: its task column

vars == <<status, taskOf>>

Active(t) == {j \in Jobs : status[j] \in ActiveStatuses /\ taskOf[j] = t}

Init == /\ status = [j \in Jobs |-> "absent"]
        /\ taskOf = [j \in Jobs |-> NoTask]

Insert(j, t) ==
    /\ status[j] = "absent"
    /\ Active(t) = {}
    /\ status' = [status EXCEPT ![j] = "pending"]
    /\ taskOf' = [taskOf EXCEPT ![j] = t]

Move(j, from, to) ==
    /\ status[j] \in from
    /\ status' = [status EXCEPT ![j] = to]
    /\ UNCHANGED taskOf

Claim(j)  == Move(j, {"pending"}, "claimed")
Return(j) == Move(j, {"claimed"}, "pending")
Start(j)  == Move(j, {"claimed"}, "running")

Complete(j) == Move(j, {"running"}, "completed")
Stop(j, outcome) == Move(j, {"running", "canceling"}, outcome)

\* One statement may cancel several jobs (the release of many tasks).
Cancel(S) ==
    /\ status' = [j \in Jobs |-> IF j \in S THEN CancelStatus(status[j])
                                            ELSE status[j]]
    /\ UNCHANGED taskOf

Interrupt ==
    /\ status' = [j \in Jobs |-> IF status[j] \in InFlight
                                 THEN "interrupted" ELSE status[j]]
    /\ UNCHANGED taskOf

\* A task takes its jobs with it, whatever their status.
Delete(t) ==
    /\ status' = [j \in Jobs |-> IF taskOf[j] = t THEN "deleted" ELSE status[j]]
    /\ UNCHANGED taskOf

Next ==
    \/ \E S \in SUBSET Jobs : Cancel(S)
    \/ \E j \in Jobs, t \in Tasks : Insert(j, t)
    \/ \E j \in Jobs : Claim(j) \/ Return(j) \/ Start(j) \/ Complete(j)
    \/ \E j \in Jobs, o \in {"failed", "canceled", "interrupted"} : Stop(j, o)
    \/ Interrupt
    \/ \E t \in Tasks : Delete(t)

Spec == Init /\ [][Next]_vars
=============================================================================
