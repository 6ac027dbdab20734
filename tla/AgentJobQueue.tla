--------------------------- MODULE AgentJobQueue ---------------------------
(***************************************************************************)
(* The agent job queue and the single worker that drains it: the rows of   *)
(* agent_job and agent_run, the HTTP and MCP calls that insert, cancel or  *)
(* delete jobs, the web process that claims and executes one job at a      *)
(* time, its cancellation watcher, its graceful stop, its crash and its    *)
(* restart.  Every action that touches the tables is one SQLite statement  *)
(* or one transaction; between two of them any other caller may run.       *)
(*                                                                         *)
(* Jobs here are the explicit runs of a user (EnqueueAI); the jobs of      *)
(* Conductor, which start through BeginJob, are in module Conductor.       *)
(***************************************************************************)
EXTENDS JobTable, Integers, FiniteSets

CONSTANTS MaxJobs,    \* bound: rows ever inserted
          Tasks,      \* ids of tasks
          NoTask,     \* not a task
          MaxDowns,   \* bound: stops and crashes of the web process
          MaxFaults   \* bound: statements that return an error (SQLITE_BUSY...)

Jobs == 1 .. MaxJobs
NoJob == 0

ASSUME BoundsAssumption ==
    /\ MaxJobs \in Nat
    /\ MaxDowns \in Nat
    /\ MaxFaults \in Nat

ASSUME NoTaskAssumption == NoTask \notin Tasks

VARIABLES
    \* the database
    status,     \* status[j]: agent_job.status
    taskOf,     \* taskOf[j]: agent_job.task
    run,        \* run[j]: the agent_run row of j
    deleted,    \* tasks that were deleted
    \* the worker of the web process; lost in a crash
    pc,         \* where RunOnce and runExplicit are
    cur,        \* the job RunOnce claimed
    outcome,    \* what the harness (or the setup before it) returned
    verdict,    \* the status finish() chose from what it read
    canceled,   \* the run's context was canceled by the watcher
    stopping,   \* Stop() canceled the parent context
    \* history and bounds
    starts,     \* starts[j]: how often the harness was started for j
    acked,      \* jobs whose cancel request was answered "true"
    downs,
    faults

db     == <<status, taskOf, run, deleted>>
worker == <<pc, cur, outcome, verdict, canceled, stopping>>
vars   == <<db, worker, starts, acked, downs, faults>>

-----------------------------------------------------------------------------

\* "down" is a web process that does not run; the others are points of
\* RunOnce/runExplicit between two statements.
Locations == {"down", "idle", "polled", "claimed", "begin", "failing",
              "launch", "harness", "finish", "save"}

\* Where the worker has a claimed job in its hands.
Holding == {"claimed", "begin", "failing", "launch", "harness", "finish",
            "save"}

RunStates == {"none", "open", "final"}

\* Every row of the queue and every local of the worker has its type.
TypeOK ==
    /\ status \in [Jobs -> Statuses]
    /\ taskOf \in [Jobs -> Tasks \union {NoTask}]
    /\ run \in [Jobs -> RunStates]
    /\ deleted \subseteq Tasks
    /\ pc \in Locations
    /\ cur \in Jobs \union {NoJob}
    /\ outcome \in {"none", "completed", "failed"}
    /\ verdict \in {"none", "completed", "failed", "canceled", "interrupted"}
    /\ canceled \in BOOLEAN
    /\ stopping \in BOOLEAN
    /\ starts \in [Jobs -> Nat]
    /\ acked \subseteq Jobs
    /\ downs \in 0 .. MaxDowns
    /\ faults \in 0 .. MaxFaults

ActiveJobs(t) == {j \in Jobs : status[j] \in ActiveStatuses /\ taskOf[j] = t}

Init ==
    /\ status = [j \in Jobs |-> "absent"]
    /\ taskOf = [j \in Jobs |-> NoTask]
    /\ run = [j \in Jobs |-> "none"]
    /\ deleted = {}
    /\ pc = "down"
    /\ cur = NoJob
    /\ outcome = "none"
    /\ verdict = "none"
    /\ canceled = FALSE
    /\ stopping = FALSE
    /\ starts = [j \in Jobs |-> 0]
    /\ acked = {}
    /\ downs = 0
    /\ faults = 0

-----------------------------------------------------------------------------
(* Callers of the web and MCP processes                                    *)

\* variant: without the index
EnqueueAIUnindexed(t) ==
    /\ t \notin deleted
    /\ \E j \in Jobs :
        /\ status[j] = "absent"
        /\ \A i \in Jobs : i < j => status[i] # "absent"
        /\ status' = [status EXCEPT ![j] = "pending"]
        /\ taskOf' = [taskOf EXCEPT ![j] = t]
    /\ UNCHANGED <<run, deleted, worker, starts, acked, downs, faults>>

\* The INSERT fails on the partial unique index while the task has an active
\* job; ids are handed out in order.
EnqueueAI(t) ==
    /\ t \notin deleted
    /\ ActiveJobs(t) = {}
    /\ \E j \in Jobs :
        /\ status[j] = "absent"
        /\ \A i \in Jobs : i < j => status[i] # "absent"
        /\ status' = [status EXCEPT ![j] = "pending"]
        /\ taskOf' = [taskOf EXCEPT ![j] = t]
    /\ UNCHANGED <<run, deleted, worker, starts, acked, downs, faults>>

\* The user's Stop button.
CancelAI(j) ==
    /\ status[j] \in Cancelable
    /\ status' = [status EXCEPT ![j] = CancelStatus(status[j])]
    /\ acked' = acked \union {j}
    /\ UNCHANGED <<taskOf, run, deleted, worker, starts, downs, faults>>

\* Deleting a task deletes its agent_job and agent_run rows.
DeleteTask(t) ==
    /\ t \notin deleted
    /\ deleted' = deleted \union {t}
    /\ status' = [j \in Jobs |-> IF taskOf[j] = t THEN "deleted" ELSE status[j]]
    /\ run' = [j \in Jobs |-> IF taskOf[j] = t THEN "none" ELSE run[j]]
    /\ UNCHANGED <<taskOf, worker, starts, acked, downs, faults>>

-----------------------------------------------------------------------------
(* RunOnce: claim the oldest pending job and mark it running               *)

Release == /\ pc' = "idle"
           /\ cur' = NoJob
           /\ outcome' = "none"
           /\ verdict' = "none"
           /\ canceled' = FALSE

Rest == <<taskOf, deleted, stopping, downs>>

\* loop and the check at the head of RunOnce: nothing new once stopping.
Poll ==
    /\ pc = "idle" /\ ~stopping
    /\ pc' = "polled"
    /\ UNCHANGED <<db, cur, outcome, verdict, canceled, stopping, starts, acked,
                   downs, faults>>

Pending == {j \in Jobs : status[j] = "pending"}

ClaimNext ==
    /\ pc = "polled"
    /\ \E j \in Pending :
        /\ \A i \in Pending : j <= i
        /\ status' = [status EXCEPT ![j] = "claimed"]
        /\ cur' = j
    /\ pc' = "claimed"
    /\ UNCHANGED <<run, outcome, verdict, canceled, starts, acked, faults, Rest>>

NothingToClaim ==
    /\ pc = "polled" /\ Pending = {}
    /\ Release
    /\ UNCHANGED <<status, run, starts, acked, faults, Rest>>

\* variant: the update is retried until it finds the row
MarkRunningRetried ==
    /\ pc = "claimed"
    /\ IF status[cur] = "claimed"
       THEN /\ status' = [status EXCEPT ![cur] = "running"]
            /\ pc' = "begin"
       ELSE UNCHANGED <<status, pc>>
    /\ UNCHANGED <<run, cur, outcome, verdict, canceled, starts, acked, faults,
                   Rest>>

\* No row is updated if the job was canceled or deleted since the claim.
MarkRunning ==
    /\ pc = "claimed"
    /\ \/ /\ status[cur] = "claimed"
          /\ status' = [status EXCEPT ![cur] = "running"]
          /\ pc' = "begin"
          /\ UNCHANGED <<cur, outcome, verdict, canceled>>
       \/ /\ status[cur] # "claimed"
          /\ Release
          /\ UNCHANGED status
    /\ UNCHANGED <<run, starts, acked, faults, Rest>>

\* agent_run gets its row before anything is executed.
BeginAttempt ==
    /\ pc = "begin"
    /\ run' = IF status[cur] \in {"running", "canceling"} /\ run[cur] = "none"
              THEN [run EXCEPT ![cur] = "open"] ELSE run
    /\ pc' = "launch"
    /\ UNCHANGED <<status, cur, outcome, verdict, canceled, starts, acked,
                   faults, Rest>>

BeginAttemptErr ==
    /\ pc = "begin" /\ faults < MaxFaults
    /\ faults' = faults + 1
    /\ pc' = "failing"
    /\ UNCHANGED <<status, run, cur, outcome, verdict, canceled, starts, acked,
                   Rest>>

\* Fail has no condition on the status; a deleted row is not there to update.
Fail ==
    /\ pc = "failing"
    /\ status' = IF status[cur] = "deleted" THEN status
                 ELSE [status EXCEPT ![cur] = "failed"]
    /\ Release
    /\ UNCHANGED <<run, starts, acked, faults, Rest>>

-----------------------------------------------------------------------------
(* runExplicit: the harness, its watcher, and finish()                     *)

\* Workspace, reservation or checkpoint failed: finish without the harness.
SetupFails ==
    /\ pc = "launch"
    /\ outcome' = "failed"
    /\ pc' = "finish"
    /\ UNCHANGED <<status, run, cur, verdict, canceled, starts, acked, faults,
                   Rest>>

StartHarness ==
    /\ pc = "launch"
    /\ starts' = [starts EXCEPT ![cur] = @ + 1]
    /\ pc' = "harness"
    /\ UNCHANGED <<status, run, cur, outcome, verdict, canceled, acked, faults,
                   Rest>>

\* Every 250 ms the watcher reads the status; a missing row ends it as well.
WatchCancel ==
    /\ pc \in {"launch", "harness"} /\ ~canceled
    /\ status[cur] \in {"canceling", "deleted"}
    /\ canceled' = TRUE
    /\ UNCHANGED <<db, pc, cur, outcome, verdict, stopping, starts, acked, downs,
                   faults>>

\* The harness may succeed just as its context is canceled.
HarnessReturns(o) ==
    /\ pc = "harness"
    /\ outcome' = o
    /\ pc' = "finish"
    /\ UNCHANGED <<status, run, cur, verdict, canceled, starts, acked, faults,
                   Rest>>

\* finish() first reads the job: canceling, then the stop of the server, then
\* the harness's own result decide what it will ask FinishAI to store.
FinishRead ==
    /\ pc = "finish" /\ status[cur] # "deleted"
    /\ verdict' = CASE status[cur] = "canceling" -> "canceled"
                    [] status[cur] # "canceling" /\ stopping -> "interrupted"
                    [] OTHER -> outcome
    /\ pc' = "save"
    /\ UNCHANGED <<status, run, cur, outcome, canceled, starts, acked, faults,
                   Rest>>

\* variant: only a running job is finished
FinishAIIgnoresCanceling ==
    /\ pc = "save"
    /\ IF status[cur] = "running"
       THEN /\ status' = [status EXCEPT ![cur] = verdict]
            /\ run' = [run EXCEPT ![cur] = "final"]
       ELSE UNCHANGED <<status, run>>
    /\ Release
    /\ UNCHANGED <<starts, acked, faults, Rest>>

\* FinishAI: one transaction for the job and its run, or ErrJobStatusConflict.
FinishAI ==
    /\ pc = "save"
    /\ IF status[cur] \in InFlight
       THEN /\ status' = [status EXCEPT ![cur] = FinishStatus(@, verdict)]
            /\ run' = IF run[cur] = "none" THEN run
                      ELSE [run EXCEPT ![cur] = "final"]
       ELSE UNCHANGED <<status, run>>
    /\ Release
    /\ UNCHANGED <<starts, acked, faults, Rest>>

\* RunOnce returns an error and forgets the job: MarkRunning, the read of
\* finish() or FinishAI failed, or finish() found no row.
Abandon ==
    /\ \/ /\ pc \in {"claimed", "finish", "save"} /\ faults < MaxFaults
          /\ faults' = faults + 1
       \/ /\ pc = "finish" /\ status[cur] = "deleted"
          /\ UNCHANGED faults
    /\ Release
    /\ UNCHANGED <<status, run, starts, acked, Rest>>

-----------------------------------------------------------------------------
(* Stop, crash and restart of the web process                              *)

Shutdown ==
    /\ pc # "down" /\ ~stopping /\ downs < MaxDowns
    /\ stopping' = TRUE
    /\ downs' = downs + 1
    /\ UNCHANGED <<db, pc, cur, outcome, verdict, canceled, starts, acked, faults>>

\* Stop() returns when the loop has; the database lock is released.
Exit ==
    /\ pc = "idle" /\ stopping
    /\ pc' = "down"
    /\ stopping' = FALSE
    /\ UNCHANGED <<db, cur, outcome, verdict, canceled, starts, acked, downs,
                   faults>>

Crash ==
    /\ pc # "down" /\ downs < MaxDowns
    /\ pc' = "down"
    /\ cur' = NoJob
    /\ outcome' = "none"
    /\ verdict' = "none"
    /\ canceled' = FALSE
    /\ stopping' = FALSE
    /\ downs' = downs + 1
    /\ UNCHANGED <<db, starts, acked, faults>>

\* variant: what was in flight is queued again
StartRequeues ==
    /\ pc = "down"
    /\ status' = [j \in Jobs |-> IF status[j] \in InFlight THEN "pending"
                                 ELSE status[j]]
    /\ pc' = "idle"
    /\ UNCHANGED <<taskOf, run, deleted, cur, outcome, verdict, canceled,
                   stopping, starts, acked, downs, faults>>

\* Start holds the database lock: what is in flight belongs to nobody.
Start ==
    /\ pc = "down"
    /\ status' = [j \in Jobs |-> IF status[j] \in InFlight THEN "interrupted"
                                 ELSE status[j]]
    /\ pc' = "idle"
    /\ UNCHANGED <<taskOf, run, deleted, cur, outcome, verdict, canceled,
                   stopping, starts, acked, downs, faults>>

-----------------------------------------------------------------------------

\* A step of RunOnce or runExplicit.
Step ==
    \/ Poll \/ ClaimNext \/ NothingToClaim \/ MarkRunning
    \/ BeginAttempt \/ Fail
    \/ SetupFails \/ StartHarness
    \/ \E o \in {"completed", "failed"} : HarnessReturns(o)
    \/ FinishRead \/ FinishAI

Next ==
    \/ \E t \in Tasks : EnqueueAI(t) \/ DeleteTask(t)
    \/ \E j \in Jobs : CancelAI(j)
    \/ Step \/ BeginAttemptErr \/ WatchCancel \/ Abandon
    \/ Shutdown \/ Exit \/ Crash \/ Start

Spec == Init /\ [][Next]_vars

\* The ticker keeps the loop going, a run ends within its timeoutSeconds, a
\* stop is carried out and the web process is started again.
Fairness == WF_vars(Step \/ Abandon) /\ WF_vars(Exit) /\ WF_vars(Start)

FairSpec == Spec /\ Fairness

-----------------------------------------------------------------------------
(* Properties                                                              *)

\* Two active jobs of one task never coexist, whichever of its callers
\* inserted them (the index one_active_ai_job_per_task, and every transition
\* that would bring a second job back to an active status).
OneActiveJobPerTask ==
    \A i, j \in Jobs :
        /\ status[i] \in ActiveStatuses /\ status[j] \in ActiveStatuses
        /\ taskOf[i] = taskOf[j]
        => i = j

\* A restart never replays an uncertain execution: across claims, crashes and
\* restarts the harness is started at most once for a job.
NeverReplayed == \A j \in Jobs : starts[j] <= 1

\* A cancel request that was answered "true" is final: that job is never
\* again waiting, started anew, or reported as completed.
AcknowledgedCancelHolds ==
    \A j \in acked : status[j] \notin {"pending", "claimed", "running", "completed"}

\* A completed job has its agent_run with the final output, which is what
\* Conductor's reconciliation and the chat transcript read.
CompletedHasResult == \A j \in Jobs : status[j] = "completed" => run[j] = "final"

\* The only claimed, running or canceling job is the one the worker holds,
\* unless a statement failed or the process is down: nothing else locks a task.
InFlightIsHeld ==
    faults = 0 /\ pc # "down" =>
        \A j \in Jobs : status[j] \in InFlight => pc \in Holding /\ cur = j

\* Whatever is claimed, running or being canceled ends, across crashes, if no
\* statement fails.
InFlightEnds ==
    \A j \in Jobs : status[j] \in InFlight ~> status[j] \notin InFlight

\* The queue is served in order: a pending job does not wait forever.
PendingIsServed ==
    \A j \in Jobs : status[j] = "pending" ~> status[j] # "pending"

JL == INSTANCE JobLifecycle
\* The queue implements the lifecycle every other component relies on.
ImplementsLifecycle == JL!Spec
=============================================================================
