----------------------------- MODULE Conductor -----------------------------
(***************************************************************************)
(* Conductor: tasks handed over by the user, selected by a dispatcher      *)
(* session, executed as jobs of the agent queue, and handed back for human *)
(* review.  The module composes the tables conductor_task,                 *)
(* conductor_project, conductor_dispatch, agent_job and task with          *)
(*   - the web process's single worker (RunOnce: reconcile, claim, start,  *)
(*     execute, finish, or else run one selection turn),                   *)
(*   - the MCP process that carries out the dispatcher's tool calls,       *)
(*   - the users, who send, release, recheck, move, edit, pause, cancel,   *)
(*     start manual runs and resume a task's session at any moment.        *)
(*                                                                         *)
(* One action is one SQLite statement or one transaction, or the reads     *)
(* that precede one; whatever was read is kept in the reader's snapshot    *)
(* and may be stale when it is used.                                       *)
(***************************************************************************)
EXTENDS JobTable, Integers, FiniteSets

CONSTANTS Tasks, NoTask,
          Projects,
          Calls,          \* concurrent requests of MCP tools and browser tabs
          Users,          \* user operations allowed, a subset of UserOps
          MaxJobs,        \* bound: agent_job rows
          MaxHandoffs,    \* bound: send and recheck operations
          MaxEdits,       \* bound: edits of task texts by users
          MaxDowns        \* bound: crashes of the web process

UserOps == {"release", "recheck", "move", "moveProject", "edit", "pause",
            "stages", "block", "cancel", "manual", "resume"}

Jobs == 1 .. MaxJobs
NoJob == 0
NoKey == 0       \* selectionKey's default ''
Keys == 0 .. MaxHandoffs
Contents == Nat \* a task's text, as the number of edits and handoffs it has seen

ASSUME BoundsAssumption ==
    /\ {MaxJobs, MaxHandoffs, MaxEdits, MaxDowns} \subseteq Nat
    /\ NoTask \notin Tasks
    /\ IsFiniteSet(Projects)
    /\ Users \subseteq UserOps

\* The stage Conductor works in and the one it hands over to; the workflow's
\* other stages are an open one and a done one.
WorkingStage == "doing"
CompletionStage == "review"
Stages == {"todo", "doing", "review", "done"}

\* States in which the row reserves its task (taskownership.Current).
Reserving == {"waiting", "queued", "working"}
Parked == {"needs_context", "failed", "held"}
RowStates == {"none", "completed"} \union Reserving \union Parked

VARIABLES
    stage, project, content, blocked,   \* task: by task
    enabled, valid,                     \* conductor_project: by project
    row,                                \* conductor_task: by task
    status, taskOf,                     \* agent_job: by job
    request,                            \* agent_job.requestJson: by job
    output,                             \* agent_run.output: by job
    dispatches,                         \* running conductor_dispatch rows
    worker,                             \* locals of RunOnce, lost in a crash
    call,                               \* locals of each concurrent request
    nextKey, nextDispatch, edits, downs,
    paid,                               \* history: the turns handoffs pay for
    rejected                            \* history: jobs BeginJob refused

taskVars   == <<stage, project, content, blocked>>
settings   == <<enabled, valid>>
queue      == <<status, taskOf, request, output>>
counters   == <<nextKey, nextDispatch, edits, downs, paid>>
vars == <<taskVars, settings, row, queue, dispatches, worker, call, counters,
          rejected>>

-----------------------------------------------------------------------------
(* Types                                                                   *)

NoRow == [state |-> "none", project |-> "none", job |-> NoJob,
          expected |-> "none", key |-> NoKey]

Rows == [state : RowStates, project : Projects \union {"none"},
         job : Jobs \union {NoJob}, expected : Stages \union {"none"}, key : Keys]

\* A row as read by Tasks or Task, with its primary key.
Snapshots == [task : Tasks, row : Rows]

\* What was read of a task.
TaskReads == [stage : Stages, project : Projects, content : Contents]
ReadTask(t) == [stage |-> stage[t], project |-> project[t], content |-> content[t]]

\* kind: "manual" is EnqueueAI's, the others carry a Conductor contract;
\* content is the text frozen in it, key the handoff it was created for.
NoRequest == [kind |-> "manual", content |-> 0, key |-> NoKey]
Requests == [kind : {"manual", "dispatched", "independent"}, content : Contents,
             key : Keys]

Outputs == {"none", "done", "blocker", "malformed"}

Idle == [pc |-> "idle", after |-> "idle", rows |-> {}, current |-> {},
         seen |-> {}, job |-> NoJob, to |-> "none", outcome |-> "none",
         dispatch |-> 0]
Down == [Idle EXCEPT !.pc = "down"]

Locations == {"down", "idle", "tick", "rows", "decide", "advance", "cancel",
              "set", "claim", "begin", "reject", "rejected", "harness",
              "finish", "save", "again", "dispatch", "offer", "select", "hold"}

NoCall == [kind |-> "none"]
CallReads == [kind : {"start", "resume"}, snap : Snapshots, seen : TaskReads,
              dispatch : Nat, latest : Jobs \union {NoJob}]

\* Every row of the tables and every local of worker and requests has its type;
\* a dispatch's id is one that BeginDispatch handed out.
TypeOK ==
    /\ stage \in [Tasks -> Stages]
    /\ project \in [Tasks -> Projects]
    /\ content \in [Tasks -> Contents]
    /\ blocked \in [Tasks -> BOOLEAN]
    /\ enabled \in [Projects -> BOOLEAN]
    /\ valid \in [Projects -> BOOLEAN]
    /\ row \in [Tasks -> Rows]
    /\ status \in [Jobs -> Statuses]
    /\ taskOf \in [Jobs -> Tasks \union {NoTask}]
    /\ request \in [Jobs -> Requests]
    /\ output \in [Jobs -> Outputs]
    /\ dispatches \subseteq [id : 1 .. nextDispatch, project : Projects]
    /\ worker.pc \in Locations
    /\ worker.rows \union worker.current \subseteq Snapshots
    /\ worker.seen \subseteq TaskReads
    /\ worker.job \in Jobs \union {NoJob}
    /\ \A c \in Calls : call[c] \in CallReads \union {NoCall}
    /\ nextKey \in Keys
    /\ nextDispatch \in Nat /\ paid \in Nat
    /\ edits \in 0 .. MaxEdits
    /\ downs \in 0 .. MaxDowns
    /\ rejected \subseteq Jobs

Init ==
    /\ stage \in [Tasks -> {"todo", "doing"}]
    /\ project \in [Tasks -> Projects]
    /\ content = [t \in Tasks |-> 0]
    /\ blocked \in [Tasks -> BOOLEAN]
    /\ enabled \in [Projects -> BOOLEAN]
    /\ valid = [p \in Projects |-> TRUE]
    /\ row = [t \in Tasks |-> NoRow]
    /\ status = [j \in Jobs |-> "absent"]
    /\ taskOf = [j \in Jobs |-> NoTask]
    /\ request = [j \in Jobs |-> NoRequest]
    /\ output = [j \in Jobs |-> "none"]
    /\ dispatches = {}
    /\ worker = Idle
    /\ call = [c \in Calls |-> NoCall]
    /\ nextKey = 0 /\ nextDispatch = 0 /\ edits = 0 /\ downs = 0 /\ paid = 0
    /\ rejected = {}

-----------------------------------------------------------------------------
(* The statements the actions are built from                               *)

ActiveJobs(t) == {j \in Jobs : status[j] \in ActiveStatuses /\ taskOf[j] = t}

\* variant: the unique index alone
UnownedByJobs(t) == ActiveJobs(t) = {}

\* taskownership.Check for a caller that holds no job.
Unowned(t) == row[t].state \notin Reserving /\ ActiveJobs(t) = {}

\* The next AUTOINCREMENT id, if the bound leaves one.
NextJob == {j \in Jobs : status[j] = "absent"
                         /\ \A i \in Jobs : i < j => status[i] # "absent"}

Insert(j, t, req) ==
    /\ status' = [status EXCEPT ![j] = "pending"]
    /\ taskOf' = [taskOf EXCEPT ![j] = t]
    /\ request' = [request EXCEPT ![j] = req]
    /\ UNCHANGED output

\* CancelAI on at most one job.
CancelAI(j) ==
    /\ status' = IF j = NoJob THEN status
                 ELSE [status EXCEPT ![j] = CancelStatus(@)]
    /\ UNCHANGED <<taskOf, request, output>>

\* variant: without the selectionKey
SetStateByState(snap, to) ==
    row' = IF row[snap.task].state = snap.row.state
           THEN [row EXCEPT ![snap.task].state = to] ELSE row

\* SetState writes only the row it was computed from.
SetState(snap, to) ==
    LET now == row[snap.task] IN
    row' = IF /\ now.state = snap.row.state
              /\ now.job = snap.row.job
              /\ now.key = snap.row.key
           THEN [row EXCEPT ![snap.task].state = to]
           ELSE row

\* CheckDispatch: the selection turn is still running and not paused.
CheckDispatch(d, p) == [id |-> d, project |-> p] \in dispatches /\ enabled[p]

\* variant: without the comparison of the row
AdvanceErrorUnowned(snap, seen, starting, independent) ==
    LET t == snap.task IN
    IF ~valid[snap.row.project] THEN "config"
    ELSE IF starting /\ blocked[t] THEN "blocked"
    ELSE IF starting /\ ~enabled[snap.row.project] /\ ~independent THEN "paused"
    ELSE IF ReadTask(t) # seen \/ seen.stage # snap.row.expected THEN "conflict"
    ELSE IF starting /\ ActiveJobs(t) # {} THEN "active"
    ELSE "none"

\* The checks of Advance, in order; starting is whether it inserts a job.
AdvanceError(snap, seen, starting, independent) ==
    LET t == snap.task
        r == snap.row
        moved == \/ row[t].project # r.project \/ row[t].state # r.state
                 \/ row[t].job # r.job \/ row[t].key # r.key
                 \/ seen.project # r.project \/ seen.stage # r.expected
                 \/ ReadTask(t) # seen
    IN IF ~valid[r.project] THEN "config"
       ELSE IF starting /\ blocked[t] THEN "blocked"
       ELSE IF starting /\ ~enabled[r.project] /\ ~independent THEN "paused"
       ELSE IF moved THEN "conflict"
       ELSE IF starting /\ ActiveJobs(t) # {} THEN "active"
       ELSE "none"

\* Advance with a request: stage, queue entry and cursor in one transaction.
AdvanceToQueued(snap, j, req) ==
    LET t == snap.task IN
    /\ stage' = [stage EXCEPT ![t] = WorkingStage]
    /\ Insert(j, t, req)
    /\ row' = [row EXCEPT ![t].state = "queued", ![t].job = j,
                          ![t].expected = WorkingStage]
    /\ UNCHANGED <<project, content, blocked>>

\* variant: state and stage swapped
AdvanceToResultSwapped(snap, to, s) ==
    /\ stage' = [stage EXCEPT ![snap.task] = to]
    /\ content' = [content EXCEPT ![snap.task] = @ + 1]
    /\ row' = [row EXCEPT ![snap.task].state = s, ![snap.task].expected = to]
    /\ UNCHANGED <<project, blocked, queue>>

\* Advance without one: the handoff is appended to the body.
AdvanceToResult(snap, to, s) ==
    LET t == snap.task IN
    /\ stage' = [stage EXCEPT ![t] = s]
    /\ content' = [content EXCEPT ![t] = @ + 1]
    /\ row' = [row EXCEPT ![t].state = to, ![t].expected = s]
    /\ UNCHANGED <<project, blocked, queue>>

\* OwnsJob, asked by the watcher of a run.
OwnsJob(j) ==
    LET t == taskOf[j] IN
    /\ row[t].job = j /\ row[t].state = "working"
    /\ stage[t] = row[t].expected /\ project[t] = row[t].project

-----------------------------------------------------------------------------
(* Users                                                                   *)

Sendable(t, p) == project[t] = p /\ stage[t] # "done" /\ ActiveJobs(t) = {}

\* Manage "send" and "recheck": one statement for all the selected tasks. A
\* parked row keeps its project, even when its task has moved to another.
Handoff(p, S, states) ==
    LET chosen == {t \in S : Sendable(t, p) /\ row[t].state \in states} IN
    /\ nextKey < MaxHandoffs /\ chosen # {}
    /\ nextKey' = nextKey + 1
    /\ row' = [t \in Tasks |->
                CASE t \notin chosen -> row[t]
                  [] t \in chosen /\ row[t].state = "none" ->
                       [state |-> "waiting", project |-> p, job |-> NoJob,
                        expected |-> stage[t], key |-> nextKey']
                  [] OTHER ->
                       [row[t] EXCEPT !.state = "waiting", !.key = nextKey',
                                      !.expected = stage[t]]]
    /\ paid' = paid + Cardinality({row'[t].project : t \in chosen})
    /\ UNCHANGED <<taskVars, settings, queue, dispatches, worker, call,
                   nextDispatch, edits, downs, rejected>>

Send(p, S) == Handoff(p, S, {"none"})
Recheck(p, S) == "recheck" \in Users /\ Handoff(p, S, {"none"} \union Parked)

\* Manage "release": cancel the runs the rows own, then forget the rows.
ReleaseTasks(p, S) ==
    LET chosen == {t \in S : row[t].state # "none" /\ row[t].project = p}
        owned == {row[t].job : t \in chosen}
    IN
    /\ "release" \in Users /\ chosen # {}
    /\ status' = [j \in Jobs |-> IF j \in owned THEN CancelStatus(status[j])
                                 ELSE status[j]]
    /\ row' = [t \in Tasks |-> IF t \in chosen THEN NoRow ELSE row[t]]
    /\ UNCHANGED <<taskVars, settings, taskOf, request, output, dispatches,
                   worker, call, counters, rejected>>

\* Human edits ask nobody: UpdateTask, UpdateTaskBody, settings, dependencies.
EditTask(t) ==
    /\ \/ /\ "move" \in Users
          /\ \E s \in Stages \ {stage[t]} : stage' = [stage EXCEPT ![t] = s]
          /\ UNCHANGED <<project, content, blocked, edits>>
       \/ /\ "moveProject" \in Users
          /\ \E p \in Projects \ {project[t]} : project' = [project EXCEPT ![t] = p]
          /\ UNCHANGED <<stage, content, blocked, edits>>
       \/ /\ "edit" \in Users /\ edits < MaxEdits
          /\ edits' = edits + 1
          /\ content' = [content EXCEPT ![t] = @ + 1]
          /\ UNCHANGED <<stage, project, blocked>>
       \/ /\ "block" \in Users
          /\ blocked' = [blocked EXCEPT ![t] = ~@]
          /\ UNCHANGED <<stage, project, content, edits>>
    /\ UNCHANGED <<settings, row, queue, dispatches, worker, call, nextKey,
                   nextDispatch, downs, paid, rejected>>

EditProject(p) ==
    /\ \/ /\ "pause" \in Users
          /\ enabled[p] \/ valid[p]     \* switching on validates the stages
          /\ enabled' = [enabled EXCEPT ![p] = ~@]
          /\ UNCHANGED valid
       \/ /\ "stages" \in Users
          /\ valid' = [valid EXCEPT ![p] = ~@]
          /\ UNCHANGED enabled
    /\ UNCHANGED <<taskVars, row, queue, dispatches, worker, call, counters,
                   rejected>>

CancelRun(j) ==
    /\ "cancel" \in Users /\ status[j] \in Cancelable
    /\ CancelAI(j)
    /\ UNCHANGED <<taskVars, settings, row, dispatches, worker, call, counters,
                   rejected>>

\* EnqueueAI.
StartManualRun(t) ==
    /\ "manual" \in Users /\ Unowned(t)
    /\ \E j \in NextJob : Insert(j, t, NoRequest)
    /\ UNCHANGED <<taskVars, settings, row, dispatches, worker, call, counters,
                   rejected>>

ConductorJobs(t) == {j \in Jobs : taskOf[j] = t /\ request[j].kind # "manual"}
LatestSession(t) ==
    IF ConductorJobs(t) = {} THEN NoJob
    ELSE CHOOSE j \in ConductorJobs(t) : \A i \in ConductorJobs(t) : i <= j

\* TaskMessage reads the task and its latest session turn, and prepares.
ResumeRead(c, t) ==
    /\ "resume" \in Users /\ call[c] = NoCall
    /\ Unowned(t) /\ LatestSession(t) # NoJob
    /\ call' = [call EXCEPT ![c] =
                  [kind |-> "resume", snap |-> [task |-> t, row |-> NoRow],
                   seen |-> ReadTask(t), dispatch |-> 0,
                   latest |-> LatestSession(t)]]
    /\ UNCHANGED <<taskVars, settings, row, queue, dispatches, worker, counters,
                   rejected>>

\* EnqueueChat of confirmed work: conversation cursor, ownership, project,
\* stage and blockers are checked again in the transaction that queues it.
ResumeCommit(c) ==
    LET t == call[c].snap.task
        seen == call[c].seen
    IN
    /\ call[c].kind = "resume"
    /\ call' = [call EXCEPT ![c] = NoCall]
    /\ IF /\ LatestSession(t) = call[c].latest /\ Unowned(t)
          /\ project[t] = seen.project /\ stage[t] = seen.stage
          /\ valid[seen.project] /\ ~blocked[t]
       THEN \E j \in NextJob :
              /\ stage' = [stage EXCEPT ![t] = WorkingStage]
              /\ Insert(j, t, [kind |-> "independent", content |-> seen.content,
                               key |-> row[t].key])
              /\ row' = [row EXCEPT ![t] =
                   [state |-> "queued", job |-> j, expected |-> WorkingStage,
                    project |-> IF @.state = "none" THEN seen.project ELSE @.project,
                    key |-> @.key]]
       ELSE UNCHANGED <<stage, row, queue>>
    /\ UNCHANGED <<project, content, blocked, settings, dispatches, worker,
                   counters, rejected>>

-----------------------------------------------------------------------------
(* The dispatcher's tools, carried out by the MCP process                  *)

\* StartTask reads the dispatch, the row and the task.
StartRead(c, t, d) ==
    LET p == row[t].project IN
    /\ call[c] = NoCall
    /\ row[t].state = "waiting" /\ CheckDispatch(d, p)
    /\ call' = [call EXCEPT ![c] =
                  [kind |-> "start", snap |-> [task |-> t, row |-> row[t]],
                   seen |-> ReadTask(t), dispatch |-> d, latest |-> NoJob]]
    /\ UNCHANGED <<taskVars, settings, row, queue, dispatches, worker, counters,
                   rejected>>

\* ... and commits through Advance, or answers with the prior start or an error.
StartCommit(c) ==
    LET snap == call[c].snap
        seen == call[c].seen
    IN
    /\ call[c].kind = "start"
    /\ call' = [call EXCEPT ![c] = NoCall]
    /\ IF /\ CheckDispatch(call[c].dispatch, snap.row.project)
          /\ AdvanceError(snap, seen, TRUE, FALSE) = "none"
       THEN \E j \in NextJob :
              AdvanceToQueued(snap, j, [kind |-> "dispatched",
                                        content |-> seen.content,
                                        key |-> snap.row.key])
       ELSE UNCHANGED <<taskVars, queue, row>>
    /\ UNCHANGED <<settings, dispatches, worker, counters, rejected>>

DeferTask(t, d) ==
    /\ row[t].state = "waiting" /\ CheckDispatch(d, row[t].project)
    /\ row' = [row EXCEPT ![t].state = "needs_context"]
    /\ UNCHANGED <<taskVars, settings, queue, dispatches, worker, call, counters,
                   rejected>>

-----------------------------------------------------------------------------
(* The worker: Tick reconciles the rows                                    *)

Elsewhere == <<settings, call, counters>>
Tables == <<taskVars, row, queue, dispatches>>

\* ReleaseReviewed: a reviewed task that a human moved on is forgotten.
ReleaseReviewed ==
    row' = [t \in Tasks |->
              IF /\ row[t].state = "completed"
                 /\ stage[t] # row[t].expected \/ project[t] # row[t].project
              THEN NoRow ELSE row[t]]

\* RunOnce starts with Tick; a Conductor run ends with one ("again"), which
\* goes no further once the server is being stopped.
TickStart ==
    /\ worker.pc \in {"idle", "again"}
    /\ ReleaseReviewed
    /\ worker' = IF worker.outcome = "stopped" THEN Down
                 ELSE [worker EXCEPT !.pc = "tick",
                         !.after = IF worker.pc = "idle" THEN "claim" ELSE "idle"]
    /\ UNCHANGED <<taskVars, queue, dispatches, Elsewhere, rejected>>

\* Tasks(0): the rows of this tick, as they are now.
TickRead ==
    /\ worker.pc = "tick"
    /\ worker' = [worker EXCEPT !.pc = "rows",
                    !.rows = {[task |-> t, row |-> row[t]] :
                                t \in {u \in Tasks : row[u].state \in Reserving}}]
    /\ UNCHANGED <<Tables, Elsewhere, rejected>>

\* Rows are visited by updatedAt, whose order the model leaves open.
TickNext ==
    /\ worker.pc = "rows"
    /\ \/ \E snap \in worker.rows :
            worker' = [worker EXCEPT !.pc = "decide", !.rows = @ \ {snap},
                                     !.current = {snap},
                                     !.seen = {ReadTask(snap.task)}]
       \/ /\ worker.rows = {}
          /\ worker' = [Idle EXCEPT !.pc = worker.after]
    /\ UNCHANGED <<Tables, Elsewhere, rejected>>

NextRow == [worker EXCEPT !.pc = "rows", !.current = {}, !.seen = {}, !.to = "none"]
GiveUp(to) == [worker EXCEPT !.pc = "cancel", !.to = to]
Advance(to) == [worker EXCEPT !.pc = "advance", !.to = to]

\* variant: any answer of a run that ended counts
ReconciledByOutput(snap, seen) ==
    LET j == snap.row.job IN
    IF seen.project # snap.row.project \/ seen.stage # snap.row.expected THEN GiveUp("held")
    ELSE IF snap.row.state = "waiting" \/ status[j] \in ActiveStatuses THEN NextRow
    ELSE IF output[j] = "done" THEN Advance("completed")
    ELSE IF output[j] = "blocker" THEN Advance("needs_context")
    ELSE GiveUp("failed")

\* What reconcile makes of the row it read and of the job it reads now.
Reconciled(snap, seen) ==
    LET r == snap.row
        j == r.job
        moved == seen.project # r.project \/ seen.stage # r.expected
        restart == j # NoJob /\ request[j].kind = "independent"
    IN IF moved THEN GiveUp("held")
       ELSE IF r.state = "waiting" THEN IF restart THEN Advance("queued") ELSE NextRow
       ELSE IF j = NoJob THEN GiveUp("failed")
       ELSE IF ~valid[r.project] THEN GiveUp("held")
       ELSE IF status[j] \in ActiveStatuses THEN NextRow
       ELSE IF status[j] = "completed" /\ output[j] = "done" THEN Advance("completed")
       ELSE IF status[j] = "completed" /\ output[j] = "blocker" THEN Advance("needs_context")
       ELSE GiveUp("failed")

TickDecide ==
    /\ worker.pc = "decide"
    /\ \E snap \in worker.current, seen \in worker.seen :
         worker' = Reconciled(snap, seen)
    /\ UNCHANGED <<Tables, Elsewhere, rejected>>

\* restartIndependent, which may fail to prepare the run, or the handoff of a
\* finished one.
TickAdvance ==
    /\ worker.pc = "advance"
    /\ \E snap \in worker.current, seen \in worker.seen :
       LET starting == worker.to = "queued"
           err == AdvanceError(snap, seen, starting, TRUE)
       IN
       \/ /\ err = "none" /\ starting
          /\ \E j \in NextJob :
               AdvanceToQueued(snap, j, [kind |-> "independent",
                                         content |-> seen.content,
                                         key |-> snap.row.key])
          /\ worker' = NextRow
       \/ /\ err = "none" /\ ~starting
          /\ AdvanceToResult(snap, worker.to,
                             IF worker.to = "completed" THEN CompletionStage
                             ELSE seen.stage)
          /\ worker' = NextRow
       \/ /\ \/ err = "active"
             \/ err = "none" /\ starting /\ NextJob = {}   \* the bound
          /\ worker' = NextRow
          /\ UNCHANGED <<taskVars, row, queue>>
       \/ /\ err \in {"config", "conflict", "blocked"}
          /\ worker' = GiveUp(IF err = "blocked" THEN "needs_context" ELSE "held")
          /\ UNCHANGED <<taskVars, row, queue>>
       \/ /\ starting
          /\ worker' = GiveUp("failed")
          /\ UNCHANGED <<taskVars, row, queue>>
    /\ UNCHANGED <<dispatches, Elsewhere, rejected>>

\* variant: the run is not canceled when its row is given up
TickCancelSkipped ==
    /\ worker.pc = "cancel"
    /\ worker' = [worker EXCEPT !.pc = "set"]
    /\ UNCHANGED <<Tables, Elsewhere, rejected>>

TickCancel ==
    /\ worker.pc = "cancel"
    /\ \E snap \in worker.current : CancelAI(snap.row.job)
    /\ worker' = [worker EXCEPT !.pc = "set"]
    /\ UNCHANGED <<taskVars, row, dispatches, Elsewhere, rejected>>

TickSet ==
    /\ worker.pc = "set"
    /\ \E snap \in worker.current : SetState(snap, worker.to)
    /\ worker' = NextRow
    /\ UNCHANGED <<taskVars, queue, dispatches, Elsewhere, rejected>>

-----------------------------------------------------------------------------
(* The worker: claim, start, execute, finish                               *)

\* ConductorRepo.ClaimNext leaves paused Conductor work in the queue.
Claimable(j) ==
    LET t == taskOf[j] IN
    /\ status[j] = "pending"
    /\ request[j].kind # "manual" =>
         /\ row[t].job = j /\ row[t].state = "queued"
         /\ enabled[row[t].project] \/ request[j].kind = "independent"

ClaimNext ==
    /\ worker.pc = "claim"
    /\ \/ \E j \in {i \in Jobs : Claimable(i)} :
            /\ \A i \in Jobs : Claimable(i) => j <= i
            /\ status' = [status EXCEPT ![j] = "claimed"]
            /\ worker' = [worker EXCEPT !.pc = "begin", !.job = j]
       \/ /\ \A j \in Jobs : ~Claimable(j)
          /\ worker' = [worker EXCEPT !.pc = "dispatch"]
          /\ UNCHANGED status
    /\ UNCHANGED <<taskVars, row, taskOf, request, output, dispatches, Elsewhere,
                   rejected>>

\* MarkRunning, for a run without a Conductor contract.
BeginManual ==
    LET j == worker.job IN
    /\ worker.pc = "begin" /\ request[j].kind = "manual"
    /\ IF status[j] = "claimed"
       THEN /\ status' = [status EXCEPT ![j] = "running"]
            /\ worker' = [worker EXCEPT !.pc = "harness"]
       ELSE /\ worker' = Idle
            /\ UNCHANGED status
    /\ UNCHANGED <<taskVars, row, taskOf, request, output, dispatches, Elsewhere,
                   rejected>>

\* The state BeginJob refuses a job for, or "none".
Refusal(j) ==
    LET t == taskOf[j]
        r == row[t]
    IN IF ~(r.job = j /\ project[t] = r.project /\ stage[t] = r.expected) THEN "held"
       ELSE IF blocked[t] THEN "needs_context"
       ELSE IF ~valid[r.project] \/ content[t] # request[j].content THEN "held"
       ELSE "none"

\* variant: the pause is looked at by ClaimNext only
PausedAtClaimOnly(j) == FALSE

Paused(j) == ~enabled[row[taskOf[j]].project] /\ request[j].kind # "independent"

\* variant: without the condition on the status
ReturnToQueueAlways(j) == status' = [status EXCEPT ![j] = "pending"]

\* UPDATE ... SET status='pending' WHERE id=? AND status='claimed'.
ReturnToQueue(j) ==
    status' = IF status[j] = "claimed" THEN [status EXCEPT ![j] = "pending"]
              ELSE status

\* ConductorRepo.BeginJob: all checks and the start in one transaction.
BeginJob ==
    LET j == worker.job
        t == taskOf[j]
        mayStart == Refusal(j) = "none" /\ ~Paused(j) /\ row[t].state = "queued"
    IN
    /\ worker.pc = "begin" /\ request[j].kind # "manual"
    /\ \/ \* a pause since the claim: back into the queue
          /\ Refusal(j) = "none" /\ Paused(j)
          /\ ReturnToQueue(j)
          /\ worker' = Idle
          /\ UNCHANGED <<stage, row, rejected>>
       \/ \* canceled since the claim
          /\ mayStart /\ status[j] # "claimed"
          /\ worker' = Idle
          /\ UNCHANGED <<stage, row, status, rejected>>
       \/ /\ mayStart /\ status[j] = "claimed"
          /\ status' = [status EXCEPT ![j] = "running"]
          /\ stage' = [stage EXCEPT ![t] = WorkingStage]
          /\ row' = [row EXCEPT ![t].state = "working", ![t].expected = WorkingStage]
          /\ worker' = [worker EXCEPT !.pc = "harness"]
          /\ UNCHANGED rejected
       \/ \* an error: roll back, then cancel and hold
          /\ \/ Refusal(j) # "none"
             \/ Refusal(j) = "none" /\ ~Paused(j) /\ row[t].state # "queued"
          /\ worker' = [worker EXCEPT !.pc = "reject",
                          !.to = IF Refusal(j) = "none" THEN "held" ELSE Refusal(j)]
          /\ rejected' = rejected \union {j}
          /\ UNCHANGED <<stage, row, status>>
    /\ UNCHANGED <<project, content, blocked, taskOf, request, output, dispatches,
                   Elsewhere>>

\* variant: the refused claim is not canceled
RejectCancelSkipped ==
    /\ worker.pc = "reject"
    /\ worker' = [worker EXCEPT !.pc = "rejected"]
    /\ UNCHANGED <<Tables, Elsewhere, rejected>>

\* ConductorService.BeginJob on an error: CancelAI ...
RejectCancel ==
    /\ worker.pc = "reject"
    /\ CancelAI(worker.job)
    /\ worker' = [worker EXCEPT !.pc = "rejected"]
    /\ UNCHANGED <<taskVars, row, dispatches, Elsewhere, rejected>>

\* ... then SetState for a row it builds itself, without a selectionKey.
RejectSet ==
    /\ worker.pc = "rejected"
    /\ SetState([task |-> taskOf[worker.job],
                 row |-> [NoRow EXCEPT !.state = "queued", !.job = worker.job]],
                worker.to)
    /\ worker' = Idle
    /\ UNCHANGED <<taskVars, queue, dispatches, Elsewhere, rejected>>

\* The watcher runs until runExplicit returns.
WatchOwner ==
    /\ worker.pc \in {"harness", "finish", "save"}
    /\ request[worker.job].kind # "manual" /\ ~OwnsJob(worker.job)
    /\ status[worker.job] \in Cancelable
    /\ CancelAI(worker.job)
    /\ UNCHANGED <<taskVars, row, dispatches, worker, Elsewhere, rejected>>

\* A structured answer, one that does not parse, or an error of the run.
HarnessReturns(o) ==
    /\ worker.pc = "harness"
    /\ worker' = [worker EXCEPT !.pc = "finish", !.outcome = o]
    /\ UNCHANGED <<Tables, Elsewhere, rejected>>

\* Stop() cancels the run's parent context; finish() will see it.  A stop at
\* any other point leaves the tables as a crash there does.
StopDuringRun ==
    /\ worker.pc = "harness" /\ downs < MaxDowns
    /\ worker' = [worker EXCEPT !.pc = "finish", !.outcome = "stopped"]
    /\ downs' = downs + 1
    /\ UNCHANGED <<Tables, settings, call, nextKey, nextDispatch, edits, paid, rejected>>

FinishRead ==
    /\ worker.pc = "finish"
    /\ worker' = [worker EXCEPT !.pc = "save",
                    !.to = IF status[worker.job] = "canceling" THEN "canceled"
                           ELSE CASE worker.outcome = "stopped" -> "interrupted"
                                  [] worker.outcome = "error"   -> "failed"
                                  [] OTHER                      -> "completed"]
    /\ UNCHANGED <<Tables, Elsewhere, rejected>>

FinishAI ==
    LET j == worker.job
        stopped == worker.outcome = "stopped"
    IN
    /\ worker.pc = "save"
    /\ IF status[j] \in InFlight
       THEN /\ status' = [status EXCEPT ![j] = FinishStatus(@, worker.to)]
            /\ output' = [output EXCEPT ![j] =
                 IF worker.outcome \in Outputs THEN worker.outcome ELSE "none"]
       ELSE UNCHANGED <<status, output>>
    /\ worker' = CASE status[j] \in InFlight /\ request[j].kind # "manual" ->
                        [Idle EXCEPT !.pc = "again",
                           !.outcome = IF stopped THEN "stopped" ELSE "none"]
                   [] OTHER -> IF stopped THEN Down ELSE Idle
    /\ UNCHANGED <<taskVars, row, taskOf, request, dispatches, Elsewhere, rejected>>

-----------------------------------------------------------------------------
(* The worker: one selection turn                                          *)

\* PrepareDispatch: all waiting rows, as they are now; current holds those
\* whose project has not been considered yet.
DispatchRead ==
    /\ worker.pc = "dispatch"
    /\ LET waiting == {[task |-> t, row |-> row[t]] :
                          t \in {u \in Tasks : row[u].state = "waiting"}}
       IN worker' = [worker EXCEPT !.pc = "offer", !.rows = waiting,
                                   !.current = waiting]
    /\ UNCHANGED <<Tables, Elsewhere, rejected>>

\* The first project that is on, valid and not being selected from gets the
\* turn (BeginDispatch); a row with an invalid contract is held on the way, and
\* one for which the turn cannot be prepared has failed, which ends the search.
DispatchOffer ==
    /\ worker.pc = "offer"
    /\ \/ \E snap \in worker.current :
          LET p == snap.row.project
              next == [worker EXCEPT !.current = @ \ {snap}]
          IN
          \/ /\ ~enabled[p] \/ (valid[p] /\ \E d \in dispatches : d.project = p)
             /\ worker' = next
             /\ UNCHANGED <<row, dispatches, nextDispatch>>
          \/ /\ enabled[p] /\ ~valid[p]
             /\ SetState(snap, "held")
             /\ worker' = next
             /\ UNCHANGED <<dispatches, nextDispatch>>
          \/ /\ enabled[p] /\ valid[p]
             /\ SetState(snap, "failed")
             /\ worker' = Idle
             /\ UNCHANGED <<dispatches, nextDispatch>>
          \/ /\ enabled[p] /\ valid[p] /\ \A d \in dispatches : d.project # p
             /\ nextDispatch' = nextDispatch + 1
             /\ dispatches' = dispatches \union {[id |-> nextDispatch', project |-> p]}
             /\ worker' = [worker EXCEPT !.pc = "select", !.current = {},
                             !.dispatch = nextDispatch',
                             !.rows = {r \in @ : r.row.project = p}]
             /\ UNCHANGED row
       \/ /\ worker.current = {}
          /\ worker' = Idle
          /\ UNCHANGED <<row, dispatches, nextDispatch>>
    /\ UNCHANGED <<taskVars, queue, settings, call, nextKey, edits, downs, paid, rejected>>

\* variant: the turn stays marked as running
DispatchReturnsUnfinished(ok) ==
    /\ worker.pc = "select"
    /\ worker' = [worker EXCEPT !.pc = "hold", !.to = IF ok THEN "held" ELSE "failed"]
    /\ UNCHANGED <<Tables, Elsewhere, rejected>>

\* FinishDispatch, after the dispatcher's session ended well or not.
DispatchReturns(ok) ==
    /\ worker.pc = "select"
    /\ dispatches' = {d \in dispatches : d.id # worker.dispatch}
    /\ worker' = [worker EXCEPT !.pc = "hold", !.to = IF ok THEN "held" ELSE "failed"]
    /\ UNCHANGED <<taskVars, row, queue, Elsewhere, rejected>>

\* variant: candidates stay waiting
HoldNobody ==
    /\ worker.pc = "hold"
    /\ worker' = Idle
    /\ UNCHANGED <<Tables, Elsewhere, rejected>>

\* Candidates of the snapshot that were not selected wait for a recheck.
HoldCandidate ==
    /\ worker.pc = "hold"
    /\ \/ \E snap \in worker.rows :
            /\ SetState(snap, worker.to)
            /\ worker' = [worker EXCEPT !.rows = @ \ {snap}]
       \/ /\ worker.rows = {}
          /\ worker' = Idle
          /\ UNCHANGED row
    /\ UNCHANGED <<taskVars, queue, dispatches, Elsewhere, rejected>>

-----------------------------------------------------------------------------
(* Crash and restart of the web process                                    *)

Crash ==
    /\ worker.pc # "down" /\ downs < MaxDowns
    /\ worker' = Down
    /\ downs' = downs + 1
    /\ UNCHANGED <<Tables, settings, call, nextKey, nextDispatch, edits, paid, rejected>>

\* variant: without InterruptInFlight
StartWithoutRecovery ==
    /\ worker.pc = "down"
    /\ dispatches' = {}
    /\ worker' = Idle
    /\ UNCHANGED <<taskVars, row, queue, Elsewhere, rejected>>

\* Worker.Start: InterruptDispatches and InterruptInFlight.
Start ==
    /\ worker.pc = "down"
    /\ dispatches' = {}
    /\ status' = [j \in Jobs |-> IF status[j] \in InFlight THEN "interrupted"
                                 ELSE status[j]]
    /\ worker' = Idle
    /\ UNCHANGED <<taskVars, row, taskOf, request, output, Elsewhere, rejected>>

-----------------------------------------------------------------------------

UserStep ==
    \/ \E p \in Projects, S \in SUBSET Tasks :
          Send(p, S) \/ Recheck(p, S) \/ ReleaseTasks(p, S)
    \/ \E t \in Tasks : EditTask(t) \/ StartManualRun(t)
    \/ \E p \in Projects : EditProject(p)
    \/ \E j \in Jobs : CancelRun(j)
    \/ \E c \in Calls, t \in Tasks : ResumeRead(c, t)
    \/ \E c \in Calls : ResumeCommit(c)

ToolStep ==
    \/ \E c \in Calls, t \in Tasks, d \in dispatches : StartRead(c, t, d.id)
    \/ \E c \in Calls : StartCommit(c)
    \/ \E t \in Tasks, d \in dispatches : DeferTask(t, d.id)

WorkerStep ==
    \/ TickStart \/ TickRead \/ TickNext \/ TickDecide \/ TickAdvance
    \/ TickCancel \/ TickSet
    \/ ClaimNext \/ BeginManual \/ BeginJob \/ RejectCancel \/ RejectSet
    \/ \E o \in {"done", "blocker", "malformed", "error"} : HarnessReturns(o)
    \/ FinishRead \/ FinishAI
    \/ DispatchRead \/ DispatchOffer \/ HoldCandidate
    \/ \E ok \in BOOLEAN : DispatchReturns(ok)

Next == UserStep \/ ToolStep \/ WorkerStep \/ WatchOwner \/ StopDuringRun \/ Crash \/ Start

Spec == Init /\ [][Next]_vars

\* The worker's ticker, the timeouts of a run (timeoutSeconds) and of a
\* selection turn (180 s), and a web process that is started again.
Fairness == WF_vars(WorkerStep) /\ WF_vars(Start)
FairSpec == Spec /\ Fairness

-----------------------------------------------------------------------------
(* Properties                                                              *)

\* While a row reserves its task no other job of the task is active, whoever
\* tried to insert one: the user, a browser tab, the dispatcher or a retry.
ReservationIsExclusive ==
    \A t \in Tasks : row[t].state \in Reserving => ActiveJobs(t) \subseteq {row[t].job}

\* A Conductor job that waits in the queue is the job of a queued row: it can
\* still be claimed, released or rechecked, and never locks its task for good.
NoOrphanedJob ==
    \A j \in Jobs :
        status[j] = "pending" /\ request[j].kind # "manual"
            => row[taskOf[j]].state = "queued" /\ row[taskOf[j]].job = j

\* One handoff (a send or recheck) is started at most once by the dispatcher,
\* however often and however late its tool calls arrive.
HandoffStartedOnce ==
    \A i, j \in Jobs :
        /\ request[i].kind = "dispatched" /\ request[j].kind = "dispatched"
        /\ taskOf[i] = taskOf[j] /\ request[i].key = request[j].key
        => i = j

\* There is no paid retry loop: every selection turn is paid for by a handoff
\* made since the last one, or by a crash that interrupted one. A handoff pays
\* for one turn in each project that its rows are of: a recheck of rows whose
\* tasks have moved may be of several.
NoSelectionLoop == nextDispatch <= paid + downs

\* A task enters review only as the result of its own job, which was executed
\* to the end, was not canceled and answered "done", while the task still is
\* where that job was to find it.
ReviewIsEarned ==
    [][\A t \in Tasks :
        row[t].state # "completed" /\ row'[t].state = "completed" =>
            LET j == row[t].job IN
            /\ row[t].state = "working" /\ status[j] = "completed"
            /\ output[j] = "done" /\ taskOf[j] = t
            /\ stage[t] = WorkingStage /\ project[t] = row[t].project
            /\ stage'[t] = CompletionStage]_vars

\* Pausing a project stops dispatch and start operations that were under way:
\* while it is paused no dispatched job is created and none begins to run.
PauseStopsStarts ==
    [][\A j \in Jobs :
        /\ request'[j].kind = "dispatched"
        /\ <<status[j], status'[j]>> \in {<<"absent", "pending">>,
                                          <<"claimed", "running">>}
        => enabled[row'[taskOf'[j]].project]]_vars

\* A selection turn never parks a task the user handed over after the turn
\* began, even the same task released and sent again.
FreshHandoffIsNotHeld ==
    [][\A t \in Tasks :
        worker.pc = "hold" /\ worker' # worker /\ row'[t] # row[t] =>
            \E snap \in worker.rows : snap.task = t /\ snap.row.key = row[t].key]_vars

\* A run leaves "working": its task is reviewed, parked or released.
WorkEnds == \A t \in Tasks : row[t].state = "working" ~> row[t].state # "working"

\* A queued task is worked on, parked or released, unless it is paused.
QueuedMovesOn ==
    \A t \in Tasks : row[t].state = "queued" ~>
        row[t].state # "queued" \/ ~enabled[row[t].project]

\* A waiting task is selected, deferred or parked, unless it is paused.
WaitingMovesOn ==
    \A t \in Tasks : row[t].state = "waiting" ~>
        row[t].state # "waiting" \/ ~enabled[row[t].project]

JL == INSTANCE JobLifecycle
\* The queue as Conductor uses it still is the queue's lifecycle.
ImplementsLifecycle == JL!Spec

\* conductor-mode.md: "changed task content ... do not enter review".
ChangedContentIsNotReviewed ==
    [][\A t \in Tasks :
        row[t].state # "completed" /\ row'[t].state = "completed"
            => content[t] = request[row[t].job].content]_vars

\* conductorService.go: a job refused before its agent started leaves its task
\* held or needing context, to be rechecked; it is not a failed run.
RefusedStartIsNotAFailure ==
    \A t \in Tasks : row[t].state = "failed" => row[t].job \notin rejected
=============================================================================
