# A verification development for Aycorn

Aycorn is a task manager whose tasks can be worked on by AI agents. A Go web
process serves a browser application from a SQLite database, runs at most one
agent at a time, and lets a *Conductor* choose, start and hand back tasks. An
MCP process gives the agents tools on the same database. What can go wrong here
is not in one function. It is in two processes and several goroutines writing
the same rows, in reads that are old when they are used, in crashes, and in
requests that come late or twice. An error costs money (an agent session is
paid for), edits somebody's repository twice, or locks a task for good.

The same hazards are on the other side of the wire: editors that save in the
background what others edit too, buttons pressed again after a lost answer,
controllers that work for minutes on what they read once.

The modules in this directory model that core. TLC checks them on small
instances; TLAPS proves their safety, and that they implement their abstract
specifications, for every instance.
`PROJECT.json` gives, for each definition, the lines of the source it stands
for, and for each property the change of the code that the property catches.

## 1. Inventory

Paths are under `src/server/internal/` unless they say otherwise.

| Component | State | Operations | Interacts through |
| --- | --- | --- | --- |
| Agent job queue (`models/repos/aiRepo.go`, `agentJobRepo.go`) | `agent_job`, `agent_run` | EnqueueAI, CancelAI, ClaimNext, MarkRunning, BeginAttempt, FinishAI, Fail, InterruptInFlight | rows read and written by everyone below |
| Worker (`worker/`) | goroutine locals: the claimed job, the run's outcome, the stop flag | Start, loop, RunOnce, runExplicit with its watcher and `finish`, runDispatch, Stop | the queue; Conductor's Tick, BeginJob, PrepareDispatch; the harness |
| Conductor (`models/services/conductor*.go`, `models/repos/conductor*.go`) | `conductor_task`, `conductor_project`, `conductor_dispatch` | send, release, recheck, Tick/reconcile, StartTask, DeferTask, BeginJob, PrepareDispatch, UpdateSettings | jobs, task rows, the dispatcher session's tool calls |
| Task ownership (`taskownership/`) | none; a view of `conductor_task` and active jobs | Current, Check, Begin | guard of every edit and every enqueue |
| Task sessions (`taskSessionService.go`, `chatRepo.go`) | the chat part of a job's request | TaskMessage, EnqueueChat | jobs, `conductor_task` |
| Project chat (`projectchat/`) | `project_chat`, `project_chat_turn` | Send, Cancel, Tick, finish, Start | its own runner and the harness |
| Scheduled jobs (`jobs/`) | `scheduled_job`, `scheduled_job_run`, `task_template` | Fire, Tick, edits | inserts tasks, jobs and conductor rows |
| Environments (`environments/`) | `task_environment`, operations in memory | create, start, stop, delete, tick/reconcile, Expire | kubectl, branches |
| Worktrees (`worktree/`) | git refs, worktrees, the set of branches in use | Prepare, ReserveRun, PreviewMerge, MergeBranch | git, the worker |
| Harness (`harness/`) | the provider's process and session | Run, rpc request/response | the worker and project chat |
| MCP server (`src/server/cmd/mcp/`) | none of its own | tools for tasks, Conductor, documents | the same database, another process |
| Workflows, stages and projects (`models/services/stageService.go`, `workflowService.go`, `projectService.go` and their repositories; the pages of a workflow, its delete dialog, the switch dialog and the board) | `workflow`, `stage` (position, type), `project.workflow`, `task.stage` and `timeCompleted` | create, edit, set type, reorder, move, delete with moves, duplicate; switch a project's workflow; put tasks on stages | foreign keys, the index of open stages, triggers on `task`; requests built from what a tab was shown |
| Task types, relationships, checklists, personas | their rows | create, edit, delete | ownership; web and MCP handlers |
| Database and backup (`appdb/`) | the file | Open, migrate, backup, restore | before anything else starts |
| Project documents (`knowledge/`, `src/app/src/features/documents/`) | the row with its revision; the editor sessions of a tab | open, edit, autosave, retry, reload, delete | PUT and DELETE with the revision that was read |
| Task descriptions (`src/app/src/features/task/`, `lib/task-body-revision.ts`) | the body and its ETag; two editors, one ETag and one queue of saves per tab | open, edit, debounce, save | PUT with If-Match; agents write the same body |
| Web server, rest of the browser application | requests, caches | handlers | call the services |

What makes each of them correct, in one line each:

- **Queue**: one active job per task; a job is executed at most once; an
  acknowledged cancel is final; a completed job has its result; nothing stays
  in flight with nobody working on it.
- **Conductor**: a task has one owner; a handoff is started once; pausing stops
  starts; only a completed run brings a task to review; no handoff, dispatch or
  refused start leaves a task stuck; no paid loop.
- **Sessions and chats**: a retried message is one turn; a stop wins against a
  completion; a session's cursor never goes back.
- **Scheduled jobs**: an occurrence becomes at most one task, of one revision,
  and a failing setup is consumed once.
- **Environments**: what a reconciliation saw never undoes a later request.
- **Worktrees**: a failed merge leaves the destination as it was.
- **Workflows**: what a task, stage or project refers to exists; a switch leaves
  no task on the old workflow; a page shows the order that is stored.
- **Editors**: what the store accepted stays in the text until somebody who has
  seen it removes it; what was typed is saved, or its failure is seen.

What is hard to test about them is listed under `hazards` in `PROJECT.json`,
each at its line, with the properties that would notice, or the reason why
there is none yet.

## 2. The modules

```
JobTable            statuses of agent_job, the CASE expressions of its updates
 |- JobLifecycle    abstract: the life of a row
 |- AgentJobQueue   queue + worker, statement by statement
 |   `- AgentJobQueue_proofs
 `- Conductor       queue as Conductor uses it + Conductor + sessions + tools
     |- Conductor_proofs
     |- MCConductor
     `- MCConductorSafety    five scenarios, one per behaviour
ProjectChat         conversations, their queue and runner, the chat tools' writes
 |- ProjectChat_proofs
 `- MCProjectChat
SharedText          abstract: a text that several people and agents write
 `- Documents       the document sessions of a tab, and the document's row
     `- MCDocuments
TaskText            the two editors of a task's description, and its row
 `- MCTaskText
Editors_proofs      about Documents and TaskText
ScheduledJobs       a job, its scheduler, its requests, its browser
SessionComposer     messages to a task's session: tabs and transaction
 `- RepeatedRequests_proofs   about both: a request that is sent again
Environments        previews: rows, controller, operations, pods
 |- Environments_proofs
 `- MCEnvironments
WorkflowStages      workflows, stages, projects' workflows, tasks on stages
 `- WorkflowStages_proofs
MCApplication       AgentJobQueue, Documents, TaskText, Environments,
                    ScheduledJobs, SessionComposer and WorkflowStages,
                    one per behaviour
 `- MCApplication_proofs
MCLoops             the background loops of AgentJobQueue, ProjectChat,
                    Environments and ScheduledJobs, one per behaviour
```

**JobTable** holds what the queue's SQL fixes: the statuses, which of them the
index `one_active_ai_job_per_task` counts, and two functions, `CancelStatus`
and `FinishStatus`, for the CASE expressions of CancelAI and FinishAI.

**JobLifecycle** is what every other part relies on: a row is inserted when its
task has no active row, is claimed, may be returned, is started, and ends once.
It says nothing of processes. Both detailed modules implement it, with the
identity as refinement mapping, because they keep `status` and `taskOf` under
these names.

**AgentJobQueue** has one action per SQL statement or transaction.

| Code | Model |
| --- | --- |
| `agent_job.status`, `.task`; the `agent_run` row | `status`, `taskOf`; `run` ("none", "open", "final") |
| where RunOnce/runExplicit is, and its locals | `pc`; `cur`, `outcome`, `verdict`, `canceled` |
| `Worker.Stop` was called | `stopping` |
| users' requests | EnqueueAI, CancelAI, DeleteTask, at any moment |
| loop, claim, start | Poll, ClaimNext, NothingToClaim, MarkRunning, BeginAttempt(Err), Fail |
| runExplicit | SetupFails, StartHarness, WatchCancel, HarnessReturns, FinishRead, FinishAI, Abandon |
| process life | Shutdown, Exit, Crash, Start |

`finish` is two actions, because the code reads the status and later writes the
verdict. `Abandon` is RunOnce returning an error after a statement failed: the
job keeps its status and the worker forgets it. `starts`, `acked`, `downs` and
`faults` are history.

**Conductor** composes the five tables with three kinds of actors. The worker
is one record with a location and the locals of RunOnce, including the
snapshots that Tick and PrepareDispatch read before they act; the dispatcher's
tool calls and a browser tab's "resume" are records of `call` with what they
read; users act at any moment.

| Code | Model |
| --- | --- |
| `conductor_task` (state, project, job, expectedStage, selectionKey) | `row`, `NoRow` when there is none |
| `task` (stage, project, body) and its unresolved dependencies | `stage`, `project`, `content`, `blocked` |
| `conductor_project.enabled`; the two stages still exist in the workflow | `enabled`, `valid` |
| `requestJson`'s Conductor contract; `agent_run.output` | `request`, `output` |
| running `conductor_dispatch` rows | `dispatches` |
| Manage: send, recheck, release | Send, Recheck, ReleaseTasks |
| UpdateSettings; people's edits of a task, which ask nobody | EditProject, EditTask |
| AIService.Start, Cancel; TaskMessage | StartManualRun, CancelRun; ResumeRead then ResumeCommit |
| `start_conductor_task`, `defer_conductor_task` | StartRead then StartCommit; DeferTask |
| Tick | TickStart, TickRead, TickNext, TickDecide, then TickAdvance, or TickCancel and TickSet |
| ClaimNext, BeginJob, the service's answer to a refusal | ClaimNext, BeginManual/BeginJob, RejectCancel, RejectSet |
| the run | WatchOwner, HarnessReturns, StopDuringRun, FinishRead, FinishAI |
| runDispatch | DispatchRead, DispatchOffer, DispatchReturns, HoldCandidate |
| process life | Crash, Start |

**ProjectChat** is the second queue of the web process, beside the task worker
and with other rules: a turn goes from pending to running in one statement, a
conversation has one active turn, and one runner serves all conversations in
the order of the turns. Its only table in common with the rest is `task`, which
the tools of a turn write through `CheckChat`.

| Code | Model |
| --- | --- |
| `project_chat_turn` (request, status, sessionId); `project_chat.sessionId` | `request`, `status`, `session`; `chatSession` |
| Tick's locals; the service's context | `runner`; `stopping` |
| Send: lookup, preparation, transaction | SendRetry, SendRead, SendCommit |
| Cancel | Cancel |
| an MCP tool: scope at the start of its process, check in its transaction | ToolRead, ToolWrite; MoveTask is a person's edit |
| Run, Tick, OnSession, finish | Poll, Claim, NothingToClaim, SetupFails, OpenThread, OnSession, HarnessReturns, FinishRead, FinishWrite, FinishFails |
| process life | Shutdown, Exit, Crash, Start |

**SharedText** is what an editor of a shared text owes its users, whatever it
does with copies, revisions and retries: an accepted edit stays until somebody
who was shown all of the text removes the whole of it. A text is the set of the
edits in it, so that "nothing was overwritten" is a subset. Documents implements
it; the editors of task descriptions do not (finding 5).

**Documents** is one document, one tab and other writers.

| Code | Model |
| --- | --- |
| `project_document`: is it there, its revision, its text | `row` |
| a `DocumentDraft` object: saved version, shown value, error, timer, the save under way | `draft[i]`, of type `DraftType`, numbered as they are made |
| the module-level `Map` of sessions; the mounted `DocumentEditor` | `drafts`; `editor` |
| edit, flush, drain (success and failure) | `Edited`, `Flushed`, `Drained`, `Failed`: functions of a session |
| mount, unmount with its cleanup, select, retry | Mount, Leave, Select, BlurOrRetry |
| key presses, the timer | Type, Undo, Autosave |
| PUT and its row, a lost request or answer, what the answer does | Put, Lose, Saved, SaveFailed |
| "Discard edits and reload", "Delete" | AskReload, GetDocument, Reload; Delete, DeleteRow, Deleted |
| another client; the list query | ForeignWrite; Refetch, Refetched |

An answer is applied with everything that awaits it in one step, because no
event handler runs between microtasks: `Saved` resolves the flush, runs the
cleanup of a component that has been left, and lets a waiting selection or
deletion go on.

**TaskText** is one task's description in the drawer of the board and on the
task's page. Both have a query of their own, and share the ETag of the next save
(`task-body-revision.ts`) and the queue of saves (a mutation scope). They differ
in what the code does: the drawer shows its editor when nothing is being
fetched, skips a value it believes to be stored, and commits on closing what the
debounce has not; the page does none of this. Nothing makes an opened view wait
for a save that is under way or queued, so `Open` may happen at any moment. Two
histories say what the properties are about: `fresh`, that the view opened last
began with no request under way and its editor took the answer of the view's own
read; `owed`, what was typed in the drawer and is neither stored nor reported as
refused.

**ScheduledJobs** is one job with its template: `Lookup`, `ReadJob`, `Prepare`
and `Claim` are the four places where Fire reads or writes, for the scheduler
(caller 0) and for the requests of "Run now". `Verdict` is the list of checks in
Fire's transaction, in the code's order, from a repeated key (refused when the
task it made was deleted, `DeleteRunTask`) to the revisions and the setup, which
are looked at again inside the transaction. `ListDue` and `TickEnds` are the
scheduler's loop with its failure path; `RunNow`, `Answered`, `LoseAnswer` are
the mutation that keeps its key until it is answered; `SendEdit`, `UpdateJob`,
`RefetchJobs` the edit of a cached row. The cron expression is `Cadence`: the
first multiple of it after now.

**SessionComposer** is the message box under a task that Conductor ran. Each of
two tabs keeps a draft, the pending input with its key, and the confirmation
dialog; a send is FindMessage, Classify (the agent that says question or work),
EnqueueTurn (`EnqueueChat`'s transaction: retry key, cursor, stage), and its
reply, which may be lost. `turns` is the session's line of turns.

**Environments** is the preview of a branch: the row that says what is desired
and what was observed, the controller that reads all rows every three seconds
and launches an operation for each that has none, and the operations, which work
for minutes on the copy of the row they began with. An operation is a program
counter over `Steps`, and its end writes what it saw through `Observe`, which
leaves a row alone whose desired state has changed. People start, stop, restart
and delete from their cards at any moment, also between the controller's read of
the rows and its launches; the process restarts.

**WorkflowStages** is what happens between the reads and the writes of the
services behind the workflow page, the switch dialog and the board. Go's
handlers run side by side and most services read in a statement of their own,
decide, and write in another; only the database's constraints are evaluated with
the write. So a request is one action per statement or transaction, and
`request` holds what it has read. What it asks for comes from `seen`, the
snapshot its tab was shown last.

| Code | Model |
| --- | --- |
| `workflow`; `stage` (workflow, position, type) by id | `workflows`; `stages` |
| `project.workflow`; `task` (project, stage, timeCompleted is set) | `home`; `task` |
| the query cache of a tab; a request under way in the server | `seen`, refreshed by Load; `request` |
| CreateStage, UpdateStage, BulkSetType | CreateRead/Write, UpdateRead/Write, SetTypeRead/Write |
| DeleteStage, BulkDelete: counts, destinations, transaction | DeleteRead or DeleteManyRead, DestinationsChecked, DeleteWrite |
| ReorderStages; BulkMove (one transaction) | ReorderRead/Write; BulkMove |
| what the page shows after a drop (`stage-list.tsx`) | BeforeId, DroppedOrder |
| CreateWorkflow, BulkDuplicateWorkflows, DeleteMany | CreateWorkflow, DuplicateFind/Read/Write, DeleteWorkflowRead/Write |
| SwitchProjectWorkflow | SwitchRead, SwitchStages, SwitchWrite |
| edits of projects and tasks, the compare-and-swap of a stage | PutProject, CreateProject, DeleteProject; PutTask, BulkUpdate, TransitionStage, CreateTask, RemoveTask |
| `ON DELETE RESTRICT` of `task.stage`; `oneOpenStagePerWorkflow`; the trigger on `task.stage` | Unreferenced; OneOpen; Written |

Ids of deleted rows are given out again, as SQLite does without AUTOINCREMENT.
`SwitchStages` is three consecutive reads of the service in one step. Stages of
equal position come in any order (`Orders`), since the code sorts by position
alone.

What is abstracted:

- A selection key is a number: the code draws 128 random bits, and the model
  gives every handoff a fresh one. The key of a row resumed by a chat is kept
  or empty, as in the code.
- A task's text is a number that every edit and every handoff increases.
- An answer of an agent is one of done, blocker or malformed. A provider that
  fails is a run with outcome "failed".
- "The working and completion stage are still stages of this workflow and not
  done" is the flag `valid` of a project.
- `selectionKey`, `expectedStage` and the frozen contract are kept because
  guards compare them; messages, timestamps, prompts, usage and the branch are
  not.
- The planning phase of `reconcile` is left out: no caller creates a planning
  job any more. It remains in the code for rows of earlier versions.
- Workflows: names, colours, icons, descriptions and personas; "todo" is "doing"
  by another name; a task belongs to its project without a checklist between.
  A transaction that meets a constraint is refused as a whole.
- Deletion of tasks is in AgentJobQueue, WorkflowStages and ScheduledJobs, failing
  SQL statements are in AgentJobQueue and ProjectChat only. A
  stop of the server while Conductor's run is under way is `StopDuringRun`; a
  stop at any other moment has the effect of a crash, which may happen anywhere.
- A dependency that appears or disappears is one flag, flipped by a user.
- A chat's provider thread is a number, new for each turn that starts one. The
  second OnSession of a run, with the provider's turn id, changes nothing that
  is modelled. The refusal of a chat tool's write because an agent owns the task
  is a refusal that may always happen. A conversation is never archived, since
  nothing does that yet.
- A text is the set of its edits and an ETag is the text itself. Taking back
  edits is in Documents only between two saves (`Undo`), and elsewhere left out:
  two edits that cancel each other say nothing about overwriting.
- Links, files and versions of documents; titles; the drawer's template drafts
  and the flow of a task that does not exist yet.
- Environments: Expire's deadline, pins and touches are one choice that may
  always happen; kubectl's calls are one step that may fail; logs, proxying and
  the test's content are left out.
- ScheduledJobs: the content of a run is the pair of revisions it was made from.

## 3. What the runs check

| Run | Instance | Question |
| --- | --- | --- |
| `application` | queue: 3 jobs, 2 tasks, 2 stops or crashes, 1 failing statement; documents: 2 edits, 1 of others, 2 sessions, 1 lost request; descriptions: the same, with 1 visit of the page and 2 of the drawer; environments: 2 for one place, one of them made by the controller, 1 failing command, 2 clicks at any moment; jobs: 2 requests, 1 edit; composer: 2 tabs, 2 messages, 3 sends, 1 mishap; workflows: 2 tabs, 2 requests of any of 18 kinds, 2 workflows of which one has stages of equal position, 1 project, 2 tasks | What must each of them never do, and do two of them (the queue, the document editor) implement their abstract specification? |
| `loops` | queue: 2 jobs, 1 stop or crash; chats: 2 turns of 2 conversations, 1 stop or crash, 1 failing finish; environments: 1, 2 clicks at any moment, 1 failing command, 1 restart; jobs: 3 units of time, 2 edits, 1 invalid setup, 1 restart | What does each background loop do at last? |
| `conductor_safety` | handoff: 2 tasks, pause, release; session: 1 task, 2 concurrent requests, all ways to start a run; paused: 1 task, pause, release, cancel; review: 1 task, 2 projects, moves, edits, rechecks, cancel, 1 stop or crash; setup: the same with changes of the projects' stages for the rechecks; each with 2 jobs and 2 handoffs | Is selection paid for, does pausing hold, does an old snapshot never park a new handoff, is a task's owner unique and a handoff started once, is review earned, is no job orphaned, is the queue used as it allows? |
| `conductor_liveness` | 1 task that stays in its project, 2 jobs, 2 handoffs, moves between stages, blockers, 1 crash | Does a working, queued or waiting row move on? |
| `chat_safety` | 2 conversations, 2 turns, 2 overlapping calls, 2 keys and messages, 1 task that moves, 1 stop or crash | Is a key one turn, does a session continue, does a stop revoke writes, is nothing stuck? |
| `changed_content` | 1 task, 1 job, 1 edit | Finding 1 |
| `refused_start` | 1 task, 1 job, a blocker | Finding 2 |
| `stopped_turn` | 1 conversation, 1 turn | Finding 3 |
| `drafts_retained` | 2 edits, 2 sessions, 1 lost request | Finding 4 |
| `own_edit_overwritten` | the drawer opened twice, 2 edits, nobody else | Finding 5 |
| `refused_own_write` | the same | Finding 6 |
| `stopped_preview_runs` | 1 preview, 4 clicks | Finding 7 |

`application` and `loops` check several specifications at once that do not
interact. A behaviour is one of one of them, named by the variable `part` or
`loop`, while the variables of the others keep their initial values: the state
space is the sum of the parts and not their product, and an invariant of one
part is checked in all of its states. Fairness in `loops` is that of each
specification, conjoined with `loop` being the one that moves. `conductor_safety`
does the same with five scenarios of one specification: Conductor with fewer
users and lower bounds each, every property checked in all of them.

Why these bounds are enough to be interesting: three jobs of two tasks contain
a task with two jobs beside a task with another one, which the index, the
claim's order and deletion need; two crashes contain a crash after a recovery.
In Conductor a second handoff of the same task is what makes an old snapshot,
a late tool call or an old job dangerous, so two handoffs and two jobs are the
least that shows the races; two concurrent requests contain two starts, a start
and a resume, and two resumes. Each scenario enables the users' operations its
question depends on (`Users`) and no other, so that the product of all of them
does not have to be explored at once. Bounds are constants and sit in the
guards of what they bound: `MaxJobs` (rows), `MaxHandoffs` (send and recheck),
`MaxEdits`, `MaxDowns`, `MaxFaults`. When no row is left, an insertion is not
possible; the liveness runs are arranged so that this never is what makes a
property true.

For the workflows, two requests of two tabs contain every pair of the eighteen
kinds, in every order of their reads and writes, and a second request of the same
tab with what it was shown before; two workflows are what a switch needs. The
start has two stages of equal position, which two creations at the same time
leave. `MaxStageId` and `MaxWorkflowId` leave room for one new workflow of three
stages: what they cut off is a second new row behind it, which shares nothing
with the first.

For the editors, two edits of the tab and one of somebody else are the least
that can be overwritten in both directions, and two sessions the least that can
be confused. One place for two environments makes capacity matter; two requests
and the scheduler beside one edit contain every overlap of two Fires with a
change between preparation and transaction; three sends of two tabs contain a
retry beside a second tab's message.

Deadlock is checked in the runs of Conductor and ProjectChat, whose worker and
runner always have a next step (a poll, or the start of a process that is down).
In the others the bounded parts may all be used up, with nobody clicking or
typing any more, and the configuration says so.

The type invariants of the parts are in the run as `AppTypeOK`. Four properties
are proved and not in a run: `CompletedHasResult` of the queue, `TypeOK` and
`TurnNeverReplayed` of the chats, and `RefusedOnlyForOthers` of the descriptions.

Each property has a mutant: a definition replaced by what a plausible mistake
in the code would make of it (a second status in a CASE, a check on the jobs
but not on the row, a pause looked at only in the claim, a hold that ignores the
key). They stand next to the definition they vary, marked `variant`.

### Fairness

`Fairness` of AgentJobQueue is weak fairness of the worker's own steps, of the
exit of a process that was told to stop, and of Start. The loop is driven by a
ticker and by its own return; a run of the harness is bounded by its
`timeoutSeconds` context and a selection by 180 seconds; the service manager
starts the web process again. Conductor's `FairSpec` is the same for its worker
and Start; `ProgressSpec` is `FairSpec` with the project, its settings and the
task's text fixed. Nothing is assumed of users, of tool calls or of the watcher: they
may never act, and no progress depends on them. Liveness of a queued or waiting row is
asked only while its project is not paused, since a paused project is meant to
stand still. ProjectChat's `FairSpec` is weak fairness of the runner, whose
ticker fires every second and whose runs have a timeout, of the exit of a
process being stopped, and of Start. `TurnEnds` gives up when a statement of
finish failed, since the turn then waits for the next start; `PendingIsTaken`
does not.

For Environments it is weak fairness of the controller's tick (`time.Ticker`)
and of each operation: every external command runs under a context with a
timeout. Nothing is assumed of people, and failing commands are bounded, so
`StopCompletes` says that a stop gets through once commands work again. For
ScheduledJobs it is weak fairness of the scheduler's loop and of its own call of
Fire, which runs in the loop's goroutine; requests, edits and the clock may stop.

## 4. What is proved

Every theorem holds for all values of the constants that satisfy the assumption
of its module: bounds are natural numbers, sets that stand for different things
do not overlap, and the rows to begin with are rows the database admits. No theorem
has another hypothesis, and none leaves an interleaving out. Where a promise does
not hold for every behaviour of the code, the property itself says of which it
does: two of the three about task descriptions are about an editor that is
`fresh`, and findings 5 and 6 show what happens to another one. In each module
an inductive invariant is proved for the initial states and for every step, one
lemma per group of actions with one step per action, and the properties are its
consequences.

### The job queue

`AgentJobQueue_proofs` proves, for all `MaxJobs`, `Tasks`, `MaxDowns` and
`MaxFaults` that satisfy the two assumptions of the module (the bounds are
natural numbers; `NoTask` is no task), that the queue's six invariants hold and
that it implements `JobLifecycle`.

None of the invariants is inductive alone. "Executed at most once" says nothing
about a job that is pending again after it ran, so a step from an unreachable
state could break it. `IInv` adds what ties the worker to the row it holds:

- `WorkerInv`: past the claim there is a job, past the harness an outcome, past
  finish's read a verdict. `TypeOK` needs it for the row FinishAI writes.
- `HeldInv`: at "claimed" the row is claimed, or canceled or deleted by somebody
  else; from MarkRunning on it is running, canceling or deleted. This is why
  Fail and FinishAI never bring a final status back.
- `StartsInv`: a row that is absent, pending or claimed was never executed, and
  neither was the one about to be. Together with `HeldInv` it gives
  `NeverReplayed`: only a claimed job becomes running, and nothing returns to
  claimed.
- `AckedInv`: an acknowledged job is canceling or has a final status other than
  completed. `AcknowledgedCancelHolds` follows.
- `RunInv`: from BeginAttempt on the job has its run row, so that FinishAI's
  update of it finds one, and `CompletedHasResult` holds.
- `InFlightIsHeld` itself: MarkRunning, Fail and FinishAI touch only the job
  that the worker holds.

`Invariance` proves `Spec => []IInv` from three lemmas: types (`TypeStep`),
safety (`SafeStep`) and the two conditions about locks on a task (`LockStep`),
each with one step per action. `TypeCorrect`, `OneActive`, `ExecutedAtMostOnce`,
`CancelHolds`, `CompletedHasFinalRun` and `InFlightHasOwner` are its
consequences. `LifecycleStep` maps every action to a JobLifecycle action or a
stutter under `IInv`, which `Refinement` turns into `Spec => ImplementsLifecycle`.

### Conductor

`Conductor_proofs` proves `TypeOK`, `ReservationIsExclusive`, `NoOrphanedJob`,
`HandoffStartedOnce`, `ReviewIsEarned`, `PauseStopsStarts`,
`FreshHandoffIsNotHeld` and the refinement of `JobLifecycle`, for any number of
tasks, projects, requests and jobs. `CInv` has three layers.

The tables (`Queue`). Every row fits its job (`RowsFit`): a row that is queued
or working has one, the job is the task's own and not a manual one, and the job
of a queued row has never run. Conversely a Conductor job that may still start
is the job of a queued row (`QueuedHere`); this is `NoOrphanedJob` with the
claimed jobs added, without which a return to the queue would lose it.
`KeysFit` says that keys are handed out in order and that no dispatched job has
the key of a row that still waits: a second start of a handoff would need such a
row, which gives `HandoffStartedOnce`.

What the worker read (`ReadsFit`). Between reading rows and writing one of them
anything may happen, so nothing is said of the rows as they are now; what was
read still fits its job, because a job's task and contract never change and a
job that is over stays over. `Evolves` states this of a step once, and each step
of the users, the tools and the worker is shown to satisfy it.

Where the worker stands (`PlaceFits`). Before it gives a row up its job is over;
before it hands a result over, the job it read is completed, with the answer
that the result says, and still will be when the transaction compares the row.
`ReviewIsEarned` follows from this and from Advance's comparison.

`NoSelectionLoop` has an invariant of its own beside `CInv`, because it compares
two counts: selection turns begun, and `paid`, the turns that handoffs pay for,
with the turns a crash cut short. A turn is for the rows of one handoff in one
project, a pair of a key and a project. A recheck keeps the project of each row,
also of a task that has moved since, so that one handoff may be of rows of several
projects; it pays for a turn in each. `PaidInv` gives every turn that may still
begin the pair that pays for it:

- `TurnsFit`: the turns begun, and the pairs that wait in some row or are offered
  to the dispatcher, are together no more than the turns paid for and the crashes.
  Beginning a turn takes one off the second and adds one to the first; while it
  lasts, what it was offered may still wait, and a crash may cut it short.
- `OfferedFit`: what is offered of a pair is all of it that waits, so that the
  turn leaves nothing behind for which another one could be begun.

The counting itself is by the cardinality of the finite set of pairs that wait.

`LifecycleStep` maps every insert, made by a user, a resumed session, the
dispatcher or a restart, to `Insert`: all of them check that the task has no
active job in the statement that inserts. Every cancellation, the release of
many tasks among them, is one `Cancel`.

### Project chats

`ProjectChat_proofs` proves `TypeOK`, `OneTurnPerMessage`, `SessionContinues`,
`TurnInFlightIsHeld`, `StopRevokesWrites` and `TurnNeverReplayed` from `PInv`.
Its parts: rows are inserted in the order of their numbers and have no session
before they run (`Rows`); a key has one row in its conversation (`OneRow`), and
what the browser was told is in a row (`Recorded`), which gives
`OneTurnPerMessage`; an active turn is the last one of its conversation
(`ActiveIsLast`), and the conversation's session is that of its last turn that
had one (`Latest`). The last two are what makes `SessionContinues` inductive: a
session that is stored late is the latest, because nothing could be inserted
behind an active turn. `Running` ties the runner to its turn, and `StopHolds`
says that a turn whose stop was accepted does not run again.

### Documents

`Editors_proofs` proves `DocTypeOK`, `AutosaveIsArmed`, and that the editor and
its store implement `SharedText`. `DInv` says that every copy of the document,
wherever it is kept (a session's saved version, an answer, the cache, a refetch,
a reload, a deletion), is `Copied`: its revision is not above the row's, its
text is contained in the row's, and at the row's revision it is the row's text.
A session shows what it has saved and what it is saving, and a save under way
started from the last version it knows. So a PUT with the row's revision carries
a text that contains the row's, and a DELETE with it was asked for by a user who
was shown all of it: this is the refinement mapping's `shown`.

### Task descriptions

`Editors_proofs` proves `BodyTypeOK`, `EditsAreSavedOrReported`,
`FreshEditorOverwritesNothing` and `RefusedOnlyForOthers`, for any number of
visits of both views, opened at any moment. `BodyInv` is `Sound` (types, one open
view) and `OwedFit` in every state, and `Chain` where the editor is `fresh`.

- `OwedFit`: an edit typed in the drawer that is still owed is in the editor
  beyond what it believes to be stored, in a save that waits, or in the one under
  way. Closing the view moves it from the first to the second.
- `SavesFit`, the chain: the tab's revision is contained in the save under way,
  that one in the saves that wait behind it, in their order, and the last one in
  the editor (`Covered`). So whichever save is next contains the text whose ETag it
  will carry, and a PUT that matches keeps what it replaces.
- `AnswersFit`, with `KnownFits` and `GrownBy`: what the tab knows is in the body,
  and what the body has besides was written by others, or by a save whose answer
  was lost. This gives `RefusedOnlyForOthers`.
- `ReadsFit`: a read is alone. It holds when the view was opened at rest, and its
  editor took the answer of its own read; an editor mounted with a cached text
  while a refetch is under way, or one whose read was overtaken by a save, breaks
  the chain at its last link, when an answer moves the revision and not the editor.

### Scheduled jobs

`RepeatedRequests_proofs` proves `JobsTypeOK`, `OccurrenceUsesOneVersion` and
`RepeatIsAnswered`. `JInv` says of every copy of the job and of the template
that a call of Fire or the browser holds that its revision is not above the
row's, and that a copy of the same revision is the same job; revisions only
grow. A call that passes `SameRevision` therefore inserts what the row says now.
A refusal is given in one place only (`ConflictStep`), behind the lookup of the
key.

### The composer

`RepeatedRequests_proofs` proves `ComposerTypeOK` and `ConversationIsLinear`. The
property is nearly inductive; what it needs besides is that a call that waits
for its transaction has a decision for the input it sent (`SInv`).

### Environments

`Environments_proofs` proves `EnvTypeOK`, `PlacesAreKept` and
`CleanupIsConfirmed`, with people who act at any moment, failing commands, late
observations and restarts of the process. `EnvInv` is the types with two parts:

- `PlacesHold`: the rows that are to run (`PlacesTaken`) are all counted by the
  statement that gives out a place, and they are at most `MaxRunning`. A row is
  meant to run only by a statement that has counted, and no observation changes
  what is desired.
- `OpsFit`: an operation starts something only with a copy that is to run, and
  stores "stopped" or "deleted" only when the pods are gone (`CopyFits`). This is
  what `CleanupIsConfirmed` needs, because a row is called so by an observation and
  by nothing else.

What is not proved, because it is false, is that pods run only for rows that hold
a place: finding 7.

### Workflows and stages

`WorkflowStages_proofs` proves `StagesTypeOK`, `ReferencesHold`,
`NoTaskLeftBehind` and `MoveStoresWhatIsShown`, for any number of tabs, projects,
tasks, stages and requests, and any rows to begin with that the constraints admit
(`InitialRowsHold`). `StagesInv` is `ReferencesHold` with what the steps need to
keep it: the rows are what the schema says (`RowsHold`), and what a request has
read has the form of its kind (`RequestsHold`). Nothing is said of the truth of
what was read, because it may be old. A write is shown to keep the references by
the constraint it meets, and never by the count the service made before:
DeleteWriteStep uses `Unreferenced` of the rows as they are after the moves,
CreateWriteStep the foreign key on the workflow, SwitchWriteStep the three keys
of `SwitchSucceeds`. So the counts are there for the message to the user, and the
constraints for the data. `NoTaskLeftBehind` needs no invariant beyond the types
of the rows: the catch-all runs behind the mapping in one transaction
(`SwitchedRow`).

Types need more, since positions are numbers that renumbering writes. `TInv` adds
that rows, snapshots and requests only contain stages, positions and orders of
their kind (`StagesFit`, `TasksFit`, `SeenFits`, `AskedFit`, `RequestsFit`).

`MoveStoresWhatIsShown` compares two programs: the page removes the dragged block
from the order it shows and puts it back before the card it was dropped on; the
server reads the rows, takes them in the order of position, and splices the block
in before the stage it was sent. `PageSplicesAlike` is the lemma that both are the
same operator on the same order, and `RenumberedStores` that an order written as
positions is the order read back. Since a proof about `SelectSeq` would have to
instantiate an operator, the rows a block leaves are taken by their rank
(`Picked`): the k-th of them is the one with k - 1 of them before it. `Ranks` and
`PickedLists` show, by counting finite sets, that this lists each of them once and
in order.

### The composed instance

The run `application` moves one part per behaviour and leaves the others where
they start. `MCApplication_proofs` proves that this is no specification of its
own: each of its behaviours satisfies the specification of every part
(`PartsAreTheirOwn`), for the parts that stand still because a specification
admits stuttering. With the type theorems of the parts this gives
`ApplicationTypeCorrect`.

### Only model-checked

Liveness: `WorkEnds`, `QueuedMovesOn` and `WaitingMovesOn` of Conductor, and the
six properties of `loops`. They rest on fairness and ENABLED, which is outside
the prover's reach. Every invariant, action property and refinement of the
passing runs is stated by a theorem, for the specification of its part.
What the violation runs refute cannot be proved, of course; they remain TLC's.

## 5. What the checks show

The queue's promises hold as the code is written, with crashes and failing
statements, and so do those of Conductor, of the chats, the jobs, the composer,
the previews and the workflows, with seven exceptions that come from the code.

**Finding 1, `changed_content`.** `Documentation/conductor-mode.md:17` lists
"changed task content" among what does not enter review. BeginJob refuses a
start when the text changed since the selection, but `reconcile` does not look
again when the run has finished (`conductorService.go:305-322`; its planning
phase does, at line 258). The edits are possible: agents are refused while the
task has an owner, but people are not (`taskRepo.go:333`), and the run shows
that the handoff is appended and the task moved to review for a text the agent
did not have.

**Finding 2, `refused_start`.** When BeginJob refuses a job, the service cancels
it and sets the row to "held" or "needs_context" with the reason. It calls
SetState with a row built from the job (`conductorService.go:400`), which has no
selection key. SetState matches on the key (`conductorRepo.go:223`), so a row
from "send" is not found; the next Tick sees a queued row with a canceled job
and gives it up as "failed", without the reason. The row still leaves "queued",
which is why `QueuedMovesOn` holds.

**Finding 3, `stopped_turn`.** `finish` of a chat turn reads the status
(`projectchat/chat.go:330`), decides, and writes its decision over a turn that
is running or canceling (line 348). A stop accepted between the two is lost: the
turn the user stopped is shown as completed. `Documentation/project-chats.md:19`
says "Stop immediately revokes writes and cancels the model turn"; the revoking
holds (`StopRevokesWrites`), the cancel does not. FinishAI has the same two
statements and keeps the cancel, because its UPDATE looks at the status again
(`aiRepo.go:103-104`).

**Finding 4, `drafts_retained`.** A document is left while a save is under way.
The cleanup waits for the flush and then takes the session out of the Map if no
error is shown and its own component is not mounted (`documents-view.tsx:352`).
`mounted` belongs to the old component: if the document was opened again in the
meantime, the new editor goes on with the same session, which is then no longer
in the Map. Its edits are out of reach when it is left and its save fails, while
`documents-view.tsx:39` promises to "Retain unsaved edits across tab/route
navigation, including failed requests".

**Finding 5, `own_edit_overwritten`.** `task-body-revision.ts:1-2` says that the
editor keeps its read revision "until a save succeeds or it is reopened" and that
background updates "must not advance this baseline". But one ETag serves every
editor and every answer sets it. In the drawer alone, with nobody else writing:
the drawer is closed and its PUT starts; it is opened again, and its GET is
answered with the old body before the PUT has stored; the editor mounts the old
text; the PUT's answer advances the ETag (`useTaskMutation.ts:205`). The next save
carries the new ETag with the old text, is accepted, and takes away the edit that
the user had saved. On the task's page the same happens to what an agent wrote:
the page mounts its editor with the cached description while the refetch is under
way, and the answer advances the ETag (`useTaskQuery.ts`), not the editor.
`FreshEditorOverwritesNothing` says what is left: a view that was opened at rest
and whose editor took the answer of its own read overwrites nothing.

**Finding 6, `refused_own_write`.** In the same reopening the GET may read the old
body before the PUT stores, and be answered after the PUT's answer. It then sets
the ETag back (`useTaskQuery.ts:40`), and the next save is refused with "Task
description changed elsewhere" (`taskHandler.go:114`), although nobody else wrote,
no answer was lost and nothing changed elsewhere. The edits are not lost: they are
in the editor, with the error.

**Finding 7, `stopped_preview_runs`.** The controller's tick lists the rows and
launches from these copies (`environments/service.go:226-252`); the handlers that
write rows do not take its lock. A preview is stopped, started and stopped again,
and the tick has listed the row between the start and the second stop, while the
cleanup of the first stop is still under way. That cleanup reports "stopped", which
the row accepts, since it is desired again, and its operation is removed. The tick
finds no operation and launches the old copy, which says running: pods start for a
row that is stopped and holds no place. Stopped rows are not listed any more
(`store.go:86-88`), so nothing stops the pods, while another preview takes the
place. `store.go:123-124` says "Keep the reservation until cleanup confirms there
are no running pods." What holds of the rows is `PlacesAreKept`, and of the moment
a place is given away `CleanupIsConfirmed`.

Known limits of the code that the models contain and no property forbids:

- A failing statement in `finish` leaves the job running until the next start of
  the process (`explicit.go:49-61`). `InFlightIsHeld` is therefore stated for
  behaviours without such failures, and liveness is checked without them.
- `Fail` has no condition on the status (`agentJobRepo.go:277`), so a job being
  canceled may end as failed. It is not completed, and the property asks no more.
- Resuming a session keeps the row's old project when the task moved
  (`chatRepo.go:118`), and so does a recheck, with a new selection key. Tasks
  rechecked together may then wait in two projects under one key, and each
  project begins a selection turn of its own; `paid` counts both.
- DeferTask recognises a row by task and state alone (`conductorDispatchRepo.go:78`).
- Environments: a preview that has just failed is started once more from an old
  list: the tick skips it by the state in the copy (`service.go:239`), which says
  building or starting when the operation fails and is removed (line 248) between
  the list and the launches, although `kubernetes-architecture.md:85` says that
  there is no automatic retry.
- SessionComposer: when a reply is lost whose turn was stored, the queries are
  read again, the cursor advances, and the next Send is a new input with a new
  key: the message becomes two turns, although `task-session-composer.tsx:96`
  says "Keep the draft and idempotency key if a response was lost." When "Ask
  only" was lost and "Resume work" is clicked with the same key, the answer is
  the question's turn.
- ScheduledJobs: after a lost answer of "Run now" the next click repeats the old
  key and is answered with the old task. The card and the editor keep separate
  keys, although the comment at `use-jobs.ts:77` speaks of a shared one. Work on
  the task of an old run may overlap a new run. When that task was deleted in the
  meantime, the kept key is refused until the button is mounted anew.
- Documents: an edit made during a save that then fails leaves its timer armed,
  beside the error. TaskText: leaving the task's page drops what the debounce of
  250 ms has not committed; `EditsAreSavedOrReported` is about the drawer.
- Two tabs switch one project to two workflows (`projectService.go:74` reads the
  old workflow before the transaction). The second looks for tasks on stages of
  the workflow the first has left, finds none, and sets `project.workflow` all
  the same: the tasks stand on stages that the project's board does not show,
  although `projectRepo.go:247` says that the tasks move "onto the new workflow
  ... all in one tx". The trace is SwitchRead, SwitchStages of both tabs, then
  both SwitchWrites. `NoTaskLeftBehind` speaks of the workflow a switch has read.
- A PUT of a stage reads the type, and writes it back with the row
  (`stageService.go:89-95`): a bulk change of types in between is undone, though
  the comment at line 78 says that the PUT does not change the type.
- BulkSetType changes the type of stages that hold tasks and no row of `task`
  (`stageRepo.go:312`); `timeCompleted` follows only a task's own moves, so tasks
  of a stage made done are not completed (`Documentation/SAD.md:194` says they
  are when "its stage becomes `done`").
- A workflow deleted between the two reads of its duplication
  (`workflowService.go:173` and `:185`) gives a copy without any stage, against
  "Exactly one `open` stage per workflow" (`SAD.md:191`).
- Renaming or pinning a project writes back the workflow its tab was shown
  (`projectRepo.go:106`), and so may undo a switch while the tasks stay.
- Reorder checks its permutation before its transaction (`stageService.go:171`):
  stages created or deleted in between leave equal positions or gaps, which the
  next move repairs (`MoveStoresWhatIsShown`).
- Project chat: a message that is answered while its view is not mounted stays
  in the box as a draft, without its key.

## 6. Not modelled

- **Worktrees and branches**: ReserveRun and MergeBranch are sequences of git
  commands. What could go wrong is in what git does between them, which is not
  in this code; the order of the commands alone violates nothing.
- **Harness and its protocols**: processes, pipes and JSON lines. Their effect on
  the queue is the outcome of a run, which is in the models with every value it
  can have.
- **Database and backup**: migrations and restore run before anything else and
  alone.
- **Task types, relationships, checklists, personas**: single statements that
  create, change and order rows, with no protocol between them. Where another
  part depends on one of them it is in that part's model, as the blockers of a
  task are in Conductor's.
- **The board's optimistic updates**: `useTaskMutation` shows a change before it
  is stored and takes it back on an error. The requests it sends are in
  WorkflowStages, with the whole row as the tab was shown it; a column that the
  last writer wins has no revision that a property could be stated about.
- **The rest of the browser application**: the component library, editor plugins,
  tables, icons, colours, the calendar and settings, by far most of its lines,
  present what the server holds and keep no state of their own across requests.
  This is why the mapped share of all lines is small: what is modelled is the
  part whose steps depend on their order.
- **Markdown and intent, evaluations, agent sync**: text to text, or offline tools.
- Failing SQL statements are modelled for the queue and for the chat's finish;
  in Conductor they would make its instances too large for a run.

Six hazards in `PROJECT.json` have no property, each with the reason; five of
them are among the known limits of section 5 or follow from them, and one is in git.
