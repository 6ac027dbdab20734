--------------------------- MODULE WorkflowStages ---------------------------
(***************************************************************************)
(* Workflows, their stages, and the projects and tasks that stand on them: *)
(* stageService.go, workflowService.go, the workflow half of               *)
(* projectService.go with their repositories, and the pages that ask       *)
(* (stage-list.tsx, delete-stages-dialog.tsx, switch-workflow-dialog.tsx,  *)
(* kanban-view.tsx).                                                       *)
(*                                                                         *)
(* A service reads with one statement, decides, and writes with another;   *)
(* requests of several tabs run side by side, so what was read may have    *)
(* changed by then. Only the database's own constraints are evaluated with *)
(* the write. A tab asks about what it was shown last. Ids of deleted rows *)
(* are given out again: SQLite takes the largest id in use and adds one.   *)
(***************************************************************************)
EXTENDS Naturals, Sequences, SequencesExt

CONSTANTS
    Browsers,       \* browser tabs; each has at most one request under way
    Projects,
    Cards,          \* ids of tasks
    InitialStages,  \* the rows of stage at the start
    InitialHome,    \* project.workflow at the start
    InitialTasks,   \* the rows of task at the start
    Asked,          \* which requests people make in this instance
    MaxStageId, MaxWorkflowId, \* bounds on new rows
    MaxRequests     \* bound on requests

VARIABLES
    workflows,  \* ids of the rows of workflow
    stages,     \* the rows of stage, by id
    home,       \* project.workflow, or NoWorkflow for a project that is not there
    task,       \* the rows of task, or NoCard for a task that is not there
    seen,       \* what each tab was shown last
    request,    \* the request of each tab that the server works on, and what it has read
    asked       \* number of requests made

stagesVars == <<workflows, stages, home, task, seen, request, asked>>
rows == <<workflows, stages, home, task>>

(* "todo" differs from "doing" in its name only. *)
CreatableTypes == {"doing", "done"}
StageTypes == {"open"} \cup CreatableTypes
StageRows == [workflow : 1..MaxWorkflowId, position : Nat \ {0}, type : StageTypes]
NoWorkflow == 0
NoCard == [project |-> "none"]
TaskRows == [project : Projects, stage : 1..MaxStageId, completed : BOOLEAN]
NoRequest == [op |-> "none"]

(* The database an instance starts with is one that its constraints admit. *)
ASSUME InitialRowsHold ==
    /\ DOMAIN InitialStages \subseteq 1..MaxStageId
    /\ \A s \in DOMAIN InitialStages : InitialStages[s] \in StageRows
    /\ InitialHome \in [Projects -> {InitialStages[s].workflow : s \in DOMAIN InitialStages}]
    /\ InitialTasks \in [Cards -> TaskRows \cup {NoCard}]
    /\ \A t \in Cards : InitialTasks[t] # NoCard => InitialTasks[t].stage \in DOMAIN InitialStages

(* Stages, workflows and requests are bounded by numbers. *)
ASSUME StageBoundsAssumption == {MaxStageId, MaxWorkflowId, MaxRequests} \subseteq Nat

AllRequests == {"create", "update", "setType", "delete", "deleteMany", "reorder", "move",
                "newWorkflow", "duplicate", "deleteWorkflow", "switch", "putProject",
                "newProject", "deleteProject", "putTask", "transition", "newTask", "deleteTask"}

(* What a tab is shown: the workflow's page and the project's board. *)
Shown == [stage |-> stages, home |-> home, task |-> task]

StagesInit ==
    /\ stages = InitialStages
    /\ workflows = {InitialStages[s].workflow : s \in DOMAIN InitialStages}
    /\ home = InitialHome
    /\ task = InitialTasks
    /\ seen = [b \in Browsers |-> Shown]
    /\ request = [b \in Browsers |-> NoRequest]
    /\ asked = 0

-----------------------------------------------------------------------------
(* Tables *)

OfWorkflow(table, w) == {s \in DOMAIN table : table[s].workflow = w}

(* ORDER BY position: rows of equal position come in any order. *)
Orders(table, w) ==
    LET rowsOf == OfWorkflow(table, w)
    IN {o \in [1..Cardinality(rowsOf) -> rowsOf] :
           \A i, j \in DOMAIN o :
              i < j => o[i] # o[j] /\ table[o[i]].position <= table[o[j]].position}

(* One more than the largest: the id of a new row (INTEGER PRIMARY KEY      *)
(* without AUTOINCREMENT) and the position of a new stage.                  *)
NextAfter(used) == {n \in {1} \cup {m + 1 : m \in used} : \A m \in used : m < n}

TasksIn(s) == {t \in Cards : task[t] # NoCard /\ task[t].stage = s}
TasksOf(p) == {t \in Cards : task[t] # NoCard /\ task[t].project = p}

Positions(w) == {stages[s].position : s \in OfWorkflow(stages, w)}

(* Writing a task's stage and timeCompleted, and the trigger on stage. *)
Written(tk, s, completed) ==
    [project |-> tk.project, stage |-> s,
     completed |-> IF s = tk.stage THEN completed ELSE stages[s].type = "done"]
Moved(tk, s) == Written(tk, s, tk.completed)

(* variant: task.stage without ON DELETE RESTRICT *)
UnreferencedByNobody(s, tasks) == TRUE

(* task.stage ON DELETE RESTRICT, for the rows as the transaction leaves them. *)
Unreferenced(s, tasks) == \A t \in Cards : tasks[t] # NoCard => tasks[t].stage # s

(* oneOpenStagePerWorkflow *)
OneOpen(table) ==
    \A s, r \in DOMAIN table :
        (table[s].type = "open" /\ table[r].type = "open"
            /\ table[s].workflow = table[r].workflow) => s = r

(* The table with new rows, numbered from first. *)
WithStages(first, w, contents) ==
    [s \in DOMAIN stages \cup first..(first + Len(contents) - 1) |->
        IF s \in DOMAIN stages THEN stages[s]
        ELSE [workflow |-> w, position |-> contents[s - first + 1].position,
              type |-> contents[s - first + 1].type]]
Only(table, ids) == [s \in ids |-> table[s]]

-----------------------------------------------------------------------------
(* Requests *)

ShownWorkflows(b) == {seen[b].stage[s].workflow : s \in DOMAIN seen[b].stage}

Ask(b, op) ==
    /\ request[b] = NoRequest
    /\ op \in Asked
    /\ asked < MaxRequests
    /\ asked' = asked + 1

(* The service has read what it decides on; the write is a later statement. *)
Goes(b, r) ==
    /\ request' = [request EXCEPT ![b] = r]
    /\ UNCHANGED <<rows, seen>>

Ends(b) ==
    /\ request' = [request EXCEPT ![b] = NoRequest]
    /\ UNCHANGED <<seen, asked>>

(* The statement violates a constraint, or the service refuses. *)
Refused(b) == Ends(b) /\ UNCHANGED rows

(* A tab fetches its pages again. *)
Load(b) ==
    /\ request[b] = NoRequest
    /\ seen[b] # Shown
    /\ seen' = [seen EXCEPT ![b] = Shown]
    /\ UNCHANGED <<rows, request, asked>>

-----------------------------------------------------------------------------
(* Creating and editing stages *)

CreateRead(b) ==
    \E w \in ShownWorkflows(b), type \in CreatableTypes :
        \E position \in NextAfter(Positions(w)) :
            /\ Ask(b, "create")
            /\ Goes(b, [op |-> "create",
                        row |-> [workflow |-> w, position |-> position, type |-> type]])

CreateWrite(b) ==
    LET row == request[b].row
    IN /\ request[b].op = "create"
       /\ \/ /\ row.workflow \in workflows
             /\ \E id \in NextAfter(DOMAIN stages) :
                   /\ id <= MaxStageId
                   /\ stages' = WithStages(id, row.workflow, <<row>>)
             /\ Ends(b)
             /\ UNCHANGED <<workflows, home, task>>
          \/ row.workflow \notin workflows /\ Refused(b)

(* The type an update writes: the one persisted when the request came. *)
PinnedType(b, s) == stages[s].type

(* A PUT carries the whole row as the tab was shown it. *)
UpdateRead(b) ==
    \E s \in DOMAIN seen[b].stage \cap DOMAIN stages :
        /\ Ask(b, "update")
        /\ Goes(b, [op |-> "update", id |-> s,
                    position |-> seen[b].stage[s].position, type |-> PinnedType(b, s)])

UpdateWrite(b) ==
    LET r == request[b]
        after == [stages EXCEPT ![r.id].position = r.position, ![r.id].type = r.type]
    IN /\ r.op = "update"
       /\ \/ /\ r.id \in DOMAIN stages
             /\ OneOpen(after)
             /\ stages' = after
             /\ Ends(b)
             /\ UNCHANGED <<workflows, home, task>>
          \/ /\ r.id \in DOMAIN stages => ~OneOpen(after)
             /\ Refused(b)

(* The stages a tab can select together: those of one workflow. *)
Selections(b) ==
    UNION {SUBSET OfWorkflow(seen[b].stage, w) : w \in ShownWorkflows(b)} \ {{}}

NotOpen(ids) == {s \in ids \cap DOMAIN stages : stages[s].type # "open"}

SetTypeRead(b) ==
    \E ids \in Selections(b), type \in CreatableTypes :
        /\ Ask(b, "setType")
        /\ Goes(b, [op |-> "setType", ids |-> NotOpen(ids), type |-> type])

SetTypeWrite(b) ==
    /\ request[b].op = "setType"
    /\ stages' = [s \in DOMAIN stages |->
                    IF s \in NotOpen(request[b].ids)
                    THEN [stages[s] EXCEPT !.type = request[b].type] ELSE stages[s]]
    /\ Ends(b)
    /\ UNCHANGED <<workflows, home, task>>

-----------------------------------------------------------------------------
(* Deleting stages *)

(* Every destination exists: a statement of its own before the transaction. *)
Settles(b, ids, mapping, guarded) ==
    Goes(b, [op |-> IF mapping = <<>> THEN "removing" ELSE "checking",
             ids |-> ids, mapping |-> mapping, guarded |-> guarded])

(* validateMoveDestinations without its query *)
MayMove(mapping, deleting) == \A s \in DOMAIN mapping : mapping[s] \notin deleting

(* DELETE /api/stage/{id}, with or without a destination *)
DeleteRead(b) ==
    \E s \in NotOpen(DOMAIN seen[b].stage) :
        /\ Ask(b, "delete")
        /\ \/ TasksIn(s) = {} /\ Settles(b, {s}, <<>>, FALSE)
           \/ \E d \in OfWorkflow(seen[b].stage, seen[b].stage[s].workflow) :
                 MayMove(s :> d, {s}) /\ Settles(b, {s}, s :> d, TRUE)

(* The dialog has a destination for each stage that it shows with tasks. *)
ShownWithTasks(b, ids) ==
    {s \in ids : /\ seen[b].stage[s].type # "open"
                 /\ \E t \in Cards : seen[b].task[t] # NoCard /\ seen[b].task[t].stage = s}

DeleteManyRead(b) ==
    \E ids \in Selections(b) :
        LET w == seen[b].stage[CHOOSE s \in ids : TRUE].workflow
            deleting == NotOpen(ids)
            needy == {s \in deleting : TasksIn(s) # {}}
        IN \E chosen \in [ShownWithTasks(b, ids) -> OfWorkflow(seen[b].stage, w)] :
              /\ deleting # {}
              /\ needy \subseteq DOMAIN chosen
              /\ MayMove(Only(chosen, needy), deleting)
              /\ Ask(b, "deleteMany")
              /\ Settles(b, deleting, Only(chosen, needy), TRUE)

DestinationsChecked(b) ==
    LET r == request[b]
    IN /\ r.op = "checking"
       /\ \/ /\ \A s \in DOMAIN r.mapping : r.mapping[s] \in DOMAIN stages
             /\ Goes(b, [r EXCEPT !.op = "removing"])
             /\ UNCHANGED asked
          \/ ~(\A s \in DOMAIN r.mapping : r.mapping[s] \in DOMAIN stages) /\ Refused(b)

(* The loop over the mapping takes the stages in any order, which is as *)
(* good as at once: no destination is a source.                         *)
Rerouted(mapping) ==
    [t \in Cards |-> IF task[t] # NoCard /\ task[t].stage \in DOMAIN mapping
                     THEN Moved(task[t], mapping[task[t].stage]) ELSE task[t]]

(* Every row that is rerouted finds its destination. *)
Reachable(mapping, ts) ==
    \A t \in ts : task[t].stage \in DOMAIN mapping => mapping[task[t].stage] \in DOMAIN stages

(* What the DELETE takes: the plain one does not ask for the type. *)
Removed(r) == IF r.guarded THEN NotOpen(r.ids) ELSE r.ids \cap DOMAIN stages

DeleteSucceeds(r) ==
    /\ Reachable(r.mapping, {t \in Cards : task[t] # NoCard})
    /\ \A s \in Removed(r) : Unreferenced(s, Rerouted(r.mapping))

DeleteWrite(b) ==
    LET r == request[b]
    IN /\ r.op = "removing"
       /\ Ends(b)
       /\ UNCHANGED <<workflows, home>>
       /\ \/ /\ DeleteSucceeds(r)
             /\ stages' = Only(stages, DOMAIN stages \ Removed(r))
             /\ task' = Rerouted(r.mapping)
          \/ /\ ~DeleteSucceeds(r)
             /\ UNCHANGED <<stages, task>>

-----------------------------------------------------------------------------
(* The order of stages *)

IndexOf(order, s) == CHOOSE i \in DOMAIN order : order[i] = s

(* What stands at some of the indices of an order, in that order. *)
Picked(order, at) ==
    [k \in 1..Cardinality(at) |->
        order[CHOOSE i \in at : Cardinality({j \in at : j < i}) = k - 1]]

Others(order, ids) == Picked(order, {i \in DOMAIN order : order[i] \notin ids})
Block(order, ids) == Picked(order, {i \in DOMAIN order : order[i] \in ids})
Spliced(rest, block, k) == SubSeq(rest, 1, k) \o block \o SubSeq(rest, k + 1, Len(rest))

(* The next stage after index i that is not selected; 0: none. *)
NextOther(order, ids, i) ==
    LET later == {j \in DOMAIN order : j > i /\ order[j] \notin ids}
    IN IF later = {} THEN 0 ELSE order[Min(later)]

(* Positions 1, 2, ... in the given order, for the stages that w still has. *)
Renumbered(w, order) ==
    [s \in DOMAIN stages |->
        IF s \in ToSet(order) /\ stages[s].workflow = w
        THEN [stages[s] EXCEPT !.position = IndexOf(order, s)] ELSE stages[s]]

(* One stage is dragged: the page sends the whole order it now shows. *)
ReorderRead(b) ==
    \E w \in workflows : \E items \in Orders(seen[b].stage, w) : \E i, j \in DOMAIN items :
        LET order == InsertAt(RemoveAt(items, i), j, items[i])
        IN /\ i # j
           /\ ToSet(order) = OfWorkflow(stages, w)
           /\ Ask(b, "reorder")
           /\ Goes(b, [op |-> "reorder", workflow |-> w, order |-> order])

ReorderWrite(b) ==
    /\ request[b].op = "reorder"
    /\ stages' = Renumbered(request[b].workflow, request[b].order)
    /\ Ends(b)
    /\ UNCHANGED <<workflows, home, task>>

(* A selection is dropped on a stage: what the page sends, and shows. *)
BeforeId(items, ids, over) ==
    IF over \in ids THEN NextOther(items, ids, IndexOf(items, over)) ELSE over
DroppedOrder(items, ids, over) ==
    LET rest == Others(items, ids)
        before == BeforeId(items, ids, over)
    IN Spliced(rest, Block(items, ids),
               IF before = 0 THEN Len(rest) ELSE IndexOf(rest, before) - 1)

(* The server reads its own order, in the transaction that rewrites it. *)
Anchor(current, ids, before) ==
    IF before \notin ToSet(current) THEN 0
    ELSE IF before \in ids THEN NextOther(current, ids, IndexOf(current, before)) ELSE before

(* variant: the block lands after its anchor *)
InsertAfterAnchor(current, ids, before) ==
    IF Anchor(current, ids, before) = 0 THEN Len(Others(current, ids))
    ELSE IndexOf(Others(current, ids), Anchor(current, ids, before))

InsertIndex(current, ids, before) ==
    IF Anchor(current, ids, before) = 0 THEN Len(Others(current, ids))
    ELSE IndexOf(Others(current, ids), Anchor(current, ids, before)) - 1

MovedOrder(current, ids, before) ==
    Spliced(Others(current, ids), Block(current, ids), InsertIndex(current, ids, before))

(* items: the order the page shows; current: the order the server reads *)
BulkMove(b, w, items, current, ids, over) ==
    /\ Cardinality(ids) > 1
    /\ Ask(b, "move")
    /\ UNCHANGED <<workflows, home, task, seen, request>>
    /\ stages' = Renumbered(w, MovedOrder(current, ids, BeforeId(items, ids, over)))

-----------------------------------------------------------------------------
(* Workflows *)

(* A workflow and its stages are one transaction. *)
CreateWithStages(contents) ==
    /\ \E w \in NextAfter(workflows), first \in NextAfter(DOMAIN stages) :
          /\ w <= MaxWorkflowId
          /\ first + Len(contents) - 1 <= MaxStageId
          /\ workflows' = workflows \cup {w}
          /\ stages' = WithStages(first, w, contents)
    /\ UNCHANGED <<home, task>>

DefaultStages == <<[position |-> 1, type |-> "open"], [position |-> 2, type |-> "doing"],
                   [position |-> 3, type |-> "done"]>>

CreateWorkflow(b) ==
    /\ Ask(b, "newWorkflow")
    /\ CreateWithStages(DefaultStages)
    /\ UNCHANGED <<seen, request>>

DuplicateFind(b) ==
    \E w \in ShownWorkflows(b) \cap workflows :
        Ask(b, "duplicate") /\ Goes(b, [op |-> "duplicate", workflow |-> w])

DuplicateRead(b) ==
    /\ request[b].op = "duplicate"
    /\ UNCHANGED asked
    /\ \E order \in Orders(stages, request[b].workflow) :
          Goes(b, [op |-> "copy",
                   contents |-> [i \in DOMAIN order |->
                                    [position |-> stages[order[i]].position,
                                     type |-> stages[order[i]].type]]])

DuplicateWrite(b) ==
    /\ request[b].op = "copy"
    /\ CreateWithStages(request[b].contents)
    /\ Ends(b)

(* Each workflow's projects are counted before the one DELETE. *)
Unused(ids) == {w \in ids : \A p \in Projects : home[p] # w}

DeleteWorkflowRead(b) ==
    \E ids \in SUBSET ShownWorkflows(b) :
        /\ Unused(ids) # {}
        /\ Ask(b, "deleteWorkflow")
        /\ Goes(b, [op |-> "deleteWorkflow", ids |-> Unused(ids)])

(* project.workflow and, through the cascade to stage, task.stage *)
DeletableWorkflows(ids) ==
    /\ Unused(ids) = ids
    /\ \A w \in ids : \A s \in OfWorkflow(stages, w) : Unreferenced(s, task)

DeleteWorkflowWrite(b) ==
    LET ids == request[b].ids
    IN /\ request[b].op = "deleteWorkflow"
       /\ \/ /\ DeletableWorkflows(ids)
             /\ workflows' = workflows \ ids
             /\ stages' = Only(stages, {s \in DOMAIN stages : stages[s].workflow \notin ids})
             /\ Ends(b)
             /\ UNCHANGED <<home, task>>
          \/ ~DeletableWorkflows(ids) /\ Refused(b)

-----------------------------------------------------------------------------
(* Projects *)

ShownStages(b, p) == OfWorkflow(seen[b].stage, seen[b].home[p])

(* The dialog maps the stages it shows with tasks of the project. *)
ShownSources(b, p) ==
    {s \in ShownStages(b, p) :
        \E t \in Cards : /\ seen[b].task[t] # NoCard
                         /\ seen[b].task[t].project = p /\ seen[b].task[t].stage = s}

SwitchRead(b) ==
    \E p \in Projects, new \in ShownWorkflows(b) :
        \E mapping \in [ShownSources(b, p) -> OfWorkflow(seen[b].stage, new)] :
            /\ seen[b].home[p] \notin {NoWorkflow, new}
            /\ home[p] \notin {NoWorkflow, new}
            /\ Ask(b, "switch")
            /\ Goes(b, [op |-> "switch", project |-> p, old |-> home[p], new |-> new,
                        mapping |-> mapping])

OpenStages(w) == {s \in OfWorkflow(stages, w) : stages[s].type = "open"}

(* FirstByType, and the stages of both workflows *)
SwitchStages(b) ==
    LET r == request[b]
        valid == /\ OpenStages(r.new) # {}
                 /\ \A s \in DOMAIN r.mapping :
                       /\ s \in OfWorkflow(stages, r.old)
                       /\ r.mapping[s] \in OfWorkflow(stages, r.new)
    IN /\ r.op = "switch"
       /\ \/ \E open \in OpenStages(r.new) :
                /\ valid
                /\ Goes(b, [op |-> "switching", project |-> r.project, old |-> r.old,
                            new |-> r.new, mapping |-> r.mapping, fallback |-> open])
                /\ UNCHANGED asked
          \/ ~valid /\ Refused(b)

(* The catch-all runs after the mapping, whatever the mapping did. *)
StaysBehind(r, tk) == tk.stage \in OfWorkflow(stages, r.old)

(* variant: no catch-all *)
LeftWhereItIs(r, tk) == tk

CaughtUp(r, tk) == IF StaysBehind(r, tk) THEN Moved(tk, r.fallback) ELSE tk

Switched(r) ==
    [t \in Cards |-> IF t \in TasksOf(r.project) THEN CaughtUp(r, Rerouted(r.mapping)[t])
                     ELSE task[t]]

SwitchSucceeds(r) ==
    /\ r.new \in workflows
    /\ Reachable(r.mapping, TasksOf(r.project))
    /\ \/ r.fallback \in DOMAIN stages
       \/ \A t \in TasksOf(r.project) : ~StaysBehind(r, Rerouted(r.mapping)[t])

SwitchWrite(b) ==
    LET r == request[b]
    IN /\ r.op = "switching"
       /\ Ends(b)
       /\ UNCHANGED <<workflows, stages>>
       /\ \/ /\ home[r.project] # NoWorkflow => SwitchSucceeds(r)
             /\ task' = Switched(r)
             /\ home' = [home EXCEPT ![r.project] = IF @ = NoWorkflow THEN @ ELSE r.new]
          \/ /\ home[r.project] # NoWorkflow /\ ~SwitchSucceeds(r)
             /\ UNCHANGED <<home, task>>

(* Renaming or pinning a project writes the whole row the tab was shown. *)
PutProject(b) ==
    \E p \in Projects :
        /\ home[p] # NoWorkflow /\ seen[b].home[p] # NoWorkflow
        /\ Ask(b, "putProject")
        /\ home' = [home EXCEPT ![p] = IF seen[b].home[p] \in workflows THEN seen[b].home[p] ELSE @]
        /\ UNCHANGED <<workflows, stages, task, seen, request>>

CreateProject(b) ==
    \E p \in Projects, w \in ShownWorkflows(b) \cap workflows :
        /\ home[p] = NoWorkflow
        /\ Ask(b, "newProject")
        /\ home' = [home EXCEPT ![p] = w]
        /\ UNCHANGED <<workflows, stages, task, seen, request>>

DeleteProject(b) ==
    \E p \in Projects :
        /\ home[p] # NoWorkflow
        /\ Ask(b, "deleteProject")
        /\ home' = [home EXCEPT ![p] = NoWorkflow]
        /\ task' = [t \in Cards |-> IF t \in TasksOf(p) THEN NoCard ELSE task[t]]
        /\ UNCHANGED <<workflows, stages, seen, request>>

-----------------------------------------------------------------------------
(* Tasks *)

ShownTasks(b) == {t \in Cards : seen[b].task[t] # NoCard /\ task[t] # NoCard}

(* A card that is dropped on a column, or edited otherwise, goes back whole. *)
PutTask(b) ==
    \E t \in ShownTasks(b) : \E s \in ShownStages(b, seen[b].task[t].project) \cup {seen[b].task[t].stage} :
        /\ s \in DOMAIN stages
        /\ Ask(b, "putTask")
        /\ task' = [task EXCEPT ![t] = Written(@, s, seen[b].task[t].completed)]
        /\ UNCHANGED <<workflows, stages, home, seen, request>>

(* Several cards at once: only the column is sent. *)
BulkUpdate(b) ==
    \E ts \in SUBSET ShownTasks(b) : \E p \in Projects : \E s \in ShownStages(b, p) \cap DOMAIN stages :
        /\ Cardinality(ts) > 1
        /\ \A t \in ts : seen[b].task[t].project = p
        /\ Ask(b, "putTask")
        /\ task' = [t \in Cards |-> IF t \in ts THEN Moved(task[t], s) ELSE task[t]]
        /\ UNCHANGED <<workflows, stages, home, seen, request>>

(* The compare-and-swap of agents and scripts *)
TransitionStage(b) ==
    \E t \in ShownTasks(b) : \E s \in ShownStages(b, seen[b].task[t].project) \cap DOMAIN stages :
        /\ task[t].stage = seen[b].task[t].stage
        /\ Ask(b, "transition")
        /\ task' = [task EXCEPT ![t] = Moved(@, s)]
        /\ UNCHANGED <<workflows, stages, home, seen, request>>

CreateTask(b) ==
    \E t \in Cards, p \in Projects : \E s \in ShownStages(b, p) \cap DOMAIN stages :
        /\ task[t] = NoCard /\ seen[b].task[t] = NoCard
        /\ home[p] # NoWorkflow
        /\ Ask(b, "newTask")
        /\ task' = [task EXCEPT ![t] = [project |-> p, stage |-> s,
                                         completed |-> stages[s].type = "done"]]
        /\ UNCHANGED <<workflows, stages, home, seen, request>>

RemoveTask(b) ==
    \E t \in ShownTasks(b) :
        /\ Ask(b, "deleteTask")
        /\ task' = [task EXCEPT ![t] = NoCard]
        /\ UNCHANGED <<workflows, stages, home, seen, request>>

-----------------------------------------------------------------------------

StagesNext ==
    \/ \E b \in Browsers :
          \/ Load(b) \/ CreateRead(b) \/ CreateWrite(b) \/ UpdateRead(b) \/ UpdateWrite(b)
          \/ SetTypeRead(b) \/ SetTypeWrite(b)
          \/ DeleteRead(b) \/ DeleteManyRead(b) \/ DestinationsChecked(b) \/ DeleteWrite(b)
          \/ ReorderRead(b) \/ ReorderWrite(b)
          \/ CreateWorkflow(b) \/ DuplicateFind(b) \/ DuplicateRead(b) \/ DuplicateWrite(b)
          \/ DeleteWorkflowRead(b) \/ DeleteWorkflowWrite(b)
          \/ SwitchRead(b) \/ SwitchStages(b) \/ SwitchWrite(b)
          \/ PutProject(b) \/ CreateProject(b) \/ DeleteProject(b)
          \/ PutTask(b) \/ BulkUpdate(b) \/ TransitionStage(b) \/ CreateTask(b) \/ RemoveTask(b)
    \/ \E b \in Browsers : \E w \in ShownWorkflows(b) :
          \E items \in Orders(seen[b].stage, w), current \in Orders(stages, w) :
             \E ids \in SUBSET ToSet(items), over \in ToSet(items) :
                BulkMove(b, w, items, current, ids, over)

StagesSpec == StagesInit /\ [][StagesNext]_stagesVars

-----------------------------------------------------------------------------
(* Properties *)

StagesTypeOK ==
    /\ workflows \subseteq 1..MaxWorkflowId
    /\ DOMAIN stages \subseteq 1..MaxStageId
    /\ \A s \in DOMAIN stages : stages[s] \in StageRows
    /\ home \in [Projects -> {NoWorkflow} \cup 1..MaxWorkflowId]
    /\ task \in [Cards -> TaskRows \cup {NoCard}]
    /\ asked \in 0..MaxRequests

(* Every reference holds whatever is deleted next to it: a task's stage     *)
(* exists, a stage's workflow exists, a project's workflow exists. The      *)
(* services count tasks and projects in a statement of their own            *)
(* (stageService.go DeleteStage, workflowService.go DeleteWorkflow), so a   *)
(* task or project that arrives in between meets only the constraints.      *)
ReferencesHold ==
    /\ \A t \in Cards : task[t] # NoCard => task[t].stage \in DOMAIN stages
    /\ \A s \in DOMAIN stages : stages[s].workflow \in workflows
    /\ \A p \in Projects : home[p] = NoWorkflow \/ home[p] \in workflows
    /\ \A t \in Cards : task[t] # NoCard => home[task[t].project] # NoWorkflow

(* A switch of workflow leaves no task of the project on a stage of the     *)
(* workflow it left, not even one that came to a stage the dialog had shown *)
(* empty (projectRepo.go SwitchWorkflow, the catch-all) -- as long as the   *)
(* open stage it read is still one of the new workflow.                     *)
NoTaskLeftBehind ==
    [][\A b \in Browsers :
          LET r == request[b]
          IN (SwitchWrite(b) /\ r.fallback \in OfWorkflow(stages, r.new) /\ home' # home)
                => \A t \in TasksOf(r.project) : task'[t].stage \notin OfWorkflow(stages, r.old)]_stagesVars

(* What the page shows after stages were dropped is what the server has     *)
(* stored, when the page had the server's order before (stage-list.tsx and  *)
(* stageRepo.go BulkMove compute it each on its own); and whatever the      *)
(* positions were, equal ones of two concurrent creations included, they    *)
(* are 1, 2, ... afterwards.                                                *)
MoveStoresWhatIsShown ==
    [][asked' # asked /\ request' = request => \A b \in Browsers : \A w \in ShownWorkflows(b) :
          \A items \in Orders(seen[b].stage, w), current \in Orders(stages, w) :
             \A ids \in SUBSET ToSet(items), over \in ToSet(items) :
                BulkMove(b, w, items, current, ids, over)
                   => /\ {stages'[s].position : s \in OfWorkflow(stages', w)}
                            = 1..Cardinality(OfWorkflow(stages', w))
                      /\ items = current
                            => DroppedOrder(items, ids, over) \in Orders(stages', w)]_stagesVars
=============================================================================
