------------------------ MODULE WorkflowStages_proofs ------------------------
(***************************************************************************)
(* Proofs about WorkflowStages: references hold, a switch of workflow      *)
(* leaves nothing behind, every row keeps its type, and moving stages      *)
(* stores what the page shows, for any number of tabs, projects and tasks  *)
(* and any bounds.                                                         *)
(***************************************************************************)
EXTENDS WorkflowStages, FiniteSetTheorems, TLAPS

(* Rows have their columns; what the columns hold beyond that is not needed. *)
StageRow(r) == "workflow" \in DOMAIN r
TaskRow(r) == /\ r = [project |-> r.project, stage |-> r.stage, completed |-> r.completed]
              /\ r.project \in Projects

RowsHold ==
    /\ workflows \subseteq Nat \ {NoWorkflow}
    /\ DOMAIN stages \subseteq Nat
    /\ \A s \in DOMAIN stages : StageRow(stages[s])
    /\ home \in [Projects -> Nat]
    /\ task = [t \in Cards |-> task[t]]
    /\ \A t \in Cards : task[t] = NoCard \/ TaskRow(task[t])

(* A switch under way is of a project and between two workflows. *)
RequestHolds(r) ==
    /\ "op" \in DOMAIN r
    /\ r.op \in {"switch", "switching"} => r.project \in Projects /\ r.old # r.new

RequestsHold ==
    /\ request = [b \in Browsers |-> request[b]]
    /\ \A b \in Browsers : RequestHolds(request[b])

StagesInv == RowsHold /\ RequestsHold /\ ReferencesHold

-----------------------------------------------------------------------------
(* Rows *)

LEMMA TaskRowExists == ASSUME NEW r, TaskRow(r) PROVE r # NoCard
BY DEF TaskRow, NoCard

(* Moving a task changes its stage and whether it is completed. *)
LEMMA WrittenRow ==
    ASSUME NEW tk, TaskRow(tk), NEW s, NEW c
    PROVE  /\ TaskRow(Written(tk, s, c))
           /\ Written(tk, s, c).stage = s
           /\ Written(tk, s, c).project = tk.project
BY DEF TaskRow, Written

LEMMA MovedRow ==
    ASSUME NEW tk, TaskRow(tk), NEW s
    PROVE  TaskRow(Moved(tk, s)) /\ Moved(tk, s).stage = s /\ Moved(tk, s).project = tk.project
BY WrittenRow DEF Moved

LEMMA ReroutedRow ==
    ASSUME RowsHold, NEW mapping, NEW t \in Cards
    PROVE  /\ task[t] = NoCard => Rerouted(mapping)[t] = NoCard
           /\ task[t] # NoCard =>
                 /\ TaskRow(Rerouted(mapping)[t])
                 /\ Rerouted(mapping)[t].project = task[t].project
                 /\ task[t].stage \in DOMAIN mapping
                       => Rerouted(mapping)[t].stage = mapping[task[t].stage]
                 /\ task[t].stage \notin DOMAIN mapping
                       => Rerouted(mapping)[t].stage = task[t].stage
<1>1. CASE task[t] = NoCard
  BY <1>1 DEF Rerouted
<1>2. CASE task[t] # NoCard
  <2>1. TaskRow(task[t])
    BY <1>2 DEF RowsHold
  <2>. QED
    BY <1>2, <2>1, MovedRow DEF Rerouted
<1>. QED
  BY <1>1, <1>2

(* Rows that keep their stage's workflow and add stages of a workflow that *)
(* exists keep the references.                                             *)
LEMMA StagesGrow ==
    ASSUME StagesInv,
           DOMAIN stages \subseteq DOMAIN stages', DOMAIN stages' \subseteq Nat,
           workflows \subseteq workflows', workflows' \subseteq Nat \ {NoWorkflow},
           \A s \in DOMAIN stages' : StageRow(stages'[s]) /\ stages'[s].workflow \in workflows',
           UNCHANGED <<home, task>>
    PROVE  RowsHold' /\ ReferencesHold'
BY DEF StagesInv, RowsHold, ReferencesHold, TaskRow

(* Tasks that stay within the stages and projects keep the references. *)
LEMMA TasksMove ==
    ASSUME StagesInv, UNCHANGED <<workflows, stages, home>>,
           task' = [t \in Cards |-> task'[t]],
           \A t \in Cards : \/ task'[t] = NoCard
                            \/ /\ TaskRow(task'[t])
                               /\ task'[t].stage \in DOMAIN stages
                               /\ home[task'[t].project] # NoWorkflow
    PROVE  RowsHold' /\ ReferencesHold'
BY DEF StagesInv, RowsHold, ReferencesHold, TaskRow, StageRow

LEMMA NumberedAfter == ASSUME NEW used, used \subseteq Nat PROVE NextAfter(used) \subseteq Nat \ {0}
BY DEF NextAfter

(* A request that ends, or goes on as one that is no switch, keeps the rest. *)
LEMMA RequestEnds ==
    ASSUME RequestsHold, NEW b \in Browsers, Ends(b)
    PROVE  RequestsHold'
BY DEF RequestsHold, RequestHolds, Ends, NoRequest

LEMMA RequestGoes ==
    ASSUME RequestsHold, NEW b \in Browsers, NEW r, RequestHolds(r), Goes(b, r)
    PROVE  RequestsHold'
BY DEF RequestsHold, Goes

LEMMA RequestsStay == ASSUME RequestsHold, UNCHANGED request PROVE RequestsHold'
BY DEF RequestsHold, RequestHolds

LEMMA RowsStay ==
    ASSUME RowsHold, ReferencesHold, UNCHANGED rows
    PROVE  RowsHold' /\ ReferencesHold'
BY DEF RowsHold, ReferencesHold, rows, TaskRow, StageRow

-----------------------------------------------------------------------------
(* Stages *)

LEMMA WithStagesStep ==
    ASSUME StagesInv, NEW first \in Nat, NEW w \in workflows', NEW contents,
           stages' = WithStages(first, w, contents), UNCHANGED <<home, task>>,
           workflows \subseteq workflows', workflows' \subseteq Nat \ {NoWorkflow}
    PROVE  RowsHold' /\ ReferencesHold'
<1>1. DOMAIN stages \subseteq DOMAIN stages' /\ DOMAIN stages' \subseteq Nat
  BY DEF WithStages, StagesInv, RowsHold
<1>2. \A s \in DOMAIN stages' : StageRow(stages'[s]) /\ stages'[s].workflow \in workflows'
  BY DEF WithStages, StagesInv, RowsHold, ReferencesHold, StageRow
<1>. QED
  BY <1>1, <1>2, StagesGrow

LEMMA CreateWriteStep ==
    ASSUME StagesInv, NEW b \in Browsers, CreateWrite(b)
    PROVE  RowsHold' /\ ReferencesHold'
<1>. DEFINE row == request[b].row
<1>1. CASE row.workflow \notin workflows /\ Refused(b)
  BY <1>1, RowsStay DEF StagesInv, Refused
<1>2. ASSUME row.workflow \in workflows, UNCHANGED <<workflows, home, task>>,
             NEW id \in NextAfter(DOMAIN stages), stages' = WithStages(id, row.workflow, <<row>>)
      PROVE  RowsHold' /\ ReferencesHold'
  <2>1. id \in Nat
    BY NumberedAfter DEF StagesInv, RowsHold
  <2>. QED
    BY <1>2, <2>1, WithStagesStep DEF StagesInv, RowsHold
<1>. QED
  BY <1>1, <1>2 DEF CreateWrite

LEMMA CreateWithStagesStep ==
    ASSUME StagesInv, NEW contents, CreateWithStages(contents)
    PROVE  RowsHold' /\ ReferencesHold'
<1>1. PICK w \in NextAfter(workflows), first \in NextAfter(DOMAIN stages) :
         workflows' = workflows \cup {w} /\ stages' = WithStages(first, w, contents)
  BY DEF CreateWithStages
<1>2. w \in Nat \ {NoWorkflow} /\ first \in Nat
  BY NumberedAfter DEF StagesInv, RowsHold, NoWorkflow
<1>. QED
  BY <1>1, <1>2, WithStagesStep DEF StagesInv, RowsHold, CreateWithStages

LEMMA UpdateWriteStep ==
    ASSUME StagesInv, NEW b \in Browsers, UpdateWrite(b)
    PROVE  RowsHold' /\ ReferencesHold'
<1>. DEFINE r == request[b]
            after == [stages EXCEPT ![r.id].position = r.position, ![r.id].type = r.type]
<1>1. CASE Refused(b)
  BY <1>1, RowsStay DEF StagesInv, Refused
<1>2. CASE stages' = after /\ UNCHANGED <<workflows, home, task>>
  <2>1. DOMAIN stages' = DOMAIN stages
    BY <1>2
  <2>2. \A s \in DOMAIN stages : StageRow(stages'[s]) /\ stages'[s].workflow = stages[s].workflow
    BY <1>2 DEF StagesInv, RowsHold, StageRow
  <2>. QED
    BY <1>2, <2>1, <2>2, StagesGrow DEF StagesInv, RowsHold, ReferencesHold
<1>. QED
  BY <1>1, <1>2 DEF UpdateWrite

LEMMA SetTypeWriteStep ==
    ASSUME StagesInv, NEW b \in Browsers, SetTypeWrite(b)
    PROVE  RowsHold' /\ ReferencesHold'
<1>1. DOMAIN stages' = DOMAIN stages /\ UNCHANGED <<workflows, home, task>>
  BY DEF SetTypeWrite
<1>2. \A s \in DOMAIN stages : StageRow(stages'[s]) /\ stages'[s].workflow = stages[s].workflow
  BY DEF SetTypeWrite, StagesInv, RowsHold, StageRow
<1>. QED
  BY <1>1, <1>2, StagesGrow DEF StagesInv, RowsHold, ReferencesHold

LEMMA RenumberedStep ==
    ASSUME StagesInv, NEW w, NEW order, stages' = Renumbered(w, order),
           UNCHANGED <<workflows, home, task>>
    PROVE  RowsHold' /\ ReferencesHold'
<1>1. DOMAIN stages' = DOMAIN stages
  BY DEF Renumbered
<1>2. \A s \in DOMAIN stages : StageRow(stages'[s]) /\ stages'[s].workflow = stages[s].workflow
  BY DEF Renumbered, StagesInv, RowsHold, StageRow
<1>. QED
  BY <1>1, <1>2, StagesGrow DEF StagesInv, RowsHold, ReferencesHold

(* The moves find their destinations, and what is deleted is left empty. *)
LEMMA DeleteWriteStep ==
    ASSUME StagesInv, NEW b \in Browsers, DeleteWrite(b)
    PROVE  RowsHold' /\ ReferencesHold'
<1>. DEFINE r == request[b]
<1>1. CASE ~DeleteSucceeds(r)
  BY <1>1, RowsStay DEF DeleteWrite, StagesInv, rows
<1>2. CASE DeleteSucceeds(r)
  <2>1. /\ stages' = [s \in DOMAIN stages \ Removed(r) |-> stages[s]]
        /\ task' = Rerouted(r.mapping)
        /\ UNCHANGED <<workflows, home>>
    BY <1>2 DEF DeleteWrite, Only
  <2>2. ASSUME NEW t \in Cards, task[t] # NoCard
        PROVE  /\ TaskRow(task'[t])
               /\ task'[t].project = task[t].project
               /\ task'[t].stage \in DOMAIN stages \ Removed(r)
    <3>1. /\ TaskRow(task'[t])
          /\ task'[t].project = task[t].project
      BY <2>1, <2>2, ReroutedRow DEF StagesInv
    <3>2. task'[t].stage \in DOMAIN stages
      BY <1>2, <2>1, <2>2, ReroutedRow DEF StagesInv, ReferencesHold, DeleteSucceeds, Reachable
    <3>3. task'[t].stage \notin Removed(r)
      BY <1>2, <2>1, <3>1, TaskRowExists DEF DeleteSucceeds, Unreferenced
    <3>. QED
      BY <3>1, <3>2, <3>3
  <2>3. ASSUME NEW t \in Cards, task[t] = NoCard PROVE task'[t] = NoCard
    BY <2>1, <2>3, ReroutedRow DEF StagesInv
  <2>4. RowsHold'
    <3>1. task' = [t \in Cards |-> task'[t]]
      BY <2>1 DEF Rerouted
    <3>. QED
      BY <2>1, <2>2, <2>3, <3>1 DEF StagesInv, RowsHold, StageRow, TaskRow
  <2>5. ReferencesHold'
    BY <2>1, <2>2, <2>3 DEF StagesInv, ReferencesHold
  <2>. QED
    BY <2>4, <2>5
<1>. QED
  BY <1>1, <1>2

-----------------------------------------------------------------------------
(* Workflows and projects *)

LEMMA DeleteWorkflowWriteStep ==
    ASSUME StagesInv, NEW b \in Browsers, DeleteWorkflowWrite(b)
    PROVE  RowsHold' /\ ReferencesHold'
<1>. DEFINE ids == request[b].ids
<1>1. CASE Refused(b)
  BY <1>1, RowsStay DEF StagesInv, Refused
<1>2. CASE /\ DeletableWorkflows(ids)
           /\ workflows' = workflows \ ids
           /\ stages' = Only(stages, {s \in DOMAIN stages : stages[s].workflow \notin ids})
           /\ UNCHANGED <<home, task>>
  <2>1. /\ DOMAIN stages' = {s \in DOMAIN stages : stages[s].workflow \notin ids}
        /\ \A s \in DOMAIN stages' : stages'[s] = stages[s]
    BY <1>2 DEF Only
  <2>2. ASSUME NEW t \in Cards, task[t] # NoCard PROVE task[t].stage \in DOMAIN stages'
    BY <1>2, <2>1, <2>2
       DEF DeletableWorkflows, OfWorkflow, Unreferenced, StagesInv, ReferencesHold
  <2>3. ASSUME NEW p \in Projects PROVE home[p] = NoWorkflow \/ home[p] \in workflows'
    BY <1>2, <2>3 DEF DeletableWorkflows, Unused, StagesInv, ReferencesHold
  <2>4. RowsHold'
    BY <1>2, <2>1 DEF StagesInv, RowsHold, StageRow, TaskRow
  <2>5. ReferencesHold'
    BY <1>2, <2>1, <2>2, <2>3 DEF StagesInv, ReferencesHold
  <2>. QED
    BY <2>4, <2>5
<1>. QED
  BY <1>1, <1>2 DEF DeleteWorkflowWrite

(* Each row of the project after a switch, whatever the mapping did. *)
LEMMA SwitchedRow ==
    ASSUME StagesInv, NEW r, r.project \in Projects, SwitchSucceeds(r),
           NEW t \in TasksOf(r.project)
    PROVE  /\ TaskRow(Switched(r)[t])
           /\ Switched(r)[t].project = r.project
           /\ Switched(r)[t].stage \in DOMAIN stages
           /\ Switched(r)[t].stage = r.fallback \/ Switched(r)[t].stage \notin OfWorkflow(stages, r.old)
<1>. DEFINE tk == Rerouted(r.mapping)[t]
<1>1. t \in Cards /\ task[t] # NoCard /\ task[t].project = r.project
  BY DEF TasksOf
<1>2. Switched(r)[t] = CaughtUp(r, tk)
  BY <1>1 DEF Switched
<1>3. /\ TaskRow(tk)
      /\ tk.project = r.project
      /\ tk.stage \in DOMAIN stages
  BY <1>1, ReroutedRow DEF StagesInv, ReferencesHold, SwitchSucceeds, Reachable
<1>. HIDE DEF tk
<1>4. CASE StaysBehind(r, tk)
  <2>1. r.fallback \in DOMAIN stages
    BY <1>4 DEF SwitchSucceeds, tk
  <2>. QED
    BY <1>2, <1>3, <1>4, <2>1, MovedRow DEF CaughtUp
<1>5. CASE ~StaysBehind(r, tk)
  BY <1>2, <1>3, <1>5 DEF CaughtUp, StaysBehind
<1>. QED
  BY <1>4, <1>5

LEMMA SwitchWriteStep ==
    ASSUME StagesInv, NEW b \in Browsers, SwitchWrite(b)
    PROVE  RowsHold' /\ ReferencesHold'
<1>. DEFINE r == request[b]
<1>0. r.project \in Projects /\ UNCHANGED <<workflows, stages>>
  BY DEF StagesInv, RequestsHold, RequestHolds, SwitchWrite
<1>1. CASE UNCHANGED <<home, task>>
  BY <1>0, <1>1, RowsStay DEF StagesInv, rows
<1>2. CASE home[r.project] = NoWorkflow /\ task' = Switched(r) /\ home' = home
  <2>1. TasksOf(r.project) = {}
    BY <1>2 DEF TasksOf, StagesInv, ReferencesHold
  <2>2. task' = task
    BY <1>2, <2>1 DEF Switched, StagesInv, RowsHold
  <2>. QED
    BY <1>1, <1>2, <2>2
<1>3. CASE /\ home[r.project] # NoWorkflow /\ SwitchSucceeds(r)
           /\ task' = Switched(r)
           /\ home' = [home EXCEPT ![r.project] = r.new]
  <2>1. r.new \in workflows /\ r.new \in Nat \ {NoWorkflow}
    BY <1>3 DEF SwitchSucceeds, StagesInv, RowsHold
  <2>2. /\ home' \in [Projects -> Nat]
        /\ \A p \in Projects : home'[p] = NoWorkflow \/ home'[p] \in workflows
        /\ \A p \in Projects : home[p] # NoWorkflow => home'[p] # NoWorkflow
    BY <1>0, <1>3, <2>1 DEF StagesInv, RowsHold, ReferencesHold
  <2>3. ASSUME NEW t \in Cards
        PROVE  \/ task'[t] = task[t]
               \/ /\ TaskRow(task'[t])
                  /\ task'[t].stage \in DOMAIN stages
                  /\ task'[t].project = r.project
    <3>1. CASE t \in TasksOf(r.project)
      BY <1>0, <1>3, <3>1, SwitchedRow
    <3>2. CASE t \notin TasksOf(r.project)
      BY <1>3, <3>2 DEF Switched
    <3>. QED
      BY <3>1, <3>2
  <2>4. RowsHold'
    <3>1. task' = [t \in Cards |-> task'[t]]
      BY <1>3 DEF Switched
    <3>. QED
      BY <1>0, <2>2, <2>3, <3>1 DEF StagesInv, RowsHold, StageRow, TaskRow
  <2>5. ReferencesHold'
    <3>1. home'[r.project] # NoWorkflow
      BY <1>0, <1>3, <2>1 DEF StagesInv, RowsHold
    <3>. QED
      BY <1>0, <2>2, <2>3, <3>1 DEF StagesInv, RowsHold, ReferencesHold, TaskRow
  <2>. QED
    BY <2>4, <2>5
<1>. QED
  BY <1>0, <1>1, <1>2, <1>3 DEF SwitchWrite, StagesInv, RowsHold

LEMMA ProjectStep ==
    ASSUME StagesInv, NEW p \in Projects, NEW w \in workflows, home' = [home EXCEPT ![p] = w],
           UNCHANGED <<workflows, stages, task>>
    PROVE  RowsHold' /\ ReferencesHold'
BY DEF StagesInv, RowsHold, ReferencesHold, StageRow, TaskRow

LEMMA DeleteProjectStep ==
    ASSUME StagesInv, NEW b \in Browsers, DeleteProject(b)
    PROVE  RowsHold' /\ ReferencesHold'
<1>1. PICK p \in Projects :
         /\ home' = [home EXCEPT ![p] = NoWorkflow]
         /\ task' = [t \in Cards |-> IF t \in TasksOf(p) THEN NoCard ELSE task[t]]
         /\ UNCHANGED <<workflows, stages>>
  BY DEF DeleteProject
<1>2. \A t \in Cards : task'[t] = NoCard \/ (task'[t] = task[t] /\ task[t].project # p)
  BY <1>1 DEF TasksOf
<1>3. RowsHold'
  BY <1>1, <1>2 DEF StagesInv, RowsHold, StageRow, TaskRow, NoWorkflow
<1>4. ReferencesHold'
  BY <1>1, <1>2 DEF StagesInv, RowsHold, ReferencesHold, TaskRow
<1>. QED
  BY <1>3, <1>4

-----------------------------------------------------------------------------
(* Tasks *)

(* A task that is there and is put on a stage that is there. *)
LEMMA TaskPut ==
    ASSUME StagesInv, NEW ts \in SUBSET Cards, NEW s \in DOMAIN stages,
           \A t \in ts : task[t] # NoCard,
           task' = [t \in Cards |-> task'[t]],
           \A t \in ts : \E c : task'[t] = Written(task[t], s, c),
           \A t \in Cards \ ts : task'[t] = task[t],
           UNCHANGED <<workflows, stages, home>>
    PROVE  RowsHold' /\ ReferencesHold'
<1>1. ASSUME NEW t \in ts
      PROVE  /\ TaskRow(task'[t])
             /\ task'[t].stage \in DOMAIN stages
             /\ home[task'[t].project] # NoWorkflow
  <2>1. TaskRow(task[t]) /\ home[task[t].project] # NoWorkflow
    BY DEF StagesInv, RowsHold, ReferencesHold
  <2>2. PICK c : task'[t] = Written(task[t], s, c)
    OBVIOUS
  <2>. QED
    BY <2>1, <2>2, WrittenRow
<1>2. ASSUME NEW t \in Cards \ ts
      PROVE  \/ task'[t] = NoCard
             \/ /\ TaskRow(task'[t])
                /\ task'[t].stage \in DOMAIN stages
                /\ home[task'[t].project] # NoWorkflow
  BY DEF StagesInv, RowsHold, ReferencesHold
<1>. QED
  BY <1>1, <1>2, TasksMove

LEMMA TaskStep ==
    ASSUME StagesInv, NEW b \in Browsers,
           \/ PutTask(b) \/ BulkUpdate(b) \/ TransitionStage(b) \/ CreateTask(b) \/ RemoveTask(b)
    PROVE  RowsHold' /\ ReferencesHold'
<1>1. CASE PutTask(b)
  <2>1. PICK t \in ShownTasks(b), s \in DOMAIN stages :
           /\ task' = [task EXCEPT ![t] = Written(@, s, seen[b].task[t].completed)]
           /\ UNCHANGED <<workflows, stages, home>>
    BY <1>1 DEF PutTask
  <2>2. t \in Cards /\ task[t] # NoCard
    BY DEF ShownTasks
  <2>3. task' = [u \in Cards |-> task'[u]] /\ \A u \in Cards \ {t} : task'[u] = task[u]
    BY <2>1 DEF StagesInv, RowsHold
  <2>4. task'[t] = Written(task[t], s, seen[b].task[t].completed)
    BY <2>1, <2>2 DEF StagesInv, RowsHold
  <2>. DEFINE ts == {t}
  <2>5. /\ ts \in SUBSET Cards /\ \A u \in ts : task[u] # NoCard
        /\ \A u \in ts : \E c : task'[u] = Written(task[u], s, c)
        /\ \A u \in Cards \ ts : task'[u] = task[u]
    BY <2>2, <2>3, <2>4
  <2>. HIDE DEF ts
  <2>. QED
    BY <2>1, <2>3, <2>5, TaskPut
<1>2. CASE BulkUpdate(b)
  <2>1. PICK ts \in SUBSET ShownTasks(b), s \in DOMAIN stages :
           /\ task' = [t \in Cards |-> IF t \in ts THEN Moved(task[t], s) ELSE task[t]]
           /\ UNCHANGED <<workflows, stages, home>>
    BY <1>2 DEF BulkUpdate
  <2>2. ts \subseteq Cards /\ \A t \in ts : task[t] # NoCard
    BY DEF ShownTasks
  <2>3. \A t \in ts : \E c : task'[t] = Written(task[t], s, c)
    BY <2>1, <2>2 DEF Moved
  <2>. QED
    BY <2>1, <2>2, <2>3, TaskPut
<1>3. CASE TransitionStage(b)
  <2>1. PICK t \in ShownTasks(b), s \in DOMAIN stages :
           /\ task' = [task EXCEPT ![t] = Moved(@, s)]
           /\ UNCHANGED <<workflows, stages, home>>
    BY <1>3 DEF TransitionStage
  <2>2. t \in Cards /\ task[t] # NoCard
    BY DEF ShownTasks
  <2>3. task' = [u \in Cards |-> task'[u]] /\ \A u \in Cards \ {t} : task'[u] = task[u]
    BY <2>1 DEF StagesInv, RowsHold
  <2>4. task'[t] = Written(task[t], s, task[t].completed)
    BY <2>1, <2>2 DEF StagesInv, RowsHold, Moved
  <2>. DEFINE ts == {t}
  <2>5. /\ ts \in SUBSET Cards /\ \A u \in ts : task[u] # NoCard
        /\ \A u \in ts : \E c : task'[u] = Written(task[u], s, c)
        /\ \A u \in Cards \ ts : task'[u] = task[u]
    BY <2>2, <2>3, <2>4
  <2>. HIDE DEF ts
  <2>. QED
    BY <2>1, <2>3, <2>5, TaskPut
<1>4. CASE CreateTask(b)
  <2>1. PICK t \in Cards, p \in Projects, s \in DOMAIN stages, c \in BOOLEAN :
           /\ home[p] # NoWorkflow
           /\ task' = [task EXCEPT ![t] = [project |-> p, stage |-> s, completed |-> c]]
           /\ UNCHANGED <<workflows, stages, home>>
    BY <1>4 DEF CreateTask
  <2>2. task' = [u \in Cards |-> task'[u]] /\ \A u \in Cards \ {t} : task'[u] = task[u]
    BY <2>1 DEF StagesInv, RowsHold
  <2>3. task'[t] = [project |-> p, stage |-> s, completed |-> c]
    BY <2>1 DEF StagesInv, RowsHold
  <2>4. TaskRow(task'[t])
    BY <2>3 DEF TaskRow
  <2>5. \A u \in Cards \ {t} :
           \/ task'[u] = NoCard
           \/ /\ TaskRow(task'[u])
              /\ task'[u].stage \in DOMAIN stages
              /\ home[task'[u].project] # NoWorkflow
    BY <2>2 DEF StagesInv, RowsHold, ReferencesHold
  <2>. QED
    BY <2>1, <2>2, <2>3, <2>4, <2>5, TasksMove
<1>5. CASE RemoveTask(b)
  <2>1. PICK t \in Cards : /\ task' = [task EXCEPT ![t] = NoCard]
                           /\ UNCHANGED <<workflows, stages, home>>
    BY <1>5 DEF RemoveTask, ShownTasks
  <2>2. task' = [u \in Cards |-> task'[u]] /\ \A u \in Cards : task'[u] \in {NoCard, task[u]}
    BY <2>1 DEF StagesInv, RowsHold
  <2>3. \A u \in Cards :
           \/ task'[u] = NoCard
           \/ /\ TaskRow(task'[u])
              /\ task'[u].stage \in DOMAIN stages
              /\ home[task'[u].project] # NoWorkflow
    BY <2>2 DEF StagesInv, RowsHold, ReferencesHold
  <2>. QED
    BY <2>1, <2>2, <2>3, TasksMove
<1>. QED
  BY <1>1, <1>2, <1>3, <1>4, <1>5

-----------------------------------------------------------------------------
(* Requests *)

Reading(b) ==
    \/ CreateRead(b) \/ UpdateRead(b) \/ SetTypeRead(b) \/ DeleteRead(b) \/ DeleteManyRead(b)
    \/ ReorderRead(b) \/ DuplicateFind(b) \/ DuplicateRead(b) \/ DeleteWorkflowRead(b)
    \/ SwitchRead(b)

LEMMA ReadingStep ==
    ASSUME StagesInv, NEW b \in Browsers, Reading(b)
    PROVE  \E r : RequestHolds(r) /\ Goes(b, r)
<1>1. CASE CreateRead(b)
  BY <1>1 DEF CreateRead, RequestHolds
<1>2. CASE UpdateRead(b)
  BY <1>2 DEF UpdateRead, RequestHolds
<1>3. CASE SetTypeRead(b)
  BY <1>3 DEF SetTypeRead, RequestHolds
<1>4. ASSUME NEW ids, NEW mapping, NEW guarded, Settles(b, ids, mapping, guarded)
      PROVE  \E r : RequestHolds(r) /\ Goes(b, r)
  <2>. DEFINE r == [op |-> IF mapping = <<>> THEN "removing" ELSE "checking",
                    ids |-> ids, mapping |-> mapping, guarded |-> guarded]
  <2>1. RequestHolds(r)
    BY DEF RequestHolds
  <2>. QED
    BY <1>4, <2>1 DEF Settles
<1>5. CASE DeleteRead(b)
  BY <1>4, <1>5 DEF DeleteRead
<1>6. CASE DeleteManyRead(b)
  BY <1>4, <1>6 DEF DeleteManyRead
<1>7. CASE ReorderRead(b)
  BY <1>7 DEF ReorderRead, RequestHolds
<1>8. CASE DuplicateFind(b)
  BY <1>8 DEF DuplicateFind, RequestHolds
<1>9. CASE DuplicateRead(b)
  BY <1>9 DEF DuplicateRead, RequestHolds
<1>10. CASE DeleteWorkflowRead(b)
  BY <1>10 DEF DeleteWorkflowRead, RequestHolds
<1>11. CASE SwitchRead(b)
  BY <1>11 DEF SwitchRead, RequestHolds
<1>. QED
  BY <1>1, <1>2, <1>3, <1>5, <1>6, <1>7, <1>8, <1>9, <1>10, <1>11 DEF Reading

(* The second reads of a deletion and of a switch, and those that are refused. *)
LEMMA CheckingStep ==
    ASSUME StagesInv, NEW b \in Browsers, DestinationsChecked(b) \/ SwitchStages(b)
    PROVE  Refused(b) \/ \E r : RequestHolds(r) /\ Goes(b, r)
<1>1. CASE DestinationsChecked(b)
  <2>1. RequestHolds(request[b])
    BY DEF StagesInv, RequestsHold
  <2>2. RequestHolds([request[b] EXCEPT !.op = "removing"])
    BY <2>1 DEF RequestHolds
  <2>. QED
    BY <1>1, <2>2 DEF DestinationsChecked
<1>2. CASE SwitchStages(b)
  <2>1. request[b].project \in Projects /\ request[b].old # request[b].new
    BY <1>2 DEF StagesInv, RequestsHold, RequestHolds, SwitchStages
  <2>. QED
    BY <1>2, <2>1 DEF SwitchStages, RequestHolds
<1>. QED
  BY <1>1, <1>2

-----------------------------------------------------------------------------
(* The invariant *)

LEMMA InitHolds == StagesInit => StagesInv
<1>. SUFFICES ASSUME StagesInit PROVE StagesInv
  OBVIOUS
<1>. USE InitialRowsHold
<1>1. \A s \in DOMAIN stages : s \in Nat /\ stages[s] \in StageRows
  BY DEF StagesInit
<1>2. \A s \in DOMAIN stages : StageRow(stages[s]) /\ stages[s].workflow \in Nat \ {NoWorkflow}
  BY <1>1 DEF StageRows, StageRow, NoWorkflow
<1>3. \A t \in Cards : task[t] = NoCard \/ TaskRow(task[t])
  BY DEF StagesInit, TaskRows, TaskRow
<1>4. /\ home \in [Projects -> workflows]
      /\ workflows = {stages[s].workflow : s \in DOMAIN stages}
      /\ task = [t \in Cards |-> task[t]]
  BY DEF StagesInit
<1>5. RowsHold
  BY <1>1, <1>2, <1>3, <1>4 DEF RowsHold
<1>6. RequestsHold
  BY DEF StagesInit, RequestsHold, RequestHolds, NoRequest
<1>7. ReferencesHold
  <2>1. \A t \in Cards : task[t] # NoCard => task[t].stage \in DOMAIN stages
    BY DEF StagesInit
  <2>. QED
    BY <1>2, <1>3, <1>4, <2>1 DEF ReferencesHold, TaskRow
<1>. QED
  BY <1>5, <1>6, <1>7 DEF StagesInv

LEMMA NextHolds == StagesInv /\ [StagesNext]_stagesVars => StagesInv'
<1>. SUFFICES ASSUME StagesInv, [StagesNext]_stagesVars PROVE StagesInv'
  OBVIOUS
<1>1. CASE UNCHANGED stagesVars
  BY <1>1, RowsStay, RequestsStay DEF stagesVars, rows, StagesInv
<1>2. ASSUME NEW b \in Browsers, Load(b) PROVE StagesInv'
  BY <1>2, RowsStay, RequestsStay DEF Load, StagesInv
<1>3. ASSUME NEW b \in Browsers, NEW r, RequestHolds(r), Goes(b, r) PROVE StagesInv'
  BY <1>3, RowsStay, RequestGoes DEF Goes, StagesInv
<1>4. ASSUME NEW b \in Browsers, Ends(b), RowsHold' /\ ReferencesHold' PROVE StagesInv'
  BY <1>4, RequestEnds DEF StagesInv
<1>5. ASSUME UNCHANGED request, RowsHold' /\ ReferencesHold' PROVE StagesInv'
  BY <1>5, RequestsStay DEF StagesInv
<1>6. ASSUME NEW b \in Browsers, Reading(b) PROVE StagesInv'
  BY <1>3, <1>6, ReadingStep
<1>7. ASSUME NEW b \in Browsers, DestinationsChecked(b) \/ SwitchStages(b) PROVE StagesInv'
  BY <1>3, <1>4, <1>7, CheckingStep, RowsStay DEF Refused, StagesInv
<1>8. ASSUME NEW b \in Browsers, CreateWrite(b) PROVE StagesInv'
  BY <1>4, <1>8, CreateWriteStep DEF CreateWrite, Refused
<1>9. ASSUME NEW b \in Browsers, UpdateWrite(b) PROVE StagesInv'
  BY <1>4, <1>9, UpdateWriteStep DEF UpdateWrite, Refused
<1>10. ASSUME NEW b \in Browsers, SetTypeWrite(b) PROVE StagesInv'
  BY <1>4, <1>10, SetTypeWriteStep DEF SetTypeWrite
<1>11. ASSUME NEW b \in Browsers, DeleteWrite(b) PROVE StagesInv'
  BY <1>4, <1>11, DeleteWriteStep DEF DeleteWrite
<1>12. ASSUME NEW b \in Browsers, ReorderWrite(b) PROVE StagesInv'
  BY <1>4, <1>12, RenumberedStep DEF ReorderWrite
<1>13. ASSUME NEW b \in Browsers, CreateWorkflow(b) PROVE StagesInv'
  BY <1>5, <1>13, CreateWithStagesStep DEF CreateWorkflow
<1>14. ASSUME NEW b \in Browsers, DuplicateWrite(b) PROVE StagesInv'
  BY <1>4, <1>14, CreateWithStagesStep DEF DuplicateWrite
<1>15. ASSUME NEW b \in Browsers, DeleteWorkflowWrite(b) PROVE StagesInv'
  BY <1>4, <1>15, DeleteWorkflowWriteStep DEF DeleteWorkflowWrite, Refused
<1>16. ASSUME NEW b \in Browsers, SwitchWrite(b) PROVE StagesInv'
  BY <1>4, <1>16, SwitchWriteStep DEF SwitchWrite
<1>17. ASSUME NEW b \in Browsers, PutProject(b) \/ CreateProject(b) PROVE StagesInv'
  <2>1. UNCHANGED <<workflows, stages, task, request>>
    BY <1>17 DEF PutProject, CreateProject
  <2>2. (\E p \in Projects, w \in workflows : home' = [home EXCEPT ![p] = w]) \/ home' = home
    BY <1>17 DEF PutProject, CreateProject, StagesInv, RowsHold
  <2>. QED
    BY <1>5, <2>1, <2>2, ProjectStep, RowsStay DEF StagesInv, rows
<1>18. ASSUME NEW b \in Browsers, DeleteProject(b) PROVE StagesInv'
  BY <1>5, <1>18, DeleteProjectStep DEF DeleteProject
<1>19. ASSUME NEW b \in Browsers,
              \/ PutTask(b) \/ BulkUpdate(b) \/ TransitionStage(b) \/ CreateTask(b) \/ RemoveTask(b)
       PROVE  StagesInv'
  <2>1. UNCHANGED request
    BY <1>19 DEF PutTask, BulkUpdate, TransitionStage, CreateTask, RemoveTask
  <2>. QED
    BY <1>5, <1>19, <2>1, TaskStep
<1>20. ASSUME NEW b \in Browsers, NEW w, NEW items, NEW current, NEW ids, NEW over,
              BulkMove(b, w, items, current, ids, over)
       PROVE  StagesInv'
  BY <1>5, <1>20, RenumberedStep DEF BulkMove
<1>. QED
  BY <1>1, <1>2, <1>6, <1>7, <1>8, <1>9, <1>10, <1>11, <1>12, <1>13, <1>14, <1>15, <1>16, <1>17,
     <1>18, <1>19, <1>20
     DEF StagesNext, Reading

(* Whatever stages, workflows, projects and tasks are created, moved and    *)
(* deleted side by side, no row refers to one that is gone (stageService.go *)
(* DeleteStage and BulkDelete, workflowService.go DeleteWorkflow).          *)
THEOREM ReferencesAlwaysHold == StagesSpec => []ReferencesHold
<1>1. StagesInv => ReferencesHold
  BY DEF StagesInv
<1>. QED
  BY InitHolds, NextHolds, <1>1, PTL DEF StagesSpec

(* A switch leaves no task of the project on a stage of the workflow it     *)
(* left, for whatever tasks came there while the request was under way      *)
(* (projectRepo.go SwitchWorkflow).                                         *)
THEOREM SwitchLeavesNothingBehind == StagesSpec => NoTaskLeftBehind
<1>. DEFINE Left ==
        \A b \in Browsers :
           LET r == request[b]
           IN (SwitchWrite(b) /\ r.fallback \in OfWorkflow(stages, r.new) /\ home' # home)
                 => \A t \in TasksOf(r.project) : task'[t].stage \notin OfWorkflow(stages, r.old)
<1>1. StagesInv => Left
  <2>. SUFFICES ASSUME StagesInv, NEW b \in Browsers, SwitchWrite(b), home' # home,
                       request[b].fallback \in OfWorkflow(stages, request[b].new),
                       NEW t \in TasksOf(request[b].project)
                PROVE  task'[t].stage \notin OfWorkflow(stages, request[b].old)
    OBVIOUS
  <2>. DEFINE r == request[b]
  <2>1. r.project \in Projects /\ r.old # r.new
    BY DEF StagesInv, RequestsHold, RequestHolds, SwitchWrite
  <2>2. task' = Switched(r) /\ SwitchSucceeds(r)
    BY <2>1 DEF SwitchWrite, StagesInv, RowsHold
  <2>3. r.fallback \notin OfWorkflow(stages, r.old)
    BY <2>1 DEF OfWorkflow
  <2>. QED
    BY <2>1, <2>2, <2>3, SwitchedRow
<1>. HIDE DEF Left
<1>2. StagesSpec => [][Left]_stagesVars
  <2>1. StagesInv /\ [StagesNext]_stagesVars => [Left]_stagesVars
    BY <1>1
  <2>. QED
    BY InitHolds, NextHolds, <2>1, PTL DEF StagesSpec
<1>. QED
  BY <1>2 DEF Left, NoTaskLeftBehind

-----------------------------------------------------------------------------
(* Orders *)

(* An order lists each of the rows once. *)
Lists(o, S) ==
    /\ IsFiniteSet(S)
    /\ Cardinality(S) \in Nat
    /\ o \in [1..Cardinality(S) -> S]
    /\ \A i, j \in 1..Cardinality(S) : o[i] = o[j] => i = j
    /\ \A s \in S : \E i \in 1..Cardinality(S) : o[i] = s

(* In a strict linear order of finitely many elements, how many are below   *)
(* an element tells which one it is.                                        *)
LEMMA Ranks ==
    ASSUME NEW S, IsFiniteSet(S), NEW below \in [S -> SUBSET S],
           \A s \in S : s \notin below[s],
           \A s, r \in S : s # r => s \in below[r] \/ r \in below[s],
           \A s, r \in S : r \in below[s] => below[r] \subseteq below[s]
    PROVE  /\ \A s \in S : IsFiniteSet(below[s]) /\ Cardinality(below[s]) \in 0..(Cardinality(S) - 1)
           /\ \A s, r \in S : r \in below[s] => Cardinality(below[r]) < Cardinality(below[s])
           /\ \A s, r \in S : Cardinality(below[s]) = Cardinality(below[r]) => s = r
           /\ \A i \in 0..(Cardinality(S) - 1) : \E s \in S : Cardinality(below[s]) = i
<1>1. Cardinality(S) \in Nat
  BY FS_CardinalityType
<1>2. ASSUME NEW s \in S
      PROVE  IsFiniteSet(below[s]) /\ Cardinality(below[s]) \in 0..(Cardinality(S) - 1)
  <2>1. IsFiniteSet(below[s]) /\ Cardinality(below[s]) \in Nat
    BY <1>2, FS_Subset, FS_CardinalityType
  <2>2. below[s] \in SUBSET S /\ below[s] # S
    OBVIOUS
  <2>3. Cardinality(below[s]) <= Cardinality(S) /\ Cardinality(below[s]) # Cardinality(S)
    BY <2>2, FS_Subset
  <2>. QED
    BY <1>1, <2>1, <2>3
<1>3. ASSUME NEW s \in S, NEW r \in S, r \in below[s]
      PROVE  Cardinality(below[r]) < Cardinality(below[s])
  <2>1. below[r] \in SUBSET below[s] /\ below[r] # below[s]
    BY <1>3
  <2>2. Cardinality(below[r]) <= Cardinality(below[s]) /\ Cardinality(below[r]) # Cardinality(below[s])
    BY <1>2, <2>1, FS_Subset
  <2>. QED
    BY <1>1, <1>2, <2>2
<1>4. ASSUME NEW s \in S, NEW r \in S, Cardinality(below[s]) = Cardinality(below[r])
      PROVE  s = r
  <2>1. CASE s \in below[r]
    BY <1>1, <1>2, <1>3, <1>4, <2>1
  <2>2. CASE r \in below[s]
    BY <1>1, <1>2, <1>3, <1>4, <2>2
  <2>. QED
    BY <2>1, <2>2
<1>. DEFINE T == 0..(Cardinality(S) - 1)
            rank == [s \in S |-> Cardinality(below[s])]
<1>5. rank \in Injection(S, T)
  BY <1>2, <1>4 DEF Injection, IsInjective
<1>6. IsFiniteSet(T) /\ Cardinality(T) = Cardinality(S)
  <2>1. 0 \in Int /\ Cardinality(S) - 1 \in Int
    BY <1>1
  <2>2. IsFiniteSet(T) /\ Cardinality(T) = IF 0 > Cardinality(S) - 1 THEN 0
                                           ELSE Cardinality(S) - 1 - 0 + 1
    BY <2>1, FS_Interval
  <2>. QED
    BY <1>1, <2>2
<1>7. rank \in Surjection(S, T)
  BY <1>5, <1>6, FS_Injection
<1>8. \A i \in T : \E s \in S : Cardinality(below[s]) = i
  BY <1>7 DEF Surjection
<1>. QED
  BY <1>2, <1>3, <1>4, <1>8

(* Sets of indices are finite. *)
LEMMA Indices ==
    ASSUME NEW n \in Nat, NEW at \in SUBSET (1..n)
    PROVE  /\ IsFiniteSet(at) /\ Cardinality(at) \in Nat
           /\ IsFiniteSet(1..n) /\ Cardinality(1..n) = n
<1>1. IsFiniteSet(1..n) /\ Cardinality(1..n) = n
  <2>1. IsFiniteSet(1..n) /\ Cardinality(1..n) = IF 1 > n THEN 0 ELSE n - 1 + 1
    BY FS_Interval
  <2>. QED
    BY <2>1
<1>2. IsFiniteSet(at)
  BY <1>1, FS_Subset
<1>. QED
  BY <1>1, <1>2, FS_CardinalityType

(* Picking lists what stands at the indices. *)
LEMMA PickedLists ==
    ASSUME NEW S, NEW o, Lists(o, S), NEW A \in SUBSET S
    PROVE  Lists(Picked(o, {i \in DOMAIN o : o[i] \in A}), A)
<1>. DEFINE n == Cardinality(S)
            at == {i \in DOMAIN o : o[i] \in A}
            m == Cardinality(at)
            below == [i \in at |-> {j \in at : j < i}]
            index(k) == CHOOSE i \in at : Cardinality({j \in at : j < i}) = k - 1
<1>1. n \in Nat /\ DOMAIN o = 1..n /\ at \in SUBSET (1..n)
  BY DEF Lists
<1>2. IsFiniteSet(at) /\ m \in Nat
  BY <1>1, Indices
<1>3. /\ below \in [at -> SUBSET at]
      /\ \A s \in at : s \notin below[s]
      /\ \A s, r \in at : s # r => s \in below[r] \/ r \in below[s]
      /\ \A s, r \in at : r \in below[s] => below[r] \subseteq below[s]
  <2>1. \A s \in at : s \in Nat
    BY <1>1
  <2>. QED
    BY <2>1
<1>4. /\ \A s \in at : Cardinality(below[s]) \in 0..(m - 1)
      /\ \A s, r \in at : Cardinality(below[s]) = Cardinality(below[r]) => s = r
      /\ \A i \in 0..(m - 1) : \E s \in at : Cardinality(below[s]) = i
  <2>. HIDE DEF at, below
  <2>. QED
    BY <1>2, <1>3, Ranks
<1>5. ASSUME NEW k \in 1..m
      PROVE  index(k) \in at /\ Cardinality(below[index(k)]) = k - 1
  <2>1. k - 1 \in 0..(m - 1)
    BY <1>2
  <2>2. \E i \in at : Cardinality({j \in at : j < i}) = k - 1
    BY <1>4, <2>1
  <2>. QED
    BY <2>2
<1>6. ASSUME NEW i \in at PROVE \E k \in 1..m : index(k) = i
  <2>. DEFINE k == Cardinality(below[i]) + 1
  <2>1. k \in 1..m /\ k - 1 = Cardinality(below[i])
    <3>1. Cardinality(below[i]) \in 0..(m - 1)
      BY <1>4, <1>6
    <3>. QED
      BY <1>2, <3>1
  <2>. HIDE DEF k
  <2>2. index(k) \in at /\ Cardinality(below[index(k)]) = Cardinality(below[i])
    BY <1>5, <2>1
  <2>3. index(k) = i
    BY <1>4, <2>2
  <2>. QED
    BY <2>1, <2>3
<1>. DEFINE picked == Picked(o, at)
<1>7. DOMAIN picked = 1..m /\ \A k \in 1..m : picked[k] = o[index(k)]
  BY DEF Picked
<1>. HIDE DEF picked, index, below
<1>8. picked \in [1..m -> A]
  <2>1. picked = [k \in 1..m |-> picked[k]]
    BY DEF picked, Picked
  <2>. QED
    BY <1>5, <1>7, <2>1
<1>9. ASSUME NEW i \in 1..m, NEW j \in 1..m, picked[i] = picked[j] PROVE i = j
  <2>1. index(i) = index(j)
    BY <1>1, <1>5, <1>7, <1>9 DEF Lists
  <2>. QED
    BY <1>2, <1>5, <2>1
<1>10. ASSUME NEW s \in A PROVE \E k \in 1..m : picked[k] = s
  <2>1. PICK i \in 1..n : o[i] = s
    BY DEF Lists
  <2>2. i \in at
    BY <1>1, <2>1
  <2>. QED
    BY <1>6, <1>7, <2>1, <2>2
<1>11. picked \in Bijection(1..m, A)
  BY <1>8, <1>9, <1>10 DEF Bijection, Injection, IsInjective, Surjection
<1>12. IsFiniteSet(1..m) /\ Cardinality(1..m) = m
  BY <1>2, Indices
<1>13. IsFiniteSet(A) /\ Cardinality(A) = m
  <2>1. ExistsBijection(1..m, A)
    BY <1>11 DEF ExistsBijection
  <2>. QED
    BY <1>12, <2>1, FS_Bijection
<1>. QED
  BY <1>2, <1>8, <1>9, <1>10, <1>13 DEF Lists, picked

(* Where a row stands. *)
LEMMA Standing ==
    ASSUME NEW S, NEW o, Lists(o, S)
    PROVE  /\ DOMAIN o = 1..Cardinality(S)
           /\ ToSet(o) = S
           /\ \A s \in S : IndexOf(o, s) \in 1..Cardinality(S) /\ o[IndexOf(o, s)] = s
           /\ \A i \in 1..Cardinality(S) : IndexOf(o, o[i]) = i
<1>1. DOMAIN o = 1..Cardinality(S)
  BY DEF Lists
<1>2. ToSet(o) = S
  BY <1>1 DEF Lists, ToSet
<1>3. ASSUME NEW s \in S
      PROVE  IndexOf(o, s) \in 1..Cardinality(S) /\ o[IndexOf(o, s)] = s
  <2>1. \E i \in DOMAIN o : o[i] = s
    BY <1>1 DEF Lists
  <2>. QED
    BY <1>1, <2>1 DEF IndexOf
<1>4. ASSUME NEW i \in 1..Cardinality(S) PROVE IndexOf(o, o[i]) = i
  BY <1>3 DEF Lists
<1>. QED
  BY <1>1, <1>2, <1>3, <1>4

(* A block spliced into the rest lists both. *)
LEMMA SplicedLists ==
    ASSUME NEW A, NEW B, A \cap B = {}, NEW rest, NEW block, Lists(rest, A), Lists(block, B),
           NEW k \in 0..Cardinality(A)
    PROVE  Lists(Spliced(rest, block, k), A \cup B)
<1>. DEFINE n == Cardinality(A)
            m == Cardinality(B)
            o == Spliced(rest, block, k)
<1>1. n \in Nat /\ m \in Nat /\ rest \in [1..n -> A] /\ block \in [1..m -> B] /\ k \in 0..n
  BY DEF Lists
<1>2. rest \in Seq(A) /\ Len(rest) = n /\ block \in Seq(B) /\ Len(block) = m
  <2>1. rest \in Seq(A) /\ block \in Seq(B)
    BY <1>1
  <2>. QED
    BY <1>1, <2>1
<1>3. IsFiniteSet(A \cup B) /\ Cardinality(A \cup B) = n + m
  <2>1. Cardinality(A \cup B) = n + m - 0 /\ IsFiniteSet(A \cup B)
    <3>1. IsFiniteSet(A) /\ IsFiniteSet(B)
      BY DEF Lists
    <3>. QED
      BY <3>1, FS_Union, FS_EmptySet
  <2>. QED
    BY <1>1, <2>1
<1>. DEFINE head == SubSeq(rest, 1, k)
            tail == SubSeq(rest, k + 1, Len(rest))
<1>. HIDE DEF n, m
<1>4. /\ head \in Seq(A) /\ Len(head) = k /\ \A i \in 1..k : head[i] = rest[i]
      /\ tail \in Seq(A) /\ Len(tail) = n - k /\ \A i \in 1..(n - k) : tail[i] = rest[k + i]
  BY <1>1, <1>2
<1>. HIDE DEF head, tail
<1>. DEFINE front == head \o block
<1>5. /\ front \in Seq(A \cup B) /\ Len(front) = k + m
      /\ \A i \in 1..k : front[i] = rest[i]
      /\ \A i \in (k + 1)..(k + m) : front[i] = block[i - k]
  BY <1>1, <1>2, <1>4
<1>. HIDE DEF front
<1>6. o = front \o tail
  BY DEF Spliced, front, head, tail
<1>. HIDE DEF o
<1>7. /\ o \in Seq(A \cup B) /\ Len(o) = n + m
      /\ \A i \in 1..k : o[i] = rest[i]
      /\ \A i \in (k + 1)..(k + m) : o[i] = block[i - k]
      /\ \A i \in (k + m + 1)..(n + m) : o[i] = rest[i - m]
  <2>1. front \in Seq(A \cup B) /\ tail \in Seq(A \cup B)
    BY <1>4, <1>5
  <2>2. o \in Seq(A \cup B) /\ Len(o) = n + m
    <3>1. o \in Seq(A \cup B) /\ Len(o) = Len(front) + Len(tail)
      BY <1>6, <2>1
    <3>. QED
      BY <1>1, <1>4, <1>5, <3>1
  <2>3. ASSUME NEW i \in 1..(k + m) PROVE o[i] = front[i]
    BY <1>1, <1>5, <1>6, <2>1
  <2>4. ASSUME NEW i \in (k + m + 1)..(n + m) PROVE o[i] = rest[i - m]
    <3>1. i - (k + m) \in 1..(n - k) /\ k + (i - (k + m)) = i - m
      BY <1>1
    <3>2. o[i] = tail[i - (k + m)]
      BY <1>1, <1>4, <1>5, <1>6, <2>1
    <3>. QED
      BY <1>4, <3>1, <3>2
  <2>5. \A i \in 1..k : o[i] = rest[i]
    BY <1>1, <1>5, <2>3
  <2>6. \A i \in (k + 1)..(k + m) : o[i] = block[i - k]
    BY <1>1, <1>5, <2>3
  <2>. QED
    BY <2>2, <2>4, <2>5, <2>6
<1>8. o \in [1..(n + m) -> A \cup B]
  BY <1>1, <1>7
<1>9. ASSUME NEW s \in A \cup B PROVE \E i \in 1..(n + m) : o[i] = s
  <2>1. CASE s \in A
    <3>1. PICK j \in 1..n : rest[j] = s
      BY <2>1 DEF Lists, n
    <3>2. CASE j <= k
      BY <1>1, <1>7, <3>1, <3>2
    <3>3. CASE j > k
      <4>1. j + m \in (k + m + 1)..(n + m) /\ j + m \in 1..(n + m) /\ (j + m) - m = j
        BY <1>1, <3>3
      <4>. QED
        BY <1>7, <3>1, <4>1
    <3>. QED
      BY <1>1, <3>2, <3>3
  <2>2. CASE s \in B
    <3>1. PICK j \in 1..m : block[j] = s
      BY <2>2 DEF Lists, m
    <3>2. j + k \in (k + 1)..(k + m) /\ j + k \in 1..(n + m) /\ (j + k) - k = j
      BY <1>1
    <3>. QED
      BY <1>7, <3>1, <3>2
  <2>. QED
    BY <2>1, <2>2
<1>10. o \in Surjection(1..(n + m), A \cup B)
  BY <1>8, <1>9 DEF Surjection
<1>11. IsFiniteSet(1..(n + m)) /\ Cardinality(1..(n + m)) = n + m
  <2>1. n + m \in Nat /\ {} \in SUBSET (1..(n + m))
    BY <1>1
  <2>. QED
    BY <2>1, Indices
<1>12. o \in Injection(1..(n + m), A \cup B)
  BY <1>3, <1>10, <1>11, FS_Surjection
<1>13. \A i, j \in 1..(n + m) : o[i] = o[j] => i = j
  BY <1>12 DEF Injection, IsInjective
<1>. QED
  <2>1. Cardinality(A \cup B) \in Nat
    BY <1>1, <1>3
  <2>. QED
    BY <1>3, <1>8, <1>9, <1>13, <2>1 DEF Lists, o

(* ORDER BY position lists the rows of the workflow. *)
LEMMA OrdersList ==
    ASSUME NEW table, NEW w, IsFiniteSet(OfWorkflow(table, w)), NEW o \in Orders(table, w)
    PROVE  Lists(o, OfWorkflow(table, w))
<1>. DEFINE S == OfWorkflow(table, w)
            n == Cardinality(S)
<1>1. n \in Nat /\ IsFiniteSet(1..n) /\ Cardinality(1..n) = n
  <2>1. n \in Nat
    BY FS_CardinalityType
  <2>. QED
    BY <2>1, Indices
<1>2. o \in [1..n -> S] /\ \A i, j \in 1..n : i < j => o[i] # o[j]
  BY DEF Orders
<1>. HIDE DEF S, n
<1>3. \A i, j \in 1..n : o[i] = o[j] => i = j
  BY <1>1, <1>2
<1>4. o \in Injection(1..n, S)
  BY <1>2, <1>3 DEF Injection, IsInjective
<1>5. o \in Surjection(1..n, S)
  BY <1>1, <1>4, FS_Injection DEF S, n
<1>6. \A s \in S : \E i \in 1..n : o[i] = s
  BY <1>5 DEF Surjection
<1>. QED
  BY <1>1, <1>2, <1>3, <1>6 DEF Lists, S, n

(* What Renumbered stores is in the order it was given, and numbered from 1. *)
LEMMA RenumberedStores ==
    ASSUME NEW w, NEW o, Lists(o, OfWorkflow(stages, w)),
           \A s \in DOMAIN stages : "workflow" \in DOMAIN stages[s] /\ "position" \in DOMAIN stages[s],
           stages' = Renumbered(w, o)
    PROVE  /\ OfWorkflow(stages', w) = OfWorkflow(stages, w)
           /\ {stages'[s].position : s \in OfWorkflow(stages', w)}
                 = 1..Cardinality(OfWorkflow(stages', w))
           /\ o \in Orders(stages', w)
<1>. DEFINE S == OfWorkflow(stages, w)
            n == Cardinality(S)
<1>1. /\ DOMAIN o = 1..n /\ ToSet(o) = S
      /\ \A s \in S : IndexOf(o, s) \in 1..n /\ o[IndexOf(o, s)] = s
      /\ \A i \in 1..n : IndexOf(o, o[i]) = i
  BY Standing
<1>2. n \in Nat /\ o \in [1..n -> S] /\ \A i, j \in 1..n : o[i] = o[j] => i = j
  BY DEF Lists
<1>3. /\ DOMAIN stages' = DOMAIN stages
      /\ \A s \in DOMAIN stages : stages'[s].workflow = stages[s].workflow
      /\ \A s \in S : stages'[s].position = IndexOf(o, s)
  <2>. HIDE DEF n
  <2>. QED
    BY <1>1 DEF Renumbered, OfWorkflow
<1>4. OfWorkflow(stages', w) = S
  BY <1>3 DEF OfWorkflow
<1>. HIDE DEF S, n
<1>5. {stages'[s].position : s \in S} = 1..n
  <2>1. ASSUME NEW i \in 1..n PROVE \E s \in S : stages'[s].position = i
    <3>1. o[i] \in S
      BY <1>2
    <3>. QED
      BY <1>1, <1>3, <3>1
  <2>. QED
    BY <1>1, <1>3, <2>1
<1>6. o \in Orders(stages', w)
  <2>1. ASSUME NEW i \in 1..n, NEW j \in 1..n, i < j
        PROVE  o[i] # o[j] /\ stages'[o[i]].position <= stages'[o[j]].position
    <3>1. o[i] \in S /\ o[j] \in S
      BY <1>2
    <3>2. stages'[o[i]].position = i /\ stages'[o[j]].position = j
      BY <1>1, <1>3, <3>1
    <3>. QED
      BY <1>2, <2>1, <3>2
  <2>. QED
    BY <1>1, <1>2, <1>4, <2>1 DEF Orders, n
<1>. QED
  BY <1>4, <1>5, <1>6 DEF S, n

(* The next stage that is not selected is one of the order, if there is one. *)
LEMMA NextOtherListed ==
    ASSUME NEW S, NEW o, Lists(o, S), NEW ids, NEW i
    PROVE  NextOther(o, ids, i) = 0 \/ NextOther(o, ids, i) \in S \ ids
<1>. DEFINE later == {j \in DOMAIN o : j > i /\ o[j] \notin ids}
<1>1. DOMAIN o = 1..Cardinality(S) /\ Cardinality(S) \in Nat /\ \A j \in DOMAIN o : o[j] \in S
  BY DEF Lists
<1>2. CASE later = {}
  BY <1>2 DEF NextOther
<1>3. CASE later # {}
  <2>1. \E x \in later : \A y \in later : x <= y
    <3>1. later \in SUBSET Nat
      BY <1>1
    <3>. HIDE DEF later
    <3>2. PICK x \in later : \A y \in later : ~(<<y, x>> \in OpToRel(<, Nat))
      BY <1>3, <3>1, NatLessThanWellFounded, WFMin
    <3>3. \A y \in later : ~(y < x)
      BY <3>1, <3>2 DEF OpToRel
    <3>. QED
      BY <3>1, <3>3
  <2>2. Min(later) \in later
    BY <2>1 DEF Min
  <2>. QED
    BY <1>1, <1>3, <2>2 DEF NextOther
<1>. QED
  BY <1>2, <1>3

-----------------------------------------------------------------------------
(* Types *)

StagesFit ==
    /\ workflows \subseteq 1..MaxWorkflowId
    /\ DOMAIN stages \subseteq 1..MaxStageId
    /\ \A s \in DOMAIN stages : stages[s] \in StageRows
TasksFit == \A t \in Cards : task[t] # NoCard => task[t].completed \in BOOLEAN
AskedFit == asked \in 0..MaxRequests

(* What a tab was shown were rows once. *)
ShownFits(shown) ==
    /\ DOMAIN shown.stage \subseteq 1..MaxStageId
    /\ \A s \in DOMAIN shown.stage : shown.stage[s] \in StageRows
    /\ \A t \in Cards : shown.task[t] # NoCard => shown.task[t].completed \in BOOLEAN
SeenFits == DOMAIN seen = Browsers /\ \A b \in Browsers : ShownFits(seen[b])

(* What a service has read, and will write. *)
Contents == [position : Nat \ {0}, type : StageTypes]
RequestFits(r) ==
    /\ r.op = "create" => r.row \in StageRows
    /\ r.op = "update" => r.position \in Nat \ {0} /\ r.type \in StageTypes
    /\ r.op = "setType" => r.type \in CreatableTypes
    /\ r.op = "reorder" => DOMAIN r.order \subseteq Nat \ {0}
    /\ r.op = "copy" => r.contents \in Seq(Contents)
RequestsFit == \A b \in Browsers : RequestFits(request[b])

TInv == StagesFit /\ TasksFit /\ AskedFit /\ SeenFits /\ RequestsFit

(* References and fitting rows give the types. *)
LEMMA TypesFromFits == ASSUME StagesInv, TInv PROVE StagesTypeOK
<1>1. home \in [Projects -> {NoWorkflow} \cup 1..MaxWorkflowId]
  BY DEF StagesInv, RowsHold, ReferencesHold, TInv, StagesFit
<1>2. ASSUME NEW t \in Cards, task[t] # NoCard PROVE task[t] \in TaskRows
  <2>1. /\ task[t] = [project |-> task[t].project, stage |-> task[t].stage, completed |-> task[t].completed]
        /\ task[t].project \in Projects
    BY <1>2 DEF StagesInv, RowsHold, TaskRow
  <2>2. task[t].stage \in 1..MaxStageId /\ task[t].completed \in BOOLEAN
    BY <1>2 DEF StagesInv, ReferencesHold, TInv, StagesFit, TasksFit
  <2>. QED
    BY <2>1, <2>2 DEF TaskRows
<1>3. task \in [Cards -> TaskRows \cup {NoCard}]
  <2>1. task = [t \in Cards |-> task[t]]
    BY DEF StagesInv, RowsHold
  <2>2. \A t \in Cards : task[t] \in TaskRows \cup {NoCard}
    BY <1>2
  <2>. QED
    BY <2>1, <2>2
<1>. QED
  BY <1>1, <1>3 DEF TInv, StagesFit, AskedFit, StagesTypeOK

LEMMA OneMore == ASSUME AskedFit, NEW b, NEW op, Ask(b, op) PROVE AskedFit'
BY StageBoundsAssumption DEF AskedFit, Ask

LEMMA FitGoes ==
    ASSUME StagesInv, RequestsFit, NEW b \in Browsers, NEW r, RequestFits(r), Goes(b, r)
    PROVE  RequestsFit'
BY DEF StagesInv, RequestsHold, RequestsFit, Goes

LEMMA FitEnds ==
    ASSUME StagesInv, RequestsFit, NEW b \in Browsers, Ends(b)
    PROVE  RequestsFit'
<1>1. RequestFits(NoRequest)
  BY DEF RequestFits, NoRequest
<1>. QED
  BY <1>1 DEF StagesInv, RequestsHold, RequestsFit, Ends

(* What a tab reads is what it is shown. *)
LEMMA FitLoad ==
    ASSUME StagesInv, TInv, NEW b \in Browsers, Load(b)
    PROVE  TInv'
<1>1. ShownFits(Shown)
  BY DEF TInv, StagesFit, TasksFit, ShownFits, Shown
<1>2. SeenFits'
  <2>1. seen' = [seen EXCEPT ![b] = Shown]
    BY DEF Load
  <2>2. ShownFits(seen'[b])
    BY <1>1, <2>1 DEF TInv, SeenFits
  <2>3. \A c \in Browsers \ {b} : ShownFits(seen'[c])
    BY <2>1 DEF TInv, SeenFits
  <2>. QED
    BY <2>1, <2>2, <2>3 DEF TInv, SeenFits, ShownFits
<1>. QED
  BY <1>2 DEF TInv, Load, rows, StagesFit, TasksFit, AskedFit, RequestsFit, RequestFits

(* New rows after those in use. *)
LEMMA FitNew ==
    ASSUME StagesFit, NEW first \in NextAfter(DOMAIN stages), NEW w \in 1..MaxWorkflowId,
           NEW contents \in Seq(Contents), first + Len(contents) - 1 <= MaxStageId
    PROVE  /\ DOMAIN WithStages(first, w, contents) \subseteq 1..MaxStageId
           /\ \A s \in DOMAIN WithStages(first, w, contents) :
                 WithStages(first, w, contents)[s] \in StageRows
<1>1. first \in Nat \ {0} /\ Len(contents) \in Nat /\ MaxStageId \in Nat
  <2>1. DOMAIN stages \subseteq Nat
    BY StageBoundsAssumption DEF StagesFit
  <2>. QED
    BY <2>1, NumberedAfter, StageBoundsAssumption
<1>2. DOMAIN WithStages(first, w, contents) = DOMAIN stages \cup first..(first + Len(contents) - 1)
  BY DEF WithStages
<1>3. DOMAIN WithStages(first, w, contents) \subseteq 1..MaxStageId
  BY <1>1, <1>2 DEF StagesFit
<1>4. ASSUME NEW s \in DOMAIN WithStages(first, w, contents), s \notin DOMAIN stages
      PROVE  WithStages(first, w, contents)[s] \in StageRows
  <2>1. s \in first..(first + Len(contents) - 1)
    BY <1>2, <1>4
  <2>2. s - first + 1 \in 1..Len(contents)
    BY <1>1, <2>1
  <2>3. contents[s - first + 1] \in Contents
    BY <2>2
  <2>4. WithStages(first, w, contents)[s] =
           [workflow |-> w, position |-> contents[s - first + 1].position,
            type |-> contents[s - first + 1].type]
    BY <1>2, <1>4 DEF WithStages
  <2>. QED
    BY <2>3, <2>4 DEF StageRows, Contents
<1>5. ASSUME NEW s \in DOMAIN stages
      PROVE  WithStages(first, w, contents)[s] \in StageRows
  BY <1>2 DEF WithStages, StagesFit
<1>. QED
  BY <1>2, <1>3, <1>4, <1>5

LEMMA FitCreated ==
    ASSUME StagesInv, StagesFit, NEW contents \in Seq(Contents), CreateWithStages(contents)
    PROVE  StagesFit'
<1>1. PICK w \in NextAfter(workflows), first \in NextAfter(DOMAIN stages) :
         /\ w <= MaxWorkflowId /\ first + Len(contents) - 1 <= MaxStageId
         /\ workflows' = workflows \cup {w} /\ stages' = WithStages(first, w, contents)
  BY DEF CreateWithStages
<1>2. w \in 1..MaxWorkflowId
  <2>1. w \in Nat \ {0}
    BY NumberedAfter DEF StagesInv, RowsHold
  <2>. QED
    BY <1>1, <2>1, StageBoundsAssumption
<1>. QED
  BY <1>1, <1>2, FitNew DEF StagesFit

LEMMA FitRenumbered ==
    ASSUME StagesFit, NEW w, NEW order, DOMAIN order \subseteq Nat \ {0},
           stages' = Renumbered(w, order), UNCHANGED workflows
    PROVE  StagesFit'
<1>1. ASSUME NEW s \in ToSet(order) PROVE IndexOf(order, s) \in Nat \ {0}
  <2>1. \E i \in DOMAIN order : order[i] = s
    BY DEF ToSet
  <2>2. IndexOf(order, s) \in DOMAIN order
    BY <2>1 DEF IndexOf
  <2>. QED
    BY <2>2
<1>2. DOMAIN stages' = DOMAIN stages
  BY DEF Renumbered
<1>3. \A s \in DOMAIN stages : stages'[s] \in StageRows
  BY <1>1 DEF Renumbered, StagesFit, StageRows
<1>. QED
  BY <1>2, <1>3 DEF StagesFit

LEMMA FitStageWrites ==
    ASSUME StagesInv, TInv, NEW b \in Browsers,
           \/ CreateWrite(b) \/ UpdateWrite(b) \/ SetTypeWrite(b) \/ ReorderWrite(b)
           \/ CreateWorkflow(b) \/ DuplicateWrite(b) \/ DeleteWorkflowWrite(b)
    PROVE  StagesFit'
<1>. USE DEF TInv
<1>0. ASSUME Refused(b) PROVE StagesFit'
  BY <1>0 DEF Refused, rows, StagesFit
<1>1. CASE CreateWrite(b)
  <2>. DEFINE row == request[b].row
  <2>1. CASE Refused(b)
    BY <1>0, <2>1
  <2>2. ASSUME NEW id \in NextAfter(DOMAIN stages), id <= MaxStageId, row.workflow \in workflows,
               stages' = WithStages(id, row.workflow, <<row>>), UNCHANGED workflows
        PROVE  StagesFit'
    <3>1. row \in StageRows
      BY <1>1 DEF RequestsFit, RequestFits, CreateWrite
    <3>2. row.workflow \in 1..MaxWorkflowId
      BY <2>2 DEF StagesFit
    <3>. DEFINE c == [position |-> row.position, type |-> row.type]
    <3>3. <<c>> \in Seq(Contents) /\ Len(<<c>>) = 1 /\ Len(<<row>>) = 1
      BY <3>1 DEF StageRows, Contents
    <3>4. id \in Nat
      <4>1. DOMAIN stages \subseteq Nat
        BY StageBoundsAssumption DEF StagesFit
      <4>. QED
        BY <4>1, NumberedAfter
    <3>5. id + Len(<<c>>) - 1 <= MaxStageId
      BY <2>2, <3>3, <3>4, StageBoundsAssumption
    <3>6. WithStages(id, row.workflow, <<row>>) = WithStages(id, row.workflow, <<c>>)
      <4>1. \A s \in id..(id + 1 - 1) : s - id + 1 = 1
        BY <3>4
      <4>2. <<row>>[1] = row /\ <<c>>[1] = c
        OBVIOUS
      <4>3. row.position = c.position /\ row.type = c.type
        OBVIOUS
      <4>. HIDE DEF c, row
      <4>. QED
        BY <3>3, <4>1, <4>2, <4>3 DEF WithStages
    <3>. HIDE DEF c, row
    <3>. QED
      BY <2>2, <3>2, <3>3, <3>5, <3>6, FitNew DEF StagesFit
  <2>. QED
    BY <1>1, <2>1, <2>2 DEF CreateWrite
<1>2. CASE UpdateWrite(b)
  <2>1. CASE Refused(b)
    BY <1>0, <2>1
  <2>2. CASE ~Refused(b)
    <3>. DEFINE r == request[b]
    <3>1. /\ r.position \in Nat \ {0} /\ r.type \in StageTypes /\ r.id \in DOMAIN stages
          /\ stages' = [stages EXCEPT ![r.id].position = r.position, ![r.id].type = r.type]
          /\ UNCHANGED workflows
      BY <1>2, <2>2 DEF UpdateWrite, RequestsFit, RequestFits
    <3>. HIDE DEF r
    <3>2. \A s \in DOMAIN stages : stages'[s] \in StageRows
      BY <3>1 DEF StagesFit, StageRows
    <3>. QED
      BY <3>1, <3>2 DEF StagesFit
  <2>. QED
    BY <2>1, <2>2
<1>3. CASE SetTypeWrite(b)
  <2>1. request[b].type \in StageTypes
    BY <1>3 DEF SetTypeWrite, RequestsFit, RequestFits, StageTypes
  <2>. QED
    BY <1>3, <2>1 DEF SetTypeWrite, StagesFit, StageRows
<1>4. CASE ReorderWrite(b)
  <2>1. DOMAIN request[b].order \subseteq Nat \ {0}
    BY <1>4 DEF ReorderWrite, RequestsFit, RequestFits
  <2>. QED
    BY <1>4, <2>1, FitRenumbered DEF ReorderWrite
<1>5. CASE CreateWorkflow(b)
  <2>1. DefaultStages \in Seq(Contents)
    BY DEF DefaultStages, Contents, StageTypes, CreatableTypes
  <2>. QED
    BY <1>5, <2>1, FitCreated DEF CreateWorkflow
<1>6. CASE DuplicateWrite(b)
  <2>1. request[b].contents \in Seq(Contents)
    BY <1>6 DEF DuplicateWrite, RequestsFit, RequestFits
  <2>. QED
    BY <1>6, <2>1, FitCreated DEF DuplicateWrite
<1>7. CASE DeleteWorkflowWrite(b)
  BY <1>0, <1>7 DEF DeleteWorkflowWrite, Only, StagesFit
<1>. QED
  BY <1>1, <1>2, <1>3, <1>4, <1>5, <1>6, <1>7

(* Deleting stages and rerouting their tasks, and moving a block of stages. *)
LEMMA FitDeleted ==
    ASSUME StagesFit, NEW b, DeleteWrite(b)
    PROVE  StagesFit'
BY DEF StagesFit, DeleteWrite, Only

(* A task is completed as it was, as it was shown, or as its stage says. *)
LEMMA WrittenCompleted ==
    ASSUME NEW tk, NEW s, NEW completed \in BOOLEAN
    PROVE  Written(tk, s, completed).completed \in BOOLEAN
BY DEF Written

LEMMA FitRerouted ==
    ASSUME TasksFit, NEW mapping, NEW t \in Cards
    PROVE  Rerouted(mapping)[t] # NoCard => Rerouted(mapping)[t].completed \in BOOLEAN
<1>1. CASE task[t] # NoCard
  <2>1. task[t].completed \in BOOLEAN
    BY <1>1 DEF TasksFit
  <2>2. \A s : Moved(task[t], s).completed \in BOOLEAN
    BY <2>1, WrittenCompleted DEF Moved
  <2>. QED
    BY <2>1, <2>2 DEF Rerouted
<1>2. CASE task[t] = NoCard
  BY <1>2 DEF Rerouted
<1>. QED
  BY <1>1, <1>2

LEMMA FitTaskWrites ==
    ASSUME StagesInv, TInv, NEW b \in Browsers,
           \/ DeleteWrite(b) \/ SwitchWrite(b) \/ DeleteProject(b) \/ PutTask(b) \/ BulkUpdate(b)
           \/ TransitionStage(b) \/ CreateTask(b) \/ RemoveTask(b)
    PROVE  TasksFit'
<1>. USE DEF TInv
<1>0. /\ task = [t \in Cards |-> task[t]]
      /\ \A t \in Cards : task[t] # NoCard => task[t].completed \in BOOLEAN
      /\ \A t \in Cards : seen[b].task[t] # NoCard => seen[b].task[t].completed \in BOOLEAN
  BY DEF StagesInv, RowsHold, TasksFit, SeenFits, ShownFits
<1>1. CASE DeleteWrite(b)
  BY <1>1, FitRerouted DEF DeleteWrite, TasksFit
<1>2. CASE SwitchWrite(b)
  <2>. DEFINE r == request[b]
  <2>1. ASSUME NEW t \in Cards, CaughtUp(r, Rerouted(r.mapping)[t]) # NoCard, t \in TasksOf(r.project)
        PROVE  CaughtUp(r, Rerouted(r.mapping)[t]).completed \in BOOLEAN
    <3>1. Rerouted(r.mapping)[t] # NoCard
      BY <2>1, ReroutedRow, TaskRowExists DEF TasksOf, StagesInv
    <3>2. Rerouted(r.mapping)[t].completed \in BOOLEAN
      BY <3>1, FitRerouted
    <3>. QED
      BY <3>2, WrittenCompleted DEF CaughtUp, Moved
  <2>2. task' = Switched(r) \/ task' = task
    BY <1>2 DEF SwitchWrite
  <2>. HIDE DEF r
  <2>. QED
    BY <1>0, <2>1, <2>2 DEF Switched, TasksFit
<1>3. CASE DeleteProject(b)
  BY <1>0, <1>3 DEF DeleteProject, TasksFit
<1>4. CASE PutTask(b)
  <2>1. PICK t \in ShownTasks(b) : \E s :
           task' = [task EXCEPT ![t] = Written(@, s, seen[b].task[t].completed)]
    BY <1>4 DEF PutTask
  <2>2. \A s : Written(task[t], s, seen[b].task[t].completed).completed \in BOOLEAN
    BY <1>0, WrittenCompleted DEF ShownTasks
  <2>. QED
    BY <1>0, <2>1, <2>2 DEF TasksFit
<1>5. CASE BulkUpdate(b)
  <2>1. PICK ts \in SUBSET ShownTasks(b) : \E s :
           task' = [t \in Cards |-> IF t \in ts THEN Moved(task[t], s) ELSE task[t]]
    BY <1>5 DEF BulkUpdate
  <2>2. \A t \in ts : \A s : Moved(task[t], s).completed \in BOOLEAN
    BY <1>0, WrittenCompleted DEF ShownTasks, Moved
  <2>. QED
    BY <1>0, <2>1, <2>2 DEF TasksFit
<1>6. CASE TransitionStage(b)
  <2>1. PICK t \in ShownTasks(b) : \E s : task' = [task EXCEPT ![t] = Moved(@, s)]
    BY <1>6 DEF TransitionStage
  <2>2. \A s : Moved(task[t], s).completed \in BOOLEAN
    BY <1>0, WrittenCompleted DEF ShownTasks, Moved
  <2>. QED
    BY <1>0, <2>1, <2>2 DEF TasksFit
<1>7. CASE CreateTask(b)
  <2>1. PICK t \in Cards, p \in Projects : \E s \in ShownStages(b, p) :
           task' = [task EXCEPT ![t] = [project |-> p, stage |-> s,
                                        completed |-> stages[s].type = "done"]]
    BY <1>7 DEF CreateTask
  <2>2. PICK s : task' = [task EXCEPT ![t] = [project |-> p, stage |-> s,
                                               completed |-> stages[s].type = "done"]]
    BY <2>1
  <2>3. task'[t].completed \in BOOLEAN
    BY <1>0, <2>2
  <2>4. \A u \in Cards \ {t} : task'[u] = task[u]
    BY <1>0, <2>2
  <2>. QED
    BY <1>0, <2>3, <2>4 DEF TasksFit
<1>8. CASE RemoveTask(b)
  BY <1>0, <1>8 DEF RemoveTask, TasksFit
<1>. QED
  BY <1>1, <1>2, <1>3, <1>4, <1>5, <1>6, <1>7, <1>8

(* The orders of shown and stored stages list them. *)
LEMMA ShownOrders ==
    ASSUME SeenFits, NEW b \in Browsers, NEW w, NEW o \in Orders(seen[b].stage, w)
    PROVE  Lists(o, OfWorkflow(seen[b].stage, w)) /\ OfWorkflow(seen[b].stage, w) \subseteq 1..MaxStageId
<1>1. OfWorkflow(seen[b].stage, w) \in SUBSET (1..MaxStageId)
  BY DEF SeenFits, ShownFits, OfWorkflow
<1>. QED
  BY <1>1, Indices, OrdersList, StageBoundsAssumption

LEMMA StoredOrders ==
    ASSUME StagesFit, NEW w, NEW o \in Orders(stages, w)
    PROVE  Lists(o, OfWorkflow(stages, w)) /\ OfWorkflow(stages, w) \subseteq 1..MaxStageId
<1>1. OfWorkflow(stages, w) \in SUBSET (1..MaxStageId)
  BY DEF StagesFit, OfWorkflow
<1>. QED
  BY <1>1, Indices, OrdersList, StageBoundsAssumption

(* The order the page sends after dragging one stage is a sequence. *)
LEMMA DraggedOrder ==
    ASSUME NEW S, NEW items, Lists(items, S), NEW i \in DOMAIN items, NEW j \in DOMAIN items
    PROVE  DOMAIN InsertAt(RemoveAt(items, i), j, items[i]) \subseteq Nat \ {0}
<1>. DEFINE n == Cardinality(S)
<1>1. n \in Nat /\ items \in [1..n -> S] /\ DOMAIN items = 1..n
  BY DEF Lists
<1>. HIDE DEF n
<1>2. items \in Seq(S) /\ Len(items) = n
  <2>1. items \in Seq(S)
    BY <1>1
  <2>. QED
    BY <1>1, <2>1
<1>3. SubSeq(items, 1, i - 1) \in Seq(S) /\ SubSeq(items, i + 1, Len(items)) \in Seq(S)
  BY <1>1, <1>2
<1>4. RemoveAt(items, i) \in Seq(S) /\ Len(RemoveAt(items, i)) = n - 1
  <2>1. Len(SubSeq(items, 1, i - 1)) = i - 1 /\ Len(SubSeq(items, i + 1, Len(items))) = n - i
    BY <1>1, <1>2
  <2>2. RemoveAt(items, i) \in Seq(S)
        /\ Len(RemoveAt(items, i)) = Len(SubSeq(items, 1, i - 1)) + Len(SubSeq(items, i + 1, Len(items)))
    BY <1>3 DEF RemoveAt
  <2>3. n \in Int /\ i \in Int
    BY <1>1
  <2>. QED
    BY <2>1, <2>2, <2>3
<1>. DEFINE rest == RemoveAt(items, i)
<1>. HIDE DEF rest
<1>5. rest \in Seq(S) /\ Len(rest) = n - 1
  BY <1>4 DEF rest
<1>6. SubSeq(rest, 1, j - 1) \in Seq(S) /\ SubSeq(rest, j, Len(rest)) \in Seq(S)
      /\ <<items[i]>> \in Seq(S)
  BY <1>1, <1>5
<1>7. InsertAt(rest, j, items[i]) \in Seq(S)
  BY <1>6 DEF InsertAt
<1>. QED
  BY <1>7 DEF rest

(* What the services read fits what they write. *)
LEMMA FitReading ==
    ASSUME StagesInv, TInv, NEW b \in Browsers, Reading(b) \/ DestinationsChecked(b) \/ SwitchStages(b)
    PROVE  RequestsFit'
<1>. USE DEF TInv
<1>1. CASE CreateRead(b)
  <2>0. PICK w \in ShownWorkflows(b), type \in CreatableTypes :
           \E position \in NextAfter(Positions(w)) :
              Goes(b, [op |-> "create",
                       row |-> [workflow |-> w, position |-> position, type |-> type]])
    BY <1>1 DEF CreateRead
  <2>1. PICK position \in NextAfter(Positions(w)) :
           Goes(b, [op |-> "create", row |-> [workflow |-> w, position |-> position, type |-> type]])
    BY <2>0
  <2>2. w \in 1..MaxWorkflowId
    BY DEF ShownWorkflows, SeenFits, ShownFits, StageRows
  <2>3. position \in Nat \ {0}
    <3>1. Positions(w) \subseteq Nat
      BY DEF Positions, OfWorkflow, StagesFit, StageRows
    <3>. QED
      BY <3>1, NumberedAfter
  <2>4. RequestFits([op |-> "create", row |-> [workflow |-> w, position |-> position, type |-> type]])
    BY <2>2, <2>3 DEF RequestFits, StageRows, StageTypes
  <2>. QED
    BY <2>1, <2>4, FitGoes
<1>2. CASE UpdateRead(b)
  <2>1. PICK s \in DOMAIN seen[b].stage \cap DOMAIN stages :
           Goes(b, [op |-> "update", id |-> s,
                    position |-> seen[b].stage[s].position, type |-> PinnedType(b, s)])
    BY <1>2 DEF UpdateRead
  <2>2. seen[b].stage[s].position \in Nat \ {0} /\ PinnedType(b, s) \in StageTypes
    BY DEF SeenFits, ShownFits, StagesFit, StageRows, PinnedType
  <2>3. RequestFits([op |-> "update", id |-> s,
                     position |-> seen[b].stage[s].position, type |-> PinnedType(b, s)])
    BY <2>2 DEF RequestFits
  <2>. QED
    BY <2>1, <2>3, FitGoes
<1>3. CASE SetTypeRead(b)
  <2>1. PICK type \in CreatableTypes : \E ids :
           Goes(b, [op |-> "setType", ids |-> NotOpen(ids), type |-> type])
    BY <1>3 DEF SetTypeRead
  <2>2. \A ids : RequestFits([op |-> "setType", ids |-> NotOpen(ids), type |-> type])
    BY DEF RequestFits
  <2>. QED
    BY <2>1, <2>2, FitGoes
<1>4. ASSUME NEW ids, NEW mapping, NEW guarded, Settles(b, ids, mapping, guarded)
      PROVE  RequestsFit'
  <2>1. RequestFits([op |-> IF mapping = <<>> THEN "removing" ELSE "checking",
                     ids |-> ids, mapping |-> mapping, guarded |-> guarded])
    BY DEF RequestFits
  <2>. QED
    BY <1>4, <2>1, FitGoes DEF Settles
<1>5. CASE DeleteRead(b)
  BY <1>4, <1>5 DEF DeleteRead
<1>6. CASE DeleteManyRead(b)
  BY <1>4, <1>6 DEF DeleteManyRead
<1>7. CASE ReorderRead(b)
  <2>0. PICK w \in workflows : \E items \in Orders(seen[b].stage, w) : \E i, j \in DOMAIN items :
           Goes(b, [op |-> "reorder", workflow |-> w,
                    order |-> InsertAt(RemoveAt(items, i), j, items[i])])
    BY <1>7 DEF ReorderRead
  <2>1. PICK items \in Orders(seen[b].stage, w) : \E i, j \in DOMAIN items :
           Goes(b, [op |-> "reorder", workflow |-> w,
                    order |-> InsertAt(RemoveAt(items, i), j, items[i])])
    BY <2>0
  <2>2. PICK i \in DOMAIN items, j \in DOMAIN items :
           Goes(b, [op |-> "reorder", workflow |-> w,
                    order |-> InsertAt(RemoveAt(items, i), j, items[i])])
    BY <2>1
  <2>3. DOMAIN InsertAt(RemoveAt(items, i), j, items[i]) \subseteq Nat \ {0}
    BY ShownOrders, DraggedOrder
  <2>4. RequestFits([op |-> "reorder", workflow |-> w,
                     order |-> InsertAt(RemoveAt(items, i), j, items[i])])
    BY <2>3 DEF RequestFits
  <2>. QED
    BY <2>2, <2>4, FitGoes
<1>8. CASE DuplicateFind(b)
  <2>1. PICK w : Goes(b, [op |-> "duplicate", workflow |-> w])
    BY <1>8 DEF DuplicateFind
  <2>2. RequestFits([op |-> "duplicate", workflow |-> w])
    BY DEF RequestFits
  <2>. QED
    BY <2>1, <2>2, FitGoes
<1>9. CASE DuplicateRead(b)
  <2>1. PICK order \in Orders(stages, request[b].workflow) :
           Goes(b, [op |-> "copy",
                    contents |-> [i \in DOMAIN order |->
                                    [position |-> stages[order[i]].position,
                                     type |-> stages[order[i]].type]]])
    BY <1>9 DEF DuplicateRead
  <2>. DEFINE S == OfWorkflow(stages, request[b].workflow)
              contents == [i \in DOMAIN order |-> [position |-> stages[order[i]].position,
                                                   type |-> stages[order[i]].type]]
  <2>2. Lists(order, S)
    BY StoredOrders
  <2>3. DOMAIN order = 1..Cardinality(S) /\ Cardinality(S) \in Nat
        /\ \A i \in DOMAIN order : order[i] \in DOMAIN stages
    BY <2>2 DEF Lists, OfWorkflow
  <2>4. contents \in [1..Cardinality(S) -> Contents]
    BY <2>3 DEF StagesFit, StageRows, Contents
  <2>5. contents \in Seq(Contents)
    <3>. HIDE DEF contents, S
    <3>. QED
      BY <2>3, <2>4
  <2>6. RequestFits([op |-> "copy", contents |-> contents])
    BY <2>5 DEF RequestFits
  <2>. QED
    BY <2>1, <2>6, FitGoes
<1>10. CASE DeleteWorkflowRead(b)
  <2>1. PICK ids : Goes(b, [op |-> "deleteWorkflow", ids |-> ids])
    BY <1>10 DEF DeleteWorkflowRead
  <2>2. RequestFits([op |-> "deleteWorkflow", ids |-> ids])
    BY DEF RequestFits
  <2>. QED
    BY <2>1, <2>2, FitGoes
<1>11. CASE SwitchRead(b)
  <2>1. PICK p, old, new, mapping :
           Goes(b, [op |-> "switch", project |-> p, old |-> old, new |-> new, mapping |-> mapping])
    BY <1>11 DEF SwitchRead
  <2>2. RequestFits([op |-> "switch", project |-> p, old |-> old, new |-> new, mapping |-> mapping])
    BY DEF RequestFits
  <2>. QED
    BY <2>1, <2>2, FitGoes
<1>12. ASSUME Refused(b) PROVE RequestsFit'
  BY <1>12, FitEnds DEF Refused
<1>13. CASE DestinationsChecked(b)
  <2>1. RequestFits([request[b] EXCEPT !.op = "removing"])
    <3>1. "op" \in DOMAIN request[b]
      BY DEF StagesInv, RequestsHold, RequestHolds
    <3>. QED
      BY <3>1 DEF RequestFits
  <2>. QED
    BY <1>12, <1>13, <2>1, FitGoes DEF DestinationsChecked
<1>14. CASE SwitchStages(b)
  <2>1. ASSUME NEW p, NEW old, NEW new, NEW mapping, NEW open,
               Goes(b, [op |-> "switching", project |-> p, old |-> old, new |-> new,
                        mapping |-> mapping, fallback |-> open])
        PROVE  RequestsFit'
    <3>1. RequestFits([op |-> "switching", project |-> p, old |-> old, new |-> new,
                       mapping |-> mapping, fallback |-> open])
      BY DEF RequestFits
    <3>. QED
      BY <2>1, <3>1, FitGoes
  <2>. QED
    BY <1>12, <1>14, <2>1 DEF SwitchStages
<1>. QED
  BY <1>1, <1>2, <1>3, <1>5, <1>6, <1>7, <1>8, <1>9, <1>10, <1>11, <1>13, <1>14 DEF Reading

(* A block of stages is moved. *)
LEMMA BlockMoved ==
    ASSUME StagesFit,
           NEW w, NEW current, Lists(current, OfWorkflow(stages, w)),
           NEW ids, ids \subseteq Nat \ {0}, NEW before
    PROVE  Lists(MovedOrder(current, ids, before), OfWorkflow(stages, w))
<1>. DEFINE R == OfWorkflow(stages, w)
<1>1. DOMAIN current = 1..Cardinality(R) /\ \A i \in DOMAIN current : current[i] \in R
  BY DEF Lists
<1>2. R \subseteq Nat \ {0}
  BY DEF OfWorkflow, StagesFit
<1>3. {i \in DOMAIN current : current[i] \notin ids} = {i \in DOMAIN current : current[i] \in R \ ids}
      /\ {i \in DOMAIN current : current[i] \in ids} = {i \in DOMAIN current : current[i] \in R \cap ids}
  BY <1>1
<1>. HIDE DEF R
<1>4. Lists(Others(current, ids), R \ ids) /\ Lists(Block(current, ids), R \cap ids)
  BY <1>3, PickedLists DEF Others, Block, R
<1>5. InsertIndex(current, ids, before) \in 0..Cardinality(R \ ids)
  <2>1. Cardinality(R \ ids) \in Nat /\ Len(Others(current, ids)) = Cardinality(R \ ids)
    BY <1>4 DEF Lists
  <2>2. Anchor(current, ids, before) = 0 \/ Anchor(current, ids, before) \in R \ ids
    <3>1. ToSet(current) = R
      BY Standing DEF R
    <3>. QED
      BY <3>1, NextOtherListed DEF Anchor, R
  <2>3. ASSUME NEW a \in R \ ids PROVE IndexOf(Others(current, ids), a) \in 1..Cardinality(R \ ids)
    BY <1>4, Standing
  <2>4. CASE Anchor(current, ids, before) = 0
    BY <2>1, <2>4 DEF InsertIndex
  <2>5. CASE Anchor(current, ids, before) \in R \ ids
    <3>1. Anchor(current, ids, before) # 0
      BY <1>2, <2>5 DEF R
    <3>2. InsertIndex(current, ids, before) =
             IndexOf(Others(current, ids), Anchor(current, ids, before)) - 1
      BY <3>1 DEF InsertIndex
    <3>3. IndexOf(Others(current, ids), Anchor(current, ids, before)) \in 1..Cardinality(R \ ids)
      BY <2>3, <2>5
    <3>. QED
      BY <2>1, <3>2, <3>3
  <2>. QED
    BY <2>2, <2>4, <2>5
<1>6. Lists(MovedOrder(current, ids, before), (R \ ids) \cup (R \cap ids))
  BY <1>4, <1>5, SplicedLists DEF MovedOrder
<1>7. (R \ ids) \cup (R \cap ids) = R
  OBVIOUS
<1>. QED
  BY <1>6, <1>7 DEF R

LEMMA FitMoved ==
    ASSUME TInv, NEW b \in Browsers, NEW w, NEW items \in Orders(seen[b].stage, w),
           NEW current \in Orders(stages, w), NEW ids \in SUBSET ToSet(items),
           NEW over \in ToSet(items), BulkMove(b, w, items, current, ids, over)
    PROVE  /\ Lists(MovedOrder(current, ids, BeforeId(items, ids, over)), OfWorkflow(stages, w))
           /\ StagesFit'
<1>. DEFINE order == MovedOrder(current, ids, BeforeId(items, ids, over))
<1>1. Lists(order, OfWorkflow(stages, w))
  <2>1. ids \subseteq Nat \ {0}
    <3>1. /\ Lists(items, OfWorkflow(seen[b].stage, w))
          /\ OfWorkflow(seen[b].stage, w) \subseteq 1..MaxStageId
      BY ShownOrders DEF TInv
    <3>2. ToSet(items) \subseteq 1..MaxStageId
      BY <3>1, Standing
    <3>. QED
      BY <3>2
  <2>. QED
    BY <2>1, StoredOrders, BlockMoved DEF TInv
<1>. HIDE DEF order
<1>2. DOMAIN order \subseteq Nat \ {0}
  BY <1>1 DEF Lists
<1>3. StagesFit'
  BY <1>2, FitRenumbered DEF BulkMove, TInv, order
<1>. QED
  BY <1>1, <1>3 DEF order

-----------------------------------------------------------------------------
(* The types, and the moves *)

LEMMA FitInitially == StagesInit => TInv
<1>. SUFFICES ASSUME StagesInit PROVE TInv
  OBVIOUS
<1>. USE InitialRowsHold
<1>1. StagesFit
  <2>1. \A s \in DOMAIN stages : s \in 1..MaxStageId /\ stages[s] \in StageRows
    BY DEF StagesInit
  <2>2. workflows = {stages[s].workflow : s \in DOMAIN stages}
    BY DEF StagesInit
  <2>. QED
    BY <2>1, <2>2 DEF StagesFit, StageRows
<1>2. TasksFit
  BY DEF StagesInit, TasksFit, TaskRows
<1>3. AskedFit
  BY StageBoundsAssumption DEF StagesInit, AskedFit
<1>4. SeenFits
  BY <1>1, <1>2 DEF StagesInit, SeenFits, ShownFits, Shown, StagesFit, TasksFit
<1>5. RequestsFit
  BY DEF StagesInit, RequestsFit, RequestFits, NoRequest
<1>. QED
  BY <1>1, <1>2, <1>3, <1>4, <1>5 DEF TInv

LEMMA FitNext == StagesInv /\ TInv /\ [StagesNext]_stagesVars => TInv'
<1>. SUFFICES ASSUME StagesInv, TInv, [StagesNext]_stagesVars PROVE TInv'
  OBVIOUS
<1>. USE DEF TInv
<1>1. CASE UNCHANGED stagesVars
  BY <1>1 DEF stagesVars, StagesFit, TasksFit, AskedFit, SeenFits, ShownFits, RequestsFit, RequestFits
<1>2. ASSUME UNCHANGED <<workflows, stages>> PROVE StagesFit'
  BY <1>2 DEF StagesFit
<1>3. ASSUME UNCHANGED task PROVE TasksFit'
  BY <1>3 DEF TasksFit
<1>4. ASSUME UNCHANGED asked PROVE AskedFit'
  BY <1>4 DEF AskedFit
<1>5. ASSUME UNCHANGED seen PROVE SeenFits'
  BY <1>5 DEF SeenFits, ShownFits
<1>6. ASSUME UNCHANGED request PROVE RequestsFit'
  BY <1>6 DEF RequestsFit, RequestFits
<1>7. ASSUME NEW b \in Browsers, Load(b) PROVE TInv'
  BY <1>7, FitLoad
<1>8. ASSUME NEW b \in Browsers, Reading(b) \/ DestinationsChecked(b) \/ SwitchStages(b)
      PROVE  TInv'
  <2>1. RequestsFit'
    BY <1>8, FitReading
  <2>2. UNCHANGED <<rows, seen>>
    <3>1. CASE Reading(b)
      <4>1. PICK r : Goes(b, r)
        BY <3>1, ReadingStep
      <4>. QED
        BY <4>1 DEF Goes
    <3>2. CASE DestinationsChecked(b) \/ SwitchStages(b)
      <4>1. Refused(b) \/ \E r : Goes(b, r)
        BY <3>2, CheckingStep
      <4>. QED
        BY <4>1 DEF Goes, Refused, Ends
    <3>. QED
      BY <1>8, <3>1, <3>2
  <2>3. AskedFit'
    <3>1. CASE UNCHANGED asked
      BY <1>4, <3>1
    <3>2. ASSUME NEW op, Ask(b, op) PROVE AskedFit'
      BY <3>2, OneMore
    <3>3. CASE DuplicateRead(b) \/ DestinationsChecked(b) \/ SwitchStages(b)
      BY <3>1, <3>3 DEF DuplicateRead, DestinationsChecked, SwitchStages, Refused, Ends
    <3>. QED
      BY <1>8, <3>2, <3>3
         DEF Reading, CreateRead, UpdateRead, SetTypeRead, DeleteRead, DeleteManyRead, ReorderRead,
             DuplicateFind, DeleteWorkflowRead, SwitchRead
  <2>. QED
    BY <1>2, <1>3, <1>5, <2>1, <2>2, <2>3 DEF rows
<1>9. ASSUME NEW b \in Browsers,
             \/ CreateWrite(b) \/ UpdateWrite(b) \/ SetTypeWrite(b) \/ ReorderWrite(b)
             \/ DuplicateWrite(b) \/ DeleteWorkflowWrite(b)
      PROVE  TInv'
  <2>1. StagesFit'
    BY <1>9, FitStageWrites
  <2>2. Ends(b) /\ UNCHANGED task
    BY <1>9 DEF CreateWrite, UpdateWrite, SetTypeWrite, ReorderWrite, DuplicateWrite,
                DeleteWorkflowWrite, CreateWithStages, Refused, rows
  <2>. QED
    BY <1>3, <1>4, <1>5, <2>1, <2>2, FitEnds DEF Ends
<1>10. ASSUME NEW b \in Browsers, CreateWorkflow(b) PROVE TInv'
  <2>1. StagesFit'
    BY <1>10, FitStageWrites
  <2>. QED
    BY <1>3, <1>5, <1>6, <1>10, <2>1, OneMore DEF CreateWorkflow, CreateWithStages
<1>11. ASSUME NEW b \in Browsers, DeleteWrite(b) \/ SwitchWrite(b) PROVE TInv'
  <2>1. TasksFit'
    BY <1>11, FitTaskWrites
  <2>2. StagesFit'
    BY <1>2, <1>11, FitDeleted DEF SwitchWrite
  <2>3. Ends(b)
    BY <1>11 DEF DeleteWrite, SwitchWrite
  <2>. QED
    BY <1>4, <1>5, <2>1, <2>2, <2>3, FitEnds DEF Ends
<1>12. ASSUME NEW b \in Browsers,
              \/ PutProject(b) \/ CreateProject(b) \/ DeleteProject(b) \/ PutTask(b)
              \/ BulkUpdate(b) \/ TransitionStage(b) \/ CreateTask(b) \/ RemoveTask(b)
       PROVE  TInv'
  <2>1. TasksFit'
    BY <1>3, <1>12, FitTaskWrites DEF PutProject, CreateProject
  <2>2. UNCHANGED <<workflows, stages, seen, request>> /\ \E op : Ask(b, op)
    BY <1>12 DEF PutProject, CreateProject, DeleteProject, PutTask, BulkUpdate, TransitionStage,
                 CreateTask, RemoveTask
  <2>. QED
    BY <1>2, <1>5, <1>6, <2>1, <2>2, OneMore
<1>13. ASSUME NEW b \in Browsers, NEW w, NEW items \in Orders(seen[b].stage, w),
              NEW current \in Orders(stages, w), NEW ids \in SUBSET ToSet(items),
              NEW over \in ToSet(items), BulkMove(b, w, items, current, ids, over)
       PROVE  TInv'
  BY <1>3, <1>5, <1>6, <1>13, FitMoved, OneMore DEF BulkMove
<1>. QED
  BY <1>1, <1>7, <1>8, <1>9, <1>10, <1>11, <1>12, <1>13 DEF StagesNext, Reading

(* Workflows, stages, projects and tasks keep their types; in particular a  *)
(* stage's position is a number from 1 on, whatever is created, copied,     *)
(* dragged, moved in blocks and put back as it was shown (stageService.go,  *)
(* stageRepo.go).                                                           *)
THEOREM StagesTypeCorrect == StagesSpec => []StagesTypeOK
<1>. QED
  BY InitHolds, NextHolds, FitInitially, FitNext, TypesFromFits, PTL DEF StagesSpec

(* Where the page and the server have the same order, they splice the same. *)
LEMMA PageSplicesAlike ==
    ASSUME NEW b \in Browsers, TInv, NEW w, NEW items \in Orders(seen[b].stage, w),
           NEW ids \in SUBSET ToSet(items), NEW over \in ToSet(items)
    PROVE  DroppedOrder(items, ids, over) = MovedOrder(items, ids, BeforeId(items, ids, over))
<1>. DEFINE before == BeforeId(items, ids, over)
            S == OfWorkflow(seen[b].stage, w)
<1>1. Lists(items, S) /\ S \subseteq 1..MaxStageId
  BY ShownOrders DEF TInv
<1>. HIDE DEF S
<1>2. ToSet(items) = S /\ 0 \notin S
  BY <1>1, Standing
<1>3. before = 0 \/ before \in S \ ids
  BY <1>1, <1>2, NextOtherListed DEF BeforeId
<1>. HIDE DEF before
<1>4. Anchor(items, ids, before) = before
  BY <1>2, <1>3 DEF Anchor
<1>. QED
  BY <1>4 DEF DroppedOrder, MovedOrder, InsertIndex, before

(* A block of stages that is dropped where the page has the server's order  *)
(* is stored as the page shows it, and a move leaves the positions 1, 2,    *)
(* ..., even if two stages had the same before, for any number of stages,   *)
(* any selection and any place (stage-list.tsx; stageRepo.go BulkMove).     *)
THEOREM MovesStoreWhatIsShown == StagesSpec => MoveStoresWhatIsShown
<1>. DEFINE Stored(b, w, items, current, ids, over) ==
        /\ {stages'[s].position : s \in OfWorkflow(stages', w)}
              = 1..Cardinality(OfWorkflow(stages', w))
        /\ items = current => DroppedOrder(items, ids, over) \in Orders(stages', w)
<1>1. ASSUME TInv, NEW b \in Browsers, NEW w, NEW items \in Orders(seen[b].stage, w),
             NEW current \in Orders(stages, w), NEW ids \in SUBSET ToSet(items),
             NEW over \in ToSet(items), BulkMove(b, w, items, current, ids, over)
      PROVE  Stored(b, w, items, current, ids, over)
  <2>. DEFINE order == MovedOrder(current, ids, BeforeId(items, ids, over))
  <2>1. Lists(order, OfWorkflow(stages, w)) /\ stages' = Renumbered(w, order)
    BY <1>1, FitMoved DEF BulkMove
  <2>2. \A s \in DOMAIN stages : "workflow" \in DOMAIN stages[s] /\ "position" \in DOMAIN stages[s]
    BY <1>1 DEF TInv, StagesFit, StageRows
  <2>3. items = current => DroppedOrder(items, ids, over) = order
    BY <1>1, PageSplicesAlike
  <2>. HIDE DEF order
  <2>. QED
    BY <2>1, <2>2, <2>3, RenumberedStores
<1>. DEFINE Moves ==
        asked' # asked /\ request' = request => \A b \in Browsers : \A w \in ShownWorkflows(b) :
           \A items \in Orders(seen[b].stage, w), current \in Orders(stages, w) :
              \A ids \in SUBSET ToSet(items), over \in ToSet(items) :
                 BulkMove(b, w, items, current, ids, over)
                    => Stored(b, w, items, current, ids, over)
<1>2. TInv => Moves
  BY <1>1
<1>. QED
  BY <1>2, InitHolds, NextHolds, FitInitially, FitNext, PTL
     DEF StagesSpec, MoveStoresWhatIsShown
=============================================================================
