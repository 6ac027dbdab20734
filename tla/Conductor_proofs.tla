-------------------------- MODULE Conductor_proofs --------------------------
(***************************************************************************)
(* Theorems about Conductor for any number of tasks, projects, requests,   *)
(* jobs, handoffs, edits and crashes: its types, that a reservation is     *)
(* exclusive and leaves no job behind, that a handoff is started once and  *)
(* parked only by a turn that saw it, what a pause stops, how a review is  *)
(* earned, that selection turns are paid for by handoffs and crashes, and  *)
(* that its queue implements JobLifecycle.                                 *)
(***************************************************************************)
EXTENDS Conductor, TLAPS, WellFoundedInduction, FiniteSetTheorems

-----------------------------------------------------------------------------
(* The inductive invariant. *)

\* What the fields of the worker hold.
Verdicts == {"canceled", "interrupted", "failed", "completed"}
WorkerType ==
    [pc : Locations, after : {"idle", "claim"}, rows : SUBSET Snapshots,
     current : SUBSET Snapshots, seen : SUBSET TaskReads, job : Jobs \union {NoJob},
     to : RowStates \union Verdicts,
     outcome : {"none", "done", "blocker", "malformed", "error", "stopped"},
     dispatch : Nat]

TaskTypes ==
    /\ stage \in [Tasks -> Stages]
    /\ project \in [Tasks -> Projects]
    /\ content \in [Tasks -> Contents]
    /\ blocked \in [Tasks -> BOOLEAN]
    /\ enabled \in [Projects -> BOOLEAN]
    /\ valid \in [Projects -> BOOLEAN]

JobTypes ==
    /\ status \in [Jobs -> Statuses]
    /\ taskOf \in [Jobs -> Tasks \union {NoTask}]
    /\ request \in [Jobs -> Requests]
    /\ output \in [Jobs -> Outputs]
    /\ rejected \subseteq Jobs

RowTypes == row \in [Tasks -> Rows]

CallTypes == call \in [Calls -> CallReads \union {NoCall}]

CountTypes ==
    /\ nextKey \in Keys
    /\ nextDispatch \in Nat /\ paid \in Nat
    /\ edits \in 0 .. MaxEdits
    /\ downs \in 0 .. MaxDowns
    /\ dispatches \subseteq [id : 1 .. nextDispatch, project : Projects]

\* TypeOK, with the domains that an update of a function needs.
Typed == /\ TaskTypes /\ JobTypes /\ RowTypes /\ CallTypes /\ CountTypes
         /\ worker \in WorkerType

\* The statuses of a job that has not been executed and no longer will be
\* found absent.
NeverRan == {"pending", "claimed", "canceled", "interrupted"}

\* An id that was not handed out has no contract; a row of the table a task.
JobsFit ==
    \A j \in Jobs : /\ status[j] = "absent" => request[j] = NoRequest
                    /\ status[j] # "absent" => taskOf[j] \in Tasks

\* A row, or what was read of one, against its job.
Fits(t, r) ==
    /\ r.state # "none" => r.project \in Projects
    /\ r.state \in {"queued", "working"} => r.expected = WorkingStage /\ r.job # NoJob
    /\ r.job # NoJob => /\ status[r.job] # "absent" /\ taskOf[r.job] = t
                        /\ request[r.job].kind # "manual"
    /\ r.state = "queued" => status[r.job] \in NeverRan

RowsFit == \A t \in Tasks : Fits(t, row[t])

\* A Conductor job that may still start is the job of a queued row.
QueuedHere ==
    \A j \in Jobs :
        status[j] \in {"pending", "claimed"} /\ request[j].kind # "manual"
            => row[taskOf[j]].state = "queued" /\ row[taskOf[j]].job = j

\* Keys are handed out in order, and a waiting row's key has no job yet.
KeysFit ==
    /\ \A t \in Tasks : row[t].key <= nextKey
    /\ \A j \in Jobs : request[j].key <= nextKey
    /\ \A t \in Tasks, j \in Jobs :
          row[t].state = "waiting" /\ request[j].kind = "dispatched" /\ taskOf[j] = t
              => request[j].key # row[t].key

Queue == /\ JobsFit /\ RowsFit /\ QueuedHere /\ KeysFit
         /\ ReservationIsExclusive /\ HandoffStartedOnce

\* What the worker remembers.
Reads == worker.rows \union worker.current
Reading == {"rows", "decide", "advance", "cancel", "set"}
Dispatching == {"offer", "select", "hold"}
Executing == {"harness", "finish", "save"}
Holding == {"begin", "reject", "rejected"} \union Executing

ReadsFit ==
    /\ worker.pc \notin Reading \union Dispatching => Reads = {}
    /\ worker.pc \in Reading \ {"rows"} => \E s \in Snapshots : worker.current = {s}
    /\ \A s \in Reads : Fits(s.task, s.row) /\ s.row.state \in Reserving
    /\ worker.pc \in Dispatching => \A s \in Reads : s.row.state = "waiting"

\* What it has found of the job of the row that it is about to write.
ResultFits(s) ==
    worker.to # "queued" =>
        /\ s.row.job # NoJob /\ status[s.row.job] = "completed"
        /\ output[s.row.job] = IF worker.to = "completed" THEN "done" ELSE "blocker"
        /\ s.row.state = "working"

JobOver(j) == j # NoJob => status[j] \notin {"pending", "claimed"}

PlaceFits ==
    /\ worker.pc \in {"cancel", "set", "hold", "reject", "rejected"} => worker.to \in Parked
    /\ worker.pc = "advance" => /\ worker.to \in {"queued", "completed", "needs_context"}
                                /\ \A s \in worker.current : ResultFits(s)
    /\ worker.pc = "set" => \A s \in worker.current : JobOver(s.row.job)
    /\ worker.pc \in Holding => worker.job # NoJob /\ status[worker.job] # "absent"
    /\ worker.pc \in Executing \union {"rejected"} => JobOver(worker.job)
    /\ worker.pc = "save" => worker.to \in Verdicts

\* What a tool call has read was waiting.
CallsFit == \A c \in Calls : call[c].kind = "start" => call[c].snap.row.state = "waiting"

CInv == Typed /\ Queue /\ ReadsFit /\ PlaceFits /\ CallsFit

-----------------------------------------------------------------------------
(* Types *)

\* The row of a task that is not handed over, and a job id's default, have
\* their types.
LEMMA NoRowType == NoRow \in Rows /\ NoRow.state = "none" /\ NoRow.job = NoJob
                   /\ NoRow.key = NoKey
BY BoundsAssumption DEF NoRow, Rows, RowStates, NoJob, NoKey, Keys

\* A worker that does nothing has its type.
LEMMA IdleType == Idle \in WorkerType /\ Down \in WorkerType
                  /\ Idle.pc = "idle" /\ Down.pc = "down"
BY BoundsAssumption DEF Idle, Down, WorkerType, Locations, RowStates, NoJob

\* A row with another state, as SetState writes it.
LEMMA RowWithState ==
  ASSUME NEW r \in Rows, NEW to \in RowStates
  PROVE  [r EXCEPT !.state = to] \in Rows
BY DEF Rows

\* The types follow from the typing part of the invariant.
LEMMA TypedTypeOK == Typed => TypeOK
<1> SUFFICES ASSUME Typed PROVE TypeOK
  OBVIOUS
<1>1. /\ worker.pc \in Locations /\ worker.rows \subseteq Snapshots
      /\ worker.current \subseteq Snapshots /\ worker.seen \subseteq TaskReads
      /\ worker.job \in Jobs \union {NoJob}
  BY DEF Typed, WorkerType
<1>2. \A c \in Calls : call[c] \in CallReads \union {NoCall}
  BY DEF Typed, CallTypes
<1>3. QED
  BY <1>1, <1>2 DEF Typed, TypeOK, TaskTypes, JobTypes, RowTypes, CountTypes

\* A state without rows, jobs or calls.
LEMMA InitInv == Init => CInv
<1> SUFFICES ASSUME Init PROVE CInv
  OBVIOUS
<1>1. TaskTypes
  BY DEF Init, TaskTypes, Stages, Contents
<1>2. JobTypes
  BY BoundsAssumption DEF Init, JobTypes, Statuses, NoRequest, Requests, Contents, Keys, NoKey,
     Outputs
<1>3. RowTypes
  BY NoRowType DEF Init, RowTypes
<1>4. CallTypes
  BY DEF Init, CallTypes
<1>5. CountTypes
  BY BoundsAssumption DEF Init, CountTypes, Keys
<1>6. worker \in WorkerType
  BY IdleType DEF Init
<1>7. /\ \A t \in Tasks : row[t] = NoRow
      /\ \A j \in Jobs : status[j] = "absent" /\ request[j] = NoRequest
      /\ \A c \in Calls : call[c] = NoCall
  BY DEF Init
<1>8. JobsFit /\ QueuedHere /\ HandoffStartedOnce /\ ReservationIsExclusive
  <2>1. ReservationIsExclusive
    BY <1>7, NoRowType DEF ReservationIsExclusive, Reserving
  <2>2. QED
    BY <1>7, <2>1 DEF JobsFit, QueuedHere, HandoffStartedOnce, NoRequest
<1>9. RowsFit
  BY <1>7, NoRowType DEF RowsFit, Fits
<1>10. KeysFit
  BY <1>7, NoRowType DEF Init, KeysFit, NoRequest, NoKey
<1>11. worker = Idle /\ worker.rows = {} /\ worker.current = {}
  BY DEF Init, Idle
<1>12. ReadsFit /\ PlaceFits
  BY <1>11, IdleType DEF ReadsFit, PlaceFits, Reads, Reading, Dispatching, Holding, Executing
<1>13. CallsFit
  BY <1>7 DEF CallsFit, NoCall
<1>14. QED
  BY <1>1, <1>2, <1>3, <1>4, <1>5, <1>6, <1>8, <1>9, <1>10, <1>12, <1>13 DEF CInv, Typed, Queue

-----------------------------------------------------------------------------
(* The tables: steps without an insert *)

\* A job's status moves on, none comes into being.
StatusMoves ==
    /\ UNCHANGED <<taskOf, request>>
    /\ \A j \in Jobs :
          /\ status'[j] = "absent" <=> status[j] = "absent"
          /\ status'[j] \in ActiveStatuses => status[j] \in ActiveStatuses
          /\ status'[j] \in {"pending", "claimed"} => status[j] \in {"pending", "claimed"}

\* The row is left, reviewed, parked, forgotten or its run begins; if it was
\* queued, its job does not wait any longer.
Left(t) ==
    /\ row'[t].state \notin {"waiting", "queued"}
    /\ row'[t].state # "none" => row[t].state # "none" /\ row'[t].project = row[t].project
    /\ row'[t].state = "working" => /\ row[t].state \in Reserving
                                    /\ row'[t].job = row[t].job
                                    /\ row'[t].job # NoJob
                                    /\ row'[t].expected = WorkingStage
    /\ row'[t].job \in {row[t].job, NoJob}
    /\ row'[t].key \in {row[t].key, NoKey}
    /\ row[t].state = "queued" => status'[row[t].job] \notin {"pending", "claimed"}

\* What is said of the tables survives statuses that move on and rows that are
\* left.
LEMMA TableStep ==
  ASSUME Typed, Queue, StatusMoves, nextKey' = nextKey,
         \A t \in Tasks :
            \/ Left(t)
            \/ /\ row'[t] = row[t]
               /\ row[t].state = "queued" /\ status[row[t].job] \in NeverRan
                      => status'[row[t].job] \in NeverRan
  PROVE  Queue'
<1>1. /\ \A t \in Tasks : row[t] \in Rows /\ Fits(t, row[t])
      /\ taskOf' = taskOf /\ request' = request
  BY DEF Typed, RowTypes, Queue, RowsFit, StatusMoves
<1>2. JobsFit'
  BY <1>1 DEF Queue, JobsFit, StatusMoves
<1>3. RowsFit'
  <2> SUFFICES ASSUME NEW t \in Tasks PROVE Fits(t, row[t])'
    BY DEF RowsFit
  <2>1. row[t].job \in Jobs \union {NoJob}
    BY <1>1 DEF Rows
  <2>2. row[t].job # NoJob => status'[row[t].job] # "absent"
    BY <1>1, <2>1 DEF Fits, StatusMoves
  <2>3. CASE row'[t] = row[t]
    <3>1. row[t].state = "queued" => status'[row[t].job] \in NeverRan
      BY <1>1, <2>3 DEF Left, Fits
    <3>2. QED
      BY <1>1, <2>2, <2>3, <3>1 DEF Fits
  <2>4. CASE Left(t)
    <3>1. row'[t].job # NoJob => row'[t].job = row[t].job
      BY <2>4 DEF Left
    <3>2. QED
      BY <1>1, <2>2, <2>4, <3>1 DEF Fits, Left
  <2>5. QED
    BY <2>3, <2>4
<1>4. QueuedHere'
  <2> SUFFICES ASSUME NEW j \in Jobs, status'[j] \in {"pending", "claimed"},
                      request[j].kind # "manual"
               PROVE  row'[taskOf[j]].state = "queued" /\ row'[taskOf[j]].job = j
    BY <1>1 DEF QueuedHere
  <2>1. status[j] \in {"pending", "claimed"}
    BY DEF StatusMoves
  <2>2. taskOf[j] \in Tasks /\ row[taskOf[j]].state = "queued" /\ row[taskOf[j]].job = j
    BY <2>1 DEF Queue, QueuedHere, JobsFit
  <2>3. ~Left(taskOf[j])
    BY <2>2 DEF Left
  <2>4. QED
    BY <2>2, <2>3
<1>5. KeysFit'
  <2>1. \A t \in Tasks : row'[t].key \in {row[t].key, NoKey}
    BY DEF Left
  <2>2. nextKey \in Nat /\ \A t \in Tasks : row[t].key \in Nat
    BY <1>1, BoundsAssumption DEF Typed, CountTypes, Keys, Rows
  <2>3. \A t \in Tasks : row'[t].key <= nextKey
    BY <2>1, <2>2 DEF Queue, KeysFit, NoKey
  <2>4. \A t \in Tasks : row'[t].state = "waiting" => row'[t] = row[t]
    BY DEF Left
  <2>5. QED
    BY <1>1, <2>3, <2>4 DEF Queue, KeysFit
<1>6. ReservationIsExclusive'
  <2> SUFFICES ASSUME NEW t \in Tasks, row'[t].state \in Reserving, NEW j \in ActiveJobs(t)'
               PROVE  j = row'[t].job
    BY DEF ReservationIsExclusive
  <2>1. j \in ActiveJobs(t)
    BY <1>1 DEF ActiveJobs, StatusMoves
  <2>2. row[t].state \in Reserving /\ row'[t].job = row[t].job
    BY DEF Left, Reserving
  <2>3. QED
    BY <2>1, <2>2 DEF Queue, ReservationIsExclusive
<1>7. HandoffStartedOnce'
  BY <1>1 DEF Queue, HandoffStartedOnce
<1>8. QED
  BY <1>2, <1>3, <1>4, <1>5, <1>6, <1>7 DEF Queue

\* SetState, with the state it is asked for, leaves the row or all rows alone.
LEMMA SetStateRow ==
  ASSUME Typed, NEW s \in Snapshots, NEW to \in Parked, SetState(s, to), s.row.state # "none",
         s.row.state = "queued" => JobOver(s.row.job)', Queue
  PROVE  /\ row' \in [Tasks -> Rows]
         /\ \A t \in Tasks : row'[t] = row[t] \/ Left(t)
<1> DEFINE t == s.task
<1>1. t \in Tasks /\ row[t] \in Rows /\ row \in [Tasks -> Rows] /\ to \in RowStates
  BY DEF Typed, RowTypes, Snapshots, RowStates
<1>2. CASE row' = row
  BY <1>1, <1>2
<1>3. CASE /\ row[t].state = s.row.state /\ row[t].job = s.row.job
           /\ row' = [row EXCEPT ![t].state = to]
  <2>1. [row[t] EXCEPT !.state = to] \in Rows
    BY <1>1, RowWithState
  <2>2. row' = [row EXCEPT ![t] = [row[t] EXCEPT !.state = to]]
    BY <1>1, <1>3
  <2>3. row' \in [Tasks -> Rows] /\ \A u \in Tasks : u # t => row'[u] = row[u]
    BY <1>1, <2>1, <2>2
  <2>4. /\ row'[t].state = to /\ row'[t].project = row[t].project
        /\ row'[t].job = row[t].job /\ row'[t].key = row[t].key
    BY <1>1, <2>2 DEF Rows
  <2>5. row[t].state = "queued" => row[t].job # NoJob
    BY <1>1 DEF Queue, RowsFit, Fits
  <2>6. Left(t)
    BY <1>3, <2>4, <2>5 DEF Left, Parked, JobOver
  <2>7. QED
    BY <2>3, <2>6
<1>4. QED
  BY <1>2, <1>3 DEF SetState

-----------------------------------------------------------------------------
(* The tables: inserts and handoffs *)

\* What an insert changes.
LEMMA InsertFacts ==
  ASSUME Typed, NEW j \in NextJob, NEW t \in Tasks, NEW req \in Requests, Insert(j, t, req)
  PROVE  /\ j \in Jobs /\ status[j] = "absent" /\ output' = output
         /\ status'[j] = "pending" /\ taskOf'[j] = t /\ request'[j] = req
         /\ \A i \in Jobs : i # j => /\ status'[i] = status[i] /\ taskOf'[i] = taskOf[i]
                                     /\ request'[i] = request[i]
         /\ status' \in [Jobs -> Statuses]
         /\ taskOf' \in [Jobs -> Tasks \union {NoTask}]
         /\ request' \in [Jobs -> Requests]
BY DEF Typed, JobTypes, NextJob, Insert, Statuses

\* A row that fits its job still does when another job is inserted.
LEMMA FitsInsert ==
  ASSUME Typed, NEW j \in NextJob, NEW t \in Tasks, NEW req \in Requests, Insert(j, t, req),
         NEW u \in Tasks, NEW r \in Rows, Fits(u, r)
  PROVE  Fits(u, r)'
<1>1. r.job \in Jobs \union {NoJob}
  BY DEF Rows
<1>2. r.job # NoJob => r.job \in Jobs /\ r.job # j
  BY <1>1, InsertFacts DEF Fits
<1>3. r.state = "queued" => r.job # NoJob
  BY DEF Fits
<1>4. QED
  BY <1>2, <1>3, InsertFacts DEF Fits

\* Advance and EnqueueChat: a job for a task without active jobs, and its row
\* queued in the same transaction, under the key it has.
LEMMA QueueRow ==
  ASSUME Typed, Queue, NEW j \in NextJob, NEW t \in Tasks, NEW req \in Requests,
         Insert(j, t, req), req.kind # "manual", ActiveJobs(t) = {}, nextKey' = nextKey,
         req.key = row[t].key, req.kind = "dispatched" => row[t].state = "waiting",
         NEW r \in Rows, row' = [row EXCEPT ![t] = r], r.state = "queued", r.job = j,
         r.expected = WorkingStage, r.project \in Projects, r.key = row[t].key
  PROVE  Queue'
<1>1. /\ j \in Jobs /\ status[j] = "absent" /\ status'[j] = "pending"
      /\ taskOf'[j] = t /\ request'[j] = req
      /\ \A i \in Jobs : i # j => /\ status'[i] = status[i] /\ taskOf'[i] = taskOf[i]
                                  /\ request'[i] = request[i]
  BY InsertFacts
<1>2. row'[t] = r /\ \A u \in Tasks : u # t => row'[u] = row[u]
  BY DEF Typed, RowTypes
<1>3. \A u \in Tasks : row[u] \in Rows /\ Fits(u, row[u])
  BY DEF Typed, RowTypes, Queue, RowsFit
<1>4. \A i \in Jobs : status[i] \in ActiveStatuses => taskOf[i] # t
  BY DEF ActiveJobs
<1>5. JobsFit'
  BY <1>1 DEF Queue, JobsFit
<1>6. RowsFit'
  <2>1. Fits(t, r)'
    BY <1>1 DEF Fits, NeverRan, NoJob, Jobs
  <2>2. ASSUME NEW u \in Tasks, u # t PROVE Fits(u, row[u])'
    <3>1. \A q \in Rows : Fits(u, q) => Fits(u, q)'
      BY FitsInsert
    <3>2. row[u] \in Rows /\ Fits(u, row[u]) /\ row'[u] = row[u]
      BY <1>2, <1>3, <2>2
    <3>3. QED
      BY <3>1, <3>2 DEF Fits
  <2>3. QED
    BY <1>2, <2>1, <2>2 DEF RowsFit, Fits
<1>7. QueuedHere'
  <2> SUFFICES ASSUME NEW i \in Jobs, status'[i] \in {"pending", "claimed"},
                      request'[i].kind # "manual"
               PROVE  row'[taskOf'[i]].state = "queued" /\ row'[taskOf'[i]].job = i
    BY DEF QueuedHere
  <2>1. CASE i = j
    BY <1>1, <1>2, <2>1
  <2>2. CASE i # j
    <3>1. taskOf[i] \in Tasks /\ taskOf[i] # t
      BY <1>1, <1>4, <2>2 DEF Queue, JobsFit, ActiveStatuses
    <3>2. QED
      BY <1>1, <1>2, <2>2, <3>1 DEF Queue, QueuedHere
  <2>3. QED
    BY <2>1, <2>2
<1>8. KeysFit'
  BY <1>1, <1>2 DEF Queue, KeysFit
<1>9. ReservationIsExclusive'
  <2> SUFFICES ASSUME NEW u \in Tasks, row'[u].state \in Reserving, NEW i \in ActiveJobs(u)'
               PROVE  i = row'[u].job
    BY DEF ReservationIsExclusive
  <2>1. i \in Jobs /\ status'[i] \in ActiveStatuses /\ taskOf'[i] = u
    BY DEF ActiveJobs
  <2>2. CASE u = t
    BY <1>1, <1>2, <1>4, <2>1, <2>2
  <2>3. CASE u # t
    <3>1. i \in ActiveJobs(u) /\ row'[u] = row[u]
      BY <1>1, <1>2, <2>1, <2>3 DEF ActiveJobs
    <3>2. QED
      BY <3>1 DEF Queue, ReservationIsExclusive
  <2>4. QED
    BY <2>2, <2>3
<1>10. HandoffStartedOnce'
  <2>1. \A i \in Jobs : i # j /\ request[i].kind = "dispatched" /\ req.kind = "dispatched"
                          /\ taskOf[i] = t => request[i].key # req.key
    BY DEF Queue, KeysFit
  <2>2. QED
    BY <1>1, <2>1 DEF Queue, HandoffStartedOnce
<1>11. QED
  BY <1>5, <1>6, <1>7, <1>8, <1>9, <1>10 DEF Queue

\* EnqueueAI: a job for a task that is not reserved.
LEMMA InsertManual ==
  ASSUME Typed, Queue, NEW j \in NextJob, NEW t \in Tasks, Insert(j, t, NoRequest),
         Unowned(t), UNCHANGED <<row, nextKey>>
  PROVE  Queue'
<1> NoRequest \in Requests /\ NoRequest.kind = "manual" /\ NoRequest.key = NoKey
  BY BoundsAssumption DEF NoRequest, Requests, Contents, Keys, NoKey
<1>1. /\ j \in Jobs /\ status[j] = "absent" /\ status'[j] = "pending"
      /\ taskOf'[j] = t /\ request'[j] = NoRequest
      /\ \A i \in Jobs : i # j => /\ status'[i] = status[i] /\ taskOf'[i] = taskOf[i]
                                  /\ request'[i] = request[i]
  BY InsertFacts
<1>2. \A u \in Tasks : row[u] \in Rows /\ Fits(u, row[u])
  BY DEF Typed, RowTypes, Queue, RowsFit
<1>3. JobsFit'
  BY <1>1 DEF Queue, JobsFit
<1>4. RowsFit'
  <2>1. \A u \in Tasks, q \in Rows : Fits(u, q) => Fits(u, q)'
    BY FitsInsert
  <2>2. QED
    BY <1>2, <2>1 DEF RowsFit, Fits
<1>5. QueuedHere'
  BY <1>1 DEF Queue, QueuedHere
<1>6. KeysFit'
  <2>1. NoKey <= nextKey
    BY BoundsAssumption DEF Typed, CountTypes, Keys, NoKey
  <2>2. QED
    BY <1>1, <2>1 DEF Queue, KeysFit
<1>7. ReservationIsExclusive'
  <2> SUFFICES ASSUME NEW u \in Tasks, row[u].state \in Reserving, NEW i \in ActiveJobs(u)'
               PROVE  i = row[u].job
    BY DEF ReservationIsExclusive
  <2>1. i \in Jobs /\ status'[i] \in ActiveStatuses /\ taskOf'[i] = u /\ u # t
    BY DEF ActiveJobs, Unowned
  <2>2. i \in ActiveJobs(u)
    BY <1>1, <2>1 DEF ActiveJobs
  <2>3. QED
    BY <2>2 DEF Queue, ReservationIsExclusive
<1>8. HandoffStartedOnce'
  BY <1>1 DEF Queue, HandoffStartedOnce
<1>9. QED
  BY <1>3, <1>4, <1>5, <1>6, <1>7, <1>8 DEF Queue

\* Send and recheck: rows wait under a key that nothing has used.
LEMMA HandoffRows ==
  ASSUME Typed, Queue, NEW p \in Projects, NEW S \in SUBSET Tasks,
         NEW states \in SUBSET ({"none"} \union Parked), Handoff(p, S, states)
  PROVE  Queue' /\ row' \in [Tasks -> Rows] /\ nextKey' \in Keys
<1> DEFINE chosen == {t \in S : Sendable(t, p) /\ row[t].state \in states}
<1>1. /\ \A t \in Tasks : row[t] \in Rows /\ Fits(t, row[t])
      /\ \A t \in Tasks : stage[t] \in Stages
      /\ nextKey \in Nat /\ nextKey < MaxHandoffs /\ nextKey' = nextKey + 1
      /\ UNCHANGED queue
  <2>1. nextKey < MaxHandoffs /\ nextKey' = nextKey + 1 /\ UNCHANGED queue
    BY DEF Handoff
  <2>2. nextKey \in Nat
    BY BoundsAssumption DEF Typed, CountTypes, Keys
  <2>3. \A t \in Tasks : row[t] \in Rows /\ Fits(t, row[t]) /\ stage[t] \in Stages
    BY DEF Typed, RowTypes, TaskTypes, Queue, RowsFit
  <2>4. QED
    BY <2>1, <2>2, <2>3
<1>2. nextKey' \in Keys
  BY <1>1, BoundsAssumption DEF Keys
<1>3. ASSUME NEW t \in Tasks
      PROVE  /\ row'[t] \in Rows
             /\ \/ row'[t] = row[t]
                \/ /\ t \in chosen /\ row'[t].state = "waiting" /\ row'[t].key = nextKey'
                   /\ row'[t].job \in {row[t].job, NoJob} /\ row'[t].project \in Projects
  <2>1. CASE t \notin chosen
    BY <1>1, <2>1 DEF Handoff
  <2>2. CASE t \in chosen /\ row[t].state = "none"
    <3> DEFINE r == [state |-> "waiting", project |-> p, job |-> NoJob,
                     expected |-> stage[t], key |-> nextKey']
    <3>1. row'[t] = r
      BY <2>2 DEF Handoff
    <3>2. r \in Rows
      BY <1>1, <1>2 DEF Rows, RowStates, Reserving, NoJob
    <3>3. QED
      BY <2>2, <3>1, <3>2
  <2>3. CASE t \in chosen /\ row[t].state # "none"
    <3> DEFINE r == [row[t] EXCEPT !.state = "waiting", !.key = nextKey', !.expected = stage[t]]
    <3>1. row'[t] = r
      BY <2>3 DEF Handoff
    <3>2. /\ r \in Rows /\ r.state = "waiting" /\ r.key = nextKey' /\ r.job = row[t].job
          /\ r.project = row[t].project
      BY <1>1, <1>2 DEF Rows, RowStates, Reserving
    <3>3. QED
      BY <1>1, <2>3, <3>1, <3>2 DEF Fits
  <2>4. QED
    BY <2>1, <2>2, <2>3
<1>4. row' \in [Tasks -> Rows]
  <2>1. DOMAIN row' = Tasks /\ row' = [t \in Tasks |-> row'[t]]
    BY DEF Handoff
  <2>2. QED
    BY <1>3, <2>1
<1>5. \A t \in chosen : row[t].state \notin Reserving /\ ActiveJobs(t) = {}
  BY DEF Sendable, Reserving, Parked
<1>6. JobsFit'
  BY <1>1 DEF Queue, JobsFit, queue
<1>7. RowsFit'
  BY <1>1, <1>3 DEF RowsFit, Fits, queue
<1>8. QueuedHere'
  <2> SUFFICES ASSUME NEW j \in Jobs, status[j] \in {"pending", "claimed"},
                      request[j].kind # "manual"
               PROVE  row'[taskOf[j]].state = "queued" /\ row'[taskOf[j]].job = j
    BY <1>1 DEF QueuedHere, queue
  <2>1. taskOf[j] \in Tasks /\ row[taskOf[j]].state = "queued" /\ row[taskOf[j]].job = j
    BY DEF Queue, QueuedHere, JobsFit
  <2>2. row'[taskOf[j]] = row[taskOf[j]]
    BY <1>3, <1>5, <2>1 DEF Reserving
  <2>3. QED
    BY <2>1, <2>2
<1>9. KeysFit'
  <2>1. \A t \in Tasks : row[t].key \in Nat /\ row[t].key <= nextKey
    BY <1>1, BoundsAssumption DEF Rows, Keys, Queue, KeysFit
  <2>2. \A j \in Jobs : request[j].key \in Nat /\ request[j].key <= nextKey
    BY BoundsAssumption DEF Typed, JobTypes, Requests, Keys, Queue, KeysFit
  <2>3. \A t \in Tasks : row'[t].key <= nextKey'
    BY <1>1, <1>3, <2>1
  <2>4. \A j \in Jobs : request[j].key < nextKey'
    BY <1>1, <2>2
  <2>5. ASSUME NEW t \in Tasks, NEW j \in Jobs, row'[t].state = "waiting",
               request[j].kind = "dispatched", taskOf[j] = t
        PROVE  request[j].key # row'[t].key
    BY <1>1, <1>3, <2>2, <2>4, <2>5 DEF Queue, KeysFit
  <2>6. \A j \in Jobs : request[j].key <= nextKey'
    BY <1>1, <2>2
  <2>7. QED
    BY <1>1, <2>3, <2>5, <2>6 DEF KeysFit, queue
<1>10. ReservationIsExclusive'
  <2> SUFFICES ASSUME NEW t \in Tasks, row'[t].state \in Reserving
               PROVE  ActiveJobs(t) \subseteq {row'[t].job}
    BY <1>1 DEF ReservationIsExclusive, ActiveJobs, queue
  <2>1. QED
    BY <1>3, <1>5 DEF Queue, ReservationIsExclusive
<1>11. HandoffStartedOnce'
  BY <1>1 DEF Queue, HandoffStartedOnce, queue
<1>12. QED
  BY <1>2, <1>4, <1>6, <1>7, <1>8, <1>9, <1>10, <1>11 DEF Queue

-----------------------------------------------------------------------------
(* What the worker remembers while others act *)

\* Nobody but the worker starts or ends a run.
Evolves ==
    \A j \in Jobs : status[j] # "absent" =>
        /\ status'[j] # "absent" /\ taskOf'[j] = taskOf[j] /\ request'[j] = request[j]
        /\ status[j] \in NeverRan => status'[j] \in NeverRan
        /\ status[j] = "completed" => status'[j] = "completed" /\ output'[j] = output[j]
        /\ JobOver(j) => JobOver(j)'

\* What was read of a row still fits its job when the queue evolves.
LEMMA FitsStays ==
  ASSUME Evolves, NEW t \in Tasks, NEW r \in Rows, Fits(t, r)
  PROVE  Fits(t, r)'
<1>1. r.job # NoJob => r.job \in Jobs
  BY DEF Rows
<1>2. r.state = "queued" => r.job # NoJob
  BY DEF Fits
<1>3. QED
  BY <1>1, <1>2 DEF Fits, Evolves

\* CancelAI on some jobs, or on none.
LEMMA CancelEvolves ==
  ASSUME Typed, UNCHANGED <<taskOf, request, output>>,
         \A j \in Jobs : status'[j] \in {status[j], CancelStatus(status[j])}
  PROVE  Evolves /\ StatusMoves
<1>1. \A j \in Jobs : status[j] \in Statuses
  BY DEF Typed, JobTypes
<1>2. Evolves
  BY <1>1 DEF Evolves, CancelStatus, NeverRan, JobOver, Statuses
<1>3. StatusMoves
  BY <1>1 DEF StatusMoves, CancelStatus, ActiveStatuses, Statuses
<1>4. QED
  BY <1>2, <1>3

\* An insert evolves the queue: it touches an id nobody had.
LEMMA InsertEvolves ==
  ASSUME Typed, NEW j \in NextJob, NEW t \in Tasks, NEW req \in Requests, Insert(j, t, req)
  PROVE  Evolves
BY InsertFacts DEF Evolves, JobOver

\* Jobs of the rows read are jobs.
LEMMA ReadsTyped ==
  ASSUME Typed
  PROVE  \A s \in Reads : s \in Snapshots /\ s.task \in Tasks /\ s.row \in Rows
                          /\ s.row.job \in Jobs \union {NoJob}
BY DEF Typed, WorkerType, Reads, Snapshots, Rows

\* The worker's knowledge outlives what others do.
LEMMA WorkerStays ==
  ASSUME Typed, ReadsFit, PlaceFits, Evolves, worker' = worker
  PROVE  ReadsFit' /\ PlaceFits'
<1>1. Reads' = Reads
  BY DEF Reads
<1>2. \A s \in Reads : s.row.job # NoJob => s.row.job \in Jobs
  BY ReadsTyped
<1>3. ReadsFit'
  <2>1. \A s \in Reads : Fits(s.task, s.row)'
    <3>1. \A t \in Tasks, r \in Rows : Fits(t, r) => Fits(t, r)'
      BY FitsStays
    <3>2. QED
      BY <3>1, ReadsTyped DEF ReadsFit
  <2>2. QED
    BY <1>1, <2>1 DEF ReadsFit
<1>4. \A s \in Reads : /\ JobOver(s.row.job) => JobOver(s.row.job)'
                       /\ ResultFits(s) => ResultFits(s)'
  <2> TAKE s \in Reads
  <2> DEFINE j == s.row.job
  <2>1. CASE j = NoJob
    BY <2>1 DEF ResultFits, JobOver
  <2>2. CASE j # NoJob
    <3>1. j \in Jobs
      BY <1>2, <2>2
    <3>2. JobOver(j) => JobOver(j)'
      <4>1. status[j] # "absent"
        BY <2>2 DEF ReadsFit, Fits
      <4>2. QED
        BY <3>1, <4>1 DEF Evolves
    <3>3. ResultFits(s) => ResultFits(s)'
      <4>1. status[j] = "completed" => status'[j] = "completed" /\ output'[j] = output[j]
        BY <3>1 DEF Evolves
      <4>2. QED
        BY <4>1 DEF ResultFits
    <3>4. QED
      BY <3>2, <3>3
  <2>3. QED
    BY <2>1, <2>2
<1>5. \A s \in worker.current : s \in Reads
  BY DEF Reads
<1>6. worker.job # NoJob => worker.job \in Jobs
  BY DEF Typed, WorkerType
<1>7. /\ worker.job # NoJob /\ status[worker.job] # "absent" => status'[worker.job] # "absent"
      /\ status[worker.job] # "absent" /\ JobOver(worker.job) => JobOver(worker.job)'
  <2>1. CASE worker.job = NoJob
    BY <2>1 DEF JobOver
  <2>2. CASE worker.job # NoJob
    BY <1>6, <2>2 DEF Evolves
  <2>3. QED
    BY <2>1, <2>2
<1>8. PlaceFits'
  BY <1>4, <1>5, <1>7 DEF PlaceFits, JobOver, Holding
<1>9. QED
  BY <1>3, <1>8

-----------------------------------------------------------------------------
(* Users *)

\* A step of others that leaves the queue alone, and the rows too.
LEMMA TablesStay ==
  ASSUME Typed, Queue, UNCHANGED <<queue, row, nextKey>>
  PROVE  Queue' /\ Evolves
<1>1. StatusMoves /\ Evolves
  BY DEF queue, StatusMoves, Evolves, JobOver
<1>2. Queue'
  BY <1>1, TableStep DEF queue
<1>3. QED
  BY <1>1, <1>2

LEMMA ProjectsFinite ==
  ASSUME NEW P \in SUBSET (Projects \union {"none"})
  PROVE  IsFiniteSet(P) /\ Cardinality(P) \in Nat
<1>1. IsFiniteSet(Projects \union {"none"})
  BY BoundsAssumption, FS_AddElement
<1>. QED
  BY <1>1, FS_Subset, FS_CardinalityType

\* Send and Recheck: fresh keys, no job touched.
LEMMA HandoffStep ==
  ASSUME CInv, NEW p \in Projects, NEW S \in SUBSET Tasks, Send(p, S) \/ Recheck(p, S)
  PROVE  CInv'
<1>1. PICK states \in SUBSET ({"none"} \union Parked) : Handoff(p, S, states)
  BY DEF Send, Recheck
<1>2. Queue' /\ row' \in [Tasks -> Rows] /\ nextKey' \in Keys
  BY <1>1, HandoffRows DEF CInv
<1>3. /\ UNCHANGED <<taskVars, settings, queue, dispatches, worker, call>>
      /\ UNCHANGED <<nextDispatch, edits, downs, rejected>>
  BY <1>1 DEF Handoff
<1>4. Typed'
  <2>. DEFINE P == {row'[t].project : t \in {t \in S : Sendable(t, p) /\ row[t].state \in states}}
  <2>1. paid' = paid + Cardinality(P) /\ paid \in Nat
    BY <1>1 DEF Handoff, CInv, Typed, CountTypes
  <2>2. P \in SUBSET (Projects \union {"none"})
    BY <1>2 DEF Rows
  <2>. HIDE DEF P
  <2>3. paid' \in Nat
    BY <2>1, <2>2, ProjectsFinite
  <2>. QED
    BY <1>2, <1>3, <2>3 DEF CInv, Typed, TaskTypes, JobTypes, RowTypes, CallTypes, CountTypes,
                    taskVars, settings, queue
<1>5. Evolves
  BY <1>3 DEF Evolves, queue, JobOver
<1>6. ReadsFit' /\ PlaceFits'
  BY <1>3, <1>5, WorkerStays DEF CInv
<1>7. QED
  BY <1>2, <1>3, <1>4, <1>6 DEF CInv, CallsFit

\* ReleaseTasks: the canceled jobs lose their rows with them.
LEMMA ReleaseStep ==
  ASSUME CInv, NEW p \in Projects, NEW S \in SUBSET Tasks, ReleaseTasks(p, S)
  PROVE  CInv'
<1> DEFINE chosen == {t \in S : row[t].state # "none" /\ row[t].project = p}
           owned == {row[t].job : t \in chosen}
<1>1. /\ status' = [j \in Jobs |-> IF j \in owned THEN CancelStatus(status[j]) ELSE status[j]]
      /\ row' = [t \in Tasks |-> IF t \in chosen THEN NoRow ELSE row[t]]
      /\ UNCHANGED <<taskVars, settings, taskOf, request, output, dispatches,
                     worker, call, counters, rejected>>
  BY DEF ReleaseTasks
<1>2. \A j \in Jobs : status'[j] \in {status[j], CancelStatus(status[j])}
  BY <1>1
<1>3. Evolves /\ StatusMoves
  BY <1>1, <1>2, CancelEvolves DEF CInv
<1>4. status' \in [Jobs -> Statuses]
  BY <1>1 DEF CInv, Typed, JobTypes, CancelStatus, Statuses
<1>5. row' \in [Tasks -> Rows]
  BY <1>1, NoRowType DEF CInv, Typed, RowTypes
<1>6. Typed'
  BY <1>1, <1>4, <1>5 DEF CInv, Typed, TaskTypes, JobTypes, RowTypes, CallTypes, CountTypes,
                          taskVars, settings, counters
<1>7. Queue'
  <2>1. ASSUME NEW t \in chosen PROVE Left(t)
    <3>1. t \in Tasks /\ row[t] \in Rows /\ row'[t] = NoRow /\ Fits(t, row[t])
      BY <1>1 DEF CInv, Typed, RowTypes, Queue, RowsFit
    <3>2. row[t].state = "queued" => status'[row[t].job] \notin {"pending", "claimed"}
      <4>1. row[t].state = "queued" => row[t].job \in Jobs
        BY <3>1 DEF Fits, Rows
      <4>2. row[t].state = "queued" => status'[row[t].job] = CancelStatus(status[row[t].job])
        BY <1>1, <2>1, <4>1
      <4>3. QED
        BY <4>2 DEF CancelStatus
    <3>3. QED
      BY <3>1, <3>2, NoRowType DEF Left
  <2>2. ASSUME NEW t \in Tasks \ chosen
        PROVE  /\ row'[t] = row[t]
               /\ row[t].state = "queued" /\ status[row[t].job] \in NeverRan
                      => status'[row[t].job] \in NeverRan
    <3>1. row'[t] = row[t] /\ row[t] \in Rows /\ Fits(t, row[t])
      BY <1>1 DEF CInv, Typed, RowTypes, Queue, RowsFit
    <3>2. row[t].state = "queued" => row[t].job \in Jobs /\ status[row[t].job] # "absent"
      BY <3>1 DEF Fits, Rows
    <3>3. QED
      BY <1>3, <3>1, <3>2 DEF Evolves
  <2>3. nextKey' = nextKey
    BY <1>1 DEF counters
  <2>4. \A t \in Tasks :
            \/ Left(t)
            \/ /\ row'[t] = row[t]
               /\ row[t].state = "queued" /\ status[row[t].job] \in NeverRan
                      => status'[row[t].job] \in NeverRan
    BY <2>1, <2>2
  <2>5. QED
    BY <1>3, <2>3, <2>4, TableStep DEF CInv
<1>8. ReadsFit' /\ PlaceFits'
  BY <1>1, <1>3, WorkerStays DEF CInv
<1>9. QED
  BY <1>1, <1>6, <1>7, <1>8 DEF CInv, CallsFit

\* People edit tasks and projects; neither the queue nor a row notices.
LEMMA EditStep ==
  ASSUME CInv, (\E t \in Tasks : EditTask(t)) \/ (\E p \in Projects : EditProject(p))
  PROVE  CInv'
<1>1. /\ UNCHANGED <<row, queue, dispatches, worker, call>>
      /\ UNCHANGED <<nextKey, nextDispatch, downs, paid, rejected>>
  BY DEF EditTask, EditProject, counters
<1>2. TaskTypes' /\ edits' \in 0 .. MaxEdits
  <2>1. CASE \E t \in Tasks : EditTask(t)
    <3>1. PICK t \in Tasks : EditTask(t)
      BY <2>1
    <3>2. edits' \in 0 .. MaxEdits
      BY <3>1, BoundsAssumption DEF EditTask, CInv, Typed, CountTypes
    <3>3. UNCHANGED settings
      BY <3>1 DEF EditTask
    <3>4. stage' \in [Tasks -> Stages] /\ project' \in [Tasks -> Projects]
      BY <3>1 DEF EditTask, CInv, Typed, TaskTypes
    <3>5. content' \in [Tasks -> Contents]
      BY <3>1 DEF EditTask, CInv, Typed, TaskTypes, Contents
    <3>6. blocked' \in [Tasks -> BOOLEAN]
      BY <3>1 DEF EditTask, CInv, Typed, TaskTypes
    <3>7. QED
      BY <3>2, <3>3, <3>4, <3>5, <3>6 DEF CInv, Typed, TaskTypes, settings
  <2>2. CASE \E p \in Projects : EditProject(p)
    <3>1. PICK p \in Projects : EditProject(p)
      BY <2>2
    <3>2. UNCHANGED <<taskVars, edits>>
      BY <3>1 DEF EditProject, counters
    <3>3. enabled' \in [Projects -> BOOLEAN] /\ valid' \in [Projects -> BOOLEAN]
      BY <3>1 DEF EditProject, CInv, Typed, TaskTypes
    <3>4. QED
      BY <3>2, <3>3 DEF CInv, Typed, TaskTypes, CountTypes, taskVars
  <2>3. QED
    BY <2>1, <2>2
<1>3. Typed'
  BY <1>1, <1>2 DEF CInv, Typed, JobTypes, RowTypes, CallTypes, CountTypes, queue
<1>4. Queue' /\ Evolves
  BY <1>1, TablesStay DEF CInv
<1>5. ReadsFit' /\ PlaceFits'
  BY <1>1, <1>4, WorkerStays DEF CInv
<1>6. QED
  BY <1>1, <1>3, <1>4, <1>5 DEF CInv, CallsFit

\* A cancellation, by the user or by the watcher of a run.
LEMMA CancelTables ==
  ASSUME CInv, NEW j \in Jobs \union {NoJob}, CancelAI(j), UNCHANGED <<row, nextKey>>
  PROVE  Queue' /\ Evolves /\ StatusMoves /\ status' \in [Jobs -> Statuses]
<1>1. /\ UNCHANGED <<taskOf, request, output>>
      /\ \A i \in Jobs : status'[i] \in {status[i], CancelStatus(status[i])}
  BY DEF CancelAI, CInv, Typed, JobTypes
<1>2. Evolves /\ StatusMoves
  BY <1>1, CancelEvolves DEF CInv
<1>3. \A t \in Tasks : row[t].state = "queued" /\ status[row[t].job] \in NeverRan
                           => status'[row[t].job] \in NeverRan
  <2> TAKE t \in Tasks
  <2>1. row[t] \in Rows /\ Fits(t, row[t])
    BY DEF CInv, Typed, RowTypes, Queue, RowsFit
  <2>2. row[t].state = "queued" => row[t].job \in Jobs /\ status[row[t].job] # "absent"
    BY <2>1 DEF Fits, Rows
  <2>3. QED
    BY <1>2, <2>2 DEF Evolves
<1>4. Queue'
  BY <1>2, <1>3, TableStep DEF CInv
<1>5. status' \in [Jobs -> Statuses]
  BY DEF CancelAI, CInv, Typed, JobTypes, CancelStatus, Statuses
<1>6. QED
  BY <1>2, <1>4, <1>5

\* CancelRun and the watcher: one job is canceled, nothing else moves.
LEMMA CancelStep ==
  ASSUME CInv, (\E j \in Jobs : CancelRun(j)) \/ WatchOwner
  PROVE  CInv'
<1>1. PICK j \in Jobs \union {NoJob} : CancelAI(j)
  BY DEF CancelRun, WatchOwner, CInv, Typed, WorkerType
<1>2. /\ UNCHANGED <<taskVars, settings, row, dispatches, worker, call, counters, rejected>>
      /\ UNCHANGED <<taskOf, request, output>>
  BY <1>1 DEF CancelRun, WatchOwner, Elsewhere, CancelAI
<1>3. Queue' /\ Evolves /\ status' \in [Jobs -> Statuses]
  BY <1>1, <1>2, CancelTables DEF counters
<1>4. Typed'
  BY <1>2, <1>3 DEF CInv, Typed, TaskTypes, JobTypes, RowTypes, CallTypes, CountTypes,
                    taskVars, settings, counters
<1>5. ReadsFit' /\ PlaceFits'
  BY <1>2, <1>3, WorkerStays DEF CInv
<1>6. QED
  BY <1>2, <1>3, <1>4, <1>5 DEF CInv, CallsFit

\* StartManualRun: no row reserves the task, so no row meets the new job.
LEMMA ManualStep ==
  ASSUME CInv, NEW t \in Tasks, StartManualRun(t)
  PROVE  CInv'
<1>1. PICK j \in NextJob : Insert(j, t, NoRequest)
  BY DEF StartManualRun
<1>2. NoRequest \in Requests
  BY BoundsAssumption DEF NoRequest, Requests, Contents, Keys, NoKey
<1>3. /\ UNCHANGED <<taskVars, settings, row, dispatches, worker, call, counters, rejected>>
      /\ Unowned(t)
  BY DEF StartManualRun
<1>4. Queue'
  BY <1>1, <1>3, InsertManual DEF CInv, counters
<1>5. Evolves
  BY <1>1, <1>2, InsertEvolves DEF CInv
<1>6. JobTypes'
  BY <1>1, <1>2, <1>3, InsertFacts DEF CInv, Typed, JobTypes
<1>7. Typed'
  BY <1>3, <1>6 DEF CInv, Typed, TaskTypes, RowTypes, CallTypes, CountTypes,
                    taskVars, settings, counters
<1>8. ReadsFit' /\ PlaceFits'
  BY <1>3, <1>5, WorkerStays DEF CInv
<1>9. QED
  BY <1>3, <1>4, <1>7, <1>8 DEF CInv, CallsFit

-----------------------------------------------------------------------------
(* Sessions and tools *)

\* A set of job numbers that is not empty has a greatest one.
LEMMA Greatest ==
  ASSUME NEW n \in Nat, NEW S \in SUBSET (1 .. n), S # {}
  PROVE  \E j \in S : \A i \in S : i <= j
<1> DEFINE T == {k \in Nat : n - k \in S}
<1>1. PICK x \in S : TRUE
  OBVIOUS
<1>2. n - x \in T
  <2>1. n - x \in Nat /\ n - (n - x) = x
    BY <1>1
  <2>2. QED
    BY <1>1, <2>1
<1>3. PICK m \in T : \A y \in T : ~(<<y, m>> \in OpToRel(<, Nat))
  <2>1. T \subseteq Nat /\ T # {}
    BY <1>2
  <2> HIDE DEF T
  <2>2. QED
    BY <2>1, WFMin, NatLessThanWellFounded
<1>4. \A y \in T : ~(y < m)
  BY <1>3 DEF OpToRel
<1>5. ASSUME NEW i \in S PROVE i <= n - m
  <2>1. n - i \in T
    <3>1. n - i \in Nat /\ n - (n - i) = i
      OBVIOUS
    <3>2. QED
      BY <3>1
  <2>2. m \in Nat /\ n - i \in Nat /\ ~(n - i < m)
    BY <1>3, <1>4, <2>1
  <2>3. QED
    BY <2>2
<1>6. QED
  BY <1>5

\* The latest session of a task is a job, or none.
LEMMA LatestType ==
  ASSUME NEW t \in Tasks
  PROVE  LatestSession(t) \in Jobs \union {NoJob}
<1>1. CASE ConductorJobs(t) = {}
  BY <1>1 DEF LatestSession
<1>2. CASE ConductorJobs(t) # {}
  <2>1. ConductorJobs(t) \in SUBSET (1 .. MaxJobs)
    BY DEF ConductorJobs, Jobs
  <2>2. \E j \in ConductorJobs(t) : \A i \in ConductorJobs(t) : i <= j
    <3> HIDE DEF ConductorJobs
    <3>1. QED
      BY <1>2, <2>1, Greatest, BoundsAssumption
  <2>3. LatestSession(t) \in ConductorJobs(t)
    BY <1>2, <2>2 DEF LatestSession
  <2>4. QED
    BY <2>1, <2>3 DEF Jobs
<1>3. QED
  BY <1>1, <1>2

\* What is read of a task has its type.
LEMMA ReadTaskType ==
  ASSUME Typed, NEW t \in Tasks
  PROVE  ReadTask(t) \in TaskReads
BY DEF Typed, TaskTypes, ReadTask, TaskReads

\* A caller reads and remembers.
LEMMA ReadStep ==
  ASSUME CInv, NEW c \in Calls, NEW t \in Tasks,
         ResumeRead(c, t) \/ \E d \in dispatches : StartRead(c, t, d.id)
  PROVE  CInv'
<1>1. UNCHANGED <<taskVars, settings, row, queue, dispatches, worker, counters, rejected>>
  BY DEF ResumeRead, StartRead
<1>2. \E r \in CallReads : /\ call' = [call EXCEPT ![c] = r]
                           /\ r.kind = "start" => r.snap.row.state = "waiting"
  <2>1. CASE ResumeRead(c, t)
    <3> DEFINE r == [kind |-> "resume", snap |-> [task |-> t, row |-> NoRow],
                     seen |-> ReadTask(t), dispatch |-> 0, latest |-> LatestSession(t)]
    <3>1. r \in CallReads
      BY NoRowType, LatestType, ReadTaskType DEF CallReads, Snapshots, CInv
    <3>2. QED
      BY <2>1, <3>1 DEF ResumeRead
  <2>2. CASE \E d \in dispatches : StartRead(c, t, d.id)
    <3>1. PICK d \in dispatches : StartRead(c, t, d.id)
      BY <2>2
    <3> DEFINE r == [kind |-> "start", snap |-> [task |-> t, row |-> row[t]],
                     seen |-> ReadTask(t), dispatch |-> d.id, latest |-> NoJob]
    <3>2. d.id \in Nat /\ row[t] \in Rows
      BY DEF CInv, Typed, CountTypes, RowTypes
    <3>3. r \in CallReads
      BY <3>2, ReadTaskType DEF CallReads, Snapshots, CInv
    <3>4. QED
      BY <3>1, <3>3 DEF StartRead
  <2>3. QED
    BY <2>1, <2>2
<1>3. CallTypes' /\ CallsFit'
  BY <1>1, <1>2 DEF CInv, Typed, CallTypes, CallsFit
<1>4. Typed'
  BY <1>1, <1>3 DEF CInv, Typed, TaskTypes, JobTypes, RowTypes, CountTypes,
                    taskVars, settings, queue, counters
<1>5. Queue' /\ Evolves
  BY <1>1, TablesStay DEF CInv, counters
<1>6. ReadsFit' /\ PlaceFits'
  BY <1>1, <1>5, WorkerStays DEF CInv
<1>7. QED
  BY <1>3, <1>4, <1>5, <1>6 DEF CInv

\* Advance wrote only over the row and the task that were read.
LEMMA AdvanceChecks ==
  ASSUME NEW s, NEW seen, NEW starting \in BOOLEAN, NEW independent \in BOOLEAN,
         AdvanceError(s, seen, starting, independent) = "none"
  PROVE  /\ row[s.task].project = s.row.project /\ row[s.task].state = s.row.state
         /\ row[s.task].job = s.row.job /\ row[s.task].key = s.row.key
         /\ seen.project = s.row.project /\ seen.stage = s.row.expected
         /\ ReadTask(s.task) = seen
         /\ starting => ActiveJobs(s.task) = {} 
BY DEF AdvanceError

\* The tables after a row and its job were queued.
LEMMA AdvanceQueues ==
  ASSUME Typed, Queue, NEW s \in Snapshots, NEW seen \in TaskReads,
         NEW kind \in {"dispatched", "independent"}, NEW independent \in BOOLEAN,
         AdvanceError(s, seen, TRUE, independent) = "none", s.row.state # "none",
         kind = "dispatched" => s.row.state = "waiting",
         NEW j \in NextJob,
         AdvanceToQueued(s, j, [kind |-> kind, content |-> seen.content, key |-> s.row.key]),
         UNCHANGED <<nextKey, rejected, settings>>
  PROVE  Queue' /\ Evolves /\ TaskTypes' /\ JobTypes' /\ RowTypes'
<1> DEFINE t == s.task
           req == [kind |-> kind, content |-> seen.content, key |-> s.row.key]
           r == [row[t] EXCEPT !.state = "queued", !.job = j, !.expected = WorkingStage]
<1>1. /\ t \in Tasks /\ s.row \in Rows /\ req \in Requests /\ req.kind = kind
      /\ req.key = s.row.key /\ row[t] \in Rows
  BY DEF Snapshots, Rows, TaskReads, Requests, Typed, RowTypes
<1>2. /\ row[t].state = s.row.state /\ row[t].key = s.row.key /\ ActiveJobs(t) = {}
  BY AdvanceChecks
<1>3. /\ Insert(j, t, req) /\ row' = [row EXCEPT ![t] = r]
      /\ stage' = [stage EXCEPT ![t] = WorkingStage] /\ UNCHANGED <<project, content, blocked>>
  <2>1. /\ Insert(j, t, req) /\ stage' = [stage EXCEPT ![t] = WorkingStage]
        /\ UNCHANGED <<project, content, blocked>>
        /\ row' = [row EXCEPT ![t].state = "queued", ![t].job = j,
                              ![t].expected = WorkingStage]
    BY DEF AdvanceToQueued
  <2>2. row' = [row EXCEPT ![t] = r]
    BY <1>1, <2>1 DEF Rows, Typed, RowTypes
  <2>3. QED
    BY <2>1, <2>2
<1>4. j \in Jobs
  BY DEF NextJob
<1>5. /\ r \in Rows /\ r.state = "queued" /\ r.job = j /\ r.expected = WorkingStage
      /\ r.project = row[t].project /\ r.key = row[t].key
  BY <1>1, <1>4 DEF Rows, RowStates, Reserving, Stages, WorkingStage
<1>6. r.project \in Projects
  BY <1>1, <1>2, <1>5 DEF Queue, RowsFit, Fits
<1>7. Queue'
  <2> HIDE DEF r, req, t
  <2>1. req.kind # "manual" /\ req.key = row[t].key
        /\ (req.kind = "dispatched" => row[t].state = "waiting")
    BY <1>1, <1>2
  <2>2. QED
    BY <1>1, <1>2, <1>3, <1>5, <1>6, <2>1, QueueRow
<1>8. Evolves
  BY <1>1, <1>3, InsertEvolves
<1>9. TaskTypes'
  BY <1>3 DEF Typed, TaskTypes, settings, WorkingStage, Stages
<1>10. JobTypes'
  BY <1>1, <1>3, InsertFacts DEF Typed, JobTypes
<1>11. RowTypes'
  BY <1>3, <1>5 DEF Typed, RowTypes
<1>12. QED
  BY <1>7, <1>8, <1>9, <1>10, <1>11

\* StartCommit: a stale call is refused by Advance's checks, a fresh one
\* queues.
LEMMA StartCommitStep ==
  ASSUME CInv, NEW c \in Calls, StartCommit(c)
  PROVE  CInv'
<1> DEFINE s == call[c].snap
           seen == call[c].seen
<1>1. /\ call[c].kind = "start" /\ call' = [call EXCEPT ![c] = NoCall]
      /\ UNCHANGED <<settings, dispatches, worker, counters, rejected>>
  BY DEF StartCommit
<1>2. s \in Snapshots /\ seen \in TaskReads /\ s.row.state = "waiting"
  <2>1. call[c] \in CallReads
    BY <1>1 DEF CInv, Typed, CallTypes, NoCall
  <2>2. QED
    BY <1>1, <2>1 DEF CallReads, CInv, CallsFit
<1>3. Queue' /\ Evolves /\ TaskTypes' /\ JobTypes' /\ RowTypes'
  <2>1. CASE UNCHANGED <<taskVars, queue, row>>
    <3>1. Queue' /\ Evolves
      BY <1>1, <2>1, TablesStay DEF CInv, counters
    <3>2. QED
      BY <1>1, <2>1, <3>1 DEF CInv, Typed, TaskTypes, JobTypes, RowTypes, taskVars, settings,
                              queue
  <2>2. ASSUME AdvanceError(s, seen, TRUE, FALSE) = "none", NEW j \in NextJob,
               AdvanceToQueued(s, j, [kind |-> "dispatched", content |-> seen.content,
                                      key |-> s.row.key])
        PROVE  Queue' /\ Evolves /\ TaskTypes' /\ JobTypes' /\ RowTypes'
    BY <1>1, <1>2, <2>2, AdvanceQueues DEF CInv, counters
  <2>3. QED
    BY <2>1, <2>2 DEF StartCommit
<1>4. CallTypes' /\ CallsFit'
  BY <1>1 DEF CInv, Typed, CallTypes, CallsFit, NoCall
<1>5. Typed'
  BY <1>1, <1>3, <1>4 DEF CInv, Typed, CountTypes, counters
<1>6. ReadsFit' /\ PlaceFits'
  BY <1>1, <1>3, WorkerStays DEF CInv
<1>7. QED
  BY <1>3, <1>4, <1>5, <1>6 DEF CInv

\* ResumeCommit: the row is written only if no job is active for its task.
LEMMA ResumeCommitStep ==
  ASSUME CInv, NEW c \in Calls, ResumeCommit(c)
  PROVE  CInv'
<1> DEFINE t == call[c].snap.task
           seen == call[c].seen
           req == [kind |-> "independent", content |-> seen.content, key |-> row[t].key]
           r(j) == [state |-> "queued", job |-> j, expected |-> WorkingStage,
                    project |-> IF row[t].state = "none" THEN seen.project
                                ELSE row[t].project,
                    key |-> row[t].key]
<1>1. /\ call[c].kind = "resume" /\ call' = [call EXCEPT ![c] = NoCall]
      /\ UNCHANGED <<project, content, blocked, settings, dispatches, worker, counters,
                     rejected>>
  BY DEF ResumeCommit
<1>2. t \in Tasks /\ seen \in TaskReads
  <2>1. call[c] \in CallReads
    BY <1>1 DEF CInv, Typed, CallTypes, NoCall
  <2>2. QED
    BY <2>1 DEF CallReads, Snapshots
<1>3. Queue' /\ Evolves /\ TaskTypes' /\ JobTypes' /\ RowTypes'
  <2>1. CASE UNCHANGED <<stage, row, queue>>
    <3>1. Queue' /\ Evolves
      BY <1>1, <2>1, TablesStay DEF CInv, counters
    <3>2. QED
      BY <1>1, <2>1, <3>1 DEF CInv, Typed, TaskTypes, JobTypes, RowTypes, settings, queue
  <2>2. ASSUME Unowned(t), NEW j \in NextJob, Insert(j, t, req),
               stage' = [stage EXCEPT ![t] = WorkingStage], row' = [row EXCEPT ![t] = r(j)]
        PROVE  Queue' /\ Evolves /\ TaskTypes' /\ JobTypes' /\ RowTypes'
    <3>1. /\ row[t] \in Rows /\ Fits(t, row[t]) /\ seen.project \in Projects
          /\ req \in Requests /\ j \in Jobs
      BY <1>2 DEF CInv, Typed, RowTypes, Queue, RowsFit, TaskReads, Requests, Rows, NextJob
    <3>2. r(j) \in Rows /\ r(j).project \in Projects
      BY <3>1 DEF Rows, RowStates, Reserving, Stages, WorkingStage, Fits
    <3>3. ActiveJobs(t) = {}
      BY <2>2 DEF Unowned
    <3>4. nextKey' = nextKey
      BY <1>1 DEF counters
    <3>5. Queue'
      BY <1>2, <2>2, <3>1, <3>2, <3>3, <3>4, QueueRow DEF CInv
    <3>6. Evolves
      BY <1>2, <2>2, <3>1, InsertEvolves DEF CInv
    <3>7. JobTypes'
      BY <1>1, <1>2, <2>2, <3>1, InsertFacts DEF CInv, Typed, JobTypes
    <3>8. TaskTypes'
      BY <1>1, <2>2 DEF CInv, Typed, TaskTypes, settings, WorkingStage, Stages
    <3>9. RowTypes'
      BY <2>2, <3>2 DEF CInv, Typed, RowTypes
    <3>10. QED
      BY <3>5, <3>6, <3>7, <3>8, <3>9
  <2>3. UNCHANGED <<stage, row, queue>>
        \/ /\ Unowned(t)
           /\ \E j \in NextJob : /\ Insert(j, t, req)
                                 /\ stage' = [stage EXCEPT ![t] = WorkingStage]
                                 /\ row' = [row EXCEPT ![t] = r(j)]
    <3>1. row \in [Tasks -> Rows]
      BY DEF CInv, Typed, RowTypes
    <3>2. QED
      BY <1>2, <3>1 DEF ResumeCommit
  <2>4. QED
    BY <2>1, <2>2, <2>3
<1>4. CallTypes' /\ CallsFit'
  BY <1>1 DEF CInv, Typed, CallTypes, CallsFit, NoCall
<1>5. Typed'
  BY <1>1, <1>3, <1>4 DEF CInv, Typed, CountTypes, counters
<1>6. ReadsFit' /\ PlaceFits'
  BY <1>1, <1>3, WorkerStays DEF CInv
<1>7. QED
  BY <1>3, <1>4, <1>5, <1>6 DEF CInv

\* A row that leaves its state for one that does not reserve the task.
LEMMA DeferStep ==
  ASSUME CInv, NEW t \in Tasks, NEW d, DeferTask(t, d)
  PROVE  CInv'
<1>1. /\ row[t].state = "waiting" /\ row' = [row EXCEPT ![t].state = "needs_context"]
      /\ UNCHANGED <<taskVars, settings, queue, dispatches, worker, call, counters, rejected>>
  BY DEF DeferTask
<1>2. row[t] \in Rows /\ [row[t] EXCEPT !.state = "needs_context"] \in Rows
  <2>1. row[t] \in Rows /\ "needs_context" \in RowStates
    BY DEF CInv, Typed, RowTypes, RowStates, Parked
  <2>2. QED
    BY <2>1, RowWithState
<1>3. /\ row' \in [Tasks -> Rows] /\ \A u \in Tasks : u # t => row'[u] = row[u]
      /\ row'[t] = [row[t] EXCEPT !.state = "needs_context"]
  <2>1. row' = [row EXCEPT ![t] = [row[t] EXCEPT !.state = "needs_context"]]
    BY <1>1
  <2>2. QED
    BY <1>2, <2>1 DEF CInv, Typed, RowTypes
<1>4. Left(t)
  BY <1>1, <1>2, <1>3 DEF Left, Rows
<1>5. StatusMoves /\ Evolves /\ status' = status /\ nextKey' = nextKey
  BY <1>1 DEF StatusMoves, Evolves, JobOver, queue, counters
<1>6. Queue'
  BY <1>3, <1>4, <1>5, TableStep DEF CInv
<1>7. Typed'
  BY <1>1, <1>3 DEF CInv, Typed, TaskTypes, JobTypes, RowTypes, CallTypes, CountTypes,
                    taskVars, settings, queue, counters
<1>8. ReadsFit' /\ PlaceFits'
  BY <1>1, <1>5, WorkerStays DEF CInv
<1>9. QED
  BY <1>1, <1>6, <1>7, <1>8 DEF CInv, CallsFit

-----------------------------------------------------------------------------
(* The worker: its own locals *)

\* A step of the worker that writes no table.
LEMMA LocalStep ==
  ASSUME CInv, UNCHANGED <<Tables, settings, call, nextKey, nextDispatch, edits, paid>>,
         downs' \in 0 .. MaxDowns, rejected' \subseteq Jobs,
         worker' \in WorkerType, ReadsFit', PlaceFits'
  PROVE  CInv'
<1>1. Typed'
  BY DEF CInv, Typed, TaskTypes, JobTypes, RowTypes, CallTypes, CountTypes, Tables, taskVars,
         settings, queue
<1>2. Queue'
  BY TablesStay DEF CInv, Tables
<1>3. CallsFit'
  BY DEF CInv, CallsFit
<1>4. QED
  BY <1>1, <1>2, <1>3 DEF CInv

\* What was read of the rows still fits.
LEMMA ReadsEvolve ==
  ASSUME Typed, ReadsFit, Evolves
  PROVE  \A s \in Reads : Fits(s.task, s.row)'
<1>1. \A t \in Tasks, r \in Rows : Fits(t, r) => Fits(t, r)'
  BY FitsStays
<1>2. QED
  BY <1>1, ReadsTyped DEF ReadsFit

\* The worker goes on with fewer of the rows it has read, at a place that asks
\* nothing more of them.
LEMMA ReadsShrink ==
  ASSUME Typed, ReadsFit, Evolves, Reads' \subseteq Reads,
         \/ worker'.pc = "rows"
         \/ worker'.pc \in Reading /\ worker'.current = worker.current
                                   /\ worker.pc \in Reading \ {"rows"}
         \/ worker'.pc \in Dispatching /\ worker.pc \in Dispatching
         \/ Reads' = {} /\ worker'.pc \notin Reading
  PROVE  ReadsFit'
<1>1. \A s \in Reads' : Fits(s.task, s.row)' /\ s.row.state \in Reserving
  BY ReadsEvolve DEF ReadsFit
<1>2. worker'.pc \notin Reading \union Dispatching => Reads' = {}
  BY DEF Reading
<1>3. worker'.pc \in Reading \ {"rows"} => \E s \in Snapshots : worker'.current = {s}
  BY DEF ReadsFit, Reading, Dispatching
<1>4. worker'.pc \in Dispatching => \A s \in Reads' : s.row.state = "waiting"
  BY DEF ReadsFit, Reading, Dispatching
<1>5. QED
  BY <1>1, <1>2, <1>3, <1>4 DEF ReadsFit

\* A place that says nothing of jobs or of what is to be written.
LEMMA FreePlace ==
  ASSUME worker'.pc \in {"down", "idle", "tick", "rows", "decide", "claim", "again",
                         "dispatch", "offer", "select"}
  PROVE  PlaceFits'
BY DEF PlaceFits, Holding, Executing

\* TickStart: reviewed rows own no job that may still start.
LEMMA TickStartStep ==
  ASSUME CInv, TickStart
  PROVE  CInv'
<1>1. /\ worker.pc \in {"idle", "again"} /\ ReleaseReviewed
      /\ worker' \in {Down, [worker EXCEPT !.pc = "tick", !.after = "claim"],
                      [worker EXCEPT !.pc = "tick", !.after = "idle"]}
      /\ UNCHANGED <<taskVars, queue, dispatches, Elsewhere, rejected>>
  BY DEF TickStart
<1>2. worker \in WorkerType
  BY DEF CInv, Typed
<1>3. worker' \in WorkerType /\ worker'.pc \in {"tick", "down"} /\ Reads' = {}
  <2>1. Reads = {}
    BY <1>1 DEF CInv, ReadsFit, Reading, Dispatching
  <2>2. CASE worker' = Down
    BY <2>2, IdleType DEF Reads, Down, Idle
  <2>3. CASE worker' = [worker EXCEPT !.pc = "tick", !.after = "claim"]
    BY <1>2, <2>1, <2>3 DEF WorkerType, Locations, Reads
  <2>4. CASE worker' = [worker EXCEPT !.pc = "tick", !.after = "idle"]
    BY <1>2, <2>1, <2>4 DEF WorkerType, Locations, Reads
  <2>5. QED
    BY <1>1, <2>2, <2>3, <2>4
<1>4. /\ row' \in [Tasks -> Rows]
      /\ \A t \in Tasks : row'[t] = row[t] \/ Left(t)
  <2>1. row \in [Tasks -> Rows]
    BY DEF CInv, Typed, RowTypes
  <2>2. QED
    BY <1>1, <2>1, NoRowType DEF ReleaseReviewed, Left
<1>5. StatusMoves /\ Evolves /\ status' = status /\ nextKey' = nextKey
  BY <1>1 DEF StatusMoves, Evolves, JobOver, queue, Elsewhere, counters
<1>6. Queue'
  BY <1>4, <1>5, TableStep DEF CInv
<1>7. Typed'
  BY <1>1, <1>3, <1>4 DEF CInv, Typed, TaskTypes, JobTypes, RowTypes, CallTypes, CountTypes,
                          taskVars, settings, queue, counters, Elsewhere
<1>8. ReadsFit' /\ PlaceFits'
  BY <1>3, FreePlace DEF ReadsFit, Reading, Dispatching
<1>9. CallsFit'
  BY <1>1 DEF CInv, CallsFit, Elsewhere
<1>10. QED
  BY <1>6, <1>7, <1>8, <1>9 DEF CInv

\* TickRead: what was read fits because the tables do.
LEMMA TickReadStep ==
  ASSUME CInv, TickRead
  PROVE  CInv'
<1> DEFINE read == {[task |-> t, row |-> row[t]] :
                       t \in {u \in Tasks : row[u].state \in Reserving}}
<1>1. /\ worker.pc = "tick" /\ worker' = [worker EXCEPT !.pc = "rows", !.rows = read]
      /\ UNCHANGED <<Tables, Elsewhere, rejected>>
  BY DEF TickRead
<1>2. \A s \in read : s \in Snapshots /\ Fits(s.task, s.row) /\ s.row.state \in Reserving
  BY DEF CInv, Typed, RowTypes, Queue, RowsFit, Snapshots
<1>3. Reads = {} /\ worker \in WorkerType
  BY <1>1 DEF CInv, Typed, ReadsFit, Reading, Dispatching
<1>4. worker' \in WorkerType /\ worker'.pc = "rows" /\ Reads' = read
  <2> HIDE DEF read
  <2>1. read \in SUBSET Snapshots
    BY <1>2
  <2>2. QED
    BY <1>1, <1>3, <2>1 DEF WorkerType, Locations, Reads
<1>5. ReadsFit' /\ PlaceFits'
  <2>1. \A s \in read : Fits(s.task, s.row)'
    BY <1>1, <1>2 DEF Fits, Tables, queue
  <2> HIDE DEF read
  <2>2. QED
    BY <1>2, <1>4, <2>1, FreePlace DEF ReadsFit, Reading, Dispatching
<1>6. QED
  BY <1>1, <1>4, <1>5, LocalStep DEF CInv, Typed, CountTypes, JobTypes, Elsewhere, counters

\* TickNext: one of the rows read becomes current.
LEMMA TickNextStep ==
  ASSUME CInv, TickNext
  PROVE  CInv'
<1>1. /\ worker.pc = "rows" /\ UNCHANGED <<Tables, Elsewhere, rejected>>
      /\ worker \in WorkerType
  BY DEF TickNext, CInv, Typed
<1>2. Evolves
  BY <1>1 DEF Evolves, Tables, queue, JobOver
<1>3. CASE \E s \in worker.rows :
              worker' = [worker EXCEPT !.pc = "decide", !.rows = @ \ {s}, !.current = {s},
                                       !.seen = {ReadTask(s.task)}]
  <2>1. PICK s \in worker.rows :
              worker' = [worker EXCEPT !.pc = "decide", !.rows = @ \ {s}, !.current = {s},
                                       !.seen = {ReadTask(s.task)}]
    BY <1>3
  <2>2. s \in Snapshots /\ s \in Reads /\ s.task \in Tasks
    BY <1>1 DEF WorkerType, Snapshots, Reads
  <2>3. ReadTask(s.task) \in TaskReads
    BY <2>2, ReadTaskType DEF CInv
  <2>4. /\ worker' \in WorkerType /\ worker'.pc = "decide" /\ worker'.current = {s}
        /\ worker'.rows = worker.rows \ {s}
    BY <1>1, <2>1, <2>2, <2>3 DEF WorkerType, Locations
  <2>5. ReadsFit'
    <3>1. Reads' \subseteq Reads
      BY <2>2, <2>4 DEF Reads
    <3>2. \A q \in Reads' : Fits(q.task, q.row)' /\ q.row.state \in Reserving
      BY <1>2, <3>1, ReadsEvolve DEF CInv, ReadsFit
    <3>3. QED
      BY <2>2, <2>4, <3>2 DEF ReadsFit, Reading, Dispatching
  <2>6. QED
    BY <1>1, <2>4, <2>5, FreePlace, LocalStep DEF CInv, Typed, CountTypes, JobTypes, Elsewhere,
                                                  counters
<1>4. CASE worker' = [Idle EXCEPT !.pc = worker.after]
  <2>1. worker' \in WorkerType /\ worker'.pc \in {"idle", "claim"} /\ Reads' = {}
    BY <1>1, <1>4, IdleType DEF WorkerType, Locations, Idle, Reads
  <2>2. ReadsFit'
    BY <2>1 DEF ReadsFit, Reading, Dispatching
  <2>3. QED
    BY <1>1, <2>1, <2>2, FreePlace, LocalStep DEF CInv, Typed, CountTypes, JobTypes, Elsewhere,
                                                  counters
<1>5. QED
  BY <1>3, <1>4 DEF TickNext

-----------------------------------------------------------------------------
(* The worker: what becomes of a row *)

\* The row being decided on, and what the worker knows of it.
LEMMA CurrentRow ==
  ASSUME CInv, worker.pc \in Reading \ {"rows"}, NEW s \in worker.current
  PROVE  /\ s \in Snapshots /\ s \in Reads /\ s.task \in Tasks /\ s.row \in Rows
         /\ Fits(s.task, s.row) /\ s.row.state \in Reserving
         /\ s.row.job \in Jobs \union {NoJob} /\ worker.current = {s}
<1>1. s \in Reads
  BY DEF Reads
<1>2. worker.current = {s}
  BY DEF CInv, ReadsFit
<1>3. QED
  BY <1>1, <1>2, ReadsTyped DEF CInv, ReadsFit

\* The worker's next places.
LEMMA NextPlaces ==
  ASSUME CInv, NEW to \in RowStates
  PROVE  /\ NextRow \in WorkerType /\ NextRow.pc = "rows" /\ NextRow.current = {}
         /\ NextRow.rows = worker.rows
         /\ GiveUp(to) \in WorkerType /\ GiveUp(to).pc = "cancel" /\ GiveUp(to).to = to
         /\ GiveUp(to).current = worker.current /\ GiveUp(to).rows = worker.rows
         /\ Advance(to) \in WorkerType /\ Advance(to).pc = "advance" /\ Advance(to).to = to
         /\ Advance(to).current = worker.current /\ Advance(to).rows = worker.rows
<1>1. worker \in WorkerType
  BY DEF CInv, Typed
<1>2. NextRow \in WorkerType /\ NextRow.pc = "rows" /\ NextRow.current = {}
      /\ NextRow.rows = worker.rows
  BY <1>1 DEF NextRow, WorkerType, Locations, RowStates
<1>3. /\ GiveUp(to) \in WorkerType /\ GiveUp(to).pc = "cancel" /\ GiveUp(to).to = to
      /\ GiveUp(to).current = worker.current /\ GiveUp(to).rows = worker.rows
  BY <1>1 DEF GiveUp, WorkerType, Locations
<1>4. /\ Advance(to) \in WorkerType /\ Advance(to).pc = "advance" /\ Advance(to).to = to
      /\ Advance(to).current = worker.current /\ Advance(to).rows = worker.rows
  BY <1>1 DEF Advance, WorkerType, Locations
<1>5. QED
  BY <1>2, <1>3, <1>4

\* Going on to the next row.
LEMMA NextRowFits ==
  ASSUME CInv, worker.pc \in Reading \ {"rows"}, Evolves, worker' = NextRow
  PROVE  worker' \in WorkerType /\ ReadsFit' /\ PlaceFits'
<1>1. "none" \in RowStates
  BY DEF RowStates
<1>2. NextRow \in WorkerType /\ NextRow.pc = "rows" /\ NextRow.current = {}
      /\ NextRow.rows = worker.rows
  BY <1>1, NextPlaces
<1>3. worker' \in WorkerType /\ worker'.pc = "rows" /\ Reads' \subseteq Reads
  BY <1>2 DEF Reads
<1>4. ReadsFit'
  BY <1>3, ReadsShrink DEF CInv
<1>5. QED
  BY <1>3, <1>4, FreePlace

\* Giving the row up.
LEMMA GiveUpFits ==
  ASSUME CInv, worker.pc \in Reading \ {"rows"}, Evolves, NEW to \in Parked,
         worker' = GiveUp(to)
  PROVE  worker' \in WorkerType /\ ReadsFit' /\ PlaceFits'
<1>1. to \in RowStates
  BY DEF RowStates
<1>2. /\ worker' \in WorkerType /\ worker'.pc = "cancel" /\ worker'.to = to
      /\ worker'.current = worker.current /\ worker'.rows = worker.rows
  BY <1>1, NextPlaces
<1>3. Reads' = Reads /\ worker'.pc \in Reading
  BY <1>2 DEF Reads, Reading
<1>4. ReadsFit'
  BY <1>2, <1>3, ReadsShrink DEF CInv
<1>5. PlaceFits'
  BY <1>2 DEF PlaceFits, Holding, Executing
<1>6. QED
  BY <1>2, <1>4, <1>5

\* TickDecide: what reconcile decided is true of the job it read.
LEMMA TickDecideStep ==
  ASSUME CInv, TickDecide
  PROVE  CInv'
<1>1. /\ worker.pc = "decide" /\ UNCHANGED <<Tables, Elsewhere, rejected>>
      /\ worker.pc \in Reading \ {"rows"}
  BY DEF TickDecide, Reading
<1>2. PICK s \in worker.current, seen \in worker.seen : worker' = Reconciled(s, seen)
  BY DEF TickDecide
<1>3. Evolves
  BY <1>1 DEF Evolves, Tables, queue, JobOver
<1> DEFINE j == s.row.job
<1>4. \/ worker' = NextRow
      \/ \E to \in {"held", "failed"} : worker' = GiveUp(to)
      \/ worker' = Advance("queued")
      \/ /\ s.row.state # "waiting" /\ j # NoJob /\ status[j] = "completed"
         /\ \/ output[j] = "done" /\ worker' = Advance("completed")
            \/ output[j] = "blocker" /\ worker' = Advance("needs_context")
  BY <1>2 DEF Reconciled
<1>5. worker' \in WorkerType /\ ReadsFit' /\ PlaceFits'
  <2>1. CASE worker' = NextRow
    BY <1>1, <1>3, <2>1, NextRowFits
  <2>2. CASE \E to \in {"held", "failed"} : worker' = GiveUp(to)
    BY <1>1, <1>3, <2>2, GiveUpFits DEF Parked
  <2>3. ASSUME NEW to \in {"queued", "completed", "needs_context"}, worker' = Advance(to),
               \/ to = "queued"
               \/ /\ s.row.state # "waiting" /\ j # NoJob /\ status[j] = "completed"
                  /\ output[j] = IF to = "completed" THEN "done" ELSE "blocker"
        PROVE  worker' \in WorkerType /\ ReadsFit' /\ PlaceFits'
    <3>1. to \in RowStates
      BY DEF RowStates, Reserving, Parked
    <3>2. /\ worker' \in WorkerType /\ worker'.pc = "advance" /\ worker'.to = to
          /\ worker'.current = worker.current /\ worker'.rows = worker.rows
      BY <2>3, <3>1, NextPlaces
    <3>3. ReadsFit'
      <4>1. Reads' = Reads /\ worker'.pc \in Reading
        BY <3>2 DEF Reads, Reading
      <4>2. QED
        BY <1>1, <1>3, <3>2, <4>1, ReadsShrink DEF CInv
    <3>4. /\ worker.current = {s} /\ Fits(s.task, s.row) /\ s.row.state \in Reserving
      BY <1>1, <1>2, CurrentRow
    <3>5. to # "queued" => s.row.state = "working"
      BY <2>3, <3>4 DEF Fits, NeverRan, Reserving
    <3>6. status' = status /\ output' = output
      BY <1>1 DEF Tables, queue
    <3>7. \A q \in worker'.current : ResultFits(q)'
      BY <2>3, <3>2, <3>4, <3>5, <3>6 DEF ResultFits
    <3>8. PlaceFits'
      BY <3>2, <3>7 DEF PlaceFits, Holding, Executing
    <3>9. QED
      BY <3>2, <3>3, <3>8
  <2>4. QED
    BY <1>4, <2>1, <2>2, <2>3
<1>6. QED
  BY <1>1, <1>5, LocalStep DEF CInv, Typed, CountTypes, JobTypes, Elsewhere, counters

\* The handoff of a finished run: the row is reviewed or needs context.
LEMMA ResultRow ==
  ASSUME CInv, worker.pc = "advance", NEW s \in worker.current, NEW seen \in TaskReads,
         NEW to \in {"completed", "needs_context"}, worker.to = to, NEW g \in Stages,
         AdvanceError(s, seen, FALSE, TRUE) = "none", AdvanceToResult(s, to, g),
         UNCHANGED <<counters, settings, rejected>>
  PROVE  Queue' /\ Evolves /\ TaskTypes' /\ JobTypes' /\ RowTypes'
<1> DEFINE t == s.task
           r == [row[t] EXCEPT !.state = to, !.expected = g]
<1>1. /\ s \in Snapshots /\ t \in Tasks /\ s.row.state \in Reserving /\ row[t] \in Rows
      /\ row \in [Tasks -> Rows]
  BY CurrentRow DEF CInv, Typed, RowTypes, Reading
<1>2. s.row.job # NoJob /\ status[s.row.job] = "completed" /\ s.row.state = "working"
  BY DEF CInv, PlaceFits, ResultFits
<1>3. row[t].state = s.row.state /\ row[t].job = s.row.job
  BY AdvanceChecks
<1>4. /\ stage' = [stage EXCEPT ![t] = g] /\ content' = [content EXCEPT ![t] = @ + 1]
      /\ row' = [row EXCEPT ![t] = r] /\ UNCHANGED <<project, blocked, queue>>
  <2>1. /\ stage' = [stage EXCEPT ![t] = g] /\ content' = [content EXCEPT ![t] = @ + 1]
        /\ row' = [row EXCEPT ![t].state = to, ![t].expected = g]
        /\ UNCHANGED <<project, blocked, queue>>
    BY DEF AdvanceToResult
  <2>2. row' = [row EXCEPT ![t] = r]
    BY <1>1, <2>1 DEF Rows
  <2>3. QED
    BY <2>1, <2>2
<1>5. /\ r \in Rows /\ r.state = to /\ r.project = row[t].project /\ r.job = row[t].job
      /\ r.key = row[t].key
  <2>1. to \in RowStates
    BY DEF RowStates, Parked
  <2>2. QED
    BY <1>1, <2>1 DEF Rows
<1>6. row' \in [Tasks -> Rows] /\ row'[t] = r /\ \A u \in Tasks : u # t => row'[u] = row[u]
  <2> HIDE DEF r
  <2>1. QED
    BY <1>1, <1>4, <1>5
<1>7. Left(t)
  BY <1>2, <1>3, <1>5, <1>6 DEF Left
<1>8. StatusMoves /\ Evolves /\ status' = status /\ nextKey' = nextKey
  BY <1>4 DEF StatusMoves, Evolves, JobOver, queue, counters
<1>9. Queue'
  BY <1>6, <1>7, <1>8, TableStep DEF CInv
<1>10. TaskTypes'
  <2>1. content \in [Tasks -> Nat]
    BY DEF CInv, Typed, TaskTypes, Contents
  <2>2. content' \in [Tasks -> Contents]
    BY <1>1, <1>4, <2>1 DEF Contents
  <2>3. QED
    BY <1>4, <2>2 DEF CInv, Typed, TaskTypes, settings
<1>11. JobTypes' /\ RowTypes'
  BY <1>4, <1>6 DEF CInv, Typed, JobTypes, RowTypes, queue
<1>12. QED
  BY <1>8, <1>9, <1>10, <1>11

\* TickAdvance: a restart queues a new job, a result leaves the job over.
LEMMA TickAdvanceStep ==
  ASSUME CInv, TickAdvance
  PROVE  CInv'
<1>1. /\ worker.pc = "advance" /\ worker.pc \in Reading \ {"rows"}
      /\ UNCHANGED <<dispatches, Elsewhere, rejected>>
  BY DEF TickAdvance, Reading
<1>2. worker \in WorkerType
  BY DEF CInv, Typed
<1> DEFINE Fine == /\ Queue' /\ Evolves /\ TaskTypes' /\ JobTypes' /\ RowTypes'
                   /\ worker' \in WorkerType /\ ReadsFit' /\ PlaceFits'
<1>3. ASSUME NEW s \in worker.current, NEW seen \in worker.seen,
             AdvanceError(s, seen, TRUE, TRUE) = "none", NEW j \in NextJob,
             AdvanceToQueued(s, j, [kind |-> "independent", content |-> seen.content,
                                    key |-> s.row.key]),
             worker' = NextRow
      PROVE  Fine
  <2>1. s \in Snapshots /\ s.row.state # "none" /\ seen \in TaskReads
    BY <1>1, <1>2, CurrentRow DEF Reserving, WorkerType
  <2>2. Queue' /\ Evolves /\ TaskTypes' /\ JobTypes' /\ RowTypes'
    BY <1>1, <1>3, <2>1, AdvanceQueues DEF CInv, Elsewhere, counters
  <2>3. QED
    BY <1>1, <1>3, <2>2, NextRowFits
<1>4. ASSUME NEW s \in worker.current, NEW seen \in worker.seen, worker.to # "queued",
             AdvanceError(s, seen, FALSE, TRUE) = "none",
             AdvanceToResult(s, worker.to, IF worker.to = "completed" THEN CompletionStage
                                           ELSE seen.stage),
             worker' = NextRow
      PROVE  Fine
  <2> DEFINE g == IF worker.to = "completed" THEN CompletionStage ELSE seen.stage
  <2>1. seen \in TaskReads /\ g \in Stages
    BY <1>2 DEF WorkerType, TaskReads, CompletionStage, Stages
  <2>2. worker.to \in {"completed", "needs_context"}
    BY <1>1, <1>4 DEF CInv, PlaceFits
  <2>3. Queue' /\ Evolves /\ TaskTypes' /\ JobTypes' /\ RowTypes'
    <3> HIDE DEF g
    <3>1. AdvanceToResult(s, worker.to, g)
      BY <1>4 DEF g
    <3>2. QED
      BY <1>1, <1>4, <2>1, <2>2, <3>1, ResultRow DEF Elsewhere
  <2>4. QED
    BY <1>1, <1>4, <2>3, NextRowFits
<1>5. ASSUME UNCHANGED <<taskVars, row, queue>>,
             worker' = NextRow \/ \E to \in {"held", "needs_context", "failed"} : worker' = GiveUp(to)
      PROVE  Fine
  <2>1. Queue' /\ Evolves
    BY <1>1, <1>5, TablesStay DEF CInv, Elsewhere, counters
  <2>2. TaskTypes' /\ JobTypes' /\ RowTypes'
    BY <1>1, <1>5 DEF CInv, Typed, TaskTypes, JobTypes, RowTypes, taskVars, queue, Elsewhere,
                      settings
  <2>3. worker' \in WorkerType /\ ReadsFit' /\ PlaceFits'
    BY <1>1, <1>5, <2>1, NextRowFits, GiveUpFits DEF Parked
  <2>4. QED
    BY <2>1, <2>2, <2>3
<1>6. Fine
  <2>1. PICK s \in worker.current, seen \in worker.seen :
         LET starting == worker.to = "queued"
             err == AdvanceError(s, seen, starting, TRUE)
         IN
         \/ /\ err = "none" /\ starting
            /\ \E j \in NextJob :
                 AdvanceToQueued(s, j, [kind |-> "independent", content |-> seen.content,
                                        key |-> s.row.key])
            /\ worker' = NextRow
         \/ /\ err = "none" /\ ~starting
            /\ AdvanceToResult(s, worker.to, IF worker.to = "completed" THEN CompletionStage
                                             ELSE seen.stage)
            /\ worker' = NextRow
         \/ /\ worker' = NextRow
            /\ UNCHANGED <<taskVars, row, queue>>
         \/ /\ worker' = GiveUp(IF err = "blocked" THEN "needs_context" ELSE "held")
            /\ UNCHANGED <<taskVars, row, queue>>
         \/ /\ worker' = GiveUp("failed")
            /\ UNCHANGED <<taskVars, row, queue>>
    BY DEF TickAdvance
  <2>2. CASE worker.to = "queued"
    <3>1. (worker.to = "queued") = TRUE
      BY <2>2
    <3>2. QED
      BY <1>3, <1>5, <2>1, <3>1
  <2>3. CASE worker.to # "queued"
    <3>1. (worker.to = "queued") = FALSE
      BY <2>3
    <3>2. QED
      BY <1>4, <1>5, <2>1, <3>1
  <2>4. QED
    BY <2>2, <2>3
<1>7. Typed'
  BY <1>1, <1>6 DEF CInv, Typed, CallTypes, CountTypes, Elsewhere, counters
<1>8. CallsFit'
  BY <1>1 DEF CInv, CallsFit, Elsewhere
<1>9. QED
  BY <1>6, <1>7, <1>8 DEF CInv

\* TickCancel: the current row's job is over afterwards.
LEMMA TickCancelStep ==
  ASSUME CInv, TickCancel
  PROVE  CInv'
<1>1. /\ worker.pc = "cancel" /\ worker.pc \in Reading \ {"rows"}
      /\ worker' = [worker EXCEPT !.pc = "set"]
      /\ UNCHANGED <<taskVars, row, dispatches, Elsewhere, rejected>>
  BY DEF TickCancel, Reading
<1>2. PICK s \in worker.current : CancelAI(s.row.job)
  BY DEF TickCancel
<1>3. /\ worker.current = {s} /\ s \in Reads /\ s.row.job \in Jobs \union {NoJob}
      /\ Fits(s.task, s.row)
  BY <1>1, CurrentRow
<1>4. /\ Queue' /\ Evolves /\ status' \in [Jobs -> Statuses]
      /\ UNCHANGED <<taskOf, request, output>>
  BY <1>1, <1>2, <1>3, CancelTables DEF CancelAI, Elsewhere, counters
<1>5. /\ worker' \in WorkerType /\ worker'.pc = "set" /\ worker'.to = worker.to
      /\ worker'.current = worker.current /\ worker'.rows = worker.rows
  <2>1. worker \in WorkerType
    BY DEF CInv, Typed
  <2>2. QED
    BY <1>1, <2>1 DEF WorkerType, Locations
<1>6. ReadsFit'
  <2>1. Reads' = Reads /\ worker'.pc \in Reading
    BY <1>5 DEF Reads, Reading
  <2>2. QED
    BY <1>1, <1>4, <1>5, <2>1, ReadsShrink DEF CInv
<1>7. JobOver(s.row.job)'
  <2>1. CASE s.row.job = NoJob
    BY <2>1 DEF JobOver
  <2>2. CASE s.row.job # NoJob
    <3>1. s.row.job \in Jobs /\ status \in [Jobs -> Statuses]
      BY <1>3, <2>2 DEF CInv, Typed, JobTypes
    <3>2. status' = [status EXCEPT ![s.row.job] = CancelStatus(@)]
      BY <1>2, <2>2 DEF CancelAI
    <3>3. status'[s.row.job] = CancelStatus(status[s.row.job])
      BY <3>1, <3>2
    <3>4. QED
      BY <3>3 DEF JobOver, CancelStatus
  <2>3. QED
    BY <2>1, <2>2
<1>8. PlaceFits'
  <2>1. worker.to \in Parked
    BY <1>1 DEF CInv, PlaceFits
  <2>2. \A q \in worker'.current : JobOver(q.row.job)'
    BY <1>3, <1>5, <1>7
  <2>3. QED
    BY <1>5, <2>1, <2>2 DEF PlaceFits, Holding, Executing, JobOver
<1>9. Typed'
  BY <1>1, <1>4, <1>5 DEF CInv, Typed, TaskTypes, JobTypes, RowTypes, CallTypes, CountTypes,
                          taskVars, Elsewhere, settings, counters
<1>10. QED
  BY <1>1, <1>4, <1>6, <1>8, <1>9 DEF CInv, CallsFit, Elsewhere

\* A step that parks a row and changes no job.
LEMMA ParkStep ==
  ASSUME CInv, NEW s \in Snapshots, NEW to \in Parked, SetState(s, to), s.row.state # "none",
         s.row.state = "queued" => JobOver(s.row.job),
         UNCHANGED <<taskVars, queue, settings, call, nextKey, edits, downs, paid, rejected>>,
         dispatches' \subseteq [id : 1 .. nextDispatch', project : Projects],
         nextDispatch' \in Nat,
         worker' \in WorkerType, Evolves => ReadsFit', PlaceFits'
  PROVE  CInv'
<1>1. StatusMoves /\ Evolves /\ status' = status /\ JobOver(s.row.job)' = JobOver(s.row.job)
  BY DEF StatusMoves, Evolves, JobOver, queue
<1>2. /\ row' \in [Tasks -> Rows]
      /\ \A t \in Tasks : row'[t] = row[t] \/ Left(t)
  BY <1>1, SetStateRow DEF CInv
<1>3. Queue'
  BY <1>1, <1>2, TableStep DEF CInv
<1>4. Typed'
  BY <1>2 DEF CInv, Typed, TaskTypes, JobTypes, RowTypes, CallTypes, CountTypes,
                    taskVars, settings, queue
<1>5. CallsFit'
  BY DEF CInv, CallsFit
<1>6. QED
  BY <1>1, <1>3, <1>4, <1>5 DEF CInv

\* TickSet: a row is parked after its job is over.
LEMMA TickSetStep ==
  ASSUME CInv, TickSet
  PROVE  CInv'
<1>1. /\ worker.pc = "set" /\ worker.pc \in Reading \ {"rows"} /\ worker' = NextRow
      /\ UNCHANGED <<taskVars, queue, dispatches, Elsewhere, rejected>>
  BY DEF TickSet, Reading
<1>2. PICK s \in worker.current : SetState(s, worker.to)
  BY DEF TickSet
<1>3. s \in Snapshots /\ s.row.state # "none"
  BY <1>1, CurrentRow DEF Reserving
<1>4. worker.to \in Parked /\ JobOver(s.row.job)
  BY <1>1 DEF CInv, PlaceFits
<1>5. Evolves
  BY <1>1 DEF Evolves, JobOver, queue
<1>6. worker' \in WorkerType /\ ReadsFit' /\ PlaceFits'
  BY <1>1, <1>5, NextRowFits
<1>7. /\ dispatches' \subseteq [id : 1 .. nextDispatch', project : Projects]
      /\ nextDispatch' \in Nat
  BY <1>1 DEF CInv, Typed, CountTypes, Elsewhere, counters
<1>8. QED
  BY <1>1, <1>2, <1>3, <1>4, <1>6, <1>7, ParkStep DEF Elsewhere, counters

-----------------------------------------------------------------------------
(* The worker: claim, start, execute, finish *)

\* A step of the worker that moves statuses and perhaps one row.
LEMMA JobStep ==
  ASSUME CInv, StatusMoves, status' \in [Jobs -> Statuses], output' \in [Jobs -> Outputs],
         row' \in [Tasks -> Rows],
         \A t \in Tasks :
            \/ Left(t)
            \/ /\ row'[t] = row[t]
               /\ row[t].state = "queued" /\ status[row[t].job] \in NeverRan
                      => status'[row[t].job] \in NeverRan,
         TaskTypes', rejected' \subseteq Jobs,
         UNCHANGED <<call, counters>>, dispatches' \subseteq dispatches,
         worker' \in WorkerType, ReadsFit', PlaceFits'
  PROVE  CInv'
<1>1. Queue'
  BY TableStep DEF CInv, counters
<1>2. Typed'
  BY DEF CInv, Typed, JobTypes, RowTypes, CallTypes, CountTypes, StatusMoves, counters
<1>3. CallsFit'
  BY DEF CInv, CallsFit
<1>4. QED
  BY <1>1, <1>2, <1>3 DEF CInv

\* Away from the reading places nothing is remembered.
LEMMA NothingRead ==
  ASSUME CInv, worker.pc \notin Reading \union Dispatching,
         worker'.rows = worker.rows, worker'.current = worker.current,
         worker'.pc \notin Reading
  PROVE  ReadsFit' /\ Reads' = {}
BY DEF CInv, ReadsFit, Reads, Reading, Dispatching

\* One job of the table gets another status.
LEMMA OneStatus ==
  ASSUME Typed, NEW j \in Jobs, NEW to \in Statuses,
         status' = [status EXCEPT ![j] = to]
  PROVE  /\ status' \in [Jobs -> Statuses] /\ status'[j] = to
         /\ \A i \in Jobs : i # j => status'[i] = status[i]
BY DEF Typed, JobTypes

\* ClaimNext: a claimed Conductor job still has its queued row.
LEMMA ClaimStep ==
  ASSUME CInv, ClaimNext
  PROVE  CInv'
<1>1. /\ worker.pc = "claim" /\ worker \in WorkerType
      /\ UNCHANGED <<taskVars, row, taskOf, request, output, dispatches, Elsewhere, rejected>>
  BY DEF ClaimNext, CInv, Typed
<1>2. CASE \E j \in Jobs : /\ Claimable(j) /\ status' = [status EXCEPT ![j] = "claimed"]
                           /\ worker' = [worker EXCEPT !.pc = "begin", !.job = j]
  <2>1. PICK j \in Jobs : /\ Claimable(j) /\ status' = [status EXCEPT ![j] = "claimed"]
                          /\ worker' = [worker EXCEPT !.pc = "begin", !.job = j]
    BY <1>2
  <2>2. /\ status[j] = "pending" /\ status' \in [Jobs -> Statuses] /\ status'[j] = "claimed"
        /\ \A i \in Jobs : i # j => status'[i] = status[i]
    <3>1. status[j] = "pending"
      BY <2>1 DEF Claimable
    <3>2. "claimed" \in Statuses /\ Typed
      BY DEF CInv, Statuses
    <3>3. QED
      BY <2>1, <3>1, <3>2, OneStatus
  <2>3. /\ worker' \in WorkerType /\ worker'.pc = "begin" /\ worker'.job = j
        /\ worker'.rows = worker.rows /\ worker'.current = worker.current
    BY <1>1, <2>1 DEF WorkerType, Locations
  <2>4. StatusMoves
    BY <1>1, <2>2 DEF StatusMoves, ActiveStatuses
  <2>5. \A t \in Tasks : row[t].state = "queued" /\ status[row[t].job] \in NeverRan
                             => status'[row[t].job] \in NeverRan
    <3> TAKE t \in Tasks
    <3>1. row[t].state = "queued" => row[t].job \in Jobs
      BY DEF CInv, Queue, RowsFit, Fits, Typed, RowTypes, Rows
    <3>2. QED
      BY <2>2, <3>1 DEF NeverRan
  <2>6. ReadsFit' /\ PlaceFits'
    <3>1. j # NoJob
      BY DEF Jobs, NoJob
    <3>2. ReadsFit'
      BY <1>1, <2>3, NothingRead DEF Reading, Dispatching
    <3>3. PlaceFits'
      BY <2>2, <2>3, <3>1 DEF PlaceFits, Holding, Executing
    <3>4. QED
      BY <3>2, <3>3
  <2>7. TaskTypes' /\ output' \in [Jobs -> Outputs] /\ rejected' \subseteq Jobs
        /\ row' \in [Tasks -> Rows]
    BY <1>1 DEF CInv, Typed, TaskTypes, JobTypes, RowTypes, taskVars, Elsewhere, settings
  <2>8. QED
    BY <1>1, <2>2, <2>3, <2>4, <2>5, <2>6, <2>7, JobStep DEF Elsewhere
<1>3. CASE worker' = [worker EXCEPT !.pc = "dispatch"] /\ UNCHANGED status
  <2>1. /\ worker' \in WorkerType /\ worker'.pc = "dispatch"
        /\ worker'.rows = worker.rows /\ worker'.current = worker.current
    BY <1>1, <1>3 DEF WorkerType, Locations
  <2>2. ReadsFit' /\ PlaceFits'
    BY <1>1, <2>1, NothingRead, FreePlace DEF Reading, Dispatching
  <2>3. UNCHANGED Tables
    BY <1>1, <1>3 DEF Tables, queue
  <2>4. QED
    BY <1>1, <2>1, <2>2, <2>3, LocalStep DEF CInv, Typed, CountTypes, JobTypes, Elsewhere,
                                             counters
<1>4. QED
  BY <1>2, <1>3 DEF ClaimNext

\* The job that the worker holds.
LEMMA HeldJob ==
  ASSUME CInv, worker.pc \in Holding
  PROVE  /\ worker.job \in Jobs /\ status[worker.job] # "absent"
         /\ taskOf[worker.job] \in Tasks /\ worker \in WorkerType
         /\ worker.pc \notin Reading \union Dispatching
<1>1. worker.job \in Jobs /\ status[worker.job] # "absent" /\ worker \in WorkerType
  BY DEF CInv, PlaceFits, Typed, WorkerType
<1>2. taskOf[worker.job] \in Tasks
  BY <1>1 DEF CInv, Queue, JobsFit
<1>3. QED
  BY <1>1, <1>2 DEF Holding, Executing, Reading, Dispatching

\* A claimed job starts, or goes back into the queue: the other queued rows
\* keep theirs.
LEMMA ClaimedMoves ==
  ASSUME CInv, NEW j \in Jobs, status[j] = "claimed", NEW to \in {"running", "pending"},
         status' = [status EXCEPT ![j] = to], UNCHANGED <<taskOf, request>>
  PROVE  /\ StatusMoves /\ status' \in [Jobs -> Statuses] /\ status'[j] = to
         /\ \A t \in Tasks : t # taskOf[j] \/ request[j].kind = "manual" \/ to = "pending" =>
               (row[t].state = "queued" /\ status[row[t].job] \in NeverRan
                    => status'[row[t].job] \in NeverRan)
<1>1. to \in Statuses /\ Typed
  BY DEF Statuses, CInv
<1>2. /\ status' \in [Jobs -> Statuses] /\ status'[j] = to
      /\ \A i \in Jobs : i # j => status'[i] = status[i]
  BY <1>1, OneStatus
<1>3. StatusMoves
  BY <1>2 DEF StatusMoves, ActiveStatuses
<1>4. ASSUME NEW t \in Tasks, row[t].state = "queued", status[row[t].job] \in NeverRan,
             t # taskOf[j] \/ request[j].kind = "manual" \/ to = "pending"
      PROVE  status'[row[t].job] \in NeverRan
  <2>1. Fits(t, row[t]) /\ row[t].job \in Jobs
    BY <1>4 DEF CInv, Queue, RowsFit, Fits, Typed, RowTypes, Rows
  <2>2. row[t].job # NoJob
    BY <2>1, <1>4 DEF Fits
  <2>3. QED
    BY <1>2, <1>4, <2>1, <2>2 DEF Fits, NeverRan
<1>5. QED
  BY <1>2, <1>3, <1>4

\* BeginManual: the started job has no Conductor row.
LEMMA BeginManualStep ==
  ASSUME CInv, BeginManual
  PROVE  CInv'
<1> DEFINE j == worker.job
<1>1. /\ worker.pc = "begin" /\ request[j].kind = "manual"
      /\ UNCHANGED <<taskVars, row, taskOf, request, output, dispatches, Elsewhere, rejected>>
  BY DEF BeginManual
<1>2. j \in Jobs /\ worker \in WorkerType /\ worker.pc \notin Reading \union Dispatching
  BY <1>1, HeldJob DEF Holding
<1>3. TaskTypes' /\ output' \in [Jobs -> Outputs] /\ rejected' \subseteq Jobs
      /\ row' \in [Tasks -> Rows]
  BY <1>1 DEF CInv, Typed, TaskTypes, JobTypes, RowTypes, taskVars, Elsewhere, settings
<1>4. CASE status[j] = "claimed"
  <2>1. status' = [status EXCEPT ![j] = "running"] /\ worker' = [worker EXCEPT !.pc = "harness"]
    BY <1>4 DEF BeginManual
  <2>2. /\ StatusMoves /\ status' \in [Jobs -> Statuses] /\ status'[j] = "running"
        /\ \A t \in Tasks : row[t].state = "queued" /\ status[row[t].job] \in NeverRan
                                => status'[row[t].job] \in NeverRan
    BY <1>1, <1>2, <1>4, <2>1, ClaimedMoves
  <2>3. /\ worker' \in WorkerType /\ worker'.pc = "harness" /\ worker'.job = j
        /\ worker'.rows = worker.rows /\ worker'.current = worker.current
    BY <1>2, <2>1 DEF WorkerType, Locations
  <2>4. ReadsFit'
    BY <1>2, <2>3, NothingRead DEF Reading
  <2>5. PlaceFits'
    BY <1>2, <2>2, <2>3 DEF PlaceFits, Holding, Executing, JobOver, Jobs, NoJob
  <2>6. QED
    BY <1>1, <1>3, <2>2, <2>3, <2>4, <2>5, JobStep DEF Elsewhere
<1>5. CASE status[j] # "claimed"
  <2>1. worker' = Idle /\ UNCHANGED status
    BY <1>5 DEF BeginManual
  <2>2. worker' \in WorkerType /\ worker'.pc = "idle" /\ Reads' = {}
    BY <2>1, IdleType DEF Idle, Reads
  <2>3. ReadsFit' /\ PlaceFits'
    BY <2>2, FreePlace DEF ReadsFit, Reading, Dispatching
  <2>4. UNCHANGED Tables
    BY <1>1, <2>1 DEF Tables, queue
  <2>5. QED
    BY <1>1, <2>2, <2>3, <2>4, LocalStep DEF CInv, Typed, CountTypes, JobTypes, Elsewhere,
                                             counters
<1>6. QED
  BY <1>4, <1>5

\* BeginJob: job and row start together, go back together or stay.
LEMMA BeginJobStep ==
  ASSUME CInv, BeginJob
  PROVE  CInv'
<1> DEFINE j == worker.job
           t == taskOf[j]
<1>1. /\ worker.pc = "begin" /\ request[j].kind # "manual"
      /\ UNCHANGED <<project, content, blocked, taskOf, request, output, dispatches, Elsewhere>>
  BY DEF BeginJob
<1>2. /\ j \in Jobs /\ t \in Tasks /\ worker \in WorkerType
      /\ worker.pc \notin Reading \union Dispatching /\ Typed /\ j # NoJob
      /\ status[j] # "absent"
  BY <1>1, HeldJob DEF Holding, CInv, Jobs, NoJob
<1>3. /\ row \in [Tasks -> Rows] /\ row[t] \in Rows /\ stage \in [Tasks -> Stages]
  BY <1>2 DEF Typed, RowTypes, TaskTypes
<1>4. CASE UNCHANGED <<stage, row, status, rejected>> /\ worker' = Idle
  <2>1. worker' \in WorkerType /\ worker'.pc = "idle" /\ Reads' = {}
    BY <1>4, IdleType DEF Idle, Reads
  <2>2. ReadsFit' /\ PlaceFits'
    BY <2>1, FreePlace DEF ReadsFit, Reading, Dispatching
  <2>3. UNCHANGED Tables
    BY <1>1, <1>4 DEF Tables, taskVars, queue
  <2>4. QED
    BY <1>1, <1>4, <2>1, <2>2, <2>3, LocalStep DEF CInv, Typed, CountTypes, JobTypes, Elsewhere,
                                                   counters
<1>5. CASE /\ status[j] = "claimed" /\ status' = [status EXCEPT ![j] = "pending"]
           /\ worker' = Idle /\ UNCHANGED <<stage, row, rejected>>
  <2>1. /\ StatusMoves /\ status' \in [Jobs -> Statuses]
        /\ \A u \in Tasks : row[u].state = "queued" /\ status[row[u].job] \in NeverRan
                                => status'[row[u].job] \in NeverRan
    BY <1>1, <1>2, <1>5, ClaimedMoves
  <2>2. worker' \in WorkerType /\ worker'.pc = "idle" /\ Reads' = {}
    BY <1>5, IdleType DEF Idle, Reads
  <2>3. ReadsFit' /\ PlaceFits'
    BY <2>2, FreePlace DEF ReadsFit, Reading, Dispatching
  <2>4. TaskTypes' /\ output' \in [Jobs -> Outputs] /\ rejected' \subseteq Jobs
        /\ row' \in [Tasks -> Rows]
    BY <1>1, <1>2, <1>5 DEF Typed, TaskTypes, JobTypes, RowTypes, Elsewhere, settings
  <2>5. QED
    BY <1>1, <1>5, <2>1, <2>2, <2>3, <2>4, JobStep DEF Elsewhere
<1>6. CASE /\ row[t].job = j /\ row[t].state = "queued" /\ status[j] = "claimed"
           /\ status' = [status EXCEPT ![j] = "running"]
           /\ stage' = [stage EXCEPT ![t] = WorkingStage]
           /\ row' = [row EXCEPT ![t].state = "working", ![t].expected = WorkingStage]
           /\ worker' = [worker EXCEPT !.pc = "harness"]
           /\ UNCHANGED rejected
  <2> DEFINE r == [row[t] EXCEPT !.state = "working", !.expected = WorkingStage]
  <2>1. /\ StatusMoves /\ status' \in [Jobs -> Statuses] /\ status'[j] = "running"
        /\ \A u \in Tasks : u # t /\ row[u].state = "queued" /\ status[row[u].job] \in NeverRan
                                => status'[row[u].job] \in NeverRan
    BY <1>1, <1>2, <1>6, ClaimedMoves
  <2>2. row' = [row EXCEPT ![t] = r]
    BY <1>2, <1>3, <1>6 DEF Rows
  <2>3. /\ r \in Rows /\ r.state = "working" /\ r.expected = WorkingStage
        /\ r.job = row[t].job /\ r.project = row[t].project /\ r.key = row[t].key
    BY <1>3 DEF Rows, RowStates, Reserving, WorkingStage, Stages
  <2>4. row' \in [Tasks -> Rows] /\ row'[t] = r /\ \A u \in Tasks : u # t => row'[u] = row[u]
    <3> HIDE DEF r
    <3>1. QED
      BY <1>2, <1>3, <2>2, <2>3
  <2>5. Left(t)
    BY <1>2, <1>6, <2>1, <2>3, <2>4 DEF Left, Reserving
  <2>6. /\ worker' \in WorkerType /\ worker'.pc = "harness" /\ worker'.job = j
        /\ worker'.rows = worker.rows /\ worker'.current = worker.current
    BY <1>2, <1>6 DEF WorkerType, Locations
  <2>7. ReadsFit'
    BY <1>2, <2>6, NothingRead DEF Reading
  <2>8. PlaceFits'
    BY <1>2, <2>1, <2>6 DEF PlaceFits, Holding, Executing, JobOver
  <2>9. TaskTypes' /\ output' \in [Jobs -> Outputs] /\ rejected' \subseteq Jobs
    BY <1>1, <1>2, <1>3, <1>6 DEF Typed, TaskTypes, JobTypes, Elsewhere, settings, WorkingStage,
                                  Stages
  <2>10. \A u \in Tasks :
            \/ Left(u)
            \/ /\ row'[u] = row[u]
               /\ row[u].state = "queued" /\ status[row[u].job] \in NeverRan
                      => status'[row[u].job] \in NeverRan
    BY <2>1, <2>4, <2>5
  <2>11. QED
    BY <1>1, <2>1, <2>4, <2>6, <2>7, <2>8, <2>9, <2>10, JobStep DEF Elsewhere
<1>7. CASE /\ \E to \in {"held", "needs_context"} :
                 worker' = [worker EXCEPT !.pc = "reject", !.to = to]
           /\ rejected' = rejected \union {j}
           /\ UNCHANGED <<stage, row, status>>
  <2>1. PICK to \in {"held", "needs_context"} :
             worker' = [worker EXCEPT !.pc = "reject", !.to = to]
    BY <1>7
  <2>2. /\ worker' \in WorkerType /\ worker'.pc = "reject" /\ worker'.job = j
        /\ worker'.to = to /\ worker'.rows = worker.rows /\ worker'.current = worker.current
    BY <1>2, <2>1 DEF WorkerType, Locations, RowStates, Parked
  <2>3. ReadsFit'
    BY <1>2, <2>2, NothingRead DEF Reading
  <2>4. PlaceFits'
    BY <1>2, <1>7, <2>2 DEF PlaceFits, Holding, Executing, Parked
  <2>5. UNCHANGED Tables
    BY <1>1, <1>7 DEF Tables, taskVars, queue
  <2>6. rejected' \subseteq Jobs /\ downs' \in 0 .. MaxDowns
    BY <1>1, <1>2, <1>7 DEF Typed, JobTypes, CountTypes, Elsewhere, counters
  <2>7. QED
    BY <1>1, <2>2, <2>3, <2>4, <2>5, <2>6, LocalStep DEF Elsewhere, counters
<1>8. QED
  <2>1. Refusal(j) \in {"held", "needs_context", "none"}
        /\ (Refusal(j) = "none" => row[t].job = j)
    BY DEF Refusal
  <2>2. \/ ReturnToQueue(j) /\ worker' = Idle /\ UNCHANGED <<stage, row, rejected>>
        \/ worker' = Idle /\ UNCHANGED <<stage, row, status, rejected>>
        \/ /\ Refusal(j) = "none" /\ row[t].state = "queued" /\ status[j] = "claimed"
           /\ status' = [status EXCEPT ![j] = "running"]
           /\ stage' = [stage EXCEPT ![t] = WorkingStage]
           /\ row' = [row EXCEPT ![t].state = "working", ![t].expected = WorkingStage]
           /\ worker' = [worker EXCEPT !.pc = "harness"]
           /\ UNCHANGED rejected
        \/ /\ worker' = [worker EXCEPT !.pc = "reject",
                           !.to = IF Refusal(j) = "none" THEN "held" ELSE Refusal(j)]
           /\ rejected' = rejected \union {j}
           /\ UNCHANGED <<stage, row, status>>
    BY DEF BeginJob
  <2>3. CASE ReturnToQueue(j) /\ worker' = Idle /\ UNCHANGED <<stage, row, rejected>>
    BY <1>4, <1>5, <2>3 DEF ReturnToQueue
  <2>4. QED
    BY <1>4, <1>6, <1>7, <2>1, <2>2, <2>3

\* RejectCancel: the refused job is over afterwards.
LEMMA RejectCancelStep ==
  ASSUME CInv, RejectCancel
  PROVE  CInv'
<1> DEFINE j == worker.job
<1>1. /\ worker.pc = "reject" /\ CancelAI(j) /\ worker' = [worker EXCEPT !.pc = "rejected"]
      /\ UNCHANGED <<taskVars, row, dispatches, Elsewhere, rejected>>
  BY DEF RejectCancel
<1>2. /\ j \in Jobs /\ worker \in WorkerType /\ status[j] # "absent"
      /\ worker.pc \notin Reading \union Dispatching /\ j # NoJob /\ status \in [Jobs -> Statuses]
  BY <1>1, HeldJob DEF Holding, Jobs, NoJob, CInv, Typed, JobTypes
<1>3. /\ Queue' /\ status' \in [Jobs -> Statuses] /\ UNCHANGED <<taskOf, request, output>>
  BY <1>1, <1>2, CancelTables DEF CancelAI, Elsewhere, counters
<1>4. status'[j] = CancelStatus(status[j])
  <2>1. status' = [status EXCEPT ![j] = CancelStatus(@)]
    BY <1>1, <1>2 DEF CancelAI
  <2>2. QED
    BY <1>2, <2>1
<1>5. /\ worker' \in WorkerType /\ worker'.pc = "rejected" /\ worker'.job = j
      /\ worker'.to = worker.to /\ worker'.rows = worker.rows
      /\ worker'.current = worker.current
  BY <1>1, <1>2 DEF WorkerType, Locations
<1>6. ReadsFit'
  BY <1>2, <1>5, NothingRead DEF Reading
<1>7. PlaceFits'
  <2>1. worker.to \in Parked
    BY <1>1 DEF CInv, PlaceFits
  <2>2. status'[j] \notin {"absent", "pending", "claimed"}
    BY <1>2, <1>4 DEF CancelStatus
  <2>3. QED
    BY <1>2, <1>5, <2>1, <2>2 DEF PlaceFits, Holding, Executing, JobOver
<1>8. Typed'
  BY <1>1, <1>3, <1>5 DEF CInv, Typed, TaskTypes, JobTypes, RowTypes, CallTypes, CountTypes,
                          taskVars, Elsewhere, settings, counters
<1>9. QED
  BY <1>1, <1>3, <1>6, <1>7, <1>8 DEF CInv, CallsFit, Elsewhere

\* RejectSet: the row built without a key parks at most a row whose job is
\* over.
LEMMA RejectSetStep ==
  ASSUME CInv, RejectSet
  PROVE  CInv'
<1> DEFINE j == worker.job
           s == [task |-> taskOf[j], row |-> [NoRow EXCEPT !.state = "queued", !.job = j]]
<1>1. /\ worker.pc = "rejected" /\ SetState(s, worker.to) /\ worker' = Idle
      /\ UNCHANGED <<taskVars, queue, dispatches, Elsewhere, rejected>>
  BY DEF RejectSet
<1>2. j \in Jobs /\ taskOf[j] \in Tasks
  BY <1>1, HeldJob DEF Holding
<1>3. s \in Snapshots /\ s.row.state = "queued" /\ s.row.job = j
  <2>1. [NoRow EXCEPT !.state = "queued", !.job = j] \in Rows
    <3>1. NoRow \in Rows /\ "queued" \in RowStates
      BY NoRowType DEF RowStates, Reserving
    <3>2. QED
      BY <1>2, <3>1 DEF Rows
  <2>2. QED
    BY <1>2, <2>1 DEF Snapshots, NoRow
<1>4. worker.to \in Parked /\ JobOver(j)
  BY <1>1 DEF CInv, PlaceFits
<1>5. worker' \in WorkerType /\ worker'.pc = "idle" /\ Reads' = {}
  BY <1>1, IdleType DEF Idle, Reads
<1>6. ReadsFit' /\ PlaceFits'
  BY <1>5, FreePlace DEF ReadsFit, Reading, Dispatching
<1>7. /\ dispatches' \subseteq [id : 1 .. nextDispatch', project : Projects]
      /\ nextDispatch' \in Nat
  BY <1>1 DEF CInv, Typed, CountTypes, Elsewhere, counters
<1> HIDE DEF s
<1>8. QED
  BY <1>1, <1>3, <1>4, <1>5, <1>6, <1>7, ParkStep DEF Elsewhere, counters

\* The harness ends, or finish has read the status.
LEMMA RunStep ==
  ASSUME CInv, \/ \E o \in {"done", "blocker", "malformed", "error"} : HarnessReturns(o)
               \/ StopDuringRun \/ FinishRead
  PROVE  CInv'
<1>1. /\ worker.pc \in Executing /\ UNCHANGED <<Tables, settings, call, nextKey, nextDispatch, paid>>
      /\ UNCHANGED <<edits, rejected>>
  BY DEF HarnessReturns, StopDuringRun, FinishRead, Executing, Elsewhere, counters
<1>2. /\ worker.job \in Jobs /\ worker \in WorkerType /\ worker.job # NoJob
      /\ status[worker.job] # "absent" /\ worker.pc \notin Reading \union Dispatching
      /\ JobOver(worker.job)
  BY <1>1, HeldJob DEF Holding, Jobs, NoJob, CInv, PlaceFits
<1>3. downs' \in 0 .. MaxDowns
  BY BoundsAssumption DEF HarnessReturns, StopDuringRun, FinishRead, Elsewhere, counters, CInv,
                          Typed, CountTypes
<1>4. /\ worker' \in WorkerType /\ worker'.job = worker.job /\ worker'.rows = worker.rows
      /\ worker'.current = worker.current
      /\ \/ worker'.pc = "finish"
         \/ worker'.pc = "save" /\ worker'.to \in Verdicts
  <2>1. CASE \E o \in {"done", "blocker", "malformed", "error", "stopped"} :
               worker' = [worker EXCEPT !.pc = "finish", !.outcome = o]
    BY <1>2, <2>1 DEF WorkerType, Locations
  <2>2. CASE \E v \in Verdicts : worker' = [worker EXCEPT !.pc = "save", !.to = v]
    BY <1>2, <2>2 DEF WorkerType, Locations
  <2>3. CASE FinishRead
    BY <2>2, <2>3 DEF FinishRead, Verdicts
  <2>4. QED
    BY <2>1, <2>3 DEF HarnessReturns, StopDuringRun
<1>5. ReadsFit'
  BY <1>2, <1>4, NothingRead DEF Reading
<1>6. status' = status
  BY <1>1 DEF Tables, queue
<1>7. PlaceFits'
  BY <1>2, <1>4, <1>6 DEF PlaceFits, Holding, Executing, JobOver
<1>8. rejected' \subseteq Jobs
  BY <1>1 DEF CInv, Typed, JobTypes
<1>9. QED
  BY <1>1, <1>3, <1>4, <1>5, <1>7, <1>8, LocalStep

\* FinishAI: a job that has been executed ends; no row is queued for it.
LEMMA FinishStep ==
  ASSUME CInv, FinishAI
  PROVE  CInv'
<1> DEFINE j == worker.job
           ended == status[j] \in InFlight
<1>1. /\ worker.pc = "save" /\ worker.pc \in Executing
      /\ UNCHANGED <<taskVars, row, taskOf, request, dispatches, Elsewhere, rejected>>
  BY DEF FinishAI, Executing
<1>2. /\ j \in Jobs /\ Typed /\ worker \in WorkerType /\ JobOver(j) /\ worker.to \in Verdicts
      /\ j # NoJob
  BY <1>1, HeldJob DEF Holding, CInv, PlaceFits, Jobs, NoJob
<1>3. /\ worker' \in WorkerType /\ worker'.pc \in {"idle", "again", "down"} /\ Reads' = {}
  <2>1. worker' \in {Idle, Down, [Idle EXCEPT !.pc = "again", !.outcome = "stopped"],
                     [Idle EXCEPT !.pc = "again", !.outcome = "none"]}
    BY DEF FinishAI
  <2>2. CASE worker' \in {Idle, Down}
    BY <2>2, IdleType DEF Idle, Down, Reads
  <2>3. ASSUME NEW o \in {"stopped", "none"},
               worker' = [Idle EXCEPT !.pc = "again", !.outcome = o]
        PROVE  worker' \in WorkerType /\ worker'.pc = "again" /\ Reads' = {}
    BY <2>3, IdleType DEF Idle, WorkerType, Locations, Reads
  <2>4. QED
    BY <2>1, <2>2, <2>3
<1>4. ReadsFit' /\ PlaceFits'
  BY <1>3, FreePlace DEF ReadsFit, Reading, Dispatching
<1>5. TaskTypes' /\ rejected' \subseteq Jobs /\ row' \in [Tasks -> Rows]
  BY <1>1, <1>2 DEF Typed, TaskTypes, JobTypes, RowTypes, taskVars, Elsewhere, settings
<1>6. CASE ~ended
  <2>1. status' = status /\ output' = output
    BY <1>6 DEF FinishAI
  <2>2. StatusMoves
    BY <1>1, <2>1 DEF StatusMoves
  <2>3. status' \in [Jobs -> Statuses] /\ output' \in [Jobs -> Outputs]
    BY <1>2, <2>1 DEF Typed, JobTypes
  <2>4. QED
    BY <1>1, <1>3, <1>4, <1>5, <2>1, <2>2, <2>3, JobStep DEF Elsewhere
<1>7. CASE ended
  <2> DEFINE to == FinishStatus(status[j], worker.to)
             out == IF worker.outcome \in Outputs THEN worker.outcome ELSE "none"
  <2>1. status[j] \in {"running", "canceling"}
    BY <1>2, <1>7 DEF JobOver, InFlight
  <2>2. to \in Verdicts /\ to \in Statuses /\ out \in Outputs
    BY <1>2 DEF FinishStatus, Verdicts, Statuses, Outputs
  <2>3. /\ status' = [status EXCEPT ![j] = to]
        /\ output' = [output EXCEPT ![j] = out]
    BY <1>2, <1>7 DEF FinishAI, Typed, JobTypes
  <2> HIDE DEF to, out
  <2>4. /\ status' \in [Jobs -> Statuses] /\ status'[j] = to
        /\ \A i \in Jobs : i # j => status'[i] = status[i]
    BY <1>2, <2>2, <2>3, OneStatus
  <2>5. output' \in [Jobs -> Outputs]
    BY <1>2, <2>2, <2>3 DEF Typed, JobTypes
  <2>6. StatusMoves
    BY <1>1, <2>1, <2>2, <2>4 DEF StatusMoves, ActiveStatuses, Verdicts
  <2>7. \A t \in Tasks : row'[t] = row[t] /\
            (row[t].state = "queued" /\ status[row[t].job] \in NeverRan
                 => status'[row[t].job] \in NeverRan)
    <3> TAKE t \in Tasks
    <3>1. row[t].state = "queued" => row[t].job \in Jobs
      BY DEF CInv, Queue, RowsFit, Fits, Typed, RowTypes, Rows
    <3>2. QED
      BY <1>1, <2>1, <2>4, <3>1 DEF NeverRan
  <2>8. QED
    BY <1>1, <1>3, <1>4, <1>5, <2>4, <2>5, <2>6, <2>7, JobStep DEF Elsewhere
<1>8. QED
  BY <1>6, <1>7

-----------------------------------------------------------------------------
(* The worker: one selection turn; crash and restart *)

\* DispatchRead: the rows read are waiting.
LEMMA DispatchReadStep ==
  ASSUME CInv, DispatchRead
  PROVE  CInv'
<1> DEFINE waiting == {[task |-> t, row |-> row[t]] :
                          t \in {u \in Tasks : row[u].state = "waiting"}}
<1>1. /\ worker.pc = "dispatch" /\ UNCHANGED <<Tables, Elsewhere, rejected>>
      /\ worker' = [worker EXCEPT !.pc = "offer", !.rows = waiting, !.current = waiting]
  BY DEF DispatchRead
<1>2. \A s \in waiting : s \in Snapshots /\ Fits(s.task, s.row) /\ s.row.state = "waiting"
  BY DEF CInv, Typed, RowTypes, Queue, RowsFit, Snapshots
<1>3. worker \in WorkerType /\ waiting \in SUBSET Snapshots
  BY <1>2 DEF CInv, Typed
<1>4. worker' \in WorkerType /\ worker'.pc = "offer" /\ Reads' = waiting
  <2> HIDE DEF waiting
  <2>1. QED
    BY <1>1, <1>3 DEF WorkerType, Locations, Reads
<1>5. ReadsFit' /\ PlaceFits'
  <2>1. \A s \in waiting : Fits(s.task, s.row)'
    BY <1>1, <1>2 DEF Fits, Tables, queue
  <2> HIDE DEF waiting
  <2>2. QED
    BY <1>2, <1>4, <2>1, FreePlace DEF ReadsFit, Reading, Dispatching, Reserving
<1>6. QED
  BY <1>1, <1>4, <1>5, LocalStep DEF CInv, Typed, CountTypes, JobTypes, Elsewhere, counters

\* What is remembered in a selection turn.
LEMMA OfferedRow ==
  ASSUME CInv, worker.pc \in Dispatching, NEW s \in Reads
  PROVE  /\ s \in Snapshots /\ s.row.state = "waiting" /\ s.row.state # "none"
         /\ s.row.state # "queued" /\ s.row.project \in Projects
<1>1. s \in Snapshots /\ s.row.state = "waiting" /\ Fits(s.task, s.row)
  BY ReadsTyped DEF CInv, ReadsFit
<1>2. QED
  BY <1>1 DEF Fits

\* DispatchOffer: a row that may not be offered is held, a turn gets a new id.
LEMMA DispatchOfferStep ==
  ASSUME CInv, DispatchOffer
  PROVE  CInv'
<1>1. /\ worker.pc = "offer" /\ worker.pc \in Dispatching /\ worker \in WorkerType
      /\ worker.pc # "select" /\ nextDispatch \in Nat
      /\ dispatches \subseteq [id : 1 .. nextDispatch, project : Projects]
  BY DEF DispatchOffer, Dispatching, CInv, Typed, CountTypes
<1>2. /\ UNCHANGED <<taskVars, queue, settings, call, nextKey, edits, downs, paid, rejected>>
  BY DEF DispatchOffer
<1>3. rejected' \subseteq Jobs /\ downs' \in 0 .. MaxDowns
  BY <1>2 DEF CInv, Typed, JobTypes, CountTypes
<1>4. ASSUME NEW s \in worker.current, worker' = [worker EXCEPT !.current = @ \ {s}]
      PROVE  worker' \in WorkerType /\ (Evolves => ReadsFit') /\ PlaceFits'
  <2>1. /\ worker' \in WorkerType /\ worker'.pc = "offer" /\ worker'.rows = worker.rows
        /\ worker'.current = worker.current \ {s}
    BY <1>1, <1>4 DEF WorkerType
  <2>2. Reads' \subseteq Reads
    BY <2>1 DEF Reads
  <2>3. Evolves => ReadsFit'
    BY <1>1, <2>1, <2>2, ReadsShrink DEF CInv, Dispatching
  <2>4. QED
    BY <2>1, <2>3, FreePlace
<1>5. Evolves
  BY <1>2 DEF Evolves, queue, JobOver
<1>6. ASSUME NEW s \in worker.current, worker' = [worker EXCEPT !.current = @ \ {s}],
             UNCHANGED <<row, dispatches, nextDispatch>>
      PROVE  CInv'
  <2>1. UNCHANGED Tables
    BY <1>2, <1>6 DEF Tables
  <2>2. QED
    BY <1>2, <1>3, <1>4, <1>5, <1>6, <2>1, LocalStep
<1>7. ASSUME NEW s \in worker.current, worker' = [worker EXCEPT !.current = @ \ {s}],
             SetState(s, "held"), UNCHANGED <<dispatches, nextDispatch>>
      PROVE  CInv'
  <2>1. s \in Snapshots /\ s.row.state # "none" /\ s.row.state # "queued"
    BY <1>1, OfferedRow DEF Reads
  <2>2. "held" \in Parked
    BY DEF Parked
  <2>3. /\ dispatches' \subseteq [id : 1 .. nextDispatch', project : Projects]
        /\ nextDispatch' \in Nat
    BY <1>1, <1>7
  <2>4. QED
    BY <1>2, <1>4, <1>7, <2>1, <2>2, <2>3, ParkStep
<1>8. ASSUME NEW s \in worker.current, worker' = Idle,
             SetState(s, "failed"), UNCHANGED <<dispatches, nextDispatch>>
      PROVE  CInv'
  <2>1. s \in Snapshots /\ s.row.state # "none" /\ s.row.state # "queued"
    BY <1>1, OfferedRow DEF Reads
  <2>2. "failed" \in Parked
    BY DEF Parked
  <2>3. /\ dispatches' \subseteq [id : 1 .. nextDispatch', project : Projects]
        /\ nextDispatch' \in Nat
    BY <1>1, <1>8
  <2>4. worker' \in WorkerType /\ worker'.pc = "idle" /\ Reads' = {}
    BY <1>8, IdleType DEF Idle, Reads
  <2>5. ReadsFit' /\ PlaceFits'
    BY <2>4, FreePlace DEF ReadsFit, Reading, Dispatching
  <2>6. QED
    BY <1>2, <1>8, <2>1, <2>2, <2>3, <2>4, <2>5, ParkStep
<1>9. ASSUME NEW s \in worker.current, nextDispatch' = nextDispatch + 1,
             dispatches' = dispatches \union {[id |-> nextDispatch', project |-> s.row.project]},
             worker' = [worker EXCEPT !.pc = "select", !.current = {},
                          !.dispatch = nextDispatch',
                          !.rows = {r \in @ : r.row.project = s.row.project}],
             UNCHANGED row
      PROVE  CInv'
  <2> DEFINE kept == {r \in worker.rows : r.row.project = s.row.project}
  <2>1. s.row.project \in Projects
    BY <1>1, OfferedRow DEF Reads
  <2>2. nextDispatch' \in Nat /\ 1 .. nextDispatch \subseteq 1 .. nextDispatch'
        /\ nextDispatch' \in 1 .. nextDispatch'
    BY <1>1, <1>9
  <2>3. dispatches' \subseteq [id : 1 .. nextDispatch', project : Projects]
    BY <1>1, <1>9, <2>1, <2>2
  <2>4. kept \in SUBSET Snapshots /\ kept \subseteq worker.rows
    BY <1>1 DEF WorkerType
  <2>5. worker' = [worker EXCEPT !.pc = "select", !.current = {}, !.dispatch = nextDispatch',
                                 !.rows = kept]
    BY <1>1, <1>9 DEF WorkerType
  <2> HIDE DEF kept
  <2>6. /\ worker' \in WorkerType /\ worker'.pc = "select" /\ worker'.rows = kept
        /\ worker'.current = {}
    BY <1>1, <2>2, <2>4, <2>5 DEF WorkerType, Locations
  <2>7. ReadsFit' /\ PlaceFits'
    <3>1. Reads' \subseteq Reads
      BY <2>4, <2>6 DEF Reads
    <3>2. QED
      BY <1>1, <1>5, <2>6, <3>1, ReadsShrink, FreePlace DEF CInv, Dispatching
  <2>8. Queue'
    BY <1>2, <1>9, TablesStay DEF CInv
  <2>9. Typed'
    BY <1>2, <1>9, <2>2, <2>3, <2>6 DEF CInv, Typed, TaskTypes, JobTypes, RowTypes, CallTypes,
                                        CountTypes, taskVars, settings, queue
  <2>10. QED
    BY <1>2, <2>7, <2>8, <2>9 DEF CInv, CallsFit
<1>10. CASE worker' = Idle /\ UNCHANGED <<row, dispatches, nextDispatch>>
  <2>1. worker' \in WorkerType /\ worker'.pc = "idle" /\ Reads' = {}
    BY <1>10, IdleType DEF Idle, Reads
  <2>2. ReadsFit' /\ PlaceFits'
    BY <2>1, FreePlace DEF ReadsFit, Reading, Dispatching
  <2>3. UNCHANGED Tables
    BY <1>2, <1>10 DEF Tables
  <2>4. QED
    BY <1>2, <1>3, <1>10, <2>1, <2>2, <2>3, LocalStep
<1>11. QED
  BY <1>6, <1>7, <1>8, <1>9, <1>10 DEF DispatchOffer

\* DispatchReturns: the turn is removed, its rows stay known.
LEMMA DispatchReturnsStep ==
  ASSUME CInv, NEW ok \in BOOLEAN, DispatchReturns(ok)
  PROVE  CInv'
<1>1. /\ worker.pc = "select" /\ worker \in WorkerType
      /\ dispatches' = {d \in dispatches : d.id # worker.dispatch}
      /\ UNCHANGED <<taskVars, row, queue, Elsewhere, rejected>>
  BY DEF DispatchReturns, CInv, Typed
<1>2. /\ worker' \in WorkerType /\ worker'.pc = "hold" /\ worker'.to \in Parked
      /\ worker'.rows = worker.rows /\ worker'.current = worker.current
  <2>1. PICK to \in {"held", "failed"} : worker' = [worker EXCEPT !.pc = "hold", !.to = to]
    BY DEF DispatchReturns
  <2>2. QED
    BY <1>1, <2>1 DEF WorkerType, Locations, RowStates, Parked
<1>3. Queue' /\ Evolves
  BY <1>1, TablesStay DEF CInv, Elsewhere, counters
<1>4. ReadsFit'
  <2>1. Reads' = Reads
    BY <1>2 DEF Reads
  <2>2. QED
    BY <1>1, <1>2, <1>3, <2>1, ReadsShrink DEF CInv, Dispatching
<1>5. PlaceFits'
  BY <1>2 DEF PlaceFits, Holding, Executing
<1>6. Typed'
  BY <1>1, <1>2 DEF CInv, Typed, TaskTypes, JobTypes, RowTypes, CallTypes, CountTypes,
                    taskVars, settings, queue, Elsewhere, counters
<1>7. QED
  BY <1>1, <1>3, <1>4, <1>5, <1>6 DEF CInv, CallsFit, Elsewhere

\* HoldCandidate: a waiting row, which has no job that may start, is parked.
LEMMA HoldStep ==
  ASSUME CInv, HoldCandidate
  PROVE  CInv'
<1>1. /\ worker.pc = "hold" /\ worker.pc \in Dispatching /\ worker \in WorkerType
      /\ worker.to \in Parked
      /\ UNCHANGED <<taskVars, queue, dispatches, Elsewhere, rejected>>
  BY DEF HoldCandidate, Dispatching, CInv, Typed, PlaceFits
<1>2. CASE \E s \in worker.rows : /\ SetState(s, worker.to)
                                  /\ worker' = [worker EXCEPT !.rows = @ \ {s}]
  <2>1. PICK s \in worker.rows : /\ SetState(s, worker.to)
                                 /\ worker' = [worker EXCEPT !.rows = @ \ {s}]
    BY <1>2
  <2>2. s \in Snapshots /\ s.row.state # "none" /\ s.row.state # "queued"
    BY <1>1, OfferedRow DEF Reads
  <2>3. /\ worker' \in WorkerType /\ worker'.pc = "hold" /\ worker'.to = worker.to
        /\ worker'.rows = worker.rows \ {s} /\ worker'.current = worker.current
    BY <1>1, <2>1 DEF WorkerType
  <2>4. Evolves => ReadsFit'
    <3>1. Reads' \subseteq Reads
      BY <2>3 DEF Reads
    <3>2. QED
      BY <1>1, <2>3, <3>1, ReadsShrink DEF CInv, Dispatching
  <2>5. PlaceFits'
    BY <1>1, <2>3 DEF PlaceFits, Holding, Executing
  <2>6. /\ dispatches' \subseteq [id : 1 .. nextDispatch', project : Projects]
        /\ nextDispatch' \in Nat
    BY <1>1 DEF CInv, Typed, CountTypes, Elsewhere, counters
  <2>7. QED
    BY <1>1, <2>1, <2>2, <2>3, <2>4, <2>5, <2>6, ParkStep DEF Elsewhere, counters
<1>3. CASE worker' = Idle /\ UNCHANGED row
  <2>1. worker' \in WorkerType /\ worker'.pc = "idle" /\ Reads' = {}
    BY <1>3, IdleType DEF Idle, Reads
  <2>2. ReadsFit' /\ PlaceFits'
    BY <2>1, FreePlace DEF ReadsFit, Reading, Dispatching
  <2>3. UNCHANGED Tables
    BY <1>1, <1>3 DEF Tables
  <2>4. QED
    BY <1>1, <2>1, <2>2, <2>3, LocalStep DEF CInv, Typed, CountTypes, JobTypes, Elsewhere,
                                             counters
<1>4. QED
  BY <1>2, <1>3 DEF HoldCandidate

\* Crash: the worker knows nothing any more.
LEMMA CrashStep ==
  ASSUME CInv, Crash
  PROVE  CInv'
<1>1. /\ worker' = Down /\ UNCHANGED <<Tables, settings, call, nextKey, nextDispatch, edits, paid>>
      /\ rejected' = rejected
  BY DEF Crash
<1>2. downs' \in 0 .. MaxDowns /\ rejected' \subseteq Jobs
  BY <1>1, BoundsAssumption DEF Crash, CInv, Typed, CountTypes, JobTypes
<1>3. worker' \in WorkerType /\ worker'.pc = "down" /\ Reads' = {}
  BY <1>1, IdleType DEF Down, Idle, Reads
<1>4. ReadsFit' /\ PlaceFits'
  BY <1>3, FreePlace DEF ReadsFit, Reading, Dispatching
<1>5. QED
  BY <1>1, <1>2, <1>3, <1>4, LocalStep

\* Start: no job is claimed or running, so none is queued twice.
LEMMA StartStep ==
  ASSUME CInv, Start
  PROVE  CInv'
<1>1. /\ worker' = Idle /\ dispatches' = {}
      /\ status' = [j \in Jobs |-> IF status[j] \in InFlight THEN "interrupted" ELSE status[j]]
      /\ UNCHANGED <<taskVars, row, taskOf, request, output, Elsewhere, rejected>>
  BY DEF Start
<1>2. /\ \A j \in Jobs : status[j] \in Statuses
      /\ \A j \in Jobs : status'[j] = IF status[j] \in InFlight THEN "interrupted" ELSE status[j]
  BY <1>1 DEF CInv, Typed, JobTypes
<1>3. status' \in [Jobs -> Statuses]
  BY <1>1, <1>2 DEF Statuses
<1>4. StatusMoves
  BY <1>1, <1>2 DEF StatusMoves, ActiveStatuses, InFlight
<1>5. \A t \in Tasks : row'[t] = row[t] /\
          (row[t].state = "queued" /\ status[row[t].job] \in NeverRan
               => status'[row[t].job] \in NeverRan)
  <2> TAKE t \in Tasks
  <2>1. row[t].state = "queued" => row[t].job \in Jobs
    BY DEF CInv, Queue, RowsFit, Fits, Typed, RowTypes, Rows
  <2>2. QED
    BY <1>1, <1>2, <2>1 DEF NeverRan
<1>6. worker' \in WorkerType /\ worker'.pc = "idle" /\ Reads' = {}
  BY <1>1, IdleType DEF Idle, Reads
<1>7. ReadsFit' /\ PlaceFits'
  BY <1>6, FreePlace DEF ReadsFit, Reading, Dispatching
<1>8. /\ TaskTypes' /\ output' \in [Jobs -> Outputs] /\ rejected' \subseteq Jobs
      /\ row' \in [Tasks -> Rows]
  BY <1>1 DEF CInv, Typed, TaskTypes, JobTypes, RowTypes, taskVars, Elsewhere, settings
<1>9. QED
  BY <1>1, <1>3, <1>4, <1>5, <1>6, <1>7, <1>8, JobStep DEF Elsewhere

-----------------------------------------------------------------------------
(* The invariant, and what follows from it *)

\* Nothing happens.
LEMMA StutterStep == CInv /\ UNCHANGED vars => CInv'
<1> SUFFICES ASSUME CInv, UNCHANGED vars PROVE CInv'
  OBVIOUS
<1>1. /\ UNCHANGED <<taskVars, settings, row, queue, dispatches, worker, call, counters>>
      /\ rejected' = rejected
  BY DEF vars
<1>2. Queue' /\ Evolves
  BY <1>1, TablesStay DEF CInv, counters
<1>3. ReadsFit' /\ PlaceFits'
  BY <1>1, <1>2, WorkerStays DEF CInv
<1>4. Typed'
  BY <1>1 DEF CInv, Typed, TaskTypes, JobTypes, RowTypes, CallTypes, CountTypes, taskVars,
              settings, queue, counters
<1>5. QED
  BY <1>1, <1>2, <1>3, <1>4 DEF CInv, CallsFit

\* Every step keeps the invariant.
LEMMA NextInv == CInv /\ [Next]_vars => CInv'
<1> SUFFICES ASSUME CInv, Next PROVE CInv'
  BY StutterStep
<1>1. CASE UserStep
  BY <1>1, HandoffStep, ReleaseStep, EditStep, ManualStep, CancelStep, ReadStep,
     ResumeCommitStep DEF UserStep
<1>2. CASE ToolStep
  BY <1>2, ReadStep, StartCommitStep, DeferStep DEF ToolStep
<1>3. CASE WorkerStep
  BY <1>3, TickStartStep, TickReadStep, TickNextStep, TickDecideStep, TickAdvanceStep,
     TickCancelStep, TickSetStep, ClaimStep, BeginManualStep, BeginJobStep, RejectCancelStep,
     RejectSetStep, RunStep, FinishStep, DispatchReadStep, DispatchOfferStep,
     DispatchReturnsStep, HoldStep DEF WorkerStep
<1>4. QED
  BY <1>1, <1>2, <1>3, CancelStep, RunStep, CrashStep, StartStep DEF Next

\* Every reachable state satisfies the invariant.
LEMMA ConductorInvariance == Spec => []CInv
<1>1. Init => CInv
  BY InitInv
<1>2. CInv /\ [Next]_vars => CInv'
  BY NextInv
<1>3. QED
  BY <1>1, <1>2, PTL DEF Spec

\* Every table and every local of worker and requests has its type.
THEOREM ConductorTypeCorrect == Spec => []TypeOK
<1>1. CInv => TypeOK
  BY TypedTypeOK DEF CInv
<1>2. QED
  BY <1>1, ConductorInvariance, PTL

\* A row that reserves its task excludes every other active job of the task.
THEOREM ExclusiveReservation == Spec => []ReservationIsExclusive
<1>1. CInv => ReservationIsExclusive
  BY DEF CInv, Queue
<1>2. QED
  BY <1>1, ConductorInvariance, PTL

\* A Conductor job in the queue belongs to a queued row.
THEOREM QueuedJobHasRow == Spec => []NoOrphanedJob
<1>1. CInv => NoOrphanedJob
  BY DEF CInv, Queue, QueuedHere, NoOrphanedJob
<1>2. QED
  BY <1>1, ConductorInvariance, PTL

\* The dispatcher starts a handoff at most once.
THEOREM OneStartPerHandoff == Spec => []HandoffStartedOnce
<1>1. CInv => HandoffStartedOnce
  BY DEF CInv, Queue
<1>2. QED
  BY <1>1, ConductorInvariance, PTL

-----------------------------------------------------------------------------
(* What a step may not do *)

\* A row is reviewed nowhere but in the handoff of a finished run.
LEMMA OnlyAdvanceReviews ==
  ASSUME CInv, Next, ~TickAdvance, NEW t \in Tasks, row'[t].state = "completed"
  PROVE  row[t].state = "completed"
<1>1. /\ row \in [Tasks -> Rows] /\ \A u \in Tasks : row[u] \in Rows
      /\ NoRow.state = "none"
  BY NoRowType DEF CInv, Typed, RowTypes
<1>2. ASSUME NEW s \in Snapshots, NEW to \in Parked, SetState(s, to)
      PROVE  row[t].state = "completed"
  <2>1. s.task \in Tasks /\ to # "completed"
    BY DEF Snapshots, Parked
  <2>2. QED
    BY <1>1, <1>2, <2>1 DEF SetState, Rows
<1>3. ASSUME NEW s \in Snapshots, NEW j, NEW req, AdvanceToQueued(s, j, req)
      PROVE  row[t].state = "completed"
  <2>1. s.task \in Tasks
    BY DEF Snapshots
  <2>2. QED
    BY <1>1, <1>3, <2>1 DEF AdvanceToQueued, Rows
<1>4. CASE UserStep
  <2>1. ASSUME NEW p \in Projects, NEW S \in SUBSET Tasks, NEW states, Handoff(p, S, states)
        PROVE  row[t].state = "completed"
    BY <1>1, <2>1 DEF Handoff, Rows
  <2>2. ASSUME NEW p \in Projects, NEW S \in SUBSET Tasks, ReleaseTasks(p, S)
        PROVE  row[t].state = "completed"
    BY <1>1, <2>2 DEF ReleaseTasks
  <2>3. ASSUME NEW c \in Calls, ResumeCommit(c)
        PROVE  row[t].state = "completed"
    <3> DEFINE u == call[c].snap.task
               r(j) == [state |-> "queued", job |-> j, expected |-> WorkingStage,
                        project |-> IF row[u].state = "none" THEN call[c].seen.project
                                    ELSE row[u].project,
                        key |-> row[u].key]
    <3>1. u \in Tasks
      BY <2>3 DEF ResumeCommit, CInv, Typed, CallTypes, NoCall, CallReads, Snapshots
    <3>2. UNCHANGED row \/ \E j \in NextJob : row' = [row EXCEPT ![u] = r(j)]
      BY <1>1, <2>3, <3>1 DEF ResumeCommit
    <3>3. \A j : r(j).state = "queued"
      OBVIOUS
    <3> HIDE DEF r
    <3>4. QED
      BY <1>1, <3>1, <3>2, <3>3
  <2>4. CASE UNCHANGED row
    BY <2>4
  <2>5. QED
    BY <1>4, <2>1, <2>2, <2>3, <2>4
    DEF UserStep, Send, Recheck, EditTask, EditProject, StartManualRun, CancelRun, ResumeRead
<1>5. CASE ToolStep
  <2>1. ASSUME NEW c \in Calls, StartCommit(c)
        PROVE  row[t].state = "completed"
    <3>1. call[c].snap \in Snapshots
      BY <2>1 DEF StartCommit, CInv, Typed, CallTypes, NoCall, CallReads
    <3>2. QED
      BY <1>3, <2>1, <3>1 DEF StartCommit
  <2>2. ASSUME NEW u \in Tasks, NEW d, DeferTask(u, d)
        PROVE  row[t].state = "completed"
    BY <1>1, <2>2 DEF DeferTask, Rows
  <2>3. QED
    BY <1>5, <2>1, <2>2 DEF ToolStep, StartRead
<1>6. CASE WorkerStep
  <2>1. CASE TickStart
    BY <1>1, <2>1 DEF TickStart, ReleaseReviewed
  <2>2. CASE TickSet
    <3>1. PICK s \in worker.current : SetState(s, worker.to)
      BY <2>2 DEF TickSet
    <3>2. worker.pc = "set" /\ worker.pc \in Reading \ {"rows"}
      BY <2>2 DEF TickSet, Reading
    <3>3. s \in Snapshots /\ worker.to \in Parked
      BY <3>1, <3>2, CurrentRow DEF CInv, PlaceFits
    <3>4. QED
      BY <1>2, <3>1, <3>3
  <2>3. CASE RejectSet
    <3> DEFINE s == [task |-> taskOf[worker.job],
                     row |-> [NoRow EXCEPT !.state = "queued", !.job = worker.job]]
    <3>1. worker.job \in Jobs /\ taskOf[worker.job] \in Tasks /\ worker.to \in Parked
      BY <2>3, HeldJob DEF RejectSet, Holding, CInv, PlaceFits
    <3>2. s \in Snapshots
      <4>1. NoRow \in Rows /\ "queued" \in RowStates
        BY NoRowType DEF RowStates, Reserving
      <4>2. [NoRow EXCEPT !.state = "queued", !.job = worker.job] \in Rows
        BY <3>1, <4>1 DEF Rows
      <4>3. QED
        BY <3>1, <4>2 DEF Snapshots
    <3>3. SetState(s, worker.to)
      BY <2>3 DEF RejectSet
    <3> HIDE DEF s
    <3>4. QED
      BY <1>2, <3>1, <3>2, <3>3
  <2>4. CASE DispatchOffer
    <3>1. ASSUME NEW s \in worker.current, NEW to \in {"held", "failed"}, SetState(s, to)
          PROVE  row[t].state = "completed"
      <4>1. s \in Snapshots
        BY ReadsTyped DEF Reads, CInv
      <4>2. QED
        BY <1>2, <3>1, <4>1 DEF Parked
    <3>2. QED
      BY <2>4, <3>1 DEF DispatchOffer
  <2>5. CASE HoldCandidate
    <3>1. ASSUME NEW s \in worker.rows, SetState(s, worker.to)
          PROVE  row[t].state = "completed"
      <4>1. s \in Snapshots /\ worker.to \in Parked
        BY <2>5, ReadsTyped DEF Reads, CInv, HoldCandidate, PlaceFits
      <4>2. QED
        BY <1>2, <3>1, <4>1
    <3>2. QED
      BY <2>5, <3>1 DEF HoldCandidate
  <2>6. CASE BeginJob
    BY <1>1, <2>6 DEF BeginJob, Rows
  <2>7. CASE UNCHANGED row
    BY <2>7
  <2>8. QED
    BY <1>6, <2>1, <2>2, <2>3, <2>4, <2>5, <2>6, <2>7
    DEF WorkerStep, TickRead, TickNext, TickDecide, TickCancel, ClaimNext, BeginManual,
        RejectCancel, HarnessReturns, FinishRead, FinishAI, DispatchRead, DispatchReturns, Tables
<1>7. QED
  BY <1>4, <1>5, <1>6 DEF Next, WatchOwner, StopDuringRun, Crash, Start, Tables

\* The step that brings a task to review.
LEMMA AdvanceEarns ==
  ASSUME CInv, TickAdvance, NEW t \in Tasks, row[t].state # "completed",
         row'[t].state = "completed"
  PROVE  LET j == row[t].job IN
         /\ row[t].state = "working" /\ status[j] = "completed"
         /\ output[j] = "done" /\ taskOf[j] = t
         /\ stage[t] = WorkingStage /\ project[t] = row[t].project
         /\ stage'[t] = CompletionStage
<1>1. /\ worker.pc = "advance" /\ worker.pc \in Reading \ {"rows"}
      /\ row \in [Tasks -> Rows] /\ stage \in [Tasks -> Stages]
  BY DEF TickAdvance, Reading, CInv, Typed, RowTypes, TaskTypes
<1>2. \A s \in worker.current : /\ s \in Snapshots /\ s.task \in Tasks
                                /\ Fits(s.task, s.row) /\ ResultFits(s)
  BY <1>1, CurrentRow DEF CInv, PlaceFits
<1>3. \A s \in worker.current, j \in NextJob : \A req :
         ~AdvanceToQueued(s, j, req)
  BY <1>1, <1>2 DEF AdvanceToQueued, Rows
<1>4. PICK s \in worker.current, seen \in worker.seen :
         /\ AdvanceError(s, seen, FALSE, TRUE) = "none" /\ worker.to # "queued"
         /\ AdvanceToResult(s, worker.to, IF worker.to = "completed" THEN CompletionStage
                                          ELSE seen.stage)
  <2>1. PICK s \in worker.current, seen \in worker.seen :
         LET starting == worker.to = "queued"
             err == AdvanceError(s, seen, starting, TRUE)
         IN
         \/ \E j \in NextJob : \E req : AdvanceToQueued(s, j, req)
         \/ /\ err = "none" /\ ~starting
            /\ AdvanceToResult(s, worker.to, IF worker.to = "completed" THEN CompletionStage
                                             ELSE seen.stage)
         \/ UNCHANGED row
    BY DEF TickAdvance
  <2>2. QED
    <3>1. row' # row
      OBVIOUS
    <3>2. /\ worker.to # "queued" /\ AdvanceError(s, seen, worker.to = "queued", TRUE) = "none"
          /\ AdvanceToResult(s, worker.to, IF worker.to = "completed" THEN CompletionStage
                                           ELSE seen.stage)
      BY <1>3, <2>1, <3>1
    <3>3. (worker.to = "queued") = FALSE
      BY <3>2
    <3>4. QED
      BY <3>2, <3>3
<1>5. /\ s.task = t /\ worker.to = "completed" /\ stage'[t] = CompletionStage
  <2>1. \A u \in Tasks : u # s.task => row'[u] = row[u]
    BY <1>1, <1>2, <1>4 DEF AdvanceToResult
  <2>2. s.task = t
    BY <2>1
  <2>3. row'[t].state = worker.to
    BY <1>1, <1>4, <2>2 DEF AdvanceToResult, Rows
  <2>4. QED
    BY <1>1, <1>4, <2>2, <2>3 DEF AdvanceToResult
<1>6. /\ row[t].project = s.row.project /\ row[t].state = s.row.state /\ row[t].job = s.row.job
      /\ seen.project = s.row.project /\ seen.stage = s.row.expected /\ ReadTask(t) = seen
  BY <1>4, <1>5, AdvanceChecks
<1>7. /\ s.row.state = "working" /\ status[s.row.job] = "completed" /\ s.row.job # NoJob
      /\ output[s.row.job] = "done"
  BY <1>2, <1>4, <1>5 DEF ResultFits
<1>8. s.row.expected = WorkingStage /\ taskOf[s.row.job] = t
  BY <1>2, <1>5, <1>7 DEF Fits
<1>9. stage[t] = seen.stage /\ project[t] = seen.project
  BY <1>6 DEF ReadTask
<1>10. QED
  BY <1>5, <1>6, <1>7, <1>8, <1>9

\* Only a completed run of the task's own job, with the answer "done" and the
\* task where it was to be, brings a task to review.
THEOREM EarnedReview == Spec => ReviewIsEarned
<1>1. ASSUME CInv, [Next]_vars
      PROVE  [\A t \in Tasks :
                row[t].state # "completed" /\ row'[t].state = "completed" =>
                    LET j == row[t].job IN
                    /\ row[t].state = "working" /\ status[j] = "completed"
                    /\ output[j] = "done" /\ taskOf[j] = t
                    /\ stage[t] = WorkingStage /\ project[t] = row[t].project
                    /\ stage'[t] = CompletionStage]_vars
  BY <1>1, OnlyAdvanceReviews, AdvanceEarns
<1>2. QED
  BY <1>1, ConductorInvariance, PTL DEF Spec, ReviewIsEarned

\* A job that is created by the dispatcher or begins to run, while its project
\* is paused: there is no such step.
LEMMA StartsNotPaused ==
  ASSUME CInv, Next, NEW j \in Jobs, request'[j].kind = "dispatched",
         <<status[j], status'[j]>> \in {<<"absent", "pending">>, <<"claimed", "running">>}
  PROVE  enabled[row'[taskOf'[j]].project]
<1> DEFINE Goal == enabled[row'[taskOf'[j]].project]
<1>1. /\ status[j] \in {"absent", "claimed"} /\ status'[j] \in {"pending", "running"}
      /\ status[j] = "absent" => status'[j] = "pending"
      /\ status[j] = "claimed" => status'[j] = "running"
  OBVIOUS
<1>2. /\ status \in [Jobs -> Statuses] /\ row \in [Tasks -> Rows] /\ Typed
      /\ \A u \in Tasks : row[u] \in Rows
      /\ status'[j] # status[j] /\ status'[j] # CancelStatus(status[j])
  BY <1>1 DEF CInv, Typed, JobTypes, RowTypes, CancelStatus
<1>3. ASSUME NEW i \in NextJob, NEW u \in Tasks, NEW req \in Requests, Insert(i, u, req)
      PROVE  j = i /\ taskOf'[j] = u /\ request'[j] = req
  BY <1>2, <1>3, InsertFacts
<1>4. ASSUME NEW i, CancelAI(i) PROVE FALSE
  BY <1>2, <1>4 DEF CancelAI
<1>5. ASSUME NEW i \in Jobs, request[i].kind # "dispatched", UNCHANGED request,
             status' = [status EXCEPT ![i] = "running"]
      PROVE  FALSE
  BY <1>2, <1>5
<1>6. CASE UserStep
  <2>1. ASSUME NEW p \in Projects, NEW S \in SUBSET Tasks, ReleaseTasks(p, S) PROVE FALSE
    BY <1>2, <2>1 DEF ReleaseTasks
  <2>2. ASSUME NEW t \in Tasks, StartManualRun(t) PROVE FALSE
    <3>1. NoRequest \in Requests /\ NoRequest.kind = "manual"
      BY BoundsAssumption DEF NoRequest, Requests, Contents, Keys, NoKey
    <3>2. QED
      BY <1>3, <2>2, <3>1 DEF StartManualRun
  <2>3. ASSUME NEW c \in Calls, ResumeCommit(c) PROVE FALSE
    <3> DEFINE t == call[c].snap.task
               req == [kind |-> "independent", content |-> call[c].seen.content,
                       key |-> row[t].key]
    <3>1. t \in Tasks /\ call[c].seen \in TaskReads
      BY <2>3 DEF ResumeCommit, CInv, Typed, CallTypes, NoCall, CallReads, Snapshots
    <3>2. req \in Requests /\ req.kind = "independent"
      BY <1>2, <3>1 DEF Requests, TaskReads, Rows
    <3>3. UNCHANGED status \/ \E i \in NextJob : Insert(i, t, req)
      BY <2>3 DEF ResumeCommit, queue
    <3> HIDE DEF req
    <3>4. QED
      BY <1>2, <1>3, <3>1, <3>2, <3>3
  <2>4. CASE UNCHANGED status
    BY <1>2, <2>4
  <2>5. QED
    BY <1>4, <1>6, <2>1, <2>2, <2>3, <2>4
    DEF UserStep, Send, Recheck, Handoff, EditTask, EditProject, CancelRun, ResumeRead, queue
<1>7. CASE ToolStep
  <2>1. ASSUME NEW c \in Calls, StartCommit(c) PROVE Goal
    <3> DEFINE s == call[c].snap
               seen == call[c].seen
               req == [kind |-> "dispatched", content |-> seen.content, key |-> s.row.key]
    <3>1. s \in Snapshots /\ s.task \in Tasks /\ s.row \in Rows /\ seen \in TaskReads
      BY <2>1 DEF StartCommit, CInv, Typed, CallTypes, NoCall, CallReads, Snapshots
    <3>2. req \in Requests
      BY <3>1 DEF Requests, TaskReads, Rows
    <3>3. PICK i \in NextJob : /\ AdvanceToQueued(s, i, req)
                               /\ AdvanceError(s, seen, TRUE, FALSE) = "none"
                               /\ CheckDispatch(call[c].dispatch, s.row.project)
      BY <1>2, <2>1 DEF StartCommit, queue
    <3>4. taskOf'[j] = s.task /\ j = i
      <4>1. Insert(i, s.task, req)
        BY <3>3 DEF AdvanceToQueued
      <4> HIDE DEF req
      <4>2. QED
        BY <1>3, <3>1, <3>2, <4>1
    <3>5. row[s.task].project = s.row.project
      BY <3>3, AdvanceChecks
    <3>6. row'[s.task].project = row[s.task].project
      BY <1>2, <3>1, <3>3 DEF AdvanceToQueued, Rows
    <3>7. enabled[s.row.project]
      BY <3>3 DEF CheckDispatch
    <3>8. QED
      BY <3>4, <3>5, <3>6, <3>7
  <2>2. QED
    BY <1>2, <1>7, <2>1 DEF ToolStep, StartRead, DeferTask, queue
<1>8. CASE WorkerStep
  <2>1. ASSUME TickAdvance PROVE FALSE
    <3>1. PICK s \in worker.current, seen \in worker.seen :
             \/ \E i \in NextJob :
                   AdvanceToQueued(s, i, [kind |-> "independent", content |-> seen.content,
                                          key |-> s.row.key])
             \/ UNCHANGED queue
      BY <2>1 DEF TickAdvance, AdvanceToResult
    <3> DEFINE req == [kind |-> "independent", content |-> seen.content, key |-> s.row.key]
    <3>2. s \in Snapshots /\ s.task \in Tasks /\ s.row \in Rows /\ seen \in TaskReads
      BY DEF CInv, Typed, WorkerType, Snapshots
    <3>3. req \in Requests /\ req.kind = "independent"
      BY <3>2 DEF Requests, TaskReads, Rows
    <3>4. UNCHANGED queue \/ \E i \in NextJob : Insert(i, s.task, req)
      BY <3>1 DEF AdvanceToQueued
    <3> HIDE DEF req
    <3>5. QED
      BY <1>2, <1>3, <3>2, <3>3, <3>4 DEF queue
  <2>2. CASE ClaimNext
    BY <1>1, <1>2, <2>2 DEF ClaimNext
  <2>3. ASSUME BeginManual PROVE FALSE
    <3>1. worker.job \in Jobs
      BY <2>3, HeldJob DEF BeginManual, Holding
    <3>2. QED
      BY <1>2, <1>5, <2>3, <3>1 DEF BeginManual
  <2>4. CASE BeginJob
    <3> DEFINE i == worker.job
               t == taskOf[i]
    <3>1. i \in Jobs /\ t \in Tasks
      BY <2>4, HeldJob DEF BeginJob, Holding
    <3>2. UNCHANGED <<taskOf, request>>
      BY <2>4 DEF BeginJob
    <3>3. /\ ~Paused(i) /\ status' = [status EXCEPT ![i] = "running"]
          /\ row' = [row EXCEPT ![t].state = "working", ![t].expected = WorkingStage]
      BY <1>1, <1>2, <2>4 DEF BeginJob, ReturnToQueue
    <3>4. j = i
      BY <1>2, <3>3
    <3>5. row'[t].project = row[t].project
      BY <1>2, <3>1, <3>3 DEF Rows
    <3>6. QED
      BY <3>2, <3>3, <3>4, <3>5 DEF Paused
  <2>5. ASSUME FinishAI PROVE FALSE
    <3>1. worker.job \in Jobs /\ JobOver(worker.job) /\ worker.to \in Verdicts
          /\ worker.job # NoJob
      BY <2>5, HeldJob DEF FinishAI, Holding, Executing, CInv, PlaceFits, Jobs, NoJob
    <3>2. /\ status[worker.job] \in InFlight
          /\ status' = [status EXCEPT ![worker.job] = FinishStatus(@, worker.to)]
      BY <1>2, <2>5 DEF FinishAI
    <3>3. QED
      BY <1>1, <1>2, <3>1, <3>2 DEF JobOver, InFlight
  <2>6. ASSUME TickCancel PROVE FALSE
    BY <1>4, <2>6 DEF TickCancel
  <2>7. ASSUME RejectCancel PROVE FALSE
    BY <1>4, <2>7 DEF RejectCancel
  <2>8. CASE UNCHANGED status
    BY <1>2, <2>8
  <2>9. QED
    BY <1>8, <2>1, <2>2, <2>3, <2>4, <2>5, <2>6, <2>7, <2>8
    DEF WorkerStep, TickStart, TickRead, TickNext, TickDecide, TickSet, RejectSet, HarnessReturns,
        FinishRead, DispatchRead, DispatchOffer, DispatchReturns, HoldCandidate, Tables, queue
<1>9. ASSUME Start PROVE FALSE
  BY <1>1, <1>2, <1>9 DEF Start
<1>10. QED
  BY <1>2, <1>4, <1>6, <1>7, <1>8, <1>9
  DEF Next, WatchOwner, StopDuringRun, Crash, Tables, queue

\* While a project is paused the dispatcher creates no job of it, and none of
\* those it has created begins to run.
THEOREM PausedStaysStopped == Spec => PauseStopsStarts
<1>1. ASSUME CInv, [Next]_vars
      PROVE  [\A j \in Jobs :
                 /\ request'[j].kind = "dispatched"
                 /\ <<status[j], status'[j]>> \in {<<"absent", "pending">>,
                                                   <<"claimed", "running">>}
                 => enabled[row'[taskOf'[j]].project]]_vars
  BY <1>1, StartsNotPaused
<1>2. QED
  BY <1>1, ConductorInvariance, PTL DEF Spec, PauseStopsStarts

\* The step that holds a candidate writes the row that the turn was offered.
LEMMA HoldsWhatItSaw ==
  ASSUME CInv, Next, NEW t \in Tasks, worker.pc = "hold", worker' # worker, row'[t] # row[t]
  PROVE  \E s \in worker.rows : s.task = t /\ s.row.key = row[t].key
<1>1. row \in [Tasks -> Rows]
  BY DEF CInv, Typed, RowTypes
<1>2. CASE HoldCandidate
  <2>1. PICK s \in worker.rows : SetState(s, worker.to)
    BY <1>2 DEF HoldCandidate
  <2>2. s.task = t /\ row[t].key = s.row.key
    BY <1>1, <2>1 DEF SetState
  <2>3. QED
    BY <2>2
<1>3. CASE UserStep
  BY <1>3 DEF UserStep, Send, Recheck, Handoff, ReleaseTasks, EditTask, StartManualRun,
              EditProject, CancelRun, ResumeRead, ResumeCommit
<1>4. CASE ToolStep
  BY <1>4 DEF ToolStep, StartRead, StartCommit, DeferTask
<1>5. CASE WorkerStep /\ ~HoldCandidate
  BY <1>5 DEF WorkerStep, TickStart, TickRead, TickNext, TickDecide, TickAdvance, TickCancel,
              TickSet, ClaimNext, BeginManual, BeginJob, RejectCancel, RejectSet, HarnessReturns,
              FinishRead, FinishAI, DispatchRead, DispatchOffer, DispatchReturns
<1>6. QED
  BY <1>2, <1>3, <1>4, <1>5 DEF Next, WatchOwner, StopDuringRun, Crash, Start, Tables

\* A selection turn parks only rows that it was offered, as they were.
THEOREM OfferedAreHeld == Spec => FreshHandoffIsNotHeld
<1>1. ASSUME CInv, [Next]_vars
      PROVE  [\A t \in Tasks :
                 worker.pc = "hold" /\ worker' # worker /\ row'[t] # row[t] =>
                     \E snap \in worker.rows : snap.task = t /\ snap.row.key = row[t].key]_vars
  BY <1>1, HoldsWhatItSaw
<1>2. QED
  BY <1>1, ConductorInvariance, PTL DEF Spec, FreshHandoffIsNotHeld

-----------------------------------------------------------------------------
(* The queue still implements its lifecycle *)

\* An insert of Conductor, of the user or of a resumed session is the
\* lifecycle's, for a task that has no active job.
LEMMA InsertIsLifecycle ==
  ASSUME Typed, NEW j \in NextJob, NEW t \in Tasks, NEW req, Insert(j, t, req),
         ActiveJobs(t) = {}
  PROVE  JL!Next
<1>1. j \in Jobs /\ status[j] = "absent"
  BY DEF NextJob
<1>2. JL!Active(t) = {}
  BY DEF ActiveJobs, ActiveStatuses, JL!Active, JL!ActiveStatuses
<1>3. JL!Insert(j, t)
  BY <1>1, <1>2 DEF Insert, JL!Insert
<1>4. QED
  BY <1>1, <1>3 DEF JL!Next

\* So is every cancellation.
LEMMA CancelIsLifecycle ==
  ASSUME Typed, NEW j \in Jobs \union {NoJob}, CancelAI(j)
  PROVE  JL!Next \/ UNCHANGED <<status, taskOf>>
<1>1. CASE j = NoJob
  BY <1>1 DEF CancelAI
<1>2. CASE j # NoJob
  <2>1. status' = [i \in Jobs |-> IF i \in {j} THEN CancelStatus(status[i]) ELSE status[i]]
    BY <1>2 DEF CancelAI, Typed, JobTypes
  <2>2. JL!Cancel({j})
    BY <2>1 DEF CancelAI, JL!Cancel, CancelStatus, JL!CancelStatus
  <2>3. {j} \in SUBSET Jobs
    BY <1>2
  <2>4. QED
    BY <2>2, <2>3 DEF JL!Next
<1>3. QED
  BY <1>1, <1>2

\* So is what Advance queues.
LEMMA AdvanceIsLifecycle ==
  ASSUME Typed, NEW s, s.task \in Tasks, NEW seen, NEW independent \in BOOLEAN,
         AdvanceError(s, seen, TRUE, independent) = "none", NEW j \in NextJob, NEW req,
         AdvanceToQueued(s, j, req)
  PROVE  JL!Next
<1>1. ActiveJobs(s.task) = {}
  BY AdvanceChecks
<1>2. Insert(j, s.task, req)
  BY DEF AdvanceToQueued
<1>3. QED
  BY <1>1, <1>2, InsertIsLifecycle

\* Every action is a step of JobLifecycle or leaves the queue as it is.
LEMMA LifecycleStep == CInv /\ [Next]_vars => [JL!Next]_JL!vars
<1> DEFINE Goal == JL!Next \/ UNCHANGED <<status, taskOf>>
<1> SUFFICES ASSUME CInv, [Next]_vars PROVE Goal
  BY DEF JL!vars
<1>1. /\ status \in [Jobs -> Statuses] /\ \A u \in Tasks : row[u] \in Rows
      /\ Typed /\ worker \in WorkerType
  BY DEF CInv, Typed, JobTypes, RowTypes
<1>2. CASE UserStep
  <2>1. CASE \E p \in Projects, S \in SUBSET Tasks : ReleaseTasks(p, S)
    <3>1. PICK p \in Projects, S \in SUBSET Tasks : ReleaseTasks(p, S)
      BY <2>1
    <3> DEFINE chosen == {t \in S : row[t].state # "none" /\ row[t].project = p}
               owned == {row[t].job : t \in chosen}
    <3>2. status' = [j \in Jobs |-> IF j \in owned \intersect Jobs THEN CancelStatus(status[j])
                                    ELSE status[j]]
      BY <3>1 DEF ReleaseTasks
    <3>3. UNCHANGED taskOf
      BY <3>1 DEF ReleaseTasks
    <3>4. JL!Cancel(owned \intersect Jobs)
      BY <3>2, <3>3 DEF JL!Cancel, CancelStatus, JL!CancelStatus
    <3>5. QED
      BY <3>4 DEF JL!Next
  <2>2. CASE \E t \in Tasks : StartManualRun(t)
    BY <1>1, <2>2, InsertIsLifecycle DEF StartManualRun, Unowned
  <2>3. CASE \E j \in Jobs : CancelRun(j)
    BY <1>1, <2>3, CancelIsLifecycle DEF CancelRun
  <2>4. CASE \E c \in Calls : ResumeCommit(c)
    <3>1. PICK c \in Calls : ResumeCommit(c)
      BY <2>4
    <3> DEFINE t == call[c].snap.task
    <3>2. t \in Tasks
      BY <3>1 DEF ResumeCommit, CInv, Typed, CallTypes, NoCall, CallReads, Snapshots
    <3>3. \/ UNCHANGED queue
          \/ ActiveJobs(t) = {} /\ \E j \in NextJob, req \in {[kind |-> "independent",
                 content |-> call[c].seen.content, key |-> row[t].key]} : Insert(j, t, req)
      BY <3>1 DEF ResumeCommit, Unowned
    <3>4. QED
      BY <1>1, <3>2, <3>3, InsertIsLifecycle DEF queue
  <2>5. CASE UNCHANGED <<status, taskOf>>
    BY <2>5
  <2>6. \/ \E p \in Projects, S \in SUBSET Tasks : ReleaseTasks(p, S)
        \/ \E t \in Tasks : StartManualRun(t)
        \/ \E j \in Jobs : CancelRun(j)
        \/ \E c \in Calls : ResumeCommit(c)
        \/ UNCHANGED <<status, taskOf>>
    BY <1>2 DEF UserStep, Send, Recheck, Handoff, EditTask, EditProject, ResumeRead, queue
  <2>7. QED
    BY <2>1, <2>2, <2>3, <2>4, <2>5, <2>6
<1>3. CASE ToolStep
  <2>1. CASE \E c \in Calls : StartCommit(c)
    <3>1. PICK c \in Calls : StartCommit(c)
      BY <2>1
    <3>2. call[c].snap.task \in Tasks
      BY <3>1 DEF StartCommit, CInv, Typed, CallTypes, NoCall, CallReads, Snapshots
    <3>3. QED
      BY <1>1, <3>1, <3>2, AdvanceIsLifecycle DEF StartCommit, queue
  <2>2. CASE UNCHANGED <<status, taskOf>>
    BY <2>2
  <2>3. (\E c \in Calls : StartCommit(c)) \/ UNCHANGED <<status, taskOf>>
    BY <1>3 DEF ToolStep, StartRead, DeferTask, queue
  <2>4. QED
    BY <2>1, <2>2, <2>3
<1>4. CASE WorkerStep
  <2>1. CASE TickAdvance
    <3>1. PICK s \in worker.current, seen \in worker.seen :
             \/ UNCHANGED queue
             \/ /\ AdvanceError(s, seen, TRUE, TRUE) = "none"
                /\ \E j \in NextJob :
                      AdvanceToQueued(s, j, [kind |-> "independent", content |-> seen.content,
                                             key |-> s.row.key])
      <4>1. PICK s \in worker.current, seen \in worker.seen :
               LET starting == worker.to = "queued"
                   err == AdvanceError(s, seen, starting, TRUE)
               IN \/ /\ err = "none" /\ starting
                     /\ \E j \in NextJob :
                          AdvanceToQueued(s, j, [kind |-> "independent",
                                                 content |-> seen.content,
                                                 key |-> s.row.key])
                  \/ UNCHANGED queue
        BY <2>1 DEF TickAdvance, AdvanceToResult
      <4>2. CASE worker.to = "queued"
        <5>1. (worker.to = "queued") = TRUE
          BY <4>2
        <5>2. QED
          BY <4>1, <5>1
      <4>3. CASE worker.to # "queued"
        BY <4>1, <4>3
      <4>4. QED
        BY <4>2, <4>3
    <3>2. s.task \in Tasks
      BY <1>1 DEF WorkerType, Snapshots
    <3>3. QED
      BY <1>1, <3>1, <3>2, AdvanceIsLifecycle DEF queue
  <2>2. CASE TickCancel
    <3>1. PICK s \in worker.current : CancelAI(s.row.job)
      BY <2>2 DEF TickCancel
    <3>2. s.row.job \in Jobs \union {NoJob}
      BY <1>1 DEF WorkerType, Snapshots, Rows
    <3>3. QED
      BY <1>1, <3>1, <3>2, CancelIsLifecycle
  <2>3. CASE ClaimNext
    <3>1. UNCHANGED taskOf
      BY <2>3 DEF ClaimNext
    <3>2. ASSUME NEW j \in Jobs, Claimable(j), status' = [status EXCEPT ![j] = "claimed"]
          PROVE  JL!Next
      <4>1. JL!Claim(j)
        BY <3>1, <3>2 DEF Claimable, JL!Claim, JL!Move
      <4>2. QED
        BY <4>1 DEF JL!Next
    <3>3. QED
      BY <2>3, <3>1, <3>2 DEF ClaimNext
  <2>4. CASE BeginManual
    <3>1. worker.job \in Jobs
      BY <2>4, HeldJob DEF BeginManual, Holding
    <3>2. UNCHANGED <<status, taskOf>> \/ JL!Start(worker.job)
      BY <2>4 DEF BeginManual, JL!Start, JL!Move
    <3>3. QED
      BY <3>1, <3>2 DEF JL!Next
  <2>5. CASE BeginJob
    <3>1. worker.job \in Jobs
      BY <2>5, HeldJob DEF BeginJob, Holding
    <3>2. \/ UNCHANGED <<status, taskOf>>
          \/ JL!Start(worker.job)
          \/ JL!Return(worker.job)
      BY <2>5 DEF BeginJob, ReturnToQueue, JL!Start, JL!Return, JL!Move
    <3>3. QED
      BY <3>1, <3>2 DEF JL!Next
  <2>6. CASE RejectCancel
    BY <1>1, <2>6, CancelIsLifecycle DEF RejectCancel, WorkerType
  <2>7. CASE FinishAI
    <3> DEFINE j == worker.job
    <3>1. j \in Jobs /\ j # NoJob /\ JobOver(j) /\ worker.to \in Verdicts
      BY <2>7, HeldJob DEF FinishAI, Holding, Executing, CInv, PlaceFits, Jobs, NoJob
    <3>2. UNCHANGED taskOf
      BY <2>7 DEF FinishAI
    <3>3. CASE status[j] \in InFlight
      <4>1. status' = [status EXCEPT ![j] = FinishStatus(@, worker.to)]
        BY <2>7, <3>3 DEF FinishAI
      <4>2. status[j] \in {"running", "canceling"}
        BY <3>1, <3>3 DEF JobOver, InFlight
      <4>3. CASE status[j] = "canceling"
        <5>1. JL!Stop(j, "canceled")
          BY <3>1, <3>2, <4>1, <4>3, <1>1 DEF FinishStatus, JL!Stop, JL!Move
        <5>2. QED
          BY <3>1, <5>1 DEF JL!Next
      <4>4. CASE status[j] = "running" /\ worker.to = "completed"
        <5>1. JL!Complete(j)
          BY <3>1, <3>2, <4>1, <4>4, <1>1 DEF FinishStatus, JL!Complete, JL!Move
        <5>2. QED
          BY <3>1, <5>1 DEF JL!Next
      <4>5. CASE status[j] = "running" /\ worker.to # "completed"
        <5>1. JL!Stop(j, worker.to)
          BY <3>1, <3>2, <4>1, <4>5, <1>1 DEF FinishStatus, JL!Stop, JL!Move
        <5>2. worker.to \in {"failed", "canceled", "interrupted"}
          BY <3>1, <4>5 DEF Verdicts
        <5>3. QED
          BY <3>1, <5>1, <5>2 DEF JL!Next
      <4>6. QED
        BY <4>2, <4>3, <4>4, <4>5
    <3>4. CASE status[j] \notin InFlight
      BY <2>7, <3>2, <3>4 DEF FinishAI
    <3>5. QED
      BY <3>3, <3>4
  <2>8. CASE UNCHANGED <<status, taskOf>>
    BY <2>8
  <2>9. \/ TickAdvance \/ TickCancel \/ ClaimNext \/ BeginManual \/ BeginJob \/ RejectCancel
        \/ FinishAI \/ UNCHANGED <<status, taskOf>>
    BY <1>4 DEF WorkerStep, TickStart, TickRead, TickNext, TickDecide, TickSet, RejectSet,
                HarnessReturns, FinishRead, DispatchRead, DispatchOffer, DispatchReturns,
                HoldCandidate, Tables, queue
  <2>10. QED
    BY <2>1, <2>2, <2>3, <2>4, <2>5, <2>6, <2>7, <2>8, <2>9
<1>5. CASE WatchOwner
  BY <1>1, <1>5, CancelIsLifecycle DEF WatchOwner, WorkerType
<1>6. CASE Start
  <2>1. JL!Interrupt
    BY <1>6 DEF Start, InFlight, JL!Interrupt, JL!InFlight
  <2>2. QED
    BY <2>1 DEF JL!Next
<1>7. CASE StopDuringRun \/ Crash \/ UNCHANGED vars
  BY <1>7 DEF StopDuringRun, Crash, vars, Tables, queue
<1>8. QED
  BY <1>2, <1>3, <1>4, <1>5, <1>6, <1>7 DEF Next

\* The queue that users, dispatcher, worker and crashes share in Conductor is
\* the queue that JobLifecycle promises.
THEOREM ConductorRefinement == Spec => ImplementsLifecycle
<1>1. Init => JL!Init
  BY DEF Init, JL!Init
<1>2. QED
  BY <1>1, ConductorInvariance, LifecycleStep, PTL DEF Spec, ImplementsLifecycle, JL!Spec

-----------------------------------------------------------------------------
(* Selection turns are paid for *)

\* What the selection turn works on, or what it may yet be begun with, and what
\* waits: a turn is for the rows of one handoff in one project.
Turning == {"select", "hold"}
Offered == IF worker.pc \in Dispatching THEN worker.rows ELSE {}
Turns == Keys \X (Projects \union {"none"})
Turn(r) == <<r.key, r.project>>
TurnsOf(S) == {Turn(s.row) : s \in S}
WaitingTurns == {Turn(row[t]) : t \in {u \in Tasks : row[u].state = "waiting"}}

\* What is offered of a handoff in a project is all that waits of it, as read.
OfferedFit ==
    /\ \A s \in Offered : s.row.key <= nextKey
    /\ worker.pc = "offer" => worker.current \subseteq worker.rows
    /\ \A t \in Tasks : row[t].state = "waiting" /\ Turn(row[t]) \in TurnsOf(Offered)
          => [task |-> t, row |-> row[t]] \in Offered

\* A handoff that waits, or may still be offered, has not paid for a turn. The
\* turn under way is paid for by what it was offered, or, if it is cut short,
\* by the crash.
TurnsFit ==
    /\ worker.pc \notin Turning =>
          nextDispatch + Cardinality(WaitingTurns \union TurnsOf(Offered)) <= paid + downs
    /\ worker.pc \in Turning =>
          /\ nextDispatch + Cardinality(WaitingTurns \ TurnsOf(Offered)) <= paid + downs
          /\ nextDispatch + Cardinality(WaitingTurns) <= paid + downs + 1

PaidInv == OfferedFit /\ TurnsFit

LEMMA TurnsFinite == IsFiniteSet(Turns)
<1>1. MaxHandoffs \in Nat
  BY BoundsAssumption
<1>2. IsFiniteSet(Keys)
  BY <1>1, FS_Interval DEF Keys
<1>3. IsFiniteSet(Projects \union {"none"})
  BY ProjectsFinite
<1>. QED
  BY <1>2, <1>3, FS_Product DEF Turns

\* A smaller set of turns has fewer.
LEMMA FewerTurns ==
  ASSUME NEW B \in SUBSET Turns, NEW A \in SUBSET B
  PROVE  /\ Cardinality(A) \in Nat /\ Cardinality(B) \in Nat
         /\ Cardinality(A) <= Cardinality(B)
         /\ \A k \in B \ A : Cardinality(A) + 1 <= Cardinality(B)
<1>1. IsFiniteSet(B)
  BY TurnsFinite, FS_Subset
<1>2. /\ IsFiniteSet(A) /\ Cardinality(A) \in Nat /\ Cardinality(B) \in Nat
      /\ Cardinality(A) <= Cardinality(B)
  BY <1>1, FS_Subset, FS_CardinalityType
<1>3. ASSUME NEW k \in B \ A PROVE Cardinality(A) + 1 <= Cardinality(B)
  <2>1. Cardinality(A \union {k}) = Cardinality(A) + 1
    BY <1>2, <1>3, FS_AddElement
  <2>2. A \union {k} \in SUBSET B
    BY <1>3
  <2>3. Cardinality(A \union {k}) <= Cardinality(B)
    BY <1>1, <2>2, FS_Subset
  <2>. QED
    BY <2>1, <2>3
<1>. QED
  BY <1>2, <1>3

\* A set that grows by N grows by no more than N has.
LEMMA MoreTurns ==
  ASSUME NEW A \in SUBSET Turns, NEW B \in SUBSET Turns, NEW N \in SUBSET Turns,
         A \subseteq B \union N
  PROVE  Cardinality(A) <= Cardinality(B) + Cardinality(N)
<1>1. IsFiniteSet(A) /\ IsFiniteSet(B) /\ IsFiniteSet(N) /\ IsFiniteSet(B \cap N)
      /\ IsFiniteSet(B \union N)
  BY TurnsFinite, FS_Subset
<1>2. {Cardinality(A), Cardinality(B), Cardinality(N), Cardinality(B \cap N),
       Cardinality(B \union N)} \subseteq Nat
  BY <1>1, FS_CardinalityType
<1>3. Cardinality(B \union N) = Cardinality(B) + Cardinality(N) - Cardinality(B \cap N)
  BY <1>1, FS_Union
<1>4. Cardinality(A) <= Cardinality(B \union N)
  BY <1>1, FS_Subset
<1>. QED
  BY <1>2, <1>3, <1>4

LEMMA TurnsTyped ==
  ASSUME CInv
  PROVE  /\ WaitingTurns \in SUBSET Turns /\ TurnsOf(Offered) \in SUBSET Turns
         /\ nextDispatch \in Nat /\ nextKey \in Nat /\ downs \in Nat /\ paid \in Nat
         /\ \A k \in Keys : k \in Nat
<1>1. /\ row \in [Tasks -> Rows] /\ worker.rows \in SUBSET Snapshots
      /\ nextDispatch \in Nat /\ nextKey \in Keys /\ downs \in 0 .. MaxDowns /\ paid \in Nat
  BY DEF CInv, Typed, RowTypes, WorkerType, CountTypes
<1>2. MaxDowns \in Nat /\ MaxHandoffs \in Nat
  BY BoundsAssumption
<1>3. \A r \in Rows : Turn(r) \in Turns
  BY DEF Turn, Turns, Rows
<1>4. WaitingTurns \in SUBSET Turns
  BY <1>1, <1>3 DEF WaitingTurns
<1>5. TurnsOf(Offered) \in SUBSET Turns
  BY <1>1, <1>3 DEF TurnsOf, Offered, Snapshots
<1>. QED
  BY <1>1, <1>2, <1>4, <1>5 DEF Keys

\* No row begins to wait, or waits for something else.
RowEvolves(t) == row'[t].state = "waiting" => row'[t] = row[t]
RowsEvolve == (\A t \in Tasks : RowEvolves(t)) /\ UNCHANGED <<nextKey, paid>>

LEMMA WaitingStays ==
  ASSUME RowsEvolve
  PROVE  /\ WaitingTurns' \subseteq WaitingTurns
         /\ \A t \in Tasks : row'[t].state = "waiting" => row'[t] = row[t]
<1>1. \A t \in Tasks : row'[t].state = "waiting" => row'[t] = row[t]
  BY DEF RowsEvolve, RowEvolves
<1>2. \A t \in Tasks : row'[t] = row[t] => Turn(row'[t]) = Turn(row[t])
  OBVIOUS
<1>. QED
  BY <1>1, <1>2 DEF WaitingTurns

\* A step that neither offers anything nor begins or ends a turn.
LEMMA SameTurn ==
  ASSUME CInv, CInv', PaidInv, RowsEvolve, Offered' = Offered, nextDispatch' = nextDispatch,
         worker'.pc \in Turning <=> worker.pc \in Turning, downs' >= downs,
         worker'.pc = "offer" => worker'.current \subseteq worker'.rows
  PROVE  PaidInv'
<1>. USE DEF PaidInv
<1>1. /\ WaitingTurns' \subseteq WaitingTurns
      /\ \A t \in Tasks : row'[t].state = "waiting" => row'[t] = row[t]
  BY WaitingStays
<1>2. nextKey' = nextKey /\ paid' = paid
  BY DEF RowsEvolve
<1>3. OfferedFit'
  BY <1>1, <1>2 DEF OfferedFit, TurnsOf, Turn
<1>. DEFINE Had == TurnsOf(Offered)
<1>4. TurnsOf(Offered)' = Had
  BY DEF TurnsOf
<1>5. /\ WaitingTurns \in SUBSET Turns /\ Had \in SUBSET Turns
      /\ nextDispatch \in Nat /\ paid \in Nat /\ downs \in Nat /\ downs' \in Nat
  <2>1. downs' \in 0 .. MaxDowns /\ MaxDowns \in Nat
    BY BoundsAssumption DEF CInv, Typed, CountTypes
  <2>. QED
    BY <2>1, TurnsTyped
<1>. HIDE DEF Had
<1>6. /\ Cardinality(WaitingTurns' \union Had) <= Cardinality(WaitingTurns \union Had)
      /\ Cardinality(WaitingTurns' \ Had) <= Cardinality(WaitingTurns \ Had)
      /\ Cardinality(WaitingTurns') <= Cardinality(WaitingTurns)
      /\ {Cardinality(WaitingTurns' \union Had), Cardinality(WaitingTurns \union Had),
          Cardinality(WaitingTurns' \ Had), Cardinality(WaitingTurns \ Had),
          Cardinality(WaitingTurns'), Cardinality(WaitingTurns)} \subseteq Nat
  <2>1. WaitingTurns \union Had \in SUBSET Turns /\ WaitingTurns' \union Had \in SUBSET (WaitingTurns \union Had)
    BY <1>1, <1>5
  <2>2. WaitingTurns \ Had \in SUBSET Turns /\ WaitingTurns' \ Had \in SUBSET (WaitingTurns \ Had)
    BY <1>1, <1>5
  <2>3. Cardinality(WaitingTurns' \union Had) <= Cardinality(WaitingTurns \union Had)
        /\ Cardinality(WaitingTurns' \union Had) \in Nat /\ Cardinality(WaitingTurns \union Had) \in Nat
    BY <2>1, FewerTurns
  <2>4. Cardinality(WaitingTurns' \ Had) <= Cardinality(WaitingTurns \ Had)
        /\ Cardinality(WaitingTurns' \ Had) \in Nat /\ Cardinality(WaitingTurns \ Had) \in Nat
    BY <2>2, FewerTurns
  <2>5. Cardinality(WaitingTurns') <= Cardinality(WaitingTurns)
        /\ Cardinality(WaitingTurns') \in Nat /\ Cardinality(WaitingTurns) \in Nat
    BY <1>1, <1>5, FewerTurns
  <2>. QED
    BY <2>3, <2>4, <2>5
<1>7. TurnsFit'
  <2>1. CASE worker.pc \notin Turning
    <3>1. nextDispatch + Cardinality(WaitingTurns \union Had) <= paid + downs
      BY <2>1 DEF TurnsFit, Had
    <3>2. nextDispatch' + Cardinality(WaitingTurns' \union Had) <= paid' + downs'
      BY <3>1, <1>2, <1>5, <1>6
    <3>. QED
      BY <2>1, <3>2, <1>4 DEF TurnsFit
  <2>2. CASE worker.pc \in Turning
    <3>1. /\ nextDispatch + Cardinality(WaitingTurns \ Had) <= paid + downs
          /\ nextDispatch + Cardinality(WaitingTurns) <= paid + downs + 1
      BY <2>2 DEF TurnsFit, Had
    <3>2. /\ nextDispatch' + Cardinality(WaitingTurns' \ Had) <= paid' + downs'
          /\ nextDispatch' + Cardinality(WaitingTurns') <= paid' + downs' + 1
      BY <3>1, <1>2, <1>5, <1>6
    <3>. QED
      BY <2>2, <3>2, <1>4 DEF TurnsFit
  <2>. QED
    BY <2>1, <2>2
<1>. QED
  BY <1>3, <1>7

\* SetState keeps a row's handoff.
LEMMA SetStateEvolves ==
  ASSUME CInv, NEW s \in Snapshots, NEW to \in Parked, s.row.state # "none", SetState(s, to)
  PROVE  \A t \in Tasks : RowEvolves(t)
<1>1. row \in [Tasks -> Rows] /\ s.task \in Tasks
  BY DEF CInv, Typed, RowTypes, Snapshots
<1>2. to # "none" /\ to # "waiting"
  BY DEF Parked
<1>3. CASE row' = row
  BY <1>3 DEF RowEvolves
<1>4. CASE /\ row[s.task].state = s.row.state
           /\ row' = [row EXCEPT ![s.task].state = to]
  <2>1. /\ \A t \in Tasks \ {s.task} : row'[t] = row[t]
        /\ row'[s.task].state = to /\ row'[s.task].key = row[s.task].key
        /\ row'[s.task].project = row[s.task].project
    BY <1>1, <1>4 DEF Rows
  <2>. QED
    BY <1>2, <1>4, <2>1 DEF RowEvolves
<1>. QED
  BY <1>3, <1>4 DEF SetState

\* So do the other updates of a row's state, job and stage.
LEMMA UpdateEvolves ==
  ASSUME CInv, NEW t \in Tasks, row[t].state # "none",
         NEW to \in RowStates \ {"none", "waiting"}, NEW j, NEW s,
         row' = [row EXCEPT ![t].state = to, ![t].job = j, ![t].expected = s]
  PROVE  \A u \in Tasks : RowEvolves(u)
<1>1. row \in [Tasks -> Rows]
  BY DEF CInv, Typed, RowTypes
<1>2. /\ \A u \in Tasks \ {t} : row'[u] = row[u]
      /\ row'[t].state = to /\ row'[t].key = row[t].key /\ row'[t].project = row[t].project
  BY <1>1 DEF Rows
<1>. QED
  BY <1>2 DEF RowEvolves

\* What the reconciler and the selection remember are rows that reserved.
LEMMA RememberedRow ==
  ASSUME CInv, NEW s \in Reads
  PROVE  s \in Snapshots /\ s.task \in Tasks /\ s.row.state # "none" /\ s.row.state \in Reserving
  BY DEF CInv, Typed, WorkerType, ReadsFit, Reads, Snapshots, Reserving

\* Every step but a handoff leaves no row waiting that did not wait before.
LEMMA EvolvesUser ==
  ASSUME CInv, UserStep, ~(\E p \in Projects, S \in SUBSET Tasks : Send(p, S) \/ Recheck(p, S))
  PROVE  RowsEvolve
<1>0. row \in [Tasks -> Rows]
  BY DEF CInv, Typed, RowTypes
<1>1. ASSUME NEW p \in Projects, NEW S \in SUBSET Tasks, ReleaseTasks(p, S) PROVE RowsEvolve
  <2>1. \A t \in Tasks : row'[t] = NoRow \/ row'[t] = row[t]
    BY <1>1 DEF ReleaseTasks
  <2>. QED
    BY <1>1, <2>1, NoRowType DEF RowsEvolve, RowEvolves, ReleaseTasks, taskVars, counters
<1>2. ASSUME NEW t \in Tasks, EditTask(t) PROVE RowsEvolve
  BY <1>2 DEF RowsEvolve, RowEvolves, EditTask
<1>3. ASSUME NEW t \in Tasks, StartManualRun(t) PROVE RowsEvolve
  BY <1>3 DEF RowsEvolve, RowEvolves, StartManualRun, taskVars, counters
<1>4. ASSUME NEW p \in Projects, EditProject(p) PROVE RowsEvolve
  BY <1>4 DEF RowsEvolve, RowEvolves, EditProject, taskVars, counters
<1>5. ASSUME NEW j \in Jobs, CancelRun(j) PROVE RowsEvolve
  BY <1>5 DEF RowsEvolve, RowEvolves, CancelRun, taskVars, counters
<1>6. ASSUME NEW c \in Calls, NEW t \in Tasks, ResumeRead(c, t) PROVE RowsEvolve
  BY <1>6 DEF RowsEvolve, RowEvolves, ResumeRead, taskVars, counters
<1>7. ASSUME NEW c \in Calls, ResumeCommit(c) PROVE RowsEvolve
  <2>. DEFINE t == call[c].snap.task
  <2>1. UNCHANGED <<nextKey, paid>>
    BY <1>7 DEF ResumeCommit, counters
  <2>2. CASE row' = row
    BY <2>1, <2>2 DEF RowsEvolve, RowEvolves
  <2>3. ASSUME row' # row PROVE RowsEvolve
    <3>1. PICK j \in NextJob :
             row' = [row EXCEPT ![t] = [state |-> "queued", job |-> j, expected |-> WorkingStage,
                       project |-> IF row[t].state = "none" THEN call[c].seen.project ELSE row[t].project,
                       key |-> row[t].key]]
      BY <1>7, <2>3 DEF ResumeCommit
    <3>2. \A u \in Tasks : u # t => row'[u] = row[u]
      BY <1>0, <3>1
    <3>3. t \in Tasks => row'[t].state = "queued"
      BY <1>0, <3>1
    <3>4. \A u \in Tasks : RowEvolves(u)
      BY <3>2, <3>3 DEF RowEvolves
    <3>. QED
      BY <2>1, <3>4 DEF RowsEvolve
  <2>. QED
    BY <2>2, <2>3
<1>. QED
  BY <1>1, <1>2, <1>3, <1>4, <1>5, <1>6, <1>7 DEF UserStep

LEMMA EvolvesTool == ASSUME CInv, ToolStep PROVE RowsEvolve
<1>0. row \in [Tasks -> Rows]
  BY DEF CInv, Typed, RowTypes
<1>1. ASSUME NEW c \in Calls, NEW t \in Tasks, NEW d \in dispatches, StartRead(c, t, d.id) PROVE RowsEvolve
  BY <1>1 DEF RowsEvolve, RowEvolves, StartRead, taskVars, counters
<1>2. ASSUME NEW c \in Calls, StartCommit(c) PROVE RowsEvolve
  <2>. DEFINE snap == call[c].snap
  <2>1. UNCHANGED <<nextKey, paid>>
    BY <1>2 DEF StartCommit, AdvanceToQueued, taskVars, counters
  <2>2. CASE row' = row
    BY <2>1, <2>2 DEF RowsEvolve, RowEvolves
  <2>3. ASSUME row' # row PROVE RowsEvolve
    <3>1. AdvanceError(snap, call[c].seen, TRUE, FALSE) = "none"
      BY <1>2, <2>3 DEF StartCommit
    <3>2. PICK j \in NextJob :
             row' = [row EXCEPT ![snap.task].state = "queued", ![snap.task].job = j,
                                ![snap.task].expected = WorkingStage]
      BY <1>2, <2>3 DEF StartCommit, AdvanceToQueued
    <3>3. call[c].kind = "start" /\ call[c] \in CallReads /\ snap.task \in Tasks
          /\ snap.row.state = "waiting"
      BY <1>2 DEF StartCommit, CInv, Typed, CallTypes, CallsFit, NoCall, CallReads, Snapshots
    <3>4. row[snap.task].state = "waiting"
      BY <3>1, <3>3 DEF AdvanceError
    <3>5. \A u \in Tasks : RowEvolves(u)
      BY <3>2, <3>3, <3>4, UpdateEvolves DEF RowStates, Reserving
    <3>. QED
      BY <2>1, <3>5 DEF RowsEvolve
  <2>. QED
    BY <2>2, <2>3
<1>3. ASSUME NEW t \in Tasks, NEW d \in dispatches, DeferTask(t, d.id) PROVE RowsEvolve
  <2>1. /\ \A u \in Tasks \ {t} : row'[u] = row[u]
        /\ row'[t].state = "needs_context" /\ row'[t].key = row[t].key
        /\ row'[t].project = row[t].project /\ row[t].state = "waiting"
    BY <1>0, <1>3 DEF DeferTask, Rows
  <2>2. \A u \in Tasks : RowEvolves(u)
    BY <2>1 DEF RowEvolves
  <2>. QED
    BY <1>3, <2>2 DEF RowsEvolve, DeferTask, taskVars, counters
<1>. QED
  BY <1>1, <1>2, <1>3 DEF ToolStep

\* The reconciler.
LEMMA EvolvesTick ==
  ASSUME CInv, TickStart \/ TickRead \/ TickNext \/ TickDecide \/ TickAdvance \/ TickCancel \/ TickSet
  PROVE  RowsEvolve
<1>0. row \in [Tasks -> Rows]
  BY DEF CInv, Typed, RowTypes
<1>1. CASE TickStart
  <2>1. \A t \in Tasks : row'[t] = NoRow \/ row'[t] = row[t]
    BY <1>1 DEF TickStart, ReleaseReviewed
  <2>. QED
    BY <1>1, <2>1, NoRowType DEF RowsEvolve, RowEvolves, TickStart, taskVars, Elsewhere, counters
<1>2. CASE TickRead \/ TickNext \/ TickDecide \/ TickCancel
  BY <1>2 DEF RowsEvolve, RowEvolves, TickRead, TickNext, TickDecide, TickCancel, Tables, taskVars,
              Elsewhere, counters
<1>3. CASE TickSet
  <2>1. PICK s \in worker.current : SetState(s, worker.to)
    BY <1>3 DEF TickSet
  <2>2. s \in Snapshots /\ s.row.state # "none"
    BY RememberedRow DEF Reads
  <2>3. worker.to \in Parked
    BY <1>3 DEF TickSet, CInv, PlaceFits
  <2>4. \A t \in Tasks : RowEvolves(t)
    BY <2>1, <2>2, <2>3, SetStateEvolves
  <2>. QED
    BY <1>3, <2>4 DEF RowsEvolve, TickSet, taskVars, Elsewhere, counters
<1>4. CASE TickAdvance
  <2>1. UNCHANGED <<nextKey, paid>>
    BY <1>4 DEF TickAdvance, AdvanceToQueued, AdvanceToResult, taskVars, Elsewhere, counters
  <2>2. CASE row' = row
    BY <2>1, <2>2 DEF RowsEvolve, RowEvolves
  <2>3. ASSUME row' # row PROVE RowsEvolve
    <3>1. PICK s \in worker.current, seen \in worker.seen :
             /\ AdvanceError(s, seen, worker.to = "queued", TRUE) = "none"
             /\ \/ \E j \in NextJob : AdvanceToQueued(s, j, [kind |-> "independent",
                                                    content |-> seen.content, key |-> s.row.key])
                \/ \E stg : worker.to # "queued" /\ AdvanceToResult(s, worker.to, stg)
      BY <1>4, <2>3 DEF TickAdvance
    <3>2. s.task \in Tasks /\ s.row.state # "none"
      BY RememberedRow DEF Reads
    <3>3. row[s.task].state # "none"
      BY <3>1, <3>2 DEF AdvanceError
    <3>4. worker.to \in {"queued", "completed", "needs_context"}
      BY <1>4 DEF TickAdvance, CInv, PlaceFits
    <3>5. CASE \E j \in NextJob : row' = [row EXCEPT ![s.task].state = "queued", ![s.task].job = j,
                                                   ![s.task].expected = WorkingStage]
      <4>1. \A u \in Tasks : RowEvolves(u)
        BY <3>2, <3>3, <3>5, UpdateEvolves DEF RowStates, Reserving
      <4>. QED
        BY <2>1, <4>1 DEF RowsEvolve
    <3>6. ASSUME NEW stg, row' = [row EXCEPT ![s.task].state = worker.to, ![s.task].expected = stg]
          PROVE  RowsEvolve
      <4>1. /\ \A u \in Tasks \ {s.task} : row'[u] = row[u]
            /\ row'[s.task].state = worker.to
        BY <1>0, <3>2, <3>6 DEF Rows
      <4>2. \A u \in Tasks : RowEvolves(u)
        BY <3>3, <3>4, <4>1 DEF RowEvolves
      <4>. QED
        BY <2>1, <4>2 DEF RowsEvolve
    <3>. QED
      BY <3>1, <3>5, <3>6 DEF AdvanceToQueued, AdvanceToResult
  <2>. QED
    BY <2>2, <2>3
<1>. QED
  BY <1>1, <1>2, <1>3, <1>4

\* Claim, start, execute and finish, a stop, a crash and a start.
LEMMA EvolvesRun ==
  ASSUME CInv,
         \/ ClaimNext \/ BeginManual \/ BeginJob \/ RejectCancel \/ RejectSet
         \/ \E o \in {"done", "blocker", "malformed", "error"} : HarnessReturns(o)
         \/ FinishRead \/ FinishAI \/ WatchOwner \/ StopDuringRun \/ Crash \/ Start
  PROVE  RowsEvolve
<1>0. row \in [Tasks -> Rows]
  BY DEF CInv, Typed, RowTypes
<1>1. CASE BeginJob
  <2>. DEFINE t == taskOf[worker.job]
  <2>1. UNCHANGED <<nextKey, paid>>
    BY <1>1 DEF BeginJob, Elsewhere, counters
  <2>2. CASE row' = row
    BY <2>1, <2>2 DEF RowsEvolve, RowEvolves
  <2>3. ASSUME row' # row PROVE RowsEvolve
    <3>1. row[t].state = "queued"
          /\ row' = [row EXCEPT ![t].state = "working", ![t].expected = WorkingStage]
      BY <1>1, <2>3 DEF BeginJob
    <3>2. \A u \in Tasks : u # t => row'[u] = row[u]
      BY <1>0, <3>1
    <3>3. t \in Tasks => /\ row'[t].state = "working" /\ row'[t].key = row[t].key
                         /\ row'[t].project = row[t].project
      BY <1>0, <3>1 DEF Rows
    <3>4. \A u \in Tasks : RowEvolves(u)
      BY <3>1, <3>2, <3>3 DEF RowEvolves
    <3>. QED
      BY <2>1, <3>4 DEF RowsEvolve
  <2>. QED
    BY <2>2, <2>3
<1>2. CASE RejectSet
  <2>. DEFINE s == [task |-> taskOf[worker.job],
                    row |-> [NoRow EXCEPT !.state = "queued", !.job = worker.job]]
  <2>1. SetState(s, worker.to) /\ worker.to \in Parked
    BY <1>2 DEF RejectSet, CInv, PlaceFits
  <2>2. taskOf[worker.job] \in Tasks /\ worker.job \in Jobs
    BY <1>2 DEF RejectSet, CInv, PlaceFits, Holding, Queue, JobsFit, Typed, WorkerType
  <2>3. s \in Snapshots /\ s.row.state # "none"
    BY <2>2, NoRowType DEF Snapshots, Rows, NoRow, RowStates, Reserving
  <2>4. \A t \in Tasks : RowEvolves(t)
    BY <2>1, <2>3, SetStateEvolves
  <2>. QED
    BY <1>2, <2>4 DEF RowsEvolve, RejectSet, taskVars, Elsewhere, counters
<1>3. CASE ClaimNext \/ BeginManual \/ RejectCancel \/ FinishRead \/ FinishAI
  BY <1>3 DEF RowsEvolve, RowEvolves, ClaimNext, BeginManual, RejectCancel, FinishRead, FinishAI,
              Tables, taskVars, Elsewhere, counters
<1>4. ASSUME NEW o \in {"done", "blocker", "malformed", "error"}, HarnessReturns(o) PROVE RowsEvolve
  BY <1>4 DEF RowsEvolve, RowEvolves, HarnessReturns, Tables, taskVars, Elsewhere, counters
<1>5. CASE WatchOwner \/ StopDuringRun \/ Crash \/ Start
  BY <1>5 DEF RowsEvolve, RowEvolves, WatchOwner, StopDuringRun, Crash, Start,
              Tables, taskVars, Elsewhere, counters
<1>. QED
  BY <1>1, <1>2, <1>3, <1>4, <1>5

\* The selection turn.
LEMMA EvolvesTurn ==
  ASSUME CInv,
         DispatchRead \/ DispatchOffer \/ HoldCandidate \/ (\E ok \in BOOLEAN : DispatchReturns(ok))
  PROVE  RowsEvolve
<1>1. CASE DispatchRead
  BY <1>1 DEF RowsEvolve, RowEvolves, DispatchRead, Tables, taskVars, Elsewhere, counters
<1>2. CASE DispatchOffer
  <2>1. UNCHANGED <<nextKey, paid>>
    BY <1>2 DEF DispatchOffer, taskVars
  <2>2. row' = row \/ \E s \in worker.current, to \in {"held", "failed"} : SetState(s, to)
    BY <1>2 DEF DispatchOffer
  <2>3. \A t \in Tasks : RowEvolves(t)
    <3>1. CASE row' = row
      BY <3>1 DEF RowEvolves
    <3>2. ASSUME NEW s \in worker.current, NEW to \in {"held", "failed"}, SetState(s, to)
          PROVE  \A t \in Tasks : RowEvolves(t)
      <4>1. s \in Snapshots /\ s.row.state # "none" /\ to \in Parked
        BY RememberedRow DEF Reads, Parked
      <4>. QED
        BY <3>2, <4>1, SetStateEvolves
    <3>. QED
      BY <2>2, <3>1, <3>2
  <2>. QED
    BY <2>1, <2>3 DEF RowsEvolve
<1>3. CASE HoldCandidate
  <2>1. row' = row \/ \E s \in worker.rows : SetState(s, worker.to)
    BY <1>3 DEF HoldCandidate
  <2>2. worker.to \in Parked
    BY <1>3 DEF HoldCandidate, CInv, PlaceFits
  <2>3. \A t \in Tasks : RowEvolves(t)
    <3>1. CASE row' = row
      BY <3>1 DEF RowEvolves
    <3>2. ASSUME NEW s \in worker.rows, SetState(s, worker.to) PROVE \A t \in Tasks : RowEvolves(t)
      <4>1. s \in Snapshots /\ s.row.state # "none"
        BY RememberedRow DEF Reads
      <4>. QED
        BY <2>2, <3>2, <4>1, SetStateEvolves
    <3>. QED
      BY <2>1, <3>1, <3>2
  <2>. QED
    BY <1>3, <2>3 DEF RowsEvolve, HoldCandidate, taskVars, Elsewhere, counters
<1>4. ASSUME NEW ok \in BOOLEAN, DispatchReturns(ok) PROVE RowsEvolve
  BY <1>4 DEF RowsEvolve, RowEvolves, DispatchReturns, taskVars, Elsewhere, counters
<1>. QED
  BY <1>1, <1>2, <1>3, <1>4

\* Where nothing is offered before or after, no turn begins or ends.
LEMMA NoTurn ==
  ASSUME CInv, CInv', PaidInv, RowsEvolve, worker.pc \notin Dispatching, worker'.pc \notin Dispatching,
         nextDispatch' = nextDispatch, downs' >= downs
  PROVE  PaidInv'
<1>1. Offered = {} /\ Offered' = {} /\ worker.pc \notin Turning /\ worker'.pc \notin Turning
  BY DEF Offered, Dispatching, Turning
<1>2. worker'.pc # "offer"
  BY DEF Dispatching
<1>. QED
  BY <1>1, <1>2, SameTurn

LEMMA DownsTyped == ASSUME CInv PROVE downs \in Nat /\ downs >= downs /\ downs + 1 >= downs
<1>1. downs \in 0 .. MaxDowns /\ MaxDowns \in Nat
  BY BoundsAssumption DEF CInv, Typed, CountTypes
<1>. QED
  BY <1>1

\* Requests leave the worker alone.
LEMMA PaidRequests ==
  ASSUME CInv, CInv', PaidInv, RowsEvolve, UserStep \/ ToolStep \/ WatchOwner
  PROVE  PaidInv'
<1>1. UNCHANGED <<worker, nextDispatch, downs>>
  <2>1. CASE UserStep
    BY <2>1 DEF UserStep, Send, Recheck, Handoff, ReleaseTasks, EditTask, StartManualRun, EditProject,
                CancelRun, ResumeRead, ResumeCommit, counters
  <2>2. CASE ToolStep
    BY <2>2 DEF ToolStep, StartRead, StartCommit, DeferTask, counters
  <2>3. CASE WatchOwner
    BY <2>3 DEF WatchOwner, Elsewhere, counters
  <2>. QED
    BY <2>1, <2>2, <2>3
<1>2. Offered' = Offered
  BY <1>1 DEF Offered
<1>3. worker'.pc = "offer" => worker'.current \subseteq worker'.rows
  BY <1>1 DEF PaidInv, OfferedFit
<1>. QED
  BY <1>1, <1>2, <1>3, SameTurn, DownsTyped

\* The reconciler and the runs are outside of a turn.
LEMMA PaidOutside ==
  ASSUME CInv, CInv', PaidInv, RowsEvolve,
         \/ TickStart \/ TickRead \/ TickNext \/ TickDecide \/ TickAdvance \/ TickCancel \/ TickSet
         \/ ClaimNext \/ BeginManual \/ BeginJob \/ RejectCancel \/ RejectSet
         \/ \E o \in {"done", "blocker", "malformed", "error"} : HarnessReturns(o)
         \/ FinishRead \/ FinishAI \/ StopDuringRun \/ Start
  PROVE  PaidInv'
<1>0. worker \in WorkerType /\ downs \in Nat
  BY DownsTyped DEF CInv, Typed
<1>1. nextDispatch' = nextDispatch /\ downs' >= downs
  <2>1. CASE StopDuringRun
    BY <2>1, DownsTyped DEF StopDuringRun
  <2>2. CASE ~StopDuringRun
    BY <2>2, DownsTyped DEF TickStart, TickRead, TickNext, TickDecide, TickAdvance, TickCancel, TickSet,
         ClaimNext, BeginManual, BeginJob, RejectCancel, RejectSet, HarnessReturns, FinishRead, FinishAI,
         Start, Elsewhere, counters
  <2>. QED
    BY <2>1, <2>2
<1>2. worker.pc \notin Dispatching
  BY DEF TickStart, TickRead, TickNext, TickDecide, TickAdvance, TickCancel, TickSet,
         ClaimNext, BeginManual, BeginJob, RejectCancel, RejectSet, HarnessReturns, FinishRead, FinishAI,
         StopDuringRun, Start, Dispatching
<1>3. /\ NextRow.pc = "rows" /\ \A to : GiveUp(to).pc = "cancel" /\ Advance(to).pc = "advance"
      /\ Idle.pc = "idle" /\ Down.pc = "down"
  BY <1>0 DEF NextRow, GiveUp, Advance, Idle, Down, WorkerType
<1>4. worker'.pc \notin Dispatching
  <2>. USE DEF Dispatching
  <2>1. CASE TickStart \/ TickRead
    BY <2>1, <1>0, <1>3 DEF TickStart, TickRead, WorkerType
  <2>2. CASE TickNext
    BY <2>2, <1>0 DEF TickNext, WorkerType, Idle
  <2>3. CASE TickDecide
    <3>1. PICK s \in worker.current, seen \in worker.seen : worker' = Reconciled(s, seen)
      BY <2>3 DEF TickDecide
    <3>2. Reconciled(s, seen) = NextRow \/ \E to : Reconciled(s, seen) \in {GiveUp(to), Advance(to)}
      BY DEF Reconciled
    <3>. QED
      BY <3>1, <3>2, <1>3
  <2>4. CASE TickAdvance
    <3>1. worker' = NextRow \/ \E to : worker' = GiveUp(to)
      BY <2>4 DEF TickAdvance
    <3>. QED
      BY <3>1, <1>3
  <2>5. CASE TickCancel \/ TickSet
    BY <2>5, <1>0, <1>3 DEF TickCancel, TickSet, WorkerType
  <2>6. CASE ClaimNext
    BY <2>6, <1>0 DEF ClaimNext, WorkerType
  <2>7. CASE BeginManual \/ RejectCancel \/ RejectSet
    BY <2>7, <1>0, <1>3 DEF BeginManual, RejectCancel, RejectSet, WorkerType
  <2>8. CASE BeginJob
    BY <2>8, <1>0, <1>3 DEF BeginJob, WorkerType
  <2>9. CASE (\E o \in {"done", "blocker", "malformed", "error"} : HarnessReturns(o)) \/ FinishRead
             \/ StopDuringRun \/ Start
    BY <2>9, <1>0, <1>3 DEF HarnessReturns, FinishRead, StopDuringRun, Start, WorkerType
  <2>10. CASE FinishAI
    <3>1. \/ \E o : worker' = [Idle EXCEPT !.pc = "again", !.outcome = o]
          \/ worker' = Down \/ worker' = Idle
      BY <2>10 DEF FinishAI
    <3>. QED
      BY <3>1, <1>3 DEF Idle
  <2>. QED
    BY <2>1, <2>2, <2>3, <2>4, <2>5, <2>6, <2>7, <2>8, <2>9, <2>10
<1>. QED
  BY <1>1, <1>2, <1>4, NoTurn

\* A crash pays for the turn that it cuts short.
LEMMA PaidCrash ==
  ASSUME CInv, CInv', PaidInv, RowsEvolve, Crash
  PROVE  PaidInv'
<1>. USE DEF PaidInv
<1>1. worker'.pc = "down" /\ downs' = downs + 1 /\ nextDispatch' = nextDispatch /\ paid' = paid
  BY DEF Crash, Down
<1>2. Offered' = {} /\ TurnsOf(Offered)' = {} /\ worker'.pc \notin Turning
  BY <1>1 DEF Offered, TurnsOf, Dispatching, Turning
<1>3. WaitingTurns' \subseteq WaitingTurns
  BY WaitingStays
<1>4. OfferedFit'
  BY <1>1, <1>2 DEF OfferedFit
<1>5. WaitingTurns \in SUBSET Turns /\ TurnsOf(Offered) \in SUBSET Turns
      /\ nextDispatch \in Nat /\ paid \in Nat /\ downs \in Nat
  BY TurnsTyped
<1>. DEFINE C == Cardinality(WaitingTurns') D == Cardinality(WaitingTurns)
            E == Cardinality(WaitingTurns \union TurnsOf(Offered))
<1>6. C \in Nat /\ D \in Nat /\ E \in Nat /\ C <= D /\ D <= E
  <2>1. WaitingTurns \union TurnsOf(Offered) \in SUBSET Turns
    BY <1>5
  <2>2. D <= E /\ E \in Nat /\ D \in Nat
    BY <2>1, FewerTurns
  <2>3. C <= D /\ C \in Nat
    BY <1>3, <1>5, FewerTurns
  <2>. QED
    BY <2>2, <2>3
<1>7. nextDispatch + D <= paid + downs + 1
  <2>1. worker.pc \notin Turning => nextDispatch + E <= paid + downs
    BY DEF TurnsFit
  <2>2. worker.pc \in Turning => nextDispatch + D <= paid + downs + 1
    BY DEF TurnsFit
  <2>. HIDE DEF D, E
  <2>. QED
    BY <2>1, <2>2, <1>5, <1>6
<1>8. nextDispatch' + C <= paid' + downs'
  <2>. HIDE DEF C, D, E
  <2>. QED
    BY <1>1, <1>5, <1>6, <1>7
<1>9. WaitingTurns' \union TurnsOf(Offered)' = WaitingTurns'
  BY <1>2
<1>10. TurnsFit'
  BY <1>2, <1>8, <1>9 DEF TurnsFit
<1>. QED
  BY <1>4, <1>10

\* What is offered is what waits.
LEMMA PaidRead ==
  ASSUME CInv, CInv', PaidInv, RowsEvolve, DispatchRead
  PROVE  PaidInv'
<1>. USE DEF PaidInv
<1>0. worker \in WorkerType /\ row \in [Tasks -> Rows]
  BY DEF CInv, Typed, RowTypes
<1>. DEFINE waiting == {[task |-> t, row |-> row[t]] : t \in {u \in Tasks : row[u].state = "waiting"}}
<1>1. /\ worker.pc = "dispatch" /\ worker'.pc = "offer" /\ worker'.rows = waiting
      /\ worker'.current = waiting
      /\ UNCHANGED <<row, nextDispatch, nextKey, downs, paid>>
  BY <1>0 DEF DispatchRead, Tables, Elsewhere, counters, WorkerType
<1>2. Offered = {} /\ TurnsOf(Offered) = {} /\ Offered' = waiting
      /\ worker.pc \notin Turning /\ worker'.pc \notin Turning
  BY <1>1 DEF Offered, TurnsOf, Dispatching, Turning
<1>3. TurnsOf(Offered)' = WaitingTurns /\ WaitingTurns' = WaitingTurns
  <2>1. ASSUME NEW k PROVE k \in TurnsOf(waiting) <=> k \in WaitingTurns
    <3>1. k \in WaitingTurns <=> \E t \in Tasks : row[t].state = "waiting" /\ k = Turn(row[t])
      BY DEF WaitingTurns
    <3>2. k \in TurnsOf(waiting) <=> \E s \in waiting : k = Turn(s.row)
      BY DEF TurnsOf
    <3>3. (\E s \in waiting : k = Turn(s.row)) <=> \E t \in Tasks : row[t].state = "waiting" /\ k = Turn(row[t])
      <4>1. ASSUME NEW t \in Tasks, row[t].state = "waiting", k = Turn(row[t])
            PROVE  \E s \in waiting : k = Turn(s.row)
        <5>1. [task |-> t, row |-> row[t]] \in waiting
          BY <4>1
        <5>. QED
          BY <4>1, <5>1
      <4>. QED
        BY <4>1
    <3>. QED
      BY <3>1, <3>2, <3>3
  <2>2. TurnsOf(Offered)' = TurnsOf(waiting)
    BY <1>2 DEF TurnsOf
  <2>3. TurnsOf(waiting) = WaitingTurns
    BY <2>1
  <2>. QED
    BY <1>1, <2>2, <2>3 DEF WaitingTurns, Turn
<1>5. OfferedFit'
  <2>1. \A s \in waiting : s.task \in Tasks /\ s.row = row[s.task] /\ row[s.task].state = "waiting"
                           /\ s = [task |-> s.task, row |-> row[s.task]]
    OBVIOUS
  <2>2. \A t \in Tasks : row[t].key <= nextKey
    BY DEF CInv, Queue, KeysFit
  <2>5. \A s \in waiting : s.row.key <= nextKey
    BY <2>1, <2>2
  <2>6. \A t \in Tasks : row[t].state = "waiting" => [task |-> t, row |-> row[t]] \in waiting
    OBVIOUS
  <2>. HIDE DEF waiting
  <2>. QED
    BY <1>1, <1>2, <2>5, <2>6 DEF OfferedFit
<1>6. nextDispatch + Cardinality(WaitingTurns \union {}) <= paid + downs
  BY <1>2 DEF TurnsFit
<1>7. WaitingTurns \union {} = WaitingTurns \union WaitingTurns
  OBVIOUS
<1>8. TurnsFit'
  BY <1>1, <1>2, <1>3, <1>6, <1>7 DEF TurnsFit
<1>. QED
  BY <1>5, <1>8

\* A handoff pays for the turns that its rows may be offered in.
LEMMA PaidHandoff ==
  ASSUME CInv, CInv', PaidInv, NEW p \in Projects, NEW S \in SUBSET Tasks,
         Send(p, S) \/ Recheck(p, S)
  PROVE  PaidInv'
<1>. USE DEF PaidInv
<1>0. row \in [Tasks -> Rows] /\ \A t \in Tasks : row[t].key <= nextKey /\ row[t].key \in Nat
  <2>1. row \in [Tasks -> Rows] /\ \A t \in Tasks : row[t].key <= nextKey
    BY DEF CInv, Typed, RowTypes, Queue, KeysFit
  <2>2. \A t \in Tasks : row[t].key \in Keys
    BY <2>1 DEF Rows
  <2>. QED
    BY <2>1, <2>2, TurnsTyped
<1>1. PICK states \in {{"none"}, {"none"} \union Parked} : Handoff(p, S, states)
  BY DEF Send, Recheck
<1>. DEFINE chosen == {t \in S : Sendable(t, p) /\ row[t].state \in states}
<1>2. /\ nextKey' = nextKey + 1 /\ nextKey' \in Keys /\ nextKey \in Nat
      /\ UNCHANGED <<project, worker, nextDispatch, downs>>
  <2>1. nextKey' = nextKey + 1 /\ nextKey < MaxHandoffs /\ MaxHandoffs \in Nat
    BY <1>1, BoundsAssumption DEF Handoff
  <2>. QED
    <3>1. nextKey \in Nat /\ nextKey' \in Keys
      BY <2>1, TurnsTyped DEF Keys
    <3>. QED
      BY <1>1, <2>1, <3>1 DEF Handoff, taskVars
<1>3. row' = [t \in Tasks |->
                CASE t \notin chosen -> row[t]
                  [] t \in chosen /\ row[t].state = "none" ->
                       [state |-> "waiting", project |-> p, job |-> NoJob,
                        expected |-> stage[t], key |-> nextKey']
                  [] OTHER ->
                       [row[t] EXCEPT !.state = "waiting", !.key = nextKey',
                                      !.expected = stage[t]]]
  BY <1>1 DEF Handoff
<1>4. ASSUME NEW t \in Tasks, t \notin chosen PROVE row'[t] = row[t]
  BY <1>3, <1>4
<1>5. ASSUME NEW t \in Tasks, t \in chosen
      PROVE  row'[t].state = "waiting" /\ row'[t].key = nextKey'
  <2>1. CASE row[t].state = "none"
    BY <1>3, <1>5, <2>1
  <2>2. CASE row[t].state # "none"
    <3>1. row'[t] = [row[t] EXCEPT !.state = "waiting", !.key = nextKey', !.expected = stage[t]]
      BY <1>3, <1>5, <2>2
    <3>2. row[t] \in Rows
      BY <1>0
    <3>. QED
      BY <3>1, <3>2 DEF Rows
  <2>. QED
    BY <2>1, <2>2
<1>. DEFINE P == {row'[t].project : t \in chosen}
            New == {Turn(row'[t]) : t \in chosen}
<1>6. paid' = paid + Cardinality(P) /\ chosen \subseteq Tasks
  BY <1>1 DEF Handoff
<1>. HIDE DEF chosen
<1>7. Cardinality(New) <= Cardinality(P) /\ New \in SUBSET Turns
      /\ Cardinality(New) \in Nat /\ Cardinality(P) \in Nat
  <2>1. row' \in [Tasks -> Rows]
    BY DEF CInv, Typed, RowTypes
  <2>2. P \in SUBSET (Projects \union {"none"})
    BY <1>6, <2>1 DEF Rows
  <2>3. New \in SUBSET Turns
    BY <1>6, <2>1 DEF Turn, Turns, Rows
  <2>. DEFINE f == [q \in P |-> <<nextKey', q>>]
  <2>4. \A t \in chosen : Turn(row'[t]) = <<nextKey', row'[t].project>>
    BY <1>5, <1>6 DEF Turn
  <2>5. f \in Surjection(P, New)
    <3>1. f \in [P -> New]
      BY <2>4
    <3>2. \A n \in New : \E q \in P : f[q] = n
      BY <2>4
    <3>. HIDE DEF f, P, New
    <3>. QED
      BY <3>1, <3>2 DEF Surjection
  <2>. HIDE DEF f, P, New
  <2>6. IsFiniteSet(P) /\ Cardinality(P) \in Nat
    BY <2>2, ProjectsFinite
  <2>7. Cardinality(New) <= Cardinality(P)
    BY <2>5, <2>6, FS_Surjection
  <2>8. Cardinality(New) \in Nat
    BY <2>3, FewerTurns
  <2>. QED
    BY <2>3, <2>6, <2>7, <2>8
<1>. HIDE DEF P
<1>8. Offered' = Offered /\ TurnsOf(Offered)' = TurnsOf(Offered)
      /\ (worker'.pc \in Turning <=> worker.pc \in Turning)
  BY <1>2 DEF Offered, TurnsOf
<1>9. OfferedFit'
  <2>1. \A s \in Offered : s.row.key <= nextKey' /\ s.row.key # nextKey'
    <3>1. \A s \in Offered : Turn(s.row) \in Turns /\ s.row.key <= nextKey
      BY TurnsTyped DEF OfferedFit, TurnsOf
    <3>2. \A s \in Offered : s.row.key \in Nat
      BY <3>1, TurnsTyped DEF Turn, Turns
    <3>. QED
      BY <1>2, <3>1, <3>2
  <2>2. \A q : <<nextKey', q>> \notin TurnsOf(Offered)
    BY <2>1 DEF TurnsOf, Turn
  <2>3. ASSUME NEW t \in Tasks, row'[t].state = "waiting", Turn(row'[t]) \in TurnsOf(Offered)
        PROVE  [task |-> t, row |-> row'[t]] \in Offered
    <3>1. t \notin chosen
      BY <1>5, <2>2, <2>3 DEF Turn
    <3>. QED
      BY <1>4, <2>3, <3>1 DEF OfferedFit
  <2>4. worker'.pc = "offer" => worker'.current \subseteq worker'.rows
    BY <1>2 DEF OfferedFit
  <2>5. \A s \in Offered' : s.row.key <= nextKey'
    BY <1>8, <2>1 DEF OfferedFit
  <2>6. \A t \in Tasks : row'[t].state = "waiting" /\ Turn(row'[t]) \in TurnsOf(Offered)'
           => [task |-> t, row |-> row'[t]] \in Offered'
    BY <1>8, <2>3
  <2>. QED
    BY <2>4, <2>5, <2>6 DEF OfferedFit
<1>10. WaitingTurns' \subseteq WaitingTurns \union New
  <2>. SUFFICES ASSUME NEW t \in Tasks, row'[t].state = "waiting"
                PROVE  Turn(row'[t]) \in WaitingTurns \union New
    BY DEF WaitingTurns
  <2>. QED
    BY <1>4 DEF WaitingTurns, Turn
<1>. DEFINE Had == TurnsOf(Offered)
<1>11. WaitingTurns \in SUBSET Turns /\ Had \in SUBSET Turns /\ nextDispatch \in Nat /\ downs \in Nat
      /\ paid \in Nat
  BY TurnsTyped
<1>12. WaitingTurns' \in SUBSET Turns
  BY <1>7, <1>10, <1>11
<1>. HIDE DEF Had, New
<1>13. /\ Cardinality(WaitingTurns' \union Had) <= Cardinality(WaitingTurns \union Had) + Cardinality(New)
       /\ Cardinality(WaitingTurns' \ Had) <= Cardinality(WaitingTurns \ Had) + Cardinality(New)
       /\ Cardinality(WaitingTurns') <= Cardinality(WaitingTurns) + Cardinality(New)
  <2>1. WaitingTurns \union Had \in SUBSET Turns /\ WaitingTurns' \union Had \in SUBSET Turns
        /\ WaitingTurns' \union Had \subseteq (WaitingTurns \union Had) \union New
    BY <1>10, <1>11, <1>12
  <2>2. WaitingTurns \ Had \in SUBSET Turns /\ WaitingTurns' \ Had \in SUBSET Turns
        /\ WaitingTurns' \ Had \subseteq (WaitingTurns \ Had) \union New
    BY <1>10, <1>11, <1>12
  <2>3. Cardinality(WaitingTurns' \union Had) <= Cardinality(WaitingTurns \union Had) + Cardinality(New)
    BY <1>7, <2>1, MoreTurns
  <2>4. Cardinality(WaitingTurns' \ Had) <= Cardinality(WaitingTurns \ Had) + Cardinality(New)
    BY <1>7, <2>2, MoreTurns
  <2>5. Cardinality(WaitingTurns') <= Cardinality(WaitingTurns) + Cardinality(New)
    BY <1>7, <1>10, <1>11, <1>12, MoreTurns
  <2>. QED
    BY <2>3, <2>4, <2>5
<1>14. {Cardinality(WaitingTurns' \union Had), Cardinality(WaitingTurns \union Had),
        Cardinality(WaitingTurns' \ Had), Cardinality(WaitingTurns \ Had),
        Cardinality(WaitingTurns'), Cardinality(WaitingTurns)} \subseteq Nat
  <2>1. \A A \in SUBSET Turns : Cardinality(A) \in Nat
    BY FewerTurns
  <2>. QED
    BY <2>1, <1>11, <1>12
<1>15. TurnsFit'
  <2>1. CASE worker.pc \notin Turning
    <3>1. nextDispatch + Cardinality(WaitingTurns \union Had) <= paid + downs
      BY <2>1 DEF TurnsFit, Had
    <3>2. nextDispatch' + Cardinality(WaitingTurns' \union Had) <= paid' + downs'
      BY <3>1, <1>2, <1>6, <1>7, <1>11, <1>13, <1>14
    <3>. QED
      BY <2>1, <3>2, <1>8 DEF TurnsFit, Had
  <2>2. CASE worker.pc \in Turning
    <3>1. /\ nextDispatch + Cardinality(WaitingTurns \ Had) <= paid + downs
          /\ nextDispatch + Cardinality(WaitingTurns) <= paid + downs + 1
      BY <2>2 DEF TurnsFit, Had
    <3>2. /\ nextDispatch' + Cardinality(WaitingTurns' \ Had) <= paid' + downs'
          /\ nextDispatch' + Cardinality(WaitingTurns') <= paid' + downs' + 1
      BY <3>1, <1>2, <1>6, <1>7, <1>11, <1>13, <1>14
    <3>. QED
      BY <2>2, <3>2, <1>8 DEF TurnsFit, Had
  <2>. QED
    BY <2>1, <2>2
<1>. QED
  BY <1>9, <1>15

\* What ends without an offer leaves what waits.
LEMMA EndsIdle ==
  ASSUME CInv, CInv', PaidInv, RowsEvolve, worker' = Idle, UNCHANGED <<nextDispatch, downs>>,
         worker.pc \in Turning => Offered = {}
  PROVE  PaidInv'
<1>. USE DEF PaidInv
<1>1. /\ worker'.pc = "idle" /\ Offered' = {} /\ TurnsOf(Offered)' = {} /\ worker'.pc \notin Turning
      /\ paid' = paid
  BY DEF Offered, TurnsOf, Dispatching, Turning, Idle, RowsEvolve
<1>2. WaitingTurns' \subseteq WaitingTurns
  BY WaitingStays
<1>3. OfferedFit'
  BY <1>1 DEF OfferedFit
<1>4. WaitingTurns \in SUBSET Turns /\ TurnsOf(Offered) \in SUBSET Turns
      /\ nextDispatch \in Nat /\ paid \in Nat /\ downs \in Nat
  BY TurnsTyped
<1>. DEFINE B == IF worker.pc \in Turning THEN WaitingTurns \ TurnsOf(Offered)
                 ELSE WaitingTurns \union TurnsOf(Offered)
<1>5. nextDispatch + Cardinality(B) <= paid + downs
  BY DEF TurnsFit
<1>6. WaitingTurns' \in SUBSET B /\ B \in SUBSET Turns
  BY <1>2, <1>4 DEF TurnsOf
<1>. HIDE DEF B
<1>7. Cardinality(WaitingTurns') <= Cardinality(B)
      /\ Cardinality(WaitingTurns') \in Nat /\ Cardinality(B) \in Nat
  BY <1>6, FewerTurns
<1>8. nextDispatch' + Cardinality(WaitingTurns') <= paid' + downs'
  BY <1>1, <1>4, <1>5, <1>7
<1>9. WaitingTurns' \union TurnsOf(Offered)' = WaitingTurns'
  BY <1>1
<1>10. TurnsFit'
  BY <1>1, <1>8, <1>9 DEF TurnsFit
<1>. QED
  BY <1>3, <1>10

\* A turn begins: it is paid for by the handoff that it was begun for.
LEMMA TurnBegins ==
  ASSUME CInv, CInv', PaidInv, RowsEvolve, NEW snap \in worker.current, worker.pc = "offer",
         nextDispatch' = nextDispatch + 1, UNCHANGED <<row, downs>>,
         worker'.pc = "select",
         worker'.rows = {r \in worker.rows : r.row.project = snap.row.project}
  PROVE  PaidInv'
<1>. USE DEF PaidInv
<1>. DEFINE Now == {r \in worker.rows : r.row.project = snap.row.project}
<1>1. Offered = worker.rows /\ Offered' = Now /\ Now \subseteq Offered /\ snap \in Now
      /\ worker.pc \notin Turning /\ worker'.pc \in Turning
  BY DEF Offered, Dispatching, Turning, OfferedFit
<1>2. WaitingTurns' = WaitingTurns /\ nextKey' = nextKey /\ paid' = paid
  BY DEF WaitingTurns, Turn, RowsEvolve
<1>3. OfferedFit'
  <2>2. \A s \in Now : s.row.key <= nextKey
    BY <1>1 DEF OfferedFit
  <2>3. ASSUME NEW t \in Tasks, row[t].state = "waiting", Turn(row[t]) \in TurnsOf(Now)
        PROVE  [task |-> t, row |-> row[t]] \in Now
    <3>1. PICK s \in Now : Turn(row[t]) = Turn(s.row)
      BY <2>3 DEF TurnsOf
    <3>. DEFINE mine == [task |-> t, row |-> row[t]]
    <3>2. mine \in Offered
      BY <1>1, <2>3, <3>1 DEF OfferedFit, TurnsOf
    <3>3. mine.row = row[t]
      OBVIOUS
    <3>4. mine.row.project = s.row.project
      BY <3>1, <3>3 DEF Turn
    <3>. QED
      BY <1>1, <3>2, <3>4
  <2>. HIDE DEF Now
  <2>. QED
    BY <1>1, <1>2, <2>2, <2>3 DEF OfferedFit, TurnsOf, Turn
<1>4. WaitingTurns \in SUBSET Turns /\ TurnsOf(Offered) \in SUBSET Turns
      /\ nextDispatch \in Nat /\ paid \in Nat /\ downs \in Nat
  BY TurnsTyped
<1>. DEFINE B == WaitingTurns \union TurnsOf(Offered)
            A == WaitingTurns \ TurnsOf(Now)
<1>5. TurnsOf(Offered)' = TurnsOf(Now) /\ Turn(snap.row) \in TurnsOf(Now) /\ Turn(snap.row) \in TurnsOf(Offered)
  BY <1>1 DEF TurnsOf
<1>6. A \in SUBSET B /\ B \in SUBSET Turns /\ Turn(snap.row) \in B \ A /\ WaitingTurns \in SUBSET B
  BY <1>4, <1>5
<1>7. A' = A
  BY <1>2, <1>5
<1>8. nextDispatch + Cardinality(B) <= paid + downs
  BY <1>1 DEF TurnsFit
<1>. HIDE DEF A, B, Now
<1>9. Cardinality(A) + 1 <= Cardinality(B) /\ Cardinality(A) \in Nat /\ Cardinality(B) \in Nat
  BY <1>6, FewerTurns
<1>10. Cardinality(WaitingTurns) <= Cardinality(B) /\ Cardinality(WaitingTurns) \in Nat
  BY <1>6, FewerTurns
<1>11. /\ nextDispatch' + Cardinality(A) <= paid' + downs'
       /\ nextDispatch' + Cardinality(WaitingTurns) <= paid' + downs' + 1
  BY <1>2, <1>4, <1>8, <1>9, <1>10
<1>12. TurnsFit'
  BY <1>1, <1>2, <1>5, <1>11 DEF TurnsFit, A
<1>. QED
  BY <1>3, <1>12

LEMMA PaidOffer ==
  ASSUME CInv, CInv', PaidInv, RowsEvolve, DispatchOffer
  PROVE  PaidInv'
<1>0. worker \in WorkerType /\ worker.pc = "offer" /\ worker.pc \notin Turning /\ UNCHANGED downs
  BY DEF CInv, Typed, DispatchOffer, Turning
<1>1. ASSUME NEW snap \in worker.current, worker' = [worker EXCEPT !.current = @ \ {snap}],
             UNCHANGED nextDispatch
      PROVE  PaidInv'
  <2>1. worker'.pc = worker.pc /\ worker'.rows = worker.rows /\ worker'.current \subseteq worker.current
    BY <1>0, <1>1 DEF WorkerType
  <2>2. Offered' = Offered
    BY <2>1 DEF Offered
  <2>3. worker'.current \subseteq worker'.rows
    BY <1>0, <2>1 DEF PaidInv, OfferedFit
  <2>. QED
    BY <1>0, <1>1, <2>1, <2>2, <2>3, SameTurn, DownsTyped
<1>2. ASSUME NEW snap \in worker.current, nextDispatch' = nextDispatch + 1, UNCHANGED row,
             worker' = [worker EXCEPT !.pc = "select", !.current = {}, !.dispatch = nextDispatch',
                             !.rows = {r \in @ : r.row.project = snap.row.project}]
      PROVE  PaidInv'
  <2>1. worker'.pc = "select"
        /\ worker'.rows = {r \in worker.rows : r.row.project = snap.row.project}
    BY <1>0, <1>2 DEF WorkerType
  <2>. QED
    BY <1>0, <1>2, <2>1, TurnBegins
<1>3. CASE worker' = Idle /\ UNCHANGED nextDispatch
  BY <1>0, <1>3, EndsIdle
<1>. QED
  BY <1>1, <1>2, <1>3 DEF DispatchOffer

LEMMA PaidReturns ==
  ASSUME CInv, CInv', PaidInv, RowsEvolve, NEW ok \in BOOLEAN, DispatchReturns(ok)
  PROVE  PaidInv'
<1>0. worker \in WorkerType
  BY DEF CInv, Typed
<1>1. /\ worker.pc = "select" /\ worker'.pc = "hold" /\ worker'.rows = worker.rows
      /\ UNCHANGED <<nextDispatch, downs>>
  BY <1>0 DEF DispatchReturns, WorkerType, Elsewhere, counters
<1>2. Offered' = Offered /\ (worker'.pc \in Turning <=> worker.pc \in Turning)
  BY <1>1 DEF Offered, Dispatching, Turning
<1>. QED
  BY <1>1, <1>2, SameTurn, DownsTyped

\* A candidate is held: its handoff does not wait any more.
LEMMA PaidHold ==
  ASSUME CInv, CInv', PaidInv, RowsEvolve, HoldCandidate
  PROVE  PaidInv'
<1>0. worker \in WorkerType /\ row \in [Tasks -> Rows] /\ worker.pc = "hold" /\ worker.to \in Parked
      /\ UNCHANGED <<nextDispatch, downs>>
  BY DEF CInv, Typed, RowTypes, HoldCandidate, PlaceFits, Elsewhere, counters
<1>1. CASE worker.rows = {} /\ worker' = Idle
  <2>1. Offered = {}
    BY <1>1 DEF Offered
  <2>. QED
    BY <1>0, <1>1, <2>1, EndsIdle
<1>2. ASSUME NEW snap \in worker.rows, SetState(snap, worker.to),
             worker' = [worker EXCEPT !.rows = @ \ {snap}]
      PROVE  PaidInv'
  <2>. USE DEF PaidInv
  <2>1. /\ worker'.pc = "hold" /\ Offered = worker.rows /\ Offered' = Offered \ {snap}
        /\ worker.pc \in Turning /\ worker'.pc \in Turning
    BY <1>0, <1>2 DEF WorkerType, Offered, Dispatching, Turning
  <2>2. /\ WaitingTurns' \subseteq WaitingTurns /\ nextKey' = nextKey /\ paid' = paid
        /\ \A t \in Tasks : row'[t].state = "waiting" => row'[t] = row[t]
    BY WaitingStays DEF RowsEvolve
  (* A row that waits as it was offered is written, if it is the candidate's. *)
  <2>3. ASSUME NEW t \in Tasks, row'[t].state = "waiting", [task |-> t, row |-> row[t]] \in Offered
        PROVE  [task |-> t, row |-> row[t]] \in Offered'
    <3>1. ASSUME snap = [task |-> t, row |-> row[t]] PROVE FALSE
      <4>1. snap.task = t /\ snap.row = row[t]
        BY <3>1
      <4>2. row' = [row EXCEPT ![t].state = worker.to]
        BY <1>2, <4>1 DEF SetState
      <4>3. row'[t].state = worker.to
        BY <1>0, <4>2 DEF Rows
      <4>. QED
        BY <1>0, <2>3, <4>3 DEF Parked
    <3>. QED
      BY <2>1, <2>3, <3>1
  <2>4. OfferedFit'
    <3>2. \A s \in Offered' : s.row.key <= nextKey'
      BY <2>1, <2>2 DEF OfferedFit
    <3>3. ASSUME NEW t \in Tasks, row'[t].state = "waiting", Turn(row'[t]) \in TurnsOf(Offered)'
          PROVE  [task |-> t, row |-> row'[t]] \in Offered'
      <4>1. row'[t] = row[t] /\ row[t].state = "waiting" /\ Turn(row[t]) \in TurnsOf(Offered)
        BY <2>1, <2>2, <3>3 DEF TurnsOf
      <4>2. [task |-> t, row |-> row[t]] \in Offered
        BY <4>1 DEF OfferedFit
      <4>. QED
        BY <2>3, <3>3, <4>1, <4>2
    <3>. QED
      BY <2>1, <3>2, <3>3 DEF OfferedFit
  <2>. DEFINE A == WaitingTurns \ TurnsOf(Offered)
  <2>5. A' \subseteq A
    <3>. SUFFICES ASSUME NEW k \in WaitingTurns', k \notin TurnsOf(Offered)', k \in TurnsOf(Offered)
                  PROVE  FALSE
      BY <2>2
    <3>1. PICK t \in Tasks : row'[t].state = "waiting" /\ Turn(row'[t]) = k
      BY DEF WaitingTurns, Turn
    <3>2. row'[t] = row[t] /\ row[t].state = "waiting" /\ Turn(row[t]) = k
      BY <2>2, <3>1
    <3>3. [task |-> t, row |-> row[t]] \in Offered
      BY <3>2 DEF OfferedFit
    <3>4. [task |-> t, row |-> row[t]] \in Offered'
      BY <2>3, <3>1, <3>3
    <3>5. Turn([task |-> t, row |-> row[t]].row) = k
      BY <3>2
    <3>. QED
      BY <3>4, <3>5 DEF TurnsOf
  <2>6. WaitingTurns \in SUBSET Turns /\ A \in SUBSET Turns
        /\ nextDispatch \in Nat /\ paid \in Nat /\ downs \in Nat
    BY TurnsTyped
  <2>7. /\ nextDispatch + Cardinality(A) <= paid + downs
        /\ nextDispatch + Cardinality(WaitingTurns) <= paid + downs + 1
    BY <2>1 DEF TurnsFit
  <2>. HIDE DEF A
  <2>8. Cardinality(A') <= Cardinality(A) /\ Cardinality(A') \in Nat /\ Cardinality(A) \in Nat
    BY <2>5, <2>6, FewerTurns
  <2>9. Cardinality(WaitingTurns') <= Cardinality(WaitingTurns)
        /\ Cardinality(WaitingTurns') \in Nat /\ Cardinality(WaitingTurns) \in Nat
    BY <2>2, <2>6, FewerTurns
  <2>10. /\ nextDispatch' + Cardinality(A') <= paid' + downs'
         /\ nextDispatch' + Cardinality(WaitingTurns') <= paid' + downs' + 1
    BY <1>0, <2>2, <2>6, <2>7, <2>8, <2>9
  <2>11. TurnsFit'
    BY <2>1, <2>10 DEF TurnsFit, A
  <2>. QED
    BY <2>4, <2>11
<1>. QED
  BY <1>1, <1>2 DEF HoldCandidate

LEMMA PaidInitially == ASSUME Init PROVE PaidInv
<1>1. CInv
  BY InitInv
<1>2. /\ \A t \in Tasks : row[t].state = "none" /\ row[t].key = NoKey /\ row[t].project = "none"
      /\ worker.pc = "idle" /\ nextDispatch = 0 /\ nextKey = 0 /\ downs = 0 /\ paid = 0
  BY DEF Init, NoRow, Idle
<1>3. Offered = {} /\ TurnsOf(Offered) = {} /\ WaitingTurns = {} /\ worker.pc \notin Turning
  BY <1>2 DEF Offered, TurnsOf, WaitingTurns, Dispatching, Turning
<1>5. OfferedFit
  BY <1>2, <1>3 DEF OfferedFit
<1>6. Cardinality(WaitingTurns \union TurnsOf(Offered)) = 0
  BY <1>3, FS_EmptySet
<1>7. TurnsFit
  BY <1>2, <1>3, <1>6 DEF TurnsFit
<1>. QED
  BY <1>5, <1>7 DEF PaidInv

LEMMA PaidStutter ==
  ASSUME CInv, CInv', PaidInv, UNCHANGED vars
  PROVE  PaidInv'
<1>1. RowsEvolve /\ UNCHANGED <<worker, nextDispatch, downs>>
  BY DEF vars, counters, taskVars, RowsEvolve, RowEvolves
<1>2. Offered' = Offered
  BY <1>1 DEF Offered
<1>3. worker'.pc = "offer" => worker'.current \subseteq worker'.rows
  BY <1>1 DEF PaidInv, OfferedFit
<1>. QED
  BY <1>1, <1>2, <1>3, SameTurn, DownsTyped

LEMMA PaidNext == CInv /\ CInv' /\ PaidInv /\ [Next]_vars => PaidInv'
<1>. SUFFICES ASSUME CInv, CInv', PaidInv, [Next]_vars PROVE PaidInv'
  OBVIOUS
<1>1. CASE \E p \in Projects, S \in SUBSET Tasks : Send(p, S) \/ Recheck(p, S)
  BY <1>1, PaidHandoff
<1>2. CASE UserStep /\ ~(\E p \in Projects, S \in SUBSET Tasks : Send(p, S) \/ Recheck(p, S))
  BY <1>2, EvolvesUser, PaidRequests
<1>3. CASE ToolStep
  BY <1>3, EvolvesTool, PaidRequests
<1>4. CASE TickStart \/ TickRead \/ TickNext \/ TickDecide \/ TickAdvance \/ TickCancel \/ TickSet
  BY <1>4, EvolvesTick, PaidOutside
<1>5. CASE \/ ClaimNext \/ BeginManual \/ BeginJob \/ RejectCancel \/ RejectSet
           \/ \E o \in {"done", "blocker", "malformed", "error"} : HarnessReturns(o)
           \/ FinishRead \/ FinishAI \/ StopDuringRun \/ Start
  BY <1>5, EvolvesRun, PaidOutside
<1>6. CASE WatchOwner
  BY <1>6, EvolvesRun, PaidRequests
<1>7. CASE Crash
  BY <1>7, EvolvesRun, PaidCrash
<1>8. CASE DispatchRead \/ DispatchOffer \/ HoldCandidate \/ (\E ok \in BOOLEAN : DispatchReturns(ok))
  BY <1>8, EvolvesTurn, PaidRead, PaidOffer, PaidHold, PaidReturns
<1>9. CASE UNCHANGED vars
  BY <1>9, PaidStutter
<1>. QED
  BY <1>1, <1>2, <1>3, <1>4, <1>5, <1>6, <1>7, <1>8, <1>9 DEF Next, WorkerStep

\* No selection turn is begun that no handoff, or crash, has paid for: there is
\* no retry loop of paid turns, whatever is released, sent again, started late
\* or interrupted, and in whatever projects the rows of a handoff are
\* (PrepareDispatch and BeginDispatch, dispatch.go).
THEOREM TurnsArePaidFor == Spec => []NoSelectionLoop
<1>1. CInv /\ PaidInv => NoSelectionLoop
  <2>. SUFFICES ASSUME CInv, PaidInv PROVE NoSelectionLoop
    OBVIOUS
  <2>1. WaitingTurns \in SUBSET Turns /\ TurnsOf(Offered) \in SUBSET Turns
        /\ nextDispatch \in Nat /\ paid \in Nat /\ downs \in Nat
    BY TurnsTyped
  <2>. DEFINE A == WaitingTurns \ TurnsOf(Offered)
              B == WaitingTurns \union TurnsOf(Offered)
  <2>2. Cardinality(A) \in Nat /\ Cardinality(B) \in Nat
    <3>1. A \in SUBSET Turns /\ B \in SUBSET Turns
      BY <2>1
    <3>2. \A S \in SUBSET Turns : Cardinality(S) \in Nat
      BY FewerTurns
    <3>. QED
      BY <3>1, <3>2
  <2>3. nextDispatch + Cardinality(A) <= paid + downs
        \/ nextDispatch + Cardinality(B) <= paid + downs
    BY DEF PaidInv, TurnsFit
  <2>. HIDE DEF A, B
  <2>. QED
    BY <2>1, <2>2, <2>3 DEF NoSelectionLoop
<1>2. Init => PaidInv
  BY PaidInitially
<1>3. CInv /\ CInv' /\ PaidInv /\ [Next]_vars => PaidInv'
  BY PaidNext
<1>4. QED
  BY <1>1, <1>2, <1>3, ConductorInvariance, PTL DEF Spec
=============================================================================
