------------------------ MODULE AgentJobQueue_proofs ------------------------
(***************************************************************************)
(* Theorems about AgentJobQueue for any number of jobs and tasks, and any  *)
(* bound on stops, crashes and failing statements: the safety invariants   *)
(* that module states, and that the queue implements JobLifecycle.         *)
(***************************************************************************)
EXTENDS AgentJobQueue, TLAPS

-----------------------------------------------------------------------------
(* The inductive invariant: what ties the worker's location to the row of  *)
(* the job it holds, and the history variables to that row.                *)

\* Locations where the job was marked running before.
Marked == {"begin", "failing", "launch", "harness", "finish", "save"}

\* The worker has a job exactly where RunOnce is past its claim, and past the
\* harness and past finish()'s read it has what they chose.
WorkerInv ==
    /\ pc \in Holding => cur \in Jobs
    /\ pc = "finish" => outcome # "none"
    /\ pc = "save" => verdict # "none"

\* A claimed job that lost its claim was canceled or deleted; a job that was
\* marked running stays in flight under the worker unless it is deleted.
HeldInv ==
    /\ pc = "claimed" => status[cur] \in {"claimed", "canceled", "deleted"}
    /\ pc \in Marked => status[cur] \in {"running", "canceling", "deleted"}

\* A job has not been executed before it is marked running, nor in the two
\* locations between that and the harness.
StartsInv ==
    /\ \A j \in Jobs : status[j] \in {"absent", "pending", "claimed"} => starts[j] = 0
    /\ pc \in {"begin", "launch"} => starts[cur] = 0
    /\ NeverReplayed

\* An acknowledged cancellation leaves the job one of these.
AckedInv ==
    \A j \in acked :
        status[j] \in {"canceling", "canceled", "failed", "interrupted", "deleted"}

\* From BeginAttempt on the worker's job has its agent_run.
RunInv ==
    /\ pc \in {"launch", "harness", "finish", "save"} /\ status[cur] # "deleted"
           => run[cur] # "none"
    /\ CompletedHasResult

\* Every safety invariant of the queue, strengthened until each step keeps it.
IInv ==
    /\ TypeOK /\ WorkerInv /\ HeldInv /\ StartsInv /\ AckedInv /\ RunInv
    /\ OneActiveJobPerTask /\ InFlightIsHeld

-----------------------------------------------------------------------------
\* Ids are numbers, and the worker's "no job" is none of them.
LEMMA JobsType == Jobs \subseteq Nat /\ NoJob \notin Jobs
BY DEF Jobs, NoJob

\* A fresh database and a web process that is not running are well typed.
LEMMA TypeInit == Init => TypeOK /\ WorkerInv
<1> SUFFICES ASSUME Init PROVE TypeOK /\ WorkerInv
  OBVIOUS
<1>1. downs \in 0 .. MaxDowns /\ faults \in 0 .. MaxFaults
  BY BoundsAssumption DEF Init
<1>2. WorkerInv
  BY DEF Init, WorkerInv, Holding
<1>3. starts \in [Jobs -> Nat] /\ status \in [Jobs -> Statuses]
  BY DEF Init, Statuses
<1>4. TypeOK
  BY <1>1, <1>3 DEF Init, TypeOK, RunStates, Locations
<1> QED
  BY <1>2, <1>4

\* Every action keeps the types; that FinishAI writes a status of the schema needs
\* the verdict finish() has chosen before it.
LEMMA TypeStep == TypeOK /\ WorkerInv /\ [Next]_vars => TypeOK' /\ WorkerInv'
<1> SUFFICES ASSUME TypeOK, WorkerInv, [Next]_vars
             PROVE  TypeOK' /\ WorkerInv'
  OBVIOUS
<1> USE BoundsAssumption, NoTaskAssumption, JobsType
    DEF TypeOK, WorkerInv, Statuses, RunStates, Locations, Holding, InFlight
<1>1. ASSUME NEW t \in Tasks, EnqueueAI(t) PROVE TypeOK' /\ WorkerInv'
  BY <1>1 DEF EnqueueAI, ActiveJobs, worker
<1>2. ASSUME NEW t \in Tasks, DeleteTask(t) PROVE TypeOK' /\ WorkerInv'
  BY <1>2 DEF DeleteTask, worker
<1>3. ASSUME NEW j \in Jobs, CancelAI(j) PROVE TypeOK' /\ WorkerInv'
  BY <1>3 DEF CancelAI, CancelStatus, Cancelable, worker
<1>4. CASE Poll
  BY <1>4 DEF Poll, db
<1>5. CASE ClaimNext
  BY <1>5 DEF ClaimNext, Pending, Rest
<1>6. CASE NothingToClaim
  BY <1>6 DEF NothingToClaim, Release, Rest
<1>7. CASE MarkRunning
  BY <1>7 DEF MarkRunning, Release, Rest
<1>8. CASE BeginAttempt
  BY <1>8 DEF BeginAttempt, Rest
<1>9. CASE Fail
  BY <1>9 DEF Fail, Release, Rest
<1>10. CASE SetupFails
  BY <1>10 DEF SetupFails, Rest
<1>11. CASE StartHarness
  BY <1>11 DEF StartHarness, Rest
<1>12. ASSUME NEW o \in {"completed", "failed"}, HarnessReturns(o)
       PROVE  TypeOK' /\ WorkerInv'
  BY <1>12 DEF HarnessReturns, Rest
<1>13. CASE FinishRead
  BY <1>13 DEF FinishRead, Rest
<1>14. CASE FinishAI
  BY <1>14 DEF FinishAI, FinishStatus, Release, Rest
<1>15. CASE BeginAttemptErr
  BY <1>15 DEF BeginAttemptErr, Rest
<1>16. CASE WatchCancel
  BY <1>16 DEF WatchCancel, db
<1>17. CASE Abandon
  <2>1. faults' \in 0 .. MaxFaults
    BY <1>17 DEF Abandon
  <2>2. QED
    BY <1>17, <2>1 DEF Abandon, Release, Rest
<1>18. CASE Shutdown
  BY <1>18 DEF Shutdown, db
<1>19. CASE Exit
  BY <1>19 DEF Exit, db
<1>20. CASE Crash
  <2>1. downs' \in 0 .. MaxDowns
    BY <1>20 DEF Crash
  <2>2. QED
    BY <1>20, <2>1 DEF Crash, db
<1>21. CASE Start
  BY <1>21 DEF Start
<1>22. CASE UNCHANGED vars
  BY <1>22 DEF vars, db, worker
<1>23. QED
  BY <1>1, <1>2, <1>3, <1>4, <1>5, <1>6, <1>7, <1>8, <1>9, <1>10, <1>11, <1>12,
     <1>13, <1>14, <1>15, <1>16, <1>17, <1>18, <1>19, <1>20, <1>21, <1>22
  DEF Next, Step

\* Every action keeps what ties the history of a job to its row.  The interesting
\* cases are MarkRunning (the job may have been canceled or deleted since its
\* claim) and FinishAI (it may have been asked to stop since the harness returned).
LEMMA SafeStep ==
    ASSUME IInv, TypeOK', WorkerInv', [Next]_vars
    PROVE  (HeldInv /\ StartsInv /\ AckedInv /\ RunInv)'
<1> USE BoundsAssumption, NoTaskAssumption, JobsType
    DEF IInv, TypeOK, WorkerInv, HeldInv, StartsInv, NeverReplayed, AckedInv, RunInv,
        CompletedHasResult, Marked, Holding, InFlight
<1>1. ASSUME NEW t \in Tasks, EnqueueAI(t)
      PROVE  (HeldInv /\ StartsInv /\ AckedInv /\ RunInv)'
  BY <1>1 DEF EnqueueAI, ActiveJobs, worker
<1>2. ASSUME NEW t \in Tasks, DeleteTask(t)
      PROVE  (HeldInv /\ StartsInv /\ AckedInv /\ RunInv)'
  BY <1>2 DEF DeleteTask, worker
<1>3. ASSUME NEW j \in Jobs, CancelAI(j)
      PROVE  (HeldInv /\ StartsInv /\ AckedInv /\ RunInv)'
  BY <1>3 DEF CancelAI, CancelStatus, Cancelable, worker
<1>4. CASE Poll
  BY <1>4 DEF Poll, db
<1>5. CASE ClaimNext
  BY <1>5 DEF ClaimNext, Pending, Rest
<1>6. CASE NothingToClaim
  BY <1>6 DEF NothingToClaim, Release, Rest
<1>7. CASE MarkRunning
  BY <1>7 DEF MarkRunning, Release, Rest
<1>8. CASE BeginAttempt
  BY <1>8 DEF BeginAttempt, Rest
<1>9. CASE Fail
  BY <1>9 DEF Fail, Release, Rest
<1>10. CASE SetupFails
  BY <1>10 DEF SetupFails, Rest
<1>11. CASE StartHarness
  BY <1>11 DEF StartHarness, Rest
<1>12. ASSUME NEW o \in {"completed", "failed"}, HarnessReturns(o)
       PROVE  (HeldInv /\ StartsInv /\ AckedInv /\ RunInv)'
  BY <1>12 DEF HarnessReturns, Rest
<1>13. CASE FinishRead
  BY <1>13 DEF FinishRead, Rest
<1>14. CASE FinishAI
  BY <1>14 DEF FinishAI, FinishStatus, Release, Rest
<1>15. CASE BeginAttemptErr
  BY <1>15 DEF BeginAttemptErr, Rest
<1>16. CASE WatchCancel
  BY <1>16 DEF WatchCancel, db
<1>17. CASE Abandon
  BY <1>17 DEF Abandon, Release, Rest
<1>18. CASE Shutdown
  BY <1>18 DEF Shutdown, db
<1>19. CASE Exit
  BY <1>19 DEF Exit, db
<1>20. CASE Crash
  BY <1>20 DEF Crash, db
<1>21. CASE Start
  BY <1>21 DEF Start
<1>22. CASE UNCHANGED vars
  BY <1>22 DEF vars, db, worker
<1>23. QED
  BY <1>1, <1>2, <1>3, <1>4, <1>5, <1>6, <1>7, <1>8, <1>9, <1>10, <1>11, <1>12,
     <1>13, <1>14, <1>15, <1>16, <1>17, <1>18, <1>19, <1>20, <1>21, <1>22
  DEF Next, Step

\* Every action keeps the lock of a task: only EnqueueAI makes a job active that
\* was not, and the worker puts a job down only after it left flight or failed.
LEMMA LockStep ==
    ASSUME IInv, TypeOK', WorkerInv', [Next]_vars
    PROVE  (OneActiveJobPerTask /\ InFlightIsHeld)'
<1> USE BoundsAssumption, NoTaskAssumption, JobsType
    DEF IInv, TypeOK, WorkerInv, HeldInv, OneActiveJobPerTask, InFlightIsHeld, 
        ActiveStatuses, Marked, Holding, InFlight
<1>1. ASSUME NEW t \in Tasks, EnqueueAI(t)
      PROVE  (OneActiveJobPerTask /\ InFlightIsHeld)'
  BY <1>1 DEF EnqueueAI, ActiveJobs, worker
<1>2. ASSUME NEW t \in Tasks, DeleteTask(t)
      PROVE  (OneActiveJobPerTask /\ InFlightIsHeld)'
  BY <1>2 DEF DeleteTask, worker
<1>3. ASSUME NEW j \in Jobs, CancelAI(j)
      PROVE  (OneActiveJobPerTask /\ InFlightIsHeld)'
  BY <1>3 DEF CancelAI, CancelStatus, Cancelable, worker
<1>4. CASE Poll
  BY <1>4 DEF Poll, db
<1>5. CASE ClaimNext
  BY <1>5 DEF ClaimNext, Pending, Rest
<1>6. CASE NothingToClaim
  BY <1>6 DEF NothingToClaim, Release, Rest
<1>7. CASE MarkRunning
  BY <1>7 DEF MarkRunning, Release, Rest
<1>8. CASE BeginAttempt
  BY <1>8 DEF BeginAttempt, Rest
<1>9. CASE Fail
  BY <1>9 DEF Fail, Release, Rest
<1>10. CASE SetupFails
  BY <1>10 DEF SetupFails, Rest
<1>11. CASE StartHarness
  BY <1>11 DEF StartHarness, Rest
<1>12. ASSUME NEW o \in {"completed", "failed"}, HarnessReturns(o)
       PROVE  (OneActiveJobPerTask /\ InFlightIsHeld)'
  BY <1>12 DEF HarnessReturns, Rest
<1>13. CASE FinishRead
  BY <1>13 DEF FinishRead, Rest
<1>14. CASE FinishAI
  BY <1>14 DEF FinishAI, FinishStatus, Release, Rest
<1>15. CASE BeginAttemptErr
  BY <1>15 DEF BeginAttemptErr, Rest
<1>16. CASE WatchCancel
  BY <1>16 DEF WatchCancel, db
<1>17. CASE Abandon
  BY <1>17 DEF Abandon, Release, Rest
<1>18. CASE Shutdown
  BY <1>18 DEF Shutdown, db
<1>19. CASE Exit
  BY <1>19 DEF Exit, db
<1>20. CASE Crash
  BY <1>20 DEF Crash, db
<1>21. CASE Start
  BY <1>21 DEF Start
<1>22. CASE UNCHANGED vars
  BY <1>22 DEF vars, db, worker
<1>23. QED
  BY <1>1, <1>2, <1>3, <1>4, <1>5, <1>6, <1>7, <1>8, <1>9, <1>10, <1>11, <1>12,
     <1>13, <1>14, <1>15, <1>16, <1>17, <1>18, <1>19, <1>20, <1>21, <1>22
  DEF Next, Step

-----------------------------------------------------------------------------
(* The invariants, for every behaviour                                     *)

\* The inductive invariant holds in every reachable state.
THEOREM Invariance == Spec => []IInv
<1>1. Init => IInv
  <2> SUFFICES ASSUME Init PROVE IInv
    OBVIOUS
  <2>1. HeldInv /\ AckedInv /\ RunInv
    BY DEF Init, HeldInv, AckedInv, RunInv, CompletedHasResult, Marked
  <2>2. StartsInv /\ OneActiveJobPerTask /\ InFlightIsHeld
    BY
    DEF Init, StartsInv, NeverReplayed, OneActiveJobPerTask, ActiveStatuses,
        InFlightIsHeld
  <2>3. QED
    BY TypeInit, <2>1, <2>2 DEF IInv
<1>2. IInv /\ [Next]_vars => IInv'
  BY TypeStep, SafeStep, LockStep DEF IInv
<1>3. QED
  BY <1>1, <1>2, PTL DEF Spec

\* Every variable keeps its type.
THEOREM TypeCorrect == Spec => []TypeOK
<1>1. IInv => TypeOK
  BY DEF IInv
<1>2. QED
  BY Invariance, <1>1, PTL

\* Two active jobs of a task never coexist, however many callers insert, cancel
\* and delete while the worker claims, fails and restarts.
THEOREM OneActive == Spec => []OneActiveJobPerTask
<1>1. IInv => OneActiveJobPerTask
  BY DEF IInv
<1>2. QED
  BY Invariance, <1>1, PTL

\* No sequence of claims, failing statements, crashes and restarts starts the
\* harness twice for one job.
THEOREM ExecutedAtMostOnce == Spec => []NeverReplayed
<1>1. IInv => NeverReplayed
  BY DEF IInv, StartsInv
<1>2. QED
  BY Invariance, <1>1, PTL

\* A cancel request that was answered "true" is never undone: not by the worker's
\* late MarkRunning, not by the result of a run that finishes at the same moment.
THEOREM CancelHolds == Spec => []AcknowledgedCancelHolds
<1>1. IInv => AcknowledgedCancelHolds
  BY DEF IInv, AckedInv, AcknowledgedCancelHolds
<1>2. QED
  BY Invariance, <1>1, PTL

\* Whoever sees a completed job finds its final output.
THEOREM CompletedHasFinalRun == Spec => []CompletedHasResult
<1>1. IInv => CompletedHasResult
  BY DEF IInv, RunInv
<1>2. QED
  BY Invariance, <1>1, PTL

\* While the process is up and no statement failed, no job is in flight that the
\* worker does not hold.
THEOREM InFlightHasOwner == Spec => []InFlightIsHeld
<1>1. IInv => InFlightIsHeld
  BY DEF IInv
<1>2. QED
  BY Invariance, <1>1, PTL

-----------------------------------------------------------------------------
(* The queue implements its lifecycle                                      *)

\* Every action is a step of JobLifecycle or leaves the table as it is.
LEMMA LifecycleStep == IInv /\ IInv' /\ [Next]_vars => [JL!Next]_JL!vars
<1> SUFFICES ASSUME IInv, IInv', [Next]_vars
             PROVE  JL!Next \/ UNCHANGED <<status, taskOf>>
  BY DEF JL!vars
<1> USE JobsType DEF IInv, TypeOK, WorkerInv, HeldInv
<1>1. ASSUME NEW t \in Tasks, EnqueueAI(t)
      PROVE  JL!Next \/ UNCHANGED <<status, taskOf>>
  <2>1. PICK j \in Jobs : JL!Insert(j, t)
    BY <1>1
    DEF EnqueueAI, ActiveJobs, ActiveStatuses, JL!Insert, JL!Active,
        JL!ActiveStatuses
  <2>2. QED
    BY <2>1 DEF JL!Next
<1>2. ASSUME NEW t \in Tasks, DeleteTask(t)
      PROVE  JL!Next \/ UNCHANGED <<status, taskOf>>
  <2>1. JL!Delete(t)
    BY <1>2 DEF DeleteTask, JL!Delete
  <2>2. QED
    BY <2>1 DEF JL!Next
<1>3. ASSUME NEW j \in Jobs, CancelAI(j)
      PROVE  JL!Next \/ UNCHANGED <<status, taskOf>>
  <2>1. JL!Cancel({j})
    BY <1>3 DEF CancelAI, CancelStatus, JL!Cancel, JL!CancelStatus
  <2>2. QED
    BY <2>1 DEF JL!Next
<1>4. CASE Poll
  BY <1>4 DEF Poll, db
<1>5. CASE ClaimNext
  <2>1. PICK j \in Jobs : JL!Claim(j)
    BY <1>5 DEF ClaimNext, Pending, Rest, JL!Claim, JL!Move
  <2>2. QED
    BY <2>1 DEF JL!Next
<1>6. CASE NothingToClaim
  BY <1>6 DEF NothingToClaim, Release, Rest
<1>7. CASE MarkRunning
  <2>1. JL!Start(cur) \/ UNCHANGED <<status, taskOf>>
    BY <1>7 DEF MarkRunning, Rest, JL!Start, JL!Move
  <2>2. QED
    BY <1>7, <2>1 DEF MarkRunning, Holding, JL!Next
<1>8. CASE BeginAttempt
  BY <1>8 DEF BeginAttempt, Rest
<1>9. CASE Fail
  <2>1. JL!Stop(cur, "failed") \/ UNCHANGED <<status, taskOf>>
    BY <1>9 DEF Fail, Rest, Marked, JL!Stop, JL!Move
  <2>2. QED
    BY <1>9, <2>1 DEF Fail, Holding, JL!Next
<1>10. CASE SetupFails
  BY <1>10 DEF SetupFails, Rest
<1>11. CASE StartHarness
  BY <1>11 DEF StartHarness, Rest
<1>12. ASSUME NEW o \in {"completed", "failed"}, HarnessReturns(o)
      PROVE  JL!Next \/ UNCHANGED <<status, taskOf>>
  BY <1>12 DEF HarnessReturns, Rest
<1>13. CASE FinishRead
  BY <1>13 DEF FinishRead, Rest
<1>14. CASE FinishAI
  <2>1. CASE status[cur] = "running" /\ verdict = "completed"
    <3>1. JL!Complete(cur)
      BY <1>14, <2>1
      DEF FinishAI, FinishStatus, InFlight, Rest, JL!Complete, JL!Move
    <3>2. QED
      BY <1>14, <3>1 DEF FinishAI, Holding, JL!Next
  <2>2. CASE status[cur] = "running" /\ verdict # "completed"
    <3>1. JL!Stop(cur, verdict)
      BY <1>14, <2>2 DEF FinishAI, FinishStatus, InFlight, Rest, JL!Stop, JL!Move
    <3>2. QED
      BY <1>14, <2>2, <3>1 DEF FinishAI, Holding, JL!Next
  <2>3. CASE status[cur] = "canceling"
    <3>1. JL!Stop(cur, "canceled")
      BY <1>14, <2>3 DEF FinishAI, FinishStatus, InFlight, Rest, JL!Stop, JL!Move
    <3>2. QED
      BY <1>14, <3>1 DEF FinishAI, Holding, JL!Next
  <2>4. CASE status[cur] = "deleted"
    BY <1>14, <2>4 DEF FinishAI, InFlight, Rest
  <2>5. QED
    BY <1>14, <2>1, <2>2, <2>3, <2>4 DEF FinishAI, Marked
<1>15. CASE BeginAttemptErr
  BY <1>15 DEF BeginAttemptErr, Rest
<1>16. CASE WatchCancel
  BY <1>16 DEF WatchCancel, db
<1>17. CASE Abandon
  BY <1>17 DEF Abandon, Release, Rest
<1>18. CASE Shutdown
  BY <1>18 DEF Shutdown, db
<1>19. CASE Exit
  BY <1>19 DEF Exit, db
<1>20. CASE Crash
  BY <1>20 DEF Crash, db
<1>21. CASE Start
  <2>1. JL!Interrupt
    BY <1>21 DEF Start, InFlight, JL!Interrupt, JL!InFlight
  <2>2. QED
    BY <2>1 DEF JL!Next
<1>22. CASE UNCHANGED vars
  BY <1>22 DEF vars, db, worker
<1>23. QED
  BY <1>1, <1>2, <1>3, <1>4, <1>5, <1>6, <1>7, <1>8, <1>9, <1>10, <1>11, <1>12,
     <1>13, <1>14, <1>15, <1>16, <1>17, <1>18, <1>19, <1>20, <1>21, <1>22
  DEF Next, Step

\* Every behaviour of the queue, its worker and its callers is a behaviour of
\* JobLifecycle: what the rest of the program relies on.
THEOREM Refinement == Spec => ImplementsLifecycle
<1>1. Init => JL!Init
  BY DEF Init, JL!Init
<1>2. QED
  BY <1>1, Invariance, LifecycleStep, PTL DEF Spec, ImplementsLifecycle, JL!Spec
=============================================================================
