---------------------------- MODULE Environments ----------------------------
(***************************************************************************)
(* Branch environments: previews of a branch that run in a cluster. The    *)
(* rows of task_environment (store.go), the controller that reconciles     *)
(* them (service.go), and the cards people click on (environment-card.tsx, *)
(* environments-tab.tsx).                                                  *)
(*                                                                         *)
(* A row says what is desired and what was observed. Every three seconds   *)
(* the controller reads the rows and starts an operation for each that has *)
(* none. An operation works on the copy of the row it was started with,    *)
(* for minutes, while people stop, delete and restart what it works on.    *)
(* One project; an environment stands for the request key that creates it. *)
(***************************************************************************)
EXTENDS Naturals, FiniteSets

CONSTANTS
    Envs,           \* environments, by request key
    AutoEnvs,       \* those that the controller requests for a finished run
    MaxRunning,     \* settings.maxRunning
    MaxEnvFaults,   \* bound on failing external commands, on failing tests too
    MaxEnvRestarts, \* bound on restarts of the process
    MaxEnvClicks    \* bound on what people ask for

ASSUME EnvAssumption ==
    /\ IsFiniteSet(Envs) /\ AutoEnvs \subseteq Envs
    /\ MaxRunning \in Nat /\ MaxEnvFaults \in Nat
    /\ MaxEnvRestarts \in Nat /\ MaxEnvClicks \in Nat

VARIABLES
    env,        \* task_environment
    workload,   \* the cluster: does the environment have pods?
    op,         \* Service.operations: the goroutine of each environment
    builder,    \* Service.builds: who holds the one build slot
    tick,       \* the controller's loop: where it is, the rows it has read
    envFaults, envRestarts, envClicks

envVars == <<env, workload, op, builder, tick, envFaults, envRestarts, envClicks>>

Desires == {"running", "stopped", "deleted"}
EnvStates == {"none", "queued", "snapshotting", "building", "starting", "ready",
              "unavailable", "failed", "stopping", "stopped", "deleting", "deleted"}
(* digest: the source was captured; image: it was built. *)
Rows == [state : EnvStates, desired : Desires, digest : BOOLEAN, image : BOOLEAN,
         test : {"pending", "running", "passed", "failed"}]
NoRow == [state |-> "none", desired |-> "stopped", digest |-> FALSE, image |-> FALSE,
          test |-> "pending"]

Steps == {"begin", "capture", "slot", "build", "start", "probe", "inspect",
          "cleanup", "cleaned", "unclean", "failing", "done"}
NoOp == [on |-> FALSE, canceled |-> FALSE, at |-> "done", e |-> NoRow]

EnvTypeOK ==
    /\ env \in [Envs -> Rows]
    /\ workload \in [Envs -> BOOLEAN]
    /\ op \in [Envs -> [on : BOOLEAN, canceled : BOOLEAN, at : Steps, e : Rows]]
    /\ builder \in SUBSET Envs
    /\ tick \in [at : {"list", "launch"}, list : [Envs -> Rows]]
    /\ envFaults \in 0..MaxEnvFaults
    /\ envRestarts \in 0..MaxEnvRestarts
    /\ envClicks \in 0..MaxEnvClicks

NothingListed == [e \in Envs |-> NoRow]
Idling == [at |-> "list", list |-> NothingListed]

EnvInit ==
    /\ env = [e \in Envs |-> NoRow]
    /\ workload = [e \in Envs |-> FALSE]
    /\ op = [e \in Envs |-> NoOp]
    /\ builder = {}
    /\ tick = Idling
    /\ envFaults = 0 /\ envRestarts = 0 /\ envClicks = 0

-----------------------------------------------------------------------------
(* The store *)

(* Insert and Start keep the place of an environment until its cleanup is   *)
(* confirmed: failed and stopping ones may still have pods.                 *)
Counted == {e \in Envs : env[e].state \notin {"none", "stopped", "deleted"}}

HasRoom(e) == Cardinality(Counted \ {e}) < MaxRunning

(* Create and Insert: a key that is known returns its environment. *)
Created(e) ==
    IF env[e].state = "none" /\ HasRoom(e)
    THEN [env EXCEPT ![e] = [NoRow EXCEPT !.state = "queued", !.desired = "running"]]
    ELSE env

(* variant: the desired state of the copy is stored too *)
ObservedAnyway(e, copy) == [env EXCEPT ![e] = copy]

(* Observe: a row whose desired state has changed since is left alone. *)
Observed(e, copy) ==
    IF env[e].desired = copy.desired
    THEN [env EXCEPT ![e] = copy]
    ELSE env

(* variant: the state to observe is written as the desired one *)
StoppingSwapped(row) == [row EXCEPT !.desired = "stopping", !.state = "stopped"]

(* Action "stop", the statement of Expire, and of Bulk. *)
Stopping(row) == [row EXCEPT !.desired = "stopped", !.state = "stopping"]
Deleting(row) == [row EXCEPT !.desired = "deleted", !.state = "deleting"]

Startable(e) ==
    /\ env[e].desired # "deleted" /\ env[e].state \in {"stopped", "failed"}
    /\ env[e].test # "failed"
    /\ HasRoom(e)

-----------------------------------------------------------------------------
(* People. The server checks again what the buttons of a card show. Nothing *)
(* keeps them from acting between the controller's read and its launches.   *)

EnvClick ==
    /\ envClicks < MaxEnvClicks
    /\ envClicks' = envClicks + 1

(* "New preview", and "Rebuild" with its new key. *)
NewPreview(e) ==
    /\ e \notin AutoEnvs
    /\ EnvClick
    /\ env[e].state = "none" /\ env' = Created(e)
    /\ UNCHANGED <<workload, op, builder, tick, envFaults, envRestarts>>

StartPreview(e) ==
    /\ EnvClick
    /\ Startable(e)
    /\ env' = [env EXCEPT ![e].desired = "running", ![e].state = "queued"]
    /\ UNCHANGED <<workload, op, builder, tick, envFaults, envRestarts>>

(* One card, or the selected ones in one statement. *)
AskedOf(S, rows) ==
    /\ EnvClick
    /\ env' = [e \in Envs |-> IF e \in S THEN rows[e] ELSE env[e]]
    /\ UNCHANGED <<workload, op, builder, tick, envFaults, envRestarts>>

Kept == {e \in Envs : env[e].state \notin {"none", "deleted"} /\ env[e].desired # "deleted"}

StopPreviews ==
    \E S \in (SUBSET Kept) \ {{}} : AskedOf(S, [e \in S |-> Stopping(env[e])])

DeletePreviews ==
    \E S \in (SUBSET Kept) \ {{}} : AskedOf(S, [e \in S |-> Deleting(env[e])])

-----------------------------------------------------------------------------
(* The controller's tick: Expire, autoPreview, List, and the launches *)

(* Time passes: running previews that nobody opened or pinned are overdue. *)
Expire ==
    /\ tick.at = "list"
    /\ \E e \in Envs :
          /\ env[e].desired = "running"
          /\ env' = [env EXCEPT ![e] = Stopping(@)]
    /\ UNCHANGED <<workload, op, builder, tick, envFaults, envRestarts, envClicks>>

(* A run that has finished since the last tick gets its preview. *)
AutoPreview ==
    /\ tick.at = "list"
    /\ \E e \in AutoEnvs : env[e].state = "none" /\ env' = Created(e)
    /\ UNCHANGED <<workload, op, builder, tick, envFaults, envRestarts, envClicks>>

(* variant: List leaves out everything that is to be stopped *)
LiveByDesire(row) == row.state \notin {"none", "deleted"} /\ row.desired # "stopped"

(* List leaves out what is deleted, and what is stopped for good. *)
Live(row) ==
    /\ row.state \notin {"none", "deleted"}
    /\ ~(row.state = "stopped" /\ row.desired = "stopped")

ListRows ==
    /\ tick.at = "list"
    /\ tick' = [at |-> "launch",
                list |-> [e \in Envs |-> IF Live(env[e]) THEN env[e] ELSE NoRow]]
    /\ UNCHANGED <<env, workload, op, builder, envFaults, envRestarts, envClicks>>

(* Under the mutex, from the rows read before: an operation for another     *)
(* desired state is canceled, and the rows without one get theirs.          *)
Launched(e) ==
    LET row == tick.list[e]
    IN IF row = NoRow THEN op[e]
       ELSE IF op[e].on THEN [op[e] EXCEPT !.canceled = @ \/ op[e].e.desired # row.desired]
       ELSE IF row.state = "failed" /\ row.desired = "running" THEN op[e]
       ELSE [on |-> TRUE, canceled |-> FALSE, at |-> "begin", e |-> row]

Launch ==
    /\ tick.at = "launch"
    /\ tick' = Idling
    /\ op' = [e \in Envs |-> Launched(e)]
    /\ UNCHANGED <<env, workload, builder, envFaults, envRestarts, envClicks>>

-----------------------------------------------------------------------------
(* reconcile *)

At(e, step) == op[e].on /\ op[e].at = step

(* The operation goes on with this copy; Observe stores it. *)
Moves(e, step, copy) ==
    /\ op' = [op EXCEPT ![e].at = step, ![e].e = copy]
    /\ env' = Observed(e, copy)

Quietly(e, step, copy) ==
    /\ op' = [op EXCEPT ![e].at = step, ![e].e = copy]
    /\ UNCHANGED env

(* A command fails: by itself, or because its context was canceled. *)
Fails(e) ==
    \/ op[e].canceled /\ UNCHANGED envFaults
    \/ envFaults < MaxEnvFaults /\ envFaults' = envFaults + 1

(* The stages of a start whose result is already known are skipped. *)
NextStage(e, copy) ==
    IF ~copy.digest THEN Moves(e, "capture", [copy EXCEPT !.state = "snapshotting"])
    ELSE IF ~copy.image THEN Moves(e, "slot", [copy EXCEPT !.state = "building"])
    ELSE Moves(e, "start", [copy EXCEPT !.state = "starting", !.test = "running"])

Begin(e) ==
    /\ At(e, "begin")
    /\ LET copy == op[e].e
       IN CASE copy.desired = "deleted" -> Moves(e, "cleanup", [copy EXCEPT !.state = "deleting"])
            [] copy.desired = "stopped" -> Moves(e, "cleanup", [copy EXCEPT !.state = "stopping"])
            [] copy.desired = "running" /\ copy.state \in {"ready", "unavailable"} ->
                    Quietly(e, "inspect", copy)
            [] OTHER -> NextStage(e, copy)
    /\ UNCHANGED <<workload, builder, tick, envFaults, envRestarts, envClicks>>

(* Runtime.Stop and Runtime.Destroy. One that fails may have done its work. *)
Cleanup(e) ==
    /\ At(e, "cleanup")
    /\ \/ /\ workload' = [workload EXCEPT ![e] = FALSE]
          /\ Quietly(e, "cleaned", op[e].e)
          /\ UNCHANGED envFaults
       \/ /\ Fails(e)
          /\ \E left \in {workload[e], FALSE} : workload' = [workload EXCEPT ![e] = left]
          /\ Quietly(e, "unclean", op[e].e)
    /\ UNCHANGED <<builder, tick, envRestarts, envClicks>>

(* variant: the state to come is stored before the outcome is looked at *)
CleanedAnyway(e) ==
    /\ At(e, "cleaned") \/ At(e, "unclean")
    /\ Moves(e, "done", [op[e].e EXCEPT !.state = IF @ = "deleting" THEN "deleted" ELSE "stopped"])
    /\ UNCHANGED <<workload, builder, tick, envFaults, envRestarts, envClicks>>

Cleaned(e) ==
    /\ \/ /\ At(e, "cleaned")
          /\ Moves(e, "done", [op[e].e EXCEPT !.state =
                                  IF @ = "deleting" THEN "deleted" ELSE "stopped"])
       \/ /\ At(e, "unclean")
          /\ IF op[e].canceled THEN Quietly(e, "done", op[e].e) ELSE Moves(e, "done", op[e].e)
    /\ UNCHANGED <<workload, builder, tick, envFaults, envRestarts, envClicks>>

(* A ready preview that cannot be reached is unavailable, and not rebuilt. *)
Inspect(e) ==
    /\ At(e, "inspect")
    /\ IF op[e].canceled THEN Quietly(e, "done", op[e].e)
       ELSE \E seen \in {"ready", "unavailable"} :
               /\ seen = "ready" => workload[e]
               /\ Moves(e, "done", [op[e].e EXCEPT !.state = seen])
    /\ UNCHANGED <<workload, builder, tick, envFaults, envRestarts, envClicks>>

Capture(e) ==
    /\ At(e, "capture")
    /\ \/ NextStage(e, [op[e].e EXCEPT !.digest = TRUE]) /\ UNCHANGED envFaults
       \/ Fails(e) /\ Quietly(e, "failing", op[e].e)
    /\ UNCHANGED <<workload, builder, tick, envRestarts, envClicks>>

(* One build at a time; who waits gives up at its deadline, or when canceled. *)
TakeSlot(e) ==
    /\ At(e, "slot")
    /\ \/ /\ builder = {}
          /\ builder' = {e}
          /\ Quietly(e, "build", op[e].e)
          /\ UNCHANGED envFaults
       \/ /\ Fails(e)
          /\ Quietly(e, "failing", op[e].e)
          /\ UNCHANGED builder
    /\ UNCHANGED <<workload, tick, envRestarts, envClicks>>

Build(e) ==
    /\ At(e, "build")
    /\ builder' = {}
    /\ \/ NextStage(e, [op[e].e EXCEPT !.image = TRUE]) /\ UNCHANGED envFaults
       \/ Fails(e) /\ Quietly(e, "failing", op[e].e)
    /\ UNCHANGED <<workload, tick, envRestarts, envClicks>>

(* Runtime.Start: the tests run in the cluster, then the application. *)
StartRuntime(e) ==
    /\ At(e, "start")
    /\ \/ /\ workload' = [workload EXCEPT ![e] = TRUE]
          /\ Quietly(e, "probe", [op[e].e EXCEPT !.test = "passed"])
          /\ UNCHANGED envFaults
       \/ /\ Fails(e)
          /\ \E result \in {"running", "failed"}, pods \in {workload[e], TRUE} :
                /\ result = "failed" => pods
                /\ workload' = [workload EXCEPT ![e] = pods]
                /\ Quietly(e, "failing", [op[e].e EXCEPT !.test = result])
    /\ UNCHANGED <<builder, tick, envRestarts, envClicks>>

(* The loop of Inspect until the preview answers, or the deadline. *)
Probe(e) ==
    /\ At(e, "probe")
    /\ \/ Moves(e, "done", [op[e].e EXCEPT !.state = "ready"]) /\ UNCHANGED envFaults
       \/ Fails(e) /\ Quietly(e, "failing", op[e].e)
    /\ UNCHANGED <<workload, builder, tick, envRestarts, envClicks>>

(* fail: a canceled operation says nothing. *)
Failing(e) ==
    /\ At(e, "failing")
    /\ IF op[e].canceled THEN Quietly(e, "done", op[e].e)
       ELSE Moves(e, "done", [op[e].e EXCEPT !.state = "failed"])
    /\ UNCHANGED <<workload, builder, tick, envFaults, envRestarts, envClicks>>

(* The deferred removal of the operation. *)
Done(e) ==
    /\ At(e, "done")
    /\ op' = [op EXCEPT ![e] = NoOp]
    /\ UNCHANGED <<env, workload, builder, tick, envFaults, envRestarts, envClicks>>

(* The process ends at any point and is started again. *)
EnvRestart ==
    /\ envRestarts < MaxEnvRestarts
    /\ envRestarts' = envRestarts + 1
    /\ op' = [e \in Envs |-> NoOp]
    /\ builder' = {}
    /\ tick' = Idling
    /\ UNCHANGED <<env, workload, envFaults, envClicks>>

Reconcile(e) ==
    \/ Begin(e) \/ Cleanup(e) \/ Cleaned(e) \/ Inspect(e) \/ Capture(e) \/ TakeSlot(e)
    \/ Build(e) \/ StartRuntime(e) \/ Probe(e) \/ Failing(e) \/ Done(e)

EnvTick == ListRows \/ Launch

EnvNext ==
    \/ \E e \in Envs : NewPreview(e) \/ StartPreview(e) \/ Reconcile(e)
    \/ StopPreviews \/ DeletePreviews
    \/ Expire \/ AutoPreview
    \/ EnvTick
    \/ EnvRestart

(* The ticker fires again and again, and commands return: they all have     *)
(* deadlines.                                                               *)
EnvFairness ==
    /\ WF_envVars(EnvTick)
    /\ \A e \in Envs : WF_envVars(Reconcile(e))

EnvSpec == EnvInit /\ [][EnvNext]_envVars
FairEnvSpec == EnvSpec /\ EnvFairness

-----------------------------------------------------------------------------
(* Properties *)

(* Previews that are to run hold their places, and a project never asks for *)
(* more of them than it allows: not by a late observation, after a failed   *)
(* cleanup, by an operation on an old copy, or after a restart.             *)
PlacesAreKept ==
    /\ \A e \in Envs : env[e].desired = "running" => e \in Counted
    /\ Cardinality({e \in Envs : env[e].desired = "running"}) <= MaxRunning

(* "Stop/Delete is not considered complete until the runtime confirms it"   *)
(* (kubernetes-architecture.md): a row is called stopped or deleted, which  *)
(* gives its place away, only at a moment when it has no pods.              *)
Confirmed(e) == e \in Counted /\ e \notin Counted' => ~workload[e] /\ ~workload'[e]

CleanupIsConfirmed == [][\A e \in Envs : Confirmed(e)]_envVars

(* "Keep the reservation until cleanup confirms there are no running pods." *)
(* (store.go): pods run only for environments that hold a place, so that a  *)
(* project never runs more previews than it allows.                         *)
CapacityHolds ==
    /\ \A e \in Envs : workload[e] => e \in Counted
    /\ Cardinality({e \in Envs : workload[e]}) <= MaxRunning

(* A stop or a delete ends: whatever operation was under way, the pods go   *)
(* away, unless somebody asks for something else.                           *)
StopCompletes ==
    \A e \in Envs :
        /\ env[e].desired = "stopped" /\ env[e].state = "stopping" ~>
              (env[e].state = "stopped" /\ ~workload[e]) \/ env[e].desired # "stopped"
        /\ env[e].desired = "deleted" ~> env[e].state = "deleted" /\ ~workload[e]
=============================================================================
