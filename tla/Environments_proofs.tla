------------------------ MODULE Environments_proofs ------------------------
(***************************************************************************)
(* Proofs about the preview environments, for any number of previews,      *)
(* clicks at any moment, restarts and failing commands: their types, that  *)
(* what is to run holds a place and never exceeds what the project allows, *)
(* and that a place is given away only when the pods are gone.             *)
(***************************************************************************)
EXTENDS Environments, FiniteSetTheorems, TLAPS

(* The places that are taken for what is to run. *)
PlacesTaken == {e \in Envs : env[e].desired = "running"}

PlacesHold ==
    /\ PlacesTaken \subseteq Counted
    /\ Cardinality(PlacesTaken) <= MaxRunning

(* An operation starts a preview only from a copy that is to run, and tells *)
(* the row that it is gone only when the pods are.                          *)
CopyFits(step, copy, pods) ==
    /\ step \in {"capture", "slot", "build", "start", "probe", "failing", "inspect"}
          => copy.desired = "running"
    /\ step \in {"cleanup", "cleaned", "unclean"}
          => /\ copy.desired # "running"
             /\ copy.state = IF copy.desired = "deleted" THEN "deleting" ELSE "stopping"
    /\ step = "cleaned" => ~pods

OpFits(e) == op[e].on => CopyFits(op[e].at, op[e].e, workload[e])

OpsFit == \A e \in Envs : OpFits(e)

EnvInv == EnvTypeOK /\ OpsFit /\ PlacesHold

(* What every step does: it keeps the invariant, and confirms what it frees. *)
Safe == EnvInv' /\ \A e \in Envs : Confirmed(e)

-----------------------------------------------------------------------------
(* Places *)

(* What may run after a step that frees or keeps places fits in them. *)
LEMMA PlacesKept ==
  ASSUME PlacesHold, PlacesTaken' \subseteq PlacesTaken, PlacesTaken' \subseteq Counted'
  PROVE  PlacesHold'
<1>1. IsFiniteSet(PlacesTaken)
  BY EnvAssumption, FS_Subset DEF PlacesTaken
<1>2. Cardinality(PlacesTaken') <= Cardinality(PlacesTaken) /\ Cardinality(PlacesTaken) \in Nat
      /\ Cardinality(PlacesTaken') \in Nat
  BY <1>1, FS_Subset, FS_CardinalityType
<1>. QED
  BY <1>2, EnvAssumption DEF PlacesHold

(* A start that found room takes one place. *)
LEMMA PlaceTaken ==
  ASSUME PlacesHold, NEW e \in Envs, HasRoom(e),
         PlacesTaken' \subseteq PlacesTaken \cup {e}, PlacesTaken' \subseteq Counted'
  PROVE  PlacesHold'
<1>1. IsFiniteSet(Counted \ {e})
  BY EnvAssumption, FS_Subset DEF Counted
<1>2. Cardinality(Counted \ {e}) \in Nat
  BY <1>1, FS_CardinalityType
<1>3. /\ IsFiniteSet((Counted \ {e}) \cup {e})
      /\ Cardinality((Counted \ {e}) \cup {e}) = Cardinality(Counted \ {e}) + 1
  BY <1>1, FS_AddElement
<1>4. PlacesTaken' \in SUBSET ((Counted \ {e}) \cup {e})
  BY DEF PlacesHold
<1>5. Cardinality(PlacesTaken') <= Cardinality(Counted \ {e}) + 1 /\ Cardinality(PlacesTaken') \in Nat
  BY <1>3, <1>4, FS_Subset, FS_CardinalityType
<1>. QED
  BY <1>2, <1>5, EnvAssumption DEF PlacesHold, HasRoom

-----------------------------------------------------------------------------
(* People, and the controller's own requests: only rows change *)

LEMMA ClickBound == ASSUME EnvInv, EnvClick PROVE envClicks' \in 0..MaxEnvClicks
  BY EnvAssumption DEF EnvInv, EnvTypeOK, EnvClick

(* A request changes rows and leaves them their places. What is to run      *)
(* after it was to run before, or is one row more, for which there was room.*)
LEMMA RequestStep ==
  ASSUME EnvInv, UNCHANGED <<workload, op, builder, tick, envFaults, envRestarts>>,
         envClicks' \in 0..MaxEnvClicks, env' \in [Envs -> Rows],
         Counted \subseteq Counted',
         \/ \A e \in Envs : env'[e].desired = "running" => env[e].desired = "running"
         \/ \E e \in Envs : /\ HasRoom(e) /\ e \in Counted'
                            /\ \A d \in Envs \ {e} : env'[d] = env[d]
  PROVE  Safe
<1>. USE DEF EnvInv
<1>1. PlacesHold'
  <2>1. CASE \A e \in Envs : env'[e].desired = "running" => env[e].desired = "running"
    <3>1. PlacesTaken' \subseteq PlacesTaken
      BY <2>1 DEF PlacesTaken
    <3>. QED
      BY <3>1, PlacesKept DEF PlacesHold
  <2>2. ASSUME NEW e \in Envs, HasRoom(e), e \in Counted', \A d \in Envs \ {e} : env'[d] = env[d]
        PROVE  PlacesHold'
    <3>1. PlacesTaken' \subseteq PlacesTaken \cup {e}
      BY <2>2 DEF PlacesTaken
    <3>. QED
      BY <2>2, <3>1, PlaceTaken DEF PlacesHold
  <2>. QED
    BY <2>1, <2>2
<1>2. EnvTypeOK'
  BY DEF EnvTypeOK
<1>3. OpsFit'
  BY DEF OpsFit, OpFits
<1>4. \A e \in Envs : Confirmed(e)
  BY DEF Confirmed
<1>. QED
  BY <1>1, <1>2, <1>3, <1>4 DEF Safe

LEMMA RowMade ==
  ASSUME NEW r \in Rows
  PROVE  /\ Stopping(r) \in Rows /\ Stopping(r).state = "stopping" /\ Stopping(r).desired = "stopped"
         /\ Deleting(r) \in Rows /\ Deleting(r).state = "deleting" /\ Deleting(r).desired = "deleted"
  BY DEF Stopping, Deleting, Rows, Desires, EnvStates

LEMMA CreatedStep ==
  ASSUME EnvInv, NEW e \in Envs, env[e].state = "none", env' = Created(e),
         UNCHANGED <<workload, op, builder, tick, envFaults, envRestarts>>,
         envClicks' \in 0..MaxEnvClicks
  PROVE  Safe
<1>. DEFINE new == [NoRow EXCEPT !.state = "queued", !.desired = "running"]
<1>1. new \in Rows /\ new.state = "queued" /\ new.desired = "running"
  BY DEF NoRow, Rows, Desires, EnvStates
<1>. HIDE DEF new
<1>2. env \in [Envs -> Rows]
  BY DEF EnvInv, EnvTypeOK
<1>3. CASE HasRoom(e)
  <2>1. env' = [env EXCEPT ![e] = new]
    BY <1>3 DEF Created, new
  <2>2. env' \in [Envs -> Rows] /\ \A d \in Envs \ {e} : env'[d] = env[d]
    BY <2>1, <1>1, <1>2
  <2>3. e \in Counted' /\ Counted \subseteq Counted'
    BY <2>1, <1>1, <1>2 DEF Counted
  <2>. QED
    BY <1>3, <2>2, <2>3, RequestStep
<1>4. CASE ~HasRoom(e)
  <2>1. env' = env
    BY <1>4 DEF Created
  <2>2. Counted' = Counted
    BY <2>1 DEF Counted
  <2>. QED
    BY <2>1, <2>2, <1>2, RequestStep
<1>. QED
  BY <1>3, <1>4

(* A step of one person, or of the controller for them. *)
LEMMA PeopleStep ==
  ASSUME EnvInv,
         \/ \E e \in Envs : NewPreview(e) \/ StartPreview(e)
         \/ StopPreviews \/ DeletePreviews \/ Expire \/ AutoPreview
  PROVE  Safe
<1>. USE DEF EnvInv
<1>0. env \in [Envs -> Rows] /\ envClicks \in 0..MaxEnvClicks
  BY DEF EnvTypeOK
<1>1. ASSUME NEW e \in Envs, NewPreview(e) PROVE Safe
  BY <1>1, <1>0, CreatedStep, ClickBound DEF NewPreview, EnvClick
<1>2. ASSUME NEW e \in Envs, StartPreview(e) PROVE Safe
  <2>. DEFINE row == [env[e] EXCEPT !.desired = "running", !.state = "queued"]
  <2>1. row \in Rows /\ row.state = "queued" /\ row.desired = "running"
    BY <1>0 DEF Rows, Desires, EnvStates
  <2>2. env' = [env EXCEPT ![e] = row]
    BY <1>2, <1>0 DEF StartPreview
  <2>. HIDE DEF row
  <2>3. env' \in [Envs -> Rows] /\ \A d \in Envs \ {e} : env'[d] = env[d]
    BY <2>1, <2>2, <1>0
  <2>4. e \in Counted' /\ Counted \subseteq Counted'
    BY <2>1, <2>2, <1>0 DEF Counted
  <2>5. HasRoom(e) /\ envClicks' \in 0..MaxEnvClicks
    BY <1>2, <1>0, ClickBound DEF StartPreview, Startable, EnvClick
  <2>. QED
    BY <1>2, <2>3, <2>4, <2>5, RequestStep DEF StartPreview
<1>3. ASSUME NEW S \in SUBSET Kept, NEW rows \in [S -> Rows],
             \A e \in S : rows[e].state \in {"stopping", "deleting"} /\ rows[e].desired # "running",
             AskedOf(S, rows)
      PROVE  Safe
  <2>1. env' = [e \in Envs |-> IF e \in S THEN rows[e] ELSE env[e]]
    BY <1>3 DEF AskedOf
  <2>2. env' \in [Envs -> Rows]
    BY <2>1, <1>0, <1>3
  <2>3. \A e \in Envs : env'[e].desired = "running" => env[e].desired = "running"
    BY <2>1, <1>3
  <2>4. Counted \subseteq Counted'
    BY <2>1, <1>3 DEF Counted
  <2>5. envClicks' \in 0..MaxEnvClicks
    BY <1>3, <1>0, ClickBound DEF AskedOf, EnvClick
  <2>. QED
    BY <1>3, <2>2, <2>3, <2>4, <2>5, RequestStep DEF AskedOf
<1>4. CASE StopPreviews
  <2>1. PICK S \in (SUBSET Kept) \ {{}} : AskedOf(S, [e \in S |-> Stopping(env[e])])
    BY <1>4 DEF StopPreviews
  <2>. DEFINE rows == [e \in S |-> Stopping(env[e])]
  <2>2. S \subseteq Envs
    BY DEF Kept
  <2>3. rows \in [S -> Rows] /\ \A e \in S : rows[e].state = "stopping" /\ rows[e].desired = "stopped"
    BY <1>0, <2>2, RowMade
  <2>. HIDE DEF rows
  <2>. QED
    BY <1>3, <2>1, <2>3 DEF rows
<1>5. CASE DeletePreviews
  <2>1. PICK S \in (SUBSET Kept) \ {{}} : AskedOf(S, [e \in S |-> Deleting(env[e])])
    BY <1>5 DEF DeletePreviews
  <2>. DEFINE rows == [e \in S |-> Deleting(env[e])]
  <2>2. S \subseteq Envs
    BY DEF Kept
  <2>3. rows \in [S -> Rows] /\ \A e \in S : rows[e].state = "deleting" /\ rows[e].desired = "deleted"
    BY <1>0, <2>2, RowMade
  <2>. HIDE DEF rows
  <2>. QED
    BY <1>3, <2>1, <2>3 DEF rows
<1>6. CASE Expire
  <2>1. PICK e \in Envs : env[e].desired = "running" /\ env' = [env EXCEPT ![e] = Stopping(env[e])]
    BY <1>6 DEF Expire
  <2>2. env[e] \in Rows
    BY <1>0
  <2>3. env' \in [Envs -> Rows] /\ env'[e].state = "stopping" /\ env'[e].desired = "stopped"
        /\ \A d \in Envs \ {e} : env'[d] = env[d]
    BY <2>1, <2>2, <1>0, RowMade
  <2>4. Counted \subseteq Counted'
    BY <2>3 DEF Counted
  <2>5. \A d \in Envs : env'[d].desired = "running" => env[d].desired = "running"
    BY <2>3
  <2>. QED
    BY <1>6, <1>0, <2>3, <2>4, <2>5, RequestStep DEF Expire
<1>7. CASE AutoPreview
  BY <1>7, <1>0, EnvAssumption, CreatedStep DEF AutoPreview
<1>. QED
  BY <1>1, <1>2, <1>4, <1>5, <1>6, <1>7

-----------------------------------------------------------------------------
(* Operations *)

(* An operation goes on, with the same desired state in its copy. What it   *)
(* tells the row leaves the row its place, unless the pods are gone and     *)
(* nothing that may run is left.                                            *)
LEMMA OperationStep ==
  ASSUME EnvInv, NEW e \in Envs, op[e].on, NEW step \in Steps, NEW copy \in Rows,
         copy.desired = op[e].e.desired, op' = [op EXCEPT ![e].at = step, ![e].e = copy],
         \/ UNCHANGED env
         \/ env' = Observed(e, copy) /\ copy.state \notin {"none", "stopped", "deleted"}
         \/ /\ env' = Observed(e, copy)
            /\ copy.desired # "running" /\ ~workload[e]
            /\ copy.state = IF copy.desired = "deleted" THEN "deleted" ELSE "stopped",
         workload' \in [Envs -> BOOLEAN], \A d \in Envs \ {e} : workload'[d] = workload[d],
         workload'[e] => workload[e] \/ copy.desired = "running",
         CopyFits(step, copy, workload'[e]), UNCHANGED <<tick, envClicks, envRestarts>>,
         builder' \in SUBSET Envs, envFaults' \in 0..MaxEnvFaults
  PROVE  Safe
<1>. USE DEF EnvInv
<1>1. /\ env \in [Envs -> Rows] /\ workload \in [Envs -> BOOLEAN]
      /\ op \in [Envs -> [on : BOOLEAN, canceled : BOOLEAN, at : Steps, e : Rows]]
  BY DEF EnvTypeOK
<1>2. /\ op' \in [Envs -> [on : BOOLEAN, canceled : BOOLEAN, at : Steps, e : Rows]]
      /\ \A d \in Envs \ {e} : op'[d] = op[d]
      /\ op'[e].on = op[e].on /\ op'[e].e = copy /\ op'[e].at = step
  <2>. DEFINE next == [op[e] EXCEPT !.at = step, !.e = copy]
  <2>1. next \in [on : BOOLEAN, canceled : BOOLEAN, at : Steps, e : Rows]
        /\ next.on = op[e].on /\ next.e = copy /\ next.at = step
    BY <1>1
  <2>2. op' = [op EXCEPT ![e] = next]
    BY <1>1
  <2>. HIDE DEF next
  <2>. QED
    BY <2>1, <2>2, <1>1
<1>3. /\ env' \in [Envs -> Rows]
      /\ \A d \in Envs \ {e} : env'[d] = env[d]
      /\ \A d \in Envs : env'[d].desired = env[d].desired
      /\ env'[e] # env[e] => env'[e] = copy /\ env' = Observed(e, copy) /\ env[e].desired = copy.desired
  BY <1>1 DEF Observed
<1>4. EnvTypeOK'
  BY <1>1, <1>2, <1>3 DEF EnvTypeOK
<1>5. OpsFit'
  BY <1>2 DEF OpsFit, OpFits
<1>6. PlacesTaken' = PlacesTaken
  BY <1>3 DEF PlacesTaken
<1>7. ASSUME NEW d \in Envs, d \in Counted, d \notin Counted'
      PROVE  d = e /\ env[e].desired # "running" /\ ~workload[e] /\ copy.desired # "running"
  <2>1. d = e
    BY <1>3, <1>7 DEF Counted
  <2>2. env'[e] # env[e] /\ copy.state \in {"none", "stopped", "deleted"} /\ env[e].desired = copy.desired
    BY <1>3, <1>7, <2>1 DEF Counted
  <2>. QED
    BY <2>1, <2>2
<1>8. PlacesTaken' \subseteq Counted'
  BY <1>6, <1>7 DEF PlacesHold, PlacesTaken
<1>9. PlacesHold'
  BY <1>6, <1>8 DEF PlacesHold
<1>10. \A d \in Envs : Confirmed(d)
  BY <1>7 DEF Confirmed
<1>. QED
  BY <1>4, <1>5, <1>9, <1>10 DEF Safe

LEMMA FaultBound ==
  ASSUME EnvInv, NEW e \in Envs, Fails(e) \/ UNCHANGED envFaults
  PROVE  envFaults' \in 0..MaxEnvFaults
  BY EnvAssumption DEF EnvInv, EnvTypeOK, Fails

(* Where a start goes next: its copy is to run, and so is what it stores.   *)
LEMMA StartGoesOn ==
  ASSUME EnvInv, NEW e \in Envs, op[e].on, NEW copy \in Rows, NextStage(e, copy),
         copy.desired = "running", op[e].e.desired = "running",
         UNCHANGED <<workload, tick, envClicks, envRestarts>>,
         builder' \in SUBSET Envs, envFaults' \in 0..MaxEnvFaults
  PROVE  Safe
<1>0. /\ workload \in [Envs -> BOOLEAN]
      /\ op \in [Envs -> [on : BOOLEAN, canceled : BOOLEAN, at : Steps, e : Rows]]
  BY DEF EnvInv, EnvTypeOK
<1>1. ASSUME NEW step \in {"capture", "slot", "start"}, NEW next \in Rows, Moves(e, step, next),
             next.desired = "running", next.state \in {"snapshotting", "building", "starting"}
      PROVE  Safe
  <2>1. step \in Steps
    BY DEF Steps
  <2>2. CopyFits(step, next, workload'[e])
    BY <1>1 DEF CopyFits
  <2>. QED
    <3>1. /\ op' = [op EXCEPT ![e].at = step, ![e].e = next]
          /\ env' = Observed(e, next)
          /\ next.state \notin {"none", "stopped", "deleted"}
      BY <1>1 DEF Moves
    <3>2. /\ workload' \in [Envs -> BOOLEAN] /\ \A d \in Envs \ {e} : workload'[d] = workload[d]
          /\ workload'[e] => workload[e] \/ next.desired = "running"
      BY <1>0
    <3>3. next.desired = op[e].e.desired
      BY <1>1
    <3>. QED
      BY <2>1, <2>2, <3>1, <3>2, <3>3, OperationStep
<1>2. CASE ~copy.digest
  <2>1. [copy EXCEPT !.state = "snapshotting"] \in Rows
    BY DEF Rows, EnvStates
  <2>. QED
    BY <1>1, <1>2, <2>1 DEF NextStage, Rows
<1>3. CASE copy.digest /\ ~copy.image
  <2>1. [copy EXCEPT !.state = "building"] \in Rows
    BY DEF Rows, EnvStates
  <2>. QED
    BY <1>1, <1>3, <2>1 DEF NextStage, Rows
<1>4. CASE copy.digest /\ copy.image
  <2>1. [copy EXCEPT !.state = "starting", !.test = "running"] \in Rows
    BY DEF Rows, EnvStates
  <2>. QED
    BY <1>1, <1>4, <2>1 DEF NextStage, Rows
<1>. QED
  BY <1>2, <1>3, <1>4

(* Operations end: nothing else may run for it. *)
LEMMA FreedStep ==
  ASSUME EnvInv, NEW S \in SUBSET Envs, op' = [e \in Envs |-> IF e \in S THEN NoOp ELSE op[e]],
         UNCHANGED <<env, workload, envFaults, envClicks>>,
         builder' \in SUBSET Envs, envRestarts' \in 0..MaxEnvRestarts,
         tick' \in {tick, Idling}
  PROVE  Safe
<1>. USE DEF EnvInv
<1>1. NoRow \in Rows /\ NoOp \in [on : BOOLEAN, canceled : BOOLEAN, at : Steps, e : Rows]
      /\ ~NoOp.on /\ NoRow.desired = "stopped"
  BY DEF NoRow, Rows, Desires, EnvStates, NoOp, Steps
<1>2. tick' \in [at : {"list", "launch"}, list : [Envs -> Rows]]
  BY <1>1 DEF EnvTypeOK, Idling, NothingListed
<1>3. EnvTypeOK'
  BY <1>1, <1>2 DEF EnvTypeOK
<1>4. OpsFit'
  BY <1>1 DEF OpsFit, OpFits
<1>5. PlacesHold' /\ \A e \in Envs : Confirmed(e)
  BY DEF PlacesHold, PlacesTaken, Counted, Confirmed
<1>. QED
  BY <1>3, <1>4, <1>5 DEF Safe

(* One step of an operation. *)
LEMMA ReconcileStep == ASSUME EnvInv, NEW e \in Envs, Reconcile(e) PROVE Safe
<1>. DEFINE copy == op[e].e
            Runs == op[e].on /\ copy.desired = "running"
            Rest == UNCHANGED <<tick, envClicks, envRestarts>> /\ builder' \in SUBSET Envs
                    /\ envFaults' \in 0..MaxEnvFaults
            Same == UNCHANGED workload
<1>0. /\ workload \in [Envs -> BOOLEAN] /\ builder \in SUBSET Envs
      /\ op \in [Envs -> [on : BOOLEAN, canceled : BOOLEAN, at : Steps, e : Rows]]
      /\ copy \in Rows /\ OpFits(e) /\ envFaults \in 0..MaxEnvFaults
  BY DEF EnvInv, EnvTypeOK, OpsFit
(* An operation that starts a preview goes on or fails, and may tell the row. *)
<1>1. ASSUME Runs, Rest, NEW step \in {"inspect", "build", "probe", "failing", "done"}, NEW next \in Rows,
             next.desired = "running",
             \/ Quietly(e, step, next)
             \/ Moves(e, step, next) /\ next.state \notin {"none", "stopped", "deleted"},
             workload' \in [Envs -> BOOLEAN], \A d \in Envs \ {e} : workload'[d] = workload[d]
      PROVE  Safe
  <2>1. step \in Steps /\ CopyFits(step, next, workload'[e])
    BY <1>1 DEF Steps, CopyFits
  <2>2. /\ op' = [op EXCEPT ![e].at = step, ![e].e = next]
        /\ \/ UNCHANGED env
           \/ env' = Observed(e, next) /\ next.state \notin {"none", "stopped", "deleted"}
    BY <1>1 DEF Quietly, Moves
  <2>. QED
    BY <1>1, <2>1, <2>2, OperationStep
(* One that cleans up frees the place only once the pods are gone. *)
<1>2. ASSUME op[e].on, copy.desired # "running", Rest,
             NEW step \in {"cleanup", "cleaned", "unclean", "done"}, NEW next \in Rows,
             next.desired = copy.desired,
             \/ Quietly(e, step, next)
             \/ Moves(e, step, next) /\ next.state \in {"stopping", "deleting"}
             \/ /\ Moves(e, step, next)
                /\ ~workload[e] /\ next.state = IF next.desired = "deleted" THEN "deleted" ELSE "stopped",
             step # "done" => next.state = IF next.desired = "deleted" THEN "deleting" ELSE "stopping",
             workload' \in [Envs -> BOOLEAN], \A d \in Envs \ {e} : workload'[d] = workload[d],
             workload'[e] => workload[e], step = "cleaned" => ~workload'[e]
      PROVE  Safe
  <2>1. step \in Steps /\ CopyFits(step, next, workload'[e])
    BY <1>2 DEF Steps, CopyFits
  <2>2. /\ op' = [op EXCEPT ![e].at = step, ![e].e = next]
        /\ \/ UNCHANGED env
           \/ env' = Observed(e, next) /\ next.state \notin {"none", "stopped", "deleted"}
           \/ /\ env' = Observed(e, next)
              /\ next.desired # "running" /\ ~workload[e]
              /\ next.state = IF next.desired = "deleted" THEN "deleted" ELSE "stopped"
    BY <1>2 DEF Quietly, Moves
  <2>. QED
    BY <1>2, <2>1, <2>2, OperationStep
<1>3. Same => workload' \in [Envs -> BOOLEAN] /\ \A d \in Envs : workload'[d] = workload[d]
  BY <1>0
<1>4. /\ \A state \in EnvStates : [copy EXCEPT !.state = state] \in Rows
      /\ \A state \in EnvStates : [copy EXCEPT !.state = state].desired = copy.desired
      /\ \A state \in EnvStates : [copy EXCEPT !.state = state].state = state
      /\ copy.desired \in Desires /\ copy.state \in EnvStates
  BY <1>0 DEF Rows
<1>ends. ASSUME Runs, Same, Rest, NEW state \in {"ready", "unavailable", "failed"},
             Moves(e, "done", [copy EXCEPT !.state = state])
      PROVE  Safe
  <2>. DEFINE next == [copy EXCEPT !.state = state]
  <2>1. next \in Rows /\ next.desired = copy.desired /\ next.state = state
    BY <1>4 DEF EnvStates
  <2>. HIDE DEF next
  <2>. QED
    BY <2>1, <1>ends, <1>1, <1>3 DEF next
<1>5. CASE Begin(e)
  <2>1. op[e].on /\ Same /\ Rest
    BY <1>5, <1>0 DEF Begin, At
  <2>2. CASE copy.desired = "deleted"
    <3>1. Moves(e, "cleanup", [copy EXCEPT !.state = "deleting"])
      BY <1>5, <2>2 DEF Begin
    <3>. DEFINE next == [copy EXCEPT !.state = "deleting"]
    <3>2. next \in Rows /\ next.desired = copy.desired /\ next.state = "deleting"
      BY <1>4 DEF EnvStates
    <3>. HIDE DEF next
    <3>. QED
      BY <3>1, <3>2, <2>1, <2>2, <1>2, <1>3 DEF next
  <2>3. CASE copy.desired = "stopped"
    <3>1. Moves(e, "cleanup", [copy EXCEPT !.state = "stopping"])
      BY <1>5, <2>3 DEF Begin
    <3>. DEFINE next == [copy EXCEPT !.state = "stopping"]
    <3>2. next \in Rows /\ next.desired = copy.desired /\ next.state = "stopping"
      BY <1>4 DEF EnvStates
    <3>. HIDE DEF next
    <3>. QED
      BY <3>1, <3>2, <2>1, <2>3, <1>2, <1>3 DEF next
  <2>4. CASE copy.desired = "running" /\ copy.state \in {"ready", "unavailable"}
    <3>1. Quietly(e, "inspect", copy)
      BY <1>5, <2>4 DEF Begin
    <3>. QED
      BY <3>1, <2>1, <2>4, <1>0, <1>1, <1>3
  <2>5. CASE copy.desired = "running" /\ copy.state \notin {"ready", "unavailable"}
    <3>1. NextStage(e, copy)
      BY <1>5, <2>5 DEF Begin
    <3>. QED
      BY <3>1, <2>1, <2>5, <1>0, StartGoesOn
  <2>. QED
    BY <2>2, <2>3, <2>4, <2>5, <1>4 DEF Desires
<1>6. CASE Cleanup(e)
  <2>1. op[e].on /\ copy.desired # "running"
        /\ copy.state = IF copy.desired = "deleted" THEN "deleting" ELSE "stopping"
    BY <1>6, <1>0 DEF Cleanup, At, OpFits, CopyFits
  <2>2. Rest
    BY <1>6, <1>0, FaultBound DEF Cleanup
  <2>3. CASE workload' = [workload EXCEPT ![e] = FALSE] /\ Quietly(e, "cleaned", copy)
    BY <2>1, <2>2, <2>3, <1>0, <1>2
  <2>4. ASSUME NEW left \in {workload[e], FALSE}, workload' = [workload EXCEPT ![e] = left],
               Quietly(e, "unclean", copy)
        PROVE  Safe
    BY <2>1, <2>2, <2>4, <1>0, <1>2
  <2>. QED
    BY <1>6, <2>3, <2>4 DEF Cleanup
<1>7. CASE Cleaned(e)
  <2>1. Same /\ Rest
    BY <1>7, <1>0 DEF Cleaned
  <2>2. CASE At(e, "cleaned")
    <3>1. op[e].on /\ copy.desired # "running" /\ ~workload[e]
          /\ copy.state = IF copy.desired = "deleted" THEN "deleting" ELSE "stopping"
      BY <2>2, <1>0 DEF At, OpFits, CopyFits
    <3>. DEFINE next == [copy EXCEPT !.state = IF @ = "deleting" THEN "deleted" ELSE "stopped"]
    <3>2. next \in Rows /\ next.desired = copy.desired
          /\ next.state = IF next.desired = "deleted" THEN "deleted" ELSE "stopped"
      BY <3>1, <1>4 DEF EnvStates
    <3>3. Moves(e, "done", next)
      BY <1>7, <2>2 DEF Cleaned, At
    <3>. HIDE DEF next
    <3>. QED
      BY <3>1, <3>2, <3>3, <2>1, <1>2, <1>3
  <2>3. CASE At(e, "unclean")
    <3>1. op[e].on /\ copy.desired # "running" /\ copy.state \in {"stopping", "deleting"}
      BY <2>3, <1>0 DEF At, OpFits, CopyFits
    <3>2. Quietly(e, "done", copy) \/ Moves(e, "done", copy)
      BY <1>7, <2>3 DEF Cleaned, At
    <3>. QED
      BY <3>1, <3>2, <2>1, <1>0, <1>2, <1>3
  <2>. QED
    BY <1>7, <2>2, <2>3 DEF Cleaned
<1>8. CASE Inspect(e)
  <2>1. Runs /\ Same /\ Rest
    BY <1>8, <1>0 DEF Inspect, At, OpFits, CopyFits
  <2>2. CASE Quietly(e, "done", copy)
    BY <2>1, <2>2, <1>0, <1>1, <1>3
  <2>3. ASSUME NEW seen \in {"ready", "unavailable"}, Moves(e, "done", [copy EXCEPT !.state = seen])
        PROVE  Safe
    BY <2>1, <2>3, <1>ends
  <2>. QED
    BY <1>8, <2>2, <2>3 DEF Inspect
<1>9. ASSUME Runs, Same, Rest,
             \/ NextStage(e, [copy EXCEPT !.digest = TRUE])
             \/ NextStage(e, [copy EXCEPT !.image = TRUE])
             \/ Quietly(e, "failing", copy)
      PROVE  Safe
  <2>1. /\ [copy EXCEPT !.digest = TRUE] \in Rows /\ [copy EXCEPT !.image = TRUE] \in Rows
        /\ [copy EXCEPT !.digest = TRUE].desired = copy.desired
        /\ [copy EXCEPT !.image = TRUE].desired = copy.desired
    BY <1>0 DEF Rows
  <2>2. CASE Quietly(e, "failing", copy)
    BY <1>9, <2>2, <1>0, <1>1, <1>3
  <2>. QED
    BY <1>9, <2>1, <2>2, StartGoesOn
<1>10. CASE Capture(e)
  <2>1. Runs /\ Same /\ Rest
    BY <1>10, <1>0, FaultBound DEF Capture, At, OpFits, CopyFits
  <2>. QED
    BY <1>9, <1>10, <2>1 DEF Capture
<1>11. CASE TakeSlot(e)
  <2>1. Runs /\ Same /\ Rest
    BY <1>11, <1>0, FaultBound DEF TakeSlot, At, OpFits, CopyFits
  <2>2. Quietly(e, "build", copy) \/ Quietly(e, "failing", copy)
    BY <1>11 DEF TakeSlot
  <2>. QED
    BY <2>1, <2>2, <1>0, <1>1, <1>3
<1>12. CASE Build(e)
  <2>1. Runs /\ Same /\ Rest
    BY <1>12, <1>0, FaultBound DEF Build, At, OpFits, CopyFits
  <2>. QED
    BY <1>9, <1>12, <2>1 DEF Build
<1>13. CASE StartRuntime(e)
  <2>1. Runs /\ Rest
    BY <1>13, <1>0, FaultBound DEF StartRuntime, At, OpFits, CopyFits
  <2>2. \A result \in {"passed", "running", "failed"} :
           [copy EXCEPT !.test = result] \in Rows /\ [copy EXCEPT !.test = result].desired = copy.desired
    BY <1>0 DEF Rows
  <2>3. PICK result \in {"passed", "running", "failed"}, pods \in BOOLEAN, step \in {"probe", "failing"} :
           workload' = [workload EXCEPT ![e] = pods] /\ Quietly(e, step, [copy EXCEPT !.test = result])
    BY <1>13, <1>0 DEF StartRuntime
  <2>. QED
    BY <2>1, <2>2, <2>3, <1>0, <1>1
<1>14. CASE Probe(e)
  <2>1. Runs /\ Same /\ Rest
    BY <1>14, <1>0, FaultBound DEF Probe, At, OpFits, CopyFits
  <2>2. Moves(e, "done", [copy EXCEPT !.state = "ready"]) \/ Quietly(e, "failing", copy)
    BY <1>14 DEF Probe
  <2>. QED
    BY <2>1, <2>2, <1>0, <1>1, <1>3, <1>ends
<1>15. CASE Failing(e)
  <2>1. Runs /\ Same /\ Rest
    BY <1>15, <1>0 DEF Failing, At, OpFits, CopyFits
  <2>2. Moves(e, "done", [copy EXCEPT !.state = "failed"]) \/ Quietly(e, "done", copy)
    BY <1>15 DEF Failing
  <2>. QED
    BY <2>1, <2>2, <1>0, <1>1, <1>3, <1>ends
<1>16. CASE Done(e)
  <2>1. op' = [d \in Envs |-> IF d \in {e} THEN NoOp ELSE op[d]] /\ {e} \in SUBSET Envs
    BY <1>16, <1>0 DEF Done
  <2>2. /\ UNCHANGED <<env, workload, envFaults, envClicks>> /\ tick' \in {tick, Idling}
        /\ builder' \in SUBSET Envs /\ envRestarts' \in 0..MaxEnvRestarts
    BY <1>16, <1>0 DEF Done, EnvInv, EnvTypeOK
  <2>. QED
    BY <2>1, <2>2, FreedStep
<1>. QED
  BY <1>5, <1>6, <1>7, <1>8, <1>10, <1>11, <1>12, <1>13, <1>14, <1>15, <1>16 DEF Reconcile

-----------------------------------------------------------------------------
(* The controller's tick, and the process *)

(* Reading and launching change no row: what is started from an old row is  *)
(* an operation like any other.                                             *)
LEMMA ListStep == ASSUME EnvInv, ListRows PROVE Safe
<1>. USE DEF EnvInv
<1>1. NoRow \in Rows
  BY DEF NoRow, Rows, Desires, EnvStates
<1>2. tick' = [at |-> "launch", list |-> [e \in Envs |-> IF Live(env[e]) THEN env[e] ELSE NoRow]]
      /\ UNCHANGED <<env, workload, op, builder, envFaults, envRestarts, envClicks>>
  BY DEF ListRows
<1>3. EnvTypeOK'
  BY <1>1, <1>2 DEF EnvTypeOK
<1>4. OpsFit' /\ PlacesHold' /\ \A e \in Envs : Confirmed(e)
  BY <1>2 DEF OpsFit, OpFits, PlacesHold, PlacesTaken, Counted, Confirmed
<1>. QED
  BY <1>3, <1>4 DEF Safe

LEMMA LaunchStep == ASSUME EnvInv, Launch PROVE Safe
<1>. USE DEF EnvInv
<1>1. /\ tick' = Idling /\ op' = [e \in Envs |-> Launched(e)]
      /\ UNCHANGED <<env, workload, builder, envFaults, envRestarts, envClicks>>
  BY DEF Launch
<1>2. NoRow \in Rows
  BY DEF NoRow, Rows, Desires, EnvStates
<1>3. ASSUME NEW e \in Envs
      PROVE  /\ Launched(e) \in [on : BOOLEAN, canceled : BOOLEAN, at : Steps, e : Rows]
             /\ \/ /\ Launched(e).on = op[e].on /\ Launched(e).e = op[e].e /\ Launched(e).at = op[e].at
                \/ Launched(e).at = "begin"
  <2>1. op[e] \in [on : BOOLEAN, canceled : BOOLEAN, at : Steps, e : Rows] /\ tick.list[e] \in Rows
    BY DEF EnvTypeOK
  <2>. QED
    BY <2>1 DEF Launched, Steps
<1>4. EnvTypeOK'
  BY <1>1, <1>2, <1>3 DEF EnvTypeOK, Idling, NothingListed
<1>5. OpsFit'
  <2>1. ASSUME NEW e \in Envs PROVE OpFits(e)'
    <3>1. op'[e] = Launched(e) /\ workload'[e] = workload[e] /\ OpFits(e)
      BY <1>1 DEF OpsFit
    <3>. QED
      BY <3>1, <1>3 DEF OpFits, CopyFits
  <2>. QED
    BY <2>1 DEF OpsFit
<1>6. PlacesHold' /\ \A e \in Envs : Confirmed(e)
  BY <1>1 DEF PlacesHold, PlacesTaken, Counted, Confirmed
<1>. QED
  BY <1>4, <1>5, <1>6 DEF Safe

LEMMA RestartStep == ASSUME EnvInv, EnvRestart PROVE Safe
<1>1. op' = [e \in Envs |-> IF e \in Envs THEN NoOp ELSE op[e]] /\ tick' = Idling
      /\ UNCHANGED <<env, workload, envFaults, envClicks>> /\ builder' \in SUBSET Envs
  BY DEF EnvRestart
<1>2. envRestarts' \in 0..MaxEnvRestarts
  BY EnvAssumption DEF EnvRestart, EnvInv, EnvTypeOK
<1>. QED
  BY <1>1, <1>2, FreedStep

-----------------------------------------------------------------------------
(* The theorems *)

LEMMA EnvInvInitially == EnvInit => EnvInv
<1>. SUFFICES ASSUME EnvInit PROVE EnvInv
  OBVIOUS
<1>. USE DEF EnvInit, Idling, NothingListed
<1>1. NoRow \in Rows /\ NoOp \in [on : BOOLEAN, canceled : BOOLEAN, at : Steps, e : Rows]
      /\ ~NoOp.on /\ NoRow.desired = "stopped" /\ NoRow.state = "none"
  BY DEF NoRow, Rows, Desires, EnvStates, NoOp, Steps
<1>2. EnvTypeOK
  BY <1>1, EnvAssumption DEF EnvTypeOK
<1>3. OpsFit
  BY <1>1 DEF OpsFit, OpFits
<1>4. PlacesTaken = {}
  BY <1>1 DEF PlacesTaken
<1>5. PlacesHold
  BY <1>4, FS_EmptySet, EnvAssumption DEF PlacesHold
<1>. QED
  BY <1>2, <1>3, <1>5 DEF EnvInv

LEMMA EnvInvKept == EnvInv /\ [EnvNext]_envVars => EnvInv' /\ [\A e \in Envs : Confirmed(e)]_envVars
<1>. SUFFICES ASSUME EnvInv, [EnvNext]_envVars
              PROVE  EnvInv' /\ [\A e \in Envs : Confirmed(e)]_envVars
  OBVIOUS
<1>1. CASE UNCHANGED envVars
  BY <1>1 DEF envVars, EnvInv, EnvTypeOK, OpsFit, OpFits, PlacesHold, PlacesTaken, Counted
<1>2. CASE EnvNext
  BY <1>2, PeopleStep, ReconcileStep, ListStep, LaunchStep, RestartStep DEF EnvNext, EnvTick, Safe
<1>. QED
  BY <1>1, <1>2

(* The rows, the operations, the build slot and the controller's list keep  *)
(* their types (store.go, service.go).                                      *)
THEOREM EnvironmentsTypeCorrect == EnvSpec => []EnvTypeOK
<1>1. EnvInv => EnvTypeOK
  BY DEF EnvInv
<1>. QED
  BY <1>1, EnvInvInitially, EnvInvKept, PTL DEF EnvSpec

(* What is to run holds a place, and there are enough of them: a late       *)
(* observation, an operation on an old copy, a failed cleanup or a restart  *)
(* never makes more previews wanted than the project allows (Insert, Start  *)
(* and Observe of store.go, reconcile of service.go).                       *)
THEOREM PlacesKeptForRunning == EnvSpec => []PlacesAreKept
<1>1. EnvInv => PlacesAreKept
  BY DEF EnvInv, PlacesHold, PlacesTaken, PlacesAreKept
<1>. QED
  BY <1>1, EnvInvInitially, EnvInvKept, PTL DEF EnvSpec

(* A row is called stopped or deleted, and gives its place away, only at a  *)
(* moment when it has no pods (reconcile of service.go, Observe of store.go).*)
THEOREM PlacesGivenAwayEmpty == EnvSpec => CleanupIsConfirmed
  BY EnvInvInitially, EnvInvKept, PTL DEF EnvSpec, CleanupIsConfirmed
=============================================================================
