------------------------ MODULE MCApplication_proofs ------------------------
(***************************************************************************)
(* A behaviour of the composed instance is one of each of its parts, so    *)
(* that what is proved of a part holds of it; the types of every part, at  *)
(* every moment.                                                           *)
(***************************************************************************)
EXTENDS MCApplication, AgentJobQueue_proofs, Editors_proofs, Environments_proofs,
        RepeatedRequests_proofs, WorkflowStages_proofs

(* Each part takes its own steps, or stutters. *)
LEMMA PartsStep ==
    ASSUME [AppNext]_appVars
    PROVE  /\ [Next]_vars
           /\ [DocNext]_docVars
           /\ [BodyNext]_bodyVars
           /\ [EnvNext]_envVars
           /\ [JobsNext]_jobVars
           /\ [ComposerNext]_composerVars
           /\ [StagesNext]_stagesVars
BY DEF AppNext, appVars, queueVars

(* Every part of the application does what its own specification says.     *)
THEOREM PartsAreTheirOwn ==
    AppSpec => /\ Spec /\ DocSpec /\ BodySpec /\ EnvSpec
               /\ JobsSpec /\ ComposerSpec /\ StagesSpec
<1>1. AppInit => /\ Init /\ DocInit /\ BodyInit /\ EnvInit
                 /\ JobsInit /\ ComposerInit /\ StagesInit
  BY DEF AppInit
<1>. QED
  BY <1>1, PartsStep, PTL
     DEF AppSpec, Spec, DocSpec, BodySpec, EnvSpec, JobsSpec, ComposerSpec, StagesSpec

(* The queue, the editors, the environments, the scheduled jobs, the        *)
(* composer and the workflows keep their types, for any number of each.     *)
THEOREM ApplicationTypeCorrect == AppSpec => []AppTypeOK
<1>1. /\ TypeOK /\ DocTypeOK /\ BodyTypeOK /\ EnvTypeOK
      /\ JobsTypeOK /\ ComposerTypeOK /\ StagesTypeOK
      => AppTypeOK
  BY DEF AppTypeOK
<1>. QED
  BY <1>1, PartsAreTheirOwn, TypeCorrect, DocTypeCorrect, BodyTypeCorrect,
     EnvironmentsTypeCorrect, JobsTypeCorrect, ComposerTypeCorrect, StagesTypeCorrect, PTL
=============================================================================
