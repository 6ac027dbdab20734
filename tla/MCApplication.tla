--------------------------- MODULE MCApplication ---------------------------
(* The agent job queue, the editors of documents and task descriptions, the *)
(* preview environments, the scheduled jobs, the composer of a task's       *)
(* session, and the workflows with their stages, each on its own: a         *)
(* behaviour is one of one of them, `part`, while the others stay as they   *)
(* begin, so that one instance checks what each of them must never do.      *)
EXTENDS AgentJobQueue, Documents, TaskText, Environments, ScheduledJobs,
        SessionComposer, WorkflowStages, TLC

VARIABLE part

queueVars == vars
appVars == <<part, queueVars, docVars, bodyVars, envVars, jobVars, composerVars, stagesVars>>

AppInit ==
    /\ part \in {"queue", "documents", "text", "environments", "jobs", "composer",
              "workflows"}
    /\ Init /\ DocInit /\ BodyInit /\ EnvInit /\ JobsInit /\ ComposerInit
    /\ StagesInit
    /\ part # "composer" => session

AppNext ==
    \/ /\ part = "queue" /\ Next
       /\ UNCHANGED <<part, docVars, bodyVars, envVars, jobVars, composerVars, stagesVars>>
    \/ /\ part = "documents" /\ DocNext
       /\ UNCHANGED <<part, queueVars, bodyVars, envVars, jobVars, composerVars, stagesVars>>
    \/ /\ part = "text" /\ BodyNext
       /\ UNCHANGED <<part, queueVars, docVars, envVars, jobVars, composerVars, stagesVars>>
    \/ /\ part = "environments" /\ EnvNext
       /\ UNCHANGED <<part, queueVars, docVars, bodyVars, jobVars, composerVars, stagesVars>>
    \/ /\ part = "jobs" /\ JobsNext
       /\ UNCHANGED <<part, queueVars, docVars, bodyVars, envVars, composerVars, stagesVars>>
    \/ /\ part = "composer" /\ ComposerNext
       /\ UNCHANGED <<part, queueVars, docVars, bodyVars, envVars, jobVars, stagesVars>>
    \/ /\ part = "workflows" /\ StagesNext
       /\ UNCHANGED <<part, queueVars, docVars, bodyVars, envVars, jobVars, composerVars>>

AppSpec == AppInit /\ [][AppNext]_appVars

(* The types of the part that moves. *)
AppTypeOK ==
    /\ part = "queue" => TypeOK
    /\ part = "documents" => DocTypeOK
    /\ part = "text" => BodyTypeOK
    /\ part = "environments" => EnvTypeOK
    /\ part = "jobs" => JobsTypeOK
    /\ part = "composer" => ComposerTypeOK
    /\ part = "workflows" => StagesTypeOK

(* What the workflows begin with. Two stages of the second were created at  *)
(* the same time, and took the same position.                               *)
Row(w, position, type) == [workflow |-> w, position |-> position, type |-> type]
TwoWorkflows == <<Row(1, 1, "open"), Row(1, 2, "doing"), Row(1, 3, "done"),
                  Row(2, 1, "open"), Row(2, 2, "doing"), Row(2, 2, "doing")>>
OneProject == [p \in Projects |-> 1]
OneTask == [t \in Cards |-> IF t = CHOOSE u \in Cards : TRUE
                            THEN [project |-> CHOOSE p \in Projects : TRUE,
                                  stage |-> 1, completed |-> FALSE] ELSE NoCard]

Symmetry == Permutations(Tasks \union Tabs \union Browsers \union DocEdits \union BodyEdits)
=============================================================================
