------------------------------ MODULE MCLoops ------------------------------
(* The background loops of the web process, each on its own: the queue's    *)
(* worker, the project chat's runner, the environments' controller and the  *)
(* scheduler of jobs. A behaviour is one of one of them, `loop`, while the  *)
(* others stay as they begin, so that one instance shows what each of them  *)
(* promises to do at last. (Conductor, the largest, has its own instance.)  *)
EXTENDS AgentJobQueue, Environments, ScheduledJobs, TLC

CONSTANTS p1, p2, c1, k1, k2, m1

VARIABLES loop,
    request, hstatus, session, chatSession, runner, hstopping, call, home, written,
    acks, stopped, moves, hdowns, hfaults

Chat == INSTANCE ProjectChat WITH
    Projects <- {p1, p2}, Tasks <- {}, Calls <- {c1}, Keys <- {k1, k2}, Messages <- {m1},
    MaxTurns <- 2, MaxMoves <- 0, MaxDowns <- 1, MaxFaults <- 1,
    status <- hstatus, stopping <- hstopping, downs <- hdowns, faults <- hfaults

chatVars == <<request, hstatus, session, chatSession, runner, hstopping, call, home,
              written, acks, stopped, moves, hdowns, hfaults>>
loopsVars == <<loop, vars, chatVars, envVars, jobVars>>

LoopsInit ==
    /\ loop \in {"queue", "chat", "environments", "jobs"}
    /\ Init /\ Chat!Init /\ EnvInit /\ JobsInit

QueueDoes(A) == loop = "queue" /\ A /\ UNCHANGED <<loop, chatVars, envVars, jobVars>>
ChatDoes(A) == loop = "chat" /\ A /\ UNCHANGED <<loop, vars, envVars, jobVars>>
EnvironmentsDo(A) == loop = "environments" /\ A /\ UNCHANGED <<loop, vars, chatVars, jobVars>>
JobsDo(A) == loop = "jobs" /\ A /\ UNCHANGED <<loop, vars, chatVars, envVars>>

LoopsNext ==
    QueueDoes(Next) \/ ChatDoes(Chat!Next) \/ EnvironmentsDo(EnvNext) \/ JobsDo(JobsNext)

(* The fairness of each of the specifications. *)
LoopsFairness ==
    /\ WF_loopsVars(QueueDoes(Step \/ Abandon))
    /\ WF_loopsVars(QueueDoes(Exit))
    /\ WF_loopsVars(QueueDoes(Start))
    /\ WF_loopsVars(ChatDoes(Chat!RunnerStep))
    /\ WF_loopsVars(ChatDoes(Chat!Exit))
    /\ WF_loopsVars(ChatDoes(Chat!Start))
    /\ WF_loopsVars(EnvironmentsDo(EnvTick))
    /\ \A e \in Envs : WF_loopsVars(EnvironmentsDo(Reconcile(e)))
    /\ WF_loopsVars(JobsDo(Firing(0) \/ ListDue \/ TickEnds))

LoopsSpec == LoopsInit /\ [][LoopsNext]_loopsVars /\ LoopsFairness

(* The promises of the project chat. *)
TurnEnds == Chat!TurnEnds
PendingIsTaken == Chat!PendingIsTaken
=============================================================================
