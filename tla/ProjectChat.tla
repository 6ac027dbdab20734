---------------------------- MODULE ProjectChat ----------------------------
(***************************************************************************)
(* Project chats: one durable conversation per project, a queue of turns   *)
(* of its own, and a single runner beside the task worker.  Browser tabs   *)
(* send messages and retry them, users stop turns, the web process stops   *)
(* or crashes, and the tools of a turn's agent write tasks from the MCP    *)
(* process while all that happens.                                         *)
(*                                                                         *)
(* One action is one SQLite statement or transaction, or the reads before  *)
(* one.  A conversation is named by its project.                           *)
(***************************************************************************)
EXTENDS Integers, FiniteSets

CONSTANTS Projects, Tasks, Calls,
          Keys,          \* clientKey: one per message a user sends
          Messages,
          MaxTurns,      \* bound: project_chat_turn rows
          MaxMoves,      \* bound: moves of tasks between projects
          MaxDowns,      \* bound: stops and crashes of the web process
          MaxFaults      \* bound: failing statements in finish

ASSUME BoundsAssumption == {MaxTurns, MaxMoves, MaxDowns, MaxFaults} \subseteq Nat

Turns == 1 .. MaxTurns
NoTurn == 0
NoSession == 0           \* sessionId's default ''
Sessions == 0 .. MaxTurns

Statuses == {"absent", "pending", "running", "canceling", "completed",
             "failed", "canceled", "interrupted"}
Active == {"pending", "running", "canceling"}     \* project_chat_one_turn
InFlight == {"running", "canceling"}

VARIABLES
    request,       \* a turn's project, key, message and session to resume
    status,        \* a turn's status
    session,       \* a turn's sessionId
    chatSession,   \* project_chat.sessionId
    runner,        \* locals of Tick, lost in a crash
    stopping,      \* the service's context was canceled
    call,          \* locals of each request and of each tool call
    home,          \* task: the project of its checklist
    written,       \* tool writes committed: <<turn, task>>
    acks,          \* history: turns returned to the browser
    stopped,       \* history: turns whose Cancel returned no error
    moves, downs, faults

table    == <<request, status, session, chatSession>>
counters == <<moves, downs, faults>>
history  == <<acks, stopped>>
vars == <<table, runner, stopping, call, home, written, history, counters>>

Requests == [project : Projects, key : Keys, message : Messages, resume : Sessions]
NoRequest == [resume |-> NoSession]     \* of a row that is not there

Locations == {"down", "idle", "polled", "claimed", "opened", "harness", "finish",
              "save"}
Holding == {"claimed", "opened", "harness", "finish", "save"}

Idle == [pc |-> "idle", turn |-> NoTurn, thread |-> NoSession,
         outcome |-> "none", verdict |-> "none"]
Down == [Idle EXCEPT !.pc = "down"]

NoCall == [kind |-> "none"]
Sends == [kind : {"send"}, project : Projects, key : Keys, message : Messages,
          resume : Sessions]
ToolCalls == [kind : {"tool"}, turn : Turns, task : Tasks]

\* Every row, local and history variable has its type.
TypeOK ==
    /\ request \in [Turns -> Requests \union {NoRequest}]
    /\ status \in [Turns -> Statuses]
    /\ session \in [Turns -> Sessions]
    /\ chatSession \in [Projects -> Sessions]
    /\ runner \in [pc : Locations, turn : Turns \union {NoTurn}, thread : Sessions,
                   outcome : {"none", "completed", "failed"},
                   verdict : {"none", "completed", "failed", "canceled",
                              "interrupted"}]
    /\ stopping \in BOOLEAN
    /\ \A c \in Calls : call[c] \in Sends \union ToolCalls \union {NoCall}
    /\ home \in [Tasks -> Projects]
    /\ written \subseteq Turns \X Tasks
    /\ acks \subseteq [project : Projects, key : Keys, message : Messages, turn : Turns]
    /\ stopped \subseteq Turns
    /\ moves \in 0 .. MaxMoves
    /\ downs \in 0 .. MaxDowns
    /\ faults \in 0 .. MaxFaults

Init ==
    /\ request = [t \in Turns |-> NoRequest]
    /\ status = [t \in Turns |-> "absent"]
    /\ session = [t \in Turns |-> NoSession]
    /\ chatSession = [p \in Projects |-> NoSession]
    /\ runner = Down
    /\ stopping = FALSE
    /\ call = [c \in Calls |-> NoCall]
    /\ home \in [Tasks -> Projects]
    /\ written = {} /\ acks = {} /\ stopped = {}
    /\ moves = 0 /\ downs = 0 /\ faults = 0

-----------------------------------------------------------------------------
(* Requests of the browser                                                 *)

Serving == runner.pc # "down"

Sent(p) == {t \in Turns : status[t] # "absent" /\ request[t].project = p}
Previous(p, k) == {t \in Sent(p) : request[t].key = k}
Answer(s, t) == [project |-> s.project, key |-> s.key, message |-> s.message, turn |-> t]

\* variant: the key alone identifies a message
SendRetryOfKey(p, k, m) ==
    /\ Serving
    /\ \E t \in Previous(p, k) :
        acks' = acks \union {Answer([project |-> p, key |-> k, message |-> m], t)}
    /\ UNCHANGED <<table, runner, stopping, call, home, written, stopped, counters>>

\* Send looks the key up first: a retry gets its turn, another message under
\* the same key gets ErrConflict, which changes nothing.
SendRetry(p, k, m) ==
    /\ Serving
    /\ \E t \in Previous(p, k) : /\ request[t].message = m
                               /\ acks' = acks \union {Answer(request[t], t)}
    /\ UNCHANGED <<table, runner, stopping, call, home, written, stopped, counters>>

\* Otherwise Send prepares the request, outside any transaction.
SendRead(c, p, k, m) ==
    /\ Serving /\ call[c] = NoCall
    /\ Previous(p, k) = {}
    /\ call' = [call EXCEPT ![c] = [kind |-> "send", project |-> p, key |-> k,
                                    message |-> m, resume |-> chatSession[p]]]
    /\ UNCHANGED <<table, runner, stopping, home, written, history, counters>>

\* The row's insertion: refused by the index while another turn of the
\* conversation is active; ids are handed out in order.
InsertTurn(req) ==
    /\ \A t \in Sent(req.project) : status[t] \notin Active
    /\ \E t \in Turns :
        /\ status[t] = "absent"
        /\ \A u \in Turns : u < t => status[u] # "absent"
        /\ request' = [request EXCEPT ![t] = req]
        /\ status' = [status EXCEPT ![t] = "pending"]
        /\ acks' = acks \union {Answer(req, t)}
    /\ UNCHANGED <<session, chatSession>>

\* Under the writer lock: the key once more, then the conversation's session
\* and the insertion; every other outcome is an error that changes nothing.
Commit(c, resume) ==
    /\ Serving /\ call[c].kind = "send"
    /\ LET s == call[c]
           prior == Previous(s.project, s.key)
       IN \/ /\ prior = {}
             /\ InsertTurn([project |-> s.project, key |-> s.key,
                            message |-> s.message, resume |-> resume])
          \/ /\ \E t \in prior : /\ request[t].message = s.message
                                 /\ acks' = acks \union {Answer(s, t)}
             /\ UNCHANGED table
          \/ UNCHANGED <<table, acks>>
    /\ call' = [call EXCEPT ![c] = NoCall]
    /\ UNCHANGED <<runner, stopping, home, written, stopped, counters>>

\* variant: the session read before the preparation is resumed
SendCommitStale(c) == Commit(c, call[c].resume)

SendCommit(c) == call[c].kind = "send" /\ Commit(c, chatSession[call[c].project])

\* Stop: a pending turn ends at once, a running one is being canceled.
Cancel(t) ==
    /\ Serving /\ status[t] \in {"pending", "running"}
    /\ status' = [status EXCEPT ![t] = IF @ = "pending" THEN "canceled" ELSE "canceling"]
    /\ stopped' = stopped \union {t}
    /\ UNCHANGED <<request, session, chatSession, runner, stopping, call, home,
                   written, acks, counters>>

-----------------------------------------------------------------------------
(* The tools of a turn's agent, in the MCP process, and the users' moves   *)

\* The process was started for a running turn of the task's project.
ToolRead(c, t, task) ==
    /\ call[c] = NoCall
    /\ status[t] = "running" /\ runner.pc = "harness" /\ runner.turn = t
    /\ home[task] = request[t].project
    /\ call' = [call EXCEPT ![c] = [kind |-> "tool", turn |-> t, task |-> task]]
    /\ UNCHANGED <<table, runner, stopping, home, written, history, counters>>

\* variant: the check at the start of the process is trusted
ToolWriteUnchecked(c) ==
    /\ call[c].kind = "tool"
    /\ written' = written \union {<<call[c].turn, call[c].task>>}
    /\ call' = [call EXCEPT ![c] = NoCall]
    /\ UNCHANGED <<table, runner, stopping, home, history, counters>>

\* CheckChat for the project the task has now.
LiveChat(t, p) == request[t].project = p /\ status[t] = "running"

\* The writer's transaction rereads the task's project and the turn.
ToolWrite(c) ==
    /\ call[c].kind = "tool"
    /\ \/ /\ LiveChat(call[c].turn, home[call[c].task])
          /\ written' = written \union {<<call[c].turn, call[c].task>>}
       \/ UNCHANGED written           \* refused: not live, or the task is owned
    /\ call' = [call EXCEPT ![c] = NoCall]
    /\ UNCHANGED <<table, runner, stopping, home, history, counters>>

MoveTask(task) ==
    /\ moves < MaxMoves
    /\ \E p \in Projects \ {home[task]} : home' = [home EXCEPT ![task] = p]
    /\ moves' = moves + 1
    /\ UNCHANGED <<table, runner, stopping, call, written, history, downs, faults>>

-----------------------------------------------------------------------------
(* The runner: Run, Tick and finish                                        *)

Others == <<stopping, call, home, written, history, moves, downs>>

Poll ==
    /\ runner.pc = "idle" /\ ~stopping
    /\ runner' = [runner EXCEPT !.pc = "polled"]
    /\ UNCHANGED <<table, Others, faults>>

Pending == {t \in Turns : status[t] = "pending"}

\* variant: claims only when no turn is in flight
ClaimWhenNoneRuns ==
    /\ runner.pc = "polled" /\ \A t \in Turns : status[t] \notin InFlight
    /\ \E t \in Pending :
        /\ \A u \in Pending : t <= u
        /\ status' = [status EXCEPT ![t] = "running"]
        /\ runner' = [runner EXCEPT !.pc = "claimed", !.turn = t]
    /\ UNCHANGED <<request, session, chatSession, Others, faults>>

\* One UPDATE ... RETURNING takes the oldest pending turn of any project.
Claim ==
    /\ runner.pc = "polled"
    /\ \E t \in Pending :
        /\ \A u \in Pending : t <= u
        /\ status' = [status EXCEPT ![t] = "running"]
        /\ runner' = [runner EXCEPT !.pc = "claimed", !.turn = t]
    /\ UNCHANGED <<request, session, chatSession, Others, faults>>

NothingToClaim ==
    /\ runner.pc = "polled" /\ Pending = {}
    /\ runner' = Idle
    /\ UNCHANGED <<table, Others, faults>>

\* No workspace, no provider, or a thread that cannot be resumed.
SetupFails ==
    /\ runner.pc = "claimed"
    /\ runner' = [runner EXCEPT !.pc = "finish", !.outcome = "failed"]
    /\ UNCHANGED <<table, Others, faults>>

\* The provider resumes the request's session, or starts one.
OpenThread ==
    /\ runner.pc = "claimed"
    /\ LET t == runner.turn
           thread == IF request[t].resume = NoSession THEN t ELSE request[t].resume
       IN runner' = [runner EXCEPT !.pc = "opened", !.thread = thread]
    /\ UNCHANGED <<table, Others, faults>>

\* One transaction for the turn and its conversation, if the turn is live;
\* otherwise the error ends the run.
OnSession ==
    /\ runner.pc = "opened"
    /\ LET t == runner.turn
           p == request[t].project
       IN IF LiveChat(t, p)
          THEN /\ session' = [session EXCEPT ![t] = runner.thread]
               /\ chatSession' = [chatSession EXCEPT ![p] = runner.thread]
               /\ runner' = [runner EXCEPT !.pc = "harness"]
          ELSE /\ UNCHANGED <<session, chatSession>>
               /\ runner' = [runner EXCEPT !.pc = "finish", !.outcome = "failed"]
    /\ UNCHANGED <<request, status, Others, faults>>

\* The answer, an error, the timeout, or the watcher's cancellation, which may
\* come too late to make a difference.
HarnessReturns(o) ==
    /\ runner.pc = "harness"
    /\ runner' = [runner EXCEPT !.pc = "finish", !.outcome = o]
    /\ UNCHANGED <<table, Others, faults>>

\* finish reads the status: a stop by the user, then a stop of the server.
FinishRead ==
    /\ runner.pc = "finish"
    /\ runner' = [runner EXCEPT
                    !.pc = "save",
                    !.verdict = CASE status[runner.turn] = "canceling" -> "canceled"
                                  [] status[runner.turn] # "canceling" /\ stopping
                                        -> "interrupted"
                                  [] OTHER -> runner.outcome]
    /\ UNCHANGED <<table, Others, faults>>

\* ... and a second statement writes what it decided.
FinishWrite ==
    /\ runner.pc = "save"
    /\ status' = IF status[runner.turn] \in InFlight
                 THEN [status EXCEPT ![runner.turn] = runner.verdict] ELSE status
    /\ runner' = Idle
    /\ UNCHANGED <<request, session, chatSession, Others, faults>>

\* A failing statement in finish: Tick returns the error, Run logs it.
FinishFails ==
    /\ runner.pc \in {"finish", "save"} /\ faults < MaxFaults
    /\ faults' = faults + 1
    /\ runner' = Idle
    /\ UNCHANGED <<table, Others>>

-----------------------------------------------------------------------------
(* The process                                                             *)

\* Requests end with the process; a tool call is in another one.
CallsLeft == [c \in Calls |-> IF call[c].kind = "send" THEN NoCall ELSE call[c]]

Shutdown ==
    /\ Serving /\ ~stopping /\ downs < MaxDowns
    /\ stopping' = TRUE
    /\ downs' = downs + 1
    /\ UNCHANGED <<table, runner, call, home, written, history, moves, faults>>

Exit ==
    /\ runner.pc = "idle" /\ stopping
    /\ runner' = Down /\ stopping' = FALSE /\ call' = CallsLeft
    /\ UNCHANGED <<table, home, written, history, counters>>

Crash ==
    /\ Serving /\ downs < MaxDowns
    /\ runner' = Down /\ stopping' = FALSE /\ call' = CallsLeft
    /\ downs' = downs + 1
    /\ UNCHANGED <<table, home, written, history, moves, faults>>

\* variant: in-flight turns are left alone
StartWithoutRecovery ==
    /\ runner.pc = "down"
    /\ runner' = Idle
    /\ UNCHANGED <<table, Others, faults>>

\* Uncertain turns are interrupted, never replayed.
Start ==
    /\ runner.pc = "down"
    /\ status' = [t \in Turns |-> IF status[t] \in InFlight THEN "interrupted" ELSE status[t]]
    /\ runner' = Idle
    /\ UNCHANGED <<request, session, chatSession, Others, faults>>

-----------------------------------------------------------------------------
UserStep ==
    \/ \E p \in Projects, k \in Keys, m \in Messages :
        SendRetry(p, k, m) \/ \E c \in Calls : SendRead(c, p, k, m)
    \/ \E c \in Calls : SendCommit(c)
    \/ \E t \in Turns : Cancel(t)
    \/ \E task \in Tasks : MoveTask(task)

ToolStep ==
    \E c \in Calls : \/ \E t \in Turns, task \in Tasks : ToolRead(c, t, task)
                     \/ ToolWrite(c)

RunnerStep ==
    \/ Poll \/ Claim \/ NothingToClaim \/ SetupFails \/ OpenThread \/ OnSession
    \/ HarnessReturns("completed") \/ HarnessReturns("failed")
    \/ FinishRead \/ FinishWrite \/ FinishFails

Next == UserStep \/ ToolStep \/ RunnerStep \/ Shutdown \/ Exit \/ Crash \/ Start

Spec == Init /\ [][Next]_vars

\* The runner ticks every second, a run has a timeout, a stopped process exits
\* and the web process is started again.
FairSpec == Spec /\ WF_vars(RunnerStep) /\ WF_vars(Exit) /\ WF_vars(Start)

-----------------------------------------------------------------------------
(* Properties                                                              *)

\* A client key prevents duplicate sends: whatever the browser repeats, and
\* however requests overlap, a key stands for one turn and one message.
OneTurnPerMessage ==
    \A a, b \in acks : a.project = b.project /\ a.key = b.key => a = b

\* A turn resumes the session of the latest earlier turn of its conversation
\* that had one, across stops, failures and restarts.
SessionContinues ==
    \A p \in Projects : \A i, j \in Sent(p) :
        /\ i < j /\ session[i] # NoSession
        /\ \A k \in Sent(p) : i < k /\ k < j => session[k] = NoSession
        => request[j].resume = session[i]

\* A turn in flight is the runner's, unless finish failed or the process is
\* down: nothing else keeps a conversation from its next message.
TurnInFlightIsHeld ==
    faults = 0 /\ runner.pc # "down" =>
        \A t \in Turns : status[t] \in InFlight => runner.pc \in Holding /\ runner.turn = t

\* A canceled or completed turn cannot keep writing: a tool's write lands only
\* while its turn runs and in a task that still is in the turn's project.
StopRevokesWrites ==
    [][\A t \in Turns, task \in Tasks :
        <<t, task>> \in written' \ written =>
            status[t] = "running" /\ t \notin stopped
            /\ home[task] = request[t].project]_vars

\* A turn that is not replayed: what has started never waits again.
TurnNeverReplayed ==
    [][\A t \in Turns : status'[t] = "pending" => status[t] \in {"absent", "pending"}]_vars

\* A turn in flight ends, across stops and crashes, if finish does not fail.
TurnEnds ==
    \A t \in Turns : status[t] \in InFlight ~> status[t] \notin InFlight \/ faults > 0

\* A pending turn is taken, also behind a turn that a failure left running.
PendingIsTaken ==
    \A t \in Turns : status[t] = "pending" ~> status[t] # "pending"

\* project-chats.md: "Stop immediately revokes writes and cancels the model
\* turn": a turn whose stop was accepted is not reported as completed.
StoppedIsNotCompleted == \A t \in stopped : status[t] # "completed"
=============================================================================
