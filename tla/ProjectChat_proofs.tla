------------------------- MODULE ProjectChat_proofs -------------------------
(***************************************************************************)
(* Theorems about ProjectChat for any number of projects, keys, requests,  *)
(* tool calls, turns, crashes and failing statements: its types, one turn  *)
(* per message, continued sessions, and what a stop revokes.               *)
(***************************************************************************)
EXTENDS ProjectChat, TLAPS

-----------------------------------------------------------------------------
(* The inductive invariant. *)

Present(t) == status[t] # "absent"

\* Rows are inserted in the order of their numbers, and have no session before.
Rows ==
    \A t \in Turns :
        /\ ~Present(t) => session[t] = NoSession
        /\ Present(t) => request[t] \in Requests
        /\ \A u \in Turns : u < t /\ Present(t) => Present(u)

\* A key has one row in its conversation,
OneRow ==
    \A t, u \in Turns :
        /\ Present(t) /\ Present(u)
        /\ request[t].project = request[u].project /\ request[t].key = request[u].key
        => t = u

\* and what the browser was told is in a row.
Recorded ==
    \A a \in acks :
        /\ a.turn \in Turns /\ Present(a.turn)
        /\ a.project = request[a.turn].project
        /\ a.key = request[a.turn].key
        /\ a.message = request[a.turn].message

\* An active turn is the last one of its conversation,
ActiveIsLast ==
    \A t, u \in Turns :
        status[t] \in Active /\ Present(u) /\ request[u].project = request[t].project
            => u <= t

\* whose session is that of the last turn that had one.
Latest ==
    \A i \in Turns :
        /\ Present(i) /\ session[i] # NoSession
        /\ \A k \in Turns : i < k /\ Present(k) /\ request[k].project = request[i].project
                                => session[k] = NoSession
        => chatSession[request[i].project] = session[i]

Table == Rows /\ OneRow /\ Recorded /\ ActiveIsLast /\ Latest /\ SessionContinues

\* The runner's turn has started, and it has something to write at the end.
Running ==
    /\ runner.pc \in Holding =>
          runner.turn \in Turns /\ status[runner.turn] \notin {"absent", "pending"}
    /\ runner.pc = "finish" => runner.outcome # "none"
    /\ runner.pc = "save" => runner.verdict # "none"
    /\ runner.pc = "opened" => runner.thread # NoSession
    /\ TurnInFlightIsHeld

\* A turn whose stop was accepted does not run again.
StopHolds == \A t \in stopped : status[t] \notin {"absent", "pending", "running"}

\* TypeOK, with the domains that an update of a function needs.
Typed == TypeOK /\ call \in [Calls -> Sends \union ToolCalls \union {NoCall}]

PInv == Typed /\ Table /\ Running /\ StopHolds

-----------------------------------------------------------------------------
(* Steps that leave the rows alone, or change only their status *)

\* Nothing that is said of the rows changes while they do not.
LEMMA TableStays ==
  ASSUME Table, UNCHANGED <<table, acks>>
  PROVE  Table'
BY DEF Table, table, Rows, OneRow, Recorded, ActiveIsLast, Latest, SessionContinues, Present, Sent

\* Nor when a turn ends, starts or is stopped.
LEMMA StatusStep ==
  ASSUME Table, UNCHANGED <<request, session, chatSession, acks>>,
         \A t \in Turns : /\ Present(t)' <=> Present(t)
                          /\ status'[t] \in Active => status[t] \in Active
  PROVE  Table'
<1>1. Rows' /\ OneRow'
  BY DEF Table, Rows, OneRow, Present
<1>2. Recorded'
  BY DEF Table, Recorded, Present
<1>3. ActiveIsLast'
  BY DEF Table, ActiveIsLast, Present
<1>4. Latest'
  BY DEF Table, Latest, Present
<1>5. ASSUME NEW p \in Projects PROVE Sent(p)' = Sent(p)
  BY DEF Sent, Present
<1>6. SessionContinues'
  BY <1>5 DEF Table, SessionContinues
<1>7. QED
  BY <1>1, <1>2, <1>3, <1>4, <1>6 DEF Table

\* A state without turns, calls or a running process.
LEMMA ChatInitInv == Init => PInv
<1> SUFFICES ASSUME Init PROVE PInv
  OBVIOUS
<1>1. NoSession \in Sessions /\ Down \in [pc : Locations, turn : Turns \union {NoTurn},
          thread : Sessions, outcome : {"none", "completed", "failed"},
          verdict : {"none", "completed", "failed", "canceled", "interrupted"}]
      /\ Down.pc = "down"
  BY BoundsAssumption DEF Sessions, NoSession, Down, Idle, Locations, NoTurn
<1>2. Typed
  <2>1. call \in [Calls -> {NoCall}] /\ \A c \in Calls : call[c] = NoCall
    BY DEF Init
  <2>2. /\ call \in [Calls -> Sends \union ToolCalls \union {NoCall}]
        /\ \A c \in Calls : call[c] \in Sends \union ToolCalls \union {NoCall}
    BY <2>1
  <2>3. /\ moves \in 0 .. MaxMoves /\ downs \in 0 .. MaxDowns /\ faults \in 0 .. MaxFaults
    BY BoundsAssumption DEF Init
  <2>4. /\ request \in [Turns -> Requests \union {NoRequest}]
        /\ status \in [Turns -> Statuses] /\ session \in [Turns -> Sessions]
        /\ chatSession \in [Projects -> Sessions] /\ home \in [Tasks -> Projects]
        /\ stopping \in BOOLEAN
    BY <1>1 DEF Init, Statuses
  <2>5. written = {} /\ acks = {} /\ stopped = {} /\ runner = Down
    BY DEF Init
  <2>6. QED
    BY <1>1, <2>2, <2>3, <2>4, <2>5 DEF Typed, TypeOK
<1>3. Table
  BY DEF Init, Table, Rows, OneRow, Recorded, ActiveIsLast, Latest, SessionContinues,
         Present, Sent, Active
<1>4. Running /\ StopHolds
  BY <1>1 DEF Init, Running, TurnInFlightIsHeld, Holding, StopHolds
<1>5. QED
  BY <1>2, <1>3, <1>4 DEF PInv

-----------------------------------------------------------------------------
(* The browser, the users and the tools *)

\* A message under a key that is known is answered with its turn.
LEMMA RetryStep ==
  ASSUME PInv, NEW p \in Projects, NEW k \in Keys, NEW m \in Messages, SendRetry(p, k, m)
  PROVE  PInv'
<1>1. PICK t \in Turns : /\ Present(t) /\ request[t].message = m
                         /\ acks' = acks \union {Answer(request[t], t)}
  BY DEF SendRetry, Previous, Sent, Present
<1>2. request[t] \in Requests
  BY <1>1 DEF PInv, Table, Rows
<1>3. acks' \subseteq [project : Projects, key : Keys, message : Messages, turn : Turns]
  BY <1>1, <1>2 DEF PInv, Typed, TypeOK, Answer, Requests
<1>4. UNCHANGED <<table, runner, stopping, call, home, written, stopped, counters>>
  BY DEF SendRetry
<1>5. Typed'
  BY <1>3, <1>4 DEF PInv, Typed, TypeOK, table, counters
<1>6. Recorded'
  BY <1>1, <1>4 DEF PInv, Table, Recorded, Answer, Present, table
<1>7. Table'
  BY <1>4, <1>6 DEF PInv, Table, table, Rows, OneRow, Recorded, ActiveIsLast, Latest,
                    SessionContinues, Present, Sent
<1>8. Running' /\ StopHolds'
  BY <1>4 DEF PInv, Running, TurnInFlightIsHeld, StopHolds, table, counters
<1>9. QED
  BY <1>5, <1>7, <1>8 DEF PInv

\* A step of a caller that leaves rows, answers and runner alone.
LEMMA CallerStep ==
  ASSUME PInv, UNCHANGED <<table, runner, acks, stopped, faults>>, Typed'
  PROVE  PInv'
<1>1. Table'
  BY TableStays DEF PInv
<1>2. Running' /\ StopHolds'
  BY DEF PInv, Running, TurnInFlightIsHeld, StopHolds, table
<1>3. QED
  BY <1>1, <1>2 DEF PInv

\* A new row, with the session of its conversation.
LEMMA InsertStep ==
  ASSUME PInv, NEW req \in Requests, InsertTurn(req), req.resume = chatSession[req.project],
         Previous(req.project, req.key) = {},
         UNCHANGED <<runner, stopped, faults>>
  PROVE  /\ Table' /\ Running' /\ StopHolds'
         /\ request' \in [Turns -> Requests \union {NoRequest}]
         /\ status' \in [Turns -> Statuses]
         /\ acks' \subseteq [project : Projects, key : Keys, message : Messages, turn : Turns]
<1> DEFINE p == req.project
<1>1. PICK n \in Turns :
         /\ ~Present(n)
         /\ \A u \in Turns : u < n => Present(u)
         /\ request' = [request EXCEPT ![n] = req]
         /\ status' = [status EXCEPT ![n] = "pending"]
         /\ acks' = acks \union {Answer(req, n)}
  BY DEF InsertTurn, Present
<1>2. UNCHANGED <<session, chatSession>>
  BY DEF InsertTurn
<1>3. /\ request \in [Turns -> Requests \union {NoRequest}]
      /\ status \in [Turns -> Statuses]
      /\ acks \subseteq [project : Projects, key : Keys, message : Messages, turn : Turns]
      /\ Rows /\ OneRow /\ Recorded /\ ActiveIsLast /\ Latest /\ SessionContinues
  BY DEF PInv, Typed, TypeOK, Table
<1>4. /\ req.project \in Projects /\ req.key \in Keys /\ req.message \in Messages
      /\ req.resume \in Sessions
  BY DEF Requests
<1>5. /\ request' \in [Turns -> Requests \union {NoRequest}]
      /\ status' \in [Turns -> Statuses]
      /\ acks' \subseteq [project : Projects, key : Keys, message : Messages, turn : Turns]
  BY <1>1, <1>3, <1>4 DEF Statuses, Answer
<1>6. \A u \in Turns : Present(u) => u < n
  BY <1>1, <1>3 DEF Rows, Turns
<1>7. /\ status'[n] = "pending" /\ request'[n] = req /\ session[n] = NoSession
      /\ \A u \in Turns : u # n => status'[u] = status[u] /\ request'[u] = request[u]
  BY <1>1, <1>3 DEF Rows
<1>8. \A u \in Turns : Present(u) /\ request[u].project = req.project
                           => request[u].key # req.key /\ status[u] \notin Active
  BY DEF InsertTurn, Previous, Sent, Present
<1>9. Rows'
  BY <1>1, <1>2, <1>3, <1>6, <1>7 DEF Rows, Present, Turns
<1>10. OneRow'
  BY <1>3, <1>7, <1>8 DEF OneRow, Present
<1>11. Recorded'
  BY <1>1, <1>3, <1>7 DEF Recorded, Answer, Present
<1>12. ActiveIsLast'
  <2> SUFFICES ASSUME NEW t \in Turns, NEW u \in Turns, status'[t] \in Active, Present(u)',
                      request'[u].project = request'[t].project
               PROVE  u <= t
    BY DEF ActiveIsLast
  <2>1. CASE t = n
    <3>1. u = n \/ u < n
      BY <1>6, <1>7 DEF Present
    <3>2. QED
      BY <2>1, <3>1 DEF Turns
  <2>2. CASE t # n /\ u = n
    <3>1. status[t] \in Active /\ request[t].project = req.project
      BY <1>7, <2>2
    <3>2. Present(t)
      BY <3>1 DEF Active, Present
    <3>3. QED
      BY <1>8, <3>1, <3>2
  <2>3. CASE t # n /\ u # n
    BY <1>3, <1>7, <2>3 DEF ActiveIsLast, Present
  <2>4. QED
    BY <2>1, <2>2, <2>3
<1>13. Latest'
  BY <1>2, <1>3, <1>6, <1>7 DEF Latest, Present
<1>14. SessionContinues'
  <2> SUFFICES ASSUME NEW q \in Projects, NEW i \in Turns, NEW j \in Turns,
                      i \in Sent(q)', j \in Sent(q)', i < j, session[i] # NoSession,
                      \A k \in Sent(q)' : i < k /\ k < j => session[k] = NoSession
               PROVE  request'[j].resume = session[i]
    BY <1>2 DEF SessionContinues, Sent
  <2>1. Present(i) /\ request[i].project = q
    BY <1>7 DEF Sent, Present
  <2>2. CASE j # n
    <3>1. i \in Sent(q) /\ j \in Sent(q) /\ Sent(q) \subseteq Sent(q)'
      BY <1>1, <1>7, <2>1, <2>2 DEF Sent, Present
    <3>2. QED
      BY <1>3, <1>7, <2>2, <3>1 DEF SessionContinues
  <2>3. CASE j = n
    <3>1. q = req.project
      BY <1>7, <2>3 DEF Sent
    <3>2. \A k \in Turns : i < k /\ Present(k) /\ request[k].project = q
                              => session[k] = NoSession
      BY <1>6, <1>7, <2>3 DEF Sent, Present
    <3>3. chatSession[q] = session[i]
      BY <1>3, <2>1, <3>2 DEF Latest
    <3>4. QED
      BY <1>7, <2>3, <3>1, <3>3
  <2>4. QED
    BY <2>2, <2>3
<1>15. Running'
  <2>1. \A u \in Turns : Present(u) => status'[u] = status[u]
    BY <1>1, <1>7
  <2>2. \A u \in Turns : status'[u] \in InFlight => status[u] \in InFlight
    BY <1>7 DEF InFlight
  <2>3. QED
    BY <1>7, <2>1, <2>2 DEF PInv, Running, TurnInFlightIsHeld, Present
<1>16. StopHolds'
  BY <1>1, <1>7 DEF PInv, StopHolds, Present, Typed, TypeOK
<1>17. QED
  BY <1>3, <1>5, <1>9, <1>10, <1>11, <1>12, <1>13, <1>14, <1>15, <1>16 DEF Table

\* The second half of Send.
LEMMA CommitStep ==
  ASSUME PInv, NEW c \in Calls, SendCommit(c)
  PROVE  PInv'
<1> DEFINE s == call[c]
           req == [project |-> s.project, key |-> s.key, message |-> s.message,
                   resume |-> chatSession[s.project]]
<1>1. s \in Sends
  BY DEF PInv, Typed, SendCommit, ToolCalls, NoCall
<1>2. /\ s.project \in Projects /\ s.key \in Keys /\ s.message \in Messages
      /\ req \in Requests
  BY <1>1 DEF Sends, Requests, PInv, Typed, TypeOK
<1>3. /\ UNCHANGED <<runner, stopping, home, written, stopped, counters>>
      /\ call' = [call EXCEPT ![c] = NoCall]
  BY DEF SendCommit, Commit
<1>4. /\ call' \in [Calls -> Sends \union ToolCalls \union {NoCall}]
      /\ \A d \in Calls : call'[d] \in Sends \union ToolCalls \union {NoCall}
  BY <1>3 DEF PInv, Typed
<1>5. CASE Previous(s.project, s.key) = {} /\ InsertTurn(req)
  <2>1. /\ Table' /\ Running' /\ StopHolds'
        /\ request' \in [Turns -> Requests \union {NoRequest}]
        /\ status' \in [Turns -> Statuses]
        /\ acks' \subseteq [project : Projects, key : Keys, message : Messages, turn : Turns]
    BY <1>2, <1>3, <1>5, InsertStep DEF counters
  <2>2. UNCHANGED <<session, chatSession>>
    BY <1>5 DEF InsertTurn
  <2>3. Typed'
    BY <1>3, <1>4, <2>1, <2>2 DEF PInv, Typed, TypeOK, counters
  <2>4. QED
    BY <2>1, <2>3 DEF PInv
<1>6. CASE UNCHANGED <<table, acks>>
  <2>1. Typed'
    BY <1>3, <1>4, <1>6 DEF PInv, Typed, TypeOK, counters, table
  <2>2. QED
    BY <1>3, <1>6, <2>1, CallerStep DEF counters
<1>7. ASSUME NEW t \in Previous(s.project, s.key), request[t].message = s.message,
             acks' = acks \union {Answer(s, t)}, UNCHANGED table
      PROVE  PInv'
  <2>1. t \in Turns /\ Present(t) /\ request[t].project = s.project /\ request[t].key = s.key
    BY <1>7 DEF Previous, Sent, Present
  <2>2. Recorded'
    BY <1>7, <2>1 DEF PInv, Table, Recorded, Answer, Present, table
  <2>3. Table'
    BY <1>7, <2>2 DEF PInv, Table, table, Rows, OneRow, Recorded, ActiveIsLast, Latest,
                      SessionContinues, Present, Sent
  <2>4. Running' /\ StopHolds'
    BY <1>3, <1>7 DEF PInv, Running, TurnInFlightIsHeld, StopHolds, table, counters
  <2>5. acks' \subseteq [project : Projects, key : Keys, message : Messages, turn : Turns]
    BY <1>2, <1>7, <2>1 DEF PInv, Typed, TypeOK, Answer
  <2>6. Typed'
    BY <1>3, <1>4, <1>7, <2>5 DEF PInv, Typed, TypeOK, counters, table
  <2>7. QED
    BY <2>3, <2>4, <2>6 DEF PInv
<1>8. QED
  BY <1>5, <1>6, <1>7 DEF SendCommit, Commit

\* What users and tools do.
LEMMA UserOrToolStep ==
  ASSUME PInv, UserStep \/ ToolStep
  PROVE  PInv'
<1>1. ASSUME NEW c \in Calls, NEW p \in Projects, NEW k \in Keys, NEW m \in Messages,
             SendRead(c, p, k, m)
      PROVE  PInv'
  <2> DEFINE new == [kind |-> "send", project |-> p, key |-> k, message |-> m,
                     resume |-> chatSession[p]]
  <2>1. new \in Sends
    BY DEF Sends, PInv, Typed, TypeOK
  <2>2. call' = [call EXCEPT ![c] = new]
        /\ UNCHANGED <<table, runner, stopping, home, written, history, counters>>
    BY <1>1 DEF SendRead
  <2>3. Typed'
    BY <2>1, <2>2 DEF PInv, Typed, TypeOK, table, history, counters
  <2>4. QED
    BY <2>2, <2>3, CallerStep DEF history, counters
<1>2. ASSUME NEW t \in Turns, Cancel(t) PROVE PInv'
  <2>1. /\ status[t] \in {"pending", "running"}
        /\ status' = [status EXCEPT ![t] = IF @ = "pending" THEN "canceled" ELSE "canceling"]
        /\ stopped' = stopped \union {t}
        /\ UNCHANGED <<request, session, chatSession, runner, stopping, call, home,
                       written, acks, counters>>
    BY <1>2 DEF Cancel
  <2>2. /\ status \in [Turns -> Statuses]
        /\ status' \in [Turns -> Statuses] /\ stopped' \subseteq Turns
    BY <2>1 DEF PInv, Typed, TypeOK, Statuses
  <2>3. /\ status'[t] = IF status[t] = "pending" THEN "canceled" ELSE "canceling"
        /\ \A u \in Turns : u # t => status'[u] = status[u]
    BY <2>1, <2>2
  <2>4. Typed'
    BY <2>1, <2>2 DEF PInv, Typed, TypeOK, counters
  <2>5. \A u \in Turns : /\ Present(u)' <=> Present(u)
                         /\ status'[u] \in Active => status[u] \in Active
    BY <2>1, <2>3 DEF Present, Active
  <2>6. Table'
    BY <2>1, <2>5, StatusStep DEF PInv
  <2>7. StopHolds'
    BY <2>1, <2>3 DEF PInv, StopHolds, Typed, TypeOK
  <2>8. Running'
    <3>1. \A u \in Turns : status'[u] \in InFlight => status[u] \in InFlight
      BY <2>1, <2>3 DEF InFlight
    <3>2. \A u \in Turns : status[u] \notin {"absent", "pending"}
                            => status'[u] \notin {"absent", "pending"}
      BY <2>1, <2>3
    <3>3. QED
      BY <2>1, <3>1, <3>2 DEF PInv, Running, TurnInFlightIsHeld, counters
  <2>9. QED
    BY <2>4, <2>6, <2>7, <2>8 DEF PInv
<1>3. ASSUME NEW task \in Tasks, MoveTask(task) PROVE PInv'
  <2>1. /\ home' \in [Tasks -> Projects] /\ moves' \in 0 .. MaxMoves
        /\ UNCHANGED <<table, runner, stopping, call, written, history, downs, faults>>
    BY <1>3, BoundsAssumption DEF MoveTask, PInv, Typed, TypeOK
  <2>2. Typed'
    BY <2>1 DEF PInv, Typed, TypeOK, table, history
  <2>3. QED
    BY <2>1, <2>2, CallerStep DEF history
<1>4. ASSUME NEW c \in Calls, NEW t \in Turns, NEW task \in Tasks, ToolRead(c, t, task)
      PROVE  PInv'
  <2> DEFINE new == [kind |-> "tool", turn |-> t, task |-> task]
  <2>1. new \in ToolCalls
    BY DEF ToolCalls
  <2>2. call' = [call EXCEPT ![c] = new]
        /\ UNCHANGED <<table, runner, stopping, home, written, history, counters>>
    BY <1>4 DEF ToolRead
  <2>3. Typed'
    BY <2>1, <2>2 DEF PInv, Typed, TypeOK, table, history, counters
  <2>4. QED
    BY <2>2, <2>3, CallerStep DEF history, counters
<1>5. ASSUME NEW c \in Calls, ToolWrite(c) PROVE PInv'
  <2>1. call[c] \in ToolCalls
    BY <1>5 DEF ToolWrite, PInv, Typed, Sends, NoCall
  <2>2. call[c].turn \in Turns /\ call[c].task \in Tasks
    BY <2>1 DEF ToolCalls
  <2>3. /\ written' \subseteq Turns \X Tasks
        /\ call' = [call EXCEPT ![c] = NoCall]
        /\ UNCHANGED <<table, runner, stopping, home, history, counters>>
    BY <1>5, <2>2 DEF ToolWrite, PInv, Typed, TypeOK
  <2>4. Typed'
    BY <2>3 DEF PInv, Typed, TypeOK, table, history, counters
  <2>5. QED
    BY <2>3, <2>4, CallerStep DEF history, counters
<1>6. QED
  BY <1>1, <1>2, <1>3, <1>4, <1>5, RetryStep, CommitStep DEF UserStep, ToolStep

-----------------------------------------------------------------------------
(* The runner and the process *)

RunnerType == [pc : Locations, turn : Turns \union {NoTurn}, thread : Sessions,
               outcome : {"none", "completed", "failed"},
               verdict : {"none", "completed", "failed", "canceled", "interrupted"}]

\* A step of the runner that leaves the rows alone.
LEMMA RunnerOnly ==
  ASSUME PInv, UNCHANGED <<table, acks, stopped, home, written>>,
         call' \in [Calls -> Sends \union ToolCalls \union {NoCall}],
         runner' \in RunnerType, stopping' \in BOOLEAN,
         moves' \in 0 .. MaxMoves, downs' \in 0 .. MaxDowns, faults' \in 0 .. MaxFaults,
         Running'
  PROVE  PInv'
<1>1. Table'
  BY TableStays DEF PInv
<1>2. Typed' /\ StopHolds'
  BY DEF PInv, Typed, TypeOK, StopHolds, table, RunnerType
<1>3. QED
  BY <1>1, <1>2 DEF PInv

\* A step of the runner that ends, starts or interrupts turns.
LEMMA RunnerStatus ==
  ASSUME PInv, UNCHANGED <<request, session, chatSession, stopping, call, home, written,
                           history, counters>>,
         status' \in [Turns -> Statuses], runner' \in RunnerType,
         \A t \in Turns :
            /\ Present(t)' <=> Present(t)
            /\ status'[t] \in Active => status[t] \in Active
            /\ status'[t] \in {"pending", "running"} => status[t] \in {"pending", "running"},
         Running'
  PROVE  PInv'
<1>1. Table'
  BY StatusStep DEF PInv, history
<1>2. Typed'
  BY DEF PInv, Typed, TypeOK, history, counters, RunnerType
<1>3. StopHolds'
  BY DEF PInv, StopHolds, Typed, TypeOK, Present, history
<1>4. QED
  BY <1>1, <1>2, <1>3 DEF PInv

\* The provider has opened the thread: turn and conversation get its session.
LEMMA SessionStep ==
  ASSUME PInv, OnSession
  PROVE  PInv'
<1> DEFINE t == runner.turn
           p == request[t].project
<1>1. /\ runner \in RunnerType /\ runner.pc = "opened"
      /\ t \in Turns /\ status[t] \notin {"absent", "pending"} /\ TurnInFlightIsHeld
      /\ UNCHANGED <<request, status, stopping, call, home, written, history, counters>>
  BY DEF OnSession, PInv, Typed, TypeOK, RunnerType, Running, Holding, Others, counters
<1>2. CASE ~LiveChat(t, p)
  <2>1. UNCHANGED table /\ runner' = [runner EXCEPT !.pc = "finish", !.outcome = "failed"]
    BY <1>1, <1>2 DEF OnSession, table
  <2>2. /\ runner' \in RunnerType /\ runner'.pc = "finish" /\ runner'.turn = t
        /\ runner'.outcome = "failed"
    BY <1>1, <2>1 DEF RunnerType, Locations
  <2>3. Running'
    BY <1>1, <2>1, <2>2 DEF Running, TurnInFlightIsHeld, Holding, table, counters
  <2>4. QED
    BY <1>1, <2>1, <2>2, <2>3, RunnerOnly DEF PInv, Typed, TypeOK, history, counters
<1>3. CASE LiveChat(t, p)
  <2>1. /\ session' = [session EXCEPT ![t] = runner.thread]
        /\ chatSession' = [chatSession EXCEPT ![p] = runner.thread]
        /\ runner' = [runner EXCEPT !.pc = "harness"]
    BY <1>1, <1>3 DEF OnSession
  <2>2. /\ session \in [Turns -> Sessions] /\ chatSession \in [Projects -> Sessions]
        /\ Rows /\ OneRow /\ Recorded /\ ActiveIsLast /\ Latest /\ SessionContinues
    BY DEF PInv, Typed, TypeOK, Table
  <2>3. /\ Present(t) /\ request[t] \in Requests /\ p \in Projects
        /\ status[t] \in Active /\ runner.thread \in Sessions
    BY <1>1, <1>3, <2>2 DEF Present, Rows, Requests, LiveChat, Active, RunnerType
  <2>4. /\ runner' \in RunnerType /\ runner'.pc = "harness" /\ runner'.turn = t
    BY <1>1, <2>1 DEF RunnerType, Locations
  <2>5. /\ session' \in [Turns -> Sessions] /\ chatSession' \in [Projects -> Sessions]
        /\ session'[t] = runner.thread /\ chatSession'[p] = runner.thread
        /\ \A u \in Turns : u # t => session'[u] = session[u]
        /\ \A q \in Projects : q # p => chatSession'[q] = chatSession[q]
    BY <1>1, <2>1, <2>2, <2>3
  <2>6. \A u \in Turns : Present(u) /\ request[u].project = p => u <= t
    BY <1>1, <2>2, <2>3 DEF ActiveIsLast
  <2>7. Rows' /\ OneRow' /\ Recorded' /\ ActiveIsLast'
    BY <1>1, <2>2, <2>3, <2>5 DEF Rows, OneRow, Recorded, ActiveIsLast, Present, history
  <2>8. Latest'
    <3> SUFFICES ASSUME NEW i \in Turns, Present(i), session'[i] # NoSession,
                        \A k \in Turns : i < k /\ Present(k) /\ request[k].project = request[i].project
                                       => session'[k] = NoSession
                 PROVE  chatSession'[request[i].project] = session'[i]
      BY <1>1 DEF Latest, Present
    <3>1. CASE i = t
      BY <2>5, <3>1
    <3>2. CASE i # t /\ request[i].project = p
      <4>1. i < t
        BY <1>1, <2>6, <3>2 DEF Turns
      <4>2. session'[t] = NoSession
        BY <1>1, <2>3, <3>2, <4>1
      <4>3. runner.thread = NoSession
        BY <2>5, <4>2
      <4>4. QED
        BY <1>1, <4>3 DEF PInv, Running
    <3>3. CASE i # t /\ request[i].project # p
      <4>1. request[i].project \in Projects
        BY <2>2 DEF Rows, Requests
      <4>2. \A k \in Turns : i < k /\ Present(k) /\ request[k].project = request[i].project
                            => session[k] = NoSession
        BY <2>5, <3>3
      <4>3. QED
        BY <2>2, <2>5, <3>3, <4>1, <4>2 DEF Latest
    <3>4. QED
      BY <3>1, <3>2, <3>3
  <2>9. SessionContinues'
    <3> SUFFICES ASSUME NEW q \in Projects, NEW i \in Sent(q), NEW j \in Sent(q),
                        i < j, session'[i] # NoSession,
                        \A k \in Sent(q) : i < k /\ k < j => session'[k] = NoSession
                 PROVE  request[j].resume = session'[i]
      BY <1>1 DEF SessionContinues, Sent
    <3>1. i \in Turns /\ j \in Turns /\ Present(i) /\ Present(j)
          /\ request[i].project = q /\ request[j].project = q
      BY DEF Sent, Present
    <3>2. i # t
      BY <2>6, <3>1 DEF Turns
    <3>3. \A k \in Sent(q) : i < k /\ k < j => k # t
      <4> SUFFICES ASSUME t \in Sent(q), t < j PROVE FALSE
        OBVIOUS
      <4>1. p = q
        BY DEF Sent
      <4>2. QED
        BY <1>1, <2>6, <3>1, <4>1 DEF Turns
    <3>4. \A k \in Sent(q) : i < k /\ k < j => session[k] = NoSession
      BY <2>5, <3>3 DEF Sent
    <3>5. QED
      BY <2>2, <2>5, <3>1, <3>2, <3>4 DEF SessionContinues
  <2>10. Typed'
    BY <1>1, <2>4, <2>5 DEF PInv, Typed, TypeOK, history, counters, RunnerType
  <2>11. Running' /\ StopHolds'
    BY <1>1, <2>4 DEF PInv, Running, TurnInFlightIsHeld, Holding, StopHolds, history, counters
  <2>12. QED
    BY <2>7, <2>8, <2>9, <2>10, <2>11 DEF PInv, Table
<1>4. QED
  BY <1>2, <1>3

\* What the runner does, from the poll to the end of a turn.
LEMMA RunnerSteps ==
  ASSUME PInv, RunnerStep
  PROVE  PInv'
<1>0. /\ runner \in RunnerType /\ Running /\ stopping \in BOOLEAN
      /\ status \in [Turns -> Statuses] /\ request \in [Turns -> Requests \union {NoRequest}]
      /\ call \in [Calls -> Sends \union ToolCalls \union {NoCall}]
      /\ moves \in 0 .. MaxMoves /\ downs \in 0 .. MaxDowns /\ faults \in 0 .. MaxFaults
  BY DEF PInv, Typed, TypeOK, RunnerType
<1>1. Idle \in RunnerType /\ Idle.pc = "idle" /\ Down \in RunnerType /\ Down.pc = "down"
  BY BoundsAssumption DEF Idle, Down, RunnerType, Locations, NoTurn, NoSession, Sessions
<1>2. ASSUME UNCHANGED <<table, Others>>, runner' \in RunnerType, faults' \in 0 .. MaxFaults, Running'
      PROVE  PInv'
  BY <1>0, <1>2, RunnerOnly DEF Others, history
<1>3. CASE Poll
  <2>1. /\ runner' \in RunnerType /\ runner'.pc = "polled" /\ runner.pc = "idle"
        /\ UNCHANGED <<table, Others, faults>>
    BY <1>0, <1>3 DEF Poll, RunnerType, Locations
  <2>2. Running'
    BY <1>0, <2>1 DEF Running, TurnInFlightIsHeld, Holding, table
  <2>3. QED
    BY <1>0, <1>2, <2>1, <2>2
<1>4. CASE Claim
  <2>1. PICK t \in Pending : /\ status' = [status EXCEPT ![t] = "running"]
                             /\ runner' = [runner EXCEPT !.pc = "claimed", !.turn = t]
    BY <1>4 DEF Claim
  <2>2. runner.pc = "polled" /\ UNCHANGED <<request, session, chatSession, Others, faults>>
    BY <1>4 DEF Claim
  <2>3. t \in Turns /\ status[t] = "pending"
    BY DEF Pending
  <2>4. /\ status' \in [Turns -> Statuses] /\ status'[t] = "running"
        /\ \A u \in Turns : u # t => status'[u] = status[u]
    BY <1>0, <2>1, <2>3 DEF Statuses
  <2>5. runner' \in RunnerType /\ runner'.pc = "claimed" /\ runner'.turn = t
    BY <1>0, <2>1, <2>3 DEF RunnerType, Locations
  <2>6. Running'
    <3>1. ASSUME faults = 0, NEW u \in Turns, u # t PROVE status'[u] \notin InFlight
      BY <1>0, <2>2, <2>4, <3>1 DEF Running, TurnInFlightIsHeld, Holding
    <3>2. QED
      BY <2>2, <2>3, <2>4, <2>5, <3>1 DEF Running, TurnInFlightIsHeld, Holding
  <2>7. \A u \in Turns :
            /\ Present(u)' <=> Present(u)
            /\ status'[u] \in Active => status[u] \in Active
            /\ status'[u] \in {"pending", "running"} => status[u] \in {"pending", "running"}
    BY <2>3, <2>4 DEF Present, Active
  <2>8. QED
    BY <2>2, <2>4, <2>5, <2>6, <2>7, RunnerStatus DEF Others, history, counters
<1>5. CASE NothingToClaim
  <2>1. runner' = Idle /\ runner.pc = "polled" /\ UNCHANGED <<table, Others, faults>>
    BY <1>5 DEF NothingToClaim
  <2>2. Running'
    BY <1>0, <1>1, <2>1 DEF Running, TurnInFlightIsHeld, Holding, table
  <2>3. QED
    BY <1>0, <1>1, <1>2, <2>1, <2>2
<1>6. CASE SetupFails
  <2>1. /\ runner' \in RunnerType /\ runner'.pc = "finish" /\ runner'.turn = runner.turn
        /\ runner'.outcome = "failed" /\ runner.pc = "claimed"
        /\ UNCHANGED <<table, Others, faults>>
    BY <1>0, <1>6 DEF SetupFails, RunnerType, Locations
  <2>2. Running'
    BY <1>0, <2>1 DEF Running, TurnInFlightIsHeld, Holding, table
  <2>3. QED
    BY <1>0, <1>2, <2>1, <2>2
<1>7. CASE OpenThread
  <2> DEFINE t == runner.turn
             thread == IF request[t].resume = NoSession THEN t ELSE request[t].resume
  <2>1. /\ runner.pc = "claimed" /\ runner' = [runner EXCEPT !.pc = "opened", !.thread = thread]
        /\ UNCHANGED <<table, Others, faults>>
    BY <1>7 DEF OpenThread
  <2>2. t \in Turns /\ Present(t) /\ request[t] \in Requests
    BY <1>0, <2>1 DEF Running, Holding, Present, PInv, Table, Rows
  <2>3. request[t].resume \in Sessions /\ t \in Sessions /\ t # NoSession
    BY <2>2 DEF Requests, Sessions, Turns, NoSession
  <2>4. thread \in Sessions /\ thread # NoSession
    BY <2>3
  <2>5. /\ runner' \in RunnerType /\ runner'.pc = "opened" /\ runner'.turn = runner.turn
        /\ runner'.thread # NoSession
    BY <1>0, <2>1, <2>4 DEF RunnerType, Locations
  <2>6. Running'
    BY <1>0, <2>1, <2>5 DEF Running, TurnInFlightIsHeld, Holding, table
  <2>7. QED
    BY <1>0, <1>2, <2>1, <2>5, <2>6
<1>8. ASSUME NEW o \in {"completed", "failed"}, HarnessReturns(o) PROVE PInv'
  <2>1. /\ runner' \in RunnerType /\ runner'.pc = "finish" /\ runner'.turn = runner.turn
        /\ runner'.outcome = o /\ runner.pc = "harness"
        /\ UNCHANGED <<table, Others, faults>>
    BY <1>0, <1>8 DEF HarnessReturns, RunnerType, Locations
  <2>2. Running'
    BY <1>0, <2>1 DEF Running, TurnInFlightIsHeld, Holding, table
  <2>3. QED
    BY <1>0, <1>2, <2>1, <2>2
<1>9. CASE FinishRead
  <2>1. PICK v \in {"canceled", "interrupted", runner.outcome} :
             runner' = [runner EXCEPT !.pc = "save", !.verdict = v]
    BY <1>9 DEF FinishRead
  <2>2. runner.pc = "finish" /\ UNCHANGED <<table, Others, faults>>
    BY <1>9 DEF FinishRead
  <2>3. v \in {"completed", "failed", "canceled", "interrupted"}
    BY <1>0, <2>1, <2>2 DEF Running, RunnerType
  <2>4. /\ runner' \in RunnerType /\ runner'.pc = "save" /\ runner'.turn = runner.turn
        /\ runner'.verdict = v
    BY <1>0, <2>1, <2>3 DEF RunnerType, Locations
  <2>5. Running'
    BY <1>0, <2>2, <2>3, <2>4 DEF Running, TurnInFlightIsHeld, Holding, table
  <2>6. QED
    BY <1>0, <1>2, <2>2, <2>4, <2>5
<1>10. CASE FinishWrite
  <2> DEFINE t == runner.turn
  <2>1. /\ runner.pc = "save" /\ runner' = Idle
        /\ status' = IF status[t] \in InFlight THEN [status EXCEPT ![t] = runner.verdict] ELSE status
        /\ UNCHANGED <<request, session, chatSession, Others, faults>>
    BY <1>10 DEF FinishWrite
  <2>2. /\ t \in Turns /\ status[t] \notin {"absent", "pending"}
        /\ runner.verdict \in {"completed", "failed", "canceled", "interrupted"}
    BY <1>0, <2>1 DEF Running, Holding, RunnerType
  <2>3. /\ status' \in [Turns -> Statuses]
        /\ \A u \in Turns : u # t => status'[u] = status[u]
        /\ status'[t] \notin {"absent", "pending"} /\ status'[t] \notin InFlight
    BY <1>0, <2>1, <2>2 DEF Statuses, InFlight
  <2>4. Running'
    BY <1>0, <1>1, <2>1, <2>3 DEF Running, TurnInFlightIsHeld, Holding
  <2>5. \A u \in Turns :
            /\ Present(u)' <=> Present(u)
            /\ status'[u] \in Active => status[u] \in Active
            /\ status'[u] \in {"pending", "running"} => status[u] \in {"pending", "running"}
    BY <2>2, <2>3 DEF Present, Active, InFlight
  <2>6. QED
    BY <1>1, <2>1, <2>3, <2>4, <2>5, RunnerStatus DEF Others, history, counters
<1>11. CASE FinishFails
  <2>1. /\ runner' = Idle /\ faults' = faults + 1 /\ faults < MaxFaults
        /\ UNCHANGED <<table, Others>>
    BY <1>11 DEF FinishFails
  <2>2. faults' \in 0 .. MaxFaults /\ faults' # 0
    BY <1>0, <2>1, BoundsAssumption
  <2>3. Running'
    BY <1>1, <2>1, <2>2 DEF Running, TurnInFlightIsHeld, Holding
  <2>4. QED
    BY <1>1, <1>2, <2>1, <2>2, <2>3
<1>12. QED
  BY <1>3, <1>4, <1>5, <1>6, <1>7, <1>8, <1>9, <1>10, <1>11, SessionStep DEF RunnerStep

\* The process stops, crashes and starts.
LEMMA ProcessStep ==
  ASSUME PInv, Shutdown \/ Exit \/ Crash \/ Start
  PROVE  PInv'
<1>0. /\ runner \in RunnerType /\ Running /\ stopping \in BOOLEAN
      /\ status \in [Turns -> Statuses]
      /\ call \in [Calls -> Sends \union ToolCalls \union {NoCall}]
      /\ moves \in 0 .. MaxMoves /\ downs \in 0 .. MaxDowns /\ faults \in 0 .. MaxFaults
  BY DEF PInv, Typed, TypeOK, RunnerType
<1>1. Idle \in RunnerType /\ Idle.pc = "idle" /\ Down \in RunnerType /\ Down.pc = "down"
  BY BoundsAssumption DEF Idle, Down, RunnerType, Locations, NoTurn, NoSession, Sessions
<1>2. CallsLeft \in [Calls -> Sends \union ToolCalls \union {NoCall}]
  BY <1>0 DEF CallsLeft
<1>3. CASE Shutdown
  <2>1. /\ stopping' = TRUE /\ downs' \in 0 .. MaxDowns
        /\ UNCHANGED <<table, runner, call, home, written, history, moves, faults>>
    BY <1>0, <1>3, BoundsAssumption DEF Shutdown
  <2>2. Running'
    BY <1>0, <2>1 DEF Running, TurnInFlightIsHeld, table
  <2>3. QED
    BY <1>0, <2>1, <2>2, RunnerOnly DEF history
<1>4. CASE Exit \/ Crash
  <2>1. /\ runner' = Down /\ stopping' = FALSE /\ call' = CallsLeft /\ downs' \in 0 .. MaxDowns
        /\ UNCHANGED <<table, home, written, history, moves, faults>>
    BY <1>0, <1>4, BoundsAssumption DEF Exit, Crash, counters
  <2>2. Running'
    BY <1>1, <2>1 DEF Running, TurnInFlightIsHeld, Holding
  <2>3. QED
    BY <1>0, <1>1, <1>2, <2>1, <2>2, RunnerOnly DEF history
<1>5. CASE Start
  <2>1. /\ status' = [t \in Turns |-> IF status[t] \in InFlight THEN "interrupted" ELSE status[t]]
        /\ runner' = Idle
        /\ UNCHANGED <<request, session, chatSession, Others, faults>>
    BY <1>5 DEF Start
  <2>2. /\ status' \in [Turns -> Statuses]
        /\ \A t \in Turns :
            /\ status'[t] \notin InFlight
            /\ Present(t)' <=> Present(t)
            /\ status'[t] \in Active => status[t] \in Active
            /\ status'[t] \in {"pending", "running"} => status[t] \in {"pending", "running"}
    BY <1>0, <2>1 DEF Statuses, Present, Active, InFlight
  <2>3. Running'
    BY <1>1, <2>1, <2>2 DEF Running, TurnInFlightIsHeld, Holding
  <2>4. QED
    BY <1>1, <2>1, <2>2, <2>3, RunnerStatus DEF Others, history, counters
<1>6. QED
  BY <1>3, <1>4, <1>5

\* Every step keeps the invariant.
LEMMA ChatStep == PInv /\ [Next]_vars => PInv'
<1> SUFFICES ASSUME PInv, [Next]_vars PROVE PInv'
  OBVIOUS
<1>1. CASE Next
  BY <1>1, UserOrToolStep, RunnerSteps, ProcessStep DEF Next
<1>2. CASE UNCHANGED vars
  <2>1. Typed'
    BY <1>2 DEF PInv, Typed, TypeOK, vars, table, history, counters
  <2>2. QED
    BY <1>2, <2>1, CallerStep DEF vars, history, counters
<1>3. QED
  BY <1>1, <1>2

-----------------------------------------------------------------------------
(* The theorems *)

\* The invariant holds in every state.
THEOREM ChatInvariance == Spec => []PInv
BY ChatInitInv, ChatStep, PTL DEF Spec

\* Every state has its types.
THEOREM ChatTypeCorrect == Spec => []TypeOK
BY ChatInvariance, PTL DEF PInv, Typed

\* A key stands for one turn and one message.
THEOREM OneTurn == Spec => []OneTurnPerMessage
<1>1. PInv => OneTurnPerMessage
  <2> SUFFICES ASSUME PInv, NEW a \in acks, NEW b \in acks, a.project = b.project, a.key = b.key
               PROVE  a = b
    BY DEF OneTurnPerMessage
  <2>1. /\ a \in [project : Projects, key : Keys, message : Messages, turn : Turns]
        /\ b \in [project : Projects, key : Keys, message : Messages, turn : Turns]
    BY DEF PInv, Typed, TypeOK
  <2>2. a.turn = b.turn
    BY DEF PInv, Table, OneRow, Recorded
  <2>3. a.message = b.message
    BY <2>2 DEF PInv, Table, Recorded
  <2>4. QED
    BY <2>1, <2>2, <2>3
<1>2. QED
  BY <1>1, ChatInvariance, PTL

\* A turn resumes the session of the latest earlier one that had one.
THEOREM ContinuedSessions == Spec => []SessionContinues
BY ChatInvariance, PTL DEF PInv, Table

\* While finish has not failed, a turn in flight is the runner's.
THEOREM HeldTurns == Spec => []TurnInFlightIsHeld
BY ChatInvariance, PTL DEF PInv, Running

\* A tool's write lands only for a running turn whose stop was not accepted, in
\* a task of its project.
THEOREM StopRevokes == Spec => StopRevokesWrites
<1>1. PInv /\ [Next]_vars
      => \A t \in Turns, task \in Tasks :
            <<t, task>> \in written' \ written =>
                status[t] = "running" /\ t \notin stopped
                /\ home[task] = request[t].project
  <2> SUFFICES ASSUME PInv, [Next]_vars, NEW t \in Turns, NEW task \in Tasks,
                      <<t, task>> \in written', <<t, task>> \notin written
               PROVE  status[t] = "running" /\ t \notin stopped
                      /\ home[task] = request[t].project
    OBVIOUS
  <2>1. PICK c \in Calls : ToolWrite(c)
    BY DEF Next, vars, UserStep, ToolStep, RunnerStep, SendRetry, SendRead, SendCommit, Commit,
           Cancel, MoveTask, ToolRead, Poll, Claim, NothingToClaim, SetupFails, OpenThread,
           OnSession, HarnessReturns, FinishRead, FinishWrite, FinishFails, Shutdown, Exit,
           Crash, Start, Others
  <2>2. /\ call[c].turn = t /\ call[c].task = task /\ LiveChat(t, home[task])
    BY <2>1 DEF ToolWrite
  <2>3. QED
    BY <2>2 DEF LiveChat, PInv, StopHolds
<1>2. QED
  BY <1>1, ChatInvariance, PTL DEF Spec, StopRevokesWrites

\* What has started is never queued again.
THEOREM NotReplayed == Spec => TurnNeverReplayed
<1>1. PInv /\ [Next]_vars
      => \A t \in Turns : status'[t] = "pending" => status[t] \in {"absent", "pending"}
  <2> SUFFICES ASSUME PInv, [Next]_vars, NEW t \in Turns, status'[t] = "pending"
               PROVE  status[t] \in {"absent", "pending"}
    OBVIOUS
  <2>0. status \in [Turns -> Statuses]
    BY DEF PInv, Typed, TypeOK
  <2>1. CASE UNCHANGED status
    BY <2>1
  <2>2. ASSUME NEW c \in Calls, SendCommit(c) PROVE status[t] \in {"absent", "pending"}
    BY <2>0, <2>1, <2>2 DEF SendCommit, Commit, InsertTurn, table
  <2>3. ASSUME NEW u \in Turns, Cancel(u) PROVE status[t] \in {"absent", "pending"}
    BY <2>0, <2>3 DEF Cancel
  <2>4. CASE Claim
    BY <2>0, <2>4 DEF Claim, Pending
  <2>5. CASE FinishWrite
    <3>1. runner.verdict # "pending"
      BY DEF PInv, Typed, TypeOK
    <3>2. QED
      BY <2>0, <2>5, <3>1 DEF FinishWrite
  <2>6. CASE Start
    BY <2>0, <2>6 DEF Start
  <2>7. \/ UNCHANGED status
        \/ \E c \in Calls : SendCommit(c)
        \/ \E u \in Turns : Cancel(u)
        \/ Claim \/ FinishWrite \/ Start
    BY DEF Next, vars, table, UserStep, ToolStep, RunnerStep, SendRetry, SendRead, MoveTask,
           ToolRead, ToolWrite, Poll, NothingToClaim, SetupFails, OpenThread, OnSession,
           HarnessReturns, FinishRead, FinishFails, Shutdown, Exit, Crash
  <2>8. QED
    BY <2>1, <2>2, <2>3, <2>4, <2>5, <2>6, <2>7
<1>2. QED
  BY <1>1, ChatInvariance, PTL DEF Spec, TurnNeverReplayed
=============================================================================
