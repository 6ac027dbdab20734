-------------------------- MODULE SessionComposer --------------------------
(***************************************************************************)
(* Going on with a task's session: the composer below an agent's result    *)
(* (task-session-composer.tsx), and the request that it sends              *)
(* (taskSessionService.go, EnqueueChat in chatRepo.go).                    *)
(*                                                                         *)
(* A message carries a key, the turn it answers and the stage it was       *)
(* written in. The server looks at all of them, asks a classifier whether  *)
(* the message is a question, and looks again in the transaction that      *)
(* inserts the turn. More work is started only by the confirmation.        *)
(*                                                                         *)
(* One task, several tabs. Turns are numbered from 1 and messages in the   *)
(* order they are written; what a tab shows may be old.                    *)
(***************************************************************************)
EXTENDS Naturals, Sequences, FiniteSetsExt

CONSTANTS
    Tabs,           \* browser tabs with a composer
    MaxMessages,    \* bound on the messages written
    MaxSends,       \* bound on the requests sent
    MaxMishaps      \* bound on lost replies and moves of the card, together

ASSUME ComposerAssumption ==
    /\ MaxMessages \in Nat /\ MaxSends \in Nat /\ MaxMishaps \in Nat

VARIABLES
    turns,      \* the chat jobs of the task, oldest first
    working,    \* the last of them is pending or running: the task is owned
    stage,      \* task.stage
    session,    \* a turn has established a conversation that can be resumed
    tab,        \* by tab: the composer, and what the queries have cached
    send,       \* the requests, by number
    written, sent, mishaps

composerVars == <<turns, working, stage, session, tab, send,
                  written, sent, mishaps>>

Review == 1
InProgress == 2
Stages == {Review, InProgress}
Sends == 1..MaxSends

(* A message of 0 is none; keys are numbered by the request that made them. *)
(* fresh: only work can be confirmed, there is no conversation to ask in.   *)
Inputs == [key : Nat, message : Nat, previous : Nat, stage : Stages, fresh : BOOLEAN]
NoInput == [key |-> 0, message |-> 0, previous |-> 0, stage |-> Review, fresh |-> FALSE]
Decisions == {"auto", "question", "work"}
Turns == [key : Nat, message : Nat, previous : Nat, mode : {"question", "work"}]

TabType == [draft : Nat, pending : Inputs, dialog : Inputs, call : 0..MaxSends,
            latest : Nat, stage : Stages, locked : BOOLEAN]
SendType == [at : {"idle", "find", "classify", "enqueue", "job", "confirm", "refused"},
             input : Inputs, decision : Decisions, job : Nat]
NotSent == [at |-> "idle", input |-> NoInput, decision |-> "auto", job |-> 0]

ComposerTypeOK ==
    /\ turns \in Seq(Turns)
    /\ working \in BOOLEAN
    /\ stage \in Stages
    /\ session \in BOOLEAN
    /\ tab \in [Tabs -> TabType]
    /\ send \in [Sends -> SendType]
    /\ written \in 0..MaxMessages
    /\ sent \in 0..MaxSends
    /\ mishaps \in 0..MaxMishaps

(* The first run of the task, one that Conductor started, has ended. *)
ComposerInit ==
    /\ turns = <<>>
    /\ working = FALSE
    /\ stage = Review
    /\ session \in BOOLEAN
    /\ tab = [t \in Tabs |-> [draft |-> 0, pending |-> NoInput, dialog |-> NoInput, call |-> 0,
                              latest |-> 0, stage |-> Review, locked |-> FALSE]]
    /\ send = [c \in Sends |-> NotSent]
    /\ written = 0 /\ sent = 0 /\ mishaps = 0

-----------------------------------------------------------------------------
(* The composer *)

(* The text area is disabled while a request or the dialog is open. *)
Free(t) == ~tab[t].locked /\ tab[t].call = 0
Editable(t) == Free(t) /\ tab[t].dialog = NoInput

Write(t) ==
    /\ Editable(t)
    /\ written < MaxMessages
    /\ written' = written + 1
    /\ tab' = [tab EXCEPT ![t].draft = written']
    /\ UNCHANGED <<turns, working, stage, session, send, sent, mishaps>>

Post(t, input, decision) ==
    /\ sent < MaxSends
    /\ sent' = sent + 1
    /\ send' = [send EXCEPT ![sent'] = [at |-> "find", input |-> input,
                                        decision |-> decision, job |-> 0]]

(* A draft that was sent already keeps its key, if it was written to the    *)
(* same turn and stage.                                                     *)
Resent(t) ==
    /\ tab[t].pending.message = tab[t].draft
    /\ tab[t].pending.previous = tab[t].latest
    /\ tab[t].pending.stage = tab[t].stage

PendingInput(t) ==
    IF Resent(t) THEN tab[t].pending
    ELSE [key |-> sent + 1, message |-> tab[t].draft, previous |-> tab[t].latest,
          stage |-> tab[t].stage, fresh |-> FALSE]

Submit(t) ==
    /\ Editable(t)
    /\ tab[t].draft # 0
    /\ LET input == PendingInput(t)
       IN /\ Post(t, input, "auto")
          /\ tab' = [tab EXCEPT ![t].pending = input, ![t].call = sent']
    /\ UNCHANGED <<turns, working, stage, session, written, mishaps>>

(* "Ask only" and "Resume work", if the task has not changed under them. *)
Decide(t) ==
    LET d == tab[t].dialog
    IN
    /\ Free(t)
    /\ d # NoInput /\ d.previous = tab[t].latest /\ d.stage = tab[t].stage
    /\ \E decision \in {"question", "work"} :
          /\ decision = "question" => ~d.fresh
          /\ Post(t, [d EXCEPT !.fresh = FALSE], decision)
    /\ tab' = [tab EXCEPT ![t].call = sent']
    /\ UNCHANGED <<turns, working, stage, session, written, mishaps>>

Cancel(t) ==
    /\ tab[t].call = 0 /\ tab[t].dialog # NoInput
    /\ tab' = [tab EXCEPT ![t].dialog = NoInput]
    /\ UNCHANGED <<turns, working, stage, session, send, written, sent, mishaps>>

(* onSuccess, onError *)
Receive(t) ==
    LET c == tab[t].call
        r == send[c]
    IN
    /\ c # 0
    /\ CASE r.at = "confirm" ->
              tab' = [tab EXCEPT ![t].call = 0, ![t].dialog = r.input]
         [] r.at = "job" ->
              tab' = [tab EXCEPT ![t].call = 0, ![t].dialog = NoInput, ![t].pending = NoInput,
                                 ![t].draft = IF @ = r.input.message THEN 0 ELSE @,
                                 ![t].latest = IF r.job > @ THEN r.job ELSE @]
         [] r.at = "refused" -> tab' = [tab EXCEPT ![t].call = 0]
         [] OTHER -> FALSE
    /\ send' = [send EXCEPT ![c] = NotSent]
    /\ UNCHANGED <<turns, working, stage, session, written, sent, mishaps>>

(* The reply is lost, before or after the server has acted. *)
LoseReply(t) ==
    /\ tab[t].call # 0
    /\ mishaps < MaxMishaps
    /\ mishaps' = mishaps + 1
    /\ tab' = [tab EXCEPT ![t].call = 0]
    /\ UNCHANGED <<turns, working, stage, session, send, written, sent>>

(* Each of the three queries is answered at its own time. *)
RefreshTab(t) ==
    /\ \/ tab' = [tab EXCEPT ![t].latest = Len(turns)]
       \/ tab' = [tab EXCEPT ![t].stage = stage]
       \/ tab' = [tab EXCEPT ![t].locked = working]
    /\ tab' # tab
    /\ UNCHANGED <<turns, working, stage, session, send, written, sent, mishaps>>

-----------------------------------------------------------------------------
(* The server: TaskMessage, EnqueueChat *)

TurnsOf(key) == {i \in DOMAIN turns : turns[i].key = key}

(* variant: any turn that exists can be answered *)
CursorExists(input) == input.previous <= Len(turns)

(* What both of them check. The cursor: the message answers the last turn.  *)
CursorIsCurrent(input) == input.previous = Len(turns)
Accepted(input) == CursorIsCurrent(input) /\ ~working /\ input.stage = stage

(* A key that is known is answered with its turn. *)
AnsweredBefore(c) ==
    /\ TurnsOf(send[c].input.key) # {}
    /\ send' = [send EXCEPT ![c].at = "job", ![c].job = Min(TurnsOf(send[c].input.key))]

Find(c) ==
    LET r == send[c]
    IN
    /\ r.at = "find"
    /\ \/ AnsweredBefore(c)
       \/ /\ TurnsOf(r.input.key) = {}
          /\ send' = [send EXCEPT
                ![c].at = IF ~Accepted(r.input) THEN "refused"
                          ELSE CASE r.decision = "work" -> "enqueue"
                                 [] r.decision = "question" ->
                                        IF session THEN "enqueue" ELSE "refused"
                                 [] r.decision = "auto" ->
                                        IF session THEN "classify" ELSE "confirm",
                ![c].input.fresh = ~session /\ r.decision = "auto"]
    /\ UNCHANGED <<turns, working, stage, session, tab, written, sent, mishaps>>

(* Only a question goes on without being confirmed. *)
Classify(c) ==
    /\ send[c].at = "classify"
    /\ \/ send' = [send EXCEPT ![c].at = "enqueue", ![c].decision = "question"]
       \/ send' = [send EXCEPT ![c].at = "confirm"]
    /\ UNCHANGED <<turns, working, stage, session, tab, written, sent, mishaps>>

(* Everything is checked again. Work moves the card with it, and is refused *)
(* too if a blocker or the project's stages are in the way.                 *)
EnqueueChat(c) ==
    LET r == send[c]
    IN
    /\ r.at = "enqueue"
    /\ \/ AnsweredBefore(c) /\ UNCHANGED <<turns, working, stage>>
       \/ /\ TurnsOf(r.input.key) = {}
          /\ ~Accepted(r.input) \/ r.decision = "work"
          /\ send' = [send EXCEPT ![c].at = "refused"]
          /\ UNCHANGED <<turns, working, stage>>
       \/ /\ TurnsOf(r.input.key) = {} /\ Accepted(r.input)
          /\ turns' = Append(turns, [key |-> r.input.key, message |-> r.input.message,
                                     previous |-> r.input.previous, mode |-> r.decision])
          /\ working' = TRUE
          /\ stage' = IF r.decision = "work" THEN InProgress ELSE stage
          /\ send' = [send EXCEPT ![c].at = "job", ![c].job = Len(turns')]
    /\ UNCHANGED <<session, tab, written, sent, mishaps>>

(* The turn ends; work that is completed is handed back for review. *)
TurnEnds ==
    /\ working
    /\ working' = FALSE
    /\ session' \in {session, TRUE}
    /\ stage' \in IF turns[Len(turns)].mode = "work" THEN {stage, Review} ELSE {stage}
    /\ UNCHANGED <<turns, tab, send, written, sent, mishaps>>

(* A person moves the card; UpdateTask asks nobody, the agent may be at work. *)
MoveCard ==
    /\ mishaps < MaxMishaps
    /\ mishaps' = mishaps + 1
    /\ stage' \in Stages \ {stage}
    /\ UNCHANGED <<turns, working, session, tab, send, written, sent>>

ComposerNext ==
    \/ \E t \in Tabs :
          Write(t) \/ Submit(t) \/ Decide(t) \/ Cancel(t) \/ Receive(t) \/ LoseReply(t)
          \/ RefreshTab(t)
    \/ \E c \in Sends : Find(c) \/ Classify(c) \/ EnqueueChat(c)
    \/ TurnEnds \/ MoveCard

ComposerSpec == ComposerInit /\ [][ComposerNext]_composerVars

-----------------------------------------------------------------------------
(* Properties *)

(* The conversation is one line: each turn answers the one before it, so    *)
(* that its author has seen it, and no request makes two turns, though tabs *)
(* send at once, replies are lost, and the classifier takes its time.       *)
ConversationIsLinear ==
    \A i \in DOMAIN turns :
        /\ turns[i].previous = i - 1
        /\ TurnsOf(turns[i].key) = {i}
=============================================================================
