------------------------------ MODULE TaskText ------------------------------
(***************************************************************************)
(* Editing the description of a task in the browser: in the drawer of a    *)
(* project's board (task-editor-drawer.tsx) and on the task's own page     *)
(* (task-page.tsx). Both read the body through a query, both write it      *)
(* through one mutation queue, and they share one entry of the Map in      *)
(* task-body-revision.ts: the ETag that the next write is conditional on.  *)
(*                                                                         *)
(* One task. A body is the set of the edits in it, and its ETag, a hash of *)
(* its content, is the body itself. Agents write the same body.            *)
(***************************************************************************)
EXTENDS Naturals, Sequences, SequencesExt

CONSTANTS
    BodyEdits,      \* edits people type in this tab
    BodyForeign,    \* what agents add: notes, handoffs
    PageVisits,     \* bound on visits of the task's page
    DrawerVisits,   \* bound on openings of the drawer
    MaxBodyLost     \* bound on requests or answers that are lost

ASSUME BodyAssumption ==
    /\ BodyEdits \cap BodyForeign = {}
    /\ PageVisits \in Nat /\ DrawerVisits \in Nat /\ MaxBodyLost \in Nat

VARIABLES
    body,       \* task.body
    revision,   \* the Map's entry: [known, text]
    query,      \* by view: the cached answer, and the request under way
    view,       \* by view: is it open, its editor, the pending debounce
    visits,     \* by view: times opened
    saves,      \* the mutations of the scope, oldest first
    flight,     \* the PUT under way
    bodyLost,   \* requests and answers lost so far
    fresh,      \* history: the view opened last began at rest, and its editor
                \* took the answer of the view's own read
    owed        \* history: typed in the drawer, neither stored nor reported yet

bodyVars == <<body, revision, query, view, visits, saves, flight, bodyLost, fresh, owed>>
history == <<fresh, owed>>

Views == {"drawer", "page"}
MaxVisits == [drawer |-> DrawerVisits, page |-> PageVisits]
Bodies == SUBSET (BodyEdits \union BodyForeign)
NoBody == [known |-> FALSE, text |-> {}]
Known(text) == [known |-> TRUE, text |-> text]
MaybeBody == [known : BOOLEAN, text : Bodies]

QueryType == [data : MaybeBody, call : {"none", "asked", "answered"}, answer : Bodies]

(* saved: savedBodyRef, what the editor believes to be stored. *)
ViewType == [open : BOOLEAN, mounted : BOOLEAN, value : Bodies, saved : Bodies,
             pending : BOOLEAN]

Closed == [open |-> FALSE, mounted |-> FALSE, value |-> {}, saved |-> {}, pending |-> FALSE]
NoFlight == [call |-> "none", match |-> NoBody, text |-> {}]

BodyTypeOK ==
    /\ body \in Bodies
    /\ revision \in MaybeBody
    /\ query \in [Views -> QueryType]
    /\ view \in [Views -> ViewType]
    /\ visits \in [Views -> Nat]
    /\ saves \in Seq(Bodies)
    /\ flight \in [call : {"none", "sent", "stored", "failed"}, match : MaybeBody,
                   text : Bodies]
    /\ bodyLost \in 0..MaxBodyLost
    /\ fresh \in BOOLEAN
    /\ owed \subseteq BodyEdits

BodyInit ==
    /\ body = {}
    /\ revision = NoBody
    /\ query = [v \in Views |-> [data |-> NoBody, call |-> "none", answer |-> {}]]
    /\ view = [v \in Views |-> Closed]
    /\ visits = [v \in Views |-> 0]
    /\ saves = <<>>
    /\ flight = NoFlight
    /\ bodyLost = 0
    /\ fresh = FALSE
    /\ owed = {}

-----------------------------------------------------------------------------
(* The views *)

(* No request of this task is under way. *)
Idle == saves = <<>> /\ flight.call = "none" /\ \A v \in Views : query[v].call = "none"

(* Both queries are stale as soon as they are answered, so that mounting    *)
(* one asks again, unless a request is under way. Nothing waits for a save  *)
(* that is under way or queued: `fresh` records whether there was none.     *)
Open(v) ==
    /\ \A u \in Views : ~view[u].open
    /\ visits[v] < MaxVisits[v]
    /\ visits' = [visits EXCEPT ![v] = @ + 1]
    /\ view' = [view EXCEPT ![v].open = TRUE]
    /\ query' = [query EXCEPT ![v].call = IF @ = "none" THEN "asked" ELSE @]
    /\ fresh' = Idle
    /\ UNCHANGED <<body, revision, saves, flight, bodyLost, owed>>

(* The drawer shows its editor when the data are there and no request is    *)
(* under way; the page shows it as soon as there are data.                  *)
ShowsEditor(v) ==
    /\ view[v].open
    /\ query[v].data.known
    /\ v = "drawer" => query[v].call = "none"

(* The editor takes its value when it is mounted, and never from later data: *)
(* on the page, the cached text, when it is mounted before the answer.       *)
MountEditor(v) ==
    /\ ShowsEditor(v)
    /\ ~view[v].mounted
    /\ LET text == query[v].data.text
       IN view' = [view EXCEPT ![v] = [open |-> TRUE, mounted |-> TRUE, value |-> text,
                                       saved |-> text, pending |-> FALSE]]
    /\ fresh' = (fresh /\ query[v].call = "none")
    /\ UNCHANGED <<body, revision, query, visits, saves, flight, bodyLost, owed>>

TypeBody(v) ==
    /\ view[v].mounted
    /\ \E e \in BodyEdits \ (view[v].value \union body) :
          /\ flight.call # "none" => e \notin flight.text
          /\ \A i \in DOMAIN saves : e \notin saves[i]
          /\ view' = [view EXCEPT ![v].value = @ \union {e}, ![v].pending = TRUE]
          /\ owed' = IF v = "drawer" THEN owed \union {e} ELSE owed
    /\ UNCHANGED <<body, revision, query, visits, saves, flight, bodyLost, fresh>>

(* The debounce ends: handleEditorValueChange. The drawer skips a value it  *)
(* believes to be stored, the page does not compare.                        *)
Debounced(v) ==
    /\ view[v].mounted /\ view[v].pending
    /\ view' = [view EXCEPT ![v].pending = FALSE, ![v].saved = view[v].value]
    /\ saves' = IF v = "drawer" /\ view[v].value = view[v].saved THEN saves
                ELSE Append(saves, view[v].value)
    /\ UNCHANGED <<body, revision, query, visits, flight, bodyLost, history>>

(* variant: closing the drawer commits no more than leaving the page *)
CloseUncommitted(v) ==
    /\ view[v].open
    /\ view' = [view EXCEPT ![v] = Closed]
    /\ UNCHANGED <<body, revision, query, visits, saves, flight, bodyLost, history>>

(* Closing the drawer commits what the debounce has not; leaving the page   *)
(* does not. The unmounted editor's timer is cleared.                       *)
Close(v) ==
    /\ view[v].open
    /\ saves' = IF v = "drawer" /\ view[v].mounted /\ view[v].value # view[v].saved
                THEN Append(saves, view[v].value) ELSE saves
    /\ view' = [view EXCEPT ![v] = Closed]
    /\ UNCHANGED <<body, revision, query, visits, flight, bodyLost, history>>

-----------------------------------------------------------------------------
(* Reading: useTaskQuery, useTaskBodyQuery *)

GetBody(v) ==
    /\ query[v].call = "asked"
    /\ query' = [query EXCEPT ![v].call = "answered", ![v].answer = body]
    /\ UNCHANGED <<body, revision, view, visits, saves, flight, bodyLost, history>>

(* The answer's ETag is remembered, whether an editor is mounted or not. *)
BodyRead(v) ==
    /\ query[v].call = "answered"
    /\ revision' = Known(query[v].answer)
    /\ query' = [query EXCEPT ![v] = [data |-> Known(query[v].answer), call |-> "none",
                                      answer |-> {}]]
    /\ UNCHANGED <<body, view, visits, saves, flight, bodyLost, history>>

-----------------------------------------------------------------------------
(* Writing: updateBody, one at a time *)

(* The revision is read when the mutation's turn comes. *)
StartSave ==
    /\ flight.call = "none"
    /\ saves # <<>>
    /\ flight' = [call |-> "sent", match |-> revision, text |-> Head(saves)]
    /\ saves' = Tail(saves)
    /\ UNCHANGED <<body, revision, query, view, visits, bodyLost, history>>

(* variant: If-Match is not looked at *)
MatchesAny(match) == TRUE

(* putTaskBody: a compare-and-swap against the body that matched If-Match. *)
Matches(match) == match.known => match.text = body

PutBody ==
    /\ flight.call = "sent"
    /\ IF Matches(flight.match)
       THEN /\ body' = flight.text
            /\ flight' = [flight EXCEPT !.call = "stored"]
            /\ owed' = owed \ flight.text
       ELSE /\ flight' = [flight EXCEPT !.call = "failed"]
            /\ UNCHANGED <<body, owed>>
    /\ UNCHANGED <<revision, query, view, visits, saves, bodyLost, fresh>>

LoseSave ==
    /\ bodyLost < MaxBodyLost
    /\ flight.call \in {"sent", "stored"}
    /\ bodyLost' = bodyLost + 1
    /\ flight' = [flight EXCEPT !.call = "failed"]
    /\ UNCHANGED <<body, revision, query, view, visits, saves, history>>

(* The new ETag is the baseline, and the drawer's cached body is replaced.  *)
SaveStored ==
    /\ flight.call = "stored"
    /\ revision' = Known(flight.text)
    /\ query' = [query EXCEPT !.drawer.data = Known(flight.text)]
    /\ flight' = NoFlight
    /\ UNCHANGED <<body, view, visits, saves, bodyLost, history>>

(* A refused save is reported, and not repeated. *)
SaveRefused ==
    /\ flight.call = "failed"
    /\ flight' = NoFlight
    /\ owed' = owed \ flight.text
    /\ UNCHANGED <<body, revision, query, view, visits, saves, bodyLost, fresh>>

(* An agent adds to the description: a tool's edit, Conductor's handoff.    *)
AgentWrites ==
    /\ \E f \in BodyForeign \ body : body' = body \union {f}
    /\ UNCHANGED <<revision, query, view, visits, saves, flight, bodyLost, history>>

BodyNext ==
    \/ \E v \in Views :
          \/ Open(v) \/ MountEditor(v) \/ TypeBody(v) \/ Debounced(v) \/ Close(v)
          \/ GetBody(v) \/ BodyRead(v)
    \/ StartSave \/ PutBody \/ LoseSave \/ SaveStored \/ SaveRefused
    \/ AgentWrites

BodySpec == BodyInit /\ [][BodyNext]_bodyVars

-----------------------------------------------------------------------------
(* Properties *)

(* A save replaces only what its editor has shown: what agents and earlier  *)
(* saves have put in the description stays in it, when the view had been    *)
(* opened at rest and its editor shows what the view has read. The two      *)
(* cases that are left out are real, and runs of their own report them.     *)
FreshEditorOverwritesNothing == [][fresh => body \subseteq body']_bodyVars

(* "Task description changed elsewhere." (taskHandler.go): a save that will *)
(* not match meets something an agent wrote since, or follows a lost answer.*)
RefusedMeansElsewhere ==
    flight.call = "sent" /\ ~Matches(flight.match) =>
        (body \ flight.match.text) \cap BodyForeign # {} \/ bodyLost > 0

(* The tab is not refused for its own writes, in the same case.             *)
RefusedOnlyForOthers == fresh => RefusedMeansElsewhere

(* What was typed in the drawer is not dropped, by closing it, by the       *)
(* debounce or by the queue: until it is stored or its refusal is reported, *)
(* the editor still has it unsaved, or a save under way or waiting has it.  *)
EditsAreSavedOrReported ==
    \A e \in owed :
        \/ e \in view["drawer"].value \ view["drawer"].saved
        \/ \E i \in DOMAIN saves : e \in saves[i]
        \/ flight.call # "none" /\ e \in flight.text

(* "The editor keeps its read revision until a save succeeds or it is       *)
(* reopened. Background Conductor updates must not advance this baseline."  *)
(* (task-body-revision.ts): a save that will be accepted contains           *)
(* everything it replaces.                                                  *)
BaselineIsWhatIsShown ==
    flight.call = "sent" /\ Matches(flight.match) => body \subseteq flight.text
=============================================================================
