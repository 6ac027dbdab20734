--------------------------- MODULE ScheduledJobs ---------------------------
(***************************************************************************)
(* Scheduled jobs (jobs/service.go): a task template that is turned into a *)
(* task, with its agent run, when its time has come or a person asks.      *)
(*                                                                         *)
(* One job and its template. The scheduler's loop fires the occurrence     *)
(* that is due, requests fire it by hand, and both prepare what they will  *)
(* insert before the transaction that inserts it, while the job and the    *)
(* template are edited. The browser keeps the key of a request until it is *)
(* answered, and edits from a cached copy (use-jobs.ts).                   *)
(***************************************************************************)
EXTENDS Naturals, Sequences, SequencesExt

CONSTANTS
    MaxTime,        \* bound on the clock
    Cadence,        \* the schedule: every so many units of time
    MaxCalls,       \* bound on the requests of "Run now"
    MaxJobEdits,    \* bound on edits of the job, and of the template
    MaxBreaks,      \* bound on how often the setup becomes invalid
    MaxJobRestarts, \* bound on restarts of the process
    MaxRuns         \* bound on the runs there are

ASSUME JobAssumption ==
    /\ MaxTime \in Nat /\ Cadence \in Nat \ {0} /\ MaxCalls \in Nat
    /\ MaxJobEdits \in Nat /\ MaxBreaks \in Nat /\ MaxJobRestarts \in Nat
    /\ MaxRuns \in Nat

VARIABLES
    clock,
    sjob,       \* the row of scheduled_job
    template,   \* task_template.revision
    broken,     \* preparing a run fails: no agent, no stage, no converter
    runs,       \* scheduled_job_run, oldest first
    unfinished, \* activeJobRun: a task of a run still has work
    fire,       \* the calls of Fire: the scheduler's and the requests'
    due,        \* the occurrence that the scheduler's tick has read
    button,     \* "Run now" in the browser: its key, and its request
    cached,     \* the query cache's copy of the job
    edit,       \* the PUT of an edit
    breaks, jobRestarts

jobVars == <<clock, sjob, template, broken, runs, unfinished, fire, due, button,
             cached, edit, breaks, jobRestarts>>

Requests == 1..MaxCalls
Callers == {0} \union Requests      \* 0 is the scheduler
Trigger(c) == IF c = 0 THEN "schedule" ELSE "manual"

JobRow == [there : BOOLEAN, enabled : BOOLEAN, next : Nat, rev : Nat]
RunRow == [trigger : {"schedule", "manual"}, key : Nat, rev : Nat, template : Nat,
           task : BOOLEAN]     \* FALSE: the task of the run was deleted
Quiet == [at |-> "idle", key |-> 0, template |-> 0,
          job |-> [there |-> FALSE, enabled |-> FALSE, next |-> 0, rev |-> 0]]
FireSteps == {"idle", "lookup", "job", "prepare", "claim", "ok", "conflict", "error"}
FireType == [at : FireSteps, key : Nat, template : Nat, job : JobRow]
ButtonType == [key : Nat, keys : Nat, call : 0..MaxCalls, calls : 0..MaxCalls]
EditType == [on : BOOLEAN, job : JobRow, sent : 0..MaxJobEdits]

JobsTypeOK ==
    /\ clock \in 0..MaxTime
    /\ sjob \in JobRow
    /\ template \in 0..MaxJobEdits
    /\ broken \in BOOLEAN
    /\ runs \in Seq(RunRow)
    /\ unfinished \in BOOLEAN
    /\ fire \in [Callers -> FireType]
    /\ due \in [next : Nat, rev : Nat]
    /\ button \in ButtonType
    /\ cached \in JobRow
    /\ edit \in EditType
    /\ breaks \in 0..MaxBreaks
    /\ jobRestarts \in 0..MaxJobRestarts

(* cron.Schedule.Next: the first occurrence strictly after a time. *)
NextOccurrence(now) == (now \div Cadence + 1) * Cadence

NewJob == [there |-> TRUE, enabled |-> FALSE, next |-> 0, rev |-> 1]
NothingDue == [next |-> 0, rev |-> 0]
NoEdit == [on |-> FALSE, job |-> NewJob, sent |-> 0]

JobsInit ==
    /\ clock = 0
    /\ sjob = NewJob
    /\ template = 0
    /\ broken = FALSE
    /\ runs = <<>>
    /\ unfinished = FALSE
    /\ fire = [c \in Callers |-> Quiet]
    /\ due = NothingDue
    /\ button = [key |-> 0, keys |-> 0, call |-> 0, calls |-> 0]
    /\ cached = NewJob
    /\ edit = NoEdit
    /\ breaks = 0
    /\ jobRestarts = 0

-----------------------------------------------------------------------------
(* Fire *)

Ran(trigger, key) ==
    \E i \in DOMAIN runs : runs[i].trigger = trigger /\ runs[i].key = key

(* The run's task is still there: it is what a repeated request is told. *)
HasTask(trigger, key) ==
    \E i \in DOMAIN runs : runs[i].trigger = trigger /\ runs[i].key = key /\ runs[i].task

(* A call that is answered forgets its copies. *)
Answer(c, a) ==
    fire' = [fire EXCEPT ![c] = [Quiet EXCEPT !.at = a, !.key = fire[c].key]]

Lookup(c) ==
    /\ fire[c].at = "lookup"
    /\ Answer(c, IF ~Ran(Trigger(c), fire[c].key) THEN "job"
                 ELSE IF sjob.there /\ HasTask(Trigger(c), fire[c].key) THEN "ok"
                 ELSE "error")
    /\ UNCHANGED <<clock, sjob, template, broken, runs, unfinished, due, button,
                   cached, edit, breaks, jobRestarts>>

ReadJob(c) ==
    /\ fire[c].at = "job"
    /\ IF sjob.there
       THEN fire' = [fire EXCEPT ![c].at = "prepare", ![c].job = sjob]
       ELSE Answer(c, "error")
    /\ UNCHANGED <<clock, sjob, template, broken, runs, unfinished, due, button,
                   cached, edit, breaks, jobRestarts>>

(* The template is read, then agents are resolved and the body converted. *)
Prepare(c) ==
    /\ fire[c].at = "prepare"
    /\ IF broken \/ ~sjob.there
       THEN Answer(c, "error")
       ELSE fire' = [fire EXCEPT ![c].at = "claim", ![c].template = template]
    /\ UNCHANGED <<clock, sjob, template, broken, runs, unfinished, due, button,
                   cached, edit, breaks, jobRestarts>>

(* variant: an edit in the meantime is not noticed *)
AnyRevision(c) == TRUE

(* The job is as it was when the run was prepared. *)
SameRevision(c) == sjob.rev = fire[c].job.rev

NotDue(c) ==
    LET j == fire[c].job IN ~j.enabled \/ j.next > clock \/ fire[c].key # j.next

(* variant: the revision is compared before the key is looked up *)
VerdictRevisionFirst(c, noticed) ==
    IF c = 0 /\ NotDue(c) THEN "conflict"
    ELSE IF ~sjob.there THEN "conflict"
    ELSE IF ~SameRevision(c) THEN "conflict"
    ELSE IF Ran(Trigger(c), fire[c].key)
         THEN IF HasTask(Trigger(c), fire[c].key) THEN "ok" ELSE "error"
    ELSE IF unfinished THEN IF c = 0 THEN "skip" ELSE "conflict"
    ELSE IF template # fire[c].template THEN "conflict"
    ELSE IF noticed THEN "error"
    ELSE "insert"

(* The transaction's checks in their order: what it answers, or "insert".  *)
(* The last of them notices some of what has broken since the preparation: *)
(* the references of the template and the stages, not the agent.           *)
Verdict(c, noticed) ==
    IF c = 0 /\ NotDue(c) THEN "conflict"
    ELSE IF ~sjob.there THEN "conflict"
    ELSE IF Ran(Trigger(c), fire[c].key)
         THEN IF HasTask(Trigger(c), fire[c].key) THEN "ok" ELSE "error"
    ELSE IF ~SameRevision(c) THEN "conflict"
    ELSE IF unfinished THEN IF c = 0 THEN "skip" ELSE "conflict"
    ELSE IF template # fire[c].template THEN "conflict"
    ELSE IF noticed THEN "error"
    ELSE "insert"

Claim(c) ==
    /\ fire[c].at = "claim"
    /\ \E noticed \in {FALSE, broken} :
       LET verdict == Verdict(c, noticed)
           next == IF c = 0 THEN NextOccurrence(clock) ELSE fire[c].job.next
       IN
       /\ verdict = "insert" => Len(runs) < MaxRuns
       /\ Answer(c, IF verdict \in {"insert", "skip"} THEN "ok" ELSE verdict)
       /\ sjob' = IF verdict \in {"insert", "skip"}
                  THEN [sjob EXCEPT !.next = next, !.rev = @ + 1] ELSE sjob
       /\ IF verdict = "insert"
          THEN /\ runs' = Append(runs, [trigger |-> Trigger(c), key |-> fire[c].key,
                                        rev |-> fire[c].job.rev,
                                        template |-> fire[c].template, task |-> TRUE])
               /\ unfinished' = TRUE
          ELSE UNCHANGED <<runs, unfinished>>
    /\ UNCHANGED <<clock, template, broken, due, button, cached, edit, breaks, jobRestarts>>

-----------------------------------------------------------------------------
(* The scheduler: Tick *)

ListDue ==
    /\ fire[0].at = "idle"
    /\ sjob.there /\ sjob.enabled /\ sjob.next > 0 /\ sjob.next <= clock
    /\ due' = [next |-> sjob.next, rev |-> sjob.rev]
    /\ fire' = [fire EXCEPT ![0] = [Quiet EXCEPT !.at = "lookup", !.key = sjob.next]]
    /\ UNCHANGED <<clock, sjob, template, broken, runs, unfinished, button,
                   cached, edit, breaks, jobRestarts>>

(* variant: a failed setup is tried again *)
ConsumedNever == sjob

(* A failed setup consumes the occurrence that was read, if it still is due. *)
Consumed ==
    IF sjob.there /\ sjob.next = due.next /\ sjob.rev = due.rev
    THEN [sjob EXCEPT !.next = NextOccurrence(clock), !.rev = @ + 1]
    ELSE sjob

TickEnds ==
    /\ fire[0].at \in {"ok", "conflict", "error"}
    /\ sjob' = IF fire[0].at = "error" THEN Consumed ELSE sjob
    /\ fire' = [fire EXCEPT ![0] = Quiet]
    /\ due' = NothingDue
    /\ UNCHANGED <<clock, template, broken, runs, unfinished, button,
                   cached, edit, breaks, jobRestarts>>

-----------------------------------------------------------------------------
(* "Run now" in the browser: useRunJob *)

(* The key is new only if the previous request has been answered. *)
RunNow ==
    /\ button.call = 0 /\ button.calls < MaxCalls
    /\ LET fresh == button.key = 0
           key == IF fresh THEN button.keys + 1 ELSE button.key
           c == button.calls + 1
       IN /\ button' = [key |-> key, keys |-> IF fresh THEN key ELSE button.keys,
                        call |-> c, calls |-> c]
          /\ fire' = [fire EXCEPT ![c] = [Quiet EXCEPT !.at = "lookup", !.key = key]]
    /\ UNCHANGED <<clock, sjob, template, broken, runs, unfinished, due,
                   cached, edit, breaks, jobRestarts>>

Answered ==
    /\ button.call # 0
    /\ fire[button.call].at \in {"ok", "conflict", "error"}
    /\ button' = [button EXCEPT !.call = 0,
                                !.key = IF fire[button.call].at = "ok" THEN 0 ELSE @]
    /\ UNCHANGED <<clock, sjob, template, broken, runs, unfinished, fire, due,
                   cached, edit, breaks, jobRestarts>>

(* The connection is lost: the request goes on, its answer does not arrive. *)
LoseAnswer ==
    /\ button.call # 0
    /\ button' = [button EXCEPT !.call = 0]
    /\ UNCHANGED <<clock, sjob, template, broken, runs, unfinished, fire, due,
                   cached, edit, breaks, jobRestarts>>

-----------------------------------------------------------------------------
(* Edits: useJobEdit and UpdateJob, DeleteJob, the template *)

(* The cached row is sent with one field replaced: enabled, or the name. *)
SendEdit ==
    /\ ~edit.on
    /\ cached.there
    /\ edit.sent < MaxJobEdits
    /\ \E changed \in {cached, [cached EXCEPT !.enabled = ~@]} :
          edit' = [on |-> TRUE, job |-> changed, sent |-> edit.sent + 1]
    /\ UNCHANGED <<clock, sjob, template, broken, runs, unfinished, fire, due, button,
                   cached, breaks, jobRestarts>>

(* A refused edit, and one whose answer is lost, make the list be read again. *)
UpdateJob ==
    /\ edit.on
    /\ edit' = [NoEdit EXCEPT !.sent = edit.sent]
    /\ sjob' = IF /\ sjob.there
                  /\ ~(edit.job.enabled /\ broken)
                  /\ sjob.rev = edit.job.rev
               THEN [sjob EXCEPT
                        !.enabled = edit.job.enabled,
                        !.next = IF edit.job.enabled /\ (~sjob.enabled \/ @ = 0)
                                 THEN NextOccurrence(clock) ELSE @,
                        !.rev = @ + 1]
               ELSE sjob
    /\ cached' = sjob'
    /\ UNCHANGED <<clock, template, broken, runs, unfinished, fire, due, button,
                   breaks, jobRestarts>>

RefetchJobs ==
    /\ cached # sjob
    /\ ~edit.on
    /\ cached' = sjob
    /\ UNCHANGED <<clock, sjob, template, broken, runs, unfinished, fire, due, button,
                   edit, breaks, jobRestarts>>

DeleteJob ==
    /\ sjob.there /\ ~unfinished
    /\ sjob' = [sjob EXCEPT !.there = FALSE]
    /\ UNCHANGED <<clock, template, broken, runs, unfinished, fire, due, button,
                   cached, edit, breaks, jobRestarts>>

UpdateTemplate ==
    /\ sjob.there /\ template < MaxJobEdits
    /\ template' = template + 1
    /\ UNCHANGED <<clock, sjob, broken, runs, unfinished, fire, due, button,
                   cached, edit, breaks, jobRestarts>>

-----------------------------------------------------------------------------
(* What goes on around it *)

Passes ==
    /\ clock < MaxTime
    /\ clock' = clock + 1
    /\ UNCHANGED <<sjob, template, broken, runs, unfinished, fire, due, button,
                   cached, edit, breaks, jobRestarts>>

(* An agent is removed or a workflow edited, and put right again. *)
Breaks ==
    /\ broken \/ breaks < MaxBreaks
    /\ broken' = ~broken
    /\ breaks' = IF broken THEN breaks ELSE breaks + 1
    /\ UNCHANGED <<clock, sjob, template, runs, unfinished, fire, due, button,
                   cached, edit, jobRestarts>>

(* The tasks' work ends; a person may go on with the task of an old run. *)
Work ==
    /\ unfinished \/ \E i \in DOMAIN runs : runs[i].task
    /\ unfinished' = ~unfinished
    /\ UNCHANGED <<clock, sjob, template, broken, runs, fire, due, button,
                   cached, edit, breaks, jobRestarts>>

(* A person deletes the task of a run, and with it the work there is of it. *)
DeleteRunTask ==
    /\ \E i \in {j \in DOMAIN runs : runs[j].task} :
          /\ runs' = [runs EXCEPT ![i].task = FALSE]
          /\ unfinished' \in
               {unfinished /\ (\E j \in DOMAIN runs \ {i} : runs[j].task), FALSE}
    /\ UNCHANGED <<clock, sjob, template, broken, fire, due, button,
                   cached, edit, breaks, jobRestarts>>

JobsRestart ==
    /\ jobRestarts < MaxJobRestarts
    /\ jobRestarts' = jobRestarts + 1
    /\ fire' = [c \in Callers |-> Quiet]
    /\ due' = NothingDue
    /\ button' = [button EXCEPT !.call = 0]
    /\ UNCHANGED <<clock, sjob, template, broken, runs, unfinished, cached, edit, breaks>>

Firing(c) == Lookup(c) \/ ReadJob(c) \/ Prepare(c) \/ Claim(c)

JobsNext ==
    \/ \E c \in Callers : Firing(c)
    \/ ListDue \/ TickEnds
    \/ RunNow \/ Answered \/ LoseAnswer
    \/ SendEdit \/ UpdateJob \/ RefetchJobs \/ DeleteJob \/ UpdateTemplate
    \/ Passes \/ Breaks \/ Work \/ DeleteRunTask \/ JobsRestart

(* The loop ticks for the life of the process, and a Fire returns. *)
JobsFairness == WF_jobVars(Firing(0) \/ ListDue \/ TickEnds)

JobsSpec == JobsInit /\ [][JobsNext]_jobVars
FairJobsSpec == JobsSpec /\ JobsFairness

-----------------------------------------------------------------------------
(* Properties *)

(* "Run now" repeated with its key, while the first request may still be   *)
(* under way, makes one task, and is not refused because it did.           *)
RepeatIsAnswered ==
    [][/\ \A c \in Requests :
             fire[c].at # "conflict" /\ fire'[c].at = "conflict"
                 => ~sjob.there \/ ~Ran("manual", fire[c].key)
       /\ Len(runs') > Len(runs)
             => ~Ran(Last(runs').trigger, Last(runs').key)]_jobVars

(* A run is made from the job and the template of one moment, whatever was *)
(* edited while it was prepared, and a scheduled one from an enabled job.  *)
OccurrenceUsesOneVersion ==
    [][Len(runs') > Len(runs) =>
          LET r == Last(runs')
          IN /\ r.rev = sjob.rev /\ r.template = template
             /\ r.trigger = "schedule" => sjob.enabled /\ sjob.next = r.key]_jobVars

(* An occurrence that is due is run, skipped or failed, and the job goes on *)
(* to a later one: an invalid setup or an edit in the way do not hold it.   *)
DueIsConsumed ==
    \A t \in 1..MaxTime :
        sjob.there /\ sjob.enabled /\ sjob.next = t /\ t <= clock
            ~> ~sjob.there \/ ~sjob.enabled \/ sjob.next > t
=============================================================================
