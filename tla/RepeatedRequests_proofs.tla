----------------------- MODULE RepeatedRequests_proofs -----------------------
(***************************************************************************)
(* Theorems about the two components whose clients repeat a request until  *)
(* it is answered. ScheduledJobs, for every cadence and every bound on     *)
(* time, requests, edits, broken setups and restarts: what a run is made   *)
(* of, and how a repeated request is answered. SessionComposer, for any    *)
(* number of tabs, messages, requests, lost replies and moves: the         *)
(* conversation is one line.                                               *)
(***************************************************************************)
EXTENDS ScheduledJobs, SessionComposer, TLAPS

-----------------------------------------------------------------------------
(* ScheduledJobs: the inductive invariant says what a call of Fire knows   *)
(* about the row it has read, while the row goes on.                       *)

\* A call that prepares a run holds a revision the row has had, and if the row
\* still has it, the schedule and the switch are as the call has read them.
CopyInv ==
    \A c \in Callers : fire[c].at \in {"prepare", "claim"} =>
        /\ fire[c].job.rev <= sjob.rev
        /\ fire[c].job.rev = sjob.rev =>
              /\ fire[c].job.enabled = sjob.enabled
              /\ fire[c].job.next = sjob.next

JInv == JobsTypeOK /\ CopyInv

-----------------------------------------------------------------------------
\* The next occurrence is a time.
LEMMA NextOccurrenceType == ASSUME NEW now \in Nat PROVE NextOccurrence(now) \in Nat
<1>1. Cadence \in Nat /\ Cadence > 0
  BY JobAssumption
<1>2. now \div Cadence \in Nat
  BY <1>1
<1>3. QED
  BY <1>1, <1>2 DEF NextOccurrence

\* A fresh process has no call and no run.
LEMMA InitInv == JobsInit => JInv
<1> SUFFICES ASSUME JobsInit PROVE JInv
  OBVIOUS
<1> USE JobAssumption DEF JobsInit
<1>1. NewJob \in JobRow /\ Quiet \in FireType /\ Quiet.at = "idle"
  BY DEF NewJob, JobRow, Quiet, FireType, FireSteps
<1>2. button \in ButtonType /\ edit \in EditType
  BY <1>1 DEF ButtonType, EditType, NoEdit
<1>3. JobsTypeOK
  <2>1. /\ clock \in 0..MaxTime /\ template \in 0..MaxJobEdits
        /\ breaks \in 0..MaxBreaks /\ jobRestarts \in 0..MaxJobRestarts
    OBVIOUS
  <2>2. sjob \in JobRow /\ cached \in JobRow /\ fire \in [Callers -> FireType]
    BY <1>1
  <2>3. runs \in Seq(RunRow) /\ due \in [next : Nat, rev : Nat]
    BY DEF NothingDue
  <2>4. QED
    BY <1>2, <2>1, <2>2, <2>3 DEF JobsTypeOK
<1>4. CopyInv
  BY <1>1 DEF CopyInv
<1>5. QED
  BY <1>3, <1>4 DEF JInv

\* A row that takes a new schedule takes a new revision.
LEMMA RowBump ==
  ASSUME NEW r \in JobRow, NEW next \in Nat, NEW enabled \in BOOLEAN, NEW new,
         new = [r EXCEPT !.enabled = enabled, !.next = next, !.rev = @ + 1]
  PROVE  new \in JobRow /\ new.rev > r.rev
<1>1. r.rev \in Nat /\ r.rev + 1 \in Nat /\ r.rev + 1 > r.rev
  BY DEF JobRow
<1>2. QED
  BY <1>1 DEF JobRow

\* A row that stays, or takes a new revision, leaves what calls know true, if no
\* call reads it.
LEMMA CopyStep ==
  ASSUME JInv, sjob' \in JobRow, sjob' = sjob \/ sjob'.rev > sjob.rev,
         \A c \in Callers : fire'[c].at \in {"prepare", "claim"} =>
             fire'[c].job = fire[c].job /\ fire[c].at \in {"prepare", "claim"}
  PROVE  CopyInv'
<1>1. sjob.rev \in Nat /\ sjob'.rev \in Nat
  BY DEF JInv, JobsTypeOK, JobRow
<1>2. \A c \in Callers : fire[c].job.rev \in Nat
  BY DEF JInv, JobsTypeOK, FireType, JobRow
<1>3. ASSUME NEW c \in Callers, fire'[c].at \in {"prepare", "claim"}
      PROVE  /\ fire[c].job.rev <= sjob'.rev
             /\ fire[c].job.rev = sjob'.rev =>
                   /\ fire[c].job.enabled = sjob'.enabled
                   /\ fire[c].job.next = sjob'.next
  <2>1. fire[c].job.rev <= sjob.rev
    BY <1>3 DEF JInv, CopyInv
  <2>2. CASE sjob' = sjob
    BY <1>3, <2>2 DEF JInv, CopyInv
  <2>3. CASE sjob'.rev > sjob.rev
    BY <1>1, <1>2, <2>1, <2>3
  <2>4. QED
    BY <2>2, <2>3
<1>4. QED
  BY <1>3 DEF CopyInv

\* A call that is answered keeps its type and forgets the row.
LEMMA AnswerType ==
  ASSUME JInv, NEW c \in Callers, NEW a \in FireSteps \ {"prepare", "claim"},
         Answer(c, a), sjob' = sjob \/ sjob'.rev > sjob.rev, sjob' \in JobRow
  PROVE  fire' \in [Callers -> FireType] /\ CopyInv'
<1>0. fire \in [Callers -> FireType]
  BY DEF JInv, JobsTypeOK
<1>1. [Quiet EXCEPT !.at = a, !.key = fire[c].key] \in FireType
  BY <1>0 DEF Quiet, FireType, JobRow
<1>2. fire' \in [Callers -> FireType]
  BY <1>0, <1>1 DEF Answer
<1>3. /\ fire'[c].at = a
      /\ \A d \in Callers \ {c} : fire'[d] = fire[d]
  BY <1>0 DEF Answer, Quiet
<1>4. CopyInv'
  BY <1>3, CopyStep
<1>5. QED
  BY <1>2, <1>4

\* A step that leaves the calls alone.
LEMMA RowStep ==
  ASSUME JInv, UNCHANGED fire, sjob' \in JobRow,
         sjob' = sjob \/ sjob'.rev > sjob.rev
  PROVE  CopyInv'
BY CopyStep

\* A key, and the number of a request, are numbers.
LEMMA ButtonStep ==
  ASSUME button \in ButtonType, NEW key \in Nat, NEW keys \in Nat,
         NEW c \in 0..MaxCalls, NEW n \in 0..MaxCalls
  PROVE  [key |-> key, keys |-> keys, call |-> c, calls |-> n] \in ButtonType
BY DEF ButtonType

\* Every step keeps the types and the calls' knowledge of the row.
LEMMA StepInv == JInv /\ [JobsNext]_jobVars => JInv'
<1> SUFFICES ASSUME JInv, [JobsNext]_jobVars
             PROVE  JInv'
  OBVIOUS
<1> USE JobAssumption DEF JInv, JobsTypeOK
<1>1. ASSUME NEW c \in Callers, Lookup(c) PROVE JInv'
  <2>1. PICK a \in {"job", "ok", "error"} : Answer(c, a)
    BY <1>1 DEF Lookup
  <2>2. fire' \in [Callers -> FireType] /\ CopyInv'
    BY <1>1, <2>1, AnswerType DEF Lookup, FireSteps
  <2>3. QED
    BY <1>1, <2>2 DEF Lookup
<1>2. ASSUME NEW c \in Callers, ReadJob(c) PROVE JInv'
  <2>1. CASE sjob.there
    <3>1. fire' = [fire EXCEPT ![c].at = "prepare", ![c].job = sjob]
      BY <1>2, <2>1 DEF ReadJob
    <3>2. fire' \in [Callers -> FireType]
      BY <3>1 DEF FireType, FireSteps
    <3>3. fire'[c].job = sjob /\ \A d \in Callers \ {c} : fire'[d] = fire[d]
      BY <3>1 DEF FireType
    <3>4. CopyInv'
      <4>1. sjob.rev <= sjob.rev /\ sjob' = sjob
        BY <1>2 DEF ReadJob, JobRow
      <4>2. QED
        BY <3>3, <4>1 DEF CopyInv
    <3>5. QED
      BY <1>2, <3>2, <3>4 DEF ReadJob
  <2>2. CASE ~sjob.there
    <3>1. fire' \in [Callers -> FireType] /\ CopyInv'
      BY <1>2, <2>2, AnswerType DEF ReadJob, FireSteps
    <3>2. QED
      BY <1>2, <3>1 DEF ReadJob
  <2>3. QED
    BY <2>1, <2>2
<1>3. ASSUME NEW c \in Callers, Prepare(c) PROVE JInv'
  <2>1. CASE broken \/ ~sjob.there
    <3>1. fire' \in [Callers -> FireType] /\ CopyInv'
      BY <1>3, <2>1, AnswerType DEF Prepare, FireSteps
    <3>2. QED
      BY <1>3, <3>1 DEF Prepare
  <2>2. CASE ~(broken \/ ~sjob.there)
    <3>1. fire' = [fire EXCEPT ![c].at = "claim", ![c].template = template]
      BY <1>3, <2>2 DEF Prepare
    <3>2. fire' \in [Callers -> FireType]
      <4>1. template \in Nat
        OBVIOUS
      <4>2. QED
        BY <3>1, <4>1 DEF FireType, FireSteps
    <3>3. fire'[c].job = fire[c].job /\ \A d \in Callers \ {c} : fire'[d] = fire[d]
      BY <3>1 DEF FireType
    <3>4. CopyInv'
      BY <1>3, <3>3 DEF Prepare, CopyInv
    <3>5. QED
      BY <1>3, <3>2, <3>4 DEF Prepare
  <2>3. QED
    BY <2>1, <2>2
<1>4. ASSUME NEW c \in Callers, Claim(c) PROVE JInv'
  <2>1. NextOccurrence(clock) \in Nat /\ fire[c].job.next \in Nat
    <3>1. NextOccurrence(clock) \in Nat
      BY NextOccurrenceType
    <3>2. fire[c].job \in JobRow
      BY DEF FireType
    <3>3. QED
      BY <3>1, <3>2 DEF JobRow
  <2>2. PICK noticed \in {FALSE, broken} :
           LET verdict == Verdict(c, noticed)
               next == IF c = 0 THEN NextOccurrence(clock) ELSE fire[c].job.next
           IN
           /\ Answer(c, IF verdict \in {"insert", "skip"} THEN "ok" ELSE verdict)
           /\ sjob' = IF verdict \in {"insert", "skip"}
                      THEN [sjob EXCEPT !.next = next, !.rev = @ + 1] ELSE sjob
    BY <1>4 DEF Claim
  <2>3. sjob' \in JobRow /\ (sjob' = sjob \/ sjob'.rev > sjob.rev)
    <3>1. PICK next \in Nat :
             sjob' = IF Verdict(c, noticed) \in {"insert", "skip"}
                     THEN [sjob EXCEPT !.next = next, !.rev = @ + 1] ELSE sjob
      BY <2>1, <2>2
    <3>2. [sjob EXCEPT !.next = next, !.rev = @ + 1]
             = [sjob EXCEPT !.enabled = sjob.enabled, !.next = next, !.rev = @ + 1]
      BY DEF JobRow
    <3>3. sjob.enabled \in BOOLEAN
      BY DEF JobRow
    <3>4. QED
      BY <3>1, <3>2, <3>3, RowBump
  <2>4. PICK a \in {"ok", "conflict", "error"} : Answer(c, a)
    <3>1. Verdict(c, noticed) \in {"insert", "skip", "ok", "conflict", "error"}
      BY DEF Verdict
    <3>2. QED
      BY <2>2, <3>1
  <2>5. fire' \in [Callers -> FireType] /\ CopyInv'
    BY <2>3, <2>4, AnswerType DEF FireSteps
  <2>6. runs' \in Seq(RunRow)
    <3>1. [trigger |-> Trigger(c), key |-> fire[c].key, rev |-> fire[c].job.rev,
           template |-> fire[c].template, task |-> TRUE] \in RunRow
      BY DEF RunRow, Trigger, FireType, JobRow
    <3>2. \/ runs' = runs
          \/ runs' = Append(runs, [trigger |-> Trigger(c), key |-> fire[c].key,
                                   rev |-> fire[c].job.rev, template |-> fire[c].template,
                                   task |-> TRUE])
      BY <1>4 DEF Claim
    <3>3. QED
      BY <3>1, <3>2
  <2>7. QED
    BY <1>4, <2>3, <2>5, <2>6 DEF Claim
<1>5. CASE ListDue
  <2>1. 0 \in Callers
    BY DEF Callers
  <2>2. fire' = [fire EXCEPT ![0] = [Quiet EXCEPT !.at = "lookup", !.key = sjob.next]]
    BY <1>5 DEF ListDue
  <2>3. fire'[0].at = "lookup" /\ \A d \in Callers \ {0} : fire'[d] = fire[d]
    BY <2>1, <2>2 DEF Quiet
  <2>4. fire' \in [Callers -> FireType]
    BY <2>2 DEF Quiet, FireType, FireSteps, JobRow
  <2>5. CopyInv'
    BY <1>5, <2>3 DEF ListDue, CopyInv
  <2>6. due' \in [next : Nat, rev : Nat]
    BY <1>5 DEF ListDue, JobRow
  <2>7. QED
    BY <1>5, <2>4, <2>5, <2>6 DEF ListDue
<1>6. CASE TickEnds
  <2>1. NextOccurrence(clock) \in Nat
    BY NextOccurrenceType
  <2>2. sjob' \in JobRow /\ (sjob' = sjob \/ sjob'.rev > sjob.rev)
    <3>1. \/ sjob' = sjob
          \/ sjob' = [sjob EXCEPT !.next = NextOccurrence(clock), !.rev = @ + 1]
      BY <1>6 DEF TickEnds, Consumed
    <3>2. [sjob EXCEPT !.next = NextOccurrence(clock), !.rev = @ + 1]
             = [sjob EXCEPT !.enabled = sjob.enabled, !.next = NextOccurrence(clock),
                            !.rev = @ + 1]
      BY DEF JobRow
    <3>3. sjob.enabled \in BOOLEAN
      BY DEF JobRow
    <3>4. CASE sjob' = sjob
      BY <3>4
    <3>5. CASE sjob' = [sjob EXCEPT !.enabled = sjob.enabled,
                                    !.next = NextOccurrence(clock), !.rev = @ + 1]
      BY <2>1, <3>3, <3>5, RowBump
    <3>6. QED
      BY <3>1, <3>2, <3>4, <3>5
  <2>3. 0 \in Callers
    BY DEF Callers
  <2>4. fire' \in [Callers -> FireType]
    BY <1>6 DEF TickEnds, Quiet, FireType, FireSteps, JobRow
  <2>5. fire'[0].at = "idle" /\ \A d \in Callers \ {0} : fire'[d] = fire[d]
    BY <1>6, <2>3 DEF TickEnds, Quiet
  <2>6. CopyInv'
    BY <2>2, <2>5, CopyStep
  <2>7. QED
    BY <1>6, <2>2, <2>4, <2>6 DEF TickEnds, NothingDue
<1>7. CASE RunNow
  <2>1. button.key \in Nat /\ button.keys + 1 \in Nat /\ button.calls + 1 \in 1..MaxCalls
    <3>1. /\ button.key \in Nat /\ button.keys \in Nat /\ button.calls \in 0..MaxCalls
          /\ button.calls < MaxCalls
      BY <1>7 DEF RunNow, ButtonType
    <3>2. QED
      BY <3>1
  <2>2. PICK key \in Nat, keys \in Nat, c \in 1..MaxCalls :
           /\ button' = [key |-> key, keys |-> keys, call |-> c, calls |-> c]
           /\ fire' = [fire EXCEPT ![c] = [Quiet EXCEPT !.at = "lookup", !.key = key]]
    <3>1. button.keys \in Nat
      BY DEF ButtonType
    <3>2. QED
      BY <1>7, <2>1, <3>1 DEF RunNow
  <2>3. c \in Callers /\ c \in 0..MaxCalls
    BY DEF Callers, Requests
  <2>4. button' \in ButtonType
    BY <2>2, <2>3, ButtonStep
  <2>5. fire' \in [Callers -> FireType]
    BY <2>2 DEF Quiet, FireType, FireSteps, JobRow
  <2>6. fire'[c].at = "lookup" /\ \A d \in Callers \ {c} : fire'[d] = fire[d]
    BY <2>2, <2>3 DEF Quiet
  <2>7. CopyInv'
    BY <1>7, <2>6, CopyStep DEF RunNow
  <2>8. QED
    BY <1>7, <2>4, <2>5, <2>7 DEF RunNow
<1>8. CASE Answered
  <2>1. button' \in ButtonType
    <3>1. PICK key \in Nat : button' = [button EXCEPT !.call = 0, !.key = key]
      BY <1>8 DEF Answered, ButtonType
    <3>2. 0 \in 0..MaxCalls
      OBVIOUS
    <3>3. QED
      BY <3>1, <3>2 DEF ButtonType
  <2>2. QED
    BY <1>8, <2>1, RowStep DEF Answered
<1>9. CASE LoseAnswer
  <2>1. button' \in ButtonType
    <3>1. button' = [button EXCEPT !.call = 0] /\ 0 \in 0..MaxCalls
      BY <1>9 DEF LoseAnswer
    <3>2. QED
      BY <3>1 DEF ButtonType
  <2>2. QED
    BY <1>9, <2>1, RowStep DEF LoseAnswer
<1>10. CASE SendEdit
  <2>1. PICK changed \in JobRow :
           edit' = [on |-> TRUE, job |-> changed, sent |-> edit.sent + 1]
    BY <1>10 DEF SendEdit, JobRow
  <2>2. edit.sent + 1 \in 0..MaxJobEdits
    BY <1>10 DEF SendEdit, EditType
  <2>3. edit' \in EditType
    BY <2>1, <2>2 DEF EditType
  <2>4. QED
    BY <1>10, <2>3, RowStep DEF SendEdit
<1>11. CASE UpdateJob
  <2>1. NextOccurrence(clock) \in Nat
    BY NextOccurrenceType
  <2>2. sjob' \in JobRow /\ (sjob' = sjob \/ sjob'.rev > sjob.rev)
    <3>1. edit.job.enabled \in BOOLEAN /\ sjob.next \in Nat
      BY DEF EditType, JobRow
    <3>2. \/ sjob' = sjob
          \/ \E next \in Nat :
                sjob' = [sjob EXCEPT !.enabled = edit.job.enabled, !.next = next, !.rev = @ + 1]
      BY <1>11, <2>1, <3>1 DEF UpdateJob
    <3>3. ASSUME NEW next \in Nat,
                 sjob' = [sjob EXCEPT !.enabled = edit.job.enabled, !.next = next, !.rev = @ + 1]
          PROVE  sjob' \in JobRow /\ sjob'.rev > sjob.rev
      BY <3>1, <3>3, RowBump
    <3>4. QED
      BY <3>2, <3>3
  <2>3. edit' \in EditType
    BY <1>11 DEF UpdateJob, NoEdit, NewJob, EditType, JobRow
  <2>4. QED
    BY <1>11, <2>2, <2>3, RowStep DEF UpdateJob
<1>12. CASE RefetchJobs
  BY <1>12, RowStep DEF RefetchJobs
<1>13. CASE DeleteJob
  <2>1. sjob' \in JobRow /\ sjob'.rev = sjob.rev /\ sjob'.next = sjob.next
        /\ sjob'.enabled = sjob.enabled
    BY <1>13 DEF DeleteJob, JobRow
  <2>2. CopyInv'
    BY <1>13, <2>1 DEF DeleteJob, CopyInv
  <2>3. QED
    BY <1>13, <2>1, <2>2 DEF DeleteJob
<1>14. CASE UpdateTemplate
  <2>1. template' \in 0..MaxJobEdits
    BY <1>14 DEF UpdateTemplate
  <2>2. QED
    BY <1>14, <2>1, RowStep DEF UpdateTemplate
<1>15. CASE Passes
  <2>1. clock' \in 0..MaxTime
    BY <1>15 DEF Passes
  <2>2. QED
    BY <1>15, <2>1, RowStep DEF Passes
<1>16. CASE Breaks
  <2>1. breaks' \in 0..MaxBreaks
    BY <1>16 DEF Breaks
  <2>2. QED
    BY <1>16, <2>1, RowStep DEF Breaks
<1>17. CASE Work
  BY <1>17, RowStep DEF Work
<1>18. CASE JobsRestart
  <2>1. fire' \in [Callers -> FireType] /\ \A c \in Callers : fire'[c].at = "idle"
    BY <1>18 DEF JobsRestart, Quiet, FireType, FireSteps, JobRow
  <2>2. button' \in ButtonType
    <3>1. button' = [button EXCEPT !.call = 0] /\ 0 \in 0..MaxCalls
      BY <1>18 DEF JobsRestart
    <3>2. QED
      BY <3>1 DEF ButtonType
  <2>3. jobRestarts' \in 0..MaxJobRestarts
    BY <1>18 DEF JobsRestart
  <2>4. CopyInv'
    BY <2>1 DEF CopyInv
  <2>5. QED
    BY <1>18, <2>1, <2>2, <2>3, <2>4 DEF JobsRestart, NothingDue
<1>19. CASE UNCHANGED jobVars
  BY <1>19, RowStep DEF jobVars
<1>20. CASE DeleteRunTask
  <2>1. PICK i \in DOMAIN runs : runs' = [runs EXCEPT ![i].task = FALSE]
    BY <1>20 DEF DeleteRunTask
  <2>2. runs \in Seq(RunRow) /\ runs[i] \in RunRow
    BY <2>1
  <2>3. [runs[i] EXCEPT !.task = FALSE] \in RunRow
    BY <2>2 DEF RunRow
  <2>4. runs' \in Seq(RunRow)
    BY <2>1, <2>2, <2>3
  <2>5. unfinished' \in BOOLEAN
    BY <1>20 DEF DeleteRunTask
  <2>6. QED
    BY <1>20, <2>4, <2>5, RowStep DEF DeleteRunTask
<1>21. QED
  BY <1>1, <1>2, <1>3, <1>4, <1>5, <1>6, <1>7, <1>8, <1>9, <1>10, <1>11, <1>12,
     <1>13, <1>14, <1>15, <1>16, <1>17, <1>18, <1>19, <1>20
  DEF JobsNext, Firing

\* What is prepared and what is stored keep their types, and a call knows what
\* it may know, in every reachable state.
THEOREM JobsInvariance == JobsSpec => []JInv
BY InitInv, StepInv, PTL DEF JobsSpec

\* Every variable of the jobs keeps its type.
THEOREM JobsTypeCorrect == JobsSpec => []JobsTypeOK
BY JobsInvariance, PTL DEF JInv

\* What the transaction of Fire may do to the runs: none or one more, of the
\* revision and the template of this moment, under a key that has none.
LEMMA ClaimStep ==
  ASSUME JInv, NEW c \in Callers, Claim(c), Len(runs') > Len(runs)
  PROVE  LET r == Last(runs')
         IN /\ ~Ran(r.trigger, r.key)
            /\ r.rev = sjob.rev /\ r.template = template
            /\ r.trigger = "schedule" => sjob.enabled /\ sjob.next = r.key
<1> DEFINE new == [trigger |-> Trigger(c), key |-> fire[c].key,
                   rev |-> fire[c].job.rev, template |-> fire[c].template, task |-> TRUE]
<1>1. PICK noticed \in {FALSE, broken} : Verdict(c, noticed) = "insert" /\ runs' = Append(runs, new)
  <2>1. Len(runs) \in Nat /\ runs' # runs
    BY DEF JInv, JobsTypeOK
  <2>2. QED
    BY <2>1 DEF Claim
<1>2. new \in RunRow /\ runs \in Seq(RunRow)
  BY DEF RunRow, Trigger, FireType, JobRow, JInv, JobsTypeOK
<1>3. Last(runs') = new
  BY <1>1, <1>2 DEF Last
<1>4. ~Ran(Trigger(c), fire[c].key) /\ SameRevision(c) /\ fire[c].template = template
  BY <1>1 DEF Verdict
<1>5. c = 0 => ~NotDue(c)
  BY <1>1 DEF Verdict
<1>6. new.trigger = "schedule" => sjob.enabled /\ sjob.next = new.key
  BY <1>4, <1>5 DEF Claim, CopyInv, JInv, NotDue, SameRevision, Trigger
<1>7. QED
  BY <1>3, <1>4, <1>6 DEF SameRevision

\* Only the transaction adds a run.
LEMMA RunsGrow ==
  ASSUME JInv, [JobsNext]_jobVars, Len(runs') > Len(runs)
  PROVE  \E c \in Callers : Claim(c)
<1>1. runs \in Seq(RunRow) /\ Len(runs) \in Nat /\ ~(Len(runs) > Len(runs))
  <2>1. runs \in Seq(RunRow)
    BY DEF JInv, JobsTypeOK
  <2>2. QED
    BY <2>1
<1>2. ~DeleteRunTask
  <2>1. ASSUME NEW i \in DOMAIN runs, runs' = [runs EXCEPT ![i].task = FALSE]
        PROVE  Len(runs') = Len(runs)
    BY <1>1, <2>1
  <2>2. QED
    BY <1>1, <2>1 DEF DeleteRunTask
<1>3. runs' # runs
  BY <1>1
<1>4. QED
  BY <1>2, <1>3
  DEF JobsNext, Firing, Lookup, ReadJob, Prepare, ListDue, TickEnds, RunNow, Answered,
      LoseAnswer, SendEdit, UpdateJob, RefetchJobs, DeleteJob, UpdateTemplate, Passes,
      Breaks, Work, JobsRestart, jobVars

\* A run is made from the job and the template of one moment, whatever is
\* edited, deleted or fired while it is prepared.
THEOREM OneVersion == JobsSpec => OccurrenceUsesOneVersion
<1>1. JInv /\ [JobsNext]_jobVars
      => (Len(runs') > Len(runs)
            => LET r == Last(runs')
               IN /\ r.rev = sjob.rev /\ r.template = template
                  /\ r.trigger = "schedule" => sjob.enabled /\ sjob.next = r.key)
  BY RunsGrow, ClaimStep
<1>2. QED
  BY <1>1, JobsInvariance, PTL DEF JobsSpec, OccurrenceUsesOneVersion

\* A request is refused in one place only.
LEMMA ConflictStep ==
  ASSUME JInv, [JobsNext]_jobVars, NEW c \in Requests,
         fire[c].at # "conflict", fire'[c].at = "conflict"
  PROVE  Claim(c)
<1> USE DEF JInv, JobsTypeOK
<1>1. c \in Callers /\ c # 0
  BY JobAssumption DEF Callers, Requests
<1>2. ASSUME NEW d \in Callers, Firing(d) PROVE Claim(c)
  <2>1. CASE d # c
    BY <1>1, <1>2, <2>1 DEF Firing, Lookup, ReadJob, Prepare, Claim, Answer
  <2>2. CASE d = c
    <3>1. ASSUME NEW a \in FireSteps \ {"conflict"}, Answer(c, a) PROVE FALSE
      BY <1>1, <3>1 DEF Answer, Quiet
    <3>2. ~Lookup(c)
      BY <3>1 DEF Lookup, FireSteps
    <3>3. ~ReadJob(c)
      BY <1>1, <3>1 DEF ReadJob, FireSteps, FireType
    <3>4. ~Prepare(c)
      BY <1>1, <3>1 DEF Prepare, FireSteps, FireType
    <3>5. QED
      BY <1>2, <2>2, <3>2, <3>3, <3>4 DEF Firing
  <2>3. QED
    BY <2>1, <2>2
<1>3. CASE ~\E d \in Callers : Firing(d)
  <2>1. CASE UNCHANGED fire
    BY <2>1
  <2>2. CASE ListDue \/ TickEnds
    BY <1>1, <2>2 DEF ListDue, TickEnds
  <2>3. CASE RunNow
    <3>1. PICK d \in 1..MaxCalls, key \in Nat :
             fire' = [fire EXCEPT ![d] = [Quiet EXCEPT !.at = "lookup", !.key = key]]
      <4>1. /\ button.key \in Nat /\ button.keys \in Nat /\ button.calls \in 0..MaxCalls
            /\ button.calls < MaxCalls
        BY <2>3 DEF RunNow, ButtonType
      <4>2. button.calls + 1 \in 1..MaxCalls /\ button.keys + 1 \in Nat
        BY <4>1, JobAssumption
      <4>3. PICK key \in {button.key, button.keys + 1} :
               fire' = [fire EXCEPT ![button.calls + 1] =
                           [Quiet EXCEPT !.at = "lookup", !.key = key]]
        BY <2>3 DEF RunNow
      <4>4. QED
        BY <4>1, <4>2, <4>3
    <3>2. QED
      BY <1>1, <3>1 DEF Quiet
  <2>4. CASE JobsRestart
    BY <1>1, <2>4 DEF JobsRestart, Quiet
  <2>5. QED
    BY <1>3, <2>1, <2>2, <2>3, <2>4
    DEF JobsNext, Answered, LoseAnswer, SendEdit, UpdateJob, RefetchJobs, DeleteJob,
        UpdateTemplate, Passes, Breaks, Work, DeleteRunTask, jobVars
<1>4. QED
  BY <1>2, <1>3

\* "Run now" repeated with its key makes one run, and the repetition is not
\* refused because the first request has succeeded.
THEOREM RepeatedRequest == JobsSpec => RepeatIsAnswered
<1>1. JInv /\ [JobsNext]_jobVars
      => /\ \A c \in Requests :
               fire[c].at # "conflict" /\ fire'[c].at = "conflict"
                   => ~sjob.there \/ ~Ran("manual", fire[c].key)
         /\ Len(runs') > Len(runs) => ~Ran(Last(runs').trigger, Last(runs').key)
  <2> SUFFICES ASSUME JInv, [JobsNext]_jobVars
               PROVE  /\ \A c \in Requests :
                            fire[c].at # "conflict" /\ fire'[c].at = "conflict"
                                => ~sjob.there \/ ~Ran("manual", fire[c].key)
                      /\ Len(runs') > Len(runs) => ~Ran(Last(runs').trigger, Last(runs').key)
    OBVIOUS
  <2>1. ASSUME NEW c \in Requests, fire[c].at # "conflict", fire'[c].at = "conflict"
        PROVE  ~sjob.there \/ ~Ran("manual", fire[c].key)
    <3>1. Claim(c) /\ c \in Callers /\ c # 0
      BY <2>1, ConflictStep, JobAssumption DEF Callers, Requests
    <3>2. PICK noticed \in {FALSE, broken} : Verdict(c, noticed) = "conflict"
      <4>1. PICK noticed \in {FALSE, broken} :
               fire'[c].at = IF Verdict(c, noticed) \in {"insert", "skip"} THEN "ok"
                             ELSE Verdict(c, noticed)
        BY <3>1 DEF Claim, Answer, Quiet, JInv, JobsTypeOK
      <4>2. QED
        BY <2>1, <4>1
    <3>3. QED
      BY <3>1, <3>2 DEF Verdict, Trigger
  <2>2. ASSUME Len(runs') > Len(runs)
        PROVE  ~Ran(Last(runs').trigger, Last(runs').key)
    BY <2>2, RunsGrow, ClaimStep
  <2>3. QED
    BY <2>1, <2>2
<1>2. QED
  BY <1>1, JobsInvariance, PTL DEF JobsSpec, RepeatIsAnswered

-----------------------------------------------------------------------------
(* SessionComposer: the inductive invariant adds to the types that a       *)
(* request which goes to the transaction has been decided.                 *)

DecidedInv == \A c \in Sends : send[c].at = "enqueue" => send[c].decision # "auto"

SInv == ComposerTypeOK /\ DecidedInv /\ ConversationIsLinear

-----------------------------------------------------------------------------
\* The session begins with no turn of the composer.
LEMMA SInit == ComposerInit => SInv
<1> SUFFICES ASSUME ComposerInit PROVE SInv
  OBVIOUS
<1> USE ComposerAssumption DEF ComposerInit
<1>1. Review \in Stages
  BY DEF Review, Stages
<1>2. NoInput \in Inputs
  BY <1>1 DEF NoInput, Inputs
<1>3. tab \in [Tabs -> TabType]
  <2>1. 0 \in 0..MaxSends /\ 0 \in Nat
    OBVIOUS
  <2>2. QED
    BY <1>1, <1>2, <2>1 DEF TabType
<1>4. send \in [Sends -> SendType] /\ \A c \in Sends : send[c].at = "idle"
  BY <1>2 DEF NotSent, SendType, Decisions
<1>5. /\ turns \in Seq(Turns) /\ DOMAIN turns = {}
      /\ written \in 0..MaxMessages /\ sent \in 0..MaxSends /\ mishaps \in 0..MaxMishaps
  OBVIOUS
<1>6. QED
  BY <1>1, <1>3, <1>4, <1>5
  DEF SInv, ComposerTypeOK, DecidedInv, ConversationIsLinear

\* A new turn that answers the last one, under a key that has none, keeps the
\* conversation one line.
LEMMA LineGrows ==
  ASSUME turns \in Seq(Turns), ConversationIsLinear, NEW new \in Turns,
         turns' = Append(turns, new),
         new.previous = Len(turns), TurnsOf(new.key) = {}
  PROVE  ConversationIsLinear'
<1>1. /\ DOMAIN turns = 1..Len(turns) /\ DOMAIN turns' = 1..(Len(turns) + 1)
      /\ Len(turns) \in Nat
      /\ turns'[Len(turns) + 1] = new
      /\ \A i \in 1..Len(turns) : turns'[i] = turns[i]
  OBVIOUS
<1>2. ASSUME NEW i \in DOMAIN turns'
      PROVE  turns'[i].previous = i - 1 /\ TurnsOf(turns[i].key)' = {i}
  <2>1. CASE i \in 1..Len(turns)
    <3>1. turns'[i] = turns[i] /\ turns[i].previous = i - 1 /\ TurnsOf(turns[i].key) = {i}
      BY <1>1, <2>1 DEF ConversationIsLinear
    <3>2. new.key # turns[i].key
      BY <1>1, <2>1 DEF TurnsOf
    <3>3. QED
      BY <1>1, <2>1, <3>1, <3>2 DEF TurnsOf
  <2>2. CASE i = Len(turns) + 1
    <3>1. turns'[i] = new /\ \A j \in 1..Len(turns) : turns[j].key # new.key
      BY <1>1, <2>2 DEF TurnsOf
    <3>2. QED
      BY <1>1, <2>2, <3>1 DEF TurnsOf
  <2>3. QED
    BY <1>1, <1>2, <2>1, <2>2
<1>3. QED
  BY <1>2 DEF ConversationIsLinear

\* The turn that answers a key that is known is a number.
LEMMA KnownTurn ==
  ASSUME SInv, NEW key, TurnsOf(key) # {}
  PROVE  Min(TurnsOf(key)) \in Nat
<1>1. PICK i \in DOMAIN turns : turns[i].key = key
  BY DEF TurnsOf
<1>2. TurnsOf(key) = {i} /\ i \in Nat
  <2>1. TurnsOf(turns[i].key) = {i}
    BY <1>1 DEF SInv, ConversationIsLinear
  <2>2. turns \in Seq(Turns)
    BY DEF SInv, ComposerTypeOK
  <2>3. QED
    BY <1>1, <2>1, <2>2
<1>3. Min({i}) = i
  <2>1. \A y \in {i} : i <= y
    BY <1>2
  <2>2. \E x \in {i} : \A y \in {i} : x <= y
    BY <2>1
  <2>3. QED
    BY <2>2 DEF Min
<1>4. QED
  BY <1>2, <1>3

\* A request that is posted is a new one, and has not been decided by a step.
LEMMA PostStep ==
  ASSUME SInv, NEW input \in Inputs, NEW decision \in Decisions, NEW t \in Tabs,
         Post(t, input, decision)
  PROVE  /\ sent' \in 0..MaxSends
         /\ send' \in [Sends -> SendType]
         /\ \A c \in Sends : send'[c].at = "enqueue" =>
               send[c].at = "enqueue" /\ send'[c] = send[c]
<1> USE ComposerAssumption DEF SInv, ComposerTypeOK
<1>1. sent + 1 \in Sends /\ sent + 1 \in 0..MaxSends /\ sent' = sent + 1
  BY DEF Post, Sends
<1>2. send' = [send EXCEPT ![sent + 1] = [at |-> "find", input |-> input,
                                          decision |-> decision, job |-> 0]]
  BY <1>1 DEF Post
<1>3. [at |-> "find", input |-> input, decision |-> decision, job |-> 0] \in SendType
  BY DEF SendType
<1>4. send' \in [Sends -> SendType]
  BY <1>1, <1>2, <1>3
<1>5. QED
  BY <1>1, <1>2, <1>4

\* Every step of the tabs and of the server keeps the invariant.
LEMMA SStep == SInv /\ [ComposerNext]_composerVars => SInv'
<1> SUFFICES ASSUME SInv, [ComposerNext]_composerVars
             PROVE  SInv'
  OBVIOUS
<1> USE ComposerAssumption DEF SInv, ComposerTypeOK
<1>1. ASSUME UNCHANGED turns PROVE ConversationIsLinear'
  BY <1>1 DEF ConversationIsLinear, TurnsOf
<1>2. ASSUME NEW t \in Tabs, Write(t) PROVE SInv'
  <2>1. written' \in 0..MaxMessages /\ written' \in Nat
    BY <1>2 DEF Write
  <2>2. tab' \in [Tabs -> TabType]
    BY <1>2, <2>1 DEF Write, TabType
  <2>3. QED
    BY <1>1, <1>2, <2>1, <2>2 DEF Write, DecidedInv
<1>3. ASSUME NEW t \in Tabs, Submit(t) PROVE SInv'
  <2>1. tab[t] \in TabType
    OBVIOUS
  <2>2. PendingInput(t) \in Inputs
    <3>1. sent + 1 \in Nat
      OBVIOUS
    <3>2. QED
      BY <2>1, <3>1 DEF PendingInput, TabType, Inputs
  <2>3. Post(t, PendingInput(t), "auto") /\ "auto" \in Decisions
    BY <1>3 DEF Submit, Decisions
  <2>4. /\ sent' \in 0..MaxSends /\ send' \in [Sends -> SendType]
        /\ DecidedInv'
    BY <2>2, <2>3, PostStep DEF DecidedInv
  <2>5. tab' \in [Tabs -> TabType]
    BY <1>3, <2>2, <2>4 DEF Submit, TabType
  <2>6. QED
    BY <1>1, <1>3, <2>4, <2>5 DEF Submit
<1>4. ASSUME NEW t \in Tabs, Decide(t) PROVE SInv'
  <2>1. [tab[t].dialog EXCEPT !.fresh = FALSE] \in Inputs
    BY DEF TabType, Inputs
  <2>2. PICK decision \in {"question", "work"} :
           Post(t, [tab[t].dialog EXCEPT !.fresh = FALSE], decision)
    BY <1>4 DEF Decide
  <2>3. decision \in Decisions
    BY DEF Decisions
  <2>4. /\ sent' \in 0..MaxSends /\ send' \in [Sends -> SendType]
        /\ DecidedInv'
    BY <2>1, <2>2, <2>3, PostStep DEF DecidedInv
  <2>5. tab' \in [Tabs -> TabType]
    BY <1>4, <2>4 DEF Decide, TabType
  <2>6. QED
    BY <1>1, <1>4, <2>4, <2>5 DEF Decide
<1>5. ASSUME NEW t \in Tabs, Cancel(t) PROVE SInv'
  <2>1. NoInput \in Inputs
    BY DEF NoInput, Inputs, Stages
  <2>2. tab' \in [Tabs -> TabType]
    BY <1>5, <2>1 DEF Cancel, TabType
  <2>3. QED
    BY <1>1, <1>5, <2>2 DEF Cancel, DecidedInv
<1>6. ASSUME NEW t \in Tabs, Receive(t) PROVE SInv'
  <2>1. tab[t] \in TabType /\ tab[t].call \in Sends
    BY <1>6 DEF Receive, TabType, Sends
  <2>2. send[tab[t].call] \in SendType
    BY <2>1
  <2>3. NoInput \in Inputs
    BY DEF NoInput, Inputs, Stages
  <2>4. NotSent \in SendType /\ NotSent.at = "idle"
    BY <2>3 DEF NotSent, SendType, Decisions
  <2>5. send' = [send EXCEPT ![tab[t].call] = NotSent]
    BY <1>6 DEF Receive
  <2>6. send' \in [Sends -> SendType] /\ DecidedInv'
    BY <2>1, <2>4, <2>5 DEF DecidedInv
  <2>7. tab' \in [Tabs -> TabType]
    <3>1. send[tab[t].call].input \in Inputs /\ send[tab[t].call].job \in Nat
      BY <2>2 DEF SendType
    <3>2. 0 \in 0..MaxSends /\ 0 \in Nat
      OBVIOUS
    <3>3. CASE send[tab[t].call].at = "confirm"
      <4>1. tab' = [tab EXCEPT ![t].call = 0, ![t].dialog = send[tab[t].call].input]
        BY <1>6, <3>3 DEF Receive
      <4>2. QED
        BY <3>1, <3>2, <4>1 DEF TabType
    <3>4. CASE send[tab[t].call].at = "job"
      <4>1. PICK draft \in Nat, latest \in Nat :
               tab' = [tab EXCEPT ![t].call = 0, ![t].dialog = NoInput,
                                  ![t].pending = NoInput, ![t].draft = draft,
                                  ![t].latest = latest]
        <5>1. tab[t].draft \in Nat /\ tab[t].latest \in Nat
          BY <2>1 DEF TabType
        <5>2. tab' = [tab EXCEPT
                 ![t].call = 0, ![t].dialog = NoInput, ![t].pending = NoInput,
                 ![t].draft = IF @ = send[tab[t].call].input.message THEN 0 ELSE @,
                 ![t].latest = IF send[tab[t].call].job > @ THEN send[tab[t].call].job ELSE @]
          BY <1>6, <3>4 DEF Receive
        <5>3. QED
          BY <3>1, <5>1, <5>2
      <4> DEFINE new == [tab[t] EXCEPT !.call = 0, !.dialog = NoInput, !.pending = NoInput,
                                       !.draft = draft, !.latest = latest]
      <4>2. new \in TabType
        BY <2>1, <2>3, <3>2 DEF TabType
      <4>3. tab' = [tab EXCEPT ![t] = new]
        BY <4>1
      <4>4. QED
        BY <4>2, <4>3
    <3>5. CASE send[tab[t].call].at = "refused"
      BY <1>6, <2>1, <3>2, <3>5 DEF Receive, TabType
    <3>6. QED
      BY <1>6, <3>3, <3>4, <3>5 DEF Receive
  <2>8. QED
    BY <1>1, <1>6, <2>6, <2>7 DEF Receive
<1>7. ASSUME NEW t \in Tabs, LoseReply(t) PROVE SInv'
  <2>1. mishaps' \in 0..MaxMishaps /\ 0 \in 0..MaxSends
    BY <1>7 DEF LoseReply
  <2>2. tab' \in [Tabs -> TabType]
    BY <1>7, <2>1 DEF LoseReply, TabType
  <2>3. QED
    BY <1>1, <1>7, <2>1, <2>2 DEF LoseReply, DecidedInv
<1>8. ASSUME NEW t \in Tabs, RefreshTab(t) PROVE SInv'
  <2>1. Len(turns) \in Nat
    OBVIOUS
  <2>2. tab' \in [Tabs -> TabType]
    BY <1>8, <2>1 DEF RefreshTab, TabType
  <2>3. QED
    BY <1>1, <1>8, <2>2 DEF RefreshTab, DecidedInv
<1>9. ASSUME NEW c \in Sends, Find(c) PROVE SInv'
  <2>1. CASE AnsweredBefore(c)
    <3>1. Min(TurnsOf(send[c].input.key)) \in Nat
      BY <2>1, KnownTurn DEF AnsweredBefore
    <3>2. send' = [send EXCEPT ![c].at = "job",
                               ![c].job = Min(TurnsOf(send[c].input.key))]
      BY <2>1 DEF AnsweredBefore
    <3>3. send' \in [Sends -> SendType]
      BY <3>1, <3>2 DEF SendType
    <3>4. DecidedInv'
      BY <3>2 DEF DecidedInv, SendType
    <3>5. QED
      BY <1>1, <1>9, <3>3, <3>4 DEF Find
  <2>2. CASE ~AnsweredBefore(c)
    <3>1. PICK a \in {"refused", "enqueue", "classify", "confirm"}, fresh \in BOOLEAN :
             /\ a = "enqueue" => send[c].decision # "auto"
             /\ send' = [send EXCEPT ![c].at = a, ![c].input.fresh = fresh]
      <4>1. send[c].decision \in {"auto", "question", "work"} /\ session \in BOOLEAN
        BY DEF SendType, Decisions
      <4>2. CASE ~Accepted(send[c].input)
        BY <1>9, <2>2, <4>2 DEF Find
      <4>3. CASE Accepted(send[c].input) /\ send[c].decision = "work"
        BY <1>9, <2>2, <4>3 DEF Find
      <4>4. CASE Accepted(send[c].input) /\ send[c].decision = "question"
        BY <1>9, <2>2, <4>4 DEF Find
      <4>5. CASE Accepted(send[c].input) /\ send[c].decision = "auto"
        BY <1>9, <2>2, <4>5 DEF Find
      <4>6. QED
        BY <4>1, <4>2, <4>3, <4>4, <4>5
    <3>2. send' \in [Sends -> SendType]
      <4>1. [send[c].input EXCEPT !.fresh = fresh] \in Inputs
        BY DEF SendType, Inputs
      <4>2. send' = [send EXCEPT ![c].at = a, ![c].input = [send[c].input EXCEPT !.fresh = fresh]]
        BY <3>1
      <4>3. QED
        BY <4>1, <4>2 DEF SendType
    <3>3. /\ send'[c].at = a /\ send'[c].decision = send[c].decision
          /\ \A d \in Sends \ {c} : send'[d] = send[d]
      BY <3>1 DEF SendType
    <3>4. DecidedInv'
      BY <3>1, <3>3 DEF DecidedInv
    <3>5. QED
      BY <1>1, <1>9, <3>2, <3>4 DEF Find
  <2>3. QED
    BY <2>1, <2>2
<1>10. ASSUME NEW c \in Sends, Classify(c) PROVE SInv'
  <2>1. send' \in [Sends -> SendType]
    BY <1>10 DEF Classify, SendType, Decisions
  <2>2. DecidedInv'
    BY <1>10 DEF Classify, DecidedInv, SendType
  <2>3. QED
    BY <1>1, <1>10, <2>1, <2>2 DEF Classify
<1>11. ASSUME NEW c \in Sends, EnqueueChat(c) PROVE SInv'
  <2>1. CASE AnsweredBefore(c) /\ UNCHANGED <<turns, working, stage>>
    <3>1. Min(TurnsOf(send[c].input.key)) \in Nat
      BY <2>1, KnownTurn DEF AnsweredBefore
    <3>2. send' = [send EXCEPT ![c].at = "job",
                               ![c].job = Min(TurnsOf(send[c].input.key))]
      BY <2>1 DEF AnsweredBefore
    <3>3. send' \in [Sends -> SendType]
      BY <3>1, <3>2 DEF SendType
    <3>4. DecidedInv'
      BY <3>2 DEF DecidedInv, SendType
    <3>5. QED
      BY <1>1, <1>11, <2>1, <3>3, <3>4 DEF EnqueueChat
  <2>2. CASE /\ send' = [send EXCEPT ![c].at = "refused"]
             /\ UNCHANGED <<turns, working, stage>>
    <3>1. send' \in [Sends -> SendType] /\ DecidedInv'
      BY <2>2 DEF SendType, DecidedInv
    <3>2. QED
      BY <1>1, <1>11, <2>2, <3>1 DEF EnqueueChat
  <2>3. CASE turns' # turns
    <3> DEFINE r == send[c]
               new == [key |-> r.input.key, message |-> r.input.message,
                       previous |-> r.input.previous, mode |-> r.decision]
    <3>1. /\ TurnsOf(r.input.key) = {} /\ Accepted(r.input)
          /\ turns' = Append(turns, new)
          /\ working' = TRUE
          /\ stage' \in {stage, InProgress}
          /\ send' = [send EXCEPT ![c].at = "job", ![c].job = Len(turns')]
      BY <1>11, <2>3 DEF EnqueueChat
    <3>2. new \in Turns
      <4>1. r.input \in Inputs /\ r.decision \in {"question", "work"}
        BY <1>11 DEF EnqueueChat, DecidedInv, SendType, Decisions
      <4>2. QED
        BY <4>1 DEF Inputs, Turns
    <3>3. new.previous = Len(turns) /\ TurnsOf(new.key) = {}
      BY <3>1 DEF Accepted, CursorIsCurrent
    <3>4. turns' \in Seq(Turns) /\ Len(turns') \in Nat
      BY <3>1, <3>2
    <3>5. ConversationIsLinear'
      BY <3>1, <3>2, <3>3, LineGrows
    <3>6. send' \in [Sends -> SendType] /\ DecidedInv'
      BY <3>1, <3>4 DEF SendType, DecidedInv
    <3>7. stage' \in Stages
      BY <3>1 DEF Stages
    <3>8. QED
      BY <1>11, <3>1, <3>4, <3>5, <3>6, <3>7 DEF EnqueueChat
  <2>4. QED
    <3>1. CASE turns' = turns
      BY <1>11, <2>1, <2>2, <3>1 DEF EnqueueChat
    <3>2. QED
      BY <2>3, <3>1
<1>12. CASE TurnEnds
  <2>1. stage' \in Stages /\ session' \in BOOLEAN
    BY <1>12 DEF TurnEnds, Stages
  <2>2. QED
    BY <1>1, <1>12, <2>1 DEF TurnEnds, DecidedInv
<1>13. CASE MoveCard
  <2>1. mishaps' \in 0..MaxMishaps
    BY <1>13 DEF MoveCard
  <2>2. QED
    BY <1>1, <1>13, <2>1 DEF MoveCard, DecidedInv
<1>14. CASE UNCHANGED composerVars
  BY <1>1, <1>14 DEF composerVars, DecidedInv
<1>15. QED
  BY <1>2, <1>3, <1>4, <1>5, <1>6, <1>7, <1>8, <1>9, <1>10, <1>11, <1>12, <1>13, <1>14
  DEF ComposerNext

\* The three conjuncts hold in every reachable state.
THEOREM ComposerInvariance == ComposerSpec => []SInv
BY SInit, SStep, PTL DEF ComposerSpec

\* Every variable of the composer and of its requests keeps its type.
THEOREM ComposerTypeCorrect == ComposerSpec => []ComposerTypeOK
BY ComposerInvariance, PTL DEF SInv

\* Each turn answers the one before it, and no request makes two, with any
\* number of tabs that send, confirm, repeat and lose their requests.
THEOREM LinearConversation == ComposerSpec => []ConversationIsLinear
BY ComposerInvariance, PTL DEF SInv
=============================================================================
