------------------------------ MODULE JobTable ------------------------------
(***************************************************************************)
(* The status column of agent_job, shared by every module that reads or    *)
(* writes the queue, and the two CASE expressions by which a cancellation  *)
(* and a completion are ordered.                                           *)
(***************************************************************************)

\* "absent" is an id that AUTOINCREMENT has not handed out yet, "deleted" one
\* whose row went with its task (ON DELETE CASCADE); the rest are the values
\* the column takes.
Statuses == {"absent", "deleted", "pending", "claimed", "running", "canceling",
             "completed", "failed", "canceled", "interrupted"}

\* The partial unique index one_active_ai_job_per_task ranges over these.
ActiveStatuses == {"pending", "claimed", "running", "canceling"}

\* What a restart must not leave behind, and what FinishAI may end.
InFlight == {"claimed", "running", "canceling"}

Cancelable == {"pending", "claimed", "running"}

\* variant: a claimed job is stopped, a running one ends at once
CancelStatusSwapped(s) ==
    CASE s = "running"                -> "canceled"
      [] s \in {"pending", "claimed"} -> "canceling"
      [] OTHER                        -> s

\* CancelAI and the release of ConductorRepo.Manage: a job that has not
\* started is over at once, a running one has to be stopped first.
CancelStatus(s) ==
    CASE s \in {"pending", "claimed"} -> "canceled"
      [] s = "running"                -> "canceling"
      [] OTHER                        -> s

\* variant: the last writer wins
FinishStatusLastWriter(s, verdict) == verdict

\* FinishAI: "a cancel request wins the completion race".
FinishStatus(s, verdict) == IF s = "canceling" THEN "canceled" ELSE verdict
=============================================================================
