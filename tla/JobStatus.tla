------------------------------ MODULE JobStatus ------------------------------
(***************************************************************************)
(* The status vocabulary of SceneWorks jobs and workers, as the durable    *)
(* rows spell it, and its partition into pending, active and terminal.     *)
(***************************************************************************)

\* API-owned states: no worker has been handed the job yet.
PendingStatuses == {"queued", "pending_caption", "pending_workflow"}

\* Worker-owned states: a claim moved the job out of the queue.
ActiveStatuses == {"preparing", "downloading", "loading_model", "running", "saving"}

\* Final states: the row only leaves them by being purged.
TerminalStatuses == {"completed", "failed", "canceled", "interrupted"}

JobStatuses == PendingStatuses \cup ActiveStatuses \cup TerminalStatuses

WorkerStatuses == {"idle", "busy", "offline", "unhealthy"}
=============================================================================
