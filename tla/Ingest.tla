------------------------------- MODULE Ingest -------------------------------
(***************************************************************************)
(* The Ingest Lambda's workflow_job path (src/ingest/handler.ts).  GitHub  *)
(* may deliver a webhook late, twice, out of order, or not at all.         *)
(***************************************************************************)
EXTENDS PlaneState

Unsent(r) == {i \in 1 .. MaxMsgs : msg[<<r, i>>].state = "unsent"}

(* SQS drops a send whose deduplication id was seen in the last 5 minutes. *)
Enqueue(r) ==
  IF dedup[r]
  THEN UNCHANGED <<msg, dedup>>
  ELSE /\ \E i \in Unsent(r) :
            /\ \A j \in Unsent(r) : i <= j
            /\ msg' = [msg EXCEPT ![<<r, i>>].state = "visible"]
       /\ dedup' = [dedup EXCEPT ![r] = TRUE]

(* putQueuedRun: attribute_not_exists(pk), an existing row is a no-op.     *)
PutQueuedRun(r) ==
  IF row[r].status = Absent THEN row' = Moved(r, "queued") ELSE UNCHANGED row

(* A `queued` delivery for a job the claim gates accept: write the row,    *)
(* then send.  The row write's fault is swallowed; the send's is a 5xx.    *)
ClaimJob(r) ==
  /\ row[r].status = Absent \/ ~dedup[r]
  /\ \/ PutQueuedRun(r) /\ Enqueue(r) /\ NoMishap
     \/ UNCHANGED row /\ Enqueue(r) /\ Mishap(r, "put")
     \/ PutQueuedRun(r) /\ UNCHANGED <<msg, dedup>> /\ Mishap(r, "send")
  /\ UNCHANGED <<jit, worker, vm, gh, reaper>>

(* The 5 minutes pass.  Followed only while MaxMsgs leaves a send to come.  *)
DedupWindowCloses(r) ==
  /\ dedup[r] /\ Unsent(r) # {}
  /\ dedup' = [dedup EXCEPT ![r] = FALSE]
  /\ UNCHANGED <<row, jit, msg, worker, vm, gh, reaper, mishaps, budget>>

(* The first such delivery is the platform's; each further one is a fault. *)
RewriteRunning(r) ==
  /\ row[r].age # "fresh"
  /\ \/ /\ "redeliver" \notin mishaps[r]
        /\ mishaps' = [mishaps EXCEPT ![r] = @ \union {"redeliver"}]
        /\ UNCHANGED budget
     \/ Mishap(r, "redeliver")

(* `in_progress` -> running.  A delivery that finds the row running        *)
(* already, as Provision usually leaves it, rewrites it and makes it young *)
(* again (to a young row it would do nothing).                             *)
StatusInProgress(r) ==
  /\ gh[r] \in {"in_progress", "success", "failure"}
  /\ CanTransition(row[r].status, "running")
  /\ row' = Moved(r, "running")
  /\ IF row[r].status = "running" THEN RewriteRunning(r) ELSE NoMishap
  /\ UNCHANGED <<jit, dedup, msg, worker, vm, gh, reaper>>

(* `completed` carries a conclusion; only success completes the run.       *)
CompletionStatus(conclusion) ==
  IF conclusion = "success" THEN "completed" ELSE "failed"

StatusCompleted(r) ==
  /\ gh[r] \in {"success", "failure", "cancelled"}
  /\ row[r].status # CompletionStatus(gh[r])
  /\ CanTransition(row[r].status, CompletionStatus(gh[r]))
  /\ row' = Moved(r, CompletionStatus(gh[r]))
  /\ NoMishap
  /\ UNCHANGED <<jit, dedup, msg, worker, vm, gh, reaper>>

IngestNext ==
  \E r \in Runs :
    \/ ClaimJob(r)
    \/ DedupWindowCloses(r)
    \/ StatusInProgress(r)
    \/ StatusCompleted(r)

=============================================================================
