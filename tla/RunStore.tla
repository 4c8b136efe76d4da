------------------------------ MODULE RunStore ------------------------------
(***************************************************************************)
(* The run table's status lattice (src/shared/run-store.ts): six statuses, *)
(* ranked, moved only forward by conditional updates.  A run that has no   *)
(* row yet is "absent", which is no status: every conditional update of    *)
(* the store requires the row to exist.                                    *)
(***************************************************************************)
EXTENDS Naturals

Terminal   == {"completed", "failed", "timed_out"}
Active     == {"queued", "provisioning", "running"}
Status     == Active \union Terminal
Absent     == "absent"
RowStatus  == Status \union {Absent}

StatusRank ==
  [queued |-> 0, provisioning |-> 1, running |-> 2,
   completed |-> 3, failed |-> 3, timed_out |-> 3]

IsTerminal(s) == s \in Terminal

(* Mutant: a terminal row may be re-opened by another status of its rank.  *)
CanTransitionNotFinal(from, to) ==
  /\ from \in Status
  /\ from = to \/ StatusRank[to] >= StatusRank[from]

(* Same status is an idempotent rewrite; terminal is final; otherwise the  *)
(* rank must strictly grow.  The condition also demands an existing row.   *)
CanTransition(from, to) ==
  /\ from \in Status
  /\ \/ from = to
     \/ /\ ~IsTerminal(from)
        /\ StatusRank[to] > StatusRank[from]

(* How long ago `updatedAt` was, against the Reaper's two thresholds:      *)
(* below both, past the orphan grace (5 min), past the stuck limit (15).   *)
Age == {"fresh", "grace", "stuck"}

Older(a) == IF a = "fresh" THEN "grace" ELSE "stuck"

=============================================================================
