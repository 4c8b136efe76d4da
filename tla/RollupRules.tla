---------------------------- MODULE RollupRules -----------------------------
(***************************************************************************)
(* The rules by which the console folds job rows into workflow runs        *)
(* (src/mgmt/run-rollup.ts): the rollups of a run, and when a window of    *)
(* loaded rows may call them exact.                                        *)
(*                                                                         *)
(* A job is a record [run, status, flavor, created, updated]; the times    *)
(* are numbers, the flavor None until the job is placed.                   *)
(***************************************************************************)
EXTENDS Integers, FiniteSets

CONSTANTS
  Repos,
  None

Statuses == {"queued", "provisioning", "running", "completed", "failed", "timed_out"}

-----------------------------------------------------------------------------
(* The rollups of one run.                                                 *)

(* Failure dominates; completed surfaces only when every job completed.    *)
FoldRank(status) ==
  CASE status = "failed"       -> 1
    [] status = "timed_out"    -> 2
    [] status = "running"      -> 3
    [] status = "provisioning" -> 4
    [] status = "queued"       -> 5
    [] status = "completed"    -> 6

FoldRunStatus(statuses) ==
  IF statuses = {} THEN "queued"
  ELSE CHOOSE s \in statuses : \A t \in statuses : FoldRank(s) <= FoldRank(t)

DistinctFlavors(jobs) == {j.flavor : j \in jobs} \ {None}
Mixed(jobs) == \E f, g \in DistinctFlavors(jobs) : f # g

(* What a label claims of a run's flavors, by the window it was read from. *)
FlavorLabel(jobs, partial) ==
  IF DistinctFlavors(jobs) = {} THEN "unknown"
  ELSE IF partial THEN "at least these"
  ELSE IF Mixed(jobs) THEN "these" ELSE "this one"

StartedAt(jobs) ==
  CHOOSE t \in {j.created : j \in jobs} : \A j \in jobs : t <= j.created

LastTransition(jobs) ==
  CHOOSE t \in {j.updated : j \in jobs} : \A j \in jobs : t >= j.updated

(* Timestamps, not a sum: jobs in parallel do not stretch it.              *)
WallClock(jobs) ==
  IF LastTransition(jobs) > StartedAt(jobs) THEN LastTransition(jobs) - StartedAt(jobs) ELSE 0

(* A bound is marked where there is a figure to bound.                     *)
DurationLabel(seconds, partial) == IF partial /\ seconds > 0 THEN "at least" ELSE "fact"
StartedAtLabel(partial) == IF partial THEN "at most" ELSE "fact"

(* Job rows by run; every run carries the verdict of the whole window.     *)
GroupRuns(rows, complete) ==
  {[run |-> r, jobs |-> {j \in rows : j.run = r}, partial |-> ~complete] : r \in {j.run : j \in rows}}

-----------------------------------------------------------------------------
(* When a window is exact.                                                 *)

WindowComplete(w) ==
  /\ ~w.statusFiltered
  /\ w.exhausted
  /\ w.seamIntact
  /\ w.serverComplete

NoBoundary == 0
NoSeam     == [past |-> FALSE, boundary |-> NoBoundary]

(* The row above the first older one must still be in the polled head.     *)
HeadSeamIntact(seam, headKeys) ==
  seam.past => seam.boundary # NoBoundary /\ seam.boundary \in headKeys

(* Mutant: every hop records its boundary anew.                            *)
SeamAfterEveryHop(seam, headTail) == [past |-> TRUE, boundary |-> headTail]

(* The first hop off the head records its boundary, rows or no rows.       *)
SeamAfterHop(seam, headTail) ==
  IF seam.past THEN seam ELSE [past |-> TRUE, boundary |-> headTail]

(* A view without a cursor: a row dropped here is gone.                    *)
MergedResponseComplete(anyIndexTruncated, visibleRows, returnedRows) ==
  ~anyIndexTruncated /\ returnedRows = visibleRows

RepoResponseComplete(statusFiltered) == ~statusFiltered

=============================================================================
