---------------------------- MODULE PreviewRules ----------------------------
(***************************************************************************)
(* What the console says of jobs that have not run yet, from the stored    *)
(* analyses: which jobs a change of the claim list moves, which an adopted *)
(* repository would hand over, which route to a flavor that cannot run     *)
(* (src/mgmt/views.ts, refusal-views.ts and handler.ts).  None of it asks  *)
(* Ingest; each repeats a part of Ingest's rules.                          *)
(*                                                                         *)
(* A stored job is [labels, group, eligible]; one without a compatibility  *)
(* result is eligible.                                                     *)
(***************************************************************************)
EXTENDS RewriteRules

LOCAL Publish == INSTANCE PublishRules

(* Ingest's answer to a delivery for the job: the claim, then its gates,   *)
(* where it finds the stored job by the delivery's names.                  *)
Takes(job, claimed, custom, mode) ==
  /\ DecideClaim(job.labels, ClaimLabelsWithCustom(job.labels, claimed, custom), mode)
       # NotClaimed
  /\ PostClaimGate({job}) = "pass"

(* Only the compatibility gate and the label-mode primitive are repeated.  *)
PreviewClaims(job, claimed) == job.eligible /\ job.labels \intersect claimed # {}

Losing(jobs, current, proposed) ==
  {j \in jobs : PreviewClaims(j, current) /\ ~PreviewClaims(j, proposed)}

Gaining(jobs, current, proposed) == Losing(jobs, proposed, current)

-----------------------------------------------------------------------------
(* The scan behind the impact: installs is a sequence of [deleted, repos], *)
(* repos a sequence of [row, jobs].  Every read that fails leaves nothing  *)
(* of what it asked for, and the scan says nothing of it.                  *)

(* It stops once it holds more than the cap: one too many is evidence.     *)
CollectImpactRepos(installs, cap) ==
  LET kept(i) == SelectSeq(installs[i].repos, LAMBDA r : ~IsRepoOptedOut(r.row))
      found[i \in 0 .. Len(installs)] ==
        IF i = 0 THEN << >>
        ELSE IF installs[i].deleted \/ Len(found[i - 1]) > cap THEN found[i - 1]
        ELSE found[i - 1] \o kept(i)
  IN  found[Len(installs)]

(* `enumerated`: the installations are GitHub's list, not the store's.     *)
LabelImpact(current, proposed, installs, enumerated, cap) ==
  LET repos == CollectImpactRepos(installs, cap)
      jobs  == UNION {repos[i].jobs : i \in 1 .. Min({cap, Len(repos)})}
  IN  [losing    |-> Losing(jobs, current, proposed),
       gaining   |-> Gaining(jobs, current, proposed),
       truncated |-> Len(repos) > cap \/ ~enumerated]

-----------------------------------------------------------------------------
(* The badge of a job that would move with a switch to adopt mode.         *)
AdoptCandidate(job) ==
  /\ job.labels \intersect AdoptLabels # {}
  /\ job.labels \intersect BuiltinLabels = {}
  /\ ~IncompatibleRunnerLabel(job.labels)
  /\ ~UnreachableRunnerGroup(job.group)

(* Of a stored route's flavor, by the label of the flavor and its image;   *)
(* custom flavors are in no such catalog.  `live`: both reads succeeded.   *)
RouteReadiness(flavor, listed, published, live) ==
  LET known == ByName(BuiltinFlavors, flavor) IN
  IF known = {} \/ ~live THEN "unknown"
  ELSE Publish!ReadinessOf((CHOOSE f \in known : TRUE).label \in listed, flavor \in published)

PlatformLevel(states) ==
  IF "unknown" \in states THEN "unknown" ELSE Publish!WorstState(states)

(* A route that counts as broken: not knowing does not.                    *)
Unrunnable(flavor, listed, published, live) ==
  RouteReadiness(flavor, listed, published, live) \notin {"ready", "unknown"}

=============================================================================
