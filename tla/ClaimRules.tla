----------------------------- MODULE ClaimRules -----------------------------
(***************************************************************************)
(* Whether a queued job is ours to run, and what is recorded when it is    *)
(* not (src/ingest/adopt.ts, filter.ts, job-match.ts, refusal.ts, and the  *)
(* custom-label step of handler.ts).  All pure: Ingest supplies the reads. *)
(***************************************************************************)
EXTENDS Catalog

NoMode == "unset"                      \* no repository row, or none readable
RepoModes == {"label", "adopt", "off"}
NotClaimed == "none"

(* Mutant: a repository whose mode is unknown is treated as adopted.       *)
DecideClaimFailOpen(labels, claimed, mode) ==
  IF IncompatibleRunnerLabel(labels) THEN NotClaimed
  ELSE IF labels \intersect claimed # {} THEN "label"
  ELSE IF mode # "label" /\ labels \intersect AdoptLabels # {} THEN "adopt"
  ELSE NotClaimed

(* The claim, by the label or the mode that granted it.                    *)
DecideClaim(labels, claimed, mode) ==
  IF IncompatibleRunnerLabel(labels) THEN NotClaimed
  ELSE IF labels \intersect claimed # {} THEN "label"
  ELSE IF mode = "adopt" /\ labels \intersect AdoptLabels # {} THEN "adopt"
  ELSE NotClaimed

(* The label-mode primitive, before adopt mode.                            *)
ShouldClaim(action, labels, claimed) ==
  action = "queued" /\ labels \intersect claimed # {}

(* A missing row is no opt-out.                                            *)
IsRepoOptedOut(row) == ~row.enabled \/ row.mode = "off"

(* A custom label is claimable only in its own installation, while valid.  *)
(* `custom` is what the read returned: {} also stands for a failed read.   *)
ClaimLabelsWithCustom(labels, claimed, custom) ==
  IF \E l \in labels : IsCustomFlavorLabel(l)
  THEN claimed \union {f.label : f \in custom}
  ELSE claimed

-----------------------------------------------------------------------------
(* The names by which a webhook may mean a stored job.  A workflow has its *)
(* file's path, which stands for the basename too (all files are in one    *)
(* directory), and its `name:`, which several files may share; a webhook   *)
(* without one may mean any file.  A job has its `name:` or id, and every  *)
(* name that a matrix may render of it, "<name> (...)", its legs.          *)
NoWorkflow == "no workflow"

WorkflowNameMatches(path, name, rendered) == rendered \in {NoWorkflow, path, name}

JobNameMatches(job, legs, rendered) == rendered = job \/ rendered \in legs

(* Mutant: of several, any one is taken.                                   *)
MatchJobAnalysisGuessed(analyses, workflow, jobName) ==
  LET hits == {a \in analyses : /\ WorkflowNameMatches(a.path, a.name, workflow)
                                /\ JobNameMatches(a.job, a.legs, jobName)}
  IN  IF hits # {} THEN {CHOOSE a \in hits : TRUE} ELSE {}

(* The stored analysis of a job: only if no other one answers to the names.*)
MatchJobAnalysis(analyses, workflow, jobName) ==
  LET hits == {a \in analyses : /\ WorkflowNameMatches(a.path, a.name, workflow)
                                /\ JobNameMatches(a.job, a.legs, jobName)}
  IN  IF Cardinality(hits) = 1 THEN hits ELSE {}

(* What an analysis says against a claim; fails open without a match.      *)
PostClaimGate(match) ==
  IF \E a \in match : UnreachableRunnerGroup(a.group) THEN "runner-group"
  ELSE IF \E a \in match : ~a.eligible THEN "compat-block"
  ELSE "pass"

-----------------------------------------------------------------------------
(* A label in our namespace shows that the operator meant this platform.   *)
LcaShapedLabels(labels) == labels \intersect (BuiltinLabels \union CustomLabels)

RefusalCodes ==
  {"repo-disabled", "runner-group", "compat-block", "incompatible-label",
   "label-not-allowlisted", "no-standard-label", "no-lca-label"}

RefusalCode(gate, labels, claimed, mode) ==
  IF gate # "claim" THEN gate
  ELSE IF IncompatibleRunnerLabel(labels) THEN "incompatible-label"
  ELSE IF LcaShapedLabels(labels) \ claimed # {} THEN "label-not-allowlisted"
  ELSE IF mode = "adopt" THEN "no-standard-label"
  ELSE "no-lca-label"

(* Only an actionable refusal is stored; the rest is expected.             *)
RefusalActionable(gate, labels, claimed) ==
  \/ gate \in {"runner-group", "compat-block"}
  \/ gate = "repo-disabled" /\ LcaShapedLabels(labels) # {}
  \/ /\ gate = "claim"
     /\ IF IncompatibleRunnerLabel(labels)
        THEN LcaShapedLabels(labels) # {}
        ELSE LcaShapedLabels(labels) \ claimed # {}

(* The rest is logged for one job in a hundred, always the same ones.      *)
SampleRefusalLog(jobId, bucket) == jobId % bucket = 0

(* The console's "configuration changed" badge of an old refusal.          *)
AllowlistChanged(snapshot, live, known) == known /\ snapshot # live

=============================================================================
