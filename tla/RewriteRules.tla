---------------------------- MODULE RewriteRules ----------------------------
(***************************************************************************)
(* The planner of the auto-rewrite pull request (src/mgmt/rewrite.ts): a   *)
(* job that runs on a GitHub-hosted label gets `self-hosted` and the label *)
(* of the flavor its stored route names.  Text is left out: a `runs-on` is *)
(* its shape and, where the shape is one line of labels, the labels.       *)
(***************************************************************************)
EXTENDS FlavorRules

Shapes == {"inline", "block", "expression", "object", "unparsable", "none",
           "broken"}   \* `none`: no runs-on line; `broken`: the file is no YAML

NoLabel == "no label"
NoSkip  == ""

(* Built-ins by the catalog, custom labels by their namespace alone.       *)
AlreadyTargetsLca(labels) ==
  \E l \in labels : l \in BuiltinLabels \/ IsCustomFlavorLabel(l)

(* Only a built-in label is ever authored.                                 *)
LabelForFlavor(name) ==
  LET hits == ByName(BuiltinFlavors, name)
  IN  IF hits = {} THEN NoLabel ELSE (CHOOSE f \in hits : TRUE).label

(* Mutant: the route of a job that named an absent custom flavor is taken  *)
(* at its word.                                                            *)
CustomRouteSkipResolved(route) ==
  IF IsCustomFlavorName(route.flavor) THEN "custom route" ELSE NoSkip

(* A custom route, found or not, is the operator's: inserting a built-in   *)
(* label would remove the label the FlavorMap is keyed on.                 *)
CustomRouteSkip(route) ==
  IF route.unresolved # NoFlavor THEN "unresolved custom route"
  ELSE IF IsCustomFlavorName(route.flavor) THEN "custom route"
  ELSE NoSkip

(* The jobs of an analysis that are candidates.                            *)
IsRewriteTarget(labels, group) ==
  /\ ~AlreadyTargetsLca(labels)
  /\ labels \intersect AdoptLabels # {}
  /\ ~IncompatibleRunnerLabel(labels)
  /\ ~UnreachableRunnerGroup(group)

-----------------------------------------------------------------------------
(* Mutant: the checks of the analysis are trusted.                         *)
RunsOnRefusalStale(shape, labels) ==
  IF shape # "inline" THEN shape ELSE NoSkip

(* Why one `runs-on` may not be rewritten; the file is read anew, so what  *)
(* the analysis knew is checked again.                                     *)
RunsOnRefusal(shape, labels) ==
  IF shape # "inline" THEN shape
  ELSE IF AlreadyTargetsLca(labels) THEN "already LCA"
  ELSE IF labels \intersect AdoptLabels = {} THEN "no hosted label"
  ELSE IF IncompatibleRunnerLabel(labels) THEN "incompatible"
  ELSE NoSkip

Kept(labels) == labels \ (AdoptLabels \union {SelfHosted})

RewrittenLabels(labels, lca) == {SelfHosted} \union Kept(labels) \union {lca}

(* The members of a sequence at the positions in S, in their order.        *)
Place(S, i) == Cardinality({j \in S : j <= i})

Chosen(seq, S) ==
  [n \in 1 .. Cardinality(S) |-> seq[CHOOSE i \in S : Place(S, i) = n]]

RewriteRunsOnValue(labels, lca) ==
  LET kept == {i \in DOMAIN labels : labels[i] \in Kept(LabelSet(labels))}
  IN  <<SelfHosted>> \o Chosen(labels, kept) \o <<lca>>

(* Why planFileRewrite leaves a job alone, in the order it asks; NoSkip    *)
(* when it edits.  `target` is the route's skip and flavor.                *)
PlanRefusal(job, target) ==
  LET labels == LabelSet(job.labels) IN
  IF job.shape \in {"none", "broken"} THEN "no single-line runs-on"
  ELSE IF job.shape = "inline" /\ AlreadyTargetsLca(labels) THEN "already LCA"
  ELSE IF target.skip # NoSkip THEN target.skip
  ELSE IF LabelForFlavor(target.flavor) = NoLabel THEN "unknown flavor"
  ELSE RunsOnRefusal(job.shape, labels)

PlanFileRewrite(job, target) ==
  [job EXCEPT !.labels = RewriteRunsOnValue(@, LabelForFlavor(target.flavor))]

TargetOf(route) == [flavor |-> route.flavor, skip |-> CustomRouteSkip(route)]

(* The console's dry run, from the stored analysis: the parsed labels are  *)
(* rendered inline, so no shape stands in its way.                         *)
PlanPreview(job, route) ==
  LET target == TargetOf(route)
      labels == LabelSet(job.labels) IN
  IF ~IsRewriteTarget(labels, job.group) THEN "not a candidate"
  ELSE IF target.skip # NoSkip THEN target.skip
  ELSE IF LabelForFlavor(target.flavor) = NoLabel THEN "unknown flavor"
  ELSE RunsOnRefusal("inline", labels)

=============================================================================
