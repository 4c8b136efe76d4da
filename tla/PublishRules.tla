---------------------------- MODULE PublishRules ----------------------------
(***************************************************************************)
(* What a catalog flavor needs before a job can run on it: its label in    *)
(* the claim allowlist, its image ARN published, the image usable.         *)
(* src/shared/flavor-reconcile.ts judges all three for the scripts,        *)
(* src/shared/flavor-readiness.ts the two the console can read.  A fact    *)
(* that was not read is Unread, which is neither good news nor bad.        *)
(***************************************************************************)
EXTENDS Integers, FiniteSets

Absent == "absent"     \* the service says there is no such image
Unread == "unread"     \* nothing was learned

UsableImageStates  == {"CREATED", "UPDATED"}
PendingImageStates == {"CREATING", "UPDATING", "PENDING"}
FailedImageStates  == {"CREATE_FAILED", "UPDATE_FAILED"}
ImageStates == UsableImageStates \union PendingImageStates \union FailedImageStates

(* The two words for one observation of the allowlist, or Unread.          *)
Claimed == {"yes", "no"}

MicroVmStates == {"PENDING", "RUNNING", "SUSPENDING", "SUSPENDED", "TERMINATING",
                  "TERMINATED", "unrecognized"}

(* Mutant: the wish to be gone passes for being gone.                      *)
IsLiveMicroVmStateHasty(state) == state \notin {"TERMINATING", "TERMINATED"}

(* Only one state ends a microVM; what is not understood is alive.         *)
IsLiveMicroVmState(state) == state # "TERMINATED"

Usable(arn, state) == arn /\ state \in UsableImageStates

(* The label may follow only an image that was seen usable.                *)
MayClaimLabel(arn, state) == Usable(arn, state)

(* obs: arn published or not, image state, label claimed.                  *)
HealthOf(obs) ==
  IF obs.arn /\ obs.state \in FailedImageStates THEN "image_failed"
  ELSE IF obs.arn /\ obs.state \in PendingImageStates THEN "image_building"
  ELSE IF ~(Usable(obs.arn, obs.state) \/ (obs.arn /\ obs.state = Unread))
       THEN IF obs.claimed = "yes" THEN "image_missing" ELSE "not_built"
  ELSE CASE obs.claimed = "no"   -> "label_missing"
         [] obs.claimed = Unread -> "label_unverified"
         [] OTHER -> IF obs.state = Unread THEN "image_unverified" ELSE "ok"

Severity(health) ==
  CASE health \in {"ok", "image_unverified", "label_unverified"} -> "ok"
    [] health \in {"image_building", "label_missing"}            -> "warn"
    [] health \in {"image_missing", "not_built", "image_failed"} -> "blocked"

(* What the tool does on its own: build, then claim; or only claim, and    *)
(* that only for an image it has seen usable.  It never removes a label.   *)
SafeFix(obs) ==
  LET health == HealthOf(obs) IN
  CASE health \in {"not_built", "image_failed", "image_missing"} -> "build"
    [] health = "label_missing" /\ MayClaimLabel(obs.arn, obs.state) -> "add-label"
    [] OTHER -> "none"

(* ReconcileFlavors: one row per catalog flavor, observed or not.          *)
NotObserved == [arn |-> FALSE, state |-> Unread, claimed |-> Unread]

Observation(seen, f) == IF f \in DOMAIN seen THEN seen[f] ELSE NotObserved

Drift(seen, catalog) ==
  \E f \in catalog : Severity(HealthOf(Observation(seen, f))) # "ok"

Actionable(seen, catalog) ==
  {f \in catalog : SafeFix(Observation(seen, f)) # "none"}

(* Mutant: the list is made from the one flavor at hand.                   *)
AddRunnerLabelAlone(labels, label) == {label}

(* Appended unless it is there; whatever else was listed stays.            *)
AddRunnerLabel(labels, label) == labels \union {label}

ExtraLabels(labels, catalog) == labels \ catalog

-----------------------------------------------------------------------------
(* The console's verdict: presence of a label and of a parameter.          *)
ReadinessOf(allowlisted, published) ==
  IF allowlisted THEN IF published THEN "ready" ELSE "imageMissing"
  ELSE IF published THEN "unclaimable" ELSE "unroutable"

StateRank(state) ==
  CASE state = "ready" -> 0 [] state = "imageMissing" -> 1
    [] state = "unclaimable" -> 2 [] state = "unroutable" -> 3

WorstState(states) ==
  IF states = {} THEN "ready"
  ELSE CHOOSE s \in states : \A t \in states : StateRank(t) <= StateRank(s)

(* A read that failed left {Unread}; the snapshot is evidence only if both *)
(* of its reads succeeded, so there is no verdict on any flavor else.      *)
FlavorReadiness(labels, published, catalog) ==
  [f \in IF Unread \in labels \union published THEN {} ELSE catalog |->
     ReadinessOf(f \in labels, f \in published)]

WorstReadiness(readiness) ==
  WorstState({readiness[f] : f \in DOMAIN readiness})

=============================================================================
