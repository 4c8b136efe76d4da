---------------------------- MODULE ImagePublish ----------------------------
(***************************************************************************)
(* Publishing runner images: scripts/build-images.mjs builds an image,     *)
(* publishes its ARN and only then claims its label;                       *)
(* scripts/flavors-reconcile.mjs compares the catalog with the live plane  *)
(* and, with --fix, runs the build script; the console's Settings screen   *)
(* replaces the same allowlist (src/mgmt/handler.ts).  The image service   *)
(* and the microVM fleet are external.  No two of these share a lock.      *)
(***************************************************************************)
EXTENDS PublishRules, Sequences

CONSTANTS
  Catalog,       (* the flavors, in the order of flavors.json              *)
  Foreign,       (* an allowlist entry no catalog flavor has               *)
  Builders,      (* invocations of the build script by an operator         *)
  Child,         (* the one flavors-reconcile runs                         *)
  None,          (* no list, no VM                                        *)
  Starts         (* bound: the planes a behaviour may start from, with how *)
                 (* many scripts, screens and launches, and how many calls *)
                 (* or builds that fail, it may meet                       *)

Flavors == {Catalog[i] : i \in DOMAIN Catalog}
Labels  == Flavors \union {Foreign}
Scripts == Builders \union {Child}

(* An image that was usable once: the service keeps its last good version. *)
WasBuilt(state) == state \in {"CREATED", "UPDATED", "UPDATING", "UPDATE_FAILED"}

ASSUME PublishAssumption ==
  /\ Catalog \in Seq(Flavors) /\ Catalog # << >> /\ Foreign \notin Flavors
  /\ Child \notin Builders /\ \A list \in SUBSET Labels : list # None
  /\ \A s \in Starts :
       /\ s.image \in [Flavors -> ImageStates \union {Absent}]
       /\ s.arn \subseteq {f \in Flavors : WasBuilt(s.image[f])}
       /\ s.labels = None \/ s.labels \subseteq Labels
       /\ s.requests \in Nat /\ s.mishaps \in Nat

VARIABLES
  image,    (* the service: the state of each flavor's image               *)
  arn,      (* the flavors whose image-arn parameter is published          *)
  labels,   (* the runner-labels parameter, None while there is none       *)
  vm,       (* a microVM of each flavor, and which scripts were past their *)
            (* fleet check when it was launched                            *)
  build,    (* the build script's invocations                              *)
  fixer,    (* the flavors-reconcile invocation                            *)
  screen,   (* an operator's Settings screen and the list it shows         *)
  past,     (* what the properties remember                                *)
  budget    (* what this behaviour may still meet                          *)

plane   == <<image, arn, labels>>
vars    == <<image, arn, labels, vm, build, fixer, screen, past, budget>>

Requested == budget.requests > 0 /\ budget' = [budget EXCEPT !.requests = @ - 1]
Mishap    == budget.mishaps > 0 /\ budget' = [budget EXCEPT !.mishaps = @ - 1]

(* A call that answers costs nothing; one that fails is a mishap.          *)
Answers == UNCHANGED budget

-----------------------------------------------------------------------------
(* The build script.                                                       *)
IdleBuild == [phase |-> "idle", todo |-> << >>, force |-> FALSE, skip |-> FALSE,
              only |-> FALSE, copy |-> None]

Cur(b)  == Head(build[b].todo)
Ended   == {"idle", "done", "failed"}

Goes(b, phase) == build' = [build EXCEPT ![b].phase = phase]
Fails(b)       == build' = [build EXCEPT ![b].phase = "failed"]

(* A thrown error ends the script; the flavors after it are not tried.     *)
Throws(b) == Fails(b) /\ UNCHANGED <<plane, past>>

NextFlavor(b) ==
  LET rest == Tail(build[b].todo) IN
  build' = [build EXCEPT ![b] = [@ EXCEPT !.todo = rest, !.copy = None,
                                          !.phase = IF rest = << >> THEN "done" ELSE "look"]]

Started(todo, force, skip, only) ==
  [phase |-> IF only THEN "published" ELSE "fleet", todo |-> todo, force |-> force,
   skip |-> skip, only |-> only, copy |-> None]

(* Label publishing is for one flavor and cannot skip its label.           *)
StartBuild(b) ==
  /\ build[b].phase = "idle" /\ Requested
  /\ \E todo \in {Catalog} \union {<<f>> : f \in Flavors}, force, skip, only \in BOOLEAN :
       /\ only => Len(todo) = 1 /\ ~skip /\ ~force
       /\ build' = [build EXCEPT ![b] = Started(todo, force, skip, only)]
  /\ UNCHANGED <<plane, vm, fixer, screen, past>>

LiveVms == {f \in Flavors : vm[f] # None /\ IsLiveMicroVmState(vm[f].state)}

(* Once, before the first flavor.                                          *)
AssertQuiescentFleet(b) ==
  /\ build[b].phase = "fleet"
  /\ \/ /\ LiveVms = {} \/ build[b].force
        /\ Goes(b, "look") /\ Answers /\ UNCHANGED <<plane, past>>
     \/ /\ LiveVms # {} /\ ~build[b].force
        /\ Throws(b) /\ Answers
     \/ Mishap /\ Throws(b)
  /\ UNCHANGED <<vm, fixer, screen>>

(* imageExists: create or update; what cannot be read is not absent.       *)
ImageExists(b) ==
  /\ build[b].phase = "look"
  /\ \/ /\ Goes(b, IF image[Cur(b)] = Absent THEN "create" ELSE "update")
        /\ Answers /\ UNCHANGED <<plane, past>>
     \/ Mishap /\ Throws(b)
  /\ UNCHANGED <<vm, fixer, screen>>

(* The service takes a create for a new name only, and one build at a time.*)
Accepts(b) ==
  \/ build[b].phase = "create" /\ image[Cur(b)] = Absent
  \/ /\ build[b].phase = "update"
     /\ image[Cur(b)] \notin PendingImageStates \union {Absent}

TriggerBuild(b) ==
  /\ build[b].phase \in {"create", "update"}
  /\ \/ /\ Accepts(b)
        /\ image' = [image EXCEPT ![Cur(b)] =
             IF build[b].phase = "create" THEN "CREATING" ELSE "UPDATING"]
        /\ Goes(b, "poll") /\ Answers /\ UNCHANGED <<arn, labels, past>>
     \/ ~Accepts(b) /\ Throws(b) /\ Answers
     \/ Mishap /\ Throws(b)
  /\ UNCHANGED <<vm, fixer, screen>>

(* Mutant: the build is as good as done once it has been accepted.         *)
BuiltOnceTriggered(state) == state \in UsableImageStates \union PendingImageStates

Built(state) == state \in UsableImageStates

(* pollUntilCreated; then old versions are pruned, whatever comes of it.   *)
PollUntilCreated(b) ==
  /\ build[b].phase = "poll"
  /\ \/ Built(image[Cur(b)]) /\ Goes(b, "publish") /\ Answers /\ UNCHANGED <<plane, past>>
     \/ image[Cur(b)] \in FailedImageStates /\ Throws(b) /\ Answers
     \/ Mishap /\ Throws(b)          \* the read fails, or twenty minutes are up
  /\ UNCHANGED <<vm, fixer, screen>>

PublishArn(b) ==
  /\ build[b].phase = "publish"
  /\ \/ /\ arn' = arn \union {Cur(b)} /\ Answers
        /\ IF build[b].skip THEN NextFlavor(b) ELSE Goes(b, "probe")
        /\ UNCHANGED <<image, labels, past>>
     \/ Mishap /\ Throws(b)
  /\ UNCHANGED <<vm, fixer, screen>>

(* --publish-label-only: the ARN must be there; unreadable is not absent.  *)
ReadPublished(b) ==
  /\ build[b].phase = "published"
  /\ \/ Cur(b) \in arn /\ Goes(b, "probe") /\ Answers /\ UNCHANGED <<plane, past>>
     \/ Cur(b) \notin arn /\ Throws(b) /\ Answers
     \/ Mishap /\ Throws(b)
  /\ UNCHANGED <<vm, fixer, screen>>

(* ensureLabel, first half: the image is looked at once more.              *)
ProbeImage(b) ==
  /\ build[b].phase = "probe"
  /\ \/ MayClaimLabel(TRUE, image[Cur(b)]) /\ Goes(b, "list") /\ Answers
                                           /\ UNCHANGED <<plane, past>>
     \/ ~MayClaimLabel(TRUE, image[Cur(b)]) /\ Throws(b) /\ Answers
     \/ Mishap /\ Throws(b)          \* Unread
  /\ UNCHANGED <<vm, fixer, screen>>

(* Second half: the list is read; an absent one is not created, and that   *)
(* counts as success.                                                      *)
ReadLabels(b) ==
  /\ build[b].phase = "list"
  /\ \/ /\ IF labels = None \/ (labels # None /\ Cur(b) \in labels)
           THEN NextFlavor(b)
           ELSE build' = [build EXCEPT ![b] = [@ EXCEPT !.phase = "write", !.copy = labels]]
        /\ Answers /\ UNCHANGED <<plane, past>>
     \/ Mishap /\ Throws(b)
  /\ UNCHANGED <<vm, fixer, screen>>

(* Whoever replaces the list does so from what it read of it.              *)
Replaces(read, list, byHand) ==
  /\ labels' = list
  /\ past' = [owed |-> IF byHand THEN list ELSE past.owed \union (list \ read),
              byHand |-> IF byHand THEN past.byHand \union list ELSE past.byHand,
              built |-> past.built,
              raced |-> past.raced \/ read # labels,
              put |-> past.put \/ byHand]

WriteLabels(b) ==
  /\ build[b].phase = "write"
  /\ \/ /\ Replaces(build[b].copy, AddRunnerLabel(build[b].copy, Cur(b)), FALSE)
        /\ NextFlavor(b) /\ Answers /\ UNCHANGED <<image, arn>>
     \/ Mishap /\ Throws(b)
  /\ UNCHANGED <<vm, fixer, screen>>

BuildStep(b) ==
  \/ AssertQuiescentFleet(b) \/ ImageExists(b) \/ TriggerBuild(b) \/ PollUntilCreated(b)
  \/ PublishArn(b) \/ ReadPublished(b) \/ ProbeImage(b) \/ ReadLabels(b) \/ WriteLabels(b)

-----------------------------------------------------------------------------
(* flavors-reconcile.                                                      *)
IdleFixer == [phase |-> "idle", fix |-> FALSE, checks |-> TRUE, again |-> FALSE,
              seen |-> << >>, left |-> {}, unread |-> FALSE, todo |-> {},
              exit |-> None]

FixerGoes(next) == fixer' = next /\ UNCHANGED <<image, arn, labels, past>>

Exits(code) ==
  FixerGoes([fixer EXCEPT !.phase = "done", !.exit = code, !.left = {}, !.todo = {}])

(* The flavors of a set are taken in the catalog's order.                  *)
IsFirst(f, set) ==
  \E i \in DOMAIN Catalog :
    Catalog[i] = f /\ f \in set /\ \A j \in 1 .. (i - 1) : Catalog[j] \notin set

StartReconcile ==
  /\ fixer.phase = "idle" /\ Requested
  /\ \E fix, checks \in BOOLEAN :
       FixerGoes([IdleFixer EXCEPT !.phase = "labels", !.fix = fix, !.checks = checks])
  /\ UNCHANGED <<vm, build, screen>>

(* observe: the list, then all ARNs, then each image that has one.         *)
ObserveLabels ==
  /\ fixer.phase = "labels"
  /\ \/ /\ FixerGoes([fixer EXCEPT !.phase = "arns",
             !.seen = [f \in Flavors |->
               [arn |-> FALSE, state |-> Absent,
                claimed |-> IF labels # None /\ f \in labels THEN "yes" ELSE "no"]]])
        /\ Answers
     \/ Mishap /\ Exits(2)
  /\ UNCHANGED <<vm, build, screen>>

WithArns(seen) ==
  [f \in Flavors |->
     [seen[f] EXCEPT !.arn = f \in arn, !.state = IF fixer.checks THEN Absent ELSE Unread]]

ObserveArns ==
  /\ fixer.phase = "arns"
  /\ \/ /\ FixerGoes([fixer EXCEPT !.phase = "images", !.seen = WithArns(@),
             !.left = IF fixer.checks THEN arn ELSE {}])
        /\ Answers
     \/ Mishap /\ Exits(2)
  /\ UNCHANGED <<vm, build, screen>>

Probed(f, state) == [fixer.seen EXCEPT ![f].state = state]

(* A probe that fails leaves the image unread and spoils the report.       *)
ObserveImage ==
  /\ fixer.phase = "images"
  /\ \E f \in fixer.left :
       /\ IsFirst(f, fixer.left)
       /\ \/ /\ FixerGoes([fixer EXCEPT !.left = @ \ {f}, !.seen = Probed(f, image[f])])
             /\ Answers
          \/ /\ Mishap
             /\ FixerGoes([fixer EXCEPT !.left = @ \ {f}, !.seen = Probed(f, Unread),
                                        !.unread = TRUE])
  /\ UNCHANGED <<vm, build, screen>>

DriftCode == IF Drift(fixer.seen, Flavors) THEN 1 ELSE 0

Fixes == Actionable(fixer.seen, Flavors)

(* Without --fix the report is all; with it, only a full report is acted   *)
(* on, and the second report decides the exit code.                        *)
Decide ==
  /\ fixer.phase = "images" /\ fixer.left = {}
  /\ IF fixer.unread THEN Exits(2)
     ELSE IF ~fixer.fix \/ fixer.again THEN Exits(DriftCode)
     ELSE IF ~fixer.checks THEN Exits(2)
     ELSE IF Fixes = {} THEN Exits(DriftCode)
     ELSE FixerGoes([fixer EXCEPT !.phase = "fleet", !.todo = Fixes])
  /\ Answers /\ UNCHANGED <<vm, build, screen>>

FixerFleet ==
  /\ fixer.phase = "fleet"
  /\ \/ /\ LiveVms = {} /\ Answers
        /\ FixerGoes([fixer EXCEPT !.phase = "run"])
     \/ LiveVms # {} /\ Answers /\ Exits(2)
     \/ Mishap /\ Exits(2)
  /\ UNCHANGED <<vm, build, screen>>

(* Mutant: a fix that ran is a fix that worked.                            *)
AllRunTrusting == Exits(0)

(* The plane is read again: no child's exit code says that it agrees.      *)
AllRun == FixerGoes([fixer EXCEPT !.phase = "labels", !.again = TRUE])

RunFix ==
  /\ fixer.phase = "run"
  /\ \/ fixer.todo = {} /\ AllRun /\ UNCHANGED build
     \/ \E f \in fixer.todo :
          /\ IsFirst(f, fixer.todo)
          /\ build' = [build EXCEPT ![Child] =
               Started(<<f>>, FALSE, FALSE, SafeFix(fixer.seen[f]) = "add-label")]
          /\ FixerGoes([fixer EXCEPT !.phase = "wait", !.todo = @ \ {f}])
  /\ Answers /\ UNCHANGED <<vm, screen>>

FixEnds ==
  /\ fixer.phase = "wait" /\ build[Child].phase \in {"done", "failed"}
  /\ IF build[Child].phase = "done" THEN FixerGoes([fixer EXCEPT !.phase = "run"])
                                    ELSE Exits(2)
  /\ Answers /\ UNCHANGED <<vm, build, screen>>

FixerStep ==
  \/ StartReconcile \/ ObserveLabels \/ ObserveArns \/ ObserveImage \/ Decide \/ FixerFleet
  \/ RunFix \/ FixEnds

-----------------------------------------------------------------------------
(* The console: the list is shown, and later replaced by what the operator *)
(* made of it.  An empty list is refused.                                  *)
ShutScreen == [open |-> FALSE, list |-> None]

ShowLabels ==
  /\ ~screen.open /\ Requested
  /\ screen' = [open |-> TRUE, list |-> labels]
  /\ UNCHANGED <<plane, vm, build, fixer, past>>

(* One label more or less than what is shown.                              *)
Edited(l) ==
  LET shown == IF screen.list = None THEN {} ELSE screen.list
  IN  IF l \in shown THEN shown \ {l} ELSE shown \union {l}

PutRunnerLabels ==
  /\ screen.open
  /\ \E l \in Labels : Edited(l) # {} /\ Replaces(screen.list, Edited(l), TRUE)
  /\ screen' = ShutScreen
  /\ UNCHANGED <<image, arn, vm, build, fixer, budget>>

(* External: the image service ends a build, one way or the other.         *)
ImageEnds(f) ==
  /\ image[f] \in {"CREATING", "UPDATING"}
  /\ \/ /\ Answers
        /\ image' = [image EXCEPT ![f] = IF @ = "CREATING" THEN "CREATED" ELSE "UPDATED"]
        /\ past' = [past EXCEPT !.built = @ \union {f}]
     \/ /\ Mishap /\ UNCHANGED past
        /\ image' = [image EXCEPT ![f] =
             IF @ = "CREATING" THEN "CREATE_FAILED" ELSE "UPDATE_FAILED"]
  /\ UNCHANGED <<arn, labels, vm, build, fixer, screen>>

(* The scripts that are past their check and not yet at an end.            *)
PastFleet == {b \in Scripts : build[b].phase \notin Ended \union {"fleet"}}

(* External: Provision launches from the published ARN; a failed update    *)
(* leaves the version before it.                                           *)
Launch(f) ==
  /\ vm[f] = None /\ f \in arn /\ Requested
  /\ vm' = [vm EXCEPT ![f] = [state |-> "PENDING", after |-> PastFleet]]
  /\ UNCHANGED <<plane, build, fixer, screen, past>>

VmMoves(f) ==
  /\ vm[f] # None
  /\ vm' = [vm EXCEPT ![f] =
       CASE @.state = "PENDING" -> [@ EXCEPT !.state = "RUNNING"]
         [] @.state = "RUNNING" -> [@ EXCEPT !.state = "TERMINATING"]
         [] OTHER -> None]
  /\ UNCHANGED <<plane, build, fixer, screen, past, budget>>

-----------------------------------------------------------------------------
Init ==
  /\ \E s \in Starts :
       /\ image = s.image /\ arn = s.arn /\ labels = s.labels
       /\ budget = [requests |-> s.requests, mishaps |-> s.mishaps]
  /\ vm = [f \in Flavors |-> None]
  /\ build = [b \in Scripts |-> IdleBuild]
  /\ fixer = IdleFixer
  /\ screen = ShutScreen
  /\ past = LET seed == IF labels = None THEN {} ELSE labels IN
            [owed |-> seed, byHand |-> seed, built |-> {f \in Flavors : WasBuilt(image[f])},
             raced |-> FALSE, put |-> FALSE]

Next ==
  \/ \E b \in Builders : StartBuild(b)
  \/ \E b \in Scripts : BuildStep(b)
  \/ FixerStep
  \/ ShowLabels \/ PutRunnerLabels
  \/ \E f \in Flavors : ImageEnds(f) \/ Launch(f) \/ VmMoves(f)

Spec == Init /\ [][Next]_vars

-----------------------------------------------------------------------------
BuildPhases == Ended \union {"fleet", "look", "create", "update", "poll", "publish",
                             "published", "probe", "list", "write"}

Copies == {None} \union SUBSET Labels

Builds ==
  [phase : BuildPhases, todo : Seq(Flavors), force : BOOLEAN, skip : BOOLEAN,
   only : BOOLEAN, copy : Copies]

BuildTyped(b) ==
  /\ build[b] \in Builds
  /\ build[b].phase \notin Ended => build[b].todo # << >>
  /\ build[b].phase = "write" => build[b].copy # None

TypeOK ==
  /\ image \in [Flavors -> ImageStates \union {Absent}]
  /\ arn \subseteq Flavors
  /\ labels \in Copies
  /\ vm \in [Flavors -> {None} \union [state : MicroVmStates \ {"TERMINATED"},
                                      after : SUBSET Scripts]]
  /\ DOMAIN build = Scripts /\ \A b \in Scripts : BuildTyped(b)
  /\ screen \in [open : BOOLEAN, list : Copies]
  /\ DOMAIN fixer = DOMAIN IdleFixer
  /\ fixer.todo \subseteq Flavors /\ fixer.left \subseteq Flavors
  /\ past \in [owed : SUBSET Labels, byHand : SUBSET Labels, built : SUBSET Flavors,
               raced : BOOLEAN, put : BOOLEAN]

(* No ARN is published, and no label claimed by a script, for an image     *)
(* that was never usable: a job claimed by such a label would die in       *)
(* provisioning (ADR-049).                                                 *)
ClaimFollowsImage ==
  \A f \in Flavors :
    /\ f \in arn => f \in past.built
    /\ labels # None /\ f \in labels \ past.byHand => f \in arn

(* A label somebody added stays until somebody takes it off the list,      *)
(* unless two writers of the whole list overlapped (addRunnerLabel).       *)
ClaimsSurvive ==
  ~past.raced => past.owed = (IF labels = None THEN {} ELSE labels)

(* While a build that was not forced may replace images, every VM that     *)
(* lives was launched after its fleet check (assertQuiescentFleet).        *)
OldVmsAreGone ==
  \A b \in Scripts, f \in Flavors :
    build[b].phase \notin Ended \union {"fleet"} /\ ~build[b].force /\ ~build[b].only
      /\ vm[f] # None => b \in vm[f].after

Runnable(f) ==
  labels # None /\ f \in labels /\ f \in arn /\ image[f] \in UsableImageStates

(* No one else at work: no builder, no console, no build begun before.     *)
Alone ==
  /\ ~past.put /\ \A b \in Builders : build[b].phase = "idle"
  /\ \A s \in Starts, f \in Flavors : s.image[f] \notin {"CREATING", "UPDATING"}

(* With no one else at work, flavors-reconcile ends with 0 only if every   *)
(* flavor can run a job, and with 1 only if one cannot.                    *)
ExitIsTrue ==
  fixer.phase = "done" /\ fixer.checks /\ Alone =>
    /\ fixer.exit = 0 => \A f \in Flavors : Runnable(f)
    /\ fixer.exit = 1 => \E f \in Flavors : ~Runnable(f)

-----------------------------------------------------------------------------
(* The inductive invariant behind ExitIsTrue: alone, the fixer's own child *)
(* is the only one that changes the plane, and only while it is waited for.*)
ChildRests == build[Child].phase \in {"idle", "done"}

OneAtWork ==
  /\ fixer.phase # "wait" => ChildRests \/ (fixer.phase = "done" /\ fixer.exit = 2)
  /\ \A f \in Flavors :
       image[f] \in {"CREATING", "UPDATING"} =>
         \/ build[Child].phase = "failed"
         \/ build[Child].phase = "poll" /\ f = Cur(Child)

(* So what the fixer has read is still so when it decides.                 *)
SeenIsTrue ==
  fixer.phase \in {"arns", "images"} =>
    /\ DOMAIN fixer.seen = Flavors
    /\ fixer.phase = "images" => fixer.left \subseteq arn
    /\ \A f \in Flavors :
         /\ DOMAIN fixer.seen[f] = {"arn", "state", "claimed"}
         /\ fixer.seen[f].claimed = IF labels # None /\ f \in labels THEN "yes" ELSE "no"
         /\ fixer.phase = "images" =>
              /\ fixer.seen[f].arn = (f \in arn)
              /\ fixer.checks /\ ~fixer.unread /\ f \notin fixer.left =>
                   fixer.seen[f].state = IF f \in arn THEN image[f] ELSE Absent

ExitInv == Alone => OneAtWork /\ SeenIsTrue /\ ExitIsTrue

=============================================================================
