---------------------------- MODULE ControlPlane ----------------------------
(***************************************************************************)
(* The control plane of one repository: the console, the webhook handler,  *)
(* Discovery, the rewrite worker and Provision's routing, composed over    *)
(* the table and the GitHub repository they share.  A behaviour starts in  *)
(* one of the scenarios and meets at most that scenario's requests and     *)
(* mishaps, in any order; what it meets beside them is unbounded.          *)
(***************************************************************************)
EXTENDS RewritePr, FlavorStore, WebhookDoor

Starts(s) ==
  /\ scope = [may |-> s.may, total |-> s.total, used |-> 0]
  /\ repo = s.row
  /\ flavor = s.flavors
  /\ tree = s.tree
  /\ analysis = [p \in Paths |->                  \* scanned since its grant
       IF s.row = None \/ s.tree[p] = None THEN Unscanned
       ELSE Analyze(s.tree[p], s.row, RoutableCustomFlavors)]

Init ==
  /\ \E s \in Scenarios : Starts(s)
  /\ install = [suspended |-> FALSE, deleted |-> FALSE]
  /\ allow = [live |-> BuiltinLabels, cached |-> BuiltinLabels]
  /\ secret = SettledSecret
  /\ branch = NoBranch
  /\ pr = "none"
  /\ console = [c \in Consoles |-> IdleConsole]
  /\ checks = {}
  /\ scanQ = [n \in 0 .. MaxReceive |-> 0]
  /\ scan = [s \in Scans |-> IdleScan]
  /\ rewriteQ = [n \in 0 .. MaxReceive |-> 0]
  /\ rewriter = IdleRewriter
  /\ job = [r \in Runs |-> NoJob]
  /\ refusal = [r \in Runs |-> None]

Next == RegistryNext \/ ConfigNext \/ DiscoveryNext \/ ClaimNext \/ RoutingNext
          \/ RewriteNext \/ DoorNext

(* A worker goes on with what it has begun, and receives what waits.       *)
Working ==
  \/ \E s \in Scans :
       \/ \E receives \in 0 .. MaxReceive - 1 : ScanBegin(s, receives)
       \/ \E p \in Paths : ScanFile(s, p)
       \/ ScanPut(s)
       \/ ScanEmpty(s)
  \/ \E receives \in 0 .. MaxReceive - 1 : RewriteBegin(receives)
  \/ RewriteProbe \/ RewritePlanned \/ EnsureBranch \/ PutsDone
  \/ FindOpenPullRequest \/ CreatePullRequest
  \/ \E t \in rewriter.todo : RewriteRead(t)
  \/ \E plan \in rewriter.plans : PutFile(plan)
  \/ \E r \in Runs : IngestConfig(r) \/ IngestClaim(r) \/ IngestGate(r)
  \/ RoutingNext

Spec == Init /\ [][Next]_vars

(* What the queues and the Lambda runtime guarantee: while something waits *)
(* or is under way, some step of it is taken.  Nothing is assumed of the   *)
(* operators, of GitHub, of mishaps or of the validation worker.           *)
FairSpec == Spec /\ WF_vars(Working)

-----------------------------------------------------------------------------
Rows == [enabled : BOOLEAN, mode : ModesSet,
         map : {NoMap} \union FlavorMaps \union
                 {s.row.map : s \in {s \in Scenarios : s.row # None}},
         dflt : {NoFlavor} \union FlavorNames, rewrite : BOOLEAN]

QueueType == [0 .. MaxReceive -> Nat]

FlavorType == [state : ValidationStates, image : Images,
               caps : SUBSET {"docker"}, evidence : Images \union {None},
               reason : BOOLEAN]

(* Where a behaviour may start: rows of the right shape, a registry within *)
(* its quota, no flavor valid but by a validation of its own image.        *)
ASSUME ScenarioAssumption ==
  \A s \in Scenarios :
    /\ s.row \in Rows \union {None}
    /\ DOMAIN s.tree = Paths
    /\ s.flavors \in [CustomNames -> FlavorType \union {None}]
    /\ Cardinality({n \in CustomNames : s.flavors[n] # None}) <= MaxFlavors
    /\ \A n \in CustomNames :
         s.flavors[n] # None /\ s.flavors[n].state = "valid" =>
           /\ s.flavors[n].image \in GoodImages
           /\ s.flavors[n].evidence = s.flavors[n].image

IsSequence(labels) == labels \in Seq(LabelSet(labels))

(* A job's text has its labels and its runner group, "" where it names     *)
(* none.                                                                   *)
Texts == (Jobs \union {s.tree[p] : s \in Scenarios, p \in Paths}) \ {None}

ASSUME TextAssumption ==
  \A text \in Texts :
    /\ {"labels", "group", "shape"} \subseteq DOMAIN text
    /\ IsSequence(text.labels) /\ text.group # None /\ text.shape \in Shapes

(* `None` and `Fault` are told apart from everything they stand in for.    *)
ASSUME AbsenceAssumption ==
  /\ None \notin CustomNames /\ None \notin Images /\ BuiltinImage \notin Images
  /\ NoFlavor \notin CustomLabels /\ NoFlavor \notin CustomNames
  /\ None \notin FlavorType /\ None \notin Rows /\ Fault \notin Rows

ASSUME FaultAssumption ==
  \A read \in SUBSET {CatalogEntry(n, caps) :
                       n \in CustomNames, caps \in SUBSET {"docker"}} :
    read # Fault

(* Of several flavors one has the most specific label, and a custom label  *)
(* is more specific than any built-in one.                                 *)
Labelled ==
  {[name |-> f.name, label |-> f.label] : f \in BuiltinFlavors} \union
    {[name |-> n, label |-> LabelOfName(n)] : n \in CustomNames}

ASSUME SpecificityAssumption ==
  /\ \A S \in (SUBSET Labelled) \ {{}} :
       \E f \in S : \A g \in S \ {f} : MoreSpecific(f, g)
  /\ \A c \in CustomLabels, b \in BuiltinLabels :
       Len(c) \in Nat /\ Len(b) \in Nat /\ Len(c) > Len(b)

IngestType == [phase : {"idle", "config", "claim", "gate"},
               allowed : SUBSET (BuiltinLabels \union UNION Allowlists),
               mode : ModesSet, via : {NotClaimed, "label", "adopt"}]

(* Every row, message and worker keeps its shape; receives and the queues  *)
(* stay within the limit that sends a message to its DLQ.                  *)
TypeOK ==
  /\ repo \in Rows \union {None}
  /\ install \in [suspended : BOOLEAN, deleted : BOOLEAN] \union {None}
  /\ \A n \in CustomNames : flavor[n] \in FlavorType \union {None}
  /\ pr \in {"none", "open", "merged", "closed"}
  /\ scanQ \in QueueType /\ rewriteQ \in QueueType
  /\ rewriter.receives \in 0 .. MaxReceive
  /\ \A s \in Scans :
       /\ scan[s].phase \in {"idle", "files", "put"}
       /\ scan[s].receives \in 0 .. MaxReceive
  /\ \A r \in Runs :
       /\ job[r].stage \in {"none", "claimed", "looked up", "resolved",
                            "launched", "failed", "dlq"}
       /\ job[r].receives \in 0 .. MaxReceive
       /\ job[r].ingest \in IngestType
       /\ job[r].image \in Images \union {BuiltinImage, None}
       /\ refusal[r] # None => refusal[r].code \in RefusalCodes
  /\ secret.cached \in 0 .. secret.live /\ secret.answer \in
       {"none", "accepted", "refused", "failed"}
  /\ scope.may \subseteq Requests /\ scope.used \in 0 .. scope.total

-----------------------------------------------------------------------------
(* The registry.  A flavor is valid only for an image whose own smoke run  *)
(* passed, however registrations, re-validations, new images, deletions    *)
(* and abandoned validations interleave (flavor-store.ts,                  *)
(* transitionFlavorValidation and repointFlavorImage), as long as one      *)
(* validation of a flavor is over before the next is asked for.            *)
ValidIsProven ==
  ~Overlap => \A n \in Registered :
    flavor[n].state = "valid" => /\ flavor[n].image \in GoodImages
                                 /\ flavor[n].evidence = flavor[n].image

(* The quota is read before the row is put, so overlapping registrations   *)
(* may pass it, but by no more than one for each other call in flight      *)
(* (registerCustomFlavor).                                                 *)
RegistryBounded ==
  Cardinality(Registered) <= MaxFlavors + Cardinality(Consoles) - 1

-----------------------------------------------------------------------------
(* Claiming.  A failed read never lets a repository that did not adopt     *)
(* give up a job that asks for a GitHub-hosted runner (decideClaim).       *)
AdoptNeedsOptIn ==
  \A r \in Runs :
    job[r].via = "adopt" =>
      \/ repo # None /\ repo.mode = "adopt"
      \/ "patch" \in scope.may                  \* it may have been withdrawn

(* A stored refusal says what refused the job the last time: the detail of *)
(* an earlier one does not survive (buildRefusalUpsert), and while nothing *)
(* on the default branch changes, a group is the job's own, never that of  *)
(* a namesake in another file (matchJobAnalysis): unless two files answer  *)
(* to the webhook's names, which names no workflow or one whose `name:`    *)
(* they share, and a first scan may have stored the namesake's file alone. *)
MayBeOf(r, p) ==
  /\ tree[p] # None /\ tree[p].shape # "broken"
  /\ WorkflowNameMatches(p, tree[p].name, job[r].workflow)
  /\ JobNameMatches(JobName[p], Legs[p], job[r].name)

Distinct(r) == \A p, q \in Paths : MayBeOf(r, p) /\ MayBeOf(r, q) => p = q

RefusalsAreTrue ==
  \A r \in Runs :
    LET row == refusal[r] IN
    row # None =>
      /\ row.group # None <=> row.code = "runner-group"
      /\ /\ row.group # None /\ scope.may \intersect {"push", "merge"} = {}
         /\ Distinct(r) \/ "install" \notin scope.may
         => row.group = job[r].text.group

(* While GitHub and the parameter agree, GitHub's delivery is refused only *)
(* within the cache's time to live after a rotation, whatever strangers    *)
(* send; and after a single one, with no stranger and no fault, never      *)
(* (ingest/handler.ts, WEBHOOK_SECRET_TTL_MS and verifyWithRotation).      *)
RefusedOnlyInRotation ==
  secret.answer = "refused" =>
    /\ secret.age < SecretTtl
    /\ secret.live > 1 \/ scope.may \intersect {"junk", "fault"} # {}

-----------------------------------------------------------------------------
(* Routing.  A custom image that is launched has passed its validation,    *)
(* even if its row is repointed between resolution and launch              *)
(* (provision/handler.ts, launchableCustomImageArn).                       *)
LaunchedIsProven ==
  ~Overlap => \A r \in Runs :
    job[r].stage = "launched" => job[r].image \in GoodImages \union {BuiltinImage}

NamesCustom(labels) == \E l \in labels : IsCustomFlavorLabel(l)

(* A job that names a custom flavor never runs on a built-in image without *)
(* a word from the operator: a FlavorMap entry for one of its labels, or   *)
(* the upgrade its own docker step asks for (resolveFlavor's refusal).     *)
NoSilentBuiltin ==
  \A r \in Runs :
    /\ job[r].stage = "launched" /\ job[r].image = BuiltinImage
    /\ NamesCustom(LabelsOf(r))
    => \/ LabelsOf(r) \intersect DOMAIN job[r].opts.map # {}
       \/ job[r].opts.docker

(* A job is failed for good only by a verdict: its labels cannot be minted *)
(* or the registry, as it stands at that moment, lacks the flavor that the *)
(* job's labels and its repository's own row ask for; the failed read of   *)
(* the registry decides nothing (customReadDegraded).  One failed read may *)
(* decide, that of the repository's row: it is taken for no row, and the   *)
(* job is failed for want of the FlavorMap entry that row holds.  (A lost  *)
(* docker signal changes the options too, but leaves nothing unresolved.)  *)
Unresolved(r, opts) ==
  ResolveFlavor(job[r].text.labels, WithCustom(opts, RoutableCustomFlavors)).unresolved
    # NoFlavor

LookedUpBlind(r) == "fault" \in scope.may /\ job[r].opts # job[r].told

FailsOnlyOnVerdict ==
  [][\A r \in Runs :
       job'[r].stage = "failed" /\ job[r].stage # "failed" =>
         \/ MintRefusal(LabelsOf(r)) # "mint"
         \/ Unresolved(r, job[r].told)
         \/ LookedUpBlind(r) /\ Unresolved(r, job[r].opts)]_vars

-----------------------------------------------------------------------------
(* Discovery.  Once every requested scan is over, the stored analysis of a *)
(* file is that of its current text under the repository's current mode,   *)
(* as long as scans do not overlap and none is lost (mgmt enqueueRescan,   *)
(* ingest enqueueDiscovery).  Map and registry changes ask for no scan.    *)
Unsettling == {"map", "register", "revalidate", "repoint", "delete", "overlap",
               "lost", "fault", "github"}

NoneWaits == \A n \in 0 .. MaxReceive : scanQ[n] = 0

ScansDone == NoneWaits /\ \A s \in Scans : scan[s].phase = "idle"

RoutesCurrent ==
  ScansDone /\ repo # None /\ scope.may \intersect Unsettling = {} =>
    \A p \in Paths :
      tree[p] # None => analysis[p] = Analyze(tree[p], repo, RoutableCustomFlavors)

-----------------------------------------------------------------------------
(* The rewrite.  The commit of a path, as a step sees it.                  *)
Commits(p) == /\ branch # NoBranch /\ branch' # NoBranch
              /\ branch.files[p] # branch'.files[p]
              /\ rewriter' # rewriter

(* A commit replaces exactly the text it was planned from: whatever was    *)
(* edited or pushed in between, no one's change is lost (putFileOnBranch). *)
NoClobber ==
  [][\A p \in Paths :
       Commits(p) =>
         /\ branch.files[p] # None
         /\ \E lca \in BuiltinLabels :
              branch'.files[p] = [branch.files[p] EXCEPT
                !.labels = RewriteRunsOnValue(@, lca)]]_vars

(* A job that is committed is one Ingest will claim by its label, whatever *)
(* the repository's mode, and Provision will mint, and that the next       *)
(* rewrite leaves alone (rewriteRunsOnValue), unless the job has as many   *)
(* labels already as a runner may carry: it gets one more.                 *)
CommitIsClaimable ==
  [][\A p \in Paths :
       Commits(p) /\ Cardinality(LabelSet(branch.files[p].labels)) < MaxJitLabels =>
         LET labels == LabelSet(branch'.files[p].labels) IN
         /\ \A mode \in ModesSet : DecideClaim(labels, BuiltinLabels, mode) = "label"
         /\ MintRefusal(labels) = "mint"
         /\ labels \intersect AdoptLabels = {}
         /\ AlreadyTargetsLca(labels)]_vars

(* A job that the repository's FlavorMap sends to a custom flavor is never *)
(* rewritten, whatever the registry says of the flavor: the label that the *)
(* entry is keyed on would go (customRouteSkip).  It needs a stored route  *)
(* of the job's labels and of the map, and no docker upgrade to hide it.   *)
Remapping == {"map", "fault", "push", "merge", "edit"}

MappedToCustom(text, map) ==
  LET mapped == LabelSet(text.labels) \intersect DOMAIN map
  IN  /\ mapped # {} /\ \A l \in mapped : IsCustomFlavorName(map[l])
      /\ ~text.docker

KeepsMappedLabel ==
  [][\A p \in Paths :
       Commits(p) /\ scope.may \intersect Remapping = {} =>
         ~MappedToCustom(branch.files[p], Seen(repo).map)]_vars

(* Work that was committed is not left without a pull request: a request   *)
(* is waiting, or failed for all to see, unless the opt-in was withdrawn   *)
(* meanwhile or somebody else edited the branch (rewrite/handler.ts, the   *)
(* branch that already carries the rewrite).                               *)
NoStrandedRewrite ==
  branch # NoBranch /\ branch.ahead /\ pr = "none" =>
    \/ rewriter.phase # "idle"
    \/ \E n \in 0 .. MaxReceive : rewriteQ[n] > 0
    \/ scope.may \intersect {"patch", "edit"} # {}

(* A rewrite is dead-lettered only if each of its receives met a cause of  *)
(* its own, a mishap or someone's change: no request defeats itself again  *)
(* and again (rewrite/handler.ts: vanished files, existing branches).      *)
DlqNeedsCauses == rewriteQ[MaxReceive] > 0 => scope.used >= 1 + MaxReceive

(* Every request ends: each scan and each rewrite is done or in its DLQ,   *)
(* each webhook is answered, each claimed job launched, failed or in the   *)
(* DLQ, whatever conflicts, faults and retries there were (queues and      *)
(* receive limits of control-stack.ts).                                    *)
AllDone ==
  /\ rewriter.phase = "idle"
  /\ \A s \in Scans : scan[s].phase = "idle"
  /\ \A n \in 0 .. MaxReceive - 1 : scanQ[n] = 0 /\ rewriteQ[n] = 0
  /\ \A r \in Runs : /\ job[r].ingest.phase = "idle"
                     /\ job[r].stage \in {"none", "launched", "failed", "dlq"}

WorkEnds == <>[]AllDone

-----------------------------------------------------------------------------
(* The inductive invariant behind the theorems of ControlProofs, by part.  *)
ConsoleType == [op : {"idle", "register", "revalidate"}, name : CustomNames \union {None},
                image : Images \union {None}, seen : FlavorType \union {None}]

CheckType == [name : CustomNames, image : Images \union {None},
              phase : {"asked", "running"}]

RegistryTypes ==
  /\ flavor \in [CustomNames -> FlavorType \union {None}]
  /\ console \in [Consoles -> ConsoleType]
  /\ checks \subseteq CheckType
  /\ \A c \in Consoles :
       /\ console[c].op = "idle" => console[c].name = None
       /\ console[c].op # "idle" => console[c].name # None
       /\ console[c].op = "register" => console[c].image # None
       /\ console[c].op = "revalidate" => console[c].seen # None

(* Each registration in flight may still add one to the count.             *)
Registering == {c \in Consoles : console[c].op = "register"}

QuotaHeld ==
  Cardinality(Registered) + Cardinality(Registering)
    <= MaxFlavors + Cardinality(Consoles) - 1

(* One change of a flavor at a time, and a validation that runs is of the  *)
(* image its row names.                                                    *)
OneChange ==
  /\ \A k, l \in checks : k.name = l.name => k = l
  /\ \A k \in checks, c \in Consoles : console[c].name # k.name
  /\ \A c, d \in Consoles :
       console[c].name = console[d].name => c = d \/ console[c].name = None

ChecksOfRow ==
  \A k \in checks : k.phase = "running" =>
    /\ flavor[k.name] # None
    /\ flavor[k.name].state = "validating"
    /\ flavor[k.name].image = k.image

RegistryInv ==
  RegistryTypes /\ QuotaHeld /\ (~Overlap => OneChange /\ ChecksOfRow /\ ValidIsProven)

(* A cached secret that is stale has less time to live than the rotation   *)
(* has left to be excused.                                                 *)
SecretInv ==
  /\ secret \in [live : Nat, cached : Nat, ttl : 0 .. SecretTtl, age : 0 .. SecretTtl,
                 recheck : 0 .. RecheckWindow,
                 answer : {"none", "accepted", "refused", "failed"}]
  /\ secret.cached <= secret.live
  /\ secret.cached # secret.live /\ secret.ttl > 0 =>
       secret.ttl + secret.age <= SecretTtl
  /\ scope.may \intersect {"junk", "fault"} = {} /\ secret.live <= 1 =>
       /\ secret.recheck > 0 => secret.cached = secret.live
       /\ secret.live = 0 => secret.recheck = 0

RepoInv ==
  /\ repo \in Rows \union {None}
  /\ install \in [suspended : BOOLEAN, deleted : BOOLEAN] \union {None}
  /\ allow \in [live : SUBSET (BuiltinLabels \union UNION Allowlists),
                cached : SUBSET (BuiltinLabels \union UNION Allowlists)]

ScanInv ==
  /\ scanQ \in QueueType
  /\ DOMAIN scan = Scans
  /\ \A s \in Scans :
       /\ DOMAIN scan[s] = DOMAIN IdleScan
       /\ scan[s].phase \in {"idle", "files", "put"}
       /\ scan[s].receives \in 0 .. MaxReceive

(* What is planned differs from what it was planned from in the labels     *)
(* alone, and only where the planner saw no objection.                     *)
PlanIsRewrite(plan) ==
  /\ plan.text # None
  /\ \E lca \in BuiltinLabels :
       /\ plan.next = [plan.text EXCEPT !.labels = RewriteRunsOnValue(@, lca)]
       /\ RunsOnRefusal(plan.text.shape, LabelSet(plan.text.labels)) = NoSkip

RewriteInv ==
  /\ rewriteQ \in QueueType
  /\ DOMAIN rewriter = DOMAIN IdleRewriter
  /\ rewriter.receives \in 0 .. MaxReceive
  /\ \A plan \in rewriter.plans : PlanIsRewrite(plan)
  /\ pr \in {"none", "open", "merged", "closed"}
  /\ DOMAIN tree = Paths
  /\ branch # NoBranch => /\ DOMAIN branch = {"files", "base", "ahead"}
                      /\ DOMAIN branch.files = Paths

Stages == {"none", "claimed", "looked up", "resolved", "launched", "failed", "dlq"}

JobTyped(r) ==
  /\ DOMAIN job[r] = DOMAIN NoJob
  /\ job[r].stage \in Stages
  /\ job[r].receives \in 0 .. MaxReceive
  /\ job[r].ingest \in IngestType
  /\ job[r].image \in Images \union {BuiltinImage, None}
  /\ refusal[r] # None => refusal[r].code \in RefusalCodes

(* A message that waits has a receive left.                                *)
ReceivesHeld(r) ==
  /\ job[r].stage = "none" => job[r].receives = 0
  /\ job[r].stage = "claimed" => job[r].receives < MaxReceive

(* What an invocation remembers is what it was told.                       *)
AdoptHeld(r) ==
  job[r].ingest.mode = "adopt" \/ job[r].ingest.via = "adopt" \/ job[r].via = "adopt" =>
    \/ repo # None /\ repo.mode = "adopt"
    \/ "patch" \in scope.may

NeedsHeld(r) ==
  job[r].stage = "looked up" =>
    job[r].opts.needs =
      NeedsCustomFlavors(LabelsOf(r), job[r].opts.map, job[r].opts.dflt)

(* A job that names a custom flavor is resolved to a built-in one only     *)
(* where an operator or its own steps said so.                             *)
BuiltinExcused(r) ==
  NamesCustom(LabelsOf(r)) =>
    \/ LabelsOf(r) \intersect DOMAIN job[r].opts.map # {}
    \/ job[r].opts.docker

ResolvedHeld(r) ==
  \/ job[r].stage \notin {"resolved", "launched"}
  \/ job[r].stage = "resolved" /\ IsCustomFlavorName(job[r].flavor)
  \/ job[r].stage = "launched" /\ job[r].image # BuiltinImage
  \/ BuiltinExcused(r)

LaunchedHeld(r) ==
  job[r].stage = "launched" =>
    job[r].image \in GoodImages \union {BuiltinImage} \/ Overlap

JobInv ==
  /\ DOMAIN job = Runs /\ DOMAIN refusal = Runs
  /\ \A r \in Runs :
       /\ JobTyped(r) /\ ReceivesHeld(r) /\ AdoptHeld(r)
       /\ NeedsHeld(r) /\ ResolvedHeld(r) /\ LaunchedHeld(r)

(* Only a failed read makes the options of a job differ from what the      *)
(* tables held when they were read.                                        *)
BlindInv ==
  "fault" \notin scope.may => \A r \in Runs : job[r].opts = job[r].told

ScopeInv ==
  /\ scope \in [may : SUBSET Requests, total : Nat, used : Nat]
  /\ scope.used <= scope.total

IInv ==
  /\ RegistryInv /\ RepoInv /\ ScanInv /\ RewriteInv /\ JobInv /\ ScopeInv
  /\ SecretInv /\ RefusedOnlyInRotation

-----------------------------------------------------------------------------
(* What a rewrite invocation holds of GitHub: one plan for each file, and, *)
(* unless something happened since its request was received, each plan is  *)
(* of the text that is still there.                                        *)
OnePlanEach ==
  /\ \A t \in rewriter.todo : t.path \in Paths
  /\ \A plan \in rewriter.plans : plan.path \in Paths
  /\ \A t, u \in rewriter.todo : t.path = u.path => t = u
  /\ \A plan, other \in rewriter.plans : plan.path = other.path => plan = other
  /\ \A t \in rewriter.todo, plan \in rewriter.plans : t.path # plan.path

Undertaken ==
  /\ rewriter.phase = "probe" => rewriter.plans = {}
  /\ rewriter.phase \in {"probe", "read", "branch"} => ~rewriter.edits
  /\ rewriter.phase = "branch" => rewriter.plans # {}
  /\ rewriter.phase \in {"probe", "read", "branch", "put", "find", "create"}

PlansOf(files) == \A plan \in rewriter.plans : files[plan.path] = plan.text

Undisturbed ==
  /\ rewriter.phase \in {"read", "branch"} =>
       IF rewriter.existing THEN branch # NoBranch /\ PlansOf(branch.files)
                            ELSE branch = NoBranch /\ PlansOf(tree)
  /\ rewriter.phase = "put" =>
       /\ branch # NoBranch /\ PlansOf(branch.files)
       /\ branch.ahead \/ rewriter.plans # {}
  /\ rewriter.phase \in {"find", "create"} =>
       /\ branch # NoBranch
       /\ rewriter.edits => branch.ahead

(* A request that was received n times has met n causes, its own included. *)
CauseInv ==
  /\ \A n \in 0 .. MaxReceive : rewriteQ[n] > 0 => n < scope.used
  /\ rewriter.phase # "idle" =>
       /\ rewriter.receives <= scope.used
       /\ OnePlanEach /\ Undertaken
       /\ rewriter.receives < scope.used \/ Undisturbed

(* While nobody withdraws the opt-in or edits the branch, whatever work    *)
(* there is has the opt-in, and a commit without its pull request has work.*)
AtWork == rewriter.phase # "idle" \/ \E n \in 0 .. MaxReceive : rewriteQ[n] > 0

StrandInv ==
  scope.may \intersect {"patch", "edit"} = {} =>
    /\ AtWork \/ branch # NoBranch => repo # None /\ repo.rewrite
    /\ rewriter.phase = "read" /\ ~rewriter.existing => branch = NoBranch
    /\ branch # NoBranch /\ branch.ahead /\ pr = "none" => AtWork

(* A text keeps its labels and its runner group on every way it takes.     *)
IsText(text) ==
  /\ {"labels", "group", "shape"} \subseteq DOMAIN text
  /\ IsSequence(text.labels) /\ text.group # None /\ text.shape \in Shapes

WorldTexts ==
  /\ \A p \in Paths : tree[p] # None => IsText(tree[p])
  /\ branch # NoBranch =>
       \A p \in Paths : branch.files[p] # None => IsText(branch.files[p])
  /\ \A plan \in rewriter.plans : plan.next # None => IsText(plan.next)

ScanTexts ==
  /\ DOMAIN analysis = Paths
  /\ \A p \in Paths : analysis[p].parsed => IsText(analysis[p].text)
  /\ \A s \in Scans : scan[s].phase = "put" =>
       /\ scan[s].path \in Paths
       /\ scan[s].found.parsed => IsText(scan[s].found.text)

TextInv == WorldTexts /\ ScanTexts

(* While the default branch stays as it is, an analysis is of the text     *)
(* that is there, and a job is one of a file's; and where no repository is *)
(* newly granted, either no file has an analysis or every one has.         *)
BranchStays == scope.may \intersect {"push", "merge"} = {}

Mirrors(a, p) ==
  /\ tree[p] # None
  /\ a.parsed <=> tree[p].shape # "broken"
  /\ a.parsed => a.text = tree[p]

NeverScanned ==
  /\ repo = None
  /\ \A n \in 0 .. MaxReceive : scanQ[n] = 0
  /\ \A s \in Scans : scan[s].phase = "idle"
  /\ \A p \in Paths : analysis[p] = Unscanned

MirrorInv ==
  BranchStays =>
    /\ \A p \in Paths : analysis[p] = Unscanned \/ Mirrors(analysis[p], p)
    /\ \A s \in Scans : scan[s].phase = "put" => Mirrors(scan[s].found, scan[s].path)
    /\ "install" \notin scope.may =>
         \/ NeverScanned
         \/ \A p \in Paths : tree[p] # None => Mirrors(analysis[p], p)

JobOfFile(r, p) == tree[p] = job[r].text /\ MayBeOf(r, p)

RefusalTrue(r) ==
  refusal[r] # None =>
    /\ refusal[r].group # None <=> refusal[r].code = "runner-group"
    /\ refusal[r].group # None /\ BranchStays /\ (Distinct(r) \/ "install" \notin scope.may) =>
         refusal[r].group = job[r].text.group

RefusalInv ==
  \A r \in Runs :
    /\ job[r].ingest.phase # "idle" \/ refusal[r] # None => job[r].text # None
    /\ BranchStays /\ job[r].text # None => \E p \in Paths : JobOfFile(r, p)
    /\ RefusalTrue(r)

(* While the map and every text stay as they are, each stored route of a   *)
(* job the map sends to a custom flavor stops the planner, and so do the   *)
(* labels of a job that was rewritten.                                     *)
MappedNow(text) == MappedToCustom(text, Seen(repo).map)

RouteStops(found) ==
  found.parsed /\ MappedNow(found.text) => CustomRouteSkip(found.route) # NoSkip

ScanStops(s) ==
  /\ scan[s].phase # "idle" => scan[s].row.map = Seen(repo).map
  /\ scan[s].phase = "put" => RouteStops(scan[s].found)

Rewritten(text) == text.shape = "inline" /\ AlreadyTargetsLca(LabelSet(text.labels))

PlansStop ==
  /\ \A t \in rewriter.todo :
       tree[t.path] # None /\ MappedNow(tree[t.path]) => t.target.skip # NoSkip
  /\ \A plan \in rewriter.plans : ~MappedNow(plan.text)

BranchRewritten ==
  branch # NoBranch =>
    \A p \in Paths : branch.files[p] = tree[p] \/ Rewritten(branch.files[p])

KeepInv ==
  scope.may \intersect Remapping = {} =>
    /\ \A p \in Paths : RouteStops(analysis[p])
    /\ \A s \in Scans : ScanStops(s)
    /\ PlansStop /\ BranchRewritten

(* The registry rests, scans do not overlap and none is lost or fails: if  *)
(* no scan waits, each file's analysis is current, or still to be made by  *)
(* the one scan under way, from the repository's row.                      *)
Settling == scope.may \intersect Unsettling = {}

Current(p) ==
  tree[p] # None => analysis[p] = Analyze(tree[p], Seen(repo), RoutableCustomFlavors)

ScanIsCurrent(s) ==
  /\ scan[s].row.map = Seen(repo).map /\ scan[s].row.mode = Seen(repo).mode
  /\ \A p \in Paths : Current(p) \/ p \in scan[s].todo
  /\ scan[s].phase = "put" =>
       scan[s].found = Analyze(tree[scan[s].path], Seen(repo), RoutableCustomFlavors)

ScansSound ==
  /\ \A s, t \in Scans : scan[s].phase # "idle" /\ scan[t].phase # "idle" => s = t
  /\ \A s \in Scans :
       /\ scan[s].phase # "idle" => scan[s].custom \in {None, RoutableCustomFlavors}
       /\ scan[s].phase = "put" => scan[s].path \in Paths

Tracked ==
  \/ /\ \A s \in Scans : scan[s].phase = "idle"
     /\ repo # None => \A p \in Paths : Current(p)
  \/ \E s \in Scans : scan[s].phase # "idle" /\ ScanIsCurrent(s)

SettledInv ==
  Settling =>
    /\ checks = {} /\ \A c \in Consoles : console[c] = IdleConsole
    /\ ScansSound /\ (NoneWaits => Tracked)

=============================================================================
