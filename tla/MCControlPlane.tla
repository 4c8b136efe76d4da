--------------------------- MODULE MCControlPlane ---------------------------
(***************************************************************************)
(* Instances of ControlPlane for TLC: two workflow files, the job of one   *)
(* of which is called as a matrix leg of the other's, and some of which    *)
(* share a `name:`; three custom base names, a good and a bad image, and   *)
(* one scenario for each question, so that their behaviours add up instead *)
(* of multiplying.                                                         *)
(***************************************************************************)
EXTENDS ControlPlane, SmokeRules, PreviewRules

CONSTANTS good, bad

MCBases    == <<"gpu", "max", "ram">>
MCPaths    == {"ci.yml", "cd.yml"}
MCJobName  == [p \in MCPaths |-> IF p = "ci.yml" THEN "build" ELSE "build (arm)"]
MCLegs     == [p \in MCPaths |-> IF p = "ci.yml" THEN {"build (arm)"} ELSE {}]
MCImages   == {good, bad}
MCGood     == {good}
Gpu        == "custom-gpu"

Text(labels) ==
  [labels |-> labels, group |-> "", docker |-> FALSE, shape |-> "inline", name |-> None]

(* The same text in a workflow of that `name:`.                            *)
Named(text, name) == [text EXCEPT !.name = name]

Hosted  == Text(<<"ubuntu-latest">>)
Ours    == Text(<<"self-hosted", "lambda-ci">>)
Custom  == Text(<<"lambda-ci-custom-gpu">>)
Mixed   == Text(<<"ubuntu-latest", "x64">>)
Windows == [Text(<<"windows-latest">>) EXCEPT !.docker = TRUE]
Extra   == Text(<<"big-disk", "ubuntu-latest">>)
Docker  == [Ours EXCEPT !.docker = TRUE]
Grouped == [Ours EXCEPT !.group = "gpu-fleet"]
Block   == [Hosted EXCEPT !.shape = "block"]
Broken  == [Hosted EXCEPT !.shape = "broken"]
Junk    == [Ours EXCEPT !.labels = <<Expression, "lambda-ci", "big-disk">>]

MCJobs == {Hosted, Ours, Mixed, Grouped}

Files(ci, cd) == [p \in MCPaths |-> IF p = "ci.yml" THEN ci ELSE cd]

Repo(mode, map, dflt, rewrite) ==
  [enabled |-> TRUE, mode |-> mode, map |-> map, dflt |-> dflt, rewrite |-> rewrite]

ToGpu     == [l \in {"ubuntu-latest"} |-> Gpu]
ToNode    == [l \in {"lambda-ci-custom-gpu"} |-> "node"]
MCMaps    == {NoMap, ToGpu}
MCDefaults   == {NoFlavor, "node"}
MCAllowlists == {{"lambda-ci"}, {"lambda-ci-node"}}

NoFlavors == [n \in CustomNames |-> None]
Stored(state, image) ==
  [NoFlavors EXCEPT ![Gpu] =
     [state |-> state, image |-> image, caps |-> {}, reason |-> FALSE,
      evidence |-> IF state = "valid" THEN image ELSE None]]
ValidGpu == Stored("valid", good)

Scenario(may, total, row, files, flavors) ==
  [may |-> may, total |-> total, row |-> row, tree |-> files, flavors |-> flavors]

LabelRepo == Repo("label", NoMap, NoFlavor, FALSE)
AdoptRepo == Repo("adopt", NoMap, NoFlavor, FALSE)
OptedIn   == Repo("adopt", NoMap, NoFlavor, TRUE)
Mapped    == Repo("adopt", ToGpu, NoFlavor, TRUE)

ControlScenarios ==
  { \* the registry: overlapping registrations; a flavor's life
    Scenario({"register"}, 3, LabelRepo, Files(Custom, None), NoFlavors),
    Scenario({"register", "revalidate", "repoint", "delete", "lost"}, 4,
             LabelRepo, Files(Custom, None), NoFlavors),
    Scenario({"revalidate", "repoint", "delete", "queue", "fault"}, 3,
             LabelRepo, Files(Custom, None), ValidGpu),
    Scenario({"queue", "fault"}, 4, LabelRepo, Files(Custom, Junk), ValidGpu),
    Scenario({"revalidate", "repoint", "overlap"}, 2, LabelRepo,
             Files(Custom, None), ValidGpu),
    \* claiming and routing
    Scenario({"queue", "redeliver", "fault", "allow"}, 3, LabelRepo,
             Files(Hosted, Ours), NoFlavors),
    Scenario({"queue", "patch", "fault"}, 3, AdoptRepo, Files(Hosted, Custom), ValidGpu),
    Scenario({"queue", "redeliver", "install", "suspend"}, 3, LabelRepo,
             Files(Ours, Mixed), NoFlavors),
    Scenario({"queue", "fault"}, 3, Repo("label", ToNode, NoFlavor, FALSE),
             Files([Custom EXCEPT !.labels = <<"lambda-ci", "lambda-ci-custom-gpu">>], None),
             NoFlavors),
    Scenario({"queue", "map"}, 2, Mapped, Files(Hosted, Ours), ValidGpu),
    Scenario({"queue", "redeliver", "fault"}, 3, LabelRepo, Files(Docker, Grouped), NoFlavors),
    Scenario({"queue", "redeliver", "patch", "lost"}, 3, LabelRepo,
             Files(Grouped, None), NoFlavors),
    Scenario({"rotate", "deliver", "junk", "fault"}, 6, LabelRepo, Files(Ours, None), NoFlavors),
    Scenario({"rotate", "deliver"}, 5, LabelRepo, Files(Ours, None), NoFlavors),
    \* discovery
    Scenario({"push", "patch", "rescan", "install"}, 3, LabelRepo,
             Files(Hosted, Broken), NoFlavors),
    Scenario({"install", "push"}, 2, None, Files(Hosted, None), NoFlavors),
    Scenario({"install", "queue"}, 2, None, Files(Ours, Grouped), NoFlavors),
    Scenario({"install", "queue"}, 2, None,
             Files(Named(Ours, "CI"), Named(Grouped, "CI")), NoFlavors),
    Scenario({"queue", "redeliver"}, 3, LabelRepo,
             Files(Named(Grouped, "CI"),
                   Named([Ours EXCEPT !.group = "arm-fleet"], "CI")), NoFlavors),
    Scenario({"push", "overlap", "lost", "github", "fault"}, 3, AdoptRepo,
             Files(Hosted, None), NoFlavors),
    \* the rewrite
    Scenario({"rewrite", "push", "edit"}, 3, OptedIn, Files(Hosted, Extra), NoFlavors),
    Scenario({"rewrite", "github", "fault"}, 5, OptedIn, Files(Hosted, Extra), NoFlavors),
    Scenario({"rewrite", "github", "merge", "close", "unbranch"}, 4, OptedIn,
             Files(Hosted, Windows), NoFlavors),
    Scenario({"rewrite", "push", "patch"}, 2, Mapped, Files(Hosted, Block),
             Stored("invalid", bad)),
    Scenario({"rewrite", "patch", "register", "delete", "rescan", "lost"}, 3, Mapped,
             Files(Hosted, Extra), ValidGpu) }

-----------------------------------------------------------------------------
(* The validation rules, over every row of a small set: some as the        *)
(* console writes them, some as an older writer may have left them.        *)
Proposals ==
  [base : Bases \union {"--"}, name : CustomNames \union {"node"},
   label : CustomLabels \union {"lambda-ci"}, arch : {"arm64", "x86_64"},
   vcpu : {2}, memoryMb : {1023, 1024, 32768, 32769},
   caps : {{}, {"docker"}, {"gpu"}}, image : {"", "arn"}, smokeRepo : {"", "o/r"}]

Gate(f, probe) == StaticGate(f, probe, DefaultMaxMemoryMb, TRUE)

(* A row that passes the gate is not swallowed by the catalog: once valid, *)
(* its label is claimed, though the gate trusts no stored name.            *)
ASSUME PassedIsRoutable ==
  \A f \in Proposals :
    Gate(f, "CREATED") = {} =>
      f.label \in RequiredClaimLabels({Flavor(f.name, f.label, f.caps, f.vcpu, f.memoryMb)})

(* The console accepts a flavor that can pass the gate: what the preview   *)
(* does not see is the image and the smoke repository, nothing else.       *)
ASSUME AcceptedCanPass ==
  \A f \in {f \in Proposals : ValidCustomFlavor(f, DefaultMaxMemoryMb)},
     probe \in ImageStates :
    /\ PreviewFlavor(f) = {}
    /\ Gate(BuildFlavorRecord(f), probe) \subseteq
         {"image-unusable", "image-unreadable", "image-probe-failed", "missing-smoke-repo"}

(* Every verdict is a move the registry allows from `validating`, and our  *)
(* own fault is never final: neither a probe that did not run nor an       *)
(* orchestration error condemns a flavor.                                  *)
ASSUME FaultIsNoVerdict ==
  /\ \A f \in Proposals, probe \in ImageStates \union {NotProbed} :
       LET failures == Gate(f, probe) IN
       failures # {} =>
         /\ CanTransitionValidation("validating", StaticFailureVerdict(failures))
         /\ StaticFailureVerdict(failures) = "invalid" <=> Gate(f, NotProbed) # {}
              \/ probe \notin UsableImageStates \union {NotProbed, "UNKNOWN"}
  /\ \A seen \in [orchestrationError : BOOLEAN, launched : BOOLEAN,
                   runnerRegistered : BOOLEAN, selfTerminated : BOOLEAN,
                   conclusion : {"success", "failure", NoConclusion}] :
       /\ CanTransitionValidation("validating", ClassifySmoke(seen))
       /\ seen.orchestrationError => ClassifySmoke(seen) = "pending"

(* The job of a smoke run is nobody else's: its label is claimed in no mode*)
(* and under no allowlist of flavor labels, so no second VM is launched.   *)
ASSUME SmokeIsNotClaimed ==
  \A mode \in ModesSet, claimed \in SUBSET BuiltinLabels :
    DecideClaim({SelfHosted, SmokeLabel("n1")}, claimed \union CustomLabels, mode) = NotClaimed

-----------------------------------------------------------------------------
(* The previews, over small sets of stored jobs and claim lists.           *)
PreviewJobs ==
  [labels : (SUBSET {SelfHosted, "lambda-ci", "ubuntu-latest", "x64",
                     "lambda-ci-custom-gpu"}) \ {{}},
   group : {"", "gpu-fleet"}, eligible : BOOLEAN]

ClaimLists == SUBSET {"lambda-ci", "lambda-ci-node", "ubuntu-latest"} \ {{}}

Analyzed(labels) == [labels |-> labels, group |-> "", eligible |-> TRUE]

(* Repositories with a job each, one of them switched off, and worlds of   *)
(* two installations, one of which may be gone.                            *)
ImpactRepo(mode, labels) ==
  [row |-> [enabled |-> TRUE, mode |-> mode], jobs |-> {Analyzed(labels)}]

ImpactRepos == {ImpactRepo("label", {"lambda-ci"}), ImpactRepo("adopt", {"ubuntu-latest"}),
                ImpactRepo("off", {"lambda-ci"})}

Installs == [deleted : BOOLEAN, repos : UNION {[1 .. n -> ImpactRepos] : n \in 0 .. 2}]

ShownJobs(installs) ==
  UNION {UNION {installs[i].repos[k].jobs :
                  k \in {k \in DOMAIN installs[i].repos :
                            installs[i].repos[k].row.mode # "off"}} :
           i \in {i \in DOMAIN installs : ~installs[i].deleted}}

(* An impact that is not called truncated, of reads that all succeeded,    *)
(* names every job that moves (collectImpactRepos, labelImpact).           *)
ASSUME UntruncatedIsWhole ==
  \A a, b \in Installs, cap \in 1 .. 4 :
    LET impact == LabelImpact({"lambda-ci", "ubuntu-latest"}, {"lambda-ci-node"},
                              <<a, b>>, TRUE, cap)
    IN  ~impact.truncated =>
          impact.losing = Losing(ShownJobs(<<a, b>>), {"lambda-ci", "ubuntu-latest"},
                                 {"lambda-ci-node"})

(* But a list of repositories that could not be read is an empty one: the  *)
(* same answer, not truncated, names nothing.                              *)
ASSUME UnreadIsSilent ==
  \E a \in Installs :
    LET whole  == LabelImpact({"lambda-ci"}, {"lambda-ci-node"}, <<a>>, TRUE, 4)
        unread == LabelImpact({"lambda-ci"}, {"lambda-ci-node"},
                              <<[a EXCEPT !.repos = << >>]>>, TRUE, 4)
    IN  whole.losing # {} /\ unread.losing = {} /\ ~unread.truncated

(* Of a job it says is lost or gained, the impact errs only where Ingest   *)
(* goes by more than the list; each of those cases occurs.                 *)
Beyond(j, mode) ==
  {reason \in {"label", "group", "mode", "custom"} :
     \/ reason = "label" /\ IncompatibleRunnerLabel(j.labels)
     \/ reason = "group" /\ UnreachableRunnerGroup(j.group)
     \/ reason = "mode" /\ mode = "adopt" /\ j.labels \intersect AdoptLabels # {}
     \/ reason = "custom" /\ \E l \in j.labels : IsCustomFlavorLabel(l)}

CustomGpu == {Flavor(Gpu, "lambda-ci-custom-gpu", {}, 2, 4096)}

(* What the impact calls lost though Ingest's answer stays the same.       *)
FalseLosses(custom) ==
  {Beyond(w[1], w[2]) :
     w \in {w \in PreviewJobs \X {"label", "adopt"} :
             \E from, to \in ClaimLists :
               /\ w[1] \in Losing(PreviewJobs, from, to)
               /\ Takes(w[1], from, custom, w[2]) = Takes(w[1], to, custom, w[2])}}

ASSUME ImpactErrsByRuleOnly ==
  /\ {} \notin FalseLosses(CustomGpu)
  /\ {{"label"}, {"group"}, {"mode"}, {"custom"}} \subseteq FalseLosses(CustomGpu)

(* A flavor chosen by its own label: what the console calls ready, Ingest  *)
(* claims, and what it calls unclaimable or unroutable, Ingest refuses.    *)
ASSUME ReadyIsClaimable ==
  \A f \in BuiltinFlavors, published \in SUBSET {"base", "node"}, listed \in SUBSET BuiltinLabels :
    LET j == Analyzed({SelfHosted, f.label}) IN
    Takes(j, listed, {}, "label") <=>
      RouteReadiness(f.name, listed, published, TRUE) \in {"ready", "imageMissing"}

(* But chosen by the mode or by a map, the flavor's own label is nobody's  *)
(* condition: a job that Ingest takes, with its image published, is told   *)
(* to be unrunnable.                                                       *)
ASSUME AdoptedIsCalledUnrunnable ==
  \E published \in SUBSET {"base", "node"}, listed \in ClaimLists :
    /\ Takes(Analyzed({"ubuntu-latest"}), listed, {}, "adopt")
    /\ AdoptFlavor \in published
    /\ Unrunnable(AdoptFlavor, listed, published, TRUE)

(* A workflow is called ready only if each of its jobs is, and a read that *)
(* failed is never counted against a job.                                  *)
ASSUME UnknownIsNoFault ==
  \A flavors \in SUBSET (BuiltinNames \union {Gpu}),
     listed \in SUBSET {"lambda-ci", "lambda-ci-node"}, published \in SUBSET {"base", "node"},
     live \in BOOLEAN :
    LET states == {RouteReadiness(f, listed, published, live) : f \in flavors} IN
    /\ PlatformLevel(states) = "ready" <=> states \subseteq {"ready"}
    /\ ~live => \A f \in flavors : ~Unrunnable(f, listed, published, live)

=============================================================================
