------------------------------ MODULE JobProofs -----------------------------
(***************************************************************************)
(* Theorems of the control plane, continued: a job from its webhook to its *)
(* launch, and what follows from the whole inductive invariant.            *)
(***************************************************************************)
EXTENDS ControlProofs

(* The catalog: what its entries are, and that their names tell them apart.*)
Entry(n) == [ToCatalogFlavor(n) EXCEPT !.custom = TRUE]

LEMMA CatalogEntries ==
  ASSUME NEW custom, custom = RoutableCustomFlavors \/ custom = {},
         NEW f \in ComposeCatalog(custom)
  PROVE  \/ f \in BuiltinFlavors /\ f.name \in BuiltinNames /\ f.label \in BuiltinLabels
         \/ /\ f.name \in CustomNames /\ f.name \notin BuiltinNames
            /\ f.label = LabelOfName(f.name)
            /\ f = Entry(f.name)
<1>1. CASE f \in BuiltinFlavors
  BY <1>1 DEF BuiltinNames, BuiltinLabels
<1>2. ASSUME NEW c \in RoutableCustomFlavors, ~BuiltinCollision(c.name, c.label),
             f = [c EXCEPT !.custom = TRUE]
      PROVE  /\ f.name \in CustomNames /\ f.name \notin BuiltinNames
             /\ f.label = LabelOfName(f.name)
             /\ f = Entry(f.name)
  <2>1. PICK n \in CustomNames : c = ToCatalogFlavor(n)
    BY <1>2 DEF RoutableCustomFlavors, Registered
  <2>2. c.name = n /\ c.label = LabelOfName(n) /\ f.name = c.name /\ f.label = c.label
    BY <1>2, <2>1 DEF ToCatalogFlavor, CatalogEntry
  <2>3. f = Entry(n)
    BY <1>2, <2>1 DEF Entry
  <2>4. QED
    BY <1>2, <2>1, <2>2, <2>3 DEF BuiltinCollision
<1>3. QED
  BY <1>1, <1>2 DEF ComposeCatalog

LEMMA BuiltinsByName ==
  \A f, g \in BuiltinFlavors : f.name = g.name => f = g
<1> DEFINE base   == Flavor("base",   "lambda-ci",        {},         2, 4096)
           node   == Flavor("node",   "lambda-ci-node",   {"node"},   2, 4096)
           python == Flavor("python", "lambda-ci-python", {"python"}, 2, 4096)
           java   == Flavor("java",   "lambda-ci-java",   {"java"},   2, 8192)
           go     == Flavor("go",     "lambda-ci-go",     {"go"},     2, 4096)
           rust   == Flavor("rust",   "lambda-ci-rust",   {"rust"},   4, 8192)
           docker == Flavor("docker", "lambda-ci-docker", {"docker"}, 4, 8192)
<1>1. BuiltinFlavors = {base, node, python, java, go, rust, docker}
  BY DEF BuiltinFlavors
<1>2. /\ base.name = "base" /\ node.name = "node" /\ python.name = "python"
      /\ java.name = "java" /\ go.name = "go" /\ rust.name = "rust"
      /\ docker.name = "docker"
  BY DEF Flavor
<1> HIDE DEF base, node, python, java, go, rust, docker
<1>3. QED
  BY <1>1, <1>2

LEMMA CatalogByName ==
  ASSUME NEW custom, custom = RoutableCustomFlavors \/ custom = {},
         NEW f \in ComposeCatalog(custom), NEW g \in ComposeCatalog(custom),
         f.name = g.name
  PROVE  f = g
BY CatalogEntries, BuiltinsByName

(* Of the catalog entries a job's labels match, one is the most specific.  *)
LEMMA OneMostSpecific ==
  ASSUME NEW custom, custom = RoutableCustomFlavors \/ custom = {}, NEW labels,
         NEW h \in ComposeCatalog(custom), h.label \in labels
  PROVE  ExplicitLabelMatch(ComposeCatalog(custom), labels) # {}
<1> DEFINE catalog  == ComposeCatalog(custom)
           hits     == {f \in catalog : f.label \in labels}
           Tag(f)   == [name |-> f.name, label |-> f.label]
           tags     == {Tag(f) : f \in hits}
<1>1. \A f \in catalog : Tag(f) \in Labelled
  BY CatalogEntries DEF Labelled
<1>2. tags \in (SUBSET Labelled) \ {{}}
  <2>1. Tag(h) \in tags
    OBVIOUS
  <2>2. tags \subseteq Labelled
    BY <1>1
  <2> HIDE DEF tags
  <2>3. QED
    BY <2>1, <2>2
<1>3. PICK s \in tags : \A t \in tags \ {s} : MoreSpecific(s, t)
  BY <1>2, SpecificityAssumption
<1>4. PICK f \in hits : s = Tag(f)
  OBVIOUS
<1>5. \A g \in hits \ {f} : MoreSpecific(f, g)
  <2> TAKE g \in hits \ {f}
  <2>1. g.name # f.name
    BY CatalogByName
  <2>2. Tag(g) \in tags \ {s}
    BY <1>4, <2>1
  <2>3. MoreSpecific(s, Tag(g))
    BY <1>3, <2>2
  <2>4. QED
    BY <1>4, <2>3 DEF MoreSpecific
<1>6. QED
  BY <1>5 DEF ExplicitLabelMatch

(* A custom label beats every built-in one.                                *)
LEMMA CustomBeatsBuiltin ==
  ASSUME NEW custom, custom = RoutableCustomFlavors \/ custom = {}, NEW labels,
         NEW h \in ComposeCatalog(custom), h.label \in labels, h.label \in CustomLabels,
         NEW f \in ExplicitLabelMatch(ComposeCatalog(custom), labels)
  PROVE  f.name \in CustomNames
<1>1. CASE f \in BuiltinFlavors
  <2>1. f.label \in BuiltinLabels
    BY <1>1 DEF BuiltinLabels
  <2>2. /\ Len(h.label) \in Nat /\ Len(f.label) \in Nat
        /\ Len(h.label) > Len(f.label)
    BY <2>1, SpecificityAssumption
  <2>3. h # f
    BY <2>2
  <2>4. MoreSpecific(f, h)
    BY <2>3 DEF ExplicitLabelMatch
  <2>5. QED
    BY <2>2, <2>4 DEF MoreSpecific
<1>2. QED
  BY <1>1, CatalogEntries DEF ExplicitLabelMatch

(* A job that names a custom flavor, has no FlavorMap entry and asks for   *)
(* no docker is resolved to a custom flavor, or reported as unresolved.    *)
LEMMA ResolvedToCustom ==
  ASSUME NEW labels, NEW opts,
         opts.custom = RoutableCustomFlavors \/ opts.custom = {},
         ResolveFlavor(labels, opts).unresolved = NoFlavor,
         NamesCustom(LabelSet(labels)),
         LabelSet(labels) \intersect DOMAIN opts.map = {},
         ~opts.docker
  PROVE  IsCustomFlavorName(ResolveFlavor(labels, opts).flavor)
<1> DEFINE catalog == ComposeCatalog(opts.custom)
           named   == UnresolvedNamedCustom(catalog, LabelSet(labels), opts.map)
           chosen  == SelectFlavor(catalog, labels, opts)
           lapsed  == IF chosen.rule = "fallback" /\ IsCustomFlavorName(opts.dflt)
                      THEN opts.dflt ELSE NoFlavor
           upgraded == ApplySignalUpgrade(catalog, chosen, opts.docker)
           explicit == ExplicitLabelMatch(catalog, LabelSet(labels))
<1>1. upgraded = chosen
  BY DEF ApplySignalUpgrade
<1>2. ResolveFlavor(labels, opts) =
        [upgraded EXCEPT !.unresolved = IF named # NoFlavor THEN named ELSE lapsed]
  BY DEF ResolveFlavor
<1>3. FirstMapHit(catalog, labels, opts.map) = {}
  BY DEF FirstMapHit, LabelSet
<1>4. chosen \in {Resolution((CHOOSE f \in explicit : TRUE).name, "label"),
                  Resolution(AdoptFlavor, "adopt"), Resolution(opts.dflt, "default"),
                  Resolution("base", "fallback")}
      /\ (explicit # {} => chosen = Resolution((CHOOSE f \in explicit : TRUE).name, "label"))
  BY <1>3 DEF SelectFlavor
<1>5. named = NoFlavor
  <2>1. DOMAIN chosen = {"flavor", "rule", "replaced", "unresolved"}
    BY <1>4 DEF Resolution
  <2>2. ResolveFlavor(labels, opts).unresolved = IF named # NoFlavor THEN named ELSE lapsed
    BY <1>1, <1>2, <2>1
  <2>3. QED
    BY <2>2
<1>6. PICK h \in catalog : h.label \in LabelSet(labels) /\ h.label \in CustomLabels
  <2>1. PICK l \in LabelSet(labels) : l \in CustomLabels
    BY DEF NamesCustom, IsCustomFlavorLabel
  <2>2. l \notin DOMAIN opts.map
    BY <2>1
  <2> DEFINE remapped(k) == k \in DOMAIN opts.map /\ InCatalog(catalog, opts.map[k])
             lost == {k \in LabelSet(labels) : /\ IsCustomFlavorLabel(k)
                                /\ \A f \in catalog : f.label # k
                                /\ ~remapped(k)}
  <2>3. lost # {} => named = CHOOSE k \in lost : TRUE
    BY DEF UnresolvedNamedCustom
  <2>4. lost = {}
    <3> SUFFICES ASSUME lost # {} PROVE FALSE
      OBVIOUS
    <3>1. (CHOOSE k \in lost : TRUE) \in lost
      OBVIOUS
    <3>2. named \in CustomLabels
      BY <2>3, <3>1 DEF IsCustomFlavorLabel
    <3>3. QED
      BY <1>5, <3>2, AbsenceAssumption
  <2>5. QED
    BY <2>1, <2>2, <2>4 DEF IsCustomFlavorLabel
<1>7. explicit # {} /\ \A f \in explicit : f.name \in CustomNames
  BY <1>6, OneMostSpecific, CustomBeatsBuiltin
<1>8. (CHOOSE f \in explicit : TRUE) \in explicit
  BY <1>7
<1>9. chosen.flavor \in CustomNames /\ "flavor" \in DOMAIN chosen
  BY <1>4, <1>7, <1>8 DEF Resolution
<1>10. ResolveFlavor(labels, opts).flavor = chosen.flavor
  BY <1>1, <1>2, <1>9
<1>11. QED
  BY <1>9, <1>10 DEF IsCustomFlavorName

(* Where nothing names a custom flavor, none is missed.                    *)
LEMMA UnneededNeverMissed ==
  ASSUME NEW labels, NEW opts,
         ~NeedsCustomFlavors(LabelSet(labels), opts.map, opts.dflt)
  PROVE  ResolveFlavor(labels, opts).unresolved = NoFlavor
<1> DEFINE catalog == ComposeCatalog(opts.custom)
           named   == UnresolvedNamedCustom(catalog, LabelSet(labels), opts.map)
           chosen  == SelectFlavor(catalog, labels, opts)
           lapsed  == IF chosen.rule = "fallback" /\ IsCustomFlavorName(opts.dflt)
                      THEN opts.dflt ELSE NoFlavor
           upgraded == ApplySignalUpgrade(catalog, chosen, opts.docker)
<1>1. ResolveFlavor(labels, opts) =
        [upgraded EXCEPT !.unresolved = IF named # NoFlavor THEN named ELSE lapsed]
  BY DEF ResolveFlavor
<1>2. lapsed = NoFlavor
  BY DEF NeedsCustomFlavors
<1>3. named = NoFlavor
  <2> DEFINE remapped(l) == l \in DOMAIN opts.map /\ InCatalog(catalog, opts.map[l])
             lost   == {l \in LabelSet(labels) : /\ IsCustomFlavorLabel(l)
                                                 /\ \A f \in catalog : f.label # l
                                                 /\ ~remapped(l)}
             absent == {opts.map[l] : l \in LabelSet(labels) \intersect DOMAIN opts.map}
             gone   == {n \in absent : IsCustomFlavorName(n) /\ ~InCatalog(catalog, n)}
  <2>1. lost = {}
    BY DEF NeedsCustomFlavors
  <2>2. gone = {}
    BY DEF NeedsCustomFlavors, MapValues
  <2>3. QED
    BY <2>1, <2>2 DEF UnresolvedNamedCustom
<1>4. "unresolved" \in DOMAIN upgraded
  <2>1. "unresolved" \in DOMAIN chosen
    BY DEF SelectFlavor, Resolution
  <2>2. QED
    BY <2>1 DEF ApplySignalUpgrade
<1>5. QED
  BY <1>1, <1>2, <1>3, <1>4

-----------------------------------------------------------------------------
(* A job's record is replaced by `rec`, and whatever is written of its     *)
(* refusal has a code of its own.                                          *)
Moves(r, rec) ==
  /\ job' = [job EXCEPT ![r] = rec]
  /\ \/ refusal' = refusal
     \/ \E row : refusal' = [refusal EXCEPT ![r] = row] /\ row.code \in RefusalCodes
  /\ UNCHANGED repo /\ scope'.may = scope.may

LEMMA Moved ==
  ASSUME JobInv, NEW r \in Runs, NEW rec, Moves(r, rec),
         DOMAIN rec = DOMAIN NoJob, rec.stage \in Stages, rec.receives \in 0 .. MaxReceive,
         rec.ingest \in IngestType, rec.image \in Images \union {BuiltinImage, None},
         ReceivesHeld(r)', AdoptHeld(r)', NeedsHeld(r)', ResolvedHeld(r)', LaunchedHeld(r)'
  PROVE  JobInv'
<1>1. /\ DOMAIN job' = Runs /\ job'[r] = rec
      /\ \A s \in Runs \ {r} : job'[s] = job[s]
  BY DEF JobInv, Moves
<1>2. /\ DOMAIN refusal' = Runs
      /\ \A s \in Runs \ {r} : refusal'[s] = refusal[s]
      /\ refusal'[r] # None => refusal'[r].code \in RefusalCodes
  BY DEF JobInv, Moves, JobTyped
<1>3. JobTyped(r)'
  BY <1>1, <1>2 DEF JobTyped
<1>4. ASSUME NEW s \in Runs \ {r}
      PROVE  (JobTyped(s) /\ ReceivesHeld(s) /\ AdoptHeld(s) /\ NeedsHeld(s)
                /\ ResolvedHeld(s) /\ LaunchedHeld(s))'
  <2>1. /\ JobTyped(s) /\ ReceivesHeld(s) /\ AdoptHeld(s) /\ NeedsHeld(s)
        /\ ResolvedHeld(s) /\ LaunchedHeld(s)
    BY DEF JobInv
  <2>2. job'[s] = job[s] /\ refusal'[s] = refusal[s] /\ repo' = repo
        /\ scope'.may = scope.may
    BY <1>1, <1>2 DEF Moves
  <2>3. QED
    BY <2>1, <2>2, ZenonT(60) DEF JobTyped, ReceivesHeld, AdoptHeld, NeedsHeld, ResolvedHeld, LaunchedHeld,
       BuiltinExcused, LabelsOf, Overlap
<1>5. QED
  BY <1>1, <1>2, <1>3, <1>4 DEF JobInv

MayAdopt == (repo # None /\ repo.mode = "adopt") \/ "patch" \in scope.may

(* The webhook handler changes what it remembers, and claims.              *)
LEMMA IngestMoves ==
  ASSUME JobInv, NEW r \in Runs, NEW rec, Moves(r, rec),
         DOMAIN rec = DOMAIN NoJob, rec.ingest \in IngestType,
         rec.text = job[r].text, rec.opts = job[r].opts, rec.flavor = job[r].flavor,
         rec.image = job[r].image, rec.receives = job[r].receives,
         rec.stage = job[r].stage \/ (rec.stage = "claimed" /\ job[r].stage = "none"),
         rec.ingest.mode = "adopt" \/ rec.ingest.via = "adopt" \/ rec.via = "adopt"
           => MayAdopt
  PROVE  JobInv'
<1>1. job'[r] = rec /\ repo' = repo /\ scope'.may = scope.may
  BY DEF JobInv, Moves
<1>2. JobTyped(r) /\ ReceivesHeld(r) /\ NeedsHeld(r) /\ ResolvedHeld(r) /\ LaunchedHeld(r)
  BY DEF JobInv
<1>3. AdoptHeld(r)' /\ ReceivesHeld(r)'
  BY <1>1, <1>2, ControlAssumption DEF AdoptHeld, MayAdopt, ReceivesHeld
<1>4. NeedsHeld(r)' /\ ResolvedHeld(r)' /\ LaunchedHeld(r)'
  BY <1>1, <1>2 DEF NeedsHeld, ResolvedHeld, LaunchedHeld, BuiltinExcused, LabelsOf, Overlap
<1>5. rec.stage \in Stages /\ rec.receives \in 0 .. MaxReceive
      /\ rec.image \in Images \union {BuiltinImage, None}
  BY <1>2 DEF JobTyped, Stages
<1>6. QED
  BY <1>3, <1>4, <1>5, Moved

(* Provision changes what it decided, and leaves the claim alone.          *)
LEMMA RoutingMoves ==
  ASSUME JobInv, NEW r \in Runs, NEW rec, Moves(r, rec),
         DOMAIN rec = DOMAIN NoJob, rec.ingest = job[r].ingest, rec.via = job[r].via,
         rec.stage \in Stages \ {"none"}, rec.receives \in 0 .. MaxReceive,
         rec.stage = "claimed" => rec.receives < MaxReceive,
         rec.image \in Images \union {BuiltinImage, None},
         NeedsHeld(r)', ResolvedHeld(r)', LaunchedHeld(r)'
  PROVE  JobInv'
<1>1. job'[r] = rec /\ repo' = repo /\ scope'.may = scope.may
  BY DEF JobInv, Moves
<1>2. JobTyped(r) /\ AdoptHeld(r)
  BY DEF JobInv
<1>3. AdoptHeld(r)' /\ ReceivesHeld(r)'
  BY <1>1, <1>2 DEF AdoptHeld, ReceivesHeld
<1>4. rec.ingest \in IngestType
  BY <1>2 DEF JobTyped
<1>5. QED
  BY <1>3, <1>4, Moved

(* A refusal has one of the codes of the list.                             *)
LEMMA CodesOfRefusals ==
  \A gate \in {"repo-disabled", "claim", "runner-group", "compat-block"} :
    \A labels, claimed, mode : RefusalCode(gate, labels, claimed, mode) \in RefusalCodes
BY DEF RefusalCode, RefusalCodes

LEMMA Idle == /\ IdleIngest \in IngestType /\ IdleIngest.mode # "adopt"
              /\ IdleIngest.via # "adopt"
BY DEF IdleIngest, IngestType, ModesSet, NoMode, NotClaimed

LEMMA RefuseKeeps ==
  ASSUME JobInv, NEW r \in Runs, NEW allowed, NEW mode, NEW group,
         NEW gate \in {"repo-disabled", "claim", "runner-group", "compat-block"},
         Refuse(r, gate, allowed, mode, group), UNCHANGED repo, scope'.may = scope.may
  PROVE  JobInv'
<1> DEFINE rec == [job[r] EXCEPT !.ingest = IdleIngest]
           code == RefusalCode(gate, LabelsOf(r), allowed, mode)
           row == UpsertRefusal(refusal[r], code, group, job[r].delivered)
<1>1. JobTyped(r) /\ AdoptHeld(r)
  BY DEF JobInv
<1>2. /\ DOMAIN rec = DOMAIN NoJob /\ rec.ingest = IdleIngest
      /\ rec.text = job[r].text /\ rec.opts = job[r].opts /\ rec.flavor = job[r].flavor
      /\ rec.image = job[r].image /\ rec.receives = job[r].receives
      /\ rec.stage = job[r].stage /\ rec.via = job[r].via
  BY <1>1 DEF JobTyped, NoJob
<1>3. row.code \in RefusalCodes
  BY CodesOfRefusals DEF UpsertRefusal
<1>4. job' = [job EXCEPT ![r] = rec]
  BY <1>1 DEF Refuse, JobInv, JobTyped
<1> HIDE DEF rec, row
<1>5. refusal' = refusal \/ refusal' = [refusal EXCEPT ![r] = row]
  BY DEF Refuse, row, code
<1>6. Moves(r, rec)
  BY <1>3, <1>4, <1>5 DEF Moves
<1>7. QED
  BY <1>1, <1>2, <1>6, Idle, IngestMoves DEF AdoptHeld, MayAdopt

LEMMA QueueJobKeeps ==
  ASSUME JobInv, NEW r \in Runs, NEW p, NEW workflow, NEW name, QueueJob(r, p, workflow, name),
         scope'.may = scope.may
  PROVE  JobInv'
<1> DEFINE rec == [NoJob EXCEPT !.text = tree[p], !.name = name, !.workflow = workflow,
                     !.ingest.phase = "config", !.delivered = 1]
<1>1. /\ DOMAIN rec = DOMAIN NoJob /\ rec.stage = "none" /\ rec.receives = 0
      /\ rec.image = None /\ rec.via = NotClaimed
      /\ rec.ingest = [IdleIngest EXCEPT !.phase = "config"]
  BY DEF NoJob
<1>2. rec.ingest \in IngestType /\ rec.ingest.mode = NoMode /\ rec.ingest.via = NotClaimed
  BY <1>1 DEF IngestType, IdleIngest, ModesSet
<1>3. Moves(r, rec)
  BY DEF QueueJob, Moves, repoVars
<1> HIDE DEF rec
<1>4. job'[r] = rec
  BY <1>3 DEF Moves, JobInv
<1>5. /\ ReceivesHeld(r)' /\ AdoptHeld(r)' /\ NeedsHeld(r)'
      /\ ResolvedHeld(r)' /\ LaunchedHeld(r)'
  BY <1>1, <1>2, <1>4 DEF ReceivesHeld, AdoptHeld, NeedsHeld, ResolvedHeld, LaunchedHeld, NoMode, NotClaimed
<1>6. 0 \in 0 .. MaxReceive
  BY ControlAssumption
<1>7. QED
  BY <1>1, <1>2, <1>3, <1>5, <1>6, Moved DEF Stages

LEMMA RedeliverKeeps ==
  ASSUME JobInv, NEW r \in Runs, Redeliver(r), scope'.may = scope.may
  PROVE  JobInv'
<1> DEFINE rec == Receive(r)
<1>1. JobTyped(r) /\ AdoptHeld(r)
  BY DEF JobInv
<1>2. /\ DOMAIN rec = DOMAIN NoJob /\ rec.ingest = [job[r].ingest EXCEPT !.phase = "config"]
      /\ rec.text = job[r].text /\ rec.opts = job[r].opts /\ rec.flavor = job[r].flavor
      /\ rec.image = job[r].image /\ rec.receives = job[r].receives
      /\ rec.stage = job[r].stage /\ rec.via = job[r].via
  BY <1>1 DEF JobTyped, NoJob, Receive
<1>3. /\ rec.ingest \in IngestType /\ rec.ingest.mode = job[r].ingest.mode
      /\ rec.ingest.via = job[r].ingest.via
  BY <1>1, <1>2 DEF JobTyped, IngestType
<1>4. Moves(r, rec)
  BY DEF Redeliver, Moves, repoVars
<1> HIDE DEF rec
<1>5. QED
  BY <1>1, <1>2, <1>3, <1>4, IngestMoves DEF AdoptHeld, MayAdopt

LEMMA IngestConfigKeeps ==
  ASSUME JobInv, RepoInv, NEW r \in Runs, IngestConfig(r), scope'.may = scope.may
  PROVE  JobInv'
<1>1. PICK row \in {repo, Fault} :
        IF IsRepoOptedOut(Seen(row))
        THEN Refuse(r, "repo-disabled", allow.cached, Seen(row).mode, None)
        ELSE /\ job' = [job EXCEPT ![r].ingest =
                  [phase |-> "claim", allowed |-> allow.cached,
                   mode |-> Seen(row).mode, via |-> NotClaimed]]
             /\ UNCHANGED refusal
  BY DEF IngestConfig
<1>2. UNCHANGED repo
  BY DEF IngestConfig, repoVars
<1>3. CASE IsRepoOptedOut(Seen(row))
  BY <1>1, <1>2, <1>3, RefuseKeeps
<1>4. CASE ~IsRepoOptedOut(Seen(row))
  <2> DEFINE w == [phase |-> "claim", allowed |-> allow.cached,
                   mode |-> Seen(row).mode, via |-> NotClaimed]
             rec == [job[r] EXCEPT !.ingest = w]
  <2>1. Seen(row).mode \in ModesSet /\ (Seen(row).mode = "adopt" => MayAdopt)
    <3>1. Seen(row) \in Rows
      BY SeenType DEF RepoInv
    <3>2. repo # None /\ row = repo => Seen(row) = repo
      BY SeenType DEF RepoInv
    <3>3. repo = None \/ row = Fault => Seen(row).mode = NoMode
      BY SeenType DEF RepoInv
    <3>4. QED
      BY <3>1, <3>2, <3>3 DEF Rows, MayAdopt, NoMode
  <2>2. w \in IngestType /\ w.via = NotClaimed /\ w.mode = Seen(row).mode
    BY <2>1 DEF IngestType, RepoInv
  <2> HIDE DEF w
  <2>3. JobTyped(r) /\ AdoptHeld(r)
    BY DEF JobInv
  <2>4. /\ DOMAIN rec = DOMAIN NoJob /\ rec.ingest = w
        /\ rec.text = job[r].text /\ rec.opts = job[r].opts /\ rec.flavor = job[r].flavor
        /\ rec.image = job[r].image /\ rec.receives = job[r].receives
        /\ rec.stage = job[r].stage /\ rec.via = job[r].via
    BY <2>3 DEF JobTyped, NoJob
  <2>5. Moves(r, rec)
    BY <1>1, <1>2, <1>4 DEF Moves, w
  <2> HIDE DEF rec
  <2>6. QED
    BY <2>1, <2>2, <2>3, <2>4, <2>5, IngestMoves DEF AdoptHeld, MayAdopt, NotClaimed
<1>5. QED
  BY <1>3, <1>4

(* To adopt is decided only where the mode the invocation read is `adopt`. *)
LEMMA AdoptIsOptIn ==
  \A labels, claimed, mode :
    /\ DecideClaim(labels, claimed, mode) \in {NotClaimed, "label", "adopt"}
    /\ DecideClaim(labels, claimed, mode) = "adopt" => mode = "adopt"
BY DEF DecideClaim, NotClaimed

LEMMA IngestClaimKeeps ==
  ASSUME JobInv, NEW r \in Runs, IngestClaim(r), scope'.may = scope.may
  PROVE  JobInv'
<1> DEFINE w == job[r].ingest
<1>1. PICK claimed :
        LET via == DecideClaim(LabelsOf(r), claimed, w.mode) IN
        IF via = NotClaimed
        THEN Refuse(r, "claim", w.allowed, w.mode, None)
        ELSE /\ job' = [job EXCEPT ![r].ingest.phase = "gate", ![r].ingest.via = via]
             /\ UNCHANGED refusal
  BY DEF IngestClaim
<1>2. UNCHANGED repo
  BY DEF IngestClaim, repoVars
<1> DEFINE via == DecideClaim(LabelsOf(r), claimed, w.mode)
<1>3. CASE via = NotClaimed
  BY <1>1, <1>2, <1>3, RefuseKeeps
<1>4. CASE via # NotClaimed
  <2> DEFINE rec == [job[r] EXCEPT !.ingest.phase = "gate", !.ingest.via = via]
  <2>1. JobTyped(r) /\ AdoptHeld(r)
    BY DEF JobInv
  <2>2. via \in {NotClaimed, "label", "adopt"} /\ (via = "adopt" => w.mode = "adopt")
    BY AdoptIsOptIn
  <2>3. Moves(r, rec)
    BY <1>1, <1>2, <1>4 DEF Moves
  <2> HIDE DEF via
  <2>4. /\ DOMAIN rec = DOMAIN NoJob
        /\ rec.ingest = [w EXCEPT !.phase = "gate", !.via = via]
        /\ rec.text = job[r].text /\ rec.opts = job[r].opts /\ rec.flavor = job[r].flavor
        /\ rec.image = job[r].image /\ rec.receives = job[r].receives
        /\ rec.stage = job[r].stage /\ rec.via = job[r].via
    BY <2>1 DEF JobTyped, NoJob, IngestType
  <2> HIDE DEF rec
  <2>5. w \in IngestType
    BY <2>1 DEF JobTyped
  <2>6. w.mode = "adopt" \/ rec.via = "adopt" => MayAdopt
    BY <2>1, <2>4 DEF AdoptHeld, MayAdopt
  <2> HIDE DEF w
  <2>7. rec.ingest \in IngestType /\ rec.ingest.mode = w.mode /\ rec.ingest.via = via
    BY <2>2, <2>4, <2>5 DEF IngestType
  <2>8. QED
    BY <2>2, <2>3, <2>4, <2>6, <2>7, IngestMoves
<1>5. QED
  BY <1>3, <1>4

LEMMA IngestGateKeeps ==
  ASSUME JobInv, NEW r \in Runs, IngestGate(r), scope'.may = scope.may
  PROVE  JobInv'
<1> DEFINE w == job[r].ingest
<1>1. PICK match, group :
        IF PostClaimGate(match) = "pass" THEN Claim(r)
        ELSE Refuse(r, PostClaimGate(match), w.allowed, w.mode, group)
  BY DEF IngestGate
<1>2. UNCHANGED repo
  BY DEF IngestGate, repoVars
<1>3. CASE PostClaimGate(match) # "pass"
  <2>1. PostClaimGate(match) \in {"runner-group", "compat-block"}
    BY <1>3 DEF PostClaimGate
  <2>2. QED
    BY <1>1, <1>2, <1>3, <2>1, RefuseKeeps
<1>4. CASE PostClaimGate(match) = "pass"
  <2> DEFINE rec == [job[r] EXCEPT !.ingest = IdleIngest,
                       !.stage = IF job[r].stage = "none" THEN "claimed" ELSE job[r].stage,
                       !.via   = IF job[r].stage = "none" THEN job[r].ingest.via
                                 ELSE job[r].via]
  <2>1. JobTyped(r) /\ AdoptHeld(r)
    BY DEF JobInv
  <2>2. Moves(r, rec)
    BY <1>1, <1>2, <1>4, <2>1 DEF Claim, Moves, JobTyped, NoJob, JobInv
  <2>3. /\ DOMAIN rec = DOMAIN NoJob /\ rec.ingest = IdleIngest
        /\ rec.text = job[r].text /\ rec.opts = job[r].opts /\ rec.flavor = job[r].flavor
        /\ rec.image = job[r].image /\ rec.receives = job[r].receives
        /\ rec.stage = job[r].stage \/ (rec.stage = "claimed" /\ job[r].stage = "none")
        /\ rec.via = job[r].via \/ rec.via = job[r].ingest.via
    BY <2>1 DEF JobTyped, NoJob
  <2> HIDE DEF rec
  <2>4. QED
    BY <2>1, <2>2, <2>3, Idle, IngestMoves DEF AdoptHeld, MayAdopt
<1>5. QED
  BY <1>3, <1>4

(* A message handed back, or dead-lettered, holds nothing any more.        *)
LEMMA RetryKeeps ==
  ASSUME JobInv, NEW r \in Runs, Moves(r, Retry(r))
  PROVE  JobInv'
<1> DEFINE rec == Retry(r)
<1>1. JobTyped(r)
  BY DEF JobInv
<1>2. /\ DOMAIN rec = DOMAIN NoJob /\ rec.ingest = job[r].ingest /\ rec.via = job[r].via
      /\ rec.stage \in {"claimed", "dlq"} /\ rec.receives = job[r].receives
      /\ rec.image = job[r].image
      /\ rec.stage = "claimed" => rec.receives < MaxReceive
  BY <1>1 DEF JobTyped, NoJob, Retry
<1> HIDE DEF rec
<1>3. job'[r] = rec
  BY DEF JobInv, Moves, rec
<1>4. NeedsHeld(r)' /\ ResolvedHeld(r)' /\ LaunchedHeld(r)'
  BY <1>2, <1>3 DEF NeedsHeld, ResolvedHeld, LaunchedHeld
<1>5. Moves(r, rec)
  BY DEF rec
<1>6. QED
  BY <1>1, <1>2, <1>4, <1>5, RoutingMoves DEF JobTyped, Stages

LEMMA FailedKeeps ==
  ASSUME JobInv, NEW r \in Runs, Moves(r, Advance(r, "failed"))
  PROVE  JobInv'
<1> DEFINE rec == Advance(r, "failed")
<1>1. JobTyped(r)
  BY DEF JobInv
<1>2. /\ DOMAIN rec = DOMAIN NoJob /\ rec.ingest = job[r].ingest /\ rec.via = job[r].via
      /\ rec.stage = "failed" /\ rec.receives = job[r].receives
      /\ rec.image = job[r].image
  BY <1>1 DEF JobTyped, NoJob, Advance
<1> HIDE DEF rec
<1>3. job'[r] = rec
  BY DEF JobInv, Moves, rec
<1>4. NeedsHeld(r)' /\ ResolvedHeld(r)' /\ LaunchedHeld(r)'
  BY <1>2, <1>3 DEF NeedsHeld, ResolvedHeld, LaunchedHeld
<1>5. Moves(r, rec)
  BY DEF rec
<1>6. QED
  BY <1>1, <1>2, <1>4, <1>5, RoutingMoves DEF JobTyped, Stages

LEMMA ProvLookupKeeps ==
  ASSUME JobInv, NEW r \in Runs, ProvLookup(r), scope'.may = scope.may
  PROVE  JobInv'
<1>1. PICK row \in {repo, Fault}, known \in {KnownJobs, {}} :
        job' = [job EXCEPT ![r].stage = "looked up", ![r].receives = @ + 1,
                           ![r].opts = OptionsOf(r, row, known),
                           ![r].told = OptionsOf(r, repo, KnownJobs)]
  BY DEF ProvLookup
<1> DEFINE opts == OptionsOf(r, row, known)
           told == OptionsOf(r, repo, KnownJobs)
           rec == [job[r] EXCEPT !.stage = "looked up", !.receives = @ + 1, !.opts = opts,
                                 !.told = told]
<1>2. JobTyped(r) /\ job[r].receives < MaxReceive
  BY DEF JobInv, ReceivesHeld, ProvLookup
<1>3. opts.needs = NeedsCustomFlavors(LabelsOf(r), opts.map, opts.dflt)
  BY DEF OptionsOf
<1>4. job' = [job EXCEPT ![r] = rec]
  BY <1>1
<1> HIDE DEF opts, told
<1>5. /\ DOMAIN rec = DOMAIN NoJob /\ rec.ingest = job[r].ingest /\ rec.via = job[r].via
      /\ rec.stage = "looked up" /\ rec.opts = opts /\ rec.receives \in 0 .. MaxReceive
      /\ rec.text = job[r].text /\ rec.image = job[r].image
  BY <1>2, ControlAssumption DEF JobTyped, NoJob
<1> HIDE DEF rec
<1>6. job'[r] = rec
  BY <1>4 DEF JobInv
<1>7. NeedsHeld(r)' /\ ResolvedHeld(r)' /\ LaunchedHeld(r)'
  BY <1>3, <1>5, <1>6 DEF NeedsHeld, ResolvedHeld, LaunchedHeld, LabelsOf
<1>8. Moves(r, rec)
  BY <1>4 DEF Moves, ProvLookup, repoVars
<1>9. QED
  BY <1>2, <1>5, <1>6, <1>7, <1>8, RoutingMoves DEF JobTyped, Stages

(* The record that is resolved with the flavor the rules choose.           *)
LEMMA ResolvedKeeps ==
  ASSUME JobInv, NEW r \in Runs, NEW custom,
         custom = RoutableCustomFlavors \/ custom = {},
         ResolveFlavor(job[r].text.labels,
                       WithCustom(job[r].opts, custom)).unresolved = NoFlavor,
         Moves(r, [job[r] EXCEPT !.stage = "resolved",
                     !.flavor = ResolveFlavor(job[r].text.labels,
                                              WithCustom(job[r].opts, custom)).flavor])
  PROVE  JobInv'
<1> DEFINE opts == WithCustom(job[r].opts, custom)
           flav == ResolveFlavor(job[r].text.labels, opts).flavor
           rec == [job[r] EXCEPT !.stage = "resolved", !.flavor = flav]
<1>1. JobTyped(r)
  BY DEF JobInv
<1>2. IsCustomFlavorName(flav) \/ BuiltinExcused(r)
  <2>1. /\ opts.custom = custom /\ opts.map = job[r].opts.map
        /\ opts.docker = job[r].opts.docker
    BY DEF WithCustom
  <2> HIDE DEF opts
  <2>2. QED
    BY <2>1, ResolvedToCustom DEF BuiltinExcused, LabelsOf, opts
<1>3. Moves(r, rec)
  OBVIOUS
<1> HIDE DEF flav
<1>4. /\ DOMAIN rec = DOMAIN NoJob /\ rec.ingest = job[r].ingest /\ rec.via = job[r].via
      /\ rec.stage = "resolved" /\ rec.flavor = flav /\ rec.opts = job[r].opts
      /\ rec.text = job[r].text /\ rec.image = job[r].image
      /\ rec.receives = job[r].receives
  BY <1>1 DEF JobTyped, NoJob
<1> HIDE DEF rec
<1>5. job'[r] = rec
  BY <1>3 DEF Moves, JobInv
<1>6. NeedsHeld(r)' /\ ResolvedHeld(r)' /\ LaunchedHeld(r)'
  BY <1>2, <1>4, <1>5 DEF NeedsHeld, ResolvedHeld, LaunchedHeld, BuiltinExcused, LabelsOf
<1>7. QED
  BY <1>1, <1>3, <1>4, <1>6, RoutingMoves DEF JobTyped, Stages

LEMMA ProvResolveKeeps ==
  ASSUME JobInv, NEW r \in Runs, ProvResolve(r), scope'.may = scope.may
  PROVE  JobInv'
<1>1. PICK custom, degraded :
        /\ custom = RoutableCustomFlavors \/ custom = {}
        /\ Route(r, WithCustom(job[r].opts, custom), degraded)
  <2>1. PICK read \in {RoutableCustomFlavors, Fault} :
          Route(r, WithCustom(job[r].opts,
                    IF ~job[r].opts.needs \/ read = Fault THEN {} ELSE read), read = Fault)
    BY DEF ProvResolve
  <2>2. QED
    BY <2>1
<1> DEFINE res == ResolveFlavor(job[r].text.labels, WithCustom(job[r].opts, custom))
<1>2. refusal' = refusal /\ repo' = repo
  BY DEF ProvResolve, repoVars
<1>3. CASE res.unresolved # NoFlavor
  <2>1. job' = [job EXCEPT ![r] = Retry(r)] \/ job' = [job EXCEPT ![r] = Advance(r, "failed")]
    BY <1>1, <1>3 DEF Route
  <2>2. QED
    BY <1>2, <2>1, RetryKeeps, FailedKeeps DEF Moves
<1>4. CASE res.unresolved = NoFlavor
  <2>1. job' = [job EXCEPT ![r].stage = "resolved", ![r].flavor = res.flavor]
    BY <1>1, <1>4 DEF Route
  <2> HIDE DEF res
  <2>2. Moves(r, [job[r] EXCEPT !.stage = "resolved", !.flavor = res.flavor])
    BY <1>2, <2>1 DEF Moves
  <2>3. QED
    BY <1>1, <1>4, <2>2, ResolvedKeeps DEF res
<1>5. QED
  BY <1>3, <1>4

LEMMA ProvLaunchKeeps ==
  ASSUME JobInv, RegistryInv, NEW r \in Runs, ProvLaunch(r), scope'.may = scope.may
  PROVE  JobInv'
<1> DEFINE name == job[r].flavor
           image == IF IsCustomFlavorName(name) THEN flavor[name].image ELSE BuiltinImage
           stage == IF MintRefusal(LabelsOf(r)) = "mint" THEN "launched" ELSE "failed"
           rec == [job[r] EXCEPT !.image = image, !.stage = stage]
<1>1. refusal' = refusal /\ repo' = repo /\ job[r].stage = "resolved"
  BY DEF ProvLaunch, repoVars
<1>2. CASE job' = [job EXCEPT ![r] = Retry(r)]
  BY <1>1, <1>2, RetryKeeps DEF Moves
<1>3. CASE /\ job' = [job EXCEPT ![r].image = image, ![r].stage = stage]
           /\ IsCustomFlavorName(name) => Launchable(name)
  <2>1. JobTyped(r) /\ ResolvedHeld(r)
    BY DEF JobInv
  <2>2. \/ /\ IsCustomFlavorName(name) /\ image \in Images /\ image # BuiltinImage
           /\ image \in GoodImages \/ Overlap
        \/ ~IsCustomFlavorName(name) /\ image = BuiltinImage
    <3>1. CASE IsCustomFlavorName(name)
      <4>1. name \in CustomNames /\ flavor[name] # None /\ flavor[name].state = "valid"
        BY <1>3, <3>1 DEF IsCustomFlavorName, Launchable
      <4>2. flavor[name] \in FlavorType /\ name \in Registered
        BY <4>1 DEF RegistryInv, RegistryTypes, Registered
      <4>3. flavor[name].image \in Images
        BY <4>2 DEF FlavorType
      <4>4. flavor[name].image \in GoodImages \/ Overlap
        BY <4>1, <4>2 DEF RegistryInv, ValidIsProven
      <4>5. QED
        BY <3>1, <4>3, <4>4, AbsenceAssumption
    <3>2. QED
      BY <3>1
  <2>3. Moves(r, rec)
    BY <1>1, <1>3 DEF Moves
  <2>4. stage \in {"launched", "failed"}
    OBVIOUS
  <2> HIDE DEF image, stage
  <2>5. /\ DOMAIN rec = DOMAIN NoJob /\ rec.ingest = job[r].ingest /\ rec.via = job[r].via
        /\ rec.stage = stage /\ rec.image = image /\ rec.opts = job[r].opts
        /\ rec.text = job[r].text /\ rec.receives = job[r].receives
    BY <2>1 DEF JobTyped, NoJob
  <2> HIDE DEF rec
  <2>6. job'[r] = rec
    BY <2>3 DEF Moves, JobInv
  <2>7. NeedsHeld(r)' /\ LaunchedHeld(r)'
    BY <2>2, <2>4, <2>5, <2>6 DEF NeedsHeld, LaunchedHeld, Overlap
  <2>8. ResolvedHeld(r)'
    BY <1>1, <2>1, <2>2, <2>4, <2>5, <2>6 DEF ResolvedHeld, BuiltinExcused, LabelsOf
  <2>9. QED
    BY <2>1, <2>2, <2>3, <2>4, <2>5, <2>7, <2>8, RoutingMoves DEF JobTyped, Stages
<1>4. QED
  BY <1>2, <1>3 DEF ProvLaunch

(* What the console and GitHub change of a repository's row leaves its mode*)
(* alone, unless an operator may patch it.                                 *)
LEMMA ModeKept ==
  ASSUME RepoInv, RepoInv', ConfigNext, repo # None, repo.mode = "adopt"
  PROVE  (repo' # None /\ repo'.mode = "adopt") \/ "patch" \in scope.may
<1>1. repo \in Rows
  BY DEF RepoInv
<1>2. ASSUME NEW patch \in Patches, PatchRepo(patch) PROVE "patch" \in scope.may
  BY <1>2 DEF PatchRepo, Spend, Can
<1>3. ASSUME NEW map \in FlavorMaps, PutFlavorMap(map)
      PROVE  repo' # None /\ repo'.mode = "adopt"
  <2>1. repo' = [repo EXCEPT !.map = map]
    BY <1>3 DEF PutFlavorMap
  <2>2. repo' \in Rows /\ repo'.mode = "adopt"
    BY <1>1, <1>3, <2>1 DEF Rows
  <2>3. QED
    BY <2>2, AbsenceAssumption
<1>4. ASSUME NEW created \in BOOLEAN, RepoGranted(created)
      PROVE  repo' # None /\ repo'.mode = "adopt"
  <2>1. repo' = [repo EXCEPT !.enabled = TRUE]
    BY <1>1, <1>4, SeenType DEF RepoGranted, EnableRepo
  <2>2. repo' \in Rows /\ repo'.mode = "adopt"
    BY <1>1, <2>1 DEF Rows
  <2>3. QED
    BY <2>2, AbsenceAssumption
<1>5. CASE RepoWithdrawn
  <2>1. repo' = [repo EXCEPT !.enabled = FALSE]
    BY <1>5 DEF RepoWithdrawn
  <2>2. repo' \in Rows /\ repo'.mode = "adopt"
    BY <1>1, <2>1 DEF Rows
  <2>3. QED
    BY <2>2, AbsenceAssumption
<1>6. CASE UNCHANGED repo
  BY <1>6
<1>7. QED
  BY <1>2, <1>3, <1>4, <1>5, <1>6 DEF ConfigNext, SetRunnerLabels, AllowlistExpires,
     SetInstallationFlags

LEMMA JobKept ==
  ASSUME JobInv, RepoInv, RepoInv', RegistryInv, Next \/ UNCHANGED vars,
         scope'.may = scope.may
  PROVE  JobInv'
<1>1. CASE UNCHANGED jobVars /\ UNCHANGED repo
  BY <1>1 DEF jobVars, JobInv, JobTyped, ReceivesHeld, AdoptHeld, NeedsHeld, ResolvedHeld,
     LaunchedHeld, BuiltinExcused, LabelsOf, Overlap
<1>2. CASE ConfigNext
  <2>1. job' = job /\ refusal' = refusal
    BY <1>2, ConfigFrame DEF jobVars
  <2>2. ASSUME NEW r \in Runs
        PROVE  (JobTyped(r) /\ ReceivesHeld(r) /\ AdoptHeld(r) /\ NeedsHeld(r)
                  /\ ResolvedHeld(r) /\ LaunchedHeld(r))'
    <3>1. /\ JobTyped(r) /\ ReceivesHeld(r) /\ AdoptHeld(r) /\ NeedsHeld(r)
          /\ ResolvedHeld(r) /\ LaunchedHeld(r)
      BY DEF JobInv
    <3>2. AdoptHeld(r)'
      BY <1>2, <2>1, <3>1, ModeKept DEF AdoptHeld
    <3>3. QED
      BY <2>1, <3>1, <3>2 DEF JobTyped, ReceivesHeld, NeedsHeld, ResolvedHeld, LaunchedHeld,
         BuiltinExcused, LabelsOf, Overlap
  <2>3. QED
    BY <2>1, <2>2 DEF JobInv
<1>3. CASE ClaimNext
  BY <1>3, QueueJobKeeps, RedeliverKeeps, IngestConfigKeeps, IngestClaimKeeps,
     IngestGateKeeps DEF ClaimNext
<1>4. CASE RoutingNext
  BY <1>4, ProvLookupKeeps, ProvResolveKeeps, ProvLaunchKeeps DEF RoutingNext
<1>5. QED
  BY <1>1, <1>2, <1>3, <1>4, RegistryFrame, DiscoveryFrame, RewriteFrame, DoorFrame
     DEF Next, vars, repoVars, jobVars

-----------------------------------------------------------------------------
(* Where a behaviour starts                                                *)

LEMMA InitRegistry ==
  ASSUME Init
  PROVE  RegistryInv
<1>1. PICK s \in Scenarios : Starts(s)
  BY DEF Init
<1>2. /\ flavor = s.flavors /\ flavor \in [CustomNames -> FlavorType \union {None}]
      /\ Cardinality({n \in CustomNames : flavor[n] # None}) <= MaxFlavors
      /\ \A n \in CustomNames :
           flavor[n] # None /\ flavor[n].state = "valid" =>
             flavor[n].image \in GoodImages /\ flavor[n].evidence = flavor[n].image
  BY <1>1, ScenarioAssumption DEF Starts
<1>3. console = [c \in Consoles |-> IdleConsole] /\ checks = {}
  BY DEF Init
<1>4. RegistryTypes
  BY <1>2, <1>3, IdleConsoleType DEF RegistryTypes
<1>5. QuotaHeld
  <2>1. Registering = {}
    BY <1>3, IdleConsoleType DEF Registering
  <2>2. Cardinality(Registering) = 0
    BY <2>1, FS_EmptySet
  <2>3. Cardinality(Registered) \in Nat /\ Cardinality(Registered) <= MaxFlavors
    BY <1>2, CustomNamesFinite, FS_Subset, FS_CardinalityType DEF Registered
  <2>4. Cardinality(Consoles) \in Nat /\ Cardinality(Consoles) # 0
    BY ControlAssumption, FS_EmptySet, FS_CardinalityType
  <2>5. QED
    BY <2>2, <2>3, <2>4, ControlAssumption DEF QuotaHeld
<1>6. OneChange /\ ChecksOfRow
  BY <1>3, IdleConsoleType DEF OneChange, ChecksOfRow
<1>7. ValidIsProven
  BY <1>2 DEF ValidIsProven, Registered
<1>8. QED
  BY <1>4, <1>5, <1>6, <1>7 DEF RegistryInv

LEMMA InitRest ==
  ASSUME Init
  PROVE  /\ RepoInv /\ ScanInv /\ RewriteInv /\ ScopeInv
         /\ SecretInv /\ RefusedOnlyInRotation
<1>1. PICK s \in Scenarios : Starts(s)
  BY DEF Init
<1>2. RepoInv
  BY <1>1, ScenarioAssumption DEF Init, Starts, RepoInv
<1>3. [n \in 0 .. MaxReceive |-> 0] \in QueueType /\ 0 \in 0 .. MaxReceive
  BY ControlAssumption DEF QueueType
<1>4. ScanInv
  BY <1>3 DEF Init, ScanInv, IdleScan
<1>5. RewriteInv
  BY <1>1, <1>3, ScenarioAssumption DEF Init, Starts, RewriteInv, IdleRewriter
<1>6. ScopeInv
  BY <1>1, ControlAssumption DEF Starts, ScopeInv
<1>7. SecretInv /\ RefusedOnlyInRotation
  <2>1. secret = [live |-> 0, cached |-> 0, ttl |-> 0, recheck |-> 0, age |-> SecretTtl,
                  answer |-> "none"]
    BY DEF Init, SettledSecret
  <2>2. 0 \in 0 .. SecretTtl /\ SecretTtl \in 0 .. SecretTtl /\ 0 \in 0 .. RecheckWindow
    BY DEF SecretTtl, RecheckWindow
  <2>3. secret \in [live : Nat, cached : Nat, ttl : 0 .. SecretTtl, age : 0 .. SecretTtl,
                    recheck : 0 .. RecheckWindow,
                    answer : {"none", "accepted", "refused", "failed"}]
    BY <2>1, <2>2
  <2>4. QED
    BY <2>1, <2>3 DEF SecretInv, RefusedOnlyInRotation
<1>8. QED
  BY <1>2, <1>4, <1>5, <1>6, <1>7

LEMMA InitJobs ==
  ASSUME Init
  PROVE  JobInv
<1>1. /\ job = [r \in Runs |-> NoJob] /\ refusal = [r \in Runs |-> None]
  BY DEF Init
<1>2. /\ NoJob.stage = "none" /\ NoJob.receives = 0 /\ NoJob.ingest = IdleIngest
      /\ NoJob.image = None /\ NoJob.via = NotClaimed
  BY DEF NoJob
<1>3. 0 \in 0 .. MaxReceive /\ NotClaimed # "adopt"
  BY ControlAssumption DEF NotClaimed
<1>4. QED
  BY <1>1, <1>2, <1>3, Idle DEF JobInv, JobTyped, ReceivesHeld, AdoptHeld, NeedsHeld,
     ResolvedHeld, LaunchedHeld, Stages

LEMMA InvariantKept ==
  ASSUME IInv, Next \/ UNCHANGED vars
  PROVE  IInv'
<1>1. ScopeInv' /\ scope'.may = scope.may
  BY ScopeKept DEF IInv
<1>2. RegistryInv'
  BY <1>1, RegistryKept DEF IInv
<1>3. RepoInv' /\ ScanInv' /\ RewriteInv'
  BY RepoKept, ScanKept, RewriteKept DEF IInv
<1>4. SecretInv' /\ RefusedOnlyInRotation'
  BY <1>1, SecretKept DEF IInv
<1>5. JobInv'
  BY <1>1, <1>3, JobKept DEF IInv
<1>6. QED
  BY <1>1, <1>2, <1>3, <1>4, <1>5 DEF IInv

-----------------------------------------------------------------------------
(* Every behaviour keeps the inductive invariant, from every scenario that *)
(* meets the assumptions.                                                  *)
THEOREM ControlInvariant == Spec => []IInv
<1>1. Init => IInv
  BY InitRegistry, InitRest, InitJobs DEF IInv
<1>2. IInv /\ [Next]_vars => IInv'
  BY InvariantKept
<1>3. QED
  BY <1>1, <1>2, PTL DEF Spec

(* The rows, messages and workers keep their shape, and no message is      *)
(* received more often than its queue allows.                              *)
THEOREM ControlTypeCorrect == Spec => []TypeOK
<1>1. IInv => TypeOK
  <2> SUFFICES ASSUME IInv PROVE TypeOK
    OBVIOUS
  <2>1. secret.cached \in 0 .. secret.live /\ secret.answer \in
          {"none", "accepted", "refused", "failed"}
    BY DEF IInv, SecretInv
  <2>2. scope.may \subseteq Requests /\ scope.used \in 0 .. scope.total
    BY DEF IInv, ScopeInv
  <2>3. \A r \in Runs : JobTyped(r)
    BY DEF IInv, JobInv
  <2>4. QED
    BY <2>1, <2>2, <2>3 DEF IInv, TypeOK, RepoInv, RegistryInv, RegistryTypes, ScanInv,
       RewriteInv, JobTyped, Stages
<1>2. QED
  BY <1>1, ControlInvariant, PTL

(* A flavor that is valid has an image whose own smoke run passed.         *)
THEOREM ValidCorrect == Spec => []ValidIsProven
<1>1. IInv => ValidIsProven
  BY DEF IInv, RegistryInv, ValidIsProven
<1>2. QED
  BY <1>1, ControlInvariant, PTL

(* However many consoles register at once, the quota is passed by no more  *)
(* than the other calls in flight.                                         *)
THEOREM RegistryQuota == Spec => []RegistryBounded
<1>1. IInv => RegistryBounded
  <2> SUFFICES ASSUME IInv PROVE RegistryBounded
    OBVIOUS
  <2>1. IsFiniteSet(Registered) /\ IsFiniteSet(Registering)
    BY CustomNamesFinite, ControlAssumption, FS_Subset DEF Registered, Registering
  <2>2. /\ Cardinality(Registered) \in Nat /\ Cardinality(Registering) \in Nat
        /\ Cardinality(Consoles) \in Nat
    BY <2>1, FS_CardinalityType, ControlAssumption
  <2>3. QED
    BY <2>2, ControlAssumption DEF IInv, RegistryInv, QuotaHeld, RegistryBounded
<1>2. QED
  BY <1>1, ControlInvariant, PTL

(* GitHub's delivery is refused only within the cache's time to live after *)
(* a rotation, however many rotations, deliveries and strangers there are. *)
THEOREM DoorCorrect == Spec => []RefusedOnlyInRotation
<1>1. IInv => RefusedOnlyInRotation
  BY DEF IInv
<1>2. QED
  BY <1>1, ControlInvariant, PTL

(* No job is claimed by adoption in a repository that never adopted.       *)
THEOREM AdoptCorrect == Spec => []AdoptNeedsOptIn
<1>1. IInv => AdoptNeedsOptIn
  BY DEF IInv, JobInv, AdoptHeld, AdoptNeedsOptIn
<1>2. QED
  BY <1>1, ControlInvariant, PTL

(* What is launched is built-in, or has passed its own validation.         *)
THEOREM LaunchedCorrect == Spec => []LaunchedIsProven
<1>1. IInv => LaunchedIsProven
  BY DEF IInv, JobInv, LaunchedHeld, LaunchedIsProven
<1>2. QED
  BY <1>1, ControlInvariant, PTL

(* A job that names a custom flavor never silently runs on a built-in one. *)
THEOREM SilentCorrect == Spec => []NoSilentBuiltin
<1>1. IInv => NoSilentBuiltin
  BY DEF IInv, JobInv, ResolvedHeld, BuiltinExcused, NoSilentBuiltin
<1>2. QED
  BY <1>1, ControlInvariant, PTL

(* Without a failed read, the options of a job are those the tables held.  *)
LEMMA OptionsMove ==
  ASSUME JobInv, BlindInv, scope'.may = scope.may, NEW r \in Runs, NEW rec,
         job' = [job EXCEPT ![r] = rec],
         "fault" \notin scope.may =>
           \/ rec.opts = rec.told
           \/ rec.opts = job[r].opts /\ rec.told = job[r].told
  PROVE  BlindInv'
<1>1. DOMAIN job = Runs
  BY DEF JobInv
<1>2. job'[r] = rec /\ \A q \in Runs \ {r} : job'[q] = job[q]
  BY <1>1
<1>3. QED
  BY <1>2 DEF BlindInv

LEMMA BlindKept ==
  ASSUME JobInv, BlindInv, Next \/ UNCHANGED vars, scope'.may = scope.may
  PROVE  BlindInv'
<1>1. \A q \in Runs : DOMAIN job[q] = DOMAIN NoJob
  BY DEF JobInv, JobTyped
<1>2. ASSUME NEW r \in Runs, NEW rec, job' = [job EXCEPT ![r] = rec],
             rec.opts = job[r].opts, rec.told = job[r].told
      PROVE  BlindInv'
  BY <1>2, OptionsMove
<1>3. ASSUME NEW r \in Runs, NEW gate, NEW allowed, NEW mode, NEW group,
             Refuse(r, gate, allowed, mode, group)
      PROVE  BlindInv'
  <2> DEFINE rec == [job[r] EXCEPT !.ingest = IdleIngest]
  <2>1. job' = [job EXCEPT ![r] = rec]
    BY <1>3 DEF Refuse
  <2>2. rec.opts = job[r].opts /\ rec.told = job[r].told
    BY <1>1 DEF NoJob
  <2> HIDE DEF rec
  <2>3. QED
    BY <1>2, <2>1, <2>2
<1>4. CASE ClaimNext
  <2>1. PICK r \in Runs : \/ \E p, workflow, name : QueueJob(r, p, workflow, name)
                          \/ Redeliver(r) \/ IngestConfig(r) \/ IngestClaim(r)
                          \/ IngestGate(r)
    BY <1>4 DEF ClaimNext
  <2>2. ASSUME NEW p, NEW workflow, NEW name, QueueJob(r, p, workflow, name) PROVE BlindInv'
    <3> DEFINE rec == [NoJob EXCEPT !.text = tree[p], !.name = name, !.workflow = workflow,
                         !.ingest.phase = "config", !.delivered = 1]
    <3>1. job' = [job EXCEPT ![r] = rec]
      BY <2>2 DEF QueueJob
    <3>2. rec.opts = rec.told
      BY DEF NoJob
    <3> HIDE DEF rec
    <3>3. QED
      BY <3>1, <3>2, OptionsMove
  <2>4. CASE Redeliver(r)
    <3>1. Receive(r).opts = job[r].opts /\ Receive(r).told = job[r].told
      BY <1>1 DEF Receive, NoJob
    <3>2. job' = [job EXCEPT ![r] = Receive(r)]
      BY <2>4 DEF Redeliver
    <3>3. QED
      BY <1>2, <3>1, <3>2
  <2>5. ASSUME NEW w, job' = [job EXCEPT ![r].ingest = w] PROVE BlindInv'
    <3> DEFINE rec == [job[r] EXCEPT !.ingest = w]
    <3>1. job' = [job EXCEPT ![r] = rec]
      BY <2>5
    <3>2. rec.opts = job[r].opts /\ rec.told = job[r].told
      BY <1>1 DEF NoJob
    <3> HIDE DEF rec
    <3>3. QED
      BY <1>2, <3>1, <3>2
  <2>6. CASE IngestConfig(r)
    BY <1>3, <2>5, <2>6 DEF IngestConfig
  <2>7. CASE IngestClaim(r)
    <3>1. ASSUME NEW via,
                 job' = [job EXCEPT ![r].ingest.phase = "gate", ![r].ingest.via = via]
          PROVE  BlindInv'
      <4> DEFINE rec == [job[r] EXCEPT !.ingest.phase = "gate", !.ingest.via = via]
      <4>1. job' = [job EXCEPT ![r] = rec]
        BY <3>1
      <4>2. rec.opts = job[r].opts /\ rec.told = job[r].told
        BY <1>1 DEF NoJob
      <4> HIDE DEF rec
      <4>3. QED
        BY <1>2, <4>1, <4>2
    <3>2. QED
      BY <1>3, <2>7, <3>1 DEF IngestClaim
  <2>8. CASE Claim(r)
    <3> DEFINE rec == [job[r] EXCEPT !.ingest = IdleIngest,
           !.stage = IF @ = "none" THEN "claimed" ELSE @,
           !.via = IF job[r].stage = "none" THEN job[r].ingest.via ELSE @]
    <3>1. job' = [job EXCEPT ![r] = rec]
      BY <2>8 DEF Claim
    <3>2. rec.opts = job[r].opts /\ rec.told = job[r].told
      BY <1>1 DEF NoJob
    <3> HIDE DEF rec
    <3>3. QED
      BY <1>2, <3>1, <3>2
  <2>9. CASE IngestGate(r)
    BY <1>3, <2>8, <2>9 DEF IngestGate
  <2>10. QED
    BY <2>1, <2>2, <2>4, <2>6, <2>7, <2>9
<1>5. CASE RoutingNext
  <2>1. PICK r \in Runs : ProvLookup(r) \/ ProvResolve(r) \/ ProvLaunch(r)
    BY <1>5 DEF RoutingNext
  <2>2. CASE ProvLookup(r)
    <3>1. PICK row, known :
            /\ \/ row = repo /\ known = KnownJobs
               \/ "fault" \in scope.may
            /\ job' = [job EXCEPT ![r].stage = "looked up", ![r].receives = @ + 1,
                      ![r].opts = OptionsOf(r, row, known),
                      ![r].told = OptionsOf(r, repo, KnownJobs)]
      BY <2>2 DEF ProvLookup, Spend, Can
    <3> DEFINE opts == OptionsOf(r, row, known)
               told == OptionsOf(r, repo, KnownJobs)
               rec == [job[r] EXCEPT !.stage = "looked up", !.receives = @ + 1,
                                     !.opts = opts, !.told = told]
    <3>2. "fault" \notin scope.may => opts = told
      BY <3>1
    <3>3. job' = [job EXCEPT ![r] = rec]
      BY <3>1
    <3> HIDE DEF opts, told
    <3>4. rec.opts = opts /\ rec.told = told
      BY <1>1 DEF NoJob
    <3> HIDE DEF rec
    <3>5. QED
      BY <3>2, <3>3, <3>4, OptionsMove
  <2>3. CASE job' = [job EXCEPT ![r] = Retry(r)]
    <3>1. Retry(r).opts = Retry(r).told
      BY <1>1 DEF Retry, NoJob
    <3>2. QED
      BY <2>3, <3>1, OptionsMove
  <2>4. ASSUME NEW stage, NEW flav, NEW image,
               \/ job' = [job EXCEPT ![r] = Advance(r, stage)]
               \/ job' = [job EXCEPT ![r].stage = stage, ![r].flavor = flav]
               \/ job' = [job EXCEPT ![r].image = image, ![r].stage = stage]
        PROVE  BlindInv'
    <3>1. PICK rec : /\ job' = [job EXCEPT ![r] = rec]
                     /\ \/ rec = [job[r] EXCEPT !.stage = stage]
                        \/ rec = [job[r] EXCEPT !.stage = stage, !.flavor = flav]
                        \/ rec = [job[r] EXCEPT !.image = image, !.stage = stage]
      BY <2>4 DEF Advance
    <3>2. rec.opts = job[r].opts /\ rec.told = job[r].told
      BY <1>1, <3>1 DEF NoJob
    <3>3. QED
      BY <1>2, <3>1, <3>2
  <2>5. CASE ProvResolve(r)
    <3>1. \/ job' = [job EXCEPT ![r] = Retry(r)]
          \/ job' = [job EXCEPT ![r] = Advance(r, "failed")]
          \/ \E flav : job' = [job EXCEPT ![r].stage = "resolved", ![r].flavor = flav]
      BY <2>5 DEF ProvResolve, Route
    <3>2. QED
      BY <2>3, <2>4, <3>1
  <2>6. CASE ProvLaunch(r)
    <3>1. \/ job' = [job EXCEPT ![r] = Retry(r)]
          \/ \E image, stage : job' = [job EXCEPT ![r].image = image, ![r].stage = stage]
      BY <2>6 DEF ProvLaunch
    <3>2. QED
      BY <2>3, <2>4, <3>1
  <2>7. QED
    BY <2>1, <2>2, <2>5, <2>6
<1>6. CASE UNCHANGED job
  BY <1>6 DEF BlindInv
<1>7. QED
  BY <1>4, <1>5, <1>6, RegistryFrame, ConfigFrame, DiscoveryFrame, RewriteFrame, DoorFrame
     DEF Next, vars, jobVars

-----------------------------------------------------------------------------
(* A job is failed for good only by a verdict on what the tables held, but *)
(* for one whose row or analyses could not be read.                        *)
VerdictStep ==
  \A r \in Runs :
    job'[r].stage = "failed" /\ job[r].stage # "failed" =>
      \/ MintRefusal(LabelsOf(r)) # "mint"
      \/ Unresolved(r, job[r].told)
      \/ LookedUpBlind(r) /\ Unresolved(r, job[r].opts)

LEMMA VerdictOfResolve ==
  ASSUME JobInv, NEW r \in Runs, ProvResolve(r), job'[r].stage = "failed"
  PROVE  Unresolved(r, job[r].opts)
<1>1. PICK read \in {RoutableCustomFlavors, Fault} :
        Route(r, WithCustom(job[r].opts,
                  IF ~job[r].opts.needs \/ read = Fault THEN {} ELSE read), read = Fault)
  BY DEF ProvResolve
<1> DEFINE opts == WithCustom(job[r].opts,
                     IF ~job[r].opts.needs \/ read = Fault THEN {} ELSE read)
           res  == ResolveFlavor(job[r].text.labels, opts)
<1>2. JobTyped(r) /\ NeedsHeld(r) /\ job[r].stage = "looked up" /\ DOMAIN job = Runs
  BY DEF JobInv, ProvResolve
<1>3. "stage" \in DOMAIN job[r]
  BY <1>2 DEF JobTyped, NoJob
<1>4. res.unresolved # NoFlavor /\ read # Fault
  <2>1. CASE res.unresolved = NoFlavor
    <3>1. job' = [job EXCEPT ![r].stage = "resolved", ![r].flavor = res.flavor]
      BY <1>1, <2>1 DEF Route
    <3> HIDE DEF res
    <3>2. job'[r].stage = "resolved"
      BY <1>2, <1>3, <3>1
    <3>3. QED
      BY <3>2
  <2>2. CASE res.unresolved # NoFlavor /\ read = Fault
    <3>1. job' = [job EXCEPT ![r] = Retry(r)]
      BY <1>1, <2>2 DEF Route
    <3>2. job'[r].stage \in {"claimed", "dlq"}
      BY <1>2, <1>3, <3>1 DEF Retry
    <3>3. QED
      BY <3>2
  <2>3. QED
    BY <2>1, <2>2
<1>5. job[r].opts.needs
  <2> SUFFICES ASSUME ~job[r].opts.needs PROVE FALSE
    OBVIOUS
  <2>1. opts.map = job[r].opts.map /\ opts.dflt = job[r].opts.dflt
    BY DEF WithCustom
  <2>2. ~NeedsCustomFlavors(LabelsOf(r), job[r].opts.map, job[r].opts.dflt)
    BY <1>2 DEF NeedsHeld
  <2> HIDE DEF opts
  <2>3. QED
    BY <1>4, <2>1, <2>2, UnneededNeverMissed DEF LabelsOf
<1>6. QED
  BY <1>4, <1>5 DEF Unresolved

LEMMA VerdictKept ==
  ASSUME JobInv, BlindInv, Next \/ UNCHANGED vars
  PROVE  VerdictStep
<1> SUFFICES ASSUME NEW r \in Runs, job'[r].stage = "failed", job[r].stage # "failed"
             PROVE  MintRefusal(LabelsOf(r)) # "mint" \/ Unresolved(r, job[r].opts)
  BY DEF VerdictStep, BlindInv, LookedUpBlind
<1>1. DOMAIN job = Runs /\ \A q \in Runs : JobTyped(q)
  BY DEF JobInv
<1>2. \A q \in Runs : DOMAIN job[q] = DOMAIN NoJob
  BY <1>1 DEF JobTyped
<1>3. PICK q \in Runs : /\ ClaimNext \/ RoutingNext
                        /\ \A s \in Runs \ {q} : job'[s] = job[s]
                        /\ \/ ProvResolve(q) \/ ProvLaunch(q)
                           \/ job'[q].stage \in {job[q].stage, "none", "claimed", "looked up"}
  <2>1. CASE ClaimNext
    <3>1. PICK q \in Runs : \/ \E p, workflow, name : QueueJob(q, p, workflow, name)
                            \/ Redeliver(q) \/ IngestConfig(q) \/ IngestClaim(q)
                            \/ IngestGate(q)
      BY <2>1 DEF ClaimNext
    <3>2. \A s \in Runs \ {q} : job'[s] = job[s]
      BY <1>1, <3>1 DEF QueueJob, Redeliver, IngestConfig, IngestClaim, IngestGate, Refuse,
         Claim
    <3>3. job'[q].stage \in {job[q].stage, "none", "claimed"}
      <4>1. CASE \E p, workflow, name : QueueJob(q, p, workflow, name)
        BY <1>1, <4>1 DEF QueueJob, NoJob
      <4>2. CASE Redeliver(q)
        BY <1>1, <1>2, <4>2 DEF Redeliver, Receive, NoJob
      <4>3. ASSUME NEW gate, NEW allowed, NEW mode, NEW group,
                   Refuse(q, gate, allowed, mode, group)
            PROVE  job'[q].stage = job[q].stage
        BY <1>1, <1>2, <4>3 DEF Refuse, NoJob
      <4>4. CASE IngestConfig(q)
        BY <1>1, <1>2, <4>3, <4>4 DEF IngestConfig, NoJob
      <4>5. CASE IngestClaim(q)
        BY <1>1, <1>2, <4>3, <4>5 DEF IngestClaim, NoJob
      <4>6. CASE Claim(q)
        BY <1>1, <1>2, <4>6 DEF Claim, NoJob
      <4>7. CASE IngestGate(q)
        BY <4>3, <4>6, <4>7 DEF IngestGate
      <4>8. QED
        BY <3>1, <4>1, <4>2, <4>4, <4>5, <4>7
    <3>4. QED
      BY <2>1, <3>2, <3>3
  <2>2. CASE RoutingNext
    <3>1. PICK q \in Runs : ProvLookup(q) \/ ProvResolve(q) \/ ProvLaunch(q)
      BY <2>2 DEF RoutingNext
    <3>2. \A s \in Runs \ {q} : job'[s] = job[s]
      BY <1>1, <3>1 DEF ProvLookup, ProvResolve, ProvLaunch, Route
    <3>3. ProvLookup(q) => job'[q].stage = "looked up"
      BY <1>1, <1>2, ZenonT(60) DEF ProvLookup, NoJob
    <3>4. QED
      BY <2>2, <3>1, <3>2, <3>3
  <2>3. CASE UNCHANGED job
    BY <2>3
  <2>4. QED
    BY <2>1, <2>2, <2>3, RegistryFrame, ConfigFrame, DiscoveryFrame, RewriteFrame, DoorFrame
       DEF Next, vars, jobVars
<1>4. q = r
  BY <1>3
<1>5. CASE ProvResolve(r)
  BY <1>5, VerdictOfResolve
<1>6. CASE ProvLaunch(r)
  <2>1. CASE job' = [job EXCEPT ![r] = Retry(r)]
    <3>1. job'[r].stage \in {"claimed", "dlq"}
      BY <1>1, <1>2, <2>1 DEF Retry, NoJob
    <3>2. QED
      BY <3>1
  <2>2. CASE \E image : job' = [job EXCEPT ![r].image = image,
                ![r].stage = IF MintRefusal(LabelsOf(r)) = "mint" THEN "launched" ELSE "failed"]
    <3>1. job'[r].stage = IF MintRefusal(LabelsOf(r)) = "mint" THEN "launched" ELSE "failed"
      BY <1>1, <1>2, <2>2 DEF NoJob
    <3>2. QED
      BY <3>1
  <2>3. QED
    BY <1>6, <2>1, <2>2 DEF ProvLaunch
<1>7. QED
  BY <1>3, <1>4, <1>5, <1>6

(* No job is failed for good by a failed read of the registry, nor, unless *)
(* its repository's row was unread, for a flavor that the row, when it was *)
(* read, does not ask for (provision/handler.ts).                          *)
THEOREM VerdictCorrect == Spec => FailsOnlyOnVerdict
<1>1. Init => BlindInv
  BY DEF Init, BlindInv, NoJob
<1>2. IInv /\ BlindInv /\ [Next]_vars => BlindInv'
  BY BlindKept, ScopeKept DEF IInv
<1>3. IInv /\ BlindInv /\ [Next]_vars => [VerdictStep]_vars
  BY VerdictKept DEF IInv
<1>4. QED
  BY <1>1, <1>2, <1>3, ControlInvariant, PTL DEF Spec, FailsOnlyOnVerdict, VerdictStep

-----------------------------------------------------------------------------
(* A commit replaces exactly the text it was planned from.                 *)
ClobberStep ==
  \A p \in Paths :
    Commits(p) =>
      /\ branch.files[p] # None
      /\ \E lca \in BuiltinLabels :
           branch'.files[p] = [branch.files[p] EXCEPT !.labels = RewriteRunsOnValue(@, lca)]

(* Only the rewrite worker commits and moves on: it commits a plan of its. *)
LEMMA CommitOfPlan ==
  ASSUME RewriteInv, Next \/ UNCHANGED vars, NEW p \in Paths, Commits(p)
  PROVE  \E plan \in rewriter.plans :
           /\ PlanIsRewrite(plan) /\ plan.path = p
           /\ branch.files[p] = plan.text /\ branch'.files[p] = plan.next
<1>1. branch # NoBranch /\ branch' # branch /\ rewriter' # rewriter
  BY DEF Commits
<1>2. PICK plan \in rewriter.plans : PutFile(plan)
  <2>1. RewriteNext
    BY <1>1, RegistryFrame, ConfigFrame, DiscoveryFrame, ClaimFrame, RoutingFrame, DoorFrame
       DEF Next, vars, rewriteVars
  <2>2. QED
    BY <1>1, <2>1 DEF RewriteNext, RequestRewrite, RewriteBegin, RewriteProbe, RewriteRead,
       RewritePlanned, EnsureBranch, PutsDone, FindOpenPullRequest, CreatePullRequest,
       RewriteFails, MergePullRequest, ClosePullRequest, EditBranch, DeleteBranch,
       githubVars, rewriteVars
<1>3. /\ branch.files[plan.path] = plan.text
      /\ branch' = Committed(plan.path, plan.next)
  BY <1>1, <1>2 DEF PutFile
<1>4. plan.path = p /\ branch'.files[p] = plan.next
  BY <1>1, <1>3, CommittedForm DEF Commits
<1>5. PlanIsRewrite(plan)
  BY DEF RewriteInv
<1>6. QED
  BY <1>3, <1>4, <1>5

LEMMA ClobberKept ==
  ASSUME RewriteInv, Next \/ UNCHANGED vars
  PROVE  ClobberStep
BY CommitOfPlan DEF ClobberStep, PlanIsRewrite

THEOREM NoClobberCorrect == Spec => NoClobber
<1>1. IInv /\ [Next]_vars => [ClobberStep]_vars
  BY ClobberKept DEF IInv
<1>2. QED
  BY <1>1, ControlInvariant, PTL DEF Spec, NoClobber, ClobberStep

=============================================================================
