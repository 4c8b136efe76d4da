----------------------------- MODULE FlavorRules ----------------------------
(***************************************************************************)
(* Which image a claimed job runs on (src/provision/flavor.ts) and with    *)
(* which labels its runner is registered (src/provision/labels.ts).        *)
(* Discovery uses the same resolution for the route it stores.             *)
(***************************************************************************)
EXTENDS ClaimRules, FiniteSetsExt

NoFlavor  == "none"
NoMap     == [l \in {} |-> NoFlavor]       \* an empty FlavorMap

LabelSet(labels) == {labels[i] : i \in DOMAIN labels}

MapValues(map) == {map[l] : l \in DOMAIN map}

(* A resolution: the flavor, the rule that chose it, the flavor an upgrade *)
(* replaced, and the custom flavor the job named that the catalog lacks.   *)
Resolution(flavor, rule) ==
  [flavor |-> flavor, rule |-> rule, replaced |-> NoFlavor, unresolved |-> NoFlavor]

(* Mutant: nothing is reported, and the job falls through to a built-in.   *)
UnresolvedNever(catalog, labels, map) == NoFlavor

(* A custom flavor this job names and the catalog lacks.  A map entry that *)
(* redefines the label to a catalog flavor is an operator's override.      *)
UnresolvedNamedCustom(catalog, labels, map) ==
  LET remapped(l) == l \in DOMAIN map /\ InCatalog(catalog, map[l])
      lost   == {l \in labels : /\ IsCustomFlavorLabel(l)
                                /\ \A f \in catalog : f.label # l
                                /\ ~remapped(l)}
      absent == {map[l] : l \in labels \intersect DOMAIN map}
      gone   == {n \in absent : IsCustomFlavorName(n) /\ ~InCatalog(catalog, n)}
  IN  IF lost # {} THEN CHOOSE l \in lost : TRUE
      ELSE IF gone # {} THEN CHOOSE n \in gone : TRUE
      ELSE NoFlavor

(* Custom flavors are read only for a job or a repository that names one.  *)
NeedsCustomFlavors(labels, map, dflt) ==
  \/ \E l \in labels : IsCustomFlavorLabel(l)
  \/ \E n \in MapValues(map) : IsCustomFlavorName(n)
  \/ IsCustomFlavorName(dflt)

-----------------------------------------------------------------------------
(* The longest label wins, whatever the order of the catalog.              *)
ExplicitLabelMatch(catalog, labels) ==
  LET hits == {f \in catalog : f.label \in labels}
  IN  {f \in hits : \A g \in hits \ {f} : MoreSpecific(f, g)}

(* The smallest built-in with a capability; never a custom flavor.         *)
SmallestWithCapability(cap) ==
  LET able == {f \in BuiltinFlavors : cap \in f.caps}
  IN  CHOOSE f \in able :
        \A g \in able \ {f} :
          f.vcpu < g.vcpu \/ (f.vcpu = g.vcpu /\ f.memoryMb <= g.memoryMb)

(* The upgrade replaces the flavor: what else it could do is lost.         *)
ApplySignalUpgrade(catalog, current, needsDocker) ==
  IF needsDocker /\ \A f \in ByName(catalog, current.flavor) : "docker" \notin f.caps
  THEN [current EXCEPT !.flavor = SmallestWithCapability("docker").name,
                       !.replaced = current.flavor]
  ELSE current

(* The first label of the job that the map sends to a catalog flavor.      *)
FirstMapHit(catalog, labels, map) ==
  LET hits == {i \in DOMAIN labels :
                 labels[i] \in DOMAIN map /\ InCatalog(catalog, map[labels[i]])}
  IN  {i \in hits : \A j \in hits : i <= j}

(* The flavor chosen before any upgrade: the map, then an explicit label,  *)
(* then a standard label of an adopted repository, then the default.       *)
SelectFlavor(catalog, labels, opts) ==
  LET mapped   == FirstMapHit(catalog, labels, opts.map)
      explicit == ExplicitLabelMatch(catalog, LabelSet(labels))
  IN  IF mapped # {} THEN Resolution(opts.map[labels[CHOOSE i \in mapped : TRUE]], "map")
      ELSE IF explicit # {} THEN Resolution((CHOOSE f \in explicit : TRUE).name, "label")
      ELSE IF opts.mode = "adopt" /\ LabelSet(labels) \intersect AdoptLabels # {}
      THEN Resolution(AdoptFlavor, "adopt")
      ELSE IF InCatalog(catalog, opts.dflt) THEN Resolution(opts.dflt, "default")
      ELSE Resolution("base", "fallback")

(* A custom default that the catalog lacks was named only if it was needed.*)
ResolveFlavor(labels, opts) ==
  LET catalog == ComposeCatalog(opts.custom)
      named   == UnresolvedNamedCustom(catalog, LabelSet(labels), opts.map)
      chosen  == SelectFlavor(catalog, labels, opts)
      lapsed  == IF chosen.rule = "fallback" /\ IsCustomFlavorName(opts.dflt)
                 THEN opts.dflt ELSE NoFlavor
  IN  [ApplySignalUpgrade(catalog, chosen, opts.docker)
         EXCEPT !.unresolved = IF named # NoFlavor THEN named ELSE lapsed]

-----------------------------------------------------------------------------
(* The runner of a job carries exactly the job's labels; an expression no  *)
(* job was expanded from is no label.                                      *)
Expression    == "${{ matrix.os }}"
MaxJitLabels  == 20

JitRunnerLabels(labels) == labels \ {Expression}

(* What Provision checks before it mints: each refusal is final.           *)
MintRefusal(labels) ==
  LET jit == JitRunnerLabels(labels)
  IN  IF jit = {} THEN "no-labels"
      ELSE IF IncompatibleRunnerLabel(jit) THEN "incompatible"
      ELSE IF Cardinality(jit) > MaxJitLabels THEN "too-many"
      ELSE "mint"

(* A failed mint is retried unless GitHub's answer says it never succeeds: *)
(* a 403 that speaks of rate limits is no refusal.                         *)
ClassifyMintFailure(code, limited) ==
  IF code = 0 \/ code = 429 \/ code >= 500 \/ (code = 403 /\ limited)
  THEN "transient" ELSE "permanent"

=============================================================================
