------------------------------ MODULE Catalog -------------------------------
(***************************************************************************)
(* The flavor catalog (src/shared/flavor-catalog.ts, microvm/flavors.json) *)
(* and the runner-label predicates of src/ingest/adopt.ts.  A flavor is a  *)
(* runner image; a job selects one by the labels of its `runs-on`.  Labels *)
(* are compared without case or padding in the code, so here they stand    *)
(* already lower-cased and trimmed.                                        *)
(***************************************************************************)
EXTENDS Naturals, Sequences, FiniteSets

CONSTANT CustomBases   (* operator-chosen base names, ascending; no repeats *)

ASSUME CatalogAssumption == CustomBases \in Seq(STRING)

Flavor(name, label, caps, vcpu, memoryMb) ==
  [name |-> name, label |-> label, caps |-> caps, vcpu |-> vcpu,
   memoryMb |-> memoryMb, custom |-> FALSE]

(* flavors.json, compiled into every bundle.                               *)
BuiltinFlavors ==
  {Flavor("base",   "lambda-ci",        {},         2, 4096),
   Flavor("node",   "lambda-ci-node",   {"node"},   2, 4096),
   Flavor("python", "lambda-ci-python", {"python"}, 2, 4096),
   Flavor("java",   "lambda-ci-java",   {"java"},   2, 8192),
   Flavor("go",     "lambda-ci-go",     {"go"},     2, 4096),
   Flavor("rust",   "lambda-ci-rust",   {"rust"},   4, 8192),
   Flavor("docker", "lambda-ci-docker", {"docker"}, 4, 8192)}

BuiltinNames  == {f.name : f \in BuiltinFlavors}
BuiltinLabels == {f.label : f \in BuiltinFlavors}

Bases == {CustomBases[i] : i \in DOMAIN CustomBases}

CustomFlavorName(base)  == "custom-" \o base
CustomFlavorLabel(base) == "lambda-ci-custom-" \o base

CustomNames  == {CustomFlavorName(b) : b \in Bases}
CustomLabels == {CustomFlavorLabel(b) : b \in Bases}
FlavorNames  == BuiltinNames \union CustomNames

(* The namespaces are prefixes; over the names in play, the same sets.     *)
IsCustomFlavorName(name)   == name \in CustomNames
IsCustomFlavorLabel(label) == label \in CustomLabels

LabelOfName(name) ==
  CHOOSE l \in CustomLabels :
    \E b \in Bases : CustomFlavorName(b) = name /\ CustomFlavorLabel(b) = l

(* Built-ins win: a custom row that repeats a built-in name or label.      *)
BuiltinCollision(name, label) == name \in BuiltinNames \/ label \in BuiltinLabels

ComposeCatalog(custom) ==
  BuiltinFlavors \union
    {[c EXCEPT !.custom = TRUE] :
       c \in {c \in custom : ~BuiltinCollision(c.name, c.label)}}

ByName(catalog, name) == {f \in catalog : f.name = name}
InCatalog(catalog, name) == ByName(catalog, name) # {}

RequiredClaimLabels(custom) == {f.label : f \in ComposeCatalog(custom)}

-----------------------------------------------------------------------------
(* Ties between equally long labels are broken by flavor name, ascending.  *)
BuiltinOrder == <<"base", "docker", "go", "java", "node", "python", "rust">>

NameRank(name) ==
  IF name \in BuiltinNames
  THEN CHOOSE i \in DOMAIN BuiltinOrder : BuiltinOrder[i] = name
  ELSE CHOOSE i \in DOMAIN CustomBases : CustomFlavorName(CustomBases[i]) = name

MoreSpecific(f, g) ==
  \/ Len(f.label) > Len(g.label)
  \/ /\ Len(f.label) = Len(g.label)
     /\ NameRank(f.name) < NameRank(g.name)

-----------------------------------------------------------------------------
(* GitHub-hosted labels a repository in adopt mode hands over, all to the  *)
(* capability-less `base`; labels no arm64 Linux runner can serve.         *)
AdoptLabels == {"ubuntu-latest", "ubuntu-24.04", "ubuntu-22.04", "ubuntu-20.04"}
AdoptFlavor == "base"

NonLinuxLabels == {"windows-latest", "macos-latest"}
X86Labels      == {"x64", "x86", "x86_64", "x86-64", "amd64", "i386", "i686"}
SelfHosted     == "self-hosted"

IsAdoptLabel(label)   == label \in AdoptLabels
IncompatibleLabels    == NonLinuxLabels \union X86Labels
IncompatibleRunnerLabel(labels) == labels \intersect IncompatibleLabels # {}

(* A job is given to runners of a group; only the default group is served. *)
DefaultGroup == "default"
UnreachableRunnerGroup(group) == group \notin {"", DefaultGroup}

=============================================================================
