---------------------------- MODULE ControlState ----------------------------
(***************************************************************************)
(* The shared state of the control plane around one repository: the rows   *)
(* of the table that the console, the webhook handler, Discovery, the      *)
(* rewrite worker and Provision read and write with no lock between them,  *)
(* and the repository itself, which is GitHub's.                           *)
(***************************************************************************)
EXTENDS RewriteRules

CONSTANTS
  Paths,       (* workflow files of the repository, one job in each        *)
  JobName,     (* the name, or id, of the job in each file                 *)
  Legs,        (* the names a matrix would render of that job              *)
  Jobs,        (* job texts an author may push                             *)
  FlavorMaps,  (* FlavorMaps an operator may store                         *)
  Defaults,    (* default flavors an operator may choose                   *)
  Allowlists,  (* runner-label allowlists an operator may store            *)
  Images,      (* image ARNs a custom flavor may point at                  *)
  GoodImages,  (* those whose smoke run passes                             *)
  Runs,        (* workflow jobs GitHub queues                              *)
  Consoles,    (* management-API invocations that may overlap              *)
  Scans,       (* Discovery invocations that may overlap                   *)
  MaxFlavors,  (* custom flavors an installation may register              *)
  MaxReceive,  (* receives of a queue message before its DLQ               *)
  Scenarios,   (* where a behaviour starts, what it may meet, how often    *)
  None,        (* the absent value of an optional field; no such file      *)
  Fault        (* what a read returns when the table throws                *)

Operator ==
  {"register", "revalidate", "repoint", "delete", "patch", "map", "allow",
   "rescan", "rewrite"}
GitHub  == {"push", "install", "suspend", "queue", "redeliver", "merge", "close",
            "edit", "unbranch", "rotate", "deliver"}
Mishaps == {"fault", "lost", "github", "overlap", "junk"}
Requests == Operator \union GitHub \union Mishaps

ModesSet == RepoModes \union {NoMode}

ASSUME ControlAssumption ==
  /\ GoodImages \subseteq Images
  /\ MaxFlavors \in Nat \ {0}
  /\ MaxReceive \in Nat \ {0}
  /\ \A s \in Scenarios : s.may \subseteq Requests /\ s.total \in Nat
  /\ None # Fault
  /\ IsFiniteSet(Consoles) /\ Consoles # {}
  /\ JobName \in [Paths -> STRING] /\ Legs \in [Paths -> SUBSET STRING]
  /\ \A p, q \in Paths : JobName[p] = JobName[q] => Legs[p] = Legs[q]
  /\ IsFiniteSet(Paths)

VARIABLES
  repo,      (* the repository's row                                       *)
  install,   (* the installation's row                                     *)
  allow,     (* the runner-label parameter, and a container's cached copy  *)
  secret,    (* the webhook secret, and a container's cached copy          *)
  flavor,    (* the custom flavor rows                                     *)
  analysis,  (* the stored analysis of each workflow file                  *)
  tree,      (* the default branch                                         *)
  branch,    (* the rewrite branch, NoBranch before it is created          *)
  pr,        (* its pull request                                           *)
  console,   (* management-API invocations between a read and a write      *)
  checks,    (* validations of custom images under way                     *)
  scanQ,     (* discovery requests waiting, by receives so far; DLQ last   *)
  scan,      (* Discovery invocations                                      *)
  rewriteQ,  (* rewrite requests waiting, by receives so far; the DLQ last *)
  rewriter,  (* the rewrite invocation                                     *)
  job,       (* GitHub's queued jobs, from webhook to launch               *)
  refusal,   (* the stored refusal of each job                             *)
  scope      (* what this behaviour may still meet                         *)

vars == <<repo, install, allow, secret, flavor, analysis, tree, branch, pr, console,
          checks, scanQ, scan, rewriteQ, rewriter, job, refusal, scope>>

registryVars == <<flavor, console, checks>>
repoVars     == <<repo, install, allow, secret>>
githubVars   == <<tree, branch, pr>>
scanVars     == <<scanQ, scan, analysis>>
rewriteVars  == <<rewriteQ, rewriter>>
jobVars      == <<job, refusal>>

(* A request or a mishap this behaviour has not used up.                   *)
Can(r)   == r \in scope.may /\ scope.used < scope.total
Spend(r) == Can(r) /\ scope' = [scope EXCEPT !.used = @ + 1]
Free     == UNCHANGED scope

(* Whether this behaviour lets two scans, or two validations of a flavor,  *)
(* run at once.                                                            *)
Overlap  == "overlap" \in scope.may

(* A read of the table that may fail.                                      *)
Reads(value, result) ==
  \/ result = value /\ Free
  \/ result = Fault /\ Spend("fault")

(* A best-effort send that may be lost.                                    *)
Sends(sent) ==
  \/ sent = TRUE /\ Free
  \/ sent = FALSE /\ Spend("lost")

(* A file no scan has stored, a rewrite branch that does not exist.        *)
Unscanned == [parsed |-> FALSE]
NoBranch  == [ahead |-> FALSE]

Row(name) == flavor[name]
Registered == {n \in CustomNames : flavor[n] # None}

(* The catalog entry of a stored row.                                      *)
CatalogEntry(name, caps) ==
  [name |-> name, label |-> LabelOfName(name), caps |-> caps,
   vcpu |-> 2, memoryMb |-> 4096, custom |-> TRUE]

ToCatalogFlavor(name) == CatalogEntry(name, flavor[name].caps)

IsRoutableState(state) == state = "valid"

RoutableCustomFlavors ==
  {ToCatalogFlavor(n) : n \in {n \in Registered : IsRoutableState(flavor[n].state)}}

=============================================================================
