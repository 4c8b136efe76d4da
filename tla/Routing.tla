------------------------------ MODULE Routing -------------------------------
(***************************************************************************)
(* How Provision turns a claimed job into an image and a runner's labels   *)
(* (src/provision/handler.ts, up to the mint).  Everything is read again:  *)
(* the claim decided that the job is ours, not what it runs on.            *)
(***************************************************************************)
EXTENDS Claiming

BuiltinImage == "built-in image"

Advance(r, stage) == [job[r] EXCEPT !.stage = stage]

(* A throw hands the message back, until its last receive.                 *)
Retry(r) ==
  [job[r] EXCEPT !.stage = IF job[r].receives < MaxReceive THEN "claimed" ELSE "dlq",
                 !.opts = None, !.told = None, !.flavor = NoFlavor]

(* What the row and the analyses that were read say of a job; the claim    *)
(* tells that the repository had adopted.                                  *)
OptionsOf(r, row, known) ==
  LET seen  == Seen(row)
      match == MatchJobAnalysis(known, job[r].workflow, job[r].name)
      mode  == IF seen.mode # NoMode THEN seen.mode
               ELSE IF job[r].via = "adopt" THEN "adopt" ELSE NoMode
  IN  [map |-> seen.map, mode |-> mode, dflt |-> seen.dflt,
       docker |-> \E a \in match : a.docker,
       needs |-> NeedsCustomFlavors(LabelsOf(r), seen.map, seen.dflt)]

(* lookupResolveOptions: an unreadable row or analysis is simply absent,   *)
(* and no one after it knows.  `told` is history: what the tables held.    *)
ProvLookup(r) ==
  /\ job[r].stage = "claimed"
  /\ \E row \in {repo, Fault}, known \in {KnownJobs, {}} :
       /\ \/ row = repo /\ known = KnownJobs /\ Free
          \/ (row = Fault \/ known = {}) /\ Spend("fault")
       /\ job' = [job EXCEPT ![r].stage = "looked up", ![r].receives = @ + 1,
            ![r].opts = OptionsOf(r, row, known),
            ![r].told = OptionsOf(r, repo, KnownJobs)]
  /\ UNCHANGED <<refusal, repoVars, registryVars, githubVars, scanVars, rewriteVars>>

(* Mutant: an unreadable registry is taken for an empty one.               *)
RouteUndegraded(r, opts, degraded) ==
  LET res == ResolveFlavor(job[r].text.labels, opts) IN
  IF res.unresolved # NoFlavor
  THEN job' = [job EXCEPT ![r] = Advance(r, "failed")]
  ELSE job' = [job EXCEPT ![r].stage = "resolved", ![r].flavor = res.flavor]

(* A job that named a custom flavor the catalog lacks is refused for good  *)
(* if the registry was read, and retried if it was not.                    *)
Route(r, opts, degraded) ==
  LET res == ResolveFlavor(job[r].text.labels, opts) IN
  IF res.unresolved # NoFlavor
  THEN job' = [job EXCEPT ![r] = IF degraded THEN Retry(r) ELSE Advance(r, "failed")]
  ELSE job' = [job EXCEPT ![r].stage = "resolved", ![r].flavor = res.flavor]

WithCustom(opts, custom) ==
  [map |-> opts.map, mode |-> opts.mode, dflt |-> opts.dflt,
   docker |-> opts.docker, custom |-> custom]

ProvResolve(r) ==
  LET opts == job[r].opts IN
  /\ job[r].stage = "looked up"
  /\ \E read \in {RoutableCustomFlavors, Fault} :
       /\ IF opts.needs THEN Reads(RoutableCustomFlavors, read)
                        ELSE read = RoutableCustomFlavors /\ Free
       /\ LET custom == IF ~opts.needs \/ read = Fault THEN {} ELSE read
          IN  Route(r, WithCustom(opts, custom), read = Fault)
  /\ UNCHANGED <<refusal, repoVars, registryVars, githubVars, scanVars, rewriteVars>>

(* Mutant: the resolution's word is enough.                                *)
LaunchableOnceResolved(name) == flavor[name] # None

(* The row is read once more, as late as can be, and must still be valid.  *)
Launchable(name) == flavor[name] # None /\ flavor[name].state = "valid"

(* What is left before the launch: the image, then the labels the runner   *)
(* may carry; the launch itself is module Provision's.                     *)
ProvLaunch(r) ==
  LET name   == job[r].flavor
      custom == IsCustomFlavorName(name) IN
  /\ job[r].stage = "resolved"
  /\ IF custom /\ ~Launchable(name)
     THEN job' = [job EXCEPT ![r] = Retry(r)] /\ Free
     ELSE \/ /\ Free
             /\ job' = [job EXCEPT ![r].image =
                          IF custom THEN flavor[name].image ELSE BuiltinImage,
                        ![r].stage = IF MintRefusal(LabelsOf(r)) = "mint"
                                     THEN "launched" ELSE "failed"]
          \/ /\ Spend("fault")
             /\ job' = [job EXCEPT ![r] = Retry(r)]
  /\ UNCHANGED <<refusal, repoVars, registryVars, githubVars, scanVars, rewriteVars>>

RoutingNext ==
  \E r \in Runs :
    ProvLookup(r) \/ ProvResolve(r) \/ ProvLaunch(r)

=============================================================================
