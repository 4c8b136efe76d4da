----------------------------- MODULE RepoConfig -----------------------------
(***************************************************************************)
(* What decides whether and how a repository's jobs are taken: its row,    *)
(* written by the console (src/mgmt/handler.ts) and by GitHub's            *)
(* installation events (src/ingest/install-filter.ts, install-store.ts),   *)
(* and the environment's runner-label allowlist.                           *)
(***************************************************************************)
EXTENDS ControlState

NoRow == [enabled |-> TRUE, mode |-> NoMode, map |-> NoMap, dflt |-> NoFlavor,
          rewrite |-> FALSE]

(* A row as its readers see it: no row reads as no field set.              *)
Seen(row) == IF row \in {None, Fault} THEN NoRow ELSE row

(* What an operator may name: a built-in, or a custom flavor now valid.    *)
Choosable(names) ==
  \A n \in names : InCatalog(ComposeCatalog(RoutableCustomFlavors), n)

(* Best effort: a lost request leaves the stored routes as they are.       *)
AskScan == scanQ' = [scanQ EXCEPT ![0] = @ + 1]

Rescans ==
  \/ AskScan
  \/ "lost" \in scope.may /\ UNCHANGED scanQ

Patched(row, field, value) ==
  CASE field = "enabled" -> [row EXCEPT !.enabled = value]
    [] field = "mode"    -> [row EXCEPT !.mode = value]
    [] field = "dflt"    -> [row EXCEPT !.dflt = value]
    [] field = "rewrite" -> [row EXCEPT !.rewrite = value]

Patches ==
  ({"enabled", "rewrite"} \X BOOLEAN) \union ({"mode"} \X RepoModes)
    \union ({"dflt"} \X Defaults)

(* Mutant: a changed mode leaves the routes stored for the old one.        *)
PatchWithoutRescan(patch) ==
  LET field == patch[1]
      value == patch[2] IN
  /\ Spend("patch") /\ repo # None
  /\ field = "dflt" => Choosable({value} \ {NoFlavor})
  /\ repo' = Patched(repo, field, value) /\ repo' # repo
  /\ UNCHANGED <<install, allow, secret, registryVars, githubVars, scanVars,
                 rewriteVars, jobVars>>

(* PATCH /api/repos/{id}: only a changed mode asks for a new scan.         *)
PatchRepo(patch) ==
  LET field == patch[1]
      value == patch[2] IN
  /\ Spend("patch") /\ repo # None
  /\ field = "dflt" => Choosable({value} \ {NoFlavor})
  /\ repo' = Patched(repo, field, value) /\ repo' # repo
  /\ IF field = "mode" THEN Rescans ELSE UNCHANGED scanQ
  /\ UNCHANGED <<install, allow, secret, registryVars, githubVars, scan, analysis,
                 rewriteVars, jobVars>>

(* PUT /api/repos/{id}/flavormap replaces the map, and asks for no scan.   *)
PutFlavorMap(map) ==
  /\ Spend("map") /\ repo # None
  /\ Choosable(MapValues(map))
  /\ repo' = [repo EXCEPT !.map = map]
  /\ UNCHANGED <<install, allow, secret, registryVars, githubVars, scanVars,
                 rewriteVars, jobVars>>

(* PUT /api/config/runner-labels; a container may keep its copy a while.   *)
SetRunnerLabels(labels) ==
  /\ Spend("allow")
  /\ allow' = [allow EXCEPT !.live = labels]
  /\ UNCHANGED <<repo, install, secret, registryVars, githubVars, scanVars,
                 rewriteVars, jobVars>>

(* The copy's time to live is over: the next delivery reads the parameter. *)
AllowlistExpires ==
  /\ allow.cached # allow.live
  /\ allow' = [allow EXCEPT !.cached = allow.live]
  /\ UNCHANGED <<repo, install, secret, registryVars, githubVars, scanVars,
                 rewriteVars, jobVars, scope>>

-----------------------------------------------------------------------------
(* Installation events.  A granted repository is enabled, whatever its row *)
(* said, and scanned; a withdrawn one is disabled and keeps its row.       *)
EnableRepo == repo' = [Seen(repo) EXCEPT !.enabled = TRUE]

RepoGranted(created) ==
  /\ Spend("install")
  /\ EnableRepo
  /\ install' = IF created THEN [suspended |-> FALSE, deleted |-> FALSE] ELSE install
  /\ Rescans
  /\ UNCHANGED <<allow, secret, registryVars, githubVars, scan, analysis, rewriteVars, jobVars>>

(* No row, no write.                                                       *)
RepoWithdrawn ==
  /\ Spend("install")
  /\ repo' = IF repo = None THEN None ELSE [repo EXCEPT !.enabled = FALSE]
  /\ UNCHANGED <<install, allow, secret, registryVars, githubVars, scanVars,
                 rewriteVars, jobVars>>

(* suspend, unsuspend and deleted only flag the installation's row.        *)
SetInstallationFlags(flag, value) ==
  /\ Spend("suspend")
  /\ install # None
  /\ install' = [install EXCEPT ![flag] = value]
  /\ UNCHANGED <<repo, allow, secret, registryVars, githubVars, scanVars,
                 rewriteVars, jobVars>>

ConfigNext ==
  \/ \E patch \in Patches : PatchRepo(patch)
  \/ \E map \in FlavorMaps : PutFlavorMap(map)
  \/ \E labels \in Allowlists : SetRunnerLabels(labels)
  \/ AllowlistExpires
  \/ \E created \in BOOLEAN : RepoGranted(created)
  \/ RepoWithdrawn
  \/ \E value \in BOOLEAN : SetInstallationFlags("suspended", value)
  \/ SetInstallationFlags("deleted", TRUE)

=============================================================================
