------------------------------ MODULE Discovery -----------------------------
(***************************************************************************)
(* The workflow scan (src/discover/handler.ts): it reads the repository's  *)
(* row once, then each workflow file of the default branch, and stores the *)
(* parsed jobs with their route and compatibility.  Requests wait in a     *)
(* standard queue, so scans of one repository may overlap, and a row is    *)
(* replaced by whoever writes last.                                        *)
(***************************************************************************)
EXTENDS RepoConfig

IdleScan == [phase |-> "idle", row |-> None, todo |-> {}, custom |-> None,
             path |-> None, found |-> None, receives |-> 0]

(* The route Discovery stores: the row's map and mode, never its default.  *)
RouteOf(text, row, custom) ==
  ResolveFlavor(text.labels,
    [map |-> row.map, mode |-> row.mode, dflt |-> NoFlavor,
     custom |-> custom, docker |-> text.docker])

(* Compatibility blocks what no arm64 Linux runner can run; the rest warns.*)
Eligible(text) == LabelSet(text.labels) \intersect NonLinuxLabels = {}

Analyze(text, row, custom) ==
  IF text.shape = "broken" THEN [parsed |-> FALSE, text |-> None]
  ELSE [parsed |-> TRUE, text |-> text, eligible |-> Eligible(text),
        route |-> RouteOf(text, row, custom)]

(* What Ingest and Provision see of the analyses: parsed jobs by name.     *)
KnownJobs ==
  {[job |-> JobName[p], legs |-> Legs[p], path |-> p, name |-> analysis[p].text.name,
    group |-> analysis[p].text.group, eligible |-> analysis[p].eligible,
    docker |-> analysis[p].text.docker] :
     p \in {p \in Paths : analysis[p].parsed}}

-----------------------------------------------------------------------------
ScanBegin(s, receives) ==
  /\ scan[s].phase = "idle" /\ scanQ[receives] > 0
  /\ Overlap \/ \A t \in Scans : scan[t].phase = "idle"
  /\ scanQ' = [scanQ EXCEPT ![receives] = @ - 1]
  /\ \E row \in {repo, Fault} :
       /\ Reads(repo, row)
       /\ scan' = [scan EXCEPT ![s] =
            [IdleScan EXCEPT !.phase = "files", !.row = Seen(row),
                             !.receives = receives + 1,
                             !.todo = {p \in Paths : tree[p] # None}]]
  /\ UNCHANGED <<analysis, repoVars, registryVars, githubVars, rewriteVars, jobVars>>

(* A scan that throws is received again, up to the queue's limit.          *)
ScanThrows(s) ==
  /\ scan' = [scan EXCEPT ![s] = IdleScan]
  /\ scanQ' = [scanQ EXCEPT ![scan[s].receives] = @ + 1]

(* One file: its text, and the custom flavors once if a job may need them; *)
(* an unreadable registry reads as empty.                                  *)
ScanFile(s, p) ==
  LET w     == scan[s]
      text  == tree[p]
      needs == /\ text.shape # "broken"
               /\ NeedsCustomFlavors(LabelSet(text.labels), w.row.map, NoFlavor)
      loads == needs /\ w.custom = None IN
  /\ w.phase = "files" /\ p \in w.todo
  /\ IF text = None
     THEN ScanThrows(s) /\ Free                                 \* 404
     ELSE UNCHANGED scanQ /\ \E read \in {RoutableCustomFlavors, Fault} :
            /\ IF loads THEN Reads(RoutableCustomFlavors, read)
                        ELSE read = RoutableCustomFlavors /\ Free
            /\ LET custom == IF ~loads THEN w.custom
                             ELSE IF read = Fault THEN {} ELSE read
               IN  scan' = [scan EXCEPT ![s] =
                     [w EXCEPT !.phase = "put", !.path = p, !.custom = custom,
                       !.found = Analyze(text, w.row, IF needs THEN custom ELSE {})]]
  /\ UNCHANGED <<analysis, repoVars, registryVars, githubVars, rewriteVars, jobVars>>

(* GitHub or the table fails a call, or the invocation runs out of time.   *)
ScanFails(s) ==
  /\ scan[s].phase # "idle"
  /\ Spend("github")
  /\ ScanThrows(s)
  /\ UNCHANGED <<analysis, repoVars, registryVars, githubVars, rewriteVars, jobVars>>

(* Mutant: the file just stored is still to do.                            *)
ScanPutAgain(s) ==
  LET w == scan[s] IN
  /\ w.phase = "put"
  /\ analysis' = [analysis EXCEPT ![w.path] = w.found]
  /\ scan' = [scan EXCEPT ![s] =
       [w EXCEPT !.phase = "files", !.path = None, !.found = None]]
  /\ UNCHANGED <<scanQ, repoVars, registryVars, githubVars, rewriteVars, jobVars, scope>>

(* Rows are written, never pruned: a deleted file keeps its analysis.      *)
ScanPut(s) ==
  LET w    == scan[s]
      left == w.todo \ {w.path} IN
  /\ w.phase = "put"
  /\ analysis' = [analysis EXCEPT ![w.path] = w.found]
  /\ scan' = [scan EXCEPT ![s] =
       IF left = {} THEN IdleScan
       ELSE [w EXCEPT !.phase = "files", !.todo = left, !.path = None, !.found = None]]
  /\ UNCHANGED <<scanQ, repoVars, registryVars, githubVars, rewriteVars, jobVars, scope>>

(* Nothing to scan is a finished scan.                                     *)
ScanEmpty(s) ==
  /\ scan[s].phase = "files" /\ scan[s].todo = {}
  /\ scan' = [scan EXCEPT ![s] = IdleScan]
  /\ UNCHANGED <<scanQ, analysis, repoVars, registryVars, githubVars, rewriteVars,
                 jobVars, scope>>

-----------------------------------------------------------------------------
(* An author changes a workflow on the default branch: the push asks for a *)
(* scan, best effort.                                                      *)
Push(p, text) ==
  /\ Spend("push")
  /\ tree[p] # text
  /\ tree' = [tree EXCEPT ![p] = text]
  /\ Rescans
  /\ UNCHANGED <<branch, pr, scan, analysis, repoVars, registryVars, rewriteVars, jobVars>>

(* The operator's re-scan button.                                          *)
RescanRepo ==
  /\ Spend("rescan") /\ repo # None
  /\ AskScan
  /\ UNCHANGED <<scan, analysis, repoVars, registryVars, githubVars, rewriteVars, jobVars>>

DiscoveryNext ==
  \/ \E s \in Scans :
       \/ \E receives \in 0 .. MaxReceive - 1 : ScanBegin(s, receives)
       \/ \E p \in Paths : ScanFile(s, p)
       \/ ScanPut(s)
       \/ ScanEmpty(s)
       \/ ScanFails(s)
  \/ \E p \in Paths, text \in Jobs \union {None} : Push(p, text)
  \/ RescanRepo

=============================================================================
