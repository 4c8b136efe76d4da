------------------------------ MODULE RewritePr -----------------------------
(***************************************************************************)
(* The rewrite worker (src/rewrite/handler.ts over src/shared/             *)
(* github-app.ts): it plans from the stored routes and the files' current  *)
(* text, commits to a branch of its own, and opens a pull request.  One    *)
(* invocation runs at a time, but every call to GitHub is a step that an   *)
(* author's push, edit, merge or deletion can precede.                     *)
(***************************************************************************)
EXTENDS Routing

IdleRewriter == [phase |-> "idle", receives |-> 0, existing |-> FALSE,
                 todo |-> {}, plans |-> {}, edits |-> FALSE]

(* A request that fails goes back; on its last receive, to the DLQ, which  *)
(* is the last entry of rewriteQ.                                          *)
Throw == /\ rewriter' = IdleRewriter
         /\ rewriteQ' = [rewriteQ EXCEPT ![rewriter.receives] = @ + 1]

Ack == rewriter' = IdleRewriter /\ UNCHANGED rewriteQ

Proceed(next) == rewriter' = next /\ UNCHANGED rewriteQ

(* The answer to a write that GitHub has made; it may be lost.             *)
Answer(next) ==
  \/ Proceed(next) /\ Free
  \/ Throw /\ Spend("github")

-----------------------------------------------------------------------------
(* POST /api/repos/{id}/rewrite-pr.                                        *)
RequestRewrite ==
  /\ Spend("rewrite")
  /\ repo # None /\ repo.rewrite
  /\ rewriteQ' = [rewriteQ EXCEPT ![0] = @ + 1]
  /\ UNCHANGED <<rewriter, repoVars, registryVars, githubVars, scanVars, jobVars>>

(* The opt-in is asked again; an unreadable row is a failure.              *)
RewriteBegin(receives) ==
  /\ rewriter.phase = "idle" /\ rewriteQ[receives] > 0
  /\ \E row \in {repo, Fault} :
       /\ Reads(repo, row)
       /\ IF row = Fault
          THEN /\ rewriteQ' = [rewriteQ EXCEPT ![receives] = @ - 1,
                                               ![receives + 1] = @ + 1]
               /\ UNCHANGED rewriter
          ELSE /\ rewriteQ' = [rewriteQ EXCEPT ![receives] = @ - 1]
               /\ rewriter' = IF Seen(row).rewrite
                              THEN [IdleRewriter EXCEPT !.phase = "probe",
                                                        !.receives = receives + 1]
                              ELSE IdleRewriter
  /\ UNCHANGED <<repoVars, registryVars, githubVars, scanVars, jobVars>>

(* The candidates of the stored analyses, with the routes stored beside.   *)
RewriteTargets ==
  {[path |-> p, target |-> TargetOf(analysis[p].route)] :
     p \in {p \in Paths :
       /\ analysis[p].parsed
       /\ IsRewriteTarget(LabelSet(analysis[p].text.labels), analysis[p].text.group)}}

RewriteProbe ==
  /\ rewriter.phase = "probe"
  /\ Proceed([rewriter EXCEPT !.phase = "read", !.existing = branch # NoBranch,
                              !.todo = RewriteTargets])
  /\ UNCHANGED <<scope, repoVars, registryVars, githubVars, scanVars, jobVars>>

(* Mutant: a file the analysis outlived fails the request.                 *)
RewriteReadThrows(t) ==
  LET files == IF ~rewriter.existing THEN tree
               ELSE IF branch = NoBranch THEN [p \in Paths |-> None] ELSE branch.files
      text  == files[t.path] IN
  /\ rewriter.phase = "read" /\ t \in rewriter.todo
  /\ IF text = None THEN Throw
     ELSE Proceed([rewriter EXCEPT !.todo = @ \ {t},
            !.plans = IF PlanRefusal(text, t.target) = NoSkip
                      THEN @ \union {[path |-> t.path, text |-> text,
                                      next |-> PlanFileRewrite(text, t.target)]}
                      ELSE @])
  /\ UNCHANGED <<scope, repoVars, registryVars, githubVars, scanVars, jobVars>>

(* One file of the branch, if there was one, else of the default branch; a *)
(* vanished file is passed over.                                           *)
RewriteRead(t) ==
  LET files == IF ~rewriter.existing THEN tree
               ELSE IF branch = NoBranch THEN [p \in Paths |-> None] ELSE branch.files
      text  == files[t.path] IN
  /\ rewriter.phase = "read" /\ t \in rewriter.todo
  /\ Proceed([rewriter EXCEPT !.todo = @ \ {t},
       !.plans = IF text # None /\ PlanRefusal(text, t.target) = NoSkip
                 THEN @ \union {[path |-> t.path, text |-> text,
                                 next |-> PlanFileRewrite(text, t.target)]}
                 ELSE @])
  /\ UNCHANGED <<scope, repoVars, registryVars, githubVars, scanVars, jobVars>>

(* Nothing to edit leaves no trace; but a branch that carries an earlier   *)
(* rewrite may still lack its pull request.                                *)
RewritePlanned ==
  /\ rewriter.phase = "read" /\ rewriter.todo = {}
  /\ IF rewriter.plans # {} THEN Proceed([rewriter EXCEPT !.phase = "branch"])
     ELSE IF rewriter.existing THEN Proceed([rewriter EXCEPT !.phase = "find"])
     ELSE Ack
  /\ UNCHANGED <<scope, repoVars, registryVars, githubVars, scanVars, jobVars>>

(* Created at the tip of the default branch, adopted as it is otherwise.   *)
EnsureBranch ==
  /\ rewriter.phase = "branch"
  /\ branch' = IF branch = NoBranch
               THEN [files |-> tree, base |-> tree, ahead |-> FALSE] ELSE branch
  /\ Answer([rewriter EXCEPT !.phase = "put", !.edits = TRUE])
  /\ UNCHANGED <<tree, pr, repoVars, registryVars, scanVars, jobVars>>

Committed(p, text) == [branch EXCEPT !.files[p] = text, !.ahead = TRUE]

(* Mutant: the commit does not name the version it replaces.               *)
PutFileBlind(plan) ==
  /\ rewriter.phase = "put" /\ plan \in rewriter.plans
  /\ IF branch = NoBranch
     THEN Throw /\ Free /\ UNCHANGED branch
     ELSE /\ branch' = Committed(plan.path, plan.next)
          /\ Answer([rewriter EXCEPT !.plans = @ \ {plan}])
  /\ UNCHANGED <<tree, pr, repoVars, registryVars, scanVars, jobVars>>

(* GitHub refuses the commit if the file is not what was planned against.  *)
PutFile(plan) ==
  /\ rewriter.phase = "put" /\ plan \in rewriter.plans
  /\ IF branch = NoBranch \/ branch.files[plan.path] # plan.text
     THEN Throw /\ Free /\ UNCHANGED branch
     ELSE /\ branch' = Committed(plan.path, plan.next)
          /\ Answer([rewriter EXCEPT !.plans = @ \ {plan}])
  /\ UNCHANGED <<tree, pr, repoVars, registryVars, scanVars, jobVars>>

PutsDone ==
  /\ rewriter.phase = "put" /\ rewriter.plans = {}
  /\ Proceed([rewriter EXCEPT !.phase = "find"])
  /\ UNCHANGED <<scope, repoVars, registryVars, githubVars, scanVars, jobVars>>

FindOpenPullRequest ==
  /\ rewriter.phase = "find"
  /\ IF pr = "open" THEN Ack ELSE Proceed([rewriter EXCEPT !.phase = "create"])
  /\ UNCHANGED <<scope, repoVars, registryVars, githubVars, scanVars, jobVars>>

(* Mutant: any refusal of the pull request is taken for an empty one.      *)
CreateSwallowing ==
  /\ rewriter.phase = "create"
  /\ \/ /\ branch # NoBranch /\ branch.ahead
        /\ pr' = "open" /\ Ack /\ Free
     \/ pr' = pr /\ Ack /\ Spend("github")
     \/ (branch = NoBranch \/ ~branch.ahead) /\ pr' = pr /\ Ack /\ Free
  /\ UNCHANGED <<tree, branch, repoVars, registryVars, scanVars, jobVars>>

(* A branch with no commit of its own has no pull request to open: benign  *)
(* if this request had nothing to commit, else an error like any other.    *)
CreatePullRequest ==
  /\ rewriter.phase = "create"
  /\ IF branch # NoBranch /\ branch.ahead
     THEN pr' = "open" /\ Answer(IdleRewriter)
     ELSE /\ pr' = pr /\ Free
          /\ IF branch # NoBranch /\ ~rewriter.edits THEN Ack ELSE Throw
  /\ UNCHANGED <<tree, branch, repoVars, registryVars, scanVars, jobVars>>

(* GitHub or the table fails a call, or the invocation runs out of time.   *)
RewriteFails ==
  /\ rewriter.phase # "idle"
  /\ Spend("github")
  /\ Throw
  /\ UNCHANGED <<repoVars, registryVars, githubVars, scanVars, jobVars>>

-----------------------------------------------------------------------------
(* The repository's people (external): merging is a push to the default    *)
(* branch, and impossible where both sides changed a file.                 *)
MergePullRequest ==
  LET changed == {p \in Paths : branch.files[p] # branch.base[p]} IN
  /\ pr = "open" /\ branch # NoBranch /\ Spend("merge")
  /\ \A p \in changed : tree[p] = branch.base[p]
  /\ tree' = [p \in Paths |-> IF p \in changed THEN branch.files[p] ELSE tree[p]]
  /\ branch' = [branch EXCEPT !.base = branch.files, !.ahead = FALSE]
  /\ pr' = "merged"
  /\ Rescans
  /\ UNCHANGED <<repoVars, registryVars, scan, analysis, rewriteVars, jobVars>>

ClosePullRequest ==
  /\ pr = "open" /\ Spend("close")
  /\ pr' = "closed"
  /\ UNCHANGED <<tree, branch, repoVars, registryVars, scanVars, rewriteVars, jobVars>>

EditBranch(p, text) ==
  /\ branch # NoBranch /\ branch.files[p] # text /\ Spend("edit")
  /\ branch' = Committed(p, text)
  /\ UNCHANGED <<tree, pr, repoVars, registryVars, scanVars, rewriteVars, jobVars>>

DeleteBranch ==
  /\ branch # NoBranch /\ Spend("unbranch")
  /\ branch' = NoBranch
  /\ pr' = IF pr = "open" THEN "closed" ELSE pr
  /\ UNCHANGED <<tree, repoVars, registryVars, scanVars, rewriteVars, jobVars>>

RewriteNext ==
  \/ RequestRewrite
  \/ \E receives \in 0 .. MaxReceive - 1 : RewriteBegin(receives)
  \/ RewriteProbe
  \/ \E t \in rewriter.todo : RewriteRead(t)
  \/ RewritePlanned
  \/ EnsureBranch
  \/ \E plan \in rewriter.plans : PutFile(plan)
  \/ PutsDone
  \/ FindOpenPullRequest
  \/ CreatePullRequest
  \/ RewriteFails
  \/ MergePullRequest
  \/ ClosePullRequest
  \/ \E p \in Paths, text \in Jobs : EditBranch(p, text)
  \/ DeleteBranch

=============================================================================
