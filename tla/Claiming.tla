------------------------------ MODULE Claiming ------------------------------
(***************************************************************************)
(* The queued webhook of src/ingest/handler.ts: three reads, three gates,  *)
(* then a claim or a refusal.  Each read is a step of its own, so the      *)
(* repository's configuration may change between them.  What a claim does  *)
(* to the run table and the provision queue is module Ingest's.            *)
(***************************************************************************)
EXTENDS Discovery

IdleIngest == [phase |-> "idle", allowed |-> {}, mode |-> NoMode, via |-> NotClaimed]

NoJob ==
  [text |-> None, name |-> None, workflow |-> None, delivered |-> 0,
   ingest |-> IdleIngest, stage |-> "none", via |-> NotClaimed, receives |-> 0,
   opts |-> None, told |-> None, flavor |-> NoFlavor, image |-> None]

LabelsOf(r) == LabelSet(job[r].text.labels)

(* Mutant: an absent detail is left out of the update, not removed.        *)
UpsertKeepingGroup(old, code, group, delivery) ==
  [code  |-> code,
   group |-> IF group = None /\ old # None THEN old.group ELSE group,
   first |-> IF old = None THEN delivery ELSE old.first,
   last  |-> delivery,
   count |-> IF old = None THEN 1 ELSE old.count + 1]

(* The row of a refused job: replaced whole by a later refusal, so that no *)
(* detail of an earlier one survives; only its first time and count do.    *)
UpsertRefusal(old, code, group, delivery) ==
  [code  |-> code,
   group |-> group,
   first |-> IF old = None THEN delivery ELSE old.first,
   last  |-> delivery,
   count |-> IF old = None THEN 1 ELSE old.count + 1]

(* Every refusal ends here: stored if actionable, as best the table can.   *)
Refuse(r, gate, allowed, mode, group) ==
  LET code == RefusalCode(gate, LabelsOf(r), allowed, mode)
      row  == UpsertRefusal(refusal[r], code, group, job[r].delivered) IN
  /\ job' = [job EXCEPT ![r].ingest = IdleIngest]
  /\ \/ /\ RefusalActionable(gate, LabelsOf(r), allowed)
        /\ refusal' = [refusal EXCEPT ![r] = row]
     \/ /\ RefusalActionable(gate, LabelsOf(r), allowed) => "lost" \in scope.may
        /\ UNCHANGED refusal

-----------------------------------------------------------------------------
Receive(r) == [job[r] EXCEPT !.ingest.phase = "config", !.delivered = @ + 1]

(* GitHub queues a job of a file as it then stands, and delivers it, under *)
(* the workflow's `name:`, else its path, or with no workflow named at all.*)
RenderedWorkflow(p) == IF tree[p].name = None THEN p ELSE tree[p].name

QueueJob(r, p, workflow, name) ==
  /\ Spend("queue")
  /\ job[r] = NoJob
  /\ tree[p] # None /\ tree[p].shape # "broken"
  /\ job' = [job EXCEPT ![r] =
       [NoJob EXCEPT !.text = tree[p], !.name = name, !.workflow = workflow,
                     !.ingest.phase = "config", !.delivered = 1]]
  /\ UNCHANGED <<refusal, repoVars, registryVars, githubVars, scanVars, rewriteVars>>

(* The same delivery again.                                                *)
Redeliver(r) ==
  /\ Spend("redeliver")
  /\ job[r].text # None /\ job[r].ingest.phase = "idle"
  /\ job' = [job EXCEPT ![r] = Receive(r)]
  /\ UNCHANGED <<refusal, repoVars, registryVars, githubVars, scanVars, rewriteVars>>

(* The allowlist, from the container's copy; the repository's row, which   *)
(* reads as label mode when the table throws.                              *)
IngestConfig(r) ==
  /\ job[r].ingest.phase = "config"
  /\ \E row \in {repo, Fault} :
       /\ Reads(repo, row)
       /\ IF IsRepoOptedOut(Seen(row))
          THEN Refuse(r, "repo-disabled", allow.cached, Seen(row).mode, None)
          ELSE /\ job' = [job EXCEPT ![r].ingest =
                    [phase |-> "claim", allowed |-> allow.cached,
                     mode |-> Seen(row).mode, via |-> NotClaimed]]
               /\ UNCHANGED refusal
  /\ UNCHANGED <<repoVars, registryVars, githubVars, scanVars, rewriteVars>>

(* The custom flavors, only for a job that names one; no claim if unread.  *)
IngestClaim(r) ==
  LET w     == job[r].ingest
      names == \E l \in LabelsOf(r) : IsCustomFlavorLabel(l) IN
  /\ w.phase = "claim"
  /\ \E read \in {RoutableCustomFlavors, Fault} :
       /\ IF names THEN Reads(RoutableCustomFlavors, read)
                   ELSE read = RoutableCustomFlavors /\ Free
       /\ LET custom  == IF read = Fault THEN {} ELSE read
              claimed == ClaimLabelsWithCustom(LabelsOf(r), w.allowed, custom)
              via     == DecideClaim(LabelsOf(r), claimed, w.mode)
          IN  IF via = NotClaimed
              THEN Refuse(r, "claim", w.allowed, w.mode, None)
              ELSE /\ job' = [job EXCEPT ![r].ingest.phase = "gate",
                                         ![r].ingest.via = via]
                   /\ UNCHANGED refusal
  /\ UNCHANGED <<repoVars, registryVars, githubVars, scanVars, rewriteVars>>

(* A claim: the run is queued for Provision, once however often delivered. *)
Claim(r) ==
  /\ job' = [job EXCEPT ![r].ingest = IdleIngest,
       ![r].stage = IF @ = "none" THEN "claimed" ELSE @,
       ![r].via   = IF job[r].stage = "none" THEN job[r].ingest.via ELSE @]
  /\ UNCHANGED refusal

(* The stored analysis may still speak against it; unread, it does not.    *)
IngestGate(r) ==
  LET w == job[r].ingest
      Match(known) == MatchJobAnalysis(known, job[r].workflow, job[r].name) IN
  /\ w.phase = "gate"
  /\ \E known \in {KnownJobs, {}} :
       /\ \/ known = KnownJobs /\ Free
          \/ known = {} /\ Spend("fault")
       /\ LET match == Match(known)
              gate  == PostClaimGate(match)
          IN  IF gate = "pass" THEN Claim(r)
              ELSE Refuse(r, gate, w.allowed, w.mode,
                     IF gate = "runner-group"
                     THEN (CHOOSE a \in match : TRUE).group ELSE None)
  /\ UNCHANGED <<repoVars, registryVars, githubVars, scanVars, rewriteVars>>

ClaimNext ==
  \E r \in Runs :
    \/ \E p \in Paths, name \in UNION {{JobName[q]} \union Legs[q] : q \in Paths} :
         /\ tree[p] # None /\ JobNameMatches(JobName[p], Legs[p], name)
         /\ \E workflow \in {RenderedWorkflow(p), NoWorkflow} : QueueJob(r, p, workflow, name)
    \/ Redeliver(r)
    \/ IngestConfig(r)
    \/ IngestClaim(r)
    \/ IngestGate(r)

=============================================================================
