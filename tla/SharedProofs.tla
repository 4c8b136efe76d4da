---------------------------- MODULE SharedProofs ----------------------------
(***************************************************************************)
(* Theorems of the control plane, concluded: what several workers share    *)
(* and one of them relies on.  A rewrite against everybody else's commits  *)
(* (CauseInv, StrandInv), a refusal against the scan that told the job's   *)
(* runner group (TextInv, MirrorInv, RefusalInv), the stored routes        *)
(* against the row, the registry and the branch (SettledInv), the commits  *)
(* against what the routes were stored for (KeepInv).                      *)
(***************************************************************************)
EXTENDS JobProofs

-----------------------------------------------------------------------------
(* What a rewrite met                                                      *)

LEMMA UsedGrows ==
  ASSUME ScopeInv, ScopeStep
  PROVE  scope.used \in Nat /\ scope'.used \in {scope.used, scope.used + 1}
BY DEF ScopeInv, ScopeStep

LEMMA Spent ==
  ASSUME ScopeInv, NEW r, Spend(r)
  PROVE  scope.used \in Nat /\ scope'.used = scope.used + 1
BY DEF ScopeInv, Spend

(* A step of somebody else: nothing changes under the invocation unless it *)
(* is a cause.                                                             *)
Aside == /\ UNCHANGED rewriteVars
         /\ \/ UNCHANGED <<tree, branch>> /\ scope'.used \in {scope.used, scope.used + 1}
            \/ scope'.used = scope.used + 1

LEMMA AsideKeeps ==
  ASSUME CauseInv, RewriteInv, ScopeInv, Aside
  PROVE  CauseInv'
<1>1. /\ scope.used \in Nat /\ rewriter.receives \in Nat
      /\ \A n \in 0 .. MaxReceive : n \in Nat
  BY ControlAssumption DEF ScopeInv, RewriteInv
<1>2. rewriteQ' = rewriteQ /\ rewriter' = rewriter
  BY DEF Aside, rewriteVars
<1>3. scope'.used \in {scope.used, scope.used + 1}
  BY DEF Aside
<1>4. \A n \in 0 .. MaxReceive : rewriteQ'[n] > 0 => n < scope'.used
  BY <1>1, <1>2, <1>3 DEF CauseInv
<1>5. OnePlanEach' = OnePlanEach /\ Undertaken' = Undertaken
  BY <1>2 DEF OnePlanEach, Undertaken
<1>6. CASE UNCHANGED <<tree, branch>>
  <2>1. Undisturbed' = Undisturbed
    BY <1>2, <1>6 DEF Undisturbed, PlansOf
  <2>. QED  BY <1>1, <1>2, <1>3, <1>4, <1>5, <2>1 DEF CauseInv
<1>7. CASE scope'.used = scope.used + 1
  BY <1>1, <1>2, <1>4, <1>5, <1>7 DEF CauseInv
<1>. QED  BY <1>6, <1>7 DEF Aside

(* A throw puts the request back, one receive further: it needs a cause.   *)
LEMMA ThrowHasCause ==
  ASSUME CauseInv, RewriteInv, ScopeInv, Throw, scope'.used \in {scope.used, scope.used + 1},
         rewriter.receives < scope'.used
  PROVE  CauseInv'
<1>1. scope.used \in Nat /\ rewriteQ \in QueueType /\ rewriter.receives \in 0 .. MaxReceive
  BY DEF ScopeInv, RewriteInv
<1>2. /\ rewriter'.phase = "idle"
      /\ \A n \in 0 .. MaxReceive :
           rewriteQ'[n] = IF n = rewriter.receives THEN rewriteQ[n] + 1 ELSE rewriteQ[n]
  BY <1>1 DEF Throw, IdleRewriter, QueueType
<1>3. \A n \in 0 .. MaxReceive : n \in Nat /\ (rewriteQ[n] > 0 => n < scope.used)
  BY ControlAssumption DEF CauseInv
<1>. QED  BY <1>1, <1>2, <1>3 DEF CauseInv

LEMMA AckHasCause ==
  ASSUME CauseInv, RewriteInv, ScopeInv, Ack, scope'.used \in {scope.used, scope.used + 1}
  PROVE  CauseInv'
<1>1. rewriter'.phase = "idle" /\ rewriteQ' = rewriteQ
  BY DEF Ack, IdleRewriter
<1>2. scope.used \in Nat /\ \A n \in 0 .. MaxReceive : n \in Nat
  BY ControlAssumption DEF ScopeInv
<1>. QED  BY <1>1, <1>2 DEF CauseInv

(* A step forward keeps the request's receives: what it holds is looked at.*)
LEMMA ProceedHasCause ==
  ASSUME CauseInv, RewriteInv, ScopeInv, rewriter.phase # "idle", NEW next, Proceed(next), Free,
         next.receives = rewriter.receives, next.phase # "idle",
         OnePlanEach', Undertaken', Undisturbed => Undisturbed'
  PROVE  CauseInv'
BY DEF CauseInv, Proceed, Free

LEMMA RequestHasCause ==
  ASSUME CauseInv, RewriteInv, ScopeInv, RequestRewrite
  PROVE  CauseInv'
<1>1. scope.used \in Nat /\ scope'.used = scope.used + 1
  BY Spent DEF RequestRewrite
<1>2. /\ rewriter' = rewriter /\ tree' = tree /\ branch' = branch
      /\ rewriteQ' = [rewriteQ EXCEPT ![0] = @ + 1]
  BY DEF RequestRewrite, githubVars
<1>3. 0 \in 0 .. MaxReceive /\ \A n \in 0 .. MaxReceive : n \in Nat
  BY ControlAssumption
<1>4. \A n \in 0 .. MaxReceive : rewriteQ'[n] > 0 => n < scope'.used
  BY <1>1, <1>2, <1>3 DEF CauseInv, RewriteInv, QueueType
<1>5. /\ OnePlanEach' = OnePlanEach /\ Undertaken' = Undertaken
  BY <1>2 DEF OnePlanEach, Undertaken
<1>6. Undisturbed' = Undisturbed
  BY <1>2 DEF Undisturbed, PlansOf
<1>7. rewriter.receives \in Nat
  BY DEF RewriteInv
<1>. QED  BY <1>1, <1>2, <1>4, <1>5, <1>6, <1>7 DEF CauseInv

LEMMA BeginHasCause ==
  ASSUME CauseInv, RewriteInv, ScopeInv, RepoInv, NEW receives \in 0 .. MaxReceive - 1,
         RewriteBegin(receives)
  PROVE  CauseInv'
<1>1. /\ receives \in 0 .. MaxReceive /\ receives + 1 \in 0 .. MaxReceive /\ receives \in Nat
      /\ \A n \in 0 .. MaxReceive : n \in Nat
  BY ControlAssumption
<1>2. /\ scope.used \in Nat /\ rewriteQ \in QueueType
      /\ \A n \in 0 .. MaxReceive : rewriteQ[n] > 0 => n < scope.used
      /\ rewriteQ[receives] > 0 /\ receives < scope.used
  BY <1>1 DEF RewriteBegin, CauseInv, ScopeInv, RewriteInv
<1>3. PICK row \in {repo, Fault} :
        /\ Reads(repo, row)
        /\ IF row = Fault
           THEN /\ rewriteQ' = [rewriteQ EXCEPT ![receives] = @ - 1, ![receives + 1] = @ + 1]
                /\ UNCHANGED rewriter
           ELSE /\ rewriteQ' = [rewriteQ EXCEPT ![receives] = @ - 1]
                /\ rewriter' = IF Seen(row).rewrite
                               THEN [IdleRewriter EXCEPT !.phase = "probe",
                                                         !.receives = receives + 1]
                               ELSE IdleRewriter
  BY DEF RewriteBegin
<1>4. CASE row = Fault
  <2>1. scope'.used = scope.used + 1
    <3>1. Spend("fault")
      BY <1>3, <1>4, AbsenceAssumption, ControlAssumption DEF Reads, RepoInv
    <3>. QED  BY <3>1, Spent
  <2>2. rewriter'.phase = "idle"
    BY <1>3, <1>4 DEF RewriteBegin
  <2>3. \A n \in 0 .. MaxReceive :
          rewriteQ'[n] = IF n = receives + 1 THEN rewriteQ[n] + 1
                         ELSE IF n = receives THEN rewriteQ[n] - 1 ELSE rewriteQ[n]
    BY <1>1, <1>2, <1>3, <1>4 DEF QueueType
  <2>4. \A n \in 0 .. MaxReceive : rewriteQ[n] \in Nat
    BY <1>2 DEF QueueType
  <2>. QED  BY <1>1, <1>2, <2>1, <2>2, <2>3, <2>4 DEF CauseInv
<1>5. CASE row # Fault
  <2>1. scope'.used \in {scope.used, scope.used + 1}
    BY <1>3, Spent DEF Reads, Free
  <2>2. \A n \in 0 .. MaxReceive :
          rewriteQ'[n] = IF n = receives THEN rewriteQ[n] - 1 ELSE rewriteQ[n]
    BY <1>1, <1>2, <1>3, <1>5 DEF QueueType
  <2>3. \A n \in 0 .. MaxReceive : rewriteQ'[n] > 0 => n < scope'.used
    BY <1>1, <1>2, <2>1, <2>2 DEF QueueType
  <2>4. \/ rewriter'.phase = "idle"
        \/ /\ rewriter'.phase = "probe" /\ rewriter'.receives = receives + 1
           /\ rewriter'.todo = {} /\ rewriter'.plans = {} /\ ~rewriter'.edits
    <3>1. \/ rewriter' = IdleRewriter
          \/ rewriter' = [IdleRewriter EXCEPT !.phase = "probe", !.receives = receives + 1]
      BY <1>3, <1>5
    <3>2. CASE rewriter' = IdleRewriter
      BY <3>2 DEF IdleRewriter
    <3>3. CASE rewriter' = [IdleRewriter EXCEPT !.phase = "probe", !.receives = receives + 1]
      <4>1. rewriter' = [phase |-> "probe", receives |-> receives + 1, existing |-> FALSE,
                         todo |-> {}, plans |-> {}, edits |-> FALSE]
        BY <3>3 DEF IdleRewriter
      <4>. QED  BY <4>1
    <3>. QED  BY <3>1, <3>2, <3>3
  <2>5. receives + 1 <= scope'.used
    BY <1>1, <1>2, <2>1
  <2>. QED  BY <2>3, <2>4, <2>5 DEF CauseInv, OnePlanEach, Undertaken, Undisturbed, PlansOf
<1>. QED  BY <1>4, <1>5
LEMMA BranchPresent == \A b : DOMAIN b = {"files", "base", "ahead"} => b # NoBranch
<1>1. DOMAIN NoBranch = {"ahead"}
  BY DEF NoBranch
<1>. QED  BY <1>1

LEMMA RewriterFields ==
  ASSUME RewriteInv
  PROVE  DOMAIN rewriter = {"phase", "receives", "existing", "todo", "plans", "edits"}
BY DEF RewriteInv, IdleRewriter

LEMMA ProbeHasCause ==
  ASSUME CauseInv, RewriteInv, ScopeInv, RewriteProbe
  PROVE  CauseInv'
<1> DEFINE next == [rewriter EXCEPT !.phase = "read", !.existing = branch # NoBranch,
                                    !.todo = RewriteTargets]
<1>1. /\ rewriter.phase = "probe" /\ Proceed(next) /\ Free /\ tree' = tree /\ branch' = branch
  BY DEF RewriteProbe, Free, githubVars
<1>2. /\ rewriter.plans = {} /\ ~rewriter.edits
  BY <1>1 DEF CauseInv, Undertaken
<1>3. /\ next.phase = "read" /\ next.receives = rewriter.receives
      /\ next.existing = (branch # NoBranch)
      /\ next.todo = RewriteTargets /\ next.plans = {} /\ next.edits = rewriter.edits
  BY <1>2, RewriterFields
<1> HIDE DEF next
<1>4. rewriter' = next
  BY <1>1 DEF Proceed
<1>5. /\ \A t \in RewriteTargets : t.path \in Paths
      /\ \A t, u \in RewriteTargets : t.path = u.path => t = u
  BY DEF RewriteTargets
<1>6. OnePlanEach'
  BY <1>3, <1>4, <1>5 DEF OnePlanEach
<1>7. Undertaken'
  BY <1>2, <1>3, <1>4 DEF Undertaken
<1>8. Undisturbed'
  BY <1>1, <1>3, <1>4 DEF Undisturbed, PlansOf
<1>. QED  BY <1>1, <1>3, <1>6, <1>7, <1>8, ProceedHasCause

LEMMA ReadHasCause ==
  ASSUME CauseInv, RewriteInv, ScopeInv, NEW t \in rewriter.todo, RewriteRead(t)
  PROVE  CauseInv'
<1> DEFINE files == IF ~rewriter.existing THEN tree
                    ELSE IF branch = NoBranch THEN [p \in Paths |-> None] ELSE branch.files
           text == files[t.path]
           plan == [path |-> t.path, text |-> text, next |-> PlanFileRewrite(text, t.target)]
           edits == text # None /\ PlanRefusal(text, t.target) = NoSkip
           plans == IF edits THEN rewriter.plans \union {plan} ELSE rewriter.plans
           next == [rewriter EXCEPT !.todo = @ \ {t}, !.plans = plans]
<1>1. /\ rewriter.phase = "read" /\ Proceed(next) /\ Free /\ tree' = tree /\ branch' = branch
  BY DEF RewriteRead, Free, githubVars
<1>2. OnePlanEach /\ Undertaken
  BY <1>1 DEF CauseInv
<1>3. /\ next.phase = "read" /\ next.receives = rewriter.receives
      /\ next.existing = rewriter.existing
      /\ next.todo = rewriter.todo \ {t} /\ next.plans = plans /\ next.edits = rewriter.edits
  BY <1>1, RewriterFields
<1>4. plan.path = t.path /\ plan.text = text
  OBVIOUS
<1>5. plans = rewriter.plans \/ plans = rewriter.plans \union {plan}
  OBVIOUS
<1> HIDE DEF next, plans, plan
<1>6. rewriter' = next
  BY <1>1 DEF Proceed
<1>7. OnePlanEach'
  <2>1. CASE plans = rewriter.plans
    BY <1>2, <1>3, <1>6, <2>1 DEF OnePlanEach
  <2>2. CASE plans = rewriter.plans \union {plan}
    BY <1>2, <1>3, <1>4, <1>6, <2>2 DEF OnePlanEach
  <2>. QED  BY <1>5, <2>1, <2>2
<1>8. Undertaken'
  BY <1>2, <1>1, <1>3, <1>6 DEF Undertaken
<1>9. ASSUME Undisturbed PROVE Undisturbed'
  <2>1. IF rewriter.existing THEN branch # NoBranch /\ PlansOf(branch.files)
                             ELSE branch = NoBranch /\ PlansOf(tree)
    BY <1>1, <1>9 DEF Undisturbed
  <2>2. \A p \in rewriter.plans : p.text = files[p.path]
    BY <2>1 DEF PlansOf
  <2>3. \A p \in plans : files[p.path] = p.text
    BY <1>4, <1>5, <2>2
  <2>4. IF rewriter.existing THEN branch # NoBranch /\ files = branch.files
                             ELSE branch = NoBranch /\ files = tree
    BY <2>1
  <2> HIDE DEF files, text
  <2>. QED  BY <1>1, <1>3, <1>6, <2>3, <2>4 DEF Undisturbed, PlansOf
<1>. QED  BY <1>1, <1>3, <1>7, <1>8, <1>9, ProceedHasCause

(* The invocation goes to another phase with what it holds.                *)
LEMMA PhaseMoves ==
  ASSUME RewriteInv, NEW phase, Proceed([rewriter EXCEPT !.phase = phase])
  PROVE  /\ rewriter'.phase = phase /\ rewriter'.receives = rewriter.receives
         /\ rewriter'.existing = rewriter.existing /\ rewriter'.todo = rewriter.todo
         /\ rewriter'.plans = rewriter.plans /\ rewriter'.edits = rewriter.edits
BY RewriterFields DEF Proceed

LEMMA PhaseHasCause ==
  ASSUME CauseInv, RewriteInv, ScopeInv, rewriter.phase # "idle", Free,
         NEW phase \in {"branch", "find", "create"}, Proceed([rewriter EXCEPT !.phase = phase]),
         phase = "branch" => rewriter.plans # {} /\ ~rewriter.edits,
         Undisturbed => Undisturbed'
  PROVE  CauseInv'
<1>1. OnePlanEach
  BY DEF CauseInv
<1>2. OnePlanEach'
  BY <1>1, PhaseMoves DEF OnePlanEach
<1>3. Undertaken'
  BY PhaseMoves DEF Undertaken
<1>4. [rewriter EXCEPT !.phase = phase] = rewriter'
  BY DEF Proceed
<1>. QED  BY <1>2, <1>3, <1>4, PhaseMoves, ProceedHasCause

LEMMA PlannedHasCause ==
  ASSUME CauseInv, RewriteInv, ScopeInv, RewritePlanned
  PROVE  CauseInv'
<1>1. /\ rewriter.phase = "read" /\ Free /\ tree' = tree /\ branch' = branch
  BY DEF RewritePlanned, Free, githubVars
<1>2. Undertaken
  BY <1>1 DEF CauseInv
<1>3. CASE rewriter.plans # {}
  <2>1. Proceed([rewriter EXCEPT !.phase = "branch"])
    BY <1>3 DEF RewritePlanned
  <2>2. Undisturbed => Undisturbed'
    BY <1>1, <2>1, PhaseMoves DEF Undisturbed, PlansOf
  <2>. QED  BY <1>1, <1>2, <1>3, <2>1, <2>2, PhaseHasCause DEF Undertaken
<1>4. CASE rewriter.plans = {} /\ rewriter.existing
  <2>1. Proceed([rewriter EXCEPT !.phase = "find"])
    BY <1>4 DEF RewritePlanned
  <2>2. Undisturbed => Undisturbed'
    BY <1>1, <1>2, <1>4, <2>1, PhaseMoves DEF Undisturbed, PlansOf, Undertaken
  <2>. QED  BY <1>1, <2>1, <2>2, PhaseHasCause
<1>5. CASE rewriter.plans = {} /\ ~rewriter.existing
  <2>1. Ack
    BY <1>5 DEF RewritePlanned
  <2>. QED  BY <1>1, <2>1, AckHasCause DEF Free
<1>. QED  BY <1>3, <1>4, <1>5

LEMMA PutsDoneHasCause ==
  ASSUME CauseInv, RewriteInv, ScopeInv, PutsDone
  PROVE  CauseInv'
<1>1. /\ rewriter.phase = "put" /\ Free /\ tree' = tree /\ branch' = branch
      /\ rewriter.plans = {} /\ Proceed([rewriter EXCEPT !.phase = "find"])
  BY DEF PutsDone, Free, githubVars
<1>2. Undisturbed => Undisturbed'
  BY <1>1, PhaseMoves DEF Undisturbed, PlansOf
<1>. QED  BY <1>1, <1>2, PhaseHasCause

LEMMA FindHasCause ==
  ASSUME CauseInv, RewriteInv, ScopeInv, FindOpenPullRequest
  PROVE  CauseInv'
<1>1. /\ rewriter.phase = "find" /\ Free /\ tree' = tree /\ branch' = branch
  BY DEF FindOpenPullRequest, Free, githubVars
<1>2. CASE pr = "open"
  BY <1>1, <1>2, AckHasCause DEF FindOpenPullRequest, Free
<1>3. CASE pr # "open"
  <2>1. Proceed([rewriter EXCEPT !.phase = "create"])
    BY <1>3 DEF FindOpenPullRequest
  <2>2. Undisturbed => Undisturbed'
    BY <1>1, <2>1, PhaseMoves DEF Undisturbed
  <2>. QED  BY <1>1, <2>1, <2>2, PhaseHasCause
<1>. QED  BY <1>2, <1>3

(* A write that was made and whose answer is lost is a cause.              *)
LEMMA LostHasCause ==
  ASSUME CauseInv, RewriteInv, ScopeInv, rewriter.phase # "idle", Throw, NEW cause, Spend(cause)
  PROVE  CauseInv'
<1>1. scope.used \in Nat /\ scope'.used = scope.used + 1
  BY Spent
<1>2. rewriter.receives \in Nat /\ rewriter.receives <= scope.used
  BY DEF CauseInv, RewriteInv
<1>. QED  BY <1>1, <1>2, ThrowHasCause

LEMMA EnsureHasCause ==
  ASSUME CauseInv, RewriteInv, ScopeInv, EnsureBranch
  PROVE  CauseInv'
<1> DEFINE next == [rewriter EXCEPT !.phase = "put", !.edits = TRUE]
<1>1. /\ rewriter.phase = "branch" /\ Answer(next)
      /\ branch' = IF branch = NoBranch
                   THEN [files |-> tree, base |-> tree, ahead |-> FALSE] ELSE branch
  BY DEF EnsureBranch
<1>2. /\ next.phase = "put" /\ next.receives = rewriter.receives
      /\ next.todo = rewriter.todo /\ next.plans = rewriter.plans
  BY RewriterFields
<1> HIDE DEF next
<1>3. CASE Proceed(next) /\ Free
  <2>1. rewriter' = next
    BY <1>3 DEF Proceed
  <2>2. OnePlanEach /\ Undertaken
    BY <1>1 DEF CauseInv
  <2>3. OnePlanEach'
    BY <1>2, <2>1, <2>2 DEF OnePlanEach
  <2>4. Undertaken'
    BY <1>2, <2>1 DEF Undertaken
  <2>5. ASSUME Undisturbed PROVE Undisturbed'
    <3>1. IF rewriter.existing THEN branch # NoBranch /\ PlansOf(branch.files)
                               ELSE branch = NoBranch /\ PlansOf(tree)
      BY <1>1, <2>5 DEF Undisturbed
    <3>2. PlansOf(branch'.files)
      BY <1>1, <3>1 DEF PlansOf
    <3>3. branch' # NoBranch
      <4>1. DOMAIN [files |-> tree, base |-> tree, ahead |-> FALSE] = {"files", "base", "ahead"}
        OBVIOUS
      <4>. QED  BY <1>1, <4>1, BranchPresent
    <3>4. (PlansOf(branch.files))'
      BY <1>2, <2>1, <3>2 DEF PlansOf
    <3>5. rewriter'.plans # {}
      BY <1>1, <1>2, <2>1, <2>2 DEF Undertaken
    <3>. QED  BY <1>2, <2>1, <3>3, <3>4, <3>5 DEF Undisturbed
  <2>. QED  BY <1>1, <1>2, <1>3, <2>3, <2>4, <2>5, ProceedHasCause
<1>4. CASE Throw /\ Spend("github")
  BY <1>1, <1>4, LostHasCause
<1>. QED  BY <1>1, <1>3, <1>4 DEF Answer

LEMMA PutHasCause ==
  ASSUME CauseInv, RewriteInv, ScopeInv, NEW plan \in rewriter.plans, PutFile(plan)
  PROVE  CauseInv'
<1> DEFINE next == [rewriter EXCEPT !.plans = @ \ {plan}]
<1>1. rewriter.phase = "put" /\ OnePlanEach /\ Undertaken
  BY DEF PutFile, CauseInv
<1>2. CASE branch = NoBranch \/ branch.files[plan.path] # plan.text
  <2>1. Throw /\ Free
    BY <1>2 DEF PutFile
  <2>2. ~Undisturbed
    BY <1>1, <1>2 DEF Undisturbed, PlansOf
  <2>. QED  BY <1>1, <2>1, <2>2, ThrowHasCause DEF CauseInv, Free
<1>3. CASE branch # NoBranch /\ branch.files[plan.path] = plan.text
  <2>1. branch' = Committed(plan.path, plan.next) /\ Answer(next)
    BY <1>3 DEF PutFile
  <2>2. CASE Throw /\ Spend("github")
    BY <1>1, <2>2, LostHasCause
  <2>3. CASE Proceed(next) /\ Free
    <3>1. /\ next.phase = "put" /\ next.receives = rewriter.receives
          /\ next.todo = rewriter.todo /\ next.plans = rewriter.plans \ {plan}
          /\ next.edits = rewriter.edits
      BY <1>1, RewriterFields
    <3> HIDE DEF next
    <3>2. rewriter' = next
      BY <2>3 DEF Proceed
    <3>3. OnePlanEach'
      BY <1>1, <3>1, <3>2 DEF OnePlanEach
    <3>4. Undertaken'
      BY <1>1, <3>1, <3>2 DEF Undertaken
    <3>5. ASSUME Undisturbed PROVE Undisturbed'
      <4>1. PlansOf(branch.files)
        BY <1>1, <3>5 DEF Undisturbed
      <4>2. plan.path \in Paths /\ DOMAIN branch = {"files", "base", "ahead"}
            /\ DOMAIN branch.files = Paths
        BY <1>1, <1>3 DEF OnePlanEach, RewriteInv
      <4>3. /\ branch'.ahead = TRUE
            /\ branch'.files = [branch.files EXCEPT ![plan.path] = plan.next]
        BY <2>1, <4>2 DEF Committed
      <4>4. \A other \in rewriter.plans \ {plan} :
              branch'.files[other.path] = branch.files[other.path]
        BY <1>1, <4>2, <4>3 DEF OnePlanEach
      <4>5. (PlansOf(branch.files))'
        BY <3>1, <3>2, <4>1, <4>4 DEF PlansOf
      <4>6. branch' # NoBranch
        <5>1. DOMAIN branch' = {"files", "base", "ahead"}
          BY <2>1, <4>2 DEF Committed
        <5>. QED  BY <5>1, BranchPresent
      <4>. QED  BY <3>1, <3>2, <4>3, <4>5, <4>6 DEF Undisturbed
    <3>. QED  BY <1>1, <2>3, <3>1, <3>3, <3>4, <3>5, ProceedHasCause
  <2>. QED  BY <2>1, <2>2, <2>3 DEF Answer
<1>. QED  BY <1>2, <1>3

LEMMA CreateHasCause ==
  ASSUME CauseInv, RewriteInv, ScopeInv, CreatePullRequest
  PROVE  CauseInv'
<1>1. rewriter.phase = "create" /\ branch' = branch /\ tree' = tree
  BY DEF CreatePullRequest
<1>2. CASE branch # NoBranch /\ branch.ahead
  <2>1. Answer(IdleRewriter)
    BY <1>2 DEF CreatePullRequest
  <2>2. CASE Throw /\ Spend("github")
    BY <1>1, <2>2, LostHasCause
  <2>3. CASE Proceed(IdleRewriter) /\ Free
    BY <2>3, AckHasCause DEF Proceed, Ack, Free
  <2>. QED  BY <2>1, <2>2, <2>3 DEF Answer
<1>3. CASE ~(branch # NoBranch /\ branch.ahead) /\ branch # NoBranch /\ ~rewriter.edits
  BY <1>3, AckHasCause DEF CreatePullRequest, Free
<1>4. CASE ~(branch # NoBranch /\ branch.ahead) /\ ~(branch # NoBranch /\ ~rewriter.edits)
  <2>1. Throw /\ Free
    BY <1>4 DEF CreatePullRequest
  <2>2. ~Undisturbed
    BY <1>1, <1>4 DEF Undisturbed
  <2>. QED  BY <1>1, <2>1, <2>2, ThrowHasCause DEF CauseInv, Free
<1>. QED  BY <1>2, <1>3, <1>4

LEMMA RewriteHasCause ==
  ASSUME CauseInv, RewriteInv, ScopeInv, RepoInv, RewriteNext
  PROVE  CauseInv'
<1>1. CASE RequestRewrite
  BY <1>1, RequestHasCause
<1>2. ASSUME NEW receives \in 0 .. MaxReceive - 1, RewriteBegin(receives) PROVE CauseInv'
  BY <1>2, BeginHasCause
<1>3. CASE RewriteProbe \/ RewritePlanned \/ EnsureBranch \/ PutsDone \/ FindOpenPullRequest
           \/ CreatePullRequest
  BY <1>3, ProbeHasCause, PlannedHasCause, EnsureHasCause, PutsDoneHasCause, FindHasCause,
     CreateHasCause
<1>4. ASSUME NEW t \in rewriter.todo, RewriteRead(t) PROVE CauseInv'
  BY <1>4, ReadHasCause
<1>5. ASSUME NEW plan \in rewriter.plans, PutFile(plan) PROVE CauseInv'
  BY <1>5, PutHasCause
<1>6. CASE RewriteFails
  BY <1>6, LostHasCause DEF RewriteFails
<1>7. CASE MergePullRequest
  <2>1. Aside
    BY <1>7, Spent DEF MergePullRequest, Aside
  <2>. QED  BY <2>1, AsideKeeps
<1>8. CASE ClosePullRequest
  <2>1. Aside
    BY <1>8, Spent DEF ClosePullRequest, Aside
  <2>. QED  BY <2>1, AsideKeeps
<1>9. ASSUME NEW p \in Paths, NEW text \in Jobs, EditBranch(p, text) PROVE CauseInv'
  <2>1. Aside
    BY <1>9, Spent DEF EditBranch, Aside
  <2>. QED  BY <2>1, AsideKeeps
<1>10. CASE DeleteBranch
  <2>1. Aside
    BY <1>10, Spent DEF DeleteBranch, Aside
  <2>. QED  BY <2>1, AsideKeeps
<1>. QED
  BY <1>1, <1>2, <1>3, <1>4, <1>5, <1>6, <1>7, <1>8, <1>9, <1>10 DEF RewriteNext

LEMMA CauseKept ==
  ASSUME CauseInv, IInv, Next \/ UNCHANGED vars
  PROVE  CauseInv'
<1>1. RewriteInv /\ ScopeInv /\ RepoInv
  BY DEF IInv
<1>2. ScopeStep
  BY RegistryScope, ConfigScope, DiscoveryScope, ClaimScope, RoutingScope, RewriteScope, DoorScope,
     Resting DEF Next, vars
<1>3. CASE RewriteNext
  BY <1>1, <1>3, RewriteHasCause
<1>4. ASSUME NEW p \in Paths, NEW text, Push(p, text) PROVE CauseInv'
  <2>1. Aside
    BY <1>1, <1>4, Spent DEF Push, Aside
  <2>. QED  BY <1>1, <2>1, AsideKeeps
<1>5. CASE UNCHANGED <<rewriteVars, tree, branch>>
  <2>1. Aside
    BY <1>1, <1>2, <1>5, UsedGrows DEF Aside
  <2>. QED  BY <1>1, <2>1, AsideKeeps
<1>6. CASE DiscoveryNext
  <2>1. \/ \E p \in Paths, text \in Jobs \union {None} : Push(p, text)
        \/ UNCHANGED <<rewriteVars, tree, branch>>
    BY <1>6 DEF DiscoveryNext, ScanBegin, ScanFile, ScanPut, ScanEmpty, ScanFails, RescanRepo,
       githubVars
  <2>. QED  BY <1>4, <1>5, <2>1
<1>7. CASE UNCHANGED vars
  BY <1>5, <1>7 DEF vars, rewriteVars
<1>. QED
  BY <1>3, <1>5, <1>6, <1>7, RegistryFrame, ConfigFrame, ClaimFrame, RoutingFrame, DoorFrame
     DEF Next, githubVars

(* A rewrite request is dead-lettered only after as many mishaps or        *)
(* changes of GitHub, beside the request itself, as it has receives.       *)
THEOREM DeadLettersHaveCauses == Spec => []DlqNeedsCauses
<1>1. Init => CauseInv
  BY DEF Init, CauseInv, IdleRewriter
<1>2. IInv /\ CauseInv /\ [Next]_vars => CauseInv'
  BY CauseKept
<1>3. IInv /\ CauseInv => DlqNeedsCauses
  BY ControlAssumption DEF CauseInv, DlqNeedsCauses, IInv, ScopeInv
<1>. QED  BY <1>1, <1>2, <1>3, ControlInvariant, PTL DEF Spec

-----------------------------------------------------------------------------
(* Work without its pull request                                           *)

LEMMA ThrowIsWork ==
  ASSUME RewriteInv, Throw
  PROVE  AtWork'
<1>1. /\ rewriter.receives \in 0 .. MaxReceive /\ rewriteQ \in QueueType
      /\ rewriteQ' = [rewriteQ EXCEPT ![rewriter.receives] = @ + 1]
  BY DEF RewriteInv, Throw
<1>2. rewriteQ[rewriter.receives] \in Nat /\ rewriteQ'[rewriter.receives] = rewriteQ[rewriter.receives] + 1
  BY <1>1 DEF QueueType
<1>. QED  BY <1>1, <1>2 DEF AtWork

LEMMA AnswerIsWork ==
  ASSUME RewriteInv, NEW next, next.phase # "idle", Answer(next)
  PROVE  AtWork'
BY ThrowIsWork DEF Answer, Proceed, AtWork

(* Nobody but the operator takes the opt-in back.                          *)
LEMMA OptInStays ==
  ASSUME RepoInv, ConfigNext, "patch" \notin scope.may, repo # None, repo.rewrite
  PROVE  repo' # None /\ repo'.rewrite
<1>1. repo \in Rows /\ repo # Fault /\ Seen(repo) = repo
  BY AbsenceAssumption DEF RepoInv, Seen
<1>2. \A v \in BOOLEAN : /\ [repo EXCEPT !.enabled = v] \in Rows
                         /\ [repo EXCEPT !.enabled = v].rewrite = repo.rewrite
  BY <1>1 DEF Rows
<1>3. \A m \in FlavorMaps : /\ [repo EXCEPT !.map = m] \in Rows
                            /\ [repo EXCEPT !.map = m].rewrite = repo.rewrite
  BY <1>1 DEF Rows
<1>4. None \notin Rows
  BY AbsenceAssumption
<1>5. ASSUME NEW patch, PatchRepo(patch) PROVE FALSE
  BY <1>5 DEF PatchRepo, Spend, Can
<1>6. ASSUME NEW map \in FlavorMaps, PutFlavorMap(map) PROVE repo' # None /\ repo'.rewrite
  BY <1>3, <1>4, <1>6 DEF PutFlavorMap
<1>7. ASSUME NEW created \in BOOLEAN, RepoGranted(created) PROVE repo' # None /\ repo'.rewrite
  BY <1>1, <1>2, <1>4, <1>7 DEF RepoGranted, EnableRepo
<1>8. CASE RepoWithdrawn
  BY <1>2, <1>4, <1>8 DEF RepoWithdrawn
<1>9. CASE UNCHANGED repo
  BY <1>9
<1>. QED
  BY <1>5, <1>6, <1>7, <1>8, <1>9 DEF ConfigNext, SetRunnerLabels, AllowlistExpires,
     SetInstallationFlags

Opted == repo # None /\ repo.rewrite

LEMMA StrandedByRewrite ==
  ASSUME RewriteInv, RepoInv, "edit" \notin scope.may, RewriteNext,
         AtWork \/ branch # NoBranch => Opted,
         rewriter.phase = "read" /\ ~rewriter.existing => branch = NoBranch,
         branch # NoBranch /\ branch.ahead /\ pr = "none" => AtWork
  PROVE  /\ AtWork' \/ branch' # NoBranch => Opted
         /\ rewriter'.phase = "read" /\ ~rewriter'.existing => branch' = NoBranch
         /\ branch' # NoBranch /\ branch'.ahead /\ pr' = "none" => AtWork'
<1> DEFINE Goal ==
      /\ AtWork' \/ branch' # NoBranch => Opted
      /\ rewriter'.phase = "read" /\ ~rewriter'.existing => branch' = NoBranch
      /\ branch' # NoBranch /\ branch'.ahead /\ pr' = "none" => AtWork'
<1> USE RewriterFields
<1>1. CASE RequestRewrite
  <2>1. /\ Opted /\ rewriter' = rewriter /\ branch' = branch /\ pr' = pr
        /\ rewriteQ' = [rewriteQ EXCEPT ![0] = @ + 1] /\ 0 \in 0 .. MaxReceive
    BY <1>1, ControlAssumption DEF RequestRewrite, githubVars, Opted
  <2>2. rewriteQ'[0] > 0
    BY <2>1 DEF RewriteInv, QueueType
  <2>. QED  BY <2>1, <2>2 DEF AtWork
<1>2. ASSUME NEW receives \in 0 .. MaxReceive - 1, RewriteBegin(receives) PROVE Goal
  <2>1. /\ Opted /\ branch' = branch /\ pr' = pr
        /\ receives \in 0 .. MaxReceive /\ receives + 1 \in 0 .. MaxReceive
    <3>1. receives \in 0 .. MaxReceive /\ receives + 1 \in 0 .. MaxReceive
      BY ControlAssumption
    <3>. QED  BY <1>2, <3>1 DEF RewriteBegin, githubVars, AtWork
  <2>2. PICK row \in {repo, Fault} :
          IF row = Fault
          THEN /\ rewriteQ' = [rewriteQ EXCEPT ![receives] = @ - 1, ![receives + 1] = @ + 1]
               /\ UNCHANGED rewriter
          ELSE rewriter' = IF Seen(row).rewrite
                           THEN [IdleRewriter EXCEPT !.phase = "probe", !.receives = receives + 1]
                           ELSE IdleRewriter
    BY <1>2 DEF RewriteBegin
  <2>3. rewriter.phase = "idle"
    BY <1>2 DEF RewriteBegin
  <2>4. CASE row = Fault
    <3>1. rewriteQ'[receives + 1] = rewriteQ[receives + 1] + 1 /\ rewriteQ[receives + 1] \in Nat
      BY <2>1, <2>2, <2>4 DEF RewriteInv, QueueType
    <3>. QED  BY <2>1, <2>2, <2>3, <2>4, <3>1 DEF AtWork
  <2>5. CASE row # Fault
    <3>1. Seen(row) = repo
      BY <2>1, <2>5 DEF Seen, Opted
    <3>2. rewriter' = [IdleRewriter EXCEPT !.phase = "probe", !.receives = receives + 1]
      BY <2>1, <2>2, <2>5, <3>1 DEF Opted
    <3>3. rewriter'.phase = "probe"
      BY <3>2 DEF IdleRewriter
    <3>. QED  BY <2>1, <3>3 DEF AtWork
  <2>. QED  BY <2>4, <2>5
<1>3. CASE RewriteProbe
  <2>1. /\ rewriter.phase = "probe" /\ branch' = branch /\ rewriter'.phase = "read"
        /\ rewriter'.existing = (branch # NoBranch)
    BY <1>3 DEF RewriteProbe, Proceed, githubVars
  <2>. QED  BY <2>1 DEF AtWork
<1>4. ASSUME NEW t \in rewriter.todo, RewriteRead(t) PROVE Goal
  <2>1. /\ rewriter.phase = "read" /\ branch' = branch /\ rewriter'.phase = "read"
        /\ rewriter'.existing = rewriter.existing
    BY <1>4 DEF RewriteRead, Proceed, githubVars
  <2>. QED  BY <2>1 DEF AtWork
<1>5. CASE RewritePlanned
  <2>1. rewriter.phase = "read" /\ branch' = branch /\ pr' = pr
    BY <1>5 DEF RewritePlanned, githubVars
  <2>2. CASE rewriter.plans = {} /\ ~rewriter.existing
    BY <1>5, <2>1, <2>2 DEF RewritePlanned, Ack, IdleRewriter, AtWork
  <2>3. CASE ~(rewriter.plans = {} /\ ~rewriter.existing)
    <3>1. rewriter'.phase \in {"branch", "find"}
      BY <1>5, <2>3, PhaseMoves DEF RewritePlanned
    <3>. QED  BY <2>1, <3>1 DEF AtWork
  <2>. QED  BY <2>2, <2>3
<1>6. CASE EnsureBranch
  <2> DEFINE next == [rewriter EXCEPT !.phase = "put", !.edits = TRUE]
  <2>1. rewriter.phase = "branch" /\ pr' = pr /\ Answer(next) /\ next.phase = "put"
    BY <1>6 DEF EnsureBranch
  <2> HIDE DEF next
  <2>2. AtWork'
    BY <2>1, AnswerIsWork
  <2>3. rewriter'.phase # "read"
    <3>1. rewriter' = next \/ rewriter' = IdleRewriter
      BY <2>1 DEF Answer, Proceed, Throw
    <3>2. IdleRewriter.phase = "idle"
      BY DEF IdleRewriter
    <3>. QED  BY <2>1, <3>1, <3>2
  <2>. QED  BY <2>1, <2>2, <2>3 DEF AtWork
<1>7. ASSUME NEW plan \in rewriter.plans, PutFile(plan) PROVE Goal
  <2>1. rewriter.phase = "put" /\ pr' = pr
    BY <1>7 DEF PutFile
  <2>2. Throw \/ Answer([rewriter EXCEPT !.plans = @ \ {plan}])
    BY <1>7 DEF PutFile
  <2>3. AtWork'
    BY <2>1, <2>2, AnswerIsWork, ThrowIsWork
  <2>4. rewriter'.phase # "read"
    BY <2>1, <2>2 DEF Answer, Proceed, Throw, IdleRewriter
  <2>. QED  BY <2>1, <2>3, <2>4 DEF AtWork
<1>8. CASE PutsDone
  <2>1. rewriter.phase = "put" /\ rewriter'.phase = "find"
    BY <1>8, PhaseMoves DEF PutsDone
  <2>. QED  BY <2>1 DEF AtWork
<1>9. CASE FindOpenPullRequest
  <2>1. rewriter.phase = "find" /\ branch' = branch /\ pr' = pr
    BY <1>9 DEF FindOpenPullRequest, githubVars
  <2>2. pr = "open" \/ rewriter'.phase = "create"
    BY <1>9, PhaseMoves DEF FindOpenPullRequest
  <2>3. rewriter'.phase \in {"idle", "create"}
    BY <1>9, PhaseMoves DEF FindOpenPullRequest, Ack, IdleRewriter
  <2>. QED  BY <2>1, <2>2, <2>3 DEF AtWork
<1>10. CASE CreatePullRequest
  <2>1. rewriter.phase = "create" /\ branch' = branch
    BY <1>10 DEF CreatePullRequest
  <2>2. IF branch # NoBranch /\ branch.ahead THEN pr' = "open" ELSE pr' = pr
    BY <1>10 DEF CreatePullRequest
  <2>3. rewriter'.phase = "idle"
    BY <1>10 DEF CreatePullRequest, Answer, Proceed, Throw, Ack, IdleRewriter
  <2>. QED  BY <2>1, <2>2, <2>3 DEF AtWork
<1>11. CASE RewriteFails
  <2>1. rewriter.phase # "idle" /\ Throw /\ branch' = branch /\ pr' = pr
    BY <1>11 DEF RewriteFails, githubVars
  <2>2. AtWork' /\ rewriter'.phase = "idle"
    BY <2>1, ThrowIsWork DEF Throw, IdleRewriter
  <2>. QED  BY <2>1, <2>2 DEF AtWork
<1>12. CASE MergePullRequest
  <2>1. /\ branch # NoBranch /\ ~branch'.ahead /\ rewriter' = rewriter /\ rewriteQ' = rewriteQ
    BY <1>12 DEF MergePullRequest, RewriteInv, rewriteVars
  <2>. QED  BY <2>1 DEF AtWork
<1>13. CASE ClosePullRequest
  BY <1>13 DEF ClosePullRequest, rewriteVars, AtWork
<1>14. ASSUME NEW p \in Paths, NEW text \in Jobs, EditBranch(p, text) PROVE FALSE
  BY <1>14 DEF EditBranch, Spend, Can
<1>15. CASE DeleteBranch
  BY <1>15 DEF DeleteBranch, rewriteVars, AtWork
<1> HIDE DEF Goal
<1>16. Goal
  BY <1>2, <1>4, <1>7, <1>14, <1>1, <1>3, <1>5, <1>6, <1>8, <1>9, <1>10, <1>11, <1>12, <1>13, <1>15
     DEF RewriteNext, Goal
<1>. QED  BY <1>16 DEF Goal

LEMMA StrandKept ==
  ASSUME StrandInv, IInv, Next \/ UNCHANGED vars
  PROVE  StrandInv'
<1>1. RewriteInv /\ RepoInv /\ scope'.may = scope.may
  BY ScopeKept DEF IInv
<1> SUFFICES ASSUME scope.may \intersect {"patch", "edit"} = {}
             PROVE  /\ AtWork' \/ branch' # NoBranch => repo' # None /\ repo'.rewrite
                    /\ rewriter'.phase = "read" /\ ~rewriter'.existing => branch' = NoBranch
                    /\ branch' # NoBranch /\ branch'.ahead /\ pr' = "none" => AtWork'
  BY <1>1 DEF StrandInv
<1>2. /\ AtWork \/ branch # NoBranch => Opted
      /\ rewriter.phase = "read" /\ ~rewriter.existing => branch = NoBranch
      /\ branch # NoBranch /\ branch.ahead /\ pr = "none" => AtWork
      /\ "patch" \notin scope.may /\ "edit" \notin scope.may
  BY DEF StrandInv, Opted
<1>3. CASE RewriteNext
  <2>1. repo' = repo
    BY <1>3, RewriteFrame DEF repoVars
  <2>. QED  BY <1>1, <1>2, <1>3, <2>1, StrandedByRewrite DEF Opted
<1>4. CASE UNCHANGED <<branch, pr, rewriteVars>> /\ (Opted => Opted')
  BY <1>2, <1>4 DEF rewriteVars, AtWork, Opted
<1>5. CASE ConfigNext
  BY <1>1, <1>2, <1>4, <1>5, OptInStays, ConfigFrame DEF Opted, githubVars
<1>. QED
  BY <1>3, <1>4, <1>5, RegistryFrame, DiscoveryFrame, ClaimFrame, RoutingFrame, DoorFrame
     DEF Next, githubVars, vars, repoVars, Opted, rewriteVars

(* Commits are not left without a pull request: while nobody withdraws the *)
(* opt-in or edits the branch, some request works or waits for them.       *)
THEOREM NothingStranded == Spec => []NoStrandedRewrite
<1>1. Init => StrandInv
  BY DEF Init, StrandInv, AtWork, IdleRewriter
<1>2. IInv /\ StrandInv /\ [Next]_vars => StrandInv'
  BY StrandKept
<1>3. StrandInv => NoStrandedRewrite
  BY DEF StrandInv, NoStrandedRewrite, AtWork
<1>. QED  BY <1>1, <1>2, <1>3, ControlInvariant, PTL DEF Spec

-----------------------------------------------------------------------------
(* The labels of a rewritten job                                           *)

(* Each member of a finite set of numbers has a place of its own.          *)
LEMMA Places ==
  ASSUME NEW S \in SUBSET Nat, IsFiniteSet(S)
  PROVE  /\ Cardinality(S) \in Nat
         /\ \A i \in S : Place(S, i) \in 1 .. Cardinality(S)
         /\ \A i, j \in S : Place(S, i) = Place(S, j) => i = j
         /\ \A n \in 1 .. Cardinality(S) : \E i \in S : Place(S, i) = n
<1> DEFINE below(i) == {j \in S : j <= i}
           place    == [i \in S |-> Place(S, i)]
<1>1. Cardinality(S) \in Nat
  BY FS_CardinalityType
<1>2. ASSUME NEW i \in S
      PROVE  /\ IsFiniteSet(below(i)) /\ Cardinality(below(i)) \in Nat
             /\ Place(S, i) = Cardinality(below(i)) /\ Place(S, i) \in 1 .. Cardinality(S)
  <2>1. below(i) \in SUBSET S /\ i \in below(i)
    OBVIOUS
  <2>2. IsFiniteSet(below(i)) /\ Cardinality(below(i)) <= Cardinality(S)
    BY <2>1, FS_Subset
  <2>3. Cardinality(below(i)) \in Nat /\ Cardinality(below(i)) # 0
    BY <2>1, <2>2, FS_CardinalityType, FS_EmptySet
  <2>. QED  BY <1>1, <2>2, <2>3 DEF Place
<1>3. ASSUME NEW i \in S, NEW j \in S, i < j PROVE Place(S, i) # Place(S, j)
  <2>1. \A k \in S : k <= i => k <= j
    BY <1>3
  <2>2. j <= j /\ ~(j <= i)
    BY <1>3
  <2>3. below(i) \in SUBSET below(j) /\ j \in below(j) /\ j \notin below(i)
    BY <2>1, <2>2
  <2>. QED  BY <1>2, <2>3, FS_Subset
<1>4. \A i, j \in S : Place(S, i) = Place(S, j) => i = j
  <2>1. \A i, j \in S : i < j \/ j < i \/ i = j
    OBVIOUS
  <2>. QED  BY <1>3, <2>1
<1>5. place \in Injection(S, 1 .. Cardinality(S))
  BY <1>2, <1>4 DEF Injection, IsInjective
<1>6. IsFiniteSet(1 .. Cardinality(S)) /\ Cardinality(1 .. Cardinality(S)) = Cardinality(S)
  BY <1>1, FS_Interval
<1>7. place \in Surjection(S, 1 .. Cardinality(S))
  BY <1>5, <1>6, FS_Injection
<1>8. \A n \in 1 .. Cardinality(S) : \E i \in S : Place(S, i) = n
  BY <1>7 DEF Surjection
<1>. QED  BY <1>1, <1>2, <1>4, <1>8

(* A finite set of numbers that is not empty has a least one.              *)
LEMMA FirstOf ==
  ASSUME NEW S \in SUBSET Nat, IsFiniteSet(S), S # {}
  PROVE  \E i \in S : \A j \in S : i <= j
<1>1. Cardinality(S) \in Nat /\ Cardinality(S) # 0
  BY FS_CardinalityType, FS_EmptySet
<1>2. PICK i \in S : Place(S, i) = 1
  BY <1>1, Places
<1>3. ASSUME NEW j \in S, j < i PROVE FALSE
  <2> DEFINE below == {k \in S : k <= i}
  <2>1. IsFiniteSet(below) /\ Cardinality(below) = 1
    BY <1>2, FS_Subset DEF Place
  <2>2. i \in below /\ j \in below
    BY <1>3
  <2>3. PICK k : below = {k}
    BY <2>1, FS_Singleton
  <2>. QED  BY <1>3, <2>2, <2>3
<1>. QED  BY <1>3

(* The labels of a job are finitely many.                                  *)
LEMMA LabelsFinite ==
  ASSUME NEW s, IsSequence(s)
  PROVE  /\ DOMAIN s = 1 .. Len(s) /\ Len(s) \in Nat
         /\ DOMAIN s \in SUBSET Nat /\ IsFiniteSet(DOMAIN s)
         /\ IsFiniteSet(LabelSet(s))
<1>1. DOMAIN s = 1 .. Len(s) /\ Len(s) \in Nat
  BY DEF IsSequence
<1>2. DOMAIN s \in SUBSET Nat /\ IsFiniteSet(DOMAIN s)
  BY <1>1, FS_Interval
<1>3. s = [i \in DOMAIN s |-> s[i]]
  BY DEF IsSequence
<1>4. s \in Surjection(DOMAIN s, LabelSet(s))
  BY <1>3 DEF Surjection, LabelSet
<1>. QED  BY <1>1, <1>2, <1>4, FS_Surjection

(* What is chosen of a sequence is a sequence of just that.                *)
LEMMA ChosenSet ==
  ASSUME NEW s, IsSequence(s), NEW S \in SUBSET DOMAIN s
  PROVE  LET chosen == Chosen(s, S)
         IN  chosen \in Seq({s[i] : i \in S}) /\ LabelSet(chosen) = {s[i] : i \in S}
<1> DEFINE at(n) == CHOOSE i \in S : Place(S, i) = n
           range == 1 .. Cardinality(S)
           members == {s[i] : i \in S}
<1>1. S \in SUBSET Nat /\ IsFiniteSet(S)
  BY LabelsFinite, FS_Subset
<1>2. /\ Cardinality(S) \in Nat
      /\ \A i \in S : Place(S, i) \in range
      /\ \A i, j \in S : Place(S, i) = Place(S, j) => i = j
      /\ \A n \in range : \E i \in S : Place(S, i) = n
  BY <1>1, Places
<1>3. \A n \in range : at(n) \in S /\ Place(S, at(n)) = n
  BY <1>2
<1>4. \A i \in S : at(Place(S, i)) = i
  BY <1>2, <1>3
<1>5. Chosen(s, S) = [n \in range |-> s[at(n)]]
  BY DEF Chosen
<1> HIDE DEF at
<1>6. \A i \in S : s[i] \in members
  OBVIOUS
<1>7. Chosen(s, S) \in [range -> members]
  BY <1>3, <1>5, <1>6
<1>8. DOMAIN Chosen(s, S) = range
  BY <1>5
<1>9. Chosen(s, S) \in Seq(members)
  BY <1>2, <1>7
<1>. QED  BY <1>2, <1>3, <1>4, <1>5, <1>9, <1>8 DEF LabelSet

(* A rewritten job has the labels the planner means it to have.            *)
LEMMA RewrittenSet ==
  ASSUME NEW s, IsSequence(s), NEW lca
  PROVE  /\ IsSequence(RewriteRunsOnValue(s, lca))
         /\ LabelSet(RewriteRunsOnValue(s, lca)) = RewrittenLabels(LabelSet(s), lca)
<1> DEFINE kept == {i \in DOMAIN s : s[i] \in Kept(LabelSet(s))}
           mid  == Chosen(s, kept)
           new  == <<SelfHosted>> \o mid \o <<lca>>
           all  == {SelfHosted, lca} \union {s[i] : i \in kept}
<1>1. mid \in Seq({s[i] : i \in kept}) /\ LabelSet(mid) = {s[i] : i \in kept}
  BY ChosenSet
<1>2. {s[i] : i \in kept} = Kept(LabelSet(s))
  BY DEF Kept, LabelSet
<1>3. RewriteRunsOnValue(s, lca) = new
  BY DEF RewriteRunsOnValue
<1> HIDE DEF kept, mid
<1>4. mid \in Seq(all)
  <2>1. {s[i] : i \in kept} \subseteq all
    OBVIOUS
  <2> HIDE DEF all
  <2>. QED  BY <1>1, <2>1
<1>5. SelfHosted \in all /\ lca \in all
  OBVIOUS
<1> HIDE DEF all
<1>6. /\ new \in Seq(all) /\ Len(new) = Len(mid) + 2
      /\ new[1] = SelfHosted /\ new[Len(mid) + 2] = lca
      /\ \A i \in 1 .. Len(mid) : new[i + 1] = mid[i]
  BY <1>4, <1>5
<1> HIDE DEF new
<1>7. LabelSet(new) = all
  <2>1. DOMAIN new = 1 .. Len(mid) + 2 /\ DOMAIN mid = 1 .. Len(mid) /\ Len(mid) \in Nat
    BY <1>4, <1>6
  <2>2. LabelSet(new) \subseteq all
    BY <1>6 DEF LabelSet
  <2>3. \A i \in 1 .. Len(mid) : mid[i] \in LabelSet(new)
    <3>1. \A i \in 1 .. Len(mid) : i + 1 \in DOMAIN new
      BY <2>1
    <3>. QED  BY <1>6, <3>1 DEF LabelSet
  <2>4. 1 \in DOMAIN new /\ Len(mid) + 2 \in DOMAIN new
    BY <2>1
  <2>5. SelfHosted \in LabelSet(new) /\ lca \in LabelSet(new)
    BY <1>6, <2>4 DEF LabelSet
  <2>6. {s[i] : i \in kept} \subseteq LabelSet(new)
    BY <1>1, <2>1, <2>3 DEF LabelSet
  <2>. QED  BY <2>2, <2>5, <2>6 DEF all
<1>8. all = RewrittenLabels(LabelSet(s), lca)
  BY <1>2 DEF all, RewrittenLabels
<1>. QED  BY <1>3, <1>6, <1>7, <1>8 DEF IsSequence

(* In the planner's eyes a job it may edit can be claimed once it has.     *)
LEMMA RewrittenIsClaimable ==
  ASSUME NEW text, IsText(text), NEW lca \in BuiltinLabels,
         RunsOnRefusal(text.shape, LabelSet(text.labels)) = NoSkip,
         Cardinality(LabelSet(text.labels)) < MaxJitLabels,
         NEW labels, labels = LabelSet(RewriteRunsOnValue(text.labels, lca))
  PROVE  /\ \A mode \in ModesSet : DecideClaim(labels, BuiltinLabels, mode) = "label"
         /\ MintRefusal(labels) = "mint"
         /\ labels \intersect AdoptLabels = {}
         /\ AlreadyTargetsLca(labels)
<1> DEFINE old == LabelSet(text.labels)
<1>1. /\ ~AlreadyTargetsLca(old) /\ old \intersect AdoptLabels # {}
      /\ old \intersect IncompatibleLabels = {}
  BY DEF RunsOnRefusal, NoSkip, IsText, Shapes, IncompatibleRunnerLabel
<1>2. labels = {SelfHosted} \union Kept(old) \union {lca}
  BY RewrittenSet DEF IsText, RewrittenLabels
<1>3. lca \notin AdoptLabels /\ lca \notin IncompatibleLabels /\ lca # Expression
  <2>1. lca \in {"lambda-ci", "lambda-ci-node", "lambda-ci-python", "lambda-ci-java",
                 "lambda-ci-go", "lambda-ci-rust", "lambda-ci-docker"}
    BY DEF BuiltinLabels, BuiltinFlavors, Flavor
  <2>. QED  BY <2>1 DEF AdoptLabels, IncompatibleLabels, NonLinuxLabels, X86Labels, Expression
<1>4. SelfHosted \notin AdoptLabels /\ SelfHosted \notin IncompatibleLabels /\ SelfHosted # Expression
  BY DEF SelfHosted, AdoptLabels, IncompatibleLabels, NonLinuxLabels, X86Labels, Expression
<1>5. labels \intersect AdoptLabels = {} /\ ~IncompatibleRunnerLabel(labels)
  BY <1>1, <1>2, <1>3, <1>4 DEF Kept, IncompatibleRunnerLabel
<1>6. AlreadyTargetsLca(labels) /\ labels \intersect BuiltinLabels # {}
  BY <1>2 DEF AlreadyTargetsLca
<1>7. IsFiniteSet(labels) /\ Cardinality(labels) <= MaxJitLabels
  <2>1. IsFiniteSet(old) /\ Cardinality(old) \in Nat
    BY LabelsFinite, FS_CardinalityType DEF IsText
  <2>2. PICK a \in old : a \in AdoptLabels
    BY <1>1
  <2>3. /\ IsFiniteSet(old \ {a}) /\ Cardinality(old \ {a}) = Cardinality(old) - 1
    BY <2>1, FS_RemoveElement
  <2>4. Kept(old) \in SUBSET (old \ {a})
    BY <2>2 DEF Kept
  <2>5. /\ IsFiniteSet(Kept(old)) /\ Cardinality(Kept(old)) \in Nat
        /\ Cardinality(Kept(old)) <= Cardinality(old) - 1
    BY <2>3, <2>4, FS_Subset, FS_CardinalityType
  <2> DEFINE more == Kept(old) \union {SelfHosted}
  <2>6. /\ IsFiniteSet(more) /\ Cardinality(more) \in Nat
        /\ Cardinality(more) <= Cardinality(Kept(old)) + 1
    <3>1. /\ IsFiniteSet(more)
          /\ Cardinality(more) = IF SelfHosted \in Kept(old) THEN Cardinality(Kept(old))
                                 ELSE Cardinality(Kept(old)) + 1
      BY <2>5, FS_AddElement
    <3>. QED  BY <2>5, <3>1
  <2> HIDE DEF more
  <2>7. /\ IsFiniteSet(more \union {lca})
        /\ Cardinality(more \union {lca}) <= Cardinality(more) + 1
    <3>1. /\ IsFiniteSet(more \union {lca})
          /\ Cardinality(more \union {lca}) =
               IF lca \in more THEN Cardinality(more) ELSE Cardinality(more) + 1
      BY <2>6, FS_AddElement
    <3>. QED  BY <2>6, <3>1
  <2>8. labels = more \union {lca}
    BY <1>2 DEF more
  <2>9. Cardinality(labels) \in Nat
    BY <2>7, <2>8, FS_CardinalityType
  <2> HIDE DEF old
  <2>. QED  BY <2>1, <2>5, <2>6, <2>7, <2>8, <2>9 DEF MaxJitLabels, old
<1> DEFINE jit == JitRunnerLabels(labels)
<1>8. jit \in SUBSET labels /\ SelfHosted \in jit /\ ~IncompatibleRunnerLabel(jit)
  BY <1>2, <1>4, <1>5 DEF JitRunnerLabels, IncompatibleRunnerLabel
<1>9. Cardinality(jit) <= MaxJitLabels
  <2>1. /\ Cardinality(jit) <= Cardinality(labels) /\ Cardinality(jit) \in Nat
        /\ Cardinality(labels) \in Nat
    BY <1>7, <1>8, FS_Subset, FS_CardinalityType
  <2> HIDE DEF jit
  <2>. QED  BY <2>1, <1>7 DEF MaxJitLabels
<1>10. Cardinality(jit) \in Nat
  BY <1>7, <1>8, FS_Subset, FS_CardinalityType
<1>11. MintRefusal(labels) = "mint"
  <2>1. ~(Cardinality(jit) > MaxJitLabels)
    <3> HIDE DEF jit
    <3>. QED  BY <1>9, <1>10 DEF MaxJitLabels
  <2>. QED  BY <1>8, <2>1 DEF MintRefusal
<1>. QED  BY <1>5, <1>6, <1>11 DEF DecideClaim

-----------------------------------------------------------------------------
(* Refusals: the texts                                                     *)

LEMMA JobTexts == \A text \in Jobs : text # None => IsText(text)
BY TextAssumption DEF Texts, IsText

LEMMA RewrittenText ==
  ASSUME NEW text, IsText(text), NEW target
  PROVE  IsText(PlanFileRewrite(text, target))
<1> DEFINE lca == LabelForFlavor(target.flavor)
<1>1. IsSequence(RewriteRunsOnValue(text.labels, lca))
  BY RewrittenSet DEF IsText
<1>2. PlanFileRewrite(text, target) = [text EXCEPT !.labels = RewriteRunsOnValue(text.labels, lca)]
  BY DEF PlanFileRewrite
<1>. QED  BY <1>1, <1>2 DEF IsText

LEMMA CommittedTexts ==
  ASSUME WorldTexts, RewriteInv, branch # NoBranch, NEW p \in Paths, NEW text,
         text # None => IsText(text), branch' = Committed(p, text)
  PROVE  \A q \in Paths : branch'.files[q] # None => IsText(branch'.files[q])
<1>1. branch'.files = [branch.files EXCEPT ![p] = text] /\ DOMAIN branch.files = Paths
  BY DEF Committed, RewriteInv
<1>. QED  BY <1>1 DEF WorldTexts

LEMMA PlansStay ==
  ASSUME RewriteInv, NEW next, next.plans \subseteq rewriter.plans,
         Proceed(next) \/ Answer(next)
  PROVE  rewriter'.plans \subseteq rewriter.plans
BY DEF Proceed, Answer, Throw, IdleRewriter

LEMMA RewriteTexts ==
  ASSUME WorldTexts, CauseInv, RewriteInv, RewriteNext
  PROVE  WorldTexts'
<1>1. CASE /\ UNCHANGED <<tree, branch>> /\ rewriter'.plans \subseteq rewriter.plans
  BY <1>1 DEF WorldTexts
<1>2. CASE RequestRewrite \/ ClosePullRequest
  BY <1>1, <1>2 DEF RequestRewrite, ClosePullRequest, githubVars, rewriteVars
<1>3. ASSUME NEW receives \in 0 .. MaxReceive - 1, RewriteBegin(receives) PROVE WorldTexts'
  <2>1. rewriter' = rewriter \/ rewriter'.plans = {}
    <3>1. \/ rewriter' = rewriter \/ rewriter' = IdleRewriter
          \/ rewriter' = [IdleRewriter EXCEPT !.phase = "probe", !.receives = receives + 1]
      BY <1>3 DEF RewriteBegin
    <3>2. [IdleRewriter EXCEPT !.phase = "probe", !.receives = receives + 1].plans = {}
      BY DEF IdleRewriter
    <3>3. IdleRewriter.plans = {}
      BY DEF IdleRewriter
    <3>. QED  BY <3>1, <3>2, <3>3
  <2>. QED  BY <1>1, <1>3, <2>1 DEF RewriteBegin, githubVars
<1>4. CASE RewriteProbe
  <2> DEFINE next == [rewriter EXCEPT !.phase = "read", !.existing = branch # NoBranch,
                                      !.todo = RewriteTargets]
  <2>1. next.plans = rewriter.plans /\ Proceed(next) /\ UNCHANGED <<tree, branch>>
    BY <1>4, RewriterFields DEF RewriteProbe, githubVars
  <2> HIDE DEF next
  <2>. QED  BY <1>1, <2>1, PlansStay
<1>5. ASSUME NEW t \in rewriter.todo, RewriteRead(t) PROVE WorldTexts'
  <2> DEFINE files == IF ~rewriter.existing THEN tree
                      ELSE IF branch = NoBranch THEN [p \in Paths |-> None] ELSE branch.files
             text == files[t.path]
             plan == [path |-> t.path, text |-> text, next |-> PlanFileRewrite(text, t.target)]
             plans == IF text # None /\ PlanRefusal(text, t.target) = NoSkip
                      THEN rewriter.plans \union {plan} ELSE rewriter.plans
  <2>1. t.path \in Paths
    BY <1>5 DEF RewriteRead, CauseInv, OnePlanEach
  <2>2. text # None => IsText(text)
    BY <2>1 DEF WorldTexts
  <2>3. plan.next = PlanFileRewrite(text, t.target)
    OBVIOUS
  <2> HIDE DEF files, text
  <2>4. \A a \in plans : a.next # None => IsText(a.next)
    BY <2>2, <2>3, RewrittenText DEF WorldTexts
  <2>5. rewriter'.plans = plans /\ UNCHANGED <<tree, branch>>
    BY <1>5, RewriterFields DEF RewriteRead, Proceed, githubVars, files, text
  <2> HIDE DEF plans
  <2>. QED  BY <2>4, <2>5 DEF WorldTexts
<1>6. CASE RewritePlanned \/ PutsDone \/ FindOpenPullRequest
  <2>1. UNCHANGED <<tree, branch>>
    BY <1>6 DEF RewritePlanned, PutsDone, FindOpenPullRequest, githubVars
  <2>2. Ack \/ \E phase : Proceed([rewriter EXCEPT !.phase = phase])
    BY <1>6 DEF RewritePlanned, PutsDone, FindOpenPullRequest
  <2>3. rewriter'.plans \subseteq rewriter.plans
    <3>1. ASSUME NEW phase, Proceed([rewriter EXCEPT !.phase = phase])
          PROVE  rewriter'.plans \subseteq rewriter.plans
      BY <3>1, PhaseMoves
    <3>2. CASE Ack
      BY <3>2 DEF Ack, IdleRewriter
    <3>. QED  BY <2>2, <3>1, <3>2
  <2>. QED  BY <1>1, <2>1, <2>3
<1>7. CASE EnsureBranch
  <2> DEFINE next == [rewriter EXCEPT !.phase = "put", !.edits = TRUE]
  <2>1. next.plans = rewriter.plans /\ Answer(next) /\ tree' = tree
    BY <1>7, RewriterFields DEF EnsureBranch
  <2> HIDE DEF next
  <2>2. rewriter'.plans \subseteq rewriter.plans
    BY <2>1, PlansStay
  <2>3. branch' = branch \/ branch'.files = tree
    BY <1>7 DEF EnsureBranch
  <2>. QED  BY <2>1, <2>2, <2>3 DEF WorldTexts
<1>8. ASSUME NEW plan \in rewriter.plans, PutFile(plan) PROVE WorldTexts'
  <2> DEFINE next == [rewriter EXCEPT !.plans = @ \ {plan}]
  <2>1. /\ next.plans \subseteq rewriter.plans /\ tree' = tree
        /\ Throw \/ Answer(next)
        /\ \/ branch' = branch
           \/ branch # NoBranch /\ branch' = Committed(plan.path, plan.next)
    <3>1. next.plans \subseteq rewriter.plans
      BY RewriterFields
    <3> HIDE DEF next
    <3>2. CASE branch = NoBranch \/ branch.files[plan.path] # plan.text
      <4>1. Throw /\ UNCHANGED <<branch, tree>>
        BY <1>8, <3>2 DEF PutFile
      <4>. QED  BY <3>1, <4>1
    <3>3. CASE ~(branch = NoBranch \/ branch.files[plan.path] # plan.text)
      BY <1>8, <3>1, <3>3 DEF PutFile, next
    <3>. QED  BY <3>2, <3>3
  <2> HIDE DEF next
  <2>2. rewriter'.plans \subseteq rewriter.plans
    BY <2>1, PlansStay DEF Throw, IdleRewriter
  <2>3. plan.path \in Paths
    BY <1>8 DEF PutFile, CauseInv, OnePlanEach
  <2>4. CASE branch' = branch
    BY <1>1, <2>1, <2>2, <2>4
  <2>5. CASE branch # NoBranch /\ branch' = Committed(plan.path, plan.next)
    <3>1. plan.next # None => IsText(plan.next)
      BY DEF WorldTexts
    <3>. QED  BY <2>1, <2>2, <2>3, <2>5, <3>1, CommittedTexts DEF WorldTexts
  <2>. QED  BY <2>1, <2>4, <2>5
<1>9. CASE CreatePullRequest
  <2>1. UNCHANGED <<tree, branch>> /\ rewriter'.plans = {}
    BY <1>9 DEF CreatePullRequest, Answer, Proceed, Ack, Throw, IdleRewriter
  <2>. QED  BY <1>1, <2>1
<1>10. CASE RewriteFails
  BY <1>1, <1>10 DEF RewriteFails, Throw, IdleRewriter, githubVars
<1>11. CASE MergePullRequest
  <2>1. /\ branch # NoBranch /\ rewriter' = rewriter
        /\ \A p \in Paths : tree'[p] = branch.files[p] \/ tree'[p] = tree[p]
        /\ branch'.files = branch.files
    BY <1>11 DEF MergePullRequest, rewriteVars, RewriteInv
  <2>. QED  BY <2>1 DEF WorldTexts
<1>12. ASSUME NEW p \in Paths, NEW text \in Jobs, EditBranch(p, text) PROVE WorldTexts'
  <2>1. /\ branch # NoBranch /\ branch' = Committed(p, text) /\ tree' = tree
        /\ rewriter' = rewriter
    BY <1>12 DEF EditBranch, rewriteVars
  <2>. QED  BY <2>1, JobTexts, CommittedTexts DEF WorldTexts
<1>13. CASE DeleteBranch
  BY <1>13 DEF DeleteBranch, rewriteVars, WorldTexts
<1>. QED
  BY <1>2, <1>3, <1>4, <1>5, <1>6, <1>7, <1>8, <1>9, <1>10, <1>11, <1>12, <1>13 DEF RewriteNext

LEMMA WorldTextsKept ==
  ASSUME WorldTexts, CauseInv, IInv, Next \/ UNCHANGED vars
  PROVE  WorldTexts'
<1>1. RewriteInv
  BY DEF IInv
<1>2. CASE UNCHANGED <<tree, branch, rewriter>>
  BY <1>2 DEF WorldTexts
<1>3. CASE RewriteNext
  BY <1>1, <1>3, RewriteTexts
<1>4. CASE DiscoveryNext
  <2>1. ASSUME NEW p \in Paths, NEW text \in Jobs \union {None}, Push(p, text)
        PROVE  WorldTexts'
    <3>1. tree' = [tree EXCEPT ![p] = text] /\ UNCHANGED <<branch, rewriter>>
      BY <2>1 DEF Push, rewriteVars
    <3>. QED  BY <1>1, <3>1, JobTexts DEF WorldTexts, RewriteInv
  <2>. QED
    BY <1>2, <1>4, <2>1 DEF DiscoveryNext, ScanBegin, ScanFile, ScanPut, ScanEmpty, ScanFails,
       RescanRepo, githubVars, rewriteVars
<1>. QED
  BY <1>2, <1>3, <1>4, RegistryFrame, ConfigFrame, ClaimFrame, RoutingFrame, DoorFrame
     DEF Next, githubVars, vars, rewriteVars

-----------------------------------------------------------------------------
(* Refusals: the scans                                                     *)

(* A file's step stores what Analyze makes of its text, or throws.         *)
LEMMA ScanFileFinds ==
  ASSUME ScanInv, NEW s \in Scans, NEW p \in Paths, ScanFile(s, p)
  PROVE  \/ ScanThrows(s)
         \/ /\ tree[p] # None
            /\ \E custom, known :
                 scan' = [scan EXCEPT ![s] =
                   [scan[s] EXCEPT !.phase = "put", !.path = p, !.custom = custom,
                                   !.found = Analyze(tree[p], scan[s].row, known)]]
<1>1. CASE tree[p] = None
  BY <1>1 DEF ScanFile
<1>2. CASE tree[p] # None
  BY <1>2 DEF ScanFile
<1>. QED  BY <1>1, <1>2

(* What one scan does, as the others and the analyses see it.              *)
ScanDoes(s) ==
  /\ \A t \in Scans \ {s} : scan'[t] = scan[t]
  /\ \/ scan'[s].phase \in {"idle", "files"} /\ analysis' = analysis
     \/ /\ scan'[s].phase = "put" /\ scan'[s].path \in Paths /\ tree[scan'[s].path] # None
        /\ analysis' = analysis
        /\ \E row, known : scan'[s].found = Analyze(tree[scan'[s].path], row, known)
     \/ /\ scan'[s].phase \in {"idle", "files"} /\ scan[s].phase = "put"
        /\ analysis' = [analysis EXCEPT ![scan[s].path] = scan[s].found]

LEMMA ScanSteps ==
  ASSUME ScanInv, NEW s \in Scans,
         \/ \E receives \in 0 .. MaxReceive - 1 : ScanBegin(s, receives)
         \/ \E p \in Paths : ScanFile(s, p)
         \/ ScanPut(s) \/ ScanEmpty(s) \/ ScanFails(s)
  PROVE  ScanDoes(s)
<1>1. /\ DOMAIN scan = Scans
      /\ DOMAIN scan[s] = {"phase", "row", "todo", "custom", "path", "found", "receives"}
  BY DEF ScanInv, IdleScan
<1>2. CASE ScanThrows(s) /\ analysis' = analysis
  BY <1>1, <1>2 DEF ScanThrows, ScanDoes, IdleScan
<1>3. ASSUME NEW receives \in 0 .. MaxReceive - 1, ScanBegin(s, receives) PROVE ScanDoes(s)
  <2>1. PICK row : scan' = [scan EXCEPT ![s] =
            [IdleScan EXCEPT !.phase = "files", !.row = Seen(row), !.receives = receives + 1,
                             !.todo = {p \in Paths : tree[p] # None}]]
    BY <1>3 DEF ScanBegin
  <2>2. scan'[s].phase = "files" /\ \A t \in Scans \ {s} : scan'[t] = scan[t]
    BY <1>1, <2>1 DEF IdleScan
  <2>. QED  BY <1>3, <2>2 DEF ScanBegin, ScanDoes
<1>4. ASSUME NEW p \in Paths, ScanFile(s, p) PROVE ScanDoes(s)
  <2>1. analysis' = analysis
    BY <1>4 DEF ScanFile
  <2>2. CASE ScanThrows(s)
    BY <1>2, <2>1, <2>2
  <2>3. CASE ~ScanThrows(s)
    <3>1. PICK custom, known :
            /\ tree[p] # None
            /\ scan' = [scan EXCEPT ![s] =
                 [scan[s] EXCEPT !.phase = "put", !.path = p, !.custom = custom,
                                 !.found = Analyze(tree[p], scan[s].row, known)]]
      <4>1. /\ tree[p] # None
            /\ \E custom, known :
                 scan' = [scan EXCEPT ![s] =
                   [scan[s] EXCEPT !.phase = "put", !.path = p, !.custom = custom,
                                   !.found = Analyze(tree[p], scan[s].row, known)]]
        BY <1>4, <2>3, ScanFileFinds
      <4>. QED  BY <4>1
    <3>2. /\ scan'[s].phase = "put" /\ scan'[s].path = p
          /\ scan'[s].found = Analyze(tree[p], scan[s].row, known)
          /\ \A t \in Scans \ {s} : scan'[t] = scan[t]
      BY <1>1, <3>1
    <3>. QED  BY <2>1, <3>1, <3>2 DEF ScanDoes
  <2>. QED  BY <2>2, <2>3
<1>5. CASE ScanPut(s)
  <2>1. PICK w : /\ scan' = [scan EXCEPT ![s] = w]
                 /\ w.phase \in {"idle", "files"}
    <3>1. \/ scan' = [scan EXCEPT ![s] = IdleScan]
          \/ scan' = [scan EXCEPT ![s] = [scan[s] EXCEPT !.phase = "files",
                        !.todo = scan[s].todo \ {scan[s].path}, !.path = None, !.found = None]]
      BY <1>5 DEF ScanPut
    <3>2. [scan[s] EXCEPT !.phase = "files", !.todo = scan[s].todo \ {scan[s].path},
                          !.path = None, !.found = None].phase = "files"
      BY <1>1
    <3>3. IdleScan.phase = "idle"
      BY DEF IdleScan
    <3>. QED  BY <3>1, <3>2, <3>3
  <2>. QED  BY <1>1, <1>5, <2>1 DEF ScanPut, ScanDoes
<1>6. CASE ScanEmpty(s)
  BY <1>1, <1>6 DEF ScanEmpty, ScanDoes, IdleScan
<1>7. CASE ScanFails(s)
  BY <1>2, <1>7 DEF ScanFails
<1>. QED  BY <1>3, <1>4, <1>5, <1>6, <1>7

LEMMA AnalyzeMirrors ==
  ASSUME NEW p \in Paths, tree[p] # None, NEW row, NEW known
  PROVE  Mirrors(Analyze(tree[p], row, known), p)
<1>1. CASE tree[p].shape = "broken"
  BY <1>1 DEF Mirrors, Analyze
<1>2. CASE tree[p].shape # "broken"
  BY <1>2 DEF Mirrors, Analyze
<1>. QED  BY <1>1, <1>2

LEMMA ScanTextsKept ==
  ASSUME ScanTexts, WorldTexts, IInv, Next \/ UNCHANGED vars
  PROVE  ScanTexts'
<1>1. ScanInv
  BY DEF IInv
<1>2. CASE UNCHANGED <<scan, analysis>>
  BY <1>2 DEF ScanTexts
<1>3. ASSUME NEW s \in Scans, ScanDoes(s) PROVE ScanTexts'
  <2>1. CASE scan'[s].phase \in {"idle", "files"} /\ analysis' = analysis
    BY <1>3, <2>1 DEF ScanTexts, ScanDoes
  <2>2. CASE /\ scan'[s].phase = "put" /\ scan'[s].path \in Paths /\ tree[scan'[s].path] # None
             /\ analysis' = analysis
             /\ \E row, known : scan'[s].found = Analyze(tree[scan'[s].path], row, known)
    <3>1. PICK p \in Paths : p = scan'[s].path
      BY <2>2
    <3>2. PICK row, known : scan'[s].found = Analyze(tree[p], row, known)
      BY <2>2, <3>1
    <3>3. Mirrors(scan'[s].found, p) /\ IsText(tree[p])
      BY <2>2, <3>1, <3>2, AnalyzeMirrors DEF WorldTexts
    <3>4. scan'[s].found.parsed => IsText(scan'[s].found.text)
      BY <3>3 DEF Mirrors
    <3>. QED  BY <1>3, <2>2, <3>4 DEF ScanTexts, ScanDoes
  <2>3. CASE /\ scan'[s].phase \in {"idle", "files"} /\ scan[s].phase = "put"
             /\ analysis' = [analysis EXCEPT ![scan[s].path] = scan[s].found]
    BY <1>3, <2>3 DEF ScanTexts, ScanDoes
  <2>. QED  BY <1>3, <2>1, <2>2, <2>3 DEF ScanDoes
<1>4. CASE DiscoveryNext
  <2>1. (\E s \in Scans : ScanDoes(s)) \/ UNCHANGED <<scan, analysis>>
    BY <1>1, <1>4, ScanSteps DEF DiscoveryNext, Push, RescanRepo
  <2>. QED  BY <1>2, <1>3, <2>1
<1>. QED
  BY <1>2, <1>4, RegistryFrame, ConfigFrame, ClaimFrame, RoutingFrame, RewriteFrame, DoorFrame
     DEF Next, scanVars, vars

LEMMA TreeStays ==
  ASSUME BranchStays, Next \/ UNCHANGED vars
  PROVE  tree' = tree
<1>1. "push" \notin scope.may /\ "merge" \notin scope.may
  BY DEF BranchStays
<1>2. CASE DiscoveryNext
  BY <1>1, <1>2 DEF DiscoveryNext, ScanBegin, ScanFile, ScanPut, ScanEmpty, ScanFails, Push,
     RescanRepo, githubVars, Spend, Can
<1>3. CASE RewriteNext
  BY <1>1, <1>3 DEF RewriteNext, RequestRewrite, RewriteBegin, RewriteProbe, RewriteRead,
     RewritePlanned, EnsureBranch, PutFile, PutsDone, FindOpenPullRequest, CreatePullRequest,
     RewriteFails, MergePullRequest, ClosePullRequest, EditBranch, DeleteBranch, githubVars,
     Spend, Can
<1>. QED
  BY <1>2, <1>3, RegistryFrame, ConfigFrame, ClaimFrame, RoutingFrame, DoorFrame
     DEF Next, githubVars, vars

LEMMA NeverStays ==
  ASSUME NeverScanned, BranchStays, "install" \notin scope.may, Next \/ UNCHANGED vars
  PROVE  NeverScanned'
<1>1. \A receives \in 0 .. MaxReceive - 1 : ~(scanQ[receives] > 0)
  <2>1. \A receives \in 0 .. MaxReceive - 1 : receives \in 0 .. MaxReceive
    BY ControlAssumption
  <2>. QED  BY <2>1 DEF NeverScanned
<1>2. CASE UNCHANGED <<repo, scanVars>>
  BY <1>2 DEF NeverScanned, scanVars
<1>3. ~DiscoveryNext
  <2>1. \A s \in Scans : scan[s].phase = "idle"
    BY DEF NeverScanned
  <2>2. \A p, text : ~Push(p, text)
    BY DEF Push, Spend, Can, BranchStays
  <2>3. ~RescanRepo
    BY DEF RescanRepo, NeverScanned
  <2>. QED
    BY <1>1, <2>1, <2>2, <2>3 DEF DiscoveryNext, ScanBegin, ScanFile, ScanPut, ScanEmpty, ScanFails
<1>4. ConfigNext => UNCHANGED <<repo, scanVars>>
  BY DEF NeverScanned, ConfigNext, PatchRepo, PutFlavorMap, SetRunnerLabels, AllowlistExpires,
     RepoGranted, RepoWithdrawn, SetInstallationFlags, Spend, Can
<1>5. RewriteNext => UNCHANGED <<repo, scanVars>>
  <2>1. ~MergePullRequest
    BY DEF MergePullRequest, Spend, Can, BranchStays
  <2>. QED
    BY <2>1 DEF RewriteNext, RequestRewrite, RewriteBegin, RewriteProbe, RewriteRead,
       RewritePlanned, EnsureBranch, PutFile, PutsDone, FindOpenPullRequest, CreatePullRequest,
       RewriteFails, ClosePullRequest, EditBranch, DeleteBranch, repoVars
<1>. QED
  BY <1>2, <1>3, <1>4, <1>5, RegistryFrame, ClaimFrame, RoutingFrame, DoorFrame
     DEF Next, vars, repoVars, scanVars

LEMMA MirrorOfScan ==
  ASSUME NEW s \in Scans, ScanDoes(s), DOMAIN analysis = Paths, tree' = tree,
         \A t \in Scans : scan[t].phase = "put" => /\ scan[t].path \in Paths
                                                   /\ Mirrors(scan[t].found, scan[t].path)
  PROVE  /\ \A t \in Scans : scan'[t].phase = "put" => Mirrors(scan[t].found, scan[t].path)'
         /\ \A p \in Paths : Mirrors(analysis[p], p)' \/ analysis'[p] = analysis[p]
<1>1. \A t \in Scans \ {s} : scan'[t] = scan[t]
  BY DEF ScanDoes
<1>2. CASE scan'[s].phase \in {"idle", "files"} /\ analysis' = analysis
  BY <1>1, <1>2 DEF Mirrors
<1>3. CASE /\ scan'[s].phase = "put" /\ scan'[s].path \in Paths /\ tree[scan'[s].path] # None
           /\ analysis' = analysis
           /\ \E row, known : scan'[s].found = Analyze(tree[scan'[s].path], row, known)
  <2>1. PICK p \in Paths : p = scan'[s].path
    BY <1>3
  <2>2. PICK row, known : scan'[s].found = Analyze(tree[p], row, known)
    BY <1>3, <2>1
  <2>3. Mirrors(Analyze(tree[p], row, known), p)
    BY <1>3, <2>1, AnalyzeMirrors
  <2>4. /\ tree[p] # None
        /\ scan'[s].found.parsed <=> tree[p].shape # "broken"
        /\ scan'[s].found.parsed => scan'[s].found.text = tree[p]
    BY <2>2, <2>3 DEF Mirrors
  <2>5. Mirrors(scan[s].found, scan[s].path)'
    BY <2>1, <2>4 DEF Mirrors
  <2>. QED  BY <1>1, <1>3, <2>5 DEF Mirrors
<1>4. CASE /\ scan'[s].phase \in {"idle", "files"} /\ scan[s].phase = "put"
           /\ analysis' = [analysis EXCEPT ![scan[s].path] = scan[s].found]
  <2>1. /\ scan[s].path \in Paths /\ Mirrors(scan[s].found, scan[s].path)
        /\ analysis'[scan[s].path] = scan[s].found
        /\ \A p \in Paths \ {scan[s].path} : analysis'[p] = analysis[p]
    BY <1>4
  <2>2. \A p \in Paths : Mirrors(analysis[p], p)' \/ analysis'[p] = analysis[p]
    BY <2>1 DEF Mirrors
  <2>3. \A t \in Scans : scan'[t].phase = "put" => Mirrors(scan[t].found, scan[t].path)'
    BY <1>1, <1>4 DEF Mirrors
  <2>. QED  BY <2>2, <2>3
<1>. QED  BY <1>2, <1>3, <1>4 DEF ScanDoes

LEMMA MirrorKept ==
  ASSUME MirrorInv, ScanTexts, IInv, Next \/ UNCHANGED vars
  PROVE  MirrorInv'
<1>1. ScanInv /\ scope'.may = scope.may
  BY ScopeKept DEF IInv
<1> SUFFICES ASSUME BranchStays
             PROVE  /\ \A p \in Paths : analysis'[p] = Unscanned \/ Mirrors(analysis[p], p)'
                    /\ \A s \in Scans :
                         scan'[s].phase = "put" => Mirrors(scan[s].found, scan[s].path)'
                    /\ "install" \notin scope.may =>
                         \/ NeverScanned'
                         \/ \A p \in Paths : tree'[p] # None => Mirrors(analysis[p], p)'
  BY <1>1 DEF MirrorInv, BranchStays
<1>2. tree' = tree
  BY TreeStays
<1>3. /\ \A p \in Paths : analysis[p] = Unscanned \/ Mirrors(analysis[p], p)
      /\ \A s \in Scans : scan[s].phase = "put" => /\ scan[s].path \in Paths
                                                   /\ Mirrors(scan[s].found, scan[s].path)
      /\ "install" \notin scope.may =>
           \/ NeverScanned
           \/ \A p \in Paths : tree[p] # None => Mirrors(analysis[p], p)
  BY DEF MirrorInv, ScanTexts
<1>4. /\ \A s \in Scans : scan'[s].phase = "put" => Mirrors(scan[s].found, scan[s].path)'
      /\ \A p \in Paths : Mirrors(analysis[p], p)' \/ analysis'[p] = analysis[p]
  <2>1. CASE UNCHANGED <<scan, analysis>>
    BY <1>2, <1>3, <2>1 DEF Mirrors
  <2>2. ASSUME NEW s \in Scans, ScanDoes(s)
        PROVE  /\ \A t \in Scans : scan'[t].phase = "put" => Mirrors(scan[t].found, scan[t].path)'
               /\ \A p \in Paths : Mirrors(analysis[p], p)' \/ analysis'[p] = analysis[p]
    BY <1>2, <1>3, <2>2, MirrorOfScan DEF ScanTexts
  <2>3. CASE DiscoveryNext
    <3>1. (\E s \in Scans : ScanDoes(s)) \/ UNCHANGED <<scan, analysis>>
      BY <1>1, <2>3, ScanSteps DEF DiscoveryNext, Push, RescanRepo
    <3>. QED  BY <2>1, <2>2, <3>1
  <2>. QED
    BY <2>1, <2>3, RegistryFrame, ConfigFrame, ClaimFrame, RoutingFrame, RewriteFrame, DoorFrame
       DEF Next, scanVars, vars
<1>5. \A p \in Paths : Mirrors(analysis[p], p) /\ analysis'[p] = analysis[p]
        => Mirrors(analysis[p], p)'
  BY <1>2 DEF Mirrors
<1>6. \A p \in Paths : analysis'[p] = Unscanned \/ Mirrors(analysis[p], p)'
  BY <1>3, <1>4, <1>5
<1>7. ASSUME "install" \notin scope.may
      PROVE  \/ NeverScanned'
             \/ \A p \in Paths : tree'[p] # None => Mirrors(analysis[p], p)'
  <2>1. CASE NeverScanned
    BY <1>7, <2>1, NeverStays
  <2>2. CASE \A p \in Paths : tree[p] # None => Mirrors(analysis[p], p)
    BY <1>2, <1>4, <1>5, <2>2
  <2>. QED  BY <1>3, <1>7, <2>1, <2>2
<1>. QED  BY <1>4, <1>6, <1>7

-----------------------------------------------------------------------------
(* Refusals: the jobs                                                      *)

(* What the webhook said of a job, whatever step is taken with it.         *)
SameJob(q) == /\ job'[q].text = job[q].text /\ job'[q].name = job[q].name
              /\ job'[q].workflow = job[q].workflow

(* The jobs are as they were told, but for one whose refusal may be new.   *)
LEMMA RefusalMoves ==
  ASSUME RefusalInv, BranchStays => tree' = tree, scope'.may = scope.may,
         \A q \in Runs : SameJob(q), NEW r,
         \A q \in Runs \ {r} : /\ job'[q].ingest = job[q].ingest
                               /\ refusal'[q] = refusal[q],
         r \in Runs => /\ \/ job'[r].ingest.phase = "idle"
                          \/ job[r].ingest.phase # "idle" \/ job[r].text # None
                       /\ refusal'[r] # None => job[r].text # None
                       /\ refusal'[r] = refusal[r] \/ RefusalTrue(r)'
  PROVE  RefusalInv'
<1>1. BranchStays' = BranchStays
  BY DEF BranchStays
<1> SUFFICES ASSUME NEW q \in Runs
             PROVE  /\ job'[q].ingest.phase # "idle" \/ refusal'[q] # None => job'[q].text # None
                    /\ BranchStays /\ job'[q].text # None => \E p \in Paths : JobOfFile(q, p)'
                    /\ RefusalTrue(q)'
  BY <1>1 DEF RefusalInv
<1>2. /\ job[q].ingest.phase # "idle" \/ refusal[q] # None => job[q].text # None
      /\ BranchStays /\ job[q].text # None => \E p \in Paths : JobOfFile(q, p)
      /\ RefusalTrue(q) /\ SameJob(q)
  BY DEF RefusalInv
<1>3. job'[q].ingest.phase # "idle" \/ refusal'[q] # None => job'[q].text # None
  BY <1>2 DEF SameJob
<1>4. ASSUME BranchStays, job'[q].text # None PROVE \E p \in Paths : JobOfFile(q, p)'
  BY <1>2, <1>4 DEF SameJob, JobOfFile, MayBeOf
<1>5. refusal'[q] = refusal[q] => RefusalTrue(q)'
  BY <1>1, <1>2 DEF SameJob, RefusalTrue, Distinct, MayBeOf
<1>. QED  BY <1>3, <1>4, <1>5

(* A read of no analyses matches nothing.                                  *)
LEMMA NoMatch ==
  ASSUME NEW workflow, NEW name
  PROVE  MatchJobAnalysis({}, workflow, name) = {}
BY DEF MatchJobAnalysis

LEMMA KnownFinite == ASSUME NEW S, S \subseteq KnownJobs PROVE IsFiniteSet(S)
<1> DEFINE parsed == {p \in Paths : analysis[p].parsed}
           entries == [p \in parsed |->
             [job |-> JobName[p], legs |-> Legs[p], path |-> p, name |-> analysis[p].text.name,
              group |-> analysis[p].text.group, eligible |-> analysis[p].eligible,
              docker |-> analysis[p].text.docker]]
<1>1. IsFiniteSet(parsed)
  BY ControlAssumption, FS_Subset, parsed \subseteq Paths
<1>2. entries \in Surjection(parsed, KnownJobs)
  BY DEF KnownJobs, Surjection
<1>3. IsFiniteSet(KnownJobs)
  BY <1>1, <1>2, FS_Surjection DEF ExistsSurjection
<1>. QED  BY <1>3, FS_Subset

(* The analyses that a match may return.                                   *)
LEMMA Matched ==
  ASSUME ScanTexts, NEW workflow, NEW name, NEW a \in MatchJobAnalysis(KnownJobs, workflow, name)
  PROVE  /\ \E q \in Paths : /\ analysis[q].parsed
                             /\ WorkflowNameMatches(q, analysis[q].text.name, workflow)
                             /\ JobNameMatches(JobName[q], Legs[q], name)
                             /\ a.group = analysis[q].text.group /\ a.group # None
         /\ \A b \in KnownJobs :
              /\ WorkflowNameMatches(b.path, b.name, workflow)
              /\ JobNameMatches(b.job, b.legs, name)
              => b = a
<1> DEFINE hits == {b \in KnownJobs : /\ WorkflowNameMatches(b.path, b.name, workflow)
                                      /\ JobNameMatches(b.job, b.legs, name)}
<1>1. a \in hits /\ Cardinality(hits) = 1
  BY DEF MatchJobAnalysis
<1>2. hits \subseteq KnownJobs /\ IsFiniteSet(hits)
  BY KnownFinite
<1>3. \E x : hits = {x}
  BY <1>1, <1>2, FS_Singleton
<1>4. PICK q \in Paths : /\ analysis[q].parsed
                         /\ a = [job |-> JobName[q], legs |-> Legs[q], path |-> q,
                                 name |-> analysis[q].text.name,
                                 group |-> analysis[q].text.group,
                                 eligible |-> analysis[q].eligible,
                                 docker |-> analysis[q].text.docker]
  BY <1>1 DEF KnownJobs
<1>5. /\ a.path = q /\ a.name = analysis[q].text.name
      /\ a.job = JobName[q] /\ a.legs = Legs[q]
      /\ a.group = analysis[q].text.group /\ a.group # None
  BY <1>4 DEF ScanTexts, IsText
<1>. QED  BY <1>1, <1>3, <1>4, <1>5

(* Where the default branch stays, a match is the job's own file: because  *)
(* no other answers to the webhook's names, or because every file that     *)
(* does is known.                                                          *)
LEMMA MatchIsOwn ==
  ASSUME MirrorInv, ScanTexts, RefusalInv, BranchStays, NEW r \in Runs, job[r].text # None,
         Distinct(r) \/ "install" \notin scope.may,
         NEW a \in MatchJobAnalysis(KnownJobs, job[r].workflow, job[r].name)
  PROVE  a.group = job[r].text.group
<1>1. PICK p \in Paths : JobOfFile(r, p)
  BY DEF RefusalInv
<1>2. PICK q \in Paths : /\ analysis[q].parsed
                         /\ WorkflowNameMatches(q, analysis[q].text.name, job[r].workflow)
                         /\ JobNameMatches(JobName[q], Legs[q], job[r].name)
                         /\ a.group = analysis[q].text.group
  BY Matched
<1>3. Unscanned.parsed = FALSE
  BY DEF Unscanned
<1>4. Mirrors(analysis[q], q)
  BY <1>2, <1>3 DEF MirrorInv
<1>5. CASE Distinct(r)
  <2>1. MayBeOf(r, q)
    BY <1>2, <1>4 DEF MayBeOf, Mirrors
  <2>2. p = q
    BY <1>1, <1>5, <2>1 DEF Distinct, JobOfFile
  <2>. QED  BY <1>1, <1>2, <1>4, <2>2 DEF JobOfFile, Mirrors
<1>6. CASE "install" \notin scope.may
  <2>1. ~NeverScanned
    BY <1>2, <1>3 DEF NeverScanned
  <2>2. Mirrors(analysis[p], p)
    BY <1>1, <1>6, <2>1 DEF MirrorInv, JobOfFile, MayBeOf
  <2> DEFINE b == [job |-> JobName[p], legs |-> Legs[p], path |-> p,
                   name |-> analysis[p].text.name,
                   group |-> analysis[p].text.group,
                   eligible |-> analysis[p].eligible, docker |-> analysis[p].text.docker]
  <2>3. analysis[p].parsed /\ analysis[p].text = job[r].text
    BY <1>1, <2>2 DEF Mirrors, JobOfFile, MayBeOf
  <2>4. /\ b \in KnownJobs /\ b.group = job[r].text.group
        /\ b.path = p /\ b.name = tree[p].name /\ b.job = JobName[p] /\ b.legs = Legs[p]
    BY <1>1, <2>3 DEF KnownJobs, JobOfFile
  <2>5. /\ WorkflowNameMatches(p, tree[p].name, job[r].workflow)
        /\ JobNameMatches(JobName[p], Legs[p], job[r].name)
    BY <1>1 DEF JobOfFile, MayBeOf
  <2> HIDE DEF b
  <2>6. b = a
    BY <2>4, <2>5, Matched
  <2>. QED  BY <2>4, <2>6
<1>. QED  BY <1>5, <1>6

(* The code stored with a gate's refusal, and what a stored row is.        *)
LEMMA CodeOfGate ==
  ASSUME NEW gate \in {"repo-disabled", "claim", "runner-group", "compat-block"},
         NEW labels, NEW claimed, NEW mode
  PROVE  RefusalCode(gate, labels, claimed, mode) = "runner-group" <=> gate = "runner-group"
BY DEF RefusalCode

LEMMA RefuseIsTrue ==
  ASSUME RefusalInv, JobInv, NEW r \in Runs, job[r].text # None, tree' = tree,
         scope'.may = scope.may, NEW allowed, NEW mode, NEW group,
         NEW gate \in {"repo-disabled", "claim", "runner-group", "compat-block"},
         group # None <=> gate = "runner-group",
         group # None /\ BranchStays /\ (Distinct(r) \/ "install" \notin scope.may)
           => group = job[r].text.group,
         Refuse(r, gate, allowed, mode, group)
  PROVE  RefusalInv'
<1> DEFINE code == RefusalCode(gate, LabelsOf(r), allowed, mode)
           row  == UpsertRefusal(refusal[r], code, group, job[r].delivered)
<1>1. code = "runner-group" <=> group # None
  BY CodeOfGate
<1>2. row.code = code /\ row.group = group
  BY DEF UpsertRefusal
<1>3. /\ job' = [job EXCEPT ![r].ingest = IdleIngest]
      /\ refusal' = refusal \/ refusal' = [refusal EXCEPT ![r] = row]
  BY DEF Refuse
<1> HIDE DEF code, row
<1>4. /\ \A q \in Runs : SameJob(q)
      /\ \A q \in Runs \ {r} : job'[q].ingest = job[q].ingest /\ refusal'[q] = refusal[q]
      /\ refusal'[r] = refusal[r] \/ refusal'[r] = row
      /\ job'[r].ingest.phase = "idle"
  BY <1>3 DEF JobInv, JobTyped, NoJob, SameJob, IdleIngest
<1>5. refusal'[r] = row => RefusalTrue(r)'
  BY <1>1, <1>2, <1>4 DEF RefusalTrue, SameJob, Distinct, MayBeOf, BranchStays
<1>. QED  BY <1>4, <1>5, RefusalMoves

LEMMA PlainRefuse ==
  ASSUME RefusalInv, JobInv, NEW r \in Runs, job[r].text # None, tree' = tree,
         scope'.may = scope.may, NEW allowed, NEW mode, NEW gate \in {"repo-disabled", "claim"},
         Refuse(r, gate, allowed, mode, None)
  PROVE  RefusalInv'
<1>1. /\ gate \in {"repo-disabled", "claim", "runner-group", "compat-block"}
      /\ gate # "runner-group"
  OBVIOUS
<1> DEFINE group == None
<1>2. group = None /\ Refuse(r, gate, allowed, mode, group)
  OBVIOUS
<1> HIDE DEF group
<1>3. group # None <=> gate = "runner-group"
  BY <1>1, <1>2
<1>4. group # None /\ BranchStays /\ (Distinct(r) \/ "install" \notin scope.may)
        => group = job[r].text.group
  BY <1>2
<1>. QED  BY <1>1, <1>2, <1>3, <1>4, RefuseIsTrue

LEMMA GateRefuses ==
  ASSUME RefusalInv, MirrorInv, ScanTexts, JobInv, NEW r \in Runs, IngestGate(r),
         tree' = tree, scope'.may = scope.may
  PROVE  RefusalInv'
<1>1. job[r].text # None /\ job[r].ingest.phase = "gate"
  BY DEF IngestGate, RefusalInv
<1>2. PICK known \in {KnownJobs, {}} :
        LET match == MatchJobAnalysis(known, job[r].workflow, job[r].name)
            gate  == PostClaimGate(match)
        IN  IF gate = "pass" THEN Claim(r)
            ELSE Refuse(r, gate, job[r].ingest.allowed, job[r].ingest.mode,
                   IF gate = "runner-group"
                   THEN (CHOOSE a \in match : TRUE).group ELSE None)
  BY DEF IngestGate
<1> DEFINE match == MatchJobAnalysis(known, job[r].workflow, job[r].name)
           gate  == PostClaimGate(match)
           a     == CHOOSE b \in match : TRUE
           group == IF gate = "runner-group" THEN a.group ELSE None
<1>3. CASE gate = "pass"
  <2>1. Claim(r)
    BY <1>2, <1>3
  <2>2. /\ \A q \in Runs : SameJob(q)
        /\ \A q \in Runs \ {r} : job'[q].ingest = job[q].ingest
        /\ refusal' = refusal /\ job'[r].ingest.phase = "idle"
    BY <2>1 DEF Claim, JobInv, JobTyped, NoJob, SameJob, IdleIngest
  <2>. QED  BY <1>1, <2>2, RefusalMoves
<1>4. CASE gate # "pass"
  <2>1. gate \in {"runner-group", "compat-block"} /\ match # {}
    BY <1>4 DEF PostClaimGate
  <2>2. known = KnownJobs
    BY <2>1, NoMatch
  <2>3. a \in match
    BY <2>1
  <2>4. Refuse(r, gate, job[r].ingest.allowed, job[r].ingest.mode, group)
    BY <1>2, <1>4
  <2> HIDE DEF gate, a
  <2>5. a.group # None
    BY <2>2, <2>3, Matched
  <2>6. group # None <=> gate = "runner-group"
    BY <2>5
  <2>7. group # None /\ BranchStays /\ (Distinct(r) \/ "install" \notin scope.may)
          => group = job[r].text.group
    <3>1. CASE group # None
      BY <1>1, <2>2, <2>3, <3>1, MatchIsOwn
    <3>. QED  BY <3>1
  <2> HIDE DEF group
  <2>. QED  BY <1>1, <2>1, <2>4, <2>6, <2>7, RefuseIsTrue
<1>. QED  BY <1>3, <1>4

LEMMA ClaimRefuses ==
  ASSUME RefusalInv, MirrorInv, ScanTexts, JobInv, ClaimNext, scope'.may = scope.may
  PROVE  RefusalInv'
<1>1. tree' = tree
  BY ClaimFrame DEF githubVars
<1>2. ASSUME NEW r \in Runs, NEW p \in Paths, NEW workflow, NEW name,
             workflow \in {RenderedWorkflow(p), NoWorkflow},
             JobNameMatches(JobName[p], Legs[p], name), QueueJob(r, p, workflow, name)
      PROVE  RefusalInv'
  <2> DEFINE rec == [NoJob EXCEPT !.text = tree[p], !.name = name, !.workflow = workflow,
                                  !.ingest.phase = "config", !.delivered = 1]
  <2>1. /\ job[r] = NoJob /\ job' = [job EXCEPT ![r] = rec] /\ refusal' = refusal
        /\ tree[p] # None /\ tree[p].shape # "broken"
    BY <1>2 DEF QueueJob
  <2>2. rec.text = tree[p] /\ rec.name = name /\ rec.workflow = workflow
    BY DEF NoJob
  <2>3. job[r].text = None
    BY <2>1 DEF NoJob
  <2> HIDE DEF rec
  <2>4. job'[r] = rec /\ \A q \in Runs \ {r} : job'[q] = job[q]
    BY <2>1 DEF JobInv
  <2>5. refusal[r] = None
    BY <2>3 DEF RefusalInv
  <2>6. JobOfFile(r, p)'
    BY <1>1, <1>2, <2>1, <2>2, <2>4 DEF JobOfFile, MayBeOf, WorkflowNameMatches, RenderedWorkflow
  <2>7. ASSUME NEW q \in Runs \ {r}
        PROVE  /\ job'[q].ingest.phase # "idle" \/ refusal'[q] # None => job'[q].text # None
               /\ BranchStays' /\ job'[q].text # None => \E f \in Paths : JobOfFile(q, f)'
               /\ RefusalTrue(q)'
    BY <1>1, <2>1, <2>4 DEF RefusalInv, RefusalTrue, JobOfFile, MayBeOf, Distinct, BranchStays
  <2>8. /\ job'[r].text # None /\ RefusalTrue(r)'
    BY <2>1, <2>2, <2>4, <2>5 DEF RefusalTrue
  <2>. QED  BY <2>6, <2>7, <2>8 DEF RefusalInv
<1>3. ASSUME NEW r \in Runs, Redeliver(r) PROVE RefusalInv'
  <2>1. /\ job[r].text # None /\ job' = [job EXCEPT ![r] = Receive(r)] /\ refusal' = refusal
    BY <1>3 DEF Redeliver
  <2>2. /\ \A q \in Runs : SameJob(q)
        /\ \A q \in Runs \ {r} : job'[q].ingest = job[q].ingest
    BY <2>1 DEF Receive, JobInv, JobTyped, NoJob, SameJob
  <2>. QED  BY <1>1, <2>1, <2>2, RefusalMoves
<1>4. ASSUME NEW r \in Runs, IngestConfig(r) PROVE RefusalInv'
  <2>1. job[r].text # None
    BY <1>4 DEF IngestConfig, RefusalInv
  <2>2. \/ \E allowed, mode : Refuse(r, "repo-disabled", allowed, mode, None)
        \/ \E w : job' = [job EXCEPT ![r].ingest = w] /\ refusal' = refusal
    BY <1>4 DEF IngestConfig
  <2>3. ASSUME NEW allowed, NEW mode, Refuse(r, "repo-disabled", allowed, mode, None)
        PROVE  RefusalInv'
    BY <1>1, <2>1, <2>3, PlainRefuse
  <2>4. ASSUME NEW w, job' = [job EXCEPT ![r].ingest = w], refusal' = refusal
        PROVE  RefusalInv'
    <3>1. /\ \A q \in Runs : SameJob(q)
          /\ \A q \in Runs \ {r} : job'[q].ingest = job[q].ingest
      BY <2>4 DEF JobInv, JobTyped, NoJob, SameJob
    <3>. QED  BY <1>1, <2>1, <2>4, <3>1, RefusalMoves
  <2>. QED  BY <2>2, <2>3, <2>4
<1>5. ASSUME NEW r \in Runs, IngestClaim(r) PROVE RefusalInv'
  <2>1. job[r].text # None
    BY <1>5 DEF IngestClaim, RefusalInv
  <2>2. \/ Refuse(r, "claim", job[r].ingest.allowed, job[r].ingest.mode, None)
        \/ \E via : /\ job' = [job EXCEPT ![r].ingest.phase = "gate", ![r].ingest.via = via]
                    /\ refusal' = refusal
    BY <1>5 DEF IngestClaim
  <2>3. CASE Refuse(r, "claim", job[r].ingest.allowed, job[r].ingest.mode, None)
    BY <1>1, <2>1, <2>3, PlainRefuse
  <2>4. ASSUME NEW via, job' = [job EXCEPT ![r].ingest.phase = "gate", ![r].ingest.via = via],
               refusal' = refusal
        PROVE  RefusalInv'
    <3>1. /\ \A q \in Runs : SameJob(q)
          /\ \A q \in Runs \ {r} : job'[q].ingest = job[q].ingest
      BY <2>4 DEF JobInv, JobTyped, NoJob, SameJob
    <3>. QED  BY <1>1, <2>1, <2>4, <3>1, RefusalMoves
  <2>. QED  BY <2>2, <2>3, <2>4
<1>. QED  BY <1>1, <1>2, <1>3, <1>4, <1>5, GateRefuses DEF ClaimNext

LEMMA RoutingTells ==
  ASSUME JobInv, RoutingNext
  PROVE  \A q \in Runs : SameJob(q) /\ job'[q].ingest = job[q].ingest
<1>1. ASSUME NEW r \in Runs, NEW rec, job' = [job EXCEPT ![r] = rec], rec.text = job[r].text,
             rec.name = job[r].name, rec.workflow = job[r].workflow,
             rec.ingest = job[r].ingest
      PROVE  \A q \in Runs : SameJob(q) /\ job'[q].ingest = job[q].ingest
  BY <1>1 DEF JobInv, SameJob
<1>3. ASSUME NEW r \in Runs, ProvLookup(r)
      PROVE  \A q \in Runs : SameJob(q) /\ job'[q].ingest = job[q].ingest
  <2>1. PICK opts : job' = [job EXCEPT ![r].stage = "looked up", ![r].receives = @ + 1,
          ![r].opts = opts, ![r].told = OptionsOf(r, repo, KnownJobs)]
    BY <1>3 DEF ProvLookup
  <2> DEFINE rec == [job[r] EXCEPT !.stage = "looked up", !.receives = @ + 1, !.opts = opts,
                                   !.told = OptionsOf(r, repo, KnownJobs)]
  <2>2. job' = [job EXCEPT ![r] = rec]
    BY <2>1
  <2>3. /\ rec.text = job[r].text /\ rec.name = job[r].name
        /\ rec.workflow = job[r].workflow /\ rec.ingest = job[r].ingest
    BY DEF JobInv, JobTyped, NoJob
  <2> HIDE DEF rec
  <2>. QED  BY <1>1, <2>2, <2>3
<1>4. ASSUME NEW r \in Runs, job' = [job EXCEPT ![r] = Retry(r)]
      PROVE  \A q \in Runs : SameJob(q) /\ job'[q].ingest = job[q].ingest
  <2>1. /\ Retry(r).text = job[r].text /\ Retry(r).name = job[r].name
        /\ Retry(r).workflow = job[r].workflow /\ Retry(r).ingest = job[r].ingest
    BY DEF Retry, JobInv, JobTyped, NoJob
  <2>. QED  BY <1>1, <1>4, <2>1
<1>5. ASSUME NEW r \in Runs, NEW stage, NEW flav, NEW image,
             \/ job' = [job EXCEPT ![r] = Advance(r, stage)]
             \/ job' = [job EXCEPT ![r].stage = stage, ![r].flavor = flav]
             \/ job' = [job EXCEPT ![r].image = image, ![r].stage = stage]
      PROVE  \A q \in Runs : SameJob(q) /\ job'[q].ingest = job[q].ingest
  <2>1. PICK rec : /\ job' = [job EXCEPT ![r] = rec]
                   /\ \/ rec = [job[r] EXCEPT !.stage = stage]
                      \/ rec = [job[r] EXCEPT !.stage = stage, !.flavor = flav]
                      \/ rec = [job[r] EXCEPT !.image = image, !.stage = stage]
    BY <1>5 DEF Advance
  <2>2. /\ rec.text = job[r].text /\ rec.name = job[r].name
        /\ rec.workflow = job[r].workflow /\ rec.ingest = job[r].ingest
    BY <2>1 DEF JobInv, JobTyped, NoJob
  <2>. QED  BY <1>1, <2>1, <2>2
<1>6. ASSUME NEW r \in Runs, ProvResolve(r)
      PROVE  \A q \in Runs : SameJob(q) /\ job'[q].ingest = job[q].ingest
  <2>1. \/ job' = [job EXCEPT ![r] = Retry(r)]
        \/ job' = [job EXCEPT ![r] = Advance(r, "failed")]
        \/ \E flav : job' = [job EXCEPT ![r].stage = "resolved", ![r].flavor = flav]
    BY <1>6 DEF ProvResolve, Route
  <2>. QED  BY <1>4, <1>5, <2>1
<1>7. ASSUME NEW r \in Runs, ProvLaunch(r)
      PROVE  \A q \in Runs : SameJob(q) /\ job'[q].ingest = job[q].ingest
  <2>1. \/ job' = [job EXCEPT ![r] = Retry(r)]
        \/ \E image, stage : job' = [job EXCEPT ![r].image = image, ![r].stage = stage]
    BY <1>7 DEF ProvLaunch
  <2>. QED  BY <1>4, <1>5, <2>1
<1>. QED  BY <1>3, <1>6, <1>7 DEF RoutingNext

LEMMA RefusalKept ==
  ASSUME RefusalInv, MirrorInv, ScanTexts, IInv, Next \/ UNCHANGED vars
  PROVE  RefusalInv'
<1>1. JobInv /\ scope'.may = scope.may
  BY ScopeKept DEF IInv
<1>2. BranchStays => tree' = tree
  BY TreeStays
<1>3. CASE ClaimNext
  BY <1>1, <1>3, ClaimRefuses
<1>4. CASE /\ refusal' = refusal
           /\ \A q \in Runs : SameJob(q) /\ job'[q].ingest = job[q].ingest
  <2>1. ASSUME NEW q \in Runs
        PROVE  /\ job'[q].ingest.phase # "idle" \/ refusal'[q] # None => job'[q].text # None
               /\ BranchStays' /\ job'[q].text # None => \E f \in Paths : JobOfFile(q, f)'
               /\ RefusalTrue(q)'
    BY <1>1, <1>2, <1>4 DEF RefusalInv, RefusalTrue, JobOfFile, MayBeOf, Distinct, BranchStays, SameJob
  <2>. QED  BY <2>1 DEF RefusalInv
<1>5. CASE RoutingNext
  BY <1>1, <1>4, <1>5, RoutingTells, RoutingFrame
<1>6. CASE UNCHANGED jobVars
  BY <1>4, <1>6 DEF jobVars, SameJob
<1>. QED
  BY <1>3, <1>5, <1>6, RegistryFrame, ConfigFrame, DiscoveryFrame, RewriteFrame, DoorFrame
     DEF Next, vars, jobVars

LEMMA InitRefusal ==
  ASSUME Init
  PROVE  WorldTexts /\ ScanTexts /\ MirrorInv /\ RefusalInv
<1>1. PICK s \in Scenarios : Starts(s)
  BY DEF Init
<1>2. /\ branch = NoBranch /\ rewriter.plans = {}
      /\ \A n \in 0 .. MaxReceive : scanQ[n] = 0
      /\ \A t \in Scans : scan[t].phase = "idle"
      /\ \A r \in Runs : refusal[r] = None /\ job[r].text = None /\ job[r].ingest.phase = "idle"
  BY DEF Init, IdleRewriter, IdleScan, NoJob, IdleIngest
<1>3. tree = s.tree /\ repo = s.row
  BY <1>1 DEF Starts
<1>4. \A p \in Paths : tree[p] # None => IsText(tree[p])
  BY <1>3, TextAssumption DEF Texts, IsText
<1>5. DOMAIN analysis = Paths
  BY <1>1 DEF Starts
<1>6. \A p \in Paths :
        IF repo = None \/ tree[p] = None THEN analysis[p] = Unscanned
        ELSE Mirrors(analysis[p], p)
  <2>1. ASSUME NEW p \in Paths, repo = None \/ tree[p] = None PROVE analysis[p] = Unscanned
    BY <1>1, <1>3, <2>1 DEF Starts
  <2>2. ASSUME NEW p \in Paths, ~(repo = None \/ tree[p] = None) PROVE Mirrors(analysis[p], p)
    <3>1. analysis[p] = Analyze(tree[p], repo, RoutableCustomFlavors)
      BY <1>1, <1>3, <2>2 DEF Starts
    <3>. QED  BY <2>2, <3>1, AnalyzeMirrors
  <2>. QED  BY <2>1, <2>2
<1>7. Unscanned.parsed = FALSE
  BY DEF Unscanned
<1>8. WorldTexts
  BY <1>2, <1>4 DEF WorldTexts
<1>9. ScanTexts
  BY <1>2, <1>4, <1>5, <1>6, <1>7 DEF ScanTexts, Mirrors
<1>10. MirrorInv
  BY <1>2, <1>6 DEF MirrorInv, NeverScanned
<1>11. RefusalInv
  BY <1>2 DEF RefusalInv, RefusalTrue
<1>. QED  BY <1>8, <1>9, <1>10, <1>11

(* A stored refusal has a runner group exactly if that was the reason, and *)
(* while the default branch stays as it is the group is that of the job    *)
(* itself, not of a namesake in another file; a job to whose webhook two   *)
(* files answer, during a repository's first scan, is the one exception.   *)
THEOREM RefusalsCorrect == Spec => []RefusalsAreTrue
<1> DEFINE Held == CauseInv /\ WorldTexts /\ ScanTexts /\ MirrorInv /\ RefusalInv
<1>1. Init => Held
  <2>1. Init => CauseInv
    BY DEF Init, CauseInv, IdleRewriter
  <2>. QED  BY <2>1, InitRefusal
<1>2. IInv /\ Held /\ [Next]_vars => Held'
  <2> SUFFICES ASSUME IInv, CauseInv, WorldTexts, ScanTexts, MirrorInv, RefusalInv,
                      Next \/ UNCHANGED vars
               PROVE  Held'
    OBVIOUS
  <2>. QED  BY CauseKept, WorldTextsKept, ScanTextsKept, MirrorKept, RefusalKept
<1>3. Held => RefusalsAreTrue
  BY DEF RefusalInv, RefusalTrue, RefusalsAreTrue, BranchStays
<1>. QED  BY <1>1, <1>2, <1>3, ControlInvariant, PTL DEF Spec

-----------------------------------------------------------------------------
(* Routes: where nothing names a custom flavor, none makes a difference    *)

LEMMA CustomLabelOfName == \A n \in CustomNames : LabelOfName(n) \in CustomLabels
<1> SUFFICES ASSUME NEW n \in CustomNames PROVE LabelOfName(n) \in CustomLabels
  OBVIOUS
<1>1. PICK b \in Bases : CustomFlavorName(b) = n
  BY DEF CustomNames
<1>2. CustomFlavorLabel(b) \in CustomLabels
  BY DEF CustomLabels
<1>. QED  BY <1>1, <1>2 DEF LabelOfName

LEMMA BareCatalog ==
  /\ ComposeCatalog({}) \subseteq ComposeCatalog(RoutableCustomFlavors)
  /\ ComposeCatalog({}) = BuiltinFlavors
  /\ \A f \in ComposeCatalog(RoutableCustomFlavors) :
       \/ f \in ComposeCatalog({}) /\ f.name \in BuiltinNames
       \/ /\ f.name \in CustomNames /\ f.name \notin BuiltinNames
          /\ f.label \in CustomLabels
<1>1. ComposeCatalog({}) = BuiltinFlavors
  BY DEF ComposeCatalog
<1>2. BuiltinFlavors \subseteq ComposeCatalog(RoutableCustomFlavors)
  BY DEF ComposeCatalog
<1>3. \A f \in ComposeCatalog(RoutableCustomFlavors) :
       \/ f \in BuiltinFlavors /\ f.name \in BuiltinNames
       \/ /\ f.name \in CustomNames /\ f.name \notin BuiltinNames
          /\ f.label \in CustomLabels
  BY CatalogEntries, CustomLabelOfName
<1>. QED  BY <1>1, <1>2, <1>3

(* A name that is no custom one has the same flavors with and without.     *)
Plain(n) == n \notin CustomNames \/ n \in BuiltinNames

LEMMA PlainByName ==
  ASSUME NEW n, Plain(n)
  PROVE  ByName(ComposeCatalog({}), n) = ByName(ComposeCatalog(RoutableCustomFlavors), n)
BY BareCatalog DEF ByName, Plain

LEMMA NamedUnneeded ==
  ASSUME NEW catalog, NEW labels, NEW map, \A l \in labels : ~IsCustomFlavorLabel(l),
         \A n \in MapValues(map) : ~IsCustomFlavorName(n)
  PROVE  UnresolvedNamedCustom(catalog, labels, map) = NoFlavor
<1> DEFINE remapped(l) == l \in DOMAIN map /\ InCatalog(catalog, map[l])
           lost   == {l \in labels : /\ IsCustomFlavorLabel(l)
                                     /\ \A f \in catalog : f.label # l
                                     /\ ~remapped(l)}
           absent == {map[l] : l \in labels \intersect DOMAIN map}
           gone   == {n \in absent : IsCustomFlavorName(n) /\ ~InCatalog(catalog, n)}
<1>1. lost = {}
  OBVIOUS
<1>2. gone = {}
  BY DEF MapValues
<1>. QED  BY <1>1, <1>2 DEF UnresolvedNamedCustom

LEMMA ExplicitUnneeded ==
  ASSUME NEW labels, \A l \in labels : ~IsCustomFlavorLabel(l)
  PROVE  /\ ExplicitLabelMatch(ComposeCatalog({}), labels) =
              ExplicitLabelMatch(ComposeCatalog(RoutableCustomFlavors), labels)
         /\ \A f \in ExplicitLabelMatch(ComposeCatalog({}), labels) : Plain(f.name)
<1>1. {f \in ComposeCatalog({}) : f.label \in labels} =
        {f \in ComposeCatalog(RoutableCustomFlavors) : f.label \in labels}
  BY BareCatalog DEF IsCustomFlavorLabel
<1>2. \A f \in ComposeCatalog({}) : Plain(f.name)
  BY BareCatalog DEF BuiltinNames, Plain
<1>. QED  BY <1>1, <1>2 DEF ExplicitLabelMatch

LEMMA SelectUnneeded ==
  ASSUME NEW labels, NEW opts, NEW bare, opts.map = bare.map, opts.mode = bare.mode,
         opts.dflt = bare.dflt, ~NeedsCustomFlavors(LabelSet(labels), opts.map, opts.dflt)
  PROVE  /\ SelectFlavor(ComposeCatalog({}), labels, bare) =
              SelectFlavor(ComposeCatalog(RoutableCustomFlavors), labels, opts)
         /\ Plain(SelectFlavor(ComposeCatalog({}), labels, bare).flavor)
<1> DEFINE some == ComposeCatalog(RoutableCustomFlavors)
           none == ComposeCatalog({})
           explicit == ExplicitLabelMatch(none, LabelSet(labels))
           mapped == FirstMapHit(none, labels, bare.map)
<1>1. /\ \A l \in LabelSet(labels) : ~IsCustomFlavorLabel(l)
      /\ \A l \in DOMAIN bare.map : Plain(bare.map[l])
      /\ Plain(bare.dflt)
  BY DEF NeedsCustomFlavors, MapValues, IsCustomFlavorName, Plain
<1>2. mapped = FirstMapHit(some, labels, opts.map)
  BY <1>1, PlainByName DEF FirstMapHit, InCatalog
<1>3. explicit = ExplicitLabelMatch(some, LabelSet(labels))
  BY <1>1, ExplicitUnneeded
<1>4. InCatalog(none, bare.dflt) <=> InCatalog(some, opts.dflt)
  BY <1>1, PlainByName DEF InCatalog
<1>5. SelectFlavor(none, labels, bare) = SelectFlavor(some, labels, opts)
  <2> DEFINE Choice(hit, label, adopt, dflt) ==
               IF hit # {} THEN Resolution(opts.map[labels[CHOOSE i \in hit : TRUE]], "map")
               ELSE IF label # {} THEN Resolution((CHOOSE f \in label : TRUE).name, "label")
               ELSE IF adopt THEN Resolution(AdoptFlavor, "adopt")
               ELSE IF dflt THEN Resolution(opts.dflt, "default")
               ELSE Resolution("base", "fallback")
             adopts == opts.mode = "adopt" /\ LabelSet(labels) \intersect AdoptLabels # {}
  <2>1. SelectFlavor(none, labels, bare) =
          Choice(mapped, explicit, adopts, InCatalog(none, bare.dflt))
    BY DEF SelectFlavor
  <2>2. SelectFlavor(some, labels, opts) =
          Choice(FirstMapHit(some, labels, opts.map), ExplicitLabelMatch(some, LabelSet(labels)),
                 adopts, InCatalog(some, opts.dflt))
    BY DEF SelectFlavor
  <2> HIDE DEF adopts, mapped, explicit
  <2>. QED  BY <1>2, <1>3, <1>4, <2>1, <2>2
<1>6. Plain("base") /\ Plain(AdoptFlavor)
  BY DEF Plain, AdoptFlavor, BuiltinNames, BuiltinFlavors, Flavor
<1>7. explicit # {} => Plain((CHOOSE f \in explicit : TRUE).name)
  BY <1>1, ExplicitUnneeded
<1>8. mapped # {} => Plain(bare.map[labels[CHOOSE i \in mapped : TRUE]])
  <2>1. \A i \in mapped : labels[i] \in DOMAIN bare.map
    BY DEF FirstMapHit
  <2> HIDE DEF mapped
  <2>. QED  BY <1>1, <2>1
<1>. QED  BY <1>1, <1>5, <1>6, <1>7, <1>8 DEF SelectFlavor, Resolution

LEMMA ResolveUnneeded ==
  ASSUME NEW labels, NEW opts, NEW bare, opts.map = bare.map, opts.mode = bare.mode,
         opts.dflt = bare.dflt, opts.docker = bare.docker,
         opts.custom = RoutableCustomFlavors, bare.custom = {},
         ~NeedsCustomFlavors(LabelSet(labels), opts.map, opts.dflt)
  PROVE  ResolveFlavor(labels, bare) = ResolveFlavor(labels, opts)
<1> DEFINE some == ComposeCatalog(RoutableCustomFlavors)
           none == ComposeCatalog({})
           chosen == SelectFlavor(none, labels, bare)
<1>1. chosen = SelectFlavor(some, labels, opts) /\ Plain(chosen.flavor)
  BY SelectUnneeded
<1>2. ByName(none, chosen.flavor) = ByName(some, chosen.flavor)
  BY <1>1, PlainByName
<1>3. ApplySignalUpgrade(none, chosen, bare.docker) = ApplySignalUpgrade(some, chosen, opts.docker)
  BY <1>2 DEF ApplySignalUpgrade
<1>4. /\ UnresolvedNamedCustom(none, LabelSet(labels), bare.map) = NoFlavor
      /\ UnresolvedNamedCustom(some, LabelSet(labels), opts.map) = NoFlavor
  BY NamedUnneeded DEF NeedsCustomFlavors
<1>5. ~IsCustomFlavorName(bare.dflt)
  BY DEF NeedsCustomFlavors
<1> HIDE DEF chosen
<1>6. ResolveFlavor(labels, bare) =
        [ApplySignalUpgrade(none, chosen, bare.docker) EXCEPT !.unresolved = NoFlavor]
  BY <1>4, <1>5 DEF ResolveFlavor, chosen
<1>7. ResolveFlavor(labels, opts) =
        [ApplySignalUpgrade(some, chosen, opts.docker) EXCEPT !.unresolved = NoFlavor]
  BY <1>1, <1>4, <1>5 DEF ResolveFlavor
<1>. QED  BY <1>3, <1>6, <1>7

(* What is stored of a file depends on the row's map and mode alone, and   *)
(* on the custom flavors only where they were needed.                      *)
LEMMA AnalyzeSameRow ==
  ASSUME NEW text, NEW row, NEW seen, NEW custom, row.map = seen.map, row.mode = seen.mode
  PROVE  Analyze(text, row, custom) = Analyze(text, seen, custom)
BY DEF Analyze, RouteOf

LEMMA AnalyzeUnneeded ==
  ASSUME NEW text, NEW row,
         ~NeedsCustomFlavors(LabelSet(text.labels), row.map, NoFlavor)
  PROVE  Analyze(text, row, {}) = Analyze(text, row, RoutableCustomFlavors)
<1> DEFINE opts(custom) == [map |-> row.map, mode |-> row.mode, dflt |-> NoFlavor,
                            custom |-> custom, docker |-> text.docker]
<1>1. /\ opts({}).map = row.map /\ opts({}).mode = row.mode /\ opts({}).dflt = NoFlavor
      /\ opts({}).docker = text.docker /\ opts({}).custom = {}
  OBVIOUS
<1>2. /\ opts(RoutableCustomFlavors).map = row.map /\ opts(RoutableCustomFlavors).mode = row.mode
      /\ opts(RoutableCustomFlavors).dflt = NoFlavor
      /\ opts(RoutableCustomFlavors).docker = text.docker
      /\ opts(RoutableCustomFlavors).custom = RoutableCustomFlavors
  OBVIOUS
<1>3. /\ RouteOf(text, row, {}) = ResolveFlavor(text.labels, opts({}))
      /\ RouteOf(text, row, RoutableCustomFlavors) =
           ResolveFlavor(text.labels, opts(RoutableCustomFlavors))
  BY DEF RouteOf
<1> HIDE DEF opts
<1>4. RouteOf(text, row, {}) = RouteOf(text, row, RoutableCustomFlavors)
  BY <1>1, <1>2, <1>3, ResolveUnneeded
<1>. QED  BY <1>4 DEF Analyze

-----------------------------------------------------------------------------
(* Routes: where the registry rests and no scan is lost                    *)

LEMMA SettlingLacks ==
  ASSUME Settling
  PROVE  /\ {"map", "register", "revalidate", "repoint", "delete", "overlap", "lost",
             "fault", "github"} \intersect scope.may = {}
         /\ \A r \in Unsettling : ~Spend(r)
         /\ ~Overlap
BY DEF Settling, Unsettling, Spend, Can, Overlap

LEMMA RegistryRests ==
  ASSUME Settling, checks = {}, \A c \in Consoles : console[c] = IdleConsole
  PROVE  ~RegistryNext
<1>1. /\ ~Spend("register") /\ ~Spend("revalidate") /\ ~Spend("repoint") /\ ~Spend("delete")
  BY SettlingLacks DEF Unsettling
<1>2. \A c \in Consoles : console[c].op = "idle"
  BY DEF IdleConsole
<1>. QED
  BY <1>1, <1>2 DEF RegistryNext, RegisterRead, RevalidateRead, RegisterPut, RevalidateWrite,
     DeleteFlavor

LEMMA FlavorsRest ==
  ASSUME Settling, checks = {}, \A c \in Consoles : console[c] = IdleConsole,
         Next \/ UNCHANGED vars
  PROVE  UNCHANGED registryVars
BY RegistryRests, ConfigFrame, DiscoveryFrame, ClaimFrame, RoutingFrame, RewriteFrame, DoorFrame
   DEF Next, vars, registryVars

LEMMA RoutableStays ==
  ASSUME flavor' = flavor
  PROVE  RoutableCustomFlavors' = RoutableCustomFlavors
BY DEF RoutableCustomFlavors, Registered, ToCatalogFlavor, CatalogEntry

(* One scan goes on to `w`, the others rest.                               *)
LEMMA ScanGoesOn ==
  ASSUME ScanInv, NEW s \in Scans, NEW w, scan' = [scan EXCEPT ![s] = w],
         \A t \in Scans \ {s} : scan[t].phase = "idle", UNCHANGED <<flavor, repo, tree>>,
         w.phase # "idle" => w.custom \in {None, RoutableCustomFlavors},
         w.phase = "put" => w.path \in Paths,
         NoneWaits' =>
           \/ w.phase = "idle" /\ (repo # None => \A p \in Paths : Current(p)')
           \/ /\ w.phase # "idle"
              /\ w.row.map = Seen(repo).map /\ w.row.mode = Seen(repo).mode
              /\ \A p \in Paths : Current(p)' \/ p \in w.todo
              /\ w.phase = "put" =>
                   w.found = Analyze(tree[w.path], Seen(repo), RoutableCustomFlavors)
  PROVE  ScansSound' /\ (NoneWaits' => Tracked')
<1>1. scan'[s] = w /\ \A t \in Scans \ {s} : scan'[t].phase = "idle"
  BY DEF ScanInv
<1>2. RoutableCustomFlavors' = RoutableCustomFlavors
  BY RoutableStays
<1>3. ScansSound'
  BY <1>1, <1>2 DEF ScansSound
<1>4. ASSUME NoneWaits', w.phase = "idle", repo # None => \A p \in Paths : Current(p)'
      PROVE  Tracked'
  BY <1>1, <1>4 DEF Tracked
<1>5. ASSUME w.phase # "idle",
             w.row.map = Seen(repo).map, w.row.mode = Seen(repo).mode,
             \A p \in Paths : Current(p)' \/ p \in w.todo,
             w.phase = "put" =>
               w.found = Analyze(tree[w.path], Seen(repo), RoutableCustomFlavors)
      PROVE  Tracked'
  <2>1. /\ scan'[s].row.map = Seen(repo)'.map /\ scan'[s].row.mode = Seen(repo)'.mode
        /\ \A p \in Paths : Current(p)' \/ p \in scan'[s].todo
        /\ scan'[s].phase = "put" =>
             scan'[s].found = Analyze(tree[scan[s].path], Seen(repo), RoutableCustomFlavors)'
    <3>1. Seen(repo)' = Seen(repo)
      BY DEF Seen, NoRow
    <3>3. scan'[s].phase = "put" =>
             scan'[s].found = Analyze(tree[scan[s].path], Seen(repo), RoutableCustomFlavors)'
      BY <1>1, <1>2, <1>5, <3>1 DEF Analyze
    <3>. QED  BY <1>1, <1>5, <3>1, <3>3
  <2>2. ScanIsCurrent(s)'
    BY <2>1 DEF ScanIsCurrent
  <2>. QED  BY <1>1, <1>5, <2>2 DEF Tracked
<1>. QED  BY <1>3, <1>4, <1>5

LEMMA CurrentStays ==
  ASSUME UNCHANGED <<flavor, repo, tree>>
  PROVE  \A p \in Paths : analysis'[p] = analysis[p] => (Current(p)' <=> Current(p))
<1>1. RoutableCustomFlavors' = RoutableCustomFlavors
  BY RoutableStays
<1>. QED  BY <1>1 DEF Current, Seen, NoRow, Analyze

LEMMA BeginTracked ==
  ASSUME Settling, ScanInv, RepoInv, NEW s \in Scans, NEW receives \in 0 .. MaxReceive - 1,
         ScanBegin(s, receives), UNCHANGED <<flavor, repo, tree>>
  PROVE  ScansSound' /\ (NoneWaits' => Tracked')
<1> DEFINE w == [IdleScan EXCEPT !.phase = "files", !.row = Seen(repo),
                                 !.receives = receives + 1,
                                 !.todo = {p \in Paths : tree[p] # None}]
<1>1. /\ \A t \in Scans : scan[t].phase = "idle" /\ scan' = [scan EXCEPT ![s] = w]
  BY SettlingLacks DEF ScanBegin, Reads, Unsettling
<1>2. /\ w.phase = "files" /\ w.custom = None /\ w.row = Seen(repo)
      /\ w.todo = {p \in Paths : tree[p] # None}
  BY DEF IdleScan
<1> HIDE DEF w
<1>3. \A p \in Paths : Current(p)' \/ p \in w.todo
  BY <1>2 DEF Current
<1>4. /\ w.phase # "idle" /\ w.phase # "put" /\ w.custom \in {None, RoutableCustomFlavors}
      /\ w.row.map = Seen(repo).map /\ w.row.mode = Seen(repo).mode
  BY <1>2
<1>5. \A t \in Scans \ {s} : scan[t].phase = "idle"
  BY <1>1
<1>. QED  BY <1>1, <1>3, <1>4, <1>5, ScanGoesOn

LEMMA ThrowAsks ==
  ASSUME ScanInv, NEW s \in Scans, ScanThrows(s)
  PROVE  ~NoneWaits'
<1>1. /\ scan[s].receives \in 0 .. MaxReceive /\ scanQ \in [0 .. MaxReceive -> Nat]
      /\ scanQ' = [scanQ EXCEPT ![scan[s].receives] = @ + 1]
  BY DEF ScanInv, QueueType, ScanThrows
<1>2. scanQ'[scan[s].receives] # 0
  BY <1>1
<1>. QED  BY <1>1, <1>2 DEF NoneWaits

LEMMA RoutableIsNoFault ==
  ASSUME RegistryInv
  PROVE  RoutableCustomFlavors # Fault
<1> DEFINE entries == {CatalogEntry(n, caps) : n \in CustomNames, caps \in SUBSET {"docker"}}
<1>1. \A n \in Registered : n \in CustomNames /\ flavor[n].caps \in SUBSET {"docker"}
  BY DEF RegistryInv, RegistryTypes, Registered, FlavorType
<1>2. \A n \in Registered : ToCatalogFlavor(n) \in entries
  BY <1>1 DEF ToCatalogFlavor
<1>3. RoutableCustomFlavors \subseteq entries
  BY <1>2 DEF RoutableCustomFlavors
<1>. QED  BY <1>3, FaultAssumption

(* The file is analysed as the row and the registry now say.               *)
LEMMA FileIsCurrent ==
  ASSUME Settling, RegistryInv, NEW s \in Scans, NEW p \in Paths, ScanFile(s, p), tree[p] # None,
         scan[s].custom \in {None, RoutableCustomFlavors}
  PROVE  /\ scanQ' = scanQ
         /\ \E custom \in {None, RoutableCustomFlavors} :
              scan' = [scan EXCEPT ![s] =
                [scan[s] EXCEPT !.phase = "put", !.path = p, !.custom = custom,
                   !.found = Analyze(tree[p], scan[s].row, RoutableCustomFlavors)]]
<1> DEFINE text  == tree[p]
           names == NeedsCustomFlavors(LabelSet(text.labels), scan[s].row.map, NoFlavor)
           needs == text.shape # "broken" /\ names
           loads == needs /\ scan[s].custom = None
           custom == IF ~loads THEN scan[s].custom ELSE RoutableCustomFlavors
           found == Analyze(text, scan[s].row, IF needs THEN custom ELSE {})
<1>1. scanQ' = scanQ
  BY DEF ScanFile
<1>2. scan' = [scan EXCEPT ![s] =
        [scan[s] EXCEPT !.phase = "put", !.path = p, !.custom = custom, !.found = found]]
  <2>1. \E read \in {RoutableCustomFlavors, Fault} :
          /\ IF loads THEN Reads(RoutableCustomFlavors, read)
                      ELSE read = RoutableCustomFlavors /\ Free
          /\ LET cust == IF ~loads THEN scan[s].custom
                         ELSE IF read = Fault THEN {} ELSE read
             IN  scan' = [scan EXCEPT ![s] =
                   [scan[s] EXCEPT !.phase = "put", !.path = p, !.custom = cust,
                     !.found = Analyze(text, scan[s].row, IF needs THEN cust ELSE {})]]
    BY DEF ScanFile
  <2>2. ~Spend("fault")
    BY SettlingLacks DEF Unsettling
  <2> HIDE DEF needs, loads, text
  <2>3. LET cust == IF ~loads THEN scan[s].custom ELSE RoutableCustomFlavors
        IN  scan' = [scan EXCEPT ![s] =
              [scan[s] EXCEPT !.phase = "put", !.path = p, !.custom = cust,
                !.found = Analyze(text, scan[s].row, IF needs THEN cust ELSE {})]]
    BY <2>1, <2>2, RoutableIsNoFault DEF Reads
  <2>. QED  BY <2>3
<1>3. custom \in {None, RoutableCustomFlavors} /\ (needs => custom = RoutableCustomFlavors)
  OBVIOUS
<1>4. found = Analyze(text, scan[s].row, RoutableCustomFlavors)
  <2>1. CASE text.shape = "broken"
    BY <2>1 DEF Analyze
  <2>2. CASE ~names
    <3>1. found = Analyze(text, scan[s].row, {})
      BY <2>2
    <3>. QED  BY <2>2, <3>1, AnalyzeUnneeded
  <2>3. CASE needs
    BY <1>3, <2>3
  <2>. QED  BY <2>1, <2>2, <2>3
<1> HIDE DEF custom, found
<1>. QED  BY <1>1, <1>2, <1>3, <1>4

LEMMA FileTracked ==
  ASSUME Settling, ScanInv, RegistryInv, ScansSound, NoneWaits => Tracked,
         NEW s \in Scans, NEW p \in Paths,
         ScanFile(s, p), UNCHANGED <<flavor, repo, tree>>
  PROVE  ScansSound' /\ (NoneWaits' => Tracked')
<1>1. /\ scan[s].phase = "files" /\ p \in scan[s].todo /\ analysis' = analysis
      /\ \A t \in Scans \ {s} : scan[t].phase = "idle"
      /\ scan[s].custom \in {None, RoutableCustomFlavors}
  <2>1. scan[s].phase = "files" /\ p \in scan[s].todo /\ analysis' = analysis
    BY DEF ScanFile
  <2>. QED  BY <2>1 DEF ScansSound
<1>2. CASE tree[p] = None
  <2>1. ScanThrows(s)
    BY <1>2 DEF ScanFile
  <2>2. scan' = [scan EXCEPT ![s] = IdleScan] /\ ~NoneWaits'
    BY <2>1, ThrowAsks DEF ScanThrows
  <2>3. IdleScan.phase = "idle"
    BY DEF IdleScan
  <2>. QED  BY <1>1, <2>2, <2>3, ScanGoesOn
<1>3. CASE tree[p] # None
  <2>1. PICK custom \in {None, RoutableCustomFlavors} :
          scan' = [scan EXCEPT ![s] =
            [scan[s] EXCEPT !.phase = "put", !.path = p, !.custom = custom,
               !.found = Analyze(tree[p], scan[s].row, RoutableCustomFlavors)]]
    BY <1>1, <1>3, FileIsCurrent
  <2> DEFINE w == [scan[s] EXCEPT !.phase = "put", !.path = p, !.custom = custom,
                     !.found = Analyze(tree[p], scan[s].row, RoutableCustomFlavors)]
  <2>2. /\ w.phase = "put" /\ w.path = p /\ w.custom = custom /\ w.row = scan[s].row
        /\ w.found = Analyze(tree[p], scan[s].row, RoutableCustomFlavors)
        /\ w.todo = scan[s].todo
    BY DEF ScanInv, IdleScan
  <2>3. scan' = [scan EXCEPT ![s] = w]
    BY <2>1
  <2> HIDE DEF w
  <2>4. NoneWaits' => ScanIsCurrent(s)
    <3>1. scanQ' = scanQ
      BY <1>1, <1>3, FileIsCurrent
    <3>. QED  BY <1>1, <3>1 DEF NoneWaits, Tracked
  <2>5. ScanIsCurrent(s) =>
          /\ w.row.map = Seen(repo).map /\ w.row.mode = Seen(repo).mode
          /\ \A q \in Paths : Current(q)' \/ q \in w.todo
          /\ w.found = Analyze(tree[w.path], Seen(repo), RoutableCustomFlavors)
    <3> SUFFICES ASSUME ScanIsCurrent(s)
                 PROVE  /\ w.row.map = Seen(repo).map /\ w.row.mode = Seen(repo).mode
                        /\ \A q \in Paths : Current(q)' \/ q \in w.todo
                        /\ w.found = Analyze(tree[w.path], Seen(repo), RoutableCustomFlavors)
      OBVIOUS
    <3>1. w.row.map = Seen(repo).map /\ w.row.mode = Seen(repo).mode
      BY <2>2 DEF ScanIsCurrent
    <3>2. w.found = Analyze(tree[w.path], Seen(repo), RoutableCustomFlavors)
      BY <2>2, <3>1, AnalyzeSameRow
    <3>3. \A q \in Paths : Current(q)' \/ q \in w.todo
      BY <1>1, <2>2, CurrentStays DEF ScanIsCurrent
    <3>. QED  BY <3>1, <3>2, <3>3
  <2>6. w.phase # "idle" /\ w.custom \in {None, RoutableCustomFlavors} /\ w.path \in Paths
    BY <2>1, <2>2
  <2>. QED  BY <1>1, <2>3, <2>4, <2>5, <2>6, ScanGoesOn
<1>. QED  BY <1>2, <1>3

LEMMA PutTracked ==
  ASSUME Settling, ScanInv, ScansSound, NoneWaits => Tracked, DOMAIN analysis = Paths,
         NEW s \in Scans, ScanPut(s), UNCHANGED <<flavor, repo, tree>>
  PROVE  ScansSound' /\ (NoneWaits' => Tracked')
<1>1. /\ scan[s].phase = "put" /\ scanQ' = scanQ
      /\ \A t \in Scans \ {s} : scan[t].phase = "idle"
      /\ scan[s].custom \in {None, RoutableCustomFlavors} /\ scan[s].path \in Paths
  <2>1. scan[s].phase = "put" /\ scanQ' = scanQ
    BY DEF ScanPut
  <2>. QED  BY <2>1 DEF ScansSound
<1>2. NoneWaits' => ScanIsCurrent(s)
  BY <1>1 DEF NoneWaits, Tracked
<1> DEFINE left == scan[s].todo \ {scan[s].path}
           more == [scan[s] EXCEPT !.phase = "files", !.todo = left, !.path = None, !.found = None]
           w == IF left = {} THEN IdleScan ELSE more
<1>3. /\ scan' = [scan EXCEPT ![s] = w]
      /\ analysis' = [analysis EXCEPT ![scan[s].path] = scan[s].found]
  BY DEF ScanPut
<1>4. /\ more.phase = "files" /\ more.todo = left /\ more.custom = scan[s].custom
      /\ more.row = scan[s].row
  BY DEF ScanInv, IdleScan
<1>5. IdleScan.phase = "idle"
  BY DEF IdleScan
<1>6. ScanIsCurrent(s) => \A p \in Paths : Current(p)' \/ p \in left
  <2> SUFFICES ASSUME ScanIsCurrent(s), NEW p \in Paths PROVE Current(p)' \/ p \in left
    OBVIOUS
  <2>1. CASE p = scan[s].path
    <3>1. analysis'[p] = Analyze(tree[p], Seen(repo), RoutableCustomFlavors)
      BY <1>1, <1>3, <2>1 DEF ScanIsCurrent
    <3>2. RoutableCustomFlavors' = RoutableCustomFlavors
      BY RoutableStays
    <3>. QED  BY <3>1, <3>2 DEF Current, Seen, NoRow, Analyze
  <2>2. CASE p # scan[s].path
    <3>1. analysis'[p] = analysis[p]
      BY <1>3, <2>2
    <3>. QED  BY <2>2, <3>1, CurrentStays DEF ScanIsCurrent
  <2>. QED  BY <2>1, <2>2
<1> HIDE DEF more
<1>7. CASE left = {}
  <2>1. w = IdleScan
    BY <1>7
  <2> HIDE DEF w
  <2>. QED  BY <1>1, <1>2, <1>3, <1>5, <1>6, <1>7, <2>1, ScanGoesOn
<1>8. CASE left # {}
  <2>1. w = more
    BY <1>8
  <2> HIDE DEF w, left
  <2>2. ScanIsCurrent(s) => w.row.map = Seen(repo).map /\ w.row.mode = Seen(repo).mode
    BY <1>4, <2>1 DEF ScanIsCurrent
  <2>3. /\ w.phase # "idle" /\ w.phase # "put" /\ w.custom \in {None, RoutableCustomFlavors}
        /\ w.todo = left
    BY <1>1, <1>4, <2>1
  <2>. QED  BY <1>1, <1>2, <1>3, <1>6, <2>2, <2>3, ScanGoesOn
<1>. QED  BY <1>7, <1>8

LEMMA EmptyTracked ==
  ASSUME Settling, ScanInv, ScansSound, NoneWaits => Tracked,
         NEW s \in Scans, ScanEmpty(s), UNCHANGED <<flavor, repo, tree>>
  PROVE  ScansSound' /\ (NoneWaits' => Tracked')
<1>1. /\ scan[s].phase = "files" /\ scan[s].todo = {}
      /\ scan' = [scan EXCEPT ![s] = IdleScan] /\ scanQ' = scanQ /\ analysis' = analysis
  BY DEF ScanEmpty
<1>2. \A t \in Scans \ {s} : scan[t].phase = "idle"
  BY <1>1 DEF ScansSound
<1>3. NoneWaits' => \A p \in Paths : Current(p)'
  BY <1>1, <1>2, CurrentStays DEF NoneWaits, Tracked, ScanIsCurrent
<1>4. IdleScan.phase = "idle"
  BY DEF IdleScan
<1>. QED  BY <1>1, <1>2, <1>3, <1>4, ScanGoesOn

(* A change that asks for a scan is one that waits.                        *)
LEMMA AskWaits ==
  ASSUME ScanInv, AskScan
  PROVE  ~NoneWaits'
<1>1. 0 \in 0 .. MaxReceive /\ scanQ \in [0 .. MaxReceive -> Nat]
  BY ControlAssumption DEF ScanInv, QueueType
<1>2. scanQ'[0] # 0
  BY <1>1 DEF AskScan
<1>. QED  BY <1>1, <1>2 DEF NoneWaits

LEMMA RescansWait ==
  ASSUME Settling, ScanInv, Rescans
  PROVE  ~NoneWaits'
BY SettlingLacks, AskWaits DEF Rescans

(* The scans and what they read stay.                                      *)
LEMMA TrackedStays ==
  ASSUME UNCHANGED <<flavor, scan, analysis>>, ScansSound,
         NoneWaits' =>
           /\ NoneWaits => Tracked
           /\ scanQ' = scanQ /\ tree' = tree
           /\ Seen(repo)'.map = Seen(repo).map /\ Seen(repo)'.mode = Seen(repo).mode
           /\ repo' # None => repo # None
  PROVE  ScansSound' /\ (NoneWaits' => Tracked')
<1>1. RoutableCustomFlavors' = RoutableCustomFlavors
  BY RoutableStays
<1>2. ScansSound'
  BY <1>1 DEF ScansSound
<1>3. ASSUME NoneWaits' PROVE Tracked'
  <2>1. /\ Tracked /\ tree' = tree
        /\ Seen(repo)'.map = Seen(repo).map /\ Seen(repo)'.mode = Seen(repo).mode
        /\ repo' # None => repo # None
    BY <1>3 DEF NoneWaits
  <2>2. ASSUME NEW text
        PROVE  Analyze(text, Seen(repo)', RoutableCustomFlavors) =
                 Analyze(text, Seen(repo), RoutableCustomFlavors)
    BY <2>1, AnalyzeSameRow
  <2>3. \A p \in Paths : Current(p) => Current(p)'
    BY <1>1, <2>1, <2>2 DEF Current, Analyze
  <2>4. ASSUME NEW s \in Scans, ScanIsCurrent(s) PROVE ScanIsCurrent(s)'
    BY <1>1, <2>1, <2>2, <2>3, <2>4 DEF ScanIsCurrent, Analyze
  <2>. QED  BY <2>1, <2>3, <2>4 DEF Tracked
<1>. QED  BY <1>2, <1>3

LEMMA ConfigTracked ==
  ASSUME Settling, ScanInv, RepoInv, ScansSound, NoneWaits => Tracked, ConfigNext,
         flavor' = flavor
  PROVE  ScansSound' /\ (NoneWaits' => Tracked')
<1>1. UNCHANGED <<scan, analysis, tree>>
  BY ConfigFrame DEF githubVars
<1>2. repo \in Rows \union {None} /\ None \notin Rows /\ Fault \notin Rows
  BY AbsenceAssumption DEF RepoInv
<1>3. CASE UNCHANGED <<repo, scanQ>>
  BY <1>1, <1>3, TrackedStays DEF Seen, NoRow
<1>4. ASSUME NEW row \in Rows, row.map = repo.map, row.mode = repo.mode,
             repo # None, repo' = row, scanQ' = scanQ
      PROVE  ScansSound' /\ (NoneWaits' => Tracked')
  <2>1. Seen(repo) = repo /\ Seen(repo)' = row
    BY <1>2, <1>4 DEF Seen
  <2>. QED  BY <1>1, <1>4, <2>1, TrackedStays
<1>5. CASE Rescans
  BY <1>1, <1>5, RescansWait, TrackedStays
<1>6. ASSUME NEW patch \in Patches, PatchRepo(patch) PROVE ScansSound' /\ (NoneWaits' => Tracked')
  <2>1. /\ repo # None /\ repo \in Rows /\ repo' = Patched(repo, patch[1], patch[2])
        /\ IF patch[1] = "mode" THEN Rescans ELSE UNCHANGED scanQ
    BY <1>2, <1>6 DEF PatchRepo
  <2>2. CASE patch[1] = "mode"
    BY <1>5, <2>1, <2>2
  <2>3. CASE patch[1] # "mode"
    <3>1. /\ patch[1] \in {"enabled", "rewrite", "dflt"} /\ scanQ' = scanQ
          /\ patch[1] \in {"enabled", "rewrite"} => patch[2] \in BOOLEAN
      BY <2>1, <2>3 DEF Patches
    <3>2. repo'.map = repo.map /\ repo'.mode = repo.mode
      <4>1. DOMAIN repo = {"enabled", "mode", "map", "dflt", "rewrite"}
        BY <2>1 DEF Rows
      <4>. QED  BY <2>1, <3>1, <4>1 DEF Patched
    <3>3. repo' \in Rows
      BY <1>6, PatchKeeps
    <3>. QED  BY <1>4, <2>1, <3>1, <3>2, <3>3
  <2>. QED  BY <2>2, <2>3
<1>7. \A map : ~PutFlavorMap(map)
  BY SettlingLacks DEF PutFlavorMap, Unsettling
<1>8. ASSUME NEW labels, SetRunnerLabels(labels) PROVE UNCHANGED <<repo, scanQ>>
  BY <1>8 DEF SetRunnerLabels, scanVars
<1>9. AllowlistExpires => UNCHANGED <<repo, scanQ>>
  BY DEF AllowlistExpires, scanVars
<1>10. \A created : RepoGranted(created) => Rescans
  BY DEF RepoGranted
<1>11. CASE RepoWithdrawn
  <2>1. scanQ' = scanQ /\ repo' = IF repo = None THEN None ELSE [repo EXCEPT !.enabled = FALSE]
    BY <1>11 DEF RepoWithdrawn, scanVars
  <2>2. CASE repo = None
    BY <1>3, <2>1, <2>2
  <2>3. CASE repo # None
    <3> DEFINE row == [repo EXCEPT !.enabled = FALSE]
    <3>1. row \in Rows /\ row.map = repo.map /\ row.mode = repo.mode
      BY <1>2, <2>3 DEF Rows
    <3>2. repo' = row
      BY <2>1, <2>3
    <3> HIDE DEF row
    <3>. QED  BY <1>4, <2>1, <2>3, <3>1, <3>2
  <2>. QED  BY <2>2, <2>3
<1>12. \A flag, value : SetInstallationFlags(flag, value) => UNCHANGED <<repo, scanQ>>
  BY DEF SetInstallationFlags, scanVars
<1>. QED
  BY <1>3, <1>5, <1>6, <1>7, <1>8, <1>9, <1>10, <1>11, <1>12 DEF ConfigNext

(* Apart from a merge, the rewrite leaves the default branch and the scans.*)
LEMMA RewriteTracked ==
  ASSUME Settling, ScanInv, ScansSound, NoneWaits => Tracked, RewriteNext,
         flavor' = flavor
  PROVE  ScansSound' /\ (NoneWaits' => Tracked')
<1>1. UNCHANGED <<scan, analysis, repo>>
  BY RewriteFrame DEF repoVars
<1>2. MergePullRequest \/ UNCHANGED <<scanQ, tree>>
  BY DEF RewriteNext, RequestRewrite, RewriteBegin, RewriteProbe, RewriteRead,
     RewritePlanned, EnsureBranch, PutFile, PutsDone, FindOpenPullRequest, CreatePullRequest,
     RewriteFails, ClosePullRequest, EditBranch, DeleteBranch, githubVars, scanVars
<1>3. CASE MergePullRequest
  <2>1. Rescans
    BY <1>3 DEF MergePullRequest
  <2>. QED  BY <1>1, <2>1, RescansWait, TrackedStays
<1>4. CASE UNCHANGED <<scanQ, tree>>
  BY <1>1, <1>4, TrackedStays DEF Seen, NoRow
<1>. QED  BY <1>2, <1>3, <1>4

LEMMA SettledKept ==
  ASSUME SettledInv, ScanTexts, IInv, Next \/ UNCHANGED vars
  PROVE  SettledInv'
<1>1. RegistryInv /\ ScanInv /\ RepoInv /\ scope'.may = scope.may
  BY ScopeKept DEF IInv
<1>2. Settling' => Settling
  BY <1>1 DEF Settling
<1> SUFFICES ASSUME Settling
             PROVE  /\ checks' = {} /\ \A c \in Consoles : console'[c] = IdleConsole'
                    /\ ScansSound' /\ (NoneWaits' => Tracked')
  BY <1>2 DEF SettledInv
<1>3. /\ checks = {} /\ \A c \in Consoles : console[c] = IdleConsole
      /\ ScansSound /\ (NoneWaits => Tracked)
  BY DEF SettledInv
<1>4. UNCHANGED registryVars
  BY <1>3, FlavorsRest
<1>5. checks' = {} /\ \A c \in Consoles : console'[c] = IdleConsole'
  BY <1>3, <1>4 DEF registryVars, IdleConsole
<1>6. flavor' = flavor
  BY <1>4 DEF registryVars
<1>7. CASE UNCHANGED <<scanVars, tree, repo>>
  BY <1>3, <1>5, <1>6, <1>7, TrackedStays DEF scanVars, Seen, NoRow
<1>8. CASE ConfigNext
  BY <1>1, <1>3, <1>5, <1>6, <1>8, ConfigTracked
<1>9. CASE RewriteNext
  BY <1>1, <1>3, <1>5, <1>6, <1>9, RewriteTracked
<1>10. CASE DiscoveryNext
  <2>1. repo' = repo
    BY <1>10, DiscoveryFrame DEF repoVars
  <2>2. ASSUME NEW s \in Scans, NEW receives \in 0 .. MaxReceive - 1, ScanBegin(s, receives)
        PROVE  ScansSound' /\ (NoneWaits' => Tracked')
    <3>1. tree' = tree
      BY <2>2 DEF ScanBegin, githubVars
    <3>. QED  BY <1>1, <1>6, <2>1, <2>2, <3>1, BeginTracked
  <2>3. ASSUME NEW s \in Scans, NEW p \in Paths, ScanFile(s, p)
        PROVE  ScansSound' /\ (NoneWaits' => Tracked')
    <3>1. tree' = tree
      BY <2>3 DEF ScanFile, githubVars
    <3>. QED  BY <1>1, <1>3, <1>6, <2>1, <2>3, <3>1, FileTracked
  <2>4. ASSUME NEW s \in Scans, ScanPut(s) PROVE ScansSound' /\ (NoneWaits' => Tracked')
    <3>1. tree' = tree
      BY <2>4 DEF ScanPut, githubVars
    <3>. QED  BY <1>1, <1>3, <1>6, <2>1, <2>4, <3>1, PutTracked DEF ScanTexts
  <2>5. ASSUME NEW s \in Scans, ScanEmpty(s) PROVE ScansSound' /\ (NoneWaits' => Tracked')
    <3>1. tree' = tree
      BY <2>5 DEF ScanEmpty, githubVars
    <3>. QED  BY <1>1, <1>3, <1>6, <2>1, <2>5, <3>1, EmptyTracked
  <2>6. \A s : ~ScanFails(s)
    BY SettlingLacks DEF ScanFails, Unsettling
  <2>7. ASSUME NEW p, NEW text, Push(p, text) PROVE ScansSound' /\ (NoneWaits' => Tracked')
    <3>1. Rescans /\ UNCHANGED <<scan, analysis>>
      BY <2>7 DEF Push
    <3>. QED  BY <1>1, <1>3, <1>6, <3>1, RescansWait, TrackedStays
  <2>8. CASE RescanRepo
    <3>1. AskScan /\ UNCHANGED <<scan, analysis>>
      BY <2>8 DEF RescanRepo
    <3>. QED  BY <1>1, <1>3, <1>5, <1>6, <3>1, AskWaits, TrackedStays
  <2>. QED  BY <1>5, <1>10, <2>2, <2>3, <2>4, <2>5, <2>6, <2>7, <2>8 DEF DiscoveryNext
<1>11. ScansSound' /\ (NoneWaits' => Tracked')
  BY <1>3, <1>4, <1>7, <1>8, <1>9, <1>10, RegistryRests, ClaimFrame, RoutingFrame, DoorFrame
     DEF Next, vars, githubVars, repoVars, scanVars
<1>. QED  BY <1>5, <1>11

LEMMA InitSettled ==
  ASSUME Init
  PROVE  SettledInv
<1>1. PICK s \in Scenarios : Starts(s)
  BY DEF Init
<1>2. /\ checks = {} /\ \A c \in Consoles : console[c] = IdleConsole
      /\ \A t \in Scans : scan[t].phase = "idle"
  BY DEF Init, IdleScan
<1>3. /\ s.row \in Rows \union {None} /\ repo = s.row /\ tree = s.tree
      /\ Fault \notin Rows
  <2>1. s.row \in Rows \union {None}
    BY ScenarioAssumption
  <2>2. repo = s.row /\ tree = s.tree
    BY <1>1 DEF Starts
  <2>. QED  BY <2>1, <2>2, AbsenceAssumption
<1>4. repo # None => \A p \in Paths : Current(p)
  <2> SUFFICES ASSUME repo # None, NEW p \in Paths, tree[p] # None
               PROVE  analysis[p] = Analyze(tree[p], Seen(repo), RoutableCustomFlavors)
    BY DEF Current
  <2>1. Seen(repo) = s.row
    BY <1>3 DEF Seen
  <2>2. analysis[p] = Analyze(s.tree[p], s.row, RoutableCustomFlavors)
    BY <1>1, <1>3 DEF Starts
  <2>. QED  BY <1>3, <2>1, <2>2
<1>. QED  BY <1>2, <1>4 DEF SettledInv, ScansSound, Tracked

(* Once every requested scan is over, each file's stored analysis is that  *)
(* of its current text under the repository's current mode, where scans do *)
(* not overlap, none is lost and the registry rests.                       *)
THEOREM RoutesCorrect == Spec => []RoutesCurrent
<1> DEFINE Held == CauseInv /\ WorldTexts /\ ScanTexts /\ SettledInv
<1>1. Init => Held
  <2>1. Init => CauseInv
    BY DEF Init, CauseInv, IdleRewriter
  <2>. QED  BY <2>1, InitRefusal, InitSettled
<1>2. IInv /\ Held /\ [Next]_vars => Held'
  <2> SUFFICES ASSUME IInv, CauseInv, WorldTexts, ScanTexts, SettledInv,
                      Next \/ UNCHANGED vars
               PROVE  Held'
    OBVIOUS
  <2>. QED  BY CauseKept, WorldTextsKept, ScanTextsKept, SettledKept
<1>3. IInv /\ Held => RoutesCurrent
  <2> SUFFICES ASSUME RepoInv, SettledInv, ScansDone, repo # None, Settling
               PROVE  \A p \in Paths : tree[p] # None =>
                        analysis[p] = Analyze(tree[p], repo, RoutableCustomFlavors)
    BY DEF IInv, RoutesCurrent, Settling
  <2>1. \A p \in Paths : Current(p)
    BY DEF SettledInv, ScansDone, Tracked
  <2>2. Seen(repo) = repo
    BY AbsenceAssumption DEF RepoInv, Seen
  <2>. QED  BY <2>1, <2>2 DEF Current
<1>. QED  BY <1>1, <1>2, <1>3, ControlInvariant, PTL DEF Spec

-----------------------------------------------------------------------------
(* What a rewrite commits                                                  *)

ClaimableStep ==
  \A p \in Paths :
    Commits(p) /\ Cardinality(LabelSet(branch.files[p].labels)) < MaxJitLabels =>
      LET labels == LabelSet(branch'.files[p].labels) IN
      /\ \A mode \in ModesSet : DecideClaim(labels, BuiltinLabels, mode) = "label"
      /\ MintRefusal(labels) = "mint"
      /\ labels \intersect AdoptLabels = {}
      /\ AlreadyTargetsLca(labels)

LEMMA ClaimableKept ==
  ASSUME RewriteInv, WorldTexts, Next \/ UNCHANGED vars
  PROVE  ClaimableStep
<1> SUFFICES ASSUME NEW p \in Paths, Commits(p),
                    Cardinality(LabelSet(branch.files[p].labels)) < MaxJitLabels,
                    NEW labels, labels = LabelSet(branch'.files[p].labels)
             PROVE  /\ \A mode \in ModesSet : DecideClaim(labels, BuiltinLabels, mode) = "label"
                    /\ MintRefusal(labels) = "mint"
                    /\ labels \intersect AdoptLabels = {}
                    /\ AlreadyTargetsLca(labels)
  BY DEF ClaimableStep
<1>1. PICK plan \in rewriter.plans :
        /\ PlanIsRewrite(plan)
        /\ branch.files[p] = plan.text /\ branch'.files[p] = plan.next
  BY CommitOfPlan
<1>2. PICK lca \in BuiltinLabels :
        /\ plan.next = [plan.text EXCEPT !.labels = RewriteRunsOnValue(@, lca)]
        /\ RunsOnRefusal(plan.text.shape, LabelSet(plan.text.labels)) = NoSkip
  BY <1>1 DEF PlanIsRewrite
<1>3. IsText(plan.text)
  BY <1>1 DEF WorldTexts, Commits, PlanIsRewrite
<1>4. labels = LabelSet(RewriteRunsOnValue(plan.text.labels, lca))
  BY <1>1, <1>2, <1>3 DEF IsText
<1>. QED  BY <1>1, <1>2, <1>3, <1>4, RewrittenIsClaimable

(* What a rewrite commits, everybody after it takes as ours: Ingest claims *)
(* the job by its label in every mode, Provision mints its runner, and the *)
(* next rewrite has nothing to do (rewriteRunsOnValue).                    *)
THEOREM CommitsClaimable == Spec => CommitIsClaimable
<1> DEFINE Held == CauseInv /\ WorldTexts
<1>1. Init => Held
  <2>1. Init => CauseInv
    BY DEF Init, CauseInv, IdleRewriter
  <2>. QED  BY <2>1, InitRefusal
<1>2. IInv /\ Held /\ [Next]_vars => Held' /\ [ClaimableStep]_vars
  <2> SUFFICES ASSUME IInv, CauseInv, WorldTexts, Next \/ UNCHANGED vars
               PROVE  CauseInv' /\ WorldTexts' /\ ClaimableStep
    OBVIOUS
  <2>1. RewriteInv
    BY DEF IInv
  <2>. QED  BY <2>1, CauseKept, WorldTextsKept, ClaimableKept
<1>. QED  BY <1>1, <1>2, ControlInvariant, PTL DEF Spec, CommitIsClaimable, ClaimableStep

-----------------------------------------------------------------------------
(* The labels a FlavorMap is keyed on                                      *)

(* Whatever the catalog holds, the route of a job that the map sends to a  *)
(* custom flavor is that flavor's, or tells that the flavor is missing.    *)
LEMMA MappedRoute ==
  ASSUME NEW text, IsText(text), NEW row, MappedToCustom(text, row.map), NEW custom
  PROVE  CustomRouteSkip(RouteOf(text, row, custom)) # NoSkip
<1> DEFINE labels  == text.labels
           map     == row.map
           catalog == ComposeCatalog(custom)
           opts    == [map |-> map, mode |-> row.mode, dflt |-> NoFlavor,
                       custom |-> custom, docker |-> text.docker]
           named   == UnresolvedNamedCustom(catalog, LabelSet(labels), map)
           first   == FirstMapHit(catalog, labels, map)
           chosen  == SelectFlavor(catalog, labels, opts)
           route   == RouteOf(text, row, custom)
           absent  == {map[l] : l \in LabelSet(labels) \intersect DOMAIN map}
           gone    == {n \in absent : IsCustomFlavorName(n) /\ ~InCatalog(catalog, n)}
<1>1. /\ LabelSet(labels) \intersect DOMAIN map # {}
      /\ \A l \in LabelSet(labels) \intersect DOMAIN map : IsCustomFlavorName(map[l])
      /\ ~text.docker
  BY DEF MappedToCustom
<1>2. /\ route.flavor = ApplySignalUpgrade(catalog, chosen, text.docker).flavor
      /\ named # NoFlavor => route.unresolved = named
  <2>1. DOMAIN chosen = {"flavor", "rule", "replaced", "unresolved"}
    BY DEF SelectFlavor, Resolution
  <2>2. ApplySignalUpgrade(catalog, chosen, text.docker) = chosen
    BY <1>1 DEF ApplySignalUpgrade
  <2>3. PICK u : /\ route = [chosen EXCEPT !.unresolved = u]
                 /\ named # NoFlavor => u = named
    BY <2>2 DEF RouteOf, ResolveFlavor
  <2>. QED  BY <2>1, <2>2, <2>3
<1>3. ApplySignalUpgrade(catalog, chosen, text.docker) = chosen
  BY <1>1 DEF ApplySignalUpgrade
<1>4. CASE gone # {}
  <2>1. named # NoFlavor
    <3> DEFINE lost == {l \in LabelSet(labels) :
                          /\ IsCustomFlavorLabel(l)
                          /\ \A f \in catalog : f.label # l
                          /\ ~(l \in DOMAIN map /\ InCatalog(catalog, map[l]))}
    <3>1. named = IF lost # {} THEN CHOOSE l \in lost : TRUE ELSE CHOOSE n \in gone : TRUE
      BY <1>4 DEF UnresolvedNamedCustom
    <3>2. \A l \in lost : l # NoFlavor
      BY AbsenceAssumption DEF IsCustomFlavorLabel
    <3>3. \A n \in gone : n # NoFlavor
      BY AbsenceAssumption DEF IsCustomFlavorName
    <3> HIDE DEF lost, gone, named
    <3>. QED  BY <1>4, <3>1, <3>2, <3>3
  <2>2. route.unresolved # NoFlavor
    BY <1>2, <2>1
  <2>. QED  BY <2>2 DEF CustomRouteSkip, NoSkip
<1>5. CASE gone = {}
  <2> DEFINE hits == {i \in DOMAIN labels :
                        labels[i] \in DOMAIN map /\ InCatalog(catalog, map[labels[i]])}
  <2>1. hits # {}
    <3>1. PICK i \in DOMAIN labels : labels[i] \in DOMAIN map
      BY <1>1 DEF LabelSet
    <3>2. labels[i] \in LabelSet(labels) \intersect DOMAIN map
      BY <3>1 DEF LabelSet
    <3>3. map[labels[i]] \in absent
      BY <3>2
    <3>4. InCatalog(catalog, map[labels[i]])
      BY <1>1, <1>5, <3>2, <3>3
    <3>. QED  BY <3>1, <3>4
  <2>2. hits \in SUBSET Nat /\ IsFiniteSet(hits)
    <3>1. DOMAIN labels \in SUBSET Nat /\ IsFiniteSet(DOMAIN labels)
      BY LabelsFinite DEF IsText
    <3>2. hits \in SUBSET DOMAIN labels
      OBVIOUS
    <3>. QED  BY <3>1, <3>2, FS_Subset
  <2>3. first = {i \in hits : \A j \in hits : i <= j}
    BY DEF FirstMapHit
  <2>4. first # {} /\ first \subseteq hits
    <3> HIDE DEF hits, first
    <3>1. PICK i \in hits : \A j \in hits : i <= j
      BY <2>1, <2>2, FirstOf
    <3>. QED  BY <2>3, <3>1
  <2>5. chosen.flavor = map[labels[CHOOSE i \in first : TRUE]]
    BY <2>4 DEF SelectFlavor, Resolution
  <2>6. \A i \in first : IsCustomFlavorName(map[labels[i]])
    <3>1. \A i \in hits : labels[i] \in LabelSet(labels) \intersect DOMAIN map
      BY DEF LabelSet
    <3> HIDE DEF hits, first
    <3>. QED  BY <1>1, <2>4, <3>1
  <2>7. IsCustomFlavorName(chosen.flavor)
    <3> HIDE DEF first, chosen
    <3>. QED  BY <2>4, <2>5, <2>6
  <2>8. IsCustomFlavorName(route.flavor)
    BY <1>2, <1>3, <2>7
  <2>. QED  BY <2>8 DEF CustomRouteSkip, NoSkip
<1>. QED  BY <1>4, <1>5

Keeping == scope.may \intersect Remapping = {}

LEMMA KeepingLacks ==
  ASSUME Keeping
  PROVE  /\ BranchStays
         /\ ~Spend("map") /\ ~Spend("fault") /\ ~Spend("push") /\ ~Spend("merge")
         /\ ~Spend("edit")
BY DEF Keeping, Remapping, BranchStays, Spend, Can

LEMMA MapStays ==
  ASSUME Keeping, RepoInv, RepoInv', Next \/ UNCHANGED vars
  PROVE  Seen(repo').map = Seen(repo).map
<1>1. \A row \in Rows : Seen(row) = row
  BY AbsenceAssumption DEF Seen
<1>2. Seen(repo) \in Rows
  BY SeenType DEF RepoInv
<1>3. ASSUME repo # None, repo' \in Rows, repo'.map = repo.map
      PROVE  Seen(repo').map = Seen(repo).map
  BY <1>1, <1>3 DEF RepoInv
<1>4. CASE repo' = repo
  BY <1>4
<1>5. ASSUME NEW patch \in Patches, PatchRepo(patch) PROVE Seen(repo').map = Seen(repo).map
  <2>1. repo # None /\ repo \in Rows /\ repo' \in Rows /\ repo' = Patched(repo, patch[1], patch[2])
    BY <1>5, PatchKeeps DEF PatchRepo
  <2>2. patch[1] \in {"enabled", "mode", "dflt", "rewrite"}
    BY DEF Patches
  <2>3. repo'.map = repo.map
    BY <2>1, <2>2 DEF Patched, Rows
  <2>. QED  BY <1>3, <2>1, <2>3
<1>6. ASSUME NEW created, RepoGranted(created) PROVE Seen(repo').map = Seen(repo).map
  <2>1. repo' = [Seen(repo) EXCEPT !.enabled = TRUE]
    BY <1>6 DEF RepoGranted, EnableRepo
  <2>2. repo' \in Rows /\ repo'.map = Seen(repo).map
    BY <1>2, <2>1 DEF Rows
  <2>. QED  BY <1>1, <2>2
<1>7. CASE RepoWithdrawn
  <2>1. CASE repo = None
    BY <1>4, <1>7, <2>1 DEF RepoWithdrawn
  <2>2. CASE repo # None
    <3>1. repo \in Rows /\ repo' = [repo EXCEPT !.enabled = FALSE]
      BY <1>7, <2>2 DEF RepoWithdrawn, RepoInv
    <3>2. repo' \in Rows /\ repo'.map = repo.map
      BY <3>1 DEF Rows
    <3>. QED  BY <1>3, <2>2, <3>2
  <2>. QED  BY <2>1, <2>2
<1>8. \A map : ~PutFlavorMap(map)
  BY KeepingLacks DEF PutFlavorMap
<1>9. CASE ConfigNext
  BY <1>4, <1>5, <1>6, <1>7, <1>8, <1>9
     DEF ConfigNext, SetRunnerLabels, AllowlistExpires, SetInstallationFlags
<1>. QED
  BY <1>4, <1>9, RegistryFrame, DiscoveryFrame, ClaimFrame, RoutingFrame, RewriteFrame,
     DoorFrame DEF Next, vars, repoVars

(* A scan works from the row of the repository, and finds what is there.   *)
LEMMA ScanRows ==
  ASSUME ScanInv, Keeping, NEW s \in Scans, ScanStops(s),
         \/ \E receives \in 0 .. MaxReceive - 1 : ScanBegin(s, receives)
         \/ \E p \in Paths : ScanFile(s, p)
         \/ ScanPut(s) \/ ScanEmpty(s) \/ ScanFails(s)
  PROVE  /\ scan'[s].phase # "idle" => scan'[s].row.map = Seen(repo).map
         /\ scan'[s].phase = "put" =>
              \E p \in Paths : \E row, known :
                /\ tree[p] # None /\ row.map = Seen(repo).map
                /\ scan'[s].found = Analyze(tree[p], row, known)
<1>1. /\ DOMAIN scan = Scans
      /\ DOMAIN scan[s] = {"phase", "row", "todo", "custom", "path", "found", "receives"}
  BY DEF ScanInv, IdleScan
<1>2. CASE scan'[s].phase = "idle"
  BY <1>2
<1>3. CASE ScanThrows(s)
  BY <1>1, <1>2, <1>3 DEF ScanThrows, IdleScan
<1>4. ASSUME NEW receives \in 0 .. MaxReceive - 1, ScanBegin(s, receives)
      PROVE  scan'[s].phase = "files" /\ scan'[s].row = Seen(repo)
  <2>1. PICK row \in {repo, Fault} :
          /\ Reads(repo, row)
          /\ scan' = [scan EXCEPT ![s] =
               [IdleScan EXCEPT !.phase = "files", !.row = Seen(row), !.receives = receives + 1,
                                !.todo = {p \in Paths : tree[p] # None}]]
    BY <1>4 DEF ScanBegin
  <2>2. row = repo
    BY <2>1, KeepingLacks DEF Reads
  <2>. QED  BY <1>1, <2>1, <2>2 DEF IdleScan
<1>5. ASSUME NEW p \in Paths, ScanFile(s, p), ~ScanThrows(s)
      PROVE  /\ scan'[s].row = scan[s].row /\ scan[s].phase = "files"
             /\ \E known : tree[p] # None
                            /\ scan'[s].found = Analyze(tree[p], scan[s].row, known)
  <2>1. PICK custom, known :
          /\ tree[p] # None
          /\ scan' = [scan EXCEPT ![s] =
               [scan[s] EXCEPT !.phase = "put", !.path = p, !.custom = custom,
                               !.found = Analyze(tree[p], scan[s].row, known)]]
    <3>1. /\ tree[p] # None
          /\ \E custom, known :
               scan' = [scan EXCEPT ![s] =
                 [scan[s] EXCEPT !.phase = "put", !.path = p, !.custom = custom,
                                 !.found = Analyze(tree[p], scan[s].row, known)]]
      BY <1>5, ScanFileFinds
    <3>. QED  BY <3>1
  <2>2. scan'[s].row = scan[s].row /\ scan'[s].found = Analyze(tree[p], scan[s].row, known)
    BY <1>1, <2>1
  <2>. QED  BY <1>5, <2>1, <2>2 DEF ScanFile
<1>6. ASSUME ScanPut(s)
      PROVE  \/ scan'[s].phase = "idle"
             \/ /\ scan'[s].phase = "files" /\ scan[s].phase = "put"
                /\ scan'[s].row = scan[s].row
  BY <1>1, <1>6 DEF ScanPut, IdleScan
<1>7. ScanEmpty(s) => scan'[s].phase = "idle"
  BY <1>1 DEF ScanEmpty, IdleScan
<1>. QED  BY <1>2, <1>3, <1>4, <1>5, <1>6, <1>7 DEF ScanFails, ScanStops

(* What is found of a text stops the planner if the map is that of its row.*)
LEMMA FoundStops ==
  ASSUME NEW text, IsText(text), NEW row, row.map = Seen(repo).map, NEW known
  PROVE  RouteStops(Analyze(text, row, known))
<1> SUFFICES ASSUME text.shape # "broken", MappedNow(text)
             PROVE  CustomRouteSkip(RouteOf(text, row, known)) # NoSkip
  BY DEF RouteStops, Analyze
<1>. QED  BY MappedRoute DEF MappedNow

(* The part of KeepInv that the scans keep.                                *)
LEMMA RoutesKeep ==
  ASSUME Keeping, KeepInv, WorldTexts, ScanTexts, IInv, RepoInv', Next \/ UNCHANGED vars
  PROVE  (\A p \in Paths : RouteStops(analysis[p])') /\ (\A s \in Scans : ScanStops(s)')
<1>1. /\ ScanInv /\ RepoInv /\ DOMAIN analysis = Paths
      /\ \A s \in Scans : scan[s].phase = "put" => scan[s].path \in Paths
      /\ \A p \in Paths : RouteStops(analysis[p])
      /\ \A s \in Scans : ScanStops(s)
  BY DEF IInv, KeepInv, Keeping, ScanTexts
<1>2. Seen(repo').map = Seen(repo).map
  BY <1>1, MapStays
<1>3. \A found, later : found = later /\ RouteStops(found) =>
        (later.parsed /\ MappedToCustom(later.text, Seen(repo').map)
           => CustomRouteSkip(later.route) # NoSkip)
  BY <1>2 DEF RouteStops, MappedNow
<1>4. CASE UNCHANGED <<scan, analysis>>
  BY <1>1, <1>2, <1>4 DEF ScanStops, RouteStops, MappedNow
<1>5. ASSUME NEW s \in Scans,
             \/ \E receives \in 0 .. MaxReceive - 1 : ScanBegin(s, receives)
             \/ \E p \in Paths : ScanFile(s, p)
             \/ ScanPut(s) \/ ScanEmpty(s) \/ ScanFails(s)
      PROVE  (\A p \in Paths : RouteStops(analysis[p])') /\ (\A t \in Scans : ScanStops(t)')
  <2>1. ScanDoes(s)
    BY <1>1, <1>5, ScanSteps
  <2>2. /\ scan'[s].phase # "idle" => scan'[s].row.map = Seen(repo).map
        /\ scan'[s].phase = "put" =>
             \E p \in Paths : \E row, known :
               /\ tree[p] # None /\ row.map = Seen(repo).map
               /\ scan'[s].found = Analyze(tree[p], row, known)
    BY <1>1, <1>5, ScanRows
  <2>3. scan'[s].phase = "put" => RouteStops(scan'[s].found)
    <3> SUFFICES ASSUME scan'[s].phase = "put" PROVE RouteStops(scan'[s].found)
      OBVIOUS
    <3>1. PICK p \in Paths : \E row, known :
            /\ tree[p] # None /\ row.map = Seen(repo).map
            /\ scan'[s].found = Analyze(tree[p], row, known)
      BY <2>2
    <3>2. PICK row, known : /\ tree[p] # None /\ row.map = Seen(repo).map
                            /\ scan'[s].found = Analyze(tree[p], row, known)
      BY <3>1
    <3>3. IsText(tree[p])
      BY <3>2 DEF WorldTexts
    <3>. QED  BY <3>2, <3>3, FoundStops
  <2>4. ScanStops(s)'
    BY <1>2, <2>2, <2>3 DEF ScanStops, RouteStops, MappedNow
  <2>5. \A t \in Scans \ {s} : ScanStops(t)'
    BY <1>1, <1>2, <2>1 DEF ScanDoes, ScanStops, RouteStops, MappedNow
  <2>6. \A p \in Paths : RouteStops(analysis'[p])
    <3>1. CASE analysis' = analysis
      BY <1>1, <3>1
    <3>2. CASE /\ scan[s].phase = "put"
               /\ analysis' = [analysis EXCEPT ![scan[s].path] = scan[s].found]
      BY <1>1, <3>2 DEF ScanStops
    <3>. QED  BY <2>1, <3>1, <3>2 DEF ScanDoes
  <2>7. \A p \in Paths : RouteStops(analysis[p])'
    BY <1>2, <2>6 DEF RouteStops, MappedNow
  <2>. QED  BY <2>4, <2>5, <2>7
<1>6. CASE DiscoveryNext
  BY <1>4, <1>5, <1>6 DEF DiscoveryNext, Push, RescanRepo
<1>. QED
  BY <1>4, <1>6, RegistryFrame, ConfigFrame, ClaimFrame, RoutingFrame, RewriteFrame, DoorFrame
     DEF Next, scanVars, vars

(* The candidates of the analyses are stopped where they have to be.       *)
LEMMA TargetsStop ==
  ASSUME Keeping, KeepInv, MirrorInv, NEW t \in RewriteTargets,
         tree[t.path] # None, MappedNow(tree[t.path])
  PROVE  t.target.skip # NoSkip
<1>1. PICK p \in Paths : /\ t = [path |-> p, target |-> TargetOf(analysis[p].route)]
                         /\ analysis[p].parsed
  BY DEF RewriteTargets
<1>2. analysis[p].text = tree[p]
  BY <1>1, KeepingLacks DEF MirrorInv, Mirrors, Unscanned
<1>3. CustomRouteSkip(analysis[p].route) # NoSkip
  BY <1>1, <1>2 DEF KeepInv, Keeping, RouteStops
<1>. QED  BY <1>1, <1>3 DEF TargetOf

(* A text that the planner edits was not mapped.                           *)
LEMMA EditedUnmapped ==
  ASSUME NEW text, NEW target, text # None,
         PlanRefusal(text, target) = NoSkip, MappedNow(text) => target.skip # NoSkip \/ Rewritten(text)
  PROVE  ~MappedNow(text)
<1>1. target.skip = NoSkip /\ ~Rewritten(text)
  BY DEF PlanRefusal, NoSkip, Rewritten
<1>. QED  BY <1>1

(* What it makes of a text targets this platform.                          *)
LEMMA PlanIsRewritten ==
  ASSUME NEW plan, PlanIsRewrite(plan), IsText(plan.text)
  PROVE  Rewritten(plan.next)
<1>1. PICK lca \in BuiltinLabels :
        /\ plan.next = [plan.text EXCEPT !.labels = RewriteRunsOnValue(@, lca)]
        /\ RunsOnRefusal(plan.text.shape, LabelSet(plan.text.labels)) = NoSkip
  BY DEF PlanIsRewrite
<1>2. plan.text.shape = "inline"
  BY <1>1 DEF RunsOnRefusal, NoSkip, IsText, Shapes
<1>3. plan.next.shape = "inline"
  BY <1>1, <1>2
<1>4. plan.next.labels = RewriteRunsOnValue(plan.text.labels, lca)
  BY <1>1 DEF IsText
<1>5. lca \in LabelSet(plan.next.labels)
  BY <1>4, RewrittenSet DEF IsText, RewrittenLabels
<1>6. AlreadyTargetsLca(LabelSet(plan.next.labels))
  BY <1>5 DEF AlreadyTargetsLca
<1>. QED  BY <1>3, <1>6 DEF Rewritten

LEMMA PlansKeep ==
  ASSUME Keeping, KeepInv, WorldTexts, CauseInv, MirrorInv, IInv, RepoInv',
         Next \/ UNCHANGED vars
  PROVE  PlansStop' /\ BranchRewritten'
<1>1. RewriteInv /\ RepoInv /\ PlansStop /\ BranchRewritten
  BY DEF IInv, KeepInv, Keeping
<1>2. tree' = tree /\ Seen(repo').map = Seen(repo).map
  BY <1>1, KeepingLacks, TreeStays, MapStays
<1>3. ASSUME rewriter'.todo \subseteq rewriter.todo, rewriter'.plans \subseteq rewriter.plans
      PROVE  PlansStop'
  BY <1>1, <1>2, <1>3 DEF PlansStop, MappedNow
<1>4. branch' \in {branch, NoBranch} => BranchRewritten'
  BY <1>1, <1>2 DEF BranchRewritten
<1>5. ASSUME NEW next, Proceed(next) \/ Answer(next),
             next.todo \subseteq rewriter.todo, next.plans \subseteq rewriter.plans
      PROVE  PlansStop'
  BY <1>3, <1>5 DEF Proceed, Answer, Throw, IdleRewriter
<1>6. Throw \/ Ack => PlansStop'
  BY <1>3 DEF Throw, Ack, IdleRewriter
<1>7. rewriter' = rewriter => PlansStop'
  BY <1>3
<1>8. CASE RequestRewrite \/ ClosePullRequest \/ DeleteBranch \/ RewriteFails
  BY <1>4, <1>6, <1>7, <1>8
     DEF RequestRewrite, ClosePullRequest, DeleteBranch, RewriteFails, githubVars, rewriteVars
<1>9. ASSUME NEW receives \in 0 .. MaxReceive - 1, RewriteBegin(receives)
      PROVE  PlansStop' /\ BranchRewritten'
  <2>1. \/ rewriter' = rewriter
        \/ rewriter'.todo = {} /\ rewriter'.plans = {}
    <3>1. \/ rewriter' = rewriter \/ rewriter' = IdleRewriter
          \/ rewriter' = [IdleRewriter EXCEPT !.phase = "probe", !.receives = receives + 1]
      BY <1>9 DEF RewriteBegin
    <3>2. /\ [IdleRewriter EXCEPT !.phase = "probe", !.receives = receives + 1].todo = {}
          /\ [IdleRewriter EXCEPT !.phase = "probe", !.receives = receives + 1].plans = {}
      BY DEF IdleRewriter
    <3>3. IdleRewriter.todo = {} /\ IdleRewriter.plans = {}
      BY DEF IdleRewriter
    <3>. QED  BY <3>1, <3>2, <3>3
  <2>2. branch' = branch
    BY <1>9 DEF RewriteBegin, githubVars
  <2>. QED  BY <1>3, <1>4, <2>1, <2>2
<1>10. CASE RewriteProbe
  <2>1. rewriter'.todo = RewriteTargets /\ rewriter'.plans = rewriter.plans /\ branch' = branch
    BY <1>1, <1>10, RewriterFields DEF RewriteProbe, Proceed, githubVars
  <2>2. \A t \in RewriteTargets :
          tree[t.path] # None /\ MappedNow(tree[t.path]) => t.target.skip # NoSkip
    BY TargetsStop
  <2>3. PlansStop'
    BY <1>1, <1>2, <2>1, <2>2 DEF PlansStop, MappedNow
  <2>. QED  BY <1>4, <2>1, <2>3
<1>11. ASSUME NEW t \in rewriter.todo, RewriteRead(t) PROVE PlansStop' /\ BranchRewritten'
  <2> DEFINE files == IF ~rewriter.existing THEN tree
                      ELSE IF branch = NoBranch THEN [p \in Paths |-> None] ELSE branch.files
             text == files[t.path]
             plan == [path |-> t.path, text |-> text, next |-> PlanFileRewrite(text, t.target)]
             edits == text # None /\ PlanRefusal(text, t.target) = NoSkip
             plans == IF edits THEN rewriter.plans \union {plan} ELSE rewriter.plans
  <2>1. t.path \in Paths
    BY <1>11 DEF RewriteRead, CauseInv, OnePlanEach
  <2>2. text # None => text = tree[t.path] \/ Rewritten(text)
    BY <1>1, <2>1 DEF BranchRewritten
  <2>3. plan.text = text
    OBVIOUS
  <2>4. rewriter'.plans = plans /\ rewriter'.todo \subseteq rewriter.todo /\ branch' = branch
    BY <1>1, <1>11, RewriterFields DEF RewriteRead, Proceed, githubVars
  <2> HIDE DEF files, text
  <2>5. edits => ~MappedNow(text)
    <3>1. text # None /\ MappedNow(text) => t.target.skip # NoSkip \/ Rewritten(text)
      BY <1>1, <2>2 DEF PlansStop
    <3>. QED  BY <3>1, EditedUnmapped
  <2> HIDE DEF plan, edits
  <2>6. \A a \in plans : ~MappedNow(a.text)
    BY <1>1, <2>3, <2>5 DEF PlansStop
  <2>7. PlansStop'
    BY <1>1, <1>2, <2>4, <2>6 DEF PlansStop, MappedNow
  <2>. QED  BY <1>4, <2>4, <2>7
<1>12. CASE RewritePlanned \/ PutsDone \/ FindOpenPullRequest
  <2>1. Ack \/ \E phase : Proceed([rewriter EXCEPT !.phase = phase])
    BY <1>12 DEF RewritePlanned, PutsDone, FindOpenPullRequest
  <2>2. ASSUME NEW phase, Proceed([rewriter EXCEPT !.phase = phase]) PROVE PlansStop'
    <3>1. rewriter'.todo = rewriter.todo /\ rewriter'.plans = rewriter.plans
      BY <1>1, <2>2, PhaseMoves
    <3>. QED  BY <1>3, <3>1
  <2>3. branch' = branch
    BY <1>12 DEF RewritePlanned, PutsDone, FindOpenPullRequest, githubVars
  <2>. QED  BY <1>4, <1>6, <2>1, <2>2, <2>3
<1>13. CASE EnsureBranch
  <2> DEFINE next == [rewriter EXCEPT !.phase = "put", !.edits = TRUE]
  <2>1. next.todo = rewriter.todo /\ next.plans = rewriter.plans /\ Answer(next)
    BY <1>1, <1>13, RewriterFields DEF EnsureBranch
  <2> HIDE DEF next
  <2>2. PlansStop'
    BY <1>5, <2>1
  <2>3. branch' = branch \/ branch'.files = tree
    BY <1>13 DEF EnsureBranch
  <2>4. branch'.files = tree => BranchRewritten'
    BY <1>2 DEF BranchRewritten
  <2>. QED  BY <1>4, <2>2, <2>3, <2>4
<1>14. ASSUME NEW plan \in rewriter.plans, PutFile(plan) PROVE PlansStop' /\ BranchRewritten'
  <2> DEFINE next == [rewriter EXCEPT !.plans = @ \ {plan}]
  <2>1. CASE branch = NoBranch \/ branch.files[plan.path] # plan.text
    <3>1. Throw /\ branch' = branch
      BY <1>14, <2>1 DEF PutFile
    <3>. QED  BY <1>4, <1>6, <3>1
  <2>2. CASE ~(branch = NoBranch \/ branch.files[plan.path] # plan.text)
    <3>1. next.todo = rewriter.todo /\ next.plans \subseteq rewriter.plans
      BY <1>1, RewriterFields
    <3>2. Answer(next) /\ branch' = Committed(plan.path, plan.next)
      BY <1>14, <2>2 DEF PutFile
    <3> HIDE DEF next
    <3>3. PlansStop'
      BY <1>5, <3>1, <3>2
    <3>4. plan.path \in Paths
      BY <1>14 DEF PutFile, CauseInv, OnePlanEach
    <3>5. PlanIsRewrite(plan)
      BY <1>1 DEF RewriteInv
    <3>6. IsText(plan.text)
      BY <2>2, <3>4, <3>5 DEF WorldTexts, PlanIsRewrite
    <3>7. Rewritten(plan.next)
      BY <3>5, <3>6, PlanIsRewritten
    <3>8. /\ branch'.files[plan.path] = plan.next
          /\ \A q \in Paths \ {plan.path} : branch'.files[q] = branch.files[q]
      BY <1>1, <2>2, <3>2, <3>4, CommittedForm
    <3>9. BranchRewritten'
      BY <1>1, <1>2, <2>2, <3>7, <3>8 DEF BranchRewritten, Rewritten
    <3>. QED  BY <3>3, <3>9
  <2>. QED  BY <2>1, <2>2
<1>15. CASE CreatePullRequest
  <2>1. branch' = branch /\ rewriter'.todo = {} /\ rewriter'.plans = {}
    BY <1>15 DEF CreatePullRequest, Answer, Proceed, Ack, Throw, IdleRewriter
  <2>. QED  BY <1>3, <1>4, <2>1
<1>16. ~MergePullRequest /\ \A p, text : ~EditBranch(p, text)
  BY KeepingLacks DEF MergePullRequest, EditBranch
<1>17. CASE UNCHANGED <<branch, rewriter>>
  BY <1>4, <1>7, <1>17
<1>18. CASE RewriteNext
  BY <1>8, <1>9, <1>10, <1>11, <1>12, <1>13, <1>14, <1>15, <1>16, <1>18 DEF RewriteNext
<1>. QED
  BY <1>17, <1>18, RegistryFrame, ConfigFrame, DiscoveryFrame, ClaimFrame, RoutingFrame,
     DoorFrame DEF Next, githubVars, rewriteVars, vars

LEMMA KeepKept ==
  ASSUME KeepInv, WorldTexts, ScanTexts, CauseInv, MirrorInv, IInv, IInv', Next \/ UNCHANGED vars
  PROVE  KeepInv'
<1>1. scope'.may = scope.may /\ RepoInv'
  BY ScopeKept DEF IInv
<1>2. Keeping => KeepInv'
  BY <1>1, RoutesKeep, PlansKeep DEF KeepInv
<1>. QED  BY <1>1, <1>2 DEF KeepInv, Keeping

LEMMA InitKeep == Init => KeepInv
<1> SUFFICES ASSUME Init PROVE KeepInv
  OBVIOUS
<1>1. PICK s \in Scenarios : Starts(s)
  BY DEF Init
<1>2. /\ repo = s.row /\ tree = s.tree
      /\ analysis = [p \in Paths |-> IF s.row = None \/ s.tree[p] = None THEN Unscanned
                                     ELSE Analyze(s.tree[p], s.row, RoutableCustomFlavors)]
  BY <1>1 DEF Starts
<1>3. \A p \in Paths : RouteStops(analysis[p])
  <2> SUFFICES ASSUME NEW p \in Paths PROVE RouteStops(analysis[p])
    OBVIOUS
  <2>1. CASE s.row = None \/ s.tree[p] = None
    BY <1>2, <2>1 DEF RouteStops, Unscanned
  <2>2. CASE ~(s.row = None \/ s.tree[p] = None)
    <3>1. Seen(repo) = s.row
      BY <1>2, <2>2, ScenarioAssumption, SeenType
    <3>2. IsText(s.tree[p])
      BY <1>1, <2>2, TextAssumption DEF Texts, IsText
    <3>3. RouteStops(Analyze(s.tree[p], s.row, RoutableCustomFlavors))
      BY <3>1, <3>2, FoundStops
    <3>. QED  BY <1>2, <2>2, <3>3
  <2>. QED  BY <2>1, <2>2
<1>4. \A q \in Scans : ScanStops(q)
  BY DEF Init, IdleScan, ScanStops
<1>5. PlansStop /\ BranchRewritten
  BY DEF Init, PlansStop, BranchRewritten, IdleRewriter
<1>. QED  BY <1>3, <1>4, <1>5 DEF KeepInv

KeepsStep ==
  \A p \in Paths :
    Commits(p) /\ scope.may \intersect Remapping = {} =>
      ~MappedToCustom(branch.files[p], Seen(repo).map)

LEMMA KeepsHeld ==
  ASSUME KeepInv, RewriteInv, Next \/ UNCHANGED vars
  PROVE  KeepsStep
<1> SUFFICES ASSUME NEW p \in Paths, Commits(p), Keeping PROVE ~MappedNow(branch.files[p])
  BY DEF KeepsStep, Keeping, MappedNow
<1>1. PICK plan \in rewriter.plans : branch.files[p] = plan.text
  BY CommitOfPlan
<1>2. ~MappedNow(plan.text)
  BY DEF KeepInv, Keeping, PlansStop
<1>. QED  BY <1>1, <1>2

(* No commit takes the labels of a job that the FlavorMap sends to a       *)
(* custom flavor, in whatever order registrations, deletions, scans and    *)
(* rewrites come, while the map and the files stay as they are.            *)
THEOREM MappedKept == Spec => KeepsMappedLabel
<1> DEFINE Held == CauseInv /\ WorldTexts /\ ScanTexts /\ MirrorInv /\ KeepInv
<1>1. Init => Held
  <2>1. Init => CauseInv
    BY DEF Init, CauseInv, IdleRewriter
  <2>. QED  BY <2>1, InitRefusal, InitKeep
<1>2. IInv /\ IInv' /\ Held /\ [Next]_vars => Held' /\ [KeepsStep]_vars
  <2> SUFFICES ASSUME IInv, IInv', CauseInv, WorldTexts, ScanTexts, MirrorInv, KeepInv,
                      Next \/ UNCHANGED vars
               PROVE  Held' /\ KeepsStep
    OBVIOUS
  <2>1. RewriteInv
    BY DEF IInv
  <2>. QED
    BY <2>1, CauseKept, WorldTextsKept, ScanTextsKept, MirrorKept, KeepKept, KeepsHeld
<1>. QED  BY <1>1, <1>2, ControlInvariant, PTL DEF Spec, KeepsMappedLabel, KeepsStep

=============================================================================
