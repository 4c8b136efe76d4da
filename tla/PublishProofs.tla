--------------------------- MODULE PublishProofs ----------------------------
(***************************************************************************)
(* What publishing keeps, for every catalog, any number of operators and   *)
(* any faults: an ARN and a label only ever follow a built image, a label  *)
(* survives writers that take turns, and an unforced build meets no VM     *)
(* from before its fleet check.  Facts about the readiness rules come      *)
(* first.                                                                  *)
(***************************************************************************)
EXTENDS ImagePublish, TLAPS

(* Inductive with TypeOK: a build past its poll has a built image, past    *)
(* its parameter a published one, and its copy of the list is covered.     *)
CopyCovered(b) == (build[b].copy \ past.byHand) \cap Flavors \subseteq arn

BuildCovered(b) ==
  /\ build[b].phase = "publish" => Cur(b) \in past.built
  /\ build[b].phase \in {"probe", "list", "write"} => Cur(b) \in arn
  /\ build[b].phase = "write" => CopyCovered(b)

PlaneCovered ==
  /\ arn \subseteq past.built
  /\ \A f \in Flavors : image[f] \in UsableImageStates => f \in past.built
  /\ labels # None => (labels \ past.byHand) \cap Flavors \subseteq arn

PublishInv == PlaneCovered /\ \A b \in Scripts : BuildCovered(b)

(* The part of OldVmsAreGone that is about one script.                     *)
FleetIsNew(b) ==
  build[b].phase \notin Ended \union {"fleet"} /\ ~build[b].force /\ ~build[b].only
    => \A f \in Flavors : vm[f] # None => b \in vm[f].after

IInv == TypeOK /\ PublishInv /\ ClaimsSurvive /\ OldVmsAreGone

-----------------------------------------------------------------------------
(* The reconciler claims a label on its own only for an image it has seen  *)
(* usable, and never builds over one that is being built (safeFix).        *)
THEOREM FixIsSafe ==
  ASSUME NEW obs,
         obs \in [arn : BOOLEAN, state : ImageStates \union {Absent, Unread},
                  claimed : Claimed \union {Unread}]
  PROVE  /\ SafeFix(obs) = "add-label" =>
              obs.arn /\ obs.state \in UsableImageStates /\ obs.claimed = "no"
         /\ SafeFix(obs) = "build" => ~(obs.arn /\ obs.state \in PendingImageStates \union
                                                              UsableImageStates)
         /\ SafeFix(obs) = "build" <=> Severity(HealthOf(obs)) = "blocked"
         /\ HealthOf(obs) = "ok" =>
              obs.arn /\ obs.state \in UsableImageStates /\ obs.claimed = "yes"
  BY DEF SafeFix, HealthOf, Severity, MayClaimLabel, Usable, ImageStates, UsableImageStates,
         PendingImageStates, FailedImageStates, Absent, Unread, Claimed

(* The console, which never sees the image, calls a flavor ready exactly   *)
(* when the reconciler that has not probed it finds nothing wrong          *)
(* (flavor-readiness.ts against flavor-reconcile.ts).                      *)
THEOREM ConsoleAgrees ==
  ASSUME NEW listed \in BOOLEAN, NEW published \in BOOLEAN
  PROVE  ReadinessOf(listed, published) = "ready" <=>
         Severity(HealthOf([arn |-> published, state |-> IF published THEN Unread ELSE Absent,
                            claimed |-> IF listed THEN "yes" ELSE "no"])) = "ok"
  BY DEF ReadinessOf, HealthOf, Severity, Usable, UsableImageStates, PendingImageStates,
         FailedImageStates, Absent, Unread

-----------------------------------------------------------------------------
LEMMA CurTyped ==
  ASSUME TypeOK, NEW b \in Scripts, build[b].phase \notin Ended
  PROVE  Cur(b) \in Flavors /\ Tail(build[b].todo) \in Seq(Flavors)
<1>1. build[b].todo \in Seq(Flavors) /\ build[b].todo # << >>
  BY DEF TypeOK, BuildTyped, Builds
<1>. QED  BY <1>1 DEF Cur

LEMMA WentOn ==
  ASSUME TypeOK, NEW b \in Scripts, NEW phase \in BuildPhases \ {"write"}, Goes(b, phase),
         phase \notin Ended => build[b].todo # << >>
  PROVE  /\ DOMAIN build' = Scripts /\ \A c \in Scripts : BuildTyped(c)'
         /\ build' = [build EXCEPT ![b].phase = phase]
<1>1. build[b] \in Builds
  BY DEF TypeOK, BuildTyped
<1>2. [build[b] EXCEPT !.phase = phase] \in Builds
  BY <1>1 DEF Builds
<1>3. build' = [build EXCEPT ![b] = [build[b] EXCEPT !.phase = phase]]
  BY DEF Goes
<1> DEFINE next == [build[b] EXCEPT !.phase = phase]
<1>4. next.phase = phase /\ next.todo = build[b].todo
  BY <1>1 DEF Builds
<1>5. build' = [build EXCEPT ![b] = next] /\ next \in Builds
  BY <1>2, <1>3
<1> HIDE DEF next
<1>6. DOMAIN build' = Scripts /\ build'[b] = next /\ \A c \in Scripts : c # b => build'[c] = build[c]
  BY <1>5 DEF TypeOK
<1>. QED  BY <1>4, <1>5, <1>6 DEF TypeOK, BuildTyped, Goes

LEMMA WentToNext ==
  ASSUME TypeOK, NEW b \in Scripts, build[b].phase \notin Ended, NextFlavor(b)
  PROVE  /\ DOMAIN build' = Scripts /\ \A c \in Scripts : BuildTyped(c)'
         /\ \A c \in Scripts : c # b => build'[c] = build[c]
         /\ build'[b].phase \in {"done", "look"}
         /\ build'[b].force = build[b].force /\ build'[b].only = build[b].only
<1> DEFINE rest  == Tail(build[b].todo)
           phase == IF rest = << >> THEN "done" ELSE "look"
           next  == [build[b] EXCEPT !.todo = rest, !.copy = None, !.phase = phase]
<1>1. build[b] \in Builds /\ rest \in Seq(Flavors)
  BY CurTyped DEF TypeOK, BuildTyped
<1>2. next \in Builds
  <2>1. phase \in BuildPhases
    BY DEF BuildPhases, Ended
  <2>2. None \in Copies
    BY DEF Copies
  <2> HIDE DEF phase, rest
  <2>3. next = [build[b] EXCEPT !.todo = rest, !.copy = None, !.phase = phase]
    OBVIOUS
  <2>. QED  BY <1>1, <2>1, <2>2 DEF Builds
<1>3. build' = [build EXCEPT ![b] = next]
  BY DEF NextFlavor
<1>4. next.phase = IF rest = << >> THEN "done" ELSE "look"
  BY <1>1 DEF Builds
<1>5. next.todo = rest /\ next.force = build[b].force /\ next.only = build[b].only
  BY <1>1 DEF Builds
<1> HIDE DEF next
<1>6. build'[b] = next /\ \A c \in Scripts : c # b => build'[c] = build[c]
  BY <1>3 DEF TypeOK
<1>. QED  BY <1>2, <1>3, <1>4, <1>5, <1>6 DEF TypeOK, BuildTyped, Ended

LEMMA StartTyped ==
  ASSUME NEW todo \in Seq(Flavors) \ {<< >>}, NEW force \in BOOLEAN, NEW skip \in BOOLEAN,
         NEW only \in BOOLEAN
  PROVE  /\ Started(todo, force, skip, only) \in Builds
         /\ Started(todo, force, skip, only).todo = todo
         /\ Started(todo, force, skip, only).phase \in {"fleet", "published"}
         /\ Started(todo, force, skip, only).force = force
         /\ Started(todo, force, skip, only).only = only
         /\ Started(todo, force, skip, only).phase = "published" => only
<1> DEFINE phase == IF only THEN "published" ELSE "fleet"
<1>1. phase \in BuildPhases /\ phase \in {"fleet", "published"} /\ (phase = "published" => only)
  BY DEF BuildPhases, Ended
<1>2. Started(todo, force, skip, only) =
        [phase |-> phase, todo |-> todo, force |-> force, skip |-> skip, only |-> only,
         copy |-> None]
  BY DEF Started
<1>3. None \in Copies
  BY DEF Copies
<1> HIDE DEF phase
<1>. QED  BY <1>1, <1>2, <1>3 DEF Builds

LEMMA Constants ==
  /\ Catalog \in Seq(Flavors) \ {<< >>} /\ Child \in Scripts /\ Builders \subseteq Scripts
  /\ Flavors \subseteq Labels
  /\ \A list \in SUBSET Labels : list # None
  BY PublishAssumption DEF Scripts, Labels

LEMMA ExitsTyped ==
  ASSUME TypeOK, NEW code, Exits(code)
  PROVE  /\ DOMAIN fixer' = DOMAIN IdleFixer
         /\ fixer'.todo \subseteq Flavors /\ fixer'.left \subseteq Flavors
  BY DEF TypeOK, Exits, FixerGoes, IdleFixer

(* The fixer is no party to anything but the scripts it starts.            *)
LEMMA FixerTodo ==
  ASSUME TypeOK, FixerStep
  PROVE  /\ DOMAIN fixer' = DOMAIN IdleFixer
         /\ fixer'.todo \subseteq Flavors /\ fixer'.left \subseteq Flavors
         /\ UNCHANGED <<image, arn, labels, past, vm, screen>>
         /\ \/ build' = build
            \/ \E f \in Flavors, only \in BOOLEAN :
                 /\ build' = [build EXCEPT ![Child] = Started(<<f>>, FALSE, FALSE, only)]
<1> USE DEF TypeOK, FixerGoes, IdleFixer
<1>1. CASE StartReconcile
  BY <1>1 DEF StartReconcile, IdleFixer
<1>2. CASE ObserveLabels
  BY <1>2, ExitsTyped DEF ObserveLabels, Exits
<1>3. CASE ObserveArns
  BY <1>3, ExitsTyped DEF ObserveArns, Exits
<1>4. CASE ObserveImage
  <2>1. PICK f \in fixer.left, state \in {Unread} \union {image[g] : g \in Flavors},
             unread \in {TRUE, fixer.unread} :
          fixer' = [fixer EXCEPT !.left = @ \ {f}, !.seen = Probed(f, state), !.unread = unread]
    <3>1. PICK f \in fixer.left :
            \/ fixer' = [fixer EXCEPT !.left = @ \ {f}, !.seen = Probed(f, image[f])]
            \/ fixer' = [fixer EXCEPT !.left = @ \ {f}, !.seen = Probed(f, Unread),
                                       !.unread = TRUE]
      BY <1>4 DEF ObserveImage
    <3>2. CASE fixer' = [fixer EXCEPT !.left = @ \ {f}, !.seen = Probed(f, image[f])]
      <4>1. fixer' = [fixer EXCEPT !.left = @ \ {f}, !.seen = Probed(f, image[f]),
                                   !.unread = fixer.unread]
        BY <3>2
      <4>. QED  BY <4>1
    <3>. QED  BY <3>1, <3>2
  <2>2. UNCHANGED <<image, arn, labels, past, vm, build, screen>>
    BY <1>4 DEF ObserveImage
  <2> HIDE DEF FixerGoes
  <2>3. DOMAIN fixer' = DOMAIN IdleFixer /\ fixer'.todo = fixer.todo
        /\ fixer'.left = fixer.left \ {f}
    BY <2>1
  <2>. QED  BY <2>2, <2>3
<1>5. CASE Decide
  <2>1. UNCHANGED <<image, arn, labels, past, vm, build, screen>>
    BY <1>5 DEF Decide, Exits
  <2>2. CASE \E code \in {2, DriftCode} : Exits(code)
    BY <2>1, <2>2, ExitsTyped
  <2>3. CASE FixerGoes([fixer EXCEPT !.phase = "fleet", !.todo = Fixes])
    BY <2>1, <2>3 DEF Fixes, Actionable
  <2>. QED  BY <1>5, <2>2, <2>3 DEF Decide
<1>6. CASE FixerFleet
  BY <1>6, ExitsTyped DEF FixerFleet, Exits
<1>7. CASE RunFix
  <2>1. CASE fixer.todo = {} /\ AllRun /\ UNCHANGED build
    BY <1>7, <2>1 DEF RunFix, AllRun
  <2>2. CASE \E f \in fixer.todo :
          /\ build' = [build EXCEPT ![Child] =
               Started(<<f>>, FALSE, FALSE, SafeFix(fixer.seen[f]) = "add-label")]
          /\ FixerGoes([fixer EXCEPT !.phase = "wait", !.todo = @ \ {f}])
    <3>1. PICK f \in fixer.todo :
            /\ build' = [build EXCEPT ![Child] =
                 Started(<<f>>, FALSE, FALSE, SafeFix(fixer.seen[f]) = "add-label")]
            /\ FixerGoes([fixer EXCEPT !.phase = "wait", !.todo = @ \ {f}])
      BY <2>2
    <3>2. f \in Flavors /\ (SafeFix(fixer.seen[f]) = "add-label") \in BOOLEAN
      OBVIOUS
    <3>3. UNCHANGED <<image, arn, labels, past, vm, screen>>
      BY <1>7, <3>1 DEF RunFix
    <3>4. /\ DOMAIN fixer' = DOMAIN IdleFixer
          /\ fixer'.todo \subseteq Flavors /\ fixer'.left \subseteq Flavors
      BY <3>1
    <3>. QED  BY <3>1, <3>2, <3>3, <3>4
  <2>. QED  BY <1>7, <2>1, <2>2 DEF RunFix
<1>8. CASE FixEnds
  BY <1>8, ExitsTyped DEF FixEnds, Exits
<1>. QED  BY <1>1, <1>2, <1>3, <1>4, <1>5, <1>6, <1>7, <1>8 DEF FixerStep

(* What one script's step leaves to be shown: the rest keeps its place,    *)
(* since ARNs, built images and hand-set labels only grow in number.       *)
LEMMA OneScript ==
  ASSUME IInv, NEW b \in Scripts,
         DOMAIN build' = Scripts, \A c \in Scripts : BuildTyped(c)',
         \A c \in Scripts : c # b => build'[c] = build[c],
         UNCHANGED <<vm, fixer, screen>>, past.built \subseteq past'.built,
         past.byHand \subseteq past'.byHand, arn \subseteq arn',
         image' \in [Flavors -> ImageStates \union {Absent}], arn' \subseteq Flavors,
         labels' \in Copies,
         past' \in [owed : SUBSET Labels, byHand : SUBSET Labels, built : SUBSET Flavors,
                    raced : BOOLEAN, put : BOOLEAN],
         PlaneCovered', BuildCovered(b)', ClaimsSurvive', FleetIsNew(b)'
  PROVE  IInv'
<1>1. TypeOK'
  BY DEF IInv, TypeOK
<1>2. ASSUME NEW c \in Scripts PROVE BuildCovered(c)'
  <2>1. CASE c = b
    BY <2>1
  <2>2. CASE c # b
    <3>1. build'[c] = build[c] /\ Cur(c)' = Cur(c)
      BY <2>2 DEF Cur
    <3>2. BuildCovered(c)
      BY DEF IInv, PublishInv
    <3>. QED  BY <3>1, <3>2 DEF BuildCovered, CopyCovered
  <2>. QED  BY <2>1, <2>2
<1>3. OldVmsAreGone'
  BY DEF IInv, OldVmsAreGone, FleetIsNew
<1>. QED  BY <1>1, <1>2, <1>3 DEF IInv, PublishInv

(* A step that only moves one script on.                                   *)
LEMMA QuietMove ==
  ASSUME IInv, NEW b \in Scripts, NEW phase \in BuildPhases \ {"write"}, Goes(b, phase),
         UNCHANGED <<plane, past, vm, fixer, screen>>,
         phase \notin Ended => build[b].todo # << >>,
         phase = "publish" => Cur(b) \in past.built,
         phase \in {"probe", "list"} => Cur(b) \in arn,
         phase \notin Ended \union {"fleet"} =>
           build[b].phase \notin Ended \union {"fleet"} \/ build[b].force \/ LiveVms = {}
  PROVE  IInv'
<1>1. build' = [build EXCEPT ![b].phase = phase] /\ build[b] \in Builds
      /\ DOMAIN build' = Scripts /\ \A c \in Scripts : BuildTyped(c)'
  BY WentOn DEF IInv, TypeOK, BuildTyped
<1>2. DOMAIN build = Scripts
  BY DEF IInv, TypeOK
<1>3. build'[b].phase = phase /\ build'[b].todo = build[b].todo
      /\ build'[b].force = build[b].force /\ build'[b].only = build[b].only
  BY <1>1, <1>2 DEF Builds
<1>4. \A c \in Scripts : c # b => build'[c] = build[c]
  BY <1>1, <1>2
<1>5. BuildCovered(b)'
  BY <1>3 DEF BuildCovered, Cur, plane
<1>6. FleetIsNew(b)'
  <2>1. FleetIsNew(b)
    BY DEF IInv, OldVmsAreGone, FleetIsNew
  <2>2. ASSUME LiveVms = {}, NEW f \in Flavors PROVE vm[f] = None
    BY <2>2 DEF IInv, TypeOK, LiveVms, IsLiveMicroVmState
  <2>. QED  BY <1>3, <2>1, <2>2 DEF FleetIsNew
<1>7. PlaneCovered' /\ ClaimsSurvive'
  BY DEF IInv, PublishInv, PlaneCovered, ClaimsSurvive, plane
<1>. QED  BY <1>1, <1>4, <1>5, <1>6, <1>7, OneScript DEF IInv, TypeOK, plane

LEMMA Thrown ==
  ASSUME IInv, NEW b \in Scripts, Throws(b), UNCHANGED <<vm, fixer, screen>>
  PROVE  IInv'
<1>1. "failed" \in BuildPhases \ {"write"} /\ "failed" \in Ended /\ Goes(b, "failed")
  BY DEF BuildPhases, Ended, Throws, Fails, Goes
<1>. QED  BY <1>1, QuietMove DEF Throws

(* A flavor is done with.                                                  *)
LEMMA QuietNext ==
  ASSUME IInv, NEW b \in Scripts, NextFlavor(b), UNCHANGED <<plane, past, vm, fixer, screen>>,
         build[b].phase \notin Ended \union {"fleet"}
  PROVE  IInv'
<1>1. TypeOK /\ build[b].phase \notin Ended
  BY DEF IInv
<1>2. /\ DOMAIN build' = Scripts /\ \A c \in Scripts : BuildTyped(c)'
      /\ \A c \in Scripts : c # b => build'[c] = build[c]
      /\ build'[b].phase \in {"done", "look"}
      /\ build'[b].force = build[b].force /\ build'[b].only = build[b].only
  BY <1>1, WentToNext
<1>3. BuildCovered(b)'
  BY <1>2 DEF BuildCovered
<1>4. FleetIsNew(b)'
  BY <1>2 DEF IInv, OldVmsAreGone, FleetIsNew
<1>5. PlaneCovered' /\ ClaimsSurvive'
  BY DEF IInv, PublishInv, PlaneCovered, ClaimsSurvive, plane
<1>. QED  BY <1>2, <1>3, <1>4, <1>5, OneScript DEF IInv, TypeOK, plane

LEMMA Replaced ==
  ASSUME IInv, NEW read \in Copies, NEW list \in SUBSET Labels,
         NEW byHand \in BOOLEAN, Replaces(read, list, byHand), ~byHand => read # None
  PROVE  /\ labels' = list /\ list # None
         /\ past' \in [owed : SUBSET Labels, byHand : SUBSET Labels, built : SUBSET Flavors,
                       raced : BOOLEAN, put : BOOLEAN]
         /\ past'.built = past.built /\ past.byHand \subseteq past'.byHand
         /\ byHand => past'.byHand = past.byHand \union list
         /\ (~byHand => past'.byHand = past.byHand)
         /\ past'.owed = IF byHand THEN list ELSE past.owed \union (list \ read)
         /\ past'.raced = (past.raced \/ read # labels)
<1>1. past \in [owed : SUBSET Labels, byHand : SUBSET Labels, built : SUBSET Flavors,
                raced : BOOLEAN, put : BOOLEAN]
  BY DEF IInv, TypeOK
<1>2. CASE byHand
  BY <1>1, <1>2, Constants DEF Replaces
<1>3. CASE ~byHand
  BY <1>1, <1>3, Constants DEF Replaces
<1>. QED  BY <1>2, <1>3

LEMMA TriggerKeeps ==
  ASSUME IInv, NEW b \in Scripts, TriggerBuild(b) PROVE IInv'
<1>1. CASE Throws(b)
  BY <1>1, Thrown DEF TriggerBuild
<1>2. CASE /\ Accepts(b) /\ Goes(b, "poll") /\ UNCHANGED <<arn, labels, past>>
           /\ image' = [image EXCEPT ![Cur(b)] =
                IF build[b].phase = "create" THEN "CREATING" ELSE "UPDATING"]
  <2>1. build[b].phase \in {"create", "update"} /\ Cur(b) \in Flavors
    BY CurTyped DEF TriggerBuild, Ended, IInv
  <2>2. "poll" \in BuildPhases \ {"write"} /\ build[b].todo # << >>
    BY <2>1 DEF BuildPhases, Ended, IInv, TypeOK, BuildTyped
  <2>3. /\ DOMAIN build' = Scripts /\ \A c \in Scripts : BuildTyped(c)'
        /\ build' = [build EXCEPT ![b].phase = "poll"]
    BY <1>2, <2>2, WentOn DEF IInv
  <2>4. build[b] \in Builds /\ DOMAIN build = Scripts
    BY DEF IInv, TypeOK, BuildTyped
  <2>5. build'[b].phase = "poll" /\ build'[b].force = build[b].force
        /\ build'[b].only = build[b].only
    BY <2>3, <2>4 DEF Builds
  <2>6. \A c \in Scripts : c # b => build'[c] = build[c]
    BY <2>3, <2>4
  <2>7. BuildCovered(b)'
    BY <2>5 DEF BuildCovered
  <2>8. FleetIsNew(b)'
    BY <1>2, <2>1, <2>5 DEF IInv, OldVmsAreGone, FleetIsNew, TriggerBuild, Ended
  <2>9. image' \in [Flavors -> ImageStates \union {Absent}]
    BY <1>2, <2>1 DEF IInv, TypeOK, ImageStates, PendingImageStates
  <2>10. PlaneCovered'
    BY <1>2, <2>1 DEF IInv, PublishInv, PlaneCovered, UsableImageStates, TypeOK
  <2>11. ClaimsSurvive' /\ UNCHANGED <<vm, fixer, screen>>
    BY <1>2 DEF IInv, ClaimsSurvive, TriggerBuild
  <2>. QED  BY <1>2, <2>3, <2>6, <2>7, <2>8, <2>9, <2>10, <2>11, OneScript DEF IInv, TypeOK
<1>. QED  BY <1>1, <1>2 DEF TriggerBuild

LEMMA PublishKeeps ==
  ASSUME IInv, NEW b \in Scripts, PublishArn(b) PROVE IInv'
<1>1. CASE Throws(b)
  BY <1>1, Thrown DEF PublishArn
<1>2. CASE /\ arn' = arn \union {Cur(b)} /\ UNCHANGED <<image, labels, past>>
           /\ IF build[b].skip THEN NextFlavor(b) ELSE Goes(b, "probe")
  <2>1. build[b].phase = "publish" /\ Cur(b) \in Flavors /\ Cur(b) \in past.built
    BY CurTyped DEF PublishArn, Ended, IInv, PublishInv, BuildCovered
  <2>2. "probe" \in BuildPhases \ {"write"} /\ build[b].todo # << >>
    BY <2>1 DEF BuildPhases, Ended, IInv, TypeOK, BuildTyped
  <2>3. build[b] \in Builds /\ DOMAIN build = Scripts
    BY DEF IInv, TypeOK, BuildTyped
  <2>4. /\ DOMAIN build' = Scripts /\ \A c \in Scripts : BuildTyped(c)'
        /\ \A c \in Scripts : c # b => build'[c] = build[c]
        /\ build'[b].phase \in {"done", "look", "probe"}
        /\ build'[b].phase = "probe" => Cur(b)' = Cur(b)
        /\ build'[b].force = build[b].force /\ build'[b].only = build[b].only
    <3>1. CASE build[b].skip
      BY <1>2, <2>1, <3>1, WentToNext DEF IInv, Ended
    <3>2. CASE ~build[b].skip
      <4>1. /\ DOMAIN build' = Scripts /\ \A c \in Scripts : BuildTyped(c)'
            /\ build' = [build EXCEPT ![b].phase = "probe"]
        BY <1>2, <2>2, <3>2, WentOn DEF IInv
      <4>2. build'[b].phase = "probe" /\ build'[b].force = build[b].force
            /\ build'[b].only = build[b].only /\ build'[b].todo = build[b].todo
        BY <2>3, <4>1 DEF Builds
      <4>3. \A c \in Scripts : c # b => build'[c] = build[c]
        BY <2>3, <4>1
      <4>. QED  BY <4>1, <4>2, <4>3 DEF Cur
    <3>. QED  BY <3>1, <3>2
  <2>5. BuildCovered(b)'
    BY <1>2, <2>4 DEF BuildCovered
  <2>6. FleetIsNew(b)'
    BY <2>1, <2>4 DEF IInv, OldVmsAreGone, FleetIsNew, PublishArn, Ended
  <2>7. PlaneCovered'
    BY <1>2, <2>1 DEF IInv, PublishInv, PlaneCovered
  <2>8. ClaimsSurvive' /\ UNCHANGED <<vm, fixer, screen>>
    BY <1>2 DEF IInv, ClaimsSurvive, PublishArn
  <2>. QED  BY <1>2, <2>1, <2>4, <2>5, <2>6, <2>7, <2>8, OneScript DEF IInv, TypeOK
<1>. QED  BY <1>1, <1>2 DEF PublishArn

LEMMA ReadLabelsKeeps ==
  ASSUME IInv, NEW b \in Scripts, ReadLabels(b) PROVE IInv'
<1>0. /\ build[b].phase = "list" /\ Cur(b) \in Flavors /\ Cur(b) \in arn
      /\ build[b] \in Builds /\ DOMAIN build = Scripts /\ build[b].todo # << >>
      /\ UNCHANGED <<vm, fixer, screen>>
  BY CurTyped DEF ReadLabels, IInv, PublishInv, BuildCovered, TypeOK, BuildTyped, Ended
<1>1. CASE Throws(b)
  BY <1>0, <1>1, Thrown
<1>2. CASE NextFlavor(b) /\ UNCHANGED <<plane, past>>
  BY <1>0, <1>2, QuietNext DEF Ended
<1>3. CASE /\ build' = [build EXCEPT ![b] = [@ EXCEPT !.phase = "write", !.copy = labels]]
           /\ labels # None /\ UNCHANGED <<plane, past>>
  <2> DEFINE next == [build[b] EXCEPT !.phase = "write", !.copy = labels]
  <2>1. /\ next \in Builds /\ next.phase = "write" /\ next.todo = build[b].todo
        /\ next.force = build[b].force /\ next.only = build[b].only /\ next.copy = labels
    BY <1>0 DEF Builds, BuildPhases, Ended, IInv, TypeOK
  <2>2. build' = [build EXCEPT ![b] = next]
    BY <1>3
  <2> HIDE DEF next
  <2>3. DOMAIN build' = Scripts /\ build'[b] = next /\ \A c \in Scripts : c # b => build'[c] = build[c]
    BY <1>0, <2>2
  <2>4. \A c \in Scripts : BuildTyped(c)'
    BY <1>0, <1>3, <2>1, <2>3 DEF IInv, TypeOK, BuildTyped
  <2>5. BuildCovered(b)'
    BY <1>0, <1>3, <2>1, <2>3 DEF BuildCovered, CopyCovered, Cur, IInv, PublishInv, PlaneCovered, plane
  <2>6. FleetIsNew(b)'
    BY <1>0, <2>1, <2>3 DEF IInv, OldVmsAreGone, FleetIsNew, Ended
  <2>7. PlaneCovered' /\ ClaimsSurvive'
    BY <1>3 DEF IInv, PublishInv, PlaneCovered, ClaimsSurvive, plane
  <2>. QED  BY <1>0, <1>3, <2>3, <2>4, <2>5, <2>6, <2>7, OneScript DEF IInv, TypeOK, plane
<1>. QED  BY <1>0, <1>1, <1>2, <1>3 DEF ReadLabels

LEMMA WriteLabelsKeeps ==
  ASSUME IInv, NEW b \in Scripts, WriteLabels(b) PROVE IInv'
<1>0. /\ build[b].phase = "write" /\ Cur(b) \in Flavors /\ Cur(b) \in arn
      /\ build[b] \in Builds /\ build[b].copy # None /\ CopyCovered(b)
      /\ UNCHANGED <<vm, fixer, screen>>
  BY CurTyped DEF WriteLabels, IInv, PublishInv, BuildCovered, TypeOK, BuildTyped, Ended
<1>1. CASE Throws(b)
  BY <1>0, <1>1, Thrown
<1>2. CASE /\ Replaces(build[b].copy, AddRunnerLabel(build[b].copy, Cur(b)), FALSE)
           /\ NextFlavor(b) /\ UNCHANGED <<image, arn>>
  <2> DEFINE copy == build[b].copy
             list == AddRunnerLabel(copy, Cur(b))
  <2>1. copy \in SUBSET Labels /\ copy \in Copies /\ list \in SUBSET Labels
    BY <1>0, Constants DEF Builds, Copies, AddRunnerLabel
  <2>2. /\ labels' = list /\ list # None
        /\ past' \in [owed : SUBSET Labels, byHand : SUBSET Labels, built : SUBSET Flavors,
                      raced : BOOLEAN, put : BOOLEAN]
        /\ past'.built = past.built /\ past'.byHand = past.byHand
        /\ past'.owed = past.owed \union (list \ copy)
        /\ past'.raced = (past.raced \/ copy # labels)
    <3>1. Replaces(copy, list, FALSE) /\ copy # None /\ FALSE \in BOOLEAN
      BY <1>0, <1>2
    <3> HIDE DEF copy, list
    <3>. QED  BY <2>1, <3>1, Replaced, Zenon
  <2>3. /\ DOMAIN build' = Scripts /\ \A c \in Scripts : BuildTyped(c)'
        /\ \A c \in Scripts : c # b => build'[c] = build[c]
        /\ build'[b].phase \in {"done", "look"}
        /\ build'[b].force = build[b].force /\ build'[b].only = build[b].only
    BY <1>0, <1>2, WentToNext DEF IInv, Ended
  <2>4. BuildCovered(b)'
    BY <2>3 DEF BuildCovered
  <2>5. FleetIsNew(b)'
    BY <1>0, <2>3 DEF IInv, OldVmsAreGone, FleetIsNew, Ended
  <2>6. PlaneCovered'
    BY <1>0, <1>2, <2>1, <2>2 DEF IInv, PublishInv, PlaneCovered, CopyCovered, AddRunnerLabel
  <2>7. ClaimsSurvive'
    BY <1>0, <2>2 DEF IInv, ClaimsSurvive, AddRunnerLabel
  <2>8. labels' \in Copies
    BY <2>1, <2>2 DEF Copies
  <2>. QED  BY <1>0, <1>2, <2>2, <2>3, <2>4, <2>5, <2>6, <2>7, <2>8, OneScript DEF IInv, TypeOK
<1>. QED  BY <1>0, <1>1, <1>2 DEF WriteLabels

LEMMA BuildStepKeeps == ASSUME IInv, NEW b \in Scripts, BuildStep(b) PROVE IInv'
<1>0. \A p \in {"look", "create", "update", "publish", "probe", "list"} :
        p \in BuildPhases \ {"write"}
  BY DEF BuildPhases
<1>1. build[b].phase \notin Ended => build[b].todo # << >>
  BY DEF IInv, TypeOK, BuildTyped
<1>2. CASE AssertQuiescentFleet(b)
  BY <1>0, <1>1, <1>2, QuietMove, Thrown DEF AssertQuiescentFleet, Ended
<1>3. CASE ImageExists(b)
  <2>1. CASE Throws(b)
    BY <1>3, <2>1, Thrown DEF ImageExists
  <2>2. CASE Goes(b, IF image[Cur(b)] = Absent THEN "create" ELSE "update") /\ UNCHANGED <<plane, past>>
    BY <1>0, <1>1, <1>3, <2>2, QuietMove DEF ImageExists, Ended
  <2>. QED  BY <1>3, <2>1, <2>2 DEF ImageExists
<1>4. CASE TriggerBuild(b)
  BY <1>4, TriggerKeeps
<1>5. CASE PollUntilCreated(b)
  <2>1. Built(image[Cur(b)]) => Cur(b) \in past.built
    BY <1>5, CurTyped DEF PollUntilCreated, Built, IInv, PublishInv, PlaneCovered, Ended
  <2>. QED  BY <1>0, <1>1, <1>5, <2>1, QuietMove, Thrown DEF PollUntilCreated, Ended
<1>6. CASE PublishArn(b)
  BY <1>6, PublishKeeps
<1>7. CASE ReadPublished(b)
  BY <1>0, <1>1, <1>7, QuietMove, Thrown DEF ReadPublished, Ended
<1>8. CASE ProbeImage(b)
  <2>1. Cur(b) \in arn
    BY <1>8 DEF ProbeImage, IInv, PublishInv, BuildCovered
  <2>. QED  BY <1>0, <1>1, <1>8, <2>1, QuietMove, Thrown DEF ProbeImage, Ended
<1>9. CASE ReadLabels(b)
  BY <1>9, ReadLabelsKeeps
<1>10. CASE WriteLabels(b)
  BY <1>10, WriteLabelsKeeps
<1>. QED  BY <1>2, <1>3, <1>4, <1>5, <1>6, <1>7, <1>8, <1>9, <1>10 DEF BuildStep

(* A script is started, by an operator or by the fixer.                    *)
LEMMA StartKeeps ==
  ASSUME IInv, NEW b \in Scripts, NEW todo \in Seq(Flavors) \ {<< >>}, NEW force \in BOOLEAN,
         NEW skip \in BOOLEAN, NEW only \in BOOLEAN,
         build' = [build EXCEPT ![b] = Started(todo, force, skip, only)],
         UNCHANGED <<plane, vm, past, screen>>, DOMAIN fixer' = DOMAIN IdleFixer,
         fixer'.todo \subseteq Flavors, fixer'.left \subseteq Flavors
  PROVE  IInv'
<1> DEFINE start == Started(todo, force, skip, only)
<1>1. /\ start \in Builds /\ start.todo = todo /\ start.phase \in {"fleet", "published"}
      /\ start.only = only /\ (start.phase = "published" => only)
  BY StartTyped
<1>2. build' = [build EXCEPT ![b] = start]
  OBVIOUS
<1> HIDE DEF start
<1>3. /\ DOMAIN build' = Scripts /\ build'[b] = start
      /\ \A c \in Scripts : c # b => build'[c] = build[c]
  BY <1>2 DEF IInv, TypeOK
<1>4. \A c \in Scripts : BuildTyped(c)'
  BY <1>1, <1>3 DEF IInv, TypeOK, BuildTyped, Ended
<1>5. TypeOK'
  BY <1>3, <1>4 DEF IInv, TypeOK, plane
<1>6. ASSUME NEW c \in Scripts PROVE BuildCovered(c)' /\ FleetIsNew(c)'
  <2>1. CASE c = b
    BY <1>1, <1>3, <2>1 DEF BuildCovered, FleetIsNew
  <2>2. CASE c # b
    <3>1. build'[c] = build[c] /\ Cur(c)' = Cur(c) /\ BuildCovered(c) /\ FleetIsNew(c)
      BY <1>3, <2>2 DEF Cur, IInv, PublishInv, OldVmsAreGone, FleetIsNew
    <3>. QED  BY <3>1 DEF BuildCovered, CopyCovered, FleetIsNew, plane
  <2>. QED  BY <2>1, <2>2
<1>7. PlaneCovered' /\ ClaimsSurvive'
  BY DEF IInv, PublishInv, PlaneCovered, ClaimsSurvive, plane
<1>. QED  BY <1>5, <1>6, <1>7 DEF IInv, PublishInv, OldVmsAreGone, FleetIsNew

(* Steps that touch no script.                                             *)
LEMMA BuildsStay ==
  ASSUME IInv, build' = build, past.built \subseteq past'.built,
         past.byHand \subseteq past'.byHand, arn' = arn
  PROVE  \A b \in Scripts : BuildCovered(b)'
  BY DEF IInv, PublishInv, BuildCovered, CopyCovered, Cur

LEMMA PutKeeps == ASSUME IInv, PutRunnerLabels PROVE IInv'
<1>1. screen.list \in Copies /\ UNCHANGED <<image, arn, vm, build, fixer>>
  BY DEF IInv, TypeOK, PutRunnerLabels
<1>2. PICK l \in Labels : Replaces(screen.list, Edited(l), TRUE)
  BY DEF PutRunnerLabels
<1>3. Edited(l) \in SUBSET Labels
  BY <1>1 DEF Edited, Copies
<1> DEFINE list == Edited(l)
<1>4. /\ labels' = list /\ list # None
      /\ past' \in [owed : SUBSET Labels, byHand : SUBSET Labels, built : SUBSET Flavors,
                    raced : BOOLEAN, put : BOOLEAN]
      /\ past'.built = past.built /\ past.byHand \subseteq past'.byHand
      /\ past'.byHand = past.byHand \union list
      /\ past'.owed = list
  <2>1. TRUE \in BOOLEAN /\ Replaces(screen.list, list, TRUE) /\ list \in SUBSET Labels
    BY <1>2, <1>3
  <2> HIDE DEF list
  <2>. QED  BY <1>1, <2>1, Replaced, Zenon
<1>5. labels' \in Copies
  BY <1>3, <1>4 DEF Copies
<1>6. screen' \in [open : BOOLEAN, list : Copies]
  BY DEF PutRunnerLabels, ShutScreen, Copies
<1>7. TypeOK'
  <2>1. \A b \in Scripts : BuildTyped(b)'
    BY <1>1 DEF IInv, TypeOK, BuildTyped
  <2>. QED  BY <1>1, <1>4, <1>5, <1>6, <2>1 DEF IInv, TypeOK
<1>8. PlaneCovered'
  BY <1>1, <1>4 DEF IInv, PublishInv, PlaneCovered
<1>9. ClaimsSurvive' /\ OldVmsAreGone'
  BY <1>1, <1>4 DEF IInv, ClaimsSurvive, OldVmsAreGone
<1>. QED  BY <1>1, <1>4, <1>7, <1>8, <1>9, BuildsStay DEF IInv, PublishInv

LEMMA OutsideKeeps ==
  ASSUME IInv, ShowLabels \/ (\E f \in Flavors : ImageEnds(f) \/ Launch(f) \/ VmMoves(f))
  PROVE  IInv'
<1> USE DEF IInv
<1>1. CASE ShowLabels
  <2>1. TypeOK'
    BY <1>1 DEF TypeOK, ShowLabels, plane, BuildTyped
  <2>2. \A b \in Scripts : BuildCovered(b)'
    BY <1>1, BuildsStay DEF ShowLabels, plane
  <2>. QED  BY <1>1, <2>1, <2>2 DEF ShowLabels, plane, PublishInv, PlaneCovered, ClaimsSurvive,
                                  OldVmsAreGone
<1>2. ASSUME NEW f \in Flavors, ImageEnds(f) PROVE IInv'
  <2>1. /\ UNCHANGED <<arn, labels, vm, build, fixer, screen>>
        /\ past'.built \in {past.built, past.built \union {f}} /\ past'.byHand = past.byHand
        /\ past'.owed = past.owed /\ past'.raced = past.raced
        /\ past' \in [owed : SUBSET Labels, byHand : SUBSET Labels, built : SUBSET Flavors,
                      raced : BOOLEAN, put : BOOLEAN]
    BY <1>2 DEF ImageEnds, TypeOK
  <2>2. image' \in [Flavors -> ImageStates \union {Absent}]
    BY <1>2 DEF ImageEnds, TypeOK, ImageStates, UsableImageStates, FailedImageStates
  <2>3. TypeOK'
    <3>1. \A b \in Scripts : BuildTyped(b)'
      BY <2>1 DEF TypeOK, BuildTyped
    <3>. QED  BY <2>1, <2>2, <3>1 DEF TypeOK
  <2>4. \A g \in Flavors : image'[g] \in UsableImageStates => g \in past'.built
    <3>1. CASE /\ image' = [image EXCEPT ![f] = IF @ = "CREATING" THEN "CREATED" ELSE "UPDATED"]
               /\ past' = [past EXCEPT !.built = @ \union {f}]
      BY <3>1 DEF PublishInv, PlaneCovered, TypeOK
    <3>2. CASE /\ past' = past
               /\ image' = [image EXCEPT ![f] =
                    IF @ = "CREATING" THEN "CREATE_FAILED" ELSE "UPDATE_FAILED"]
      BY <3>2 DEF PublishInv, PlaneCovered, TypeOK, UsableImageStates
    <3>. QED  BY <1>2, <3>1, <3>2 DEF ImageEnds
  <2>5. PlaneCovered'
    BY <2>1, <2>4 DEF PublishInv, PlaneCovered
  <2>6. ClaimsSurvive' /\ OldVmsAreGone'
    BY <2>1 DEF ClaimsSurvive, OldVmsAreGone
  <2>. QED  BY <2>1, <2>3, <2>5, <2>6, BuildsStay DEF PublishInv
<1>3. ASSUME NEW f \in Flavors, Launch(f) PROVE IInv'
  <2>1. UNCHANGED <<plane, build, fixer, screen, past>>
    BY <1>3 DEF Launch
  <2>2. TypeOK'
    <3>1. PastFleet \in SUBSET Scripts
      BY DEF PastFleet
    <3>. QED  BY <1>3, <2>1, <3>1 DEF Launch, TypeOK, plane, BuildTyped, MicroVmStates
  <2>3. OldVmsAreGone'
    BY <1>3, <2>1 DEF Launch, OldVmsAreGone, PastFleet, TypeOK
  <2>. QED  BY <2>1, <2>2, <2>3, BuildsStay DEF plane, PublishInv, PlaneCovered, ClaimsSurvive
<1>4. ASSUME NEW f \in Flavors, VmMoves(f) PROVE IInv'
  <2>1. UNCHANGED <<plane, build, fixer, screen, past>>
    BY <1>4 DEF VmMoves
  <2>2. /\ vm' \in [Flavors -> {None} \union [state : MicroVmStates \ {"TERMINATED"},
                                            after : SUBSET Scripts]]
        /\ \A g \in Flavors : vm'[g] # None => vm[g] # None /\ vm'[g].after = vm[g].after
    BY <1>4 DEF VmMoves, TypeOK, MicroVmStates
  <2>3. TypeOK'
    BY <2>1, <2>2 DEF TypeOK, plane, BuildTyped
  <2>4. OldVmsAreGone'
    BY <2>1, <2>2 DEF OldVmsAreGone
  <2>. QED  BY <2>1, <2>3, <2>4, BuildsStay DEF plane, PublishInv, PlaneCovered, ClaimsSurvive
<1>. QED  BY <1>1, <1>2, <1>3, <1>4

LEMMA NextKeeps == ASSUME IInv, [Next]_vars PROVE IInv'
<1>1. ASSUME NEW b \in Builders, StartBuild(b) PROVE IInv'
  <2>1. PICK todo \in Seq(Flavors) \ {<< >>}, force \in BOOLEAN, skip \in BOOLEAN, only \in BOOLEAN :
          build' = [build EXCEPT ![b] = Started(todo, force, skip, only)]
    <3>1. PICK todo \in {Catalog} \union {<<f>> : f \in Flavors}, force, skip, only \in BOOLEAN :
            build' = [build EXCEPT ![b] = Started(todo, force, skip, only)]
      BY <1>1 DEF StartBuild
    <3>2. todo \in Seq(Flavors) \ {<< >>}
      <4>1. CASE todo = Catalog
        BY <4>1, Constants
      <4>2. CASE \E f \in Flavors : todo = <<f>>
        BY <4>2
      <4>. QED  BY <4>1, <4>2
    <3>. QED  BY <3>1, <3>2
  <2>2. UNCHANGED <<plane, vm, fixer, screen, past>> /\ b \in Scripts
    BY <1>1, Constants DEF StartBuild
  <2>. QED  BY <2>1, <2>2, StartKeeps DEF IInv, TypeOK
<1>2. ASSUME NEW b \in Scripts, BuildStep(b) PROVE IInv'
  BY <1>2, BuildStepKeeps
<1>3. CASE FixerStep
  <2>1. /\ DOMAIN fixer' = DOMAIN IdleFixer
        /\ fixer'.todo \subseteq Flavors /\ fixer'.left \subseteq Flavors
        /\ UNCHANGED <<plane, vm, past, screen>>
    BY <1>3, FixerTodo DEF IInv, plane
  <2>2. CASE build' = build
    <3>1. TypeOK'
      BY <2>1, <2>2 DEF IInv, TypeOK, plane, BuildTyped
    <3>. QED  BY <2>1, <2>2, <3>1, BuildsStay DEF IInv, PublishInv, PlaneCovered, ClaimsSurvive,
                                                 OldVmsAreGone, plane
  <2>3. CASE \E f \in Flavors, only \in BOOLEAN :
               build' = [build EXCEPT ![Child] = Started(<<f>>, FALSE, FALSE, only)]
    <3>1. PICK f \in Flavors, only \in BOOLEAN :
            build' = [build EXCEPT ![Child] = Started(<<f>>, FALSE, FALSE, only)]
      BY <2>3
    <3>2. <<f>> \in Seq(Flavors) \ {<< >>} /\ FALSE \in BOOLEAN /\ Child \in Scripts
      BY Constants
    <3>. QED  BY <2>1, <3>1, <3>2, StartKeeps
  <2>. QED  BY <1>3, <2>2, <2>3, FixerTodo DEF IInv
<1>4. CASE PutRunnerLabels
  BY <1>4, PutKeeps
<1>5. CASE ShowLabels \/ \E f \in Flavors : ImageEnds(f) \/ Launch(f) \/ VmMoves(f)
  BY <1>5, OutsideKeeps
<1>6. CASE UNCHANGED vars
  <2>1. UNCHANGED <<plane, vm, past, screen, fixer, build>>
    BY <1>6 DEF vars, plane
  <2>2. TypeOK'
    BY <2>1 DEF IInv, TypeOK, plane, BuildTyped
  <2>. QED  BY <2>1, <2>2, BuildsStay DEF IInv, PublishInv, PlaneCovered, ClaimsSurvive,
                                       OldVmsAreGone, plane
<1>. QED  BY <1>1, <1>2, <1>3, <1>4, <1>5, <1>6 DEF Next

LEMMA InitKeeps == ASSUME Init PROVE IInv
<1>1. PICK s \in Starts : image = s.image /\ arn = s.arn /\ labels = s.labels
  BY DEF Init
<1>2. /\ s.image \in [Flavors -> ImageStates \union {Absent}]
      /\ s.arn \subseteq {f \in Flavors : WasBuilt(s.image[f])}
      /\ s.labels = None \/ s.labels \subseteq Labels
  BY PublishAssumption
<1> DEFINE seed == IF labels = None THEN {} ELSE labels
<1>3. /\ past.owed = seed /\ past.byHand = seed /\ past.raced = FALSE /\ past.put = FALSE
      /\ past.built = {f \in Flavors : WasBuilt(image[f])}
      /\ past \in [owed : SUBSET Labels, byHand : SUBSET Labels, built : SUBSET Flavors,
                   raced : BOOLEAN, put : BOOLEAN]
  BY <1>1, <1>2 DEF Init
<1>4. IdleBuild \in Builds /\ IdleBuild.phase = "idle" /\ None \in Copies
  BY DEF IdleBuild, Builds, BuildPhases, Ended, Copies
<1>5. TypeOK
  <2>1. \A b \in Scripts : BuildTyped(b)
    BY <1>4 DEF Init, BuildTyped, Ended
  <2>2. labels \in Copies
    BY <1>1, <1>2 DEF Copies
  <2>3. screen \in [open : BOOLEAN, list : Copies]
    BY <1>4 DEF Init, ShutScreen
  <2>4. DOMAIN fixer = DOMAIN IdleFixer /\ fixer.todo \subseteq Flavors
        /\ fixer.left \subseteq Flavors
    BY DEF Init, IdleFixer
  <2>5. DOMAIN build = Scripts /\ vm \in [Flavors -> {None}]
    BY DEF Init
  <2>. QED  BY <1>1, <1>2, <1>3, <2>1, <2>2, <2>3, <2>4, <2>5 DEF TypeOK
<1>6. PlaneCovered
  BY <1>1, <1>2, <1>3 DEF PlaneCovered, WasBuilt, UsableImageStates
<1>7. \A b \in Scripts : BuildCovered(b)
  BY <1>4 DEF Init, BuildCovered
<1>8. ClaimsSurvive /\ OldVmsAreGone
  BY <1>3 DEF Init, ClaimsSurvive, OldVmsAreGone
<1>. QED  BY <1>5, <1>6, <1>7, <1>8 DEF IInv, PublishInv

LEMMA InvAlways == Spec => []IInv
  BY InitKeeps, NextKeeps, PTL DEF Spec

(* The scripts' and the plane's state is always well formed.               *)
THEOREM PublishTypes == Spec => []TypeOK
<1>1. IInv => TypeOK
  BY DEF IInv
<1>. QED  BY InvAlways, <1>1, PTL

(* An ARN is published, and a label claimed by a script, only for an image *)
(* that was usable once (build-images.mjs, ADR-049).                       *)
THEOREM ClaimsFollow == Spec => []ClaimFollowsImage
<1>1. IInv => ClaimFollowsImage
  BY DEF IInv, PublishInv, PlaneCovered, ClaimFollowsImage
<1>. QED  BY InvAlways, <1>1, PTL

(* Writers of the whole allowlist that do not overlap lose no label.       *)
THEOREM LabelsSurvive == Spec => []ClaimsSurvive
<1>1. IInv => ClaimsSurvive
  BY DEF IInv
<1>. QED  BY InvAlways, <1>1, PTL

(* A build that was not forced meets only VMs younger than its check.      *)
THEOREM OldVmsGone == Spec => []OldVmsAreGone
<1>1. IInv => OldVmsAreGone
  BY DEF IInv
<1>. QED  BY InvAlways, <1>1, PTL

-----------------------------------------------------------------------------
(* The fixer's exit code.  What one step of a build script does.           *)
LEMMA BuildEffect ==
  ASSUME TypeOK, NEW b \in Scripts, BuildStep(b)
  PROVE  /\ build[b].phase \notin Ended /\ build'[b].phase # "idle"
         /\ \A c \in Scripts : c # b => build'[c] = build[c]
         /\ UNCHANGED <<vm, fixer, screen>> /\ past'.put = past.put
         /\ \/ /\ image' = image
               /\ build[b].phase = "poll" =>
                    build'[b].phase = "failed" \/ image[Cur(b)] \in UsableImageStates
            \/ /\ build[b].phase # "poll" /\ build'[b].phase = "poll"
               /\ Cur(b)' = Cur(b) /\ \A f \in Flavors : f # Cur(b) => image'[f] = image[f]
<1>1. /\ DOMAIN build = Scripts /\ DOMAIN build[b] = {"phase", "todo", "force", "skip", "only", "copy"}
      /\ image \in [Flavors -> ImageStates \union {Absent}]
      /\ past \in [owed : SUBSET Labels, byHand : SUBSET Labels, built : SUBSET Flavors,
                   raced : BOOLEAN, put : BOOLEAN]
  BY DEF TypeOK, BuildTyped, Builds
<1>2. ASSUME NEW phase, Goes(b, phase) PROVE /\ build'[b].phase = phase /\ build'[b].todo = build[b].todo
                                              /\ \A c \in Scripts : c # b => build'[c] = build[c]
  BY <1>1, <1>2 DEF Goes
<1>3. ASSUME Throws(b) PROVE /\ build'[b].phase = "failed" /\ UNCHANGED <<image, past>>
                             /\ \A c \in Scripts : c # b => build'[c] = build[c]
  BY <1>1, <1>3 DEF Throws, Fails, plane
<1>4. ASSUME NextFlavor(b) PROVE /\ build'[b].phase \in {"done", "look"}
                                 /\ \A c \in Scripts : c # b => build'[c] = build[c]
  BY <1>1, <1>4 DEF NextFlavor
<1>5. CASE AssertQuiescentFleet(b) \/ ImageExists(b)
  <2>1. /\ build[b].phase \in {"fleet", "look"} /\ UNCHANGED <<vm, fixer, screen>>
        /\ UNCHANGED <<image, past>>
        /\ Throws(b) \/ Goes(b, "look") \/ Goes(b, "create") \/ Goes(b, "update")
    BY <1>5 DEF AssertQuiescentFleet, ImageExists, Throws, plane
  <2>. QED  BY <1>2, <1>3, <2>1 DEF Ended
<1>6. CASE TriggerBuild(b)
  <2>1. CASE Throws(b)
    BY <1>3, <1>6, <2>1 DEF TriggerBuild, Ended
  <2>2. CASE ~Throws(b)
    <3>1. /\ build[b].phase \in {"create", "update"} /\ Goes(b, "poll") /\ UNCHANGED past
          /\ UNCHANGED <<vm, fixer, screen>>
          /\ image' = [image EXCEPT ![Cur(b)] =
               IF build[b].phase = "create" THEN "CREATING" ELSE "UPDATING"]
      BY <1>6, <2>2 DEF TriggerBuild
    <3>2. Cur(b)' = Cur(b)
      BY <1>2, <3>1 DEF Cur
    <3>. QED  BY <1>1, <1>2, <3>1, <3>2 DEF Ended
  <2>. QED  BY <2>1, <2>2
<1>7. CASE PollUntilCreated(b)
  <2>1. /\ build[b].phase = "poll" /\ UNCHANGED <<vm, fixer, screen, image, past>>
        /\ Throws(b) \/ (Goes(b, "publish") /\ image[Cur(b)] \in UsableImageStates)
    BY <1>7 DEF PollUntilCreated, Throws, plane, Built
  <2>. QED  BY <1>2, <1>3, <2>1 DEF Ended
<1>8. CASE PublishArn(b) \/ ReadPublished(b) \/ ProbeImage(b)
  <2>1. /\ build[b].phase \in {"publish", "published", "probe"}
        /\ UNCHANGED <<vm, fixer, screen, image, past>>
        /\ Throws(b) \/ NextFlavor(b) \/ Goes(b, "probe") \/ Goes(b, "list")
    BY <1>8 DEF PublishArn, ReadPublished, ProbeImage, Throws, plane
  <2>. QED  BY <1>2, <1>3, <1>4, <2>1 DEF Ended
<1>9. CASE ReadLabels(b)
  <2>1. /\ build[b].phase = "list" /\ UNCHANGED <<vm, fixer, screen, image, past>>
        /\ \/ Throws(b) \/ NextFlavor(b)
           \/ build' = [build EXCEPT ![b] = [@ EXCEPT !.phase = "write", !.copy = labels]]
    BY <1>9 DEF ReadLabels, Throws, plane
  <2>2. CASE build' = [build EXCEPT ![b] = [@ EXCEPT !.phase = "write", !.copy = labels]]
    BY <1>1, <2>1, <2>2 DEF Ended
  <2>. QED  BY <1>3, <1>4, <2>1, <2>2 DEF Ended
<1>10. CASE WriteLabels(b)
  <2>1. CASE Throws(b)
    BY <1>3, <1>10, <2>1 DEF WriteLabels, Ended
  <2>2. CASE ~Throws(b)
    <3>1. /\ build[b].phase = "write" /\ NextFlavor(b) /\ UNCHANGED <<vm, fixer, screen, image>>
          /\ past'.put = (past.put \/ FALSE)
      BY <1>10, <2>2 DEF WriteLabels, Replaces
    <3>. QED  BY <1>1, <1>4, <3>1 DEF Ended
  <2>. QED  BY <2>1, <2>2
<1>. QED  BY <1>5, <1>6, <1>7, <1>8, <1>9, <1>10 DEF BuildStep

(* A report with every probe answered says of the plane what is so.        *)
LEMMA DriftIsTrue ==
  ASSUME TypeOK, SeenIsTrue, fixer.phase = "images", fixer.left = {}, fixer.checks, ~fixer.unread
  PROVE  Drift(fixer.seen, Flavors) <=> \E f \in Flavors : ~Runnable(f)
<1>1. ASSUME NEW f \in Flavors
      PROVE  Severity(HealthOf(Observation(fixer.seen, f))) = "ok" <=> Runnable(f)
  <2>1. PICK obs : obs = fixer.seen[f]
    OBVIOUS
  <2>2. /\ Observation(fixer.seen, f) = obs
        /\ obs.claimed = IF labels # None /\ f \in labels THEN "yes" ELSE "no"
        /\ obs.arn = (f \in arn) /\ obs.state = IF f \in arn THEN image[f] ELSE Absent
    BY <1>1, <2>1 DEF SeenIsTrue, Observation
  <2>3. image[f] \in ImageStates \union {Absent}
    BY DEF TypeOK
  <2>4. HealthOf(obs) = "ok" <=> Runnable(f)
    BY <2>2, <2>3 DEF HealthOf, Usable, Runnable, ImageStates, UsableImageStates,
                      PendingImageStates, FailedImageStates, Absent, Unread
  <2>5. HealthOf(obs) \notin {"image_unverified", "label_unverified"}
    BY <2>2, <2>3 DEF HealthOf, Usable, ImageStates, UsableImageStates,
                      PendingImageStates, FailedImageStates, Absent, Unread
  <2>6. HealthOf(obs) \in {"ok", "image_building", "label_missing", "image_missing", "not_built",
                           "image_failed", "image_unverified", "label_unverified"}
    BY <2>2 DEF HealthOf
  <2>. QED  BY <2>2, <2>4, <2>5, <2>6 DEF Severity
<1>. QED  BY <1>1 DEF Drift

LEMMA ExitQuiet ==
  ASSUME ExitInv, UNCHANGED <<image, arn, labels, build, fixer>>, past'.put = past.put
  PROVE  ExitInv'
  BY DEF ExitInv, Alone, OneAtWork, SeenIsTrue, ExitIsTrue, ChildRests, Cur, Runnable

LEMMA ExitBuild ==
  ASSUME TypeOK, ExitInv, NEW b \in Scripts, BuildStep(b) PROVE ExitInv'
<1>. SUFFICES ASSUME Alone' PROVE (OneAtWork /\ SeenIsTrue /\ ExitIsTrue)'
  BY DEF ExitInv
<1>1. b = Child
  <2>. SUFFICES ASSUME b \in Builders PROVE FALSE
    BY DEF Scripts
  <2>. QED  BY BuildEffect DEF Alone
<1>2. Alone
  <2>1. \A c \in Builders : build'[c] = build[c]
    BY <1>1, BuildEffect, PublishAssumption DEF Scripts
  <2>. QED  BY <2>1, BuildEffect DEF Alone
<1>3. OneAtWork /\ ~ChildRests /\ build[Child].phase # "failed"
  BY <1>1, <1>2, BuildEffect DEF ExitInv, ChildRests, Ended
<1>4. fixer' = fixer /\ (fixer.phase = "wait" \/ (fixer.phase = "done" /\ fixer.exit = 2))
  BY <1>3, BuildEffect DEF OneAtWork
<1>5. SeenIsTrue' /\ ExitIsTrue'
  BY <1>4 DEF SeenIsTrue, ExitIsTrue
<1>6. ASSUME NEW f \in Flavors, image'[f] \in {"CREATING", "UPDATING"}
      PROVE  (build[Child].phase = "failed" \/ (build[Child].phase = "poll" /\ f = Cur(Child)))'
  <2>1. CASE /\ image' = image
             /\ build[b].phase = "poll" =>
                  build'[b].phase = "failed" \/ image[Cur(b)] \in UsableImageStates
    BY <1>1, <1>3, <1>6, <2>1 DEF OneAtWork, UsableImageStates
  <2>2. CASE /\ build[b].phase # "poll" /\ build'[b].phase = "poll"
             /\ Cur(b)' = Cur(b) /\ \A g \in Flavors : g # Cur(b) => image'[g] = image[g]
    BY <1>1, <1>3, <1>6, <2>2 DEF OneAtWork
  <2>. QED  BY <2>1, <2>2, BuildEffect
<1>7. OneAtWork'
  BY <1>4, <1>6 DEF OneAtWork
<1>. QED  BY <1>5, <1>7

LEMMA ExitFixer ==
  ASSUME TypeOK, ExitInv, FixerStep PROVE ExitInv'
<1>. SUFFICES ASSUME Alone' PROVE (OneAtWork /\ SeenIsTrue /\ ExitIsTrue)'
  BY DEF ExitInv
<1>1. UNCHANGED <<image, arn, labels, past>> /\ DOMAIN fixer = DOMAIN IdleFixer
  BY FixerTodo DEF TypeOK
<1>2. \A b \in Builders : build'[b] = build[b]
  <2>1. \/ build' = build
        \/ \E f \in Flavors, only \in BOOLEAN :
             build' = [build EXCEPT ![Child] = Started(<<f>>, FALSE, FALSE, only)]
    BY FixerTodo
  <2>2. Child \notin Builders /\ Builders \subseteq DOMAIN build
    BY PublishAssumption DEF TypeOK, Builds, Scripts
  <2>. QED  BY <2>1, <2>2
<1>3. Alone
  BY <1>1, <1>2 DEF Alone
<1>4. OneAtWork /\ SeenIsTrue
  BY <1>3 DEF ExitInv
<1>5. Child \in Scripts /\ DOMAIN build = Scripts
  BY Constants DEF TypeOK
<1>6. DOMAIN fixer = {"phase", "fix", "checks", "again", "seen", "left", "unread", "todo", "exit"}
  BY <1>1 DEF IdleFixer
<1>7. ASSUME Exits(2), build' = build PROVE (OneAtWork /\ SeenIsTrue /\ ExitIsTrue)'
  <2>1. fixer'.phase = "done" /\ fixer'.exit = 2
    BY <1>6, <1>7 DEF Exits, FixerGoes
  <2>2. OneAtWork' 
    <3>1. \A f \in Flavors : image[f] \in {"CREATING", "UPDATING"} =>
            \/ build[Child].phase = "failed"
            \/ build[Child].phase = "poll" /\ f = Cur(Child)
      BY <1>4 DEF OneAtWork
    <3>. QED  BY <1>1, <1>7, <2>1, <3>1 DEF OneAtWork, Cur
  <2>. QED  BY <2>1, <2>2 DEF SeenIsTrue, ExitIsTrue
<1>8. ASSUME build' = build, ChildRests, fixer'.phase \notin {"arns", "images", "done"}
      PROVE  (OneAtWork /\ SeenIsTrue /\ ExitIsTrue)'
  BY <1>1, <1>4, <1>8 DEF OneAtWork, SeenIsTrue, ExitIsTrue, ChildRests, Cur
<1>9. ASSUME build' = build, fixer.phase \notin {"wait", "done"} PROVE ChildRests /\ ChildRests'
  BY <1>4, <1>9 DEF OneAtWork, ChildRests
<1>10. ASSUME build' = build, fixer.phase \notin {"wait", "done"} PROVE OneAtWork'
  BY <1>1, <1>4, <1>9, <1>10 DEF OneAtWork, ChildRests, Cur
<1>11. CASE StartReconcile
  <2>1. build' = build /\ fixer.phase = "idle" /\ fixer'.phase = "labels"
    BY <1>11 DEF StartReconcile, FixerGoes, IdleFixer
  <2>. QED  BY <1>8, <1>9, <2>1
<1>12. CASE ObserveLabels
  <2>1. build' = build /\ fixer.phase = "labels"
    BY <1>12 DEF ObserveLabels
  <2>2. CASE Exits(2)
    BY <1>7, <2>1, <2>2
  <2>3. CASE ~Exits(2)
    <3>1. fixer' = [fixer EXCEPT !.phase = "arns",
             !.seen = [f \in Flavors |->
               [arn |-> FALSE, state |-> Absent,
                claimed |-> IF labels # None /\ f \in labels THEN "yes" ELSE "no"]]]
      BY <1>12, <2>3 DEF ObserveLabels, FixerGoes
    <3>2. /\ fixer'.phase = "arns"
          /\ fixer'.seen = [f \in Flavors |->
               [arn |-> FALSE, state |-> Absent,
                claimed |-> IF labels # None /\ f \in labels THEN "yes" ELSE "no"]]
      BY <1>6, <3>1
    <3>3. SeenIsTrue'
      BY <1>1, <3>2 DEF SeenIsTrue
    <3>. QED  BY <1>10, <2>1, <3>2, <3>3 DEF ExitIsTrue
  <2>. QED  BY <2>2, <2>3
<1>13. CASE ObserveArns
  <2>1. build' = build /\ fixer.phase = "arns"
    BY <1>13 DEF ObserveArns
  <2>2. CASE Exits(2)
    BY <1>7, <2>1, <2>2
  <2>3. CASE ~Exits(2)
    <3>1. fixer' = [fixer EXCEPT !.phase = "images", !.seen = WithArns(@),
                      !.left = IF fixer.checks THEN arn ELSE {}]
      BY <1>13, <2>3 DEF ObserveArns, FixerGoes
    <3>2. /\ fixer'.phase = "images" /\ fixer'.seen = WithArns(fixer.seen)
          /\ fixer'.left = IF fixer.checks THEN arn ELSE {}
          /\ fixer'.checks = fixer.checks /\ fixer'.unread = fixer.unread
      BY <1>6, <3>1
    <3>3. DOMAIN fixer'.seen = Flavors
      BY <3>2 DEF WithArns
    <3>4. ASSUME NEW f \in Flavors
          PROVE  /\ DOMAIN fixer'.seen[f] = {"arn", "state", "claimed"}
                 /\ fixer'.seen[f].claimed = IF labels # None /\ f \in labels THEN "yes" ELSE "no"
                 /\ fixer'.seen[f].arn = (f \in arn)
                 /\ fixer'.checks => fixer'.seen[f].state = Absent
      <4>1. fixer'.seen[f] = [fixer.seen[f] EXCEPT !.arn = f \in arn,
                                !.state = IF fixer.checks THEN Absent ELSE Unread]
        BY <3>2 DEF WithArns
      <4>2. /\ DOMAIN fixer.seen[f] = {"arn", "state", "claimed"}
            /\ fixer.seen[f].claimed = IF labels # None /\ f \in labels THEN "yes" ELSE "no"
        BY <1>4, <2>1 DEF SeenIsTrue
      <4>. QED  BY <3>2, <4>1, <4>2
    <3>5. SeenIsTrue'
      BY <1>1, <3>2, <3>3, <3>4 DEF SeenIsTrue
    <3>. QED  BY <1>10, <2>1, <3>2, <3>5 DEF ExitIsTrue
  <2>. QED  BY <2>2, <2>3
<1>14. CASE ObserveImage
  <2>1. build' = build /\ fixer.phase = "images"
    BY <1>14 DEF ObserveImage
  <2>2. PICK f, state :
          /\ f \in fixer.left
          /\ fixer' = [fixer EXCEPT !.left = @ \ {f}, !.seen = Probed(f, state), !.unread = fixer'.unread]
          /\ fixer'.unread \/ (state = image[f] /\ fixer'.unread = fixer.unread)
    <3>1. PICK f \in fixer.left :
            \/ fixer' = [fixer EXCEPT !.left = @ \ {f}, !.seen = Probed(f, image[f])]
            \/ fixer' = [fixer EXCEPT !.left = @ \ {f}, !.seen = Probed(f, Unread), !.unread = TRUE]
      BY <1>14 DEF ObserveImage, FixerGoes
    <3>2. CASE fixer' = [fixer EXCEPT !.left = @ \ {f}, !.seen = Probed(f, image[f])]
      BY <1>6, <3>2
    <3>3. CASE fixer' = [fixer EXCEPT !.left = @ \ {f}, !.seen = Probed(f, Unread), !.unread = TRUE]
      BY <1>6, <3>3
    <3>. QED  BY <3>1, <3>2, <3>3
  <2>3. /\ fixer'.phase = "images" /\ fixer'.seen = Probed(f, state) /\ fixer'.left = fixer.left \ {f}
        /\ fixer'.checks = fixer.checks
    BY <1>6, <2>1, <2>2
  <2>4. f \in Flavors /\ f \in arn /\ DOMAIN fixer.seen = Flavors
    BY <1>4, <2>1, <2>2 DEF SeenIsTrue, TypeOK
  <2>5. /\ DOMAIN fixer'.seen = Flavors
        /\ \A g \in Flavors :
             fixer'.seen[g] = IF g = f THEN [fixer.seen[f] EXCEPT !.state = state] ELSE fixer.seen[g]
    BY <2>3, <2>4 DEF Probed
  <2>6. ASSUME NEW g \in Flavors
        PROVE  /\ DOMAIN fixer'.seen[g] = {"arn", "state", "claimed"}
               /\ fixer'.seen[g].claimed = IF labels # None /\ g \in labels THEN "yes" ELSE "no"
               /\ fixer'.seen[g].arn = (g \in arn)
               /\ fixer'.checks /\ ~fixer'.unread /\ g \notin fixer'.left =>
                    fixer'.seen[g].state = IF g \in arn THEN image[g] ELSE Absent
    <3>1. /\ DOMAIN fixer.seen[g] = {"arn", "state", "claimed"}
          /\ fixer.seen[g].claimed = IF labels # None /\ g \in labels THEN "yes" ELSE "no"
          /\ fixer.seen[g].arn = (g \in arn)
          /\ fixer.checks /\ ~fixer.unread /\ g \notin fixer.left =>
               fixer.seen[g].state = IF g \in arn THEN image[g] ELSE Absent
      BY <1>4, <2>1 DEF SeenIsTrue
    <3>2. CASE g = f
      <4>1. fixer'.seen[g] = [fixer.seen[g] EXCEPT !.state = state]
        BY <2>5, <3>2
      <4>2. ~fixer'.unread => state = image[g]
        BY <2>2, <3>2
      <4>. HIDE <2>5, <2>2
      <4>. QED  BY <2>4, <3>1, <3>2, <4>1, <4>2
    <3>3. CASE g # f
      <4>1. fixer'.seen[g] = fixer.seen[g]
        BY <2>5, <3>3
      <4>2. fixer'.checks /\ ~fixer'.unread /\ g \notin fixer'.left =>
              fixer.checks /\ ~fixer.unread /\ g \notin fixer.left
        BY <2>2, <2>3, <3>3
      <4>. QED  BY <3>1, <4>1, <4>2
    <3>. QED  BY <3>2, <3>3
  <2>7. fixer'.left \subseteq arn
    BY <1>4, <2>1, <2>3 DEF SeenIsTrue
  <2>8. SeenIsTrue'
    BY <1>1, <2>5, <2>6, <2>7 DEF SeenIsTrue
  <2>. QED  BY <1>10, <2>1, <2>3, <2>8 DEF ExitIsTrue
<1>15. CASE Decide
  <2>1. build' = build /\ fixer.phase = "images" /\ fixer.left = {}
    BY <1>15 DEF Decide
  <2>2. CASE Exits(2)
    BY <1>7, <2>1, <2>2
  <2>3. CASE ~fixer.unread /\ Exits(DriftCode)
    <3>1. fixer'.phase = "done" /\ fixer'.exit = DriftCode /\ fixer'.checks = fixer.checks
      BY <1>6, <2>3 DEF Exits, FixerGoes
    <3>2. fixer.checks => (Drift(fixer.seen, Flavors) <=> \E f \in Flavors : ~Runnable(f))
      BY <1>4, <2>1, <2>3, DriftIsTrue
    <3>3. ExitIsTrue'
      BY <1>1, <3>1, <3>2 DEF ExitIsTrue, DriftCode, Runnable
    <3>. QED  BY <1>10, <2>1, <3>1, <3>3 DEF SeenIsTrue
  <2>4. CASE fixer'.phase = "fleet"
    BY <1>8, <1>9, <2>1, <2>4
  <2>5. Exits(2) \/ (~fixer.unread /\ Exits(DriftCode)) \/ fixer'.phase = "fleet"
    BY <1>6, <1>15 DEF Decide, FixerGoes
  <2>. QED  BY <2>2, <2>3, <2>4, <2>5
<1>16. CASE FixerFleet
  <2>1. build' = build /\ fixer.phase = "fleet" /\ (Exits(2) \/ fixer'.phase = "run")
    BY <1>6, <1>16 DEF FixerFleet, FixerGoes
  <2>. QED  BY <1>7, <1>8, <1>9, <2>1
<1>17. CASE RunFix
  <2>1. fixer.phase = "run"
    BY <1>17 DEF RunFix
  <2>2. CASE build' = build /\ AllRun
    <3>1. fixer'.phase = "labels"
      BY <1>6, <2>2 DEF AllRun, FixerGoes
    <3>. QED  BY <1>8, <1>9, <2>1, <2>2, <3>1
  <2>3. CASE ~(build' = build /\ AllRun)
    <3>1. fixer'.phase = "wait"
      BY <1>6, <1>17, <2>3 DEF RunFix, FixerGoes
    <3>2. ChildRests
      BY <1>4, <2>1 DEF OneAtWork
    <3>3. \A f \in Flavors : image'[f] \notin {"CREATING", "UPDATING"}
      BY <1>1, <1>4, <3>2 DEF OneAtWork, ChildRests
    <3>. QED  BY <3>1, <3>3 DEF OneAtWork, SeenIsTrue, ExitIsTrue
  <2>. QED  BY <2>2, <2>3
<1>18. CASE FixEnds
  <2>1. build' = build /\ fixer.phase = "wait" /\ build[Child].phase \in {"done", "failed"}
        /\ (Exits(2) \/ (build[Child].phase = "done" /\ fixer'.phase = "run"))
    BY <1>6, <1>18 DEF FixEnds, FixerGoes
  <2>. QED  BY <1>7, <1>8, <2>1 DEF ChildRests
<1>. QED  BY <1>11, <1>12, <1>13, <1>14, <1>15, <1>16, <1>17, <1>18 DEF FixerStep

LEMMA ExitStep == ASSUME IInv, ExitInv, [Next]_vars PROVE ExitInv'
<1>. TypeOK
  BY DEF IInv
<1>1. ASSUME NEW b \in Builders, StartBuild(b) PROVE ExitInv'
  <2>1. PICK todo, force, skip, only : build' = [build EXCEPT ![b] = Started(todo, force, skip, only)]
    BY <1>1 DEF StartBuild
  <2>2. build'[b].phase # "idle"
    BY <2>1, Constants DEF TypeOK, Started
  <2>. QED  BY <2>2 DEF ExitInv, Alone
<1>2. CASE PutRunnerLabels
  <2>1. PICK l \in Labels : Replaces(screen.list, Edited(l), TRUE)
    BY <1>2 DEF PutRunnerLabels
  <2>2. past'.put = (past.put \/ TRUE)
    BY <2>1 DEF Replaces
  <2>. QED  BY <2>2 DEF ExitInv, Alone
<1>3. ASSUME NEW f \in Flavors, ImageEnds(f) PROVE ExitInv'
  <2>. SUFFICES ASSUME Alone' PROVE (OneAtWork /\ SeenIsTrue /\ ExitIsTrue)'
    BY DEF ExitInv
  <2>1. /\ image[f] \in {"CREATING", "UPDATING"} /\ UNCHANGED <<arn, labels, build, fixer>>
        /\ \A g \in Flavors : g # f => image'[g] = image[g]
        /\ image'[f] \notin {"CREATING", "UPDATING"} /\ past'.put = past.put
    BY <1>3 DEF ImageEnds, TypeOK
  <2>2. OneAtWork
    BY <2>1 DEF ExitInv, Alone
  <2>3. fixer.phase = "wait" \/ (fixer.phase = "done" /\ fixer.exit = 2)
    BY <2>1, <2>2 DEF OneAtWork, ChildRests
  <2>4. OneAtWork'
    BY <2>1, <2>2, <2>3 DEF OneAtWork, ChildRests, Cur
  <2>. QED  BY <2>1, <2>3, <2>4 DEF SeenIsTrue, ExitIsTrue
<1>4. CASE \/ ShowLabels \/ UNCHANGED vars
           \/ \E f \in Flavors : Launch(f) \/ VmMoves(f)
  BY <1>4, ExitQuiet DEF ShowLabels, Launch, VmMoves, vars, plane
<1>. QED  BY <1>1, <1>2, <1>3, <1>4, ExitBuild, ExitFixer DEF Next

LEMMA ExitStart == ASSUME Init PROVE ExitInv
<1>1. PICK s \in Starts : image = s.image
  BY DEF Init
<1>2. build[Child].phase = "idle" /\ fixer.phase = "idle"
  BY Constants DEF Init, IdleBuild, IdleFixer
<1>. QED  BY <1>1, <1>2 DEF ExitInv, Alone, OneAtWork, SeenIsTrue, ExitIsTrue, ChildRests

(* With no one else at work, flavors-reconcile exits with 0 only if every  *)
(* flavor can run a job, and with 1 only if one cannot, for any catalog    *)
(* and any plane (flavors-reconcile.mjs, its documented exit codes).       *)
THEOREM ExitTrue == Spec => []ExitIsTrue
<1>1. Init => IInv /\ ExitInv
  BY InitKeeps, ExitStart
<1>2. IInv /\ ExitInv /\ [Next]_vars => IInv' /\ ExitInv'
  BY NextKeeps, ExitStep
<1>3. ExitInv => ExitIsTrue
  BY DEF ExitInv, ExitIsTrue
<1>. QED  BY <1>1, <1>2, <1>3, PTL DEF Spec

=============================================================================
