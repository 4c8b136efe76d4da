---------------------------- MODULE ControlProofs ---------------------------
(***************************************************************************)
(* Theorems of the control plane, for every number of files, jobs, scans,  *)
(* consoles and flavors, and from every set of scenarios.                  *)
(***************************************************************************)
EXTENDS ControlPlane, FiniteSetTheorems, TLAPS

(* Which part of the state each part of the system leaves alone.           *)
LEMMA RegistryFrame ==
  RegistryNext => UNCHANGED <<repoVars, githubVars, scanVars, rewriteVars, jobVars>>
BY DEF RegistryNext, RegisterRead, RevalidateRead, RegisterPut, RevalidateWrite,
       DeleteFlavor, CheckStart, CheckVerdict, CheckAbandoned

LEMMA ConfigFrame ==
  ConfigNext => UNCHANGED <<secret, registryVars, githubVars, scan, analysis,
                            rewriteVars, jobVars>>
BY DEF ConfigNext, PatchRepo, PutFlavorMap, SetRunnerLabels, AllowlistExpires,
       RepoGranted, RepoWithdrawn, SetInstallationFlags, repoVars, scanVars

LEMMA DiscoveryFrame ==
  DiscoveryNext => UNCHANGED <<repoVars, registryVars, branch, pr, rewriteVars, jobVars>>
BY DEF DiscoveryNext, ScanBegin, ScanFile, ScanPut, ScanEmpty, ScanFails, Push,
       RescanRepo, githubVars

LEMMA ClaimFrame ==
  ClaimNext => UNCHANGED <<repoVars, registryVars, githubVars, scanVars, rewriteVars>>
BY DEF ClaimNext, QueueJob, Redeliver, IngestConfig, IngestClaim, IngestGate

LEMMA RoutingFrame ==
  RoutingNext => UNCHANGED <<refusal, repoVars, registryVars, githubVars, scanVars,
                             rewriteVars>>
BY DEF RoutingNext, ProvLookup, ProvResolve, ProvLaunch

LEMMA RewriteFrame ==
  RewriteNext => UNCHANGED <<repoVars, registryVars, scan, analysis, jobVars>>
BY DEF RewriteNext, RequestRewrite, RewriteBegin, RewriteProbe, RewriteRead,
       RewritePlanned, EnsureBranch, PutFile, PutsDone, FindOpenPullRequest,
       CreatePullRequest, RewriteFails, MergePullRequest, ClosePullRequest,
       EditBranch, DeleteBranch, scanVars

LEMMA DoorFrame ==
  DoorNext => UNCHANGED <<repo, install, allow, registryVars, githubVars, scanVars,
                          rewriteVars, jobVars>>
BY DEF DoorNext, DoorTick, RotateSecret, Deliver

(* A step uses up at most one request or mishap, and changes neither what  *)
(* may happen nor how often.                                               *)
ScopeStep ==
  \/ UNCHANGED scope
  \/ scope.used < scope.total /\ scope' = [scope EXCEPT !.used = @ + 1]

LEMMA Spending == ASSUME NEW r, Spend(r) PROVE ScopeStep
BY DEF Spend, Can, ScopeStep

LEMMA Resting == UNCHANGED scope => ScopeStep
BY DEF ScopeStep

LEMMA RegistryScope == RegistryNext => ScopeStep
BY Spending, Resting DEF RegistryNext, RegisterRead, RevalidateRead, RegisterPut, RevalidateWrite,
       DeleteFlavor, CheckStart, CheckVerdict, CheckAbandoned, TriggerFlavorValidation,
       Sends, Free

LEMMA ConfigScope == ConfigNext => ScopeStep
BY Spending, Resting DEF ConfigNext, PatchRepo, PutFlavorMap, SetRunnerLabels, AllowlistExpires,
       RepoGranted, RepoWithdrawn, SetInstallationFlags, Free

LEMMA DiscoveryScope == DiscoveryNext => ScopeStep
BY Spending, Resting, ZenonT(60) DEF DiscoveryNext, ScanBegin, ScanFile, ScanPut, ScanEmpty, ScanFails, Push,
       RescanRepo, Reads, Free

LEMMA ClaimScope == ClaimNext => ScopeStep
BY Spending, Resting DEF ClaimNext, QueueJob, Redeliver, IngestConfig, IngestClaim, IngestGate,
       Reads, Free

LEMMA RoutingScope == RoutingNext => ScopeStep
BY Spending, Resting DEF RoutingNext, ProvLookup, ProvResolve, ProvLaunch, Reads, Free

LEMMA RewriteScope == RewriteNext => ScopeStep
BY Spending, Resting DEF RewriteNext, RequestRewrite, RewriteBegin, RewriteProbe, RewriteRead,
       RewritePlanned, EnsureBranch, PutFile, PutsDone, FindOpenPullRequest,
       CreatePullRequest, RewriteFails, MergePullRequest, ClosePullRequest,
       EditBranch, DeleteBranch, Answer, Reads, Free

LEMMA DoorScope == DoorNext => ScopeStep
BY Spending, Resting DEF DoorNext, DoorTick, RotateSecret, Deliver, Free

LEMMA ScopeKept ==
  ASSUME ScopeInv, Next \/ UNCHANGED vars
  PROVE  ScopeInv' /\ scope'.may = scope.may
<1>1. ScopeStep
  BY RegistryScope, ConfigScope, DiscoveryScope, ClaimScope, RoutingScope,
     RewriteScope, DoorScope, Resting DEF Next, vars
<1>2. QED
  BY <1>1 DEF ScopeStep, ScopeInv

-----------------------------------------------------------------------------
(* The registry                                                            *)

LEMMA CustomNamesFinite == IsFiniteSet(CustomNames)
<1> DEFINE f == [i \in 1 .. Len(CustomBases) |-> CustomFlavorName(CustomBases[i])]
<1>1. Len(CustomBases) \in Nat /\ DOMAIN CustomBases = 1 .. Len(CustomBases)
  BY CatalogAssumption
<1>2. f \in Surjection(1 .. Len(CustomBases), CustomNames)
  BY <1>1 DEF Surjection, CustomNames, Bases
<1>3. QED
  BY <1>1, <1>2, FS_Interval, FS_Surjection DEF ExistsSurjection

(* The count and the registrations in flight never grow together.          *)
LEMMA QuotaKept ==
  ASSUME RegistryTypes, QuotaHeld,
         Registered' \subseteq Registered, Registering' \subseteq Registering
  PROVE  QuotaHeld'
<1>1. IsFiniteSet(Registered) /\ IsFiniteSet(Registering)
  BY CustomNamesFinite, ControlAssumption, FS_Subset DEF Registered, Registering
<1>2. /\ Cardinality(Registered') <= Cardinality(Registered)
      /\ Cardinality(Registering') <= Cardinality(Registering)
      /\ IsFiniteSet(Registered') /\ IsFiniteSet(Registering')
  BY <1>1, FS_Subset
<1>3. /\ Cardinality(Registered) \in Nat /\ Cardinality(Registered') \in Nat
      /\ Cardinality(Registering) \in Nat /\ Cardinality(Registering') \in Nat
      /\ Cardinality(Consoles) \in Nat /\ MaxFlavors \in Nat
  BY <1>1, <1>2, FS_CardinalityType, ControlAssumption
<1>4. QED
  BY <1>2, <1>3 DEF QuotaHeld

(* One invocation's record is replaced.                                    *)
LEMMA ConsoleMoves ==
  ASSUME RegistryTypes, NEW c \in Consoles, NEW call \in ConsoleType,
         console' = [console EXCEPT ![c] = call]
  PROVE  /\ console' \in [Consoles -> ConsoleType]
         /\ console'[c] = call
         /\ \A d \in Consoles \ {c} : console'[d] = console[d]
BY DEF RegistryTypes

LEMMA IdleConsoleType == IdleConsole \in ConsoleType /\ IdleConsole.op = "idle"
                           /\ IdleConsole.name = None
BY DEF IdleConsole, ConsoleType

(* What the conditional update of a row does, if it applies.               *)
LEMMA Transition ==
  ASSUME RegistryTypes, NEW name \in CustomNames, NEW to \in ValidationStates,
         NEW reason \in BOOLEAN, NEW evidence \in Images \union {None},
         TransitionFlavorValidation(name, to, reason, evidence)
  PROVE  /\ flavor' \in [CustomNames -> FlavorType \union {None}]
         /\ Registered' \subseteq Registered
         /\ \A n \in CustomNames \ {name} : flavor'[n] = flavor[n]
         /\ \/ flavor' = flavor
            \/ /\ CanMove(name, to)
               /\ flavor[name] \in FlavorType /\ flavor'[name] \in FlavorType
               /\ flavor'[name].state = to /\ flavor'[name].image = flavor[name].image
               /\ evidence # None => flavor'[name].evidence = evidence
<1>1. CASE ~CanMove(name, to)
  BY <1>1 DEF TransitionFlavorValidation, RegistryTypes, Registered
<1>2. CASE CanMove(name, to)
  <2> DEFINE row == [flavor[name] EXCEPT
               !.state = to, !.reason = reason,
               !.evidence = IF evidence = None THEN @ ELSE evidence]
  <2>1. flavor[name] \in FlavorType
    BY <1>2 DEF CanMove, RegistryTypes
  <2>2. flavor' = [flavor EXCEPT ![name] = row]
    BY <1>2, <2>1 DEF TransitionFlavorValidation, RegistryTypes
  <2>3. row \in FlavorType /\ row.state = to /\ row.image = flavor[name].image
        /\ (evidence # None => row.evidence = evidence)
    BY <2>1 DEF FlavorType
  <2> HIDE DEF row
  <2>4. flavor' \in [CustomNames -> FlavorType \union {None}]
        /\ flavor'[name] = row
        /\ \A n \in CustomNames \ {name} : flavor'[n] = flavor[n]
    BY <2>2, <2>3 DEF RegistryTypes
  <2>5. Registered' \subseteq Registered
    BY <2>4, <1>2 DEF Registered, CanMove
  <2>6. QED
    BY <1>2, <2>1, <2>3, <2>4, <2>5
<1>3. QED
  BY <1>1, <1>2

(* A new image, and its validation begun again.                            *)
LEMMA Repointed ==
  ASSUME RegistryTypes, NEW name \in CustomNames, NEW image \in Images,
         flavor[name] # None, RepointFlavorImage(name, image)
  PROVE  /\ flavor' \in [CustomNames -> FlavorType \union {None}]
         /\ Registered' \subseteq Registered
         /\ \A n \in CustomNames \ {name} : flavor'[n] = flavor[n]
         /\ flavor'[name] \in FlavorType /\ flavor'[name].state = "pending"
<1> DEFINE row == [flavor[name] EXCEPT !.image = image, !.state = "pending",
                                       !.reason = FALSE, !.evidence = None]
<1>1. flavor[name] \in FlavorType
  BY DEF RegistryTypes
<1>2. flavor' = [flavor EXCEPT ![name] = row]
  BY <1>1 DEF RepointFlavorImage, RegistryTypes
<1>3. row \in FlavorType /\ row.state = "pending"
  BY <1>1 DEF FlavorType, ValidationStates
<1> HIDE DEF row
<1>4. QED
  BY <1>2, <1>3 DEF RegistryTypes, Registered

LEMMA CheckTypes ==
  /\ \A name \in CustomNames, image \in Images \union {None},
       phase \in {"asked", "running"} :
       /\ Check(name, image, phase) \in CheckType
       /\ Check(name, image, phase).name = name
       /\ Check(name, image, phase).image = image
       /\ Check(name, image, phase).phase = phase
  /\ \A name \in CustomNames :
       /\ Asked(name) \in CheckType
       /\ Asked(name).name = name /\ Asked(name).phase = "asked"
BY DEF Check, CheckType, Asked

LEMMA Triggered ==
  ASSUME NEW name \in CustomNames, TriggerFlavorValidation(name)
  PROVE  checks' = checks \/ checks' = checks \union {Asked(name)}
BY DEF TriggerFlavorValidation

(* One console call at a time for a name, if none was under way.           *)
LEMMA OneChangeKept ==
  ASSUME OneChange, NEW c \in Consoles, NEW call, console' = [console EXCEPT ![c] = call],
         RegistryTypes, call \in ConsoleType, checks' = checks,
         \/ call.name = None
         \/ /\ \A k \in checks : k.name # call.name
            /\ \A d \in Consoles : console[d].name # call.name
  PROVE  OneChange'
<1>1. console'[c] = call /\ \A d \in Consoles \ {c} : console'[d] = console[d]
  BY ConsoleMoves
<1>2. \A k \in checks : k.name # None
  BY AbsenceAssumption DEF RegistryTypes, CheckType
<1>3. QED
  BY <1>1, <1>2 DEF OneChange

LEMMA RegisterReadKeeps ==
  ASSUME RegistryInv, NEW c \in Consoles, NEW name \in CustomNames, NEW image \in Images,
         RegisterRead(c, name, image), scope'.may = scope.may
  PROVE  RegistryInv'
<1> DEFINE call == [op |-> "register", name |-> name, image |-> image, seen |-> None]
<1>1. call \in ConsoleType /\ call.op = "register" /\ call.name = name /\ call.image = image
  BY DEF ConsoleType
<1>2. /\ console' = [console EXCEPT ![c] = call]
      /\ flavor' = flavor /\ checks' = checks /\ console[c].op = "idle"
      /\ Cardinality(Registered) < MaxFlavors /\ Settled(name)
  BY DEF RegisterRead
<1> HIDE DEF call
<1>3. RegistryTypes'
  BY <1>1, <1>2, ConsoleMoves, AbsenceAssumption DEF RegistryInv, RegistryTypes
<1>4. QuotaHeld'
  <2>1. Registering' \subseteq Consoles /\ Registered' = Registered
    BY <1>2 DEF Registering, Registered
  <2>2. IsFiniteSet(Registered) /\ IsFiniteSet(Consoles)
    BY CustomNamesFinite, FS_Subset, ControlAssumption DEF Registered
  <2>3. Cardinality(Registering') <= Cardinality(Consoles) /\ IsFiniteSet(Registering')
    BY <2>1, <2>2, FS_Subset
  <2>4. /\ Cardinality(Registered) \in Nat /\ Cardinality(Registering') \in Nat
        /\ Cardinality(Consoles) \in Nat /\ MaxFlavors \in Nat
    BY <2>2, <2>3, FS_CardinalityType, ControlAssumption
  <2>5. QED
    BY <2>1, <2>3, <2>4, <1>2 DEF QuotaHeld
<1>5. ASSUME ~Overlap' PROVE OneChange' /\ ChecksOfRow' /\ ValidIsProven'
  <2>1. ~Overlap /\ OneChange /\ ChecksOfRow /\ ValidIsProven /\ RegistryTypes
    BY <1>5 DEF Overlap, RegistryInv
  <2>2. OneChange'
    BY <2>1, <1>1, <1>2, OneChangeKept DEF Settled
  <2>3. QED
    BY <1>2, <2>1, <2>2, <1>5 DEF ChecksOfRow, ValidIsProven, Registered
<1>6. QED
  BY <1>3, <1>4, <1>5 DEF RegistryInv

LEMMA RevalidateReadKeeps ==
  ASSUME RegistryInv, NEW c \in Consoles, NEW name \in CustomNames,
         NEW image \in Images \union {None},
         RevalidateRead(c, name, image), scope'.may = scope.may
  PROVE  RegistryInv'
<1> DEFINE call == [op |-> "revalidate", name |-> name, image |-> image,
                    seen |-> flavor[name]]
<1>1. call \in ConsoleType /\ call.op = "revalidate" /\ call.name = name
      /\ call.seen = flavor[name]
  BY DEF ConsoleType, RegistryInv, RegistryTypes
<1>2. /\ console' = [console EXCEPT ![c] = call]
      /\ flavor' = flavor /\ checks' = checks /\ flavor[name] # None /\ Settled(name)
  BY DEF RevalidateRead
<1> HIDE DEF call
<1>3. RegistryTypes'
  BY <1>1, <1>2, ConsoleMoves, AbsenceAssumption DEF RegistryInv, RegistryTypes
<1>4. QuotaHeld'
  <2>1. Registering' \subseteq Registering /\ Registered' \subseteq Registered
    BY <1>1, <1>2, ConsoleMoves DEF Registering, Registered, RegistryInv
  <2>2. QED
    BY <2>1, QuotaKept DEF RegistryInv
<1>5. ASSUME ~Overlap' PROVE OneChange' /\ ChecksOfRow' /\ ValidIsProven'
  <2>1. ~Overlap /\ OneChange /\ ChecksOfRow /\ ValidIsProven /\ RegistryTypes
    BY <1>5 DEF Overlap, RegistryInv
  <2>2. OneChange'
    BY <2>1, <1>1, <1>2, OneChangeKept DEF Settled
  <2>3. QED
    BY <1>2, <2>1, <2>2, <1>5 DEF ChecksOfRow, ValidIsProven, Registered
<1>6. QED
  BY <1>3, <1>4, <1>5 DEF RegistryInv

(* A call ends: its flavor is as it was or pending, and a validation of it *)
(* may be asked for.                                                       *)
LEMMA CallEnds ==
  ASSUME RegistryInv, NEW c \in Consoles, console[c].op # "idle",
         console' = [console EXCEPT ![c] = IdleConsole],
         checks' = checks \/ checks' = checks \union {Asked(console[c].name)},
         flavor' \in [CustomNames -> FlavorType \union {None}],
         \A n \in CustomNames \ {console[c].name} : flavor'[n] = flavor[n],
         \/ flavor' = flavor
         \/ /\ flavor'[console[c].name] # None
            /\ flavor'[console[c].name].state = "pending",
         QuotaHeld', scope'.may = scope.may
  PROVE  RegistryInv'
<1> DEFINE name == console[c].name
<1>1. name \in CustomNames /\ RegistryTypes
  BY DEF RegistryInv, RegistryTypes, ConsoleType
<1>2. RegistryTypes'
  <2>1. checks' \subseteq CheckType
    BY <1>1, CheckTypes DEF RegistryTypes
  <2>2. /\ console' \in [Consoles -> ConsoleType] /\ console'[c] = IdleConsole
        /\ \A d \in Consoles \ {c} : console'[d] = console[d]
    BY <1>1, IdleConsoleType, ConsoleMoves
  <2>3. QED
    BY <2>1, <2>2, <1>1, IdleConsoleType DEF RegistryTypes
<1>3. ASSUME ~Overlap' PROVE OneChange' /\ ChecksOfRow' /\ ValidIsProven'
  <2>1. ~Overlap /\ OneChange /\ ChecksOfRow /\ ValidIsProven
    BY <1>3 DEF Overlap, RegistryInv
  <2>2. /\ console'[c].name = None
        /\ \A d \in Consoles \ {c} : console'[d] = console[d] /\ console[d].name # name
        /\ \A k \in checks : k.name # name
    <3>1. console'[c] = IdleConsole /\ \A d \in Consoles \ {c} : console'[d] = console[d]
      BY <1>1, IdleConsoleType, ConsoleMoves
    <3>2. name # None
      BY <1>1, AbsenceAssumption
    <3>3. \A d \in Consoles \ {c} : console[d].name # name
      BY <2>1, <3>2 DEF OneChange
    <3>4. \A k \in checks : k.name # name
      BY <2>1 DEF OneChange
    <3>5. QED
      BY <3>1, <3>3, <3>4, IdleConsoleType
  <2>3. \A k \in checks' : k \in checks \/ k = Asked(name)
    OBVIOUS
  <2>4. OneChange'
    <3>1. \A k \in checks' : k.name # None
      BY <1>2, AbsenceAssumption DEF RegistryTypes, CheckType
    <3>2. Asked(name).name = name
      BY <1>1, CheckTypes
    <3>3. QED
      BY <2>1, <2>2, <2>3, <3>1, <3>2 DEF OneChange
  <2>5. ChecksOfRow'
    <3>1. Asked(name).phase = "asked"
      BY <1>1, CheckTypes
    <3>2. \A k \in checks : k.name \in CustomNames
      BY <1>1 DEF RegistryTypes, CheckType
    <3>3. QED
      BY <2>1, <2>2, <2>3, <3>1, <3>2 DEF ChecksOfRow
  <2>6. ValidIsProven'
    BY <2>1, <1>3 DEF ValidIsProven, Registered
  <2>7. QED
    BY <2>4, <2>5, <2>6
<1>4. QED
  BY <1>2, <1>3 DEF RegistryInv

LEMMA RegisterPutKeeps ==
  ASSUME RegistryInv, NEW c \in Consoles, RegisterPut(c), scope'.may = scope.may
  PROVE  RegistryInv'
<1> DEFINE name == console[c].name
<1>1. /\ RegistryTypes /\ QuotaHeld /\ console[c].op = "register"
      /\ name \in CustomNames /\ console[c].image \in Images
      /\ console' = [console EXCEPT ![c] = IdleConsole]
  BY DEF RegistryInv, RegistryTypes, ConsoleType, RegisterPut
<1>2. /\ console'[c].op = "idle"
      /\ \A d \in Consoles \ {c} : console'[d] = console[d]
  BY <1>1, IdleConsoleType, ConsoleMoves
<1>3. Registering' = Registering \ {c} /\ c \in Registering
  BY <1>1, <1>2 DEF Registering
<1>4. CASE flavor' = flavor /\ checks' = checks
  <2>1. QuotaHeld'
    BY <1>1, <1>3, <1>4, QuotaKept DEF Registered
  <2>2. flavor' \in [CustomNames -> FlavorType \union {None}]
    BY <1>1, <1>4 DEF RegistryTypes
  <2>3. QED
    BY <1>1, <1>4, <2>1, <2>2, CallEnds
<1>5. ASSUME NEW caps \in SUBSET {"docker"}, flavor[name] = None,
             flavor' = [flavor EXCEPT ![name] = NewRow(console[c].image, caps)],
             TriggerFlavorValidation(name)
      PROVE  RegistryInv'
  <2> DEFINE row == NewRow(console[c].image, caps)
  <2>1. row \in FlavorType /\ row.state = "pending" /\ row # None
    <3>1. row \in FlavorType /\ row.state = "pending"
      BY <1>1 DEF NewRow, FlavorType, ValidationStates
    <3> HIDE DEF row
    <3>2. QED
      BY <3>1, AbsenceAssumption
  <2> HIDE DEF row
  <2>2. /\ flavor' \in [CustomNames -> FlavorType \union {None}] /\ flavor'[name] = row
        /\ \A n \in CustomNames \ {name} : flavor'[n] = flavor[n]
    BY <1>1, <1>5, <2>1 DEF row, RegistryTypes
  <2>3. QuotaHeld'
    <3>1. Registered' = Registered \union {name} /\ name \notin Registered
      BY <2>1, <2>2, <1>1, <1>5 DEF Registered
    <3>2. IsFiniteSet(Registered) /\ IsFiniteSet(Registering)
      BY CustomNamesFinite, ControlAssumption, FS_Subset DEF Registered, Registering
    <3>3. /\ Cardinality(Registered') = Cardinality(Registered) + 1
          /\ Cardinality(Registering') = Cardinality(Registering) - 1
      BY <3>1, <3>2, <1>3, FS_AddElement, FS_RemoveElement
    <3>4. /\ Cardinality(Registered) \in Nat /\ Cardinality(Registering) \in Nat
          /\ Cardinality(Consoles) \in Nat /\ MaxFlavors \in Nat
      BY <3>2, FS_CardinalityType, ControlAssumption
    <3>5. QED
      BY <1>1, <3>3, <3>4 DEF QuotaHeld
  <2>4. checks' = checks \/ checks' = checks \union {Asked(name)}
    BY <1>1, <1>5, Triggered
  <2>5. QED
    BY <1>1, <2>1, <2>2, <2>3, <2>4, CallEnds
<1>6. QED
  BY <1>4, <1>5 DEF RegisterPut

LEMMA RevalidateWriteKeeps ==
  ASSUME RegistryInv, NEW c \in Consoles, RevalidateWrite(c), scope'.may = scope.may
  PROVE  RegistryInv'
<1> DEFINE name == console[c].name
           image == console[c].image
<1>1. /\ RegistryTypes /\ QuotaHeld /\ console[c].op = "revalidate"
      /\ name \in CustomNames /\ image \in Images \union {None}
      /\ console' = [console EXCEPT ![c] = IdleConsole]
  BY DEF RegistryInv, RegistryTypes, ConsoleType, RevalidateWrite
<1>2. Registering' \subseteq Registering
  BY <1>1, IdleConsoleType, ConsoleMoves DEF Registering
<1>3. CASE flavor' = flavor /\ (checks' = checks \/ TriggerFlavorValidation(name))
  <2>1. QuotaHeld'
    BY <1>1, <1>2, <1>3, QuotaKept DEF Registered
  <2>2. flavor' \in [CustomNames -> FlavorType \union {None}]
    BY <1>1, <1>3 DEF RegistryTypes
  <2>3. checks' = checks \/ checks' = checks \union {Asked(name)}
    BY <1>1, <1>3, Triggered
  <2>4. QED
    BY <1>1, <1>3, <2>1, <2>2, <2>3, CallEnds
<1>4. CASE image # None /\ flavor[name] # None /\ RepointFlavorImage(name, image)
           /\ TriggerFlavorValidation(name)
  <2>1. /\ flavor' \in [CustomNames -> FlavorType \union {None}]
        /\ Registered' \subseteq Registered
        /\ \A n \in CustomNames \ {name} : flavor'[n] = flavor[n]
        /\ flavor'[name] \in FlavorType /\ flavor'[name].state = "pending"
    BY <1>1, <1>4, Repointed
  <2>2. QuotaHeld' /\ flavor'[name] # None
    BY <1>1, <1>2, <2>1, QuotaKept, AbsenceAssumption
  <2>3. checks' = checks \/ checks' = checks \union {Asked(name)}
    BY <1>1, <1>4, Triggered
  <2>4. QED
    BY <1>1, <2>1, <2>2, <2>3, CallEnds
<1>5. CASE TransitionFlavorValidation(name, "pending", FALSE, None)
           /\ TriggerFlavorValidation(name)
  <2>1. /\ flavor' \in [CustomNames -> FlavorType \union {None}]
        /\ Registered' \subseteq Registered
        /\ \A n \in CustomNames \ {name} : flavor'[n] = flavor[n]
        /\ \/ flavor' = flavor
           \/ flavor'[name] \in FlavorType /\ flavor'[name].state = "pending"
    BY <1>1, <1>5, Transition DEF ValidationStates
  <2>2. QuotaHeld'
    BY <1>1, <1>2, <2>1, QuotaKept
  <2>3. checks' = checks \/ checks' = checks \union {Asked(name)}
    BY <1>1, <1>5, Triggered
  <2>4. QED
    BY <1>1, <2>1, <2>2, <2>3, CallEnds, AbsenceAssumption
<1>6. QED
  BY <1>1, <1>3, <1>4, <1>5 DEF RevalidateWrite

LEMMA DeleteFlavorKeeps ==
  ASSUME RegistryInv, NEW name \in CustomNames, DeleteFlavor(name), scope'.may = scope.may
  PROVE  RegistryInv'
<1>1. /\ flavor' = [flavor EXCEPT ![name] = None]
      /\ console' = console /\ checks' = checks /\ Settled(name) /\ RegistryTypes
  BY DEF DeleteFlavor, RegistryInv
<1>2. /\ flavor' \in [CustomNames -> FlavorType \union {None}] /\ flavor'[name] = None
      /\ \A n \in CustomNames \ {name} : flavor'[n] = flavor[n]
  BY <1>1 DEF RegistryTypes
<1>3. RegistryTypes'
  BY <1>1, <1>2 DEF RegistryTypes
<1>4. QuotaHeld'
  BY <1>1, <1>2, QuotaKept DEF Registered, Registering, RegistryInv
<1>5. ASSUME ~Overlap' PROVE OneChange' /\ ChecksOfRow' /\ ValidIsProven'
  <2>1. /\ ~Overlap /\ OneChange /\ ChecksOfRow /\ ValidIsProven
        /\ \A k \in checks : k.name # name /\ k.name \in CustomNames
    BY <1>1, <1>5 DEF Overlap, RegistryInv, RegistryTypes, CheckType, Settled
  <2>2. QED
    BY <1>1, <1>2, <1>5, <2>1 DEF OneChange, ChecksOfRow, ValidIsProven, Registered
<1>6. QED
  BY <1>3, <1>4, <1>5 DEF RegistryInv

(* A check goes: what is left is one of each name.                         *)
LEMMA CheckGoes ==
  ASSUME OneChange, NEW k \in checks, checks' \subseteq checks, console' = console
  PROVE  OneChange'
BY DEF OneChange

LEMMA CheckStartKeeps ==
  ASSUME RegistryInv, NEW k \in checks, CheckStart(k), scope'.may = scope.may
  PROVE  RegistryInv'
<1> DEFINE name == k.name
           run  == Check(name, flavor[name].image, "running")
<1>1. /\ name \in CustomNames /\ console' = console /\ RegistryTypes /\ QuotaHeld
      /\ k.phase = "asked"
  BY DEF RegistryInv, RegistryTypes, CheckType, CheckStart
<1>2. CASE flavor' = flavor /\ checks' = checks \ {k}
  <2>1. RegistryTypes' /\ QuotaHeld'
    BY <1>1, <1>2, QuotaKept DEF RegistryTypes, Registered, Registering
  <2>2. ASSUME ~Overlap' PROVE OneChange' /\ ChecksOfRow' /\ ValidIsProven'
    BY <1>1, <1>2, <2>2, CheckGoes
       DEF Overlap, RegistryInv, ChecksOfRow, ValidIsProven, Registered
  <2>3. QED
    BY <2>1, <2>2 DEF RegistryInv
<1>3. CASE /\ CanMove(name, "validating")
           /\ TransitionFlavorValidation(name, "validating", FALSE, None)
           /\ checks' = (checks \ {k}) \union {run}
  <2>1. /\ flavor' \in [CustomNames -> FlavorType \union {None}]
        /\ Registered' \subseteq Registered
        /\ \A n \in CustomNames \ {name} : flavor'[n] = flavor[n]
        /\ \/ flavor' = flavor
           \/ /\ flavor'[name] \in FlavorType /\ flavor'[name].state = "validating"
              /\ flavor'[name].image = flavor[name].image
    BY <1>1, <1>3, Transition DEF ValidationStates
  <2>2. flavor[name] \in FlavorType /\ flavor[name] # None
    BY <1>1, <1>3 DEF RegistryTypes, CanMove
  <2>3. flavor[name].image \in Images
    BY <2>2 DEF FlavorType
  <2>4. run \in CheckType /\ run.name = name /\ run.image = flavor[name].image
    BY <1>1, <2>3, CheckTypes
  <2>5. RegistryTypes' /\ QuotaHeld'
    BY <1>1, <1>3, <2>1, <2>4, QuotaKept DEF RegistryTypes, Registering
  <2>6. flavor'[name] # None /\ flavor'[name].state = "validating"
        /\ flavor'[name].image = flavor[name].image
    <3>1. flavor'[name].state = "validating" /\ flavor'[name].image = flavor[name].image
      BY <1>1, <1>3, <2>2 DEF TransitionFlavorValidation, RegistryTypes, FlavorType
    <3>2. QED
      BY <1>1, <2>1, <2>2, <3>1, AbsenceAssumption
  <2> HIDE DEF run
  <2>7. ASSUME ~Overlap' PROVE OneChange' /\ ChecksOfRow' /\ ValidIsProven'
    <3>1. OneChange /\ ChecksOfRow /\ ValidIsProven /\ ~Overlap
      BY <2>7 DEF Overlap, RegistryInv
    <3>2. /\ \A l \in checks' : l = run \/ (l \in checks /\ l.name # name)
          /\ \A l \in checks : l.name \in CustomNames
      BY <1>1, <1>3, <3>1 DEF OneChange, RegistryTypes, CheckType
    <3>3. OneChange'
      <4>1. \A d \in Consoles : console'[d].name # name
        BY <1>1, <3>1 DEF OneChange
      <4>2. \A l \in checks', d \in Consoles : console'[d].name # l.name
        BY <1>1, <3>1, <3>2, <4>1, <2>4 DEF OneChange
      <4>3. \A l, m \in checks' : l.name = m.name => l = m
        BY <3>1, <3>2, <2>4 DEF OneChange
      <4>4. QED
        BY <1>1, <3>1, <4>2, <4>3 DEF OneChange
    <3>4. ChecksOfRow'
      BY <2>1, <2>4, <2>6, <3>1, <3>2 DEF ChecksOfRow
    <3>5. ValidIsProven'
      BY <1>1, <2>1, <2>6, <2>7, <3>1 DEF ValidIsProven, Registered
    <3>6. QED
      BY <3>3, <3>4, <3>5
  <2>8. QED
    BY <2>5, <2>7 DEF RegistryInv
<1>4. QED
  BY <1>2, <1>3 DEF CheckStart

(* A verdict, or its absence, ends a check.                                *)
LEMMA CheckEnds ==
  ASSUME RegistryInv, NEW k \in checks, k.phase = "running", checks' = checks \ {k},
         NEW to \in ValidationStates, NEW reason \in BOOLEAN,
         NEW evidence \in Images \union {None},
         TransitionFlavorValidation(k.name, to, reason, evidence),
         to = "valid" => k.image \in GoodImages /\ evidence = k.image,
         console' = console, scope'.may = scope.may
  PROVE  RegistryInv'
<1> DEFINE name == k.name
<1>1. /\ name \in CustomNames /\ RegistryTypes /\ QuotaHeld
      /\ \A l \in checks : l.name \in CustomNames
  BY DEF RegistryInv, RegistryTypes, CheckType
<1>2. /\ flavor' \in [CustomNames -> FlavorType \union {None}]
      /\ Registered' \subseteq Registered
      /\ \A n \in CustomNames \ {name} : flavor'[n] = flavor[n]
      /\ \/ flavor' = flavor
         \/ /\ flavor'[name] \in FlavorType
            /\ flavor'[name].state = to /\ flavor'[name].image = flavor[name].image
            /\ evidence # None => flavor'[name].evidence = evidence
  BY <1>1, Transition
<1>3. RegistryTypes' /\ QuotaHeld'
  BY <1>1, <1>2, QuotaKept DEF RegistryTypes, Registering
<1>4. ASSUME ~Overlap' PROVE OneChange' /\ ChecksOfRow' /\ ValidIsProven'
  <2>1. OneChange /\ ChecksOfRow /\ ValidIsProven /\ ~Overlap
    BY <1>4 DEF Overlap, RegistryInv
  <2>2. OneChange'
    BY <2>1, CheckGoes
  <2>3. \A l \in checks' : l \in checks /\ l.name # name
    BY <2>1 DEF OneChange
  <2>4. ChecksOfRow'
    BY <1>1, <1>2, <2>1, <2>3 DEF ChecksOfRow
  <2>5. /\ flavor[name] # None /\ flavor[name].state = "validating"
        /\ flavor[name].image = k.image
    BY <2>1 DEF ChecksOfRow
  <2>6. flavor'[name].state = "valid" =>
          /\ flavor'[name].image \in GoodImages
          /\ flavor'[name].evidence = flavor'[name].image
    <3>1. CASE flavor' = flavor
      BY <3>1, <2>5
    <3>2. CASE flavor' # flavor
      BY <3>2, <1>2, <2>5, AbsenceAssumption, ControlAssumption
    <3>3. QED
      BY <3>1, <3>2
  <2>7. ValidIsProven'
    BY <1>1, <1>2, <2>1, <2>6 DEF ValidIsProven, Registered
  <2>8. QED
    BY <2>2, <2>4, <2>7
<1>5. QED
  BY <1>3, <1>4 DEF RegistryInv

LEMMA CheckVerdictKeeps ==
  ASSUME RegistryInv, NEW k \in checks, CheckVerdict(k), scope'.may = scope.may
  PROVE  RegistryInv'
<1> DEFINE to == IF k.image \in GoodImages THEN "valid" ELSE "invalid"
<1>1. /\ k.phase = "running" /\ checks' = checks \ {k} /\ console' = console
      /\ TransitionFlavorValidation(k.name, to, k.image \notin GoodImages, k.image)
      /\ k.image \in Images \union {None}
  BY DEF CheckVerdict, RegistryInv, RegistryTypes, CheckType
<1>2. to \in ValidationStates /\ (to = "valid" => k.image \in GoodImages)
  BY DEF ValidationStates
<1>3. (k.image \notin GoodImages) \in BOOLEAN
  OBVIOUS
<1> HIDE DEF to
<1>4. QED
  BY <1>1, <1>2, <1>3, CheckEnds

LEMMA CheckAbandonedKeeps ==
  ASSUME RegistryInv, NEW k \in checks, CheckAbandoned(k), scope'.may = scope.may
  PROVE  RegistryInv'
<1>1. /\ k.phase = "running" /\ checks' = checks \ {k} /\ console' = console
      /\ TransitionFlavorValidation(k.name, "pending", FALSE, None)
  BY DEF CheckAbandoned
<1>2. QED
  BY <1>1, CheckEnds DEF ValidationStates

LEMMA RegistryStays ==
  ASSUME RegistryInv, UNCHANGED registryVars, scope'.may = scope.may
  PROVE  RegistryInv'
BY DEF RegistryInv, registryVars, RegistryTypes, QuotaHeld, Registered, Registering,
       OneChange, ChecksOfRow, ValidIsProven, Overlap

LEMMA RegistryKept ==
  ASSUME RegistryInv, Next \/ UNCHANGED vars, scope'.may = scope.may
  PROVE  RegistryInv'
<1>1. CASE RegistryNext
  BY <1>1, RegisterReadKeeps, RevalidateReadKeeps, RegisterPutKeeps, RevalidateWriteKeeps,
     DeleteFlavorKeeps, CheckStartKeeps, CheckVerdictKeeps, CheckAbandonedKeeps
     DEF RegistryNext
<1>2. CASE UNCHANGED registryVars
  BY <1>2, RegistryStays
<1>3. QED
  BY <1>1, <1>2, ConfigFrame, DiscoveryFrame, ClaimFrame, RoutingFrame, RewriteFrame,
     DoorFrame DEF Next, vars, registryVars

-----------------------------------------------------------------------------
(* The webhook secret                                                      *)

SecretType ==
  [live : Nat, cached : Nat, ttl : 0 .. SecretTtl, age : 0 .. SecretTtl,
   recheck : 0 .. RecheckWindow, answer : {"none", "accepted", "refused", "failed"}]

LEMMA Spans == SecretTtl = 2 /\ RecheckWindow = 2
BY DEF SecretTtl, RecheckWindow

LEMMA SecretFields ==
  ASSUME NEW s \in SecretType
  PROVE  /\ s.live \in Nat /\ s.cached \in Nat /\ s.ttl \in 0 .. 2 /\ s.age \in 0 .. 2
         /\ s.recheck \in 0 .. 2
         /\ s.answer \in {"none", "accepted", "refused", "failed"}
BY Spans DEF SecretType

LEMMA SecretInvType == SecretInv => secret \in SecretType
BY DEF SecretInv, SecretType

LEMMA DoorTickKeeps ==
  ASSUME SecretInv, DoorTick, scope'.may = scope.may
  PROVE  SecretInv'
<1>1. /\ secret.live \in Nat /\ secret.cached \in Nat /\ secret.ttl \in 0 .. 2
      /\ secret.age \in 0 .. 2 /\ secret.recheck \in 0 .. 2
  BY SecretInvType, SecretFields
<1>2. /\ Less(secret.ttl) \in 0 .. 2 /\ Less(secret.recheck) \in 0 .. 2
      /\ Less(secret.ttl) > 0 => Less(secret.ttl) = secret.ttl - 1
      /\ Less(secret.recheck) > 0 => secret.recheck > 0
      /\ secret.recheck = 0 => Less(secret.recheck) = 0
  BY <1>1 DEF Less
<1> DEFINE older == IF secret.age < SecretTtl THEN secret.age + 1 ELSE secret.age
<1>3. older \in 0 .. 2 /\ older <= secret.age + 1
  BY <1>1, Spans
<1> HIDE DEF older
<1>4. secret' = [secret EXCEPT !.ttl = Less(secret.ttl), !.recheck = Less(secret.recheck),
                               !.answer = "none", !.age = older]
  BY DEF DoorTick, older
<1>5. /\ secret' \in SecretType
      /\ secret'.live = secret.live /\ secret'.cached = secret.cached
      /\ secret'.ttl = Less(secret.ttl) /\ secret'.recheck = Less(secret.recheck)
      /\ secret'.age = older
  BY <1>2, <1>3, <1>4, SecretInvType, Spans DEF SecretType
<1>6. secret'.cached # secret'.live /\ secret'.ttl > 0 =>
        secret'.ttl + secret'.age <= SecretTtl
  BY <1>1, <1>2, <1>3, <1>5, Spans DEF SecretInv
<1>7. secret'.cached <= secret'.live
  BY <1>5 DEF SecretInv
<1>8. scope'.may \intersect {"junk", "fault"} = {} /\ secret'.live <= 1 =>
        /\ secret'.recheck > 0 => secret'.cached = secret'.live
        /\ secret'.live = 0 => secret'.recheck = 0
  BY <1>1, <1>2, <1>5 DEF SecretInv
<1>9. QED
  BY <1>5, <1>6, <1>7, <1>8 DEF SecretInv, SecretType

LEMMA RotateKeeps ==
  ASSUME SecretInv, RotateSecret, scope'.may = scope.may
  PROVE  SecretInv'
<1>1. /\ secret.live \in Nat /\ secret.cached \in Nat /\ secret.ttl \in 0 .. 2
      /\ secret.age \in 0 .. 2 /\ secret.recheck \in 0 .. 2
  BY SecretInvType, SecretFields
<1>2. secret' = [secret EXCEPT !.live = secret.live + 1, !.age = 0, !.answer = "none"]
  BY DEF RotateSecret
<1>3. /\ secret' \in SecretType
      /\ secret'.live = secret.live + 1 /\ secret'.cached = secret.cached
      /\ secret'.ttl = secret.ttl /\ secret'.recheck = secret.recheck /\ secret'.age = 0
  <2>1. secret.live + 1 \in Nat /\ 0 \in 0 .. SecretTtl
    BY <1>1, Spans
  <2>2. QED
    BY <1>2, <2>1, SecretInvType DEF SecretType
<1>4. QED
  BY <1>1, <1>3, Spans DEF SecretInv, SecretType

(* The copy a delivery is judged by.                                       *)
LEMMA Read ==
  ASSUME SecretInv
  PROVE  LET read == GetParam(secret) IN
         /\ read \in SecretType /\ read.live = secret.live /\ read.age = secret.age
         /\ read.recheck = secret.recheck
         /\ read.cached # read.live =>
              read.cached = secret.cached /\ read.ttl = secret.ttl /\ secret.ttl > 0
         /\ read.cached \in {secret.cached, secret.live}
<1>1. secret \in SecretType
  BY SecretInvType
<1>2. CASE secret.ttl > 0
  BY <1>1, <1>2 DEF GetParam
<1>3. CASE ~(secret.ttl > 0)
  <2>1. GetParam(secret) = [secret EXCEPT !.cached = secret.live, !.ttl = SecretTtl]
    BY <1>3 DEF GetParam
  <2>2. secret.live \in Nat /\ SecretTtl \in 0 .. SecretTtl
    BY <1>1, SecretFields, Spans
  <2>3. QED
    BY <1>1, <2>1, <2>2 DEF SecretType
<1>4. QED
  BY <1>2, <1>3

(* What a delivery leaves behind.  A mismatch that finds the window open   *)
(* ends with the stored secret cached, unless the re-read fails.           *)
LEMMA Judged ==
  ASSUME SecretInv, NEW signed, NEW works \in BOOLEAN
  PROVE  LET judged == VerifyWithRotation(GetParam(secret), signed, works) IN
         /\ judged \in SecretType
         /\ judged.live = secret.live /\ judged.age = secret.age
         /\ judged.cached \in {secret.cached, secret.live}
         /\ judged.cached # judged.live => judged.ttl = secret.ttl /\ secret.ttl > 0
         /\ \/ judged.recheck = secret.recheck
            \/ ~works
            \/ judged.cached = judged.live /\ signed # GetParam(secret).cached
         /\ signed = secret.live /\ judged.answer = "refused" =>
              /\ secret.cached # secret.live /\ secret.ttl > 0
              /\ secret.recheck > 0 \/ ~works
<1> DEFINE read   == GetParam(secret)
           judged == VerifyWithRotation(read, signed, works)
<1>1. /\ read \in SecretType /\ read.live = secret.live /\ read.age = secret.age
      /\ read.recheck = secret.recheck
      /\ read.cached # read.live =>
           read.cached = secret.cached /\ read.ttl = secret.ttl /\ secret.ttl > 0
      /\ read.cached \in {secret.cached, secret.live}
  BY Read
<1>2. RecheckWindow \in 0 .. RecheckWindow /\ 0 \in 0 .. SecretTtl
  BY Spans
<1> HIDE DEF read
<1>3. CASE signed = read.cached
  <2>1. judged = [read EXCEPT !.answer = "accepted"]
    BY <1>3 DEF VerifyWithRotation
  <2>2. QED
    BY <1>1, <1>3, <2>1 DEF SecretType, read
<1>4. CASE signed # read.cached /\ read.recheck > 0
  <2>1. judged = [read EXCEPT !.answer = "refused"]
    BY <1>4 DEF VerifyWithRotation
  <2>2. QED
    BY <1>1, <1>4, <2>1 DEF SecretType, read
<1>5. CASE signed # read.cached /\ ~(read.recheck > 0) /\ ~works
  <2>1. judged = [[read EXCEPT !.recheck = RecheckWindow] EXCEPT !.answer = "refused"]
    BY <1>5 DEF VerifyWithRotation
  <2>2. QED
    BY <1>1, <1>2, <1>5, <2>1 DEF SecretType, read
<1>6. CASE signed # read.cached /\ ~(read.recheck > 0) /\ works
  <2> DEFINE answer == IF signed = read.live THEN "accepted" ELSE "refused"
  <2>1. judged = [[[read EXCEPT !.recheck = RecheckWindow]
                     EXCEPT !.cached = read.live, !.ttl = 0] EXCEPT !.answer = answer]
    BY <1>1, <1>6 DEF VerifyWithRotation, GetParamFresh, SecretType
  <2>2. answer \in {"accepted", "refused"} /\ (signed = read.live => answer = "accepted")
    OBVIOUS
  <2> HIDE DEF answer
  <2>3. /\ judged \in SecretType /\ judged.live = read.live /\ judged.age = read.age
        /\ judged.cached = read.live /\ judged.answer = answer
    BY <1>1, <1>2, <2>1, <2>2 DEF SecretType
  <2>4. QED
    BY <1>1, <1>6, <2>2, <2>3 DEF read
<1>7. QED
  BY <1>3, <1>4, <1>5, <1>6 DEF read

LEMMA DeliverKeeps ==
  ASSUME SecretInv, ScopeInv, NEW signed, signed \in {secret.live, None}, Deliver(signed),
         scope'.may = scope.may
  PROVE  SecretInv' /\ (RefusedOnlyInRotation => RefusedOnlyInRotation')
<1> DEFINE set(answer) == [secret EXCEPT !.answer = answer]
<1>1. /\ secret \in SecretType
      /\ secret.live \in Nat /\ secret.cached \in Nat /\ secret.ttl \in 0 .. 2
      /\ secret.age \in 0 .. 2 /\ secret.recheck \in 0 .. 2
  BY SecretInvType, SecretFields
<1>2. PICK works \in BOOLEAN :
        /\ works \/ "fault" \in scope.may
        /\ secret' = IF secret.ttl = 0 /\ ~works THEN set("failed")
                     ELSE LET judged == VerifyWithRotation(GetParam(secret), signed, works)
                          IN  IF signed = None THEN [judged EXCEPT !.answer = "none"]
                              ELSE judged
  BY DEF Deliver
<1>3. CASE secret' = set("failed")
  <2>1. /\ secret' \in SecretType /\ secret'.live = secret.live
        /\ secret'.cached = secret.cached /\ secret'.ttl = secret.ttl
        /\ secret'.age = secret.age /\ secret'.recheck = secret.recheck
        /\ secret'.answer = "failed"
    BY <1>1, <1>3 DEF SecretType
  <2>2. QED
    BY <2>1 DEF SecretInv, SecretType, RefusedOnlyInRotation
<1>4. CASE /\ secret' # set("failed")
           /\ secret' = LET judged == VerifyWithRotation(GetParam(secret), signed, works)
                        IN  IF signed = None THEN [judged EXCEPT !.answer = "none"]
                            ELSE judged
  <2> DEFINE judged == VerifyWithRotation(GetParam(secret), signed, works)
  <2>1. /\ judged \in SecretType
        /\ judged.live = secret.live /\ judged.age = secret.age
        /\ judged.cached \in {secret.cached, secret.live}
        /\ judged.cached # judged.live => judged.ttl = secret.ttl /\ secret.ttl > 0
        /\ \/ judged.recheck = secret.recheck
           \/ ~works
           \/ judged.cached = judged.live /\ signed # GetParam(secret).cached
        /\ signed = secret.live /\ judged.answer = "refused" =>
             /\ secret.cached # secret.live /\ secret.ttl > 0
             /\ secret.recheck > 0 \/ ~works
    BY Judged
  <2> HIDE DEF judged
  <2>2. /\ secret' \in SecretType /\ secret'.live = secret.live /\ secret'.age = secret.age
        /\ secret'.cached = judged.cached /\ secret'.ttl = judged.ttl
        /\ secret'.recheck = judged.recheck
        /\ signed = None => secret'.answer = "none"
        /\ signed # None => secret'.answer = judged.answer
    BY <1>4, <2>1 DEF SecretType, judged
  <2>3. /\ secret'.cached <= secret'.live
        /\ secret'.cached # secret'.live /\ secret'.ttl > 0 =>
             secret'.ttl + secret'.age <= SecretTtl
    BY <1>1, <2>1, <2>2, Spans DEF SecretInv
  <2>4. ASSUME scope.may \intersect {"junk", "fault"} = {}, secret.live <= 1
        PROVE  /\ judged.recheck > 0 => judged.cached = secret.live
               /\ secret.live = 0 => judged.recheck = 0
    <3>1. /\ works
          /\ secret.recheck > 0 => secret.cached = secret.live
          /\ secret.live = 0 => secret.recheck = 0
      BY <1>2, <2>4 DEF SecretInv
    <3>2. signed = secret.live \/ signed # secret.live
      OBVIOUS
    <3>3. signed = secret.live
      <4>1. signed = None => "junk" \in scope.may \/ signed = secret.live
        BY DEF Deliver, Spend, Can
      <4>2. QED
        BY <4>1, <2>4
    <3>4. CASE judged.recheck = secret.recheck
      BY <2>1, <3>1, <3>4
    <3>5. CASE judged.cached = judged.live /\ signed # GetParam(secret).cached
      <4>1. secret.live = 0 => GetParam(secret).cached = 0
        BY <1>1, Read DEF SecretInv
      <4>2. QED
        BY <2>1, <3>3, <3>5, <4>1
    <3>6. QED
      BY <2>1, <3>1, <3>4, <3>5
  <2>5. SecretInv'
    BY <2>2, <2>3, <2>4 DEF SecretInv, SecretType
  <2>6. RefusedOnlyInRotation'
    <3> SUFFICES ASSUME secret'.answer = "refused"
                 PROVE  /\ secret.age < SecretTtl
                        /\ secret.live > 1 \/ scope.may \intersect {"junk", "fault"} # {}
      BY <2>2 DEF RefusedOnlyInRotation
    <3>1. signed = secret.live /\ judged.answer = "refused"
      BY <2>2
    <3>2. secret.cached # secret.live /\ secret.ttl > 0 /\ (secret.recheck > 0 \/ ~works)
      BY <2>1, <3>1
    <3>3. secret.age < SecretTtl
      BY <1>1, <3>2, Spans DEF SecretInv
    <3>4. secret.live > 1 \/ scope.may \intersect {"junk", "fault"} # {}
      BY <1>1, <1>2, <3>2 DEF SecretInv
    <3>5. QED
      BY <3>3, <3>4
  <2>7. QED
    BY <2>5, <2>6
<1>5. QED
  BY <1>2, <1>3, <1>4

LEMMA SecretKept ==
  ASSUME SecretInv, RefusedOnlyInRotation, ScopeInv, Next \/ UNCHANGED vars,
         scope'.may = scope.may
  PROVE  SecretInv' /\ RefusedOnlyInRotation'
<1>1. CASE DoorTick \/ RotateSecret
  <2>1. secret'.answer = "none"
    BY <1>1, SecretInvType DEF DoorTick, RotateSecret, SecretType
  <2>2. QED
    BY <1>1, <2>1, DoorTickKeeps, RotateKeeps DEF RefusedOnlyInRotation
<1>2. CASE Deliver(secret.live) \/ Deliver(None)
  BY <1>2, DeliverKeeps
<1>3. CASE UNCHANGED secret
  BY <1>3 DEF SecretInv, RefusedOnlyInRotation
<1>4. QED
  BY <1>1, <1>2, <1>3, RegistryFrame, ConfigFrame, DiscoveryFrame, ClaimFrame,
     RoutingFrame, RewriteFrame DEF Next, DoorNext, vars, repoVars

-----------------------------------------------------------------------------
(* The repository's row                                                    *)

(* A flavor of the catalog is built-in, or a registered custom one.        *)
LEMMA CatalogNames ==
  ASSUME NEW n, InCatalog(ComposeCatalog(RoutableCustomFlavors), n)
  PROVE  n \in FlavorNames
<1>1. PICK f \in ComposeCatalog(RoutableCustomFlavors) : f.name = n
  BY DEF InCatalog, ByName
<1>2. CASE f \in BuiltinFlavors
  BY <1>1, <1>2 DEF FlavorNames, BuiltinNames
<1>3. ASSUME NEW c \in RoutableCustomFlavors, f = [c EXCEPT !.custom = TRUE]
      PROVE  n \in FlavorNames
  <2>1. PICK m \in CustomNames : c = ToCatalogFlavor(m)
    BY <1>3 DEF RoutableCustomFlavors, Registered
  <2>2. f.name = m
    BY <1>3, <2>1 DEF ToCatalogFlavor, CatalogEntry
  <2>3. QED
    BY <1>1, <2>1, <2>2 DEF FlavorNames
<1>4. QED
  BY <1>1, <1>2, <1>3 DEF ComposeCatalog

LEMMA SeenType ==
  ASSUME NEW row \in Rows \union {None}
  PROVE  /\ Seen(row) \in Rows /\ Seen(Fault) \in Rows
         /\ row # None => Seen(row) = row
         /\ Seen(None).mode = NoMode /\ Seen(Fault).mode = NoMode
<1>1. NoRow \in Rows /\ NoRow.mode = NoMode
  BY DEF NoRow, Rows, ModesSet
<1>2. QED
  BY <1>1, AbsenceAssumption DEF Seen

LEMMA PatchKeeps ==
  ASSUME RepoInv, NEW patch \in Patches, PatchRepo(patch)
  PROVE  repo \in Rows /\ repo' \in Rows
<1>1. repo \in Rows
  BY DEF RepoInv, PatchRepo
<1>2. repo' = Patched(repo, patch[1], patch[2])
  BY DEF PatchRepo
<1>3. CASE patch \in {"enabled", "rewrite"} \X BOOLEAN
  BY <1>1, <1>2, <1>3 DEF Patched, Rows
<1>4. CASE patch \in {"mode"} \X RepoModes
  BY <1>1, <1>2, <1>4 DEF Patched, Rows, ModesSet
<1>5. CASE patch \in {"dflt"} \X Defaults
  <2>1. patch[2] \in {NoFlavor} \union FlavorNames
    BY <1>5, CatalogNames DEF PatchRepo, Choosable
  <2>2. QED
    BY <1>1, <1>2, <1>5, <2>1 DEF Patched, Rows
<1>6. QED
  BY <1>1, <1>3, <1>4, <1>5 DEF Patches

LEMMA RepoKept ==
  ASSUME RepoInv, Next \/ UNCHANGED vars
  PROVE  RepoInv'
<1>1. ASSUME NEW patch \in Patches, PatchRepo(patch) PROVE RepoInv'
  BY <1>1, PatchKeeps DEF RepoInv, PatchRepo
<1>2. ASSUME NEW map \in FlavorMaps, PutFlavorMap(map) PROVE RepoInv'
  <2>1. repo \in Rows
    BY <1>2 DEF RepoInv, PutFlavorMap
  <2>2. repo' \in Rows
    BY <1>2, <2>1 DEF PutFlavorMap, Rows
  <2>3. QED
    BY <1>2, <2>2 DEF RepoInv, PutFlavorMap
<1>3. ASSUME NEW labels \in Allowlists, SetRunnerLabels(labels) PROVE RepoInv'
  BY <1>3 DEF RepoInv, SetRunnerLabels
<1>4. CASE AllowlistExpires
  BY <1>4 DEF RepoInv, AllowlistExpires
<1>5. ASSUME NEW created \in BOOLEAN, RepoGranted(created) PROVE RepoInv'
  <2>1. Seen(repo) \in Rows
    BY SeenType DEF RepoInv
  <2>2. repo' \in Rows
    BY <1>5, <2>1 DEF RepoGranted, EnableRepo, Rows
  <2>3. QED
    BY <1>5, <2>2 DEF RepoInv, RepoGranted
<1>6. CASE RepoWithdrawn
  <2>1. repo' \in Rows \union {None}
    BY <1>6 DEF RepoInv, RepoWithdrawn, Rows
  <2>2. QED
    BY <1>6, <2>1 DEF RepoInv, RepoWithdrawn
<1>7. ASSUME NEW flag \in {"suspended", "deleted"}, NEW value \in BOOLEAN,
             SetInstallationFlags(flag, value)
      PROVE  RepoInv'
  BY <1>7 DEF RepoInv, SetInstallationFlags
<1>8. CASE UNCHANGED <<repo, install, allow>>
  BY <1>8 DEF RepoInv
<1>9. QED
  BY <1>1, <1>2, <1>3, <1>4, <1>5, <1>6, <1>7, <1>8, RegistryFrame, DiscoveryFrame,
     ClaimFrame, RoutingFrame, RewriteFrame, DoorFrame DEF Next, ConfigNext, vars, repoVars

-----------------------------------------------------------------------------
(* The queues, Discovery and the rewrite worker                            *)

LEMMA QueueMoves ==
  ASSUME NEW q \in QueueType, NEW n \in 0 .. MaxReceive
  PROVE  /\ [q EXCEPT ![n] = @ + 1] \in QueueType
         /\ q[n] > 0 => [q EXCEPT ![n] = @ - 1] \in QueueType
BY DEF QueueType

ScanForm(w) ==
  /\ DOMAIN w = DOMAIN IdleScan
  /\ w.phase \in {"idle", "files", "put"}
  /\ w.receives \in 0 .. MaxReceive

LEMMA ScanMoves ==
  ASSUME ScanInv, NEW s \in Scans, NEW w, ScanForm(w), scan' = [scan EXCEPT ![s] = w],
         scanQ' \in QueueType
  PROVE  ScanInv'
BY DEF ScanInv, ScanForm

LEMMA IdleScanForm == ScanForm(IdleScan)
BY ControlAssumption DEF ScanForm, IdleScan

LEMMA ScanThrowsKeeps ==
  ASSUME ScanInv, NEW s \in Scans, ScanThrows(s)
  PROVE  ScanInv'
<1>1. scanQ' \in QueueType
  BY QueueMoves DEF ScanInv, ScanThrows
<1>2. QED
  BY <1>1, IdleScanForm, ScanMoves DEF ScanThrows

LEMMA ScanKept ==
  ASSUME ScanInv, Next \/ UNCHANGED vars
  PROVE  ScanInv'
<1> USE DEF ScanForm
<1>1. ASSUME NEW s \in Scans, NEW receives \in 0 .. MaxReceive - 1, ScanBegin(s, receives)
      PROVE  ScanInv'
  <2>1. receives \in 0 .. MaxReceive /\ receives + 1 \in 0 .. MaxReceive
    BY ControlAssumption
  <2>2. scanQ' \in QueueType
    BY <1>1, <2>1, QueueMoves DEF ScanInv, ScanBegin
  <2>3. PICK row :
          scan' = [scan EXCEPT ![s] =
            [IdleScan EXCEPT !.phase = "files", !.row = Seen(row),
                             !.receives = receives + 1,
                             !.todo = {p \in Paths : tree[p] # None}]]
    BY <1>1 DEF ScanBegin
  <2>4. ScanForm([IdleScan EXCEPT !.phase = "files", !.row = Seen(row),
                             !.receives = receives + 1,
                             !.todo = {p \in Paths : tree[p] # None}])
    BY <2>1 DEF IdleScan
  <2>5. QED
    BY <2>2, <2>3, <2>4, ScanMoves
<1>2. ASSUME NEW s \in Scans, NEW p \in Paths, ScanFile(s, p)
      PROVE  ScanInv'
  <2>1. CASE tree[p] = None
    BY <1>2, <2>1, ScanThrowsKeeps DEF ScanFile
  <2>2. CASE tree[p] # None
    <3>1. PICK custom, found :
            scan' = [scan EXCEPT ![s] = [scan[s] EXCEPT !.phase = "put", !.path = p,
                                           !.custom = custom, !.found = found]]
      BY <1>2, <2>2 DEF ScanFile
    <3>2. ScanForm([scan[s] EXCEPT !.phase = "put", !.path = p, !.custom = custom,
                                   !.found = found])
      BY DEF ScanInv, IdleScan
    <3>3. scanQ' \in QueueType
      BY <1>2, <2>2 DEF ScanFile, ScanInv
    <3>4. QED
      BY <3>1, <3>2, <3>3, ScanMoves
  <2>3. QED
    BY <2>1, <2>2
<1>3. ASSUME NEW s \in Scans, ScanPut(s) PROVE ScanInv'
  <2> DEFINE left == scan[s].todo \ {scan[s].path}
             w    == [scan[s] EXCEPT !.phase = "files", !.todo = left, !.path = None,
                                     !.found = None]
  <2>1. ScanForm(w)
    BY DEF ScanInv, IdleScan
  <2>2. scan' = [scan EXCEPT ![s] = IdleScan] \/ scan' = [scan EXCEPT ![s] = w]
    BY <1>3 DEF ScanPut
  <2>3. scanQ' \in QueueType
    BY <1>3 DEF ScanPut, ScanInv
  <2> HIDE DEF w
  <2>4. QED
    BY <2>1, <2>2, <2>3, IdleScanForm, ScanMoves
<1>4. ASSUME NEW s \in Scans, ScanEmpty(s) PROVE ScanInv'
  BY <1>4, IdleScanForm, ScanMoves DEF ScanEmpty, ScanInv
<1>5. ASSUME NEW s \in Scans, ScanFails(s) PROVE ScanInv'
  BY <1>5, ScanThrowsKeeps DEF ScanFails
<1>6. CASE scan' = scan /\ (scanQ' = scanQ \/ AskScan)
  <2>1. scanQ' \in QueueType
    <3>1. 0 \in 0 .. MaxReceive
      BY ControlAssumption
    <3>2. QED
      BY <1>6, <3>1, QueueMoves DEF ScanInv, AskScan
  <2>2. QED
    BY <1>6, <2>1 DEF ScanInv
<1>7. CASE DiscoveryNext
  <2>1. ASSUME NEW p \in Paths, NEW text, Push(p, text) PROVE ScanInv'
    BY <2>1, <1>6 DEF Push, Rescans
  <2>2. CASE RescanRepo
    BY <2>2, <1>6 DEF RescanRepo
  <2>3. QED
    BY <1>1, <1>2, <1>3, <1>4, <1>5, <1>7, <2>1, <2>2 DEF DiscoveryNext
<1>8. CASE ConfigNext
  BY <1>6, <1>8 DEF ConfigNext, PatchRepo, PutFlavorMap, SetRunnerLabels,
     AllowlistExpires, RepoGranted, RepoWithdrawn, SetInstallationFlags, Rescans, scanVars
<1>9. CASE RewriteNext
  BY <1>6, <1>9 DEF RewriteNext, RequestRewrite, RewriteBegin, RewriteProbe, RewriteRead,
     RewritePlanned, EnsureBranch, PutFile, PutsDone, FindOpenPullRequest,
     CreatePullRequest, RewriteFails, MergePullRequest, ClosePullRequest,
     EditBranch, DeleteBranch, Rescans, scanVars
<1>10. QED
  BY <1>6, <1>7, <1>8, <1>9, RegistryFrame, ClaimFrame, RoutingFrame, DoorFrame
     DEF Next, vars, scanVars

RewriterForm(w) ==
  /\ DOMAIN w = DOMAIN IdleRewriter
  /\ w.receives \in 0 .. MaxReceive
  /\ \A plan \in w.plans : PlanIsRewrite(plan)

BranchForm == branch # NoBranch => /\ DOMAIN branch = {"files", "base", "ahead"}
                               /\ DOMAIN branch.files = Paths

LEMMA IdleRewriterForm == RewriterForm(IdleRewriter)
BY ControlAssumption DEF RewriterForm, IdleRewriter

(* A plan is made only where the planner sees no objection, with a         *)
(* built-in label.                                                         *)
LEMMA PlansAreRewrites ==
  ASSUME NEW text, NEW target, NEW path, text # None,
         PlanRefusal(text, target) = NoSkip
  PROVE  PlanIsRewrite([path |-> path, text |-> text, next |-> PlanFileRewrite(text, target)])
<1> DEFINE lca == LabelForFlavor(target.flavor)
<1>1. lca # NoLabel /\ RunsOnRefusal(text.shape, LabelSet(text.labels)) = NoSkip
  <2>1. "no single-line runs-on" # NoSkip /\ "already LCA" # NoSkip
        /\ "unknown flavor" # NoSkip
    BY DEF NoSkip
  <2>2. QED
    BY <2>1 DEF PlanRefusal
<1>2. lca \in BuiltinLabels
  BY <1>1 DEF LabelForFlavor, ByName, BuiltinLabels
<1>3. PlanFileRewrite(text, target) = [text EXCEPT !.labels = RewriteRunsOnValue(@, lca)]
  BY DEF PlanFileRewrite
<1> HIDE DEF lca
<1>4. QED
  BY <1>1, <1>2, <1>3 DEF PlanIsRewrite

LEMMA ThrowKeeps ==
  ASSUME RewriteInv, Throw
  PROVE  rewriteQ' \in QueueType /\ RewriterForm(rewriter')
BY QueueMoves, IdleRewriterForm DEF Throw, RewriteInv

LEMMA AnswerKeeps ==
  ASSUME RewriteInv, NEW next, RewriterForm(next), Answer(next)
  PROVE  rewriteQ' \in QueueType /\ RewriterForm(rewriter')
BY ThrowKeeps DEF Answer, Proceed, RewriteInv

LEMMA ProceedKeeps ==
  ASSUME RewriteInv, NEW next, RewriterForm(next), Proceed(next)
  PROVE  rewriteQ' \in QueueType /\ RewriterForm(rewriter')
BY DEF Proceed, RewriteInv

LEMMA AckKeeps ==
  ASSUME RewriteInv, Ack
  PROVE  rewriteQ' \in QueueType /\ RewriterForm(rewriter')
BY IdleRewriterForm DEF Ack, RewriteInv

(* What one step of the rewriter may do to its record.                     *)
LEMMA RewriterMoves ==
  ASSUME RewriteInv
  PROVE  /\ \A phase : RewriterForm([rewriter EXCEPT !.phase = phase])
         /\ \A phase, existing, todo :
              RewriterForm([rewriter EXCEPT !.phase = phase, !.existing = existing,
                                            !.todo = todo])
         /\ \A phase, edits :
              RewriterForm([rewriter EXCEPT !.phase = phase, !.edits = edits])
         /\ \A plan : RewriterForm([rewriter EXCEPT !.plans = @ \ {plan}])
         /\ \A todo, plan : PlanIsRewrite(plan) =>
              RewriterForm([rewriter EXCEPT !.todo = todo, !.plans = @ \union {plan}])
         /\ \A todo : RewriterForm([rewriter EXCEPT !.todo = todo])
BY DEF RewriteInv, RewriterForm, IdleRewriter

(* The worker's own steps, up to its first write.                          *)
LEMMA PlanningKeeps ==
  ASSUME RewriteInv,
         \/ \E receives \in 0 .. MaxReceive - 1 : RewriteBegin(receives)
         \/ RewriteProbe \/ RewritePlanned
         \/ \E t \in rewriter.todo : RewriteRead(t)
  PROVE  rewriteQ' \in QueueType /\ RewriterForm(rewriter')
<1>1. ASSUME NEW receives \in 0 .. MaxReceive - 1, RewriteBegin(receives)
      PROVE  rewriteQ' \in QueueType /\ RewriterForm(rewriter')
  <2>1. receives \in 0 .. MaxReceive /\ receives + 1 \in 0 .. MaxReceive
        /\ receives # receives + 1
    BY ControlAssumption
  <2>2. CASE /\ rewriteQ' = [rewriteQ EXCEPT ![receives] = @ - 1, ![receives + 1] = @ + 1]
             /\ UNCHANGED rewriter
    <3>1. rewriteQ' \in QueueType
      <4> DEFINE q == [rewriteQ EXCEPT ![receives] = @ - 1]
      <4>1. q \in QueueType /\ rewriteQ' = [q EXCEPT ![receives + 1] = @ + 1]
        BY <1>1, <2>1, <2>2, QueueMoves DEF RewriteBegin, RewriteInv, QueueType
      <4> HIDE DEF q
      <4>2. QED
        BY <2>1, <4>1, QueueMoves
    <3>2. QED
      BY <2>2, <3>1 DEF RewriteInv, RewriterForm
  <2>3. CASE /\ rewriteQ' = [rewriteQ EXCEPT ![receives] = @ - 1]
             /\ \/ rewriter' = IdleRewriter
                \/ rewriter' = [IdleRewriter EXCEPT !.phase = "probe",
                                                    !.receives = receives + 1]
    <3>1. rewriteQ' \in QueueType
      BY <1>1, <2>1, <2>3, QueueMoves DEF RewriteBegin, RewriteInv
    <3>2. RewriterForm([IdleRewriter EXCEPT !.phase = "probe", !.receives = receives + 1])
      BY <2>1 DEF IdleRewriter, RewriterForm
    <3>3. QED
      BY <2>3, <3>1, <3>2, IdleRewriterForm
  <2>4. QED
    BY <1>1, <2>2, <2>3 DEF RewriteBegin
<1>2. CASE RewriteProbe
  <2>1. PICK existing, todo : Proceed([rewriter EXCEPT !.phase = "read",
                                         !.existing = existing, !.todo = todo])
    BY <1>2 DEF RewriteProbe
  <2>2. QED
    BY <2>1, RewriterMoves, ProceedKeeps
<1>3. CASE RewritePlanned
  BY <1>3, RewriterMoves, ProceedKeeps, AckKeeps DEF RewritePlanned
<1>4. ASSUME NEW t \in rewriter.todo, RewriteRead(t)
      PROVE  rewriteQ' \in QueueType /\ RewriterForm(rewriter')
  <2> DEFINE files == IF ~rewriter.existing THEN tree
                      ELSE IF branch = NoBranch THEN [p \in Paths |-> None] ELSE branch.files
             text  == files[t.path]
             plan  == [path |-> t.path, text |-> text,
                       next |-> PlanFileRewrite(text, t.target)]
             plans == IF text # None /\ PlanRefusal(text, t.target) = NoSkip
                      THEN rewriter.plans \union {plan} ELSE rewriter.plans
  <2>1. Proceed([rewriter EXCEPT !.todo = rewriter.todo \ {t}, !.plans = plans])
    BY <1>4 DEF RewriteRead
  <2>2. \A p \in plans : PlanIsRewrite(p)
    BY PlansAreRewrites DEF RewriteInv
  <2> HIDE DEF plans
  <2>3. RewriterForm([rewriter EXCEPT !.todo = rewriter.todo \ {t}, !.plans = plans])
    BY <2>2 DEF RewriteInv, RewriterForm, IdleRewriter
  <2>4. QED
    BY <2>1, <2>3, ProceedKeeps
<1>5. QED
  BY <1>1, <1>2, <1>3, <1>4

LEMMA WritingKeeps ==
  ASSUME RewriteInv,
         \/ EnsureBranch \/ PutsDone \/ FindOpenPullRequest \/ CreatePullRequest
         \/ RewriteFails
         \/ \E plan \in rewriter.plans : PutFile(plan)
  PROVE  rewriteQ' \in QueueType /\ RewriterForm(rewriter')
<1>1. CASE EnsureBranch
  BY <1>1, RewriterMoves, AnswerKeeps DEF EnsureBranch
<1>2. CASE PutsDone
  BY <1>2, RewriterMoves, ProceedKeeps DEF PutsDone
<1>3. CASE FindOpenPullRequest
  BY <1>3, RewriterMoves, ProceedKeeps, AckKeeps DEF FindOpenPullRequest
<1>4. CASE CreatePullRequest
  BY <1>4, IdleRewriterForm, AnswerKeeps, AckKeeps, ThrowKeeps DEF CreatePullRequest
<1>5. CASE RewriteFails
  BY <1>5, ThrowKeeps DEF RewriteFails
<1>6. ASSUME NEW plan \in rewriter.plans, PutFile(plan)
      PROVE  rewriteQ' \in QueueType /\ RewriterForm(rewriter')
  BY <1>6, RewriterMoves, AnswerKeeps, ThrowKeeps DEF PutFile
<1>7. QED
  BY <1>1, <1>2, <1>3, <1>4, <1>5, <1>6

LEMMA CommittedForm ==
  ASSUME RewriteInv, branch # NoBranch, NEW p, NEW text
  PROVE  /\ DOMAIN Committed(p, text) = {"files", "base", "ahead"}
         /\ DOMAIN Committed(p, text).files = Paths
         /\ p \in Paths => Committed(p, text).files[p] = text
         /\ \A q \in Paths \ {p} : Committed(p, text).files[q] = branch.files[q]
BY DEF RewriteInv, Committed

(* What a step does to the repository keeps its branches whole.            *)
LEMMA RepositoryKept ==
  ASSUME RewriteInv, RewriteNext
  PROVE  /\ DOMAIN tree' = Paths /\ BranchForm'
         /\ pr' \in {"none", "open", "merged", "closed"}
<1>1. CASE EnsureBranch
  BY <1>1 DEF EnsureBranch, RewriteInv, BranchForm
<1>2. ASSUME NEW plan \in rewriter.plans, PutFile(plan)
      PROVE  /\ DOMAIN tree' = Paths /\ BranchForm'
             /\ pr' \in {"none", "open", "merged", "closed"}
  BY <1>2, CommittedForm DEF PutFile, RewriteInv, BranchForm
<1>3. CASE CreatePullRequest
  BY <1>3 DEF CreatePullRequest, RewriteInv, BranchForm
<1>4. CASE MergePullRequest
  BY <1>4 DEF MergePullRequest, RewriteInv, BranchForm
<1>5. CASE ClosePullRequest
  BY <1>5 DEF ClosePullRequest, RewriteInv, BranchForm
<1>6. ASSUME NEW p \in Paths, NEW text \in Jobs, EditBranch(p, text)
      PROVE  /\ DOMAIN tree' = Paths /\ BranchForm'
             /\ pr' \in {"none", "open", "merged", "closed"}
  BY <1>6, CommittedForm DEF EditBranch, RewriteInv, BranchForm
<1>7. CASE DeleteBranch
  BY <1>7 DEF DeleteBranch, RewriteInv, BranchForm
<1>8. CASE UNCHANGED githubVars
  BY <1>8 DEF githubVars, RewriteInv, BranchForm
<1>9. QED
  BY <1>1, <1>2, <1>3, <1>4, <1>5, <1>6, <1>7, <1>8 DEF RewriteNext, RequestRewrite,
     RewriteBegin, RewriteProbe, RewriteRead, RewritePlanned, PutsDone,
     FindOpenPullRequest, RewriteFails

LEMMA RewriteKept ==
  ASSUME RewriteInv, Next \/ UNCHANGED vars
  PROVE  RewriteInv'
<1>1. CASE RewriteNext
  <2>1. CASE RequestRewrite
    <3>1. 0 \in 0 .. MaxReceive
      BY ControlAssumption
    <3>2. QED
      BY <2>1, <3>1, QueueMoves DEF RequestRewrite, RewriteInv, githubVars
  <2>2. CASE UNCHANGED rewriteVars
    BY <1>1, <2>2, RepositoryKept DEF RewriteInv, rewriteVars, BranchForm
  <2>3. CASE rewriteQ' \in QueueType /\ RewriterForm(rewriter')
    BY <1>1, <2>3, RepositoryKept DEF RewriteInv, RewriterForm, BranchForm
  <2>4. (\/ MergePullRequest \/ ClosePullRequest \/ DeleteBranch
         \/ \E p \in Paths, text \in Jobs : EditBranch(p, text)) => UNCHANGED rewriteVars
    BY DEF MergePullRequest, ClosePullRequest, DeleteBranch, EditBranch
  <2>5. QED
    BY <1>1, <2>1, <2>2, <2>3, <2>4, PlanningKeeps, WritingKeeps DEF RewriteNext
<1>2. ASSUME NEW p \in Paths, NEW text, Push(p, text) PROVE RewriteInv'
  BY <1>2 DEF Push, RewriteInv, rewriteVars
<1>3. CASE UNCHANGED <<rewriteVars, githubVars>>
  BY <1>3 DEF RewriteInv, rewriteVars, githubVars
<1>4. CASE DiscoveryNext
  BY <1>2, <1>3, <1>4, DiscoveryFrame DEF DiscoveryNext, ScanBegin, ScanFile, ScanPut,
     ScanEmpty, ScanFails, RescanRepo
<1>5. QED
  BY <1>1, <1>3, <1>4, RegistryFrame, ConfigFrame, ClaimFrame, RoutingFrame, DoorFrame
     DEF Next, vars, rewriteVars, githubVars

=============================================================================
