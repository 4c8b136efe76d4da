----------------------------- MODULE FlavorStore ----------------------------
(***************************************************************************)
(* The custom flavor registry (src/shared/flavor-store.ts) as the console  *)
(* drives it (src/mgmt/handler.ts).  A row is written by one conditional   *)
(* update; the routes read before they write, so two of them overlap.      *)
(* The worker that boots an image and returns the verdict is not part of   *)
(* the repository: it is modelled as a caller that keeps to the store's    *)
(* transitions.                                                            *)
(***************************************************************************)
EXTENDS ControlState

ValidationStates == {"pending", "validating", "valid", "invalid"}

CanTransitionValidation(from, to) ==
  \/ from = "pending" /\ to \in {"pending", "validating"}
  \/ from = "validating" /\ to \in {"valid", "invalid", "pending"}
  \/ from \in {"valid", "invalid"} /\ to = "pending"

NewRow(image, caps) ==
  [state |-> "pending", image |-> image, caps |-> caps, evidence |-> None,
   reason |-> FALSE]

(* The conditional update: the row must exist in a state that may move.    *)
(* Evidence stays unless new evidence is given; a reason given none goes.  *)
CanMove(name, to) ==
  flavor[name] # None /\ CanTransitionValidation(flavor[name].state, to)

TransitionFlavorValidation(name, to, reason, evidence) ==
  IF CanMove(name, to)
  THEN flavor' = [flavor EXCEPT
         ![name].state = to, ![name].reason = reason,
         ![name].evidence = IF evidence = None THEN @ ELSE evidence]
  ELSE UNCHANGED flavor

(* Mutant: the new image inherits the state of the old one.                *)
RepointKeepingState(name, image) ==
  flavor' = [flavor EXCEPT ![name].image = image, ![name].evidence = None]

(* One update: the new image, and `pending` with no evidence.              *)
RepointFlavorImage(name, image) ==
  flavor' = [flavor EXCEPT ![name].image = image, ![name].state = "pending",
                           ![name].reason = FALSE, ![name].evidence = None]

IdleConsole == [op |-> "idle", name |-> None, image |-> None, seen |-> None]

(* Ask for a validation; the request may be lost, the row stays pending.   *)
Check(name, image, phase) == [name |-> name, image |-> image, phase |-> phase]
Asked(name) == Check(name, None, "asked")

TriggerFlavorValidation(name) ==
  \E sent \in BOOLEAN :
    /\ Sends(sent)
    /\ checks' = IF sent THEN checks \union {Asked(name)} ELSE checks

(* Bound: unless they may overlap, one change settles before the next.     *)
Settled(name) ==
  Overlap \/ /\ \A k \in checks : k.name # name
             /\ \A c \in Consoles : console[c].name # name

-----------------------------------------------------------------------------
(* Mutant: the quota is not looked at.                                     *)
RegisterUncounted(c, name, image) ==
  /\ console[c].op = "idle"
  /\ Spend("register")
  /\ Settled(name)
  /\ console' = [console EXCEPT ![c] =
       [op |-> "register", name |-> name, image |-> image, seen |-> None]]
  /\ UNCHANGED <<flavor, checks, repoVars, githubVars, scanVars, rewriteVars, jobVars>>

(* POST /api/flavors: count, then a put that must not find the row.        *)
RegisterRead(c, name, image) ==
  /\ console[c].op = "idle"
  /\ Spend("register")
  /\ Settled(name)
  /\ Cardinality(Registered) < MaxFlavors
  /\ console' = [console EXCEPT ![c] =
       [op |-> "register", name |-> name, image |-> image, seen |-> None]]
  /\ UNCHANGED <<flavor, checks, repoVars, githubVars, scanVars, rewriteVars, jobVars>>

RegisterPut(c) ==
  LET call == console[c] IN
  /\ call.op = "register"
  /\ console' = [console EXCEPT ![c] = IdleConsole]
  /\ IF flavor[call.name] = None
     THEN /\ \E caps \in {{}, {"docker"}} :
               flavor' = [flavor EXCEPT ![call.name] = NewRow(call.image, caps)]
          /\ TriggerFlavorValidation(call.name)
     ELSE Free /\ UNCHANGED <<flavor, checks>>            \* 409
  /\ UNCHANGED <<repoVars, githubVars, scanVars, rewriteVars, jobVars>>

(* POST /api/flavors/{name}/revalidate, with a new image or with None.     *)
RevalidateRead(c, name, image) ==
  /\ console[c].op = "idle"
  /\ flavor[name] # None
  /\ IF image = None THEN Spend("revalidate") ELSE Spend("repoint")
  /\ Settled(name)
  /\ console' = [console EXCEPT ![c] =
       [op |-> "revalidate", name |-> name, image |-> image, seen |-> flavor[name]]]
  /\ UNCHANGED <<flavor, checks, repoVars, githubVars, scanVars, rewriteVars, jobVars>>

RevalidateWrite(c) ==
  LET call == console[c]
      refuse == Free /\ UNCHANGED <<flavor, checks>> IN
  /\ call.op = "revalidate"
  /\ console' = [console EXCEPT ![c] = IdleConsole]
  /\ IF call.image \notin {None, call.seen.image}
     THEN IF flavor[call.name] = None THEN refuse             \* 404
          ELSE /\ RepointFlavorImage(call.name, call.image)
               /\ TriggerFlavorValidation(call.name)
     ELSE IF call.seen.state # "pending" /\ ~CanMove(call.name, "pending")
     THEN refuse                                              \* 409
     ELSE /\ IF call.seen.state # "pending"
             THEN TransitionFlavorValidation(call.name, "pending", FALSE, None)
             ELSE UNCHANGED flavor
          /\ TriggerFlavorValidation(call.name)
  /\ UNCHANGED <<repoVars, githubVars, scanVars, rewriteVars, jobVars>>

(* DELETE /api/flavors/{name}: nothing is asked of a validation under way. *)
DeleteFlavor(name) ==
  /\ flavor[name] # None
  /\ Spend("delete")
  /\ Settled(name)
  /\ flavor' = [flavor EXCEPT ![name] = None]
  /\ UNCHANGED <<console, checks, repoVars, githubVars, scanVars, rewriteVars, jobVars>>

-----------------------------------------------------------------------------
(* The validation worker (external): it takes the row to `validating`,     *)
(* boots the image the row then names, and gives its verdict for it.       *)
CheckStart(k) ==
  /\ k \in checks /\ k.phase = "asked"
  /\ IF CanMove(k.name, "validating")
     THEN /\ TransitionFlavorValidation(k.name, "validating", FALSE, None)
          /\ checks' = (checks \ {k}) \union
                         {Check(k.name, flavor[k.name].image, "running")}
     ELSE checks' = checks \ {k} /\ UNCHANGED flavor
  /\ UNCHANGED <<console, scope, repoVars, githubVars, scanVars, rewriteVars, jobVars>>

CheckVerdict(k) ==
  /\ k \in checks /\ k.phase = "running"
  /\ checks' = checks \ {k}
  /\ TransitionFlavorValidation(k.name,
       IF k.image \in GoodImages THEN "valid" ELSE "invalid",
       k.image \notin GoodImages, k.image)
  /\ UNCHANGED <<console, scope, repoVars, githubVars, scanVars, rewriteVars, jobVars>>

(* The worker dies; a supervisor puts the row back for another attempt.    *)
CheckAbandoned(k) ==
  /\ k \in checks /\ k.phase = "running"
  /\ Spend("lost")
  /\ checks' = checks \ {k}
  /\ TransitionFlavorValidation(k.name, "pending", FALSE, None)
  /\ UNCHANGED <<console, repoVars, githubVars, scanVars, rewriteVars, jobVars>>

RegistryNext ==
  \/ \E c \in Consoles :
       \/ \E n \in CustomNames, i \in Images : RegisterRead(c, n, i)
       \/ \E n \in CustomNames, i \in Images \union {None} : RevalidateRead(c, n, i)
       \/ RegisterPut(c)
       \/ RevalidateWrite(c)
  \/ \E n \in CustomNames : DeleteFlavor(n)
  \/ \E k \in checks : CheckStart(k) \/ CheckVerdict(k) \/ CheckAbandoned(k)

=============================================================================
