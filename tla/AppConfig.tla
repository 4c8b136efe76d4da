----------------------------- MODULE AppConfig ------------------------------
(***************************************************************************)
(* The platform-config broker (src/appcfg/handler.ts, config-store.ts): it *)
(* relinks the environment to a GitHub App, rolls a relink back, and       *)
(* answers `status`.  The credentials live in five SSM parameters that are *)
(* written one by one, the webhook secret also at GitHub, the lock and the *)
(* shared status answer in DynamoDB: nothing spans two of these writes.    *)
(*                                                                         *)
(* An invocation serves one request and may die before any of its steps.   *)
(* setRunnerLabels and redeliver touch none of this state but the lock and *)
(* the status cache, and are left out.                                     *)
(***************************************************************************)
EXTENDS Naturals, Sequences

CONSTANTS
  Invocs,       (* the broker's warm containers, one request at a time     *)
  Creds,        (* credential sets: the stored one, those submitted        *)
  AppOf,        (* the GitHub App a set's id and key authenticate as       *)
  SecretOf,     (* the webhook secret of a set                             *)
  None,         (* the absent value of an optional field                   *)
  Gone,         (* the lock's holder when that invocation is no more       *)
  MaxRequests,  (* bound: relinks and rollbacks ever asked for             *)
  FaultKinds    (* bound: of which kinds a behaviour's n-th fault may be   *)

Params == <<"app-id", "app-pem", "webhook-secret", "client-id", "client-secret">>
Names  == {Params[k] : k \in 1 .. Len(Params)}

(* What may fail.  "...lost" is a call that was applied but not answered.   *)
Kinds == {"clear", "acquire", "release", "secretread", "put", "putlost", "check",
          "hook", "hooklost", "slug", "undo", "history", "restore",
          "recheck", "genread", "crash"}

(* How a refused hook update was taken when it did not undo the relink.    *)
Tolerated == {"accepted", "advisory"}

(* What the history notes: "stale" is a rollback to a handle that outlived *)
(* the deletion of a parameter it names a version of.                      *)
Tags == Kinds \union Tolerated \union {"stale"}

ASSUME ConstantsAssumption ==
  /\ DOMAIN AppOf = Creds /\ DOMAIN SecretOf = Creds
  /\ MaxRequests \in Nat
  /\ FaultKinds \in Seq(SUBSET Kinds)

ASSUME NoneAssumption ==
  /\ None # Gone /\ None \notin Invocs /\ Gone \notin Invocs
  /\ None \notin Creds /\ None \notin Nat

Apps    == {AppOf[c] : c \in Creds}
Secrets == {SecretOf[c] : c \in Creds}

VARIABLES
  ssm,      (* each parameter's version history; <<>> when it is absent    *)
  hook,     (* the secret GitHub signs each App's deliveries with          *)
  slug,     (* the app-slug parameter                                      *)
  lock,     (* who holds the config lock                                   *)
  inv,      (* the request each container is serving                       *)
  shared,   (* the status answer all containers share                      *)
  gen,      (* its invalidation generation                                 *)
  handles,  (* the rollback handles the console was given; stale: history  *)
  asked,    (* relinks and rollbacks so far                                *)
  faults,   (* history: the kinds of fault met, and "stale"                *)
  met       (* how many faults it met                                      *)

vars == <<ssm, hook, slug, lock, inv, shared, gen, handles, asked, faults, met>>

View == [id : Creds \union {None}, pem : Creds \union {None}]

(* A relink's snapshot, which is also the rollback handle it answers: the  *)
(* version of each parameter, 0 for one that did not exist.                *)
Snapshot == [Names -> Nat]
Handle   == [of : Snapshot, stale : BOOLEAN]

Locked == {"begin", "put", "check", "undo", "sync", "slug", "restore", "recheck", "release"}

InvType ==
  [pc : {"idle", "acquire", "post", "compute", "publish"} \union Locked,
   kind : {"none", "relink", "rollback", "status"},
   cred : Creds \union {None}, allow : BOOLEAN, rotated : BOOLEAN,
   before : Snapshot \union {None}, at : 0 .. Len(Params), todo : SUBSET Names,
   done : BOOLEAN, rolled : BOOLEAN,
   gen : Nat \union {None}, view : View \union {None}]

TypeOK ==
  /\ ssm \in [Names -> Seq(Creds)]
  /\ hook \in [Apps -> Secrets]
  /\ slug \in Apps \union {None}
  /\ lock \in Invocs \union {None, Gone}
  /\ inv \in [Invocs -> InvType]
  /\ shared \in View \union {None}
  /\ gen \in Nat
  /\ handles \subseteq Handle
  /\ asked \in 0 .. MaxRequests
  /\ faults \subseteq Tags
  /\ met \in 0 .. Len(FaultKinds)

Idle ==
  [pc |-> "idle", kind |-> "none", cred |-> None, allow |-> FALSE, rotated |-> FALSE,
   before |-> None, at |-> 0, todo |-> {}, done |-> FALSE, rolled |-> FALSE,
   gen |-> None, view |-> None]

(* An environment already linked, in agreement with GitHub, or a fresh one.*)
Init ==
  /\ hook \in [Apps -> Secrets]
  /\ \/ /\ ssm = [p \in Names |-> <<>>]
        /\ slug = None
     \/ \E c \in Creds :
          /\ ssm = [p \in Names |-> <<c>>]
          /\ slug = AppOf[c]
          /\ hook[AppOf[c]] = SecretOf[c]
  /\ lock = None
  /\ inv = [i \in Invocs |-> Idle]
  /\ shared = None
  /\ gen = 0
  /\ handles = {}
  /\ asked = 0
  /\ faults = {}
  /\ met = 0

-----------------------------------------------------------------------------

FaultAs(k, tag) ==
  /\ met < Len(FaultKinds)
  /\ k \in FaultKinds[met + 1]
  /\ met' = met + 1
  /\ faults' = faults \union {tag}

Fault(k) == FaultAs(k, k)

NoFault == UNCHANGED <<faults, met>>

Note(tag) == faults' = faults \union {tag} /\ UNCHANGED met

Cur(p) == IF ssm[p] = <<>> THEN None ELSE ssm[p][Len(ssm[p])]

(* What version v of a parameter holds; there is none before the first.    *)
Value(p, v) == IF v = 0 THEN None ELSE ssm[p][v]

PutParam(p, c) == ssm' = [ssm EXCEPT ![p] = Append(@, c)]
DeleteParam(p) == ssm' = [ssm EXCEPT ![p] = <<>>]

Goto(i, pc) == inv' = [inv EXCEPT ![i].pc = pc]

(* clearStatusCache; its own fault is logged and swallowed.                *)
ClearShared ==
  \/ shared' = None /\ gen' = gen + 1 /\ NoFault
  \/ UNCHANGED <<shared, gen>> /\ Fault("clear")

(* A mutating request: the cached answers are dropped before anything.     *)
Request(i) ==
  /\ inv[i].pc = "idle"
  /\ asked < MaxRequests
  /\ asked' = asked + 1
  /\ ClearShared
  /\ \/ \E c \in Creds, allow \in BOOLEAN :
          inv' = [inv EXCEPT ![i] =
                   [Idle EXCEPT !.pc = "acquire", !.kind = "relink", !.cred = c, !.allow = allow]]
     \/ \E h \in handles :
          inv' = [inv EXCEPT ![i] =
                   [Idle EXCEPT !.pc = "acquire", !.kind = "rollback", !.before = h.of]]
  /\ UNCHANGED <<ssm, hook, slug, lock, handles>>

(* Mutant: a fault of the lock store lets the change go ahead.             *)
AcquireLockBlind(i) ==
  /\ inv[i].pc = "acquire"
  /\ \/ lock = None /\ lock' = i /\ Goto(i, "begin") /\ NoFault
     \/ lock # None /\ UNCHANGED lock /\ Goto(i, "post") /\ NoFault
     \/ UNCHANGED lock /\ Goto(i, "begin") /\ Fault("acquire")
  /\ UNCHANGED <<ssm, hook, slug, shared, gen, handles, asked>>

(* acquireConfigLock: a held lock answers busy, a fault refuses - and may  *)
(* have written the row, which then names a holder nobody is.              *)
AcquireLock(i) ==
  /\ inv[i].pc = "acquire"
  /\ \/ lock = None /\ lock' = i /\ Goto(i, "begin") /\ NoFault
     \/ lock # None /\ UNCHANGED lock /\ Goto(i, "post") /\ NoFault
     \/ /\ lock' \in IF lock = None THEN {None, Gone} ELSE {lock}
        /\ Goto(i, "post") /\ Fault("acquire")
  /\ UNCHANGED <<ssm, hook, slug, shared, gen, handles, asked>>

(* The lock row lapses 90 s after it was written.  An invocation lives at  *)
(* most 25 s, so the holder is gone by then.                               *)
LockExpires ==
  /\ lock = Gone
  /\ lock' = None
  /\ UNCHANGED <<ssm, hook, slug, inv, shared, gen, handles, asked, faults, met>>

-----------------------------------------------------------------------------
(* Relink                                                                  *)

Rotates(c) ==
  Cur("webhook-secret") = None \/ SecretOf[Cur("webhook-secret")] # SecretOf[c]

(* The submitted set does not authenticate, or it does and the versions it *)
(* will replace are noted.  A secret that cannot be read counts as rotated.*)
BeginRelink(i) ==
  /\ inv[i].pc = "begin" /\ inv[i].kind = "relink"
  /\ \/ Goto(i, "release") /\ NoFault
     \/ \E rotated \in BOOLEAN :
          /\ \/ rotated = Rotates(inv[i].cred) /\ NoFault
             \/ rotated /\ Fault("secretread")
          /\ inv' = [inv EXCEPT ![i].pc = "put", ![i].rotated = rotated,
                                ![i].before = [p \in Names |-> Len(ssm[p])]]
  /\ UNCHANGED <<ssm, hook, slug, lock, shared, gen, handles, asked>>

(* The parameters a relink has written so far.                             *)
Written(i) == {Params[k] : k \in 1 .. inv[i].at}

(* undoWrites: nothing written is nothing undone.                          *)
StartUndo(i) ==
  inv' = [inv EXCEPT ![i].todo = Written(i), ![i].rolled = Written(i) # {},
                     ![i].pc = IF Written(i) = {} THEN "release" ELSE "undo"]

(* One credential parameter; a put that fails may have been applied.       *)
WriteParam(i) ==
  /\ inv[i].pc = "put"
  /\ LET k == inv[i].at + 1 IN
     \/ /\ PutParam(Params[k], inv[i].cred)
        /\ inv' = [inv EXCEPT ![i].at = k, ![i].pc = IF k = Len(Params) THEN "check" ELSE "put"]
        /\ NoFault
     \/ UNCHANGED ssm /\ StartUndo(i) /\ Fault("put")
     \/ PutParam(Params[k], inv[i].cred) /\ StartUndo(i) /\ Fault("putlost")
  /\ UNCHANGED <<hook, slug, lock, shared, gen, handles, asked>>

Authenticates ==
  /\ Cur("app-id") # None /\ Cur("app-pem") # None
  /\ AppOf[Cur("app-id")] = AppOf[Cur("app-pem")]

(* What is stored authenticates as the App of this relink.                 *)
StoredVerifies(i) ==
  Authenticates /\ AppOf[Cur("app-id")] = AppOf[inv[i].cred]

(* Mutant: the slug is written as soon as the stored set is verified.      *)
VerifyStoredSetsSlug(i) ==
  /\ inv[i].pc = "check"
  /\ slug' = AppOf[inv[i].cred]
  /\ IF StoredVerifies(i) THEN Goto(i, "sync") ELSE StartUndo(i)
  /\ NoFault
  /\ UNCHANGED <<ssm, hook, lock, shared, gen, handles, asked>>

(* Read back what was stored and verify it with GitHub.                    *)
VerifyStored(i) ==
  /\ inv[i].pc = "check"
  /\ \/ /\ IF StoredVerifies(i) THEN Goto(i, "sync") ELSE StartUndo(i)
        /\ NoFault
     \/ StartUndo(i) /\ Fault("check")
  /\ UNCHANGED <<ssm, hook, slug, lock, shared, gen, handles, asked>>

(* Parameters that existed are re-put in order, then those this relink     *)
(* created are deleted.                                                    *)
First(S) == CHOOSE p \in S : \E k \in 1 .. Len(Params) :
              Params[k] = p /\ \A j \in 1 .. k - 1 : Params[j] \notin S

NextUndo(i) ==
  LET old == {p \in inv[i].todo : inv[i].before[p] # 0} IN
  IF old = {} THEN First(inv[i].todo) ELSE First(old)

PutBack(i, p) ==
  IF inv[i].before[p] = 0 THEN DeleteParam(p)
  ELSE PutParam(p, ssm[p][inv[i].before[p]])

Undone(i, p, pc) ==
  [inv EXCEPT ![i].todo = @ \ {p}, ![i].pc = IF inv[i].todo = {p} THEN pc ELSE @]

(* Mutant: a parameter the relink created is left behind.                  *)
UndoWriteKeepsCreated(i) ==
  /\ inv[i].pc = "undo"
  /\ LET p == NextUndo(i) IN
     /\ IF inv[i].before[p] = 0 THEN UNCHANGED ssm ELSE PutBack(i, p)
     /\ inv' = Undone(i, p, "release")
     /\ NoFault
  /\ UNCHANGED <<hook, slug, lock, shared, gen, handles, asked>>

(* Mutant: the failure of one restore is logged and forgotten.             *)
UndoWriteForgets(i) ==
  /\ inv[i].pc = "undo"
  /\ LET p == NextUndo(i) IN
     /\ inv' = Undone(i, p, "release")
     /\ \/ PutBack(i, p) /\ NoFault
        \/ UNCHANGED ssm /\ Fault("undo")
  /\ UNCHANGED <<hook, slug, lock, shared, gen, handles, asked>>

(* One parameter of the undo; a failure is noted and the next one tried.   *)
(* The write that failed may have been applied.                            *)
UndoWrite(i) ==
  /\ inv[i].pc = "undo"
  /\ LET p == NextUndo(i) IN
     \/ PutBack(i, p) /\ inv' = Undone(i, p, "release") /\ NoFault
     \/ /\ UNCHANGED ssm \/ PutBack(i, p)
        /\ inv' = [Undone(i, p, "release") EXCEPT ![i].rolled = FALSE]
        /\ Fault("undo")
  /\ UNCHANGED <<hook, slug, lock, shared, gen, handles, asked>>

-----------------------------------------------------------------------------
(* Rollback                                                                *)

Readable(h) == \A p \in Names : h[p] <= Len(ssm[p])

Fresh(h) == [of |-> h, stale |-> FALSE] \in handles

(* Every historical value is read before any is written back.              *)
BeginRollback(i) ==
  /\ inv[i].pc = "begin" /\ inv[i].kind = "rollback"
  /\ \/ /\ Readable(inv[i].before)
        /\ inv' = [inv EXCEPT ![i].pc = "restore", ![i].todo = Names]
        /\ IF Fresh(inv[i].before) THEN NoFault ELSE Note("stale")
     \/ /\ Goto(i, "release")
        /\ IF Readable(inv[i].before) THEN Fault("history") ELSE NoFault
  /\ UNCHANGED <<ssm, hook, slug, lock, shared, gen, handles, asked>>

(* SSM numbers a deleted parameter's versions from 1 again: the handles    *)
(* that name one of the deleted now name another value, or none.           *)
Aged ==
  {[h EXCEPT !.stale = @ \/ \E p \in Names : h.of[p] > Len(ssm'[p])] : h \in handles}

(* A failing write ends the rollback where it stands.                      *)
RestoreParam(i) ==
  /\ inv[i].pc = "restore"
  /\ LET p == NextUndo(i) IN
     \/ PutBack(i, p) /\ inv' = Undone(i, p, "recheck") /\ NoFault
     \/ /\ UNCHANGED ssm \/ PutBack(i, p)
        /\ Goto(i, "release") /\ Fault("restore")
  /\ handles' = Aged
  /\ UNCHANGED <<hook, slug, lock, shared, gen, asked>>

(* What was restored is verified; unverified, the slug and GitHub's hook   *)
(* are left alone.                                                         *)
RecheckRestored(i) ==
  /\ inv[i].pc = "recheck"
  /\ \/ Authenticates /\ Goto(i, "slug") /\ NoFault
     \/ /\ inv' = [inv EXCEPT ![i].pc = "release", ![i].done = TRUE]
        /\ \/ ~Authenticates /\ NoFault
           \/ Fault("recheck")
  /\ UNCHANGED <<ssm, hook, slug, lock, shared, gen, handles, asked>>

-----------------------------------------------------------------------------
(* What both end with                                                      *)

Finished(i) == [inv EXCEPT ![i].pc = "release", ![i].done = TRUE]

(* app-slug is convenience: best effort, and written last by a relink.     *)
WriteSlug(i) ==
  /\ inv[i].pc = "slug"
  /\ \/ slug' = AppOf[Cur("app-id")] /\ NoFault
     \/ UNCHANGED slug /\ Fault("slug")
  /\ inv' = IF inv[i].kind = "relink" THEN Finished(i) ELSE [inv EXCEPT ![i].pc = "sync"]
  /\ UNCHANGED <<ssm, hook, lock, shared, gen, handles, asked>>

(* A stored set without a webhook secret has nothing to tell GitHub.       *)
PushSecret ==
  hook' = IF Cur("webhook-secret") = None THEN hook
          ELSE [hook EXCEPT ![AppOf[Cur("app-id")]] = SecretOf[Cur("webhook-secret")]]

AfterHook(i) ==
  inv' = IF inv[i].kind = "relink" THEN [inv EXCEPT ![i].pc = "slug"] ELSE Finished(i)

(* Mutant: a refused hook update is only ever a warning.                   *)
MustUndoNever(i) == FALSE

(* A rotated secret GitHub was not told of undoes the relink, unless the   *)
(* operator accepted that.                                                 *)
MustUndo(i) == inv[i].kind = "relink" /\ inv[i].rotated /\ ~inv[i].allow

HookRefused(i) == IF MustUndo(i) THEN StartUndo(i) ELSE AfterHook(i)

(* A rollback and an operator's allowHookDesync take the refusal knowingly;*)
(* a relink that did not rotate the secret takes it as harmless.           *)
HookTag(i) ==
  IF inv[i].kind = "rollback" \/ inv[i].allow THEN "accepted"
  ELSE IF inv[i].rotated THEN "hook" ELSE "advisory"

(* updateAppHookConfig, which may be applied although its answer is lost.  *)
SyncHook(i) ==
  /\ inv[i].pc = "sync"
  /\ \/ PushSecret /\ AfterHook(i) /\ NoFault
     \/ UNCHANGED hook /\ HookRefused(i) /\ FaultAs("hook", HookTag(i))
     \/ PushSecret /\ HookRefused(i) /\ Fault("hooklost")
  /\ UNCHANGED <<ssm, slug, lock, shared, gen, handles, asked>>

Answered(i) == [inv EXCEPT ![i] = [Idle EXCEPT !.pc = "post", !.kind = inv[i].kind]]

(* The answer carries the rollback handle unless the undo was complete.    *)
(* The lock is given up only by its holder; a fault leaves it to lapse.    *)
ReleaseLock(i) ==
  /\ inv[i].pc = "release"
  /\ inv' = Answered(i)
  /\ \/ lock' = (IF lock = i THEN None ELSE lock) /\ NoFault
     \/ lock' = (IF lock = i THEN Gone ELSE lock) /\ Fault("release")
  /\ handles' = IF inv[i].kind = "relink" /\ inv[i].before # None /\ ~inv[i].rolled
                THEN handles \union {[of |-> inv[i].before, stale |-> FALSE]} ELSE handles
  /\ UNCHANGED <<ssm, hook, slug, shared, gen, asked>>

(* Mutant: the status answers are dropped only before a change.            *)
InvalidateAgainNot(i) ==
  /\ inv[i].pc = "post"
  /\ inv' = [inv EXCEPT ![i] = Idle]
  /\ NoFault
  /\ UNCHANGED <<ssm, hook, slug, lock, shared, gen, handles, asked>>

(* The status answers are dropped a second time after the change.          *)
InvalidateAgain(i) ==
  /\ inv[i].pc = "post"
  /\ ClearShared
  /\ inv' = [inv EXCEPT ![i] = Idle]
  /\ UNCHANGED <<ssm, hook, slug, lock, handles, asked>>

-----------------------------------------------------------------------------
(* Status                                                                  *)

Stored == [id |-> Cur("app-id"), pem |-> Cur("app-pem")]

(* No answer at hand: note the generation, then compute.  A generation     *)
(* that cannot be read is taken as none.                                   *)
StatusBegins(i) ==
  /\ inv[i].pc = "idle" /\ shared = None
  /\ \E g \in {gen, None} :
       /\ g = None => Fault("genread")
       /\ g = gen => NoFault
       /\ inv' = [inv EXCEPT ![i] = [Idle EXCEPT !.pc = "compute", !.kind = "status", !.gen = g]]
  /\ UNCHANGED <<ssm, hook, slug, lock, shared, gen, handles, asked>>

StatusComputes(i) ==
  /\ inv[i].pc = "compute"
  /\ inv' = [inv EXCEPT ![i].pc = "publish", ![i].view = Stored]
  /\ UNCHANGED <<ssm, hook, slug, lock, shared, gen, handles, asked, faults, met>>

(* putStatusCache: only while the generation is the one noted; with none   *)
(* noted, unconditionally.                                                 *)
StatusPublishes(i) ==
  /\ inv[i].pc = "publish"
  /\ shared' = IF inv[i].gen \in {None, gen} THEN inv[i].view ELSE shared
  /\ inv' = [inv EXCEPT ![i] = Idle]
  /\ UNCHANGED <<ssm, hook, slug, lock, gen, handles, asked, faults, met>>

(* The 30 s of an answer pass.                                             *)
SharedExpires ==
  /\ shared # None
  /\ shared' = None
  /\ UNCHANGED <<ssm, hook, slug, lock, inv, gen, handles, asked, faults, met>>

-----------------------------------------------------------------------------

(* The invocation crashes, or meets its 25 s timeout: its catch and        *)
(* finally blocks do not run, and its lock stays behind.                   *)
Crash(i) ==
  /\ inv[i].pc # "idle"
  /\ Fault("crash")
  /\ inv' = [inv EXCEPT ![i] = Idle]
  /\ lock' = IF lock = i THEN Gone ELSE lock
  /\ UNCHANGED <<ssm, hook, slug, shared, gen, handles, asked>>

RelinkStep(i) ==
  \/ BeginRelink(i) \/ WriteParam(i) \/ VerifyStored(i) \/ UndoWrite(i)

RollbackStep(i) == BeginRollback(i) \/ RestoreParam(i) \/ RecheckRestored(i)

ChangeStep(i) ==
  \/ AcquireLock(i) \/ RelinkStep(i) \/ RollbackStep(i)
  \/ WriteSlug(i) \/ SyncHook(i) \/ ReleaseLock(i) \/ InvalidateAgain(i)

StatusStep(i) == StatusBegins(i) \/ StatusComputes(i) \/ StatusPublishes(i)

Next ==
  \/ \E i \in Invocs : Request(i) \/ ChangeStep(i) \/ StatusStep(i) \/ Crash(i)
  \/ LockExpires \/ SharedExpires

Spec == Init /\ [][Next]_vars

-----------------------------------------------------------------------------
(* What the properties speak of                                            *)

Settled == \A i \in Invocs : inv[i].pc \notin Locked

Without(ks) == faults \intersect ks = {}

(* Failures that can leave the parameters of two sets side by side: the    *)
(* invocation ends mid-way, a write fails to be undone, a write nobody     *)
(* knows of, a rollback cut short.                                         *)
Torn == {"crash", "undo", "putlost", "restore"}

Whole == \E c \in Creds \union {None} : \A p \in Names : Cur(p) = c

Agree == Cur("app-id") # None => hook[AppOf[Cur("app-id")]] = SecretOf[Cur("webhook-secret")]

SlugRight == Cur("app-id") # None => slug = AppOf[Cur("app-id")]

Changing(i) == inv[i].kind \in {"relink", "rollback"}

(* A relink that noted the versions to go back to.                         *)
Replacing(i) ==
  inv[i].kind = "relink" /\ inv[i].pc \in {"put", "check", "undo", "sync", "slug"}

-----------------------------------------------------------------------------
(* The inductive invariant                                                 *)

(* What an invocation relies on at each of its steps: the lock is its own, *)
(* the versions it may have to go back to are still in the history (only   *)
(* the lock's holder writes), there is something left to write or to undo, *)
(* and what it tells GitHub is identified by a stored App id.              *)
Restorable(i) ==
  inv[i].before \in Snapshot /\ \A p \in Names : inv[i].before[p] <= Len(ssm[p])

Sound(i) ==
  /\ inv[i].pc \in Locked => lock = i
  /\ inv[i].kind = "relink" /\ inv[i].pc # "post" => inv[i].cred \in Creds
  /\ inv[i].kind = "rollback" /\ inv[i].pc # "post" => inv[i].before \in Snapshot
  /\ inv[i].pc \in {"put", "check", "undo"} => inv[i].kind = "relink"
  /\ inv[i].pc \in {"acquire", "begin"} => inv[i].at = 0
  /\ inv[i].pc \in Locked \ {"begin", "release"} => Restorable(i)
  /\ inv[i].pc = "put" => inv[i].at < Len(Params)
  /\ inv[i].pc \in {"undo", "restore"} => inv[i].todo # {}
  /\ inv[i].pc \in {"sync", "slug"} => Cur("app-id") # None

IInv == TypeOK /\ \A i \in Invocs : Sound(i)

(* Why RolledBackIsBack, CredentialsWhole, SecretsAgree, SlugNamesStored   *)
(* and SharedIsCurrent hold.                                               *)

(* What a relink has not written, or has undone, is what it was before,    *)
(* as long as the undo has not failed and every write is known of.         *)
Undoable(i) ==
  /\ Changing(i) <=> inv[i].pc \in Locked \union {"acquire", "post"}
  /\ inv[i].pc \in {"compute", "publish"} => inv[i].kind = "status"
  /\ inv[i].pc \in {"restore", "recheck"} => inv[i].kind = "rollback"
  /\ inv[i].pc \in {"acquire"} \union (Locked \ {"undo", "release"}) => ~inv[i].rolled
  /\ inv[i].kind = "relink" /\ inv[i].pc \in {"acquire", "begin"} => inv[i].before = None
  /\ Replacing(i) /\ inv[i].pc \notin {"put", "undo"} => inv[i].at = Len(Params)
  /\ Without({"putlost"}) =>
       /\ inv[i].pc = "put" => \A p \in Names \ Written(i) : Cur(p) = Value(p, inv[i].before[p])
       /\ inv[i].pc = "undo" /\ inv[i].rolled =>
            \A p \in Names \ inv[i].todo : Cur(p) = Value(p, inv[i].before[p])
       /\ inv[i].pc = "release" /\ inv[i].kind = "relink" /\ inv[i].rolled =>
            \A p \in Names : Cur(p) = Value(p, inv[i].before[p])

(* A handle that is not stale names versions that exist, and a relink      *)
(* notes no earlier ones.                                                  *)
FreshNames(b) == \A h \in handles : h.stale \/ \A p \in Names : h.of[p] <= b[p]

HandlesFresh ==
  /\ FreshNames([p \in Names |-> Len(ssm[p])])
  /\ \A i \in Invocs :
       /\ Replacing(i) => FreshNames(inv[i].before)
       /\ /\ inv[i].pc = "release" /\ inv[i].kind = "relink"
          /\ inv[i].before # None \/ inv[i].rolled
          => Restorable(i)

(* The versions h names are those of the set c, and the parameters in S    *)
(* hold c, the others d.                                                   *)
Denotes(h, c)  == \A p \in Names : Value(p, h[p]) = c
Holds(S, c, d) == \A p \in Names : Cur(p) = IF p \in S THEN c ELSE d

(* A relink holds the new set where it has written and not undone, the set *)
(* of before everywhere else; so does a rollback.                          *)
HeldWhole(i) ==
  /\ Replacing(i) =>
       \E c \in Creds \union {None} :
         /\ Denotes(inv[i].before, c)
         /\ Holds(IF inv[i].pc = "undo" THEN inv[i].todo ELSE Written(i), inv[i].cred, c)
  /\ inv[i].pc = "restore" =>
       \E c, d \in Creds \union {None} : Denotes(inv[i].before, c) /\ Holds(inv[i].todo, d, c)
  /\ inv[i].pc \in Locked \ {"restore"} /\ ~Replacing(i) => Whole
  /\ inv[i].pc = "release" /\ inv[i].kind = "relink" /\ inv[i].before # None =>
       \E c \in Creds \union {None} : Denotes(inv[i].before, c)

SetsWhole ==
  Without(Torn \union {"stale"}) =>
    /\ \A h \in handles : h.stale \/ \E c \in Creds \union {None} : Denotes(h.of, c)
    /\ Settled => Whole
    /\ \A i \in Invocs : HeldWhole(i)

(* Until GitHub is told of the new secret it signs with that of before.    *)
HeldAgrees(i) ==
  /\ Replacing(i) /\ inv[i].pc # "slug" =>
       \A c \in Creds : Denotes(inv[i].before, c) => hook[AppOf[c]] = SecretOf[c]
  /\ \/ inv[i].pc \in {"begin", "release"}
     \/ inv[i].pc = "slug" /\ inv[i].kind = "relink"
     => Agree

(* Until a relink is past undoing the slug is that of before.              *)
HeldSlug(i) ==
  /\ Replacing(i) => \A c \in Creds : Denotes(inv[i].before, c) => slug = AppOf[c]
  /\ \/ inv[i].pc \in {"begin", "release"}
     \/ inv[i].pc = "sync" /\ inv[i].kind = "rollback"
     => SlugRight

HookKept ==
  Without(Torn \union {"stale", "hooklost", "recheck"} \union Tolerated) =>
    (Settled => Agree) /\ \A i \in Invocs : HeldAgrees(i)

SlugKept ==
  Without(Torn \union {"stale", "slug", "recheck"}) =>
    (Settled => SlugRight) /\ \A i \in Invocs : HeldSlug(i)

(* An answer computed before a change notes a generation that the end of   *)
(* the change outdates.                                                    *)
Fenced ==
  Without({"clear", "genread", "crash"}) =>
    /\ \A i \in Invocs : inv[i].kind = "status" => inv[i].gen \in 0 .. gen
    /\ (\A i \in Invocs : ~Changing(i)) =>
         /\ shared \in {None, Stored}
         /\ \A i \in Invocs : inv[i].pc = "publish" /\ inv[i].gen = gen => inv[i].view = Stored

ChangeInv ==
  /\ \A i \in Invocs : Undoable(i)
  /\ HandlesFresh /\ SetsWhole /\ HookKept /\ SlugKept /\ Fenced

-----------------------------------------------------------------------------
(* Properties                                                              *)

(* Relinks and rollbacks exclude one another: however the lock row is      *)
(* acquired, lost or left behind by a crash, at most one invocation is     *)
(* between taking the lock and giving it up (withConfigLock).              *)
OneWriter ==
  \A i, j \in Invocs : inv[i].pc \in Locked /\ inv[j].pc \in Locked => i = j

(* The five credential parameters are never a mixture of two sets, nor a   *)
(* part of one: a relink that fails anywhere undoes what it wrote, first   *)
(* link included, and a rollback restores all of a handle, unless one that *)
(* outlived a deletion (undoWrites, restoreVersions).                      *)
CredentialsWhole == Settled /\ Without(Torn \union {"stale"}) => Whole

(* "rolledBack: true" is the truth: when a relink answers it, every        *)
(* parameter has the value it had before - unless a write was applied      *)
(* without its answer, which the undo does not know of.                    *)
RolledBackIsBack ==
  \A i \in Invocs :
    inv[i].kind = "relink" /\ inv[i].pc = "release" /\ inv[i].rolled /\ Without({"putlost"})
      => Restorable(i) /\ \A p \in Names : Cur(p) = Value(p, inv[i].before[p])

(* GitHub signs with the secret Ingest verifies: a refused hook update     *)
(* leaves no desynchronised relink behind unless the operator accepted it, *)
(* and a rollback takes GitHub along (relinkAction's hook-desync gate).    *)
SecretsAgree ==
  Settled /\ Without(Torn \union {"stale", "hooklost", "recheck"} \union Tolerated) => Agree

(* "a secret that did not change leaves GitHub and Ingest in agreement     *)
(* regardless of the sync" (the comment on secretRotated).                 *)
UnrotatedSecretAgrees ==
  Settled /\ faults \subseteq {"hook", "advisory"} => Agree

(* A broker stopped by its timeout leaves "its own verify->rollback path   *)
(* to clean up" (the comment on the function's timeout).                   *)
TimeoutLeavesWholeSet == Settled /\ lock = None /\ faults \subseteq {"crash"} => Whole

(* The advertised slug is the stored App's: it is written only once the    *)
(* relink can no longer be undone, and re-pointed by a rollback.           *)
SlugNamesStored ==
  Settled /\ Without(Torn \union {"stale", "slug", "recheck"}) => SlugRight

(* Once a change is over no container publishes or serves from the shared  *)
(* row an answer computed before it: the generation fence.                 *)
SharedIsCurrent ==
  /\ \A i \in Invocs : ~Changing(i)
  /\ Without({"clear", "genread", "crash"})
  => shared \in {None, Stored}

=============================================================================
