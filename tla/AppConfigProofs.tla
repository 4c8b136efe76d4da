-------------------------- MODULE AppConfigProofs ---------------------------
(***************************************************************************)
(* Theorems of the platform-config broker, for every number of containers, *)
(* every set of credentials and Apps, and every schedule of faults.        *)
(***************************************************************************)
EXTENDS AppConfig, TLAPS

Pc == {"idle", "acquire", "post", "compute", "publish"} \union Locked

(* The five parameters, by position.                                       *)
LEMMA ParamsList ==
  /\ Len(Params) = 5
  /\ \A k \in 1 .. Len(Params) : Params[k] \in Names
  /\ \A p \in Names : \E k \in 1 .. Len(Params) : Params[k] = p
  /\ Names # {} /\ "app-id" \in Names
<1>1. Len(Params) = 5
  BY DEF Params
<1>2. Params[1] = "app-id"
  BY DEF Params
<1>3. QED
  BY <1>1, <1>2 DEF Names

(* The undo and the rollback always have a next parameter: the first of    *)
(* those left exists.                                                      *)
LEMMA FirstIsIn ==
  ASSUME NEW S \in SUBSET Names, S # {}
  PROVE  First(S) \in S
<1> DEFINE At(k) == Params[k] \in S
<1>1. \E k \in 1 .. 5 : At(k) /\ \A j \in 1 .. k - 1 : ~At(j)
  <2>1. At(1) \/ At(2) \/ At(3) \/ At(4) \/ At(5)
    BY ParamsList
  <2>2. QED
    BY <2>1
<1>2. PICK k \in 1 .. 5 : At(k) /\ \A j \in 1 .. k - 1 : ~At(j)
  BY <1>1
<1>3. \E p \in S : \E m \in 1 .. Len(Params) :
         Params[m] = p /\ \A j \in 1 .. m - 1 : Params[j] \notin S
  BY <1>2, ParamsList
<1>4. QED
  BY <1>3 DEF First

LEMMA NextUndoIsLeft ==
  ASSUME TypeOK, NEW i \in Invocs, inv[i].todo # {}
  PROVE  NextUndo(i) \in inv[i].todo /\ NextUndo(i) \in Names
<1>1. inv[i].todo \in SUBSET Names
  BY DEF TypeOK, InvType
<1> DEFINE old == {p \in inv[i].todo : inv[i].before[p] # 0}
<1>2. old \in SUBSET Names
  BY <1>1
<1>3. CASE old = {}
  BY <1>1, <1>3, FirstIsIn DEF NextUndo
<1>4. CASE old # {}
  BY <1>1, <1>2, <1>4, FirstIsIn DEF NextUndo
<1>5. QED
  BY <1>3, <1>4

LEMMA IdleType ==
  /\ Idle \in InvType
  /\ Idle.pc = "idle" /\ Idle.kind = "none" /\ Idle.at = 0
BY ParamsList DEF Idle, InvType

(* The initial states satisfy the inductive invariant.                     *)
LEMMA InitIInv == Init => IInv
<1> SUFFICES ASSUME Init PROVE IInv
  OBVIOUS
<1> USE ConstantsAssumption, NoneAssumption DEF Init
<1>1. Idle \in InvType
  BY IdleType
<1>2. ssm \in [Names -> Seq(Creds)] /\ slug \in Apps \union {None}
  <2>1. CASE ssm = [p \in Names |-> <<>>] /\ slug = None
    <3>1. <<>> \in Seq(Creds)
      OBVIOUS
    <3>2. QED
      BY <2>1, <3>1
  <2>2. ASSUME NEW c \in Creds, ssm = [p \in Names |-> <<c>>], slug = AppOf[c]
        PROVE  ssm \in [Names -> Seq(Creds)] /\ slug \in Apps
    <3>1. <<c>> \in Seq(Creds)
      OBVIOUS
    <3>2. QED
      BY <2>2, <3>1 DEF Apps
  <2>3. QED
    BY <2>1, <2>2
<1>3. TypeOK
  BY <1>1, <1>2 DEF TypeOK
<1>4. ASSUME NEW i \in Invocs PROVE Sound(i)
  <2>1. inv[i].pc = "idle" /\ inv[i].kind = "none"
    BY DEF Idle
  <2>2. QED
    BY <2>1 DEF Sound, Locked
<1>5. QED
  BY <1>3, <1>4 DEF IInv

-----------------------------------------------------------------------------
(* Frames                                                                  *)

(* A fault is counted, and remembered by its kind.                         *)
LEMMA FaultType ==
  ASSUME TypeOK,
         NoFault \/ (\E k \in Kinds, tag \in Tags : FaultAs(k, tag)) \/ Note("stale")
  PROVE  faults' \subseteq Tags /\ met' \in 0 .. Len(FaultKinds)
<1>1. Len(FaultKinds) \in Nat
  BY ConstantsAssumption
<1>2. QED
  BY <1>1 DEF TypeOK, NoFault, FaultAs, Note, Tags

LEMMA ClearSharedType ==
  ASSUME TypeOK, ClearShared
  PROVE  shared' \in View \union {None} /\ gen' \in Nat
         /\ faults' \subseteq Tags /\ met' \in 0 .. Len(FaultKinds)
<1>1. NoFault \/ Fault("clear")
  BY DEF ClearShared
<1>2. faults' \subseteq Tags /\ met' \in 0 .. Len(FaultKinds)
  BY <1>1, FaultType DEF Fault, Kinds, Tags
<1>3. QED
  BY <1>2 DEF ClearShared, TypeOK

(* The request of one container moves; the others' stay.                   *)
LEMMA OneMoves ==
  ASSUME TypeOK, NEW i \in Invocs, NEW r \in InvType, inv' = [inv EXCEPT ![i] = r]
  PROVE  /\ inv' \in [Invocs -> InvType]
         /\ inv'[i] = r
         /\ \A j \in Invocs \ {i} : inv'[j] = inv[j]
BY DEF TypeOK

(* An invocation is sound whatever another one does that holds the lock... *)
LEMMA HolderSparesOthers ==
  ASSUME IInv, NEW i \in Invocs, inv[i].pc \in Locked,
         \A j \in Invocs \ {i} : inv'[j] = inv[j]
  PROVE  \A j \in Invocs \ {i} : Sound(j)'
<1> SUFFICES ASSUME NEW j \in Invocs \ {i} PROVE Sound(j)'
  OBVIOUS
<1>1. lock = i /\ Sound(j)
  BY DEF IInv, Sound
<1>2. inv[j].pc \notin Locked
  BY <1>1 DEF Sound
<1>3. QED
  BY <1>1, <1>2 DEF Sound, Locked

(* ... and whatever one does that writes no parameter, as long as it does  *)
(* not take the lock from its holder.                                      *)
LEMMA ReaderSparesOthers ==
  ASSUME IInv, NEW i, ssm' = ssm,
         \A j \in Invocs \ {i} :
           inv'[j] = inv[j] /\ (inv[j].pc \in Locked => lock' = lock)
  PROVE  \A j \in Invocs \ {i} : Sound(j)'
BY DEF IInv, Sound, Restorable, Cur

-----------------------------------------------------------------------------
(* How a request moves                                                     *)

(* The request goes on as it was, but for where it stands.                 *)
Moves(i, pcs) ==
  /\ inv' \in [Invocs -> InvType]
  /\ \A j \in Invocs \ {i} : inv'[j] = inv[j]
  /\ inv'[i].pc \in pcs
  /\ inv'[i].kind = inv[i].kind /\ inv'[i].cred = inv[i].cred
  /\ inv'[i].before = inv[i].before /\ inv'[i].at = inv[i].at
  /\ inv'[i].pc \in {"undo", "restore"} => inv'[i].todo # {}

LEMMA GotoMoves ==
  ASSUME TypeOK, NEW i \in Invocs,
         NEW pc \in Pc \ {"undo", "restore"}, Goto(i, pc)
  PROVE  Moves(i, {pc})
<1> DEFINE r == [inv[i] EXCEPT !.pc = pc]
<1>1. inv[i] \in InvType
  BY DEF TypeOK
<1>2. r \in InvType /\ r.pc = pc /\ r.kind = inv[i].kind /\ r.cred = inv[i].cred
      /\ r.before = inv[i].before /\ r.at = inv[i].at
  BY <1>1 DEF InvType, Pc
<1>3. inv' = [inv EXCEPT ![i] = r]
  BY DEF Goto
<1>4. QED
  BY <1>2, <1>3, OneMoves DEF Moves

LEMMA FinishedMoves ==
  ASSUME TypeOK, NEW i \in Invocs, inv' = Finished(i)
  PROVE  Moves(i, {"release"})
<1> DEFINE r == [inv[i] EXCEPT !.pc = "release", !.done = TRUE]
<1>1. inv[i] \in InvType
  BY DEF TypeOK
<1>2. r \in InvType /\ r.pc = "release" /\ r.kind = inv[i].kind /\ r.cred = inv[i].cred
      /\ r.before = inv[i].before /\ r.at = inv[i].at
  BY <1>1 DEF InvType, Locked
<1>3. inv' = [inv EXCEPT ![i] = r]
  BY DEF Finished
<1>4. QED
  BY <1>2, <1>3, OneMoves DEF Moves

(* An invocation stays well-typed when the parameters left to undo are set. *)
LEMMA UndoTyped ==
  ASSUME NEW x \in InvType, NEW left \in SUBSET Names, NEW back \in BOOLEAN, NEW pc \in Pc
  PROVE  [x EXCEPT !.todo = left, !.rolled = back, !.pc = pc] \in InvType
BY DEF InvType, Pc

LEMMA StartUndoMoves ==
  ASSUME TypeOK, NEW i \in Invocs, StartUndo(i)
  PROVE  Moves(i, {"undo", "release"})
<1> DEFINE written == Written(i)
           rolled == written # {}
           next == IF written = {} THEN "release" ELSE "undo"
           r == [inv[i] EXCEPT !.todo = written, !.rolled = rolled, !.pc = next]
<1>1. inv[i] \in InvType /\ inv[i].at \in 0 .. Len(Params)
  BY DEF TypeOK, InvType
<1>2. written \in SUBSET Names /\ rolled \in BOOLEAN
  BY <1>1, ParamsList DEF Written
<1>3. next \in {"undo", "release"} /\ (next = "undo" => written # {})
  OBVIOUS
<1>4. inv' = [inv EXCEPT ![i] = r]
  BY DEF StartUndo
<1> HIDE DEF written, rolled, next
<1>5. next \in Pc
  BY <1>3 DEF Pc, Locked
<1>6. r \in InvType
  BY <1>1, <1>2, <1>5, UndoTyped
<1>7. r.kind = inv[i].kind /\ r.cred = inv[i].cred
      /\ r.before = inv[i].before /\ r.at = inv[i].at
  BY <1>1 DEF InvType
<1>8. r.pc \in {"undo", "release"} /\ (r.pc \in {"undo", "restore"} => r.todo # {})
  BY <1>1, <1>3 DEF InvType
<1>9. QED
  BY <1>4, <1>6, <1>7, <1>8, OneMoves DEF Moves

LEMMA AfterHookMoves ==
  ASSUME TypeOK, NEW i \in Invocs, AfterHook(i)
  PROVE  Moves(i, {"slug", "release"})
<1>1. CASE inv[i].kind = "relink"
  <2>1. Goto(i, "slug")
    BY <1>1 DEF AfterHook, Goto
  <2>2. QED
    BY <2>1, GotoMoves DEF Moves, Pc, Locked
<1>2. CASE inv[i].kind # "relink"
  <2>1. inv' = Finished(i)
    BY <1>2 DEF AfterHook
  <2>2. QED
    BY <2>1, FinishedMoves DEF Moves
<1>3. QED
  BY <1>1, <1>2

(* The lock's holder goes on without writing a credential: it stays sound  *)
(* when what its next step relies on is already so.                        *)
LEMMA HolderMoves ==
  ASSUME IInv, NEW i \in Invocs, NEW pcs, Moves(i, pcs),
         inv[i].pc \in Locked \ {"begin", "release"},
         ssm' = ssm, lock' = lock,
         pcs \subseteq {"check", "undo", "sync", "slug", "recheck", "release"},
         inv'[i].pc \in {"check", "undo"} => inv[i].kind = "relink",
         inv'[i].pc \in {"sync", "slug"} => Cur("app-id") # None
  PROVE  \A j \in Invocs : Sound(j)'
<1>1. \A j \in Invocs \ {i} : Sound(j)'
  BY HolderSparesOthers DEF Moves
<1>2. Sound(i)
  BY DEF IInv
<1>3. inv'[i].pc \in {"check", "undo", "sync", "slug", "recheck", "release"}
  BY DEF Moves
<1>4. Cur("app-id")' = Cur("app-id")
  BY DEF Cur
<1>5. Restorable(i) => Restorable(i)'
  BY DEF Restorable, Moves
<1>6. Sound(i)'
  BY <1>2, <1>3, <1>4, <1>5 DEF Sound, Moves, Locked
<1>7. QED
  BY <1>1, <1>6

-----------------------------------------------------------------------------
(* Steps that write no credential                                          *)

LEMMA RequestKeeps ==
  ASSUME IInv, NEW i \in Invocs, Request(i)
  PROVE  IInv'
<1>1. TypeOK /\ inv[i].pc = "idle" /\ asked' \in 0 .. MaxRequests
  <2>1. asked \in 0 .. MaxRequests /\ MaxRequests \in Nat
    BY ConstantsAssumption DEF IInv, TypeOK
  <2>2. inv[i].pc = "idle" /\ asked < MaxRequests /\ asked' = asked + 1
    BY DEF Request
  <2>3. asked' \in 0 .. MaxRequests
    BY <2>1, <2>2
  <2>4. QED
    BY <2>2, <2>3 DEF IInv
<1> USE DEF Request
<1>2. PICK r \in InvType :
        /\ inv' = [inv EXCEPT ![i] = r]
        /\ r.pc = "acquire" /\ r.at = 0
        /\ r.kind = "relink" => r.cred \in Creds
        /\ r.kind = "rollback" => r.before \in Snapshot
  <2>1. CASE \E c \in Creds, allow \in BOOLEAN :
               inv' = [inv EXCEPT ![i] =
                 [Idle EXCEPT !.pc = "acquire", !.kind = "relink", !.cred = c, !.allow = allow]]
    <3>1. PICK c \in Creds, allow \in BOOLEAN :
                 inv' = [inv EXCEPT ![i] =
                   [Idle EXCEPT !.pc = "acquire", !.kind = "relink", !.cred = c, !.allow = allow]]
      BY <2>1
    <3> DEFINE r == [Idle EXCEPT !.pc = "acquire", !.kind = "relink", !.cred = c, !.allow = allow]
    <3>2. r \in InvType /\ r.pc = "acquire" /\ r.at = 0 /\ r.kind = "relink" /\ r.cred \in Creds
      BY IdleType DEF InvType
    <3>3. QED
      BY <3>1, <3>2
  <2>2. CASE \E h \in handles :
               inv' = [inv EXCEPT ![i] =
                 [Idle EXCEPT !.pc = "acquire", !.kind = "rollback", !.before = h.of]]
    <3>1. PICK h \in handles :
                 inv' = [inv EXCEPT ![i] =
                   [Idle EXCEPT !.pc = "acquire", !.kind = "rollback", !.before = h.of]]
      BY <2>2
    <3>2. h.of \in Snapshot
      BY <1>1 DEF TypeOK, Handle
    <3> DEFINE r == [Idle EXCEPT !.pc = "acquire", !.kind = "rollback", !.before = h.of]
    <3>3. r \in InvType /\ r.pc = "acquire" /\ r.at = 0 /\ r.kind = "rollback"
          /\ r.before \in Snapshot
      BY <3>2, IdleType DEF InvType
    <3>4. QED
      BY <3>1, <3>3
  <2>3. QED
    BY <2>1, <2>2
<1>3. inv' \in [Invocs -> InvType] /\ inv'[i] = r /\ \A j \in Invocs \ {i} : inv'[j] = inv[j]
  BY <1>1, <1>2, OneMoves
<1>4. TypeOK'
  BY <1>1, <1>3, ClearSharedType DEF TypeOK
<1>5. \A j \in Invocs \ {i} : Sound(j)'
  BY <1>3, ReaderSparesOthers
<1>6. Sound(i)'
  BY <1>2, <1>3 DEF Sound, Locked
<1>7. QED
  BY <1>4, <1>5, <1>6 DEF IInv

LEMMA Lengths ==
  ASSUME TypeOK
  PROVE  \A p \in Names : ssm[p] \in Seq(Creds) /\ Len(ssm[p]) \in Nat
BY DEF TypeOK

(* While the lock is free nobody is past taking it.                        *)
LEMMA FreeMeansNone ==
  ASSUME IInv, lock \notin Invocs
  PROVE  \A j \in Invocs : inv[j].pc \notin Locked
BY DEF IInv, Sound

LEMMA AcquireLockKeeps ==
  ASSUME IInv, NEW i \in Invocs, AcquireLock(i)
  PROVE  IInv'
<1> USE NoneAssumption DEF AcquireLock
<1>1. TypeOK /\ Sound(i)
  BY DEF IInv
<1>2. PICK pc \in {"begin", "post"} : Goto(i, pc) /\ (pc = "begin" => lock = None /\ lock' = i)
  <2>1. CASE lock = None /\ lock' = i /\ Goto(i, "begin")
    BY <2>1
  <2>2. CASE Goto(i, "post")
    BY <2>2
  <2>3. QED
    BY <2>1, <2>2
<1>3. Moves(i, {pc})
  <2>1. pc \in Pc \ {"undo", "restore"}
    BY DEF Pc, Locked
  <2>2. QED
    BY <1>1, <1>2, <2>1, GotoMoves
<1>4. lock' \in Invocs \union {None, Gone} /\ (lock \in Invocs => lock' = lock)
  BY <1>1 DEF TypeOK
<1>5. NoFault \/ Fault("acquire")
  OBVIOUS
<1>6. TypeOK'
  BY <1>1, <1>3, <1>4, <1>5, FaultType DEF TypeOK, Moves, Fault, Kinds, Tags
<1>7. \A j \in Invocs \ {i} : inv[j].pc \in Locked => lock' = lock
  BY <1>4, FreeMeansNone
<1>8. \A j \in Invocs \ {i} : Sound(j)'
  BY <1>3, <1>7, ReaderSparesOthers DEF Moves
<1>9. Sound(i)'
  BY <1>1, <1>2, <1>3 DEF Sound, Moves, Locked
<1>10. QED
  BY <1>6, <1>8, <1>9 DEF IInv

LEMMA LockExpiresKeeps ==
  ASSUME IInv, LockExpires
  PROVE  IInv'
<1>1. lock \notin Invocs
  BY NoneAssumption DEF LockExpires
<1>2. TypeOK'
  BY DEF IInv, TypeOK, LockExpires
<1>3. \A j \in Invocs : inv[j].pc \notin Locked
  BY <1>1, FreeMeansNone
<1>4. \A j \in Invocs : Sound(j)'
  BY <1>3 DEF IInv, Sound, LockExpires, Locked
<1>5. QED
  BY <1>2, <1>4 DEF IInv

LEMMA BeginRelinkKeeps ==
  ASSUME IInv, NEW i \in Invocs, BeginRelink(i)
  PROVE  IInv'
<1>1. TypeOK /\ Sound(i) /\ inv[i].pc \in Locked /\ inv[i].at = 0
      /\ inv[i].kind = "relink" /\ inv[i].cred \in Creds /\ lock = i
  BY DEF BeginRelink, IInv, Sound, Locked
<1>same. UNCHANGED <<ssm, hook, slug, lock, shared, gen, handles, asked>>
  BY DEF BeginRelink
<1>2. CASE Goto(i, "release") /\ NoFault
  <2>1. Moves(i, {"release"})
    BY <1>1, <1>2, GotoMoves DEF Pc, Locked
  <2>2. TypeOK'
    BY <1>same, <1>1, <1>2, <2>1 DEF TypeOK, Moves, NoFault
  <2>3. \A j \in Invocs \ {i} : Sound(j)'
    BY <1>1, <2>1, HolderSparesOthers DEF Moves
  <2>4. Sound(i)'
    BY <1>same, <1>1, <2>1 DEF Sound, Moves, Locked
  <2>5. QED
    BY <2>2, <2>3, <2>4 DEF IInv
<1>3. ASSUME NEW rotated \in BOOLEAN, NoFault \/ Fault("secretread"),
             inv' = [inv EXCEPT ![i].pc = "put", ![i].rotated = rotated,
                                ![i].before = [p \in Names |-> Len(ssm[p])]]
      PROVE  IInv'
  <2> DEFINE b == [p \in Names |-> Len(ssm[p])]
             r == [inv[i] EXCEPT !.pc = "put", !.rotated = rotated, !.before = b]
  <2>1. b \in Snapshot /\ \A p \in Names : b[p] <= Len(ssm[p])
    <3>1. \A p \in Names : Len(ssm[p]) \in Nat
      BY <1>1, Lengths
    <3>2. QED
      BY <3>1 DEF Snapshot
  <2>2. inv[i] \in InvType
    BY <1>1 DEF TypeOK
  <2>3. r \in InvType /\ r.pc = "put" /\ r.kind = "relink" /\ r.at = 0 /\ r.before = b
        /\ r.cred = inv[i].cred
    BY <1>1, <2>1, <2>2 DEF InvType, Locked
  <2>4. inv' = [inv EXCEPT ![i] = r]
    BY <1>3
  <2> HIDE DEF r, b
  <2>5. inv' \in [Invocs -> InvType] /\ inv'[i] = r
        /\ \A j \in Invocs \ {i} : inv'[j] = inv[j]
    BY <1>1, <2>3, <2>4, OneMoves
  <2>6. TypeOK'
    BY <1>same, <1>1, <1>3, <2>5, FaultType DEF TypeOK, Fault, Kinds, Tags
  <2>7. \A j \in Invocs \ {i} : Sound(j)'
    BY <1>1, <2>5, HolderSparesOthers
  <2>8. Restorable(i)'
    BY <1>same, <2>1, <2>3, <2>5 DEF Restorable
  <2>9. Sound(i)'
    <3>1. lock' = i /\ inv'[i].pc = "put" /\ inv'[i].kind = "relink"
          /\ inv'[i].cred \in Creds /\ inv'[i].at < Len(Params)
      BY <1>same, <1>1, <2>3, <2>5, ParamsList
    <3>2. QED
      BY <2>8, <3>1 DEF Sound, Locked
  <2>10. QED
    BY <2>6, <2>7, <2>9 DEF IInv
<1>4. QED
  BY <1>2, <1>3 DEF BeginRelink

LEMMA VerifyStoredKeeps ==
  ASSUME IInv, NEW i \in Invocs, VerifyStored(i)
  PROVE  IInv'
<1>1. TypeOK /\ Sound(i) /\ inv[i].pc = "check" /\ inv[i].kind = "relink"
  BY DEF VerifyStored, IInv, Sound
<1>same. UNCHANGED <<ssm, hook, slug, lock, shared, gen, handles, asked>>
         /\ (NoFault \/ Fault("check"))
  BY DEF VerifyStored
<1>2. PICK pcs \in SUBSET {"sync", "undo", "release"} :
        Moves(i, pcs) /\ ("sync" \in pcs => Cur("app-id") # None)
  <2>1. CASE StoredVerifies(i) /\ Goto(i, "sync")
    <3>1. Moves(i, {"sync"})
      BY <1>1, <2>1, GotoMoves DEF Pc, Locked
    <3>2. QED
      BY <2>1, <3>1 DEF StoredVerifies, Authenticates
  <2>2. CASE StartUndo(i)
    BY <1>1, <2>2, StartUndoMoves
  <2>3. QED
    BY <2>1, <2>2 DEF VerifyStored
<1>3. TypeOK'
  BY <1>1, <1>same, <1>2, FaultType DEF TypeOK, Moves, Fault, Kinds, Tags
<1>4. inv'[i].pc \in pcs
  BY <1>2 DEF Moves
<1>5. \A j \in Invocs : Sound(j)'
  BY <1>1, <1>same, <1>2, <1>4, HolderMoves DEF Locked
<1>6. QED
  BY <1>3, <1>5 DEF IInv

LEMMA BeginRollbackKeeps ==
  ASSUME IInv, NEW i \in Invocs, BeginRollback(i)
  PROVE  IInv'
<1>1. TypeOK /\ Sound(i) /\ inv[i].pc \in Locked /\ lock = i
      /\ inv[i].kind = "rollback" /\ inv[i].before \in Snapshot
  BY DEF BeginRollback, IInv, Sound, Locked
<1>same. UNCHANGED <<ssm, hook, slug, lock, shared, gen, handles, asked>>
         /\ (NoFault \/ Fault("history") \/ Note("stale"))
  BY DEF BeginRollback
<1>2. PICK pc \in {"restore", "release"} :
        /\ inv' \in [Invocs -> InvType]
        /\ \A j \in Invocs \ {i} : inv'[j] = inv[j]
        /\ inv'[i].pc = pc /\ inv'[i].kind = "rollback" /\ inv'[i].before = inv[i].before
        /\ pc = "restore" => inv'[i].todo = Names /\ Readable(inv[i].before)
  <2>1. CASE Goto(i, "release")
    <3>1. Moves(i, {"release"})
      BY <1>1, <2>1, GotoMoves DEF Pc, Locked
    <3>2. QED
      BY <1>1, <3>1 DEF Moves
  <2>2. CASE /\ Readable(inv[i].before)
             /\ inv' = [inv EXCEPT ![i].pc = "restore", ![i].todo = Names]
    <3> DEFINE r == [inv[i] EXCEPT !.pc = "restore", !.todo = Names]
    <3>1. inv[i] \in InvType
      BY <1>1 DEF TypeOK
    <3>2. r \in InvType /\ r.pc = "restore" /\ r.todo = Names /\ r.kind = inv[i].kind
          /\ r.before = inv[i].before
      BY <3>1 DEF InvType, Locked
    <3>3. inv' = [inv EXCEPT ![i] = r]
      BY <2>2
    <3> HIDE DEF r
    <3>4. QED
      BY <1>1, <2>2, <3>2, <3>3, OneMoves
  <2>3. QED
    BY <2>1, <2>2 DEF BeginRollback
<1>3. TypeOK'
  BY <1>1, <1>same, <1>2, FaultType DEF TypeOK, Fault, Kinds, Tags
<1>4. \A j \in Invocs \ {i} : Sound(j)'
  BY <1>1, <1>2, HolderSparesOthers
<1>5. pc = "restore" => Restorable(i)'
  BY <1>1, <1>same, <1>2 DEF Restorable, Readable
<1>6. Sound(i)'
  BY <1>1, <1>same, <1>2, <1>5, ParamsList DEF Sound, Locked
<1>7. QED
  BY <1>3, <1>4, <1>6 DEF IInv

LEMMA RecheckRestoredKeeps ==
  ASSUME IInv, NEW i \in Invocs, RecheckRestored(i)
  PROVE  IInv'
<1>1. TypeOK /\ Sound(i) /\ inv[i].pc = "recheck"
  BY DEF RecheckRestored, IInv
<1>same. UNCHANGED <<ssm, hook, slug, lock, shared, gen, handles, asked>>
         /\ (NoFault \/ Fault("recheck"))
  BY DEF RecheckRestored
<1>2. PICK pc \in {"slug", "release"} : Moves(i, {pc}) /\ (pc = "slug" => Cur("app-id") # None)
  <2>1. CASE Authenticates /\ Goto(i, "slug")
    <3>1. Moves(i, {"slug"})
      BY <1>1, <2>1, GotoMoves DEF Pc, Locked
    <3>2. QED
      BY <2>1, <3>1 DEF Authenticates
  <2>2. CASE inv' = [inv EXCEPT ![i].pc = "release", ![i].done = TRUE]
    BY <1>1, <2>2, FinishedMoves DEF Finished
  <2>3. QED
    BY <2>1, <2>2 DEF RecheckRestored
<1>3. TypeOK'
  BY <1>1, <1>same, <1>2, FaultType DEF TypeOK, Moves, Fault, Kinds, Tags
<1>4. inv'[i].pc = pc
  BY <1>2 DEF Moves
<1>5. \A j \in Invocs : Sound(j)'
  BY <1>1, <1>same, <1>2, <1>4, HolderMoves DEF Locked
<1>6. QED
  BY <1>3, <1>5 DEF IInv

LEMMA WriteSlugKeeps ==
  ASSUME IInv, NEW i \in Invocs, WriteSlug(i)
  PROVE  IInv'
<1>1. TypeOK /\ Sound(i) /\ inv[i].pc = "slug" /\ Cur("app-id") # None
  BY DEF WriteSlug, IInv, Sound
<1>same. UNCHANGED <<ssm, hook, lock, shared, gen, handles, asked>>
         /\ (NoFault \/ Fault("slug"))
         /\ slug' \in {slug, AppOf[Cur("app-id")]}
  BY DEF WriteSlug
<1>2. Cur("app-id") \in Creds
  BY <1>1, ParamsList, Lengths DEF Cur
<1>3. PICK pc \in {"sync", "release"} : Moves(i, {pc})
  <2>1. CASE inv' = Finished(i)
    BY <1>1, <2>1, FinishedMoves
  <2>2. CASE inv' = [inv EXCEPT ![i].pc = "sync"]
    BY <1>1, <2>2, GotoMoves DEF Goto, Pc, Locked
  <2>3. QED
    BY <2>1, <2>2 DEF WriteSlug
<1>4. slug' \in Apps \union {None}
  BY <1>1, <1>same, <1>2 DEF TypeOK, Apps
<1>5. TypeOK'
  BY <1>1, <1>same, <1>3, <1>4, FaultType DEF TypeOK, Moves, Fault, Kinds, Tags
<1>6. inv'[i].pc = pc
  BY <1>3 DEF Moves
<1>7. \A j \in Invocs : Sound(j)'
  BY <1>1, <1>same, <1>3, <1>6, HolderMoves DEF Locked
<1>8. QED
  BY <1>5, <1>7 DEF IInv

LEMMA SyncHookKeeps ==
  ASSUME IInv, NEW i \in Invocs, SyncHook(i)
  PROVE  IInv'
<1>1. TypeOK /\ Sound(i) /\ inv[i].pc = "sync" /\ Cur("app-id") # None
  BY DEF SyncHook, IInv, Sound
<1>same. UNCHANGED <<ssm, slug, lock, shared, gen, handles, asked>>
         /\ (NoFault \/ Fault("hooklost") \/ FaultAs("hook", HookTag(i)))
         /\ (PushSecret \/ UNCHANGED hook)
         /\ (AfterHook(i) \/ HookRefused(i))
  BY DEF SyncHook
<1>2. hook' \in [Apps -> Secrets]
  <2>1. Cur("app-id") \in Creds
    BY <1>1, ParamsList, Lengths DEF Cur
  <2>2. Cur("webhook-secret") \in Creds \union {None}
    <3>1. "webhook-secret" \in Names
      BY DEF Names, Params
    <3>2. QED
      BY <1>1, <3>1, Lengths DEF Cur
  <2>3. Cur("webhook-secret") # None => SecretOf[Cur("webhook-secret")] \in Secrets
    BY <2>2 DEF Secrets
  <2>4. QED
    BY <1>1, <1>same, <2>3 DEF PushSecret, TypeOK
<1>3. PICK pcs \in SUBSET {"slug", "undo", "release"} :
        Moves(i, pcs) /\ ("undo" \in pcs => inv[i].kind = "relink")
  <2>1. CASE AfterHook(i)
    BY <1>1, <2>1, AfterHookMoves
  <2>2. CASE MustUndo(i) /\ StartUndo(i)
    BY <1>1, <2>2, StartUndoMoves DEF MustUndo
  <2>3. QED
    BY <1>same, <2>1, <2>2 DEF HookRefused
<1>4. HookTag(i) \in Tags
  BY DEF HookTag, Kinds, Tags, Tolerated
<1>5. faults' \subseteq Tags /\ met' \in 0 .. Len(FaultKinds)
  BY <1>1, <1>same, <1>4, FaultType DEF Fault, Kinds, Tags
<1>6. TypeOK'
  BY <1>1, <1>same, <1>2, <1>3, <1>5 DEF TypeOK, Moves
<1>7. inv'[i].pc \in pcs
  BY <1>3 DEF Moves
<1>8. \A j \in Invocs : Sound(j)'
  BY <1>1, <1>same, <1>3, <1>7, HolderMoves DEF Locked
<1>9. QED
  BY <1>6, <1>8 DEF IInv

LEMMA ReleaseLockKeeps ==
  ASSUME IInv, NEW i \in Invocs, ReleaseLock(i)
  PROVE  IInv'
<1>1. TypeOK /\ Sound(i) /\ inv[i].pc = "release" /\ lock = i /\ inv[i] \in InvType
  BY DEF ReleaseLock, IInv, TypeOK, Sound, Locked
<1>2. UNCHANGED <<ssm, hook, slug, shared, gen, asked>> /\ (NoFault \/ Fault("release"))
  BY DEF ReleaseLock
<1> DEFINE kind == inv[i].kind
           r == [Idle EXCEPT !.pc = "post", !.kind = kind]
<1>3. kind \in {"none", "relink", "rollback", "status"}
  BY <1>1 DEF InvType
<1>4. inv' = [inv EXCEPT ![i] = r]
  BY DEF ReleaseLock, Answered
<1>5. inv[i].before \in Snapshot \union {None}
  BY <1>1 DEF InvType
<1>6. handles' \subseteq Handle /\ lock' \in {None, Gone}
  <2>1. [of |-> inv[i].before, stale |-> FALSE] \in Handle \/ inv[i].before = None
    BY <1>5 DEF Handle
  <2>2. QED
    BY <1>1, <2>1 DEF ReleaseLock, TypeOK
<1> HIDE DEF kind
<1>7. r \in InvType /\ r.pc = "post" /\ r.kind = kind
  BY <1>3, IdleType DEF InvType
<1> HIDE DEF r
<1>8. inv' \in [Invocs -> InvType] /\ inv'[i] = r /\ \A j \in Invocs \ {i} : inv'[j] = inv[j]
  BY <1>1, <1>4, <1>7, OneMoves
<1>9. TypeOK'
  BY <1>1, <1>2, <1>6, <1>8, FaultType DEF TypeOK, Fault, Kinds, Tags
<1>10. \A j \in Invocs \ {i} : Sound(j)'
  BY <1>1, <1>8, HolderSparesOthers DEF Locked
<1>11. Sound(i)'
  BY <1>7, <1>8 DEF Sound, Locked
<1>12. QED
  BY <1>9, <1>10, <1>11 DEF IInv

(* A request is over: its container is idle again.                         *)
LEMMA BecomesIdle ==
  ASSUME IInv, NEW i \in Invocs, inv' = [inv EXCEPT ![i] = Idle], ssm' = ssm,
         \A j \in Invocs \ {i} : inv[j].pc \in Locked => lock' = lock
  PROVE  inv' \in [Invocs -> InvType] /\ \A j \in Invocs : Sound(j)'
<1>1. inv' \in [Invocs -> InvType] /\ inv'[i] = Idle
      /\ \A j \in Invocs \ {i} : inv'[j] = inv[j]
  BY OneMoves, IdleType DEF IInv
<1>2. \A j \in Invocs \ {i} : Sound(j)'
  BY <1>1, ReaderSparesOthers
<1>3. Sound(i)'
  BY <1>1, IdleType DEF Sound, Locked
<1>4. QED
  BY <1>1, <1>2, <1>3

LEMMA InvalidateAgainKeeps ==
  ASSUME IInv, NEW i \in Invocs, InvalidateAgain(i)
  PROVE  IInv'
<1>1. TypeOK
  BY DEF IInv
<1>2. inv' \in [Invocs -> InvType] /\ \A j \in Invocs : Sound(j)'
  BY BecomesIdle DEF InvalidateAgain
<1>3. TypeOK'
  BY <1>1, <1>2, ClearSharedType DEF InvalidateAgain, TypeOK
<1>4. QED
  BY <1>2, <1>3 DEF IInv

LEMMA CrashKeeps ==
  ASSUME IInv, NEW i \in Invocs, Crash(i)
  PROVE  IInv'
<1>1. TypeOK
  BY DEF IInv
<1>2. \A j \in Invocs \ {i} : inv[j].pc \in Locked => lock' = lock
  BY DEF IInv, Sound, Crash
<1>3. inv' \in [Invocs -> InvType] /\ \A j \in Invocs : Sound(j)'
  BY <1>2, BecomesIdle DEF Crash
<1>4. TypeOK'
  BY <1>1, <1>3, FaultType DEF Crash, TypeOK, Fault, Kinds, Tags
<1>5. QED
  BY <1>3, <1>4 DEF IInv

LEMMA StatusKeeps ==
  ASSUME IInv, NEW i \in Invocs, StatusStep(i)
  PROVE  IInv'
<1>1. TypeOK /\ Sound(i) /\ inv[i] \in InvType
  BY DEF IInv, TypeOK
<1>2. CASE StatusBegins(i)
  <2>1. PICK g \in Nat \union {None} :
          /\ NoFault \/ Fault("genread")
          /\ inv' = [inv EXCEPT ![i] = [Idle EXCEPT !.pc = "compute", !.kind = "status", !.gen = g]]
    BY <1>1, <1>2 DEF StatusBegins, TypeOK
  <2> DEFINE r == [Idle EXCEPT !.pc = "compute", !.kind = "status", !.gen = g]
  <2>2. r \in InvType /\ r.pc = "compute" /\ r.kind = "status"
    BY IdleType DEF InvType
  <2>3. inv' = [inv EXCEPT ![i] = r]
    BY <2>1
  <2> HIDE DEF r
  <2>4. inv' \in [Invocs -> InvType] /\ inv'[i] = r
        /\ \A j \in Invocs \ {i} : inv'[j] = inv[j]
    BY <1>1, <2>2, <2>3, OneMoves
  <2>same. UNCHANGED <<ssm, hook, slug, lock, shared, gen, handles, asked>>
    BY <1>2 DEF StatusBegins
  <2>5. TypeOK'
    BY <1>1, <2>1, <2>4, <2>same, FaultType DEF TypeOK, Fault, Kinds, Tags
  <2>6. \A j \in Invocs \ {i} : Sound(j)'
    BY <2>4, <2>same, ReaderSparesOthers
  <2>7. Sound(i)'
    BY <2>2, <2>4 DEF Sound, Locked
  <2>8. QED
    BY <2>5, <2>6, <2>7 DEF IInv
<1>3. CASE StatusComputes(i)
  <2> DEFINE r == [inv[i] EXCEPT !.pc = "publish", !.view = Stored]
  <2>1. Stored \in View
    <3>1. "app-id" \in Names /\ "app-pem" \in Names
      BY DEF Names, Params
    <3>2. Cur("app-id") \in Creds \union {None} /\ Cur("app-pem") \in Creds \union {None}
      BY <1>1, <3>1, Lengths DEF Cur
    <3>3. QED
      BY <3>2 DEF Stored, View
  <2>2. r \in InvType /\ r.pc = "publish" /\ r.kind = inv[i].kind /\ r.cred = inv[i].cred
        /\ r.before = inv[i].before
    BY <1>1, <2>1 DEF InvType
  <2>3. inv' = [inv EXCEPT ![i] = r]
    BY <1>3 DEF StatusComputes
  <2> HIDE DEF r
  <2>4. inv' \in [Invocs -> InvType] /\ inv'[i] = r
        /\ \A j \in Invocs \ {i} : inv'[j] = inv[j]
    BY <1>1, <2>2, <2>3, OneMoves
  <2>same. UNCHANGED <<ssm, hook, slug, lock, shared, gen, handles, asked, faults, met>>
    BY <1>3 DEF StatusComputes
  <2>5. TypeOK'
    BY <1>1, <2>4, <2>same DEF TypeOK
  <2>6. \A j \in Invocs \ {i} : Sound(j)'
    BY <2>4, <2>same, ReaderSparesOthers
  <2>7. Sound(i)'
    <3>1. inv[i].pc = "compute"
      BY <1>3 DEF StatusComputes
    <3>2. QED
      BY <1>1, <2>2, <2>4, <3>1 DEF Sound, Locked
  <2>8. QED
    BY <2>5, <2>6, <2>7 DEF IInv
<1>4. CASE StatusPublishes(i)
  <2>1. inv' \in [Invocs -> InvType] /\ \A j \in Invocs : Sound(j)'
    BY <1>4, BecomesIdle DEF StatusPublishes
  <2>2. shared' \in View \union {None}
    BY <1>1, <1>4 DEF StatusPublishes, TypeOK, InvType
  <2>3. TypeOK'
    BY <1>1, <1>4, <2>1, <2>2 DEF StatusPublishes, TypeOK
  <2>4. QED
    BY <2>1, <2>3 DEF IInv
<1>5. QED
  BY <1>2, <1>3, <1>4 DEF StatusStep

-----------------------------------------------------------------------------
(* Steps that write a credential                                           *)

(* A put lengthens the history of one parameter.                           *)
LEMMA PutParamGrows ==
  ASSUME TypeOK, NEW p \in Names, NEW c \in Creds, PutParam(p, c)
  PROVE  /\ ssm' \in [Names -> Seq(Creds)]
         /\ \A q \in Names : Len(ssm[q]) <= Len(ssm'[q])
<1>1. ssm[p] \in Seq(Creds) /\ Append(ssm[p], c) \in Seq(Creds)
      /\ Len(Append(ssm[p], c)) = Len(ssm[p]) + 1
  BY Lengths
<1>2. ssm' = [ssm EXCEPT ![p] = Append(ssm[p], c)] /\ ssm \in [Names -> Seq(Creds)]
  BY DEF PutParam, TypeOK
<1>3. ssm' \in [Names -> Seq(Creds)]
  BY <1>1, <1>2
<1>4. ASSUME NEW q \in Names PROVE Len(ssm[q]) <= Len(ssm'[q])
  <2>1. Len(ssm[q]) \in Nat /\ Len(ssm[p]) \in Nat
    BY Lengths
  <2>2. CASE q = p
    BY <1>1, <1>2, <2>1, <2>2
  <2>3. CASE q # p
    BY <1>2, <2>1, <2>3
  <2>4. QED
    BY <2>2, <2>3
<1>5. QED
  BY <1>3, <1>4

(* Going back to a version adds one; only a parameter with no version to   *)
(* go back to is deleted.                                                  *)
LEMMA PutBackKeepsHistory ==
  ASSUME TypeOK, NEW i \in Invocs, Restorable(i), NEW p \in Names, PutBack(i, p)
  PROVE  /\ ssm' \in [Names -> Seq(Creds)]
         /\ \A q \in Names : inv[i].before[q] <= Len(ssm'[q])
<1>1. \A q \in Names : inv[i].before[q] \in Nat /\ inv[i].before[q] <= Len(ssm[q])
                       /\ Len(ssm[q]) \in Nat /\ ssm[q] \in Seq(Creds)
  BY Lengths DEF Restorable, Snapshot
<1>2. CASE inv[i].before[p] = 0
  <2>1. ssm' = [ssm EXCEPT ![p] = <<>>] /\ ssm \in [Names -> Seq(Creds)]
    BY <1>2 DEF PutBack, DeleteParam, TypeOK
  <2>2. <<>> \in Seq(Creds) /\ Len(<<>>) = 0
    OBVIOUS
  <2>3. ssm' \in [Names -> Seq(Creds)]
    BY <2>1, <2>2
  <2>4. \A q \in Names : inv[i].before[q] <= Len(ssm'[q])
    BY <1>1, <1>2, <2>1, <2>2
  <2>5. QED
    BY <2>3, <2>4
<1>3. CASE inv[i].before[p] # 0
  <2>1. inv[i].before[p] \in 1 .. Len(ssm[p])
    BY <1>1, <1>3
  <2>2. ssm[p][inv[i].before[p]] \in Creds
    BY <1>1, <2>1
  <2>3. PutParam(p, ssm[p][inv[i].before[p]])
    BY <1>3 DEF PutBack
  <2>4. ssm' \in [Names -> Seq(Creds)] /\ \A q \in Names : Len(ssm[q]) <= Len(ssm'[q])
    BY <2>2, <2>3, PutParamGrows
  <2>5. ASSUME NEW q \in Names PROVE inv[i].before[q] <= Len(ssm'[q])
    <3>1. Len(ssm'[q]) \in Nat /\ Len(ssm[q]) <= Len(ssm'[q])
      BY <2>4
    <3>2. QED
      BY <1>1, <3>1
  <2>6. QED
    BY <2>4, <2>5
<1>4. QED
  BY <1>2, <1>3

(* One parameter less to undo, whether it worked or was noted as failed.   *)
LEMMA UndoneMoves ==
  ASSUME TypeOK, NEW i \in Invocs, NEW p \in inv[i].todo,
         NEW pc \in {"release", "recheck"}, NEW done \in BOOLEAN,
         inv' = IF done THEN Undone(i, p, pc)
                ELSE [Undone(i, p, pc) EXCEPT ![i].rolled = FALSE]
  PROVE  Moves(i, {inv[i].pc, pc})
<1> DEFINE next == IF inv[i].todo = {p} THEN pc ELSE inv[i].pc
           left == inv[i].todo \ {p}
           r1 == [inv[i] EXCEPT !.todo = left, !.pc = next]
           r2 == [inv[i] EXCEPT !.todo = left, !.pc = next, !.rolled = FALSE]
           r == IF done THEN r1 ELSE r2
<1>1. inv[i] \in InvType /\ inv[i].todo \subseteq Names /\ inv[i].pc \in Pc
  BY DEF TypeOK, InvType, Pc
<1>8. left \subseteq Names /\ next \in {inv[i].pc, pc} /\ next \in Pc
      /\ (left = {} => next = pc)
  BY <1>1 DEF Pc, Locked
<1> HIDE DEF left, next
<1>2. r1 \in InvType /\ r2 \in InvType
  BY <1>1, <1>8 DEF InvType, Pc
<1>3. /\ r.pc = next /\ r.todo = left
      /\ r.kind = inv[i].kind /\ r.cred = inv[i].cred
      /\ r.before = inv[i].before /\ r.at = inv[i].at
  BY <1>1 DEF InvType
<1>4. r.pc \in {inv[i].pc, pc} /\ (r.pc \in {"undo", "restore"} => r.todo # {})
  BY <1>3, <1>8
<1>5. inv' = [inv EXCEPT ![i] = r]
  <2>1. CASE done
    BY <2>1 DEF Undone, left, next
  <2>2. CASE ~done
    BY <2>2 DEF Undone, TypeOK, left, next
  <2>3. QED
    BY <2>1, <2>2
<1> HIDE DEF r, r1, r2
<1>6. r \in InvType
  BY <1>2 DEF r
<1>7. QED
  BY <1>3, <1>4, <1>5, <1>6, OneMoves DEF Moves

(* The holder goes on after a write that kept what it may go back to.      *)
LEMMA HolderWrites ==
  ASSUME IInv, NEW i \in Invocs, NEW pcs, Moves(i, pcs),
         inv[i].pc \in {"put", "undo", "restore"}, lock' = lock,
         inv[i].before \in Snapshot,
         \A q \in Names : inv[i].before[q] <= Len(ssm'[q]),
         pcs \subseteq {"undo", "restore", "recheck", "release"},
         inv'[i].pc = "undo" => inv[i].kind = "relink"
  PROVE  \A j \in Invocs : Sound(j)'
<1>1. \A j \in Invocs \ {i} : Sound(j)'
  BY HolderSparesOthers DEF Moves, Locked
<1>2. Sound(i)
  BY DEF IInv
<1>3. inv'[i].pc \in {"undo", "restore", "recheck", "release"}
  BY DEF Moves
<1>4. Restorable(i)'
  BY DEF Restorable, Moves
<1>5. Sound(i)'
  BY <1>2, <1>3, <1>4 DEF Sound, Moves, Locked
<1>6. QED
  BY <1>1, <1>5

LEMMA WriteParamKeeps ==
  ASSUME IInv, NEW i \in Invocs, WriteParam(i)
  PROVE  IInv'
<1> DEFINE k == inv[i].at + 1
<1>1. TypeOK /\ Sound(i) /\ inv[i].pc = "put" /\ inv[i].kind = "relink"
      /\ inv[i].cred \in Creds /\ Restorable(i) /\ inv[i].at < Len(Params) /\ lock = i
  BY DEF WriteParam, IInv, Sound, Locked
<1>same. UNCHANGED <<hook, slug, lock, shared, gen, handles, asked>>
  BY DEF WriteParam
<1>2. inv[i] \in InvType /\ inv[i].at \in 0 .. Len(Params)
  BY <1>1 DEF TypeOK, InvType
<1>3. k \in 1 .. Len(Params) /\ Params[k] \in Names
  BY <1>1, <1>2, ParamsList
<1>4. ASSUME PutParam(Params[k], inv[i].cred)
      PROVE  ssm' \in [Names -> Seq(Creds)]
             /\ \A q \in Names : inv[i].before[q] <= Len(ssm'[q])
  <2>1. ssm' \in [Names -> Seq(Creds)] /\ \A q \in Names : Len(ssm[q]) <= Len(ssm'[q])
    BY <1>1, <1>3, <1>4, PutParamGrows
  <2>2. ASSUME NEW q \in Names PROVE inv[i].before[q] <= Len(ssm'[q])
    <3>1. Len(ssm[q]) \in Nat /\ inv[i].before[q] \in Nat /\ inv[i].before[q] <= Len(ssm[q])
      BY <1>1, Lengths DEF Restorable, Snapshot
    <3>2. Len(ssm'[q]) \in Nat /\ Len(ssm[q]) <= Len(ssm'[q])
      BY <2>1
    <3>3. QED
      BY <3>1, <3>2
  <2>3. QED
    BY <2>1, <2>2
<1>5. CASE /\ PutParam(Params[k], inv[i].cred)
           /\ inv' = [inv EXCEPT ![i].at = k,
                                 ![i].pc = IF k = Len(Params) THEN "check" ELSE "put"]
           /\ NoFault
  <2> DEFINE pc == IF k = Len(Params) THEN "check" ELSE "put"
             r == [inv[i] EXCEPT !.at = k, !.pc = pc]
  <2>10. pc \in {"put", "check"} /\ pc \in Pc /\ (pc = "put" => k < Len(Params))
    BY <1>3, ParamsList DEF Pc, Locked
  <2>3. inv' = [inv EXCEPT ![i] = r]
    BY <1>5
  <2>11. k \in 0 .. Len(Params)
    BY <1>3
  <2> HIDE DEF pc, k
  <2>1. r \in InvType /\ r.pc \in {"put", "check"} /\ r.kind = "relink" /\ r.cred \in Creds
        /\ r.before = inv[i].before
    BY <1>1, <1>2, <2>10, <2>11 DEF InvType, Pc
  <2>2. r.pc = "put" => r.at < Len(Params)
    BY <1>2, <2>10 DEF InvType
  <2> HIDE DEF r
  <2>4. inv' \in [Invocs -> InvType] /\ inv'[i] = r
        /\ \A j \in Invocs \ {i} : inv'[j] = inv[j]
    BY <1>1, <2>1, <2>3, OneMoves
  <2>5. TypeOK'
    BY <1>1, <1>4, <1>5, <1>same, <2>4 DEF TypeOK, NoFault
  <2>6. \A j \in Invocs \ {i} : Sound(j)'
    BY <1>1, <2>4, HolderSparesOthers DEF Locked
  <2>7. Restorable(i)'
    BY <1>1, <1>4, <1>5, <2>1, <2>4 DEF Restorable
  <2>8. Sound(i)'
    BY <1>1, <1>same, <2>1, <2>2, <2>4, <2>7 DEF Sound, Locked
  <2>9. QED
    BY <2>5, <2>6, <2>8 DEF IInv
<1>6. CASE StartUndo(i) /\ (UNCHANGED ssm \/ PutParam(Params[k], inv[i].cred))
           /\ (Fault("put") \/ Fault("putlost"))
  <2>1. Moves(i, {"undo", "release"})
    BY <1>1, <1>6, StartUndoMoves
  <2>2. ssm' \in [Names -> Seq(Creds)] /\ \A q \in Names : inv[i].before[q] <= Len(ssm'[q])
    <3>1. CASE UNCHANGED ssm
      BY <1>1, <3>1 DEF TypeOK, Restorable
    <3>2. CASE PutParam(Params[k], inv[i].cred)
      BY <1>4, <3>2
    <3>3. QED
      BY <1>6, <3>1, <3>2
  <2>3. faults' \subseteq Tags /\ met' \in 0 .. Len(FaultKinds)
    BY <1>1, <1>6, FaultType DEF Fault, Kinds, Tags
  <2>4. TypeOK'
    BY <1>1, <1>same, <2>1, <2>2, <2>3 DEF TypeOK, Moves
  <2>5. \A j \in Invocs : Sound(j)'
    BY <1>1, <1>same, <2>1, <2>2, HolderWrites DEF Restorable
  <2>6. QED
    BY <2>4, <2>5 DEF IInv
<1>7. QED
  BY <1>5, <1>6 DEF WriteParam

LEMMA UndoWriteKeeps ==
  ASSUME IInv, NEW i \in Invocs, UndoWrite(i)
  PROVE  IInv'
<1> DEFINE p == NextUndo(i)
<1>1. TypeOK /\ Sound(i) /\ inv[i].pc = "undo" /\ inv[i].kind = "relink"
      /\ Restorable(i) /\ inv[i].todo # {}
  BY DEF UndoWrite, IInv, Sound, Locked
<1>same. UNCHANGED <<hook, slug, lock, shared, gen, handles, asked>>
  BY DEF UndoWrite
<1>2. p \in inv[i].todo /\ p \in Names
  BY <1>1, NextUndoIsLeft
<1>3. /\ UNCHANGED ssm \/ PutBack(i, p)
      /\ \E done \in BOOLEAN :
           inv' = IF done THEN Undone(i, p, "release")
                  ELSE [Undone(i, p, "release") EXCEPT ![i].rolled = FALSE]
      /\ NoFault \/ Fault("undo")
  BY DEF UndoWrite
<1> HIDE DEF p
<1>4. Moves(i, {"undo", "release"})
  BY <1>1, <1>2, <1>3, UndoneMoves
<1>5. ssm' \in [Names -> Seq(Creds)] /\ \A q \in Names : inv[i].before[q] <= Len(ssm'[q])
  <2>1. CASE UNCHANGED ssm
    BY <1>1, <2>1 DEF TypeOK, Restorable
  <2>2. CASE PutBack(i, p)
    BY <1>1, <1>2, <2>2, PutBackKeepsHistory
  <2>3. QED
    BY <1>3, <2>1, <2>2
<1>6. faults' \subseteq Tags /\ met' \in 0 .. Len(FaultKinds)
  BY <1>1, <1>3, FaultType DEF Fault, Kinds, Tags
<1>7. TypeOK'
  BY <1>1, <1>same, <1>4, <1>5, <1>6 DEF TypeOK, Moves
<1>8. \A j \in Invocs : Sound(j)'
  BY <1>1, <1>same, <1>4, <1>5, HolderWrites DEF Restorable
<1>9. QED
  BY <1>7, <1>8 DEF IInv

LEMMA RestoreParamKeeps ==
  ASSUME IInv, NEW i \in Invocs, RestoreParam(i)
  PROVE  IInv'
<1> DEFINE p == NextUndo(i)
<1>1. TypeOK /\ Sound(i) /\ inv[i].pc = "restore" /\ Restorable(i) /\ inv[i].todo # {}
  BY DEF RestoreParam, IInv, Sound, Locked
<1>same. UNCHANGED <<hook, slug, lock, shared, gen, asked>>
  BY DEF RestoreParam
<1>2. p \in inv[i].todo /\ p \in Names
  BY <1>1, NextUndoIsLeft
<1>3. /\ UNCHANGED ssm \/ PutBack(i, p)
      /\ inv' = Undone(i, p, "recheck") \/ Goto(i, "release")
      /\ NoFault \/ Fault("restore")
  BY DEF RestoreParam
<1> HIDE DEF p
<1>4. PICK pcs \in SUBSET {"restore", "recheck", "release"} : Moves(i, pcs)
  <2>1. CASE inv' = Undone(i, p, "recheck")
    BY <1>1, <1>2, <2>1, UndoneMoves
  <2>2. CASE Goto(i, "release")
    BY <1>1, <2>2, GotoMoves DEF Pc, Locked
  <2>3. QED
    BY <1>3, <2>1, <2>2
<1>5. ssm' \in [Names -> Seq(Creds)] /\ \A q \in Names : inv[i].before[q] <= Len(ssm'[q])
  <2>1. CASE UNCHANGED ssm
    BY <1>1, <2>1 DEF TypeOK, Restorable
  <2>2. CASE PutBack(i, p)
    BY <1>1, <1>2, <2>2, PutBackKeepsHistory
  <2>3. QED
    BY <1>3, <2>1, <2>2
<1>6. faults' \subseteq Tags /\ met' \in 0 .. Len(FaultKinds)
  BY <1>1, <1>3, FaultType DEF Fault, Kinds, Tags
<1>0. handles' \subseteq Handle
  BY <1>1 DEF RestoreParam, Aged, TypeOK, Handle
<1>7. TypeOK'
  BY <1>0, <1>1, <1>same, <1>4, <1>5, <1>6 DEF TypeOK, Moves
<1>8. inv'[i].pc \in pcs
  BY <1>4 DEF Moves
<1>9. \A j \in Invocs : Sound(j)'
  BY <1>1, <1>same, <1>4, <1>5, <1>8, HolderWrites DEF Restorable
<1>10. QED
  BY <1>7, <1>9 DEF IInv

-----------------------------------------------------------------------------
(* Theorems                                                                *)

LEMMA NextIInv == IInv /\ [Next]_vars => IInv'
<1> SUFFICES ASSUME IInv, [Next]_vars PROVE IInv'
  OBVIOUS
<1>1. ASSUME NEW i \in Invocs, Request(i) PROVE IInv'
  BY <1>1, RequestKeeps
<1>2. ASSUME NEW i \in Invocs, ChangeStep(i) PROVE IInv'
  <2>1. CASE AcquireLock(i)
    BY <2>1, AcquireLockKeeps
  <2>2. CASE BeginRelink(i) \/ WriteParam(i) \/ VerifyStored(i) \/ UndoWrite(i)
    BY <2>2, BeginRelinkKeeps, WriteParamKeeps, VerifyStoredKeeps, UndoWriteKeeps
  <2>3. CASE BeginRollback(i) \/ RestoreParam(i) \/ RecheckRestored(i)
    BY <2>3, BeginRollbackKeeps, RestoreParamKeeps, RecheckRestoredKeeps
  <2>4. CASE WriteSlug(i) \/ SyncHook(i)
    BY <2>4, WriteSlugKeeps, SyncHookKeeps
  <2>5. CASE ReleaseLock(i) \/ InvalidateAgain(i)
    BY <2>5, ReleaseLockKeeps, InvalidateAgainKeeps
  <2>6. QED
    BY <1>2, <2>1, <2>2, <2>3, <2>4, <2>5 DEF ChangeStep, RelinkStep, RollbackStep
<1>3. ASSUME NEW i \in Invocs, StatusStep(i) PROVE IInv'
  BY <1>3, StatusKeeps
<1>4. ASSUME NEW i \in Invocs, Crash(i) PROVE IInv'
  BY <1>4, CrashKeeps
<1>5. CASE LockExpires
  BY <1>5, LockExpiresKeeps
<1>6. CASE SharedExpires
  BY <1>6 DEF SharedExpires, IInv, TypeOK, Sound, Restorable, Cur
<1>7. CASE UNCHANGED vars
  BY <1>7 DEF vars, IInv, TypeOK, Sound, Restorable, Cur
<1>8. QED
  BY <1>1, <1>2, <1>3, <1>4, <1>5, <1>6, <1>7 DEF Next

(* The inductive invariant holds: whoever writes holds the lock, and every *)
(* version an undo or a rollback will go back to is still in the history.  *)
THEOREM ConfigInvariant == Spec => []IInv
<1>1. Init => IInv
  BY InitIInv
<1>2. IInv /\ [Next]_vars => IInv'
  BY NextIInv
<1>3. QED
  BY <1>1, <1>2, PTL DEF Spec

(* Every variable keeps its type.                                          *)
THEOREM ConfigTypeCorrect == Spec => []TypeOK
<1>1. IInv => TypeOK
  BY DEF IInv
<1>2. QED
  BY <1>1, ConfigInvariant, PTL

(* Relinks and rollbacks exclude one another, through lost lock writes,    *)
(* failed releases, crashes and the lapse of a dead holder's lock.         *)
THEOREM RelinksExclude == Spec => []OneWriter
<1>1. IInv => OneWriter
  BY DEF IInv, Sound, OneWriter
<1>2. QED
  BY <1>1, ConfigInvariant, PTL

-----------------------------------------------------------------------------
(* What a change holds, undoes and tells: ChangeInv                        *)

(* The history of faults only grows.                                       *)
LEMMA FaultsGrow ==
  /\ NoFault => faults \subseteq faults'
  /\ \A k, tag : FaultAs(k, tag) => faults \subseteq faults' /\ tag \in faults'
  /\ \A k : Fault(k) => faults \subseteq faults' /\ k \in faults'
  /\ \A tag : Note(tag) => faults \subseteq faults' /\ tag \in faults'
BY DEF NoFault, FaultAs, Fault, Note

LEMMA StillWithout ==
  ASSUME NEW ks, faults \subseteq faults', Without(ks)'
  PROVE  Without(ks)
BY DEF Without

(* A put is the parameter's last version; the earlier ones stay.           *)
LEMMA PutParamHolds ==
  ASSUME TypeOK, NEW p \in Names, NEW c \in Creds, PutParam(p, c)
  PROVE  /\ Cur(p)' = c
         /\ \A q \in Names \ {p} : Cur(q)' = Cur(q)
         /\ \A q \in Names : Len(ssm'[q]) \in Nat /\ Len(ssm[q]) <= Len(ssm'[q])
         /\ \A q \in Names, v \in Nat : v <= Len(ssm[q]) => Value(q, v)' = Value(q, v)
<1>1. ssm[p] \in Seq(Creds) /\ ssm' = [ssm EXCEPT ![p] = Append(ssm[p], c)]
      /\ ssm \in [Names -> Seq(Creds)] /\ Len(ssm[p]) \in Nat
  BY Lengths DEF PutParam, TypeOK
<1> DEFINE s == Append(ssm[p], c)
<1>2. s \in Seq(Creds) /\ Len(s) = Len(ssm[p]) + 1 /\ s # <<>> /\ s[Len(s)] = c
      /\ \A v \in 1 .. Len(ssm[p]) : s[v] = ssm[p][v]
  BY <1>1
<1>3. ssm'[p] = s /\ \A q \in Names \ {p} : ssm'[q] = ssm[q]
  BY <1>1
<1> HIDE DEF s
<1>4. Cur(p)' = c /\ \A q \in Names \ {p} : Cur(q)' = Cur(q)
  BY <1>2, <1>3 DEF Cur
<1>5. ASSUME NEW q \in Names
      PROVE  Len(ssm'[q]) \in Nat /\ Len(ssm[q]) <= Len(ssm'[q])
  <2>1. CASE q = p
    BY <1>1, <1>2, <1>3, <2>1
  <2>2. CASE q # p
    BY <1>3, <2>2, Lengths
  <2>3. QED
    BY <2>1, <2>2
<1>6. ASSUME NEW q \in Names, NEW v \in Nat, v <= Len(ssm[q])
      PROVE  Value(q, v)' = Value(q, v)
  <2>1. CASE q # p \/ v = 0
    BY <1>3, <2>1 DEF Value
  <2>2. CASE q = p /\ v # 0
    <3>1. v \in 1 .. Len(ssm[p])
      BY <1>1, <1>6, <2>2
    <3>2. QED
      BY <1>2, <1>3, <2>2, <3>1 DEF Value
  <2>3. QED
    BY <2>1, <2>2
<1>7. QED
  BY <1>4, <1>5, <1>6

LEMMA DeleteParamHolds ==
  ASSUME TypeOK, NEW p \in Names, DeleteParam(p)
  PROVE  /\ Cur(p)' = None
         /\ \A q \in Names \ {p} : Cur(q)' = Cur(q)
         /\ Len(ssm'[p]) = 0
         /\ \A q \in Names \ {p} : ssm'[q] = ssm[q]
         /\ \A q \in Names, v \in Nat : v <= Len(ssm'[q]) => Value(q, v)' = Value(q, v)
<1>1. ssm'[p] = <<>> /\ Len(ssm'[p]) = 0 /\ \A q \in Names \ {p} : ssm'[q] = ssm[q]
  BY DEF DeleteParam, TypeOK
<1>2. Cur(p)' = None /\ \A q \in Names \ {p} : Cur(q)' = Cur(q)
  BY <1>1 DEF Cur
<1>3. ASSUME NEW q \in Names, NEW v \in Nat, v <= Len(ssm'[q])
      PROVE  Value(q, v)' = Value(q, v)
  <2>1. CASE q = p
    <3>1. v = 0
      BY <1>1, <1>3, <2>1
    <3>2. QED
      BY <3>1 DEF Value
  <2>2. CASE q # p
    BY <1>1, <2>2 DEF Value
  <2>3. QED
    BY <2>1, <2>2
<1>4. QED
  BY <1>1, <1>2, <1>3

(* A parameter that is put back holds the value noted for it; every        *)
(* version that still exists keeps its value.                              *)
LEMMA PutBackHolds ==
  ASSUME TypeOK, NEW i \in Invocs, Restorable(i), NEW p \in Names, PutBack(i, p)
  PROVE  /\ Cur(p)' = Value(p, inv[i].before[p])
         /\ \A q \in Names \ {p} : Cur(q)' = Cur(q)
         /\ \A q \in Names : Len(ssm'[q]) \in Nat
         /\ \A q \in Names : inv[i].before[q] # 0 => Len(ssm[q]) <= Len(ssm'[q])
         /\ \A q \in Names \ {p} : ssm'[q] = ssm[q]
         /\ \A q \in Names, v \in Nat :
              v <= Len(ssm[q]) /\ v <= Len(ssm'[q]) => Value(q, v)' = Value(q, v)
<1>1. \A q \in Names : inv[i].before[q] \in Nat /\ inv[i].before[q] <= Len(ssm[q])
                       /\ Len(ssm[q]) \in Nat /\ ssm[q] \in Seq(Creds)
  BY Lengths DEF Restorable, Snapshot
<1>2. CASE inv[i].before[p] = 0
  <2>1. DeleteParam(p)
    BY <1>2 DEF PutBack
  <2>2. Value(p, inv[i].before[p]) = None
    BY <1>2 DEF Value
  <2>3. QED
    BY <1>1, <1>2, <2>1, <2>2, DeleteParamHolds
<1>3. CASE inv[i].before[p] # 0
  <2>1. inv[i].before[p] \in 1 .. Len(ssm[p])
    BY <1>1, <1>3
  <2>2. PICK c \in Creds : c = ssm[p][inv[i].before[p]]
    BY <1>1, <2>1
  <2>3. PutParam(p, c) /\ Value(p, inv[i].before[p]) = c
    BY <1>3, <2>2 DEF PutBack, Value
  <2>4. \A q \in Names \ {p} : ssm'[q] = ssm[q]
    BY <2>3 DEF PutParam, TypeOK
  <2>5. QED
    BY <2>3, <2>4, PutParamHolds
<1>4. QED
  BY <1>2, <1>3

(* What a request keeps of itself while it goes on.                        *)
Others(i) == \A j \in Invocs \ {i} : inv'[j] = inv[j]

Stays(i) ==
  /\ inv'[i].kind = inv[i].kind /\ inv'[i].cred = inv[i].cred
  /\ inv'[i].allow = inv[i].allow /\ inv'[i].rotated = inv[i].rotated
  /\ inv'[i].before = inv[i].before /\ inv'[i].at = inv[i].at

LEMMA GotoStays ==
  ASSUME TypeOK, NEW i \in Invocs, NEW pc, Goto(i, pc) \/ (pc = "release" /\ inv' = Finished(i))
  PROVE  /\ Others(i) /\ Stays(i) /\ inv'[i].pc = pc
         /\ inv'[i].todo = inv[i].todo /\ inv'[i].rolled = inv[i].rolled
BY DEF TypeOK, InvType, Goto, Finished, Others, Stays

LEMMA StartUndoStays ==
  ASSUME TypeOK, NEW i \in Invocs, StartUndo(i)
  PROVE  /\ Others(i) /\ Stays(i)
         /\ inv'[i].todo = Written(i) /\ inv'[i].rolled = (Written(i) # {})
         /\ inv'[i].pc = IF Written(i) = {} THEN "release" ELSE "undo"
BY DEF TypeOK, InvType, StartUndo, Others, Stays

LEMMA UndoneStays ==
  ASSUME TypeOK, NEW i \in Invocs, NEW p, NEW pc, NEW failed \in BOOLEAN,
         inv' = IF failed THEN [Undone(i, p, pc) EXCEPT ![i].rolled = FALSE]
                ELSE Undone(i, p, pc)
  PROVE  /\ Others(i) /\ Stays(i) /\ inv'[i].todo = inv[i].todo \ {p}
         /\ inv'[i].pc = IF inv[i].todo = {p} THEN pc ELSE inv[i].pc
         /\ inv'[i].rolled => inv[i].rolled /\ ~failed
<1> DEFINE next == IF inv[i].todo = {p} THEN pc ELSE inv[i].pc
           left == inv[i].todo \ {p}
           r1 == [inv[i] EXCEPT !.todo = left, !.pc = next]
           r2 == [inv[i] EXCEPT !.todo = left, !.pc = next, !.rolled = FALSE]
           r == IF failed THEN r2 ELSE r1
<1>1. inv' = [inv EXCEPT ![i] = r]
  <2>1. CASE ~failed
    BY <2>1 DEF Undone
  <2>2. CASE failed
    BY <2>2 DEF Undone, TypeOK
  <2>3. QED
    BY <2>1, <2>2
<1> HIDE DEF next, left
<1>2. /\ r.pc = next /\ r.todo = left /\ r.kind = inv[i].kind /\ r.cred = inv[i].cred
      /\ r.allow = inv[i].allow /\ r.rotated = inv[i].rotated
      /\ r.before = inv[i].before /\ r.at = inv[i].at
  BY DEF TypeOK, InvType
<1>3. r.rolled => inv[i].rolled /\ ~failed
  <2>1. CASE ~failed
    BY <2>1 DEF TypeOK, InvType
  <2>2. CASE failed
    BY <2>2 DEF TypeOK, InvType
  <2>3. QED
    BY <2>1, <2>2
<1> HIDE DEF r
<1>4. inv'[i] = r /\ \A j \in Invocs \ {i} : inv'[j] = inv[j]
  BY <1>1 DEF TypeOK
<1>5. QED
  BY <1>2, <1>3, <1>4 DEF Others, Stays, next, left

(* While nothing stored changes, what is held of a request stays held.     *)
LEMMA SameData ==
  ASSUME ssm' = ssm
  PROVE  /\ Whole' <=> Whole
         /\ \A p : Cur(p)' = Cur(p)
         /\ \A p, v : Value(p, v)' = Value(p, v)
         /\ \A h, c : Denotes(h, c)' <=> Denotes(h, c)
         /\ \A S, c, d : Holds(S, c, d)' <=> Holds(S, c, d)
BY DEF Whole, Cur, Value, Denotes, Holds

LEMMA SameRequest ==
  ASSUME NEW j, inv'[j] = inv[j], ssm' = ssm, hook' = hook, slug' = slug, handles' = handles
  PROVE  /\ Replacing(j)' <=> Replacing(j)
         /\ FreshNames(inv[j].before)' <=> FreshNames(inv[j].before)
         /\ Restorable(j)' <=> Restorable(j)
         /\ HeldWhole(j)' <=> HeldWhole(j)
         /\ HeldAgrees(j)' <=> HeldAgrees(j)
         /\ HeldSlug(j)' <=> HeldSlug(j)
<1>1. Replacing(j)' <=> Replacing(j)
  BY DEF Replacing
<1>2. FreshNames(inv[j].before)' <=> FreshNames(inv[j].before)
  BY DEF FreshNames
<1>3. Restorable(j)' <=> Restorable(j)
  BY DEF Restorable
<1>4. HeldWhole(j)' <=> HeldWhole(j)
  BY DEF HeldWhole, Replacing, Whole, Cur, Value, Denotes, Holds, Written
<1>5. HeldAgrees(j)' <=> HeldAgrees(j)
  BY DEF HeldAgrees, Replacing, Agree, Cur, Value, Denotes
<1>6. HeldSlug(j)' <=> HeldSlug(j)
  BY DEF HeldSlug, Replacing, SlugRight, Cur, Value, Denotes
<1>7. QED
  BY <1>1, <1>2, <1>3, <1>4, <1>5, <1>6

(* A request that does not hold the lock is held to nothing.               *)
LEMMA UnlockedHeld ==
  ASSUME NEW j, inv[j].pc \notin Locked
  PROVE  ~Replacing(j) /\ HeldWhole(j) /\ HeldAgrees(j) /\ HeldSlug(j)
         /\ inv[j].pc \notin {"put", "undo", "restore", "begin", "release", "sync", "slug"}
BY DEF Locked, Replacing, HeldWhole, HeldAgrees, HeldSlug

LEMMA UndoableIfSame ==
  ASSUME NEW j, Undoable(j), inv'[j] = inv[j], faults \subseteq faults',
         inv[j].pc \in Locked => ssm' = ssm
  PROVE  Undoable(j)'
<1>1. Without({"putlost"})' => Without({"putlost"})
  BY StillWithout
<1>2. CASE ssm' = ssm
  BY <1>1, <1>2 DEF Undoable, Changing, Replacing, Cur, Value, Written
<1>3. CASE inv[j].pc \notin Locked
  BY <1>3 DEF Undoable, Changing, Replacing, Locked
<1>4. QED
  BY <1>2, <1>3

(* A change in progress fences what is published.                          *)
LEMMA ChangingFenced ==
  ASSUME TypeOK, Fenced, NEW i \in Invocs, Others(i), Changing(i)',
         gen' \in Nat, gen <= gen', faults \subseteq faults'
  PROVE  Fenced'
<1>1. Without({"clear", "genread", "crash"})' => Without({"clear", "genread", "crash"})
  BY StillWithout
<1>2. ASSUME Without({"clear", "genread", "crash"}), NEW j \in Invocs, inv'[j].kind = "status"
      PROVE  inv'[j].gen \in 0 .. gen'
  <2>1. j # i
    BY <1>2 DEF Changing
  <2>2. inv[j].gen \in 0 .. gen
    BY <1>2, <2>1 DEF Fenced, Others
  <2>3. gen \in Nat /\ inv'[j].gen = inv[j].gen
    BY <2>1 DEF TypeOK, Others
  <2>4. QED
    BY <2>2, <2>3
<1>3. ~(\A j \in Invocs : ~Changing(j)')
  OBVIOUS
<1>4. QED
  BY <1>1, <1>2, <1>3 DEF Fenced

(* A step of a request that neither holds nor takes the lock leaves all    *)
(* that is stored, and what the holder relies on.                          *)
LEMMA QuietKeeps ==
  ASSUME ChangeInv, NEW i \in Invocs, Others(i), inv[i].pc \notin Locked, inv'[i].pc \notin Locked,
         ssm' = ssm, hook' = hook, slug' = slug, handles' = handles,
         faults \subseteq faults', Undoable(i)', Fenced'
  PROVE  ChangeInv'
<1> USE DEF ChangeInv, Others
<1>1. ASSUME NEW j \in Invocs PROVE Undoable(j)'
  BY UndoableIfSame
<1>2. Settled' <=> Settled
  BY DEF Settled
<1>3. ASSUME NEW j \in Invocs
      PROVE  /\ Replacing(j)' => j # i /\ Replacing(j)
             /\ inv'[j].pc = "release" => j # i
             /\ HeldWhole(j) => HeldWhole(j)'
             /\ HeldAgrees(j) => HeldAgrees(j)'
             /\ HeldSlug(j) => HeldSlug(j)'
  <2>1. CASE j = i
    BY <2>1, UnlockedHeld DEF Replacing, HeldWhole, HeldAgrees, HeldSlug, Locked
  <2>2. CASE j # i
    BY <2>2, SameRequest
  <2>3. QED
    BY <2>1, <2>2
<1>4. HandlesFresh'
  <2>1. FreshNames([p \in Names |-> Len(ssm[p])])'
    BY DEF HandlesFresh, FreshNames
  <2>2. ASSUME NEW j \in Invocs
        PROVE  /\ Replacing(j)' => FreshNames(inv[j].before)'
               /\ inv'[j].pc = "release" /\ inv'[j].kind = "relink" /\ (inv'[j].before # None \/ inv'[j].rolled) => Restorable(j)'
    BY <1>3, SameRequest DEF HandlesFresh
  <2>3. QED
    BY <2>1, <2>2 DEF HandlesFresh
<1>5. SetsWhole'
  <2>1. Without(Torn \union {"stale"})' => Without(Torn \union {"stale"})
    BY StillWithout DEF Torn
  <2>2. QED
    BY <1>2, <1>3, <2>1, SameData DEF SetsWhole
<1>6. HookKept'
  <2> DEFINE ks == Torn \union {"stale", "hooklost", "recheck"} \union Tolerated
  <2>1. Without(ks)' => Without(ks)
    BY StillWithout DEF Torn, Tolerated
  <2>2. Agree' <=> Agree
    BY DEF Agree, Cur
  <2>3. QED
    BY <1>2, <1>3, <2>1, <2>2 DEF HookKept
<1>7. SlugKept'
  <2> DEFINE ks == Torn \union {"stale", "slug", "recheck"}
  <2>1. Without(ks)' => Without(ks)
    BY StillWithout DEF Torn
  <2>2. SlugRight' <=> SlugRight
    BY DEF SlugRight, Cur
  <2>3. QED
    BY <1>2, <1>3, <2>1, <2>2 DEF SlugKept
<1>8. QED
  BY <1>1, <1>4, <1>5, <1>6, <1>7

-----------------------------------------------------------------------------
(* The steps of a request without the lock                                 *)

LEMMA ClearSharedGrows ==
  ASSUME TypeOK, ClearShared
  PROVE  gen' \in Nat /\ gen <= gen' /\ faults \subseteq faults'
BY FaultsGrow DEF ClearShared, TypeOK

LEMMA RequestHolds ==
  ASSUME IInv, ChangeInv, NEW i \in Invocs, Request(i)
  PROVE  ChangeInv'
<1>1. TypeOK /\ Fenced /\ inv[i].pc = "idle" /\ ClearShared
      /\ UNCHANGED <<ssm, hook, slug, lock, handles>>
  BY DEF IInv, ChangeInv, Request
<1>2. Others(i) /\ inv'[i].pc = "acquire" /\ inv'[i].kind \in {"relink", "rollback"}
      /\ ~inv'[i].rolled /\ (inv'[i].kind = "relink" => inv'[i].before = None)
  <2>1. ASSUME NEW c \in Creds, NEW allow \in BOOLEAN,
               inv' = [inv EXCEPT ![i] = [Idle EXCEPT !.pc = "acquire", !.kind = "relink",
                                                      !.cred = c, !.allow = allow]]
        PROVE  /\ Others(i) /\ inv'[i].pc = "acquire" /\ inv'[i].kind = "relink"
               /\ ~inv'[i].rolled /\ inv'[i].before = None
    BY <1>1, <2>1 DEF Others, TypeOK, Idle
  <2>2. ASSUME NEW h,
               inv' = [inv EXCEPT ![i] = [Idle EXCEPT !.pc = "acquire", !.kind = "rollback",
                                                      !.before = h]]
        PROVE  /\ Others(i) /\ inv'[i].pc = "acquire" /\ inv'[i].kind = "rollback"
               /\ ~inv'[i].rolled
    BY <1>1, <2>2 DEF Others, TypeOK, Idle
  <2>3. QED
    BY <2>1, <2>2 DEF Request
<1>3. gen' \in Nat /\ gen <= gen' /\ faults \subseteq faults'
  BY <1>1, ClearSharedGrows
<1>4. Undoable(i)'
  BY <1>2 DEF Undoable, Changing, Replacing, Locked
<1>5. Fenced'
  BY <1>1, <1>2, <1>3, ChangingFenced DEF Changing
<1>6. inv[i].pc \notin Locked /\ inv'[i].pc \notin Locked
  BY <1>1, <1>2 DEF Locked
<1>7. QED
  BY <1>1, <1>2, <1>3, <1>4, <1>5, <1>6, QuietKeeps

(* The end of a change outdates every generation noted before it.          *)
LEMMA InvalidateAgainHolds ==
  ASSUME IInv, ChangeInv, NEW i \in Invocs, InvalidateAgain(i)
  PROVE  ChangeInv'
<1>1. TypeOK /\ Fenced /\ inv[i].pc = "post" /\ ClearShared
      /\ UNCHANGED <<ssm, hook, slug, lock, handles>>
      /\ \A j \in Invocs : Undoable(j)
  BY DEF IInv, ChangeInv, InvalidateAgain
<1>2. Others(i) /\ inv'[i] = Idle
  BY <1>1 DEF InvalidateAgain, Others, TypeOK
<1>3. gen' \in Nat /\ gen <= gen' /\ faults \subseteq faults'
  BY <1>1, ClearSharedGrows
<1>4. Undoable(i)' /\ inv'[i].pc \notin Locked /\ inv[i].pc \notin Locked
  BY <1>1, <1>2, IdleType DEF Undoable, Changing, Replacing, Locked
<1>5. Fenced'
  <2> DEFINE ks == {"clear", "genread", "crash"}
  <2> SUFFICES ASSUME Without(ks)' PROVE
          /\ \A j \in Invocs : inv'[j].kind = "status" => inv'[j].gen \in 0 .. gen'
          /\ shared' = None
          /\ \A j \in Invocs : inv'[j].pc = "publish" => inv'[j].gen # gen'
    BY DEF Fenced
  <2>1. Without(ks)
    BY <1>3, StillWithout
  <2>2. ~Fault("clear")
    BY FaultsGrow DEF Without
  <2>3. shared' = None /\ gen' = gen + 1
    BY <1>1, <2>2 DEF ClearShared
  <2>4. ASSUME NEW j \in Invocs, inv'[j].kind = "status"
        PROVE  inv'[j].gen \in 0 .. gen' /\ inv'[j].gen # gen'
    <3>1. inv'[j] = inv[j]
      BY <1>2, <2>4, IdleType DEF Others
    <3>2. inv[j].gen \in 0 .. gen /\ gen \in Nat
      BY <1>1, <2>1, <2>4, <3>1 DEF Fenced, TypeOK
    <3>3. QED
      BY <2>3, <3>1, <3>2
  <2>5. ASSUME NEW j \in Invocs, inv'[j].pc = "publish"
        PROVE  inv'[j].kind = "status"
    BY <1>1, <1>2, <2>5, IdleType DEF Others, Undoable
  <2>6. QED
    BY <2>3, <2>4, <2>5
<1>6. QED
  BY <1>1, <1>2, <1>3, <1>4, <1>5, QuietKeeps

(* A crash may leave anything half-way, which the properties exclude; the  *)
(* handles it does not touch.                                              *)
LEMMA CrashHolds ==
  ASSUME IInv, ChangeInv, NEW i \in Invocs, Crash(i)
  PROVE  ChangeInv'
<1>1. TypeOK /\ UNCHANGED <<ssm, hook, slug, handles>> /\ faults \subseteq faults'
      /\ "crash" \in faults'
  BY FaultsGrow DEF IInv, Crash
<1>2. Others(i) /\ inv'[i] = Idle
  BY <1>1 DEF Crash, Others, TypeOK
<1>3. ASSUME NEW j \in Invocs PROVE Undoable(j)'
  <2>1. CASE j = i
    BY <1>2, <2>1, IdleType DEF Undoable, Changing, Replacing, Locked
  <2>2. CASE j # i
    BY <1>1, <1>2, <2>2, UndoableIfSame DEF ChangeInv, Others
  <2>3. QED
    BY <2>1, <2>2
<1>4. HandlesFresh'
  <2>1. FreshNames([p \in Names |-> Len(ssm[p])])'
    BY <1>1 DEF ChangeInv, HandlesFresh, FreshNames
  <2>2. ASSUME NEW j \in Invocs
        PROVE  /\ Replacing(j)' => FreshNames(inv[j].before)'
               /\ inv'[j].pc = "release" /\ inv'[j].kind = "relink" /\ (inv'[j].before # None \/ inv'[j].rolled) => Restorable(j)'
    <3>1. CASE j = i
      BY <1>2, <3>1, IdleType DEF Replacing
    <3>2. CASE j # i
      BY <1>1, <1>2, <3>2, SameRequest DEF ChangeInv, HandlesFresh, Others
    <3>3. QED
      BY <3>1, <3>2
  <2>3. QED
    BY <2>1, <2>2 DEF HandlesFresh
<1>5. SetsWhole' /\ HookKept' /\ SlugKept' /\ Fenced'
  BY <1>1 DEF SetsWhole, HookKept, SlugKept, Fenced, Without, Torn
<1>6. QED
  BY <1>3, <1>4, <1>5 DEF ChangeInv

(* A status answer is published under the generation it noted.             *)
LEMMA StatusHolds ==
  ASSUME IInv, ChangeInv, NEW i \in Invocs, StatusStep(i)
  PROVE  ChangeInv'
<1> DEFINE ks == {"clear", "genread", "crash"}
<1>1. TypeOK /\ Fenced /\ gen' = gen /\ UNCHANGED <<ssm, hook, slug, handles>>
      /\ inv[i].pc \in {"idle", "compute", "publish"} /\ faults \subseteq faults'
      /\ \A j \in Invocs : Undoable(j)
  BY FaultsGrow DEF IInv, ChangeInv, StatusStep, StatusBegins, StatusComputes, StatusPublishes
<1>2. Others(i) /\ inv'[i].pc \in {"idle", "compute", "publish"}
      /\ (inv'[i].pc # "idle" => inv'[i].kind = "status")
      /\ (inv'[i].pc = "idle" => inv'[i].kind = "none")
  <2>1. CASE StatusBegins(i)
    BY <1>1, <2>1 DEF StatusBegins, Others, TypeOK, Idle
  <2>2. CASE StatusComputes(i)
    BY <1>1, <2>2 DEF StatusComputes, Others, TypeOK, InvType, Undoable
  <2>3. CASE StatusPublishes(i)
    BY <1>1, <2>3, IdleType DEF StatusPublishes, Others, TypeOK
  <2>4. QED
    BY <2>1, <2>2, <2>3 DEF StatusStep
<1>3. Undoable(i)' /\ inv'[i].pc \notin Locked /\ inv[i].pc \notin Locked
  BY <1>1, <1>2 DEF Undoable, Changing, Replacing, Locked
<1>4. Stored' = Stored
  BY <1>1, SameData DEF Stored
<1>5. ASSUME Without(ks)'
      PROVE  /\ Without(ks)
             /\ inv'[i].kind = "status" => inv'[i].gen \in 0 .. gen
             /\ shared' = shared \/ (inv[i].pc = "publish" /\ inv[i].gen = gen /\ shared' = inv[i].view)
             /\ inv'[i].pc = "publish" => inv'[i].view = Stored
  <2>1. Without(ks) /\ gen \in Nat
    BY <1>1, <1>5, StillWithout DEF TypeOK
  <2>2. CASE StatusBegins(i)
    <3>1. ~Fault("genread")
      BY <1>5, FaultsGrow DEF Without
    <3>2. inv' = [inv EXCEPT ![i] = [Idle EXCEPT !.pc = "compute", !.kind = "status", !.gen = gen]]
      BY <2>2, <3>1 DEF StatusBegins
    <3>3. inv'[i].gen = gen /\ inv'[i].pc = "compute" /\ shared' = shared
      BY <1>1, <2>2, <3>2 DEF StatusBegins, TypeOK, Idle
    <3>4. QED
      BY <2>1, <3>3
  <2>3. CASE StatusComputes(i)
    <3>1. inv[i].kind = "status"
      BY <1>1, <2>3 DEF StatusComputes, Undoable
    <3>2. inv[i].gen \in 0 .. gen
      BY <1>1, <2>1, <3>1 DEF Fenced
    <3>3. inv'[i].gen = inv[i].gen /\ inv'[i].view = Stored /\ shared' = shared
      BY <1>1, <2>3 DEF StatusComputes, TypeOK, InvType
    <3>4. QED
      BY <2>1, <3>2, <3>3
  <2>4. CASE StatusPublishes(i)
    <3>1. inv[i].kind = "status"
      BY <1>1, <2>4 DEF StatusPublishes, Undoable
    <3>2. inv[i].gen \in 0 .. gen
      BY <1>1, <2>1, <3>1 DEF Fenced
    <3>3. inv'[i] = Idle /\ inv[i].gen # None
      BY <1>1, <2>4, <2>1, <3>2, NoneAssumption DEF StatusPublishes, TypeOK
    <3>4. shared' = IF inv[i].gen = gen THEN inv[i].view ELSE shared
      BY <2>4, <3>3 DEF StatusPublishes
    <3>5. inv[i].pc = "publish"
      BY <2>4 DEF StatusPublishes
    <3>6. QED
      BY <2>1, <3>3, <3>4, <3>5, IdleType
  <2>5. QED
    BY <2>2, <2>3, <2>4 DEF StatusStep
<1>6. Fenced'
  <2> SUFFICES ASSUME Without(ks)' PROVE
        /\ \A j \in Invocs : inv'[j].kind = "status" => inv'[j].gen \in 0 .. gen'
        /\ (\A j \in Invocs : ~Changing(j)') =>
             /\ shared' \in {None, Stored'}
             /\ \A j \in Invocs : inv'[j].pc = "publish" /\ inv'[j].gen = gen' => inv'[j].view = Stored'
    BY DEF Fenced
  <2>1. ASSUME NEW j \in Invocs, inv'[j].kind = "status" PROVE inv'[j].gen \in 0 .. gen'
    BY <1>1, <1>2, <1>5, <2>1 DEF Fenced, Others
  <2>2. ASSUME \A j \in Invocs : ~Changing(j)'
        PROVE  /\ shared' \in {None, Stored}
               /\ \A j \in Invocs : inv'[j].pc = "publish" /\ inv'[j].gen = gen => inv'[j].view = Stored
    <3>1. ~Changing(i)
      BY <1>1, <1>3 DEF Undoable, Locked
    <3>2. ASSUME NEW j \in Invocs PROVE ~Changing(j)
      BY <1>2, <2>2, <3>1 DEF Changing, Others
    <3>3. shared \in {None, Stored}
          /\ \A j \in Invocs : inv[j].pc = "publish" /\ inv[j].gen = gen => inv[j].view = Stored
      BY <1>1, <1>5, <3>2 DEF Fenced
    <3>4. QED
      BY <1>2, <1>5, <3>3 DEF Others
  <2>3. QED
    BY <1>1, <1>4, <2>1, <2>2
<1>7. QED
  BY <1>1, <1>2, <1>3, <1>6, QuietKeeps

(* Nobody's request moves.                                                 *)
LEMMA ExpiryHolds ==
  ASSUME IInv, ChangeInv, LockExpires \/ SharedExpires \/ UNCHANGED vars
  PROVE  ChangeInv'
<1>1. UNCHANGED <<ssm, hook, slug, inv, handles, gen, faults>> /\ shared' \in {shared, None}
  BY DEF LockExpires, SharedExpires, vars
<1>2. \A j \in Invocs : Undoable(j)'
  BY <1>1, UndoableIfSame DEF ChangeInv
<1>3. HandlesFresh' /\ SetsWhole'
  BY <1>1, SameRequest, SameData
    DEF ChangeInv, HandlesFresh, FreshNames, Restorable, SetsWhole, Settled, Without, Replacing
<1>4. HookKept' /\ SlugKept'
  BY <1>1, SameRequest, SameData
    DEF ChangeInv, HookKept, SlugKept, Settled, Without, Agree, SlugRight
<1>5. Fenced'
  BY <1>1, SameData DEF ChangeInv, Fenced, Without, Changing, Stored
<1>6. QED
  BY <1>2, <1>3, <1>4, <1>5 DEF ChangeInv

-----------------------------------------------------------------------------
(* The steps of the lock's holder                                          *)

(* Nobody else is held to anything, nor becomes so.                        *)
LEMMA HolderAlone ==
  ASSUME IInv, ChangeInv, NEW i \in Invocs, inv[i].pc \in Locked, Others(i), faults \subseteq faults'
  PROVE  \A j \in Invocs \ {i} :
           /\ inv'[j].pc \notin Locked /\ Undoable(j)'
           /\ ~Replacing(j)' /\ inv'[j].pc # "release"
           /\ HeldWhole(j)' /\ HeldAgrees(j)' /\ HeldSlug(j)'
<1> SUFFICES ASSUME NEW j \in Invocs \ {i}
             PROVE  /\ inv'[j].pc \notin Locked /\ Undoable(j)'
                    /\ ~Replacing(j)' /\ inv'[j].pc # "release"
                    /\ HeldWhole(j)' /\ HeldAgrees(j)' /\ HeldSlug(j)'
  OBVIOUS
<1>1. inv[j].pc \notin Locked
  BY DEF IInv, Sound
<1>2. inv'[j] = inv[j] /\ Undoable(j)
  BY DEF Others, ChangeInv
<1>3. Undoable(j)'
  BY <1>1, <1>2, UndoableIfSame
<1>4. inv'[j].pc \notin Locked
  BY <1>1, <1>2
<1>5. QED
  BY <1>3, <1>4 DEF Locked, Replacing, HeldWhole, HeldAgrees, HeldSlug

LEMMA HolderKeeps ==
  ASSUME IInv, ChangeInv, NEW i \in Invocs, inv[i].pc \in Locked, Others(i),
         inv'[i].pc \in Locked, inv'[i].kind = inv[i].kind,
         shared' = shared, gen' = gen, faults \subseteq faults', Undoable(i)',
         FreshNames([p \in Names |-> Len(ssm[p])])',
         Replacing(i)' => FreshNames(inv[i].before)',
         inv'[i].pc = "release" /\ inv'[i].kind = "relink" /\ (inv'[i].before # None \/ inv'[i].rolled) => Restorable(i)',
         Without(Torn \union {"stale"})' =>
           /\ \A h \in handles' : h.stale \/ \E c \in Creds \union {None} : Denotes(h.of, c)'
           /\ HeldWhole(i)',
         Without(Torn \union {"stale", "hooklost", "recheck"} \union Tolerated)' => HeldAgrees(i)',
         Without(Torn \union {"stale", "slug", "recheck"})' => HeldSlug(i)'
  PROVE  ChangeInv'
<1>1. \A j \in Invocs \ {i} :
        /\ inv'[j].pc \notin Locked /\ Undoable(j)'
        /\ ~Replacing(j)' /\ inv'[j].pc # "release"
        /\ HeldWhole(j)' /\ HeldAgrees(j)' /\ HeldSlug(j)'
  BY HolderAlone
<1>2. ~Settled'
  BY DEF Settled
<1>3. Changing(i)'
  BY DEF ChangeInv, Undoable, Changing
<1>4. Fenced'
  <2>1. TypeOK /\ Fenced /\ gen \in Nat
    BY DEF IInv, ChangeInv, TypeOK
  <2>2. QED
    BY <1>3, <2>1, ChangingFenced
<1>5. \A j \in Invocs : Undoable(j)'
  BY <1>1
<1>6. HandlesFresh'
  BY <1>1 DEF HandlesFresh
<1>7. SetsWhole'
  BY <1>1, <1>2 DEF SetsWhole
<1>8. HookKept' /\ SlugKept'
  BY <1>1, <1>2 DEF HookKept, SlugKept
<1>9. QED
  BY <1>4, <1>5, <1>6, <1>7, <1>8 DEF ChangeInv

(* The holder goes on without writing a credential.                        *)
LEMMA HolderReads ==
  ASSUME IInv, ChangeInv, NEW i \in Invocs, inv[i].pc \in Locked, inv[i].pc # "begin", inv[i].pc # "release",
         Others(i), Stays(i), inv'[i].pc \in Locked, Replacing(i)' => Replacing(i),
         shared' = shared, gen' = gen, ssm' = ssm, handles' = handles,
         faults \subseteq faults', Undoable(i)',
         Without(Torn \union {"stale"})' => HeldWhole(i)',
         Without(Torn \union {"stale", "hooklost", "recheck"} \union Tolerated)' => HeldAgrees(i)',
         Without(Torn \union {"stale", "slug", "recheck"})' => HeldSlug(i)'
  PROVE  ChangeInv'
<1>1. FreshNames([p \in Names |-> Len(ssm[p])])'
  BY DEF ChangeInv, HandlesFresh, FreshNames
<1>2. Replacing(i)' => FreshNames(inv[i].before)'
  BY DEF ChangeInv, HandlesFresh, FreshNames, Stays
<1>3. Restorable(i)'
  BY DEF IInv, Sound, Restorable, Stays
<1>4. Without(Torn \union {"stale"})' => Without(Torn \union {"stale"})
  BY StillWithout DEF Torn
<1>5. Without(Torn \union {"stale"})' =>
        \A h \in handles' : h.stale \/ \E c \in Creds \union {None} : Denotes(h.of, c)'
  BY <1>4, SameData DEF ChangeInv, SetsWhole
<1>6. QED
  BY <1>1, <1>2, <1>3, <1>5, HolderKeeps DEF Stays

(* Where nobody writes the lock is taken; nothing is held of the new one   *)
(* but that it has not begun.                                              *)
LEMMA AcquireLockHolds ==
  ASSUME IInv, ChangeInv, NEW i \in Invocs, AcquireLock(i)
  PROVE  ChangeInv'
<1>1. TypeOK /\ inv[i].pc = "acquire" /\ Changing(i) /\ ~inv[i].rolled /\ Fenced
      /\ UNCHANGED <<ssm, hook, slug, shared, gen, handles>> /\ faults \subseteq faults'
      /\ (inv[i].kind = "relink" => inv[i].before = None)
  BY FaultsGrow DEF IInv, ChangeInv, Undoable, AcquireLock
<1>2. PICK pc \in {"begin", "post"} : Goto(i, pc) /\ (pc = "begin" => lock = None)
  BY DEF AcquireLock
<1>3. Others(i) /\ Stays(i) /\ inv'[i].pc = pc /\ inv'[i].rolled = inv[i].rolled
  BY <1>1, <1>2, GotoStays
<1>4. Undoable(i)'
  BY <1>1, <1>3 DEF Undoable, Changing, Replacing, Stays, Locked
<1>5. Fenced'
  <2>1. gen \in Nat
    BY <1>1 DEF TypeOK
  <2>2. QED
    BY <1>1, <1>3, <2>1, ChangingFenced DEF Changing, Stays
<1>6. CASE pc = "post"
  BY <1>1, <1>3, <1>4, <1>5, <1>6, QuietKeeps DEF Locked
<1>7. CASE pc = "begin"
  <2>1. \A j \in Invocs : inv[j].pc \notin Locked
    BY <1>2, <1>7, FreeMeansNone, NoneAssumption
  <2>2. Settled
    BY <2>1 DEF Settled
  <2>3. \A j \in Invocs : Undoable(j)'
    BY <1>1, <1>3, <1>4, <2>1, UndoableIfSame DEF ChangeInv, Others
  <2>4. ASSUME NEW j \in Invocs
        PROVE  ~Replacing(j)' /\ inv'[j].pc \notin {"release", "restore", "slug", "sync"}
               /\ (inv'[j].pc \in Locked => inv'[j].pc = "begin")
    BY <1>3, <1>7, <2>1 DEF Others, Replacing, Locked
  <2>5. HandlesFresh'
    <3>1. FreshNames([p \in Names |-> Len(ssm[p])])'
      BY <1>1 DEF ChangeInv, HandlesFresh, FreshNames
    <3>2. QED
      BY <2>4, <3>1 DEF HandlesFresh
  <2>6. SetsWhole'
    <3>1. Without(Torn \union {"stale"})' => Without(Torn \union {"stale"})
      BY <1>1, StillWithout DEF Torn
    <3>2. Without(Torn \union {"stale"})' => Whole'
      BY <1>1, <2>2, <3>1, SameData DEF ChangeInv, SetsWhole
    <3>3. Without(Torn \union {"stale"})' =>
            \A h \in handles' : h.stale \/ \E c \in Creds \union {None} : Denotes(h.of, c)'
      BY <1>1, <3>1, SameData DEF ChangeInv, SetsWhole
    <3>4. QED
      BY <2>4, <3>2, <3>3 DEF SetsWhole, HeldWhole
  <2>7. HookKept'
    <3> DEFINE ks == Torn \union {"stale", "hooklost", "recheck"} \union Tolerated
    <3>1. Without(ks)' => Without(ks)
      BY <1>1, StillWithout DEF Torn, Tolerated
    <3>2. Without(ks)' => Agree'
      BY <1>1, <2>2, <3>1, SameData DEF ChangeInv, HookKept, Agree
    <3>3. QED
      BY <2>4, <3>2 DEF HookKept, HeldAgrees
  <2>8. SlugKept'
    <3> DEFINE ks == Torn \union {"stale", "slug", "recheck"}
    <3>1. Without(ks)' => Without(ks)
      BY <1>1, StillWithout DEF Torn
    <3>2. Without(ks)' => SlugRight'
      BY <1>1, <2>2, <3>1, SameData DEF ChangeInv, SlugKept, SlugRight
    <3>3. QED
      BY <2>4, <3>2 DEF SlugKept, HeldSlug
  <2>9. QED
    BY <1>5, <2>3, <2>5, <2>6, <2>7, <2>8 DEF ChangeInv
<1>8. QED
  BY <1>6, <1>7

LEMMA CurIsLast ==
  ASSUME TypeOK
  PROVE  \A p \in Names : Cur(p) = Value(p, Len(ssm[p]))
<1> SUFFICES ASSUME NEW p \in Names PROVE Cur(p) = Value(p, Len(ssm[p]))
  OBVIOUS
<1>1. ssm[p] \in Seq(Creds)
  BY Lengths
<1>2. ssm[p] = <<>> <=> Len(ssm[p]) = 0
  BY <1>1
<1>3. QED
  BY <1>2 DEF Cur, Value

LEMMA WrittenAll ==
  ASSUME NEW i, inv[i].at = Len(Params)
  PROVE  Written(i) = Names
BY DEF Written, Names

LEMMA NamesOfTwo == "app-id" \in Names /\ "app-pem" \in Names /\ "webhook-secret" \in Names
<1>1. Len(Params) = 5 /\ Params[1] = "app-id" /\ Params[2] = "app-pem"
      /\ Params[3] = "webhook-secret"
  BY DEF Params
<1>2. QED
  BY <1>1 DEF Names

(* When one set is stored, what GitHub and the slug say of it is what they *)
(* say of the versions noted.                                              *)
LEMMA AgreeIfHeld ==
  ASSUME NEW h, NEW c \in Creds \union {None}, \A p \in Names : Cur(p) = c, Denotes(h, c)
  PROVE  /\ (\A d \in Creds : Denotes(h, d) => hook[AppOf[d]] = SecretOf[d]) <=> Agree
         /\ (\A d \in Creds : Denotes(h, d) => slug = AppOf[d]) <=> SlugRight
<1>1. Cur("app-id") = c /\ Cur("webhook-secret") = c
  BY NamesOfTwo
<1>2. \A d \in Creds : Denotes(h, d) => d = c
  BY NamesOfTwo DEF Denotes
<1>3. QED
  BY <1>1, <1>2, NoneAssumption DEF Agree, SlugRight

(* The submitted credentials, or the environment, were not what they had   *)
(* to be: nothing was written.                                             *)
LEMMA BeginFails ==
  ASSUME IInv, ChangeInv, NEW i \in Invocs, inv[i].pc = "begin", Goto(i, "release"),
         UNCHANGED <<ssm, hook, slug, lock, shared, gen, handles, asked>>, faults \subseteq faults'
  PROVE  ChangeInv'
<1>1. TypeOK /\ Undoable(i)
  BY DEF IInv, ChangeInv
<1>2. Others(i) /\ Stays(i) /\ inv'[i].pc = "release" /\ inv'[i].rolled = inv[i].rolled
  BY <1>1, GotoStays
<1>3. ~inv'[i].rolled /\ ~Replacing(i) /\ ~Replacing(i)' /\ Changing(i)
      /\ (inv'[i].kind = "relink" => inv'[i].before = None)
  BY <1>1, <1>2 DEF Undoable, Replacing, Stays, Locked
<1>4. Undoable(i)'
  BY <1>2, <1>3 DEF Undoable, Changing, Stays, Locked
<1>5. FreshNames([p \in Names |-> Len(ssm[p])])'
  BY DEF ChangeInv, HandlesFresh, FreshNames
<1>6. Without(Torn \union {"stale"})' =>
        /\ \A h \in handles' : h.stale \/ \E c \in Creds \union {None} : Denotes(h.of, c)'
        /\ HeldWhole(i)'
  <2>1. Without(Torn \union {"stale"})' => Without(Torn \union {"stale"})
    BY StillWithout DEF Torn
  <2>2. Without(Torn \union {"stale"}) => Whole
    BY <1>3 DEF ChangeInv, SetsWhole, HeldWhole, Locked
  <2>3. QED
    BY <1>2, <1>3, <2>1, <2>2, SameData DEF ChangeInv, SetsWhole, HeldWhole
<1>7. Without(Torn \union {"stale", "hooklost", "recheck"} \union Tolerated)' => HeldAgrees(i)'
  <2> DEFINE ks == Torn \union {"stale", "hooklost", "recheck"} \union Tolerated
  <2>1. Without(ks)' => Without(ks)
    BY StillWithout DEF Torn, Tolerated
  <2>2. Without(ks) => Agree
    BY DEF ChangeInv, HookKept, HeldAgrees
  <2>3. QED
    BY <1>2, <1>3, <2>1, <2>2, SameData DEF HeldAgrees, Agree
<1>8. Without(Torn \union {"stale", "slug", "recheck"})' => HeldSlug(i)'
  <2> DEFINE ks == Torn \union {"stale", "slug", "recheck"}
  <2>1. Without(ks)' => Without(ks)
    BY StillWithout DEF Torn
  <2>2. Without(ks) => SlugRight
    BY DEF ChangeInv, SlugKept, HeldSlug
  <2>3. QED
    BY <1>2, <1>3, <2>1, <2>2, SameData DEF HeldSlug, SlugRight
<1>9. inv[i].pc \in Locked /\ inv'[i].pc \in Locked
  BY <1>2 DEF Locked
<1>10. QED
  BY <1>2, <1>3, <1>4, <1>5, <1>6, <1>7, <1>8, <1>9, HolderKeeps DEF Stays

(* The versions noted are those of what is stored.                         *)
LEMMA BeginRelinkHolds ==
  ASSUME IInv, ChangeInv, NEW i \in Invocs, BeginRelink(i)
  PROVE  ChangeInv'
<1>1. TypeOK /\ Undoable(i) /\ Sound(i) /\ inv[i].pc = "begin" /\ inv[i].kind = "relink"
      /\ inv[i].pc \in Locked /\ inv[i].at = 0
      /\ UNCHANGED <<ssm, hook, slug, lock, shared, gen, handles, asked>>
      /\ faults \subseteq faults'
  BY FaultsGrow DEF IInv, ChangeInv, BeginRelink, Sound, Locked
<1>2. CASE Goto(i, "release")
  BY <1>1, <1>2, BeginFails
<1>3. CASE \E rotated \in BOOLEAN :
             inv' = [inv EXCEPT ![i].pc = "put", ![i].rotated = rotated,
                                ![i].before = [p \in Names |-> Len(ssm[p])]]
  <2>1. PICK b \in Snapshot : b = [p \in Names |-> Len(ssm[p])]
    BY <1>1, Lengths DEF Snapshot
  <2>2. /\ Others(i) /\ inv'[i].pc = "put" /\ inv'[i].kind = "relink" /\ inv'[i].at = 0
        /\ inv'[i].before = b /\ inv'[i].rolled = inv[i].rolled /\ inv'[i].cred = inv[i].cred
    BY <1>1, <1>3, <2>1 DEF TypeOK, InvType, Others
  <2>3. Written(i)' = {}
    BY <2>2 DEF Written
  <2>4. \A p \in Names : Value(p, b[p])' = Cur(p) /\ Cur(p)' = Cur(p)
    BY <1>1, <2>1, CurIsLast, SameData
  <2>5. Undoable(i)'
    <3>1. ~inv'[i].rolled /\ Changing(i)'
      BY <1>1, <2>2 DEF Undoable, Changing, Locked
    <3>2. \A p \in Names : Cur(p)' = Value(p, inv[i].before[p])'
      BY <2>2, <2>4 DEF Value
    <3>3. QED
      BY <2>2, <3>1, <3>2 DEF Undoable, Replacing, Locked
  <2>6. FreshNames([p \in Names |-> Len(ssm[p])])' /\ FreshNames(inv[i].before)'
    BY <1>1, <2>1, <2>2 DEF ChangeInv, HandlesFresh, FreshNames
  <2>7. ASSUME Without(Torn \union {"stale"})'
        PROVE  /\ Without(Torn \union {"stale"})
               /\ \E c \in Creds \union {None} : (\A p \in Names : Cur(p) = c) /\ Denotes(b, c)
    <3>1. Without(Torn \union {"stale"})
      BY <1>1, <2>7, StillWithout
    <3>2. Whole
      BY <1>1, <3>1 DEF ChangeInv, SetsWhole, HeldWhole, Replacing, Locked
    <3>3. QED
      BY <1>1, <2>4, <3>1, <3>2, SameData DEF Whole, Denotes
  <2>8. ASSUME Without(Torn \union {"stale"})'
        PROVE  /\ \A h \in handles' : h.stale \/ \E c \in Creds \union {None} : Denotes(h.of, c)'
               /\ HeldWhole(i)'
    <3>1. PICK c \in Creds \union {None} : (\A p \in Names : Cur(p) = c) /\ Denotes(b, c)
      BY <2>7, <2>8
    <3>2. Denotes(inv[i].before, c)' /\ Holds(Written(i), inv[i].cred, c)'
      <4>1. Denotes(b, c)'
        BY <1>1, <3>1, SameData
      <4>2. Denotes(inv[i].before, c)'
        BY <2>2, <4>1 DEF Denotes, Value
      <4>3. Holds(Written(i), inv[i].cred, c)'
        BY <2>3, <2>4, <3>1 DEF Holds
      <4>4. QED
        BY <4>2, <4>3
    <3>3. HeldWhole(i)'
      BY <2>2, <3>2 DEF HeldWhole, Replacing
    <3>4. QED
      BY <1>1, <2>7, <2>8, <3>3, SameData DEF ChangeInv, SetsWhole
  <2>9. ASSUME Without(Torn \union {"stale", "hooklost", "recheck"} \union Tolerated)'
        PROVE  HeldAgrees(i)'
    <3>1. PICK c \in Creds \union {None} : (\A p \in Names : Cur(p) = c) /\ Denotes(b, c)
      BY <2>7, <2>9 DEF Without
    <3>2. Agree
      <4>1. Without(Torn \union {"stale", "hooklost", "recheck"} \union Tolerated)
        BY <1>1, <2>9, StillWithout
      <4>2. QED
        BY <1>1, <4>1 DEF ChangeInv, HookKept, HeldAgrees
    <3>3. \A d \in Creds : Denotes(b, d) => hook[AppOf[d]] = SecretOf[d]
      BY <3>1, <3>2, AgreeIfHeld
    <3>4. QED
      BY <1>1, <2>2, <3>3 DEF HeldAgrees, Denotes, Value
  <2>10. ASSUME Without(Torn \union {"stale", "slug", "recheck"})'
         PROVE  HeldSlug(i)'
    <3>1. PICK c \in Creds \union {None} : (\A p \in Names : Cur(p) = c) /\ Denotes(b, c)
      BY <2>7, <2>10 DEF Without
    <3>2. SlugRight
      <4>1. Without(Torn \union {"stale", "slug", "recheck"})
        BY <1>1, <2>10, StillWithout
      <4>2. QED
        BY <1>1, <4>1 DEF ChangeInv, SlugKept, HeldSlug
    <3>3. \A d \in Creds : Denotes(b, d) => slug = AppOf[d]
      BY <3>1, <3>2, AgreeIfHeld
    <3>4. QED
      BY <1>1, <2>2, <3>3 DEF HeldSlug, Denotes, Value
  <2>11. QED
    BY <1>1, <2>2, <2>5, <2>6, <2>8, <2>9, <2>10, HolderKeeps DEF Locked
<1>4. QED
  BY <1>1, <1>2, <1>3 DEF BeginRelink

(* A fresh handle denotes one set, which the rollback goes on to restore.  *)
LEMMA BeginRollbackHolds ==
  ASSUME IInv, ChangeInv, NEW i \in Invocs, BeginRollback(i)
  PROVE  ChangeInv'
<1>1. TypeOK /\ Undoable(i) /\ Sound(i) /\ inv[i].pc = "begin" /\ inv[i].kind = "rollback"
      /\ inv[i].pc \in Locked /\ UNCHANGED <<ssm, hook, slug, lock, shared, gen, handles, asked>>
      /\ faults \subseteq faults'
  BY FaultsGrow DEF IInv, ChangeInv, BeginRollback, Locked
<1>2. CASE Goto(i, "release")
  BY <1>1, <1>2, BeginFails
<1>3. CASE /\ inv' = [inv EXCEPT ![i].pc = "restore", ![i].todo = Names]
           /\ IF Fresh(inv[i].before) THEN NoFault ELSE Note("stale")
  <2>1. /\ Others(i) /\ inv'[i].pc = "restore" /\ inv'[i].kind = "rollback"
        /\ inv'[i].todo = Names /\ inv'[i].before = inv[i].before /\ inv'[i].rolled = inv[i].rolled
    BY <1>1, <1>3 DEF TypeOK, InvType, Others
  <2>2. Undoable(i)'
    BY <1>1, <2>1 DEF Undoable, Changing, Replacing, Locked
  <2>3. FreshNames([p \in Names |-> Len(ssm[p])])'
    BY <1>1 DEF ChangeInv, HandlesFresh, FreshNames
  <2>4. ~Replacing(i)' /\ ~Replacing(i)
    BY <1>1, <2>1 DEF Replacing
  <2>5. ASSUME Without(Torn \union {"stale"})'
        PROVE  /\ \A h \in handles' : h.stale \/ \E c \in Creds \union {None} : Denotes(h.of, c)'
               /\ HeldWhole(i)'
    <3>1. Without(Torn \union {"stale"})
      BY <1>1, <2>5, StillWithout
    <3>2. Fresh(inv[i].before)
      BY <1>3, <2>5, FaultsGrow DEF Without
    <3>3. \A h \in handles : h.stale \/ \E c \in Creds \union {None} : Denotes(h.of, c)
      BY <3>1 DEF ChangeInv, SetsWhole
    <3>4. PICK c \in Creds \union {None} : Denotes(inv[i].before, c)
      BY <3>2, <3>3 DEF Fresh
    <3>5. PICK d \in Creds \union {None} : \A p \in Names : Cur(p) = d
      BY <1>1, <2>4, <3>1 DEF ChangeInv, SetsWhole, HeldWhole, Whole
    <3>6. Denotes(inv[i].before, c)'
      BY <1>1, <2>1, <3>4 DEF Denotes, Value
    <3>7. Holds(inv[i].todo, d, c)'
      BY <1>1, <2>1, <3>5, SameData DEF Holds
    <3>8. HeldWhole(i)'
      BY <2>1, <2>4, <3>6, <3>7 DEF HeldWhole
    <3>9. QED
      BY <1>1, <3>3, <3>8, SameData
  <2>6. HeldAgrees(i)' /\ HeldSlug(i)'
    BY <2>1, <2>4 DEF HeldAgrees, HeldSlug
  <2>7. QED
    BY <1>1, <2>1, <2>2, <2>3, <2>4, <2>5, <2>6, HolderKeeps DEF Locked
<1>4. QED
  BY <1>1, <1>2, <1>3 DEF BeginRollback

(* A relink that is undone starts from what it has written.                *)
LEMMA UndoStarts ==
  ASSUME IInv, ChangeInv, NEW i \in Invocs, Replacing(i), inv[i].pc \in {"put", "check", "sync"},
         StartUndo(i), UNCHANGED <<ssm, slug, shared, gen, handles>>, faults \subseteq faults',
         hook' = hook \/ "hooklost" \in faults'
  PROVE  ChangeInv'
<1>1. TypeOK /\ Undoable(i) /\ inv[i].kind = "relink" /\ inv[i].pc \in Locked
  BY DEF IInv, ChangeInv, Replacing, Locked
<1>2. /\ Others(i) /\ Stays(i) /\ inv'[i].todo = Written(i)
      /\ inv'[i].rolled = (Written(i) # {})
      /\ inv'[i].pc = IF Written(i) = {} THEN "release" ELSE "undo"
  BY <1>1, StartUndoStays
<1>3. inv[i].pc # "put" => Written(i) = Names
  BY <1>1, WrittenAll DEF Undoable
<1>4. Undoable(i)'
  <2>1. ASSUME Without({"putlost"})', inv'[i].pc = "undo"
        PROVE  \A p \in Names \ inv'[i].todo : Cur(p)' = Value(p, inv[i].before[p])'
    <3>1. Without({"putlost"})
      BY <2>1, StillWithout
    <3>2. \A p \in Names \ Written(i) : Cur(p) = Value(p, inv[i].before[p])
      BY <1>1, <1>3, <3>1 DEF Undoable
    <3>3. QED
      BY <1>2, <3>2 DEF Stays, Cur, Value
  <2>2. inv'[i].pc = "release" => ~inv'[i].rolled
    BY <1>2
  <2>3. inv'[i].pc \in {"undo", "release"} /\ inv'[i].kind = "relink"
    BY <1>1, <1>2 DEF Stays
  <2>4. QED
    BY <2>1, <2>2, <2>3 DEF Undoable, Changing, Replacing, Locked
<1>5. ASSUME Without(Torn \union {"stale"})'
      PROVE  \E c \in Creds \union {None} :
               Denotes(inv[i].before, c) /\ Holds(Written(i), inv[i].cred, c)
  <2>1. Without(Torn \union {"stale"})
    BY <1>5, StillWithout
  <2>2. QED
    BY <2>1 DEF ChangeInv, SetsWhole, HeldWhole
<1>6. ASSUME Without(Torn \union {"stale"})'
      PROVE  HeldWhole(i)'
  <2>1. PICK c \in Creds \union {None} :
          Denotes(inv[i].before, c) /\ Holds(Written(i), inv[i].cred, c)
    BY <1>5, <1>6
  <2>2. Denotes(inv[i].before, c)'
    BY <1>2, <2>1 DEF Denotes, Value, Stays
  <2>3. CASE inv'[i].pc = "undo"
    <3>1. Holds(inv[i].todo, inv[i].cred, c)'
      BY <1>2, <2>1, SameData DEF Holds, Stays
    <3>2. inv'[i].kind = "relink" /\ Replacing(i)'
      BY <1>1, <1>2, <2>3 DEF Stays, Replacing
    <3>3. QED
      BY <2>2, <2>3, <3>1, <3>2 DEF HeldWhole
  <2>4. CASE inv'[i].pc = "release" /\ Written(i) = {}
    <3>1. Whole'
      BY <2>1, <2>4, SameData DEF Holds, Whole
    <3>2. QED
      BY <2>2, <2>4, <3>1 DEF HeldWhole, Replacing
  <2>5. QED
    BY <1>2, <2>3, <2>4
<1>7. ASSUME Without(Torn \union {"stale", "hooklost", "recheck"} \union Tolerated)'
      PROVE  HeldAgrees(i)'
  <2>1. hook' = hook /\ Without(Torn \union {"stale", "hooklost", "recheck"} \union Tolerated)
    BY <1>7, StillWithout DEF Without
  <2>2. \A d \in Creds : Denotes(inv[i].before, d) => hook[AppOf[d]] = SecretOf[d]
    BY <2>1 DEF ChangeInv, HookKept, HeldAgrees
  <2>3. \A d \in Creds : Denotes(inv[i].before, d)' => hook'[AppOf[d]] = SecretOf[d]
    BY <1>2, <2>1, <2>2 DEF Denotes, Value, Stays
  <2>4. CASE inv'[i].pc = "undo"
    BY <1>2, <2>3, <2>4 DEF HeldAgrees
  <2>5. CASE inv'[i].pc = "release" /\ Written(i) = {}
    <3>1. PICK c \in Creds \union {None} :
            Denotes(inv[i].before, c) /\ Holds(Written(i), inv[i].cred, c)
      BY <1>5, <1>7 DEF Without
    <3>2. \A p \in Names : Cur(p) = c
      BY <2>5, <3>1 DEF Holds
    <3>3. Agree
      BY <2>2, <3>1, <3>2, AgreeIfHeld
    <3>4. QED
      BY <2>1, <2>5, <3>3, SameData DEF HeldAgrees, Replacing, Agree
  <2>6. QED
    BY <1>2, <2>4, <2>5
<1>8. ASSUME Without(Torn \union {"stale", "slug", "recheck"})'
      PROVE  HeldSlug(i)'
  <2>1. Without(Torn \union {"stale", "slug", "recheck"})
    BY <1>8, StillWithout
  <2>2. \A d \in Creds : Denotes(inv[i].before, d) => slug = AppOf[d]
    BY <2>1 DEF ChangeInv, SlugKept, HeldSlug
  <2>3. \A d \in Creds : Denotes(inv[i].before, d)' => slug' = AppOf[d]
    BY <1>2, <2>2 DEF Denotes, Value, Stays
  <2>4. CASE inv'[i].pc = "undo"
    BY <1>2, <2>3, <2>4 DEF HeldSlug
  <2>5. CASE inv'[i].pc = "release" /\ Written(i) = {}
    <3>1. PICK c \in Creds \union {None} :
            Denotes(inv[i].before, c) /\ Holds(Written(i), inv[i].cred, c)
      BY <1>5, <1>8 DEF Without
    <3>2. \A p \in Names : Cur(p) = c
      BY <2>5, <3>1 DEF Holds
    <3>3. SlugRight
      BY <2>2, <3>1, <3>2, AgreeIfHeld
    <3>4. QED
      BY <2>5, <3>3, SameData DEF HeldSlug, Replacing, SlugRight
  <2>6. QED
    BY <1>2, <2>4, <2>5
<1>9. inv'[i].pc \in Locked /\ inv[i].pc \notin {"begin", "release"}
  BY <1>2 DEF Locked
<1>10. QED
  BY <1>1, <1>2, <1>4, <1>6, <1>7, <1>8, <1>9, HolderReads

LEMMA VerifyStoredHolds ==
  ASSUME IInv, ChangeInv, NEW i \in Invocs, VerifyStored(i)
  PROVE  ChangeInv'
<1>1. TypeOK /\ Undoable(i) /\ inv[i].pc = "check" /\ inv[i].kind = "relink" /\ Replacing(i)
      /\ UNCHANGED <<ssm, hook, slug, lock, shared, gen, handles, asked>> /\ faults \subseteq faults'
  BY FaultsGrow DEF IInv, Sound, ChangeInv, VerifyStored, Replacing
<1>2. CASE StartUndo(i)
  BY <1>1, <1>2, UndoStarts
<1>3. CASE Goto(i, "sync")
  <2>1. /\ Others(i) /\ Stays(i) /\ inv'[i].pc = "sync" /\ inv'[i].rolled = inv[i].rolled
    BY <1>1, <1>3, GotoStays
  <2>2. Undoable(i)'
    BY <1>1, <2>1 DEF Undoable, Changing, Replacing, Stays, Locked
  <2>3. ASSUME Without(Torn \union {"stale"})' PROVE HeldWhole(i)'
    <3>1. Without(Torn \union {"stale"})
      BY <1>1, <2>3, StillWithout
    <3>2. PICK c \in Creds \union {None} :
            Denotes(inv[i].before, c) /\ Holds(Written(i), inv[i].cred, c)
      BY <1>1, <3>1 DEF ChangeInv, SetsWhole, HeldWhole
    <3>3. Denotes(inv[i].before, c)' /\ Holds(Written(i), inv[i].cred, c)'
      BY <1>1, <2>1, <3>2 DEF Denotes, Value, Holds, Cur, Written, Stays
    <3>4. QED
      BY <1>1, <2>1, <3>3 DEF HeldWhole, Replacing, Stays
  <2>4. ASSUME Without(Torn \union {"stale", "hooklost", "recheck"} \union Tolerated)'
        PROVE  HeldAgrees(i)'
    <3>1. Without(Torn \union {"stale", "hooklost", "recheck"} \union Tolerated)
      BY <1>1, <2>4, StillWithout
    <3>2. HeldAgrees(i)
      BY <3>1 DEF ChangeInv, HookKept
    <3>3. QED
      BY <1>1, <2>1, <3>2 DEF HeldAgrees, Denotes, Value, Stays
  <2>5. ASSUME Without(Torn \union {"stale", "slug", "recheck"})'
        PROVE  HeldSlug(i)'
    <3>1. Without(Torn \union {"stale", "slug", "recheck"})
      BY <1>1, <2>5, StillWithout
    <3>2. HeldSlug(i)
      BY <3>1 DEF ChangeInv, SlugKept
    <3>3. QED
      BY <1>1, <2>1, <3>2 DEF HeldSlug, Denotes, Value, Stays
  <2>6. QED
    BY <1>1, <2>1, <2>2, <2>3, <2>4, <2>5, HolderReads DEF Locked
<1>4. QED
  BY <1>2, <1>3 DEF VerifyStored

(* What a rollback restored is one set: it authenticates, or it is none.   *)
LEMMA RecheckRestoredHolds ==
  ASSUME IInv, ChangeInv, NEW i \in Invocs, RecheckRestored(i)
  PROVE  ChangeInv'
<1>1. TypeOK /\ Undoable(i) /\ inv[i].pc = "recheck" /\ inv[i].kind = "rollback" /\ ~Replacing(i)
      /\ inv[i].pc \in Locked
      /\ UNCHANGED <<ssm, hook, slug, lock, shared, gen, handles, asked>> /\ faults \subseteq faults'
  BY FaultsGrow DEF IInv, Undoable, ChangeInv, RecheckRestored, Replacing, Locked
<1>2. PICK pc \in {"slug", "release"} :
        /\ Others(i) /\ Stays(i) /\ inv'[i].pc = pc /\ inv'[i].rolled = inv[i].rolled
        /\ pc = "release" => ~Authenticates \/ Fault("recheck")
  <2>1. CASE Authenticates /\ Goto(i, "slug")
    BY <1>1, <2>1, GotoStays
  <2>2. CASE inv' = Finished(i) /\ (~Authenticates \/ Fault("recheck"))
    BY <1>1, <2>2, GotoStays
  <2>3. QED
    BY <2>1, <2>2 DEF RecheckRestored, Finished
<1>3. ~Replacing(i)' /\ inv'[i].kind = "rollback" /\ inv'[i].pc \in Locked \ {"restore", "begin"}
  BY <1>1, <1>2 DEF Replacing, Stays, Locked
<1>4. Undoable(i)'
  BY <1>1, <1>2, <1>3 DEF Undoable, Changing, Locked
<1>5. ASSUME Without(Torn \union {"stale"})' PROVE Whole
  <2>1. Without(Torn \union {"stale"})
    BY <1>1, <1>5, StillWithout
  <2>2. QED
    BY <1>1, <2>1 DEF ChangeInv, SetsWhole, HeldWhole
<1>6. Without(Torn \union {"stale"})' => HeldWhole(i)'
  BY <1>1, <1>3, <1>5, SameData DEF HeldWhole
<1>7. ASSUME Whole, ~Authenticates PROVE Agree /\ SlugRight
  <2>1. PICK c \in Creds \union {None} : \A p \in Names : Cur(p) = c
    BY <1>7 DEF Whole
  <2>2. c = None
    BY <1>7, <2>1, NamesOfTwo DEF Authenticates
  <2>3. QED
    BY <2>1, <2>2, NamesOfTwo DEF Agree, SlugRight
<1>8. ASSUME Without(Torn \union {"stale", "hooklost", "recheck"} \union Tolerated)'
      PROVE  HeldAgrees(i)'
  <2>1. Without(Torn \union {"stale"})' /\ ~Fault("recheck")
    BY <1>8, FaultsGrow DEF Without
  <2>2. pc = "release" => Agree'
    BY <1>1, <1>2, <1>5, <1>7, <2>1, SameData DEF Agree
  <2>3. QED
    BY <1>2, <1>3, <2>2 DEF HeldAgrees
<1>9. ASSUME Without(Torn \union {"stale", "slug", "recheck"})'
      PROVE  HeldSlug(i)'
  <2>1. Without(Torn \union {"stale"})' /\ ~Fault("recheck")
    BY <1>9, FaultsGrow DEF Without
  <2>2. pc = "release" => SlugRight'
    BY <1>1, <1>2, <1>5, <1>7, <2>1, SameData DEF SlugRight
  <2>3. QED
    BY <1>2, <1>3, <2>2 DEF HeldSlug
<1>10. QED
  BY <1>1, <1>2, <1>3, <1>4, <1>6, <1>8, <1>9, HolderReads DEF Locked

LEMMA WriteSlugHolds ==
  ASSUME IInv, ChangeInv, NEW i \in Invocs, WriteSlug(i)
  PROVE  ChangeInv'
<1>1. TypeOK /\ Undoable(i) /\ inv[i].pc = "slug" /\ inv[i].pc \in Locked
      /\ inv[i].kind \in {"relink", "rollback"}
      /\ UNCHANGED <<ssm, hook, lock, shared, gen, handles, asked>> /\ faults \subseteq faults'
  BY FaultsGrow DEF IInv, Undoable, Changing, ChangeInv, WriteSlug, Locked
<1>2. /\ Others(i) /\ Stays(i) /\ inv'[i].rolled = inv[i].rolled
      /\ inv'[i].pc = IF inv[i].kind = "relink" THEN "release" ELSE "sync"
  <2>1. CASE inv[i].kind = "relink" /\ inv' = Finished(i)
    BY <1>1, <2>1, GotoStays
  <2>2. CASE inv[i].kind # "relink" /\ Goto(i, "sync")
    BY <1>1, <2>2, GotoStays
  <2>3. QED
    BY <2>1, <2>2 DEF WriteSlug, Goto
<1>3. ~Replacing(i)' /\ inv'[i].pc \in Locked \ {"restore", "begin"} /\ ~inv[i].rolled
  BY <1>1, <1>2 DEF Replacing, Stays, Locked, Undoable
<1>4. Undoable(i)'
  BY <1>1, <1>2, <1>3 DEF Undoable, Changing, Locked, Stays
<1>5. ASSUME Without(Torn \union {"stale"})'
      PROVE  /\ Whole
             /\ inv[i].kind = "relink" => \E c \in Creds \union {None} : Denotes(inv[i].before, c)
  <2>1. Without(Torn \union {"stale"})
    BY <1>1, <1>5, StillWithout
  <2>2. HeldWhole(i)
    BY <2>1 DEF ChangeInv, SetsWhole
  <2>3. CASE inv[i].kind = "relink"
    <3>1. Replacing(i) /\ Written(i) = Names /\ inv[i].cred \in Creds
      BY <1>1, <2>3, WrittenAll DEF Replacing, Undoable, IInv, Sound
    <3>2. PICK c \in Creds \union {None} :
            Denotes(inv[i].before, c) /\ Holds(Names, inv[i].cred, c)
      BY <1>1, <2>2, <3>1 DEF HeldWhole
    <3>3. QED
      BY <3>1, <3>2 DEF Holds, Whole
  <2>4. CASE inv[i].kind # "relink"
    BY <1>1, <2>2, <2>4 DEF HeldWhole, Replacing
  <2>5. QED
    BY <2>3, <2>4
<1>6. ASSUME Without(Torn \union {"stale"})' PROVE HeldWhole(i)'
  <2>1. Whole'
    BY <1>1, <1>5, <1>6, SameData
  <2>2. inv'[i].kind = "relink" => \E c \in Creds \union {None} : Denotes(inv[i].before, c)'
    BY <1>1, <1>2, <1>5, <1>6 DEF Denotes, Value, Stays
  <2>3. QED
    BY <1>3, <2>1, <2>2 DEF HeldWhole
<1>7. ASSUME Without(Torn \union {"stale", "hooklost", "recheck"} \union Tolerated)'
      PROVE  HeldAgrees(i)'
  <2>1. Without(Torn \union {"stale", "hooklost", "recheck"} \union Tolerated)
    BY <1>1, <1>7, StillWithout
  <2>2. inv[i].kind = "relink" => Agree
    BY <1>1, <2>1 DEF ChangeInv, HookKept, HeldAgrees
  <2>3. inv'[i].pc = "release" => Agree'
    BY <1>1, <1>2, <2>2, SameData DEF Agree
  <2>4. QED
    BY <1>1, <1>2, <1>3, <2>3 DEF HeldAgrees
<1>8. ASSUME Without(Torn \union {"stale", "slug", "recheck"})'
      PROVE  HeldSlug(i)'
  <2>1. ~Fault("slug")
    BY <1>8, FaultsGrow DEF Without
  <2>2. slug' = AppOf[Cur("app-id")]
    BY <2>1 DEF WriteSlug
  <2>3. SlugRight'
    BY <1>1, <2>2, SameData DEF SlugRight
  <2>4. QED
    BY <1>3, <2>3 DEF HeldSlug
<1>9. QED
  BY <1>1, <1>2, <1>3, <1>4, <1>6, <1>7, <1>8, HolderReads DEF Locked

LEMMA AfterHookStays ==
  ASSUME TypeOK, NEW i \in Invocs, AfterHook(i)
  PROVE  /\ Others(i) /\ Stays(i) /\ inv'[i].rolled = inv[i].rolled
         /\ inv'[i].pc = IF inv[i].kind = "relink" THEN "slug" ELSE "release"
<1>1. CASE inv[i].kind = "relink"
  <2>1. Goto(i, "slug")
    BY <1>1 DEF AfterHook, Goto
  <2>2. QED
    BY <1>1, <2>1, GotoStays
<1>2. CASE inv[i].kind # "relink"
  <2>1. inv' = Finished(i)
    BY <1>2 DEF AfterHook
  <2>2. QED
    BY <1>2, <2>1, GotoStays
<1>3. QED
  BY <1>1, <1>2

(* One set stored and its secret pushed: GitHub and the store agree.       *)
LEMMA PushAgrees ==
  ASSUME TypeOK, Whole, PushSecret, ssm' = ssm
  PROVE  Agree'
<1>1. PICK c \in Creds \union {None} : \A p \in Names : Cur(p) = c
  BY DEF Whole
<1>2. Cur("app-id")' = c /\ Cur("webhook-secret")' = c
      /\ Cur("app-id") = c /\ Cur("webhook-secret") = c
  BY <1>1, SameData, NamesOfTwo
<1>3. CASE c = None
  BY <1>2, <1>3 DEF Agree
<1>4. CASE c # None
  <2>1. AppOf[c] \in Apps
    BY <1>4 DEF Apps
  <2>2. hook' = [hook EXCEPT ![AppOf[c]] = SecretOf[c]]
    BY <1>2, <1>4 DEF PushSecret
  <2>3. hook'[AppOf[c]] = SecretOf[c]
    BY <2>1, <2>2 DEF TypeOK
  <2>4. QED
    BY <1>2, <2>3 DEF Agree
<1>5. QED
  BY <1>3, <1>4

(* GitHub is told, or the relink is undone, or its refusal was knowingly   *)
(* or harmlessly taken.                                                    *)
LEMMA SyncHookHolds ==
  ASSUME IInv, ChangeInv, NEW i \in Invocs, SyncHook(i)
  PROVE  ChangeInv'
<1>1. TypeOK /\ Undoable(i) /\ inv[i].pc = "sync" /\ inv[i].pc \in Locked
      /\ inv[i].kind \in {"relink", "rollback"} /\ ~inv[i].rolled
      /\ UNCHANGED <<ssm, slug, lock, shared, gen, handles, asked>> /\ faults \subseteq faults'
  BY FaultsGrow DEF IInv, Undoable, Changing, ChangeInv, SyncHook, Locked
<1>2. CASE MustUndo(i) /\ StartUndo(i) /\ (hook' = hook \/ Fault("hooklost"))
  <2>1. Replacing(i)
    BY <1>1, <1>2 DEF MustUndo, Replacing
  <2>2. hook' = hook \/ "hooklost" \in faults'
    BY <1>2, FaultsGrow
  <2>3. QED
    BY <1>1, <1>2, <2>1, <2>2, UndoStarts
<1>3. CASE /\ AfterHook(i)
           /\ \/ PushSecret /\ NoFault
              \/ ~MustUndo(i) /\ FaultAs("hook", HookTag(i))
              \/ Fault("hooklost")
  <2>1. /\ Others(i) /\ Stays(i) /\ inv'[i].rolled = inv[i].rolled
        /\ inv'[i].pc = IF inv[i].kind = "relink" THEN "slug" ELSE "release"
    BY <1>1, <1>3, AfterHookStays
  <2>2. Undoable(i)'
    BY <1>1, <2>1 DEF Undoable, Changing, Replacing, Stays, Locked
  <2>3. /\ inv'[i].pc \in Locked \ {"restore", "begin"}
        /\ Replacing(i)' <=> Replacing(i)
        /\ Replacing(i) <=> inv[i].kind = "relink"
    BY <1>1, <2>1 DEF Replacing, Stays, Locked
  <2>4. ASSUME Without(Torn \union {"stale"})'
        PROVE  /\ Whole /\ HeldWhole(i)'
    <3>1. Without(Torn \union {"stale"})
      BY <1>1, <2>4, StillWithout
    <3>2. HeldWhole(i)
      BY <3>1 DEF ChangeInv, SetsWhole
    <3>3. CASE inv[i].kind = "relink"
      <4>1. Written(i) = Names /\ inv[i].cred \in Creds
        BY <1>1, <2>3, <3>3, WrittenAll DEF Undoable, IInv, Sound
      <4>2. PICK c \in Creds \union {None} :
              Denotes(inv[i].before, c) /\ Holds(Written(i), inv[i].cred, c)
        BY <1>1, <2>3, <3>2, <3>3 DEF HeldWhole
      <4>3. Denotes(inv[i].before, c)' /\ Holds(Written(i), inv[i].cred, c)'
        BY <1>1, <2>1, <4>2 DEF Denotes, Value, Holds, Cur, Written, Stays
      <4>4. HeldWhole(i)'
        BY <2>1, <2>3, <3>3, <4>3 DEF HeldWhole
      <4>5. Whole
        BY <4>1, <4>2 DEF Holds, Whole
      <4>6. QED
        BY <4>4, <4>5
    <3>4. CASE inv[i].kind # "relink"
      <4>1. Whole
        BY <1>1, <2>3, <3>2, <3>4 DEF HeldWhole
      <4>2. QED
        BY <1>1, <2>1, <2>3, <3>4, <4>1, SameData DEF HeldWhole, Stays
    <3>5. QED
      BY <3>3, <3>4
  <2>5. ASSUME Without(Torn \union {"stale", "hooklost", "recheck"} \union Tolerated)'
        PROVE  HeldAgrees(i)'
    <3>1. Without(Torn \union {"stale"})' /\ ~Fault("hooklost")
      BY <2>5, FaultsGrow DEF Without
    <3>2. ~MustUndo(i) => HookTag(i) \in Tolerated
      BY <1>1 DEF MustUndo, HookTag, Tolerated
    <3>3. ~(~MustUndo(i) /\ FaultAs("hook", HookTag(i)))
      BY <2>5, <3>2, FaultsGrow DEF Without
    <3>4. PushSecret
      BY <1>3, <3>1, <3>3
    <3>5. Agree'
      BY <1>1, <2>4, <3>1, <3>4, PushAgrees
    <3>6. QED
      BY <2>1, <2>3, <3>5 DEF HeldAgrees, Stays
  <2>6. ASSUME Without(Torn \union {"stale", "slug", "recheck"})'
        PROVE  HeldSlug(i)'
    <3>1. Without(Torn \union {"stale", "slug", "recheck"})
      BY <1>1, <2>6, StillWithout
    <3>2. HeldSlug(i)
      BY <3>1 DEF ChangeInv, SlugKept
    <3>3. CASE inv[i].kind = "relink"
      BY <1>1, <2>1, <2>3, <3>2, <3>3 DEF HeldSlug, Denotes, Value, Stays
    <3>4. CASE inv[i].kind = "rollback"
      BY <1>1, <2>1, <2>3, <3>2, <3>4, SameData DEF HeldSlug, SlugRight, Stays
    <3>5. QED
      BY <1>1, <3>3, <3>4
  <2>7. QED
    BY <1>1, <2>1, <2>2, <2>3, <2>4, <2>5, <2>6, HolderReads
<1>4. QED
  BY <1>2, <1>3 DEF SyncHook, HookRefused

(* The answer hands out the versions noted, unless the relink was undone.  *)
LEMMA ReleaseLockHolds ==
  ASSUME IInv, ChangeInv, NEW i \in Invocs, ReleaseLock(i)
  PROVE  ChangeInv'
<1>1. TypeOK /\ Undoable(i) /\ Fenced /\ inv[i].pc = "release" /\ inv[i].pc \in Locked
      /\ inv[i].kind \in {"relink", "rollback"}
      /\ UNCHANGED <<ssm, hook, slug, shared, gen, asked>> /\ faults \subseteq faults'
  BY FaultsGrow DEF IInv, Undoable, Changing, ChangeInv, ReleaseLock, Locked
<1>2. Others(i) /\ inv'[i].pc = "post" /\ inv'[i].kind = inv[i].kind
  <2>1. inv' = [inv EXCEPT ![i] = [Idle EXCEPT !.pc = "post", !.kind = inv[i].kind]]
    BY DEF ReleaseLock, Answered
  <2>2. QED
    BY <1>1, <2>1 DEF TypeOK, Idle, Others
<1>3. Undoable(i)' /\ inv'[i].pc \notin Locked
  BY <1>1, <1>2 DEF Undoable, Changing, Replacing, Locked
<1>4. \A j \in Invocs \ {i} :
        /\ inv'[j].pc \notin Locked /\ Undoable(j)'
        /\ ~Replacing(j)' /\ inv'[j].pc # "release"
        /\ HeldWhole(j)' /\ HeldAgrees(j)' /\ HeldSlug(j)'
  BY <1>1, <1>2, HolderAlone
<1>5. HeldWhole(i)' /\ HeldAgrees(i)' /\ HeldSlug(i)' /\ ~Replacing(i)'
  BY <1>2 DEF HeldWhole, HeldAgrees, HeldSlug, Replacing, Locked
<1>6. \A h \in handles' : h \in handles \/
        (h = [of |-> inv[i].before, stale |-> FALSE] /\ inv[i].kind = "relink" /\ inv[i].before # None)
  BY DEF ReleaseLock
<1>7. Fenced'
  <2>1. gen \in Nat
    BY <1>1 DEF TypeOK
  <2>2. QED
    BY <1>1, <1>2, <2>1, ChangingFenced DEF Changing
<1>8. HandlesFresh'
  <2>1. FreshNames([p \in Names |-> Len(ssm[p])])'
    <3>1. ASSUME NEW h \in handles', ~h.stale, NEW p \in Names
          PROVE  h.of[p] <= Len(ssm[p])
      <4>1. CASE h \in handles
        BY <3>1, <4>1 DEF ChangeInv, HandlesFresh, FreshNames
      <4>2. CASE h = [of |-> inv[i].before, stale |-> FALSE] /\ inv[i].kind = "relink"
                 /\ inv[i].before # None
        <5>1. Restorable(i)
          BY <1>1, <4>2 DEF ChangeInv, HandlesFresh
        <5>2. QED
          BY <4>2, <5>1 DEF Restorable
      <4>3. QED
        BY <1>6, <3>1, <4>1, <4>2
    <3>2. QED
      BY <1>1, <3>1 DEF FreshNames
  <2>2. QED
    BY <1>2, <1>4, <1>5, <2>1 DEF HandlesFresh
<1>9. SetsWhole'
  <2> SUFFICES ASSUME Without(Torn \union {"stale"})'
               PROVE  /\ \A h \in handles' : h.stale \/ \E c \in Creds \union {None} : Denotes(h.of, c)'
                      /\ Whole'
    BY <1>4, <1>5 DEF SetsWhole
  <2>1. Without(Torn \union {"stale"})
    BY <1>1, StillWithout
  <2>2. HeldWhole(i) /\ \A h \in handles : h.stale \/ \E c \in Creds \union {None} : Denotes(h.of, c)
    BY <2>1 DEF ChangeInv, SetsWhole
  <2>3. Whole
    BY <1>1, <2>2 DEF HeldWhole, Replacing
  <2>4. inv[i].kind = "relink" /\ inv[i].before # None =>
          \E c \in Creds \union {None} : Denotes(inv[i].before, c)
    BY <1>1, <2>2 DEF HeldWhole
  <2>5. \A h \in handles' : h.stale \/ \E c \in Creds \union {None} : Denotes(h.of, c)
    BY <1>6, <2>2, <2>4
  <2>6. QED
    BY <1>1, <2>3, <2>5, SameData
<1>10. HookKept'
  <2> DEFINE ks == Torn \union {"stale", "hooklost", "recheck"} \union Tolerated
  <2>1. Without(ks)' => Without(ks)
    BY <1>1, StillWithout DEF Torn, Tolerated
  <2>2. Without(ks) => Agree
    BY <1>1 DEF ChangeInv, HookKept, HeldAgrees
  <2>3. QED
    BY <1>1, <1>4, <1>5, <2>1, <2>2, SameData DEF HookKept, Agree
<1>11. SlugKept'
  <2> DEFINE ks == Torn \union {"stale", "slug", "recheck"}
  <2>1. Without(ks)' => Without(ks)
    BY <1>1, StillWithout DEF Torn
  <2>2. Without(ks) => SlugRight
    BY <1>1 DEF ChangeInv, SlugKept, HeldSlug
  <2>3. QED
    BY <1>1, <1>4, <1>5, <2>1, <2>2, SameData DEF SlugKept, SlugRight
<1>12. QED
  BY <1>3, <1>4, <1>7, <1>8, <1>9, <1>10, <1>11 DEF ChangeInv

-----------------------------------------------------------------------------
(* The writes of the lock's holder                                         *)

(* A version that still exists has its value.                              *)
HistoryKept ==
  \A q \in Names, v \in Nat :
    v <= Len(ssm[q]) /\ v <= Len(ssm'[q]) => Value(q, v)' = Value(q, v)

LEMMA DenotesKept ==
  ASSUME HistoryKept, NEW h \in Snapshot, NEW c,
         \A q \in Names : h[q] <= Len(ssm[q]) /\ h[q] <= Len(ssm'[q])
  PROVE  Denotes(h, c)' <=> Denotes(h, c)
<1>1. \A q \in Names : Value(q, h[q])' = Value(q, h[q])
  BY DEF HistoryKept, Snapshot
<1>2. QED
  BY <1>1 DEF Denotes

(* The handles that are fresh after the write name what they named.        *)
LEMMA HandlesKept ==
  ASSUME TypeOK, HistoryKept, FreshNames([p \in Names |-> Len(ssm[p])]),
         FreshNames([p \in Names |-> Len(ssm[p])])',
         \A h \in handles' : h.stale \/ \E g \in handles : ~g.stale /\ g.of = h.of,
         \A h \in handles : h.stale \/ \E c \in Creds \union {None} : Denotes(h.of, c)
  PROVE  \A h \in handles' : h.stale \/ \E c \in Creds \union {None} : Denotes(h.of, c)'
<1> SUFFICES ASSUME NEW h \in handles', ~h.stale
             PROVE  \E c \in Creds \union {None} : Denotes(h.of, c)'
  OBVIOUS
<1>1. PICK g \in handles : ~g.stale /\ g.of = h.of
  OBVIOUS
<1>2. PICK b \in Snapshot : b = g.of
  BY DEF TypeOK, Handle
<1>3. \A q \in Names : b[q] <= Len(ssm[q]) /\ b[q] <= Len(ssm'[q])
  BY <1>1, <1>2 DEF FreshNames
<1>4. PICK c \in Creds \union {None} : Denotes(b, c)
  BY <1>1, <1>2
<1>5. Denotes(b, c)'
  BY <1>3, <1>4, DenotesKept
<1>6. QED
  BY <1>1, <1>2, <1>5

(* A parameter is put: the versions noted before stay what they were.      *)
LEMMA WriteParamHolds ==
  ASSUME IInv, ChangeInv, NEW i \in Invocs, WriteParam(i)
  PROVE  ChangeInv'
<1> DEFINE k == inv[i].at + 1
<1>1. TypeOK /\ Undoable(i) /\ Sound(i) /\ inv[i].pc = "put" /\ inv[i].kind = "relink" /\ Replacing(i)
      /\ inv[i].pc \in Locked /\ inv[i].cred \in Creds /\ Restorable(i)
      /\ inv[i].at < Len(Params)
      /\ UNCHANGED <<hook, slug, lock, shared, gen, handles, asked>> /\ faults \subseteq faults'
  BY FaultsGrow DEF IInv, Sound, ChangeInv, WriteParam, Replacing, Locked
<1>2. inv[i] \in InvType /\ inv[i].at \in 0 .. Len(Params) /\ k \in 1 .. Len(Params)
      /\ Params[k] \in Names
  <2>1. inv[i] \in InvType /\ inv[i].at \in 0 .. Len(Params)
    BY <1>1 DEF TypeOK, InvType
  <2>2. k \in 1 .. Len(Params)
    BY <1>1, <2>1, ParamsList
  <2>3. QED
    BY <2>1, <2>2, ParamsList
<1>3. PICK b \in Snapshot : b = inv[i].before
  BY <1>1 DEF Restorable
<1>4. \A q \in Names : b[q] \in Nat /\ b[q] <= Len(ssm[q]) /\ Len(ssm[q]) \in Nat
  BY <1>1, <1>3, Lengths DEF Restorable, Snapshot
<1>5. FreshNames([q \in Names |-> Len(ssm[q])]) /\ FreshNames(b)
  BY <1>1, <1>3 DEF ChangeInv, HandlesFresh
<1>p. PICK p \in Names : p = Params[k]
  BY <1>2
<1>6. ASSUME PutParam(p, inv[i].cred)
      PROVE  /\ Cur(p)' = inv[i].cred
             /\ \A q \in Names \ {p} : Cur(q)' = Cur(q)
             /\ HistoryKept /\ \A q \in Names : b[q] <= Len(ssm'[q])
             /\ FreshNames([q \in Names |-> Len(ssm[q])])'
  <2>1. /\ Cur(p)' = inv[i].cred /\ \A q \in Names \ {p} : Cur(q)' = Cur(q)
        /\ \A q \in Names : Len(ssm'[q]) \in Nat /\ Len(ssm[q]) <= Len(ssm'[q])
        /\ \A q \in Names, v \in Nat : v <= Len(ssm[q]) => Value(q, v)' = Value(q, v)
    BY <1>1, <1>6, PutParamHolds
  <2>2. HistoryKept
    BY <2>1 DEF HistoryKept
  <2>3. \A q \in Names : b[q] <= Len(ssm'[q])
    BY <1>4, <2>1
  <2>4. ASSUME NEW h \in handles, ~h.stale, NEW q \in Names PROVE h.of[q] <= Len(ssm'[q])
    <3>1. h.of[q] \in Nat /\ h.of[q] <= Len(ssm[q])
      BY <1>1, <1>5, <2>4 DEF FreshNames, TypeOK, Handle, Snapshot
    <3>2. QED
      BY <1>4, <2>1, <3>1
  <2>5. FreshNames([q \in Names |-> Len(ssm[q])])'
    BY <1>1, <2>4 DEF FreshNames
  <2>6. QED
    BY <2>1, <2>2, <2>3, <2>5
<1>7. CASE /\ PutParam(p, inv[i].cred)
           /\ inv' = [inv EXCEPT ![i].at = k, ![i].pc = IF k = Len(Params) THEN "check" ELSE "put"]
  <2>1. /\ Others(i) /\ inv'[i].pc = (IF k = Len(Params) THEN "check" ELSE "put")
        /\ inv'[i].kind = "relink" /\ inv'[i].cred = inv[i].cred /\ inv'[i].before = b
        /\ inv'[i].at = k /\ inv'[i].rolled = inv[i].rolled
    BY <1>1, <1>2, <1>3, <1>7 DEF TypeOK, Others, InvType
  <2>2. Written(i)' = Written(i) \union {p}
    <3>1. 1 .. k = (1 .. inv[i].at) \union {k}
      BY <1>2
    <3>2. Written(i)' = {Params[m] : m \in 1 .. k}
      BY <2>1 DEF Written
    <3>3. {Params[m] : m \in 1 .. k} = {Params[m] : m \in 1 .. inv[i].at} \union {p}
      BY <1>p, <3>1
    <3>4. QED
      BY <3>2, <3>3 DEF Written
  <2>3. inv'[i].pc \in {"put", "check"} /\ Replacing(i)'
    BY <2>1 DEF Replacing
  <2>4. Undoable(i)'
    <3>1. ASSUME Without({"putlost"})', NEW q \in Names \ Written(i)', inv'[i].pc = "put"
          PROVE  Cur(q)' = Value(q, inv[i].before[q])'
      <4>1. Cur(q) = Value(q, b[q]) /\ q # p
        BY <1>1, <1>3, <2>2, <3>1, StillWithout DEF Undoable
      <4>2. Value(q, b[q])' = Value(q, b[q])
        BY <1>4, <1>6, <1>7 DEF HistoryKept
      <4>3. Cur(q)' = Cur(q)
        BY <1>6, <1>7, <4>1
      <4>4. QED
        BY <2>1, <4>1, <4>2, <4>3 DEF Value
    <3>2. ~inv'[i].rolled /\ (inv'[i].pc = "check" => inv'[i].at = Len(Params))
      BY <1>1, <2>1 DEF Undoable, Locked
    <3>3. QED
      BY <2>1, <2>3, <3>1, <3>2 DEF Undoable, Changing, Locked
  <2>5. FreshNames(inv[i].before)'
    BY <1>1, <1>5, <2>1 DEF FreshNames
  <2>6. \A d : Denotes(inv[i].before, d)' <=> Denotes(b, d)
    <3>1. \A d : Denotes(b, d)' <=> Denotes(b, d)
      BY <1>4, <1>6, <1>7, DenotesKept
    <3>2. QED
      BY <2>1, <3>1 DEF Denotes, Value
  <2>7. ASSUME Without(Torn \union {"stale"})'
        PROVE  /\ \A h \in handles' : h.stale \/ \E c \in Creds \union {None} : Denotes(h.of, c)'
               /\ HeldWhole(i)'
    <3>1. Without(Torn \union {"stale"})
      BY <1>1, <2>7, StillWithout
    <3>2. \A h \in handles : h.stale \/ \E c \in Creds \union {None} : Denotes(h.of, c)
      BY <3>1 DEF ChangeInv, SetsWhole
    <3>3. \A h \in handles' : h.stale \/ \E c \in Creds \union {None} : Denotes(h.of, c)'
      BY <1>1, <1>5, <1>6, <1>7, <3>2, HandlesKept
    <3>4. PICK c \in Creds \union {None} : Denotes(b, c) /\ Holds(Written(i), inv[i].cred, c)
      BY <1>1, <1>3, <3>1 DEF ChangeInv, SetsWhole, HeldWhole
    <3>5. Holds(Written(i), inv[i].cred, c)'
      BY <1>6, <1>7, <2>1, <2>2, <3>4 DEF Holds
    <3>6. Denotes(inv[i].before, c)'
      BY <2>6, <3>4
    <3>7. QED
      BY <2>1, <2>3, <3>3, <3>5, <3>6 DEF HeldWhole
  <2>8. ASSUME Without(Torn \union {"stale", "hooklost", "recheck"} \union Tolerated)'
        PROVE  HeldAgrees(i)'
    <3>1. HeldAgrees(i)
      BY <1>1, <2>8, StillWithout DEF ChangeInv, HookKept
    <3>2. \A d \in Creds : Denotes(b, d) => hook[AppOf[d]] = SecretOf[d]
      BY <1>1, <1>3, <3>1 DEF HeldAgrees
    <3>3. QED
      BY <1>1, <2>3, <2>6, <3>2 DEF HeldAgrees
  <2>9. ASSUME Without(Torn \union {"stale", "slug", "recheck"})'
        PROVE  HeldSlug(i)'
    <3>1. HeldSlug(i)
      BY <1>1, <2>9, StillWithout DEF ChangeInv, SlugKept
    <3>2. \A d \in Creds : Denotes(b, d) => slug = AppOf[d]
      BY <1>1, <1>3, <3>1 DEF HeldSlug
    <3>3. QED
      BY <1>1, <2>3, <2>6, <3>2 DEF HeldSlug
  <2>10. inv'[i].pc \in Locked /\ inv'[i].pc # "release"
    BY <2>3 DEF Locked
  <2>11. QED
    BY <1>1, <1>6, <1>7, <2>1, <2>4, <2>5, <2>7, <2>8, <2>9, <2>10, HolderKeeps
<1>8. CASE UNCHANGED ssm /\ StartUndo(i)
  BY <1>1, <1>8, UndoStarts
<1>9. CASE PutParam(p, inv[i].cred) /\ StartUndo(i) /\ Fault("putlost")
  <2>1. /\ Others(i) /\ Stays(i)
        /\ inv'[i].rolled = (Written(i) # {})
        /\ inv'[i].pc = IF Written(i) = {} THEN "release" ELSE "undo"
    BY <1>1, <1>9, StartUndoStays
  <2>2. "putlost" \in faults'
    BY <1>9, FaultsGrow
  <2>3. Undoable(i)'
    BY <1>1, <2>1, <2>2 DEF Undoable, Changing, Replacing, Stays, Without, Locked
  <2>4. FreshNames(inv[i].before)' /\ Restorable(i)'
    BY <1>1, <1>3, <1>5, <1>6, <1>9, <2>1 DEF FreshNames, Restorable, Stays
  <2>5. /\ ~Without(Torn \union {"stale"})'
        /\ ~Without(Torn \union {"stale", "hooklost", "recheck"} \union Tolerated)'
        /\ ~Without(Torn \union {"stale", "slug", "recheck"})'
    BY <2>2 DEF Without, Torn
  <2>6. inv'[i].pc \in Locked /\ inv'[i].kind = inv[i].kind
    BY <2>1 DEF Locked, Stays
  <2>7. QED
    BY <1>1, <1>6, <1>9, <2>1, <2>3, <2>4, <2>5, <2>6, HolderKeeps
<1>10. QED
  BY <1>7, <1>8, <1>9, <1>p DEF WriteParam

(* A parameter is put back: it holds what it held when the versions were   *)
(* noted; a failed attempt is remembered.                                  *)
LEMMA UndoWriteHolds ==
  ASSUME IInv, ChangeInv, NEW i \in Invocs, UndoWrite(i)
  PROVE  ChangeInv'
<1>1. TypeOK /\ Undoable(i) /\ Sound(i) /\ inv[i].pc = "undo" /\ inv[i].kind = "relink" /\ Replacing(i)
      /\ inv[i].pc \in Locked /\ Restorable(i) /\ inv[i].todo # {}
      /\ UNCHANGED <<hook, slug, lock, shared, gen, handles, asked>> /\ faults \subseteq faults'
  BY FaultsGrow DEF IInv, Sound, ChangeInv, UndoWrite, Replacing, Locked
<1>2. PICK p \in Names : p = NextUndo(i) /\ p \in inv[i].todo
  BY <1>1, NextUndoIsLeft
<1>3. PICK b \in Snapshot : b = inv[i].before
  BY <1>1 DEF Restorable
<1>4. \A q \in Names : b[q] \in Nat /\ b[q] <= Len(ssm[q]) /\ Len(ssm[q]) \in Nat
  BY <1>1, <1>3, Lengths DEF Restorable, Snapshot
<1>5. FreshNames([q \in Names |-> Len(ssm[q])]) /\ FreshNames(b)
  BY <1>1, <1>3 DEF ChangeInv, HandlesFresh
<1>6. PICK failed \in BOOLEAN :
        /\ inv' = IF failed THEN [Undone(i, p, "release") EXCEPT ![i].rolled = FALSE]
                  ELSE Undone(i, p, "release")
        /\ PutBack(i, p) \/ (failed /\ ssm' = ssm)
        /\ failed => "undo" \in faults'
  <2>1. CASE PutBack(i, p) /\ inv' = Undone(i, p, "release")
    BY <2>1
  <2>2. CASE /\ UNCHANGED ssm \/ PutBack(i, p)
             /\ inv' = [Undone(i, p, "release") EXCEPT ![i].rolled = FALSE]
             /\ Fault("undo")
    BY <2>2, FaultsGrow
  <2>3. QED
    BY <1>2, <2>1, <2>2 DEF UndoWrite
<1>7. /\ Others(i) /\ Stays(i) /\ inv'[i].todo = inv[i].todo \ {p}
      /\ inv'[i].pc = IF inv[i].todo = {p} THEN "release" ELSE "undo"
      /\ inv'[i].rolled => inv[i].rolled /\ ~failed
  <2>1. TypeOK
    BY <1>1
  <2>2. inv' = IF failed THEN [Undone(i, p, "release") EXCEPT ![i].rolled = FALSE]
               ELSE Undone(i, p, "release")
    BY <1>6
  <2>3. /\ Others(i) /\ Stays(i) /\ inv'[i].todo = inv[i].todo \ {p}
        /\ inv'[i].pc = IF inv[i].todo = {p} THEN "release" ELSE inv[i].pc
        /\ inv'[i].rolled => inv[i].rolled /\ ~failed
    BY <2>1, <2>2, UndoneStays
  <2>4. QED
    BY <1>1, <2>3
<1>8. inv'[i].before = b /\ inv'[i].kind = "relink" /\ inv'[i].cred = inv[i].cred
  BY <1>1, <1>3, <1>7 DEF Stays
<1>9. /\ HistoryKept
      /\ \A q \in Names : b[q] <= Len(ssm'[q]) /\ Len(ssm'[q]) \in Nat
      /\ \A q \in Names : b[q] # 0 => Len(ssm[q]) <= Len(ssm'[q])
      /\ \A q \in Names \ {p} : ssm'[q] = ssm[q] /\ Cur(q)' = Cur(q)
      /\ ~failed => Cur(p)' = Value(p, b[p])
  <2>1. CASE ssm' = ssm /\ failed
    BY <1>4, <2>1, SameData DEF HistoryKept
  <2>2. CASE PutBack(i, p)
    <3>1. /\ Cur(p)' = Value(p, inv[i].before[p])
          /\ \A q \in Names \ {p} : Cur(q)' = Cur(q)
          /\ \A q \in Names : Len(ssm'[q]) \in Nat
          /\ \A q \in Names : inv[i].before[q] # 0 => Len(ssm[q]) <= Len(ssm'[q])
          /\ \A q \in Names \ {p} : ssm'[q] = ssm[q]
          /\ HistoryKept
      BY <1>1, <2>2, PutBackHolds DEF HistoryKept
    <3>2. \A q \in Names : b[q] <= Len(ssm'[q])
      BY <1>1, <1>3, <2>2, PutBackKeepsHistory
    <3>3. QED
      BY <1>3, <3>1, <3>2
  <2>3. QED
    BY <1>6, <2>1, <2>2
<1>10. FreshNames([q \in Names |-> Len(ssm[q])])'
  <2>1. ASSUME NEW h \in handles, ~h.stale, NEW q \in Names PROVE h.of[q] <= Len(ssm'[q])
    <3>1. h.of[q] \in Nat /\ h.of[q] <= Len(ssm[q]) /\ h.of[q] <= b[q]
      BY <1>1, <1>5, <2>1 DEF FreshNames, TypeOK, Handle, Snapshot
    <3>2. Len(ssm'[q]) \in Nat /\ b[q] \in Nat /\ b[q] <= Len(ssm'[q])
      BY <1>4, <1>9
    <3>3. QED
      BY <3>1, <3>2
  <2>2. QED
    BY <1>1, <2>1 DEF FreshNames
<1>11. FreshNames(inv[i].before)'
  BY <1>1, <1>5, <1>8 DEF FreshNames
<1>12. \A q \in Names : Value(q, b[q])' = Value(q, b[q])
  BY <1>4, <1>9 DEF HistoryKept
<1>13. \A d : Denotes(inv[i].before, d)' <=> Denotes(b, d)
  BY <1>8, <1>12 DEF Denotes, Value
<1>14. inv'[i].pc \in {"undo", "release"} /\ (inv'[i].pc = "release" => inv'[i].todo = {})
  BY <1>7
<1>15. Undoable(i)'
  <2>1. ASSUME Without({"putlost"})', inv'[i].rolled, NEW q \in Names \ inv'[i].todo
        PROVE  Cur(q)' = Value(q, inv[i].before[q])'
    <3>1. Value(q, inv[i].before[q])' = Value(q, b[q])
      BY <1>8, <1>12 DEF Value
    <3>2. CASE q = p
      BY <1>7, <1>9, <2>1, <3>1, <3>2
    <3>3. CASE q # p
      <4>1. Cur(q) = Value(q, b[q])
        BY <1>1, <1>3, <1>7, <2>1, <3>3, StillWithout DEF Undoable
      <4>2. QED
        BY <1>9, <3>1, <3>3, <4>1
    <3>4. QED
      BY <3>2, <3>3
  <2>2. QED
    BY <1>8, <1>14, <2>1 DEF Undoable, Changing, Replacing, Locked
<1>16. ASSUME Without(Torn \union {"stale"})'
       PROVE  \E c \in Creds \union {None} :
                Denotes(b, c) /\ Holds(inv[i].todo, inv[i].cred, c)'
  <2>1. Without(Torn \union {"stale"}) /\ ~failed
    BY <1>1, <1>6, <1>16, StillWithout DEF Without, Torn
  <2>2. PICK c \in Creds \union {None} : Denotes(b, c) /\ Holds(inv[i].todo, inv[i].cred, c)
    BY <1>1, <1>3, <2>1 DEF ChangeInv, SetsWhole, HeldWhole
  <2>3. Cur(p)' = c
    BY <1>9, <2>1, <2>2 DEF Denotes
  <2>4. \A q \in Names : Cur(q)' = IF q \in inv'[i].todo THEN inv'[i].cred ELSE c
    BY <1>7, <1>8, <1>9, <2>2, <2>3 DEF Holds
  <2>5. QED
    BY <2>2, <2>4 DEF Holds
<1>17. ASSUME Without(Torn \union {"stale"})'
       PROVE  /\ \A h \in handles' : h.stale \/ \E c \in Creds \union {None} : Denotes(h.of, c)'
              /\ HeldWhole(i)'
  <2>1. Without(Torn \union {"stale"})
    BY <1>1, <1>17, StillWithout
  <2>2. \A h \in handles : h.stale \/ \E c \in Creds \union {None} : Denotes(h.of, c)
    BY <2>1 DEF ChangeInv, SetsWhole
  <2>3. \A h \in handles' : h.stale \/ \E c \in Creds \union {None} : Denotes(h.of, c)'
    BY <1>1, <1>5, <1>9, <1>10, <2>2, HandlesKept
  <2>4. PICK c \in Creds \union {None} : Denotes(b, c) /\ Holds(inv[i].todo, inv[i].cred, c)'
    BY <1>16, <1>17
  <2>5. Denotes(inv[i].before, c)'
    BY <1>13, <2>4
  <2>6. inv'[i].pc = "release" => Whole'
    BY <1>14, <2>4 DEF Holds, Whole
  <2>7. QED
    BY <1>8, <1>14, <2>3, <2>4, <2>5, <2>6 DEF HeldWhole, Replacing
<1>18. ASSUME Without(Torn \union {"stale", "hooklost", "recheck"} \union Tolerated)'
       PROVE  HeldAgrees(i)'
  <2>1. HeldAgrees(i)
    BY <1>1, <1>18, StillWithout DEF ChangeInv, HookKept
  <2>2. \A d \in Creds : Denotes(b, d) => hook[AppOf[d]] = SecretOf[d]
    BY <1>1, <1>3, <2>1 DEF HeldAgrees
  <2>3. PICK c \in Creds \union {None} : Denotes(b, c) /\ Holds(inv[i].todo, inv[i].cred, c)'
    BY <1>16, <1>18 DEF Without
  <2>4. ASSUME inv'[i].pc = "release" PROVE Agree'
    <3>1. Cur("app-id")' = c /\ Cur("webhook-secret")' = c
      BY <1>14, <2>3, <2>4, NamesOfTwo DEF Holds
    <3>2. QED
      BY <1>1, <2>2, <2>3, <3>1 DEF Agree
  <2>5. QED
    BY <1>1, <1>8, <1>13, <1>14, <2>2, <2>4 DEF HeldAgrees
<1>19. ASSUME Without(Torn \union {"stale", "slug", "recheck"})'
       PROVE  HeldSlug(i)'
  <2>1. HeldSlug(i)
    BY <1>1, <1>19, StillWithout DEF ChangeInv, SlugKept
  <2>2. \A d \in Creds : Denotes(b, d) => slug = AppOf[d]
    BY <1>1, <1>3, <2>1 DEF HeldSlug
  <2>3. PICK c \in Creds \union {None} : Denotes(b, c) /\ Holds(inv[i].todo, inv[i].cred, c)'
    BY <1>16, <1>19 DEF Without
  <2>4. ASSUME inv'[i].pc = "release" PROVE SlugRight'
    <3>1. Cur("app-id")' = c
      BY <1>14, <2>3, <2>4, NamesOfTwo DEF Holds
    <3>2. QED
      BY <1>1, <2>2, <2>3, <3>1 DEF SlugRight
  <2>5. QED
    BY <1>1, <1>8, <1>13, <1>14, <2>2, <2>4 DEF HeldSlug
<1>20. Restorable(i)' /\ inv'[i].pc \in Locked
  BY <1>8, <1>9, <1>14 DEF Restorable, Locked
<1>21. QED
  BY <1>1, <1>7, <1>8, <1>10, <1>11, <1>15, <1>17, <1>18, <1>19, <1>20, HolderKeeps

(* A parameter is restored; a deletion makes stale the handles that name   *)
(* one of the deleted versions.                                            *)
LEMMA RestoreParamHolds ==
  ASSUME IInv, ChangeInv, NEW i \in Invocs, RestoreParam(i)
  PROVE  ChangeInv'
<1>1. TypeOK /\ Undoable(i) /\ Sound(i) /\ inv[i].pc = "restore" /\ inv[i].kind = "rollback"
      /\ inv[i].pc \in Locked /\ Restorable(i) /\ inv[i].todo # {} /\ ~inv[i].rolled
      /\ UNCHANGED <<hook, slug, lock, shared, gen, asked>> /\ faults \subseteq faults'
      /\ handles' = Aged
  BY FaultsGrow DEF IInv, Sound, ChangeInv, Undoable, RestoreParam, Locked
<1>2. PICK p \in Names : p = NextUndo(i) /\ p \in inv[i].todo
  BY <1>1, NextUndoIsLeft
<1>3. PICK b \in Snapshot : b = inv[i].before
  BY <1>1 DEF Restorable
<1>4. \A q \in Names : b[q] \in Nat /\ b[q] <= Len(ssm[q]) /\ Len(ssm[q]) \in Nat
  BY <1>1, <1>3, Lengths DEF Restorable, Snapshot
<1>5. /\ Others(i) /\ Stays(i)
      /\ inv'[i].rolled => inv[i].rolled
      /\ \/ /\ PutBack(i, p) /\ inv'[i].todo = inv[i].todo \ {p}
            /\ inv'[i].pc = IF inv[i].todo = {p} THEN "recheck" ELSE "restore"
         \/ /\ ssm' = ssm \/ PutBack(i, p)
            /\ inv'[i].pc = "release" /\ "restore" \in faults'
  <2>1. CASE PutBack(i, p) /\ inv' = Undone(i, p, "recheck")
    <3> DEFINE failed == FALSE
    <3>1. inv' = IF failed THEN [Undone(i, p, "recheck") EXCEPT ![i].rolled = FALSE]
                 ELSE Undone(i, p, "recheck")
      BY <2>1
    <3>2. /\ Others(i) /\ Stays(i) /\ inv'[i].todo = inv[i].todo \ {p}
          /\ inv'[i].pc = IF inv[i].todo = {p} THEN "recheck" ELSE inv[i].pc
          /\ inv'[i].rolled => inv[i].rolled
      BY <1>1, <3>1, UndoneStays
    <3>3. QED
      BY <1>1, <2>1, <3>2
  <2>2. CASE (UNCHANGED ssm \/ PutBack(i, p)) /\ Goto(i, "release") /\ Fault("restore")
    BY <1>1, <2>2, GotoStays, FaultsGrow
  <2>3. QED
    BY <1>2, <2>1, <2>2 DEF RestoreParam
<1>6. inv'[i].before = b /\ inv'[i].kind = "rollback" /\ ~Replacing(i)'
      /\ inv'[i].pc \in {"restore", "recheck", "release"}
  BY <1>1, <1>3, <1>5 DEF Stays, Replacing
<1>7. Undoable(i)' /\ inv'[i].pc \in Locked
  BY <1>1, <1>5, <1>6 DEF Undoable, Changing, Locked
<1>8. /\ HistoryKept
      /\ \A q \in Names : b[q] <= Len(ssm'[q]) /\ Len(ssm'[q]) \in Nat
      /\ \A q \in Names \ {p} : Cur(q)' = Cur(q)
      /\ PutBack(i, p) => Cur(p)' = Value(p, b[p])
  <2>1. CASE ssm' = ssm /\ ~PutBack(i, p)
    BY <1>4, <2>1, SameData DEF HistoryKept
  <2>2. CASE PutBack(i, p)
    <3>1. /\ Cur(p)' = Value(p, inv[i].before[p])
          /\ \A q \in Names \ {p} : Cur(q)' = Cur(q)
          /\ \A q \in Names : Len(ssm'[q]) \in Nat
          /\ HistoryKept
      BY <1>1, <2>2, PutBackHolds DEF HistoryKept
    <3>2. \A q \in Names : b[q] <= Len(ssm'[q])
      BY <1>1, <1>3, <2>2, PutBackKeepsHistory
    <3>3. QED
      BY <1>3, <3>1, <3>2
  <2>3. QED
    BY <1>5, <2>1, <2>2
<1>9. ASSUME NEW h \in handles'
      PROVE  \/ h.stale
             \/ /\ \A q \in Names : h.of[q] <= Len(ssm'[q])
                /\ \E g \in handles : ~g.stale /\ g.of = h.of
  <2>1. PICK g \in handles :
          h = [g EXCEPT !.stale = @ \/ \E q \in Names : g.of[q] > Len(ssm'[q])]
    BY <1>1 DEF Aged
  <2>2. g \in Handle /\ g.of \in Snapshot /\ g.stale \in BOOLEAN
    BY <1>1 DEF TypeOK, Handle
  <2>3. h.of = g.of
    BY <2>1, <2>2 DEF Handle
  <2>4. h.stale = (g.stale \/ \E q \in Names : g.of[q] > Len(ssm'[q]))
    BY <2>1, <2>2 DEF Handle
  <2>5. \A q \in Names : g.of[q] \in Nat /\ Len(ssm'[q]) \in Nat
    BY <1>8, <2>2 DEF Snapshot
  <2>6. ~(\E q \in Names : g.of[q] > Len(ssm'[q])) => \A q \in Names : g.of[q] <= Len(ssm'[q])
    BY <2>5
  <2>7. QED
    BY <2>3, <2>4, <2>6
<1>10. FreshNames([q \in Names |-> Len(ssm[q])])'
  BY <1>9 DEF FreshNames
<1>11. FreshNames([q \in Names |-> Len(ssm[q])])
  BY DEF ChangeInv, HandlesFresh
<1>12. \A q \in Names : Value(q, b[q])' = Value(q, b[q])
  BY <1>4, <1>8 DEF HistoryKept
<1>13. \A d : Denotes(inv[i].before, d)' <=> Denotes(b, d)
  BY <1>6, <1>12 DEF Denotes, Value
<1>14. ASSUME Without(Torn \union {"stale"})'
       PROVE  /\ \A h \in handles' : h.stale \/ \E c \in Creds \union {None} : Denotes(h.of, c)'
              /\ HeldWhole(i)'
  <2>1. Without(Torn \union {"stale"}) /\ "restore" \notin faults'
    BY <1>1, <1>14, StillWithout DEF Without, Torn
  <2>2. \A h \in handles : h.stale \/ \E c \in Creds \union {None} : Denotes(h.of, c)
    BY <2>1 DEF ChangeInv, SetsWhole
  <2>3. \A h \in handles' : h.stale \/ \E c \in Creds \union {None} : Denotes(h.of, c)'
    BY <1>1, <1>8, <1>9, <1>10, <1>11, <2>2, HandlesKept
  <2>4. PICK c \in Creds \union {None}, d \in Creds \union {None} :
          Denotes(b, c) /\ Holds(inv[i].todo, d, c)
    BY <1>1, <1>3, <2>1 DEF ChangeInv, SetsWhole, HeldWhole
  <2>5. /\ PutBack(i, p) /\ inv'[i].todo = inv[i].todo \ {p}
        /\ inv'[i].pc = IF inv[i].todo = {p} THEN "recheck" ELSE "restore"
    BY <1>5, <2>1
  <2>6. Cur(p)' = c
    BY <1>8, <2>4, <2>5 DEF Denotes
  <2>7. \A q \in Names : Cur(q)' = IF q \in inv'[i].todo THEN d ELSE c
    BY <1>8, <2>4, <2>5, <2>6 DEF Holds
  <2>8. Holds(inv[i].todo, d, c)' /\ Denotes(inv[i].before, c)'
    BY <1>13, <2>4, <2>7 DEF Holds
  <2>9. inv'[i].pc = "recheck" => Whole'
    BY <2>5, <2>7 DEF Whole
  <2>10. inv'[i].pc # "release"
    BY <2>5
  <2>11. QED
    BY <1>6, <2>3, <2>8, <2>9, <2>10 DEF HeldWhole
<1>15. ASSUME "restore" \notin faults'
       PROVE  HeldAgrees(i)' /\ HeldSlug(i)'
  BY <1>5, <1>6, <1>15 DEF HeldAgrees, HeldSlug
<1>16. /\ Without(Torn \union {"stale", "hooklost", "recheck"} \union Tolerated)' => HeldAgrees(i)'
       /\ Without(Torn \union {"stale", "slug", "recheck"})' => HeldSlug(i)'
  BY <1>15 DEF Without, Torn
<1>17. QED
  BY <1>1, <1>5, <1>6, <1>7, <1>10, <1>14, <1>16, HolderKeeps

-----------------------------------------------------------------------------
(* The initial states and all the steps                                    *)

LEMMA InitChangeInv == Init => ChangeInv
<1> SUFFICES ASSUME Init PROVE ChangeInv
  OBVIOUS
<1>1. ASSUME NEW i \in Invocs
      PROVE  inv[i].pc = "idle" /\ inv[i].kind = "none" /\ inv[i].rolled = FALSE
  BY DEF Init, Idle
<1>2. \A i \in Invocs : ~Replacing(i) /\ inv[i].pc \notin Locked \union {"acquire", "post", "compute", "publish"}
  BY <1>1 DEF Replacing, Locked
<1>3. ASSUME NEW i \in Invocs PROVE Undoable(i)
  BY <1>1, <1>2 DEF Undoable, Changing, Locked
<1>4. HandlesFresh
  BY <1>1, <1>2 DEF HandlesFresh, FreshNames, Init
<1>5. Whole /\ Agree /\ SlugRight
  <2>1. CASE ssm = [p \in Names |-> <<>>] /\ slug = None
    <3>1. \A p \in Names : Cur(p) = None
      BY <2>1 DEF Cur
    <3>2. QED
      BY <3>1, NamesOfTwo DEF Whole, Agree, SlugRight
  <2>2. ASSUME NEW c \in Creds, ssm = [p \in Names |-> <<c>>], slug = AppOf[c],
               hook[AppOf[c]] = SecretOf[c]
        PROVE  Whole /\ Agree /\ SlugRight
    <3>1. \A p \in Names : Cur(p) = c
      BY <2>2 DEF Cur
    <3>2. QED
      BY <2>2, <3>1, NamesOfTwo DEF Whole, Agree, SlugRight
  <2>3. QED
    BY <2>1, <2>2 DEF Init
<1>6. \A i \in Invocs : HeldWhole(i) /\ HeldAgrees(i) /\ HeldSlug(i)
  BY <1>1, <1>2 DEF HeldWhole, HeldAgrees, HeldSlug, Locked
<1>7. SetsWhole /\ HookKept /\ SlugKept
  BY <1>5, <1>6 DEF SetsWhole, HookKept, SlugKept, Init
<1>8. Fenced
  BY <1>1 DEF Fenced, Init
<1>9. QED
  BY <1>3, <1>4, <1>7, <1>8 DEF ChangeInv

LEMMA NextChangeInv == IInv /\ ChangeInv /\ [Next]_vars => ChangeInv'
<1> SUFFICES ASSUME IInv, ChangeInv, [Next]_vars PROVE ChangeInv'
  OBVIOUS
<1>1. ASSUME NEW i \in Invocs, Request(i) PROVE ChangeInv'
  BY <1>1, RequestHolds
<1>2. ASSUME NEW i \in Invocs, ChangeStep(i) PROVE ChangeInv'
  <2>1. CASE AcquireLock(i)
    BY <2>1, AcquireLockHolds
  <2>2. CASE BeginRelink(i) \/ WriteParam(i) \/ VerifyStored(i) \/ UndoWrite(i)
    BY <2>2, BeginRelinkHolds, WriteParamHolds, VerifyStoredHolds, UndoWriteHolds
  <2>3. CASE BeginRollback(i) \/ RestoreParam(i) \/ RecheckRestored(i)
    BY <2>3, BeginRollbackHolds, RestoreParamHolds, RecheckRestoredHolds
  <2>4. CASE WriteSlug(i) \/ SyncHook(i)
    BY <2>4, WriteSlugHolds, SyncHookHolds
  <2>5. CASE ReleaseLock(i) \/ InvalidateAgain(i)
    BY <2>5, ReleaseLockHolds, InvalidateAgainHolds
  <2>6. QED
    BY <1>2, <2>1, <2>2, <2>3, <2>4, <2>5 DEF ChangeStep, RelinkStep, RollbackStep
<1>3. ASSUME NEW i \in Invocs, StatusStep(i) PROVE ChangeInv'
  BY <1>3, StatusHolds
<1>4. ASSUME NEW i \in Invocs, Crash(i) PROVE ChangeInv'
  BY <1>4, CrashHolds
<1>5. CASE LockExpires \/ SharedExpires \/ UNCHANGED vars
  BY <1>5, ExpiryHolds
<1>6. QED
  BY <1>1, <1>2, <1>3, <1>4, <1>5 DEF Next

(* What each change holds, undoes and tells, at each of its steps: the     *)
(* inductive invariant the four theorems below follow from.                *)
THEOREM ChangeInvariant == Spec => []ChangeInv
<1>1. Init => IInv /\ ChangeInv
  BY InitIInv, InitChangeInv
<1>2. IInv /\ ChangeInv /\ [Next]_vars => (IInv /\ ChangeInv)'
  BY NextIInv, NextChangeInv
<1>3. QED
  BY <1>1, <1>2, PTL DEF Spec

(* A relink that answers "rolledBack" has put back every parameter, first  *)
(* link included, whatever else failed - unless a write it took for failed *)
(* was applied (undoWrites).                                               *)
THEOREM RolledBackTrue == Spec => []RolledBackIsBack
<1>1. ChangeInv => RolledBackIsBack
  BY DEF ChangeInv, HandlesFresh, Undoable, RolledBackIsBack
<1>2. QED
  BY <1>1, ChangeInvariant, PTL

(* Between changes the five parameters are one credential set or none, for *)
(* every sequence of relinks, failed relinks and rollbacks to handles that *)
(* did not outlive what they name.                                         *)
THEOREM CredentialsStayWhole == Spec => []CredentialsWhole
<1>1. ChangeInv => CredentialsWhole
  BY DEF ChangeInv, SetsWhole, CredentialsWhole
<1>2. QED
  BY <1>1, ChangeInvariant, PTL

(* Between changes GitHub signs the stored App's deliveries with the       *)
(* stored webhook secret.                                                  *)
THEOREM SecretsStayAgreed == Spec => []SecretsAgree
<1>1. ChangeInv => SecretsAgree
  BY DEF ChangeInv, HookKept, SecretsAgree
<1>2. QED
  BY <1>1, ChangeInvariant, PTL

(* Between changes the advertised slug is the stored App's.                *)
THEOREM SlugStaysRight == Spec => []SlugNamesStored
<1>1. ChangeInv => SlugNamesStored
  BY DEF ChangeInv, SlugKept, SlugNamesStored
<1>2. QED
  BY <1>1, ChangeInvariant, PTL

(* With no change in progress the shared status answer is what is stored:  *)
(* the generation fence outdates every answer computed before.             *)
THEOREM SharedStaysCurrent == Spec => []SharedIsCurrent
<1>1. ChangeInv => SharedIsCurrent
  BY DEF ChangeInv, Fenced, SharedIsCurrent
<1>2. QED
  BY <1>1, ChangeInvariant, PTL

=============================================================================
