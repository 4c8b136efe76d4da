--------------------------- MODULE RunPlaneProofs ---------------------------
(***************************************************************************)
(* Theorems of the run plane, for every number of runs, repositories,      *)
(* microVMs and tokens, every bound and every set of faults.               *)
(***************************************************************************)
EXTENDS RunPlane, FiniteSetTheorems, TLAPS

(* The initial states satisfy the inductive invariant.                     *)
LEMMA InitIInv == Init => IInv
<1> SUFFICES ASSUME Init PROVE IInv
  OBVIOUS
<1> USE ConstantsAssumption, NoneAssumption DEF Init
<1>1. TypeOK
  <2>1. row \in [Runs -> RowType]
    BY DEF RowType, RowStatus, Absent, Age
  <2>2. msg \in [Msgs -> MsgType]
    BY DEF MsgType, MsgState
  <2>3. worker \in [Groups -> WorkerType]
    BY DEF WorkerType, IdleWorker
  <2>4. vm \in [VMs -> VmType]
    BY DEF VmType, NoVm, Guest
  <2>5. reaper \in ReaperType
    BY DEF ReaperType, IdleReaper
  <2>6. gh \in [Runs -> JobState] /\ jit \in [Runs -> Tokens \union {None}]
        /\ dedup \in [Runs -> BOOLEAN] /\ mishaps \in [Runs -> SUBSET Kinds]
        /\ budget \in 0 .. MaxMishaps
    BY DEF JobState
  <2>7. QED
    BY <2>1, <2>2, <2>3, <2>4, <2>5, <2>6 DEF TypeOK
<1>2. InvocationCarries
  BY DEF InvocationCarries, Launching, IdleWorker
<1>3. ReceivesCounted
  BY DEF ReceivesCounted
<1>4. LaunchedVms /\ StampOfLaunch /\ TokensUsedOnce
  BY DEF LaunchedVms, StampOfLaunch, TokensUsedOnce, NoVm, IdleWorker
<1>5. QED
  BY <1>1, <1>2, <1>3, <1>4 DEF IInv

-----------------------------------------------------------------------------
(* Types                                                                   *)

(* A status write, guarded or not, keeps the run table typed.              *)
LEMMA MovedType ==
  ASSUME TypeOK, NEW r, NEW to \in Status
  PROVE  Moved(r, to) \in [Runs -> RowType]
BY ZenonT(60) DEF TypeOK, Moved, RowType, RowStatus, Age

LEMMA TransitionType ==
  ASSUME TypeOK, NEW r, NEW to \in Status, Transition(r, to)
  PROVE  row' \in [Runs -> RowType]
BY MovedType DEF Transition, TypeOK

(* A fault is charged to a run and to the budget, within their types.      *)
LEMMA MishapType ==
  ASSUME TypeOK, NEW r, NEW k, Mishap(r, k) \/ NoMishap
  PROVE  mishaps' \in [Runs -> SUBSET Kinds] /\ budget' \in 0 .. MaxMishaps
BY ConstantsAssumption DEF TypeOK, Mishap, NoMishap

(* A terminated VM and the job lost with it keep their types.              *)
LEMMA TerminateType ==
  ASSUME TypeOK, NEW K, Terminate(K)
  PROVE  vm' \in [VMs -> VmType] /\ gh' \in [Runs -> JobState]
<1>1. vm' \in [VMs -> VmType]
  <2>1. ASSUME NEW v \in VMs
        PROVE  [vm[v] EXCEPT !.state = "dead", !.guest = "off", !.job = None,
                             !.tries = 0, !.old = FALSE] \in VmType
    <3>1. vm[v] \in VmType /\ 0 \in 0 .. MaxTries
      BY ConstantsAssumption DEF TypeOK
    <3>2. QED
      BY <3>1 DEF VmType, Guest
  <2>2. QED
    BY <2>1 DEF Terminate, TypeOK
<1>2. gh' \in [Runs -> JobState]
  BY DEF Terminate, TypeOK, JobState
<1>3. QED
  BY <1>1, <1>2

(* The steps of Ingest.                                                    *)
LEMMA IngestTypes == TypeOK /\ IngestNext => TypeOK'
<1> SUFFICES ASSUME TypeOK, NEW r \in Runs,
                    \/ ClaimJob(r) \/ DedupWindowCloses(r)
                    \/ StatusInProgress(r) \/ StatusCompleted(r)
             PROVE  TypeOK'
  BY DEF IngestNext
<1>1. CASE ClaimJob(r)
  <2>1. row' \in [Runs -> RowType]
    BY <1>1 DEF ClaimJob, PutQueuedRun, TypeOK, Moved, RowType, RowStatus, Status, Active, Age
  <2>2. msg' \in [Msgs -> MsgType] /\ dedup' \in [Runs -> BOOLEAN]
    <3>1. CASE UNCHANGED <<msg, dedup>>
      BY <3>1 DEF TypeOK
    <3>2. CASE /\ \E i \in Unsent(r) : msg' = [msg EXCEPT ![<<r, i>>].state = "visible"]
               /\ dedup' = [dedup EXCEPT ![r] = TRUE]
      <4>1. PICK i \in Unsent(r) : msg' = [msg EXCEPT ![<<r, i>>].state = "visible"]
        BY <3>2
      <4>2. msg' \in [Msgs -> MsgType]
        BY <4>1 DEF TypeOK, MsgType, MsgState
      <4>3. QED
        BY <3>2, <4>2 DEF TypeOK
    <3>3. QED
      BY <1>1, <3>1, <3>2 DEF ClaimJob, Enqueue
  <2>3. mishaps' \in [Runs -> SUBSET Kinds] /\ budget' \in 0 .. MaxMishaps
    BY <1>1, MishapType DEF ClaimJob
  <2>4. QED
    BY <1>1, <2>1, <2>2, <2>3 DEF ClaimJob, TypeOK
<1>2. CASE DedupWindowCloses(r)
  BY <1>2 DEF DedupWindowCloses, TypeOK
<1>3. CASE StatusInProgress(r)
  <2>1. row' \in [Runs -> RowType]
    BY <1>3, MovedType DEF StatusInProgress, Status, Active
  <2>2. mishaps' \in [Runs -> SUBSET Kinds] /\ budget' \in 0 .. MaxMishaps
    <3>1. CASE mishaps' = [mishaps EXCEPT ![r] = @ \union {"redeliver"}] /\ UNCHANGED budget
      BY <3>1 DEF TypeOK, Kinds
    <3>2. QED
      BY <1>3, <3>1, MishapType DEF StatusInProgress, RewriteRunning
  <2>3. QED
    BY <1>3, <2>1, <2>2 DEF StatusInProgress, TypeOK
<1>4. CASE StatusCompleted(r)
  <2>1. row' \in [Runs -> RowType]
    BY <1>4, MovedType DEF StatusCompleted, CompletionStatus, Status, Terminal
  <2>2. QED
    BY <1>4, <2>1 DEF StatusCompleted, NoMishap, TypeOK
<1>5. QED
  BY <1>1, <1>2, <1>3, <1>4

(* Settling a record, and closing a run as failed.                         *)
LEMMA SettleType ==
  ASSUME TypeOK, NEW g, NEW s \in MsgState, Settle(g, s)
  PROVE  msg' \in [Msgs -> MsgType] /\ worker' \in [Groups -> WorkerType]
<1>1. msg' \in [Msgs -> MsgType]
  <2> DEFINE c == worker[g].cur
  <2>1. CASE c \in Msgs
    <3>1. [msg[c] EXCEPT !.state = s] \in MsgType
      BY <2>1 DEF TypeOK, MsgType
    <3>2. msg' = [msg EXCEPT ![c] = [msg[c] EXCEPT !.state = s]]
      BY <2>1 DEF Settle, TypeOK, MsgType
    <3>3. QED
      BY <3>1, <3>2 DEF TypeOK
  <2>2. CASE c \notin Msgs
    BY <2>2 DEF Settle, TypeOK
  <2>3. QED
    BY <2>1, <2>2
<1>2. worker' \in [Groups -> WorkerType]
  BY DEF Settle, TypeOK, WorkerType, IdleWorker
<1>3. QED
  BY <1>1, <1>2

LEMMA FailRunType ==
  ASSUME TypeOK, NEW r, FailRun(r)
  PROVE  /\ row' \in [Runs -> RowType]
         /\ mishaps' \in [Runs -> SUBSET Kinds]
         /\ budget' \in 0 .. MaxMishaps
<1>1. row' \in [Runs -> RowType]
  BY TransitionType DEF FailRun, Status, Terminal, TypeOK
<1>2. QED
  BY <1>1, MishapType DEF FailRun

(* A VM as Provision starts it.                                            *)
LEMMA BootedType ==
  ASSUME TypeOK, NEW g \in Groups, Cur(g) \in Runs
  PROVE  Booted(g) \in VmType
<1>1. worker[g].tok \in Tokens \union {None} /\ 0 \in 0 .. MaxTries
  BY ConstantsAssumption DEF TypeOK, WorkerType
<1>2. QED
  BY <1>1 DEF Booted, NoVm, VmType, Guest

(* The run of a launching invocation's record.                             *)
LEMMA CurIsRun ==
  ASSUME InvocationCarries, NEW g \in Groups, Launching(g)
  PROVE  Cur(g) \in Runs /\ worker[g].cur \in Msgs /\ GroupOf[Cur(g)] = g
BY DEF InvocationCarries, Msgs, Cur, RunOf

LEMMA HandedBackType ==
  ASSUME TypeOK, NEW m \in Msgs
  PROVE  HandedBack(m) \in MsgType
BY DEF TypeOK, HandedBack, MsgType, MsgState

(* The steps of Provision.                                                 *)
LEMMA ProvisionTypes == IInv /\ ProvisionNext => TypeOK'
<1> SUFFICES ASSUME IInv, NEW g \in Groups, Receive(g) \/ InvocationStep(g) \/ Crash(g)
             PROVE  TypeOK'
  BY DEF ProvisionNext
<1>a. TypeOK /\ InvocationCarries /\ ReceivesCounted
  BY DEF IInv
<1>1. CASE Receive(g)
  <2>1. ASSUME NEW m \in Msgs, m \in Visible(g)
        PROVE  [msg[m] EXCEPT !.state = "inflight", !.n = @ + 1] \in MsgType
    <3>1. msg[m] \in MsgType /\ msg[m].n < MaxReceive /\ MaxReceive \in Nat
      BY <1>a, <2>1, ConstantsAssumption DEF TypeOK, ReceivesCounted, Visible
    <3>2. msg[m].n + 1 \in 0 .. MaxReceive
      BY <3>1 DEF MsgType
    <3>3. QED
      BY <3>1, <3>2 DEF MsgType, MsgState
  <2>2. msg' \in [Msgs -> MsgType]
    BY <1>a, <1>1, <2>1 DEF Receive, TypeOK
  <2>3. worker' \in [Groups -> WorkerType]
    BY <1>a, <1>1, ZenonT(60) DEF Receive, TypeOK, WorkerType
  <2>4. QED
    BY <1>a, <1>1, <2>2, <2>3 DEF Receive, TypeOK
<1>2. ASSUME NEW m \in Msgs, Guard(g, m) PROVE TypeOK'
  <2>1. row' \in [Runs -> RowType]
    BY <1>a, <1>2, MovedType DEF Guard, TypeOK, Status, Active
  <2>2. msg' \in [Msgs -> MsgType]
    BY <1>a, <1>2 DEF Guard, TypeOK, MsgType, MsgState
  <2>3. worker' \in [Groups -> WorkerType]
    BY <1>a, <1>2 DEF Guard, TypeOK, WorkerType
  <2>4. mishaps' \in [Runs -> SUBSET Kinds] /\ budget' \in 0 .. MaxMishaps
    BY <1>a, <1>2, MishapType DEF Guard
  <2>5. QED
    BY <1>a, <1>2, <2>1, <2>2, <2>3, <2>4 DEF Guard, TypeOK
<1>3. CASE Refuse(g)
  <2>1. msg' \in [Msgs -> MsgType] /\ worker' \in [Groups -> WorkerType]
    BY <1>a, <1>3, SettleType DEF Refuse, Consume, MsgState
  <2>2. QED
    BY <1>a, <1>3, <2>1, FailRunType DEF Refuse, TypeOK
<1>4. CASE Retry(g) \/ LaunchThrottled(g)
  <2>1. msg' \in [Msgs -> MsgType] /\ worker' \in [Groups -> WorkerType]
    BY <1>a, <1>4, SettleType DEF Retry, LaunchThrottled, Throw, MsgState
  <2>2. QED
    BY <1>a, <1>4, <2>1 DEF Retry, LaunchThrottled, TypeOK
<1>5. CASE MintAndStash(g)
  <2>1. PICK t \in Tokens :
          /\ jit' = [jit EXCEPT ![Cur(g)] = t]
          /\ worker' = [worker EXCEPT ![g].pc = "launch", ![g].tok = t]
    BY <1>5 DEF MintAndStash
  <2>2. jit' \in [Runs -> Tokens \union {None}] /\ worker' \in [Groups -> WorkerType]
    BY <1>a, <2>1, ZenonT(60) DEF TypeOK, WorkerType
  <2>3. QED
    BY <1>a, <1>5, <2>2 DEF MintAndStash, TypeOK
<1>6. CASE Launch(g)
  <2>1. PICK v \in VMs :
          /\ vm' = [vm EXCEPT ![v] = Booted(g)]
          /\ worker' = [worker EXCEPT ![g].pc = "stamp", ![g].vm = v]
    BY <1>6 DEF Launch
  <2>2. Booted(g) \in VmType
    BY <1>a, <1>6, CurIsRun, BootedType DEF Launch, Launching
  <2>3. vm' \in [VMs -> VmType] /\ worker' \in [Groups -> WorkerType]
    BY <1>a, <2>1, <2>2, ZenonT(60) DEF TypeOK, WorkerType
  <2>4. QED
    BY <1>a, <1>6, <2>3 DEF Launch, TypeOK
<1>7. CASE LaunchFailed(g)
  <2>1. msg' \in [Msgs -> MsgType] /\ worker' \in [Groups -> WorkerType]
    BY <1>a, <1>7, SettleType DEF LaunchFailed, Throw, MsgState
  <2>2. QED
    BY <1>a, <1>7, <2>1, FailRunType DEF LaunchFailed, TypeOK
<1>8. CASE LaunchAnswerLost(g)
  <2>1. msg' \in [Msgs -> MsgType] /\ worker' \in [Groups -> WorkerType]
    BY <1>a, <1>8, SettleType DEF LaunchAnswerLost, Throw, MsgState
  <2>2. Booted(g) \in VmType
    BY <1>a, <1>8, CurIsRun, BootedType DEF LaunchAnswerLost, Launching
  <2>3. vm' \in [VMs -> VmType]
    BY <1>a, <1>8, <2>2 DEF LaunchAnswerLost, TypeOK
  <2>4. row' \in [Runs -> RowType]
    <3>1. CASE Transition(Cur(g), "failed")
      BY <1>a, <3>1, TransitionType DEF Status, Terminal
    <3>2. CASE UNCHANGED row
      BY <1>a, <3>2 DEF TypeOK
    <3>3. QED
      BY <1>8, <3>1, <3>2 DEF LaunchAnswerLost
  <2>5. mishaps' \in [Runs -> SUBSET Kinds] /\ budget' \in 0 .. MaxMishaps
    BY <1>a, <1>8, MishapType DEF LaunchAnswerLost
  <2>6. QED
    BY <1>a, <1>8, <2>1, <2>3, <2>4, <2>5 DEF LaunchAnswerLost, TypeOK
<1>9. CASE Stamp(g)
  <2>1. row' \in [Runs -> RowType]
    BY <1>a, <1>9, SMTT(30) DEF Stamp, TypeOK, RowType, WorkerType
  <2>2. worker' \in [Groups -> WorkerType]
    BY <1>a, <1>9 DEF Stamp, TypeOK, WorkerType
  <2>3. mishaps' \in [Runs -> SUBSET Kinds] /\ budget' \in 0 .. MaxMishaps
    BY <1>a, <1>9, MishapType DEF Stamp
  <2>4. QED
    BY <1>a, <1>9, <2>1, <2>2, <2>3 DEF Stamp, TypeOK
<1>10. CASE MarkRunning(g)
  <2>1. msg' \in [Msgs -> MsgType] /\ worker' \in [Groups -> WorkerType]
    BY <1>a, <1>10, SettleType DEF MarkRunning, Consume, MsgState
  <2>2. row' \in [Runs -> RowType]
    BY <1>a, <1>10, TransitionType DEF MarkRunning, Status, Active, TypeOK
  <2>3. mishaps' \in [Runs -> SUBSET Kinds] /\ budget' \in 0 .. MaxMishaps
    BY <1>a, <1>10, MishapType DEF MarkRunning
  <2>4. QED
    BY <1>a, <1>10, <2>1, <2>2, <2>3 DEF MarkRunning, TypeOK
<1>11. CASE Finish(g)
  <2>1. ASSUME NEW m \in Msgs PROVE [msg[m] EXCEPT !.state = "deleted"] \in MsgType
    BY <1>a DEF TypeOK, MsgType, MsgState
  <2>2. msg' \in [Msgs -> MsgType]
    BY <1>a, <1>11, <2>1, HandedBackType DEF Finish, TypeOK
  <2>3. worker' \in [Groups -> WorkerType]
    BY <1>a, <1>11 DEF Finish, TypeOK, WorkerType, IdleWorker
  <2>4. QED
    BY <1>a, <1>11, <2>2, <2>3 DEF Finish, TypeOK
<1>12. CASE Crash(g)
  <2>1. msg' \in [Msgs -> MsgType]
    BY <1>a, <1>12, HandedBackType DEF Crash, TypeOK
  <2>2. worker' \in [Groups -> WorkerType]
    BY <1>a, <1>12 DEF Crash, TypeOK, WorkerType, IdleWorker
  <2>3. mishaps' \in [Runs -> SUBSET Kinds] /\ budget' \in 0 .. MaxMishaps
    BY <1>a, <1>12, ConstantsAssumption DEF Crash, TypeOK
  <2>4. QED
    BY <1>a, <1>12, <2>1, <2>2, <2>3 DEF Crash, TypeOK
<1>13. QED
  BY <1>1, <1>2, <1>3, <1>4, <1>5, <1>6, <1>7, <1>8, <1>9, <1>10, <1>11, <1>12
  DEF InvocationStep

(* A guest that moves on, or gives up, is still a guest.                   *)
LEMMA GuestType ==
  ASSUME TypeOK, NEW v, NEW q \in Guest, NEW j \in Runs \union {None}
  PROVE  /\ [vm EXCEPT ![v].guest = q] \in [VMs -> VmType]
         /\ [vm EXCEPT ![v].guest = q, ![v].job = j] \in [VMs -> VmType]
<1>1. CASE v \in VMs
  <2>1. vm[v] \in VmType
    BY <1>1 DEF TypeOK
  <2>2. [vm[v] EXCEPT !.guest = q] \in VmType /\ [vm[v] EXCEPT !.guest = q, !.job = j] \in VmType
    BY <2>1 DEF VmType
  <2>3. /\ [vm EXCEPT ![v].guest = q] = [vm EXCEPT ![v] = [vm[v] EXCEPT !.guest = q]]
        /\ [vm EXCEPT ![v].guest = q, ![v].job = j]
             = [vm EXCEPT ![v] = [vm[v] EXCEPT !.guest = q, !.job = j]]
    BY <1>1, <2>1 DEF TypeOK, VmType
  <2>4. QED
    BY <2>2, <2>3 DEF TypeOK
<1>2. CASE v \notin VMs
  BY <1>2 DEF TypeOK
<1>3. QED
  BY <1>1, <1>2

LEMMA TryAgainType ==
  ASSUME TypeOK, NEW v \in VMs, TryAgain(v) \/ GivesUp(v)
  PROVE  vm' \in [VMs -> VmType] /\ gh' \in [Runs -> JobState]
<1>1. CASE GivesUp(v)
  BY <1>1, GuestType DEF GivesUp, Guest, TypeOK
<1>2. CASE vm' = [vm EXCEPT ![v].tries = @ + 1] /\ UNCHANGED gh /\ vm[v].tries + 1 < MaxTries
  <2>1. vm[v] \in VmType /\ vm[v].tries + 1 \in 0 .. MaxTries
    BY <1>2, ConstantsAssumption DEF TypeOK, VmType
  <2>2. [vm[v] EXCEPT !.tries = @ + 1] \in VmType
    BY <2>1 DEF VmType
  <2>3. QED
    BY <1>2, <2>2 DEF TypeOK
<1>3. QED
  BY <1>1, <1>2 DEF TryAgain

(* The steps of the guests, their broker and GitHub.                       *)
LEMMA ComputeTypes == IInv /\ ComputeNext => TypeOK'
<1> SUFFICES ASSUME IInv, ComputeNext PROVE TypeOK'
  OBVIOUS
<1>a. TypeOK
  BY DEF IInv
<1>1. ASSUME NEW v \in VMs, BootFetch(v) PROVE TypeOK'
  <2>1. vm' \in [VMs -> VmType] /\ gh' \in [Runs -> JobState]
    <3>1. CASE vm' = [vm EXCEPT ![v].guest = "listening"] /\ UNCHANGED gh
      BY <1>a, <3>1, GuestType DEF Guest, TypeOK
    <3>2. CASE GivesUp(v)
      BY <1>a, <3>2, TryAgainType
    <3>3. QED
      BY <1>1, <3>1, <3>2 DEF BootFetch
  <2>2. mishaps' \in [Runs -> SUBSET Kinds] /\ budget' \in 0 .. MaxMishaps
    BY <1>a, <1>1, MishapType DEF BootFetch
  <2>3. QED
    BY <1>a, <1>1, <2>1, <2>2 DEF BootFetch, TypeOK
<1>2. ASSUME NEW v \in VMs, RunnerExits(v) PROVE TypeOK'
  <2>1. vm' \in [VMs -> VmType]
    BY <1>a, <1>2, GuestType DEF RunnerExits, Guest
  <2>2. gh' \in [Runs -> JobState]
    BY <1>a, <1>2 DEF RunnerExits, TypeOK, JobState
  <2>3. QED
    BY <1>a, <1>2, <2>1, <2>2 DEF RunnerExits, TypeOK
<1>3. ASSUME NEW v \in VMs, SelfTerminate(v) PROVE TypeOK'
  <2>1. vm' \in [VMs -> VmType] /\ gh' \in [Runs -> JobState]
    <3>1. \/ Terminate({row[vm[v].run].vm}) \/ TryAgain(v) \/ GivesUp(v)
      BY <1>3 DEF SelfTerminate
    <3>2. CASE Terminate({row[vm[v].run].vm})
      BY <1>a, <3>2, TerminateType
    <3>3. CASE TryAgain(v) \/ GivesUp(v)
      BY <1>a, <3>3, TryAgainType
    <3>4. QED
      BY <3>1, <3>2, <3>3
  <2>2. mishaps' \in [Runs -> SUBSET Kinds] /\ budget' \in 0 .. MaxMishaps
    BY <1>a, <1>3, MishapType DEF SelfTerminate
  <2>3. QED
    BY <1>a, <1>3, <2>1, <2>2 DEF SelfTerminate, TypeOK
<1>4. ASSUME NEW v \in VMs, VmDies(v) PROVE TypeOK'
  BY <1>a, <1>4, TerminateType, MishapType DEF VmDies, TypeOK
<1>5. ASSUME NEW v \in VMs, NEW r \in Runs, AssignJob(v, r) PROVE TypeOK'
  <2>1. vm' \in [VMs -> VmType]
    BY <1>a, <1>5, GuestType DEF AssignJob, Guest
  <2>2. gh' \in [Runs -> JobState]
    BY <1>a, <1>5 DEF AssignJob, TypeOK, JobState
  <2>3. QED
    BY <1>a, <1>5, <2>1, <2>2 DEF AssignJob, TypeOK
<1>6. ASSUME NEW r \in Runs, CancelJob(r) PROVE TypeOK'
  BY <1>a, <1>6 DEF CancelJob, TypeOK, JobState
<1>7. QED
  BY <1>1, <1>2, <1>3, <1>4, <1>5, <1>6 DEF ComputeNext

(* The steps of the Reaper and of time.                                    *)
LEMMA ReaperTypes == IInv /\ ReaperNext => TypeOK'
<1> SUFFICES ASSUME IInv, ReaperNext PROVE TypeOK'
  OBVIOUS
<1>a. TypeOK
  BY DEF IInv
<1>1. CASE ListAndCap
  <2>1. reaper' \in ReaperType
    BY <1>1 DEF ListAndCap, ReaperType, LiveVms
  <2>2. vm' \in [VMs -> VmType] /\ gh' \in [Runs -> JobState]
    BY <1>a, <1>1, TerminateType DEF ListAndCap
  <2>3. mishaps' \in [Runs -> SUBSET Kinds] /\ budget' \in 0 .. MaxMishaps
    BY <1>a, <1>1, MishapType DEF ListAndCap
  <2>4. QED
    BY <1>a, <1>1, <2>1, <2>2, <2>3 DEF ListAndCap, TypeOK
<1>2. CASE ReadActive
  <2>1. Dispositions(reaper.live) \subseteq Disposition
    BY <1>a DEF Dispositions, Disposition, TypeOK, RowType
  <2>2. reaper' \in ReaperType
    BY <1>a, <1>2, <2>1 DEF ReadActive, TypeOK, ReaperType, IdleReaper
  <2>3. QED
    BY <1>a, <1>2, <2>2 DEF ReadActive, TypeOK
<1>3. CASE CloseGhost
  <2>1. PICK d \in reaper.todo :
          /\ Transition(d.run, d.to)
          /\ reaper' = Rest(d)
          /\ \/ Terminate({d.vm}) /\ NoMishap
             \/ UNCHANGED <<vm, gh>> /\ Mishap(d.run, "terminate")
             \/ UNCHANGED <<vm, gh>> /\ NoMishap
    BY <1>3 DEF CloseGhost
  <2>2. d \in Disposition
    BY <1>a DEF TypeOK, ReaperType
  <2>3. row' \in [Runs -> RowType]
    BY <1>a, <2>1, <2>2, TransitionType DEF Disposition, Status, Terminal
  <2>4. reaper' \in ReaperType
    BY <1>a, <2>1 DEF Rest, TypeOK, ReaperType, IdleReaper
  <2>5. vm' \in [VMs -> VmType] /\ gh' \in [Runs -> JobState]
    BY <1>a, <2>1, TerminateType DEF TypeOK
  <2>6. mishaps' \in [Runs -> SUBSET Kinds] /\ budget' \in 0 .. MaxMishaps
    BY <1>a, <2>1, MishapType
  <2>7. QED
    BY <1>a, <1>3, <2>3, <2>4, <2>5, <2>6 DEF CloseGhost, TypeOK
<1>4. CASE SweepAborts
  BY <1>a, <1>4, ConstantsAssumption DEF SweepAborts, TypeOK, ReaperType, IdleReaper
<1>5. ASSUME NEW r \in Runs, RowAges(r) PROVE TypeOK'
  BY <1>a, <1>5, SMTT(30) DEF RowAges, TypeOK, RowType, Age, Older
<1>6. ASSUME NEW r \in Runs, JitExpires(r) PROVE TypeOK'
  BY <1>a, <1>6 DEF JitExpires, TypeOK
<1>7. ASSUME NEW v \in VMs, VmAges(v) PROVE TypeOK'
  BY <1>a, <1>7, ZenonT(60) DEF VmAges, TypeOK, VmType
<1>8. QED
  BY <1>1, <1>2, <1>3, <1>4, <1>5, <1>6, <1>7 DEF ReaperNext

(* Every step keeps the types.                                             *)
LEMMA StepTypes == IInv /\ [Next]_vars => TypeOK'
<1>1. IInv /\ UNCHANGED vars => TypeOK'
  BY DEF IInv, TypeOK, vars
<1>2. QED
  BY <1>1, IngestTypes, ProvisionTypes, ComputeTypes, ReaperTypes DEF Next, IInv

-----------------------------------------------------------------------------
(* What a step leaves alone                                                *)

(* A VM keeps its run and its token from the launch on, and its id is      *)
(* never launched again.                                                   *)
KeepsVm(v) ==
  /\ vm'[v].run = vm[v].run
  /\ vm'[v].tok = vm[v].tok
  /\ vm'[v].state = "none" <=> vm[v].state = "none"

KeepsVms == \A v \in VMs : KeepsVm(v)

KeepsStamps == \A r \in Runs : row'[r].vm = row[r].vm /\ row'[r].tok = row[r].tok

(* A status write is no stamp.                                             *)
LEMMA StatusKeepsStamps ==
  ASSUME TypeOK, NEW q, NEW to, row' = Moved(q, to) \/ Transition(q, to) \/ UNCHANGED row
  PROVE  KeepsStamps
<1>1. ASSUME NEW r \in Runs
      PROVE  Moved(q, to)[r].vm = row[r].vm /\ Moved(q, to)[r].tok = row[r].tok
  <2>1. row[r] \in RowType
    BY DEF TypeOK
  <2>2. CASE r = q
    BY <2>1, <2>2 DEF Moved, RowType, TypeOK
  <2>3. CASE r # q
    BY <2>3 DEF Moved, TypeOK
  <2>4. QED
    BY <2>2, <2>3
<1>2. QED
  BY <1>1 DEF Transition, KeepsStamps

LEMMA TerminateKeepsVms ==
  ASSUME TypeOK, NEW K, Terminate(K)
  PROVE  KeepsVms
BY DEF TypeOK, VmType, Terminate, Live, KeepsVms, KeepsVm

(* Nobody but Provision launches, stamps or settles a record.              *)
LEMMA OthersKeep ==
  ASSUME IInv, IngestNext \/ ComputeNext \/ ReaperNext \/ UNCHANGED vars
  PROVE  KeepsVms /\ KeepsStamps /\ UNCHANGED worker /\ ReceivesCounted'
<1>a. TypeOK /\ ReceivesCounted
  BY DEF IInv
<1>0. ASSUME UNCHANGED vm PROVE KeepsVms
  BY <1>0 DEF KeepsVms, KeepsVm
<1>1. ASSUME UNCHANGED msg PROVE ReceivesCounted'
  BY <1>1, <1>a DEF ReceivesCounted
<1>2. CASE IngestNext
  <2>1. PICK r \in Runs : \/ ClaimJob(r) \/ DedupWindowCloses(r)
                          \/ StatusInProgress(r) \/ StatusCompleted(r)
    BY <1>2 DEF IngestNext
  <2>2. UNCHANGED <<vm, worker>>
    BY <2>1 DEF ClaimJob, DedupWindowCloses, StatusInProgress, StatusCompleted
  <2>3. KeepsStamps
    <3>1. \E to \in Status : row' = Moved(r, to) \/ UNCHANGED row
      BY <2>1 DEF ClaimJob, PutQueuedRun, DedupWindowCloses, StatusInProgress,
                  StatusCompleted, CompletionStatus, Status, Active, Terminal
    <3>2. QED
      BY <1>a, <3>1, StatusKeepsStamps
  <2>4. ReceivesCounted'
    <3>1. \/ UNCHANGED msg
          \/ \E i \in Unsent(r) : msg' = [msg EXCEPT ![<<r, i>>].state = "visible"]
      BY <2>1 DEF ClaimJob, Enqueue, DedupWindowCloses, StatusInProgress, StatusCompleted
    <3>2. CASE \E i \in Unsent(r) : msg' = [msg EXCEPT ![<<r, i>>].state = "visible"]
      <4>1. PICK i \in Unsent(r) : msg' = [msg EXCEPT ![<<r, i>>].state = "visible"]
        BY <3>2
      <4>2. <<r, i>> \in Msgs /\ msg[<<r, i>>].state = "unsent"
        BY <4>1 DEF Unsent, Msgs
      <4>3. QED
        BY <1>a, <4>1, <4>2 DEF ReceivesCounted, TypeOK, MsgType
    <3>3. QED
      BY <1>1, <3>1, <3>2
  <2>5. QED
    BY <1>0, <2>2, <2>3, <2>4
<1>3. CASE ComputeNext
  <2>1. UNCHANGED <<row, msg, worker>>
    BY <1>3 DEF ComputeNext, BootFetch, RunnerExits, SelfTerminate, VmDies, AssignJob, CancelJob
  <2>2. \/ \E K : Terminate(K)
        \/ \E v \in VMs : TryAgain(v) \/ GivesUp(v) \/ RunnerExits(v)
        \/ \E v \in VMs : vm' = [vm EXCEPT ![v].guest = "listening"]
        \/ \E v \in VMs, r \in Runs : AssignJob(v, r)
        \/ UNCHANGED vm
    BY <1>3 DEF ComputeNext, BootFetch, SelfTerminate, VmDies, CancelJob
  <2>3. ASSUME NEW v \in VMs, TryAgain(v) \/ GivesUp(v) \/ RunnerExits(v)
        PROVE  KeepsVms
    BY <1>a, <2>3, SMTT(30) DEF TryAgain, GivesUp, RunnerExits, TypeOK, VmType, KeepsVms, KeepsVm
  <2>4. ASSUME NEW v \in VMs, vm' = [vm EXCEPT ![v].guest = "listening"]
        PROVE  KeepsVms
    BY <1>a, <2>4 DEF TypeOK, VmType, KeepsVms, KeepsVm
  <2>5. ASSUME NEW v \in VMs, NEW r \in Runs, AssignJob(v, r)
        PROVE  KeepsVms
    BY <1>a, <2>5 DEF AssignJob, TypeOK, VmType, KeepsVms, KeepsVm
  <2>6. KeepsVms
    BY <1>a, <1>0, <2>2, <2>3, <2>4, <2>5, TerminateKeepsVms
  <2>7. QED
    BY <1>1, <2>1, <2>6 DEF KeepsStamps
<1>4. CASE ReaperNext
  <2>1. UNCHANGED <<msg, worker>>
    BY <1>4 DEF ReaperNext, ListAndCap, ReadActive, CloseGhost, SweepAborts,
                RowAges, JitExpires, VmAges
  <2>2. KeepsStamps
    <3>1. \/ UNCHANGED row
          \/ \E r, to : Transition(r, to)
          \/ \E r \in Runs : row' = [row EXCEPT ![r].age = Older(@)]
      BY <1>4 DEF ReaperNext, ListAndCap, ReadActive, CloseGhost, SweepAborts,
                  RowAges, JitExpires, VmAges
    <3>2. ASSUME NEW r \in Runs, row' = [row EXCEPT ![r].age = Older(@)]
          PROVE  KeepsStamps
      BY <1>a, <3>2 DEF TypeOK, RowType, KeepsStamps
    <3>3. QED
      BY <1>a, <3>1, <3>2, StatusKeepsStamps
  <2>3. KeepsVms
    <3>1. \/ UNCHANGED vm
          \/ \E K : Terminate(K)
          \/ \E v \in VMs : vm' = [vm EXCEPT ![v].old = TRUE]
      BY <1>4 DEF ReaperNext, ListAndCap, ReadActive, CloseGhost, SweepAborts,
                  RowAges, JitExpires, VmAges
    <3>2. ASSUME NEW v \in VMs, vm' = [vm EXCEPT ![v].old = TRUE]
          PROVE  KeepsVms
      BY <1>a, <3>2 DEF TypeOK, VmType, KeepsVms, KeepsVm
    <3>3. QED
      BY <1>a, <1>0, <3>1, <3>2, TerminateKeepsVms
  <2>4. QED
    BY <1>1, <2>1, <2>2, <2>3
<1>5. CASE UNCHANGED vars
  BY <1>0, <1>1, <1>5 DEF vars, KeepsStamps
<1>6. QED
  BY <1>2, <1>3, <1>4, <1>5

-----------------------------------------------------------------------------
(* The inductive invariant                                                 *)

(* An invocation that does not launch, mint or stamp: it stays where it    *)
(* is, lets its record go, or takes up a record of its own group.          *)
Quiet(g) ==
  \/ worker'[g] = worker[g]
  \/ worker'[g].pc \in {"idle", "next"} /\ worker'[g].tok \in {None, worker[g].tok}
  \/ /\ worker'[g].pc = "mint"
     /\ worker'[g].cur \in Msgs /\ GroupOf[RunOf(worker'[g].cur)] = g
     /\ worker'[g].tok = worker[g].tok

(* A step in which every invocation is quiet, and VMs and stamps are kept, *)
(* keeps the invariant.                                                    *)
LEMMA QuietStep ==
  ASSUME IInv, KeepsVms, KeepsStamps, \A g \in Groups : Quiet(g)
  PROVE  InvocationCarries' /\ LaunchedVms' /\ StampOfLaunch' /\ TokensUsedOnce'
<1>a. TypeOK /\ InvocationCarries /\ LaunchedVms /\ StampOfLaunch /\ TokensUsedOnce
  BY DEF IInv
<1>1. InvocationCarries'
  BY <1>a DEF InvocationCarries, Launching, Cur, Quiet, KeepsVms, KeepsVm
<1>2. LaunchedVms'
  BY <1>a DEF LaunchedVms, KeepsVms, KeepsVm
<1>3. StampOfLaunch'
  <2>1. \A r \in Runs : row[r].vm \in VMs \union {None}
    BY <1>a DEF TypeOK, RowType
  <2>2. QED
    BY <1>a, <2>1 DEF StampOfLaunch, KeepsVms, KeepsVm, KeepsStamps
<1>4. TokensUsedOnce'
  <2>1. ASSUME NEW v \in VMs, NEW w \in VMs, v # w, vm'[v].state # "none", vm'[w].state # "none"
        PROVE  vm'[v].tok # vm'[w].tok
    BY <1>a, <2>1 DEF TokensUsedOnce, KeepsVms, KeepsVm
  <2>2. ASSUME NEW g \in Groups, worker'[g].pc = "launch"
        PROVE  /\ \A v \in VMs : vm'[v].tok # worker'[g].tok
               /\ \A h \in Groups : h # g => worker'[h].tok # worker'[g].tok
    <3>1. worker'[g] = worker[g] /\ worker[g].tok \in Tokens /\ worker[g].tok # None
      BY <1>a, <2>2, NoneAssumption DEF Quiet, InvocationCarries
    <3>2. \A h \in Groups : worker'[h].tok \in {None, worker[h].tok}
      BY DEF Quiet
    <3>3. QED
      BY <1>a, <2>2, <3>1, <3>2 DEF TokensUsedOnce, KeepsVms, KeepsVm
  <2>3. QED
    BY <2>1, <2>2 DEF TokensUsedOnce
<1>5. QED
  BY <1>1, <1>2, <1>3, <1>4

(* Letting the current record go is quiet.                                 *)
LEMMA SettleQuiet ==
  ASSUME IInv, NEW g \in Groups, NEW s \in MsgState \ {"unsent", "visible"},
         Settle(g, s)
  PROVE  (\A h \in Groups : Quiet(h)) /\ ReceivesCounted'
<1>a. TypeOK /\ ReceivesCounted
  BY DEF IInv
<1>1. ASSUME NEW h \in Groups PROVE Quiet(h)
  BY <1>a DEF Settle, Quiet, TypeOK, WorkerType, IdleWorker
<1>2. \A m \in Msgs : msg'[m].n = msg[m].n
                      /\ (msg'[m].state = msg[m].state \/ msg'[m].state = s)
  BY <1>a DEF Settle, TypeOK, MsgType
<1>3. QED
  BY <1>a, <1>1, <1>2 DEF ReceivesCounted

(* A new VM has a run, and a token no other VM has.                        *)
LEMMA LaunchKeeps ==
  ASSUME IInv, NEW g \in Groups, worker[g].pc = "launch",
         NEW v \in VMs, vm[v].state = "none", vm' = [vm EXCEPT ![v] = Booted(g)]
  PROVE  /\ LaunchedVms'
         /\ \A w \in VMs \ {v} : vm'[w] = vm[w]
         /\ vm'[v].run = Cur(g) /\ vm'[v].tok = worker[g].tok /\ vm'[v].state = "live"
         /\ \A w \in VMs, x \in VMs :
               w # x /\ vm'[w].state # "none" /\ vm'[x].state # "none" => vm'[w].tok # vm'[x].tok
<1>a. TypeOK /\ InvocationCarries /\ LaunchedVms /\ TokensUsedOnce
  BY DEF IInv
<1>1. Cur(g) \in Runs /\ worker[g].tok \in Tokens
  BY <1>a, CurIsRun DEF Launching, InvocationCarries
<1>2. vm'[v].run = Cur(g) /\ vm'[v].tok = worker[g].tok /\ vm'[v].state = "live"
  BY <1>a DEF TypeOK, Booted, NoVm
<1>3. \A w \in VMs \ {v} : vm'[w] = vm[w]
  BY <1>a DEF TypeOK
<1>4. LaunchedVms'
  BY <1>a, <1>1, <1>2, <1>3 DEF LaunchedVms
<1>5. QED
  BY <1>a, <1>2, <1>3, <1>4 DEF TokensUsedOnce

(* The steps of Provision keep the invariant.                              *)
LEMMA ProvisionKeeps ==
  ASSUME IInv, ProvisionNext
  PROVE  InvocationCarries' /\ ReceivesCounted' /\ LaunchedVms' /\ StampOfLaunch' /\ TokensUsedOnce'
<1> SUFFICES ASSUME NEW g \in Groups, Receive(g) \/ InvocationStep(g) \/ Crash(g)
             PROVE  /\ InvocationCarries' /\ ReceivesCounted' /\ LaunchedVms'
                    /\ StampOfLaunch' /\ TokensUsedOnce'
  BY DEF ProvisionNext
<1>a. TypeOK /\ InvocationCarries /\ ReceivesCounted /\ LaunchedVms /\ StampOfLaunch /\ TokensUsedOnce
  BY DEF IInv
<1>b. ASSUME UNCHANGED vm PROVE KeepsVms
  BY <1>b DEF KeepsVms, KeepsVm
<1>c. ASSUME UNCHANGED row PROVE KeepsStamps
  BY <1>c DEF KeepsStamps
<1>d. ASSUME UNCHANGED msg PROVE ReceivesCounted'
  BY <1>d, <1>a DEF ReceivesCounted
<1>1. CASE Receive(g)
  <2>1. \A h \in Groups : Quiet(h)
    BY <1>a, <1>1 DEF Receive, Quiet, TypeOK, WorkerType
  <2>2. ReceivesCounted'
    <3>1. \A m \in Msgs : msg'[m] = msg[m] \/ msg'[m].state = "inflight"
      <4>1. PICK B \in SUBSET Visible(g) :
              msg' = [m \in Msgs |-> IF m \in B
                                     THEN [msg[m] EXCEPT !.state = "inflight", !.n = @ + 1]
                                     ELSE msg[m]]
        BY <1>1 DEF Receive
      <4>2. \A m \in Msgs : msg[m] \in MsgType
        BY <1>a DEF TypeOK
      <4>3. \A m \in Msgs : [msg[m] EXCEPT !.state = "inflight", !.n = @ + 1].state = "inflight"
        BY <4>2 DEF MsgType
      <4>4. QED
        BY <4>1, <4>3
    <3>2. QED
      BY <1>a, <3>1 DEF ReceivesCounted
  <2>3. QED
    BY <1>b, <1>c, <1>1, <2>1, <2>2, QuietStep DEF Receive
<1>2. ASSUME NEW m \in Msgs, Guard(g, m)
      PROVE  /\ InvocationCarries' /\ ReceivesCounted' /\ LaunchedVms'
             /\ StampOfLaunch' /\ TokensUsedOnce'
  <2>1. \A h \in Groups : Quiet(h)
    BY <1>a, <1>2 DEF Guard, Quiet, TypeOK, WorkerType
  <2>2. ReceivesCounted'
    BY <1>a, <1>2 DEF Guard, ReceivesCounted, TypeOK, MsgType
  <2>3. KeepsStamps
    BY <1>a, <1>2, StatusKeepsStamps DEF Guard
  <2>4. QED
    BY <1>b, <1>2, <2>1, <2>2, <2>3, QuietStep DEF Guard
<1>3. CASE Refuse(g) \/ Retry(g) \/ LaunchThrottled(g) \/ LaunchFailed(g) \/ MarkRunning(g)
  <2>1. UNCHANGED vm
    BY <1>3 DEF Refuse, Retry, LaunchThrottled, LaunchFailed, MarkRunning
  <2>2. KeepsStamps
    BY <1>a, <1>3, StatusKeepsStamps
    DEF Refuse, Retry, LaunchThrottled, LaunchFailed, MarkRunning, FailRun
  <2>3. \E s \in MsgState \ {"unsent", "visible"} : Settle(g, s)
    BY <1>3 DEF Refuse, Retry, LaunchThrottled, LaunchFailed, MarkRunning,
                Consume, Throw, MsgState
  <2>4. QED
    BY <1>b, <2>1, <2>2, <2>3, SettleQuiet, QuietStep
<1>4. CASE MintAndStash(g)
  <2>1. PICK t \in Tokens :
          /\ Fresh(t)
          /\ worker' = [worker EXCEPT ![g].pc = "launch", ![g].tok = t]
    BY <1>4 DEF MintAndStash
  <2>2. UNCHANGED <<row, msg, vm>>
    BY <1>4 DEF MintAndStash
  <2>3. /\ worker'[g].pc = "launch" /\ worker'[g].tok = t /\ worker'[g].cur = worker[g].cur
        /\ \A h \in Groups \ {g} : worker'[h] = worker[h]
    BY <1>a, <2>1 DEF TypeOK, WorkerType
  <2>4. InvocationCarries'
    <3>1. worker[g].cur \in Msgs /\ GroupOf[Cur(g)] = g
      BY <1>a, <1>4, CurIsRun DEF MintAndStash, Launching
    <3>2. QED
      BY <1>a, <2>2, <2>3, <3>1 DEF InvocationCarries, Launching, Cur
  <2>5. TokensUsedOnce'
    <3>1. /\ \A v \in VMs : vm[v].tok # t
          /\ \A h \in Groups : worker[h].tok # t
      BY <2>1 DEF Fresh
    <3>2. QED
      BY <1>a, <2>2, <2>3, <3>1 DEF TokensUsedOnce
  <2>6. LaunchedVms' /\ StampOfLaunch'
    BY <1>a, <2>2 DEF LaunchedVms, StampOfLaunch
  <2>7. QED
    BY <1>d, <2>2, <2>4, <2>5, <2>6
<1>5. CASE Launch(g)
  <2>1. PICK v \in VMs :
          /\ vm[v].state = "none"
          /\ vm' = [vm EXCEPT ![v] = Booted(g)]
          /\ worker' = [worker EXCEPT ![g].pc = "stamp", ![g].vm = v]
    BY <1>5 DEF Launch
  <2>2. worker[g].pc = "launch" /\ UNCHANGED <<row, msg>>
    BY <1>5 DEF Launch
  <2>3. /\ LaunchedVms'
        /\ \A w \in VMs \ {v} : vm'[w] = vm[w]
        /\ vm'[v].run = Cur(g) /\ vm'[v].tok = worker[g].tok /\ vm'[v].state = "live"
        /\ \A w \in VMs, x \in VMs :
              w # x /\ vm'[w].state # "none" /\ vm'[x].state # "none" => vm'[w].tok # vm'[x].tok
    BY <2>1, <2>2, LaunchKeeps
  <2>4. /\ worker'[g].pc = "stamp" /\ worker'[g].vm = v
        /\ worker'[g].tok = worker[g].tok /\ worker'[g].cur = worker[g].cur
        /\ \A h \in Groups \ {g} : worker'[h] = worker[h]
    BY <1>a, <2>1 DEF TypeOK, WorkerType
  <2>5. InvocationCarries'
    <3>1. ASSUME NEW h \in Groups, h # g, worker[h].pc \in {"stamp", "mark"}
          PROVE  worker[h].vm \in VMs \ {v}
      BY <1>a, <2>1, <3>1 DEF InvocationCarries
    <3>2. QED
      BY <1>a, <2>2, <2>3, <2>4, <3>1 DEF InvocationCarries, Launching, Cur
  <2>6. StampOfLaunch'
    <3>1. \A r \in Runs : row[r].vm \in VMs \union {None}
      BY <1>a DEF TypeOK, RowType
    <3>2. QED
      BY <1>a, <2>1, <2>2, <2>3, <3>1 DEF StampOfLaunch
  <2>7. TokensUsedOnce'
    BY <1>a, <2>2, <2>3, <2>4 DEF TokensUsedOnce
  <2>8. QED
    BY <1>d, <2>2, <2>3, <2>5, <2>6, <2>7
<1>6. CASE LaunchAnswerLost(g)
  <2>1. PICK v \in VMs : vm[v].state = "none" /\ vm' = [vm EXCEPT ![v] = Booted(g)]
    BY <1>6 DEF LaunchAnswerLost
  <2>2. worker[g].pc = "launch" /\ Throw(g)
    BY <1>6 DEF LaunchAnswerLost
  <2>3. /\ LaunchedVms'
        /\ \A w \in VMs \ {v} : vm'[w] = vm[w]
        /\ vm'[v].run = Cur(g) /\ vm'[v].tok = worker[g].tok /\ vm'[v].state = "live"
        /\ \A w \in VMs, x \in VMs :
              w # x /\ vm'[w].state # "none" /\ vm'[x].state # "none" => vm'[w].tok # vm'[x].tok
    BY <2>1, <2>2, LaunchKeeps
  <2>4. worker'[g] = [IdleWorker EXCEPT !.pc = "next"] /\ \A h \in Groups \ {g} : worker'[h] = worker[h]
    BY <1>a, <2>2 DEF Throw, Settle, TypeOK
  <2>5. InvocationCarries'
    <3>1. ASSUME NEW h \in Groups, h # g, worker[h].pc \in {"stamp", "mark"}
          PROVE  worker[h].vm \in VMs \ {v}
      BY <1>a, <2>1, <3>1 DEF InvocationCarries
    <3>2. QED
      BY <1>a, <2>3, <2>4, <3>1 DEF InvocationCarries, Launching, Cur, IdleWorker
  <2>6. StampOfLaunch'
    <3>1. \A r \in Runs : row[r].vm \in VMs \union {None}
      BY <1>a DEF TypeOK, RowType
    <3>2. KeepsStamps
      BY <1>a, <1>6, StatusKeepsStamps DEF LaunchAnswerLost
    <3>3. QED
      BY <1>a, <2>1, <2>3, <3>1, <3>2 DEF StampOfLaunch, KeepsStamps
  <2>7. TokensUsedOnce'
    <3>1. worker'[g].pc = "next" /\ worker'[g].tok = None
      BY <2>4 DEF IdleWorker
    <3>2. \A h \in Groups : worker[h].pc = "launch" => worker[h].tok # None
      BY <1>a, NoneAssumption DEF InvocationCarries
    <3>3. ASSUME NEW h \in Groups, worker'[h].pc = "launch"
          PROVE  /\ \A w \in VMs : vm'[w].tok # worker'[h].tok
                 /\ \A k \in Groups : k # h => worker'[k].tok # worker'[h].tok
      <4>1. h # g /\ worker'[h] = worker[h] /\ worker[h].tok # None
        BY <2>4, <3>1, <3>2, <3>3
      <4>2. worker[g].tok # worker[h].tok
        BY <1>a, <3>3, <4>1 DEF TokensUsedOnce
      <4>3. \A w \in VMs : vm'[w].tok # worker'[h].tok
        BY <1>a, <2>3, <3>3, <4>1, <4>2 DEF TokensUsedOnce
      <4>4. \A k \in Groups : k # h => worker'[k].tok # worker'[h].tok
        BY <1>a, <2>4, <3>1, <3>3, <4>1, ZenonT(60) DEF TokensUsedOnce
      <4>5. QED
        BY <4>3, <4>4
    <3>4. QED
      BY <2>3, <3>3 DEF TokensUsedOnce
  <2>8. ReceivesCounted'
    BY <2>2, SettleQuiet DEF Throw, MsgState
  <2>9. QED
    BY <2>3, <2>5, <2>6, <2>7, <2>8
<1>7. CASE Stamp(g)
  <2>1. worker[g].pc = "stamp" /\ UNCHANGED <<msg, vm>>
    BY <1>7 DEF Stamp
  <2>2. /\ worker'[g].pc = "mark" /\ worker'[g].vm = worker[g].vm
        /\ worker'[g].tok = worker[g].tok /\ worker'[g].cur = worker[g].cur
        /\ \A h \in Groups \ {g} : worker'[h] = worker[h]
    BY <1>a, <1>7 DEF Stamp, TypeOK, WorkerType
  <2>3. InvocationCarries'
    BY <1>a, <2>1, <2>2 DEF InvocationCarries, Launching, Cur
  <2>4. TokensUsedOnce' /\ LaunchedVms'
    BY <1>a, <2>1, <2>2 DEF TokensUsedOnce, LaunchedVms
  <2>5. StampOfLaunch'
    <3>1. CASE UNCHANGED row
      BY <1>a, <2>1, <3>1 DEF StampOfLaunch
    <3>2. CASE row' = [row EXCEPT ![Cur(g)].vm = worker[g].vm, ![Cur(g)].tok = worker[g].tok]
      <4>1. Cur(g) \in Runs
        BY <1>a, <2>1, CurIsRun DEF Launching
      <4>2. /\ row'[Cur(g)].vm = worker[g].vm /\ row'[Cur(g)].tok = worker[g].tok
            /\ \A r \in Runs \ {Cur(g)} : row'[r] = row[r]
        BY <1>a, <3>2, <4>1 DEF TypeOK, RowType
      <4>3. /\ worker[g].vm \in VMs /\ worker[g].vm # None
            /\ vm[worker[g].vm].state # "none"
            /\ vm[worker[g].vm].run = Cur(g)
            /\ vm[worker[g].vm].tok = worker[g].tok
        BY <1>a, <2>1, NoneAssumption DEF InvocationCarries
      <4>4. QED
        BY <1>a, <2>1, <4>2, <4>3 DEF StampOfLaunch
    <3>3. QED
      BY <1>7, <3>1, <3>2 DEF Stamp
  <2>6. QED
    BY <1>d, <2>1, <2>3, <2>4, <2>5
<1>8. CASE Finish(g) \/ Crash(g)
  <2>1. UNCHANGED <<row, vm>>
    BY <1>8 DEF Finish, Crash
  <2>2. \A h \in Groups : Quiet(h)
    BY <1>a, <1>8 DEF Finish, Crash, Quiet, TypeOK, WorkerType, IdleWorker
  <2>3. ReceivesCounted'
    <3>1. ASSUME NEW m \in Msgs
          PROVE  HandedBack(m).state = "visible" => HandedBack(m).n < MaxReceive
      BY <1>a, ConstantsAssumption DEF HandedBack, TypeOK, MsgType
    <3>2. ASSUME NEW m \in Msgs
          PROVE  \/ msg'[m] = msg[m] \/ msg'[m].state = "deleted"
                 \/ msg'[m] = HandedBack(m) /\ msg'[m].state \in {"dlq", "visible"}
      BY <1>a, <1>8 DEF Finish, Crash, HandedBack, TypeOK, MsgType
    <3>3. QED
      BY <1>a, <3>1, <3>2 DEF ReceivesCounted
  <2>4. QED
    BY <1>b, <1>c, <2>1, <2>2, <2>3, QuietStep
<1>9. QED
  BY <1>1, <1>2, <1>3, <1>4, <1>5, <1>6, <1>7, <1>8 DEF InvocationStep

(* Every step keeps the inductive invariant.                               *)
LEMMA StepIInv == IInv /\ [Next]_vars => IInv'
<1> SUFFICES ASSUME IInv, [Next]_vars PROVE IInv'
  OBVIOUS
<1>1. TypeOK'
  BY StepTypes
<1>2. CASE ProvisionNext
  BY <1>1, <1>2, ProvisionKeeps DEF IInv
<1>3. CASE IngestNext \/ ComputeNext \/ ReaperNext \/ UNCHANGED vars
  <2>1. KeepsVms /\ KeepsStamps /\ UNCHANGED worker /\ ReceivesCounted'
    BY <1>3, OthersKeep
  <2>2. \A g \in Groups : Quiet(g)
    BY <2>1 DEF Quiet
  <2>3. QED
    BY <1>1, <2>1, <2>2, QuietStep DEF IInv
<1>4. QED
  BY <1>2, <1>3 DEF Next

(* The inductive invariant holds of every behaviour of the run plane.      *)
THEOREM Invariant == Spec => []IInv
<1>1. QED
  BY InitIInv, StepIInv, PTL DEF Spec

(* Type correctness, for every instance of the run plane.                  *)
THEOREM TypeCorrect == Spec => []TypeOK
<1>1. IInv => TypeOK
  BY DEF IInv
<1>2. QED
  BY Invariant, <1>1, PTL

(* A run row's VM id and token hash belong to one launch of that run.      *)
THEOREM StampCorrect == Spec => []StampMatchesVm
<1>1. IInv => StampMatchesVm
  BY DEF IInv, StampOfLaunch, StampMatchesVm
<1>2. QED
  BY Invariant, <1>1, PTL

-----------------------------------------------------------------------------
(* The broker                                                              *)

(* An authorised terminate names the VM that asked for it: the row's token *)
(* is the caller's, the row's VM was launched with it, and no two VMs ever *)
(* shared one.                                                             *)
LEMMA BrokerNamesCaller ==
  ASSUME IInv, NEW v \in VMs, Live(v), BrokerAnswer(v) = "terminate"
  PROVE  row[vm[v].run].vm = v
<1> DEFINE r == vm[v].run
<1>a. TypeOK /\ LaunchedVms /\ StampOfLaunch /\ TokensUsedOnce
  BY DEF IInv
<1>1. vm[v].state # "none" /\ r \in Runs
  BY <1>a DEF Live, LaunchedVms
<1>2. row[r].tok # None /\ row[r].tok = vm[v].tok
  BY DEF BrokerAnswer
<1>3. row[r].vm # None /\ vm[row[r].vm].state # "none" /\ vm[row[r].vm].tok = row[r].tok
  BY <1>a, <1>1, <1>2 DEF StampOfLaunch
<1>4. row[r].vm \in VMs
  BY <1>a, <1>1, <1>3 DEF TypeOK, RowType
<1>5. QED
  BY <1>a, <1>1, <1>2, <1>3, <1>4 DEF TokensUsedOnce

(* A brokered terminate never kills any VM but its caller.                 *)
THEOREM BrokerKillsOnlyCaller == Spec => OnlySelfTerminated
<1>1. ASSUME IInv, NEW v \in VMs, NEW w \in VMs, SelfTerminate(v), w # v
      PROVE  vm'[w] = vm[w]
  <2>a. vm \in [VMs -> VmType] /\ Live(v)
    BY <1>1 DEF IInv, TypeOK, SelfTerminate
  <2>1. CASE BrokerAnswer(v) = "terminate" /\ Terminate({row[vm[v].run].vm})
    <3>1. row[vm[v].run].vm = v
      BY <1>1, <2>a, <2>1, BrokerNamesCaller
    <3>2. QED
      BY <1>1, <2>1, <3>1 DEF Terminate
  <2>2. CASE TryAgain(v) \/ GivesUp(v)
    BY <1>1, <2>a, <2>2 DEF TryAgain, GivesUp
  <2>3. QED
    BY <1>1, <2>1, <2>2 DEF SelfTerminate
<1>2. IInv /\ [Next]_vars
        => [\A v, w \in VMs : SelfTerminate(v) /\ w # v => vm'[w] = vm[w]]_vars
  BY <1>1
<1>3. QED
  BY Invariant, <1>2, PTL DEF Spec, OnlySelfTerminated

-----------------------------------------------------------------------------
(* The run table's readers                                                 *)

StatusKept == \A r \in Runs : row'[r].status = row[r].status

(* What one step may do to the statuses of the run table.                  *)
StatusMoves ==
  \E r \in Runs, to \in Status :
    /\ row' = Moved(r, to)
    /\ \/ row[r].status = Absent /\ to = "queued"
       \/ CanTransition(row[r].status, to)

LEMMA TransitionMoves ==
  ASSUME NEW r \in Runs, NEW to \in Status, Transition(r, to)
  PROVE  StatusMoves \/ UNCHANGED row
BY DEF Transition, StatusMoves

(* Every step leaves the statuses, enters one run, or moves one forward.   *)
LEMMA StepStatus ==
  ASSUME IInv, [Next]_vars
  PROVE  StatusMoves \/ StatusKept
<1>a. TypeOK /\ InvocationCarries
  BY DEF IInv
<1>b. {"queued", "provisioning", "running", "failed", "completed", "timed_out"} \subseteq Status
  BY DEF Status, Active, Terminal
<1>0. ASSUME UNCHANGED row PROVE StatusKept
  BY <1>0 DEF StatusKept
<1>1. CASE IngestNext
  <2>1. PICK r \in Runs : \/ ClaimJob(r) \/ DedupWindowCloses(r)
                          \/ StatusInProgress(r) \/ StatusCompleted(r)
    BY <1>1 DEF IngestNext
  <2>2. CASE ClaimJob(r) \/ DedupWindowCloses(r)
    BY <1>0, <1>b, <2>2 DEF ClaimJob, DedupWindowCloses, PutQueuedRun, StatusMoves
  <2>3. CASE StatusInProgress(r)
    BY <1>b, <2>3 DEF StatusInProgress, StatusMoves
  <2>4. CASE StatusCompleted(r)
    BY <1>b, <2>4 DEF StatusCompleted, CompletionStatus, StatusMoves
  <2>5. QED
    BY <2>1, <2>2, <2>3, <2>4
<1>2. CASE ProvisionNext
  <2>1. PICK g \in Groups : Receive(g) \/ InvocationStep(g) \/ Crash(g)
    BY <1>2 DEF ProvisionNext
  <2>2. ASSUME NEW m \in Msgs, Guard(g, m) PROVE StatusMoves \/ StatusKept
    BY <1>0, <1>b, <2>2 DEF Guard, StatusMoves, Msgs, RunOf
  <2>3. ASSUME Launching(g), \/ FailRun(Cur(g)) \/ Transition(Cur(g), "failed")
                            \/ Transition(Cur(g), "running")
        PROVE  StatusMoves \/ StatusKept
    BY <1>a, <1>b, <1>0, <2>3, CurIsRun, TransitionMoves DEF FailRun
  <2>4. CASE Refuse(g) \/ LaunchFailed(g) \/ LaunchAnswerLost(g) \/ MarkRunning(g)
    BY <1>0, <2>3, <2>4 DEF Refuse, LaunchFailed, LaunchAnswerLost, MarkRunning, Launching
  <2>5. CASE Stamp(g)
    BY <1>a, <2>5 DEF Stamp, StatusKept, TypeOK, RowType
  <2>6. CASE \/ Receive(g) \/ Retry(g) \/ MintAndStash(g) \/ Launch(g)
             \/ LaunchThrottled(g) \/ Finish(g) \/ Crash(g)
    BY <1>0, <2>6 DEF Receive, Retry, MintAndStash, Launch, LaunchThrottled, Finish, Crash
  <2>7. QED
    BY <2>1, <2>2, <2>4, <2>5, <2>6 DEF InvocationStep
<1>3. CASE ComputeNext
  BY <1>0, <1>3 DEF ComputeNext, BootFetch, RunnerExits, SelfTerminate, VmDies, AssignJob, CancelJob
<1>4. CASE ReaperNext
  <2>1. CASE CloseGhost
    <3>1. PICK d \in reaper.todo : Transition(d.run, d.to)
      BY <2>1 DEF CloseGhost
    <3>2. d.run \in Runs /\ d.to \in Status
      BY <1>a, <1>b DEF TypeOK, ReaperType, Disposition
    <3>3. QED
      BY <1>0, <3>1, <3>2, TransitionMoves
  <2>2. ASSUME NEW r \in Runs, RowAges(r) PROVE StatusKept
    BY <1>a, <2>2 DEF RowAges, StatusKept, TypeOK, RowType
  <2>3. QED
    BY <1>0, <1>4, <2>1, <2>2
    DEF ReaperNext, ListAndCap, ReadActive, SweepAborts, JitExpires, VmAges
<1>5. CASE UNCHANGED vars
  BY <1>0, <1>5 DEF vars
<1>6. QED
  BY <1>1, <1>2, <1>3, <1>4, <1>5 DEF Next

(* The run plane implements the abstract life of a run: every status write *)
(* of every actor enters a run as queued, moves it up, or changes nothing. *)
THEOREM LifecycleRefined == Spec => ImplementsLifecycle
<1> DEFINE s == [r \in Runs |-> row[r].status]
<1>1. Init => Lifecycle!Init
  BY DEF Init, Lifecycle!Init, Absent, Lifecycle!Absent
<1>2. ASSUME IInv, [Next]_vars
      PROVE  [Lifecycle!Next]_s
  <2>1. CASE StatusKept
    BY <2>1 DEF StatusKept
  <2>2. CASE StatusMoves
    <3>1. PICK r \in Runs, to \in Status :
            /\ row' = Moved(r, to)
            /\ \/ row[r].status = Absent /\ to = "queued"
               \/ CanTransition(row[r].status, to)
      BY <2>2 DEF StatusMoves
    <3>2. s' = [s EXCEPT ![r] = to]
      BY <1>2, <3>1 DEF IInv, TypeOK, RowType, Moved
    <3>3. CASE row[r].status = Absent /\ to = "queued"
      BY <3>2, <3>3 DEF Lifecycle!Next, Lifecycle!Enter, Absent, Lifecycle!Absent
    <3>4. CASE row[r].status = to
      BY <3>2, <3>4
    <3>5. CASE /\ row[r].status \in Active
               /\ StatusRank[to] > StatusRank[row[r].status]
      BY <3>2, <3>5 DEF Lifecycle!Next, Lifecycle!Advance, Active, Lifecycle!Active,
         Status, Lifecycle!Status, Terminal, Lifecycle!Terminal, StatusRank, Lifecycle!StatusRank
    <3>6. QED
      BY <3>1, <3>3, <3>4, <3>5 DEF CanTransition, IsTerminal, Status
  <2>3. QED
    BY <1>2, <2>1, <2>2, StepStatus
<1>3. QED
  BY <1>1, <1>2, Invariant, PTL DEF Spec, ImplementsLifecycle, Lifecycle!Spec

-----------------------------------------------------------------------------
(* What no step takes back                                                 *)

MishapsGrow  == \A r \in Runs : mishaps[r] \subseteq mishaps'[r]
JobsLeave    == \A r \in Runs : gh[r] # "queued" => gh'[r] # "queued"
VmsStay      == \A v \in VMs : vm[v].state # "none" =>
                  vm'[v].state # "none" /\ vm'[v].run = vm[v].run
DeadStayDead == \A v \in VMs : vm[v].state = "dead" => vm'[v].state = "dead"
RowsAdvance  ==
  \A r \in Runs :
    /\ row[r].status # Absent => row'[r].status # Absent
    /\ IsTerminal(row[r].status) => row'[r].status = row[r].status
    /\ row[r].status = "running" => row'[r].status \in Terminal \union {"running"}

LEMMA StepMishaps ==
  ASSUME IInv, [Next]_vars
  PROVE  MishapsGrow
<1>a. mishaps \in [Runs -> SUBSET Kinds]
  BY DEF IInv, TypeOK
<1>1. ASSUME UNCHANGED mishaps PROVE MishapsGrow
  BY <1>1 DEF MishapsGrow
<1>2. ASSUME NEW r, NEW k, \/ Mishap(r, k) \/ NoMishap
                           \/ mishaps' = [mishaps EXCEPT ![r] = @ \union {k}]
      PROVE  MishapsGrow
  BY <1>a, <1>2 DEF Mishap, NoMishap, MishapsGrow
<1>3. CASE IngestNext
  BY <1>1, <1>2, <1>3 DEF IngestNext, ClaimJob, DedupWindowCloses, StatusInProgress,
     RewriteRunning, StatusCompleted
<1>4. CASE ProvisionNext
  <2>1. PICK g \in Groups : Receive(g) \/ InvocationStep(g) \/ Crash(g)
    BY <1>4 DEF ProvisionNext
  <2>2. CASE Crash(g)
    BY <1>a, <2>2 DEF Crash, MishapsGrow
  <2>3. CASE \E m \in Msgs : Guard(g, m)
    BY <1>2, <2>3 DEF Guard
  <2>4. CASE Refuse(g) \/ LaunchFailed(g) \/ LaunchAnswerLost(g) \/ Stamp(g) \/ MarkRunning(g)
    BY <1>2, <2>4 DEF Refuse, LaunchFailed, LaunchAnswerLost, Stamp, MarkRunning, FailRun
  <2>5. CASE Receive(g) \/ Retry(g) \/ MintAndStash(g) \/ Launch(g) \/ LaunchThrottled(g) \/ Finish(g)
    BY <1>1, <2>5 DEF Receive, Retry, MintAndStash, Launch, LaunchThrottled, Finish
  <2>6. QED
    BY <2>1, <2>2, <2>3, <2>4, <2>5 DEF InvocationStep
<1>5. CASE ComputeNext
  BY <1>1, <1>2, <1>5 DEF ComputeNext, BootFetch, RunnerExits, SelfTerminate, VmDies,
     AssignJob, CancelJob
<1>6. CASE ReaperNext
  BY <1>1, <1>2, <1>6 DEF ReaperNext, ListAndCap, ReadActive, CloseGhost, SweepAborts,
     RowAges, JitExpires, VmAges
<1>7. QED
  BY <1>1, <1>3, <1>4, <1>5, <1>6 DEF Next, vars

(* A job GitHub has taken out of its queue does not come back to it.       *)
LEMMA StepJobs ==
  ASSUME IInv, [Next]_vars
  PROVE  JobsLeave
<1>a. gh \in [Runs -> JobState]
  BY DEF IInv, TypeOK
<1>1. ASSUME UNCHANGED gh PROVE JobsLeave
  BY <1>1 DEF JobsLeave
<1>2. ASSUME NEW K, Terminate(K) PROVE JobsLeave
  BY <1>2 DEF Terminate, JobsLeave
<1>3. ASSUME NEW r, NEW q \in JobState \ {"queued"}, gh' = [gh EXCEPT ![r] = q]
      PROVE  JobsLeave
  BY <1>a, <1>3 DEF JobsLeave
<1>4. CASE ComputeNext
  <2>1. ASSUME NEW v \in VMs, RunnerExits(v) PROVE JobsLeave
    BY <1>1, <1>3, <2>1 DEF RunnerExits, JobState
  <2>2. ASSUME NEW v \in VMs, NEW r \in Runs, AssignJob(v, r) \/ CancelJob(r)
        PROVE  JobsLeave
    BY <1>3, <2>2 DEF AssignJob, CancelJob, JobState
  <2>3. ASSUME NEW v \in VMs, BootFetch(v) \/ SelfTerminate(v) \/ VmDies(v)
        PROVE  JobsLeave
    BY <1>1, <1>2, <2>3 DEF BootFetch, GivesUp, SelfTerminate, TryAgain, VmDies
  <2>4. CASE \E r \in Runs : CancelJob(r)
    BY <1>3, <2>4 DEF CancelJob, JobState
  <2>5. QED
    BY <1>4, <2>1, <2>2, <2>3, <2>4 DEF ComputeNext
<1>5. CASE ReaperNext
  BY <1>1, <1>2, <1>5 DEF ReaperNext, ListAndCap, ReadActive, CloseGhost, SweepAborts,
     RowAges, JitExpires, VmAges
<1>6. CASE IngestNext \/ ProvisionNext
  <2>1. UNCHANGED gh
    BY <1>6 DEF IngestNext, ClaimJob, DedupWindowCloses, StatusInProgress, StatusCompleted,
       ProvisionNext, InvocationStep, Receive, Guard, Refuse, Retry, MintAndStash, Launch,
       LaunchThrottled, LaunchFailed, LaunchAnswerLost, Stamp, MarkRunning, Finish, Crash
  <2>2. QED
    BY <1>1, <2>1
<1>7. QED
  BY <1>1, <1>4, <1>5, <1>6 DEF Next, vars

(* A row moves up its lattice.                                             *)
LEMMA StepRows ==
  ASSUME IInv, [Next]_vars
  PROVE  RowsAdvance
<1>a. row \in [Runs -> RowType]
  BY DEF IInv, TypeOK
<1>1. CASE StatusKept
  BY <1>1 DEF StatusKept, RowsAdvance
<1>2. CASE StatusMoves
  <2>1. PICK q \in Runs, to \in Status :
          /\ row' = Moved(q, to)
          /\ \/ row[q].status = Absent /\ to = "queued"
             \/ CanTransition(row[q].status, to)
    BY <1>2 DEF StatusMoves
  <2>2. row'[q].status = to /\ \A r \in Runs \ {q} : row'[r].status = row[r].status
    BY <1>a, <2>1 DEF Moved, RowType
  <2>3. /\ to # Absent
        /\ IsTerminal(row[q].status) => to = row[q].status
        /\ row[q].status = "running" => to \in Terminal \union {"running"}
    BY <2>1 DEF CanTransition, IsTerminal, Status, Terminal, Active, Absent, StatusRank
  <2>4. QED
    BY <2>2, <2>3 DEF RowsAdvance
<1>3. QED
  BY <1>1, <1>2, StepStatus

(* Only a launch touches an id that was never launched.                    *)
Launches(g, v) ==
  /\ worker[g].pc = "launch"
  /\ vm[v].state = "none"
  /\ vm' = [vm EXCEPT ![v] = Booted(g)]

LEMMA ProvisionVms ==
  ASSUME NEW g, Receive(g) \/ InvocationStep(g) \/ Crash(g)
  PROVE  \/ UNCHANGED vm
         \/ (\E v \in VMs : Launches(g, v)) /\ (Launch(g) \/ LaunchAnswerLost(g))
<1>1. CASE Launch(g) \/ LaunchAnswerLost(g)
  BY <1>1 DEF Launch, LaunchAnswerLost, Launches
<1>2. CASE (\E m \in Msgs : Guard(g, m)) \/ Refuse(g) \/ Retry(g) \/ MintAndStash(g)
  BY <1>2 DEF Guard, Refuse, Retry, MintAndStash
<1>3. CASE LaunchThrottled(g) \/ LaunchFailed(g) \/ Stamp(g) \/ MarkRunning(g)
  BY <1>3 DEF LaunchThrottled, LaunchFailed, Stamp, MarkRunning
<1>4. CASE Receive(g) \/ Finish(g) \/ Crash(g)
  BY <1>4 DEF Receive, Finish, Crash
<1>5. QED
  BY <1>1, <1>2, <1>3, <1>4 DEF InvocationStep

LEMMA StepVms ==
  ASSUME IInv, [Next]_vars
  PROVE  VmsStay /\ DeadStayDead
<1>a. vm \in [VMs -> VmType]
  BY DEF IInv, TypeOK
<1>0. ASSUME UNCHANGED vm PROVE VmsStay /\ DeadStayDead
  BY <1>0 DEF VmsStay, DeadStayDead
<1>1. CASE ProvisionNext
  <2>1. PICK g \in Groups : Receive(g) \/ InvocationStep(g) \/ Crash(g)
    BY <1>1 DEF ProvisionNext
  <2>2. ASSUME NEW v \in VMs, Launches(g, v) PROVE VmsStay /\ DeadStayDead
    BY <1>a, <2>2 DEF Launches, VmsStay, DeadStayDead
  <2>3. QED
    BY <1>0, <2>1, <2>2, ProvisionVms
<1>2. CASE IngestNext \/ ComputeNext \/ ReaperNext \/ UNCHANGED vars
  <2>1. VmsStay
    BY <1>2, OthersKeep DEF KeepsVms, KeepsVm, VmsStay
  <2>2. ASSUME NEW K, Terminate(K) PROVE DeadStayDead
    BY <2>2 DEF Terminate, Live, DeadStayDead
  <2>3. ASSUME NEW v \in VMs, Live(v), \A w \in VMs \ {v} : vm'[w] = vm[w]
        PROVE  DeadStayDead
    BY <2>3 DEF Live, DeadStayDead
  <2>4. DeadStayDead
    <3>1. CASE IngestNext \/ UNCHANGED vars
      <4>1. UNCHANGED vm
        BY <3>1 DEF vars, IngestNext, ClaimJob, DedupWindowCloses, StatusInProgress, StatusCompleted
      <4>2. QED
        BY <1>0, <4>1
    <3>2. CASE ComputeNext
      <4>1. ASSUME NEW v \in VMs, TryAgain(v) \/ GivesUp(v)
            PROVE  \A w \in VMs \ {v} : vm'[w] = vm[w]
        BY <1>a, <4>1 DEF TryAgain, GivesUp
      <4>2. ASSUME NEW v \in VMs, BootFetch(v) \/ RunnerExits(v) \/ SelfTerminate(v) \/ VmDies(v)
            PROVE  DeadStayDead
        <5>1. Live(v)
          BY <4>2 DEF BootFetch, RunnerExits, SelfTerminate, VmDies
        <5>2. (\E K : Terminate(K)) \/ (\A w \in VMs \ {v} : vm'[w] = vm[w])
          BY <1>a, <4>1, <4>2 DEF BootFetch, RunnerExits, SelfTerminate, VmDies
        <5>3. QED
          BY <2>2, <2>3, <5>1, <5>2
      <4>3. ASSUME NEW v \in VMs, NEW r \in Runs, AssignJob(v, r) PROVE DeadStayDead
        BY <1>a, <2>3, <4>3 DEF AssignJob
      <4>4. CASE \E r \in Runs : CancelJob(r)
        BY <1>0, <4>4 DEF CancelJob
      <4>5. QED
        BY <3>2, <4>2, <4>3, <4>4 DEF ComputeNext
    <3>3. CASE ReaperNext
      <4>1. ASSUME NEW v \in VMs, VmAges(v) PROVE DeadStayDead
        BY <1>a, <2>3, <4>1 DEF VmAges
      <4>2. QED
        BY <1>0, <2>2, <3>3, <4>1 DEF ReaperNext, ListAndCap, ReadActive, CloseGhost, SweepAborts,
           RowAges, JitExpires
    <3>4. QED
      BY <1>2, <3>1, <3>2, <3>3
  <2>5. QED
    BY <2>1, <2>4
<1>3. QED
  BY <1>1, <1>2 DEF Next

-----------------------------------------------------------------------------
(* What one step may do to records, rows and invocations                   *)

(* A row is as young as it was or younger, or time passed while neither a  *)
(* sweep nor an invocation of its group was under way; and only a stamp    *)
(* gives it another VM id.                                                 *)
RowsYoung ==
  \A r \in Runs :
    \/ row'[r].age \in {"fresh", row[r].age}
    \/ reaper.pc = "idle" /\ UNCHANGED reaper /\ worker[GroupOf[r]].pc = "idle" /\ UNCHANGED worker

RowsStamped ==
  \A r \in Runs :
    \/ row'[r].vm = row[r].vm
    \/ \E g \in Groups : Stamp(g) /\ Cur(g) = r /\ row'[r].vm = worker[g].vm

LEMMA StepYoung ==
  ASSUME IInv, [Next]_vars
  PROVE  RowsYoung /\ RowsStamped
<1>a. TypeOK /\ row \in [Runs -> RowType]
  BY DEF IInv, TypeOK
<1>1. ASSUME NEW r, NEW to, row' = Moved(r, to) \/ Transition(r, to) \/ UNCHANGED row
      PROVE  RowsYoung /\ RowsStamped
  <2>1. RowsYoung
    BY <1>a, <1>1 DEF Moved, Transition, RowsYoung, RowType
  <2>2. RowsStamped
    BY <1>a, <1>1, StatusKeepsStamps DEF KeepsStamps, RowsStamped
  <2>3. QED
    BY <2>1, <2>2
<1>2. CASE IngestNext
  BY <1>1, <1>2 DEF IngestNext, ClaimJob, PutQueuedRun, DedupWindowCloses, StatusInProgress,
     StatusCompleted
<1>3. CASE ProvisionNext
  <2>1. PICK g \in Groups : Receive(g) \/ InvocationStep(g) \/ Crash(g)
    BY <1>3 DEF ProvisionNext
  <2>2. CASE \E m \in Msgs : Guard(g, m)
    BY <1>1, <2>2 DEF Guard
  <2>3. CASE Refuse(g) \/ LaunchFailed(g) \/ LaunchAnswerLost(g) \/ MarkRunning(g)
    BY <1>1, <2>3 DEF Refuse, LaunchFailed, LaunchAnswerLost, MarkRunning, FailRun
  <2>4. CASE Stamp(g)
    <3>1. CASE UNCHANGED row
      BY <1>1, <3>1
    <3>2. CASE row' = [row EXCEPT ![Cur(g)].vm = worker[g].vm, ![Cur(g)].tok = worker[g].tok]
      <4>0. Cur(g) \in Runs
        BY <2>4, CurIsRun DEF Stamp, Launching, IInv
      <4>1. \A r \in Runs : /\ row'[r].age = row[r].age
                            /\ \/ row'[r].vm = row[r].vm
                               \/ Cur(g) = r /\ row'[r].vm = worker[g].vm
        BY <1>a, <3>2, <4>0 DEF RowType
      <4>2. RowsStamped
        BY <2>4, <4>1 DEF RowsStamped
      <4>3. RowsYoung
        BY <4>1 DEF RowsYoung
      <4>4. QED
        BY <4>2, <4>3
    <3>3. QED
      BY <2>4, <3>1, <3>2 DEF Stamp
  <2>5. CASE Receive(g) \/ Retry(g) \/ MintAndStash(g) \/ Launch(g) \/ LaunchThrottled(g) \/ Finish(g) \/ Crash(g)
    BY <1>1, <2>5 DEF Receive, Retry, MintAndStash, Launch, LaunchThrottled, Finish, Crash
  <2>6. QED
    BY <2>1, <2>2, <2>3, <2>4, <2>5 DEF InvocationStep
<1>4. CASE ComputeNext
  BY <1>1, <1>4 DEF ComputeNext, BootFetch, RunnerExits, SelfTerminate, VmDies, AssignJob, CancelJob
<1>5. CASE ReaperNext
  <2>1. ASSUME NEW r \in Runs, RowAges(r) PROVE RowsYoung /\ RowsStamped
    <3>1. /\ row'[r].vm = row[r].vm
          /\ \A q \in Runs \ {r} : row'[q] = row[q]
      BY <1>a, <2>1 DEF RowAges, RowType
    <3>2. QED
      BY <2>1, <3>1 DEF RowAges, RowsYoung, RowsStamped
  <2>2. QED
    BY <1>1, <1>5, <2>1 DEF ReaperNext, ListAndCap, ReadActive, CloseGhost, SweepAborts, JitExpires, VmAges
<1>6. QED
  BY <1>1, <1>2, <1>3, <1>4, <1>5 DEF Next, vars

(* A step of one invocation leaves the others and their records alone.     *)
LEMMA ProvisionScope ==
  ASSUME IInv, NEW g \in Groups, Receive(g) \/ InvocationStep(g) \/ Crash(g)
  PROVE  /\ \A h \in Groups \ {g} : worker'[h] = worker[h]
         /\ \A m \in Msgs : GroupOf[RunOf(m)] # g => msg'[m] = msg[m]
<1>a. TypeOK /\ InvocationCarries
  BY DEF IInv
<1>1. CASE Receive(g)
  BY <1>a, <1>1 DEF Receive, Visible, TypeOK
<1>2. CASE \E m \in Msgs : Guard(g, m)
  BY <1>a, <1>2 DEF Guard, TypeOK
<1>3. CASE Refuse(g) \/ Retry(g) \/ LaunchThrottled(g) \/ LaunchFailed(g)
           \/ LaunchAnswerLost(g) \/ MarkRunning(g)
  <2>1. Launching(g) /\ \E s : Settle(g, s)
    BY <1>3 DEF Refuse, Retry, LaunchThrottled, LaunchFailed, LaunchAnswerLost, MarkRunning,
       Consume, Throw, Launching
  <2>2. worker[g].cur \in Msgs /\ GroupOf[RunOf(worker[g].cur)] = g
    BY <1>a, <2>1, CurIsRun DEF Cur
  <2>3. QED
    BY <1>a, <2>1, <2>2 DEF Settle, TypeOK
<1>4. CASE MintAndStash(g) \/ Launch(g) \/ Stamp(g)
  BY <1>a, <1>4 DEF MintAndStash, Launch, Stamp, TypeOK
<1>5. CASE Finish(g) \/ Crash(g)
  BY <1>a, <1>5 DEF Finish, Crash, Batch, TypeOK
<1>6. QED
  BY <1>1, <1>2, <1>3, <1>4, <1>5 DEF InvocationStep

(* What a step does to the invocation that takes it.                       *)
Passes(g, m) ==
  /\ Guard(g, m)
  /\ worker[g].pc = "next" /\ worker'[g].pc = "mint" /\ worker'[g].cur = m
  /\ UNCHANGED <<msg, vm>>

GoesOn(g) ==
  /\ Launching(g) /\ Launching(g)' /\ worker'[g].cur = worker[g].cur
  /\ UNCHANGED msg
  /\ \/ MintAndStash(g) /\ worker[g].pc = "mint" /\ worker'[g].pc = "launch"
     \/ Launch(g) /\ worker[g].pc = "launch" /\ worker'[g].pc = "stamp"
     \/ Stamp(g) /\ worker[g].pc = "stamp" /\ worker'[g].pc = "mark"

LetsGo(g) == worker'[g].pc \in {"idle", "next"}

LEMMA ProvisionMove ==
  ASSUME IInv, NEW g \in Groups, Receive(g) \/ InvocationStep(g) \/ Crash(g)
  PROVE  \/ LetsGo(g)
         \/ \E m \in Msgs : Passes(g, m)
         \/ GoesOn(g)
<1>a. TypeOK
  BY DEF IInv
<1>1. CASE Receive(g) \/ Finish(g) \/ Crash(g)
  <2>1. worker' = [worker EXCEPT ![g].pc = "next"] \/ worker' = [worker EXCEPT ![g] = IdleWorker]
    BY <1>1 DEF Receive, Finish, Crash
  <2>2. QED
    BY <1>a, <2>1 DEF LetsGo, TypeOK, WorkerType, IdleWorker
<1>2. ASSUME NEW m \in Msgs, Guard(g, m) PROVE LetsGo(g) \/ Passes(g, m)
  BY <1>a, <1>2 DEF Guard, LetsGo, Passes, TypeOK, WorkerType
<1>3. CASE Refuse(g) \/ Retry(g) \/ LaunchThrottled(g) \/ LaunchFailed(g)
           \/ LaunchAnswerLost(g) \/ MarkRunning(g)
  <2>1. \E s : Settle(g, s)
    BY <1>3 DEF Refuse, Retry, LaunchThrottled, LaunchFailed, LaunchAnswerLost, MarkRunning,
       Consume, Throw
  <2>2. QED
    BY <1>a, <2>1 DEF Settle, LetsGo, TypeOK, WorkerType, IdleWorker
<1>4. CASE MintAndStash(g)
  <2>1. /\ worker[g].pc = "mint" /\ worker'[g].pc = "launch"
        /\ worker'[g].cur = worker[g].cur /\ UNCHANGED msg
    BY <1>a, <1>4 DEF MintAndStash, TypeOK, WorkerType
  <2>2. QED
    BY <1>4, <2>1 DEF GoesOn, Launching
<1>5. CASE Launch(g)
  <2>1. /\ worker[g].pc = "launch" /\ worker'[g].pc = "stamp"
        /\ worker'[g].cur = worker[g].cur /\ UNCHANGED msg
    BY <1>a, <1>5 DEF Launch, TypeOK, WorkerType
  <2>2. QED
    BY <1>5, <2>1 DEF GoesOn, Launching
<1>6. CASE Stamp(g)
  <2>1. /\ worker[g].pc = "stamp" /\ worker'[g].pc = "mark"
        /\ worker'[g].cur = worker[g].cur /\ UNCHANGED msg
    BY <1>a, <1>6 DEF Stamp, TypeOK, WorkerType
  <2>2. QED
    BY <1>6, <2>1 DEF GoesOn, Launching
<1>7. QED
  BY <1>1, <1>2, <1>3, <1>4, <1>5, <1>6 DEF InvocationStep

(* Everyone else at most sends a record.                                   *)
LEMMA OthersMsgs ==
  ASSUME IInv, IngestNext \/ ComputeNext \/ ReaperNext \/ UNCHANGED vars
  PROVE  /\ UNCHANGED worker
         /\ \A m \in Msgs :
              \/ msg'[m] = msg[m]
              \/ /\ msg[m].state = "unsent" /\ msg'[m].state = "visible"
                 /\ row'[RunOf(m)].status # Absent \/ "put" \in mishaps'[RunOf(m)]
<1>a. TypeOK
  BY DEF IInv
<1>1. UNCHANGED worker
  BY OthersKeep
<1>2. CASE UNCHANGED msg
  BY <1>1, <1>2
<1>3. ASSUME NEW r \in Runs, ClaimJob(r), ~UNCHANGED msg
      PROVE  \A m \in Msgs :
              \/ msg'[m] = msg[m]
              \/ /\ msg[m].state = "unsent" /\ msg'[m].state = "visible"
                 /\ row'[RunOf(m)].status # Absent \/ "put" \in mishaps'[RunOf(m)]
  <2>1. PICK i \in Unsent(r) : msg' = [msg EXCEPT ![<<r, i>>].state = "visible"]
    BY <1>3 DEF ClaimJob, Enqueue
  <2>2. <<r, i>> \in Msgs /\ msg[<<r, i>>].state = "unsent" /\ RunOf(<<r, i>>) = r
    BY <2>1 DEF Unsent, Msgs, RunOf
  <2>3. /\ msg'[<<r, i>>].state = "visible"
        /\ \A m \in Msgs \ {<<r, i>>} : msg'[m] = msg[m]
    BY <1>a, <2>1, <2>2 DEF TypeOK, MsgType
  <2>4. row'[r].status # Absent \/ "put" \in mishaps'[r]
    <3>1. CASE PutQueuedRun(r)
      BY <1>a, <3>1 DEF PutQueuedRun, Moved, TypeOK, RowType, Absent
    <3>2. CASE Mishap(r, "put")
      BY <1>a, <3>2 DEF Mishap, TypeOK
    <3>3. QED
      BY <1>3, <3>1, <3>2 DEF ClaimJob
  <2>5. QED
    BY <2>2, <2>3, <2>4
<1>4. CASE IngestNext
  BY <1>1, <1>2, <1>3, <1>4 DEF IngestNext, DedupWindowCloses, StatusInProgress, StatusCompleted
<1>5. CASE ComputeNext
  BY <1>2, <1>5 DEF ComputeNext, BootFetch, RunnerExits, SelfTerminate, VmDies, AssignJob, CancelJob
<1>6. CASE ReaperNext
  BY <1>2, <1>6 DEF ReaperNext, ListAndCap, ReadActive, CloseGhost, SweepAborts, RowAges, JitExpires, VmAges
<1>7. QED
  BY <1>2, <1>4, <1>5, <1>6 DEF vars

-----------------------------------------------------------------------------
(* The strengthened invariant, part by part                                *)

LEMMA KeepUnlaunched ==
  ASSUME IInv, UnlaunchedVms, [Next]_vars
  PROVE  UnlaunchedVms'
<1>a. vm \in [VMs -> VmType]
  BY DEF IInv, TypeOK
<1>1. CASE KeepsVms
  BY <1>1 DEF UnlaunchedVms, KeepsVms, KeepsVm
<1>2. ASSUME NEW g \in Groups, NEW v \in VMs, Launches(g, v)
      PROVE  UnlaunchedVms'
  BY <1>a, <1>2 DEF Launches, UnlaunchedVms, Booted, NoVm
<1>3. CASE ProvisionNext
  BY <1>1, <1>2, <1>3, ProvisionVms DEF ProvisionNext, KeepsVms, KeepsVm
<1>4. QED
  BY <1>1, <1>3, OthersKeep DEF Next

(* A launched VM stays in the set of its run's; without a launch the sets  *)
(* stay as they are.                                                       *)
LEMMA LaunchedGrows ==
  ASSUME IInv, UnlaunchedVms, [Next]_vars, NEW r \in Runs
  PROVE  Launched(r) \subseteq Launched(r)'
<1>1. \A v \in VMs : vm[v].state = "none" => vm[v].run # r
  BY NoneAssumption DEF UnlaunchedVms
<1>2. QED
  BY <1>1, StepVms DEF Launched, VmsStay

LEMMA GuardedRowLasts ==
  ASSUME IInv, [Next]_vars, NEW g \in Groups, NEW r \in Runs,
         GroupOf[r] = g, worker[g].pc # "idle",
         \/ row[r].status # Absent /\ row[r].age = "fresh"
         \/ "guard" \in mishaps[r]
  PROVE  \/ row'[r].status # Absent /\ row'[r].age = "fresh"
         \/ "guard" \in mishaps'[r]
BY StepMishaps, StepRows, StepYoung DEF MishapsGrow, RowsAdvance, RowsYoung

LEMMA KeepGuardedRow ==
  ASSUME IInv, GuardedRow, [Next]_vars
  PROVE  GuardedRow'
<1>a. TypeOK /\ InvocationCarries
  BY DEF IInv
<1>b. ASSUME NEW g \in Groups, Launching(g), Launching(g)', worker'[g].cur = worker[g].cur,
             msg'[worker[g].cur].state = msg[worker[g].cur].state
      PROVE  /\ msg'[worker'[g].cur].state = "inflight"
             /\ \/ row'[Cur(g)'].status # Absent /\ row'[Cur(g)'].age = "fresh"
                \/ "guard" \in mishaps'[Cur(g)']
  <2>1. /\ Cur(g) \in Runs /\ GroupOf[Cur(g)] = g
        /\ Cur(g)' = Cur(g) /\ worker[g].pc # "idle"
    BY <1>a, <1>b, CurIsRun DEF Cur, Launching
  <2>2. QED
    BY <1>b, <2>1, GuardedRowLasts DEF GuardedRow
<1>1. CASE IngestNext \/ ComputeNext \/ ReaperNext \/ UNCHANGED vars
  <2>1. /\ UNCHANGED worker
        /\ \A m \in Msgs : msg'[m] = msg[m] \/ msg[m].state = "unsent"
    BY <1>1, OthersMsgs
  <2>2. ASSUME NEW g \in Groups, Launching(g)'
        PROVE  /\ Launching(g) /\ worker'[g].cur = worker[g].cur
               /\ msg'[worker[g].cur].state = msg[worker[g].cur].state
    <3>1. Launching(g) /\ worker[g].cur \in Msgs
      BY <2>1, <2>2, CurIsRun, <1>a DEF Launching
    <3>2. QED
      BY <2>1, <3>1 DEF GuardedRow
  <2>3. QED
    BY <1>b, <2>2 DEF GuardedRow
<1>2. CASE ProvisionNext
  <2>1. PICK g \in Groups : Receive(g) \/ InvocationStep(g) \/ Crash(g)
    BY <1>2 DEF ProvisionNext
  <2>2. ASSUME NEW h \in Groups, h # g, Launching(h)'
        PROVE  /\ Launching(h) /\ worker'[h].cur = worker[h].cur
               /\ msg'[worker[h].cur].state = msg[worker[h].cur].state
    <3>1. worker'[h] = worker[h] /\ Launching(h)
      BY <2>1, <2>2, ProvisionScope DEF Launching
    <3>2. worker[h].cur \in Msgs /\ GroupOf[RunOf(worker[h].cur)] = h
      BY <1>a, <3>1, CurIsRun DEF Cur
    <3>3. QED
      BY <2>1, <2>2, <3>1, <3>2, ProvisionScope
  <2>3. CASE LetsGo(g)
    BY <1>b, <2>2, <2>3 DEF GuardedRow, LetsGo, Launching
  <2>4. CASE GoesOn(g)
    BY <1>b, <2>2, <2>4 DEF GuardedRow, GoesOn
  <2>5. ASSUME NEW m \in Msgs, Passes(g, m)
        PROVE  GuardedRow'
    <3>1. RunOf(m) \in Runs /\ Cur(g)' = RunOf(m) /\ worker'[g].cur = m
      BY <2>5 DEF Passes, Cur, Msgs, RunOf
    <3>2. msg'[m].state = "inflight"
      BY <2>5 DEF Passes, Guard
    <3>3. \/ row'[RunOf(m)].status # Absent /\ row'[RunOf(m)].age = "fresh"
          \/ "guard" \in mishaps'[RunOf(m)]
      <4>1. CASE row' = Moved(RunOf(m), "provisioning")
        BY <1>a, <3>1, <4>1 DEF Moved, TypeOK, RowType, Absent
      <4>2. CASE Mishap(RunOf(m), "guard")
        BY <1>a, <3>1, <4>2 DEF Mishap, TypeOK
      <4>3. QED
        BY <2>5, <4>1, <4>2 DEF Passes, Guard
    <3>4. QED
      BY <1>b, <2>2, <3>1, <3>2, <3>3 DEF GuardedRow
  <2>6. QED
    BY <2>1, <2>3, <2>4, <2>5, ProvisionMove
<1>3. QED
  BY <1>1, <1>2 DEF Next

(* A record leaves "unsent" only by a send.                                *)
LEMMA KeepSentHasRow ==
  ASSUME IInv, GuardedRow, SentHasRow, [Next]_vars
  PROVE  SentHasRow'
<1>a. TypeOK /\ InvocationCarries
  BY DEF IInv
<1>b. \A m \in Msgs : RunOf(m) \in Runs
  BY DEF Msgs, RunOf
<1>1. \A m \in Msgs : \/ msg[m].state # "unsent" \/ msg'[m].state = "unsent"
                      \/ row'[RunOf(m)].status # Absent \/ "put" \in mishaps'[RunOf(m)]
  <2>1. CASE IngestNext \/ ComputeNext \/ ReaperNext \/ UNCHANGED vars
    BY <2>1, OthersMsgs
  <2>2. CASE ProvisionNext
    <3>1. PICK g \in Groups : Receive(g) \/ InvocationStep(g) \/ Crash(g)
      BY <2>2 DEF ProvisionNext
    <3>2. CASE Receive(g) \/ Finish(g) \/ Crash(g)
      BY <1>a, <3>2 DEF Receive, Finish, Crash, Visible, Batch, TypeOK
    <3>3. CASE \E m \in Msgs : Guard(g, m)
      BY <1>a, <3>3 DEF Guard, TypeOK, MsgType
    <3>4. CASE Refuse(g) \/ Retry(g) \/ LaunchThrottled(g) \/ LaunchFailed(g)
               \/ LaunchAnswerLost(g) \/ MarkRunning(g)
      <4>1. Launching(g) /\ \E s : Settle(g, s)
        BY <3>4 DEF Refuse, Retry, LaunchThrottled, LaunchFailed, LaunchAnswerLost, MarkRunning,
           Consume, Throw, Launching
      <4>2. msg[worker[g].cur].state = "inflight"
        BY <4>1 DEF GuardedRow
      <4>3. QED
        BY <1>a, <4>1, <4>2 DEF Settle, TypeOK, MsgType
    <3>5. CASE MintAndStash(g) \/ Launch(g) \/ Stamp(g)
      BY <3>5 DEF MintAndStash, Launch, Stamp
    <3>6. QED
      BY <3>1, <3>2, <3>3, <3>4, <3>5 DEF InvocationStep
  <2>3. QED
    BY <2>1, <2>2 DEF Next
<1>2. QED
  BY <1>1, <1>b, StepMishaps, StepRows DEF SentHasRow, MishapsGrow, RowsAdvance

(* A settled run stays settled.                                            *)
LEMMA SettledLasts ==
  ASSUME IInv, UnlaunchedVms, [Next]_vars, NEW r \in Runs, Settled(r)
  PROVE  Settled(r)'
<1>1. Launched(r) # {} => Launched(r)' # {}
  BY LaunchedGrows
<1>2. IsTerminal(row[r].status) => IsTerminal(row'[r].status)
  BY StepRows DEF RowsAdvance
<1>3. QED
  BY <1>1, <1>2, StepJobs, StepMishaps DEF Settled, JobsLeave, MishapsGrow

(* An invocation past its launch has launched for its run.                 *)
LEMMA StampedIsLaunched ==
  ASSUME IInv, NEW g \in Groups, worker[g].pc \in {"stamp", "mark"}
  PROVE  worker[g].vm \in Launched(Cur(g))
BY DEF IInv, InvocationCarries, Launched

(* Two writes make a row `running`.                                        *)
LEMMA StepRunning ==
  ASSUME IInv, [Next]_vars, NEW r \in Runs, row'[r].status = "running"
  PROVE  \/ row[r].status = "running"
         \/ StatusInProgress(r)
         \/ \E g \in Groups : MarkRunning(g) /\ Cur(g) = r
<1>a. row \in [Runs -> RowType]
  BY DEF IInv, TypeOK
<1>1. CASE row'[r].status = row[r].status
  BY <1>1
<1>2. ASSUME NEW q, NEW to, row' = Moved(q, to) \/ Transition(q, to) \/ UNCHANGED row,
             to # "running" \/ q # r
      PROVE  row[r].status = "running"
  BY <1>a, <1>2 DEF Transition, Moved, RowType
<1>3. CASE IngestNext
  <2>1. PICK q \in Runs : \/ ClaimJob(q) \/ DedupWindowCloses(q)
                          \/ StatusInProgress(q) \/ StatusCompleted(q)
    BY <1>3 DEF IngestNext
  <2>2. CASE ClaimJob(q) \/ DedupWindowCloses(q) \/ StatusCompleted(q)
    BY <1>1, <1>2, <2>2 DEF ClaimJob, PutQueuedRun, DedupWindowCloses, StatusCompleted, CompletionStatus
  <2>3. CASE StatusInProgress(q)
    BY <1>2, <2>3 DEF StatusInProgress
  <2>4. QED
    BY <2>1, <2>2, <2>3
<1>4. CASE ProvisionNext
  <2>1. PICK g \in Groups : Receive(g) \/ InvocationStep(g) \/ Crash(g)
    BY <1>4 DEF ProvisionNext
  <2>2. CASE \E m \in Msgs : Guard(g, m)
    BY <1>1, <1>2, <2>2 DEF Guard
  <2>3. CASE Refuse(g) \/ LaunchFailed(g) \/ LaunchAnswerLost(g)
    BY <1>1, <1>2, <2>3 DEF Refuse, LaunchFailed, LaunchAnswerLost, FailRun
  <2>4. CASE MarkRunning(g)
    BY <1>1, <1>2, <2>4 DEF MarkRunning
  <2>5. CASE Stamp(g)
    BY <1>1, <1>a, <2>5 DEF Stamp, RowType
  <2>6. CASE Receive(g) \/ Retry(g) \/ MintAndStash(g) \/ Launch(g) \/ LaunchThrottled(g) \/ Finish(g) \/ Crash(g)
    BY <1>1, <2>6 DEF Receive, Retry, MintAndStash, Launch, LaunchThrottled, Finish, Crash
  <2>7. QED
    BY <2>1, <2>2, <2>3, <2>4, <2>5, <2>6 DEF InvocationStep
<1>5. CASE ComputeNext
  BY <1>1, <1>5 DEF ComputeNext, BootFetch, RunnerExits, SelfTerminate, VmDies, AssignJob, CancelJob
<1>6. CASE ReaperNext
  <2>1. CASE CloseGhost
    <3>1. PICK d \in reaper.todo : Transition(d.run, d.to)
      BY <2>1 DEF CloseGhost
    <3>2. d.to # "running"
      BY DEF IInv, TypeOK, ReaperType, Disposition
    <3>3. QED
      BY <1>2, <3>1, <3>2
  <2>2. ASSUME NEW q \in Runs, RowAges(q) PROVE row'[r].status = row[r].status
    BY <1>a, <2>2 DEF RowAges, RowType
  <2>3. QED
    BY <1>1, <1>6, <2>1, <2>2 DEF ReaperNext, ListAndCap, ReadActive, SweepAborts, JitExpires, VmAges
<1>7. QED
  BY <1>1, <1>3, <1>4, <1>5, <1>6 DEF Next, vars

(* A record is consumed by the guard, by a refusal or by the `running`     *)
(* mark.                                                                   *)
LEMMA StepConsumes ==
  ASSUME IInv, [Next]_vars, NEW m \in Msgs, msg'[m].state \in {"acked", "deleted"}
  PROVE  \/ msg[m].state \in {"acked", "deleted"}
         \/ \E g \in Groups :
              \/ /\ Guard(g, m)
                 /\ ~CanTransition(row[RunOf(m)].status, "provisioning")
              \/ (Refuse(g) \/ MarkRunning(g)) /\ worker[g].cur = m
<1>a. TypeOK /\ InvocationCarries
  BY DEF IInv
<1>1. CASE IngestNext \/ ComputeNext \/ ReaperNext \/ UNCHANGED vars
  BY <1>1, OthersMsgs
<1>2. CASE ProvisionNext
  <2>1. PICK g \in Groups : Receive(g) \/ InvocationStep(g) \/ Crash(g)
    BY <1>2 DEF ProvisionNext
  <2>2. CASE Receive(g)
    <3>1. PICK B : msg' = [n \in Msgs |-> IF n \in B
                                          THEN [msg[n] EXCEPT !.state = "inflight", !.n = @ + 1]
                                          ELSE msg[n]]
      BY <2>2 DEF Receive
    <3>2. msg'[m] = msg[m] \/ msg'[m].state = "inflight"
      BY <1>a, <3>1 DEF TypeOK, MsgType
    <3>3. QED
      BY <3>2
  <2>3. CASE Finish(g) \/ Crash(g)
    <3>1. HandedBack(m).state \in {"dlq", "visible"}
      BY <1>a DEF HandedBack, TypeOK, MsgType
    <3>2. QED
      BY <1>a, <2>3, <3>1 DEF Finish, Crash, TypeOK
  <2>4. ASSUME NEW n \in Msgs, Guard(g, n)
        PROVE  \/ msg[m].state \in {"acked", "deleted"}
               \/ n = m /\ ~CanTransition(row[RunOf(m)].status, "provisioning")
    BY <1>a, <2>4 DEF Guard, TypeOK, MsgType
  <2>5. CASE Refuse(g) \/ MarkRunning(g)
    <3>1. msg'[m] = msg[m] \/ worker[g].cur = m
      BY <1>a, <2>5 DEF Refuse, MarkRunning, Consume, Settle, TypeOK
    <3>2. QED
      BY <2>5, <3>1
  <2>6. CASE Retry(g) \/ LaunchThrottled(g) \/ LaunchFailed(g) \/ LaunchAnswerLost(g)
    <3>1. Settle(g, "failed")
      BY <2>6 DEF Retry, LaunchThrottled, LaunchFailed, LaunchAnswerLost, Throw
    <3>2. msg'[m].state \in {"failed", msg[m].state}
      BY <1>a, <3>1 DEF Settle, TypeOK, MsgType
    <3>3. QED
      BY <3>2
  <2>7. CASE MintAndStash(g) \/ Launch(g) \/ Stamp(g)
    BY <2>7 DEF MintAndStash, Launch, Stamp
  <2>8. QED
    BY <2>1, <2>2, <2>3, <2>4, <2>5, <2>6, <2>7 DEF InvocationStep
<1>3. QED
  BY <1>1, <1>2 DEF Next

LEMMA KeepSettledRuns ==
  ASSUME IInv, UnlaunchedVms, GuardedRow, SentHasRow, SettledRuns, [Next]_vars
  PROVE  SettledRuns'
<1>a. TypeOK /\ InvocationCarries
  BY DEF IInv
<1>1. ASSUME NEW r \in Runs, row'[r].status = "running" PROVE Settled(r)'
  <2>1. CASE row[r].status = "running"
    BY <2>1, SettledLasts DEF SettledRuns
  <2>2. CASE StatusInProgress(r)
    BY <2>2, SettledLasts DEF StatusInProgress, Settled
  <2>3. ASSUME NEW g \in Groups, MarkRunning(g), Cur(g) = r PROVE Settled(r)'
    <3>1. worker[g].vm \in Launched(r)
      BY <2>3, StampedIsLaunched DEF MarkRunning
    <3>2. QED
      BY <3>1, SettledLasts DEF Settled
  <2>4. QED
    BY <1>1, <2>1, <2>2, <2>3, StepRunning
<1>2. ASSUME NEW m \in Msgs, msg'[m].state \in {"acked", "deleted"} PROVE Settled(RunOf(m))'
  <2> DEFINE r == RunOf(m)
  <2>r. r \in Runs /\ row[r].status \in RowStatus
    BY <1>a DEF Msgs, RunOf, TypeOK, RowType
  <2>1. CASE msg[m].state \in {"acked", "deleted"}
    BY <2>1, <2>r, SettledLasts DEF SettledRuns
  <2>2. ASSUME row[r].status = Absent, msg[m].state = "inflight" PROVE Settled(r)'
    BY <2>2, <2>r, SettledLasts DEF SentHasRow, Settled
  <2>3. ASSUME NEW g \in Groups, Guard(g, m), ~CanTransition(row[r].status, "provisioning")
        PROVE  Settled(r)'
    <3>1. row[r].status \notin {"queued", "provisioning"}
      BY <2>3 DEF CanTransition, IsTerminal, Terminal, Status, Active, StatusRank
    <3>2. CASE row[r].status = Absent
      BY <2>2, <2>3, <3>2 DEF Guard
    <3>3. CASE row[r].status = "running" \/ IsTerminal(row[r].status)
      BY <2>r, <3>3, SettledLasts DEF SettledRuns, Settled
    <3>4. QED
      BY <2>r, <3>1, <3>2, <3>3 DEF RowStatus, Status, Active, IsTerminal
  <2>4. ASSUME NEW g \in Groups, Refuse(g), worker[g].cur = m
        PROVE  Settled(r)'
    <3>1. Cur(g) = r /\ msg[m].state = "inflight"
      BY <2>4 DEF Cur, Refuse, Launching, GuardedRow
    <3>2. CASE Mishap(r, "refuse")
      BY <1>a, <2>r, <3>2 DEF Mishap, TypeOK, Settled
    <3>3. CASE Transition(r, "failed")
      <4>1. CASE CanTransition(row[r].status, "failed")
        BY <1>a, <2>r, <3>3, <4>1 DEF Transition, Moved, TypeOK, RowType, Settled, IsTerminal, Terminal
      <4>2. CASE ~CanTransition(row[r].status, "failed")
        <5>1. row[r].status \notin Active
          BY <4>2 DEF CanTransition, IsTerminal, Terminal, Status, Active, StatusRank
        <5>2. CASE row[r].status = Absent
          BY <2>2, <3>1, <5>2
        <5>3. CASE IsTerminal(row[r].status)
          BY <2>r, <5>3, SettledLasts DEF Settled
        <5>4. QED
          BY <2>r, <5>1, <5>2, <5>3 DEF RowStatus, Status, IsTerminal
      <4>3. QED
        BY <4>1, <4>2
    <3>4. QED
      BY <2>4, <3>1, <3>2, <3>3 DEF Refuse, FailRun
  <2>5. ASSUME NEW g \in Groups, MarkRunning(g), worker[g].cur = m
        PROVE  Settled(r)'
    <3>1. worker[g].vm \in Launched(r)
      BY <2>5, StampedIsLaunched DEF MarkRunning, Cur
    <3>2. QED
      BY <2>r, <3>1, SettledLasts DEF Settled
  <2>6. QED
    BY <1>2, <2>1, <2>3, <2>4, <2>5, StepConsumes
<1>3. QED
  BY <1>1, <1>2 DEF SettledRuns

(* An invocation past its launch ends with the mark, or dies.              *)
LEMMA LateEnds ==
  ASSUME IInv, NEW g \in Groups, Receive(g) \/ InvocationStep(g) \/ Crash(g),
         worker[g].pc \in {"stamp", "mark"}, LetsGo(g)
  PROVE  MarkRunning(g) \/ Crash(g)
<1>1. ~Stamp(g)
  BY DEF IInv, TypeOK, WorkerType, Stamp, LetsGo
<1>2. QED
  BY <1>1 DEF InvocationStep, Receive, Guard, Refuse, Retry, MintAndStash, Launch,
     LaunchThrottled, LaunchFailed, LaunchAnswerLost, Finish

LEMMA LaunchGoesOn ==
  ASSUME IInv, NEW g \in Groups, Launch(g)
  PROVE  ~LetsGo(g)
BY DEF IInv, TypeOK, WorkerType, Launch, LetsGo

(* A mint or a launch begins only behind a guard that let it.              *)
LEMMA KeepOneLaunch ==
  ASSUME IInv, UnlaunchedVms, GuardedRow, OneLaunch, [Next]_vars
  PROVE  OneLaunch'
<1>a. TypeOK /\ InvocationCarries
  BY DEF IInv
<1> SUFFICES ASSUME NEW r \in Runs, ~Refaulted(r)'
             PROVE  /\ \A v, w \in Launched(r)' : v = w
                    /\ \A g \in Groups :
                         worker'[g].pc \in {"mint", "launch"} /\ Cur(g)' = r => Launched(r)' = {}
                    /\ Launched(r)' # {} =>
                         \/ \E g \in Groups : worker'[g].pc \in {"stamp", "mark"} /\ Cur(g)' = r
                         \/ row'[r].status \in Terminal \union {"running"}
  BY DEF OneLaunch
<1>b. ~Refaulted(r)
  BY StepMishaps DEF Refaulted, MishapsGrow
<1>c. /\ \A v, w \in Launched(r) : v = w
      /\ \A g \in Groups : worker[g].pc \in {"mint", "launch"} /\ Cur(g) = r => Launched(r) = {}
      /\ Launched(r) # {} =>
           \/ \E g \in Groups : worker[g].pc \in {"stamp", "mark"} /\ Cur(g) = r
           \/ row[r].status \in Terminal \union {"running"}
  BY <1>b DEF OneLaunch
<1>d. row[r].status \in Terminal \union {"running"} => row'[r].status \in Terminal \union {"running"}
  BY StepRows DEF RowsAdvance, IsTerminal
<1>e. ASSUME KeepsVms PROVE Launched(r)' = Launched(r)
  BY <1>e DEF Launched, KeepsVms, KeepsVm
<1>f. \A g \in Groups : Launching(g) /\ Cur(g) = r => g = GroupOf[r]
  BY <1>a, CurIsRun
<1>1. CASE IngestNext \/ ComputeNext \/ ReaperNext \/ UNCHANGED vars
  <2>1. KeepsVms /\ UNCHANGED worker
    BY <1>1, OthersKeep
  <2>2. QED
    BY <1>c, <1>d, <1>e, <2>1 DEF Cur
<1>2. CASE ProvisionNext
  <2>1. PICK g \in Groups : Receive(g) \/ InvocationStep(g) \/ Crash(g)
    BY <1>2 DEF ProvisionNext
  <2>2. \A h \in Groups \ {g} : worker'[h] = worker[h]
    BY <2>1, ProvisionScope
  <2>3. \A h \in Groups \ {g} : worker'[h].pc = worker[h].pc /\ Cur(h)' = Cur(h)
    BY <2>2 DEF Cur
  <2>4. \A v \in VMs : vm[v].state = "none" => v \notin Launched(r)
    BY NoneAssumption DEF UnlaunchedVms, Launched
  (* The step that launches. *)
  <2>5. ASSUME NEW v \in VMs, Launches(g, v)
        PROVE  /\ Cur(g) # r => Launched(r)' = Launched(r)
               /\ Cur(g) = r => Launched(r)' = {v}
    <3>1. Cur(g) \in Runs /\ Launching(g)
      BY <1>a, <2>5, CurIsRun DEF Launches, Launching
    <3>2. /\ vm'[v].run = Cur(g)
          /\ \A w \in VMs \ {v} : vm'[w] = vm[w]
      BY <2>5, LaunchKeeps DEF Launches
    <3>3. Cur(g) = r => Launched(r) = {}
      BY <1>c, <2>5 DEF Launches
    <3>4. v \notin Launched(r)
      BY <2>4, <2>5 DEF Launches
    <3>5. QED
      BY <3>2, <3>3, <3>4 DEF Launched
  (* The invocation goes on to its next step. *)
  <2>6. CASE GoesOn(g)
    <3>1. Cur(g)' = Cur(g)
      BY <2>6 DEF GoesOn, Cur
    <3>2. CASE MintAndStash(g) \/ Stamp(g)
      <4>1. KeepsVms
        BY <3>2 DEF MintAndStash, Stamp, KeepsVms, KeepsVm
      <4>2. CASE worker[g].pc = "mint" /\ worker'[g].pc = "launch"
        BY <1>c, <1>d, <1>e, <2>3, <3>1, <4>1, <4>2
      <4>3. CASE worker[g].pc = "stamp" /\ worker'[g].pc = "mark"
        BY <1>c, <1>d, <1>e, <2>3, <3>1, <4>1, <4>3
      <4>4. QED
        BY <2>6, <3>2, <4>2, <4>3 DEF GoesOn, MintAndStash, Stamp
    <3>3. CASE Launch(g)
      <4>1. PICK v \in VMs : Launches(g, v)
        BY <3>3 DEF Launch, Launches
      <4>2. worker[g].pc = "launch" /\ worker'[g].pc = "stamp"
        BY <2>6, <3>3 DEF GoesOn, Launch, MintAndStash, Stamp
      <4>3. CASE Cur(g) = r
        <5>1. Launched(r)' = {v}
          BY <2>5, <4>1, <4>3
        <5>2. \A h \in Groups : ~(worker'[h].pc \in {"mint", "launch"} /\ Cur(h)' = r)
          BY <1>f, <2>3, <4>2, <4>3 DEF Launching
        <5>3. QED
          BY <3>1, <4>2, <4>3, <5>1, <5>2
      <4>4. CASE Cur(g) # r
        BY <1>c, <1>d, <2>3, <2>5, <3>1, <4>1, <4>2, <4>4
      <4>5. QED
        BY <4>3, <4>4
    <3>4. QED
      BY <2>6, <3>2, <3>3 DEF GoesOn
  (* The guard lets a record pass. *)
  <2>7. ASSUME NEW m \in Msgs, Passes(g, m)
        PROVE  /\ \A v, w \in Launched(r)' : v = w
               /\ \A h \in Groups :
                    worker'[h].pc \in {"mint", "launch"} /\ Cur(h)' = r => Launched(r)' = {}
               /\ Launched(r)' # {} =>
                    \/ \E h \in Groups : worker'[h].pc \in {"stamp", "mark"} /\ Cur(h)' = r
                    \/ row'[r].status \in Terminal \union {"running"}
    <3>1. KeepsVms /\ worker[g].pc = "next" /\ worker'[g].pc = "mint" /\ Cur(g)' = RunOf(m)
          /\ GroupOf[RunOf(m)] = g
      BY <2>7 DEF Passes, Guard, KeepsVms, KeepsVm, Cur
    <3>2. CASE RunOf(m) = r
      <4>1. CanTransition(row[r].status, "provisioning")
        <5>1. ~Mishap(r, "guard")
          BY <1>a DEF Mishap, TypeOK, Refaulted
        <5>2. msg'[m].state = "inflight"
          BY <2>7 DEF Passes, Guard
        <5>3. QED
          BY <1>a, <2>7, <3>2, <5>1, <5>2 DEF Passes, Guard, TypeOK, MsgType
      <4>2. row[r].status \notin Terminal \union {"running"}
        BY <4>1 DEF CanTransition, IsTerminal, Terminal, Status, Active, StatusRank
      <4>3. \A h \in Groups : ~(worker[h].pc \in {"stamp", "mark"} /\ Cur(h) = r)
        BY <1>f, <3>1, <3>2 DEF Launching
      <4>4. Launched(r)' = {}
        BY <1>c, <1>e, <3>1, <4>2, <4>3
      <4>5. QED
        BY <4>4
    <3>3. CASE RunOf(m) # r
      BY <1>c, <1>d, <1>e, <2>3, <3>1, <3>3
    <3>4. QED
      BY <3>2, <3>3
  (* The invocation lets its record go. *)
  <2>8. CASE LetsGo(g)
    <3>1. worker'[g].pc \notin {"mint", "launch", "stamp", "mark"}
      BY <2>8 DEF LetsGo
    <3>2. UNCHANGED vm => Launched(r)' = Launched(r)
      BY <1>e DEF KeepsVms, KeepsVm
    <3>3. CASE ~(Launching(g) /\ Cur(g) = r)
      <4>1. Launched(r)' = Launched(r)
        BY <2>1, <2>5, <3>2, <3>3, ProvisionVms DEF Launches, Launching
      <4>2. QED
        BY <1>c, <1>d, <2>3, <3>1, <3>3, <4>1 DEF Launching
    <3>4. CASE Launching(g) /\ Cur(g) = r
      <4>1. \A h \in Groups : ~(worker'[h].pc \in {"mint", "launch"} /\ Cur(h)' = r)
        BY <1>f, <2>3, <3>1, <3>4 DEF Launching
      <4>2. r \in Runs /\ row[r].status # Absent /\ row[r].status \in RowStatus
        <5>1. "guard" \notin mishaps[r]
          BY <1>b DEF Refaulted
        <5>2. QED
          BY <1>a, <3>4, <5>1 DEF GuardedRow, TypeOK, RowType
      <4>3. ASSUME NEW to \in {"running", "failed"}, Transition(r, to)
            PROVE  row'[r].status \in Terminal \union {"running"}
        <5>1. CASE CanTransition(row[r].status, to)
          <6>1. row' = Moved(r, to)
            BY <4>3, <5>1 DEF Transition
          <6>2. row'[r].status = to
            BY <1>a, <6>1 DEF Moved, TypeOK, RowType
          <6>3. QED
            BY <6>2 DEF Terminal
        <5>2. CASE ~CanTransition(row[r].status, to)
          <6>1. row[r].status \in Terminal \union {"running"}
            BY <4>2, <5>2 DEF CanTransition, IsTerminal, RowStatus, Status, Active, Terminal, StatusRank
          <6>2. QED
            BY <1>d, <6>1
        <5>3. QED
          BY <5>1, <5>2
      <4>4. CASE LaunchAnswerLost(g)
        <5>1. PICK v \in VMs : Launches(g, v)
          BY <4>4 DEF LaunchAnswerLost, Launches
        <5>2. Launched(r)' = {v}
          BY <2>5, <3>4, <5>1
        <5>3. row'[r].status \in Terminal \union {"running"}
          <6>1. ~Mishap(r, "unclosed")
            BY <1>a DEF Mishap, TypeOK, Refaulted
          <6>2. QED
            BY <3>4, <4>3, <4>4, <6>1 DEF LaunchAnswerLost
        <5>4. QED
          BY <4>1, <5>2, <5>3
      <4>5. CASE MarkRunning(g)
        <5>1. ~Mishap(r, "mark")
          BY <1>a DEF Mishap, TypeOK, Refaulted
        <5>2. row'[r].status \in Terminal \union {"running"}
          BY <3>4, <4>3, <4>5, <5>1 DEF MarkRunning
        <5>3. UNCHANGED vm
          BY <4>5 DEF MarkRunning
        <5>4. QED
          BY <1>c, <3>2, <4>1, <5>2, <5>3
      <4>6. CASE Crash(g)
        <5>1. worker[g].cur # None
          BY <1>a, <3>4, NoneAssumption DEF InvocationCarries
        <5>2. "crash" \in mishaps'[r]
          BY <1>a, <3>4, <4>6, <5>1 DEF Crash, TypeOK
        <5>3. QED
          BY <5>2 DEF Refaulted
      <4>7. CASE worker[g].pc \in {"mint", "launch"} /\ ~LaunchAnswerLost(g)
        <5>1. UNCHANGED vm
          BY <2>1, <2>8, <4>7, ProvisionVms, LaunchGoesOn DEF LetsGo
        <5>2. QED
          BY <1>c, <3>2, <3>4, <4>1, <4>7, <5>1
      <4>8. CASE worker[g].pc \in {"stamp", "mark"}
        <5>1. MarkRunning(g) \/ Crash(g)
          BY <2>1, <2>8, <4>8, LateEnds
        <5>2. QED
          BY <4>5, <4>6, <5>1
      <4>9. QED
        BY <3>4, <4>4, <4>7, <4>8 DEF Launching
    <3>5. QED
      BY <3>3, <3>4
  <2>9. QED
    BY <2>1, <2>6, <2>7, <2>8, ProvisionMove
<1>3. QED
  BY <1>1, <1>2 DEF Next

(* Stamps go to the VM of the launch they follow.                          *)
LEMMA KeepNamedVms ==
  ASSUME IInv, UnlaunchedVms, GuardedRow, OneLaunch, NamedVms, [Next]_vars
  PROVE  NamedVms'
<1>a. TypeOK /\ InvocationCarries
  BY DEF IInv
<1> SUFFICES ASSUME NEW r \in Runs, NEW v \in Launched(r)', ~Refaulted(r)',
                    mishaps'[r] \intersect {"stamp", "lost"} = {}
             PROVE  \/ row'[r].vm = v
                    \/ \E g \in Groups : worker'[g].pc = "stamp" /\ worker'[g].vm = v
  BY DEF NamedVms
<1>b. ~Refaulted(r) /\ mishaps[r] \intersect {"stamp", "lost"} = {}
  BY StepMishaps DEF Refaulted, MishapsGrow
<1>c. ASSUME NEW w \in Launched(r)
      PROVE  row[r].vm = w \/ \E g \in Groups : worker[g].pc = "stamp" /\ worker[g].vm = w
  BY <1>b DEF NamedVms
<1>d. \A x, y \in Launched(r) : x = y
  BY <1>b DEF OneLaunch
<1>e. KeepsVms => Launched(r)' = Launched(r)
  BY DEF Launched, KeepsVms, KeepsVm
(* A stamp of this very run writes the id of its only VM. *)
<1>f. ASSUME v \in Launched(r) PROVE row[r].vm = v => row'[r].vm = v
  <2>1. ASSUME NEW g \in Groups, Stamp(g), Cur(g) = r PROVE worker[g].vm = v
    BY <1>d, <1>f, <2>1, StampedIsLaunched DEF Stamp
  <2>2. QED
    BY <2>1, StepYoung DEF RowsStamped
<1>1. CASE IngestNext \/ ComputeNext \/ ReaperNext \/ UNCHANGED vars
  <2>1. v \in Launched(r) /\ UNCHANGED worker
    BY <1>1, <1>e, OthersKeep
  <2>2. QED
    BY <1>c, <1>f, <2>1
<1>2. CASE ProvisionNext
  <2>1. PICK g \in Groups : Receive(g) \/ InvocationStep(g) \/ Crash(g)
    BY <1>2 DEF ProvisionNext
  <2>2. \A h \in Groups \ {g} : worker'[h] = worker[h]
    BY <2>1, ProvisionScope
  <2>3. CASE v \in Launched(r)
    <3>1. CASE row[r].vm = v
      BY <1>f, <2>3, <3>1
    <3>2. ASSUME NEW h \in Groups, worker[h].pc = "stamp", worker[h].vm = v
          PROVE  row'[r].vm = v \/ worker'[h] = worker[h]
      <4>1. CASE h # g
        BY <2>2, <4>1
      <4>2. CASE h = g
        <5>1. Cur(g) = r
          <6>1. vm[v].run = Cur(g)
            BY <1>a, <3>2, <4>2 DEF InvocationCarries
          <6>2. QED
            BY <2>3, <6>1 DEF Launched
        <5>2. ~Crash(g)
          <6>1. worker[g].cur # None /\ Cur(g) \in Runs
            BY <1>a, <3>2, <4>2, NoneAssumption, CurIsRun DEF InvocationCarries, Launching
          <6>2. Crash(g) => "crash" \in mishaps'[r]
            BY <1>a, <5>1, <6>1 DEF Crash, TypeOK
          <6>3. QED
            BY <6>2 DEF Refaulted
        <5>3. Stamp(g)
          BY <2>1, <3>2, <4>2, <5>2 DEF InvocationStep, Receive, Guard, Refuse, Retry, MintAndStash,
             Launch, LaunchThrottled, LaunchFailed, LaunchAnswerLost, MarkRunning, Finish
        <5>4. row[r].status # Absent
          <6>1. "guard" \notin mishaps[r]
            BY <1>b DEF Refaulted
          <6>2. QED
            BY <3>2, <4>2, <5>1, <6>1 DEF GuardedRow, Launching
        <5>5. ~Mishap(r, "stamp")
          BY <1>a DEF Mishap, TypeOK
        <5>6. row' = [row EXCEPT ![r].vm = worker[g].vm, ![r].tok = worker[g].tok]
          BY <5>1, <5>3, <5>4, <5>5 DEF Stamp
        <5>7. QED
          BY <1>a, <3>2, <4>2, <5>6 DEF TypeOK, RowType
      <4>3. QED
        BY <4>1, <4>2
    <3>3. QED
      BY <1>c, <2>3, <3>1, <3>2
  <2>4. CASE v \notin Launched(r)
    <3>1. ~KeepsVms
      BY <1>e, <2>4
    <3>2. UNCHANGED vm => KeepsVms
      BY DEF KeepsVms, KeepsVm
    <3>3. (\E w \in VMs : Launches(g, w)) /\ (Launch(g) \/ LaunchAnswerLost(g))
      BY <2>1, <3>1, <3>2, ProvisionVms
    <3>4. CASE Launch(g)
      <4>1. PICK w \in VMs : /\ vm[w].state = "none"
                             /\ vm' = [vm EXCEPT ![w] = Booted(g)]
                             /\ worker' = [worker EXCEPT ![g].pc = "stamp", ![g].vm = w]
        BY <3>4 DEF Launch
      <4>2. \A x \in VMs \ {w} : vm'[x] = vm[x]
        BY <1>a, <4>1 DEF TypeOK
      <4>3. v = w
        BY <2>4, <4>2 DEF Launched
      <4>4. worker'[g].pc = "stamp" /\ worker'[g].vm = w
        BY <1>a, <4>1 DEF TypeOK, WorkerType
      <4>5. QED
        BY <4>3, <4>4
    <3>5. CASE LaunchAnswerLost(g)
      <4>1. Cur(g) \in Runs /\ worker[g].pc = "launch"
        BY <1>a, <3>5, CurIsRun DEF LaunchAnswerLost, Launching
      <4>2. PICK w \in VMs : Launches(g, w)
        BY <3>3
      <4>3. /\ vm'[w].run = Cur(g)
            /\ \A x \in VMs \ {w} : vm'[x] = vm[x]
        BY <4>1, <4>2, LaunchKeeps DEF Launches
      <4>4. Cur(g) = r
        BY <2>4, <4>3 DEF Launched
      <4>5. mishaps'[r] \intersect {"lost", "unclosed"} # {}
        BY <1>a, <3>5, <4>1, <4>4 DEF LaunchAnswerLost, Mishap, TypeOK
      <4>6. QED
        BY <4>5 DEF Refaulted
    <3>6. QED
      BY <3>3, <3>4, <3>5
  <2>5. QED
    BY <2>3, <2>4
<1>3. QED
  BY <1>1, <1>2 DEF Next

(* Nothing but the sweep moves the Reaper.                                 *)
LEMMA StepReaper ==
  ASSUME [Next]_vars
  PROVE  UNCHANGED reaper \/ ListAndCap \/ ReadActive \/ CloseGhost \/ SweepAborts
<1>1. CASE IngestNext
  BY <1>1 DEF IngestNext, ClaimJob, DedupWindowCloses, StatusInProgress, StatusCompleted
<1>2. CASE ProvisionNext
  <2>1. PICK g \in Groups : Receive(g) \/ InvocationStep(g) \/ Crash(g)
    BY <1>2 DEF ProvisionNext
  <2>2. CASE (\E m \in Msgs : Guard(g, m)) \/ Refuse(g) \/ Retry(g) \/ MintAndStash(g) \/ Launch(g)
    BY <2>2 DEF Guard, Refuse, Retry, MintAndStash, Launch
  <2>3. CASE LaunchThrottled(g) \/ LaunchFailed(g) \/ LaunchAnswerLost(g) \/ Stamp(g) \/ MarkRunning(g)
    BY <2>3 DEF LaunchThrottled, LaunchFailed, LaunchAnswerLost, Stamp, MarkRunning
  <2>4. CASE Receive(g) \/ Finish(g) \/ Crash(g)
    BY <2>4 DEF Receive, Finish, Crash
  <2>5. QED
    BY <2>1, <2>2, <2>3, <2>4 DEF InvocationStep
<1>3. CASE ComputeNext
  BY <1>3 DEF ComputeNext, BootFetch, RunnerExits, SelfTerminate, VmDies, AssignJob, CancelJob
<1>4. CASE ReaperNext
  BY <1>4 DEF ReaperNext, RowAges, JitExpires, VmAges
<1>5. QED
  BY <1>1, <1>2, <1>3, <1>4 DEF Next, vars

(* A row's VM that is dead, or a row without one, stays so, unless it is   *)
(* stamped.                                                                *)
LEMMA NoVmLeftLasts ==
  ASSUME IInv, [Next]_vars, NEW r \in Runs, NoVmLeft(r), row'[r].vm = row[r].vm
  PROVE  NoVmLeft(r)'
<1>1. row[r].vm \in VMs \union {None}
  BY DEF IInv, TypeOK, RowType
<1>2. QED
  BY <1>1, StepVms DEF NoVmLeft, DeadStayDead

(* Who stamps a row finds it young, or passed the guard blind.             *)
LEMMA StampedYoung ==
  ASSUME IInv, GuardedRow, [Next]_vars, NEW r \in Runs
  PROVE  \/ row'[r].vm = row[r].vm
         \/ row'[r].age = "fresh"
         \/ "guard" \in mishaps[r]
<1>1. ASSUME NEW g \in Groups, Stamp(g), Cur(g) = r, "guard" \notin mishaps[r]
      PROVE  row'[r].age = "fresh"
  <2>1. row[r].age = "fresh" /\ GroupOf[r] = g /\ worker[g].pc # "idle"
    BY <1>1, CurIsRun DEF GuardedRow, Stamp, Launching, IInv
  <2>2. QED
    BY <2>1, StepYoung DEF RowsYoung
<1>2. QED
  BY <1>1, StepYoung DEF RowsStamped

(* The sweep leaves its list with the decisions it takes from it, and      *)
(* works them off.                                                         *)
LEMMA SweepPhases ==
  ASSUME TypeOK
  PROVE  /\ ListAndCap => reaper'.todo = {}
         /\ ReadActive => reaper'.pc # "listed" /\ reaper'.todo \subseteq Dispositions(reaper.live)
         /\ CloseGhost \/ SweepAborts => reaper'.pc # "listed" /\ reaper'.todo \subseteq reaper.todo
<1>a. reaper \in ReaperType
  BY DEF TypeOK
<1>1. ListAndCap => reaper'.todo = {}
  BY DEF ListAndCap
<1>2. ASSUME ReadActive
      PROVE  reaper'.pc # "listed" /\ reaper'.todo \subseteq Dispositions(reaper.live)
  <2>1. CASE reaper' = IdleReaper
    BY <2>1 DEF IdleReaper
  <2>2. CASE reaper' = [reaper EXCEPT !.pc = "closing", !.todo = Dispositions(reaper.live)]
    BY <1>a, <2>2 DEF ReaperType
  <2>3. QED
    BY <1>2, <2>1, <2>2 DEF ReadActive
<1>3. ASSUME CloseGhost
      PROVE  reaper'.pc # "listed" /\ reaper'.todo \subseteq reaper.todo
  <2>1. PICK d \in reaper.todo : reaper' = Rest(d)
    BY <1>3 DEF CloseGhost
  <2>2. reaper.pc = "closing"
    BY <1>3 DEF CloseGhost
  <2>3. CASE reaper' = IdleReaper
    BY <2>3 DEF IdleReaper
  <2>4. CASE reaper' = [reaper EXCEPT !.todo = @ \ {d}]
    BY <1>a, <2>2, <2>4 DEF ReaperType
  <2>5. QED
    BY <2>1, <2>3, <2>4 DEF Rest
<1>4. SweepAborts => reaper'.pc # "listed" /\ reaper'.todo \subseteq reaper.todo
  BY DEF SweepAborts, IdleReaper
<1>5. QED
  BY <1>1, <1>2, <1>3, <1>4

LEMMA KeepSweepSound ==
  ASSUME IInv, GuardedRow, SweepSound, [Next]_vars
  PROVE  SweepSound'
<1>a. TypeOK /\ InvocationCarries /\ StampOfLaunch
  BY DEF IInv
<1>g. MishapsGrow
  BY StepMishaps
(* The first snapshot. *)
<1>1. ASSUME NEW r \in Runs, reaper'.pc = "listed", row'[r].age # "fresh",
             row'[r].vm \notin reaper'.live, "guard" \notin mishaps'[r]
      PROVE  NoVmLeft(r)'
  <2>g. "guard" \notin mishaps[r]
    BY <1>1, <1>g DEF MishapsGrow
  <2>v. row'[r].vm = row[r].vm
    BY <1>1, <2>g, StampedYoung
  <2>1. CASE ListAndCap
    <3>1. row[r].vm \in VMs \union {None} /\ row[r].vm \notin LiveVms
      BY <1>1, <1>a, <2>1, <2>v DEF ListAndCap, TypeOK, RowType
    <3>2. NoVmLeft(r)
      BY <1>a, <3>1 DEF NoVmLeft, LiveVms, Live, StampOfLaunch, TypeOK, VmType
    <3>3. QED
      BY <2>v, <3>2, NoVmLeftLasts
  <2>2. CASE UNCHANGED reaper
    <3>1. row[r].age # "fresh"
      BY <1>1, <2>2, StepYoung DEF RowsYoung
    <3>2. NoVmLeft(r)
      BY <1>1, <2>2, <2>g, <2>v, <3>1 DEF SweepSound
    <3>3. QED
      BY <2>v, <3>2, NoVmLeftLasts
  <2>3. CASE ReadActive \/ CloseGhost \/ SweepAborts
    BY <1>1, <1>a, <2>3, SweepPhases
  <2>4. QED
    BY <2>1, <2>2, <2>3, StepReaper
(* The second. *)
<1>2. ASSUME NEW d \in reaper'.todo, d.to = "timed_out", "guard" \notin mishaps'[d.run],
             ~IsTerminal(row'[d.run].status)
      PROVE  /\ row'[d.run].status = "running"
             /\ NoVmLeft(d.run)'
             /\ \A g \in Groups : Launching(g)' => Cur(g)' # d.run
  <2> DEFINE r == d.run
  <2>1. CASE d \in reaper.todo
    <3>1. r \in Runs
      BY <1>a, <2>1 DEF TypeOK, ReaperType, Disposition
    <3>2. "guard" \notin mishaps[r] /\ ~IsTerminal(row[r].status)
      BY <1>2, <1>g, <3>1, StepRows DEF MishapsGrow, RowsAdvance
    <3>3. /\ row[r].status = "running" /\ NoVmLeft(r)
          /\ \A g \in Groups : Launching(g) => Cur(g) # r
      BY <1>2, <2>1, <3>2 DEF SweepSound
    <3>4. row'[r].status = "running"
      BY <1>2, <3>1, <3>3, StepRows DEF RowsAdvance, IsTerminal
    <3>5. NoVmLeft(r)'
      <4>1. row'[r].vm = row[r].vm
        BY <3>1, <3>3, StepYoung DEF RowsStamped, Stamp, Launching
      <4>2. QED
        BY <3>1, <3>3, <4>1, NoVmLeftLasts
    <3>6. ASSUME NEW g \in Groups, Launching(g)' PROVE Cur(g)' # r
      <4>1. CASE worker'[g] = worker[g] \/ (Launching(g) /\ worker'[g].cur = worker[g].cur)
        BY <3>3, <3>6, <4>1 DEF Cur, Launching
      <4>2. CASE \E m \in Msgs : Passes(g, m)
        <5>1. PICK m \in Msgs : Passes(g, m)
          BY <4>2
        <5>2. CASE RunOf(m) = r
          <6>1. ~CanTransition(row[r].status, "provisioning")
            BY <3>3 DEF CanTransition, StatusRank
          <6>2. Mishap(r, "guard")
            BY <1>a, <5>1, <5>2, <6>1 DEF Passes, Guard, TypeOK, MsgType
          <6>3. QED
            BY <1>2, <1>a, <3>1, <6>2 DEF Mishap, TypeOK
        <5>3. QED
          BY <5>1, <5>2 DEF Passes, Cur
      <4>3. QED
        <5>1. CASE ProvisionNext
          <6>1. PICK h \in Groups : Receive(h) \/ InvocationStep(h) \/ Crash(h)
            BY <5>1 DEF ProvisionNext
          <6>2. CASE h = g
            BY <3>6, <4>1, <4>2, <6>1, <6>2, ProvisionMove DEF LetsGo, GoesOn, Launching
          <6>3. CASE h # g
            BY <4>1, <6>1, <6>3, ProvisionScope
          <6>4. QED
            BY <6>2, <6>3
        <5>2. CASE ~ProvisionNext
          BY <4>1, <5>2, OthersKeep DEF Next
        <5>3. QED
          BY <5>1, <5>2
    <3>7. QED
      BY <3>4, <3>5, <3>6
  <2>2. CASE d \notin reaper.todo
    <3>1. ReadActive /\ d \in Dispositions(reaper.live)
      BY <1>2, <1>a, <2>2, StepReaper, SweepPhases
    <3>2. /\ r \in Runs /\ row[r].status = "running" /\ row[r].vm \notin reaper.live
          /\ row[r].age # "fresh"
      BY <1>2, <3>1 DEF Dispositions
    <3>3. reaper.pc = "listed" /\ UNCHANGED <<row, worker, vm, mishaps>>
      BY <3>1 DEF ReadActive
    <3>4. NoVmLeft(r)
      BY <1>2, <3>2, <3>3 DEF SweepSound
    <3>5. \A g \in Groups : Launching(g) => Cur(g) # r
      BY <1>2, <3>2, <3>3 DEF GuardedRow
    <3>6. QED
      BY <3>2, <3>3, <3>4, <3>5 DEF NoVmLeft, Launching, Cur
  <2>3. QED
    BY <2>1, <2>2
<1>3. QED
  BY <1>1, <1>2 DEF SweepSound, NoVmLeft

-----------------------------------------------------------------------------
(* What rests on it                                                        *)

LEMMA InitPlaneInv == Init => PlaneInv
<1> SUFFICES ASSUME Init PROVE PlaneInv
  OBVIOUS
<1>1. UnlaunchedVms
  BY DEF Init, UnlaunchedVms, NoVm
<1>2. GuardedRow
  BY DEF Init, GuardedRow, Launching, IdleWorker
<1>3. SentHasRow /\ SettledRuns
  BY DEF Init, SentHasRow, SettledRuns, Absent
<1>4. \A r \in Runs : Launched(r) = {}
  BY NoneAssumption DEF Init, NoVm, Launched
<1>5. OneLaunch /\ NamedVms
  BY <1>4 DEF Init, OneLaunch, NamedVms, IdleWorker
<1>6. SweepSound
  BY DEF Init, SweepSound, IdleReaper
<1>7. QED
  BY <1>1, <1>2, <1>3, <1>5, <1>6, InitIInv DEF PlaneInv

(* Every step keeps the strengthened invariant.                            *)
LEMMA StepPlaneInv == PlaneInv /\ [Next]_vars => PlaneInv'
BY StepIInv, KeepUnlaunched, KeepGuardedRow, KeepSentHasRow, KeepSettledRuns, KeepOneLaunch,
   KeepNamedVms, KeepSweepSound DEF PlaneInv

THEOREM PlaneInvariant == Spec => []PlaneInv
<1>1. QED
  BY InitPlaneInv, StepPlaneInv, PTL DEF Spec

(* A deleted record leaves its run settled, for every number of runs,      *)
(* records and faults.                                                     *)
THEOREM ConsumedSettled == Spec => []ConsumedIsSettled
<1>1. PlaneInv => ConsumedIsSettled
  BY DEF PlaneInv, SettledRuns, ConsumedIsSettled
<1>2. QED
  BY PlaneInvariant, <1>1, PTL

(* No second VM for a run without a fault of its first launch.             *)
THEOREM OneLaunchWithoutFault == Spec => []SecondLaunchNeedsFault
<1>1. ASSUME PlaneInv, NEW r \in Runs, ~Refaulted(r)
      PROVE  ~(Cardinality(Launched(r)) > 1)
  <2>1. \A v, w \in Launched(r) : v = w
    BY <1>1 DEF PlaneInv, OneLaunch
  <2>2. CASE Launched(r) = {}
    <3>1. Cardinality(Launched(r)) = 0
      BY <2>2, FS_EmptySet
    <3>2. QED
      BY <3>1
  <2>3. CASE Launched(r) # {}
    <3>1. PICK v : Launched(r) = {v}
      BY <2>1, <2>3
    <3>2. Cardinality(Launched(r)) = 1
      BY <3>1, FS_Singleton
    <3>3. QED
      BY <3>2
  <2>4. QED
    BY <2>2, <2>3
<1>2. PlaneInv => SecondLaunchNeedsFault
  BY <1>1 DEF SecondLaunchNeedsFault, Refaulted
<1>3. QED
  BY PlaneInvariant, <1>2, PTL

(* A live VM is named by its run's row, unless a fault took its stamp.     *)
THEOREM LiveVmNamed == Spec => []LiveVmIsNamed
<1>1. ASSUME PlaneInv, NEW v \in VMs, Live(v)
      PROVE  \/ row[vm[v].run].vm = v
             \/ \E g \in Groups : worker[g].vm = v
             \/ mishaps[vm[v].run] \intersect {"stamp", "lost", "unclosed", "crash", "guard", "mark"} # {}
  <2>1. vm[v].run \in Runs /\ v \in Launched(vm[v].run)
    BY <1>1 DEF PlaneInv, IInv, LaunchedVms, Live, Launched
  <2>2. QED
    BY <1>1, <2>1 DEF PlaneInv, NamedVms, Refaulted
<1>2. PlaneInv => LiveVmIsNamed
  BY <1>1 DEF LiveVmIsNamed
<1>3. QED
  BY PlaneInvariant, <1>2, PTL

(* Only the sweep's last phase times a run out.                            *)
LEMMA StepTimedOut ==
  ASSUME IInv, [Next]_vars, NEW r \in Runs,
         row'[r].status = "timed_out", row[r].status # "timed_out"
  PROVE  \E d \in reaper.todo : d.run = r /\ d.to = "timed_out" /\ CanTransition(row[r].status, d.to)
<1>a. row \in [Runs -> RowType]
  BY DEF IInv, TypeOK
<1>1. ASSUME NEW q, NEW to, row' = Moved(q, to) \/ Transition(q, to) \/ UNCHANGED row,
             to # "timed_out" \/ q # r
      PROVE  FALSE
  BY <1>a, <1>1 DEF Transition, Moved, RowType
<1>2. row'[r].status # row[r].status
  OBVIOUS
<1>3. CASE IngestNext
  BY <1>1, <1>2, <1>3 DEF IngestNext, ClaimJob, PutQueuedRun, DedupWindowCloses, StatusInProgress,
     StatusCompleted, CompletionStatus
<1>4. CASE ProvisionNext
  <2>1. PICK g \in Groups : Receive(g) \/ InvocationStep(g) \/ Crash(g)
    BY <1>4 DEF ProvisionNext
  <2>2. CASE \E m \in Msgs : Guard(g, m)
    BY <1>1, <1>2, <2>2 DEF Guard
  <2>3. CASE Refuse(g) \/ LaunchFailed(g) \/ LaunchAnswerLost(g) \/ MarkRunning(g)
    <3>1. UNCHANGED row \/ \E to \in {"failed", "running"} : Transition(Cur(g), to)
      BY <2>3 DEF Refuse, LaunchFailed, LaunchAnswerLost, MarkRunning, FailRun
    <3>2. QED
      BY <1>1, <1>2, <3>1
  <2>4. CASE Stamp(g)
    BY <1>2, <1>a, <2>4 DEF Stamp, RowType
  <2>5. CASE Receive(g) \/ Retry(g) \/ MintAndStash(g) \/ Launch(g) \/ LaunchThrottled(g) \/ Finish(g) \/ Crash(g)
    BY <1>2, <2>5 DEF Receive, Retry, MintAndStash, Launch, LaunchThrottled, Finish, Crash
  <2>6. QED
    BY <2>1, <2>2, <2>3, <2>4, <2>5 DEF InvocationStep
<1>5. CASE ComputeNext
  BY <1>2, <1>5 DEF ComputeNext, BootFetch, RunnerExits, SelfTerminate, VmDies, AssignJob, CancelJob
<1>6. CASE ReaperNext
  <2>1. CASE CloseGhost
    <3>1. PICK d \in reaper.todo : Transition(d.run, d.to)
      BY <2>1 DEF CloseGhost
    <3>2. d.run = r /\ d.to = "timed_out"
      BY <1>1, <3>1
    <3>3. QED
      BY <1>2, <3>1, <3>2 DEF Transition
  <2>2. ASSUME NEW q \in Runs, RowAges(q) PROVE FALSE
    BY <1>2, <1>a, <2>2 DEF RowAges, RowType
  <2>3. QED
    BY <1>2, <1>6, <2>1, <2>2 DEF ReaperNext, ListAndCap, ReadActive, SweepAborts, JitExpires, VmAges
<1>7. QED
  BY <1>2, <1>3, <1>4, <1>5, <1>6 DEF Next, vars

(* Where the Reaper times a run out, the VM its row names is gone.         *)
THEOREM OrphansHaveNoVm == Spec => OrphanHasNoVm
<1>1. ASSUME PlaneInv, [Next]_vars, NEW r \in Runs,
             row'[r].status = "timed_out", row[r].status # "timed_out"
      PROVE  row[r].vm = None \/ vm[row[r].vm].state = "dead" \/ "guard" \in mishaps[r]
  <2>1. PICK d \in reaper.todo : d.run = r /\ d.to = "timed_out" /\ CanTransition(row[r].status, d.to)
    BY <1>1, StepTimedOut DEF PlaneInv
  <2>2. ~IsTerminal(row[r].status)
    BY <1>1, <2>1 DEF CanTransition
  <2>3. QED
    BY <1>1, <2>1, <2>2 DEF PlaneInv, SweepSound, NoVmLeft
<1>2. PlaneInv /\ [Next]_vars =>
        [\A r \in Runs :
           row'[r].status = "timed_out" /\ row[r].status # "timed_out"
             => \/ row[r].vm = None
                \/ vm[row[r].vm].state = "dead"
                \/ "guard" \in mishaps[r]]_vars
  BY <1>1
<1>3. QED
  BY PlaneInvariant, <1>2, PTL DEF Spec, OrphanHasNoVm

=============================================================================
