----------------------------- MODULE PlaneState -----------------------------
(***************************************************************************)
(* The shared state of the run plane: what Ingest, Provision, the guest    *)
(* with its hook broker, and the Reaper read and write.  Every variable is *)
(* a store or a service that several of them touch without a common lock.  *)
(***************************************************************************)
EXTENDS RunStore, FiniteSets

CONSTANTS
  Runs,         (* workflow jobs, one run row each                         *)
  Groups,       (* SQS message groups: one per repository                  *)
  GroupOf,      (* the repository a run belongs to                         *)
  Serves,       (* Serves[r]: the jobs a runner minted for r may be given, *)
                (* since GitHub matches runners to jobs by labels alone    *)
  VMs,          (* microVM ids                                             *)
  Undated,      (* the VMs that ListMicrovms reports without a start time  *)
  Tokens,       (* per-launch hook capability tokens                       *)
  None,         (* the absent value of an optional field                   *)
  MaxMsgs,      (* bound: messages ever sent for one run                   *)
  MaxReceive,   (* maxReceiveCount of the provision queue                  *)
  BatchSize,    (* records per Provision invocation                        *)
  MaxTries,     (* attempts of the guest's brokered terminate              *)
  MishapKinds,  (* which faults this instance lets happen                  *)
  MaxMishaps    (* bound: faults per behaviour                             *)

Kinds ==
  {"put", "send", "guard", "refuse", "lost", "unclosed", "stamp", "mark", "crash",
   "redeliver", "invoke", "terminate", "vmdeath", "sweep"}

ASSUME ConstantsAssumption ==
  /\ GroupOf \in [Runs -> Groups]
  /\ Serves \in [Runs -> SUBSET Runs]
  /\ Undated \subseteq VMs
  /\ MaxMsgs \in Nat \ {0}
  /\ MaxReceive \in Nat \ {0}
  /\ BatchSize \in Nat \ {0}
  /\ MaxTries \in Nat \ {0}
  /\ MaxMishaps \in Nat
  /\ MishapKinds \subseteq Kinds

Msgs == Runs \X (1 .. MaxMsgs)

ASSUME NoneAssumption == None \notin Runs \union VMs \union Tokens \union Msgs

VARIABLES
  row,      (* the run rows: status, microvmId, hookTokenHash, age         *)
  jit,      (* the JIT config items: the token hash stored with each       *)
  dedup,    (* the FIFO deduplication window of a run is open              *)
  msg,      (* the provision queue and its DLQ                             *)
  worker,   (* the Provision invocation of each group                      *)
  vm,       (* the microVM service, with the guest inside each VM          *)
  gh,       (* GitHub's own state of each job                              *)
  reaper,   (* the Reaper sweep                                            *)
  mishaps,  (* history: the faults each run has met                        *)
  budget    (* faults that may still happen                                *)

vars == <<row, jit, dedup, msg, worker, vm, gh, reaper, mishaps, budget>>

RowType == [status : RowStatus, vm : VMs \union {None},
            tok : Tokens \union {None}, age : Age]

MsgState == {"unsent", "visible", "inflight", "acked", "failed", "deleted", "dlq"}

MsgType == [state : MsgState, n : 0 .. MaxReceive]

WorkerType ==
  [pc : {"idle", "next", "mint", "launch", "stamp", "mark"},
   cur : Msgs \union {None}, tok : Tokens \union {None}, vm : VMs \union {None}]

Guest == {"off", "boot", "listening", "working", "ended", "stuck"}

VmType == [state : {"none", "live", "dead"}, run : Runs \union {None},
           tok : Tokens \union {None}, guest : Guest,
           job : Runs \union {None}, tries : 0 .. MaxTries, old : BOOLEAN]

JobState == {"queued", "in_progress", "success", "failure", "cancelled"}

Disposition == [run : Runs, to : {"timed_out", "failed"}, vm : VMs \union {None}]

ReaperType == [pc : {"idle", "listed", "closing"}, live : SUBSET VMs,
               todo : SUBSET Disposition]

(* Every variable has its type.                                            *)
TypeOK ==
  /\ row \in [Runs -> RowType]
  /\ jit \in [Runs -> Tokens \union {None}]
  /\ dedup \in [Runs -> BOOLEAN]
  /\ msg \in [Msgs -> MsgType]
  /\ worker \in [Groups -> WorkerType]
  /\ vm \in [VMs -> VmType]
  /\ gh \in [Runs -> JobState]
  /\ reaper \in ReaperType
  /\ mishaps \in [Runs -> SUBSET Kinds]
  /\ budget \in 0 .. MaxMishaps

NoVm == [state |-> "none", run |-> None, tok |-> None, guest |-> "off",
         job |-> None, tries |-> 0, old |-> FALSE]

IdleWorker == [pc |-> "idle", cur |-> None, tok |-> None, vm |-> None]

IdleReaper == [pc |-> "idle", live |-> {}, todo |-> {}]

Init ==
  /\ row = [r \in Runs |-> [status |-> Absent, vm |-> None, tok |-> None, age |-> "fresh"]]
  /\ jit = [r \in Runs |-> None]
  /\ dedup = [r \in Runs |-> FALSE]
  /\ msg = [m \in Msgs |-> [state |-> "unsent", n |-> 0]]
  /\ worker = [g \in Groups |-> IdleWorker]
  /\ vm = [v \in VMs |-> NoVm]
  /\ gh = [r \in Runs |-> "queued"]
  /\ reaper = IdleReaper
  /\ mishaps = [r \in Runs |-> {}]
  /\ budget = MaxMishaps

-----------------------------------------------------------------------------

(* A fault of kind k hits run r: only where the instance allows it.        *)
Mishap(r, k) ==
  /\ budget > 0
  /\ k \in MishapKinds
  /\ budget' = budget - 1
  /\ mishaps' = [mishaps EXCEPT ![r] = @ \union {k}]

NoMishap == UNCHANGED <<mishaps, budget>>

(* A guarded status write refreshes `updatedAt`, so the row is young again.*)
Moved(r, to) == [row EXCEPT ![r].status = to, ![r].age = "fresh"]

(* transitionRun: the conditional update applies, or it is a no-op.        *)
Transition(r, to) ==
  IF CanTransition(row[r].status, to) THEN row' = Moved(r, to) ELSE UNCHANGED row

Live(v) == vm[v].state = "live"

(* TerminateMicrovm on the VMs of K: the ids stay known, nothing runs      *)
(* behind them, and GitHub fails a job whose runner went with its VM.      *)
Terminate(K) ==
  /\ vm' = [v \in VMs |->
              IF v \in K /\ Live(v)
              THEN [vm[v] EXCEPT !.state = "dead", !.guest = "off",
                                 !.job = None, !.tries = 0, !.old = FALSE]
              ELSE vm[v]]
  /\ gh' = [r \in Runs |->
              IF \E v \in VMs \intersect K : Live(v) /\ vm[v].job = r
              THEN "failure" ELSE gh[r]]

=============================================================================
