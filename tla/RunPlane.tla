------------------------------ MODULE RunPlane ------------------------------
(***************************************************************************)
(* The run plane: Ingest, Provision, the microVMs with their hook broker,  *)
(* and the Reaper, composed over the stores they share.                    *)
(***************************************************************************)
EXTENDS Ingest, Provision, Compute, Reaper

Next == IngestNext \/ ProvisionNext \/ ComputeNext \/ ReaperNext

Spec == Init /\ [][Next]_vars

(* What the platform guarantees: SQS delivers a visible record, an         *)
(* invocation runs to its end or dies, the 5-minute schedule sweeps, and   *)
(* time passes (strongly: a sweep interrupts it, none stops it).  Nothing  *)
(* is assumed of webhooks, of GitHub, of guests or of faults.              *)
Fairness ==
  /\ \A g \in Groups : WF_vars(Receive(g)) /\ WF_vars(InvocationStep(g))
  /\ WF_vars(ListAndCap) /\ WF_vars(ReadActive) /\ WF_vars(CloseGhost)
  /\ \A r \in Runs : SF_vars(RowAges(r))
  /\ \A v \in VMs : WF_vars(VmAges(v))

FairSpec == Spec /\ Fairness

-----------------------------------------------------------------------------
(* Safety                                                                  *)

(* Run-store: every status write of every actor, in whatever order they    *)
(* land, is a step of the abstract life of a run.                          *)
Lifecycle == INSTANCE RunLifecycle WITH status <- [r \in Runs |-> row[r].status]

ImplementsLifecycle == Lifecycle!Spec

(* Hook broker: the VM id on a run row and the token hash beside it belong *)
(* to one launch of that very run, so the broker's answer to a token can   *)
(* only ever name the VM that holds the token.                             *)
StampMatchesVm ==
  \A r \in Runs :
    row[r].tok # None =>
      /\ row[r].vm # None
      /\ vm[row[r].vm].run = r
      /\ vm[row[r].vm].tok = row[r].tok

(* Hook broker: a brokered terminate never kills any VM but its caller.    *)
OnlySelfTerminated ==
  [][\A v, w \in VMs : SelfTerminate(v) /\ w # v => vm'[w] = vm[w]]_vars

(* Why StampMatchesVm and OnlySelfTerminated hold.  What an invocation     *)
(* carries from one of its steps to the next is what it wrote there, a     *)
(* launched VM keeps its run and its token, and no token is used twice.    *)

Launching(g) == worker[g].pc \in {"mint", "launch", "stamp", "mark"}

InvocationCarries ==
  \A g \in Groups :
    /\ Launching(g) => worker[g].cur \in Msgs /\ GroupOf[Cur(g)] = g
    /\ worker[g].pc \in {"launch", "stamp", "mark"} => worker[g].tok \in Tokens
    /\ worker[g].pc \in {"stamp", "mark"} =>
         /\ worker[g].vm \in VMs
         /\ vm[worker[g].vm].state # "none"
         /\ vm[worker[g].vm].run = Cur(g)
         /\ vm[worker[g].vm].tok = worker[g].tok

ReceivesCounted ==
  \A m \in Msgs : msg[m].state \in {"unsent", "visible"} => msg[m].n < MaxReceive

LaunchedVms ==
  \A v \in VMs : vm[v].state # "none" => vm[v].run \in Runs /\ vm[v].tok \in Tokens

StampOfLaunch ==
  \A r \in Runs :
    /\ row[r].tok # None => row[r].vm # None
    /\ row[r].vm # None =>
         /\ vm[row[r].vm].state # "none"
         /\ vm[row[r].vm].run = r
         /\ vm[row[r].vm].tok = row[r].tok

TokensUsedOnce ==
  /\ \A v, w \in VMs :
       v # w /\ vm[v].state # "none" /\ vm[w].state # "none" => vm[v].tok # vm[w].tok
  /\ \A g \in Groups : worker[g].pc = "launch" =>
       /\ \A v \in VMs : vm[v].tok # worker[g].tok
       /\ \A h \in Groups : h # g => worker[h].tok # worker[g].tok

(* The inductive invariant of the run plane's proofs: it adds to the types *)
(* what each actor may rely on when it acts on what it read or wrote       *)
(* before.                                                                 *)
IInv ==
  /\ TypeOK
  /\ InvocationCarries
  /\ ReceivesCounted
  /\ LaunchedVms
  /\ StampOfLaunch
  /\ TokensUsedOnce

Launched(r) == {v \in VMs : vm[v].run = r}

(* Provision: a second VM for one run takes a fault of its first launch -  *)
(* a death after it, a lost `running` mark, a lost answer whose run was    *)
(* not closed - or a delivery waved through on a guard fault.  Duplicate   *)
(* webhooks, redelivered records, throttled launches, retried mints and    *)
(* lost answers whose `failed` was written never add one.                  *)
SecondLaunchNeedsFault ==
  \A r \in Runs :
    Cardinality(Launched(r)) > 1
      => mishaps[r] \intersect {"crash", "guard", "mark", "unclosed"} # {}

(* Provision: a deleted record leaves its run settled - ended, or launched,*)
(* or started by a runner meant for another job - unless the row was never *)
(* written or the failure could not be recorded.                           *)
Settled(r) ==
  \/ IsTerminal(row[r].status)
  \/ Launched(r) # {}
  \/ gh[r] # "queued"
  \/ mishaps[r] \intersect {"put", "refuse"} # {}

ConsumedIsSettled == \A m \in Msgs : msg[m].state = "deleted" => Settled(RunOf(m))

(* Reaper: at the moment it times a run out as orphaned, the VM the run    *)
(* row names is gone - although the row was read after the VMs were listed *)
(* and written later still - unless a delivery passed the guard blind.     *)
OrphanHasNoVm ==
  [][\A r \in Runs :
       row'[r].status = "timed_out" /\ row[r].status # "timed_out"
         => \/ row[r].vm = None
            \/ vm[row[r].vm].state = "dead"
            \/ "guard" \in mishaps[r]]_vars

(* Provision: a live VM is named by the row of its run, whatever status    *)
(* the row raced to before the stamp - so the broker can stop it and the   *)
(* Reaper can tell that its run is no ghost - unless a fault took the      *)
(* stamp, or let a second launch overwrite it.                             *)
LiveVmIsNamed ==
  \A v \in VMs : LET r == vm[v].run IN
    Live(v) =>
      \/ row[r].vm = v
      \/ \E g \in Groups : worker[g].vm = v
      \/ mishaps[r] \intersect {"stamp", "lost", "unclosed", "crash", "guard", "mark"} # {}

-----------------------------------------------------------------------------
(* Why SecondLaunchNeedsFault, ConsumedIsSettled, LiveVmIsNamed and        *)
(* OrphanHasNoVm hold: the part of the state each of them leans on while   *)
(* an invocation or a sweep is between two of its steps.                   *)

(* An id that was never launched belongs to no run.                        *)
UnlaunchedVms == \A v \in VMs : vm[v].state = "none" => vm[v].run = None

(* The record an invocation works on stays in flight, and the guard left   *)
(* its row present and young: time cannot pass it before the end.          *)
GuardedRow ==
  \A g \in Groups : Launching(g) =>
    /\ msg[worker[g].cur].state = "inflight"
    /\ \/ row[Cur(g)].status # Absent /\ row[Cur(g)].age = "fresh"
       \/ "guard" \in mishaps[Cur(g)]

(* A record was sent after the row was written, or past its fault.         *)
SentHasRow ==
  \A m \in Msgs :
    msg[m].state # "unsent" /\ row[RunOf(m)].status = Absent => "put" \in mishaps[RunOf(m)]

(* A running row and a consumed record both tell of a settled run, and     *)
(* what settles a run settles it for good.                                 *)
SettledRuns ==
  /\ \A r \in Runs : row[r].status = "running" => Settled(r)
  /\ \A m \in Msgs : msg[m].state \in {"acked", "deleted"} => Settled(RunOf(m))

(* Until a fault lets a second one in, a run has one launch at most: none  *)
(* while an invocation is still about to launch, and once there is one the *)
(* invocation has yet to mark the row, or the row turns the guard away.    *)
Refaulted(r) == mishaps[r] \intersect {"crash", "guard", "mark", "unclosed"} # {}

OneLaunch ==
  \A r \in Runs : ~Refaulted(r) =>
    /\ \A v, w \in Launched(r) : v = w
    /\ \A g \in Groups :
         worker[g].pc \in {"mint", "launch"} /\ Cur(g) = r => Launched(r) = {}
    /\ Launched(r) # {} =>
         \/ \E g \in Groups : worker[g].pc \in {"stamp", "mark"} /\ Cur(g) = r
         \/ row[r].status \in Terminal \union {"running"}

(* A launched VM is on the row, or about to be stamped there.              *)
NamedVms ==
  \A r \in Runs : \A v \in Launched(r) :
    \/ row[r].vm = v
    \/ \E g \in Groups : worker[g].pc = "stamp" /\ worker[g].vm = v
    \/ Refaulted(r)
    \/ mishaps[r] \intersect {"stamp", "lost"} # {}

(* The sweep's two snapshots.  After the list was taken, a row too old to  *)
(* have been launched since names no VM the list missed, unless dead; and  *)
(* a run that was read as an orphan is one until it ends: nobody is        *)
(* launching for it any more.                                              *)
NoVmLeft(r) == row[r].vm # None => vm[row[r].vm].state = "dead"

SweepSound ==
  /\ \A r \in Runs :
       reaper.pc = "listed" /\ row[r].age # "fresh" /\ row[r].vm \notin reaper.live
         => NoVmLeft(r) \/ "guard" \in mishaps[r]
  /\ \A d \in reaper.todo :
       d.to = "timed_out" =>
         \/ "guard" \in mishaps[d.run]
         \/ IsTerminal(row[d.run].status)
         \/ /\ row[d.run].status = "running"
            /\ NoVmLeft(d.run)
            /\ \A g \in Groups : Launching(g) => Cur(g) # d.run

(* The inductive invariant behind them.                                    *)
PlaneInv ==
  /\ IInv
  /\ UnlaunchedVms
  /\ GuardedRow
  /\ SentHasRow
  /\ SettledRuns
  /\ OneLaunch
  /\ NamedVms
  /\ SweepSound

-----------------------------------------------------------------------------
(* Liveness                                                                *)

(* Reaper: every run that has a row ends, whatever was lost on the way,    *)
(* or is held up by a live VM whose start time the service does not give.  *)
HeldUp(r) == row[r].vm \in Undated /\ Live(row[r].vm)

RunsEnd ==
  \A r \in Runs : row[r].status \in Active ~> IsTerminal(row[r].status) \/ HeldUp(r)

(* Reaper: every VM that was started is stopped, if the service gives its  *)
(* start time.  One without has nobody but its own guest to stop it.       *)
VmsEnd == \A v \in VMs \ Undated : Live(v) ~> ~Live(v)

(* Queue: every record sent is consumed or reaches the DLQ.                *)
RecordsLeaveQueue ==
  \A m \in Msgs : msg[m].state = "visible" ~> msg[m].state \in {"deleted", "dlq"}

-----------------------------------------------------------------------------
(* What a comment says of the code, and the code does not do: refuted by a *)
(* run of its own.                                                         *)

(* src/provision/handler.ts:90, "A DB fault shouldn't silently drop the    *)
(* launch": a claimed job's record is not consumed leaving no run row.     *)
FaultNeverDropsLaunch ==
  \A m \in Msgs : msg[m].state = "deleted" => row[RunOf(m)].status # Absent

=============================================================================
