------------------------------- MODULE Reaper -------------------------------
(***************************************************************************)
(* The Reaper Lambda (src/reaper/), one sweep at a time: list the live     *)
(* VMs, terminate those past the lifetime cap, read the active rows from   *)
(* the status index, then close the ghosts one conditional write after     *)
(* another.  Each phase works from what the one before it read.            *)
(*                                                                         *)
(* Time is the age of a row and of a VM.  A row cannot grow older by 5     *)
(* minutes while a sweep (at most 120 s) or an invocation of its group (at *)
(* most 60 s) is under way; one that crossed a threshold during either     *)
(* might as well have crossed it just before.                              *)
(***************************************************************************)
EXTENDS PlaneState

RowAges(r) ==
  /\ row[r].status \in Active
  /\ row[r].age # "stuck"
  /\ reaper.pc = "idle" /\ worker[GroupOf[r]].pc = "idle"
  /\ row' = [row EXCEPT ![r].age = Older(@)]
  /\ UNCHANGED <<jit, dedup, msg, worker, vm, gh, reaper, mishaps, budget>>

VmAges(v) ==
  /\ Live(v) /\ ~vm[v].old
  /\ vm' = [vm EXCEPT ![v].old = TRUE]
  /\ UNCHANGED <<row, jit, dedup, msg, worker, gh, reaper, mishaps, budget>>

(* The JIT item's 30-minute TTL: no boot is still waiting for it.          *)
JitExpires(r) ==
  /\ jit[r] # None
  /\ worker[GroupOf[r]].pc = "idle"
  /\ \A v \in VMs : vm[v].guest = "boot" => vm[v].tok # jit[r]
  /\ jit' = [jit EXCEPT ![r] = None]
  /\ UNCHANGED <<row, dedup, msg, worker, vm, gh, reaper, mishaps, budget>>

LiveVms == {v \in VMs : Live(v)}

(* Mutant: the sweep forgets the cap.                                      *)
OverCapNone == {}

(* A VM whose start time the listing does not give is never over the cap.  *)
OverCap == {v \in VMs \ Undated : Live(v) /\ vm[v].old}

(* Phase 1: list, then terminate what is over the cap.  A terminate that   *)
(* throws is logged and the next one tried.  A job on such a VM is lost.   *)
ListAndCap ==
  /\ reaper.pc = "idle"
  /\ reaper' = [pc |-> "listed", live |-> LiveVms, todo |-> {}]
  /\ \/ Terminate(OverCap) /\ NoMishap
     \/ \E v \in OverCap : /\ Terminate(OverCap \ {v})
                           /\ Mishap(vm[v].run, "terminate")
  /\ UNCHANGED <<row, jit, dedup, msg, worker>>

(* Mutant: a running row whose VM is not in the list is closed at once.    *)
DispositionsNoGrace(live) ==
  {[run |-> r, vm |-> row[r].vm,
    to |-> IF row[r].status = "running" THEN "timed_out" ELSE "failed"] :
     r \in {r \in Runs :
              \/ row[r].status = "running" /\ row[r].vm \notin live
              \/ row[r].status \in {"queued", "provisioning"} /\ row[r].age = "stuck"}}

(* Mutant: only running rows are looked at.                                *)
DispositionsRunningOnly(live) ==
  {[run |-> r, vm |-> row[r].vm, to |-> "timed_out"] :
     r \in {r \in Runs : row[r].status = "running" /\ row[r].vm \notin live
                         /\ row[r].age # "fresh"}}

(* reconcileRuns: running without a live VM past the grace is timed out;   *)
(* queued or provisioning past the stuck limit is failed.                  *)
Dispositions(live) ==
  {[run |-> r, vm |-> row[r].vm,
    to |-> IF row[r].status = "running" THEN "timed_out" ELSE "failed"] :
     r \in {r \in Runs :
              \/ row[r].status = "running" /\ row[r].vm \notin live /\ row[r].age # "fresh"
              \/ row[r].status \in {"queued", "provisioning"} /\ row[r].age = "stuck"}}

(* Phase 2: read the active rows (three index queries) and decide.         *)
ReadActive ==
  /\ reaper.pc = "listed"
  /\ reaper' = IF Dispositions(reaper.live) = {} THEN IdleReaper
               ELSE [reaper EXCEPT !.pc = "closing", !.todo = Dispositions(reaper.live)]
  /\ UNCHANGED <<row, jit, dedup, msg, worker, vm, gh, mishaps, budget>>

Rest(d) == IF reaper.todo = {d} THEN IdleReaper
           ELSE [reaper EXCEPT !.todo = @ \ {d}]

(* Phase 3: close one ghost.  The write is conditional on the status the   *)
(* row has now; only when it applies is the VM read in phase 2 terminated, *)
(* if phase 1 saw it, and a terminate that throws is swallowed.            *)
CloseGhost ==
  /\ reaper.pc = "closing"
  /\ \E d \in reaper.todo :
       /\ Transition(d.run, d.to)
       /\ reaper' = Rest(d)
       /\ IF CanTransition(row[d.run].status, d.to) /\ d.vm \in reaper.live
          THEN \/ Terminate({d.vm}) /\ NoMishap
               \/ UNCHANGED <<vm, gh>> /\ Mishap(d.run, "terminate")
          ELSE UNCHANGED <<vm, gh>> /\ NoMishap
  /\ UNCHANGED <<jit, dedup, msg, worker>>

(* A throwing transition, or a timeout, ends the sweep where it stands.    *)
SweepAborts ==
  /\ reaper.pc # "idle"
  /\ "sweep" \in MishapKinds /\ budget > 0
  /\ budget' = budget - 1
  /\ reaper' = IdleReaper
  /\ UNCHANGED <<row, jit, dedup, msg, worker, vm, gh, mishaps>>

ReaperNext ==
  \/ ListAndCap \/ ReadActive \/ CloseGhost \/ SweepAborts
  \/ \E r \in Runs : RowAges(r) \/ JitExpires(r)
  \/ \E v \in VMs : VmAges(v)

=============================================================================
