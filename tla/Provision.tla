----------------------------- MODULE Provision ------------------------------
(***************************************************************************)
(* The Provision Lambda (src/provision/handler.ts) behind its SQS FIFO     *)
(* queue.  A group has one batch in flight at a time; a record that throws *)
(* is handed back alone, and an invocation that dies hands back its whole  *)
(* batch, the records it had finished included.                            *)
(*                                                                         *)
(* Each step ends with one remote write, so another actor may run between  *)
(* any two of them, and the invocation may die there.                      *)
(***************************************************************************)
EXTENDS PlaneState

RunOf(m) == m[1]
Cur(g)   == RunOf(worker[g].cur)

Visible(g) == {m \in Msgs : GroupOf[RunOf(m)] = g /\ msg[m].state = "visible"}
Batch(g)   == {m \in Msgs : /\ GroupOf[RunOf(m)] = g
                            /\ msg[m].state \in {"inflight", "acked", "failed"}}

(* Mutant: a queue without a redrive policy counts no receives.            *)
ReceiveUncounted(g) ==
  /\ worker[g].pc = "idle"
  /\ \E B \in SUBSET Visible(g) :
       /\ B # {}
       /\ Cardinality(B) <= BatchSize
       /\ msg' = [m \in Msgs |->
                    IF m \in B THEN [msg[m] EXCEPT !.state = "inflight"] ELSE msg[m]]
  /\ worker' = [worker EXCEPT ![g].pc = "next"]
  /\ UNCHANGED <<row, jit, dedup, vm, gh, reaper, mishaps, budget>>

(* SQS delivers up to BatchSize records of the group; the order inside a   *)
(* group is left open.                                                     *)
Receive(g) ==
  /\ worker[g].pc = "idle"
  /\ \E B \in SUBSET Visible(g) :
       /\ B # {}
       /\ Cardinality(B) <= BatchSize
       /\ msg' = [m \in Msgs |->
                    IF m \in B
                    THEN [msg[m] EXCEPT !.state = "inflight", !.n = @ + 1]
                    ELSE msg[m]]
  /\ worker' = [worker EXCEPT ![g].pc = "next"]
  /\ UNCHANGED <<row, jit, dedup, vm, gh, reaper, mishaps, budget>>

(* The current record is done: consumed, or reported in batchItemFailures. *)
Settle(g, s) ==
  /\ msg' = [msg EXCEPT ![worker[g].cur].state = s]
  /\ worker' = [worker EXCEPT ![g] = [IdleWorker EXCEPT !.pc = "next"]]

Consume(g) == Settle(g, "acked")
Throw(g)   == Settle(g, "failed")

(* Mutant: the transition's answer is ignored and every delivery launches. *)
GuardUnchecked(g, m) ==
  /\ worker[g].pc = "next"
  /\ msg[m].state = "inflight" /\ GroupOf[RunOf(m)] = g
  /\ Transition(RunOf(m), "provisioning")
  /\ worker' = [worker EXCEPT ![g].pc = "mint", ![g].cur = m]
  /\ NoMishap
  /\ UNCHANGED <<msg, jit, dedup, vm, gh, reaper>>

(* The idempotency guard: queued or provisioning goes on, anything else -  *)
(* a missing row included - is skipped and consumed, and a database fault  *)
(* counts as an advance.                                                   *)
Guard(g, m) ==
  /\ worker[g].pc = "next"
  /\ msg[m].state = "inflight" /\ GroupOf[RunOf(m)] = g
  /\ \/ /\ CanTransition(row[RunOf(m)].status, "provisioning")
        /\ row' = Moved(RunOf(m), "provisioning")
        /\ worker' = [worker EXCEPT ![g].pc = "mint", ![g].cur = m]
        /\ UNCHANGED msg
        /\ NoMishap
     \/ /\ ~CanTransition(row[RunOf(m)].status, "provisioning")
        /\ msg' = [msg EXCEPT ![m].state = "acked"]
        /\ UNCHANGED <<row, worker>>
        /\ NoMishap
     \/ /\ worker' = [worker EXCEPT ![g].pc = "mint", ![g].cur = m]
        /\ UNCHANGED <<row, msg>>
        /\ Mishap(RunOf(m), "guard")
  /\ UNCHANGED <<jit, dedup, vm, gh, reaper>>

(* A run closed as `failed`, the write's own fault swallowed.              *)
FailRun(r) ==
  \/ Transition(r, "failed") /\ NoMishap
  \/ UNCHANGED row /\ Mishap(r, "refuse")

(* Mutant: a permanent refusal is consumed without closing the run.        *)
RefuseSilently(g) ==
  /\ worker[g].pc = "mint"
  /\ UNCHANGED row
  /\ NoMishap
  /\ Consume(g)
  /\ UNCHANGED <<jit, dedup, vm, gh, reaper>>

(* A permanent refusal before anything is launched: an unroutable custom   *)
(* flavor, labels no runner can carry, a mint GitHub rejects for good.     *)
Refuse(g) ==
  /\ worker[g].pc = "mint"
  /\ FailRun(Cur(g))
  /\ Consume(g)
  /\ UNCHANGED <<jit, dedup, vm, gh, reaper>>

(* A transient one: a degraded custom-flavor read, a missing image ARN, a  *)
(* throttled mint, a fault of the JIT item write.  The row is left alone.  *)
Retry(g) ==
  /\ worker[g].pc = "mint"
  /\ Throw(g)
  /\ UNCHANGED <<row, jit, dedup, vm, gh, reaper, mishaps, budget>>

(* randomBytes(32): a token nothing in the plane holds.                    *)
Fresh(t) ==
  /\ \A r \in Runs : jit[r] # t /\ row[r].tok # t
  /\ \A v \in VMs : vm[v].tok # t
  /\ \A g \in Groups : worker[g].tok # t

(* Mint a JIT config and store it, with the hash of a new token, over      *)
(* whatever an earlier delivery had stored.                                *)
MintAndStash(g) ==
  /\ worker[g].pc = "mint"
  /\ \E t \in Tokens :
       /\ Fresh(t)
       /\ jit' = [jit EXCEPT ![Cur(g)] = t]
       /\ worker' = [worker EXCEPT ![g].pc = "launch", ![g].tok = t]
  /\ UNCHANGED <<row, dedup, msg, vm, gh, reaper, mishaps, budget>>

Booted(g) ==
  [NoVm EXCEPT !.state = "live", !.run = Cur(g), !.tok = worker[g].tok, !.guest = "boot"]

Launch(g) ==
  /\ worker[g].pc = "launch"
  /\ \E v \in VMs :
       /\ vm[v].state = "none"
       /\ vm' = [vm EXCEPT ![v] = Booted(g)]
       /\ worker' = [worker EXCEPT ![g].pc = "stamp", ![g].vm = v]
  /\ UNCHANGED <<row, jit, dedup, msg, gh, reaper, mishaps, budget>>

(* A quota refusal leaves the row in `provisioning` and throws.            *)
LaunchThrottled(g) ==
  /\ worker[g].pc = "launch"
  /\ Throw(g)
  /\ UNCHANGED <<row, jit, dedup, vm, gh, reaper, mishaps, budget>>

(* Any other refusal closes the run as `failed` and then throws.           *)
LaunchFailed(g) ==
  /\ worker[g].pc = "launch"
  /\ FailRun(Cur(g))
  /\ Throw(g)
  /\ UNCHANGED <<jit, dedup, vm, gh, reaper>>

(* RunMicrovm started the VM and its answer was lost: the code sees a      *)
(* failed launch.  It closes the run ("lost"), unless the write of         *)
(* `failed` has a fault too, which is swallowed, or the error it sees is   *)
(* the throttle of the SDK's own second attempt, taken for a quota         *)
(* refusal: the row then stays `provisioning` ("unclosed").                *)
LaunchAnswerLost(g) ==
  /\ worker[g].pc = "launch"
  /\ \E v \in VMs :
       /\ vm[v].state = "none"
       /\ vm' = [vm EXCEPT ![v] = Booted(g)]
  /\ \/ Transition(Cur(g), "failed") /\ Mishap(Cur(g), "lost")
     \/ UNCHANGED row /\ Mishap(Cur(g), "unclosed")
  /\ Throw(g)
  /\ UNCHANGED <<jit, dedup, gh, reaper>>

(* Mutant: a hash that is already on the row is kept, the id replaced.      *)
StampKeepsHash(g) ==
  /\ worker[g].pc = "stamp"
  /\ row[Cur(g)].status # Absent
  /\ row' = [row EXCEPT ![Cur(g)].vm = worker[g].vm,
                        ![Cur(g)].tok = IF @ = None THEN worker[g].tok ELSE @]
  /\ NoMishap
  /\ worker' = [worker EXCEPT ![g].pc = "mark"]
  /\ UNCHANGED <<jit, dedup, msg, vm, gh, reaper>>

(* Mutant: the stamp is one more guarded update, dropped when the run has  *)
(* ended before it.                                                        *)
StampIfOpen(g) ==
  /\ worker[g].pc = "stamp"
  /\ IF row[Cur(g)].status \in Active
     THEN row' = [row EXCEPT ![Cur(g)].vm = worker[g].vm, ![Cur(g)].tok = worker[g].tok]
     ELSE UNCHANGED row
  /\ NoMishap
  /\ worker' = [worker EXCEPT ![g].pc = "mark"]
  /\ UNCHANGED <<jit, dedup, msg, vm, gh, reaper>>

(* stampMicrovmId: VM id and token hash in one write, whatever the status, *)
(* leaving `updatedAt` alone; no row, or a fault, leaves no stamp.         *)
Stamp(g) ==
  /\ worker[g].pc = "stamp"
  /\ \/ /\ row[Cur(g)].status # Absent
        /\ row' = [row EXCEPT ![Cur(g)].vm = worker[g].vm, ![Cur(g)].tok = worker[g].tok]
        /\ NoMishap
     \/ row[Cur(g)].status = Absent /\ UNCHANGED row /\ NoMishap
     \/ UNCHANGED row /\ Mishap(Cur(g), "stamp")
  /\ worker' = [worker EXCEPT ![g].pc = "mark"]
  /\ UNCHANGED <<jit, dedup, msg, vm, gh, reaper>>

MarkRunning(g) ==
  /\ worker[g].pc = "mark"
  /\ \/ Transition(Cur(g), "running") /\ NoMishap
     \/ UNCHANGED row /\ Mishap(Cur(g), "mark")
  /\ Consume(g)
  /\ UNCHANGED <<jit, dedup, vm, gh, reaper>>

(* A record handed back is visible again after its timeout, or, when it    *)
(* has been received maxReceiveCount times, moves to the DLQ.              *)
HandedBack(m) ==
  [msg[m] EXCEPT !.state = IF msg[m].n >= MaxReceive THEN "dlq" ELSE "visible"]

(* The invocation returns: finished records are deleted, thrown ones are   *)
(* handed back.                                                            *)
Finish(g) ==
  /\ worker[g].pc = "next"
  /\ \A m \in Batch(g) : msg[m].state # "inflight"
  /\ msg' = [m \in Msgs |->
               IF m \notin Batch(g) THEN msg[m]
               ELSE IF msg[m].state = "acked" THEN [msg[m] EXCEPT !.state = "deleted"]
               ELSE HandedBack(m)]
  /\ worker' = [worker EXCEPT ![g] = IdleWorker]
  /\ UNCHANGED <<row, jit, dedup, vm, gh, reaper, mishaps, budget>>

(* The invocation times out or crashes: no batch response was returned.    *)
Crash(g) ==
  /\ worker[g].pc # "idle"
  /\ "crash" \in MishapKinds
  /\ budget > 0
  /\ budget' = budget - 1
  /\ mishaps' = [r \in Runs |->
                   IF worker[g].cur # None /\ r = Cur(g)
                   THEN mishaps[r] \union {"crash"} ELSE mishaps[r]]
  /\ msg' = [m \in Msgs |-> IF m \in Batch(g) THEN HandedBack(m) ELSE msg[m]]
  /\ worker' = [worker EXCEPT ![g] = IdleWorker]
  /\ UNCHANGED <<row, jit, dedup, vm, gh, reaper>>

(* What one invocation does; it dies at any point, or runs to its end.     *)
InvocationStep(g) ==
  \/ \E m \in Msgs : Guard(g, m)
  \/ Refuse(g) \/ Retry(g) \/ MintAndStash(g)
  \/ Launch(g) \/ LaunchThrottled(g) \/ LaunchFailed(g) \/ LaunchAnswerLost(g)
  \/ Stamp(g) \/ MarkRunning(g) \/ Finish(g)

ProvisionNext == \E g \in Groups : Receive(g) \/ InvocationStep(g) \/ Crash(g)

=============================================================================
