------------------------------ MODULE Compute -------------------------------
(***************************************************************************)
(* The microVM and what it talks to: the guest's run hook                  *)
(* (microvm/bootstrap/run-hook.mjs), the hook broker Lambda                *)
(* (src/hook/handler.ts) it reaches with its capability token, and GitHub, *)
(* which gives a registered runner a job.                                  *)
(***************************************************************************)
EXTENDS PlaneState

GivesUp(v) == vm' = [vm EXCEPT ![v].guest = "stuck"] /\ UNCHANGED gh

(* jitconfig: authorised by the hash beside the JIT config itself.         *)
JitConfigGranted(v) == jit[vm[v].run] = vm[v].tok

(* The /run hook fetches its configuration and starts the runner.  A       *)
(* refusal, or a broker that cannot be reached, answers 502 and leaves     *)
(* the VM idle.                                                            *)
BootFetch(v) ==
  /\ Live(v) /\ vm[v].guest = "boot"
  /\ \/ /\ JitConfigGranted(v)
        /\ vm' = [vm EXCEPT ![v].guest = "listening"] /\ UNCHANGED gh
        /\ NoMishap
     \/ ~JitConfigGranted(v) /\ GivesUp(v) /\ NoMishap
     \/ GivesUp(v) /\ Mishap(vm[v].run, "invoke")
  /\ UNCHANGED <<row, jit, dedup, msg, worker, reaper>>

(* GitHub assigns a queued job to a registered runner carrying its labels, *)
(* not to the runner that was minted for it.                               *)
AssignJob(v, r) ==
  /\ Live(v) /\ vm[v].guest = "listening"
  /\ gh[r] = "queued" /\ r \in Serves[vm[v].run]
  /\ gh' = [gh EXCEPT ![r] = "in_progress"]
  /\ vm' = [vm EXCEPT ![v].guest = "working", ![v].job = r]
  /\ UNCHANGED <<row, jit, dedup, msg, worker, reaper, mishaps, budget>>

CancelJob(r) ==
  /\ gh[r] = "queued"
  /\ gh' = [gh EXCEPT ![r] = "cancelled"]
  /\ UNCHANGED <<row, jit, dedup, msg, worker, vm, reaper, mishaps, budget>>

(* The runner agent exits after its one job, or without one.               *)
RunnerExits(v) ==
  /\ Live(v)
  /\ \/ /\ vm[v].guest = "working"
        /\ \E res \in {"success", "failure"} : gh' = [gh EXCEPT ![vm[v].job] = res]
     \/ vm[v].guest = "listening" /\ UNCHANGED gh
  /\ vm' = [vm EXCEPT ![v].guest = "ended", ![v].job = None]
  /\ UNCHANGED <<row, jit, dedup, msg, worker, reaper, mishaps, budget>>

(* Mutant: any token that is stored for the run authorises a terminate.    *)
BrokerAnswerAnyToken(v) ==
  LET r == vm[v].run IN
  IF row[r].tok # None THEN "terminate"
  ELSE IF jit[r] = vm[v].tok THEN "not_yet" ELSE "unauthorized"

(* terminate: authorised by the hash on the durable run row; before the    *)
(* stamp has landed, by the JIT item, which grants only a retry.           *)
BrokerAnswer(v) ==
  LET r == vm[v].run IN
  IF row[r].tok # None
  THEN IF row[r].tok = vm[v].tok THEN "terminate" ELSE "unauthorized"
  ELSE IF jit[r] = vm[v].tok THEN "not_yet" ELSE "unauthorized"

(* An answer of ok with `terminated: false`, or no answer: try again, up   *)
(* to the attempts the hook has, then leave the VM to the Reaper.          *)
TryAgain(v) ==
  IF vm[v].tries + 1 < MaxTries
  THEN vm' = [vm EXCEPT ![v].tries = @ + 1] /\ UNCHANGED gh
  ELSE GivesUp(v)

(* One brokered self-terminate attempt.  The broker kills the VM the run   *)
(* row names, never one the caller names; a refusal is not retried.        *)
SelfTerminate(v) ==
  /\ Live(v) /\ vm[v].guest = "ended"
  /\ LET target == row[vm[v].run].vm IN
     \/ BrokerAnswer(v) = "terminate" /\ Terminate({target}) /\ NoMishap
     \/ BrokerAnswer(v) = "terminate" /\ TryAgain(v) /\ Mishap(vm[v].run, "terminate")
     \/ BrokerAnswer(v) = "not_yet" /\ TryAgain(v) /\ NoMishap
     \/ BrokerAnswer(v) = "unauthorized" /\ GivesUp(v) /\ NoMishap
     \/ TryAgain(v) /\ Mishap(vm[v].run, "invoke")
  /\ UNCHANGED <<row, jit, dedup, msg, worker, reaper>>

(* The service loses a VM; GitHub sees its runner go and fails the job.    *)
VmDies(v) ==
  /\ Live(v)
  /\ Mishap(vm[v].run, "vmdeath")
  /\ Terminate({v})
  /\ UNCHANGED <<row, jit, dedup, msg, worker, reaper>>

ComputeNext ==
  \/ \E v \in VMs : BootFetch(v) \/ RunnerExits(v) \/ SelfTerminate(v) \/ VmDies(v)
  \/ \E v \in VMs, r \in Runs : AssignJob(v, r)
  \/ \E r \in Runs : CancelJob(r)

=============================================================================
