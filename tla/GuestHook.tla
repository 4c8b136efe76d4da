----------------------------- MODULE GuestHook ------------------------------
(***************************************************************************)
(* The lifecycle-hook server inside one microVM                            *)
(* (microvm/bootstrap/run-hook.mjs), seen closer than in Compute.  It is a *)
(* Node process: handlers interleave only where they await the request     *)
(* body, and a call to the broker blocks everything until it returns.      *)
(* The broker, the runner agent, GitHub and the platform that posts /run   *)
(* are seen through their answers.                                         *)
(***************************************************************************)
EXTENDS Integers, FiniteSets

CONSTANTS
  Posts,      (* the POST /run requests this VM receives                   *)
  Bodies,     (* what they may carry: see BodyAnswer                       *)
  MaxMishaps, (* bound: broker calls that fail                             *)
  None

ASSUME GuestAssumption ==
  /\ Bodies \subseteq {"bare", "wrapped", "not json", "incomplete", "too large"}
  /\ MaxMishaps \in Nat

BootCallAttempts == 2
EndCallAttempts  == 4

(* Seconds: one call, the first backoff, and what the image declares.      *)
CallTimeout    == 15
Backoff        == 2
RunHookTimeout == 60

(* All attempts at their longest, the backoff doubling in between.         *)
WorstCall(attempts) ==
  LET waits[i \in 0 .. attempts] == IF i < 2 THEN 0 ELSE waits[i - 1] + Backoff * 2 ^ (i - 2)
  IN  attempts * CallTimeout + waits[attempts]

VARIABLES
  post,       (* each request: new, reading its body, fetching, or a code  *)
  jobStarted, (* the single-use guard                                      *)
  call,       (* the broker call under way, None when the process is idle  *)
  runner,     (* the runner agent each request started                     *)
  vm,         (* up or gone; left: the hook gave up on its end             *)
  github,     (* the JIT config was used; a job was cut short              *)
  stamped,    (* Provision's stamp has reached the run row                 *)
  overlapped, (* two requests awaited their bodies at once                 *)
  asked,      (* history: what each agent's exit has had for an answer     *)
  mishaps     (* how many there were                                       *)

vars == <<post, jobStarted, call, runner, vm, github, stamped, overlapped, asked, mishaps>>

Codes == {"200", "400", "409", "500", "502"}

Up == vm # "gone"

(* The process takes an event: no broker call blocks it.                   *)
Idle == Up /\ call = None

Mishap   == mishaps < MaxMishaps /\ mishaps' = mishaps + 1
NoMishap == UNCHANGED mishaps

-----------------------------------------------------------------------------
(* The server.                                                             *)
Answer(p, code) == post' = [post EXCEPT ![p] = code]

(* The guard is read before the body is awaited, and not again.            *)
RunArrives(p) ==
  /\ Idle /\ post[p] = "new"
  /\ IF jobStarted THEN Answer(p, "409") ELSE post' = [post EXCEPT ![p] = "reading"]
  /\ overlapped' = (overlapped \/ (~jobStarted /\ \E q \in Posts : post[q] = "reading"))
  /\ UNCHANGED <<jobStarted, call, runner, vm, github, stamped, asked, mishaps>>

Attempt(p, action, n) == [post |-> p, action |-> action, attempt |-> n]

(* The pointer is taken bare or from its wrapper.                          *)
BodyAnswer(body) ==
  CASE body \in {"bare", "wrapped"} -> "fetching"
    [] body \in {"not json", "incomplete"} -> "400"
    [] body = "too large" -> "500"

BodyRead(p, body) ==
  /\ Idle /\ post[p] = "reading"
  /\ Answer(p, BodyAnswer(body))
  /\ call' = IF BodyAnswer(body) = "fetching" THEN Attempt(p, "jitconfig", 1) ELSE call
  /\ UNCHANGED <<jobStarted, runner, vm, github, stamped, overlapped, asked, mishaps>>

(* callBroker: a failed or unreadable invocation is tried again.           *)
Attempts(action) == IF action = "jitconfig" THEN BootCallAttempts ELSE EndCallAttempts

Again == /\ call.attempt < Attempts(call.action)
         /\ call' = [call EXCEPT !.attempt = @ + 1]

OutOfAttempts == call.attempt = Attempts(call.action) /\ call' = None

Calling(action) == Up /\ call # None /\ call.action = action

(* Mutant: the guard is set once the runner is found to run.               *)
FetchJitConfigUnguarded ==
  /\ Calling("jitconfig")
  /\ call' = None /\ Answer(call.post, "200")
  /\ runner' = [runner EXCEPT ![call.post] = "starting"]
  /\ NoMishap
  /\ UNCHANGED <<jobStarted, vm, github, stamped, overlapped, asked>>

(* The configuration is fetched, the guard set, the request acknowledged   *)
(* and the runner spawned, in one go.  A refusal is final.                 *)
FetchJitConfig ==
  /\ Calling("jitconfig")
  /\ \/ /\ call' = None /\ Answer(call.post, "200") /\ jobStarted' = TRUE
        /\ runner' = [runner EXCEPT ![call.post] = "starting"]
        /\ NoMishap
     \/ /\ Mishap /\ UNCHANGED <<jobStarted, runner>>
        /\ \/ Again /\ UNCHANGED post
           \/ OutOfAttempts /\ Answer(call.post, "502")
           \/ call' = None /\ Answer(call.post, "502")      \* refused
  /\ UNCHANGED <<vm, github, stamped, overlapped, asked>>

(* Mutant: only an agent that took its job is worth a call.                *)
RunnerExitOfJob(p) ==
  /\ Idle /\ runner[p] = "exited" /\ github.used
  /\ runner' = [runner EXCEPT ![p] = "reported"]
  /\ call' = Attempt(p, "terminate", 1)
  /\ UNCHANGED <<post, jobStarted, vm, github, stamped, overlapped, asked, mishaps>>

(* The agent's exit event: ask the broker to end this VM.                  *)
RunnerExit(p) ==
  /\ Idle /\ runner[p] = "exited"
  /\ runner' = [runner EXCEPT ![p] = "reported"]
  /\ call' = Attempt(p, "terminate", 1)
  /\ UNCHANGED <<post, jobStarted, vm, github, stamped, overlapped, asked, mishaps>>

GoesDown ==
  /\ vm' = "gone" /\ call' = None
  /\ github' = [github EXCEPT !.cut = @ \/ \E p \in Posts : runner[p] = "working"]

GivesUp == call' = None /\ vm' = "left" /\ UNCHANGED github

(* No VM to end yet, or no answer: once more, then it is the Reaper's.     *)
AskAgain == \/ Again /\ UNCHANGED <<vm, github>>
            \/ call.attempt = EndCallAttempts /\ GivesUp

(* The answer is entered in the history.                                   *)
Asked(refused) ==
  asked' = [asked EXCEPT ![call.post] = [n |-> @.n + 1, refused |-> @.refused \/ refused]]

(* Before the stamp the broker has no VM to end, and says so.              *)
SelfTerminate ==
  /\ Calling("terminate")
  /\ \/ stamped /\ GoesDown /\ NoMishap /\ UNCHANGED asked
     \/ ~stamped /\ AskAgain /\ NoMishap /\ Asked(FALSE)
     \/ Mishap /\ AskAgain /\ Asked(FALSE)
     \/ Mishap /\ GivesUp /\ Asked(TRUE)
  /\ UNCHANGED <<post, jobStarted, runner, stamped, overlapped>>

HookStep == FetchJitConfig \/ SelfTerminate \/ \E p \in Posts : RunnerExit(p)

-----------------------------------------------------------------------------
(* External: the runner agent.  GitHub takes a JIT config once; the agent  *)
(* that comes second, or cannot start, exits at once.                      *)
RunnerStarts(p) ==
  /\ Up /\ runner[p] = "starting"
  /\ IF github.used THEN runner' = [runner EXCEPT ![p] = "exited"] /\ UNCHANGED github
     ELSE \/ /\ runner' = [runner EXCEPT ![p] = "working"]
             /\ github' = [github EXCEPT !.used = TRUE]
          \/ runner' = [runner EXCEPT ![p] = "exited"] /\ UNCHANGED github
  /\ UNCHANGED <<post, jobStarted, call, vm, stamped, overlapped, asked, mishaps>>

JobEnds(p) ==
  /\ Up /\ runner[p] = "working"
  /\ runner' = [runner EXCEPT ![p] = "exited"]
  /\ UNCHANGED <<post, jobStarted, call, vm, github, stamped, overlapped, asked, mishaps>>

(* External: Provision's stamp lands.                                      *)
StampLands ==
  /\ ~stamped /\ stamped' = TRUE
  /\ UNCHANGED <<post, jobStarted, call, runner, vm, github, overlapped, asked, mishaps>>

-----------------------------------------------------------------------------
Init ==
  /\ post = [p \in Posts |-> "new"]
  /\ jobStarted = FALSE /\ call = None
  /\ runner = [p \in Posts |-> "none"]
  /\ vm = "up" /\ github = [used |-> FALSE, cut |-> FALSE]
  /\ stamped = FALSE /\ overlapped = FALSE /\ mishaps = 0
  /\ asked = [p \in Posts |-> [n |-> 0, refused |-> FALSE]]

Next ==
  \/ \E p \in Posts :
       RunArrives(p) \/ RunnerStarts(p) \/ JobEnds(p) \/ \E b \in Bodies : BodyRead(p, b)
  \/ HookStep \/ StampLands

Spec == Init /\ [][Next]_vars

(* The process goes on with a call and takes the agent's exit, and the     *)
(* agent comes to an end.  That a request is posted, its body arrives or   *)
(* the stamp ever lands is not promised.                                   *)
FairSpec ==
  /\ Spec /\ WF_vars(HookStep)
  /\ WF_vars(\E p \in Posts : RunnerStarts(p) \/ JobEnds(p))

-----------------------------------------------------------------------------
Phases == {"new", "reading", "fetching"} \union Codes

Calls ==
  {c \in [post : Posts, action : {"jitconfig", "terminate"}, attempt : 1 .. EndCallAttempts] :
     c.attempt <= Attempts(c.action)}

ASSUME NoneAssumption == None \notin Calls

TypeOK ==
  /\ post \in [Posts -> Phases]
  /\ jobStarted \in BOOLEAN /\ stamped \in BOOLEAN /\ overlapped \in BOOLEAN
  /\ call \in Calls \union {None}
  /\ runner \in [Posts -> {"none", "starting", "working", "exited", "reported"}]
  /\ vm \in {"up", "gone", "left"}
  /\ github \in [used : BOOLEAN, cut : BOOLEAN]
  /\ asked \in [Posts -> [n : Nat, refused : BOOLEAN]]
  /\ mishaps \in 0 .. MaxMishaps

(* At most one of the requests has started a runner.                       *)
OneRunner ==
  \A p, q \in Posts : runner[p] # "none" /\ runner[q] # "none" => p = q

(* "This microVM runs exactly one job" (run-hook.mjs): one runner agent,   *)
(* and never an end asked for while it works -- as long as no two /run     *)
(* requests awaited their bodies at once.                                  *)
JobIsWhole == ~overlapped => OneRunner /\ ~github.cut

(* The VM is left to the Reaper only after an exit of its agent for which  *)
(* the broker was asked EndCallAttempts times and not once fewer, or at    *)
(* which it refused: neither "not stamped yet" nor a failed call ends the  *)
(* asking before (selfTerminate, callBroker).                              *)
LeftAfterTrying ==
  vm = "left" => \E p \in Posts : asked[p].refused \/ asked[p].n = EndCallAttempts

(* Whatever ended the agent, a job or a config it could not use, the VM's  *)
(* end is asked for and settled: it is gone, or the Reaper's.              *)
GuestEnds == \A p \in Posts : runner[p] = "exited" ~> vm \in {"gone", "left"}

=============================================================================
