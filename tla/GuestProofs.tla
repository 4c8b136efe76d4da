---------------------------- MODULE GuestProofs -----------------------------
(***************************************************************************)
(* One VM runs one job, for any number of /run requests: the proof.  The   *)
(* guard is sound between requests because everything from the body's      *)
(* arrival to jobStarted is one turn of the event loop; GuardInv says what *)
(* the turn leaves behind.                                                 *)
(***************************************************************************)
EXTENDS GuestHook, TLAPS

Opening == {p \in Posts : post[p] \in {"reading", "fetching"}}

CallInv ==
  /\ \A p \in Posts : post[p] = "fetching" =>
       call # None /\ call.action = "jitconfig" /\ call.post = p
  /\ call # None /\ call.action = "jitconfig" => post[call.post] = "fetching"
  /\ call # None /\ call.action = "terminate" => runner[call.post] = "reported"

RunnerInv ==
  \A p \in Posts : runner[p] # "none" => post[p] = "200" /\ jobStarted

GuardInv ==
  ~overlapped => /\ \A p, q \in Opening : p = q
                 /\ jobStarted => Opening = {}
                 /\ OneRunner
                 /\ ~github.cut

IInv == TypeOK /\ CallInv /\ RunnerInv /\ GuardInv

-----------------------------------------------------------------------------
(* A first attempt, and the next one, are calls.                           *)
LEMMA FirstAttempt ==
  ASSUME NEW p \in Posts, NEW a \in {"jitconfig", "terminate"}
  PROVE  /\ Attempt(p, a, 1) \in Calls /\ Attempt(p, a, 1).post = p
         /\ Attempt(p, a, 1).action = a
<1>1. Attempts(a) \in {2, 4}
  BY DEF Attempts, BootCallAttempts, EndCallAttempts
<1>. QED  BY <1>1, SMT DEF Attempt, Calls, EndCallAttempts

LEMMA CallFields ==
  ASSUME NEW c \in Calls
  PROVE  /\ c \in [post : Posts, action : {"jitconfig", "terminate"}, attempt : 1 .. 4]
         /\ c.attempt <= Attempts(c.action) /\ Attempts(c.action) \in {2, 4}
  BY SMT DEF Calls, Attempts, BootCallAttempts, EndCallAttempts

LEMMA NextAttempt ==
  ASSUME NEW c \in Calls, c.attempt < Attempts(c.action)
  PROVE  /\ [c EXCEPT !.attempt = @ + 1] \in Calls
         /\ [c EXCEPT !.attempt = @ + 1].post = c.post
         /\ [c EXCEPT !.attempt = @ + 1].action = c.action
  BY CallFields, SMT DEF Calls, EndCallAttempts

LEMMA MishapCount ==
  ASSUME mishaps \in 0 .. MaxMishaps, Mishap \/ NoMishap PROVE mishaps' \in 0 .. MaxMishaps
<1>1. MaxMishaps \in Nat
  BY GuestAssumption
<1>. QED  BY <1>1, SMT DEF Mishap, NoMishap

LEMMA AskedType ==
  ASSUME asked \in [Posts -> [n : Nat, refused : BOOLEAN]], NEW ref \in BOOLEAN, Asked(ref)
  PROVE  asked' \in [Posts -> [n : Nat, refused : BOOLEAN]]
<1>1. ASSUME NEW q \in Posts
      PROVE  [n |-> asked[q].n + 1, refused |-> asked[q].refused \/ ref]
               \in [n : Nat, refused : BOOLEAN]
  <2>1. asked[q] \in [n : Nat, refused : BOOLEAN]
    OBVIOUS
  <2>2. asked[q].n + 1 \in Nat
    BY <2>1, SMT
  <2>3. (asked[q].refused \/ ref) \in BOOLEAN
    BY Zenon
  <2>. QED  BY <2>2, <2>3, Zenon
<1>. QED  BY <1>1 DEF Asked

(* Every variable keeps its type, under every step of the hook, the agent  *)
(* and the platform.                                                       *)
LEMMA TypeStep == ASSUME TypeOK, [Next]_vars PROVE TypeOK'
<1> USE GuestAssumption, NoneAssumption DEF TypeOK, Phases, Codes, Answer
<1>1. ASSUME NEW p \in Posts, RunArrives(p) PROVE TypeOK'
  BY <1>1 DEF RunArrives
<1>2. ASSUME NEW p \in Posts, NEW b \in Bodies, BodyRead(p, b) PROVE TypeOK'
  <2>1. BodyAnswer(b) \in {"fetching", "400", "500"}
    BY DEF BodyAnswer
  <2>2. Attempt(p, "jitconfig", 1) \in Calls
    BY FirstAttempt
  <2>. QED  BY <1>2, <2>1, <2>2 DEF BodyRead
<1>3. CASE FetchJitConfig
  <2>1. call \in Calls
    BY <1>3 DEF FetchJitConfig, Calling
  <2>2. call' \in Calls \union {None}
    BY <1>3, <2>1, NextAttempt DEF FetchJitConfig, Again, OutOfAttempts
  <2>3. post' \in [Posts -> Phases]
    BY <1>3, <2>1, CallFields DEF FetchJitConfig
  <2>4. mishaps' \in 0 .. MaxMishaps
    BY <1>3, MishapCount DEF FetchJitConfig
  <2>5. /\ jobStarted' \in BOOLEAN
        /\ runner' \in [Posts -> {"none", "starting", "working", "exited", "reported"}]
    BY <1>3, <2>1, CallFields DEF FetchJitConfig
  <2>. QED  BY <1>3, <2>2, <2>3, <2>4, <2>5 DEF FetchJitConfig
<1>4. CASE SelfTerminate
  <2>1. call \in Calls
    BY <1>4 DEF SelfTerminate, Calling
  <2>2. call' \in Calls \union {None}
    BY <1>4, <2>1, NextAttempt DEF SelfTerminate, AskAgain, GivesUp, GoesDown, Again
  <2>3. vm' \in {"up", "gone", "left"} /\ github' \in [used : BOOLEAN, cut : BOOLEAN]
    BY <1>4 DEF SelfTerminate, AskAgain, GivesUp, GoesDown
  <2>4. mishaps' \in 0 .. MaxMishaps
    BY <1>4, MishapCount DEF SelfTerminate
  <2>5. asked' \in [Posts -> [n : Nat, refused : BOOLEAN]]
    <3>1. UNCHANGED asked \/ Asked(TRUE) \/ Asked(FALSE)
      BY <1>4 DEF SelfTerminate
    <3>. QED  BY <3>1, AskedType
  <2>. QED  BY <1>4, <2>2, <2>3, <2>4, <2>5 DEF SelfTerminate
<1>5. ASSUME NEW p \in Posts, RunnerExit(p) PROVE TypeOK'
  <2>1. Attempt(p, "terminate", 1) \in Calls
    BY FirstAttempt
  <2>. QED  BY <1>5, <2>1 DEF RunnerExit
<1>6. ASSUME NEW p \in Posts, RunnerStarts(p) PROVE TypeOK'
  BY <1>6 DEF RunnerStarts
<1>7. ASSUME NEW p \in Posts, JobEnds(p) PROVE TypeOK'
  BY <1>7 DEF JobEnds
<1>8. CASE StampLands
  BY <1>8 DEF StampLands
<1>9. CASE UNCHANGED vars
  BY <1>9 DEF vars
<1>. QED  BY <1>1, <1>2, <1>3, <1>4, <1>5, <1>6, <1>7, <1>8, <1>9 DEF Next, HookStep

(* The rest of the invariant, step by step.                                *)
LEMMA GuardStep == ASSUME IInv, [Next]_vars PROVE CallInv' /\ RunnerInv' /\ GuardInv'
<1> USE NoneAssumption DEF IInv, TypeOK, CallInv, RunnerInv, GuardInv, Opening, OneRunner
<1>1. ASSUME NEW p \in Posts, RunArrives(p) PROVE CallInv' /\ RunnerInv' /\ GuardInv'
  <2>1. \A q \in Posts : post[q] # "fetching"
    BY <1>1 DEF RunArrives, Idle
  <2>2. \A q \in Posts : post'[q] = IF q = p THEN IF jobStarted THEN "409" ELSE "reading"
                                    ELSE post[q]
    BY <1>1 DEF RunArrives, Answer
  <2>3. CallInv' /\ RunnerInv'
    BY <1>1, <2>1, <2>2 DEF RunArrives, Idle
  <2>4. ASSUME ~overlapped' PROVE GuardInv'
    <3>1. ~overlapped /\ (jobStarted \/ \A q \in Posts : post[q] # "reading")
      BY <1>1, <2>4 DEF RunArrives
    <3>. QED  BY <1>1, <2>1, <2>2, <3>1 DEF RunArrives
  <2>. QED  BY <2>3, <2>4
<1>2. ASSUME NEW p \in Posts, NEW b \in Bodies, BodyRead(p, b)
      PROVE CallInv' /\ RunnerInv' /\ GuardInv'
  <2>1. BodyAnswer(b) \in {"fetching", "400", "500"}
    BY GuestAssumption DEF BodyAnswer
  <2>2. \A q \in Posts : post'[q] = IF q = p THEN BodyAnswer(b) ELSE post[q]
    BY <1>2 DEF BodyRead, Answer
  <2>3. \A q \in Posts : post[q] # "fetching"
    BY <1>2 DEF BodyRead, Idle
  <2>4. CallInv'
    <3>1. CASE BodyAnswer(b) = "fetching"
      <4>1. call' = Attempt(p, "jitconfig", 1)
        BY <1>2, <3>1 DEF BodyRead
      <4>2. call' # None /\ call'.action = "jitconfig" /\ call'.post = p
        BY <4>1, FirstAttempt
      <4>. QED  BY <2>2, <2>3, <3>1, <4>2
    <3>2. CASE BodyAnswer(b) # "fetching"
      BY <1>2, <2>1, <2>2, <2>3, <3>2 DEF BodyRead, Idle
    <3>. QED  BY <3>1, <3>2
  <2>5. RunnerInv' /\ GuardInv'
    BY <1>2, <2>1, <2>2 DEF BodyRead
  <2>. QED  BY <2>4, <2>5
<1>3. CASE FetchJitConfig
  <2>1. call \in Calls /\ call.post \in Posts /\ post[call.post] = "fetching"
    BY <1>3 DEF FetchJitConfig, Calling, Calls
  <2> DEFINE p == call.post
  <2>2. CASE call' = None /\ Answer(p, "200") /\ jobStarted' = TRUE
             /\ runner' = [runner EXCEPT ![p] = "starting"]
    <3>1. \A q \in Posts : post'[q] = IF q = p THEN "200" ELSE post[q]
      BY <2>1, <2>2 DEF Answer
    <3>2. \A q \in Posts : q # p => post'[q] # "fetching"
      BY <2>1, <3>1
    <3>3. CallInv' /\ RunnerInv'
      BY <1>3, <2>1, <2>2, <3>1, <3>2 DEF FetchJitConfig
    <3>4. ASSUME ~overlapped' PROVE GuardInv'
      <4>1. ~overlapped /\ p \in Opening /\ ~jobStarted
        BY <1>3, <2>1, <3>4 DEF FetchJitConfig
      <4>2. \A q \in Posts : runner[q] = "none"
        BY <4>1
      <4>. QED  BY <1>3, <2>1, <2>2, <3>1, <4>1, <4>2 DEF FetchJitConfig
    <3>. QED  BY <3>3, <3>4
  <2>3. CASE UNCHANGED <<jobStarted, runner, post>> /\ Again
    <3>1. call' \in Calls /\ call'.post = p /\ call'.action = call.action
      BY <2>1, <2>3, NextAttempt DEF Again
    <3>. QED  BY <1>3, <2>1, <2>3, <3>1 DEF FetchJitConfig
  <2>4. CASE UNCHANGED <<jobStarted, runner>> /\ call' = None /\ Answer(p, "502")
    <3>1. \A q \in Posts : post'[q] = IF q = p THEN "502" ELSE post[q]
      BY <2>1, <2>4 DEF Answer
    <3>. QED  BY <1>3, <2>1, <2>4, <3>1 DEF FetchJitConfig
  <2>. QED  BY <1>3, <2>2, <2>3, <2>4 DEF FetchJitConfig, OutOfAttempts
<1>4. CASE SelfTerminate
  <2>1. call \in Calls /\ call.post \in Posts /\ call.action = "terminate"
        /\ runner[call.post] = "reported"
    BY <1>4 DEF SelfTerminate, Calling, Calls
  <2>2. call' = None \/ (call' = [call EXCEPT !.attempt = @ + 1] /\ github' = github)
    BY <1>4 DEF SelfTerminate, AskAgain, GivesUp, GoesDown, Again
  <2>3. CallInv' /\ RunnerInv'
    BY <1>4, <2>1, <2>2 DEF SelfTerminate, Calls
  <2>4. ASSUME ~overlapped' PROVE ~github'.cut
    <3>1. \A q \in Posts : runner[q] # "working"
      BY <1>4, <2>1, <2>4 DEF SelfTerminate
    <3>. QED  BY <1>4, <2>4, <3>1 DEF SelfTerminate, AskAgain, GivesUp, GoesDown
  <2>5. GuardInv'
    BY <1>4, <2>4 DEF SelfTerminate
  <2>. QED  BY <2>3, <2>5
<1>5. ASSUME NEW p \in Posts, RunnerExit(p) PROVE CallInv' /\ RunnerInv' /\ GuardInv'
  BY <1>5 DEF RunnerExit, Idle, Attempt
<1>6. ASSUME NEW p \in Posts, RunnerStarts(p) PROVE CallInv' /\ RunnerInv' /\ GuardInv'
  <2>1. runner[p] = "starting" /\ post' = post /\ call' = call /\ jobStarted' = jobStarted
    BY <1>6 DEF RunnerStarts
  <2>2. \A q \in Posts : q # p => runner'[q] = runner[q]
    BY <1>6 DEF RunnerStarts
  <2>3. github'.cut = github.cut /\ overlapped' = overlapped
    BY <1>6 DEF RunnerStarts
  <2>4. CallInv' /\ RunnerInv'
    <3>1. call # None => call.post \in Posts
      BY CallFields
    <3>. QED  BY <2>1, <2>2, <3>1
  <2>5. ASSUME ~overlapped' PROVE OneRunner'
    BY <2>1, <2>2, <2>3, <2>5
  <2>. QED  BY <2>1, <2>3, <2>4, <2>5
<1>7. ASSUME NEW p \in Posts, JobEnds(p) PROVE CallInv' /\ RunnerInv' /\ GuardInv'
  BY <1>7 DEF JobEnds
<1>8. CASE StampLands
  BY <1>8 DEF StampLands
<1>9. CASE UNCHANGED vars
  BY <1>9 DEF vars
<1>. QED  BY <1>1, <1>2, <1>3, <1>4, <1>5, <1>6, <1>7, <1>8, <1>9 DEF Next, HookStep

LEMMA InitInv == Init => IInv
<1> SUFFICES ASSUME Init PROVE IInv
  OBVIOUS
<1>1. MaxMishaps \in Nat
  BY GuestAssumption
<1>2. 0 \in 0 .. MaxMishaps
  BY <1>1, SMT
<1>3. TypeOK
  BY <1>2 DEF Init, TypeOK, Phases
<1>4. CallInv /\ RunnerInv
  BY DEF Init, CallInv, RunnerInv
<1>5. GuardInv
  BY DEF Init, GuardInv, Opening, OneRunner
<1>. QED  BY <1>3, <1>4, <1>5 DEF IInv

(* The invariant holds of every behaviour, whatever the requests carry and *)
(* however many broker calls fail.                                         *)
THEOREM InvAlways == Spec => []IInv
<1>1. IInv /\ [Next]_vars => IInv'
  BY TypeStep, GuardStep DEF IInv
<1>. QED  BY InitInv, <1>1, PTL DEF Spec

(* A VM whose /run requests do not overlap starts one runner agent, and    *)
(* its end is never asked for while that agent works (run-hook.mjs).       *)
THEOREM OneJob == Spec => []JobIsWhole
<1>1. IInv => JobIsWhole
  BY DEF IInv, GuardInv, JobIsWhole
<1>. QED  BY InvAlways, <1>1, PTL

-----------------------------------------------------------------------------
(* Between two attempts of an agent's end call, the history holds as many  *)
(* answers as there were attempts, none of them a refusal; before its exit *)
(* it holds none.                                                          *)
AskedInv ==
  /\ call # None /\ call.action = "terminate" => asked[call.post].n = call.attempt - 1
  /\ \A p \in Posts : runner[p] # "reported" => asked[p].n = 0
  /\ LeftAfterTrying

LEMMA AskedStep == ASSUME IInv, AskedInv, [Next]_vars PROVE AskedInv'
<1>a. TypeOK /\ CallInv
  BY DEF IInv
<1>1. CASE SelfTerminate
  <2>1. /\ call \in Calls /\ call # None /\ call.action = "terminate" /\ call.post \in Posts
        /\ call.attempt \in 1 .. 4 /\ runner[call.post] = "reported"
    BY <1>1, <1>a DEF SelfTerminate, Calling, TypeOK, CallInv, Calls, EndCallAttempts
  <2> DEFINE p == call.post
  <2>2. asked[p].n = call.attempt - 1 /\ asked[p] \in [n : Nat, refused : BOOLEAN]
    BY <1>a, <2>1 DEF AskedInv, TypeOK
  <2>3. \A q \in Posts : runner'[q] # "reported" => q # p /\ asked[q].n = 0
    BY <1>1, <2>1 DEF SelfTerminate, AskedInv
  <2>4. ASSUME NEW ref \in BOOLEAN, Asked(ref)
        PROVE  /\ asked'[p].n = call.attempt /\ (ref => asked'[p].refused)
               /\ \A q \in Posts \ {p} : asked'[q] = asked[q]
               /\ \A q \in Posts : asked[q].refused => asked'[q].refused
    BY <1>a, <2>1, <2>2, <2>4 DEF Asked, TypeOK
  <2>5. CASE GoesDown /\ UNCHANGED asked
    BY <2>3, <2>5 DEF GoesDown, AskedInv, LeftAfterTrying
  <2>6. CASE Again /\ UNCHANGED vm /\ Asked(FALSE)
    <3>1. call'.post = p /\ call'.attempt = call.attempt + 1
      BY <2>1, <2>6 DEF Again, Calls
    <3>2. asked'[p].n = call'.attempt - 1
      <4>1. asked'[p].n = call.attempt
        BY <2>4, <2>6
      <4>. QED  BY <2>1, <3>1, <4>1, SMT
    <3>3. LeftAfterTrying'
      <4>1. asked[p].n # EndCallAttempts
        BY <2>1, <2>2, SMT DEF EndCallAttempts
      <4>. QED  BY <2>4, <2>6, <4>1 DEF AskedInv, LeftAfterTrying
    <3>. QED  BY <2>3, <2>4, <2>6, <3>1, <3>2, <3>3 DEF AskedInv
  <2>7. CASE GivesUp /\ call.attempt = EndCallAttempts /\ Asked(FALSE)
    BY <2>1, <2>3, <2>4, <2>7 DEF GivesUp, AskedInv, LeftAfterTrying
  <2>8. CASE GivesUp /\ Asked(TRUE)
    BY <2>1, <2>3, <2>4, <2>8 DEF GivesUp, AskedInv, LeftAfterTrying
  <2>. QED  BY <1>1, <2>5, <2>6, <2>7, <2>8 DEF SelfTerminate, AskAgain
<1>2. ASSUME NEW p \in Posts, RunnerExit(p) PROVE AskedInv'
  <2>1. call' = Attempt(p, "terminate", 1) /\ call'.post = p /\ call'.attempt = 1
    BY <1>2, FirstAttempt DEF RunnerExit, Attempt
  <2>2. asked' = asked /\ vm' = vm /\ runner[p] = "exited"
    BY <1>2 DEF RunnerExit
  <2>3. \A q \in Posts : runner'[q] # "reported" => runner[q] # "reported"
    BY <1>2, <1>a DEF RunnerExit, TypeOK
  <2>. QED  BY <2>1, <2>2, <2>3 DEF AskedInv, LeftAfterTrying
<1>3. CASE FetchJitConfig
  <2>1. call \in Calls /\ call.action = "jitconfig" /\ asked' = asked /\ vm' = vm
    BY <1>3, <1>a DEF FetchJitConfig, Calling, TypeOK
  <2>2. call' = None \/ call'.action = "jitconfig"
    BY <1>3, <2>1, NextAttempt DEF FetchJitConfig, Again, OutOfAttempts
  <2>3. \A q \in Posts : runner'[q] # "reported" => runner[q] # "reported" \/ q = call.post
    BY <1>3, <1>a DEF FetchJitConfig, TypeOK
  <2>4. runner[call.post] = "none" \/ runner[call.post] # "reported"
    BY <1>3, <1>a DEF IInv, CallInv, RunnerInv, FetchJitConfig, Calling, TypeOK, Calls
  <2>. QED  BY <2>1, <2>2, <2>3, <2>4 DEF AskedInv, LeftAfterTrying
<1>4. ASSUME NEW p \in Posts, RunnerStarts(p) \/ JobEnds(p) PROVE AskedInv'
  BY <1>4, <1>a DEF RunnerStarts, JobEnds, AskedInv, LeftAfterTrying, TypeOK
<1>5. ASSUME NEW p \in Posts, RunArrives(p) PROVE AskedInv'
  BY <1>5 DEF RunArrives, AskedInv, LeftAfterTrying
<1>6. ASSUME NEW p \in Posts, NEW b \in Bodies, BodyRead(p, b) PROVE AskedInv'
  <2>1. call' = None \/ call'.action = "jitconfig"
    BY <1>6, FirstAttempt DEF BodyRead, Idle
  <2>. QED  BY <1>6, <2>1 DEF BodyRead, AskedInv, LeftAfterTrying
<1>7. CASE StampLands \/ UNCHANGED vars
  BY <1>7 DEF StampLands, vars, AskedInv, LeftAfterTrying
<1>. QED  BY <1>1, <1>2, <1>3, <1>4, <1>5, <1>6, <1>7 DEF Next, HookStep

(* A VM is left to the Reaper only after an exit for which every attempt   *)
(* was spent, or which the broker refused, however many calls failed and   *)
(* whenever the stamp landed (callBroker, selfTerminate).                  *)
THEOREM TriesBeforeLeaving == Spec => []LeftAfterTrying
<1>1. Init => AskedInv
  BY DEF Init, AskedInv, LeftAfterTrying
<1>2. IInv /\ AskedInv /\ [Next]_vars => AskedInv'
  BY AskedStep
<1>3. AskedInv => LeftAfterTrying
  BY DEF AskedInv
<1>. QED  BY InvAlways, <1>1, <1>2, <1>3, PTL DEF Spec

=============================================================================
