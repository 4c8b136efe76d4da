----------------------------- MODULE WebhookDoor ----------------------------
(***************************************************************************)
(* The signature check in front of Ingest (src/ingest/handler.ts) and the  *)
(* parameter cache under it (src/shared/ssm.ts).  A container verifies     *)
(* with its cached copy of the webhook secret; a mismatch buys one read    *)
(* past the cache in each window, which anyone may use up, since the       *)
(* endpoint is public.  Time passes in ticks, two to the time to live and  *)
(* to the window (30 seconds each).  A secret is named by its version.     *)
(***************************************************************************)
EXTENDS ControlState

SecretTtl     == 2
RecheckWindow == 2

SettledSecret ==
  [live |-> 0, cached |-> 0, ttl |-> 0, recheck |-> 0, age |-> SecretTtl,
   answer |-> "none"]

Less(n) == IF n = 0 THEN 0 ELSE n - 1

DoorTick ==
  /\ Can("rotate")
  /\ secret' = [secret EXCEPT !.ttl = Less(@), !.recheck = Less(@), !.answer = "none",
                              !.age = IF @ < SecretTtl THEN @ + 1 ELSE @]
  /\ UNCHANGED <<repo, install, allow, registryVars, githubVars, scanVars,
                 rewriteVars, jobVars, scope>>

(* A relink stores a new secret, and GitHub signs with it from then on.    *)
RotateSecret ==
  /\ Spend("rotate")
  /\ secret' = [secret EXCEPT !.live = @ + 1, !.age = 0, !.answer = "none"]
  /\ UNCHANGED <<repo, install, allow, registryVars, githubVars, scanVars,
                 rewriteVars, jobVars>>

(* Mutant: the entry lives as long as those of other parameters, minutes.  *)
GetParamDefaultTtl(s) ==
  IF s.ttl > 0 THEN s ELSE [s EXCEPT !.cached = s.live, !.ttl = 10 * SecretTtl]

(* The cached copy while it may serve, else the parameter, cached again.   *)
GetParam(s) ==
  IF s.ttl > 0 THEN s ELSE [s EXCEPT !.cached = s.live, !.ttl = SecretTtl]

(* A read past the cache leaves an entry that has already expired.         *)
GetParamFresh(s) == [s EXCEPT !.cached = s.live, !.ttl = 0]

(* verifyWithRotation, for a well-formed signature made with the secret    *)
(* `signed`, or with none of ours (None); `works`: the re-read answers.    *)
VerifyWithRotation(s, signed, works) ==
  LET answer(accepted) == IF accepted THEN "accepted" ELSE "refused"
      window == [s EXCEPT !.recheck = RecheckWindow]
      fresh  == GetParamFresh(window) IN
  IF signed = s.cached THEN [s EXCEPT !.answer = "accepted"]
  ELSE IF s.recheck > 0 THEN [s EXCEPT !.answer = "refused"]
  ELSE IF ~works THEN [window EXCEPT !.answer = "refused"]
  ELSE [fresh EXCEPT !.answer = answer(signed = s.live)]

(* A delivery GitHub signs, or a stranger's.  The first read has no guard: *)
(* if the parameter is unreadable, the request fails, unverified.          *)
Deliver(signed) ==
  /\ Spend(IF signed = None THEN "junk" ELSE "deliver")
  /\ \E works \in BOOLEAN :
       /\ works \/ "fault" \in scope.may
       /\ secret' = IF secret.ttl = 0 /\ ~works
                    THEN [secret EXCEPT !.answer = "failed"]
                    ELSE LET judged == VerifyWithRotation(GetParam(secret), signed, works)
                         IN  IF signed = None THEN [judged EXCEPT !.answer = "none"]
                             ELSE judged
  /\ UNCHANGED <<repo, install, allow, registryVars, githubVars, scanVars,
                 rewriteVars, jobVars>>

DoorNext ==
  \/ DoorTick
  \/ RotateSecret
  \/ Deliver(secret.live)
  \/ Deliver(None)

=============================================================================
