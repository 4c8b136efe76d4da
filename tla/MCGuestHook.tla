---------------------------- MODULE MCGuestHook -----------------------------
(* Two /run requests for one VM, with every kind of body, and the boot      *)
(* budget against the platform's deadline.                                  *)
EXTENDS GuestHook

MCBodies == {"bare", "wrapped", "not json", "incomplete", "too large"}

(* "A further full-length attempt still fits" (run-hook.mjs:141): the boot  *)
(* fetch, and one attempt more than it makes, end before the hook's own     *)
(* deadline, so a slow broker is answered 502 and not silence.              *)
ASSUME BootFitsDeadline ==
  /\ WorstCall(BootCallAttempts) = 32
  /\ WorstCall(BootCallAttempts + 1) < RunHookTimeout

=============================================================================
