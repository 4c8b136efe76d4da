---------------------------- MODULE MCAppConfig -----------------------------
(* Instances of AppConfig for TLC.                                         *)
EXTENDS AppConfig, TLC

CONSTANTS i1, i2, c1, c2, c3, a1, a2, s1, s2

(* c2 is c1's App with a new webhook secret, c3 another App with c1's.     *)
MCAppOf    == c1 :> a1 @@ c2 :> a1 @@ c3 :> a2
MCSecretOf == c1 :> s1 @@ c2 :> s2 @@ c3 :> s1

(* Any fault first, then a second that hits the undo of it.               *)
AnyThenRecovery == <<Kinds, {"undo"}>>
OneCrash        == <<{"crash"}>>
OneRefusedHook  == <<{"hook"}>>

(* The containers are alike.                                               *)
Interchangeable == Permutations({i1, i2})

=============================================================================
