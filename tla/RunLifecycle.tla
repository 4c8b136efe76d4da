---------------------------- MODULE RunLifecycle ----------------------------
(***************************************************************************)
(* What the run table promises its readers - the console, the reports, the *)
(* Reaper - whatever the writers do: a run enters as `queued`, each change *)
(* takes it strictly up the ranking, and a run that has ended stays ended. *)
(***************************************************************************)
EXTENDS RunStore

CONSTANT Runs

VARIABLE status

Init == status = [r \in Runs |-> Absent]

Enter(r) ==
  /\ status[r] = Absent
  /\ status' = [status EXCEPT ![r] = "queued"]

Advance(r) ==
  /\ status[r] \in Active
  /\ \E to \in Status :
       /\ StatusRank[to] > StatusRank[status[r]]
       /\ status' = [status EXCEPT ![r] = to]

Next == \E r \in Runs : Enter(r) \/ Advance(r)

Spec == Init /\ [][Next]_status

=============================================================================
