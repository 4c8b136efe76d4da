----------------------------- MODULE MCRunPlane -----------------------------
(***************************************************************************)
(* Small instances of the run plane: one run followed through every fault, *)
(* and two runs of one repository whose runners are interchangeable.       *)
(***************************************************************************)
EXTENDS RunPlane, TLC

CONSTANTS r1, r2, v1, v2, t1, t2

OneGroup  == [r \in Runs |-> "repo"]
OwnJob    == [r \in Runs |-> {r}]
AnyJob    == [r \in Runs |-> Runs]

AllFaults == Kinds
NoFaults  == {}
RowFaults == {"put"}
LiveFaults == {"stamp", "crash", "sweep"}
QueueFaults == {"guard", "mark", "crash", "lost", "unclosed"}

Interchangeable == Permutations(VMs) \union Permutations(Tokens)

=============================================================================
