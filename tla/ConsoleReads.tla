---------------------------- MODULE ConsoleReads ----------------------------
(***************************************************************************)
(* The two reads of the console that page through the run table: the Runs  *)
(* screen and a report.  One screen is mounted at a time, and leaving it   *)
(* drops its state, so each is taken from its start.                       *)
(***************************************************************************)
EXTENDS RunsScreen, ReportReads

VARIABLE screen

vars == <<screen, screenVars, reportVars>>

Init ==
  /\ screen \in {"runs", "reports"}
  /\ ScreenInit /\ ReportInit

Next ==
  \/ screen = "runs" /\ ScreenNext /\ UNCHANGED <<screen, reportVars>>
  \/ screen = "reports" /\ ReportNext /\ UNCHANGED <<screen, screenVars>>

Spec == Init /\ [][Next]_vars

=============================================================================
