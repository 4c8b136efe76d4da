---------------------------- MODULE ReportReads -----------------------------
(***************************************************************************)
(* The reads of one report (src/mgmt/report-store.ts, and the report and   *)
(* export routes of the management API): the repositories a session may    *)
(* report on are listed, and a few workers walk each one's run index,      *)
(* newest row first, until the window is behind them or a budget is spent. *)
(*                                                                         *)
(* The index of a repository is three counts: rows queued after the window,*)
(* rows in it and rows before it.  A row is its repository and its place,  *)
(* the newest 1.  Rows queued during the reads fall behind the window's    *)
(* end and before every cursor, so the counts stay.                        *)
(***************************************************************************)
EXTENDS RollupRules

CONSTANTS
  Installations,   (* those the session grants                             *)
  Workers,         (* at most this many repositories at once               *)
  PageSize,        (* rows of an index page                                *)
  MaxPagesPerRepo, (* budget: pages of one repository                      *)
  MaxTotalRows,    (* budget: rows of one report                           *)
  MaxExportRows,   (* rows one export response carries                     *)
  Requests         (* the requests there may be                            *)

ASSUME ReportAssumption ==
  /\ {PageSize, MaxPagesPerRepo, MaxTotalRows, MaxExportRows} \subseteq Nat \ {0}
  /\ None \notin Repos /\ Workers # {}
  /\ Requests \subseteq [granted : SUBSET Installations, listed : SUBSET (Installations \X Repos),
                        wanted : SUBSET Repos, kind : {"report", "export"},
                        index : [Repos -> [newer : Nat, inside : Nat, older : Nat]]]

VARIABLES
  request, (* what is asked: the listing, the filter and the indexes       *)
  queue,   (* listing entries no worker has taken                          *)
  worker,  (* each worker: idle, busy with a page of a repository, or done *)
  read,    (* repositories a query was issued for                          *)
  runs,    (* rows collected                                               *)
  total,   (* the length of their list: repetitions counted                *)
  flags,   (* nothing was left unread; the row budget is spent             *)
  outcome, (* none, reading, refused, failed or answered                  *)
  answer   (* the rows of the answer, and whether it says they are all     *)

reportVars == <<request, queue, worker, read, runs, total, flags, outcome, answer>>

-----------------------------------------------------------------------------
(* The repositories a session may report on: those its installations list, *)
(* narrowed by the filter, each once though two installations list it.     *)
Narrowed(q) ==
  {e \in q.listed : e[1] \in q.granted /\ (q.wanted # {} => e[2] \in q.wanted)}

RepoIds(q) == {r \in Repos : \E i \in Installations : <<i, r>> \in Narrowed(q)}

(* Mutant: a repository that two installations list is read twice.         *)
ResolvedTwice(q) == Narrowed(q)

Resolved(q) == {CHOOSE e \in Narrowed(q) : e[2] = r : r \in RepoIds(q)}

(* The places of an index.                                                 *)
WindowEnd(q, r) == q.index[r].newer + q.index[r].inside
Length(q, r)    == WindowEnd(q, r) + q.index[r].older

(* The rows of the window at the places from + 1 to to.                    *)
Inside(q, r, from, to) ==
  {x \in {r} \X (from + 1 .. to) : q.index[r].newer < x[2] /\ x[2] <= WindowEnd(q, r)}

InWindow(q, r) == Inside(q, r, 0, WindowEnd(q, r))

ReportWindow(q) == UNION {InWindow(q, r) : r \in RepoIds(q)}

-----------------------------------------------------------------------------
(* The reads.                                                              *)

Idle == [at |-> "idle", repo |-> None, page |-> 0, from |-> 0]
Done == [Idle EXCEPT !.at = "done"]

Busy(r, page, from) == [at |-> "busy", repo |-> r, page |-> page, from |-> from]

NoAnswer == [rows |-> {}, complete |-> FALSE]

ReportInit ==
  /\ request = None /\ outcome = "none" /\ answer = NoAnswer
  /\ queue = {} /\ worker = [w \in Workers |-> Idle] /\ read = {}
  /\ runs = {} /\ total = 0 /\ flags = [complete |-> TRUE, spent |-> FALSE]

(* A session without installations is refused, not answered with nothing.  *)
Ask(q) ==
  /\ outcome = "none" /\ request' = q
  /\ IF q.granted = {} THEN outcome' = "refused" /\ UNCHANGED queue
     ELSE outcome' = "reading" /\ queue' = Resolved(q)
  /\ UNCHANGED <<worker, read, runs, total, flags, answer>>

Becomes(w, state) == worker' = [worker EXCEPT ![w] = state]

(* A worker takes the next repository, until there is none or the row      *)
(* budget is spent.                                                        *)
Take(w) ==
  /\ outcome = "reading" /\ worker[w] = Idle
  /\ \/ queue = {} /\ Becomes(w, Done) /\ UNCHANGED <<queue, read>>
     \/ \E e \in queue :
          /\ queue' = queue \ {e}
          /\ IF flags.spent THEN Becomes(w, Done) /\ UNCHANGED read
             ELSE Becomes(w, Busy(e[2], 1, 0)) /\ read' = read \union {e[2]}
  /\ UNCHANGED <<request, runs, total, flags, outcome, answer>>

(* One page: its rows of the window are collected.  A spent row budget     *)
(* ends the worker; a row older than the window, or no cursor, ends the    *)
(* repository; so does the page budget, with history left.                 *)
ReadPage(w) ==
  LET r    == worker[w].repo
      from == worker[w].from
      to   == from + PageSize
      got  == Inside(request, r, from, to)
      past == WindowEnd(request, r) < to /\ WindowEnd(request, r) < Length(request, r)
      more == to <= Length(request, r)
  IN  /\ outcome = "reading" /\ worker[w].at = "busy"
      /\ runs' = runs \union got /\ total' = total + Cardinality(got)
      /\ \/ /\ total' >= MaxTotalRows
            /\ flags' = [complete |-> FALSE, spent |-> TRUE] /\ Becomes(w, Done)
         \/ /\ total' < MaxTotalRows /\ (past \/ ~more)
            /\ Becomes(w, Idle) /\ UNCHANGED flags
         \/ /\ total' < MaxTotalRows /\ ~past /\ more /\ worker[w].page = MaxPagesPerRepo
            /\ flags' = [flags EXCEPT !.complete = FALSE] /\ Becomes(w, Idle)
         \/ /\ total' < MaxTotalRows /\ ~past /\ more /\ worker[w].page < MaxPagesPerRepo
            /\ Becomes(w, Busy(r, worker[w].page + 1, to)) /\ UNCHANGED flags
      /\ UNCHANGED <<request, queue, read, outcome, answer>>

(* One failed query fails the request.                                     *)
Fail ==
  /\ outcome = "reading" /\ outcome' = "failed"
  /\ UNCHANGED <<request, queue, worker, read, runs, total, flags, answer>>

(* An export carries as many rows as one response can, and says so.        *)
Answer(kept) ==
  /\ outcome = "reading" /\ \A w \in Workers : worker[w] = Done
  /\ IF request.kind = "report" THEN kept = runs ELSE Cardinality(kept) <= MaxExportRows
  /\ outcome' = "answered"
  /\ answer' = [rows |-> kept, complete |-> flags.complete /\ kept = runs]
  /\ UNCHANGED <<request, queue, worker, read, runs, total, flags>>

ReportNext ==
  \/ \E q \in Requests : Ask(q)
  \/ \E w \in Workers : Take(w) \/ ReadPage(w)
  \/ Fail
  \/ \E kept \in SUBSET runs : Answer(kept)

-----------------------------------------------------------------------------
(* Properties.                                                             *)

(* A report or export that calls itself complete has every job of the      *)
(* window, of every repository of the session that the filter names, each  *)
(* counted once, and it has read each of those repositories: the budgets,  *)
(* the workers and a repository listed twice change neither.               *)
ReportIsWhole ==
  outcome = "answered" /\ answer.complete =>
    /\ answer.rows = ReportWindow(request)
    /\ total = Cardinality(answer.rows)
    /\ read = RepoIds(request)

=============================================================================
