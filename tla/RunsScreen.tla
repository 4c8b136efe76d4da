----------------------------- MODULE RunsScreen -----------------------------
(***************************************************************************)
(* The Runs screen (web/src/screens/Runs.tsx) over the run list of the     *)
(* management API (listRunsRoute).  A polled head page and the older pages *)
(* an operator pages into are snapshots of different times; while both     *)
(* reads are under way jobs are queued and move on, and the operator       *)
(* changes the filter.                                                     *)
(*                                                                         *)
(* A row is its number: rows are numbered in the order they were created,  *)
(* and a cursor is the number of the last row it has passed.               *)
(***************************************************************************)
EXTENDS RollupRules, Sequences

CONSTANTS
  RunOf, RepoOf,  (* whose row the n-th one is                             *)
  Limit,          (* rows of an index page                                 *)
  MaxFilterPages, (* index pages one request walks                         *)
  Starts,         (* the rows there are at first, and which are not visible *)
  MaxRows,        (* bound: rows of the table                              *)
  MaxQueued,      (* bound: jobs queued from then on                       *)
  MaxChanges,     (* bound: filter changes                                 *)
  MaxMoves        (* bound: status changes                                 *)

ASSUME ScreenAssumption ==
  /\ {Limit, MaxFilterPages} \subseteq Nat \ {0}
  /\ {MaxRows, MaxQueued, MaxChanges, MaxMoves} \subseteq Nat
  /\ RunOf \in [1 .. MaxRows -> Nat] /\ RepoOf \in [1 .. MaxRows -> Repos]
  /\ \A m, n \in 1 .. MaxRows : RunOf[m] = RunOf[n] => RepoOf[m] = RepoOf[n]

VARIABLES
  theirs, (* rows of an installation the session does not grant            *)
  rows,   (* the status of each row of the run table                       *)
  filter, (* what the operator has selected                                *)
  head,   (* the head page on screen                                       *)
  poll,   (* the read of the head page under way                           *)
  pages,  (* the older pages: rows, verdict, cursor and seam               *)
  hop,    (* the "Load older" request under way                            *)
  failed, (* the last poll failed: an error instead of the window          *)
  spoilt, (* the older pages are of two visits to a filter: see TakePage   *)
  budget  (* jobs, filter and status changes left                                *)

screenVars == <<theirs, rows, filter, head, poll, pages, hop, failed, spoilt, budget>>

-----------------------------------------------------------------------------
(* The run list of the management API.                                     *)

(* A row runs and then fails: two of the six statuses, and one change.     *)
RowStatuses == {"running", "failed"}

ASSUME StartsAssumption ==
  /\ \A s \in Starts : s.rows \in Seq(RowStatuses) /\ Len(s.rows) <= MaxRows
  /\ None \notin Repos
  /\ None \notin [rows : SUBSET Nat, cursor : Nat, complete : BOOLEAN]

NoFilter == [repo |-> None, status |-> "any"]
Filters  == {NoFilter} \union [repo : Repos, status : {"any", "failed"}]

Rows == 1 .. Len(rows)

Visible(S) == S \ theirs

Matches(r, f) == f.status \in {"any", rows[r]} /\ f.repo \in {None, RepoOf[r]}

Unset == -1   \* no older page was loaded: the cursor is the head page's
Spent == 0    \* the index is exhausted

Newest(S, n) == {r \in S : Cardinality({s \in S : s > r}) < n}
Oldest(S)    == CHOOSE r \in S : \A s \in S : r <= s

(* Index pages of one repository from a cursor on, until enough visible    *)
(* rows are found, the index ends or the page budget does.                 *)
CollectVisible(f, cursor) ==
  LET index == {r \in Rows : RepoOf[r] = f.repo /\ (cursor # Unset => r < cursor)}
      Walked(k) == Newest(index, k * Limit)
      Found(k)  == {r \in Visible(Walked(k)) : Matches(r, f)}
      Ended(k)  == Cardinality(Walked(k)) < k * Limit
      Done(k)   == Ended(k) \/ Cardinality(Found(k)) >= Limit \/ k = MaxFilterPages
      stop == CHOOSE k \in 1 .. MaxFilterPages : Done(k) /\ \A j \in 1 .. k - 1 : ~Done(j)
  IN  [rows |-> Found(stop), cursor |-> IF Ended(stop) THEN Spent ELSE Oldest(Walked(stop)),
       complete |-> RepoResponseComplete(f.status # "any")]

(* The first page of one status index, and the view merged from them.      *)
StatusPage(s) == Newest({r \in Rows : rows[r] = s}, Limit)

Merge(found, truncated) ==
  LET visible  == {e \in found : e[1] \notin theirs}
      returned == IF Cardinality(visible) <= Limit THEN Cardinality(visible) ELSE Limit
  IN  [rows |-> Newest({e[1] : e \in visible}, Limit), cursor |-> Spent,
       complete |-> MergedResponseComplete(truncated, Cardinality(visible), returned)]

(* A full index page carries a cursor, rows behind it or not.              *)
Truncated(s) == Cardinality(StatusPage(s)) = Limit

(* A request that names no repository ignores a cursor sent along.         *)
ListRuns(f, cursor) ==
  IF f = NoFilter
  THEN Merge(UNION {StatusPage(s) \X {s} : s \in RowStatuses}, \E s \in RowStatuses : Truncated(s))
  ELSE CollectVisible(f, cursor)

-----------------------------------------------------------------------------
(* The screen.                                                             *)

NoHead  == [filter |-> None, rows |-> {}, cursor |-> Spent, complete |-> FALSE,
            asOf |-> 0, torn |-> FALSE]
NoPages == [rows |-> {}, complete |-> TRUE, cursor |-> Unset, seam |-> NoSeam]

(* A poll of the merged view asks each status index in turn.               *)
NewPoll == [left |-> RowStatuses, found |-> {}, truncated |-> FALSE,
            asOf |-> Len(rows), torn |-> FALSE, reply |-> None]

NextCursor == IF pages.cursor = Unset THEN head.cursor ELSE pages.cursor

Window == head.rows \union pages.rows

Exact == WindowComplete([statusFiltered |-> filter.status # "any",
                         exhausted      |-> NextCursor = Spent,
                         seamIntact     |-> HeadSeamIntact(pages.seam, head.rows),
                         serverComplete |-> head.complete /\ pages.complete])

ScreenInit ==
  /\ \E s \in Starts : rows = s.rows /\ theirs = s.theirs
  /\ filter = NoFilter
  /\ head = NoHead /\ poll = None /\ pages = NoPages /\ hop = None
  /\ failed = FALSE /\ spoilt = FALSE
  /\ budget = [queued |-> MaxQueued, changes |-> MaxChanges, moves |-> MaxMoves]

JobQueued ==
  /\ Len(rows) < MaxRows /\ rows' = Append(rows, "running")
  /\ budget.queued > 0 /\ budget' = [budget EXCEPT !.queued = @ - 1]
  /\ UNCHANGED <<filter, head, poll, pages, hop, failed, spoilt>>

(* A row that changes index between two queries of one merged view may be  *)
(* in neither answer: the reply is torn.                                   *)
JobMoves(r) ==
  /\ rows[r] = "running" /\ budget.moves > 0
  /\ rows' = [rows EXCEPT ![r] = "failed"] /\ budget' = [budget EXCEPT !.moves = @ - 1]
  /\ poll' = IF poll # None /\ poll.reply = None
             THEN [poll EXCEPT !.torn = poll.left # RowStatuses] ELSE poll
  /\ UNCHANGED <<filter, head, pages, hop, failed, spoilt>>

(* The older pages are dropped and a new poll starts; the head page stays  *)
(* on screen until the poll lands, and a hop under way stays under way.    *)
ChangeFilter(f) ==
  /\ f # filter /\ budget.changes > 0 /\ budget' = [budget EXCEPT !.changes = @ - 1]
  /\ filter' = f /\ pages' = NoPages /\ spoilt' = FALSE /\ poll' = NewPoll
  /\ hop' = IF hop = None THEN None ELSE [hop EXCEPT !.stale = TRUE]
  /\ UNCHANGED <<rows, head, failed>>

(* The poll interval, or Refresh: a read still under way is abandoned.     *)
Tick == poll' = NewPoll /\ UNCHANGED <<rows, filter, head, pages, hop, failed, spoilt, budget>>

Polling == poll # None /\ poll.reply = None

Reply(page, asOf, torn) ==
  poll' = [poll EXCEPT !.left = {}, !.found = {}, !.reply = page, !.asOf = asOf, !.torn = torn]

ReadStatus(s) ==
  /\ Polling /\ filter = NoFilter /\ s \in poll.left
  /\ LET found     == poll.found \union (StatusPage(s) \X {s})
         truncated == poll.truncated \/ Truncated(s)
         asOf      == IF poll.left = RowStatuses THEN Len(rows) ELSE poll.asOf
     IN  IF poll.left = {s} THEN Reply(Merge(found, truncated), asOf, poll.torn)
         ELSE poll' = [poll EXCEPT !.left = @ \ {s}, !.found = found, !.asOf = asOf,
                                   !.truncated = truncated]
  /\ UNCHANGED <<rows, filter, head, pages, hop, failed, spoilt, budget>>

ReadRepo ==
  /\ Polling /\ filter # NoFilter
  /\ Reply(ListRuns(filter, Unset), Len(rows), FALSE)
  /\ UNCHANGED <<rows, filter, head, pages, hop, failed, spoilt, budget>>

LandPoll ==
  /\ poll # None /\ poll.reply # None
  /\ head' = [filter |-> filter, rows |-> poll.reply.rows, cursor |-> poll.reply.cursor,
              complete |-> poll.reply.complete, asOf |-> poll.asOf, torn |-> poll.torn]
  /\ poll' = None /\ failed' = FALSE
  /\ UNCHANGED <<rows, filter, pages, hop, spoilt, budget>>

FailPoll ==
  /\ poll # None /\ poll' = None /\ failed' = TRUE
  /\ UNCHANGED <<rows, filter, head, pages, hop, spoilt, budget>>

(* Filter, cursor and head tail are those of the click.                    *)
LoadOlder ==
  /\ ~failed /\ hop = None /\ NextCursor # Spent
  /\ hop' = [filter |-> filter, from |-> NextCursor,
             tail |-> IF head.rows = {} THEN NoBoundary ELSE Oldest(head.rows),
             deeper |-> pages.cursor # Unset, foreign |-> head.filter # filter, stale |-> FALSE]
  /\ UNCHANGED <<rows, filter, head, poll, pages, failed, spoilt, budget>>

(* The index refuses a cursor of another repository.                       *)
Refused == hop.filter.repo \notin {None, RepoOf[hop.from]}

(* Two ways a page of another visit to a filter is taken all the same: the *)
(* operator left the filter and came back, or the cursor was that of the   *)
(* previous filter's head page.                                            *)
TakePage ==
  LET page == ListRuns(hop.filter, hop.from)
  IN  /\ pages' = [rows     |-> pages.rows \union page.rows,
                   complete |-> pages.complete /\ page.complete,
                   cursor   |-> page.cursor,
                   seam     |-> SeamAfterHop(pages.seam, hop.tail)]
      /\ spoilt' = (spoilt \/ hop.foreign \/ (hop.stale /\ hop.deeper))

(* Mutant: the page is taken whatever filter it was asked for.             *)
LandHopUnchecked ==
  /\ hop # None /\ ~Refused /\ hop' = None /\ TakePage
  /\ UNCHANGED <<rows, filter, head, poll, failed, budget>>

(* A page asked for under another filter is dropped.                       *)
LandHop ==
  /\ hop # None /\ ~Refused /\ hop' = None
  /\ IF hop.filter = filter THEN TakePage ELSE UNCHANGED <<pages, spoilt>>
  /\ UNCHANGED <<rows, filter, head, poll, failed, budget>>

FailHop ==
  /\ hop # None /\ hop' = None
  /\ UNCHANGED <<rows, filter, head, poll, pages, failed, spoilt, budget>>

ScreenStep ==
  \/ JobQueued
  \/ \E r \in Rows : JobMoves(r)
  \/ \E f \in Filters : ChangeFilter(f)
  \/ Tick
  \/ \E s \in RowStatuses : ReadStatus(s)
  \/ ReadRepo
  \/ LandPoll
  \/ FailPoll
  \/ LoadOlder
  \/ LandHop
  \/ FailHop

ScreenNext == ScreenStep /\ UNCHANGED theirs

-----------------------------------------------------------------------------
(* Properties.                                                             *)

(* A window that calls its runs exact holds every visible job that existed *)
(* when its head page was read, of every run it shows: whatever was queued *)
(* or polled while older pages were loaded.  Left out: windows spoilt as   *)
(* TakePage says, and merged views torn by a status change.                 *)
ExactIsWhole ==
  ~failed /\ Exact /\ ~spoilt /\ ~head.torn =>
    \A r \in Visible(1 .. head.asOf) : (\E w \in Window : RunOf[w] = RunOf[r]) => r \in Window

(* The older pages hold rows of the filter on screen only: an answer that  *)
(* comes after a filter change adds nothing to the new window.             *)
OlderBelongs == \A r \in pages.rows : Matches(r, filter)

-----------------------------------------------------------------------------
(* The inductive invariant behind ExactIsWhole, by part.                   *)

OfRepo(r, f) == f.repo \in {None, RepoOf[r]}

(* A first page, read when there were `last` rows: from its cursor on it   *)
(* has passed nothing over, if it is of one repository or a whole merge.   *)
FirstPage(p, f, last, torn) ==
  /\ p.rows \subseteq Rows /\ p.cursor \in 0 .. Len(rows) /\ last \in 0 .. Len(rows)
  /\ \A r \in p.rows : OfRepo(r, f) /\ p.cursor <= r
  /\ f = NoFilter => p.cursor = Spent
  /\ f # NoFilter => p.rows \subseteq 1 .. last
  /\ p.complete => f.status = "any"
  /\ f.status = "any" /\ (f = NoFilter => p.complete /\ ~torn) =>
       \A r \in Visible(1 .. last) : OfRepo(r, f) /\ p.cursor <= r => r \in p.rows

HeadInv == head = NoHead \/ (head.filter \in Filters
                              /\ FirstPage(head, head.filter, head.asOf, head.torn))

(* The status indexes read so far held every row there was at the first.   *)
PollInv ==
  poll # None =>
    /\ DOMAIN poll = {"left", "found", "truncated", "asOf", "torn", "reply"}
    /\ poll.asOf \in 0 .. Len(rows) /\ poll.truncated \in BOOLEAN
    /\ poll.reply # None => FirstPage(poll.reply, filter, poll.asOf, poll.torn)
    /\ poll.reply = None =>
         /\ poll.left \subseteq RowStatuses /\ poll.left # {}
         /\ poll.found \subseteq Rows \X RowStatuses
         /\ poll.left = RowStatuses => ~poll.torn
         /\ poll.left # RowStatuses /\ ~poll.torn /\ ~poll.truncated =>
              \A r \in 1 .. poll.asOf : rows[r] \notin poll.left => <<r, rows[r]>> \in poll.found

(* Below the row the first hop set out from, the older pages have passed   *)
(* nothing over down to their cursor.                                      *)
PagesInv ==
  /\ pages.rows \subseteq Rows /\ OlderBelongs
  /\ pages.cursor \in {Unset} \union (0 .. Len(rows))
  /\ IF pages.cursor = Unset THEN pages = NoPages ELSE pages.seam.past
  /\ filter = NoFilter => pages.cursor \in {Unset, Spent}
  /\ ~spoilt /\ pages.cursor # Unset =>
       /\ filter # NoFilter
       /\ pages.seam.boundary # NoBoundary =>
            /\ pages.seam.boundary \in Rows /\ RepoOf[pages.seam.boundary] = filter.repo
            /\ filter.status = "any" =>
                 \A r \in Visible(1 .. pages.seam.boundary - 1) :
                   RepoOf[r] = filter.repo /\ pages.cursor <= r => r \in pages.rows

(* A hop goes on from where the pages end or, the first one, from a head   *)
(* page with nothing between its last row and its cursor.                  *)
HopInv ==
  hop # None =>
    /\ hop.filter \in Filters /\ hop.from \in Rows
    /\ hop.filter = NoFilter => hop.foreign
    /\ hop.stale \/ hop.filter = filter
    /\ IF hop.deeper /\ ~hop.stale THEN pages.cursor = hop.from ELSE pages.cursor = Unset
    /\ ~hop.foreign /\ ~hop.deeper /\ hop.tail # NoBoundary =>
         /\ hop.tail \in Rows /\ RepoOf[hop.tail] = hop.filter.repo
         /\ hop.filter.status = "any" =>
              \A r \in Visible(1 .. hop.tail - 1) : RepoOf[r] = hop.filter.repo => r < hop.from

ScreenInv ==
  /\ rows \in Seq(RowStatuses) /\ Len(rows) <= MaxRows /\ filter \in Filters
  /\ HeadInv /\ PollInv /\ PagesInv /\ HopInv

=============================================================================
