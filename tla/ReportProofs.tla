---------------------------- MODULE ReportProofs ----------------------------
(***************************************************************************)
(* The proofs about the console's two paged reads, for any repositories,   *)
(* tables, pages and budgets.  A complete report is whole: a row is        *)
(* collected by the one worker that has its repository, in the order of    *)
(* the index (PlaceInv); so the list has no repetition (CountInv), and     *)
(* while nothing is flagged every repository is waiting, under way or      *)
(* finished (CoverInv).  And a window that calls its runs exact holds all  *)
(* of them: see ScreenInv in RunsScreen.                                   *)
(***************************************************************************)
EXTENDS ConsoleReads, PreviewRules, FiniteSetTheorems, SequenceTheorems, TLAPS

Outcomes == {"none", "reading", "refused", "failed", "answered"}

States == [at : {"idle", "busy", "done"}, repo : Repos \union {None}, page : Nat, from : Nat]

ReportTypeOK ==
  /\ outcome \in Outcomes
  /\ outcome # "none" => request \in Requests
  /\ worker \in [Workers -> States]
  /\ flags \in [complete : BOOLEAN, spent : BOOLEAN]
  /\ total \in Nat

At(w, r) == worker[w].at = "busy" /\ worker[w].repo = r

(* Nothing is read before there is a request.                              *)
StartInv ==
  outcome = "none" => /\ queue = {} /\ read = {} /\ runs = {}
                      /\ worker = [w \in Workers |-> Idle]

(* A repository is at one place only.                                      *)
PlaceInv ==
  outcome # "none" =>
    /\ queue \subseteq Resolved(request) /\ read \subseteq RepoIds(request)
    /\ \A e \in queue : e[2] \notin read
    /\ \A w \in Workers : worker[w].at = "busy" => worker[w].repo \in read
    /\ \A w, v \in Workers : \A r \in Repos : At(w, r) /\ At(v, r) => w = v

(* What a worker passed is collected, and no more of its repository.       *)
RowsInv ==
  outcome # "none" =>
    /\ \A x \in runs : x[1] \in read /\ x \in InWindow(request, x[1])
    /\ \A w \in Workers : \A r \in Repos : At(w, r) =>
         /\ Inside(request, r, 0, worker[w].from) \subseteq runs
         /\ \A x \in runs : x[1] = r => x[2] <= worker[w].from

CountInv == IsFiniteSet(runs) /\ total = Cardinality(runs)

(* With nothing flagged, no repository is forgotten.                       *)
Accounted(r) ==
  \/ \E e \in queue : e[2] = r
  \/ r \in read /\ ((\E w \in Workers : At(w, r)) \/ InWindow(request, r) \subseteq runs)

CoverInv ==
  /\ flags.complete => ~flags.spent
  /\ outcome \in {"reading", "answered"} /\ flags.complete =>
       /\ \A r \in RepoIds(request) : Accounted(r)
       /\ (\E w \in Workers : worker[w].at = "done") => queue = {}

AnswerInv ==
  outcome = "answered" =>
    /\ \A w \in Workers : worker[w] = Done
    /\ answer.complete => flags.complete /\ answer.rows = runs

IInv == ReportTypeOK /\ StartInv /\ PlaceInv /\ RowsInv /\ CountInv /\ CoverInv /\ AnswerInv

-----------------------------------------------------------------------------
(* The listing.                                                            *)
LEMMA EntryFields ==
  ASSUME NEW q \in Requests, NEW e \in Narrowed(q)
  PROVE  e = <<e[1], e[2]>> /\ e[2] \in Repos /\ e[2] \in RepoIds(q)
<1>1. e \in Installations \X Repos
  BY ReportAssumption DEF Narrowed
<1>2. e = <<e[1], e[2]>> /\ e[1] \in Installations /\ e[2] \in Repos
  BY <1>1
<1>3. e[2] \in RepoIds(q)
  BY <1>2 DEF RepoIds
<1>. QED  BY <1>2, <1>3

LEMMA ResolvedEntry ==
  ASSUME NEW q \in Requests, NEW r \in RepoIds(q)
  PROVE  LET e == CHOOSE d \in Narrowed(q) : d[2] = r IN e \in Narrowed(q) /\ e[2] = r
<1>1. PICK i \in Installations : <<i, r>> \in Narrowed(q)
  BY DEF RepoIds
<1>2. \E d \in Narrowed(q) : d[2] = r
  BY <1>1
<1>. QED  BY <1>2

LEMMA ResolvedOnce ==
  ASSUME NEW q \in Requests
  PROVE  /\ Resolved(q) \subseteq Narrowed(q)
         /\ \A d, e \in Resolved(q) : d[2] = e[2] => d = e
         /\ \A r \in RepoIds(q) : \E e \in Resolved(q) : e[2] = r
<1>. DEFINE Entry(r) == CHOOSE d \in Narrowed(q) : d[2] = r
<1>1. \A r \in RepoIds(q) : Entry(r) \in Narrowed(q) /\ Entry(r)[2] = r
  BY ResolvedEntry
<1>2. Resolved(q) = {Entry(r) : r \in RepoIds(q)}
  BY DEF Resolved
<1>. HIDE DEF Entry
<1>. QED  BY <1>1, <1>2

-----------------------------------------------------------------------------
(* The places of an index.                                                 *)
LEMMA IndexFields ==
  ASSUME NEW q \in Requests, NEW r \in Repos
  PROVE  /\ q.index[r].newer \in Nat /\ WindowEnd(q, r) \in Nat /\ Length(q, r) \in Nat
         /\ WindowEnd(q, r) <= Length(q, r)
<1>1. q.index[r] \in [newer : Nat, inside : Nat, older : Nat]
  BY ReportAssumption
<1>2. /\ q.index[r].newer \in Nat /\ q.index[r].inside \in Nat /\ q.index[r].older \in Nat
  BY <1>1
<1>. QED  BY <1>2 DEF WindowEnd, Length

LEMMA InsideMember ==
  ASSUME NEW q \in Requests, NEW r \in Repos, NEW from \in Nat, NEW to \in Nat, NEW x
  PROVE  x \in Inside(q, r, from, to) <=>
           /\ x = <<r, x[2]>> /\ x[2] \in Nat /\ from < x[2] /\ x[2] <= to
           /\ q.index[r].newer < x[2] /\ x[2] <= WindowEnd(q, r)
  BY IndexFields DEF Inside

LEMMA InsideFinite ==
  ASSUME NEW q \in Requests, NEW r \in Repos, NEW from \in Nat, NEW to \in Nat
  PROVE  IsFiniteSet(Inside(q, r, from, to))
<1>0. from + 1 \in Int /\ to \in Int
  OBVIOUS
<1>1. IsFiniteSet(from + 1 .. to)
  BY <1>0, FS_Interval, Zenon
<1>2. IsFiniteSet({r} \X (from + 1 .. to))
  BY <1>1, FS_Singleton, FS_Product, Zenon
<1>3. Inside(q, r, from, to) \subseteq {r} \X (from + 1 .. to)
  BY DEF Inside
<1>. QED  BY <1>2, <1>3, FS_Subset

LEMMA InsideJoin ==
  ASSUME NEW q \in Requests, NEW r \in Repos, NEW from \in Nat, NEW to \in Nat
  PROVE  /\ Inside(q, r, 0, to) \subseteq Inside(q, r, 0, from) \union Inside(q, r, from, to)
         /\ Inside(q, r, from, to) \subseteq InWindow(q, r)
         /\ Inside(q, r, 0, 0) = {}
         /\ WindowEnd(q, r) <= to => InWindow(q, r) \subseteq Inside(q, r, 0, to)
<1>. WindowEnd(q, r) \in Nat
  BY IndexFields
<1>1. ASSUME NEW x \in Inside(q, r, 0, to)
      PROVE  x \in Inside(q, r, 0, from) \/ x \in Inside(q, r, from, to)
  BY <1>1, InsideMember
<1>2. ASSUME NEW x \in Inside(q, r, from, to) PROVE x \in InWindow(q, r)
  BY <1>2, InsideMember DEF InWindow
<1>3. ASSUME NEW x \in Inside(q, r, 0, 0) PROVE FALSE
  BY <1>3, InsideMember
<1>4. ASSUME WindowEnd(q, r) <= to, NEW x \in InWindow(q, r) PROVE x \in Inside(q, r, 0, to)
  BY <1>4, InsideMember DEF InWindow
<1>. QED  BY <1>1, <1>2, <1>3, <1>4

-----------------------------------------------------------------------------
(* The steps.  A worker that starts at a repository, or goes on with it,   *)
(* is the only one there.                                                  *)
LEMMA StateFields ==
  ASSUME NEW r \in Repos, NEW n \in Nat, NEW f \in Nat
  PROVE  /\ Busy(r, n, f) \in States /\ Busy(r, n, f).at = "busy"
         /\ Busy(r, n, f).repo = r /\ Busy(r, n, f).from = f
         /\ Idle \in States /\ Idle.at = "idle" /\ Done \in States /\ Done.at = "done"
  BY DEF Busy, Idle, Done, States

LEMMA AskStep ==
  ASSUME IInv, NEW q \in Requests, Ask(q) PROVE IInv'
<1>1. /\ outcome = "none" /\ request' = q /\ outcome' \in {"refused", "reading"}
      /\ queue' \in {queue, Resolved(q)} /\ (outcome' = "reading" => queue' = Resolved(q))
      /\ UNCHANGED <<worker, read, runs, total, flags, answer>>
  BY DEF Ask
<1>2. queue = {} /\ read = {} /\ runs = {} /\ worker = [w \in Workers |-> Idle]
  BY <1>1 DEF IInv, StartInv
<1>3. \A w \in Workers : worker[w].at = "idle"
  BY <1>2 DEF Idle
<1>4. ReportTypeOK' /\ StartInv'
  BY <1>1 DEF IInv, ReportTypeOK, StartInv, Outcomes
<1>5. PlaceInv'
  BY <1>1, <1>2, <1>3, ResolvedOnce, Zenon DEF PlaceInv, At
<1>6. RowsInv' /\ CountInv'
  BY <1>1, <1>2, <1>3 DEF IInv, RowsInv, CountInv, At
<1>7. CoverInv'
  BY <1>1, <1>3, ResolvedOnce DEF IInv, CoverInv, Accounted
<1>8. AnswerInv'
  BY <1>1 DEF AnswerInv
<1>. QED  BY <1>4, <1>5, <1>6, <1>7, <1>8 DEF IInv

(* No repository is left to take.                                          *)
LEMMA TakeNoneStep ==
  ASSUME IInv, NEW w \in Workers, outcome = "reading", worker[w] = Idle,
         worker' = [worker EXCEPT ![w] = Done], queue = {} \/ flags.spent, queue' \subseteq queue,
         UNCHANGED <<request, read, runs, total, flags, outcome, answer>>
  PROVE  IInv'
<1>1. worker \in [Workers -> States] /\ worker'[w] = Done /\ worker[w].at = "idle" /\ Done.at = "done"
  BY DEF IInv, ReportTypeOK, Idle, Done
<1>2. \A v \in Workers : v # w => worker'[v] = worker[v]
  BY <1>1
<1>3. \A v \in Workers : /\ worker'[v].at = "busy" <=> worker[v].at = "busy"
                         /\ worker[v].at = "busy" => worker'[v] = worker[v]
  BY <1>1, <1>2
<1>4. ReportTypeOK' /\ StartInv'
  <2>. Done \in States
    BY DEF Done, Idle, States
  <2>. QED  BY <1>1 DEF IInv, ReportTypeOK, StartInv
<1>5. PlaceInv'
  BY <1>3 DEF IInv, PlaceInv, At
<1>6. RowsInv' /\ CountInv'
  BY <1>3 DEF IInv, RowsInv, CountInv, At
<1>7. CoverInv'
  <2>1. CASE flags.spent
    BY <2>1 DEF IInv, CoverInv
  <2>2. CASE queue = {}
    BY <2>2, <1>3 DEF IInv, CoverInv, Accounted, At
  <2>. QED  BY <2>1, <2>2
<1>8. AnswerInv'
  BY DEF AnswerInv
<1>. QED  BY <1>4, <1>5, <1>6, <1>7, <1>8 DEF IInv

LEMMA TakeOneStep ==
  ASSUME IInv, NEW w \in Workers, NEW e \in queue, outcome = "reading", worker[w] = Idle,
         worker' = [worker EXCEPT ![w] = Busy(e[2], 1, 0)], queue' = queue \ {e},
         read' = read \union {e[2]}, UNCHANGED <<request, runs, total, flags, outcome, answer>>
  PROVE  IInv'
<1>1. request \in Requests /\ worker \in [Workers -> States]
  BY DEF IInv, ReportTypeOK
<1>2. e[2] \in Repos /\ e[2] \in RepoIds(request) /\ e \in Resolved(request)
  BY <1>1, EntryFields, ResolvedOnce DEF IInv, PlaceInv
<1>3. e[2] \notin read
  BY DEF IInv, PlaceInv
<1>. DEFINE r == e[2]
           mine == Busy(r, 1, 0)
<1>4. mine \in States /\ mine.at = "busy" /\ mine.repo = r /\ mine.from = 0
  BY <1>2, StateFields
<1>. HIDE DEF mine
<1>5. worker'[w] = mine /\ \A v \in Workers : v # w => worker'[v] = worker[v]
  BY <1>1 DEF mine
<1>6. worker[w].at = "idle"
  BY DEF Idle
<1>7. \A v \in Workers : worker[v].at = "busy" => worker[v].repo \in read
  BY DEF IInv, PlaceInv
<1>8. ReportTypeOK' /\ StartInv'
  BY <1>1, <1>4 DEF IInv, ReportTypeOK, StartInv, mine
<1>9. PlaceInv'
  <2>1. queue' \subseteq Resolved(request) /\ read' \subseteq RepoIds(request)
    BY <1>2 DEF IInv, PlaceInv
  <2>2. \A d \in queue' : d[2] \notin read'
    BY <1>1, ResolvedOnce DEF IInv, PlaceInv
  <2>3. \A v \in Workers : worker'[v].at = "busy" => worker'[v].repo \in read'
    BY <1>4, <1>5, <1>7
  <2>4. ASSUME NEW v \in Workers, NEW u \in Workers, NEW s \in Repos, At(v, s)', At(u, s)'
        PROVE  v = u
    <3>1. \A x \in Workers : x # w /\ At(x, s)' => At(x, s) /\ s # r
      BY <1>3, <1>5, <1>7 DEF At
    <3>2. At(w, s)' => s = r
      BY <1>4, <1>5 DEF At
    <3>. QED  BY <2>4, <3>1, <3>2 DEF IInv, PlaceInv
  <2>. QED  BY <2>1, <2>2, <2>3, <2>4 DEF PlaceInv
<1>10. RowsInv' /\ CountInv'
  <2>1. \A x \in runs : x[1] \in read' /\ x \in InWindow(request, x[1])
    BY DEF IInv, RowsInv
  <2>2. ASSUME NEW v \in Workers, NEW s \in Repos, At(v, s)'
        PROVE  /\ Inside(request, s, 0, worker'[v].from) \subseteq runs
               /\ \A x \in runs : x[1] = s => x[2] <= worker'[v].from
    <3>1. CASE v = w
      <4>1. s = r /\ worker'[v].from = 0
        BY <3>1, <2>2, <1>4, <1>5 DEF At
      <4>2. Inside(request, s, 0, 0) = {}
        BY <1>1, InsideJoin
      <4>3. \A x \in runs : x[1] # r
        BY <1>3 DEF IInv, RowsInv
      <4>. QED  BY <4>1, <4>2, <4>3
    <3>2. CASE v # w
      <4>1. At(v, s) /\ worker'[v] = worker[v]
        BY <3>2, <2>2, <1>5 DEF At
      <4>. QED  BY <4>1 DEF IInv, RowsInv
    <3>. QED  BY <3>1, <3>2
  <2>. QED  BY <2>1, <2>2 DEF IInv, RowsInv, CountInv
<1>11. CoverInv'
  <2>1. ASSUME flags.complete, NEW s \in RepoIds(request) PROVE Accounted(s)'
    <3>1. Accounted(s)
      BY <2>1 DEF IInv, CoverInv
    <3>2. CASE s = r
      <4>1. At(w, s)'
        BY <3>2, <1>4, <1>5 DEF At
      <4>. QED  BY <3>2, <4>1 DEF Accounted
    <3>3. CASE s # r
      <4>1. \A v \in Workers : At(v, s) => At(v, s)'
        BY <1>5, <1>6 DEF At
      <4>. QED  BY <3>1, <3>3, <4>1 DEF Accounted
    <3>. QED  BY <3>2, <3>3
  <2>2. (\E v \in Workers : worker'[v].at = "done") => \E v \in Workers : worker[v].at = "done"
    BY <1>4, <1>5
  <2>. QED  BY <2>1, <2>2 DEF IInv, CoverInv
<1>12. AnswerInv'
  BY DEF AnswerInv
<1>. QED  BY <1>8, <1>9, <1>10, <1>11, <1>12 DEF IInv

(* A page adds to the rows those of its own places, and no row again.  The *)
(* worker then goes on with the repository, or leaves it: behind the       *)
(* window or, flagged, short of it.                                        *)
LEMMA PageStep ==
  ASSUME IInv, outcome = "reading", NEW w \in Workers, worker[w].at = "busy",
         NEW r, r = worker[w].repo, NEW from, from = worker[w].from,
         NEW to, to = from + PageSize, NEW got, got = Inside(request, r, from, to),
         runs' = runs \union got, total' = total + Cardinality(got),
         NEW next \in States, worker' = [worker EXCEPT ![w] = next],
         next.at = "busy" => next.repo = r /\ next.from = to,
         flags' \in [complete : BOOLEAN, spent : BOOLEAN],
         flags'.complete => /\ ~flags'.spent /\ flags.complete /\ next.at # "done"
                            /\ next.at = "busy" \/ WindowEnd(request, r) <= to,
         UNCHANGED <<request, queue, read, outcome, answer>>
  PROVE  IInv'
<1>1. /\ r \in Repos /\ r \in read /\ request \in Requests /\ to \in Nat
      /\ IsFiniteSet(runs') /\ total' = Cardinality(runs') /\ total' \in Nat
      /\ \A x \in runs' : x[1] \in read /\ x \in InWindow(request, x[1])
      /\ Inside(request, r, 0, to) \subseteq runs'
      /\ \A x \in runs' : x[1] = r => x[2] <= to
      /\ \A x \in runs' : x[1] # r => x \in runs
      /\ WindowEnd(request, r) <= to => InWindow(request, r) \subseteq runs'
  <2>1. request \in Requests /\ worker[w] \in States /\ total \in Nat
    BY DEF IInv, ReportTypeOK
  <2>2. from \in Nat /\ PageSize \in Nat /\ r \in read /\ r \in RepoIds(request)
    BY <2>1, ReportAssumption DEF States, IInv, PlaceInv
  <2>3. r \in Repos /\ to \in Nat /\ from <= to
    BY <2>2 DEF RepoIds
  <2>4. At(w, r)
    BY DEF At
  <2>5. Inside(request, r, 0, from) \subseteq runs /\ \A x \in runs : x[1] = r => x[2] <= from
    BY <2>3, <2>4 DEF IInv, RowsInv
  <2>6. \A x \in got : x[1] = r /\ x[2] \in Nat /\ from < x[2] /\ x[2] <= to
    <3>1. ASSUME NEW x \in got PROVE x = <<r, x[2]>> /\ x[2] \in Nat /\ from < x[2] /\ x[2] <= to
      BY <2>1, <2>2, <2>3, InsideMember
    <3>2. \A x \in got : x[1] = r
      BY <3>1
    <3>. QED  BY <3>1, <3>2
  <2>7. \A x \in runs : x[1] \in read /\ x \in InWindow(request, x[1])
    BY DEF IInv, RowsInv
  <2>8. \A x \in runs : x[1] = r => x[2] \in Nat
    <3>1. ASSUME NEW x \in runs, x[1] = r PROVE x[2] \in Nat
      <4>1. x \in Inside(request, r, 0, WindowEnd(request, r))
        BY <2>7, <3>1 DEF InWindow
      <4>. QED  BY <4>1, <2>1, <2>3, IndexFields, InsideMember
    <3>. QED  BY <3>1
  <2>9. got \cap runs = {}
    BY <2>2, <2>5, <2>6, <2>8
  <2>10. IsFiniteSet(got)
    BY <2>1, <2>2, <2>3, InsideFinite
  <2>11. Cardinality(got) \in Nat
    BY <2>10, FS_CardinalityType
  <2>12. IsFiniteSet(runs') /\ total' = Cardinality(runs')
    <3>1. IsFiniteSet(runs) /\ total = Cardinality(runs)
      BY DEF IInv, CountInv
    <3>2. /\ IsFiniteSet(runs \union got)
          /\ Cardinality(runs \union got) = Cardinality(runs) + Cardinality(got) - Cardinality(runs \cap got)
      BY <3>1, <2>10, FS_Union
    <3>3. Cardinality(runs \cap got) = 0
      <4>1. runs \cap got = {}
        BY <2>9
      <4>. QED  BY <4>1, FS_EmptySet
    <3>. QED  BY <3>1, <3>2, <3>3, <2>1, <2>11
  <2>13. got \subseteq InWindow(request, r) /\ Inside(request, r, 0, to) \subseteq runs'
    BY <2>1, <2>2, <2>3, <2>5, InsideJoin
  <2>14. \A x \in runs' : x[1] = r => x[2] <= to
    BY <2>2, <2>3, <2>5, <2>6, <2>8
  <2>15. WindowEnd(request, r) <= to => InWindow(request, r) \subseteq runs'
    BY <2>1, <2>2, <2>3, <2>13, InsideJoin
  <2>16. \A x \in runs' : x[1] \in read /\ x \in InWindow(request, x[1])
    BY <2>2, <2>6, <2>7, <2>13
  <2>17. total' \in Nat
    BY <2>1, <2>11
  <2>18. \A x \in runs' : x[1] # r => x \in runs
    BY <2>6
  <2>. QED  BY <2>1, <2>2, <2>3, <2>12, <2>13, <2>14, <2>15, <2>16, <2>17, <2>18
<1>2. worker \in [Workers -> States] /\ worker'[w] = next
  BY DEF IInv, ReportTypeOK
<1>3. \A v \in Workers : v # w => worker'[v] = worker[v]
  BY <1>2
<1>4. At(w, r) /\ (next.at = "busy" => At(w, r)') /\ \A s \in Repos : At(w, s)' => s = r
  BY <1>2 DEF At
<1>5. \A v \in Workers : \A s \in Repos : v # w => At(v, s)' = At(v, s)
  BY <1>3 DEF At
<1>6. \A v \in Workers : \A s \in Repos : v # w /\ At(v, s) => s # r
  BY <1>1, <1>4 DEF IInv, PlaceInv
<1>7. ReportTypeOK' /\ StartInv'
  BY <1>1, <1>2 DEF IInv, ReportTypeOK, StartInv
<1>8. PlaceInv'
  <2>1. \A v \in Workers : worker'[v].at = "busy" => worker'[v].repo \in read
    <3>1. \A v \in Workers : worker[v].at = "busy" => worker[v].repo \in read
      BY DEF IInv, PlaceInv
    <3>. QED  BY <3>1, <1>1, <1>2, <1>3
  <2>2. ASSUME NEW v \in Workers, NEW u \in Workers, NEW s \in Repos, At(v, s)', At(u, s)'
        PROVE  v = u
    BY <2>2, <1>4, <1>5, <1>6 DEF IInv, PlaceInv
  <2>. QED  BY <2>1, <2>2 DEF IInv, PlaceInv
<1>9. RowsInv' /\ CountInv'
  <2>1. ASSUME NEW v \in Workers, NEW s \in Repos, At(v, s)'
        PROVE  /\ Inside(request, s, 0, worker'[v].from) \subseteq runs'
               /\ \A x \in runs' : x[1] = s => x[2] <= worker'[v].from
    <3>1. CASE v = w
      <4>1. s = r /\ worker'[v].from = to
        BY <3>1, <2>1, <1>2, <1>4 DEF At
      <4>. QED  BY <4>1, <1>1
    <3>2. CASE v # w
      <4>1. At(v, s) /\ s # r /\ worker'[v] = worker[v]
        BY <3>2, <2>1, <1>3, <1>5, <1>6
      <4>2. /\ Inside(request, s, 0, worker[v].from) \subseteq runs
            /\ \A x \in runs : x[1] = s => x[2] <= worker[v].from
        BY <4>1 DEF IInv, RowsInv
      <4>. QED  BY <4>1, <4>2, <1>1
    <3>. QED  BY <3>1, <3>2
  <2>. QED  BY <2>1, <1>1 DEF RowsInv, CountInv
<1>10. CoverInv'
  <2>1. ASSUME flags'.complete, NEW s \in RepoIds(request) PROVE Accounted(s)'
    <3>1. Accounted(s)
      BY <2>1 DEF IInv, CoverInv
    <3>2. CASE s = r
      <4>1. At(w, r)' \/ InWindow(request, r) \subseteq runs'
        BY <2>1, <1>1, <1>4
      <4>. QED  BY <3>2, <4>1, <1>1 DEF Accounted
    <3>3. CASE s # r
      <4>1. s \in Repos
        BY DEF RepoIds
      <4>2. \A v \in Workers : At(v, s) => v # w
        BY <3>3, <1>4 DEF At
      <4>3. (\E v \in Workers : At(v, s)) => \E v \in Workers : At(v, s)'
        BY <4>1, <4>2, <1>5
      <4>4. runs \subseteq runs'
        OBVIOUS
      <4>. QED  BY <3>1, <4>3, <4>4 DEF Accounted
    <3>. QED  BY <3>2, <3>3
  <2>2. flags'.complete /\ (\E v \in Workers : worker'[v].at = "done")
          => \E v \in Workers : worker[v].at = "done"
    BY <1>2, <1>3
  <2>. QED  BY <2>1, <2>2 DEF IInv, CoverInv
<1>11. AnswerInv'
  BY DEF AnswerInv
<1>. QED  BY <1>7, <1>8, <1>9, <1>10, <1>11 DEF IInv

LEMMA ReadPageStep ==
  ASSUME IInv, NEW w \in Workers, ReadPage(w) PROVE IInv'
<1>. DEFINE r ==  worker[w].repo
           from == worker[w].from
           to == from + PageSize
           got == Inside(request, r, from, to)
           more == to <= Length(request, r)
           past == WindowEnd(request, r) < to /\ WindowEnd(request, r) < Length(request, r)
<1>1. /\ outcome = "reading" /\ worker[w].at = "busy"
      /\ runs' = runs \union got
      /\ total' = total + Cardinality(got)
      /\ UNCHANGED <<request, queue, read, outcome, answer>>
  BY DEF ReadPage
<1>2. /\ request \in Requests /\ r \in Repos /\ to \in Nat /\ worker[w].page \in Nat
      /\ flags \in [complete : BOOLEAN, spent : BOOLEAN]
  <2>1. request \in Requests /\ worker[w] \in States /\ worker[w].repo \in RepoIds(request)
    BY <1>1 DEF IInv, ReportTypeOK, PlaceInv
  <2>. QED  BY <2>1, ReportAssumption DEF States, RepoIds, IInv, ReportTypeOK
<1>3. flags.complete => ~flags.spent
  BY DEF IInv, CoverInv
<1>4. past \/ ~more => WindowEnd(request, r) <= to
  BY <1>2, IndexFields
<1>5. /\ Idle \in States /\ Idle.at = "idle" /\ Done \in States /\ Done.at = "done"
      /\ Busy(r, worker[w].page + 1, to) \in States /\ Busy(r, worker[w].page + 1, to).at = "busy"
      /\ Busy(r, worker[w].page + 1, to).repo = r /\ Busy(r, worker[w].page + 1, to).from = to
  BY <1>2, StateFields
<1>6. \/ flags' = [complete |-> FALSE, spent |-> TRUE] /\ Becomes(w, Done)
      \/ (past \/ ~more) /\ Becomes(w, Idle) /\ UNCHANGED flags
      \/ flags' = [flags EXCEPT !.complete = FALSE] /\ Becomes(w, Idle)
      \/ Becomes(w, Busy(r, worker[w].page + 1, to)) /\ UNCHANGED flags
  BY DEF ReadPage
<1>. HIDE DEF more, past
<1>7. CASE flags' = [complete |-> FALSE, spent |-> TRUE] /\ Becomes(w, Done)
  <2>1. flags' \in [complete : BOOLEAN, spent : BOOLEAN] /\ ~flags'.complete
    BY <1>7
  <2>. QED  BY <2>1, <1>1, <1>5, <1>7, PageStep, Zenon DEF Becomes
<1>8. CASE (past \/ ~more) /\ Becomes(w, Idle) /\ UNCHANGED flags
  <2>1. Idle.at # "done" /\ Idle.at # "busy"
    BY <1>5
  <2>. QED  BY <2>1, <1>1, <1>2, <1>3, <1>4, <1>5, <1>8, PageStep, Zenon DEF Becomes
<1>9. CASE flags' = [flags EXCEPT !.complete = FALSE] /\ Becomes(w, Idle)
  <2>1. flags' \in [complete : BOOLEAN, spent : BOOLEAN] /\ ~flags'.complete /\ Idle.at # "busy"
    BY <1>2, <1>5, <1>9
  <2>. QED  BY <2>1, <1>1, <1>5, <1>9, PageStep, Zenon DEF Becomes
<1>10. CASE Becomes(w, Busy(r, worker[w].page + 1, to)) /\ UNCHANGED flags
  <2>. DEFINE next == Busy(r, worker[w].page + 1, to)
  <2>1. /\ next \in States /\ next.at = "busy" /\ next.at # "done"
        /\ next.repo = r /\ next.from = to /\ worker' = [worker EXCEPT ![w] = next]
    BY <1>5, <1>10 DEF Becomes
  <2>2. flags' \in [complete : BOOLEAN, spent : BOOLEAN] /\ flags' = flags
    BY <1>2, <1>10
  <2>. QED  BY <2>1, <2>2, <1>1, <1>3, PageStep, Zenon
<1>. QED  BY <1>6, <1>7, <1>8, <1>9, <1>10

LEMMA AnswerStep ==
  ASSUME IInv, NEW kept \in SUBSET runs, Answer(kept) PROVE IInv'
<1>1. /\ outcome = "reading" /\ outcome' = "answered" /\ \A w \in Workers : worker[w] = Done
      /\ answer' = [rows |-> kept, complete |-> flags.complete /\ kept = runs]
      /\ UNCHANGED <<request, queue, worker, read, runs, total, flags>>
  BY DEF Answer
<1>2. ReportTypeOK' /\ StartInv' /\ PlaceInv' /\ RowsInv' /\ CountInv'
  BY <1>1 DEF IInv, ReportTypeOK, StartInv, PlaceInv, RowsInv, CountInv, At, Outcomes
<1>3. CoverInv'
  BY <1>1 DEF IInv, CoverInv, Accounted, At
<1>4. AnswerInv'
  BY <1>1 DEF AnswerInv
<1>. QED  BY <1>2, <1>3, <1>4 DEF IInv

LEMMA FailStep == ASSUME IInv, Fail PROVE IInv'
  BY DEF Fail, IInv, ReportTypeOK, StartInv, PlaceInv, RowsInv, CountInv, CoverInv, Accounted,
         AnswerInv, At, Outcomes

LEMMA QuietStep == ASSUME IInv, UNCHANGED reportVars PROVE IInv'
  BY DEF reportVars, IInv, ReportTypeOK, StartInv, PlaceInv, RowsInv, CountInv, CoverInv,
         Accounted, AnswerInv, At

LEMMA ReportStep == ASSUME IInv, ReportNext PROVE IInv'
<1>1. ASSUME NEW q \in Requests, Ask(q) PROVE IInv'
  BY <1>1, AskStep
<1>2. ASSUME NEW w \in Workers, Take(w) PROVE IInv'
  <2>1. /\ outcome = "reading" /\ worker[w] = Idle
        /\ UNCHANGED <<request, runs, total, flags, outcome, answer>>
    BY <1>2 DEF Take
  <2>2. CASE queue = {} /\ Becomes(w, Done) /\ UNCHANGED <<queue, read>>
    BY <2>1, <2>2, TakeNoneStep DEF Becomes
  <2>3. ASSUME NEW e \in queue, queue' = queue \ {e}, flags.spent, Becomes(w, Done), UNCHANGED read
        PROVE  IInv'
    BY <2>1, <2>3, TakeNoneStep DEF Becomes
  <2>4. ASSUME NEW e \in queue, queue' = queue \ {e}, Becomes(w, Busy(e[2], 1, 0)),
               read' = read \union {e[2]}
        PROVE  IInv'
    BY <2>1, <2>4, TakeOneStep DEF Becomes
  <2>. QED  BY <1>2, <2>2, <2>3, <2>4 DEF Take
<1>3. ASSUME NEW w \in Workers, ReadPage(w) PROVE IInv'
  BY <1>3, ReadPageStep
<1>4. ASSUME NEW kept \in SUBSET runs, Answer(kept) PROVE IInv'
  BY <1>4, AnswerStep
<1>. QED  BY <1>1, <1>2, <1>3, <1>4, FailStep DEF ReportNext

LEMMA ReportStart == ASSUME ReportInit PROVE IInv
<1>1. Idle \in States /\ Idle.at = "idle"
  BY DEF Idle, States
<1>2. /\ outcome = "none" /\ queue = {} /\ read = {} /\ runs = {} /\ total = 0
      /\ worker = [w \in Workers |-> Idle] /\ flags = [complete |-> TRUE, spent |-> FALSE]
  BY DEF ReportInit
<1>3. ReportTypeOK /\ StartInv
  BY <1>1, <1>2 DEF ReportTypeOK, StartInv, Outcomes
<1>4. CountInv
  BY <1>2, FS_EmptySet DEF CountInv
<1>. QED  BY <1>2, <1>3, <1>4 DEF IInv, PlaceInv, RowsInv, CoverInv, AnswerInv

-----------------------------------------------------------------------------
(* The results.                                                            *)
LEMMA WholeFollows == ASSUME IInv PROVE ReportIsWhole
<1>. SUFFICES ASSUME outcome = "answered", answer.complete
              PROVE  /\ answer.rows = ReportWindow(request) /\ total = Cardinality(answer.rows)
                     /\ read = RepoIds(request)
  BY DEF ReportIsWhole
<1>1. /\ flags.complete /\ answer.rows = runs /\ \A w \in Workers : worker[w] = Done
      /\ read \subseteq RepoIds(request) /\ total = Cardinality(runs)
      /\ \A x \in runs : x[1] \in read /\ x \in InWindow(request, x[1])
  BY DEF IInv, AnswerInv, PlaceInv, RowsInv, CountInv
<1>2. \A w \in Workers : worker[w].at = "done"
  BY <1>1 DEF Done, Idle
<1>3. queue = {}
  BY <1>1, <1>2, ReportAssumption DEF IInv, CoverInv
<1>4. \A r \in RepoIds(request) : r \in read /\ InWindow(request, r) \subseteq runs
  BY <1>1, <1>2, <1>3 DEF IInv, CoverInv, Accounted, At
<1>5. runs \subseteq ReportWindow(request)
  BY <1>1 DEF ReportWindow
<1>6. ReportWindow(request) \subseteq runs
  BY <1>4 DEF ReportWindow
<1>. QED  BY <1>1, <1>4, <1>5, <1>6

(* A report that calls itself complete has every job of the window, once,  *)
(* for any repositories, listings, indexes, workers and budgets            *)
(* (fetchReportRuns, exportReportRoute).                                   *)
THEOREM ReportWhole == Spec => []ReportIsWhole
<1>1. Init => IInv
  BY ReportStart DEF Init
<1>2. IInv /\ [Next]_vars => IInv'
  BY ReportStep, QuietStep DEF Next, vars
<1>3. IInv => ReportIsWhole
  BY WholeFollows
<1>. QED  BY <1>1, <1>2, <1>3, PTL DEF Spec

-----------------------------------------------------------------------------
(* The Runs screen.  Some sets of numbers have a first and a last element: *)
(* of finite sets one is included in no other.                             *)
LEMMA HasLeastSet ==
  ASSUME NEW C, C # {}, \A X \in C : X \in SUBSET Nat /\ IsFiniteSet(X)
  PROVE  \E X \in C : \A Y \in C : Y \subseteq X => Y = X
<1>1. IsWellFoundedOn(StrictSubsetOrdering(Nat), FiniteSubsetsOf(Nat))
  BY FS_StrictSubsetOrderingWellFounded
<1>2. C \subseteq FiniteSubsetsOf(Nat)
  BY DEF FiniteSubsetsOf
<1>3. PICK X \in C : \A Y \in C : <<Y, X>> \notin StrictSubsetOrdering(Nat)
  <2>. HIDE DEF StrictSubsetOrdering, FiniteSubsetsOf
  <2>. QED  BY <1>1, <1>2, WFMin, Zenon
<1>4. \A Y \in C : Y \subseteq X => Y = X
  BY <1>3 DEF StrictSubsetOrdering
<1>. QED  BY <1>4

UpTo(n) == 0 .. n

LEMMA HasFirst ==
  ASSUME NEW S \in SUBSET Nat, S # {}
  PROVE  \E n \in S : \A m \in S : n <= m
<1> DEFINE C == {UpTo(n) : n \in S}
<1>1. \A n \in S : UpTo(n) \in SUBSET Nat /\ IsFiniteSet(UpTo(n))
  <2>. SUFFICES ASSUME NEW n \in S PROVE UpTo(n) \in SUBSET Nat /\ IsFiniteSet(UpTo(n))
    OBVIOUS
  <2>1. n \in Int /\ 0 \in Int
    OBVIOUS
  <2>2. IsFiniteSet(0 .. n)
    BY <2>1, FS_Interval
  <2>. QED  BY <2>2 DEF UpTo
<1>2. \E n \in S : \A m \in S : UpTo(m) \subseteq UpTo(n) => UpTo(m) = UpTo(n)
  <2>1. C # {} /\ \A X \in C : X \in SUBSET Nat /\ IsFiniteSet(X)
    BY <1>1
  <2>2. \A m \in S : UpTo(m) \in C
    OBVIOUS
  <2>3. \A X \in C : \E n \in S : X = UpTo(n)
    OBVIOUS
  <2> HIDE DEF C
  <2>4. PICK X \in C : \A Y \in C : Y \subseteq X => Y = X
    BY <2>1, HasLeastSet
  <2>. QED  BY <2>2, <2>3, <2>4
<1>3. PICK n \in S : \A m \in S : UpTo(m) \subseteq UpTo(n) => UpTo(m) = UpTo(n)
  BY <1>2
<1>4. ASSUME NEW m \in S PROVE n <= m
  <2>. SUFFICES ASSUME m < n PROVE FALSE
    OBVIOUS
  <2>1. UpTo(m) \subseteq UpTo(n) /\ n \in UpTo(n) /\ n \notin UpTo(m)
    BY DEF UpTo
  <2>. QED  BY <1>3, <2>1
<1>. QED  BY <1>4

LEMMA HasLast ==
  ASSUME NEW S \in SUBSET Nat, S # {}, NEW top \in Nat, \A n \in S : n <= top
  PROVE  \E n \in S : \A m \in S : m <= n
<1> DEFINE T == {d \in Nat : top - d \in S}
<1>1. \A m \in S : top - m \in T
  <2>. SUFFICES ASSUME NEW m \in S PROVE top - m \in Nat /\ top - (top - m) = m
    OBVIOUS
  <2>. QED  OBVIOUS
<1>2. T \in SUBSET Nat /\ T # {}
  BY <1>1
<1>3. PICK d \in T : \A e \in T : d <= e
  <2> HIDE DEF T
  <2>. QED  BY <1>2, HasFirst
<1>4. ASSUME NEW m \in S PROVE m <= top - d
  <2>1. d <= top - m /\ d \in Nat /\ m \in Nat
    BY <1>1, <1>3
  <2>. QED  BY <2>1
<1>. QED  BY <1>3, <1>4

LEMMA OldestIsFirst ==
  ASSUME NEW S \in SUBSET Nat, S # {}
  PROVE  Oldest(S) \in S /\ \A s \in S : Oldest(S) <= s
<1>1. \E r \in S : \A s \in S : r <= s
  BY HasFirst
<1>. QED  BY <1>1 DEF Oldest

(* The n newest of a set: an upper part of it, of at most n, and all of it *)
(* if it is fewer.                                                         *)
Above(S, r) == {s \in S : s > r}

LEMMA AboveCount ==
  ASSUME NEW S \in SUBSET Nat, IsFiniteSet(S), NEW r \in S
  PROVE  /\ IsFiniteSet(Above(S, r)) /\ Cardinality(Above(S, r)) \in Nat
         /\ Cardinality(S) \in Nat /\ Cardinality(Above(S, r)) < Cardinality(S)
<1>1. Above(S, r) \in SUBSET S /\ Above(S, r) # S
  BY DEF Above
<1>2. /\ IsFiniteSet(Above(S, r)) /\ Cardinality(Above(S, r)) <= Cardinality(S)
      /\ Cardinality(Above(S, r)) # Cardinality(S)
  BY <1>1, FS_Subset
<1>. QED  BY <1>2, FS_CardinalityType

LEMMA NewestSet ==
  ASSUME NEW S, NEW n
  PROVE  Newest(S, n) = {r \in S : Cardinality(Above(S, r)) < n} /\ Newest(S, n) \subseteq S
  BY DEF Newest, Above

LEMMA NewestIsUpper ==
  ASSUME NEW S \in SUBSET Nat, IsFiniteSet(S), NEW n \in Nat,
         NEW r \in Newest(S, n), NEW s \in S, r < s
  PROVE  s \in Newest(S, n)
<1>0. r \in S /\ r \in Nat /\ s \in Nat /\ \A t \in S : t \in Nat
  BY NewestSet
<1>1. Above(S, s) \in SUBSET Above(S, r) /\ r \in S
  <2>1. ASSUME NEW t \in S, t > s PROVE t > r
    BY <1>0, <2>1
  <2>. QED  BY <1>0, <2>1 DEF Above
<1>2. IsFiniteSet(Above(S, r))
  BY <1>1, AboveCount
<1>4. Cardinality(Above(S, s)) <= Cardinality(Above(S, r))
  BY <1>1, <1>2, FS_Subset
<1>3. Cardinality(Above(S, r)) < n
  BY NewestSet
<1>5. Cardinality(Above(S, r)) \in Nat /\ Cardinality(Above(S, s)) \in Nat
  BY <1>1, AboveCount
<1>. QED  BY <1>3, <1>4, <1>5, NewestSet

LEMMA NewestOfFew ==
  ASSUME NEW S \in SUBSET Nat, IsFiniteSet(S), NEW n \in Nat, Cardinality(S) <= n
  PROVE  Newest(S, n) = S
<1>1. \A r \in S : Cardinality(Above(S, r)) < n
  BY AboveCount
<1>. QED  BY <1>1, NewestSet

LEMMA NewestIsAll ==
  ASSUME NEW S \in SUBSET Nat, IsFiniteSet(S), NEW n \in Nat, NEW top \in Nat,
         \A s \in S : s <= top, Cardinality(Newest(S, n)) < n
  PROVE  Newest(S, n) = S
<1>. SUFFICES ASSUME Newest(S, n) # S PROVE FALSE
  OBVIOUS
<1> DEFINE Rest == S \ Newest(S, n)
<1>1. Rest \in SUBSET Nat /\ Rest # {} /\ \A s \in Rest : s <= top
  BY NewestSet
<1>2. PICK m \in Rest : \A k \in Rest : k <= m
  <2> HIDE DEF Rest
  <2>. QED  BY <1>1, HasLast
<1>0. \A t \in S : t \in Nat /\ (t > m => t \in Newest(S, n))
  BY <1>2
<1>3. Above(S, m) \in SUBSET Newest(S, n) /\ m \in S /\ m \notin Newest(S, n)
  BY <1>0 DEF Above
<1>4. IsFiniteSet(Newest(S, n))
  BY NewestSet, FS_Subset
<1>5. Cardinality(Above(S, m)) <= Cardinality(Newest(S, n))
  BY <1>3, <1>4, FS_Subset
<1>7. Cardinality(Newest(S, n)) \in Nat
  BY <1>4, FS_CardinalityType
<1>6. ~(Cardinality(Above(S, m)) < n)
  BY <1>3, NewestSet
<1>8. Cardinality(Above(S, m)) \in Nat
  BY <1>3, AboveCount
<1>. QED  BY <1>5, <1>6, <1>7, <1>8

LEMMA NewestAtMost ==
  ASSUME NEW S \in SUBSET Nat, IsFiniteSet(S), NEW n \in Nat
  PROVE  IsFiniteSet(Newest(S, n)) /\ Cardinality(Newest(S, n)) \in 0 .. n
<1>1. IsFiniteSet(Newest(S, n)) /\ Cardinality(Newest(S, n)) \in Nat
  BY NewestSet, FS_Subset, FS_CardinalityType
<1>2. ASSUME Cardinality(Newest(S, n)) > n PROVE FALSE
  <2>1. Newest(S, n) # {} /\ Newest(S, n) \in SUBSET Nat
    <3>1. Newest(S, n) # {}
      BY <1>2, FS_EmptySet
    <3>. QED  BY <3>1, NewestSet
  <2>2. PICK m \in Newest(S, n) : \A k \in Newest(S, n) : m <= k
    BY <2>1, HasFirst
  <2>3. m \in S /\ Cardinality(Above(S, m)) < n
    BY NewestSet
  <2>4. Newest(S, n) \ {m} \in SUBSET Above(S, m)
    <3>1. \A k \in Newest(S, n) \ {m} : k \in S /\ k > m
      BY <2>1, <2>2, NewestSet
    <3>. QED  BY <3>1 DEF Above
  <2>7. IsFiniteSet(Above(S, m)) /\ Cardinality(Above(S, m)) \in Nat
    BY <2>3, AboveCount
  <2>5. Cardinality(Newest(S, n) \ {m}) <= Cardinality(Above(S, m))
    BY <2>4, <2>7, FS_Subset
  <2>6. Cardinality(Newest(S, n) \ {m}) = Cardinality(Newest(S, n)) - 1
    BY <1>1, FS_RemoveElement
  <2>. QED  BY <1>1, <1>2, <2>3, <2>5, <2>6, <2>7
<1>. QED  BY <1>1, <1>2

(* What a walk of n rows has passed: everything from its cursor on.        *)
LEMMA WalkPasses ==
  ASSUME NEW S \in SUBSET Nat, NEW top \in Nat, \A s \in S : s <= top, NEW n \in Nat, n # 0
  PROVE  LET W   == Newest(S, n)
             cur == IF Cardinality(W) < n THEN Spent ELSE Oldest(W)
         IN  /\ W \subseteq S /\ cur \in {Spent} \union S
             /\ \A r \in W : cur <= r
             /\ \A r \in S : cur <= r => r \in W
<1> DEFINE W == Newest(S, n)
           cur == IF Cardinality(W) < n THEN Spent ELSE Oldest(W)
<1>1. IsFiniteSet(S) /\ W \subseteq S
  BY FS_BoundedSetOfNaturals, NewestSet
<1>2. CASE Cardinality(W) < n
  <2>1. W = S
    BY <1>1, <1>2, NewestIsAll
  <2>2. cur = Spent
    BY <1>2
  <2>3. \A r \in S : r \in Nat /\ 0 <= r
    OBVIOUS
  <2>4. /\ W \subseteq S /\ cur \in {Spent} \union S
        /\ \A r \in W : cur <= r
        /\ \A r \in S : cur <= r => r \in W
    <3> HIDE DEF W, cur
    <3>. QED  BY <2>1, <2>2, <2>3 DEF Spent
  <2>. QED  BY <2>4
<1>3. CASE ~(Cardinality(W) < n)
  <2>1. W # {}
    BY <1>3, FS_EmptySet
  <2>2. W \in SUBSET Nat /\ cur = Oldest(W)
    BY <1>1, <1>3
  <2>3. cur \in W /\ \A r \in W : cur <= r
    <3> HIDE DEF W
    <3>. QED  BY <2>1, <2>2, OldestIsFirst
  <2>4. ASSUME NEW r \in S, cur <= r PROVE r \in W
    <3>1. cur \in Nat /\ r \in Nat
      BY <1>1, <2>3
    <3> HIDE DEF cur
    <3>2. CASE cur = r
      BY <2>3, <3>2
    <3>3. CASE cur < r
      BY <1>1, <2>3, <3>3, NewestIsUpper
    <3>. QED  BY <2>4, <3>1, <3>2, <3>3
  <2>. QED  BY <1>1, <2>3, <2>4
<1>. QED  BY <1>2, <1>3

LEMMA RowNumbers ==
  ASSUME rows \in Seq(RowStatuses), Len(rows) <= MaxRows
  PROVE  /\ Len(rows) \in Nat /\ Rows \subseteq Nat
         /\ \A r : r \in Rows <=> r \in Nat /\ 1 <= r /\ r <= Len(rows)
         /\ \A r \in Rows : rows[r] \in RowStatuses /\ RepoOf[r] \in Repos
<1>1. Len(rows) \in Nat /\ MaxRows \in Nat /\ RepoOf \in [1 .. MaxRows -> Repos]
  BY ScreenAssumption
<1>. QED  BY <1>1 DEF Rows

Below(r, cursor) == cursor # Unset => r < cursor

(* The pages of one repository, from a cursor on.                          *)
LEMMA Collected ==
  ASSUME rows \in Seq(RowStatuses), Len(rows) <= MaxRows,
         NEW f, f.repo \in Repos, NEW cursor \in {Unset} \union Nat
  PROVE  LET p == CollectVisible(f, cursor) IN
         /\ p \in [rows : SUBSET Nat, cursor : Nat, complete : BOOLEAN]
         /\ p.rows \subseteq Visible(Rows) /\ p.cursor \in {Spent} \union Rows
         /\ p.complete = (f.status = "any")
         /\ \A r \in p.rows : Matches(r, f) /\ RepoOf[r] = f.repo /\ p.cursor <= r
         /\ \A r \in Visible(Rows) :
              Matches(r, f) /\ Below(r, cursor) /\ p.cursor <= r => r \in p.rows
<1> DEFINE index == {r \in Rows : RepoOf[r] = f.repo /\ (cursor # Unset => r < cursor)}
           Walked(k) == Newest(index, k * Limit)
           Found(k)  == {r \in Visible(Walked(k)) : Matches(r, f)}
           Over(k)   == Cardinality(Walked(k)) < k * Limit
           Enough(k) == Over(k) \/ Cardinality(Found(k)) >= Limit \/ k = MaxFilterPages
           stop == CHOOSE k \in 1 .. MaxFilterPages : Enough(k) /\ \A j \in 1 .. k - 1 : ~Enough(j)
           p == CollectVisible(f, cursor)
<1>1. p = [rows |-> Found(stop), cursor |-> IF Over(stop) THEN Spent ELSE Oldest(Walked(stop)),
           complete |-> RepoResponseComplete(f.status # "any")]
  BY DEF CollectVisible
<1>2. stop \in 1 .. MaxFilterPages
  <2> DEFINE K == {k \in 1 .. MaxFilterPages : Enough(k)}
  <2> HIDE DEF Walked, Found, Over
  <2>1. MaxFilterPages \in K /\ K \in SUBSET Nat
    BY ScreenAssumption
  <2>2. PICK k \in K : \A j \in K : k <= j
    <3> HIDE DEF K
    <3>. QED  BY <2>1, HasFirst
  <2>3. \A j \in 1 .. k - 1 : ~Enough(j)
    <3>. SUFFICES ASSUME NEW j \in 1 .. k - 1, Enough(j) PROVE FALSE
      OBVIOUS
    <3>1. k \in 1 .. MaxFilterPages /\ MaxFilterPages \in Nat
      BY ScreenAssumption
    <3>2. j \in 1 .. MaxFilterPages /\ ~(k <= j)
      BY <3>1
    <3>. QED  BY <2>2, <3>2
  <2>4. \E m \in 1 .. MaxFilterPages : Enough(m) /\ \A j \in 1 .. m - 1 : ~Enough(j)
    BY <2>2, <2>3
  <2> HIDE DEF Enough
  <2>. QED  BY <2>4
<1>3. stop * Limit \in Nat /\ stop * Limit # 0
  <2>1. MaxFilterPages \in Nat /\ Limit \in Nat /\ Limit # 0
    BY ScreenAssumption
  <2> HIDE DEF stop
  <2>2. stop \in Nat /\ stop # 0
    BY <1>2, <2>1
  <2>. QED  BY <2>1, <2>2
<1>4. /\ Len(rows) \in Nat /\ Rows \subseteq Nat /\ \A r \in Rows : r <= Len(rows)
  BY RowNumbers
<1>5. index \in SUBSET Nat /\ \A s \in index : s <= Len(rows)
  BY <1>4
<1> HIDE DEF stop, index
<1>6. /\ Walked(stop) \subseteq index /\ p.cursor \in {Spent} \union index
      /\ \A r \in Walked(stop) : p.cursor <= r
      /\ \A r \in index : p.cursor <= r => r \in Walked(stop)
  <2>1. p.cursor = IF Over(stop) THEN Spent ELSE Oldest(Walked(stop))
    BY <1>1
  <2>2. LET W   == Newest(index, stop * Limit)
            cur == IF Cardinality(W) < stop * Limit THEN Spent ELSE Oldest(W)
        IN  /\ W \subseteq index /\ cur \in {Spent} \union index
            /\ \A r \in W : cur <= r
            /\ \A r \in index : cur <= r => r \in W
    BY <1>3, <1>4, <1>5, WalkPasses
  <2> HIDE DEF p
  <2>. QED  BY <2>1, <2>2
<1>7. p.rows = Found(stop) /\ p.complete = (f.status = "any")
  BY <1>1 DEF RepoResponseComplete
<1>8. \A r : r \in index <=> r \in Rows /\ RepoOf[r] = f.repo /\ (cursor # Unset => r < cursor)
  BY DEF index
<1>9. \A r \in p.rows : r \in Walked(stop) /\ r \notin theirs /\ Matches(r, f)
  BY <1>7 DEF Visible
<1>10. \A r \in Visible(Rows) :
         Matches(r, f) /\ Below(r, cursor) /\ p.cursor <= r => r \in p.rows
  <2>. SUFFICES ASSUME NEW r \in Visible(Rows), Matches(r, f), Below(r, cursor), p.cursor <= r
                PROVE  r \in p.rows
    OBVIOUS
  <2>1. RepoOf[r] = f.repo /\ r \in Rows /\ r \notin theirs
    BY StartsAssumption DEF Matches, Visible
  <2>2. r \in index
    BY <1>8, <2>1 DEF Below
  <2>3. r \in Walked(stop)
    BY <1>6, <2>2
  <2>. QED  BY <1>7, <2>1, <2>3 DEF Visible
<1>11. p.rows \subseteq Visible(Rows) /\ p.cursor \in {Spent} \union Rows
  BY <1>6, <1>8, <1>9 DEF Visible
<1>12. p \in [rows : SUBSET Nat, cursor : Nat, complete : BOOLEAN]
  <2>1. p.rows \in SUBSET Nat /\ p.cursor \in Nat
    <3> HIDE DEF p
    <3>1. \A r \in Visible(Rows) : r \in Nat
      BY <1>4 DEF Visible
    <3>2. p.rows \in SUBSET Nat
      BY <1>11, <3>1
    <3>3. Spent \in Nat /\ \A r \in Rows : r \in Nat
      BY <1>4 DEF Spent
    <3>4. p.cursor \in Nat
      BY <1>11, <3>3
    <3>. QED  BY <3>2, <3>4
  <2>2. p = [rows |-> p.rows, cursor |-> p.cursor, complete |-> p.complete] /\ p.complete \in BOOLEAN
    BY <1>1 DEF RepoResponseComplete
  <2> HIDE DEF p
  <2>. QED  BY <2>1, <2>2
<1>. QED  BY <1>6, <1>7, <1>8, <1>9, <1>10, <1>11, <1>12

(* The merged view.                                                        *)
LEMMA StatusPageOf ==
  ASSUME rows \in Seq(RowStatuses), Len(rows) <= MaxRows, NEW s \in RowStatuses
  PROVE  /\ StatusPage(s) \subseteq {r \in Rows : rows[r] = s}
         /\ ~Truncated(s) => \A r \in Rows : rows[r] = s => r \in StatusPage(s)
<1> DEFINE S == {r \in Rows : rows[r] = s}
<1>1. S \in SUBSET Nat /\ Len(rows) \in Nat /\ \A r \in S : r <= Len(rows)
  BY RowNumbers
<1>2. Limit \in Nat
  BY ScreenAssumption
<1>3. StatusPage(s) = Newest(S, Limit)
  BY DEF StatusPage
<1> HIDE DEF S
<1>4. IsFiniteSet(S)
  BY <1>1, FS_BoundedSetOfNaturals
<1>5. StatusPage(s) \subseteq S
  BY <1>3, NewestSet
<1>6. ~Truncated(s) => StatusPage(s) = S
  <2>1. Cardinality(Newest(S, Limit)) \in 0 .. Limit
    BY <1>1, <1>2, <1>4, NewestAtMost
  <2>2. ~Truncated(s) => Cardinality(Newest(S, Limit)) < Limit
    BY <1>2, <1>3, <2>1 DEF Truncated
  <2>. QED  BY <1>1, <1>2, <1>3, <1>4, <2>2, NewestIsAll
<1>. QED  BY <1>5, <1>6 DEF S

LEMMA Merged ==
  ASSUME rows \in Seq(RowStatuses), Len(rows) <= MaxRows,
         NEW found \in SUBSET (Rows \X RowStatuses), NEW truncated \in BOOLEAN
  PROVE  LET p == Merge(found, truncated) IN
         /\ p \in [rows : SUBSET Nat, cursor : Nat, complete : BOOLEAN]
         /\ p.rows \subseteq Rows /\ p.cursor = Spent
         /\ p.complete => /\ ~truncated
                          /\ \A e \in found : e[1] \notin theirs => e[1] \in p.rows
<1> DEFINE visible  == {e \in found : e[1] \notin theirs}
           returned == IF Cardinality(visible) <= Limit THEN Cardinality(visible) ELSE Limit
           firsts   == {e[1] : e \in visible}
           p == Merge(found, truncated)
<1>1. p = [rows |-> Newest(firsts, Limit), cursor |-> Spent,
           complete |-> MergedResponseComplete(truncated, Cardinality(visible), returned)]
  BY DEF Merge
<1>2. Len(rows) \in Nat /\ Rows \subseteq Nat /\ (\A r \in Rows : r <= Len(rows)) /\ Limit \in Nat
  BY RowNumbers, ScreenAssumption
<1>3. firsts \in SUBSET Rows
  OBVIOUS
<1>4. firsts \in SUBSET Nat /\ IsFiniteSet(firsts)
  <2> HIDE DEF firsts
  <2>1. firsts \in SUBSET Nat /\ \A r \in firsts : r <= Len(rows)
    BY <1>2, <1>3
  <2>. QED  BY <1>2, <2>1, FS_BoundedSetOfNaturals
<1>5. IsFiniteSet(visible) /\ Cardinality(visible) \in Nat
  <2>1. IsFiniteSet(Rows)
    BY <1>2, FS_BoundedSetOfNaturals
  <2>2. IsFiniteSet(RowStatuses)
    <3>1. IsFiniteSet({"running"}) /\ IsFiniteSet({"failed"})
      BY FS_Singleton
    <3>2. RowStatuses = {"running"} \union {"failed"}
      BY DEF RowStatuses
    <3>. QED  BY <3>1, <3>2, FS_Union
  <2>3. IsFiniteSet(Rows \X RowStatuses)
    BY <2>1, <2>2, FS_Product
  <2>4. visible \in SUBSET (Rows \X RowStatuses)
    OBVIOUS
  <2> HIDE DEF visible
  <2>. QED  BY <2>3, <2>4, FS_Subset, FS_CardinalityType
<1>6. Cardinality(firsts) \in Nat /\ Cardinality(firsts) <= Cardinality(visible)
  <2> DEFINE first == [e \in visible |-> e[1]]
  <2>1. first \in Surjection(visible, firsts)
    BY DEF Surjection
  <2> HIDE DEF first, visible, firsts
  <2>. QED  BY <1>4, <1>5, <2>1, FS_Surjection, FS_CardinalityType
<1> HIDE DEF visible, firsts
<1>7. p.complete => ~truncated /\ Cardinality(visible) <= Limit
  <2>1. p.complete => ~truncated /\ returned = Cardinality(visible)
    <3>1. p.complete = MergedResponseComplete(truncated, Cardinality(visible), returned)
      BY <1>1
    <3> HIDE DEF p, returned
    <3>. QED  BY <3>1 DEF MergedResponseComplete
  <2>2. returned = Cardinality(visible) => Cardinality(visible) <= Limit
    BY <1>2, <1>5
  <2> HIDE DEF p, returned
  <2>. QED  BY <2>1, <2>2
<1>8. p.complete => p.rows = firsts
  <2>. SUFFICES ASSUME p.complete PROVE p.rows = firsts
    OBVIOUS
  <2>1. Cardinality(firsts) <= Limit
    BY <1>2, <1>5, <1>6, <1>7
  <2>. QED  BY <1>1, <1>2, <1>4, <2>1, NewestOfFew
<1>9. p.rows \subseteq firsts /\ p.cursor = Spent
  <2>1. p.rows = Newest(firsts, Limit) /\ p.cursor = Spent
    BY <1>1
  <2> HIDE DEF p
  <2>. QED  BY <2>1, NewestSet
<1>10. p \in [rows : SUBSET Nat, cursor : Nat, complete : BOOLEAN]
  <2>1. p.rows \in SUBSET Nat /\ p.cursor \in Nat
    <3>1. Spent \in Nat
      BY DEF Spent
    <3> HIDE DEF p
    <3>. QED  BY <1>4, <1>9, <3>1
  <2>2. p = [rows |-> p.rows, cursor |-> p.cursor, complete |-> p.complete] /\ p.complete \in BOOLEAN
    BY <1>1 DEF MergedResponseComplete
  <2> HIDE DEF p
  <2>. QED  BY <2>1, <2>2
<1>11. \A e \in found : e[1] \notin theirs => e[1] \in firsts
  BY DEF firsts, visible
<1>. QED  BY <1>3, <1>7, <1>8, <1>9, <1>10, <1>11

(* The steps.  Rows are only added, and only fail: what was read stays a   *)
(* read of the rows there were.                                            *)
LEMMA FilterFields ==
  ASSUME NEW f \in Filters
  PROVE  /\ f = NoFilter \/ f.repo \in Repos
         /\ f.status \in {"any", "failed"} /\ f.repo \in Repos \union {None}
         /\ f # NoFilter <=> f.repo # None
         /\ f = NoFilter <=> f.repo = None
<1>1. None \notin Repos
  BY StartsAssumption
<1>. QED  BY <1>1 DEF Filters, NoFilter

LEMMA MatchesRepo ==
  ASSUME NEW f \in Filters, NEW r
  PROVE  /\ Matches(r, f) => OfRepo(r, f)
         /\ f.status = "any" => (Matches(r, f) <=> OfRepo(r, f))
         /\ f # NoFilter => (OfRepo(r, f) <=> RepoOf[r] = f.repo)
         /\ f = NoFilter => OfRepo(r, f)
  BY FilterFields, StartsAssumption DEF Matches, OfRepo

(* What changes the rows leaves alone.                                     *)
RowsGrow ==
  /\ Len(rows) \in Nat /\ Len(rows') \in Nat /\ Len(rows) <= Len(rows')
  /\ rows' \in Seq(RowStatuses) /\ Len(rows') <= MaxRows
  /\ \A r \in Rows : rows'[r] \in {rows[r], "failed"}
  /\ UNCHANGED <<theirs, filter, head, pages, hop, spoilt>>

LEMMA RowsGrowHead == ASSUME ScreenInv, RowsGrow PROVE HeadInv'
<1>1. CASE head = NoHead
  BY <1>1 DEF HeadInv, RowsGrow
<1>2. CASE head # NoHead
  <2>1. head.filter \in Filters /\ FirstPage(head, head.filter, head.asOf, head.torn)
    BY <1>2 DEF ScreenInv, HeadInv
  <2>2. FirstPage(head, head.filter, head.asOf, head.torn)'
    BY <2>1 DEF FirstPage, RowsGrow, Rows, Visible, OfRepo
  <2>. QED  BY <2>1, <2>2 DEF HeadInv, RowsGrow
<1>. QED  BY <1>1, <1>2

LEMMA RowsGrowPages == ASSUME ScreenInv, RowsGrow PROVE PagesInv' /\ HopInv'
<1> USE DEF ScreenInv, RowsGrow
<1>1. \A r \in Rows : r \in Rows' /\ (Matches(r, filter) => Matches(r, filter)')
  BY FilterFields DEF Rows, Matches
<1>2. pages.rows \subseteq Rows' /\ OlderBelongs'
  BY <1>1 DEF PagesInv, OlderBelongs
<1>3. pages.cursor \in {Unset} \union (0 .. Len(rows'))
  BY DEF PagesInv
<1>4. PagesInv'
  BY <1>1, <1>2, <1>3 DEF PagesInv, Rows, Visible
<1>5. HopInv'
  BY <1>1 DEF HopInv, Rows, Visible
<1>. QED  BY <1>4, <1>5

LEMMA JobQueuedStep ==
  ASSUME ScreenInv, JobQueued, UNCHANGED theirs PROVE ScreenInv'
<1>1. /\ rows' \in Seq(RowStatuses) /\ Len(rows') = Len(rows) + 1 /\ Len(rows) \in Nat
      /\ \A r \in Rows : rows'[r] = rows[r]
      /\ Len(rows') <= MaxRows
  <2>1. /\ rows \in Seq(RowStatuses) /\ "running" \in RowStatuses /\ rows' = Append(rows, "running")
        /\ Len(rows) < MaxRows /\ MaxRows \in Nat
    BY ScreenAssumption DEF ScreenInv, JobQueued, RowStatuses
  <2>2. rows' \in Seq(RowStatuses) /\ Len(rows') = Len(rows) + 1 /\ Len(rows) \in Nat
    BY <2>1, AppendProperties
  <2>3. \A r \in Rows : rows'[r] = rows[r]
    BY <2>1, AppendProperties DEF Rows
  <2>4. Len(rows) < MaxRows /\ MaxRows \in Nat
    BY <2>1
  <2>5. Len(rows') <= MaxRows
    BY <2>2, <2>4
  <2>. QED  BY <2>2, <2>3, <2>5
<1>2. RowsGrow
  <2>1. UNCHANGED <<theirs, filter, head, pages, hop, spoilt>>
    BY DEF JobQueued
  <2>2. Len(rows) <= Len(rows') /\ Len(rows') \in Nat
    BY <1>1
  <2>. QED  BY <1>1, <2>1, <2>2 DEF RowsGrow
<1>3. poll' = poll
  BY DEF JobQueued
<1>4. PollInv'
  <2>. SUFFICES ASSUME poll # None PROVE PollInv'
    BY <1>3 DEF PollInv
  <2>1. /\ DOMAIN poll = {"left", "found", "truncated", "asOf", "torn", "reply"}
        /\ poll.asOf \in 0 .. Len(rows') /\ poll.truncated \in BOOLEAN
    BY <1>1 DEF ScreenInv, PollInv
  <2>2. CASE poll.reply # None
    <3>1. FirstPage(poll.reply, filter, poll.asOf, poll.torn)
      BY <2>2 DEF ScreenInv, PollInv
    <3>2. FirstPage(poll.reply, filter, poll.asOf, poll.torn)'
      BY <1>2, <1>3, <3>1 DEF FirstPage, RowsGrow, Rows, Visible, OfRepo
    <3>. QED  BY <1>3, <2>1, <2>2, <3>2 DEF PollInv
  <2>3. CASE poll.reply = None
    <3>1. \A r \in Rows : r \in Rows'
      BY <1>1 DEF Rows
    <3>2. \A r \in 1 .. poll.asOf : r \in Rows
      BY <1>1 DEF Rows, ScreenInv, PollInv
    <3>3. poll.found \subseteq Rows' \X RowStatuses
      BY <2>3, <3>1 DEF ScreenInv, PollInv
    <3>. QED  BY <1>1, <1>3, <2>1, <2>3, <3>2, <3>3 DEF ScreenInv, PollInv
  <2>. QED  BY <2>2, <2>3
<1>. QED  BY <1>2, <1>4, RowsGrowHead, RowsGrowPages DEF ScreenInv, RowsGrow

LEMMA JobMovesStep ==
  ASSUME ScreenInv, NEW n \in Rows, JobMoves(n), UNCHANGED theirs PROVE ScreenInv'
<1>1. /\ rows' \in Seq(RowStatuses) /\ Len(rows') = Len(rows) /\ Len(rows) \in Nat
      /\ \A r \in Rows : rows'[r] = IF r = n THEN "failed" ELSE rows[r]
      /\ Len(rows') <= MaxRows
  <2>1. rows \in Seq(RowStatuses) /\ n \in 1 .. Len(rows) /\ "failed" \in RowStatuses
        /\ rows' = [rows EXCEPT ![n] = "failed"] /\ Len(rows) <= MaxRows
    BY DEF ScreenInv, JobMoves, Rows, RowStatuses
  <2>. QED  BY <2>1, ExceptSeq DEF Rows
<1>2. RowsGrow
  BY <1>1 DEF RowsGrow, JobMoves
<1>3. poll' = IF poll # None /\ poll.reply = None
              THEN [poll EXCEPT !.torn = poll.left # RowStatuses] ELSE poll
  BY DEF JobMoves
<1>4. PollInv'
  <2>0. CASE poll = None
    BY <1>3, <2>0 DEF PollInv
  <2>2. CASE poll # None /\ poll.reply # None
    <3>0. poll' = poll
      BY <1>3, <2>2
    <3>1. FirstPage(poll.reply, filter, poll.asOf, poll.torn)
      BY <2>2 DEF ScreenInv, PollInv
    <3>2. FirstPage(poll.reply, filter, poll.asOf, poll.torn)'
      BY <1>2, <3>0, <3>1 DEF FirstPage, RowsGrow, Rows, Visible, OfRepo
    <3>. QED  BY <1>1, <2>2, <3>0, <3>2 DEF ScreenInv, PollInv
  <2>3. CASE poll # None /\ poll.reply = None
    <3>1. /\ DOMAIN poll = {"left", "found", "truncated", "asOf", "torn", "reply"}
          /\ poll.asOf \in 0 .. Len(rows) /\ poll.truncated \in BOOLEAN
          /\ poll.left \subseteq RowStatuses /\ poll.left # {}
          /\ poll.found \subseteq Rows \X RowStatuses
      BY <2>3 DEF ScreenInv, PollInv
    <3>2. /\ DOMAIN poll' = DOMAIN poll /\ poll'.asOf = poll.asOf /\ poll'.left = poll.left
          /\ poll'.truncated = poll.truncated /\ poll'.found = poll.found
          /\ poll'.reply = None /\ (poll'.torn <=> poll.left # RowStatuses)
      BY <1>3, <2>3, <3>1
    <3>3. Rows' = Rows
      BY <1>1 DEF Rows
    <3>. QED  BY <1>1, <3>1, <3>2, <3>3 DEF PollInv
  <2>. QED  BY <2>0, <2>2, <2>3
<1>. QED  BY <1>2, <1>4, RowsGrowHead, RowsGrowPages DEF ScreenInv, RowsGrow

LEMMA PollAnew ==
  ASSUME ScreenInv, poll' = NewPoll, UNCHANGED <<theirs, rows>>, filter' \in Filters PROVE PollInv'
<1>1. Len(rows) \in Nat /\ RowStatuses # {}
  BY DEF ScreenInv, RowStatuses
<1>2. /\ DOMAIN poll' = {"left", "found", "truncated", "asOf", "torn", "reply"}
      /\ poll'.asOf = Len(rows) /\ poll'.truncated = FALSE /\ poll'.torn = FALSE
      /\ poll'.left = RowStatuses /\ poll'.found = {} /\ poll'.reply = None
  BY DEF NewPoll
<1>3. Rows' = Rows
  BY DEF Rows
<1>4. poll'.asOf \in 0 .. Len(rows')
  BY <1>1, <1>2
<1>. HIDE DEF NewPoll
<1>. QED  BY <1>1, <1>2, <1>3, <1>4, Zenon DEF PollInv

LEMMA QuietPoll ==
  ASSUME ScreenInv, UNCHANGED <<theirs, rows, filter, poll>> PROVE PollInv'
  BY DEF ScreenInv, PollInv, FirstPage, Rows, Visible, OfRepo

LEMMA QuietHead ==
  ASSUME ScreenInv, UNCHANGED <<theirs, rows, head>> PROVE HeadInv'
  BY DEF ScreenInv, HeadInv, FirstPage, Rows, Visible, OfRepo

LEMMA QuietPages ==
  ASSUME ScreenInv, UNCHANGED <<theirs, rows, filter, pages, spoilt>> PROVE PagesInv'
  BY DEF ScreenInv, PagesInv, OlderBelongs, Matches, Rows, Visible

LEMMA QuietHop ==
  ASSUME ScreenInv, UNCHANGED <<theirs, rows, filter, pages, hop>> PROVE HopInv'
  BY DEF ScreenInv, HopInv, Rows, Visible

LEMMA ChangeFilterStep ==
  ASSUME ScreenInv, NEW f \in Filters, ChangeFilter(f), UNCHANGED theirs PROVE ScreenInv'
<1>1. /\ filter' = f /\ pages' = NoPages /\ spoilt' = FALSE /\ poll' = NewPoll
      /\ hop' = IF hop = None THEN None ELSE [hop EXCEPT !.stale = TRUE]
      /\ UNCHANGED <<rows, head, theirs>>
  BY DEF ChangeFilter
<1>2. PollInv' /\ HeadInv'
  BY <1>1, PollAnew, QuietHead
<1>3. PagesInv'
  BY <1>1 DEF PagesInv, OlderBelongs, NoPages, Unset
<1>4. HopInv'
  <2>1. CASE hop = None
    BY <1>1, <2>1 DEF HopInv
  <2>2. CASE hop # None
    <3>1. pages'.cursor = Unset
      BY <1>1 DEF NoPages
    <3>2. /\ hop'.filter = hop.filter /\ hop'.from = hop.from /\ hop'.foreign = hop.foreign
          /\ hop'.deeper = hop.deeper /\ hop'.tail = hop.tail /\ hop'.stale
      BY <1>1, <2>2 DEF ScreenInv, HopInv
    <3>. QED  BY <1>1, <2>2, <3>1, <3>2 DEF ScreenInv, HopInv, Rows, Visible
  <2>. QED  BY <2>1, <2>2
<1>. QED  BY <1>1, <1>2, <1>3, <1>4 DEF ScreenInv

LEMMA ReadRepoStep ==
  ASSUME ScreenInv, ReadRepo, UNCHANGED theirs PROVE ScreenInv'
<1>1. /\ Polling /\ filter # NoFilter /\ Reply(ListRuns(filter, Unset), Len(rows), FALSE)
      /\ UNCHANGED <<rows, filter, head, pages, hop, failed, spoilt, budget, theirs>>
  BY DEF ReadRepo
<1>2. filter \in Filters /\ filter.repo \in Repos /\ rows \in Seq(RowStatuses) /\ Len(rows) <= MaxRows
  BY <1>1, FilterFields DEF ScreenInv
<1>3. PICK p : p = CollectVisible(filter, Unset)
  OBVIOUS
<1>4. /\ p \in [rows : SUBSET Nat, cursor : Nat, complete : BOOLEAN]
      /\ p.rows \subseteq Visible(Rows) /\ p.cursor \in {Spent} \union Rows
      /\ p.complete = (filter.status = "any")
      /\ \A r \in p.rows : Matches(r, filter) /\ RepoOf[r] = filter.repo /\ p.cursor <= r
      /\ \A r \in Visible(Rows) :
           Matches(r, filter) /\ Below(r, Unset) /\ p.cursor <= r => r \in p.rows
  BY <1>2, <1>3, Collected
<1>5. /\ DOMAIN poll' = {"left", "found", "truncated", "asOf", "torn", "reply"}
      /\ poll'.reply = p /\ poll'.asOf = Len(rows) /\ poll'.torn = FALSE
      /\ poll'.truncated = poll.truncated
  BY <1>1, <1>3 DEF ListRuns, Reply, ScreenInv, PollInv, Polling
<1>6. p # None
  BY <1>4, StartsAssumption
<1>7. FirstPage(p, filter, Len(rows), FALSE)
  BY <1>1, <1>2, <1>4, MatchesRepo DEF FirstPage, Visible, Below, Rows, Spent
<1>8. PollInv'
  BY <1>1, <1>2, <1>5, <1>6, <1>7 DEF ScreenInv, PollInv, Polling, FirstPage, Rows, Visible, OfRepo
<1>. QED  BY <1>1, <1>8, QuietHead, QuietPages, QuietHop DEF ScreenInv

LEMMA LandPollStep ==
  ASSUME ScreenInv, LandPoll, UNCHANGED theirs PROVE ScreenInv'
<1>1. /\ poll # None /\ poll.reply # None /\ poll' = None
      /\ head' = [filter |-> filter, rows |-> poll.reply.rows, cursor |-> poll.reply.cursor,
                  complete |-> poll.reply.complete, asOf |-> poll.asOf, torn |-> poll.torn]
      /\ UNCHANGED <<rows, filter, pages, hop, spoilt, theirs>>
  BY DEF LandPoll
<1>2. FirstPage(poll.reply, filter, poll.asOf, poll.torn) /\ filter \in Filters
  BY <1>1 DEF ScreenInv, PollInv
<1>3. /\ head'.filter = filter /\ head'.rows = poll.reply.rows /\ head'.cursor = poll.reply.cursor
      /\ head'.complete = poll.reply.complete /\ head'.asOf = poll.asOf /\ head'.torn = poll.torn
  BY <1>1
<1>4. FirstPage(head, head.filter, head.asOf, head.torn)'
  BY <1>1, <1>2, <1>3 DEF FirstPage, Rows, Visible, OfRepo
<1>5. HeadInv' /\ PollInv'
  BY <1>1, <1>2, <1>3, <1>4 DEF HeadInv, PollInv
<1>. QED  BY <1>1, <1>5, QuietPages, QuietHop DEF ScreenInv

LEMMA PollingStep ==
  ASSUME ScreenInv, UNCHANGED theirs, Tick \/ FailPoll \/ FailHop PROVE ScreenInv'
<1>1. UNCHANGED <<rows, filter, head, pages, spoilt, theirs>>
  BY DEF Tick, FailPoll, FailHop
<1>2. PollInv'
  <2>1. CASE Tick
    BY <1>1, <2>1, PollAnew DEF Tick, ScreenInv
  <2>2. CASE FailPoll
    BY <2>2 DEF FailPoll, PollInv
  <2>3. CASE FailHop
    BY <1>1, <2>3, QuietPoll DEF FailHop
  <2>. QED  BY <2>1, <2>2, <2>3
<1>3. HopInv'
  <2>1. CASE FailHop
    BY <2>1 DEF FailHop, HopInv
  <2>2. CASE ~FailHop
    BY <1>1, <2>2, QuietHop DEF Tick, FailPoll
  <2>. QED  BY <2>1, <2>2
<1>. QED  BY <1>1, <1>2, <1>3, QuietHead, QuietPages DEF ScreenInv

LEMMA StatusRead ==
  ASSUME ScreenInv, Polling, NEW s \in poll.left
  PROVE  LET found     == poll.found \union (StatusPage(s) \X {s})
             truncated == poll.truncated \/ Truncated(s)
             asOf      == IF poll.left = RowStatuses THEN Len(rows) ELSE poll.asOf
         IN  /\ found \in SUBSET (Rows \X RowStatuses) /\ truncated \in BOOLEAN
             /\ asOf \in 0 .. Len(rows)
             /\ ~poll.torn /\ ~truncated =>
                  \A r \in 1 .. asOf : rows[r] \notin poll.left \ {s} => <<r, rows[r]>> \in found
<1> DEFINE found     == poll.found \union (StatusPage(s) \X {s})
           truncated == poll.truncated \/ Truncated(s)
           asOf      == IF poll.left = RowStatuses THEN Len(rows) ELSE poll.asOf
<1>1. /\ poll.left \subseteq RowStatuses /\ poll.found \subseteq Rows \X RowStatuses
      /\ poll.asOf \in 0 .. Len(rows) /\ poll.truncated \in BOOLEAN
      /\ poll.left # RowStatuses /\ ~poll.torn /\ ~poll.truncated =>
           \A r \in 1 .. poll.asOf : rows[r] \notin poll.left => <<r, rows[r]>> \in poll.found
  BY DEF ScreenInv, PollInv, Polling
<1>2. rows \in Seq(RowStatuses) /\ Len(rows) <= MaxRows
  BY DEF ScreenInv
<1>3. /\ StatusPage(s) \subseteq {r \in Rows : rows[r] = s}
      /\ ~Truncated(s) => \A r \in Rows : rows[r] = s => r \in StatusPage(s)
  BY <1>1, <1>2, StatusPageOf
<1>4. Len(rows) \in Nat /\ asOf \in 0 .. Len(rows)
  BY <1>1, <1>2
<1>5. found \in SUBSET (Rows \X RowStatuses) /\ truncated \in BOOLEAN
  BY <1>1, <1>3
<1>6. ASSUME ~poll.torn, ~truncated, NEW r \in 1 .. asOf, rows[r] \notin poll.left \ {s}
      PROVE  <<r, rows[r]>> \in found
  <2>1. r \in Rows /\ rows[r] \in RowStatuses
    BY <1>2, <1>4, RowNumbers DEF Rows
  <2>2. CASE rows[r] = s
    BY <1>3, <1>6, <2>1, <2>2
  <2>3. CASE rows[r] \notin poll.left
    <3>1. poll.left # RowStatuses /\ asOf = poll.asOf
      BY <2>1, <2>3
    <3>. QED  BY <1>1, <1>6, <2>3, <3>1
  <2>. QED  BY <1>6, <2>2, <2>3
<1>. QED  BY <1>4, <1>5, <1>6

LEMMA ReadStatusStep ==
  ASSUME ScreenInv, NEW s \in RowStatuses, ReadStatus(s), UNCHANGED theirs PROVE ScreenInv'
<1>1. /\ Polling /\ filter = NoFilter /\ s \in poll.left
      /\ UNCHANGED <<rows, filter, head, pages, hop, failed, spoilt, budget, theirs>>
  BY DEF ReadStatus
<1> DEFINE found     == poll.found \union (StatusPage(s) \X {s})
           truncated == poll.truncated \/ Truncated(s)
           asOf      == IF poll.left = RowStatuses THEN Len(rows) ELSE poll.asOf
<1>5. /\ found \in SUBSET (Rows \X RowStatuses) /\ truncated \in BOOLEAN /\ asOf \in 0 .. Len(rows)
      /\ ~poll.torn /\ ~truncated =>
           \A r \in 1 .. asOf : rows[r] \notin poll.left \ {s} => <<r, rows[r]>> \in found
  BY <1>1, StatusRead
<1>6. IF poll.left = {s} THEN Reply(Merge(found, truncated), asOf, poll.torn)
      ELSE poll' = [poll EXCEPT !.left = @ \ {s}, !.found = found, !.asOf = asOf,
                                !.truncated = truncated]
  BY DEF ReadStatus
<1> HIDE DEF found, truncated, asOf
<1>7. /\ DOMAIN poll = {"left", "found", "truncated", "asOf", "torn", "reply"} /\ poll.reply = None
      /\ poll.left \subseteq RowStatuses /\ poll.truncated \in BOOLEAN
  BY <1>1 DEF ScreenInv, PollInv, Polling
<1>8. CASE poll.left = {s}
  <2>1. PICK p : p = Merge(found, truncated)
    OBVIOUS
  <2>2. /\ p \in [rows : SUBSET Nat, cursor : Nat, complete : BOOLEAN]
        /\ p.rows \subseteq Rows /\ p.cursor = Spent
        /\ p.complete => /\ ~truncated
                         /\ \A e \in found : e[1] \notin theirs => e[1] \in p.rows
    BY <1>5, <2>1, Merged DEF ScreenInv
  <2>3. /\ DOMAIN poll' = {"left", "found", "truncated", "asOf", "torn", "reply"}
        /\ poll'.reply = p /\ poll'.asOf = asOf /\ poll'.torn = poll.torn
        /\ poll'.truncated = poll.truncated
    BY <1>6, <1>7, <1>8, <2>1 DEF Reply
  <2>4. p # None
    BY <2>2, StartsAssumption
  <2>5. ASSUME p.complete, ~poll.torn, NEW r \in Visible(1 .. asOf) PROVE r \in p.rows
    <3>1. <<r, rows[r]>> \in found /\ r \notin theirs
      BY <1>5, <1>8, <2>2, <2>5 DEF Visible
    <3>. QED  BY <2>2, <2>5, <3>1
  <2>6. FirstPage(p, filter, asOf, poll.torn)
    <3>1. filter.status = "any" /\ \A r : OfRepo(r, filter)
      BY <1>1 DEF NoFilter, OfRepo
    <3>2. p.cursor \in 0 .. Len(rows) /\ \A r \in p.rows : p.cursor <= r
      BY <2>2 DEF Spent, Rows, ScreenInv
    <3>. QED  BY <1>1, <1>5, <2>2, <2>5, <3>1, <3>2 DEF FirstPage
  <2>8. PollInv'
    BY <1>1, <1>5, <1>7, <2>3, <2>4, <2>6 DEF PollInv, FirstPage, Rows, Visible, OfRepo
  <2>. QED  BY <1>1, <2>8, QuietHead, QuietPages, QuietHop DEF ScreenInv
<1>9. CASE poll.left # {s}
  <2>1. /\ DOMAIN poll' = DOMAIN poll /\ poll'.left = poll.left \ {s} /\ poll'.found = found
        /\ poll'.asOf = asOf /\ poll'.truncated = truncated /\ poll'.torn = poll.torn
        /\ poll'.reply = None
    BY <1>6, <1>7, <1>9
  <2>2. /\ poll'.left \subseteq RowStatuses /\ poll'.left # {} /\ poll'.left # RowStatuses
    BY <1>1, <1>7, <1>9, <2>1
  <2>3. Rows' = Rows
    BY <1>1 DEF Rows
  <2>4. PollInv'
    BY <1>1, <1>5, <1>7, <2>1, <2>2, <2>3 DEF PollInv
  <2>. QED  BY <1>1, <2>4, QuietHead, QuietPages, QuietHop DEF ScreenInv
<1>. QED  BY <1>8, <1>9

LEMMA LoadOlderStep ==
  ASSUME ScreenInv, LoadOlder, UNCHANGED theirs PROVE ScreenInv'
<1>1. /\ hop = None /\ NextCursor # Spent
      /\ hop' = [filter |-> filter, from |-> NextCursor,
                 tail |-> IF head.rows = {} THEN NoBoundary ELSE Oldest(head.rows),
                 deeper |-> pages.cursor # Unset, foreign |-> head.filter # filter, stale |-> FALSE]
      /\ UNCHANGED <<rows, filter, head, poll, pages, failed, spoilt, budget, theirs>>
  BY DEF LoadOlder
<1>2. /\ hop'.filter = filter /\ hop'.from = NextCursor /\ hop'.deeper = (pages.cursor # Unset)
      /\ hop'.tail = IF head.rows = {} THEN NoBoundary ELSE Oldest(head.rows)
      /\ hop'.foreign = (head.filter # filter) /\ hop'.stale = FALSE
  BY <1>1
<1>3. filter \in Filters /\ Len(rows) \in Nat /\ Rows' = Rows /\ Rows \subseteq Nat
  BY <1>1 DEF ScreenInv, Rows
<1>4. pages.cursor = Unset =>
        head.filter \in Filters /\ FirstPage(head, head.filter, head.asOf, head.torn)
  BY <1>1 DEF NextCursor, ScreenInv, HeadInv, NoHead
<1>5. NextCursor \in Rows
  <2>1. NextCursor \in 0 .. Len(rows)
    BY <1>4 DEF NextCursor, ScreenInv, PagesInv, FirstPage
  <2>. QED  BY <1>1, <1>3, <2>1 DEF Rows, Spent
<1>6. filter = NoFilter => head.filter # filter
  BY <1>1, <1>4 DEF NextCursor, ScreenInv, PagesInv, FirstPage
<1>7. ASSUME pages.cursor = Unset, head.filter = filter, head.rows # {}
      PROVE  /\ Oldest(head.rows) \in Rows /\ RepoOf[Oldest(head.rows)] = filter.repo
             /\ filter.status = "any" =>
                  \A r \in Visible(1 .. Oldest(head.rows) - 1) :
                    RepoOf[r] = filter.repo => r < NextCursor
  <2>1. FirstPage(head, filter, head.asOf, head.torn) /\ filter # NoFilter /\ NextCursor = head.cursor
    BY <1>4, <1>6, <1>7 DEF NextCursor
  <2>2. head.rows \in SUBSET Nat /\ head.rows \subseteq Rows /\ head.rows \subseteq 1 .. head.asOf
        /\ head.asOf \in Nat /\ head.cursor \in Nat
    BY <1>3, <2>1 DEF FirstPage
  <2>3. PICK t \in head.rows : t = Oldest(head.rows) /\ \A q \in head.rows : t <= q
    BY <1>7, <2>2, OldestIsFirst
  <2>4. RepoOf[t] = filter.repo
    BY <1>3, <2>1, MatchesRepo DEF FirstPage
  <2>5. ASSUME filter.status = "any", NEW r \in Visible(1 .. t - 1), RepoOf[r] = filter.repo
        PROVE  r < head.cursor
    <3>1. r \in Nat /\ r < t /\ t \in Nat /\ r \in Visible(1 .. head.asOf) /\ OfRepo(r, filter)
      BY <2>2, <2>5 DEF Visible, OfRepo
    <3>2. head.cursor <= r => r \in head.rows
      BY <2>1, <2>5, <3>1 DEF FirstPage
    <3>. QED  BY <2>2, <2>3, <3>1, <3>2
  <2>. QED  BY <2>1, <2>2, <2>3, <2>4, <2>5
<1>8. HopInv'
  <2>1. /\ hop'.filter \in Filters /\ hop'.from \in Rows' /\ (hop'.filter = NoFilter => hop'.foreign)
        /\ hop'.filter = filter'
        /\ IF hop'.deeper /\ ~hop'.stale THEN pages'.cursor = hop'.from ELSE pages'.cursor = Unset
    BY <1>1, <1>2, <1>3, <1>5, <1>6 DEF NextCursor
  <2>2. ASSUME ~hop'.foreign, ~hop'.deeper, hop'.tail # NoBoundary
        PROVE  /\ hop'.tail \in Rows' /\ RepoOf[hop'.tail] = hop'.filter.repo
               /\ hop'.filter.status = "any" =>
                    \A r \in Visible(1 .. hop'.tail - 1) :
                      RepoOf[r] = hop'.filter.repo => r < hop'.from
    <3>1. pages.cursor = Unset /\ head.filter = filter /\ head.rows # {}
          /\ hop'.tail = Oldest(head.rows)
      BY <1>2, <2>2
    <3>2. /\ Oldest(head.rows) \in Rows /\ RepoOf[Oldest(head.rows)] = filter.repo
          /\ filter.status = "any" =>
               \A r \in Visible(1 .. Oldest(head.rows) - 1) :
                 RepoOf[r] = filter.repo => r < NextCursor
      BY <1>7, <3>1
    <3>. QED  BY <1>2, <1>3, <3>1, <3>2
  <2>. QED  BY <1>1, <2>1, <2>2 DEF HopInv, Visible
<1>. QED  BY <1>1, <1>8, QuietPoll, QuietHead, QuietPages DEF ScreenInv

LEMMA LandHopStep ==
  ASSUME ScreenInv, LandHop, UNCHANGED theirs PROVE ScreenInv'
<1>1. /\ hop # None /\ hop' = None
      /\ IF hop.filter = filter THEN TakePage ELSE UNCHANGED <<pages, spoilt>>
      /\ UNCHANGED <<rows, filter, head, poll, theirs>>
  BY DEF LandHop
<1>2. HopInv'
  BY <1>1 DEF HopInv
<1>3. CASE hop.filter # filter
  BY <1>1, <1>2, <1>3, QuietPoll, QuietHead, QuietPages DEF ScreenInv
<1>4. CASE hop.filter = filter
  <2>1. /\ filter \in Filters /\ hop.from \in Rows /\ rows \in Seq(RowStatuses) /\ Len(rows) <= MaxRows
        /\ Rows \subseteq Nat /\ Len(rows) \in Nat /\ Rows' = Rows
    BY <1>1 DEF ScreenInv, HopInv, Rows
  <2>2. PICK page : page = ListRuns(filter, hop.from)
    OBVIOUS
  <2>3. /\ pages'.rows = pages.rows \union page.rows /\ pages'.cursor = page.cursor
        /\ pages'.seam = SeamAfterHop(pages.seam, hop.tail)
        /\ spoilt' = (spoilt \/ hop.foreign \/ (hop.stale /\ hop.deeper))
    BY <1>1, <1>4, <2>2 DEF TakePage
  <2>4. /\ page.rows \subseteq Rows /\ page.cursor \in {Spent} \union Rows
        /\ \A r \in page.rows : Matches(r, filter)
        /\ filter = NoFilter => page.cursor = Spent
        /\ filter # NoFilter => \A r \in Visible(Rows) :
             Matches(r, filter) /\ r < hop.from /\ page.cursor <= r => r \in page.rows
    <3>1. CASE filter = NoFilter
      <4>1. PICK found : found = UNION {StatusPage(s) \X {s} : s \in RowStatuses}
        OBVIOUS
      <4>2. PICK truncated : truncated = (\E s \in RowStatuses : Truncated(s))
        OBVIOUS
      <4>3. page = Merge(found, truncated) /\ truncated \in BOOLEAN
        BY <2>2, <3>1, <4>1, <4>2 DEF ListRuns
      <4>4. \A s \in RowStatuses : StatusPage(s) \subseteq Rows
        BY <2>1, StatusPageOf
      <4>5. found \in SUBSET (Rows \X RowStatuses)
        BY <4>1, <4>4
      <4>6. page.rows \subseteq Rows /\ page.cursor = Spent
        BY <2>1, <4>3, <4>5, Merged
      <4>7. \A r : Matches(r, filter)
        BY <3>1 DEF Matches, NoFilter
      <4>. QED  BY <3>1, <4>6, <4>7
    <3>2. CASE filter # NoFilter
      <4>1. page = CollectVisible(filter, hop.from) /\ filter.repo \in Repos
        BY <2>1, <2>2, <3>2, FilterFields DEF ListRuns
      <4>2. hop.from \in {Unset} \union Nat
        BY <2>1
      <4>3. /\ page.rows \subseteq Visible(Rows) /\ page.cursor \in {Spent} \union Rows
            /\ \A r \in page.rows : Matches(r, filter)
            /\ \A r \in Visible(Rows) :
                 Matches(r, filter) /\ Below(r, hop.from) /\ page.cursor <= r => r \in page.rows
        BY <2>1, <4>1, <4>2, Collected
      <4>. QED  BY <3>2, <4>3 DEF Visible, Below
    <3>. QED  BY <3>1, <3>2
  <2>5. /\ pages'.rows \subseteq Rows' /\ OlderBelongs' /\ pages'.cursor # Unset
        /\ pages'.cursor \in {Unset} \union (0 .. Len(rows'))
        /\ filter' = NoFilter => pages'.cursor \in {Unset, Spent}
        /\ pages'.seam.past
    <3>1. pages'.rows \subseteq Rows'
      BY <2>1, <2>3, <2>4 DEF ScreenInv, PagesInv
    <3>2. OlderBelongs'
      BY <1>1, <2>3, <2>4 DEF ScreenInv, PagesInv, OlderBelongs, Matches
    <3>3. pages'.cursor \in 0 .. Len(rows) /\ pages'.cursor # Unset
      BY <2>1, <2>3, <2>4 DEF Rows, Unset, Spent
    <3>4. pages'.seam.past
      BY <2>3 DEF SeamAfterHop
    <3>. QED  BY <1>1, <2>3, <2>4, <3>1, <3>2, <3>3, <3>4
  <2>6. ASSUME ~spoilt', pages'.seam.boundary # NoBoundary
        PROVE  /\ pages'.seam.boundary \in Rows /\ RepoOf[pages'.seam.boundary] = filter.repo
               /\ filter.status = "any" =>
                    \A r \in Visible(1 .. pages'.seam.boundary - 1) :
                      RepoOf[r] = filter.repo /\ pages'.cursor <= r => r \in pages'.rows
    <3>1. ~spoilt /\ ~hop.foreign /\ ~(hop.stale /\ hop.deeper) /\ filter # NoFilter
      BY <1>1, <1>4, <2>3, <2>6 DEF ScreenInv, HopInv
    <3>2. filter.status = "any" =>
            \A r \in Visible(Rows) :
              RepoOf[r] = filter.repo /\ r < hop.from /\ page.cursor <= r => r \in page.rows
      BY <2>1, <2>4, <3>1, MatchesRepo
    <3>3. ASSUME NEW b \in Rows, NEW r \in Visible(1 .. b - 1) PROVE r \in Visible(Rows) /\ r \in Nat
      <4>1. b \in Nat /\ b <= Len(rows) /\ r \in 1 .. b - 1 /\ r \notin theirs
        BY <2>1 DEF Visible, Rows
      <4>. QED  BY <2>1, <4>1 DEF Visible, Rows
    <3>4. CASE hop.deeper
      <4>1. pages.cursor = hop.from /\ pages.cursor # Unset
        BY <1>1, <2>1, <3>1, <3>4 DEF ScreenInv, HopInv, Unset
      <4>2. pages.seam.past /\ pages'.seam = pages.seam
        BY <2>3, <4>1 DEF ScreenInv, PagesInv, SeamAfterHop
      <4>3. /\ pages.seam.boundary \in Rows /\ RepoOf[pages.seam.boundary] = filter.repo
            /\ filter.status = "any" =>
                 \A r \in Visible(1 .. pages.seam.boundary - 1) :
                   RepoOf[r] = filter.repo /\ hop.from <= r => r \in pages.rows
        BY <2>6, <3>1, <4>1, <4>2 DEF ScreenInv, PagesInv
      <4>4. ASSUME filter.status = "any", NEW r \in Visible(1 .. pages.seam.boundary - 1),
                   RepoOf[r] = filter.repo, page.cursor <= r
            PROVE  r \in pages.rows \union page.rows
        <5>1. r \in Visible(Rows) /\ r \in Nat /\ hop.from \in Nat
          BY <2>1, <3>3, <4>3
        <5>2. CASE hop.from <= r
          BY <4>3, <4>4, <5>2
        <5>3. CASE r < hop.from
          BY <3>2, <4>4, <5>1, <5>3
        <5>. QED  BY <5>1, <5>2, <5>3
      <4>. QED  BY <2>3, <4>2, <4>3, <4>4
    <3>5. CASE ~hop.deeper
      <4>1. pages = NoPages
        BY <1>1, <3>5 DEF ScreenInv, HopInv, PagesInv
      <4>2. pages'.seam.boundary = hop.tail
        BY <2>3, <4>1 DEF NoPages, NoSeam, SeamAfterHop
      <4>3. /\ hop.tail \in Rows /\ RepoOf[hop.tail] = filter.repo
            /\ filter.status = "any" =>
                 \A r \in Visible(1 .. hop.tail - 1) : RepoOf[r] = filter.repo => r < hop.from
        BY <1>1, <1>4, <2>6, <3>1, <3>5, <4>2 DEF ScreenInv, HopInv
      <4>4. ASSUME filter.status = "any", NEW r \in Visible(1 .. hop.tail - 1),
                   RepoOf[r] = filter.repo, page.cursor <= r
            PROVE  r \in pages.rows \union page.rows
        BY <3>2, <3>3, <4>3, <4>4
      <4>. QED  BY <2>3, <4>2, <4>3, <4>4
    <3>. QED  BY <3>4, <3>5
  <2>7. filter = NoFilter => spoilt'
    BY <1>1, <1>4, <2>3 DEF ScreenInv, HopInv
  <2>8. PagesInv'
    <3>1. \A n : Visible(1 .. n)' = Visible(1 .. n)
      BY <1>1 DEF Visible
    <3>. QED  BY <1>1, <2>1, <2>5, <2>6, <2>7, <3>1 DEF PagesInv
  <2>. QED  BY <1>1, <1>2, <2>8, QuietPoll, QuietHead DEF ScreenInv
<1>. QED  BY <1>3, <1>4

LEMMA ScreenStart == ASSUME ScreenInit PROVE ScreenInv
<1>1. rows \in Seq(RowStatuses) /\ Len(rows) <= MaxRows
  BY StartsAssumption DEF ScreenInit
<1>2. filter \in Filters /\ HeadInv /\ PollInv /\ HopInv
  BY DEF ScreenInit, Filters, HeadInv, PollInv, HopInv
<1>3. PagesInv
  BY DEF ScreenInit, PagesInv, NoPages, OlderBelongs
<1>. QED  BY <1>1, <1>2, <1>3 DEF ScreenInv

LEMMA ScreenQuiet == ASSUME ScreenInv, UNCHANGED screenVars PROVE ScreenInv'
<1>1. UNCHANGED <<theirs, rows, filter, head, poll, pages, hop, failed, spoilt, budget>>
  BY DEF screenVars
<1>. QED  BY <1>1, QuietPoll, QuietHead, QuietPages, QuietHop DEF ScreenInv

LEMMA ScreenStepKeeps == ASSUME ScreenInv, ScreenNext PROVE ScreenInv'
<1>1. UNCHANGED theirs /\ ScreenStep
  BY DEF ScreenNext
<1>2. CASE JobQueued \/ (\E r \in Rows : JobMoves(r)) \/ (\E f \in Filters : ChangeFilter(f))
  BY <1>1, <1>2, JobQueuedStep, JobMovesStep, ChangeFilterStep
<1>3. CASE Tick \/ FailPoll \/ FailHop
  BY <1>1, <1>3, PollingStep
<1>4. CASE (\E s \in RowStatuses : ReadStatus(s)) \/ ReadRepo \/ LandPoll
  BY <1>1, <1>4, ReadStatusStep, ReadRepoStep, LandPollStep
<1>5. CASE LoadOlder \/ LandHop
  BY <1>1, <1>5, LoadOlderStep, LandHopStep
<1>. QED  BY <1>1, <1>2, <1>3, <1>4, <1>5 DEF ScreenStep

(* What an exact window holds.                                             *)
LEMMA ExactFollows == ASSUME ScreenInv PROVE ExactIsWhole
<1>. SUFFICES ASSUME Exact, ~spoilt, ~head.torn, NEW r \in Visible(1 .. head.asOf),
                     NEW w \in Window, RunOf[w] = RunOf[r]
              PROVE  r \in Window
  BY DEF ExactIsWhole
<1>1. /\ filter.status = "any" /\ NextCursor = Spent /\ HeadSeamIntact(pages.seam, head.rows)
      /\ head.complete /\ pages.complete
  BY DEF Exact, WindowComplete
<1>2. head.filter \in Filters /\ FirstPage(head, head.filter, head.asOf, head.torn)
  BY <1>1 DEF ScreenInv, HeadInv, NoHead
<1>3. /\ head.filter.status = "any" /\ head.rows \subseteq Rows /\ head.asOf \in 0 .. Len(rows)
      /\ head.cursor \in 0 .. Len(rows)
      /\ \A q \in head.rows : OfRepo(q, head.filter) /\ head.cursor <= q
      /\ \A q \in Visible(1 .. head.asOf) :
           OfRepo(q, head.filter) /\ head.cursor <= q => q \in head.rows
  BY <1>1, <1>2 DEF FirstPage
<1>4. /\ Len(rows) \in Nat /\ Rows \subseteq 1 .. MaxRows /\ filter \in Filters
      /\ pages.rows \subseteq Rows /\ MaxRows \in Nat
  BY ScreenAssumption DEF ScreenInv, Rows, PagesInv
<1>5. r \in Rows /\ r \in Nat /\ 1 <= r
  BY <1>3, <1>4 DEF Visible, Rows
<1>6. w \in Rows /\ RepoOf[w] = RepoOf[r]
  <2>1. w \in Rows
    BY <1>3, <1>4 DEF Window
  <2>. QED  BY <1>4, <1>5, <2>1, ScreenAssumption
<1>7. CASE pages.cursor = Unset
  <2>1. head.cursor = Spent /\ pages = NoPages
    BY <1>1, <1>7 DEF NextCursor, ScreenInv, PagesInv
  <2>2. w \in head.rows
    BY <2>1 DEF Window, NoPages
  <2>3. OfRepo(r, head.filter)
    BY <1>3, <1>6, <2>2 DEF OfRepo
  <2>4. r \in head.rows
    BY <1>3, <1>5, <2>1, <2>3 DEF Spent
  <2>. QED  BY <2>4 DEF Window
<1>8. CASE pages.cursor # Unset
  <2>1. pages.cursor = Spent /\ filter # NoFilter
    BY <1>1, <1>8 DEF NextCursor, ScreenInv, PagesInv
  <2>2. pages.seam.boundary # NoBoundary /\ pages.seam.boundary \in head.rows
    BY <1>1, <1>8 DEF HeadSeamIntact, ScreenInv, PagesInv
  <2>3. /\ RepoOf[pages.seam.boundary] = filter.repo
        /\ \A q \in Visible(1 .. pages.seam.boundary - 1) :
             RepoOf[q] = filter.repo /\ pages.cursor <= q => q \in pages.rows
    BY <1>1, <1>8, <2>2 DEF ScreenInv, PagesInv
  <2>4. CASE head.filter = NoFilter
    <3>1. head.cursor = Spent /\ OfRepo(r, head.filter)
      BY <1>2, <2>4, MatchesRepo DEF FirstPage
    <3>2. r \in head.rows
      BY <1>3, <1>5, <3>1 DEF Spent
    <3>. QED  BY <3>2 DEF Window
  <2>5. CASE head.filter # NoFilter
    <3>1. head.filter.repo = filter.repo
      BY <1>2, <1>3, <2>2, <2>3, <2>5, MatchesRepo
    <3>2. RepoOf[w] = filter.repo
      <4>1. CASE w \in head.rows
        BY <1>2, <1>3, <2>5, <3>1, <4>1, MatchesRepo
      <4>2. CASE w \in pages.rows
        <5>1. Matches(w, filter)
          BY <4>2 DEF ScreenInv, PagesInv, OlderBelongs
        <5>. QED  BY <1>4, <2>1, <5>1, MatchesRepo
      <4>. QED  BY <4>1, <4>2 DEF Window
    <3>3. RepoOf[r] = filter.repo /\ OfRepo(r, head.filter)
      BY <1>6, <3>1, <3>2 DEF OfRepo
    <3>4. pages.seam.boundary \in Nat /\ head.cursor <= pages.seam.boundary /\ head.cursor \in Nat
      <4>1. pages.seam.boundary \in Rows
        BY <1>3, <2>2
      <4>2. head.cursor \in 0 .. Len(rows) /\ Len(rows) \in Nat /\ pages.seam.boundary \in 1 .. MaxRows
        BY <1>3, <1>4, <4>1
      <4>3. head.cursor \in Nat
        BY <4>2
      <4>4. pages.seam.boundary \in Nat
        BY <4>2
      <4>. QED  BY <1>3, <2>2, <4>3, <4>4
    <3>5. CASE r < pages.seam.boundary
      <4>1. r \in Visible(1 .. pages.seam.boundary - 1)
        BY <1>5, <3>4, <3>5 DEF Visible
      <4>2. r \in pages.rows
        BY <1>5, <2>1, <2>3, <3>3, <4>1 DEF Spent
      <4>. QED  BY <4>2 DEF Window
    <3>6. CASE ~(r < pages.seam.boundary)
      <4>1. head.cursor <= r
        BY <1>5, <3>4, <3>6
      <4>2. r \in head.rows
        BY <1>3, <3>3, <4>1
      <4>. QED  BY <4>2 DEF Window
    <3>. QED  BY <3>5, <3>6
  <2>. QED  BY <2>4, <2>5
<1>. QED  BY <1>7, <1>8

LEMMA ScreenAlways == Spec => []ScreenInv
<1>1. Init => ScreenInv
  BY ScreenStart DEF Init
<1>2. ScreenInv /\ [Next]_vars => ScreenInv'
  BY ScreenStepKeeps, ScreenQuiet DEF Next, vars
<1>. QED  BY <1>1, <1>2, PTL DEF Spec

(* A window that calls its runs exact has every visible job of the runs it *)
(* shows, for any table and page sizes (Runs.tsx, windowComplete).         *)
THEOREM ExactWhole == Spec => []ExactIsWhole
<1>1. ScreenInv => ExactIsWhole
  BY ExactFollows
<1>. QED  BY ScreenAlways, <1>1, PTL

(* No older page of another filter enters the window (Runs.tsx, loadOlder).*)
THEOREM OlderMatch == Spec => []OlderBelongs
<1>1. ScreenInv => OlderBelongs
  BY DEF ScreenInv, PagesInv
<1>. QED  BY ScreenAlways, <1>1, PTL

-----------------------------------------------------------------------------
(* The previews: how far they agree with Ingest.                           *)

(* Ingest needs a label of the job in the list it works with; the custom   *)
(* labels it adds are the same whatever the list.                          *)
LEMMA AddedLabels ==
  ASSUME NEW labels, NEW claimed, NEW custom
  PROVE  LET added == IF \E l \in labels : IsCustomFlavorLabel(l)
                      THEN {f.label : f \in custom} ELSE {}
         IN  ClaimLabelsWithCustom(labels, claimed, custom) = claimed \union added
  BY DEF ClaimLabelsWithCustom

LEMMA TakesMeans ==
  ASSUME NEW job, NEW claimed, NEW custom, NEW mode
  PROVE  Takes(job, claimed, custom, mode) <=>
           /\ ~IncompatibleRunnerLabel(job.labels)
           /\ ~UnreachableRunnerGroup(job.group)
           /\ job.eligible
           /\ \/ job.labels \intersect ClaimLabelsWithCustom(job.labels, claimed, custom) # {}
              \/ mode = "adopt" /\ job.labels \intersect AdoptLabels # {}
<1>1. PostClaimGate({job}) = "pass" <=> ~UnreachableRunnerGroup(job.group) /\ job.eligible
  BY DEF PostClaimGate
<1>2. DecideClaim(job.labels, ClaimLabelsWithCustom(job.labels, claimed, custom), mode)
        # NotClaimed
      <=> /\ ~IncompatibleRunnerLabel(job.labels)
          /\ \/ job.labels \intersect ClaimLabelsWithCustom(job.labels, claimed, custom) # {}
             \/ mode = "adopt" /\ job.labels \intersect AdoptLabels # {}
  BY DEF DecideClaim, NotClaimed
<1>. QED  BY <1>1, <1>2 DEF Takes

(* No job that a change of the claim list takes from us, or gives to us,   *)
(* is missing from the impact the operator is shown (buildLabelImpact      *)
(* against decideClaim and the gates after it), in whatever mode its       *)
(* repository is and whatever custom flavors are registered.               *)
THEOREM NoMoveMissed ==
  ASSUME NEW jobs, NEW job \in jobs, NEW current, NEW proposed, NEW custom, NEW mode
  PROVE  /\ Takes(job, current, custom, mode) /\ ~Takes(job, proposed, custom, mode)
              => job \in Losing(jobs, current, proposed)
         /\ ~Takes(job, current, custom, mode) /\ Takes(job, proposed, custom, mode)
              => job \in Gaining(jobs, current, proposed)
<1>1. ASSUME NEW from, NEW to,
             Takes(job, from, custom, mode), ~Takes(job, to, custom, mode)
      PROVE  job \in Losing(jobs, from, to)
  <2> DEFINE added == IF \E l \in job.labels : IsCustomFlavorLabel(l)
                      THEN {f.label : f \in custom} ELSE {}
  <2>1. /\ ClaimLabelsWithCustom(job.labels, from, custom) = from \union added
        /\ ClaimLabelsWithCustom(job.labels, to, custom) = to \union added
    BY AddedLabels
  <2> HIDE DEF added
  <2>2. job.eligible /\ job.labels \intersect (from \union added) # {}
                     /\ job.labels \intersect (to \union added) = {}
    BY <1>1, <2>1, TakesMeans
  <2>3. job.labels \intersect from # {} /\ job.labels \intersect to = {}
    BY <2>2
  <2>. QED  BY <2>2, <2>3 DEF Losing, PreviewClaims
<1>. QED  BY <1>1 DEF Gaining

(* The other way the impact holds where nothing but the list decides: the  *)
(* job asks for nothing we never run, its repository hands over no label   *)
(* of it, and it names no custom flavor.                                   *)
THEOREM ListedMoves ==
  ASSUME NEW jobs, NEW current, NEW proposed, NEW custom, NEW mode,
         NEW job \in Losing(jobs, current, proposed),
         ~IncompatibleRunnerLabel(job.labels), ~UnreachableRunnerGroup(job.group),
         mode # "adopt" \/ job.labels \intersect AdoptLabels = {},
         \A l \in job.labels : ~IsCustomFlavorLabel(l)
  PROVE  Takes(job, current, custom, mode) /\ ~Takes(job, proposed, custom, mode)
<1>1. job.eligible /\ job.labels \intersect current # {} /\ job.labels \intersect proposed = {}
  BY DEF Losing, PreviewClaims
<1>2. /\ ClaimLabelsWithCustom(job.labels, current, custom) = current
      /\ ClaimLabelsWithCustom(job.labels, proposed, custom) = proposed
  BY DEF ClaimLabelsWithCustom
<1>. QED  BY <1>1, <1>2, TakesMeans

(* The jobs a repository's switch to adopt mode hands over are exactly the *)
(* badged ones that compatibility does not block, as long as the claim     *)
(* list has every built-in label and none that adopt mode takes, and no    *)
(* custom flavor is named (adoptCandidate against decideClaim).            *)
THEOREM BadgeIsTheSwitch ==
  ASSUME NEW job, NEW claimed, NEW custom,
         BuiltinLabels \subseteq claimed,
         job.labels \intersect claimed \subseteq BuiltinLabels,
         \A l \in job.labels : ~IsCustomFlavorLabel(l)
  PROVE  AdoptCandidate(job) /\ job.eligible <=>
         Takes(job, claimed, custom, "adopt") /\ ~Takes(job, claimed, custom, "label")
<1>1. ClaimLabelsWithCustom(job.labels, claimed, custom) = claimed
  BY DEF ClaimLabelsWithCustom
<1>2. job.labels \intersect claimed # {} <=> job.labels \intersect BuiltinLabels # {}
  OBVIOUS
<1>3. "label" # "adopt"
  OBVIOUS
<1>. QED  BY <1>1, <1>2, <1>3, TakesMeans DEF AdoptCandidate

=============================================================================
