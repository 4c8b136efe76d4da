--------------------------- MODULE MCConsoleReads ---------------------------
(* Rows of repository a but the third, which is b's.  The screen starts    *)
(* with a long history, with one whose middle belongs to another           *)
(* installation, or with one that fits a merged page.  Reports: two        *)
(* installations that both list a; indexes that end inside, at and past a  *)
(* page, and past the page budget.                                         *)
EXTENDS ConsoleReads, ReportRules

MCRepoOf == [n \in 1 .. MaxRows |-> IF n = 3 THEN "b" ELSE "a"]
MCRunOf  == [n \in 1 .. MaxRows |-> IF n = 3 THEN 2 ELSE 1]

History(n, failing) == [r \in 1 .. n |-> IF r \in failing THEN "failed" ELSE "running"]

MCStarts == {[rows |-> History(7, {7}), theirs |-> {}],
             [rows |-> History(6, {6}), theirs |-> {1, 2, 4}],
             [rows |-> History(2, {1}), theirs |-> {}]}

Index(newer, inside, older) == [newer |-> newer, inside |-> inside, older |-> older]

Indexes == {[a |-> Index(1, 2, 1), b |-> Index(0, 0, 2)],
            [a |-> Index(0, 2, 0), b |-> Index(0, 2, 1)],
            [a |-> Index(0, 5, 0), b |-> Index(0, 2, 1)],
            [a |-> Index(4, 3, 0), b |-> Index(0, 1, 0)]}

MCRequests ==
  [granted : {{}, {1}, {1, 2}}, listed : {{<<1, "a">>, <<2, "a">>, <<2, "b">>}},
   wanted : {{}, {"b"}}, kind : {"report", "export"}, index : Indexes]

-----------------------------------------------------------------------------
(* The figures, over every row of a small table.                           *)

Now  == 10
Rate == [small |-> 1, large |-> 3]
Day  == [preset |-> "24h", from |-> 0, to |-> DayMinutes]

(* A flavor that left the catalog, a lost stamp, a watermark before the    *)
(* row's creation, a last transition before the watermark.                 *)
Row(id, f, s, v, c, r, u) ==
  [id |-> id, repo |-> "a", installation |-> 1, workflow |-> None, flavor |-> f,
   status |-> s, vm |-> v, created |-> c, running |-> r, updated |-> u]

RowsOf(id) ==
  {Row(id, f, s, v, c, r, u) :
     f \in {None, "small", "gone"}, s \in {"queued", "running", "completed", "failed"},
     v \in {None, "vm"}, c \in {1, 4}, r \in {None, 2, 6}, u \in {0, 5, 8}}

FewRows(id) ==
  {r \in RowsOf(id) : r.created = 1 /\ r.updated = 5 /\ r.running \in {None, 2, 6}
                      /\ r.status # "queued" /\ (r.status = "running" => r.vm = None)}

Tables == {{r} : r \in RowsOf(1)} \union {{p, q} : p \in FewRows(1), q \in FewRows(2)}

Report(table, m, d) == ComputeReport(table, m, d, Day, Rate, Now)

(* Run detail, the dashboard, a report and its export say the same of the  *)
(* same rows, however the report is grouped.                               *)
ASSUME FiguresAgree ==
  \A table \in Tables :
    LET exported == {ToExportRow(r, Rate, Now) : r \in table}
        minutes  == MapThenSumSet(LAMBDA e : e.billable, exported)
        money    == MapThenSumSet(LAMBDA e : e.cost, exported)
    IN  /\ \A d \in Dimensions : /\ Report(table, "billableMinutes", d).total = minutes
                                 /\ Report(table, "spend", d).total = money
                                 /\ Report(table, "runCount", d).total = Cardinality(table)
        /\ SummarizeCost(table, Rate, Now).all.cost = money
        /\ \A r \in table : ToRunView(r, Rate, Now).cost # None
                            => ToRunView(r, Rate, Now).cost = ToExportRow(r, Rate, Now).cost

(* Coverage is a share; a point of a percentile is the span of a row, and  *)
(* its p50 is not above its p90.                                           *)
ASSUME CoverageIsAShare ==
  \A table \in Tables, m \in Metrics :
    LET report == Report(table, m, "none")
    IN  /\ report.measured <= report.sample /\ report.sample <= report.rowCount
        /\ m \in {"duration", "queueLatency"} =>
             \A k \in DOMAIN report.points :
               /\ report.points[k][1] <= report.points[k][2]
               /\ \A i \in 1 .. 2 : \E r \in table : SpanOf(m, r) = report.points[k][i]

(* The assistant's and the picker's default is one the validator accepts,  *)
(* and what it accepts lies within retention.                              *)
Wishes == [preset : {None} \union ToSet(RangePresets), from : {None, 0, 2000, 43300},
           to : {None, 1440, 43200, 44000},
           filters : [repos : {{}}, flavors : {{}, {"small"}, {"gone"}}, statuses : {{}, {"failed"}}]]

Resolve(wish, max, now) == ValidateReportSpec(wish, DOMAIN Rate, max, now)
Unfiltered == [repos |-> {}, flavors |-> {}, statuses |-> {}]

ASSUME DefaultIsServable ==
  \A days \in {None, 0, 1, 6, 7, 29, 30, 90} :
    LET max  == MaxRangeDays(days)
        wish == [preset |-> DefaultPreset(AvailablePresets(max)), from |-> None, to |-> None,
                 filters |-> Unfiltered]
    IN  Resolve(wish, max, 44640) # None

ASSUME WindowWithinRetention ==
  \A wish \in Wishes, max \in {1, 7, 30} :
    LET w == Resolve(wish, max, 44640)
    IN  w # None => w.from < w.to /\ w.from >= 44640 - max * DayMinutes

(* A link to a preset never expires; one to an explicit window does, and   *)
(* is refused, when its start passes the horizon.                          *)
ASSUME PinnedLinks ==
  \A wish \in Wishes, max \in {1, 7, 30}, later \in {0, 1, 60000} :
    LET w == Resolve(wish, max, 44640)
        r == Resolve(SpecToQuery(w, wish.filters), max, 44640 + later)
    IN  w # None =>
          IF w.preset # None THEN r # None /\ r.preset = w.preset
          ELSE r = IF w.from >= 44640 + later - max * DayMinutes THEN w ELSE None

(* An export carries the longest prefix that fits, and calls itself        *)
(* complete only with every row.                                           *)
ASSUME ExportIsTight ==
  \A n \in 0 .. 9, cap \in {4, 9}, most \in -1 .. 9 :
    LET fits == [k \in 0 .. 9 |-> k <= most]
        body == BoundExportRows(n, cap, fits)
    IN  /\ body.complete <=> body.rows = n /\ fits[n]
        /\ most >= 0 => body.rows = Min({n, cap, most})

(* What a window says of a run: a bound where it is marked as one, and the *)
(* figure of the whole run where it is stated as a fact.                   *)
JobsOf(id) == {[run |-> 1, id |-> id, status |-> s, flavor |-> f, created |-> c, updated |-> u] :
                 s \in Statuses, f \in {None, "small", "large"}, c \in {1, 4}, u \in {3, 5}}

ASSUME LabelsAreTrue ==
  \A seen \in JobsOf(1), other \in JobsOf(2) :
    \A window \in {{seen}, {seen, other}} :
      LET whole == {seen, other}
      IN  \A g \in GroupRuns(window, window = whole) :
            /\ FlavorLabel(g.jobs, g.partial) \in {"these", "this one"}
                 => DistinctFlavors(g.jobs) = DistinctFlavors(whole)
            /\ DistinctFlavors(g.jobs) \subseteq DistinctFlavors(whole)
            /\ IF DurationLabel(WallClock(g.jobs), g.partial) = "fact" /\ WallClock(g.jobs) > 0
               THEN WallClock(g.jobs) = WallClock(whole) ELSE WallClock(g.jobs) <= WallClock(whole)
            /\ IF StartedAtLabel(g.partial) = "fact"
               THEN StartedAt(g.jobs) = StartedAt(whole) ELSE StartedAt(g.jobs) >= StartedAt(whole)
            /\ JobTime(g.jobs) <= JobTime(whole)
            /\ FoldRank(FoldRunStatus({j.status : j \in whole}))
                 <= FoldRank(FoldRunStatus({j.status : j \in g.jobs}))

(* The dashboard's money is of the caller's rows alone, and its counts are *)
(* exact only when every status was counted to the end.                    *)
ASSUME DashboardScope ==
  \A granted \in SUBSET {1, 2}, most \in {1, 2, 3}, r \in FewRows(1), q \in FewRows(2) :
    LET pair == {r, [q EXCEPT !.installation = 2]}
        held == [s \in Statuses |-> {x \in pair : x.status = s}]
        view == HealthRoute(granted, held, held, most, None, Rate, Now)
        own  == {x \in pair : x.installation \in granted /\ x.status \in Terminal}
    IN  IF granted = {} THEN view = None
        ELSE /\ view.health.cost.all.cost = Report(own, "spend", "none").total
             /\ view.exact <=> \A s \in Statuses : Cardinality(held[s]) < most
             /\ view.unclaimed = None

=============================================================================
