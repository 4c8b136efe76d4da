---------------------------- MODULE ReportRules -----------------------------
(***************************************************************************)
(* The rules of the management API's figures (src/mgmt/reports.ts and      *)
(* src/mgmt/views.ts): what window a report may cover, what a row adds to  *)
(* a metric, and what an export and the dashboard carry.                   *)
(*                                                                         *)
(* A run row is [id, repo, installation, workflow, status, flavor, vm,     *)
(* created, running, updated]; times are minutes, and what is missing is   *)
(* None.  rate maps the flavors of the catalog to a whole price a minute;  *)
(* rounding is left out, and a ratio is a pair.                            *)
(***************************************************************************)
EXTENDS RollupRules, Sequences, FiniteSetsExt, SequencesExt

-----------------------------------------------------------------------------
(* The window.                                                             *)

DayMinutes == 1440
DefaultMaxRangeDays == 90

(* The retention of the environment; a value that is not one falls back.   *)
MaxRangeDays(configured) ==
  IF configured \in Nat \ {0} THEN configured ELSE DefaultMaxRangeDays

RangePresets == <<"24h", "7d", "30d", "90d">>
PresetDays   == [p \in ToSet(RangePresets) |->
                   CASE p = "24h" -> 1 [] p = "7d" -> 7 [] p = "30d" -> 30 [] p = "90d" -> 90]

(* Narrowest first; never none.                                            *)
AvailablePresets(max) ==
  LET allowed == SelectSeq(RangePresets, LAMBDA p : PresetDays[p] <= max)
  IN  IF allowed = <<>> THEN <<RangePresets[1]>> ELSE allowed

DefaultPreset(presets) == IF "7d" \in ToSet(presets) THEN "7d" ELSE presets[Len(presets)]

PresetWindow(p, now) == [preset |-> p, from |-> now - PresetDays[p] * DayMinutes, to |-> now]

(* An explicit window: ordered, no wider than retention, and no older.     *)
Kept(spec, max, now) ==
  /\ spec.from # None /\ spec.to # None
  /\ spec.from < spec.to
  /\ spec.to - spec.from <= max * DayMinutes
  /\ spec.from >= now - max * DayMinutes

MaxFilterValues == 50

ValidFilters(filters, catalog) ==
  /\ Cardinality(filters.repos) <= MaxFilterValues
  /\ Cardinality(filters.flavors) <= MaxFilterValues /\ filters.flavors \subseteq catalog
  /\ filters.statuses \subseteq Statuses

(* The window a spec resolves to, or a refusal: nothing is clamped to what *)
(* retention can serve.  An explicit pair wins over a preset sent with it. *)
ValidateReportSpec(spec, catalog, max, now) ==
  LET presets  == AvailablePresets(max)
      explicit == spec.from # None \/ spec.to # None
      servable == spec.preset # None => spec.preset \in ToSet(presets)
  IN  IF ~servable \/ ~ValidFilters(spec.filters, catalog) \/ (explicit /\ ~Kept(spec, max, now))
      THEN None
      ELSE IF explicit THEN [preset |-> None, from |-> spec.from, to |-> spec.to]
      ELSE PresetWindow(IF spec.preset # None THEN spec.preset ELSE DefaultPreset(presets), now)

(* The link a report is pinned by: a preset stays a preset.                *)
SpecToQuery(w, filters) ==
  [preset |-> w.preset, filters |-> filters,
   from |-> IF w.preset # None THEN None ELSE w.from,
   to   |-> IF w.preset # None THEN None ELSE w.to]

TimeBucket(w) == IF w.to - w.from <= 3 * DayMinutes THEN "hour" ELSE "day"

-----------------------------------------------------------------------------
(* One row.                                                                *)

Terminal == {"completed", "failed", "timed_out"}
Bad      == {"failed", "timed_out"}
Active   == Statuses \ Terminal

(* Evidence that a microVM ran: its id, whose stamp may have been lost, or *)
(* a status that only a launch leads to.                                   *)
HasRunMicrovm(run) == run.vm # None \/ run.status \in {"running", "completed"}

(* Money needs a rate as well.                                             *)
IsCostEligible(run, rate) == run.flavor \in DOMAIN rate /\ HasRunMicrovm(run)

DurationOf(run) == IF run.updated < run.created THEN 0 ELSE run.updated - run.created

(* From the running watermark, or from the queue; to the last transition,  *)
(* or to now.  A clock that runs backwards measures nothing.               *)
Billable(run, now) ==
  LET measured == run.running # None
      start    == IF measured THEN run.running ELSE run.created
      end      == IF run.status \in Terminal THEN run.updated ELSE now
  IN  IF end < start THEN [minutes |-> DurationOf(run), basis |-> "wallClock"]
      ELSE [minutes |-> end - start, basis |-> IF measured THEN "measured" ELSE "wallClock"]

(* Summed over a run's jobs, as the Runs screen shows on expansion.        *)
JobTime(runs) == MapThenSumSet(DurationOf, runs)

JobCost(run, rate, now) ==
  IF IsCostEligible(run, rate) THEN Billable(run, now).minutes * rate[run.flavor] ELSE 0

EstimateCost(run, rate, now) ==
  IF IsCostEligible(run, rate) THEN Billable(run, now).minutes * rate[run.flavor] ELSE None

ToRunView(run, rate, now) ==
  [duration |-> DurationOf(run),
   cost     |-> EstimateCost(run, rate, now),
   basis    |-> IF HasRunMicrovm(run) THEN Billable(run, now).basis ELSE None,
   billable |-> IF HasRunMicrovm(run) THEN Billable(run, now).minutes ELSE 0]

ToExportRow(run, rate, now) ==
  [id       |-> run.id,
   cost     |-> JobCost(run, rate, now),
   basis    |-> IF HasRunMicrovm(run) THEN Billable(run, now).basis ELSE None,
   billable |-> IF HasRunMicrovm(run) THEN Billable(run, now).minutes ELSE 0]

(* None where a span cannot be measured.                                   *)
MeasuredSpan(start, end) == IF start = None THEN None ELSE IF end < start THEN None ELSE end - start

-----------------------------------------------------------------------------
(* A report.                                                               *)

ApplyFilters(runs, filters, w) ==
  {r \in runs : /\ w.from <= r.created /\ r.created < w.to
                /\ filters.flavors # {} => r.flavor \in filters.flavors
                /\ filters.statuses # {} => r.status \in filters.statuses}

Dimensions == {"repo", "flavor", "workflow", "status", "time", "none"}

(* A workflow's name is a tenant's: a missing one has a key no name has.   *)
GroupKey(run, dimension, w) ==
  CASE dimension = "repo"     -> <<"repo", run.repo>>
    [] dimension = "flavor"   -> <<"flavor", run.flavor>>
    [] dimension = "workflow" -> <<"workflow", run.workflow>>
    [] dimension = "status"   -> <<"status", run.status>>
    [] dimension = "time"     ->
         <<"time", run.created \div (IF TimeBucket(w) = "hour" THEN 60 ELSE DayMinutes)>>
    [] dimension = "none"     -> <<"all">>

Additive == {"spend", "billableMinutes", "runCount"}
Metrics  == Additive \union {"duration", "failureRate", "queueLatency"}

SpanOf(metric, run) ==
  IF metric = "duration"
    THEN IF run.status \in Terminal THEN MeasuredSpan(run.created, run.updated) ELSE None
    ELSE IF run.running = None THEN None ELSE MeasuredSpan(run.created, run.running)

(* The rows a metric can say something of.                                 *)
Sampled(runs, metric, rate) ==
  CASE metric = "spend"           -> {r \in runs : IsCostEligible(r, rate)}
    [] metric = "billableMinutes" -> {r \in runs : HasRunMicrovm(r)}
    [] metric = "runCount"        -> runs
    [] metric = "failureRate"     -> {r \in runs : r.status \in Terminal}
    [] OTHER                      -> {r \in runs : SpanOf(metric, r) # None}

(* Nearest rank: always the span of a row.                                 *)
Percentile(metric, runs, p) ==
  Min({SpanOf(metric, r) : r \in
         {r \in runs : 100 * Cardinality({s \in runs : SpanOf(metric, s) <= SpanOf(metric, r)})
                         >= p * Cardinality(runs)}})

PointValue(metric, runs, rate, now) ==
  CASE metric = "spend"           -> MapThenSumSet(LAMBDA r : JobCost(r, rate, now), runs)
    [] metric = "billableMinutes" -> MapThenSumSet(LAMBDA r : Billable(r, now).minutes, runs)
    [] metric = "runCount"        -> Cardinality(runs)
    [] metric = "failureRate"     -> <<Cardinality({r \in runs : r.status \in Bad}), Cardinality(runs)>>
    [] OTHER                      -> <<Percentile(metric, runs, 50), Percentile(metric, runs, 90)>>

(* A group with nothing to measure has a bar of its own only where a zero  *)
(* means something.  Coverage: of what a metric of money or minutes could  *)
(* measure, the rows it measured; otherwise of all rows, those it sampled. *)
ComputeReport(runs, metric, dimension, w, rate, now) ==
  LET group(key) == {r \in runs : GroupKey(r, dimension, w) = key}
      sampled    == Sampled(runs, metric, rate)
      timed      == metric \in {"spend", "billableMinutes"}
      keys       == {GroupKey(r, dimension, w) :
                       r \in IF metric \in Additive THEN runs ELSE sampled}
      point(key) == PointValue(metric, group(key) \intersect sampled, rate, now)
  IN  [points   |-> [key \in keys |-> point(key)],
       total    |-> IF metric \in Additive THEN MapThenSumSet(point, keys) ELSE None,
       rowCount |-> Cardinality(runs),
       measured |-> Cardinality(IF timed THEN {r \in sampled : Billable(r, now).basis = "measured"}
                                ELSE sampled),
       sample   |-> Cardinality(IF timed THEN sampled ELSE runs)]

(* The rows of an export: at most cap, and of those the longest prefix     *)
(* whose body fits, found by bisection.  fits[k] says that k rows fit.     *)
BoundExportRows(n, cap, fits) ==
  LET capped == IF n > cap THEN cap ELSE n
      Bisect[lo \in 0 .. capped, hi \in 0 .. capped] ==
        IF lo >= hi THEN lo
        ELSE LET mid == (lo + hi + 1) \div 2
             IN  IF fits[mid] THEN Bisect[mid, hi] ELSE Bisect[lo, mid - 1]
  IN  IF fits[capped] THEN [rows |-> capped, complete |-> capped = n]
      ELSE [rows |-> IF capped = 0 THEN 0 ELSE Bisect[0, capped - 1], complete |-> FALSE]

-----------------------------------------------------------------------------
(* The dashboard.                                                          *)

SummarizeCost(runs, rate, now) ==
  LET priced == {r \in runs : EstimateCost(r, rate, now) # None}
      fold(rs) == [jobs |-> Cardinality(rs),
                   cost |-> MapThenSumSet(LAMBDA r : EstimateCost(r, rate, now), rs)]
  IN  [all      |-> fold(priced),
       byFlavor |-> [f \in {r.flavor : r \in priced} |-> fold({r \in priced : r.flavor = f})]]

StuckAfterMinutes == 15

(* A count that ran out of pages is a floor.                               *)
Counted(n, budget) == [count |-> IF n < budget THEN n ELSE budget, exact |-> n < budget]

BuildHealth(counts, active, costRuns, rate, now) ==
  [active    |-> SumFunctionOnSet(counts, Active),
   errorRate |-> <<SumFunctionOnSet(counts, Bad), SumFunctionOnSet(counts, Terminal)>>,
   stuck     |-> {[id |-> r.id, view |-> ToRunView(r, rate, now)] :
                    r \in {r \in active : now - r.created > StuckAfterMinutes}},
   cost      |-> SummarizeCost(costRuns, rate, now)]

(* The counts are of the platform, the rows of the caller's installations; *)
(* held maps a status to the rows of its index, page to those one query    *)
(* reads.  A count of refusals that failed is left out, never zero.        *)
HealthRoute(granted, held, page, budget, refusals, rate, now) ==
  LET counted == [s \in Statuses |-> Counted(Cardinality(held[s]), budget)]
      mine(ss) == {r \in UNION {page[s] : s \in ss} : r.installation \in granted}
  IN  IF granted = {} THEN None
      ELSE [health    |-> BuildHealth([s \in Statuses |-> counted[s].count],
                                      mine(Active), mine(Terminal), rate, now),
            exact     |-> \A s \in Statuses : counted[s].exact,
            unclaimed |-> refusals]

=============================================================================
