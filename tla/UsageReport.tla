---------------------------- MODULE UsageReport ----------------------------
(***************************************************************************)
(* UsageCollector (src/src/observability/usage.rs) for one module: records *)
(* in hourly buckets, both bounded, and the windows and trends read from   *)
(* them; and the report of system.usage.module (sys_modules/usage.rs),     *)
(* which takes the collector's lock and the time anew for each of its four *)
(* parts.  Time is counted in ticks, several to the hour.  A latency is    *)
(* left out of a record: means and percentiles are not told apart here.    *)
(***************************************************************************)
EXTENDS Integers, Sequences, FiniteSets, SequencesExt, FiniteSetsExt, TLC

CONSTANTS
  Kinds,          \* what is recorded: [caller, ok], the caller may be Nothing
  TicksPerHour, LastTick,
  MaxPerBucket,   \* MAX_RECORDS_PER_BUCKET
  MaxBuckets,     \* MAX_BUCKETS_PER_MODULE
  HoursShown,     \* the 24 hours of the distribution
  Periods,        \* the periods asked for
  MaxHistory,     \* how many records are made at most
  Nothing

VARIABLES
  buckets,        \* ModuleData.records: hour -> records in order of arrival
  history,        \* every record since the last reset
  ticks,          \* the time
  report          \* a report that is asked for, in the end what it says

vars == <<buckets, history, ticks, report>>

Hour(t) == t \div TicksPerHour

Init ==
  /\ buckets = <<>> /\ history = <<>> /\ ticks = 0
  /\ report = [at |-> "none", calm |-> TRUE]

(* Something changes while a report is made.                               *)
Stir == report' = [report EXCEPT !.calm = @ /\ report.at = "none"]

Latest(s, n) == SubSeq(s, (IF Len(s) > n THEN Len(s) - n ELSE 0) + 1, Len(s))

(* evict_old_buckets: the smallest keys go, the one just filled too.       *)
EvictOldBuckets(data) ==
  IF Cardinality(DOMAIN data) <= MaxBuckets THEN data
  ELSE [h \in {h \in DOMAIN data : Cardinality({k \in DOMAIN data : k > h}) < MaxBuckets} |-> data[h]]

RecordAt(time, kind) ==
  LET new == [time |-> time, caller |-> kind.caller, ok |-> kind.ok]
      hour == Hour(time)
      kept == IF hour \in DOMAIN buckets THEN buckets[hour] ELSE <<>>
      filled == [h \in DOMAIN buckets \cup {hour} |->
                   IF h = hour THEN Latest(Append(kept, new), MaxPerBucket) ELSE buckets[h]]
  IN
  /\ report.at # "made"
  /\ Len(history) < MaxHistory /\ history' = Append(history, new)
  /\ buckets' = EvictOldBuckets(filled)
  /\ Stir /\ UNCHANGED ticks

Reset == report.at # "made" /\ history # <<>> /\ history' = <<>> /\ buckets' = <<>> /\ Stir /\ UNCHANGED ticks

Pass == report.at # "made" /\ ticks < LastTick /\ ticks' = ticks + 1 /\ Stir /\ UNCHANGED <<buckets, history>>

-----------------------------------------------------------------------------
(* collect_records_in_window: both ends belong to the window, and buckets  *)
(* outside are passed over by their key.                                   *)
Window(start, end) ==
  FoldSet(LAMBDA h, all : all \o SelectSeq(buckets[h], LAMBDA r : start <= r.time /\ r.time <= end),
          <<>>, {h \in DOMAIN buckets : Hour(start) <= h /\ h <= Hour(end)})

(* compute_trend, of the counts of this period and the one before.         *)
Trend(current, previous) ==
  CASE current = 0 -> IF previous = 0 THEN "stable" ELSE "inactive"
    [] current > 0 /\ previous = 0 -> "new"
    [] OTHER -> CASE 10 * current > 12 * previous -> "rising"
                  [] 10 * current < 8 * previous -> "declining"
                  [] OTHER -> "stable"

Failures(records) == Len(SelectSeq(records, LAMBDA r : ~r.ok))

(* aggregate_records                                                       *)
Summary(period) ==
  LET now == ticks
      current == Window(now - period, now)
  IN [calls |-> Len(current), errors |-> Failures(current),
      callers |-> Cardinality({r.caller : r \in ToSet(current)} \ {Nothing}),
      trend |-> Trend(Len(current), Len(Window(now - 2 * period, now - period)))]

(* get_caller_breakdown_for_period: no caller counts as "unknown".         *)
Breakdown(period) ==
  LET current == Window(ticks - period, ticks)
      Name(r) == IF r.caller = Nothing THEN "unknown" ELSE r.caller
  IN [c \in {Name(r) : r \in ToSet(current)} |-> Len(SelectSeq(current, LAMBDA r : Name(r) = c))]

(* get_hourly_distribution_for_period, padded: the hours up to now and     *)
(* those with a bucket, of which the latest are shown.                     *)
Distribution(period) ==
  LET listed == {Hour(ticks) - i : i \in 0 .. HoursShown - 1} \cup DOMAIN buckets
      shown == {h \in listed : Cardinality({k \in listed : k > h}) < HoursShown}
      Counted(h) == IF h \notin DOMAIN buckets THEN 0
                    ELSE Len(SelectSeq(buckets[h], LAMBDA r : ticks - period <= r.time /\ r.time <= ticks))
  IN [h \in shown |-> Counted(h)]

(* The report: the statistics, the callers and the hours, one after the    *)
(* other; a module nothing was recorded of has a report of zeros.          *)
Begin(period) ==
  /\ report.at = "none"
  /\ report' = [at |-> "stats", calm |-> TRUE, period |-> period, stats |-> Summary(period)]
  /\ UNCHANGED <<buckets, history, ticks>>

ReportCallers ==
  /\ report.at = "stats"
  /\ report' = [report EXCEPT !.at = "callers"] @@ [callers |-> Breakdown(report.period)]
  /\ UNCHANGED <<buckets, history, ticks>>

ReportHours ==
  /\ report.at = "callers"
  /\ report' = [report EXCEPT !.at = "made"] @@ [hours |-> Distribution(report.period)]
  /\ UNCHANGED <<buckets, history, ticks>>

Next ==
  \/ \E time \in 0 .. ticks, kind \in Kinds : RecordAt(time, kind)
  \/ Reset \/ Pass
  \/ (\E period \in Periods : Begin(period)) \/ ReportCallers \/ ReportHours

Spec == Init /\ [][Next]_vars

-----------------------------------------------------------------------------
(* The buckets hold, of the latest hours ever recorded, the latest records *)
(* of each: a record that comes late evicts nothing newer than its hour.   *)
LatestAreRetained ==
  LET hours == {Hour(r.time) : r \in ToSet(history)}
      latest == {h \in hours : Cardinality({k \in hours : k > h}) < MaxBuckets}
  IN buckets = [h \in latest |->
                  Latest(SelectSeq(history, LAMBDA r : Hour(r.time) = h), MaxPerBucket)]

(* The parts of a report add up to one another if neither the clock nor a  *)
(* record came between: the callers to the calls, and the hours to them as *)
(* far as the period lies within the hours shown.                          *)
ReportAddsUp == report.at = "made" /\ report.calm =>
  /\ report.stats.errors <= report.stats.calls
  /\ MapThenSumSet(LAMBDA c : report.callers[c], DOMAIN report.callers) = report.stats.calls
  /\ Cardinality(DOMAIN report.callers \ {"unknown"}) = report.stats.callers
  /\ Cardinality(DOMAIN report.hours) = HoursShown
  /\ LET shown == MapThenSumSet(LAMBDA h : report.hours[h], DOMAIN report.hours) IN
     IF report.period <= (HoursShown - 1) * TicksPerHour
     THEN shown = report.stats.calls ELSE shown <= report.stats.calls
=============================================================================
