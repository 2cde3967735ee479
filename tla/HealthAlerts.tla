---------------------------- MODULE HealthAlerts ----------------------------
(***************************************************************************)
(* What is made of a module's calls: the counters and the histogram of     *)
(* MetricsCollector (src/src/observability/metrics.rs), the alerts of      *)
(* PlatformNotifyMiddleware (middleware/mod.rs) that read them, and the    *)
(* tier that system.health reports (sys_modules/health.rs).  The hooks of  *)
(* overlapping calls interleave: one ends where the snapshot is taken, the *)
(* lock of `alerted` is given back, or an event has been emitted.          *)
(***************************************************************************)
EXTENDS Integers, Sequences, FiniteSets, FiniteSetsExt

CONSTANTS
  Calls,
  Latencies,      \* the durations that occur
  Bounds,         \* the upper bounds of the finite buckets, ascending
  ErrorRateOf,    \* error_rate_threshold in hundredths
  LatencyLimit,   \* latency_p99_threshold
  Nothing

VARIABLES
  countsFirst,    \* the metrics middleware is registered after the notifier, so its hooks run first
  counters,       \* apcore_module_calls_total by status
  durations,      \* how often each duration was observed
  hook,           \* of each call: [at, outcome, latency, events], and the rate it read
  alerted,        \* the alerts that are active
  alerts,         \* the decisions, in the order in which they were taken
  apart           \* no two calls were in their hooks at once

vars == <<countsFirst, counters, durations, hook, alerted, alerts, apart>>

Init ==
  /\ countsFirst = TRUE
  /\ counters = [s \in {"success", "error"} |-> 0]
  /\ durations = [d \in Latencies |-> 0]
  /\ hook = [c \in Calls |-> [at |-> "idle", outcome |-> Nothing, latency |-> Nothing, rate |-> Nothing]]
  /\ alerted = {} /\ alerts = <<>> /\ apart = TRUE

(* Registration order, settled before the first call.                      *)
Register ==
  /\ \A c \in Calls : hook[c].at = "idle" /\ countsFirst
  /\ countsFirst' = FALSE
  /\ UNCHANGED <<counters, durations, hook, alerted, alerts, apart>>

-----------------------------------------------------------------------------
Total == counters["success"] + counters["error"]
Observed == MapThenSumSet(LAMBDA d : durations[d], Latencies)

(* HistogramData.observe counts a value in every bucket that holds it; the *)
(* snapshot's +Inf bucket is the count itself.                             *)
Cumulative(bound) == MapThenSumSet(LAMBDA d : durations[d], {d \in Latencies : d <= bound})

(* estimate_p99_from_histogram: the first finite bound that covers 99 % of *)
(* the observations, or the largest one.                                   *)
Target == (99 * Observed + 99) \div 100
P99 ==
  LET enough == {i \in DOMAIN Bounds : Cumulative(Bounds[i]) >= Target}
  IN IF Observed = 0 THEN 0
     ELSE IF enough = {} THEN Bounds[Len(Bounds)]
     ELSE Bounds[CHOOSE i \in enough : \A j \in enough : i <= j]

(* ModuleCallCounts::error_rate, in hundredths, rounded down.              *)
ErrorRate == IF Total = 0 THEN 0 ELSE (100 * counters["error"]) \div Total

(* classify_health under a threshold of hundredths.                        *)
Tier(threshold) ==
  CASE Total = 0 -> "unknown"
    [] Total > 0 /\ 100 * counters["error"] < threshold * Total -> "healthy"
    [] OTHER -> IF 100 * counters["error"] < 10 * Total THEN "degraded" ELSE "error"

-----------------------------------------------------------------------------
Goto(c, place) == hook' = [hook EXCEPT ![c].at = place]
Busy == {c \in Calls : hook[c].at \notin {"idle", "done"}}
First == IF countsFirst THEN "count" ELSE "check"
AfterCount == IF countsFirst THEN "check" ELSE "done"
AfterCheck == IF countsFirst THEN "done" ELSE "count"

(* A call ends and its hooks begin.                                        *)
End(c, outcome, latency) ==
  /\ hook[c].at = "idle"
  /\ hook' = [hook EXCEPT ![c] = [at |-> First, outcome |-> outcome, latency |-> latency, rate |-> Nothing]]
  /\ apart' = (apart /\ Busy = {})
  /\ UNCHANGED <<countsFirst, counters, durations, alerted, alerts>>

(* MetricsMiddleware: increment_calls, then observe_duration, each under   *)
(* the lock of its own map.                                                *)
CountCall(c) ==
  /\ hook[c].at = "count" /\ Goto(c, "observe")
  /\ counters' = [counters EXCEPT ![hook[c].outcome] = @ + 1]
  /\ UNCHANGED <<countsFirst, durations, alerted, alerts, apart>>

ObserveDuration(c) ==
  /\ hook[c].at = "observe" /\ Goto(c, AfterCount)
  /\ durations' = [durations EXCEPT ![hook[c].latency] = @ + 1]
  /\ UNCHANGED <<countsFirst, counters, alerted, alerts, apart>>

Decide(what) == alerts' = Append(alerts, what)

(* on_error: the rate, then under the lock the alert.                      *)
ReadRateOnError(c) ==
  /\ hook[c].at = "check" /\ hook[c].outcome = "error"
  /\ hook' = [hook EXCEPT ![c].at = "alert", ![c].rate = ErrorRate]
  /\ UNCHANGED <<countsFirst, counters, durations, alerted, alerts, apart>>

CheckErrorRate(c) ==
  LET exceeded == hook[c].rate >= ErrorRateOf /\ "error_rate" \notin alerted IN
  /\ hook[c].at = "alert" /\ Goto(c, AfterCheck)
  /\ IF exceeded THEN alerted' = alerted \cup {"error_rate"} /\ Decide("exceeded")
     ELSE UNCHANGED <<alerted, alerts>>
  /\ UNCHANGED <<countsFirst, counters, durations, apart>>

(* after: the latency, whose alert nothing ever takes back, then whether   *)
(* the error rate has recovered.                                           *)
ReadLatency(c) ==
  /\ hook[c].at = "check" /\ hook[c].outcome = "success"
  /\ hook' = [hook EXCEPT ![c].at = "latency", ![c].rate = P99]
  /\ UNCHANGED <<countsFirst, counters, durations, alerted, alerts, apart>>

CheckLatency(c) ==
  LET exceeded == hook[c].rate >= LatencyLimit /\ "latency" \notin alerted IN
  /\ hook[c].at = "latency" /\ Goto(c, "recovery")
  /\ IF exceeded THEN alerted' = alerted \cup {"latency"} /\ Decide("slow")
     ELSE UNCHANGED <<alerted, alerts>>
  /\ UNCHANGED <<countsFirst, counters, durations, apart>>

ReadRateOnSuccess(c) ==
  /\ hook[c].at = "recovery"
  /\ hook' = [hook EXCEPT ![c].at = "recover", ![c].rate = ErrorRate]
  /\ UNCHANGED <<countsFirst, counters, durations, alerted, alerts, apart>>

CheckRecovery(c) ==
  LET recovered == "error_rate" \in alerted /\ 2 * hook[c].rate < ErrorRateOf IN
  /\ hook[c].at = "recover" /\ Goto(c, AfterCheck)
  /\ IF recovered THEN alerted' = alerted \ {"error_rate"} /\ Decide("recovered")
     ELSE UNCHANGED <<alerted, alerts>>
  /\ UNCHANGED <<countsFirst, counters, durations, apart>>

Next ==
  \/ Register
  \/ \E c \in Calls :
       \/ \E outcome \in {"success", "error"}, latency \in Latencies : End(c, outcome, latency)
       \/ CountCall(c) \/ ObserveDuration(c)
       \/ ReadRateOnError(c) \/ CheckErrorRate(c)
       \/ ReadLatency(c) \/ CheckLatency(c) \/ ReadRateOnSuccess(c) \/ CheckRecovery(c)

Spec == Init /\ [][Next]_vars

-----------------------------------------------------------------------------
(* Whatever hooks overlap, error alerts and recoveries are told in turn,   *)
(* an alert first, and a slow module is told of once.                      *)
AlertsAlternate ==
  LET rates == SelectSeq(alerts, LAMBDA a : a # "slow") IN
  /\ \A i \in DOMAIN rates : rates[i] = IF i % 2 = 1 THEN "exceeded" ELSE "recovered"
  /\ Len(alerts) - Len(rates) <= 1
  /\ "error_rate" \in alerted <=> Len(rates) % 2 = 1

(* When calls end one after another and are counted before they are        *)
(* judged, an alert is up only while the rate is not below half of the     *)
(* threshold, and health then puts the module in its error tier.           *)
AlertsFollowRate == countsFirst /\ apart /\ Busy = {} =>
  /\ "error_rate" \in alerted => 2 * ErrorRate >= ErrorRateOf
  /\ ErrorRate >= ErrorRateOf /\ Total > 0 /\ (\A c \in Calls : hook[c].outcome # "success") => "error_rate" \in alerted
  /\ "error_rate" \in alerted /\ ErrorRateOf >= 20 => Tier(1) = "error"

(* The p99 estimate is no less than the true nearest-rank value, unless    *)
(* that lies beyond the last bound, and then it is the last bound.         *)
EstimateCovers ==
  LET atLeast(v) == MapThenSumSet(LAMBDA d : durations[d], {d \in Latencies : d <= v})
      rank == CHOOSE v \in Latencies : atLeast(v) >= Target /\ \A w \in Latencies : atLeast(w) >= Target => v <= w
  IN Observed > 0 => P99 >= rank \/ (P99 = Bounds[Len(Bounds)] /\ rank > P99)
=============================================================================
