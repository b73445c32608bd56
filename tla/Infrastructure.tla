----------------------------- MODULE Infrastructure -----------------------------
(***************************************************************************)
(* The simulated infrastructure the evidence nodes interrogate.  Each tool *)
(* draws the state of what it is asked about from the hash of its name, so *)
(* that tools asked about the same name see the same scenario although they*)
(* share nothing else.  A scenario is all this module knows of a name; what*)
(* a tool reports is abstracted to what an analyst would conclude from it. *)
(***************************************************************************)
EXTENDS Integers, Sequences

-----------------------------------------------------------------------------
(* Kubernetes: k8s_get_pod_status, k8s_get_pod_logs, k8s_get_recent_events *)
(* and k8s_describe_deployment.                                            *)

PodScenarios == {"oom_killed", "probe_failure", "image_pull_backoff", "healthy"}

\* LogSeverity, as far as pods use it, from harmless to bad.
info    == 0
warning == 1
error   == 2

\* _pod_status_payload(): readiness, whether there were restarts, and the reason.
PodStatus(scenario) ==
  [ready     |-> scenario = "healthy",
   restarted |-> scenario \in {"oom_killed", "probe_failure"},
   reason    |-> IF scenario = "healthy" THEN "none" ELSE scenario]

\* _SCENARIO_LOG_LINES, by severity.
LogLines(scenario) ==
  CASE scenario = "oom_killed"         -> <<info, warning, warning, error>>
    [] scenario = "probe_failure"      -> <<info, info, warning, warning>>
    [] scenario = "image_pull_backoff" -> <<error>>
    [] scenario = "healthy"            -> <<info, info, info>>

\* _recent_events_payload() asks for the status: a Normal event, and a Warning if there
\* is a reason, which counts the restarts but at least one.
Events(scenario) ==
  {"Normal"} \cup (IF PodStatus(scenario).reason = "none" THEN {} ELSE {"Warning"})

\* _describe_deployment_payload(): is every replica available?
DeploymentAvailable(scenario) == scenario \notin {"oom_killed", "probe_failure"}

-----------------------------------------------------------------------------
(* The snapshot tools of the other categories.                             *)

BrokerScenarios == {"healthy", "one_broker_down", "disk_full", "controller_unavailable"}

\* _broker_status_payload(), for a cluster of count brokers with under of its partitions
\* under-replicated where the scenario leaves the number open.
BrokerStatus(scenario, count, under) ==
  CASE scenario = "healthy" ->
         [online |-> count, under_replicated |-> 0, status |-> "healthy"]
    [] scenario \in {"one_broker_down", "disk_full"} ->
         [online |-> count - 1, under_replicated |-> under, status |-> "degraded"]
    [] scenario = "controller_unavailable" ->
         [online |-> 0, under_replicated |-> 10 * count, status |-> "outage"]

MemoryScenarios == {"healthy", "near_maxmemory", "over_maxmemory"}

\* _memory_stats_payload(): the range of the utilization, in percent, and the policy.
MemoryStats(scenario) ==
  CASE scenario = "healthy"        -> [range |-> 20..50,   policy |-> "allkeys-lru"]
    [] scenario = "near_maxmemory" -> [range |-> 85..97,   policy |-> "noeviction"]
    [] scenario = "over_maxmemory" -> [range |-> 100..102, policy |-> "noeviction"]

\* _eviction_stats_payload(): are keys evicted?
Evicts(scenario) == scenario # "healthy"

-----------------------------------------------------------------------------
(* What an incident of each category is measured by.                       *)

Categories == {"kubernetes", "kafka", "database", "cache", "networking", "application",
               "unknown"}

\* _SNAPSHOT_TOOL_NAME_BY_CATEGORY
HasSnapshot(category) == category \in {"kubernetes", "kafka", "database", "cache"}

\* A series is a baseline, a threshold and the sampling of a window.
\* num_points = max(2, window_minutes * 60 // max(interval_seconds, 1))
NumPoints(minutes, interval) ==
  LET points == (minutes * 60) \div (IF interval < 1 THEN 1 ELSE interval)
  IN IF points < 2 THEN 2 ELSE points

\* metrics_collector's defaults, which metrics_analysis_node uses: 15 samples.
DefaultPoints == NumPoints(15, 60)

\* _generate_series(): sample i of n, counted from 0, ramps from the baseline to 1.3 times
\* the threshold, with a noise of at most a twentieth of the threshold; 20 * (n - 1)
\* times the value lies within these bounds.
Ramp(baseline, threshold, n, i)    == 20 * (n - 1 - i) * baseline + 26 * i * threshold
Highest(baseline, threshold, n, i) == Ramp(baseline, threshold, n, i) + (n - 1) * threshold
Lowest(baseline, threshold, n, i)  == Ramp(baseline, threshold, n, i) - (n - 1) * threshold

\* is_anomalous, when the noise can make it so, and when it must.
MayBeAnomalous(baseline, threshold, n, i) ==
  Highest(baseline, threshold, n, i) > 20 * (n - 1) * threshold
IsAnomalous(baseline, threshold, n, i) ==
  Lowest(baseline, threshold, n, i) > 20 * (n - 1) * threshold

=============================================================================
