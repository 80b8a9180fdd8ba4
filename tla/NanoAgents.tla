------------------------------ MODULE NanoAgents ------------------------------
(***************************************************************************)
(* What the pipeline decides about one signal, as operators: its severity  *)
(* (app/normalizers/signal_normalizer.py), the nano agents that look at    *)
(* nothing but the signal (app/nanoagents), and the routing of their       *)
(* decisions (app/routing/signal_router.py).  The two agents that remember *)
(* earlier signals are actions of SignalPath.                              *)
(*                                                                         *)
(* A signal is a record of what the agents test:                           *)
(*   type       signal_type                                                *)
(*   ns         the class its namespace falls in                           *)
(*   name       the class its resource_name falls in                       *)
(*   container  the same for evidence["container"] or ["app"], or "none"   *)
(*   label      the class of evidence["alertname"] or ["search_name"]      *)
(*   security   the description or summary has a security keyword          *)
(*   kind       its resource is of the kind its type is about: "own" or    *)
(*              "other"                                                    *)
(* Classes: name, container and label are "plain", "noisy" (contains a     *)
(* NOISY_SOURCES word), "dns" (a DNS_KEYWORDS word), "account" (a noisy    *)
(* service account), "rbac" (a security keyword), "false_positive",        *)
(* "escalated" (the alert lists) or "noisy_search".  Namespaces are        *)
(* "apps", "platform" (NOISY_NAMESPACES), "sandbox" (provisioning), or one *)
(* of the network agent's: "metallb", "ovn" and "dns".                     *)
(***************************************************************************)
EXTENDS Integers, Sequences, FiniteSets

\* SEVERITY_MAP by severity, with a type or more for each way an agent treats types.
Critical == {"node_pressure", "event_nodenotready", "alert_critical", "splunk_critical_alert"}
High     == {"pod_crashloop", "pod_imagepullbackoff", "event_backoff", "event_failedmigration",
             "event_evicted", "splunk_high_alert", "launchpad_lab_failed", "stargate_stage_failed",
             "route_unhealthy", "kserve_not_ready"}
Low      == {"pod_pending", "event_killing", "splunk_low_alert", "launchpad_lab_expired"}
Info     == {"event_pulled", "event_created", "alert_info", "splunk_info_alert",
             "launchpad_lab_active", "stargate_stage_passed"}
\* "event_" types that the map does not list are medium too.
Medium   == {"pvc_pending", "event_failedmount", "event_failedscheduling", "event_migrationbackoff",
             "event_failedcreate", "event_unlisted", "alert_warning", "splunk_medium_alert",
             "namespace_quota_exceeded", "kafka_lag_high"}
SignalType == Critical \union High \union Medium \union Low \union Info

Severity(s) ==
  CASE s.type \in Critical -> "critical" [] s.type \in High -> "high"
    [] s.type \in Medium -> "medium"     [] s.type \in Low -> "low"
    [] OTHER -> "info"

Events == {"event_backoff", "event_failedmigration", "event_evicted", "event_killing", "event_pulled",
           "event_created", "event_failedmount", "event_failedscheduling", "event_migrationbackoff",
           "event_failedcreate", "event_unlisted", "event_nodenotready"}
Alerts == {"alert_critical", "alert_warning", "alert_info"}
Splunk == {"splunk_critical_alert", "splunk_high_alert", "splunk_medium_alert",
           "splunk_low_alert", "splunk_info_alert"}

Severe(s) == Severity(s) \in {"critical", "high"}

----------------------------------------------------------------------------
(* The agents: each gives one outcome, or "none" *)

InfraNoise(s) ==
  IF Severity(s) \in {"info", "low"} THEN "none"
  ELSE IF (IF s.container # "none" THEN s.container ELSE s.name) = "noisy" THEN "suppress"
  ELSE IF s.ns \in {"platform", "dns"} /\ Severity(s) = "medium" THEN "suppress"
  ELSE "none"

\* Every signal is either enriched with a failure class or kept.
FailureClassifier(s) == "keep"

EventClassifier(s) ==
  CASE s.type \notin Events                        -> "none"
    [] s.type \in {"event_pulled", "event_created"} -> "suppress"
    [] s.type \in {"event_backoff", "event_evicted", "event_failedmount", "event_nodenotready",
                   "event_failedmigration"}        -> "escalate"
    [] OTHER                                       -> "keep"

PodHealth(s) ==
  IF s.kind # "own" THEN "none"
  ELSE IF s.type \in {"pod_crashloop", "pod_imagepullbackoff"} THEN "escalate"
  ELSE IF s.type = "pod_pending" THEN "keep"
  ELSE "none"

RouteHealth(s) == IF s.kind = "own" /\ s.type = "route_unhealthy" THEN "escalate" ELSE "none"

PvcHealth(s) == IF s.kind = "own" /\ s.type = "pvc_pending" THEN "escalate" ELSE "none"

NodePressure(s) == IF s.type = "node_pressure" THEN "escalate" ELSE "none"

NamespaceQuota(s) == IF s.type = "namespace_quota_exceeded" THEN "escalate" ELSE "none"

KserveEndpoint(s) == IF s.type = "kserve_not_ready" THEN "escalate" ELSE "none"

KafkaLag(s) == IF s.type = "kafka_lag_high" THEN "keep" ELSE "none"

LaunchpadSession(s) ==
  CASE s.type = "launchpad_lab_failed"  -> "escalate"
    [] s.type = "launchpad_lab_expired" -> "keep"
    [] OTHER                            -> "none"

StargateEvaluation(s) ==
  CASE s.type = "stargate_stage_failed" -> "escalate"
    [] s.type = "stargate_stage_passed" -> "drop"
    [] OTHER                            -> "none"

AppLog(s) ==
  IF s.type \notin Splunk THEN "none"
  ELSE IF s.label = "noisy_search" THEN "suppress"
  ELSE IF s.type \in {"splunk_critical_alert", "splunk_high_alert"} THEN "escalate"
  ELSE IF s.type = "splunk_info_alert" THEN "drop"
  ELSE "keep"

AlertAgent(s) ==
  IF s.type \notin Alerts THEN "none"
  ELSE IF s.label = "false_positive" THEN "suppress"
  ELSE IF s.label = "escalated" \/ s.type = "alert_critical" THEN "escalate"
  ELSE IF s.type = "alert_info" THEN "drop"
  ELSE "keep"

\* The keyword may be in the alert's name, which is the resource's without a payload.
SecurityAudit(s) ==
  IF ~s.security /\ (IF s.type \in Alerts THEN s.label ELSE s.name) # "rbac" THEN "none"
  ELSE IF s.name = "account" THEN "suppress"
  ELSE IF Severe(s) THEN "escalate"
  ELSE "keep"

\* Mutant of Provisioning: everything in a sandbox but a failure reason is noise.
ProvisioningAll(s) ==
  IF s.ns # "sandbox" THEN "none"
  ELSE IF s.type = "event_failedcreate" THEN "escalate"
  ELSE "drop"

Provisioning(s) ==
  IF s.ns # "sandbox" THEN "none"
  ELSE IF s.type = "event_created" THEN "drop"
  ELSE IF s.type = "event_failedcreate" THEN "escalate"
  ELSE IF Severity(s) \in {"info", "low"} THEN "drop"
  ELSE "keep"

Network(s) ==
  IF /\ s.ns \notin {"metallb", "ovn", "dns"} /\ s.name # "dns"
     /\ s.type \notin {"event_failedmigration", "event_migrationbackoff"} THEN "none"
  ELSE IF s.type = "event_migrationbackoff" THEN "suppress"
  ELSE IF Severe(s) THEN "escalate"
  ELSE "keep"

----------------------------------------------------------------------------
(* The pipeline and the router *)

\* run_pipeline: the agents in order; a suppressed signal is not shown to the
\* agents that follow.
Outcomes(s) ==
  LET all == << InfraNoise(s), FailureClassifier(s), EventClassifier(s), PodHealth(s), RouteHealth(s),
                PvcHealth(s), NodePressure(s), NamespaceQuota(s), KserveEndpoint(s), KafkaLag(s),
                LaunchpadSession(s), StargateEvaluation(s), AppLog(s), AlertAgent(s), SecurityAudit(s),
                Provisioning(s), Network(s) >>
  IN  { all[i] : i \in { j \in DOMAIN all : \A k \in 1..j - 1 : all[k] # "suppress" } }

\* route_signals, of a signal that no window has removed.
RoutedOn(s) ==
  /\ Outcomes(s) \intersect {"drop", "suppress"} = {}
  /\ Severity(s) = "info" => "escalate" \in Outcomes(s)

\* The signal as the nano-agent worker sees it: the collector publishes no payload.
WithoutPayload(s) == [s EXCEPT !.container = "none", !.label = "plain", !.security = FALSE]
=============================================================================
