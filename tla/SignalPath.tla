------------------------------ MODULE SignalPath ------------------------------
(***************************************************************************)
(* The way of a signal from a collector to an incident, which it takes     *)
(* twice at once in one process: the session drains the collector's buffer *)
(* (app/session/streaming_session.py), and the Kafka workers consume what  *)
(* the collector publishes (app/workers).  The nano agents of both keep    *)
(* their memory of earlier signals in the same module variables, so that a *)
(* signal is usually kept by whichever path looks at it first, and the     *)
(* session hands what it keeps to the workers' correlation as well.  A     *)
(* replay (app/workers/replay_worker.py) passes a range of the published   *)
(* messages through the same agents once more.                             *)
(*                                                                         *)
(* Time is counted in units of the deduplication window.  A batch is       *)
(* handled signal by signal; consumer lag is how far a path's next signal  *)
(* is behind.  The clusters' namespaces have the same name, and every      *)
(* resource is in one of them.  An event that is delivered again is        *)
(* answered as a duplicate and changes nothing.                            *)
(***************************************************************************)
EXTENDS NanoAgents

CONSTANTS
  Resource,         \* resources of the clusters
  ClusterOf,        \* the cluster of each
  Scene,            \* what may be collected: records of
                    \*   types   the signal types each resource may show
                    \*   look    what else the agents test of their signals (its type is
                    \*           not used)
                    \*   signals bound: signals that the collectors buffer
                    \*   replay  a replay is started
                    \*   api     the integration API and the injection are used
                    \*   tunes   the first cluster's profile is tuned
  DedupeWindow,     \* DEFAULT_DEDUP_WINDOW
  MaxWindow,        \* MAX_DEDUP_WINDOW
  TransientWindow,  \* TRANSIENT_WINDOW_SECONDS
  DampenWindow,     \* DAMPEN_WINDOW_SECONDS
  DampenThreshold,  \* DEFAULT_DAMPEN_THRESHOLD
  MinThreshold,     \* the threshold a profile stops at (3)
  DeepSignals,      \* signals that make a critical finding a deep one (5)
  MaxTime           \* bound: the clock

Unknown == <<"unknown", 0>>  \* the cluster_id of a message that names none

ASSUME SignalPathAssumption ==
  /\ {"unknown", "random"} \intersect { ClusterOf[r] : r \in Resource } = {}
  /\ \A s \in Scene : /\ s.signals \in Nat
                      /\ \A r \in Resource : s.types[r] \subseteq SignalType
  /\ {DedupeWindow, MaxWindow, TransientWindow, DampenWindow} \subseteq Nat \ {0}
  /\ DedupeWindow <= MaxWindow /\ MinThreshold <= DampenThreshold
  /\ {DampenThreshold, MinThreshold, DeepSignals, MaxTime} \subseteq Nat

VARIABLES
  scene,     \* what the collectors see in this behaviour
  clock,
  seen,      \* _seen_states, _seen_fingerprints, _seen_alerts of the collectors
  emitted,   \* history: the signals collected, in order
  busy,      \* each path: the signal that passed its duplicate test, and its time
  fate,      \* history: what became of each signal on each path
  deduped,   \* _state of the deduplication agent
  transient, \* _transient_seen
  fired,     \* _ns_counts: the signals counted, by type
  window,    \* the profile's deduplication window, by type
  threshold, \* and its dampening threshold
  buffer     \* the correlation buffers of the session and of the worker

vars == <<scene, clock, seen, emitted, busy, fate, deduped, transient, fired, window, threshold, buffer>>
profile == <<window, threshold>>
agents == <<deduped, transient, fired, profile>>

TransientTypes == {"pod_pending", "pvc_pending"}
Live  == {"session", "worker"}
Path  == Live \union {"replay"}
Never == -1
Idle  == [at |-> Never]

Init ==
  /\ scene \in Scene
  /\ clock = 0
  /\ seen = [r \in Resource |-> {}]
  /\ emitted = << >>
  /\ busy = [p \in Path |-> Idle]
  /\ fate = [p \in Path |-> << >>]
  /\ deduped = [r \in Resource |-> [t \in scene.types[r] |-> Never]]
  /\ transient = [r \in Resource |-> [t \in scene.types[r] \intersect TransientTypes |-> Never]]
  /\ fired = [t \in UNION { scene.types[r] : r \in Resource } |-> {}]
  /\ window = [t \in DOMAIN fired |-> DedupeWindow]
  /\ threshold = DampenThreshold
  /\ buffer = [p \in Live |-> {}]

----------------------------------------------------------------------------
(* Collectors *)

Tick ==
  /\ clock < MaxTime /\ clock' = clock + 1
  /\ UNCHANGED <<scene, seen, emitted, busy, fate, agents, buffer>>

\* What the OpenShift collector reads off pods and nodes.
Conditions == {"pod_pending", "pod_crashloop", "pod_imagepullbackoff", "node_pressure"}

\* A signal of resource r; those of a source in RandomCluster get a new cluster_id.
Emit(r, t, source) ==
  /\ Len(emitted) < scene.signals
  /\ emitted' = Append(emitted, [res |-> r, type |-> t, at |-> clock, source |-> source])
  /\ UNCHANGED <<scene, clock, busy, fate, agents, buffer>>

RandomCluster == {"webhook", "injected"}

\* _process_pod, _process_node: a condition is reported when it differs from the
\* last one reported, where being healthy is none.
Condition(r, t) ==
  /\ t \in Conditions /\ t \notin seen[r]
  /\ seen' = [seen EXCEPT ![r] = {t}]
  /\ Emit(r, t, "openshift")

\* _process_event: a Kubernetes event is reported each time the watch or a scan
\* shows it.
KubernetesEvent(r, t) ==
  /\ t \in Events
  /\ Emit(r, t, "openshift") /\ UNCHANGED seen

\* _fetch_alerts: a firing alert, once.
FiringAlert(r, t) ==
  /\ t \in Alerts /\ t \notin seen[r]
  /\ seen' = [seen EXCEPT ![r] = @ \union {t}]
  /\ Emit(r, t, "alertmanager")

\* _poll_fired_alerts: a saved search that fired, once.
FiredSearch(r, t) ==
  /\ t \in Splunk /\ t \notin seen[r]
  /\ seen' = [seen EXCEPT ![r] = @ \union {t}]
  /\ Emit(r, t, "splunk")

\* receive_splunk_webhook: what Splunk calls with.
SplunkWebhook(r, t) ==
  /\ scene.api /\ t \in Splunk
  /\ Emit(r, t, "webhook") /\ UNCHANGED seen

\* receive_event: an event of Launchpad or StarGate.
IntegrationEvent(r, t) ==
  /\ scene.api
  /\ t \in {"launchpad_lab_active", "launchpad_lab_failed", "stargate_stage_passed", "stargate_stage_failed"}
  /\ Emit(r, t, "integration") /\ UNCHANGED seen

\* inject_signal: any type.
InjectSignal(r, t) ==
  /\ scene.api
  /\ Emit(r, t, "injected") /\ UNCHANGED seen

Collect(r, t) ==
  \/ Condition(r, t) \/ KubernetesEvent(r, t) \/ FiringAlert(r, t) \/ FiredSearch(r, t)
  \/ SplunkWebhook(r, t) \/ IntegrationEvent(r, t) \/ InjectSignal(r, t)

\* _buffer_signal: only the OpenShift collector publishes what it buffers.
Published(e) == e.source = "openshift"

----------------------------------------------------------------------------
(* The two paths through the nano agents *)

Turn(p) == Len(fate[p]) + 1

\* Signal i as path p sees it.
SeenBy(p, i) ==
  LET s == [scene.look EXCEPT !.type = emitted[i].type]
  IN  IF p = "session" THEN s ELSE WithoutPayload(s)

\* Mutant of Duplicate: a signal older than the last one is not a duplicate.
DuplicateAbs(e, at) ==
  LET age == at - deduped[e.res][e.type]
  IN  deduped[e.res][e.type] # Never /\ age >= 0 /\ age < window[e.type]

\* Mutant of Duplicate: the key lacks the signal's type.
DuplicateOfAny(e, at) ==
  \E t \in DOMAIN deduped[e.res] : deduped[e.res][t] # Never /\ at - deduped[e.res][t] < window[t]

\* dedupe: the last signal of this key is younger than the window, or later.
Duplicate(e, at) ==
  /\ e.source \notin RandomCluster
  /\ deduped[e.res][e.type] # Never /\ at - deduped[e.res][e.type] < window[e.type]

\* Mutant of Decide: the batch is handled again.
DecideTwice(p, out, at, raced) ==
  fate' = [fate EXCEPT ![p] = @ \o [i \in {1, 2} |-> [out |-> out, at |-> at, raced |-> raced]]]

\* What a replay may read: what the worker got.  Replays are of the past.
Replayable(i) ==
  scene.replay /\ i \in DOMAIN fate["worker"] /\ fate["worker"][i].out # "absent"

Decide(p, out, at, raced) ==
  fate' = [fate EXCEPT ![p] = Append(@, [out |-> out, at |-> at, raced |-> raced])]

\* The test for a duplicate.  The session's signal keeps the collector's time;
\* the worker's message carries none and gets the time it is processed at.
Test(p) ==
  /\ busy[p] = Idle /\ Turn(p) <= Len(emitted)
  /\ p = "worker" => Published(emitted[Turn(p)])
  /\ p = "replay" => Replayable(Turn(p))
  /\ LET e  == emitted[Turn(p)]
         at == IF p = "session" THEN e.at ELSE clock
     IN  IF Duplicate(e, at)
         THEN Decide(p, "duplicate", at, FALSE) /\ UNCHANGED busy
         ELSE busy' = [busy EXCEPT ![p] = [at |-> at]] /\ UNCHANGED fate
  /\ UNCHANGED <<scene, clock, seen, emitted, agents, buffer>>

\* The worker gets no message: none is published, or the fire-and-forget one is
\* lost.  A message is outside of the replay's range, or in no topic.
Absent(p) ==
  /\ p = "worker" \/ (p = "replay" /\ scene.replay)
  /\ busy[p] = Idle /\ Turn(p) <= Len(emitted)
  /\ Decide(p, "absent", Never, FALSE)
  /\ UNCHANGED <<scene, clock, seen, emitted, busy, agents, buffer>>

\* transient_suppressor, first strategy.
Transient(e, at) ==
  /\ e.type \in TransientTypes /\ e.source \notin RandomCluster /\ transient[e.res][e.type] # Never
  /\ at - transient[e.res][e.type] < TransientWindow

\* transient_suppressor, second strategy: this signal and those in the window,
\* of every cluster's namespace of that name, suppressed later or not.
Firing(p, e, at) ==
  { f \in fired[e.type] : at - f.at < DampenWindow }
    \union {[path |-> p, signal |-> Turn(p), at |-> at]}

\* Signal i as a member of a buffer: path p's copy of it.
Member(i, cluster, p) == [signal |-> i, cluster |-> cluster, copy |-> p]

\* The cluster_id of signal i: receive_splunk_webhook and inject_signal make one up.
ClusterId(i) ==
  IF emitted[i].source \in RandomCluster THEN <<"random", i>> ELSE <<ClusterOf[emitted[i].res], 0>>

\* A signal that path p keeps is published for the correlation worker, which may
\* fail, and joins the session's buffer if the session keeps it.  The session's
\* message does not name the cluster.
Keep(p, i) ==
  LET ours == IF p = "session" THEN {Member(i, ClusterId(i), p)} ELSE {}
      sent == Member(i, IF p = "session" THEN Unknown ELSE ClusterId(i), p)
  IN  \E published \in {{}, {sent}} :
        buffer' = [session |-> buffer.session \union ours, worker |-> buffer.worker \union published]

\* Record the signal, pass it through the other agents and route it.
Judge(p) ==
  /\ busy[p] # Idle
  /\ busy' = [busy EXCEPT ![p] = Idle]
  /\ LET i      == Turn(p)
         e      == emitted[i]
         at     == busy[p].at
         raced  == Duplicate(e, at)
         firing == Firing(p, e, at)
         out    == IF Cardinality(firing) > threshold THEN "dampened"
                   ELSE IF RoutedOn(SeenBy(p, i)) THEN "kept" ELSE "noise"
         mine   == e.source \notin RandomCluster
     IN  /\ deduped' = IF mine THEN [deduped EXCEPT ![e.res][e.type] = at] ELSE deduped
         /\ IF Transient(e, at)
            THEN Decide(p, "transient", at, raced) /\ UNCHANGED <<transient, fired, buffer>>
            ELSE /\ Decide(p, out, at, raced)
                 /\ fired' = [fired EXCEPT ![e.type] = firing]
                 /\ transient' = IF mine /\ e.type \in TransientTypes
                                 THEN [transient EXCEPT ![e.res][e.type] = at] ELSE transient
                 /\ IF out = "kept" THEN Keep(p, i) ELSE UNCHANGED buffer
  /\ UNCHANGED <<scene, clock, seen, emitted, profile>>

----------------------------------------------------------------------------
(* _update_cluster_profile: the first cluster's profile, which every path uses *)

untuned == <<scene, clock, seen, emitted, busy, fate, deduped, transient, fired, buffer>>

\* update_from_signals: a type that comes ten times as often as the others.
Widen(t) ==
  LET wider == IF 2 * window[t] < MaxWindow THEN 2 * window[t] ELSE MaxWindow
  IN  /\ scene.tunes /\ \E i, j \in DOMAIN emitted : emitted[i].type = t /\ emitted[j].type # t
      /\ wider > window[t]
      /\ window' = [window EXCEPT ![t] = wider]
      /\ UNCHANGED <<untuned, threshold>>

\* update_noise_scores: a namespace that nearly all decisions suppress.
Lower ==
  LET lower == IF threshold \div 2 > MinThreshold THEN threshold \div 2 ELSE MinThreshold
  IN  /\ scene.tunes
      /\ \E p \in Live : \E i \in DOMAIN fate[p] : fate[p][i].out \notin {"kept", "absent"}
      /\ lower < threshold
      /\ threshold' = lower
      /\ UNCHANGED <<untuned, window>>

Tune == (\E t \in DOMAIN window : Widen(t)) \/ Lower

----------------------------------------------------------------------------
(* Findings, reasoning tasks and what their answers feed *)

SeverityOf(m) == Severity([type |-> emitted[m.signal].type])

\* len(cluster_ids) >= 2, by the cluster_id of each message.
AcrossClusters(group) == Cardinality({ m.cluster : m \in group }) >= 2

\* correlate: by cluster and namespace, and by type across clusters.
Correlate(signals) ==
  LET loud(quiet)   == { m \in signals : SeverityOf(m) \notin quiet }
      ofCluster(c)  == { m \in loud({"info"}) : m.cluster = c }
      ofType(t)     == { m \in loud({"info", "low"}) : emitted[m.signal].type = t }
  IN  { [type |-> "namespace_correlation", signals |-> g] :
          g \in { h \in { ofCluster(m.cluster) : m \in signals } : Cardinality(h) >= 2 } }
      \union
      { [type |-> "cross_cluster_correlation", signals |-> g] :
          g \in { h \in { ofType(emitted[m.signal].type) : m \in signals } : AcrossClusters(h) } }

\* What each path has found: nothing before its buffer holds two signals.
Found(p) == IF Cardinality(buffer[p]) < 2 THEN {} ELSE Correlate(buffer[p])

\* _highest_severity, as far as the tasks tell severities apart.
FindingSeverity(f) ==
  LET all == { SeverityOf(m) : m \in f.signals }
  IN  IF "critical" \in all THEN "critical" ELSE IF "high" \in all THEN "high"
      ELSE IF "medium" \in all THEN "medium" ELSE "low"

\* The signals that consumer c knows of a finding of p: the session publishes
\* its findings without their signals.
Known(c, p, f) == IF c = "worker" /\ p = "session" THEN {} ELSE f.signals

PrimaryTask(c, p, f) ==
  IF \/ f.type = "cross_cluster_correlation"
     \/ FindingSeverity(f) = "critical" /\ Cardinality(Known(c, p, f)) >= DeepSignals
  THEN "deep_root_cause_analysis"
  ELSE IF FindingSeverity(f) \in {"critical", "high"} THEN "root_cause_analysis" ELSE "summarize_finding"

\* Signals carry no escalation mark, confidence or failure class into a finding,
\* so that there is nothing to explain or to filter and all is unclassified.
\* Findings of one batch that share a namespace give a correlate_findings task.
Tasks(c, p, f) ==
  {PrimaryTask(c, p, f)}
    \union (IF Known(c, p, f) = {} THEN {} ELSE {"classify_signal"})
    \union (IF FindingSeverity(f) = "medium" THEN {"suggest_remediation"} ELSE {})

\* Mutant of Opens: the worker's list, which lacks the deep analysis.
OpensShort(c, task) == task = "root_cause_analysis"

\* _feed_incident of the session and of InferenceWorker: the tasks whose answer
\* opens or feeds an incident.  The others carry no namespaces and feed none.
Opens(c, task) ==
  task = "root_cause_analysis" \/ (c = "session" /\ task = "deep_root_cause_analysis")

----------------------------------------------------------------------------
Next ==
  \/ Tick
  \/ \E r \in Resource : \E t \in scene.types[r] : Collect(r, t)
  \/ \E p \in Path : Absent(p) \/ Test(p) \/ Judge(p)
  \/ Tune

Spec == Init /\ [][Next]_vars

----------------------------------------------------------------------------
(* Properties *)

TypeOK ==
  /\ clock \in 0..MaxTime
  /\ \A r \in Resource : seen[r] \subseteq scene.types[r]
  /\ Len(emitted) <= scene.signals
  /\ \A i \in DOMAIN emitted : emitted[i].type \in scene.types[emitted[i].res] /\ emitted[i].at <= clock
  /\ \A p \in Path : /\ Len(fate[p]) <= Len(emitted) /\ busy[p].at \in Never..clock
  /\ \A p \in Live : \A m \in buffer[p] : m.signal \in DOMAIN emitted
  /\ \A r \in Resource : /\ \A t \in DOMAIN transient[r] : transient[r][t] \in Never..clock
                         /\ \A t \in scene.types[r] : deduped[r][t] \in Never..clock
  /\ \A t \in DOMAIN fired : Cardinality(fired[t]) <= 3 * Len(emitted)
  /\ \A t \in DOMAIN window : window[t] \in DedupeWindow..MaxWindow
  /\ threshold \in MinThreshold..DampenThreshold

\* Both live paths have decided what becomes of signal i.
Decided(i) == \A p \in Live : i \in DOMAIN fate[p]
Kept(p, i) == i \in DOMAIN fate[p] /\ fate[p][i].out = "kept"
SameKey(i, j) ==
  \/ i = j
  \/ /\ emitted[i].res = emitted[j].res /\ emitted[i].type = emitted[j].type
     /\ {emitted[i].source, emitted[j].source} \intersect RandomCluster = {}

\* How long the agents' memory of a key suppresses: the transient suppressor's
\* window counts from the signal it let pass, and what it stops is remembered by
\* the deduplication as well.
Reach(t) == window[t] + (IF t \in TransientTypes THEN TransientWindow ELSE 0)

\* A signal that neither path keeps repeats one of its key that a path let through
\* to the dampening and the noise rules, at a time that is no more than the windows
\* before its own.  What the same path let through is indeed before it; what
\* another thread did may bear a later time, for the session keeps the collector's
\* times and a negative age passes the test (dedupe.py).  That thread may be a
\* replay, although "live processing is unaffected" by one (replay_worker.py).
DroppedRepeats ==
  \A i \in DOMAIN emitted : Decided(i) /\ (\A p \in Live : ~Kept(p, i)) =>
    \E p \in Live, q \in Path, j \in DOMAIN emitted :
      LET age == fate[p][i].at - fate[q][j].at
      IN  /\ SameKey(i, j) /\ j \in DOMAIN fate[q]
          /\ fate[q][j].out \in {"kept", "dampened", "noise"}
          /\ fate[p][i].out # "absent"
          /\ age < Reach(emitted[i].type)
          /\ p = q => j <= i /\ 0 <= age

\* A signal is kept by one path only, unless the worker was behind by the window,
\* or two threads tested signals of its key before either had recorded one: the
\* later record may then set the window back.
KeptOnce ==
  \A i \in DOMAIN emitted : (\A p \in Live : Kept(p, i)) =>
    \/ fate["worker"][i].at - emitted[i].at >= DedupeWindow
    \/ \E p \in Path : \E j \in DOMAIN fate[p] : SameKey(i, j) /\ fate[p][j].raced

\* A severe signal is dropped for what it says only where the path that looked at
\* it sees a noisy component or account, a false positive or a noisy search.
SevereDroppedAsNoise ==
  \A p \in Path : \A i \in DOMAIN fate[p] :
    LET s == SeenBy(p, i)
    IN  fate[p][i].out = "noise" /\ Severe(s) =>
          \/ s.container = "noisy" \/ s.name \in {"noisy", "account"}
          \/ s.label \in {"false_positive", "noisy_search"}

\* A severe signal that the session keeps opens an incident as soon as the session
\* has kept another one with its cluster_id that is more than information: it is in
\* a finding, and each finding of the session it is in has a task whose answer,
\* given by the session, opens one.
KeptSevereOpens ==
  \A i, j \in DOMAIN emitted :
    /\ i # j /\ Kept("session", i) /\ Kept("session", j) /\ ClusterId(i) = ClusterId(j)
    /\ Severity([type |-> emitted[i].type]) \in {"critical", "high"}
    /\ Severity([type |-> emitted[j].type]) # "info"
    => LET findings == { f \in Found("session") : \E m \in f.signals : m.signal = i }
       IN  /\ findings # {}
           /\ \A f \in findings : \E task \in Tasks("session", "session", f) : Opens("session", task)
=============================================================================
