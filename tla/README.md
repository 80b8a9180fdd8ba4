# A TLA+ verification project for DeepField

DeepField watches OpenShift clusters. Signals (events, alerts, log lines) pass a
pipeline of small filtering agents, what is left is correlated into findings,
findings become reasoning tasks for language models, and the answers are
attached to incidents that operators resolve and other systems (TARSy,
StarGate) are told about. This directory models the parts of `src/backend`
whose correctness depends on order: who calls whom, between which two steps
another thread can run, what a restart forgets.

Paths below are relative to `src/backend` unless they start with `src/`.

## Inventory

Each part with its state, its operations, what it is wired to, what is hard
about it and what makes it correct. `PROJECT.json` lists the same parts under
`components`, with their files, and every hard spot with its line under
`hazards`.

**Incident manager** (`app/session/incident_manager.py`, `app/api/incidents.py`).
State: `_incidents` by id, `_index` from cluster and namespace to the open
incident. Operations: `process_signal`, `add_classification`, `add_inference`,
`add_remediation_option`, `resolve_incident`, the API's suppress, the load at
start. Called without a lock by the streaming session's inference thread, the
Kafka inference worker and the API's event loop; queues a row per change;
publishes to Kafka and StarGate. Correct when: a key has one open incident,
evidence only grows, a closed incident stays closed, others are told once, and
the table ends up with what memory had.

**Write-behind queue** (`app/db.py`). State: a deque of at most 100000 rows, a
batch in the writer thread's hands, the tables. Operations: enqueue, take a
batch, upsert, skip a row, lose a batch. Correct when rows of one incident are
written in order and no loss goes further than the rows lost.

**Inference scaler** (`intel-inference-router/intel_inference_router/scaler.py`,
`update_pressure` in `app/routing/signal_router.py`). State: models loaded,
models evicted (a stack), the times of the last eviction and restoration.
Operations: grade a snapshot and move one model, force a move. Correct when no
model is lost, eviction is largest-first and restoration smallest-first, moves
keep their intervals, and pressure that goes away brings the models back.

**Cascade bridge** (`app/cascade_bridge.py`, `cascade_bridge_aap.py`,
`cascade_store.py`, `cascade/dynamic_agents.py`). State: activated types with
pattern and time stamp, two suppressors' type sets, noise counts, the verdict
watermark, the saved state. A pass every 300 s activates, expires and saves; a
shadow thread and a verdict thread deactivate. Hard: the threads share all of
it without a lock; several bridges save under one name; a restart may fail to load.
Correct when what is suppressed is what is listed, every refuted suppressor is
withdrawn, and a restart loses no verdict.

**Promotion engine** (`cascade/promotion.py`, `service.py`). Tiers of learned
agents, from draft to macro. The bridge constructs an engine and calls nothing of it.

**Streaming session** (`app/session/streaming_session.py`, started and scoped by
`app/api/session.py`). Emitter, process loop, inference thread and watchdog; two
bounded queues; cooldowns of findings; counters under a lock. Hard: a watchdog that
starts a second process loop next to a slow one, an inference thread nobody
restarts, a batch abandoned half-way. Correct when the in-flight count is the number
of calls in flight, no signal is counted twice, a finding is not taken as new while
it cools down, and a stale loop is replaced.

**Nano-agents** (`app/nanoagents/`). Nineteen filters in a fixed order; `dedupe` and
`transient_suppressor` keep windows in module globals that the process loop, the
Kafka worker and a replay share. Correct when a signal is dropped only for one close
to it in time or for what it says, and a signal that comes on two paths is kept once.

**Correlation, routing, model choice** (`app/correlation/engine.py`,
`app/routing/signal_router.py`, `app/inference/router.py`,
`intel_inference_router/corpora.py`). From a buffer of signals to findings, tasks and
the endpoint of each task, by tables in four files and three globals. Correct when
severe signals that belong together get a finding whose answer reaches an incident, and
every endpoint is one the client serves.

**Kafka workers and replay** (`app/workers/`). Threads that consume, process and
commit automatically. Hard: a kill between processing and commit, a membership that
lapses, a close that fails and is swallowed, a record that cannot be decoded, stop from
another thread, a replay over the live agents' state. Correct when records are given in
order, without a gap but for what a stop drops, and are repeated only by a failure.

**Synthetic sessions and runs** (`app/session/synthetic_session.py`, `app/api/runs.py`,
`app/inference/adapters.py`). A loop and a pool of threads per session, at most 30
jobs in flight, four slots for calls that everyone shares. Correct when a full session
drains again and live monitoring stays unaffected.

**Collectors** (`app/collectors/`), **integration API** (`app/api/integration.py`):
where signals come from, and what each has already seen. **Evidence**
(`app/evidence/collector.py`), **tuning, feedback, analysis, Celery tasks,
generators, reports, frontend, manifests**: see the notes in `PROJECT.json`. Of the
router package the repository has only six files; the cascade pipeline, corpus
analyzer and fleet manager are external.

## Modules

| module | models |
| --- | --- |
| `IncidentManager` | one incident's record and every change the manager makes to it; no variables |
| `Incidents` | the manager, the queue, the writer, the table, crash and restart; a method call is one step |
| `IncidentThreads` | the manager again, its methods cut at every call, under two feeders and the API |
| `Scaler` | `InferenceScaler` and a node whose pressure changes |
| `CascadeBridge` | learned suppressors: activation, expiry, demotion, save, verdict poll, restart, cut at calls |
| `StreamingSession` | the live session's threads, queues, cooldowns and counters, and what the API does to it |
| `NanoAgents` | severity, the seventeen agents without memory, and the routing of their decisions; operators only |
| `SignalPath` | a signal's way from a collector to an incident, on the session's and the worker's path at once; extends `NanoAgents` |
| `Delivery` | what a topic promises its worker (abstract) |
| `KafkaWorker` | the worker's thread, its consumer, stop, kill and restart; implements `Delivery` |
| `ModelRouting` | which endpoint a finding's task may be sent to; tables and operators only |
| `Sessions` | synthetic sessions beside live monitoring, slots and routing globals; extends `ModelRouting` |
| `MC*` | the values TLC gives to the constants |
| `IncidentsProofs`, `IncidentThreadsProofs`, `ScalerProofs`, `CascadeBridgeProofs`, `StreamingSessionProofs`, `KafkaWorkerProofs`, `SessionsProofs`, `SignalPathProofs` | the theorems about each, and their lemmas |

The components meet in three places, and each has a module that holds both sides:
the two feeders and the API meet in the manager (`IncidentThreads`), the session,
the workers and a replay in the agents' windows (`SignalPath`), and live monitoring,
synthetic sessions and runs in the slots and the routing globals (`Sessions`).

### Incidents

`incs`, `index`, `queue`, `db` are `_incidents`, `_index`, `_write_queue` and the
table. A method is one action that also queues the row (`Persist`) and notifies:
`ProcessSignal`, `AddClassification`, `AddInference`, `AddRemediationOption`,
`ResolveIncident`, `SuppressIncident`. The writer takes a batch, upserts its rows
one by one, skips one whose upsert fails, or loses the batch with the
connection. `Restart` may happen at any point. `init_db` starts the writer only when it
gets a pool and applies the migrations (`writing`); the manager connects for itself,
and starts empty when it cannot load. The two may differ.

A method is atomic here, so this module is about calls that do not overlap: what
memory, queue, table and restart make of them. What overlapping calls do to one
another (duplicates and repeated requests among them) is the subject of
`IncidentThreads`, and no property of this module speaks about it.

Abstractions: an incident's key is one value (cluster and namespace are only
compared together); signals are identities with a severity, and the severity of
the incident is the worst; texts are values, and the caps (30 signals, 5
inferences, 10 options) are constants. `evidence["findings"]` is never written
anywhere, so the second way to escalate that reads it cannot happen and is not
modelled. The manager is the one behind `get_manager`. Uuids are the numbers
1, 2, ...; when two open rows of a key are loaded, either may win the index
(the query orders by time only).

History variables: `lost` (a row was dropped since the last one queued) and `boots`.
`RestartRestores` says what a restart costs: an incident whose rows are all written
comes back as it was if it was open and is forgotten if it was resolved, unless the load
failed or its limit went to incidents seen later.

### IncidentThreads

A thread is a record: where it is, its key, the calls left in its task, the
incident found, what its last check saw, its snapshot. CPython 3.11 switches
threads at function calls, so the places are those between two calls: lookup,
check, append, comparison and assignment of the severity, snapshot, enqueue,
notify, flag. Only tasks whose type asks for a root cause reach `process_signal`;
a task's calls come in the order of `_feed_incident`, which is the same in the
session and the worker. Building a row from the dictionary is one step. The queue
keeps order, so only the last row enqueued of each incident (`stored`) is kept.

### Scaler

A snapshot matters through the number of its five measured grades that are red or
yellow; two more grades (memory budget, share of models loaded) come from the
scaler's own state. Memory is in whole gigabytes and percentages are compared
exactly, on the integers they are ratios of. Time is two ages. `_loaded` is a set,
since its order is never read. Nothing in the repository calls `update_pressure`
(its docstring says "Call periodically"), and `get_scaler` builds the scaler
without the roster its constructor requires, so the model is of the class as
written and documented, not of a deployed loop. `force_evict` and `force_restore`
have no callers either; `Forcing` switches them.

### CascadeBridge

`listed`, `pattern`, `stamp`, `repeat`, `noise` are `_activated_types`,
`_activated_patterns`, `_activation_timestamps` and the two suppressors' type sets;
`counts`, `found`, `mark` are `_phi4_noise_counts`, `_agent_metrics` and
`_verdict_watermark`; `saved` is the newest row of `cascade_state`. A thread is at a
place of `_activate_agent` or `_deactivate_agent`, or between two fields of the row
it saves; the scheduled pass goes through `phase`. The shadow re-check and the
verdict poll deactivate at any time, also in the middle of the pass. The INSERT and
the poll's request may fail, and so may the load at a restart, which then starts from
nothing. A count matters only up to the confirmations needed.
The corpus analyzer (external) proposes patterns it has not proposed before; what it
has proposed is saved, what the bridge kept of it (`found`) is not, so a pattern that
waits for confirmation at a restart is never activated. The ledger (external) answers
oldest first. Verdicts other than FAILS only move the watermark.

`AgreesUnlessClashed` and `VerdictsApplied` say that the structures agree and that a
verdict read stays applied, also across a restart, for every type on which no two
threads worked at once (`clash`, kept with the saved row). Without that condition both
fail, as the hazards say: that is what the missing lock costs, and no more. A type
deactivated keeps its count and its place in `found`, so the next pass activates it
again, although the log line of `_check_activation_ttl` says "must re-qualify"; no
property states this yet.

### StreamingSession

Signals and tasks are counted. A process loop is at one of the places between which
another thread can change what it uses: after draining, before the cooldowns are
recorded, before tasks are created, before the totals are taken under the lock. What
the agents, the correlation engine and the models answer is any answer they could
give. A loop may get stuck in the evidence collector, whose calls are the ones without
an end of their own; `MaxStuck` bounds that. The watchdog acts once a tick. The
thread of `_inference_loop` dies when `_do_inference` raises, since nothing catches
it. An incident is fed under `_lock` on the standard path (`feeding`) and outside of it
on the deep one. `CooldownHonoured` and `StaleLoopReplaced` say what the watchdog is
for and what it costs: with a second loop, two batches may find the same key due.

### NanoAgents and SignalPath

A signal is a record of the classes the agents' tests tell apart, not of its texts.
Each agent gives one outcome; a suppressed signal is not shown to the agents after it.
`SEVERITY_MAP` is one set per severity, with a representative of each way an agent
treats types. `SignalPath` has the two agents with memory, the collectors' memory of
what they have emitted, and three paths: the session (sees the payload, takes the
collector's time), the worker (sees neither, since the collector publishes neither) and
a replay. `Test` and `Judge` are two steps: between the test for a duplicate and the
record another path may run. A worker's message may be lost (`Absent`). Time is in
units of the deduplication window. A signal that a path keeps goes to the correlation
buffers with or without the name of its cluster, as the code's messages have it, and
findings and tasks are operators over a buffer. Timestamps of one batch, confidences,
and old entries' eviction are left out.

`DroppedRepeats` says how far the guard-rail test's "NEVER hides genuinely new problems"
is true: a signal that neither path keeps repeats one of its key, whose time is less than
the windows before its own. Where one path let the other signal through and dropped this
one, it is also earlier. Between threads there is no lower bound: the session keeps the
collectors' times, so a signal that the worker or a replay has just seen may be later
than the one it suppresses, and a negative age passes the test (`dedupe.py:46`). That a
replay may suppress live signals is part of the statement too, against
`replay_worker.py:3`. `KeptOnce` names its exceptions, lag and races.

`KeptSevereOpens` follows a severe signal from the agents to the incident manager on the
session's path: with another signal of its cluster that is more than information, it is
in a finding, and every finding it is in has a task whose answer feeds an incident, the
deep analysis included. The worker's list of task types lacks
`deep_root_cause_analysis` (`inference_worker.py:97`), so the same is not true of it,
although its comment says "same logic as streaming session" (`inference_worker.py:84`);
`Opens` has both lists. What a pattern across clusters is about is not stated:
messages without a cluster and the API's random ids make patterns of one cluster.

### Delivery and KafkaWorker

`Delivery` gives the records of a partition in order; only a group that never stored a
position may skip, and a worker that is asked to stop may drop one record. A garbled
record (one that `value_deserializer` cannot decode) is never passed, nor is anything
behind it; while none is ahead, every record is given in the end.
`KafkaWorker!Implements` is the refinement: `reached` is the history of what was given,
dropped or passed over, `stored` the partitions with a committed position, `serving` the
worker's state, `asked` that it was told to stop and has dropped nothing yet. So the
record that the loop leaves at `base.py:123` is a `Drop`, not a `Give`.

The broker and kafka-python are external: positions count what the iterator has
yielded, the record in the handler included; a poll or a close commits them. The group
may drop the worker at any point, because its handler takes longer than
`max_poll_interval_ms` or the broker misses it for `session_timeout_ms`; its commits are
refused then. A close that cannot commit is swallowed (`base.py:92-95`, `112-116`): the
positions stay as they were. A poll that raises on a garbled record is caught and tried
again at the same position. `LostAtStops` counts what graceful stops lose, at most one
record each; `AgainOnlyAfterFailure` charges every repetition to a kill, a lapsed
membership or a failed close.

### ModelRouting and Sessions

`ModelRouting` is the chain from a finding to an endpoint: the preference, what
`resolve_model` makes of it, the lanes and entries of the corpora. With the router
package installed a severe finding may go to a CPU model by its lane, although the
comment at the top of `signal_router.py` sends severe findings to Gaudi; without it,
and outside of demo mode, it goes to Gaudi (`Routed`). `Profiled` and `Served` differ:
the mock client does not know two of the real client's models and answers an error.
`Sessions` has the API's handlers (atomic: they never await), each session's loop and
pool, and everyone who takes a slot: the live session, the inference worker, real
sessions, real runs. A pool's jobs go on after stop. `LiveRefused` states "Live
monitoring unaffected" as far as it is true; `CapClears` that a full session drains,
up to the calls that raised, which nothing counts down.

## Runs

| run | shows |
| --- | --- |
| `incidents` | what queue, writer, table and two restarts make of an incident: one key, three incidents, four calls, a queue of two rows |
| `incidents_duplicate_open` | the "one open incident per key" of the docstring fails across a restart |
| `incidents_stargate_gap` | an incident can be ready for StarGate and never be pushed |
| `incident_threads` | what two feeders and the API lose, repeat or duplicate, and by how much |
| `incident_threads_resolution` | a resolved incident can be stored as open for good |
| `scaler` | five models, pressure that comes and goes, forced moves |
| `scaler_calm` | after pressure is gone, the scaler may hold, or evict the rest, for ever |
| `cascade` | activation, expiry, demotion, save and restart over one signal type, three threads |
| `streaming` | counts, cooldowns and the watchdog, with a stuck batch and a dead inference thread |
| `signal_path` | what is dropped or kept twice when two paths and a replay share the agents, and that what is severe opens an incident |
| `kafka_worker` | the worker implements `Delivery`; what stops lose, and what kills, lapses and failing closes repeat |
| `sessions` | a full session drains, live calls find a slot, every task has a served endpoint |

**Bounds.** Each cap is set so that it is reached and passed: two signals with a
cap of two, a queue of two rows with methods that queue one each and a writer that
may stall, `LoadLimit` below the number of incidents. Two restarts in `incidents` let a
start without a writer or without the table be followed by one that loads what is there;
with a `LoadLimit` of one the second of two open incidents is left out. The two runs that
expect a violation need one restart.
Four calls are the longest scenario that matters: open, enrich to ready, close,
open again. In `incident_threads` two tasks over one key and one closing give every
pair of calls a chance to overlap; `SYMMETRY` is over the feeders, which the
module does not distinguish, and no liveness is checked there; `VIEW` leaves out
`stored` and the local snapshots, which no guard reads and no property of that
run names. The run that does name them (`incident_threads_resolution`) uses
neither. `Id` bounds the incidents: a state that would need one more cannot create
it. Five models in `scaler` put the 80% and 50% thresholds strictly between states.

In `cascade` one type is enough for the properties, which are about each
type by itself, and the threads meet only on a type; two confirmations, two verdicts
on pages of one, and a tick let a count be short, a page be partial and a
stamp expire. One restart starts from every row the program can save. `VIEW` leaves
out the saved row once no restart is left to read it.

In `streaming` both queues overflow (two signals, one task), one batch may get stuck,
and the second loop is the only one the watchdog can add: a third meets the shared
state in the same way. In `signal_path` the constants are scenes: three signals of two
pods in two clusters, two whose looks differ between the paths, two by the API, a
replay, a profile that tunes itself, and single signals of every type and look, which
is what `SevereDroppedAsNoise` needs. The clock passes the longest window. In
`kafka_worker` two partitions of two records let a batch mix partitions and end
between them; two lives of the process, one trouble (`MaxTrouble`: a membership that
lapses or a close that fails) and one garbled record, anywhere, give each kind of
repetition, loss and standstill. In `sessions` a cap of two with one thread in the pool and two slots makes
jobs wait for both; the two requests differ in everything a request sets.

**Fairness.** `Incidents`: weak fairness of the writer, whose thread, once started,
loops until the process ends and swallows every error (`app/db.py:133-164`). A start
whose `init_db` fails has no writer (`app/db.py:30-38`): its steps are not enabled then,
and `ResolutionReachesTable` speaks only of processes that have one. A writer that loses
a row also makes progress, and the property says so. `Scaler`:
weak fairness of an observation and of the clock, for "Call periodically".
`StreamingSession`: weak fairness of the clock, the watchdog, the inference thread and
each process loop, all daemon threads whose calls have timeouts; none of a stuck
batch. `KafkaWorker`: weak fairness of the thread's steps, of a poll that returns
something only while no garbled record is ahead; none of `PollNone`, `Expire`, stops,
kills or publishers. `Delivery` asks for `WF(Clear /\ Give(p))` per partition, which the
run checks against the thread's single fairness. `Sessions`: weak
fairness of each session's loop and of its pool (a slot is waited for at most 30 s,
HTTP calls have timeouts). No fairness is assumed of callers, of StarGate, of the
node's pressure, or of the API.

**Deadlock** is not checked in the incident runs, `cascade`, `signal_path` and
`kafka_worker`, where the bounds on calls, signals, records and lives make the model
stop; it is checked in the others.

## Proofs

TLAPS proves the following for every value of the constants (all keys, ids, caps,
feeders, loops, partitions, rosters, thresholds, intervals), from the named assumptions
in the modules. These say no more than the code gives: numbers are naturals, caps are
positive, absent values are not members, and what the program has finitely many of
(feeders, loops, partitions, sessions) is finite. `FeedAssumption` leaves out the tasks
that make no call. Each module ends its proofs with the theorems; what carries them:

*Incidents.* `ClosedCorrect` rests on one inductive invariant, `IndexSound`. That no call
opens a closed incident again needs to know where the index leads: to an incident of its
key that is open or suppressed (`IndexLeads`), that keys are known, and that ids not issued
yet are absent from memory, table, queue and batch (`Unissued`, `RowsIssued`), since
otherwise a new incident could take the id of a closed one, or a restart load an id that is
issued again. `BehindCorrect` adds `Behind`: each row on its way is a snapshot that precedes
memory, and it still does when memory grows (`HistoryGrows`) or a crash takes it away.
`CompleteCorrect` adds `QueuedOrWritten`, which follows the last row of an incident from
the queue to the batch and into the table; a lost row puts its incident into `lost`.

*Incident threads.* One typed invariant (`Typed`: a thread's place fits its call and its
incident; only the API closes) and one counting invariant for each bound. The threads
that have checked and not yet acted are counted as if they had acted: `Room` counts the
feeders about to append (at most all but the first overshoot), `Told` those about to set
a flag, `Few` those about to create. `Few` also prices the entries lost: a closing counts
twice, and while `resolve_incident` is before its `del` only once (`Losses`); whether the
index leads to an open incident decides which of two bounds holds. `Recorded` extends
`SignalRecorded` back to the dedupe check. Every action has a lemma (`...Form`) that
says what it does to its thread and its incident; the bounds use only these.

*Scaler.* The invariant is the type, `NoModelLost` and `SmallestLast` together: that the
last entry is the smallest evicted follows only when everything evicted comes before
everything loaded and nothing occurs twice. The lemmas say what appending, removing at a
position and taking the front do to a sequence without repetitions; `PacedCorrect` is an
action property from the same invariant.

*Cascade bridge.* `TypeCorrect` needs three facts beside the types: a thread that works
has a type, a pass considers only what was proposed, and the saved watermark is not
ahead of the ledger. `QualifiedCorrect` follows the confirmations wherever a type goes:
`Qualified` is inductive only with the activation that has begun, the row being saved
field by field, and the stored row, which must be confirmed by the counts stored with
it, since a restart takes both. `AgreesCorrect` rests on `Orderly`: for a type without a
clash, at most one thread works on it, the structures have the `Shape` of that thread's
place, and the row being saved agrees field by field up to the place of the save. Steps
about another type are covered by one lemma. `VerdictsCorrect` adds `Applied`: what is
listed was activated after every verdict on it up to the watermark, or is being taken
off, and the stored row says so of the stored watermark.

*Streaming session.* The type is not inductive without `CountedOnce`: a loop's buffer is
bounded because what is counted, queued and held never exceeds what arrived.
`InFlightExact` is preserved step by step. `CooldownCorrect` is an action property; as
long as there is one loop, what it took as new is still due when it records it
(`StillDue`).

*Kafka worker.* `Placed` says how the committed position, the consumer's and the record
in the handler lie in each partition. `DeliveryCorrect` maps every step to a step of
`Delivery` or a stutter: it is the safety half of `Implements`; for it, no batch has a
garbled record. `AgainCorrect` charges what a failure will repeat before it shows
(`Spared`: a member that was dropped gives the rest of its batch, and the same records
again when it is back; a close that failed leaves them uncommitted); `LostCorrect` charges a
stop with the record that it may still lose (`Charged`).

*Sessions.* Two balances carry the types and `LiveCorrect`: `inference_in_flight` is what
waits, calls, raised or ended its loop (`Counted`), and free slots and held ones are all
slots (`SlotsKept`). `RoutedCorrect` is about operators: the tables are compared entry by
entry, for any industry.

*Signal path.* The type carries that a path works on the signal whose turn it is, at its
own time (`Turns`), and counts it once (`CountedOnce`), which bounds the counts.
`DroppedCorrect` rests on `Memory`: each time that the two agents remember is that of a
signal of the key which was decided then, and what the transient suppressor remembers was
let pass; on `Explained`, since what a suppressed signal repeats may itself have been
suppressed as transient, and its witness must be known by then; and on `Orderly`: a path
takes signals at times that never fall, so that a witness of the same path is earlier.
Windows only grow, so a witness stays one. `OnceCorrect` rests on `Rising`: unless a key
has had a race, its remembered time is the latest recorded, so that of two records the
second is a window after the first; without that exception the later record may set the
time back. `NoiseCorrect` compares the agents one by one. `SevereCorrect` needs that what a
path keeps is in its buffer with its cluster (`Buffered`); that two of them make a finding
(`PairFound`) and that the answer is fed (`SevereOpens`) follows from the tables.

Only model-checked: the liveness properties (`ResolutionReachesTable`,
`RestoresWhileGreen`, `RedAvailabilityDrains`, `StaleLoopReplaced`, `CapClears`, and the
fairness half of `Implements`), since fairness and ENABLED are beyond the prover, and
`RestartRestores`, which needs the written rows one by one. Every other property of a
passing run is a theorem.
`TypeOK` of `StreamingSession` and `KafkaWorker` is proved and checked by no run of its
own. What a recursive definition computes (`MemoryOf`) is not proved: it would take
induction over data.

## Findings

Four runs disagree with what the repository says; `PROJECT.json` quotes the
lines. A key can have two open incidents after a restart; a ready incident can
stay unpublished; a resolution can be overwritten by an older row; a calm node
does not bring evicted models back.

Other disagreements are in the models without a run of their own: the worker's
`_feed_incident` is not "same logic as streaming session" (`inference_worker.py:84`):
its line 97 lacks the deep analysis, as `Opens` has it; a replay does affect live
processing (`replay_worker.py:3`), as `DroppedRepeats` allows; "Live monitoring unaffected"
(`api/session.py:255`) holds for calls as `LiveRefused` says, but not for the routing
mode, the industry and the scope, which reset leaves as start set them.

## Not modelled

- The promotion engine: nothing in the program calls its methods. `update_pressure` and
  `observe_signal` of the router, `handle_tarsy_result`, `live_session.py`,
  `force_evict` and start after stop of a session or worker have no caller either;
  where a model has one (`Scaler`), it says so.
- Text: prompts, evidence blocks, parsing of the models' JSON, reason codes, metrics.
- Code that keeps no state of its own: rubric scores, pattern statistics, reports, the
  read-only API, the web socket and event streams.
- The evidence collector's cache (one lock, read-only queries), ModelLifecycleManager
  (dry run by default), the Celery tasks (not deployed beside the writer thread).
- Several replicas of the pod, and several cascade bridges over one saved row.
- The parts of the router package that are not in the repository.

## Plan

1. Several bridges over one saved state; re-activation without re-qualification.
2. The types of the severity map that `NanoAgents` has by a representative, one by one.
