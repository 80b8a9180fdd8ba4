--------------------------- MODULE StreamingSession ---------------------------
(***************************************************************************)
(* The live monitoring session (app/session/streaming_session.py) and what *)
(* the session API does to it: collectors fill a bounded queue, a process  *)
(* loop drains it in batches and turns findings into reasoning tasks, one  *)
(* thread answers the tasks, and a watchdog starts another process loop    *)
(* when the heartbeat is stale, without stopping the one that is stuck.    *)
(*                                                                         *)
(* Signals and tasks are counted, not named.  What the nano agents, the    *)
(* correlation engine and the models answer is any answer they could give. *)
(* A finding is known by its cooldown key, and whether a reasoning task is *)
(* a deep one is decided when it is answered.  Time advances in ticks of   *)
(* the watchdog's interval.                                                *)
(***************************************************************************)
EXTENDS Integers, FiniteSets, FiniteSetsExt

CONSTANTS
  Loop,        \* process-loop threads, in the order they are started: 1..n
  Key,         \* cooldown keys: a finding's type and namespaces
  QueueMax,    \* maxlen of _signal_queue
  BatchLimit,  \* _BATCH_LIMIT
  TaskMax,     \* maxlen of _inference_queue
  Enqueued,    \* tasks of one batch that are enqueued (4)
  Stale,       \* _HEARTBEAT_STALE_THRESHOLD, in ticks
  Cooldown,    \* _finding_cooldown_secs, in ticks
  MaxSignals,  \* bound: signals that ever arrive
  MaxStuck     \* bound: batches that never end

ASSUME StreamingAssumption ==
  /\ IsFiniteSet(Loop) /\ Loop = 1..Cardinality(Loop) /\ 1 \in Loop
  /\ QueueMax \in Nat \ {0} /\ BatchLimit \in Nat \ {0}
  /\ TaskMax \in Nat \ {0} /\ Enqueued \in Nat
  /\ Stale \in Nat /\ Cooldown \in Nat
  /\ MaxSignals \in Nat /\ MaxStuck \in Nat

VARIABLES
  stopped,   \* the _stop event
  scoped,    \* target_namespaces is set
  arrived,   \* history: signals ever put into the queue
  queue,     \* length of _signal_queue
  loop,      \* each process-loop thread: where it is and the batch it holds
  beat,      \* ticks since _last_heartbeat, at most Stale + 1
  cool,      \* ticks since each key was last taken as new, at most Cooldown
  correlated,\* keys whose signals are in _correlation_buffer
  tasks,     \* length of _inference_queue
  worker,    \* the inference thread
  raw,       \* totals["raw_signals"]
  inFlight,  \* metrics["inference_in_flight"]
  watchdog   \* the watchdog thread

vars == <<stopped, scoped, arrived, queue, loop, beat, cool, correlated, tasks,
          worker, raw, inFlight, watchdog>>

\* What the process loops, the inference thread and the API do not share.
outside == <<stopped, scoped, arrived, watchdog>>

\* A batch: the signals in the buffer and the findings that are not cooling down.
Batch == [buffer : 0..MaxSignals, new : SUBSET Key]
NoBatch == [buffer |-> 0, new |-> {}]

TypeOK ==
  /\ stopped \in BOOLEAN /\ scoped \in BOOLEAN
  /\ arrived \in 0..MaxSignals
  /\ queue   \in 0..QueueMax
  /\ loop    \in [Loop -> [at : {"unborn", "top", "batch", "record", "tasks", "totals",
                                 "stuck", "exited"}, batch : Batch]]
  /\ beat    \in 0..Stale + 1
  /\ cool    \in [Key -> 0..Cooldown]
  /\ correlated \subseteq Key
  /\ tasks   \in 0..TaskMax
  /\ worker  \in {"idle", "deep", "call", "feeding", "exited", "dead"}
  /\ raw     \in 0..MaxSignals
  /\ inFlight \in 0..1
  /\ watchdog \in {"waiting", "due", "exited"}

\* start: the live session is started once, with one thread of each kind.
Init ==
  /\ stopped = FALSE /\ scoped = FALSE
  /\ arrived = 0 /\ queue = 0 /\ tasks = 0 /\ beat = 0 /\ inFlight = 0
  /\ loop = [p \in Loop |-> [at |-> IF p = 1 THEN "top" ELSE "unborn", batch |-> NoBatch]]
  /\ cool = [k \in Key |-> Cooldown]
  /\ correlated = {}
  /\ worker = "idle" /\ watchdog = "waiting"
  /\ raw = 0

Born  == { p \in Loop : loop[p].at # "unborn" }
Stuck == { p \in Loop : loop[p].at = "stuck" }

\* _lock is held while an answer feeds its incident.
LockFree == worker # "feeding"

----------------------------------------------------------------------------
(* The session's signals and its API *)

\* _emit_live drains a collector, or inject_signal or an integration event adds
\* a signal: a full deque drops its oldest element.
Arrive ==
  /\ arrived < MaxSignals
  /\ arrived' = arrived + 1
  /\ queue' = Min({queue + 1, QueueMax})
  /\ UNCHANGED <<stopped, scoped, loop, beat, cool, correlated, tasks, worker, raw, inFlight, watchdog>>

\* start_session with target_namespaces: nothing ever clears them.
Scope ==
  /\ ~scoped
  /\ scoped' = TRUE
  /\ UNCHANGED <<stopped, arrived, queue, loop, beat, cool, correlated, tasks, worker, raw, inFlight, watchdog>>

\* stop: sets the event and joins no thread.
Stop ==
  /\ ~stopped
  /\ stopped' = TRUE
  /\ UNCHANGED <<scoped, arrived, queue, loop, beat, cool, correlated, tasks, worker, raw, inFlight, watchdog>>

Tick ==
  /\ beat' = Min({beat + 1, Stale + 1})
  /\ cool' = [k \in Key |-> Min({cool[k] + 1, Cooldown})]
  /\ watchdog' = IF watchdog = "waiting" THEN "due" ELSE watchdog
  /\ UNCHANGED <<stopped, scoped, arrived, queue, loop, correlated, tasks, worker, raw, inFlight>>

----------------------------------------------------------------------------
(* The process loop *)

\* Loop p goes on at `at` with `batch`.
Goto(p, at, batch) == loop' = [loop EXCEPT ![p] = [at |-> at, batch |-> batch]]

\* Head of an iteration: beat, then drain at most _BATCH_LIMIT signals.
Drain(p) ==
  /\ loop[p].at = "top" /\ ~stopped
  /\ beat' = 0
  /\ LET drained == Min({queue, BatchLimit})
         buffer  == loop[p].batch.buffer + drained
     IN  /\ queue' = queue - drained
         /\ Goto(p, IF buffer = 0 THEN "top" ELSE "batch", [NoBatch EXCEPT !.buffer = buffer])
  /\ UNCHANGED <<outside, cool, correlated, tasks, worker, raw, inFlight>>

LeaveLoop(p) ==
  /\ loop[p].at = "top" /\ stopped
  /\ Goto(p, "exited", NoBatch)
  /\ UNCHANGED <<outside, queue, beat, cool, correlated, tasks, worker, raw, inFlight>>

\* Mutant of Due: a finding is new again a tick early.
DueEarly(k) == cool[k] + 1 >= Cooldown

\* now_ts - last_seen >= _finding_cooldown_secs; pruned and absent keys are due.
Due(k) == cool[k] >= Cooldown

\* What is left of a buffer of n signals once target_namespaces are applied.
Scoped(n) == IF scoped THEN 0..n ELSE {n}

\* Filter, normalise, run the agents, route, correlate and look the findings up.
\* No signal is kept when the agents or the router raise; the correlation
\* buffer keeps its last 500 signals, so any older key may have left it.
Route(p) ==
  /\ loop[p].at = "batch"
  /\ \E n \in Scoped(loop[p].batch.buffer) :
       \/ /\ n = 0
          /\ Goto(p, "top", NoBatch)
          /\ UNCHANGED correlated
       \/ /\ n > 0
          /\ \E fresh, old, new \in SUBSET Key :
               /\ fresh = {} => old = correlated /\ new = {}
               /\ old \subseteq correlated
               /\ correlated' = fresh \union old
               /\ new \subseteq { k \in correlated' : Due(k) }
               /\ Goto(p, "record", [buffer |-> n, new |-> new])
  /\ UNCHANGED <<outside, queue, beat, cool, tasks, worker, raw, inFlight>>

\* normalize_signal, create_reasoning_tasks or resolve_model raises: the whole
\* buffer is cleared, counted nowhere, and findings taken as new get no task.
Abandon(p) ==
  /\ loop[p].at \in {"batch", "tasks"}
  /\ Goto(p, "top", NoBatch)
  /\ UNCHANGED <<outside, queue, beat, cool, correlated, tasks, worker, raw, inFlight>>

\* The findings' cooldown starts.
Record(p) ==
  /\ loop[p].at = "record"
  /\ cool' = [k \in Key |-> IF k \in loop[p].batch.new THEN 0 ELSE cool[k]]
  /\ Goto(p, "tasks", loop[p].batch)
  /\ UNCHANGED <<outside, queue, beat, correlated, tasks, worker, raw, inFlight>>

\* create_reasoning_tasks: none for an info finding, else one and some micro
\* tasks; the first four are enqueued and push the oldest out of a full deque.
CreateTasks(p) ==
  /\ loop[p].at = "tasks"
  /\ \E n \in IF loop[p].batch.new = {} THEN {0} ELSE 0..Enqueued :
       tasks' = Min({tasks + n, TaskMax})
  /\ Goto(p, "totals", loop[p].batch)
  /\ UNCHANGED <<outside, queue, beat, cool, correlated, worker, raw, inFlight>>

\* Mutant of Account: the buffer is not cleared and the next iteration adds to it.
AccountAgain(p) ==
  /\ loop[p].at = "totals" /\ LockFree
  /\ raw' = raw + loop[p].batch.buffer
  /\ Goto(p, "top", loop[p].batch)
  /\ UNCHANGED <<outside, queue, beat, cool, correlated, tasks, worker, inFlight>>

\* The totals, under the lock; the buffer is cleared.
Account(p) ==
  /\ loop[p].at = "totals" /\ LockFree
  /\ raw' = raw + loop[p].batch.buffer
  /\ Goto(p, "top", NoBatch)
  /\ UNCHANGED <<outside, queue, beat, cool, correlated, tasks, worker, inFlight>>

\* The evidence collector's cluster does not answer: the batch never ends.
Stick(p) ==
  /\ loop[p].at = "tasks" /\ loop[p].batch.new # {}
  /\ Cardinality(Stuck) < MaxStuck
  /\ Goto(p, "stuck", [NoBatch EXCEPT !.buffer = loop[p].batch.buffer])
  /\ UNCHANGED <<outside, queue, beat, cool, correlated, tasks, worker, raw, inFlight>>

----------------------------------------------------------------------------
(* The watchdog *)

\* Mutant of Restart: only a dead thread is replaced, never a stale one.
RestartDead ==
  /\ watchdog = "due" /\ ~stopped
  /\ \E p \in Born : Born = 1..p /\ loop[p].at = "exited" /\ p + 1 \in Loop
                   /\ Goto(p + 1, "top", NoBatch)
  /\ watchdog' = "waiting"

\* The heartbeat is stale, or the newest loop is dead: another loop is started.
Restart ==
  /\ watchdog = "due" /\ ~stopped
  /\ \E p \in Born :
       /\ Born = 1..p
       /\ beat > Stale \/ loop[p].at = "exited"
       /\ p + 1 \in Loop
       /\ Goto(p + 1, "top", NoBatch)
  /\ watchdog' = "waiting"

Healthy ==
  /\ watchdog = "due" /\ ~stopped
  /\ beat <= Stale
  /\ watchdog' = "waiting"
  /\ UNCHANGED loop

LeaveWatchdog ==
  /\ watchdog # "exited" /\ stopped
  /\ watchdog' = "exited"
  /\ UNCHANGED loop

Watch ==
  /\ Restart \/ Healthy \/ LeaveWatchdog
  /\ UNCHANGED <<stopped, scoped, arrived, queue, beat, cool, correlated, tasks, worker, raw, inFlight>>

----------------------------------------------------------------------------
(* The inference thread *)

worked == <<worker, tasks, inFlight>>

\* _inference_loop: the count goes up before the call.
TakeTask ==
  /\ worker = "idle" /\ ~stopped /\ tasks > 0
  /\ tasks' = tasks - 1
  /\ inFlight' = inFlight + 1
  /\ worker' \in {"deep", "call"}

\* Both passes succeed: the incident is fed before the lock is taken.
DeepAnswer ==
  /\ worker = "deep" /\ worker' = "idle"
  /\ inFlight' = Max({0, inFlight - 1})
  /\ UNCHANGED tasks

\* A pass fails or raises: the standard call answers the task.
DeepFallBack ==
  /\ worker = "deep" /\ worker' = "call"
  /\ UNCHANGED <<tasks, inFlight>>

\* The incident is fed under the lock.
Answer ==
  /\ worker = "call" /\ worker' = "feeding"
  /\ inFlight' = Max({0, inFlight - 1})
  /\ UNCHANGED tasks

Fed ==
  /\ worker = "feeding" /\ worker' = "idle"
  /\ UNCHANGED <<tasks, inFlight>>

\* Mutant of ErrorAnswer: the error branch leaves the count alone.
ErrorUncounted ==
  /\ worker = "call" /\ worker' = "idle"
  /\ UNCHANGED <<tasks, inFlight>>

ErrorAnswer ==
  /\ worker = "call" /\ worker' = "idle"
  /\ inFlight' = Max({0, inFlight - 1})
  /\ UNCHANGED tasks

\* The client raises on a malformed answer: nothing catches it and nothing
\* starts the thread again.
CallRaises ==
  /\ worker = "call" /\ worker' = "dead"
  /\ UNCHANGED <<tasks, inFlight>>

LeaveWorker ==
  /\ worker = "idle" /\ stopped
  /\ worker' = "exited"
  /\ UNCHANGED <<tasks, inFlight>>

Infer ==
  /\ \/ TakeTask \/ DeepAnswer \/ DeepFallBack \/ Answer \/ Fed
     \/ ErrorAnswer \/ CallRaises \/ LeaveWorker
  /\ UNCHANGED <<outside, queue, loop, beat, cool, correlated, raw>>

----------------------------------------------------------------------------
Process(p) ==
  \/ Drain(p) \/ LeaveLoop(p) \/ Route(p) \/ Record(p) \/ CreateTasks(p) \/ Account(p)

Next ==
  \/ Arrive \/ Scope \/ Stop \/ Tick \/ Watch \/ Infer
  \/ \E p \in Loop : Process(p) \/ Abandon(p) \/ Stick(p)

\* The threads are daemons the interpreter schedules, calls to models and to
\* incident storage have timeouts, and time passes.  Only a stuck batch ends never.
Fairness ==
  /\ WF_vars(Tick) /\ WF_vars(Watch) /\ WF_vars(Infer)
  /\ \A p \in Loop : WF_vars(Process(p))

Spec == Init /\ [][Next]_vars /\ Fairness

----------------------------------------------------------------------------
(* Properties *)

\* The calls shown in flight are the calls being made.  An inference thread that
\* died leaves its call in flight for ever (_inference_loop has no handler).
InFlightExact == inFlight = IF worker \in {"deep", "call", "dead"} THEN 1 ELSE 0

\* The signals in the loops' buffers, each by its loop and its place.
Held == { s \in Loop \X (1..MaxSignals) : s[2] <= loop[s[1]].batch.buffer }

\* No signal is counted twice, by one loop or by two, however batches end, and
\* whatever the queue drops.
CountedOnce == raw + queue + Cardinality(Held) <= arrived

\* A finding is not taken as new again while its key cools down, unless the
\* watchdog has started a second loop next to the first.
CooldownHonoured ==
  [][ \A p \in Loop : loop[p].at = "record" /\ loop'[p].at # "record" =>
        \A k \in loop[p].batch.new : cool[k] >= Cooldown \/ 2 \in Born ]_vars

\* The watchdog: a stale heartbeat beats again, even when batches get stuck,
\* unless the session is stopped.
StaleLoopReplaced == (beat > Stale) ~> (beat = 0 \/ stopped)
=============================================================================
