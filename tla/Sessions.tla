------------------------------ MODULE Sessions ------------------------------
(***************************************************************************)
(* Synthetic sessions beside live monitoring (api/session.py and           *)
(* session/synthetic_session.py).  The API starts, stops and resets        *)
(* synthetic sessions; each has an emitter, a process loop and a pool of   *)
(* inference threads.  They share with the live session, the Kafka         *)
(* inference worker and the runs of api/runs.py the routing                *)
(* globals of routing/signal_router.py and the slots of                    *)
(* inference/adapters.py.                                                  *)
(*                                                                         *)
(* Signals and jobs are counted, not named.  The live session is its one   *)
(* inference thread here; StreamingSession has the rest of it, and         *)
(* KafkaWorker the rest of the worker.  A call takes its slot when it is   *)
(* made: that it was waiting before tells nothing apart.                   *)
(***************************************************************************)
EXTENDS Integers, FiniteSets, FiniteSetsExt, Functions, ModelRouting

CONSTANTS
  Session,   \* synthetic sessions, in the order they are created: 1..n
  Request,   \* what start is called with
  BatchMax,  \* tasks of one batch that are submitted at most (10)
  Cap,       \* max_in_flight (30)
  Pool,      \* threads of a session's pool (20)
  Slots,     \* _MAX_CONCURRENT_LLM
  MaxRaised  \* bound: malformed answers each session meets

ASSUME SessionsAssumption ==
  /\ Session = 1..Cardinality(Session) /\ IsFiniteSet(Session)
  /\ Request \subseteq [client : {"mock", "real"}, mode : Mode, industry : STRING, scoped : BOOLEAN]
  /\ {BatchMax, Cap, Pool, Slots} \subseteq Nat \ {0}
  /\ Slots >= 2 \* the default is 4; with one, the two live threads refuse each other
  /\ MaxRaised \in Nat

Industry == { r.industry : r \in Request } \union {"basic"}

VARIABLES
  current,  \* _synthetic_session_id, 0 for None
  ses,      \* the sessions
  routingMode, routingIndustry,  \* _routing_mode, _industry
  scoped,   \* target_namespaces of the live session is set
  live,     \* the inference threads of the live session and of the Kafka worker
  bench,    \* slots held by runs with the real client, None before the first
  free      \* free slots of _llm_semaphore

vars == <<current, ses, routingMode, routingIndustry, scoped, live, bench, free>>
globals == <<routingMode, routingIndustry, scoped>>
callers == <<live, bench, free>>

None == -1

\* A session: its status and client, where its process loop is and
\* how many tasks of the batch are left, inference_in_flight, the jobs that
\* wait in the pool or for a slot, those that call, and (history) those that raised.
SessionState ==
  [ status : {"unborn", "running", "stopped"}, client : {"mock", "real"},
    loop : {"top", "tasks", "ended", "dead"}, left : 0..BatchMax, count : 0..Cap,
    waiting : 0..Cap, calling : 0..Slots, raised : 0..MaxRaised ]

TypeOK ==
  /\ current \in Session \union {0}
  /\ ses \in [Session -> SessionState]
  /\ routingMode \in Mode /\ routingIndustry \in Industry
  /\ scoped \in BOOLEAN
  /\ live \in [{"session", "worker"} -> {"none", "idle", "calling", "dead"}]
  /\ bench \in None..Slots /\ free \in 0..Slots

\* start_live_monitoring and start_workers, at startup: either may fail, which is
\* logged; a worker without a live session has no client and makes no calls.
Init ==
  /\ current = 0
  /\ ses = [s \in Session |->
       [ status |-> "unborn", client |-> "mock", loop |-> "ended", left |-> 0,
         count |-> 0, waiting |-> 0, calling |-> 0, raised |-> 0 ]]
  /\ routingMode = "production" /\ routingIndustry = "basic"
  /\ scoped = FALSE
  /\ live \in [{"session", "worker"} -> {"none", "idle"}]
  /\ live["session"] = "none" => live["worker"] = "none"
  /\ bench = None /\ free = Slots

----------------------------------------------------------------------------
(* The session API: handlers without an await, one after another *)

\* stop: the event is set and the pool takes no more jobs; those it has it runs.
Stopped(all) ==
  [s \in Session |-> IF s = current THEN [all[s] EXCEPT !.status = "stopped"] ELSE all[s]]

Unborn == { s \in Session : ses[s].status = "unborn" }

Start(r) ==
  /\ Unborn # {}
  /\ LET s == Min(Unborn)
     IN  /\ current' = s
         /\ ses' = [Stopped(ses) EXCEPT ![s].status = "running", ![s].client = r.client, ![s].loop = "top"]
  /\ routingMode' = r.mode /\ routingIndustry' = r.industry
  /\ scoped' = (scoped \/ (r.scoped /\ live["session"] # "none"))
  /\ UNCHANGED callers

\* The session is stopped and stays the current one.
StopCurrent ==
  /\ current # 0
  /\ ses' = Stopped(ses)
  /\ UNCHANGED <<current, globals, callers>>

\* The globals and the live session's namespaces keep what start gave them.
Reset ==
  /\ ses' = Stopped(ses)
  /\ current' = 0
  /\ UNCHANGED <<globals, callers>>

API == StopCurrent \/ Reset \/ \E r \in Request : Start(r)

----------------------------------------------------------------------------
(* A session's emitter and process loop *)

Running(s) == ses[s].status = "running"

\* The emitter keeps the queue from staying empty.  Up to 500 signals are
\* drained; the agents and the correlation engine make of them any number of tasks.
Drain(s) ==
  /\ ses[s].loop = "top" /\ Running(s)
  /\ \E n \in 0..BatchMax : ses' = [ses EXCEPT ![s].loop = "tasks", ![s].left = n]
  /\ UNCHANGED free

\* Mutant of Submit: one more job than the cap.
SubmitOver(s) ==
  /\ ses[s].loop = "tasks" /\ ses[s].left > 0 /\ ses[s].count <= Cap
  /\ ses' = [ses EXCEPT ![s].count = @ + 1, ![s].left = @ - 1, ![s].waiting = @ + 1]
  /\ UNCHANGED free

\* Before each task the count is read; below the cap it goes up, and the pool
\* takes the job; a pool that was shut down raises, which ends the thread.
Submit(s) ==
  /\ ses[s].loop = "tasks" /\ ses[s].left > 0 /\ ses[s].count < Cap
  /\ \/ /\ Running(s)
        /\ ses' = [ses EXCEPT ![s].count = @ + 1, ![s].left = @ - 1, ![s].waiting = @ + 1]
     \/ /\ ~Running(s)
        /\ ses' = [ses EXCEPT ![s].count = @ + 1, ![s].left = 0, ![s].loop = "dead"]
  /\ UNCHANGED free

\* The tasks are done, or the cap is reached and the others are dropped.
EndBatch(s) ==
  /\ ses[s].loop = "tasks"
  /\ ses[s].left = 0 \/ ses[s].count >= Cap
  /\ ses' = [ses EXCEPT ![s].loop = "top", ![s].left = 0]
  /\ UNCHANGED free

LeaveLoop(s) ==
  /\ ses[s].loop = "top" /\ ses[s].status = "stopped"
  /\ ses' = [ses EXCEPT ![s].loop = "ended"]
  /\ UNCHANGED free

Process(s) == Drain(s) \/ Submit(s) \/ EndBatch(s) \/ LeaveLoop(s)

----------------------------------------------------------------------------
(* A session's pool: it outlives the session while it has jobs *)

\* A job that a thread of the pool takes up.
Begins(s) == ses[s].waiting > 0 /\ ses[s].calling < Pool

\* The mock client answers, or does not know the model: no slot is taken.
MockAnswer(s) ==
  /\ ses[s].client = "mock" /\ Begins(s)
  /\ ses' = [ses EXCEPT ![s].waiting = @ - 1, ![s].count = @ - 1]
  /\ UNCHANGED free

Acquire(s) ==
  /\ ses[s].client = "real" /\ Begins(s) /\ free > 0
  /\ ses' = [ses EXCEPT ![s].waiting = @ - 1, ![s].calling = @ + 1]
  /\ free' = free - 1

\* Mutant of TimeOut: the refused call stays counted.
TimeOutCounted(s) ==
  /\ ses[s].client = "real" /\ Begins(s) /\ free = 0
  /\ ses' = [ses EXCEPT ![s].waiting = @ - 1]
  /\ UNCHANGED free

\* No slot for 30 s: an error answer.
TimeOut(s) ==
  /\ ses[s].client = "real" /\ Begins(s) /\ free = 0
  /\ ses' = [ses EXCEPT ![s].waiting = @ - 1, ![s].count = @ - 1]
  /\ UNCHANGED free

\* An answer or an HTTP error.
Reply(s) ==
  /\ ses[s].calling > 0
  /\ ses' = [ses EXCEPT ![s].calling = @ - 1, ![s].count = @ - 1]
  /\ free' = free + 1

\* A malformed answer raises: the slot is given back, the count is not.
Raise(s) ==
  /\ ses[s].calling > 0 /\ ses[s].raised < MaxRaised
  /\ ses' = [ses EXCEPT ![s].calling = @ - 1, ![s].raised = @ + 1]
  /\ free' = free + 1

Work(s) == MockAnswer(s) \/ Acquire(s) \/ TimeOut(s) \/ Reply(s)

----------------------------------------------------------------------------
(* The live session's inference thread and the Kafka inference worker, which *)
(* have one client, and the runs of api/runs.py with the real client         *)

LiveAcquire(t) ==
  /\ live[t] = "idle" /\ free > 0
  /\ live' = [live EXCEPT ![t] = "calling"] /\ free' = free - 1
  /\ UNCHANGED bench

\* A call now would be answered "Rate limited" after 30 s, if no slot is given
\* back; the task is lost and nothing else changes.
Refused(t) == live[t] = "idle" /\ free = 0

\* Mutant of LiveReply: the slot is only given back after a good answer.
LiveReplyKeeps(t) ==
  /\ live[t] = "calling" /\ live' = [live EXCEPT ![t] = "idle"]
  /\ free' \in {free, free + 1}
  /\ UNCHANGED bench

LiveReply(t) ==
  /\ live[t] = "calling" /\ live' = [live EXCEPT ![t] = "idle"]
  /\ free' = free + 1
  /\ UNCHANGED bench

\* A malformed answer raises.  The worker counts an error and goes on; the
\* session's thread is not started again, as in StreamingSession!CallRaises.
LiveRaise(t) ==
  /\ live[t] = "calling"
  /\ live' = [live EXCEPT ![t] = IF t = "session" THEN "dead" ELSE "idle"]
  /\ free' = free + 1
  /\ UNCHANGED bench

\* start_synthetic_run, start_benchmark_run, start_capacity_run: the first run with
\* the real client begins; a run makes its calls one by one or from a pool.
BenchStart ==
  /\ bench = None /\ bench' = 0
  /\ UNCHANGED <<live, free>>

BenchAcquire ==
  /\ bench # None /\ free > 0
  /\ bench' = bench + 1 /\ free' = free - 1
  /\ UNCHANGED live

BenchReply ==
  /\ bench > 0
  /\ bench' = bench - 1 /\ free' = free + 1
  /\ UNCHANGED live

Others ==
  \/ \E t \in DOMAIN live : LiveAcquire(t) \/ LiveReply(t) \/ LiveRaise(t)
  \/ BenchStart \/ BenchAcquire \/ BenchReply

----------------------------------------------------------------------------
Next ==
  \/ API
  \/ /\ \E s \in Session : Process(s) \/ Work(s) \/ Raise(s)
     /\ UNCHANGED <<current, globals, live, bench>>
  \/ Others /\ UNCHANGED <<current, ses, globals>>

\* The loops and the pools' threads are scheduled, a slot is waited for at most
\* 30 s, and HTTP calls have timeouts.
Fairness == \A s \in Session :
  /\ WF_vars(Process(s) /\ UNCHANGED <<current, globals, live, bench>>)
  /\ WF_vars(Work(s) /\ UNCHANGED <<current, globals, live, bench>>)

Spec == Init /\ [][Next]_vars /\ Fairness

----------------------------------------------------------------------------
(* Properties *)

\* Under which settings of the globals every endpoint is a right one, with and
\* without the inference router.
RightRoutes == { set \in { <<m, i>> : m \in Mode, i \in Industry } :
  \A f \in Finding, router \in BOOLEAN : \A e \in Endpoints(f, set[1], set[2], router) :
    /\ e \in Served
    /\ Severe(f) /\ ~router /\ set[1] = "production" => e \in Gaudi }

\* max_in_flight: a session at its cap gets below it or is stopped, unless as
\* many of its calls as the cap have raised: inference_in_flight never goes
\* down for those, and no call is made again.
CapClears ==
  \A s \in Session :
    (ses[s].count = Cap) ~> (ses[s].count < Cap \/ ~Running(s) \/ ses[s].raised = Cap)

\* "Live monitoring unaffected": the live session and the worker find a slot within
\* 30 s as long as no synthetic session and no benchmark ran with the real client.
LiveRefused ==
  (\E t \in DOMAIN live : Refused(t)) => bench # None \/ \E s \in Session : ses[s].client = "real"

\* Every endpoint the task of a finding may be sent to is one the real client
\* knows; and without the inference router, production routing sends every
\* severe finding to a Gaudi model.
Routed == <<routingMode, routingIndustry>> \in RightRoutes
=============================================================================
