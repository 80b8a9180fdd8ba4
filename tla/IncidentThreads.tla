--------------------------- MODULE IncidentThreads ---------------------------
(***************************************************************************)
(* The incident manager under the threads that share it.  No method of     *)
(* app/session/incident_manager.py takes a lock, and three threads call it *)
(* in one process: the streaming session's inference thread and the Kafka  *)
(* InferenceWorker, which both run _feed_incident, and the event loop that *)
(* serves the API.  A method is cut where it calls a function, which is    *)
(* where the interpreter may switch threads: between the lookup, the       *)
(* dedupe or cap check, the append, the severity comparison, the severity  *)
(* assignment, the row's snapshot, its enqueueing, the notification and    *)
(* the flag.                                                               *)
(*                                                                         *)
(* The write queue keeps its order, so what the table holds once drained   *)
(* is the row enqueued last: `stored`.  Lost rows and restarts are the     *)
(* subject of Incidents.                                                   *)
(***************************************************************************)
EXTENDS IncidentManager

CONSTANTS
  Feeder,     \* threads that run _feed_incident
  Api,        \* the event loop's thread
  Feeds,      \* the tasks a feeder may get: [key : Key, calls : Seq(Call)]
  MaxFeeds,   \* bound: tasks fed
  MaxCloses   \* bound: resolves and suppressions

ASSUME ThreadAssumption == Api \notin Feeder /\ IsFiniteSet(Feeder)
ASSUME CountAssumption  == MaxFeeds \in Nat /\ MaxCloses \in Nat

VARIABLES
  incs,      \* self._incidents
  index,     \* self._index
  nextId,    \* the next uuid
  th,        \* the threads' local variables and program counters
  stored,    \* the row of each incident enqueued last
  tarsy,     \* history: escalation requests published
  accepted,  \* history: StarGate pushes acknowledged
  fed,       \* tasks fed so far
  closes     \* resolves and suppressions so far

vars == <<incs, index, nextId, th, stored, tarsy, accepted, fed, closes>>

Thread == Feeder \cup {Api}

\* The calls a task makes on the manager, in order.
Call ==
       [ op : {"signal"}, sig : Sig, sev : Severity ]
  \cup [ op : {"infer"}, task : Task, text : Text \cup {None} ]
  \cup [ op : {"classify"}, class : Class ]
  \cup [ op : {"offer"}, action : Option ]
  \cup [ op : {"resolve"} ]

Feed == [ key : Key, calls : Seq(Call) ]

\* A task that makes no call changes nothing and is left out.
ASSUME FeedAssumption == Feeds \subseteq Feed /\ \A f \in Feeds : f.calls # << >>

Place == {"idle", "start", "create", "check", "apply", "rank", "raise",
          "mark", "test", "unindex", "snap", "enqueue", "notify", "flag"}

Local ==
  [ at    : Place,
    key   : Key \cup {None},
    todo  : Seq(Call),
    found : Id \cup {NoId},  \* the incident the call works on
    sees  : BOOLEAN,         \* outcome of its last check
    row   : Incident ]       \* its snapshot, not enqueued yet

Idle == [ at |-> "idle", key |-> None, todo |-> << >>, found |-> NoId,
          sees |-> FALSE, row |-> Absent ]

TypeOK ==
  /\ incs     \in [Id -> Incident]
  /\ index    \in [Key -> Id \cup {NoId}]
  /\ nextId   \in Nat
  /\ th       \in [Thread -> Local]
  /\ stored   \in [Id -> Incident]
  /\ tarsy    \in [Id -> Nat]
  /\ accepted \in [Id -> Nat]
  /\ fed      \in Nat
  /\ closes   \in Nat

Init ==
  /\ incs     = [ i \in Id |-> Absent ]
  /\ index    = [ k \in Key |-> NoId ]
  /\ nextId   = 1
  /\ th       = [ t \in Thread |-> Idle ]
  /\ stored   = [ i \in Id |-> Absent ]
  /\ tarsy    = [ i \in Id |-> 0 ]
  /\ accepted = [ i \in Id |-> 0 ]
  /\ fed      = 0
  /\ closes   = 0

----------------------------------------------------------------------------
(* Where a thread is *)

Op(t)  == Head(th[t].todo).op
Inc(t) == incs[th[t].found]

AtOp(t, place, ops) ==
  /\ th[t].at = place
  /\ Op(t) \in ops

Goto(t, place) == th' = [ th EXCEPT ![t].at = place ]

\* The local state once the current call has returned.
Returned(l) ==
  IF Len(l.todo) = 1 THEN Idle
  ELSE [ l EXCEPT !.at = "start", !.todo = Tail(@), !.found = NoId,
                  !.sees = FALSE, !.row = Absent ]

Return(t) == th' = [ th EXCEPT ![t] = Returned(@) ]

SetInc(t, inc) == incs' = [ incs EXCEPT ![th[t].found] = inc ]

----------------------------------------------------------------------------
(* Lookups *)

\* _feed_incident gets a task.
StartFeed(t, feed) ==
  /\ th[t].at = "idle"
  /\ fed < MaxFeeds
  /\ fed' = fed + 1
  /\ th'  = [ th EXCEPT ![t] = [ Idle EXCEPT !.at = "start", !.key = feed.key,
                                             !.todo = feed.calls ] ]
  /\ UNCHANGED <<incs, index, nextId, stored, tarsy, accepted, closes>>

\* process_signal: is there an open incident of the key?
LookSignal(t) ==
  LET i == FindOpen(incs, index, th[t].key)
  IN  /\ AtOp(t, "start", {"signal"})
      /\ th' = [ th EXCEPT ![t].found = i,
                           ![t].at = IF i = NoId THEN "create" ELSE "check" ]
      /\ UNCHANGED <<incs, index, nextId, stored, tarsy, accepted, fed, closes>>

\* _find_open, at the start of every enrichment: without an incident the call
\* returns.
LookEnrich(t) ==
  LET i == FindOpen(incs, index, th[t].key)
  IN  /\ AtOp(t, "start", {"infer", "classify", "offer"})
      /\ IF i = NoId
         THEN Return(t)
         ELSE th' = [ th EXCEPT ![t].found = i,
                                ![t].at = IF Op(t) = "classify" THEN "apply" ELSE "check" ]
      /\ UNCHANGED <<incs, index, nextId, stored, tarsy, accepted, fed, closes>>

\* process_signal's second half, after the dictionaries said there is none.
Create(t) ==
  /\ th[t].at = "create"
  /\ nextId \in Id
  /\ incs'   = [ incs EXCEPT ![nextId] = NewIncident(th[t].key, Head(th[t].todo).sig,
                                                     Head(th[t].todo).sev, 0) ]
  /\ index'  = [ index EXCEPT ![th[t].key] = nextId ]
  /\ nextId' = nextId + 1
  /\ th'     = [ th EXCEPT ![t].found = nextId, ![t].at = "snap" ]
  /\ UNCHANGED <<stored, tarsy, accepted, fed, closes>>

----------------------------------------------------------------------------
(* Check, then act *)

\* The dedupe and cap checks: `sees` is what this thread will act on.  An
\* enrichment that may not be added returns.
Check(t) ==
  LET call == Head(th[t].todo)
      may  == CASE call.op = "signal" -> Fresh(Inc(t), call.sig)
                [] call.op = "infer"  -> CanInfer(Inc(t))
                [] call.op = "offer"  -> CanOffer(Inc(t), call.action)
  IN  /\ th[t].at = "check"
      /\ IF may \/ call.op = "signal"
         THEN th' = [ th EXCEPT ![t].sees = may, ![t].at = "apply" ]
         ELSE Return(t)
      /\ UNCHANGED <<incs, index, nextId, stored, tarsy, accepted, fed, closes>>

\* Mutant of Enriched: a full evidence list makes room for the newest signal.
EnrichedSliding(inc, call, sees) ==
  CASE call.op = "signal"   -> IF sees THEN WithSignal(inc, call.sig)
                               ELSE [ inc EXCEPT !.signals = <<call.sig>> ]
    [] call.op = "infer"    -> Inferred(inc, call.task, call.text)
    [] call.op = "classify" -> Classified(inc, call.class)
    [] call.op = "offer"    -> Offered(inc, call.action)

\* What a call makes of the incident, given what it saw.
Enriched(inc, call, sees) ==
  CASE call.op = "signal"   -> IF sees THEN WithSignal(inc, call.sig) ELSE inc
    [] call.op = "infer"    -> Inferred(inc, call.task, call.text)
    [] call.op = "classify" -> Classified(inc, call.class)
    [] call.op = "offer"    -> Offered(inc, call.action)

Apply(t) ==
  /\ th[t].at = "apply"
  /\ SetInc(t, Enriched(Inc(t), Head(th[t].todo), th[t].sees))
  /\ Goto(t, IF Op(t) = "signal" THEN "rank" ELSE "snap")
  /\ UNCHANGED <<index, nextId, stored, tarsy, accepted, fed, closes>>

\* The severity is compared, and assigned a step later.
Rank(t) ==
  /\ th[t].at = "rank"
  /\ th' = [ th EXCEPT ![t].sees = SevRank[Head(th[t].todo).sev] > SevRank[Inc(t).severity],
                       ![t].at = "raise" ]
  /\ UNCHANGED <<incs, index, nextId, stored, tarsy, accepted, fed, closes>>

Raise(t) ==
  /\ th[t].at = "raise"
  /\ SetInc(t, IF th[t].sees THEN [ Inc(t) EXCEPT !.severity = Head(th[t].todo).sev ]
                             ELSE Inc(t))
  /\ Goto(t, "snap")
  /\ UNCHANGED <<index, nextId, stored, tarsy, accepted, fed, closes>>

----------------------------------------------------------------------------
(* _persist: a snapshot, then the queue *)

Snap(t) ==
  /\ th[t].at = "snap"
  /\ th' = [ th EXCEPT ![t].row = Inc(t), ![t].at = "enqueue" ]
  /\ UNCHANGED <<incs, index, nextId, stored, tarsy, accepted, fed, closes>>

Enqueue(t) ==
  /\ th[t].at = "enqueue"
  /\ stored' = [ stored EXCEPT ![th[t].found] = th[t].row ]
  /\ IF Op(t) \in {"classify", "resolve"} THEN Return(t) ELSE Goto(t, "notify")
  /\ UNCHANGED <<incs, index, nextId, tarsy, accepted, fed, closes>>

----------------------------------------------------------------------------
(* Notifications: the condition is read and the request sent; the flag that *)
(* makes the condition false is set when the request has returned.          *)

Escalate(t) ==
  /\ AtOp(t, "notify", {"signal"})
  /\ IF ShouldEscalate(Inc(t))
     THEN /\ tarsy' = [ tarsy EXCEPT ![th[t].found] = @ + 1 ]
          /\ Goto(t, "flag")
     ELSE /\ UNCHANGED tarsy
          /\ Return(t)
  /\ UNCHANGED <<incs, index, nextId, stored, accepted, fed, closes>>

StarGate(t, acked) ==
  /\ AtOp(t, "notify", {"infer", "offer"})
  /\ IF ShouldPublish(Inc(t)) /\ acked
     THEN /\ accepted' = [ accepted EXCEPT ![th[t].found] = @ + 1 ]
          /\ Goto(t, "flag")
     ELSE /\ UNCHANGED accepted
          /\ Return(t)
  /\ UNCHANGED <<incs, index, nextId, stored, tarsy, fed, closes>>

\* Mutant of Flag: the flag is set on the snapshot, not on the incident.
FlagSnapshot(t) ==
  /\ th[t].at = "flag"
  /\ Return(t)
  /\ UNCHANGED <<incs, index, nextId, stored, tarsy, accepted, fed, closes>>

Flag(t) ==
  /\ th[t].at = "flag"
  /\ SetInc(t, IF Op(t) = "signal" THEN [ Inc(t) EXCEPT !.escalated = TRUE ]
                                   ELSE [ Inc(t) EXCEPT !.published = TRUE ])
  /\ Return(t)
  /\ UNCHANGED <<index, nextId, stored, tarsy, accepted, fed, closes>>

----------------------------------------------------------------------------
(* The API's thread *)

\* Mutant of ResolveMark: a status the rest of the code does not know.
ResolveMarkClosed(i) ==
  /\ th[Api].at = "idle"
  /\ incs[i].status # "absent"
  /\ closes < MaxCloses
  /\ closes' = closes + 1
  /\ incs'   = [ incs EXCEPT ![i].status = "closed" ]
  /\ th'     = [ th EXCEPT ![Api] = [ Idle EXCEPT !.at = "test", !.key = incs[i].key,
                                       !.found = i, !.todo = <<[op |-> "resolve"]>> ] ]
  /\ UNCHANGED <<index, nextId, stored, tarsy, accepted, fed>>

\* resolve_incident: the status first, ...
ResolveMark(i) ==
  /\ th[Api].at = "idle"
  /\ incs[i].status # "absent"
  /\ closes < MaxCloses
  /\ closes' = closes + 1
  /\ incs'   = [ incs EXCEPT ![i].status = "resolved" ]
  /\ th'     = [ th EXCEPT ![Api] = [ Idle EXCEPT !.at = "test", !.key = incs[i].key,
                                       !.found = i, !.todo = <<[op |-> "resolve"]>> ] ]
  /\ UNCHANGED <<index, nextId, stored, tarsy, accepted, fed>>

\* ... then `if self._index.get(key) == incident_id`, ...
ResolveTest ==
  /\ th[Api].at = "test"
  /\ th' = [ th EXCEPT ![Api].sees = index[th[Api].key] = th[Api].found,
                       ![Api].at = "unindex" ]
  /\ UNCHANGED <<incs, index, nextId, stored, tarsy, accepted, fed, closes>>

\* ... then `del self._index[key]`, whatever the entry has become.
ResolveUnindex ==
  /\ th[Api].at = "unindex"
  /\ index' = IF th[Api].sees THEN [ index EXCEPT ![th[Api].key] = NoId ] ELSE index
  /\ Goto(Api, "snap")
  /\ UNCHANGED <<incs, nextId, stored, tarsy, accepted, fed, closes>>

SuppressIncident(i) ==
  /\ th[Api].at = "idle"
  /\ incs[i].status # "absent"
  /\ closes < MaxCloses
  /\ closes' = closes + 1
  /\ incs'   = [ incs EXCEPT ![i].status = "suppressed" ]
  /\ UNCHANGED <<index, nextId, th, stored, tarsy, accepted, fed>>

----------------------------------------------------------------------------
Step(t) ==
  \/ LookSignal(t)
  \/ LookEnrich(t)
  \/ Create(t)
  \/ Check(t)
  \/ Apply(t)
  \/ Rank(t)
  \/ Raise(t)
  \/ Snap(t)
  \/ Enqueue(t)
  \/ Escalate(t)
  \/ \E acked \in BOOLEAN : StarGate(t, acked)
  \/ Flag(t)

Next ==
  \/ \E t \in Feeder, feed \in Feeds : StartFeed(t, feed)
  \/ \E t \in Feeder : Step(t)
  \/ \E i \in Id : ResolveMark(i) \/ SuppressIncident(i)
  \/ ResolveTest
  \/ ResolveUnindex
  \/ Snap(Api)
  \/ Enqueue(Api)

Spec == Init /\ [][Next]_vars

----------------------------------------------------------------------------
(* Properties *)

\* A process_signal call past its append has its signal in the evidence of the
\* incident it found, or found the evidence full: another thread's append
\* between the dedupe check and this one loses nothing.
SignalRecorded ==
  \A t \in Feeder :
     th[t].at \in {"rank", "raise", "snap", "enqueue", "notify", "flag"} /\ Op(t) = "signal"
       => \/ Head(th[t].todo).sig \in ToSet(Inc(t).signals)
          \/ Len(Inc(t).signals) >= MaxSignals

\* What an incident has accumulated is never taken back, whichever threads
\* work on it: signals are only added at the end, and inferences, options and
\* the two flags stay.  (Severity is not on the list: Rank and Raise of two
\* feeders can lower it.)
EvidenceGrows ==
  [][ \A i \in Id : incs[i].status # "absent" =>
        /\ IsPrefix(incs[i].signals, incs'[i].signals)
        /\ incs[i].count <= incs'[i].count
        /\ incs[i].infers <= incs'[i].infers
        /\ incs[i].options \subseteq incs'[i].options
        /\ incs[i].escalated => incs'[i].escalated
        /\ incs[i].published => incs'[i].published ]_vars

\* The cap on signals is checked before the append and not with it, so each
\* further feeder may overshoot it by one entry, and no more than that.
SignalsOvershoot ==
  \A i \in Id : Len(incs[i].signals) <= MaxSignals + Cardinality(Feeder) - 1

\* TARSy is asked, and StarGate accepts, at most once for each feeder: one that
\* has notified sets the flag before it looks at it again.
NotifiedPerFeeder ==
  \A i \in Id : /\ tarsy[i]    <= Cardinality(Feeder)
                /\ accepted[i] <= Cardinality(Feeder)

\* Feeders that look a key up together each create an incident, and a key's
\* entry can be lost twice for each closing: once when the incident stops being
\* open and once when resolve_incident deletes an entry that has meanwhile
\* become another incident's.  Duplicates have no other cause.
DuplicatesBounded ==
  \A k \in Key :
     Cardinality({ i \in Id : incs[i].key = k }) <= Cardinality(Feeder) * (1 + 2 * closes)

Quiet == \A t \in Thread : th[t].at = "idle"

\* "creates/updates incident, stores in PostgreSQL" (README.md): with every
\* thread idle, a resolved incident is stored as resolved.  The code does not
\* keep it: a feeder's snapshot from before the resolution can be enqueued
\* after the resolution's own row, and the next process loads it as open.
ResolutionStored ==
  Quiet => \A i \in Id : incs[i].status = "resolved" => stored[i].status = "resolved"

=============================================================================
