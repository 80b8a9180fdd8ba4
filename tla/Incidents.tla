------------------------------ MODULE Incidents ------------------------------
(***************************************************************************)
(* The incident lifecycle: the manager the API and the inference threads   *)
(* share (app/session/incident_manager.py, app/api/incidents.py), the      *)
(* write-behind queue and its writer thread (app/db.py), the incidents     *)
(* table, and a process that crashes or restarts at any point.             *)
(*                                                                         *)
(* Calls do not overlap here: every method call is one step.  The methods  *)
(* take no lock, and what calls of several threads do to each other (two   *)
(* incidents for one key, a request published twice) is the subject of     *)
(* IncidentThreads, which takes the same methods apart.  This module is    *)
(* about what becomes of their rows.                                       *)
(***************************************************************************)
EXTENDS IncidentManager

CONSTANTS
  SignalSeverity, \* severities the correlated signals carry
  Acks,        \* answers StarGate may give: TRUE, acknowledged; FALSE, not
  QueueCap,    \* maxlen of _write_queue, 100000 in the code
  BatchMax,    \* rows the writer takes at once, 2000 in the code
  MaxCalls,    \* bound: calls on the manager
  MaxBoots     \* bound: restarts

ASSUME SeverityAssumption == SignalSeverity \subseteq Severity
ASSUME AcksAssumption     == Acks \subseteq BOOLEAN
ASSUME QueueAssumption == QueueCap \in Nat \ {0} /\ BatchMax \in Nat \ {0}
ASSUME BoundAssumption == MaxCalls \in Nat /\ MaxBoots \in Nat

VARIABLES
  incs,        \* self._incidents
  index,       \* self._index
  queue,       \* app.db._write_queue, its rows of table "incidents"
  batch,       \* rows the writer thread took and has not written yet
  db,          \* the incidents table
  nextId,      \* the next uuid
  now,         \* clock: a call on the manager is a tick
  boots,       \* restarts so far
  writing,     \* init_db has started the writer thread
  lost         \* history: ids a row of which was dropped and not rewritten since

memory   == <<incs, index, nextId>>
durable  == <<queue, batch, db, lost>>
process  == <<boots, writing>>
vars     == <<memory, durable, now, process>>

Row == [ id : Id, inc : Incident ]

TypeOK ==
  /\ incs     \in [Id -> Incident]
  /\ index    \in [Key -> Id \cup {NoId}]
  /\ queue    \in Seq(Row)
  /\ batch    \in Seq(Row)
  /\ db       \in [Id -> Incident]
  /\ nextId   \in Nat
  /\ now      \in Nat
  /\ boots    \in Nat
  /\ writing  \in BOOLEAN
  /\ lost     \subseteq Id

Init ==
  /\ incs     = [ i \in Id |-> Absent ]
  /\ index    = [ k \in Key |-> NoId ]
  /\ queue    = << >>
  /\ batch    = << >>
  /\ db       = [ i \in Id |-> Absent ]
  /\ nextId   = 1
  /\ now      = 0
  /\ boots    = 0
  /\ writing  \in BOOLEAN
  /\ lost     = {}

Tick == now < MaxCalls /\ now' = now + 1 /\ UNCHANGED process

----------------------------------------------------------------------------
(* app/db.py: the bounded queue. *)

IdsOf(rows) == { r.id : r \in ToSet(rows) }

\* _persist: a snapshot of the whole row at the queue's end; a full deque
\* drops its oldest row.
Persist(i, inc) ==
  LET longer == Append(queue, [id |-> i, inc |-> inc])
      full   == Len(longer) > QueueCap
  IN  /\ queue' = IF full THEN Tail(longer) ELSE longer
      /\ lost'  = (lost \ {i}) \cup (IF full THEN {Head(longer).id} ELSE {})
      /\ UNCHANGED <<batch, db>>

TakeBatch ==
  /\ writing /\ batch = << >>
  /\ queue # << >>
  /\ LET n == IF Len(queue) < BatchMax THEN Len(queue) ELSE BatchMax
     IN  /\ batch' = SubSeq(queue, 1, n)
         /\ queue' = SubSeq(queue, n + 1, Len(queue))
  /\ UNCHANGED <<memory, db, lost, now, process>>

UpsertRow ==
  /\ batch # << >>
  /\ db'    = [ db EXCEPT ![Head(batch).id] = Head(batch).inc ]
  /\ batch' = Tail(batch)
  /\ UNCHANGED <<memory, queue, lost, now, process>>

\* One upsert fails: it is logged and the row is gone.
SkipRow ==
  /\ batch # << >>
  /\ lost'  = lost \cup {Head(batch).id}
  /\ batch' = Tail(batch)
  /\ UNCHANGED <<memory, queue, db, now, process>>

\* The connection fails: so is the rest of the batch.
LoseBatch ==
  /\ batch # << >>
  /\ lost'  = lost \cup IdsOf(batch)
  /\ batch' = << >>
  /\ UNCHANGED <<memory, queue, db, now, process>>

Writer == TakeBatch \/ UpsertRow \/ SkipRow \/ LoseBatch

----------------------------------------------------------------------------
(* The manager's methods. *)

\* escalate_to_tarsy, called after _persist: the flag is not in the row just
\* queued.  A failing publish is logged and the flag set all the same.
Escalate(i, inc) ==
  incs' = [ incs EXCEPT ![i] = IF ShouldEscalate(inc)
                               THEN [ inc EXCEPT !.escalated = TRUE ] ELSE inc ]

\* Mutant of ProcessSignal: reopens the incident the index still points at.
ProcessSignalReopens(k, sig, sev) ==
  LET i   == IF index[k] = NoId THEN nextId ELSE index[k]
      inc == IF index[k] = NoId THEN NewIncident(k, sig, sev, now + 1)
             ELSE [ AppendSignal(incs[i], sig, sev, now + 1) EXCEPT !.status = "open" ]
  IN  /\ Tick
      /\ i \in Id
      /\ index'  = [ index EXCEPT ![k] = i ]
      /\ nextId' = IF index[k] = NoId THEN nextId + 1 ELSE nextId
      /\ Persist(i, inc)
      /\ Escalate(i, inc)

ProcessSignal(k, sig, sev) ==
  LET open == FindOpen(incs, index, k)
      i    == IF open = NoId THEN nextId ELSE open
      inc  == IF open = NoId THEN NewIncident(k, sig, sev, now + 1)
              ELSE AppendSignal(incs[open], sig, sev, now + 1)
  IN  /\ Tick
      /\ i \in Id
      /\ index'  = [ index EXCEPT ![k] = i ]
      /\ nextId' = IF open = NoId THEN nextId + 1 ELSE nextId
      /\ Persist(i, inc)
      /\ Escalate(i, inc)

AddClassification(k, c) ==
  LET i == FindOpen(incs, index, k)
  IN  /\ Tick
      /\ i # NoId
      /\ incs' = [ incs EXCEPT ![i] = Classified(incs[i], c) ]
      /\ Persist(i, Classified(incs[i], c))
      /\ UNCHANGED <<index, nextId>>

\* _maybe_publish_to_stargate, after _persist.  `acked` is what the HTTP call
\* answers: a timeout, a refusal and an unset STARGATE_API_URL all leave the
\* flag down.
StarGate(i, inc, acked) ==
  incs' = [ incs EXCEPT ![i] = IF ShouldPublish(inc) /\ acked
                               THEN [ inc EXCEPT !.published = TRUE ] ELSE inc ]

AddInference(k, task, text, acked) ==
  LET i == FindOpen(incs, index, k)
  IN  /\ Tick
      /\ i # NoId
      /\ CanInfer(incs[i])
      /\ Persist(i, Inferred(incs[i], task, text))
      /\ StarGate(i, Inferred(incs[i], task, text), acked)
      /\ UNCHANGED <<index, nextId>>

AddRemediationOption(k, a, acked) ==
  LET i == FindOpen(incs, index, k)
  IN  /\ Tick
      /\ i # NoId
      /\ CanOffer(incs[i], a)
      /\ Persist(i, Offered(incs[i], a))
      /\ StarGate(i, Offered(incs[i], a), acked)
      /\ UNCHANGED <<index, nextId>>

\* Mutant of ResolveIncident: a status the rest of the code does not know.
ResolveClosed(i) ==
  /\ Tick
  /\ incs[i].status # "absent"
  /\ incs'  = [ incs EXCEPT ![i].status = "closed" ]
  /\ index' = [ k \in Key |-> IF k = incs[i].key /\ index[k] = i THEN NoId ELSE index[k] ]
  /\ Persist(i, [ incs[i] EXCEPT !.status = "closed" ])
  /\ UNCHANGED nextId

\* Mutant of ResolveIncident: resolves in memory, queues nothing.
ResolveUnwritten(i) ==
  /\ Tick
  /\ incs[i].status # "absent"
  /\ incs'  = [ incs EXCEPT ![i].status = "resolved" ]
  /\ index' = [ k \in Key |-> IF k = incs[i].key /\ index[k] = i THEN NoId ELSE index[k] ]
  /\ UNCHANGED <<nextId, durable>>

ResolveIncident(i) ==
  /\ Tick
  /\ incs[i].status # "absent"
  /\ incs'  = [ incs EXCEPT ![i].status = "resolved" ]
  /\ index' = [ k \in Key |-> IF k = incs[i].key /\ index[k] = i THEN NoId ELSE index[k] ]
  /\ Persist(i, [ incs[i] EXCEPT !.status = "resolved" ])
  /\ UNCHANGED nextId

\* The API's suppress writes the dictionary and nothing else.
SuppressIncident(i) ==
  /\ Tick
  /\ incs[i].status # "absent"
  /\ incs' = [ incs EXCEPT ![i].status = "suppressed" ]
  /\ UNCHANGED <<index, nextId, durable>>

----------------------------------------------------------------------------
(* The process dies and comes back: memory, queue and batch are gone.      *)
(* init_db starts a writer if it gets a pool and applies the migrations;   *)
(* the new manager, which connects for itself, loads the table or cannot   *)
(* for 10 s and starts empty.                                              *)

Restart(connected, loaded) ==
  LET rows == IF loaded THEN db ELSE [ i \in Id |-> Absent ]
  IN  /\ boots < MaxBoots
      /\ boots'   = boots + 1
      /\ writing' = connected
      /\ incs'    = LoadIncidents(rows)
      /\ index'   \in LoadIndexes(rows)
      /\ queue'   = << >>
      /\ batch'   = << >>
      /\ lost'    = {}
      /\ UNCHANGED <<nextId, now, db>>

Call ==
  \/ \E k \in Key, sig \in Sig, sev \in SignalSeverity : ProcessSignal(k, sig, sev)
  \/ \E k \in Key, c \in Class : AddClassification(k, c)
  \/ \E k \in Key, task \in Task, text \in Text \cup {None}, acked \in Acks :
       AddInference(k, task, text, acked)
  \/ \E k \in Key, a \in Option, acked \in Acks : AddRemediationOption(k, a, acked)
  \/ \E i \in Id : ResolveIncident(i)
  \/ \E i \in Id : SuppressIncident(i)

Next ==
  \/ Call
  \/ Writer
  \/ \E connected, loaded \in BOOLEAN : Restart(connected, loaded)

Spec == Init /\ [][Next]_vars

\* A writer thread that was started loops until the process ends; it swallows
\* every error.
FairSpec == Spec /\ WF_vars(Writer)

----------------------------------------------------------------------------
(* Properties *)

IsOpen(i) == incs[i].status = "open"

\* "Same namespace+signal_type appends to existing open incident rather than
\* creating duplicates" (incident_manager.py, docstring): no two open
\* incidents of a key.  The code does not keep it across a restart.
OneOpenPerKey ==
  \A i, j \in Id : IsOpen(i) /\ IsOpen(j) /\ incs[i].key = incs[j].key => i = j

\* `row` can be a snapshot of an earlier state of `inc`: nothing an incident
\* accumulates (signals, severity, inferences, options, flags) is more
\* advanced in it, and it is not closed while the incident is open.
Precedes(row, inc) ==
  /\ row.key = inc.key
  /\ IsPrefix(row.signals, inc.signals)
  /\ SevRank[row.severity] <= SevRank[inc.severity]
  /\ row.seen <= inc.seen
  /\ row.infers <= inc.infers
  /\ row.options \subseteq inc.options
  /\ row.escalated => inc.escalated
  /\ row.published => inc.published
  /\ row.status \in {"open", inc.status} \/ inc.status \in {"resolved", "suppressed"}

InFlight == ToSet(batch) \cup ToSet(queue)

\* The table and the queue never run ahead of memory: every row of an incident
\* the manager holds, written or on its way, is one of its earlier snapshots.
DbBehindMemory ==
  \A i \in Id : incs[i].status # "absent" =>
     /\ db[i].status # "absent" => Precedes(db[i], incs[i])
     /\ \A r \in InFlight : r.id = i => Precedes(r.inc, incs[i])

\* The last of an incident's rows in a queue or a batch.
LastRow(rows, i) == rows[Max({ n \in DOMAIN rows : rows[n].id = i })].inc

\* The row the table will hold once the writer has drained what is queued: the
\* queue is written after the batch.
DrainedRow(i) ==
  IF i \in IdsOf(queue) THEN LastRow(queue, i)
  ELSE IF i \in IdsOf(batch) THEN LastRow(batch, i)
  ELSE db[i]

\* Every change a method makes is queued: unless a row was dropped, draining
\* the queue brings the table up to memory, but for the two flags that are
\* set after the row is queued and the suppression that is never written.
Unwritten(inc) ==
  [ inc EXCEPT !.escalated = FALSE, !.published = FALSE,
               !.status = IF @ = "suppressed" THEN "open" ELSE @ ]

WriteBehindComplete ==
  \A i \in Id \ lost : incs[i].status \notin {"absent", "suppressed"} =>
     Unwritten(DrainedRow(i)) = Unwritten(incs[i])

\* A resolved or suppressed incident is not opened again by anything the
\* process does; only a restart can bring it back.
ClosedStaysClosed ==
  [][ boots' = boots =>
        \A i \in Id : incs[i].status \in {"resolved", "suppressed"} =>
                       incs'[i].status \in {"resolved", "suppressed"} ]_vars

\* A resolution that neither the queue nor the writer drops reaches the table,
\* provided that the process got a writer when it started: without one nothing
\* is written until the next start, which forgets the queue.
ResolutionReachesTable ==
  \A i \in Id :
     (writing /\ incs[i].status = "resolved") ~>
        (db[i].status = "resolved" \/ i \in lost \/ incs[i].status # "resolved")

\* A crash costs only what had not reached the table: of the incidents whose rows
\* are all written, the next process forgets the resolved ones and has the open
\* ones as they were, unless it could not load or the limit of the load went to
\* incidents seen later.
RestartRestores ==
  [][ boots' # boots =>
        \A i \in Id \ lost : i \notin IdsOf(batch) \cup IdsOf(queue) =>
          /\ incs[i].status = "resolved" => incs'[i].status = "absent"
          /\ incs[i].status = "open" =>
               \/ Unwritten(incs'[i]) = Unwritten(incs[i])
               \/ incs' = [ j \in Id |-> Absent ]
               \/ Cardinality({ j \in Id : incs'[j].status = "open" /\ incs'[j].seen > incs[i].seen })
                    >= LoadLimit ]_vars

\* "Publish incident to StarGate when severity is critical/high, has RCA and
\* remediation" (_maybe_publish_to_stargate, docstring): an open incident that
\* has all three, and that no further inference or option would push, has been
\* pushed.  Checked for a StarGate that acknowledges every push; the code does
\* not keep it, since a later signal that raises the severity does not push.
ReadyIsPublished ==
  \A i \in Id :
     /\ IsOpen(i)
     /\ ReadyForStarGate(incs[i])
     /\ ~CanInfer(incs[i])
     /\ \A a \in Option : ~CanOffer(incs[i], a)
     => incs[i].published

=============================================================================
