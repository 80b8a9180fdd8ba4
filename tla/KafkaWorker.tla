----------------------------- MODULE KafkaWorker -----------------------------
(***************************************************************************)
(* A Kafka worker (app/workers/base.py, started and stopped by             *)
(* app/workers/manager.py): one thread polls a batch of records, gives     *)
(* them one by one to the handler and counts its errors; the consumer      *)
(* commits its positions every now and then when it polls, and when it is  *)
(* closed.  stop() sets the flag and closes the consumer from another      *)
(* thread; the process may also be killed, and starts again.               *)
(*                                                                         *)
(* The broker is external and modelled from how the worker uses it: a      *)
(* position counts the records yielded, the one in the handler included; a *)
(* worker that its group drops cannot commit, and starts again from what   *)
(* is committed, or from the end if nothing is (auto_offset_reset).  A     *)
(* poll that raises on a record it cannot decode is tried again at the     *)
(* same position.                                                          *)
(***************************************************************************)
EXTENDS Integers, FiniteSets, FiniteSetsExt

CONSTANTS
  Partition, \* partitions of the topic, all assigned to the worker
  MaxLog,    \* bound: records published to each partition
  MaxBoots,  \* bound: starts of the process
  MaxTrouble,\* bound: memberships that lapse and closes that cannot commit
  MaxGarbled \* bound: records that cannot be decoded

ASSUME KafkaWorkerAssumption ==
  /\ IsFiniteSet(Partition) /\ MaxLog \in Nat /\ MaxBoots \in Nat
  /\ MaxTrouble \in Nat /\ MaxGarbled \in Nat

None == -1

VARIABLES
  log,       \* the topic: number of records of each partition
  garbled,   \* those of its records that value_deserializer cannot decode
  committed, \* the group's stored positions, or None
  member,    \* the consumer is a member of its group
  pos,       \* the consumer's positions: records yielded
  fetched,   \* records fetched of each partition
  thread,    \* the worker's thread
  current,   \* the record in the handler, or None
  stopping,  \* stop(): not called, the flag is set, the consumer is closed
  handled,   \* history: how often the handler returned or raised for each record
  reached,   \* history: records given to the handler or passed over
  skipped,   \* history: unhandled records that a start at the end passed over
  boots, stops, kills, \* how often that happened
  lapses,    \* how often the group dropped the worker
  failed     \* how often a close could not commit

consumer == <<committed, member, pos, fetched, reached, skipped>>
topic    == <<log, garbled>>
counts   == <<boots, stops, kills, lapses, failed>>
vars     == <<topic, consumer, thread, current, stopping, handled, counts>>

Record == Partition \X (1..MaxLog)

TypeOK ==
  /\ log \in [Partition -> 0..MaxLog]
  /\ \A p \in Partition : /\ committed[p] \in None..log[p]
                          /\ pos[p] \in 0..fetched[p] /\ fetched[p] \in 0..log[p]
                          /\ reached[p] \in pos[p]..log[p]
  /\ member \in BOOLEAN
  /\ thread \in {"none", "connect", "poll", "batch", "handle", "leave", "exited"}
  /\ thread = "handle" <=> current # <<>>
  /\ current \in Record \union {<<>>} /\ skipped \union garbled \subseteq Record
  /\ stopping \in {"no", "asked", "closed"}
  /\ boots \in 0..MaxBoots /\ stops + kills \in 0..2 * MaxBoots
  /\ {lapses, failed, lapses + failed} \subseteq 0..MaxTrouble

Init ==
  /\ log = [p \in Partition |-> 0] /\ garbled = {}
  /\ committed = [p \in Partition |-> None] /\ member = FALSE
  /\ pos = [p \in Partition |-> 0] /\ fetched = pos /\ reached = pos
  /\ thread = "none" /\ current = <<>> /\ stopping = "no"
  /\ handled = [r \in Record |-> 0] /\ skipped = {}
  /\ boots = 0 /\ stops = 0 /\ kills = 0 /\ lapses = 0 /\ failed = 0

\* Whoever publishes to the topic: a record, JSON or not.
Publish(p) ==
  /\ log[p] < MaxLog /\ log' = [log EXCEPT ![p] = @ + 1]
  /\ \/ UNCHANGED garbled
     \/ Cardinality(garbled) < MaxGarbled /\ garbled' = garbled \union {<<p, log'[p]>>}
  /\ UNCHANGED <<consumer, thread, current, stopping, handled, counts>>

----------------------------------------------------------------------------
(* The process *)

\* start_workers: the thread is created.
Boot ==
  /\ thread = "none" /\ boots < MaxBoots
  /\ boots' = boots + 1 /\ thread' = "connect" /\ stopping' = "no"
  /\ UNCHANGED <<topic, consumer, current, handled, stops, kills, lapses, failed>>

\* The process ends with the thread wherever it is.
End ==
  /\ thread' = "none" /\ current' = <<>> /\ member' = FALSE
  /\ UNCHANGED <<topic, committed, pos, fetched, reached, skipped, stopping, handled,
                 boots, lapses, failed>>

\* The process ends when stop_workers has returned; the thread is a daemon.
Exit == thread # "none" /\ stopping = "closed" /\ End /\ UNCHANGED <<stops, kills>>

Kill == thread # "none" /\ stopping # "closed" /\ End /\ kills' = kills + 1 /\ UNCHANGED stops

----------------------------------------------------------------------------
(* The consumer *)

HasConsumer == thread \notin {"none", "connect", "exited"} /\ stopping # "closed"

\* Mutant of Start: a consumer always starts at the end.
StartAtEnd(p) == log[p]

\* Where a consumer that joins the group starts.
Start(p) == IF committed[p] = None THEN log[p] ELSE committed[p]

\* The group assigns the partitions.
Join ==
  /\ member' = TRUE
  /\ pos' = [p \in Partition |-> Start(p)]
  /\ fetched' = pos'
  /\ reached' = [p \in Partition |-> Max({reached[p], Start(p)})]
  /\ skipped' = skipped \union
       { r \in Record : committed[r[1]] = None /\ r[2] <= log[r[1]] /\ handled[r] = 0 }
  /\ UNCHANGED committed

\* Mutant of Positions: what was fetched is committed.
PositionsFetched == fetched

\* Mutant of Positions: the offset of the last record, not of the one after it.
PositionsLast == [p \in Partition |-> Max({0, pos[p] - 1})]

\* all_consumed_offsets
Positions == pos

\* The consumer commits its positions, which only a member can.
Commit == committed' = IF member THEN Positions ELSE committed

\* The consumer is closed: it commits and leaves the group.  A close that cannot
\* commit is swallowed; the group drops the member all the same.
Close ==
  /\ member' = FALSE
  /\ \/ Commit /\ UNCHANGED failed
     \/ member /\ lapses + failed < MaxTrouble /\ failed' = failed + 1 /\ UNCHANGED committed

----------------------------------------------------------------------------
(* The thread: _run and _consume_loop *)

Connect ==
  /\ thread = "connect" /\ stopping = "no"
  /\ thread' = "poll" /\ Join
  /\ UNCHANGED <<topic, current, stopping, handled, counts>>

\* A poll after the group has dropped the worker.
Rejoin ==
  /\ thread = "poll" /\ stopping # "closed" /\ ~member
  /\ Join
  /\ UNCHANGED <<topic, thread, current, stopping, handled, counts>>

\* A poll commits the positions if the interval is over and returns records, as
\* many as it likes, none of them garbled.
PollSome ==
  /\ thread = "poll" /\ stopping # "closed" /\ member
  /\ Commit \/ UNCHANGED committed
  /\ \E f \in [Partition -> 0..MaxLog] :
       /\ \A p \in Partition : f[p] \in pos[p]..log[p]
       /\ \A r \in garbled : r[2] <= pos[r[1]] \/ r[2] > f[r[1]]
       /\ f # pos /\ fetched' = f
  /\ thread' = "batch"
  /\ UNCHANGED <<topic, member, pos, reached, skipped, current, stopping, handled, counts>>

\* A poll that returns no record, or raises on a garbled one, may commit as well.
PollNone ==
  /\ thread = "poll" /\ stopping # "closed" /\ member
  /\ Commit
  /\ UNCHANGED <<topic, member, pos, fetched, reached, skipped, thread, current, stopping, handled, counts>>

\* The iterator yields a record; the loop leaves it if the flag is set.
Give(p) ==
  /\ thread = "batch" /\ stopping # "closed" /\ pos[p] < fetched[p]
  /\ pos' = [pos EXCEPT ![p] = @ + 1]
  /\ reached' = [reached EXCEPT ![p] = Max({@, pos'[p]})]
  /\ IF stopping = "no" THEN thread' = "handle" /\ current' = <<p, pos'[p]>>
     ELSE thread' = "leave" /\ UNCHANGED current
  /\ UNCHANGED <<topic, committed, member, fetched, skipped, stopping, handled, counts>>

EndBatch ==
  /\ thread = "batch" /\ pos = fetched
  /\ thread' = "poll"
  /\ UNCHANGED <<topic, consumer, current, stopping, handled, counts>>

\* process returns, or raises and is counted as an error.
Handle ==
  /\ thread = "handle"
  /\ handled' = [handled EXCEPT ![current] = @ + 1]
  /\ current' = <<>> /\ thread' = "batch"
  /\ UNCHANGED <<topic, consumer, stopping, counts>>

\* The group drops the worker: its handler takes longer than max_poll_interval_ms,
\* or the broker misses it for session_timeout_ms.
Expire ==
  /\ HasConsumer /\ member /\ lapses + failed < MaxTrouble
  /\ lapses' = lapses + 1 /\ member' = FALSE
  /\ UNCHANGED <<topic, committed, pos, fetched, reached, skipped, thread, current, stopping, handled,
                 boots, stops, kills, failed>>

\* The loop ends and the thread closes its consumer.
Leave ==
  /\ \/ thread = "leave" \/ (thread \in {"connect", "poll"} /\ stopping # "no")
     \/ (thread = "batch" /\ stopping = "closed")
  /\ IF HasConsumer THEN Close ELSE member' = FALSE /\ UNCHANGED <<committed, failed>>
  /\ thread' = "exited"
  /\ UNCHANGED <<topic, pos, fetched, reached, skipped, current, stopping, handled,
                 boots, stops, kills, lapses>>

----------------------------------------------------------------------------
(* stop() *)

AskStop ==
  /\ thread # "none" /\ stopping = "no"
  /\ stopping' = "asked" /\ stops' = stops + 1
  /\ UNCHANGED <<topic, consumer, thread, current, handled, boots, kills, lapses, failed>>

\* The consumer is closed from another thread.
CloseStop ==
  /\ stopping = "asked" /\ thread # "none"
  /\ stopping' = "closed"
  /\ IF HasConsumer THEN Close ELSE UNCHANGED <<committed, member, failed>>
  /\ UNCHANGED <<topic, pos, fetched, reached, skipped, thread, current, handled,
                 boots, stops, kills, lapses>>

----------------------------------------------------------------------------
\* No garbled record is ahead of the consumer.
Clear == \A r \in garbled : r[2] <= pos[r[1]]

Work ==
  \/ Connect \/ Rejoin \/ EndBatch \/ Handle \/ Leave
  \/ Clear /\ PollSome
  \/ \E p \in Partition : Give(p)

Next ==
  \/ Boot \/ Exit \/ Kill \/ Work \/ PollSome \/ PollNone \/ Expire \/ AskStop \/ CloseStop
  \/ \E p \in Partition : Publish(p)

\* The thread is scheduled, the broker answers, and a handler ends: its calls to
\* models and to Kafka have timeouts.  A poll ahead of which there is a garbled
\* record may raise for ever, whatever else it could return.
Spec == Init /\ [][Next]_vars /\ WF_vars(Work)

----------------------------------------------------------------------------
(* Properties *)

\* "Base Kafka consumer worker with offset management": while the worker serves,
\* records are given in order without a gap, up to the first that cannot be
\* decoded; if there is none all are given in the end, however often the group
\* drops the worker and the process ends.  A stop drops at most one.
Abstract == INSTANCE Delivery WITH
  stored  <- { p \in Partition : committed[p] # None },
  serving <- thread # "none" /\ stopping = "no",
  asked   <- thread \in {"connect", "poll", "batch", "handle"} /\ stopping = "asked"

Implements == Abstract!Spec

\* A position is committed only when the handler is done with what is before it,
\* but for one record at each stop: the one stop() finds in the handler if the
\* process ends first, or the one the loop leaves when it sees the flag.
LostAtStops ==
  Cardinality({ r \in Record : r[2] <= committed[r[1]] /\ handled[r] = 0
                               /\ r \notin skipped \union {current} }) <= stops

\* A record is handled again only after the process was killed, the group dropped
\* the worker or a close could not commit, and once for each: a "graceful
\* shutdown" whose close commits repeats nothing.
AgainOnlyAfterFailure == \A r \in Record : handled[r] <= 1 + (kills + lapses + failed)
=============================================================================
