------------------------------- MODULE Delivery -------------------------------
(***************************************************************************)
(* What a topic promises its worker: while the worker serves, the records  *)
(* of a partition are given to the handler in the order they were          *)
(* published, and none is passed over but those that were there before the *)
(* worker's group ever stored its position.  A worker that is asked to     *)
(* stop may drop one record.  A garbled record is never given, nor is      *)
(* anything behind it; while none is ahead, every record is given in the   *)
(* end.  Records may be given again; that is no step of this module.       *)
(***************************************************************************)
EXTENDS Integers

CONSTANTS Partition, \* partitions of the topic
          MaxLog     \* bound: records that are published

VARIABLES log,     \* records of each partition
          garbled, \* records that cannot be decoded
          reached, \* records of each partition given, dropped or passed over
          stored,  \* partitions for which the group has stored a position
          serving, \* the worker runs and is not asked to stop
          asked    \* it is asked to stop, and has dropped no record yet

vars == <<log, garbled, reached, stored, serving, asked>>

Init ==
  /\ log = [p \in Partition |-> 0] /\ garbled = {}
  /\ reached = [p \in Partition |-> 0]
  /\ stored = {} /\ serving \in BOOLEAN /\ asked = FALSE

Publish(p) ==
  /\ log[p] < MaxLog /\ log' = [log EXCEPT ![p] = @ + 1]
  /\ garbled' \in {garbled, garbled \union {<<p, log'[p]>>}}
  /\ UNCHANGED <<reached, stored, serving, asked>>

\* The worker gets past the next record of p, one it can decode.
Pass(p) ==
  /\ reached[p] < log[p] /\ <<p, reached[p] + 1>> \notin garbled
  /\ reached' = [reached EXCEPT ![p] = @ + 1]
  /\ UNCHANGED <<log, garbled, stored, serving>>

Give(p) == serving /\ Pass(p) /\ UNCHANGED asked

Ask ==
  /\ serving /\ serving' = FALSE /\ asked' = TRUE
  /\ UNCHANGED <<log, garbled, reached, stored>>

Drop(p) == asked /\ Pass(p) /\ asked' = FALSE

\* A consumer without a stored position starts at the end of its partitions.
Skip ==
  /\ \E ps \in SUBSET (Partition \ stored) :
       reached' = [p \in Partition |-> IF p \in ps THEN log[p] ELSE reached[p]]
  /\ UNCHANGED <<log, garbled, stored, serving, asked>>

\* Positions are stored; the worker starts, or ends.
Store ==
  /\ stored' \in { s \in SUBSET Partition : stored \subseteq s }
  /\ serving' \in BOOLEAN /\ asked' \in {FALSE, asked /\ ~serving'}
  /\ UNCHANGED <<log, garbled, reached>>

Next == Skip \/ Ask \/ Store \/ \E p \in Partition : Publish(p) \/ Give(p) \/ Drop(p)

Clear == \A r \in garbled : r[2] <= reached[r[1]]

Spec == Init /\ [][Next]_vars /\ \A p \in Partition : WF_vars(Clear /\ Give(p))
=============================================================================
