----------------------------- MODULE MCSessions -----------------------------
(* Two sessions, one after the other; a cap of two jobs with one thread in a  *)
(* pool, and two slots: jobs wait in the pool, and everyone for a slot.       *)
EXTENDS Sessions

MCSession == 1..2

MCRequest ==
  { [client |-> "mock", mode |-> "production", industry |-> "fsi", scoped |-> FALSE],
    [client |-> "real", mode |-> "demo", industry |-> "telecom", scoped |-> TRUE] }
=============================================================================
