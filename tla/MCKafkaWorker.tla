----------------------------- MODULE MCKafkaWorker -----------------------------
(* Two partitions of two records, one of which may be garbled, so that a batch     *)
(* mixes partitions; two lives of the process; one membership that lapses or one   *)
(* close that cannot commit.                                                       *)
EXTENDS KafkaWorker
=============================================================================
