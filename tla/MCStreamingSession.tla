-------------------------- MODULE MCStreamingSession --------------------------
(* One cooldown key; the loop start makes and one the watchdog may add; one batch *)
(* may get stuck; queues of one and two: both overflow.                            *)
EXTENDS StreamingSession

MCLoop == 1..2
=============================================================================
