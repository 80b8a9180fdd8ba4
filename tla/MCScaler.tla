------------------------------- MODULE MCScaler -------------------------------
(* Five models: with one evicted the availability grade is green (80%), with *)
(* two it is yellow (60%), with three red (40%).                             *)
EXTENDS Scaler

CONSTANTS m1, m2, m3, m4, m5

MCOrder  == <<m1, m2, m3, m4, m5>>
MCMemory == [ m \in {m1, m2, m3, m4, m5} |->
                CASE m = m1 -> 20 [] m = m2 -> 10 [] m = m3 -> 8 [] m = m4 -> 6 [] m = m5 -> 6 ]
=============================================================================
