----------------------------- MODULE MCIncidents -----------------------------
(* A small instance of Incidents: one namespace of one cluster. *)
EXTENDS Incidents

CONSTANTS k1, s1, s2, c1, t1, o1

MCKey      == {k1}
MCSig      == {s1, s2}
MCClass    == {c1}
MCText     == {t1}
MCOption   == {o1}
MCSeverity == {"medium", "critical"}
=============================================================================
