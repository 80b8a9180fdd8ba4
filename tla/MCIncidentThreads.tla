-------------------------- MODULE MCIncidentThreads --------------------------
(* Two feeders and the API on one namespace of one cluster.  The tasks are  *)
(* an RCA of a critical finding and one of a lesser finding that ends in a  *)
(* classification and a remediation step.                                   *)
EXTENDS IncidentThreads, TLC

CONSTANTS k1, s1, s2, s3, s4, c1, t1, o1, f1, f2

MCKey     == {k1}
MCSig     == {s1, s2, s3, s4}
MCClass   == {c1}
MCText    == {t1}
MCOption  == {o1}
TwoFeeders == {f1, f2}
OneFeeder  == {f1}

Signal(s, v) == [op |-> "signal", sig |-> s, sev |-> v]

MCFeeds ==
  { [ key |-> k1, calls |-> << Signal(s1, "medium"), Signal(s2, "critical"),
                               [op |-> "infer", task |-> "root_cause_analysis", text |-> t1],
                               [op |-> "offer", action |-> o1] >> ],
    [ key |-> k1, calls |-> << Signal(s3, "high"), Signal(s4, "critical"),
                               [op |-> "classify", class |-> c1] >> ] }

FeederSymmetry == Permutations(TwoFeeders)

\* No guard and no property of this run reads the rows on their way or stored,
\* so states that differ in them alone are one.
WithoutRows ==
  << incs, index, nextId, [ t \in Thread |-> [ th[t] EXCEPT !.row = Absent ] ],
     tarsy, accepted, fed, closes >>
=============================================================================
