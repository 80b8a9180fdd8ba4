--------------------------- MODULE MCCascadeBridge ---------------------------
(* CascadeBridge over one signal type that matches both patterns. *)
EXTENDS CascadeBridge

CONSTANT a

MCType == {a}
MCDiscoverable == {<<a, "repeat_flood">>}

\* What guards and the properties of the run read: after the
\* last restart, neither the row being saved nor the one stored.
Relevant ==
  <<lists, counts, known, found, mark, threads, phase, todo, due, upto, outside, clash, since,
    IF boots < MaxBoots THEN <<row, saved>> ELSE << >> >>

=============================================================================
