------------------------ MODULE MCStrategySupervisor ------------------------
(* One strategy that is changed often, or a few changes of two, the second  *)
(* of which is a legacy row without an org.                                 *)
EXTENDS StrategySupervisor

CONSTANTS s1, s2, PairEdits
VARIABLE pair

Alone == row[s2] = "none"

MCInit == Init /\ pair \in BOOLEAN /\ (pair \/ Alone)

MCNext ==
  /\ Next
  /\ UNCHANGED pair
  /\ IF pair THEN edits' <= PairEdits ELSE Alone'

\* Users alone are held back, so the fairness is the specification's.
MCSpec == MCInit /\ [][MCNext]_<<vars, pair>> /\ Fairness
=============================================================================
