------------------------- MODULE MCAssessmentStore -------------------------
(* AssessmentStore on small instances.                                     *)
EXTENDS AssessmentStore, TLC

Symmetry ==
  Permutations(Browsers) \cup Permutations(Direct) \cup Permutations(Contents)
=============================================================================
