--------------------------- MODULE MCRunLifecycle ---------------------------
(* RunLifecycle on small instances. *)
EXTENDS RunLifecycle, TLC

Symmetry == Permutations(Workers) \cup Permutations(Api)
=============================================================================
