-------------------------- MODULE MCRealtimeIngest --------------------------
(* RealtimeIngest for TLC: tasks and workers are interchangeable.           *)
EXTENDS RealtimeIngest, TLC

Symmetry == Permutations(Tasks) \cup Permutations(Workers)
=============================================================================
