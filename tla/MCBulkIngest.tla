---------------------------- MODULE MCBulkIngest ----------------------------
(* BulkIngest for TLC: one channel, or two with one message each; each      *)
(* message in a second of its own, or all in the same.                      *)
EXTENDS BulkIngest, TLC

CONSTANTS c1, c2

OneChannel   == [m \in Messages |-> c1]
TwoChannels  == [m \in Messages |-> IF m % 2 = 1 THEN c1 ELSE c2]
OwnSecond    == [m \in Messages |-> m]
SameSecond   == [m \in Messages |-> 1]

Symmetry == Permutations(Tasks) \cup Permutations(Workers) \cup Permutations(Runs)
=============================================================================
