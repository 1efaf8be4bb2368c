------------------------------ MODULE MCIngest ------------------------------
(* A small instance of Ingest for TLC: two server threads, two readings of *)
(* one sensor and a body that does not parse.                              *)
EXTENDS Ingest, TLC

CONSTANTS h1, h2, sensor, v1, v2, bad, none

TwoHandlers == {h1, h2}
Symmetry == Permutations(TwoHandlers) \cup Permutations({v1, v2})
TwoReadings == {<<sensor, v1>>, <<sensor, v2>>}
OneBadBody == {<<bad>>}
NoBody == <<none>>

=============================================================================
