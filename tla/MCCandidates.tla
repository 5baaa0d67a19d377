---------------------------- MODULE MCCandidates ----------------------------
\* Model-checking instance of Candidates.
EXTENDS Candidates, TLC

CONSTANTS i1, i2, i3, c1, c2, l1, l2

Interchangeable == Permutations(Id) \cup Permutations(Leg) \cup Permutations(Caller)
=============================================================================
