----------------------------- MODULE MCGateway ------------------------------
\* Instances of Gateway for TLC.
EXTENDS Gateway, TLC

\* Readings of every age; readings stamped by a clock that is as far ahead as is
\* allowed, which stay acceptable for longest; and readings that are too old to
\* get any further than the rate limit and the timestamp check.
AllAges == Ages
Ahead == {-MaxDrift}
TooOld == {MaxDrift + 1}

Interchangeable == Permutations(Session)
=============================================================================
