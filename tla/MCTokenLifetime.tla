-------------------------- MODULE MCTokenLifetime --------------------------
(* Instances of TokenLifetime for TLC.                                      *)
EXTENDS TokenLifetime

\* Both sides of every threshold of the offset, and one lifetime whose delay is
\* beyond the longest timeout.
ThresholdLifetimes == {1, 5, 6, 20, 21, 60, 61, 300, 301, 400}
=============================================================================
