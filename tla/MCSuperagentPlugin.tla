------------------------- MODULE MCSuperagentPlugin -------------------------
(* Instances of SuperagentPlugin for TLC.                                   *)
EXTENDS SuperagentPlugin, FiniteSets

CONSTANTS r1, r2

TwoRequests == {r1, r2}

Made(r) == Cardinality({a \in Attempts : stage[r][a] # "none"})

\* Bound: requests that overlap make three attempts in all.  The first to begin may
\* be called r1, as requests are interchangeable.
AttemptBound == pc[r2] # "idle" => pc[r1] # "idle" /\ Made(r1) + Made(r2) <= 3
=============================================================================
