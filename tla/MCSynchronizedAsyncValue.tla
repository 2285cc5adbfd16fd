---------------------- MODULE MCSynchronizedAsyncValue ----------------------
(* Instances of SynchronizedAsyncValue for TLC.                             *)
EXTENDS SynchronizedAsyncValue

CONSTANTS c1, c2, c3

ThreeCallers == {c1, c2, c3}

\* Bound: two of the callers use a store that may fail.
FailingStoreBound == store # "cached" => pc[c3] = "idle"
=============================================================================
