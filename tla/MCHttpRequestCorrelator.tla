---------------------- MODULE MCHttpRequestCorrelator ----------------------
(* Instances of HttpRequestCorrelator for TLC.                               *)
EXTENDS HttpRequestCorrelator, TLC

\* The handlers are interchangeable, and no property is about liveness.
Symmetry == Permutations(Handlers)
=============================================================================
