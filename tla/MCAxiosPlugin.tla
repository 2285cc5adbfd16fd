--------------------------- MODULE MCAxiosPlugin ---------------------------
(* Instances of AxiosPlugin for TLC.                                        *)
EXTENDS AxiosPlugin, TLC

CONSTANTS r1, r2

TwoRequests == {r1, r2}
AuthLast    == <<"other", "authenticator">>

\* The requests are interchangeable; safety properties only.
RequestSymmetry == Permutations(Requests)
=============================================================================
