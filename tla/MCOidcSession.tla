--------------------------- MODULE MCOidcSession ---------------------------
(* Instances of OidcSession for TLC.                                        *)
EXTENDS OidcSession

CONSTANT c1

OneClient == {c1}
=============================================================================
