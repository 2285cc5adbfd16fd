-------------------------- MODULE MCRequestPlugin --------------------------
(* Instances of RequestPlugin for TLC.                                      *)
EXTENDS RequestPlugin
=============================================================================
