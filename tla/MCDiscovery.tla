---------------------------- MODULE MCDiscovery ----------------------------
(* Instances of Discovery for TLC.                                          *)
EXTENDS Discovery

CONSTANTS u1, u2, s1, s2

TwoUsers   == {u1, u2}
OneServer  == {s1}
TwoServers == {s1, s2}
=============================================================================
