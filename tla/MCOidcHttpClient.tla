-------------------------- MODULE MCOidcHttpClient --------------------------
(* Instances of OidcHttpClient for TLC.                                     *)
EXTENDS OidcHttpClient

CONSTANTS r1, r2

TwoRequests == {r1, r2}

\* Bound: two requests over the in-memory store, and one of them alone for a third
\* acquisition if the store threw on a token.  The one that ends last may be
\* called r1, as requests are interchangeable, and one that only passes through
\* concerns no other.
RequestBound ==
    at[r2] # "idle" => /\ SV!Ordered /\ (calls < MaxCalls \/ unstorable = {})
                       /\ at[r1] \notin {"idle", "passing"} /\ at[r2] # "passing"

\* Bound: one request and two acquisitions over a remote store; one token that the
\* in-memory store throws on.
CallBound ==
    /\ ~SV!Ordered => calls < MaxCalls
    /\ \A j, k \in unstorable : j = k

\* That token and the last one are never read from the store by a new call:
\* nothing depends on their expiry and on their refresh token.
UnusedBound == (unstorable \cup {MaxCalls}) \cap (expired \cup refreshable) = {}
=============================================================================
