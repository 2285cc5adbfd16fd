---------------------------- MODULE IHttpClient ----------------------------
(***************************************************************************)
(* packages/core/src/http/IHttpClient.ts: what send promises, whichever      *)
(* library is behind it.  It attempts the request at most once more than     *)
(* the retries it was given, again only after a failure that may go away,   *)
(* and settles once: with the response of its last attempt, whose status is *)
(* within 200 to 299, or with an error.                                     *)
(***************************************************************************)
EXTENDS Integers

VARIABLES
    phase,     \* "idle", "sent", "failed", "returned", "rejected"
    attempts,  \* how often the request was attempted
    retries,   \* request.retries || defaults.retries || 0
    result     \* the code and the status the last attempt came to

vars == <<phase, attempts, retries, result>>

NoResult == [code |-> "none", status |-> 0]

\* The connection failed, or the server asks to try again: a body that is not
\* understood or another status fails whatever is retried.
MayGoAway(e) ==
    \/ e.code \in {"ECONNRESET", "ENOTFOUND", "ETIMEDOUT"}
    \/ e.status \in {408, 413, 429} \/ e.status >= 500

Init ==
    /\ phase = "idle"
    /\ attempts = 0
    /\ retries \in Nat
    /\ result = NoResult

Attempt ==
    /\ \/ phase = "idle"
       \/ phase = "failed" /\ MayGoAway(result) /\ attempts <= retries
    /\ phase' = "sent"
    /\ attempts' = attempts + 1
    /\ result' = NoResult
    /\ UNCHANGED retries

Fail ==
    /\ phase = "sent"
    /\ phase' = "failed"
    /\ result'.code # "none"
    /\ UNCHANGED <<attempts, retries>>

Return ==
    /\ phase = "sent"
    /\ phase' = "returned"
    /\ result'.code = "none" /\ result'.status \in 200 .. 299
    /\ UNCHANGED <<attempts, retries>>

\* What the attempt failed with, or what is wrong with a request never sent.
Reject ==
    /\ \/ phase = "failed" /\ UNCHANGED result
       \/ phase = "idle" /\ result'.code # "none"
    /\ phase' = "rejected"
    /\ UNCHANGED <<attempts, retries>>

Next == Attempt \/ Fail \/ Return \/ Reject

Spec == Init /\ [][Next]_vars
=============================================================================
