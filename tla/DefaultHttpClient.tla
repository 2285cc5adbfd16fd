------------------------- MODULE DefaultHttpClient -------------------------
(***************************************************************************)
(* packages/core/src/http: send of DefaultHttpClient, a retryAction whose   *)
(* action is one request of the http module of Node.  Node is external: it  *)
(* opens a connection, and emits the events of the request and of its       *)
(* response (Node 16 or later, as package.json asks).                       *)
(***************************************************************************)
EXTENDS Integers

CONSTANTS
    Requests,    \* the calls of send, each made again after it settled
    MaxRetries,  \* request.retries || defaults.retries || 0
    HasTimeout   \* request.timeout || defaults.timeout is not 0

VARIABLES
    at,         \* what each send waits for
    attempt,    \* its attempt, from 0
    lastError,  \* why its last attempt failed
    sockets     \* the connections it holds open

vars == <<at, attempt, lastError, sockets>>

\* isTransientHttpError: connections reset, refused or timed out, answers 5xx,
\* 408 and 429; or anything else.
Errors == {"transient", "permanent"}

Points == {"idle", "invalid", "connecting", "receiving", "destroyed", "cut",
           "asking", "delaying"}

TypeOK ==
    /\ at \in [Requests -> Points]
    /\ attempt \in [Requests -> 0 .. MaxRetries]
    /\ lastError \in [Requests -> Errors \cup {"none"}]
    /\ sockets \in [Requests -> Nat]

Init ==
    /\ at = [r \in Requests |-> "idle"]
    /\ attempt = [r \in Requests |-> 0]
    /\ lastError = [r \in Requests |-> "none"]
    /\ sockets = [r \in Requests |-> 0]

-----------------------------------------------------------------------------
Go(r, point) == at' = [at EXCEPT ![r] = point]

Close(r) == sockets' = [sockets EXCEPT ![r] = @ - 1]

\* The attempt is rejected: retryAction calls canRetry.
Reject(r, e) == Go(r, "asking") /\ lastError' = [lastError EXCEPT ![r] = e]

\* The promise of send settles.
Settle(r) ==
    /\ Go(r, "idle")
    /\ attempt' = [attempt EXCEPT ![r] = 0]
    /\ lastError' = [lastError EXCEPT ![r] = "none"]

\* doSendWithCallback: the request is sent, unless its url, headers or body
\* cannot be used.
DoSend(r) ==
    \/ Go(r, "connecting") /\ sockets' = [sockets EXCEPT ![r] = @ + 1]
    \/ Go(r, "invalid") /\ UNCHANGED sockets

Send(r) ==
    /\ at[r] = "idle"
    /\ DoSend(r)
    /\ UNCHANGED <<attempt, lastError>>

NotSent(r) ==
    /\ at[r] = "invalid"
    /\ Reject(r, "permanent")
    /\ UNCHANGED <<attempt, sockets>>

-----------------------------------------------------------------------------
(* The events of the request and of the response.                            *)

\* 'error' of the request: of its connection, before or after the headers.
ConnectionFails(r, e) ==
    /\ at[r] \in {"connecting", "receiving"}
    /\ Reject(r, e)
    /\ Close(r)
    /\ UNCHANGED attempt

\* Faulty: the attempt is rejected and its connection left as it is.
RejectOnTimeout(r) ==
    /\ HasTimeout
    /\ at[r] \in {"connecting", "receiving"}
    /\ Reject(r, "transient")
    /\ UNCHANGED <<attempt, sockets>>

\* 'timeout': the connection was idle for so long.  The request is destroyed,
\* which is also true of one whose answer is being received.
TimesOut(r) ==
    /\ HasTimeout
    /\ at[r] \in {"connecting", "receiving"}
    /\ Go(r, "destroyed")
    /\ UNCHANGED <<attempt, lastError, sockets>>

\* 'error' of the request, with the error it was destroyed with.
Destroyed(r) ==
    /\ at[r] = "destroyed"
    /\ Reject(r, "transient")
    /\ Close(r)
    /\ UNCHANGED attempt

\* The headers of the response.
Responds(r) ==
    /\ at[r] = "connecting"
    /\ Go(r, "receiving")
    /\ UNCHANGED <<attempt, lastError, sockets>>

\* The server closes the connection within the body: 'aborted' of the response,
\* to which nobody listens, and neither 'end' nor 'error'.
Cut(r) ==
    /\ at[r] = "receiving"
    /\ Go(r, "cut")
    /\ Close(r)
    /\ UNCHANGED <<attempt, lastError>>

\* 'end' of the response: its status is in 200..299 and its body is understood.
Succeeds(r) ==
    /\ at[r] = "receiving"
    /\ Settle(r)
    /\ Close(r)

\* 'end' of a response of another status: 408, 429 and 5xx may be retried.
BadStatus(r, e) ==
    /\ at[r] = "receiving"
    /\ Reject(r, e)
    /\ Close(r)
    /\ UNCHANGED attempt

\* 'end' of a response whose body is not what its content type says.  It is
\* looked at before the status, which the error does not tell.
BadBody(r) ==
    /\ at[r] = "receiving"
    /\ Reject(r, "permanent")
    /\ Close(r)
    /\ UNCHANGED attempt

-----------------------------------------------------------------------------
\* canRetry
MayRetry(r) == lastError[r] = "transient"

CanRetry(r) ==
    /\ at[r] = "asking"
    /\ MayRetry(r)
    /\ Go(r, "delaying")
    /\ UNCHANGED <<attempt, lastError, sockets>>

\* Faulty: one retry too many.
RetriesLeftOrNone(r) == attempt[r] <= MaxRetries

RetriesLeft(r) == attempt[r] < MaxRetries

\* Faulty: the attempts are not counted.
RetryUncounted(r) ==
    /\ at[r] = "delaying"
    /\ DoSend(r)
    /\ UNCHANGED <<attempt, lastError>>

Retry(r) ==
    /\ at[r] = "delaying"
    /\ RetriesLeft(r)
    /\ attempt' = [attempt EXCEPT ![r] = @ + 1]
    /\ DoSend(r)
    /\ UNCHANGED lastError

\* The error may not be retried, or the retries are used up.
Fails(r) ==
    /\ \/ at[r] = "asking" /\ ~MayRetry(r)
       \/ at[r] = "delaying" /\ ~RetriesLeft(r)
    /\ Settle(r)
    /\ UNCHANGED sockets

\* The steps of a send that do not settle it.
Works(r) ==
    \/ NotSent(r) \/ TimesOut(r) \/ Destroyed(r) \/ Responds(r) \/ Cut(r)
    \/ BadBody(r)
    \/ \E e \in Errors : ConnectionFails(r, e) \/ BadStatus(r, e)
    \/ CanRetry(r) \/ Retry(r)

Progress(r) == Works(r) \/ Succeeds(r) \/ Fails(r)

Next == \E r \in Requests : Send(r) \/ Progress(r)

Spec == Init /\ [][Next]_vars

-----------------------------------------------------------------------------
(* Properties                                                              *)

\* A send holds one connection at most, and none once it settled, is to be
\* retried or was cut, whichever events ended its attempts.
OneConnection ==
    \A r \in Requests :
        sockets[r] = IF at[r] \in {"connecting", "receiving", "destroyed"} THEN 1 ELSE 0

\* Each send is a run of retryAction.
Loop(r) == INSTANCE RetryAction WITH
    NoError <- "none", RetryCounts <- {MaxRetries}, maxRetries <- MaxRetries,
    i <- attempt[r], lastError <- lastError[r],
    pc <- IF at[r] \in {"idle", "asking", "delaying"} THEN at[r] ELSE "acting"

SendsAreRetried ==
    /\ \A r \in Requests : Loop(r)!Init
    /\ [][ \A r \in Requests : [Loop(r)!Next]_(Loop(r)!vars) ]_vars
=============================================================================
