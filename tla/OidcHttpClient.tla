--------------------------- MODULE OidcHttpClient ---------------------------
(***************************************************************************)
(* packages/oidc: requests sent through an OidcHttpClient, over the         *)
(* OidcSession they share.  send runs one attempt, and at most a second     *)
(* one, under retryAction: obtain a token, send the request with it, and    *)
(* on a 401 delete the token, wait and try again.                          *)
(*                                                                         *)
(* Every client of the session is a request; the timer is its other user.   *)
(***************************************************************************)
EXTENDS Naturals

CONSTANTS
    Requests,                                   \* requests that may overlap
    Timer, MaxCalls, Stores,                    \* see OidcSession
    CanUseRefreshTokens, ScheduleRefresh,
    RetryUnauthenticated                        \* retryUnauthenticatedRequests

ASSUME TimerAssumption == Timer \notin Requests
ASSUME BoundAssumption == MaxCalls \in Nat
ASSUME StoresAssumption == Stores \subseteq {"memory", "remote"}
ASSUME ConfigAssumption == /\ CanUseRefreshTokens \in BOOLEAN
                           /\ ScheduleRefresh \in BOOLEAN
ASSUME RetryAssumption == RetryUnauthenticated \in BOOLEAN

VARIABLES store, value, expired, resolverCall, calls, phase, unstorable, prev,
          pc, captured, force, own, result, ahead,
          state, step, refreshable, timer, armed, tokenUsed  \* this.session

VARIABLES
    at,         \* where each send is suspended
    attempt,    \* the attempt it makes, from 0
    token,      \* the token of that attempt, 0: undefined
    lastError,  \* why the last attempt failed
    refused     \* the tokens some server answered 401 to

Session == INSTANCE OidcSession WITH Clients <- Requests
SV == INSTANCE SynchronizedAsyncValue WITH Callers <- Requests \cup {Timer}

sessionVars == <<store, value, expired, resolverCall, calls, phase, unstorable, prev,
                 pc, captured, force, own, result, ahead,
                 state, step, refreshable, timer, armed, tokenUsed>>
sends == <<at, attempt, token, lastError, refused>>
vars  == <<sessionVars, sends>>

Tokens == 1 .. MaxCalls

\* An HTTP response 401, from the API or from the token endpoint, and the rest.
Errors == {"unauthorized", "other"}

Points == {"idle", "passing", "token", "sent", "asking", "deleted", "delaying"}

TypeOK ==
    /\ Session!TypeOK
    /\ at \in [Requests -> Points]
    /\ attempt \in [Requests -> 0 .. 1]
    /\ token \in [Requests -> 0 .. MaxCalls]
    /\ lastError \in [Requests -> Errors \cup {"none"}]
    /\ refused \in SUBSET Tokens

Init ==
    /\ Session!Init
    /\ at = [r \in Requests |-> "idle"]
    /\ attempt = [r \in Requests |-> 0]
    /\ token = [r \in Requests |-> 0]
    /\ lastError = [r \in Requests |-> "none"]
    /\ refused = {}

-----------------------------------------------------------------------------
\* The promise of send settles.
Settle(r) == /\ at' = [at EXCEPT ![r] = "idle"]
             /\ attempt' = [attempt EXCEPT ![r] = 0]
             /\ token' = [token EXCEPT ![r] = 0]
             /\ lastError' = [lastError EXCEPT ![r] = "none"]

(* send of a request that acceptsRequest rejects: it goes out as it is.      *)
PassThrough(r) ==
    /\ at[r] = "idle"
    /\ at' = [at EXCEPT ![r] = "passing"]
    /\ UNCHANGED <<sessionVars, attempt, token, lastError, refused>>

PassedAnswer(r) ==
    /\ at[r] = "passing"
    /\ at' = [at EXCEPT ![r] = "idle"]
    /\ UNCHANGED <<sessionVars, attempt, token, lastError, refused>>

(* send: the first attempt asks the session for a token.                     *)
Send(r) ==
    /\ at[r] = "idle"
    /\ Session!GetToken(r, FALSE)
    /\ at' = [at EXCEPT ![r] = "token"]
    /\ UNCHANGED <<attempt, token, lastError, refused>>

\* The call of getToken goes on without reaching its end.
SessionWorks(r) ==
    /\ Session!Progress(r)
    /\ pc'[r] # "idle"
    /\ UNCHANGED sends

(* getToken returns, beforeSendRequest runs and the request is sent.         *)
TokenGiven(r) ==
    /\ \/ SV!ReturnCached(r) \/ SV!Finish(r)
       \/ SV!JoinerReturns(r) /\ phase[own[r]] = "resolved"
    /\ UNCHANGED <<state, step, refreshable, timer, armed, tokenUsed>>
    /\ at' = [at EXCEPT ![r] = "sent"]
    /\ token' = [token EXCEPT ![r] = result'[r]]
    /\ UNCHANGED <<attempt, lastError, refused>>

\* The attempt throws e: retryAction calls canRetry.
AskRetry(r, e) ==
    /\ lastError' = [lastError EXCEPT ![r] = e]
    /\ at' = [at EXCEPT ![r] = "asking"]

(* getToken throws: a 401 of the token endpoint is taken for one of the API. *)
TokenNotGiven(r, e) ==
    /\ \/ SV!GetterFails(r) \/ SV!SetterFails(r) \/ SV!LeaderFails(r)
       \/ SV!JoinerReturns(r) /\ phase[own[r]] = "rejected"
    /\ UNCHANGED <<state, step, refreshable, timer, armed, tokenUsed>>
    /\ AskRetry(r, e)
    /\ UNCHANGED <<attempt, token, refused>>

(* The API accepts the request.                                              *)
ApiAccepts(r) ==
    /\ at[r] = "sent"
    /\ Session!TaskBoundary
    /\ Settle(r)
    /\ UNCHANGED <<sessionVars, refused>>

(* beforeSendRequest throws, or the request ends with an error.              *)
ApiFails(r, e) ==
    /\ at[r] = "sent"
    /\ Session!TaskBoundary
    /\ AskRetry(r, e)
    /\ refused' = IF e = "unauthorized" THEN refused \cup {token[r]} ELSE refused
    /\ UNCHANGED <<sessionVars, attempt, token>>

-----------------------------------------------------------------------------
\* canRetry says yes.
MayRetry(r) == RetryUnauthenticated /\ lastError[r] = "unauthorized"

CannotRetry(r) ==
    /\ at[r] = "asking"
    /\ ~MayRetry(r)
    /\ Settle(r)
    /\ UNCHANGED <<sessionVars, refused>>

\* Faulty: whichever token is stored is deleted.
IsStored(r) == value # 0

\* The store deletes only the token it is given.
Holds(r) == value = token[r] /\ value # 0

\* Faulty: the refused token is left in the store.
NotDeleted(r) ==
    /\ at[r] = "asking"
    /\ MayRetry(r)
    /\ at' = [at EXCEPT ![r] = "delaying"]
    /\ UNCHANGED <<sessionVars, attempt, token, lastError, refused>>

(* canRetry: deleteToken of the session, with the token of this attempt or,  *)
(* when it obtained none, of the one before.                                 *)
DeleteToken(r) ==
    /\ at[r] = "asking"
    /\ MayRetry(r)
    /\ IF Holds(r) THEN Session!DeleteToken(r) ELSE UNCHANGED sessionVars
    /\ at' = [at EXCEPT ![r] = IF ~SV!Ordered THEN "deleted" ELSE "delaying"]
    /\ UNCHANGED <<attempt, token, lastError, refused>>

TokenDeleted(r) ==
    /\ at[r] = "deleted"
    /\ at' = [at EXCEPT ![r] = "delaying"]
    /\ UNCHANGED <<sessionVars, attempt, token, lastError, refused>>

(* The store fails: its error replaces the 401.                              *)
DeleteFails(r) ==
    /\ ~SV!Ordered
    /\ at[r] = "deleted" \/ (at[r] = "asking" /\ MayRetry(r))
    /\ Settle(r)
    /\ UNCHANGED <<sessionVars, refused>>

\* Faulty: the promise is not settled when the retry was the last one.
GiveUpSilently(r) ==
    /\ at[r] = "delaying"
    /\ attempt[r] = 1
    /\ UNCHANGED vars

(* The delay after the last attempt elapses.                                 *)
GiveUp(r) ==
    /\ at[r] = "delaying"
    /\ Session!TaskBoundary
    /\ attempt[r] = 1
    /\ Settle(r)
    /\ UNCHANGED <<sessionVars, refused>>

\* Faulty: every failure of a retry is retried.
RetryForever(r) ==
    /\ at[r] = "delaying"
    /\ Session!TaskBoundary
    /\ Session!GetToken(r, FALSE)
    /\ at' = [at EXCEPT ![r] = "token"]
    /\ attempt' = [attempt EXCEPT ![r] = 1]
    /\ UNCHANGED <<token, lastError, refused>>

(* The delay elapses and the second attempt asks for a token.                *)
Retry(r) ==
    /\ at[r] = "delaying"
    /\ Session!TaskBoundary
    /\ attempt[r] = 0
    /\ Session!GetToken(r, FALSE)
    /\ at' = [at EXCEPT ![r] = "token"]
    /\ attempt' = [attempt EXCEPT ![r] = 1]
    /\ UNCHANGED <<token, lastError, refused>>

-----------------------------------------------------------------------------
(* What the session does on its own account.                                 *)
SessionStep ==
    /\ \/ Session!Progress(Timer)
       \/ \E k \in Tokens :
            Session!ProviderStep(k) \/ Session!TimerFires(k) \/ Session!Expire(k)
    /\ UNCHANGED sends

\* The bound on acquisitions is reached.
Exhausted == Session!Exhausted /\ UNCHANGED sends

\* The event loop, the store, the API and the delay.
Progress(r) ==
    \/ PassedAnswer(r) \/ SessionWorks(r) \/ TokenGiven(r) \/ ApiAccepts(r)
    \/ \E e \in Errors : TokenNotGiven(r, e) \/ ApiFails(r, e)
    \/ CannotRetry(r) \/ DeleteToken(r) \/ TokenDeleted(r) \/ DeleteFails(r)
    \/ GiveUp(r) \/ Retry(r)

Next ==
    \/ \E r \in Requests : PassThrough(r) \/ Send(r) \/ Progress(r)
    \/ SessionStep
    \/ Exhausted

Spec == Init /\ [][Next]_vars

(* The API and the token endpoint answer, the store replies or fails, and    *)
(* delays elapse: strongly, for other requests may delay the boundary of a    *)
(* task, and the bound may hold a retry back.                               *)
Fairness ==
    /\ []<>Session!TaskBoundary
    /\ \A r \in Requests : SF_vars(Progress(r)) /\ SF_vars(Retry(r))
    /\ WF_vars(Session!Progress(Timer) /\ UNCHANGED sends)
    /\ \A k \in Tokens : WF_vars(Session!ProviderStep(k) /\ UNCHANGED sends)

FairSpec == Spec /\ Fairness

-----------------------------------------------------------------------------
(* Properties                                                              *)

\* A token leaves the store only if a server answered 401 to it or its refresh
\* was refused: the late 401 of a request sent with an older token never takes
\* away the token acquired since.
OnlyBadTokensDropped ==
    [][ value # 0 /\ value' = 0 =>
          \/ value \in refused
          \/ \E k \in Tokens : prev[k] = value /\ step[k] \in {"refreshing", "deleting"} ]_vars

\* u is newer than t; or just another one if the store threw on t, a token
\* without expires_in: it still holds the one before, which may be valid.
Replaces(u, t) == u > t \/ (t \in unstorable /\ u # t)

\* The second attempt never carries the token that was refused, nor one older
\* than a token the store could keep: deleting the token is enough to obtain
\* another.
RetryCarriesNewerToken ==
    [][ SV!Ordered => \A r \in Requests :
          at[r] = "token" /\ at'[r] = "sent" /\ attempt[r] = 1 => Replaces(token'[r], token[r]) ]_vars

\* t was received and is what the store should hold.
Newest(t) == /\ phase[t] = "resolved" /\ t \notin unstorable
             /\ \A k \in Tokens : phase[k] = "resolved" /\ k \notin unstorable => k <= t

\* No further use is to be made of t: it expired, a server refused it, or the
\* acquisition meant to replace it failed or gave a token the store threw on.
Spent(t) ==
    \/ t \in expired \cup refused
    \/ \E k \in Tokens : prev[k] = t /\ (phase[k] = "rejected" \/ k \in unstorable)

\* Over the in-memory store, requests refused together share one renewal: a
\* request starts an acquisition only if the newest token received is spent,
\* however many requests got a 401 for the same token and however late.  Tokens
\* without expires_in do not count, for the store throws on them.
AcquisitionIsNeeded ==
    [][ SV!Ordered => \A r \in Requests, t \in Tokens :
            SV!Resolve(r) /\ Newest(t) => Spent(t) ]_vars

\* Each send is a run of retryAction with maxRetries = 1.
Loop(r) == INSTANCE RetryAction WITH
    NoError <- "none", RetryCounts <- {1}, maxRetries <- 1,
    i <- attempt[r], lastError <- lastError[r],
    pc <- CASE at[r] \in {"idle", "passing"} -> "idle"
            [] at[r] \in {"token", "sent"} -> "acting"
            [] at[r] \in {"asking", "deleted"} -> "asking"
            [] OTHER -> "delaying"

SendsRetryOnce ==
    /\ \A r \in Requests : Loop(r)!Init
    /\ [][ \A r \in Requests : [Loop(r)!Next]_(Loop(r)!vars) ]_vars

\* Every send settles, unless its retry is held back by the bound.
SendSettles ==
    \A r \in Requests :
        at[r] # "idle" ~> at[r] = "idle" \/ (at[r] = "delaying" /\ calls = MaxCalls)
=============================================================================
