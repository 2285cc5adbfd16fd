-------------------------- MODULE SuperagentPlugin --------------------------
(***************************************************************************)
(* packages/oidc-plugin-superagent: the authenticator of superagent.  It    *)
(* hooks two methods of a request with hookMethod (core): end, which obtains *)
(* a token before the request leaves, and callback, which the library calls *)
(* with the outcome of each attempt, and which decides of the retry.        *)
(*                                                                         *)
(* The library is external.  It calls callback when an attempt ends, or when *)
(* the timer of the request fires; the timer runs until callback itself, the *)
(* hooked method, stops it.  So while the hook of a 401 deletes the token,   *)
(* obtains another or waits for beforeSendRequest, the timer may start the   *)
(* next attempt.                                                            *)
(*                                                                         *)
(* Names that every module has begin with SA here, so that a module of       *)
(* proofs can extend this one and another.                                  *)
(***************************************************************************)
EXTENDS Naturals

CONSTANTS
    Requests,     \* requests that may overlap
    UserRetries,  \* .retry(n) of the caller, 0: not called
    MaxRenewals   \* renewals of the token by others (bound)

ASSUME RetriesAssumption == UserRetries \in Nat /\ MaxRenewals \in Nat

VARIABLES
    held,       \* the token of the session, 0: none
    issued,     \* tokens are numbered as they are issued
    renewals,   \* renewals so far
    config,     \* the config given to authenticator
    pc,         \* where the end of each request is
    header,     \* the token in its authorization header, and its tokenProperty
    stage,      \* where its attempts are
    carried,    \* the token each left with
    tried,      \* _retries: the times callback asked for a retry
    ticking,    \* its timer runs
    answered,   \* its caller was called
    refused,    \* the tokens it was answered 401 to
    undeleted   \* the tokens whose deletion failed

session == <<held, issued, renewals>>
saVars == <<held, issued, renewals, config, pc, header, stage, carried, tried,
            ticking, answered, refused, undeleted>>

\* "off": retryUnauthenticatedRequests is false, or no config was given at all.
Configs == {"on", "off"}

\* config && config.retryUnauthenticatedRequests !== false
Retries401(r) == config[r] = "on"

\* request._maxRetries
Budget(r) == IF Retries401(r) /\ UserRetries = 0 THEN 1 ELSE UserRetries

Attempts == 0 .. IF UserRetries = 0 THEN 1 ELSE UserRetries

\* An answer 2xx, an answer 401, and other answers, errors and timeouts.
Outcomes == {"ok", "unauthorized", "failed"}

SATypeOK ==
    /\ held \in 0 .. issued
    /\ issued \in Nat
    /\ renewals \in 0 .. MaxRenewals
    /\ config \in [Requests -> Configs]
    /\ pc \in [Requests -> {"idle", "starting", "injected", "running", "failed", "thrown"}]
    /\ header \in [Requests -> 0 .. issued]
    /\ stage \in [Requests -> [Attempts -> {"none", "sent", "renewing", "injected", "over"}]]
    /\ carried \in [Requests -> [Attempts -> 0 .. issued]]
    /\ tried \in [Requests -> Nat] /\ \A r \in Requests : tried[r] <= Budget(r)
    /\ ticking \in [Requests -> BOOLEAN]
    /\ answered \in [Requests -> BOOLEAN]
    /\ refused \in [Requests -> SUBSET (1 .. issued)]
    /\ undeleted \subseteq 1 .. issued

SAInit ==
    /\ held = 0 /\ issued = 0 /\ renewals = 0
    /\ config \in [Requests -> Configs]
    /\ pc = [r \in Requests |-> "idle"]
    /\ header = [r \in Requests |-> 0]
    /\ stage = [r \in Requests |-> [a \in Attempts |-> "none"]]
    /\ carried = [r \in Requests |-> [a \in Attempts |-> 0]]
    /\ tried = [r \in Requests |-> 0]
    /\ ticking = [r \in Requests |-> FALSE]
    /\ answered = [r \in Requests |-> FALSE]
    /\ refused = [r \in Requests |-> {}]
    /\ undeleted = {}

-----------------------------------------------------------------------------
\* session.getToken: the token of the session, or a new one.
Obtain(t) ==
    IF held # 0 THEN t = held /\ UNCHANGED session
    ELSE t = issued + 1 /\ held' = t /\ issued' = t /\ UNCHANGED renewals

\* injectTokenInHeaders, until it waits for beforeSendRequest.
Inject(r) ==
    \E t \in {held, issued + 1} : Obtain(t) /\ header' = [header EXCEPT ![r] = t]

\* _end: an attempt leaves with the header of the request; s: the others.
Leave(r, a, s) ==
    /\ stage' = [stage EXCEPT ![r] = [s EXCEPT ![a] = "sent"]]
    /\ carried' = [carried EXCEPT ![r][a] = header[r]]
    /\ ticking' = [ticking EXCEPT ![r] = TRUE]

\* The caller is called, but once only.
Answer(r) == answered' = [answered EXCEPT ![r] = TRUE]

-----------------------------------------------------------------------------
(* The hook of end.                                                          *)

(* end is called: the hook asks for a token.                                 *)
End(r) ==
    /\ pc[r] = "idle"
    /\ pc' = [pc EXCEPT ![r] = "starting"]
    /\ UNCHANGED <<session, config, header, stage, carried, tried, ticking,
                   answered, refused, undeleted>>

(* The header is set; beforeSendRequest runs.                                *)
StartInjects(r) ==
    /\ pc[r] = "starting"
    /\ pc' = [pc EXCEPT ![r] = "injected"]
    /\ Inject(r)
    /\ UNCHANGED <<config, stage, carried, tried, ticking, answered, refused, undeleted>>

(* onEnd succeeds and the original end is called.                            *)
Start(r) ==
    /\ pc[r] = "injected"
    /\ pc' = [pc EXCEPT ![r] = "running"]
    /\ Leave(r, 0, stage[r])
    /\ UNCHANGED <<session, config, header, tried, answered, refused, undeleted>>

(* The original end throws: hookMethod forgets the error.                    *)
EndThrows(r) ==
    /\ pc[r] = "injected"
    /\ pc' = [pc EXCEPT ![r] = "thrown"]
    /\ UNCHANGED <<session, config, header, stage, carried, tried, ticking,
                   answered, refused, undeleted>>

\* session.getToken throws, or beforeSendRequest does once the header is set.
InjectFails(r) == (pc[r] = "starting" /\ held = 0) \/ pc[r] = "injected"

(* Faulty: the error is thrown, and the caller is not told.                  *)
StartFailsSilently(r) ==
    /\ InjectFails(r)
    /\ pc' = [pc EXCEPT ![r] = "failed"]
    /\ UNCHANGED <<session, config, header, stage, carried, tried, ticking,
                   answered, refused, undeleted>>

(* onEnd fails: it calls the caller itself, and nothing leaves.              *)
StartFails(r) ==
    /\ InjectFails(r)
    /\ pc' = [pc EXCEPT ![r] = "failed"]
    /\ Answer(r)
    /\ UNCHANGED <<session, config, header, stage, carried, tried, ticking, refused, undeleted>>

-----------------------------------------------------------------------------
(* The original callback, with the outcome o of an attempt; s: the attempts. *)

\* Faulty: one retry too many.
RetriesLeftOrNone(r) == tried[r] <= Budget(r)

RetriesLeft(r) == tried[r] < Budget(r)

\* canRetryRequest: a 401, or what the callback of the caller or superagent say,
\* which is taken to be anything of a failure.
MayRetry(r, o) ==
    IF o = "unauthorized" /\ Retries401(r) THEN {TRUE}
    ELSE IF o = "ok" THEN {FALSE} ELSE BOOLEAN

Retry(r, s) ==
    /\ tried' = [tried EXCEPT ![r] = @ + 1]
    /\ Leave(r, tried'[r], s)
    /\ UNCHANGED answered

\* The timer is stopped.  A caller that was already called is not called again.
Finish(r, s) ==
    /\ tried' = [tried EXCEPT ![r] = IF RetriesLeft(r) THEN @ + 1 ELSE @]
    /\ stage' = [stage EXCEPT ![r] = s]
    /\ ticking' = [ticking EXCEPT ![r] = FALSE]
    /\ Answer(r)
    /\ UNCHANGED carried

Callback(r, o, s) ==
    \/ RetriesLeft(r) /\ TRUE \in MayRetry(r, o) /\ Retry(r, s)
    \/ (RetriesLeft(r) => FALSE \in MayRetry(r, o)) /\ Finish(r, s)

Over(r, a) == [stage[r] EXCEPT ![a] = "over"]

-----------------------------------------------------------------------------
(* The hook of callback.                                                     *)

(* Not a 401: the original callback is called.                               *)
Ends(r, a, o) ==
    /\ stage[r][a] = "sent"
    /\ o # "unauthorized"
    /\ UNCHANGED <<session, config, pc, header, refused, undeleted>>
    /\ Callback(r, o, Over(r, a))

\* Faulty: whichever token the session holds is deleted.
DropHeld(t) == held' = 0

\* session.deleteToken: only the token it is given.
Drop(t) == held' = IF held = t THEN 0 ELSE held

\* A failure to delete is logged and forgotten.
DeleteToken(r) ==
    \/ Drop(header[r]) /\ UNCHANGED <<issued, renewals, undeleted>>
    \/ undeleted' = undeleted \cup {header[r]} /\ UNCHANGED session

(* A 401: the token of the header is deleted.                                *)
Unauthorized(r, a) ==
    /\ stage[r][a] = "sent"
    /\ stage' = [stage EXCEPT ![r][a] = "renewing"]
    /\ refused' = [refused EXCEPT ![r] = @ \cup {carried[r][a]}]
    /\ DeleteToken(r)
    /\ UNCHANGED <<config, pc, header, carried, tried, ticking, answered>>

(* Faulty: the header keeps the token that was refused.                      *)
HeaderKept(r, a) ==
    /\ stage[r][a] = "renewing"
    /\ Retries401(r)
    /\ stage' = [stage EXCEPT ![r][a] = "injected"]
    /\ \E t \in {held, issued + 1} : Obtain(t)
    /\ UNCHANGED <<config, pc, header, carried, tried, ticking, answered, refused, undeleted>>

(* Another token is in the header; beforeSendRequest runs.                   *)
RenewalInjects(r, a) ==
    /\ stage[r][a] = "renewing"
    /\ Retries401(r)
    /\ stage' = [stage EXCEPT ![r][a] = "injected"]
    /\ Inject(r)
    /\ UNCHANGED <<config, pc, carried, tried, ticking, answered, refused, undeleted>>

(* beforeSendRequest is over, or failed: the original callback is called.    *)
Renewed(r, a) ==
    /\ stage[r][a] = "injected"
    /\ UNCHANGED <<session, config, pc, header, refused, undeleted>>
    /\ Callback(r, "unauthorized", Over(r, a))

(* No token is asked for, or none obtained: the header keeps the old one.    *)
NotRenewed(r, a) ==
    /\ stage[r][a] = "renewing"
    /\ Retries401(r) => held = 0
    /\ UNCHANGED <<session, config, pc, header, refused, undeleted>>
    /\ Callback(r, "unauthorized", Over(r, a))

(* The timer fires: the attempt in progress is aborted, but not the hook of   *)
(* one that was answered.                                                    *)
TimesOut(r) ==
    /\ ticking[r]
    /\ UNCHANGED <<session, config, pc, header, refused, undeleted>>
    /\ Callback(r, "failed",
                [a \in Attempts |-> IF stage[r][a] = "sent" THEN "over" ELSE stage[r][a]])

-----------------------------------------------------------------------------
(* The timer of the session, or another of its clients, replaces the token.  *)
Renew ==
    /\ renewals < MaxRenewals
    /\ held # 0
    /\ renewals' = renewals + 1
    /\ issued' = issued + 1
    /\ held' = issued + 1
    /\ UNCHANGED <<config, pc, header, stage, carried, tried, ticking, answered,
                   refused, undeleted>>

Progress(r) ==
    \/ StartInjects(r) \/ Start(r) \/ EndThrows(r) \/ StartFails(r)
    \/ \E a \in Attempts :
         \/ \E o \in Outcomes : Ends(r, a, o)
         \/ Unauthorized(r, a) \/ RenewalInjects(r, a) \/ Renewed(r, a) \/ NotRenewed(r, a)
    \/ TimesOut(r)

\* Nothing is in progress.
AllDone ==
    /\ \A r \in Requests :
         /\ pc[r] \in {"running", "failed", "thrown"}
         /\ \A a \in Attempts : stage[r][a] \in {"none", "over"}
    /\ UNCHANGED saVars

SANext == (\E r \in Requests : End(r) \/ Progress(r)) \/ Renew \/ AllDone

SASpec == SAInit /\ [][SANext]_saVars

\* The session answers, and an attempt ends or the timer fires.
SAFairSpec == SASpec /\ \A r \in Requests : WF_saVars(Progress(r))

-----------------------------------------------------------------------------
(* Properties                                                              *)

\* A request takes from the session only a token it was refused with, unless
\* the timer sent it while its header was being replaced: the 401 to the old
\* token is then taken for one to the new.
OnlyRefusedTokensDropped ==
    [][ held # 0 /\ held' = 0 =>
          \E r \in Requests :
            \/ held \in refused'[r]
            \/ \E a \in Attempts : /\ stage[r][a] = "sent" /\ stage'[r][a] # "sent"
                                 /\ held = header[r] /\ carried[r][a] # header[r] ]_saVars

\* While the hook of attempt a waits for beforeSendRequest, the timer may send
\* the token that the hook just set, in an attempt of its own.
Overtaken(r, a) ==
    \E b \in (a + 1) .. tried[r] :
        carried[r][b] = header[r] /\ carried[r][a] # header[r]

\* The attempt that the hook of a 401 starts once it has another token carries
\* none that the request was refused with, unless its deletion failed or the
\* timer sent it before the hook did.
RetryCarriesNewToken ==
    [][ \A r \in Requests, a \in Attempts :
          stage[r][a] = "injected" /\ stage'[r][a] = "over" /\ stage'[r][tried'[r]] = "sent" =>
            header[r] \notin refused[r] \/ header[r] \in undeleted \/ Overtaken(r, a) ]_saVars

\* Every caller is called, whichever step fails and however the timer and the
\* hooks overlap; but for a request whose original end throws.
CallerIsCalled ==
    \A r \in Requests : pc[r] # "idle" ~> answered[r] \/ pc[r] = "thrown"
=============================================================================
