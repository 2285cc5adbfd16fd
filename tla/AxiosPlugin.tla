---------------------------- MODULE AxiosPlugin ----------------------------
(***************************************************************************)
(* packages/oidc-plugin-axios: requests whose adapter was replaced by       *)
(* makeAxiosPlugin.  An attempt runs the onStart hook of each plugin, the   *)
(* original adapter, and the onSuccess or onError hooks; the plugins vote   *)
(* for a retry and share the retries of retryAction.                       *)
(*                                                                         *)
(* Two plugins are bound: the authenticator, and another whose hooks may    *)
(* throw and which votes as it likes (retryRequest with a callback is one). *)
(***************************************************************************)
EXTENDS Naturals, Sequences

CONSTANTS
    Requests,              \* requests that may overlap
    Plugins,               \* the plugins, in the order they were bound
    OtherRetries,          \* implementation.retries of the other plugin
    RetryUnauthenticated,  \* retryUnauthenticatedRequests # false
    MaxRenewals            \* renewals of the token by others (bound)

ASSUME PluginsAssumption ==
    Plugins \in {<<"authenticator", "other">>, <<"other", "authenticator">>}
ASSUME RetriesAssumption ==
    OtherRetries \in Nat /\ MaxRenewals \in Nat /\ RetryUnauthenticated \in BOOLEAN

VARIABLES
    held,       \* the token of the session, 0: none
    issued,     \* tokens are numbered as they are issued
    renewals,   \* renewals so far
    at,         \* where each request is suspended
    plugin,     \* the plugin whose hook it awaits
    attempt,    \* its attempt, from 0
    enabled,    \* enabledProperty of its config
    header,     \* the token in its authorization header, 0: no header
    token,      \* tokenProperty of its config, 0: cleared
    lastError,  \* why its last attempt failed
    refused     \* the tokens it was answered 401 to

session == <<held, issued, renewals>>
vars == <<held, issued, renewals,
          at, plugin, attempt, enabled, header, token, lastError, refused>>

\* ctx.retries: the maximum of what the plugins ask for.
AuthRetries == IF RetryUnauthenticated THEN 1 ELSE 0
Retries     == IF OtherRetries > AuthRetries THEN OtherRetries ELSE AuthRetries

\* An answer 401, one that isTransientHttpError, and the rest.
Errors == {"unauthorized", "transient", "other"}

\* What the onSuccess hook of the other plugin throws: taken not to be the 401
\* of some other request, for which the token of this one would be blamed.
HookErrors == Errors \ {"unauthorized"}

Points == {"idle", "starting", "sent", "succeeding", "failing", "asking", "delaying", "done"}

TypeOK ==
    /\ held \in 0 .. issued
    /\ issued \in Nat
    /\ renewals \in 0 .. MaxRenewals
    /\ at \in [Requests -> Points]
    /\ plugin \in [Requests -> 1 .. Len(Plugins)]
    /\ attempt \in [Requests -> 0 .. Retries]
    /\ enabled \in [Requests -> BOOLEAN]
    /\ header \in [Requests -> 0 .. issued]
    /\ token \in [Requests -> 0 .. issued]
    /\ lastError \in [Requests -> Errors \cup {"none"}]
    /\ refused \in [Requests -> SUBSET (1 .. issued)]

Init ==
    /\ held = 0 /\ issued = 0 /\ renewals = 0
    /\ at = [r \in Requests |-> "idle"]
    /\ plugin = [r \in Requests |-> 1]
    /\ attempt = [r \in Requests |-> 0]
    /\ enabled = [r \in Requests |-> FALSE]
    /\ header = [r \in Requests |-> 0]
    /\ token = [r \in Requests |-> 0]
    /\ lastError = [r \in Requests |-> "none"]
    /\ refused = [r \in Requests |-> {}]

-----------------------------------------------------------------------------
Go(r, point) == at' = [at EXCEPT ![r] = point] /\ plugin' = [plugin EXCEPT ![r] = 1]

\* The hook of this plugin is over: the next one's, or what follows them all.
NextHook(r, point) ==
    IF plugin[r] < Len(Plugins)
    THEN plugin' = [plugin EXCEPT ![r] = @ + 1] /\ UNCHANGED at
    ELSE Go(r, point)

Throw(r, e, point) == Go(r, point) /\ lastError' = [lastError EXCEPT ![r] = e]

\* The hook of p is the next of the hooks of this kind.
Hook(r, p, point) == at[r] = point /\ Plugins[plugin[r]] = p

(* The adapter is called: the first attempt starts.                          *)
Begin(r) ==
    /\ at[r] = "idle"
    /\ Go(r, "starting")
    /\ UNCHANGED <<session, attempt, enabled, header, token, lastError, refused>>

-----------------------------------------------------------------------------
(* onStart of the authenticator.                                             *)

\* Faulty: a header that is already there is always respected.
CanApplyOnce(r) == header[r] = 0

\* canApplyAuthenticator, when the filters accept the request.
CanApply(r) == enabled[r] \/ header[r] = 0

\* The request is rejected by a filter, or brings its own header.
Pass(r) ==
    /\ Hook(r, "authenticator", "starting")
    /\ ~enabled[r] \/ ~CanApply(r)
    /\ NextHook(r, "sent")
    /\ UNCHANGED <<session, attempt, enabled, header, token, lastError, refused>>

\* session.getToken: the token of the session, or a new one.
Obtain(t) ==
    IF held # 0 THEN t = held /\ UNCHANGED session
    ELSE t = issued + 1 /\ held' = t /\ issued' = t /\ UNCHANGED renewals

\* The token is put in the header; then beforeSendRequest may throw.
Inject(r) ==
    /\ Hook(r, "authenticator", "starting")
    /\ CanApply(r)
    /\ enabled' = [enabled EXCEPT ![r] = TRUE]
    /\ \E t \in {held, issued + 1} :
         /\ Obtain(t)
         /\ header' = [header EXCEPT ![r] = t]
         /\ token' = [token EXCEPT ![r] = t]
    /\ \/ NextHook(r, "sent") /\ UNCHANGED lastError
       \/ \E e \in Errors : Throw(r, e, "asking")
    /\ UNCHANGED <<attempt, refused>>

\* session.getToken throws.
InjectFails(r, e) ==
    /\ Hook(r, "authenticator", "starting")
    /\ CanApply(r)
    /\ held = 0
    /\ enabled' = [enabled EXCEPT ![r] = TRUE]
    /\ Throw(r, e, "asking")
    /\ UNCHANGED <<session, attempt, header, token, refused>>

(* onStart of the other plugin.  What onStart throws reaches no onError hook. *)
OtherStarts(r) ==
    /\ Hook(r, "other", "starting")
    /\ \/ NextHook(r, "sent") /\ UNCHANGED lastError
       \/ \E e \in Errors : Throw(r, e, "asking")
    /\ UNCHANGED <<session, attempt, enabled, header, token, refused>>

-----------------------------------------------------------------------------
(* The original adapter settles.                                             *)
Answered(r) ==
    /\ at[r] = "sent"
    /\ Go(r, "succeeding")
    /\ UNCHANGED <<session, attempt, enabled, header, token, lastError, refused>>

Failed(r, e) ==
    /\ at[r] = "sent"
    /\ Throw(r, e, "failing")
    /\ refused' = IF e = "unauthorized" /\ header[r] # 0
                  THEN [refused EXCEPT ![r] = @ \cup {header[r]}] ELSE refused
    /\ UNCHANGED <<session, attempt, enabled, header, token>>

\* The promise of the adapter settles.
Settle(r) ==
    /\ Go(r, "done")
    /\ attempt' = [attempt EXCEPT ![r] = 0]
    /\ lastError' = [lastError EXCEPT ![r] = "none"]
    /\ UNCHANGED <<session, enabled, header, token, refused>>

(* onSuccess: the authenticator has none.  What it throws goes to onError.    *)
SuccessHook(r) ==
    /\ at[r] = "succeeding"
    /\ plugin[r] < Len(Plugins)
    /\ NextHook(r, "done")
    /\ UNCHANGED <<session, attempt, enabled, header, token, lastError, refused>>

Succeed(r) ==
    /\ at[r] = "succeeding"
    /\ plugin[r] = Len(Plugins)
    /\ Settle(r)

SuccessHookFails(r, e) ==
    /\ Hook(r, "other", "succeeding")
    /\ Throw(r, e, "failing")
    /\ UNCHANGED <<session, attempt, enabled, header, token, refused>>

-----------------------------------------------------------------------------
(* onError of the authenticator.                                             *)

\* A 401 to the token this plugin put in the header.
IsBadToken(r) ==
    lastError[r] = "unauthorized" /\ token[r] # 0 /\ header[r] = token[r]

\* Faulty: whichever token the session holds is deleted.
DropHeld(t) == held' = 0

\* session.deleteToken: only the token it is given.
Drop(t) == held' = IF held = t THEN 0 ELSE held

Ignore(r) ==
    /\ Hook(r, "authenticator", "failing")
    /\ ~IsBadToken(r)
    /\ NextHook(r, "asking")
    /\ UNCHANGED <<session, attempt, enabled, header, token, lastError, refused>>

DeleteToken(r) ==
    /\ Hook(r, "authenticator", "failing")
    /\ IsBadToken(r)
    /\ Drop(token[r])
    /\ token' = [token EXCEPT ![r] = 0]
    /\ NextHook(r, "asking")
    /\ UNCHANGED <<issued, renewals, attempt, enabled, header, lastError, refused>>

\* The failure of the deletion is logged and forgotten.
DeleteFails(r) ==
    /\ Hook(r, "authenticator", "failing")
    /\ IsBadToken(r)
    /\ NextHook(r, "asking")
    /\ UNCHANGED <<session, attempt, enabled, header, token, lastError, refused>>

(* onError of the other plugin: what it throws skips the hooks after it, and  *)
(* replaces the error.                                                       *)
OtherSeesError(r) ==
    /\ Hook(r, "other", "failing")
    /\ \/ NextHook(r, "asking") /\ UNCHANGED lastError
       \/ \E e \in Errors : Throw(r, e, "asking")
    /\ UNCHANGED <<session, attempt, enabled, header, token, refused>>

-----------------------------------------------------------------------------
(* canRetry.                                                                 *)

\* The vote of the authenticator: none, unless the error is a 401.
AuthVote(r) ==
    IF lastError[r] = "unauthorized" THEN {RetryUnauthenticated} ELSE {}

\* pluginErrorPoll: one vote for is enough; without votes the error decides.
MayRetry(r, otherVote) ==
    LET votes == AuthVote(r) \cup otherVote
    IN IF votes = {} THEN lastError[r] = "transient" ELSE TRUE \in votes

Votes == SUBSET BOOLEAN \ {BOOLEAN}

CanRetry(r) ==
    /\ at[r] = "asking"
    /\ \E v \in Votes : MayRetry(r, v)
    /\ Go(r, "delaying")
    /\ UNCHANGED <<session, attempt, enabled, header, token, lastError, refused>>

CannotRetry(r) ==
    /\ at[r] = "asking"
    /\ \E v \in Votes : ~MayRetry(r, v)
    /\ Settle(r)

\* Faulty: each plugin has retries of its own.
RetriesLeftEach(r) == attempt[r] < OtherRetries + AuthRetries

RetriesLeft(r) == attempt[r] < Retries

Retry(r) ==
    /\ at[r] = "delaying"
    /\ RetriesLeft(r)
    /\ Go(r, "starting")
    /\ attempt' = [attempt EXCEPT ![r] = @ + 1]
    /\ UNCHANGED <<session, enabled, header, token, lastError, refused>>

GiveUp(r) ==
    /\ at[r] = "delaying"
    /\ ~RetriesLeft(r)
    /\ Settle(r)

-----------------------------------------------------------------------------
(* The timer, or another client of the session, replaces the token.          *)
Renew ==
    /\ renewals < MaxRenewals
    /\ held # 0
    /\ renewals' = renewals + 1
    /\ issued' = issued + 1
    /\ held' = issued + 1
    /\ UNCHANGED <<at, plugin, attempt, enabled, header, token, lastError, refused>>

Progress(r) ==
    \/ Pass(r) \/ Inject(r) \/ OtherStarts(r)
    \/ Answered(r) \/ SuccessHook(r) \/ Succeed(r)
    \/ \E e \in Errors : InjectFails(r, e) \/ Failed(r, e)
    \/ \E e \in HookErrors : SuccessHookFails(r, e)
    \/ Ignore(r) \/ DeleteToken(r) \/ DeleteFails(r) \/ OtherSeesError(r)
    \/ CanRetry(r) \/ CannotRetry(r) \/ Retry(r) \/ GiveUp(r)

\* Every request was answered.
AllDone == (\A r \in Requests : at[r] = "done") /\ UNCHANGED vars

Next == (\E r \in Requests : Begin(r) \/ Progress(r)) \/ Renew \/ AllDone

Spec == Init /\ [][Next]_vars

-----------------------------------------------------------------------------
(* Properties                                                              *)

\* A request takes from the session only a token that it was refused with, in
\* any order of answers, retries and renewals.
OnlyRefusedTokensDropped ==
    [][ held # 0 /\ held' = 0 => \E r \in Requests : held \in refused[r] ]_vars

\* A request is sent again with a token it was refused with only if that token
\* could not be deleted, its tokenProperty bearing witness; and never because
\* the header of an earlier attempt was left in place.
RefusedTokenNotSentAgain ==
    [][ \A r \in Requests : at[r] = "starting" =>
          /\ token'[r] \in refused[r] => token'[r] = token[r]
          /\ at'[r] = "sent" /\ header'[r] \in refused[r] => header'[r] = token'[r] ]_vars

\* Whatever the plugins do, a request is a run of retryAction with the largest
\* number of retries that one of them asked for.
Loop(r) == INSTANCE RetryAction WITH
    Errors <- {"some"}, NoError <- "none", RetryCounts <- {Retries},
    maxRetries <- Retries, i <- attempt[r],
    lastError <- IF attempt[r] > 0 \/ at[r] \in {"asking", "delaying"} THEN "some" ELSE "none",
    pc <- CASE at[r] \in {"idle", "done"} -> "idle"
            [] at[r] \in {"asking", "delaying"} -> at[r]
            [] OTHER -> "acting"

RequestsShareRetries ==
    /\ \A r \in Requests : Loop(r)!Init
    /\ [][ \A r \in Requests : [Loop(r)!Next]_(Loop(r)!vars) ]_vars
=============================================================================
