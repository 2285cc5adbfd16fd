---------------------------- MODULE OidcSession ----------------------------
(***************************************************************************)
(* packages/oidc: an OidcSession over its token store, its token provider   *)
(* and the timer that refreshes the token ahead of its expiry.              *)
(*                                                                         *)
(* The accessor of the session is a SynchronizedAsyncValue: its state is    *)
(* declared here under the same names, and each of its steps is taken       *)
(* together with what the session's callback does in that step.  A token is *)
(* the number of the invocation of refreshToken that obtained it, and it    *)
(* expires when it does: time itself is in TokenLifetime.                   *)
(***************************************************************************)
EXTENDS Naturals

CONSTANTS
    Clients,               \* concurrent users of the session
    Timer,                 \* the callback of setTimeout, also a user of it
    MaxCalls,              \* bound: token acquisitions
    Stores,                \* the kinds of token store, see SynchronizedAsyncValue
    CanUseRefreshTokens,   \* sessionConfig.canUseRefreshTokens
    ScheduleRefresh        \* sessionConfig.scheduleRefresh

ASSUME TimerAssumption == Timer \notin Clients
ASSUME BoundAssumption == MaxCalls \in Nat
ASSUME StoresAssumption == Stores \subseteq {"memory", "remote"}
ASSUME ConfigAssumption == /\ CanUseRefreshTokens \in BOOLEAN
                           /\ ScheduleRefresh \in BOOLEAN

VARIABLES store, value, expired, resolverCall, calls, phase, unstorable, prev,
          pc, captured, force, own, result, ahead   \* this.tokenAccessor

VARIABLES
    state,        \* this.state
    step,         \* where each invocation of refreshToken is suspended
    refreshable,  \* the tokens that came with a refresh_token
    timer,        \* this.timer, as the token it was started for; 0: undefined
    armed,        \* the tokens whose timeout is pending in the event loop
    tokenUsed     \* this.getTokenCounter > 0

Callers == Clients \cup {Timer}

SV == INSTANCE SynchronizedAsyncValue

accessor == <<store, value, expired, resolverCall, calls, phase, unstorable, prev,
              pc, captured, force, own, result, ahead>>
session  == <<state, step, refreshable, timer, armed, tokenUsed>>
vars     == <<accessor, session>>

Tokens == SV!Invocations

States == {"uninitialized", "acquiringToken", "tokenAcquired", "refreshingToken", "error"}
Steps  == {"none", "refreshing", "deleting", "deleted", "acquiring"}

TypeOK ==
    /\ SV!TypeOK
    /\ state \in States
    /\ step \in [Tokens -> Steps]
    /\ refreshable \in SUBSET Tokens
    /\ timer \in SV!Values
    /\ armed \in SUBSET Tokens
    /\ tokenUsed \in BOOLEAN

Init ==
    /\ SV!Init
    /\ state = "uninitialized"
    /\ step = [k \in Tokens |-> "none"]
    /\ refreshable = {}
    /\ timer = 0
    /\ armed = {}
    /\ tokenUsed = FALSE

-----------------------------------------------------------------------------
(* getToken (f = FALSE) and forceRefreshToken (f = TRUE), up to the reply   *)
(* of the token store.                                                      *)
GetToken(c, f) ==
    /\ SV!Call(c, f)
    /\ tokenUsed' = TRUE
    /\ UNCHANGED <<state, step, refreshable, timer, armed>>

\* What the accessor does for a call without entering the session's code.
AccessorStep(c) ==
    /\ \/ SV!StoreReads(c) \/ SV!GetterFails(c) \/ SV!ReturnCached(c) \/ SV!Join(c)
       \/ SV!ValueStored(c) \/ SV!SetterFails(c) \/ SV!Finish(c)
       \/ SV!LeaderFails(c) \/ SV!JoinerReturns(c)
    /\ UNCHANGED session

-----------------------------------------------------------------------------
\* Faulty: the timer of the previous token is left running.
TimerKept == UNCHANGED <<timer, armed>>

ClearTimer == timer' = 0 /\ armed' = armed \ {timer}

\* refreshToken tries the refresh token of t.
MayRefresh(t) == CanUseRefreshTokens /\ t \in refreshable

(* refreshToken, up to the request it sends to the token endpoint.          *)
StartRefresh(c) ==
    /\ SV!Resolve(c)
    /\ MayRefresh(captured[c])
    /\ ClearTimer
    /\ state' = "refreshingToken"
    /\ step' = [step EXCEPT ![calls + 1] = "refreshing"]
    /\ UNCHANGED <<refreshable, tokenUsed>>

StartAcquire(c) ==
    /\ SV!Resolve(c)
    /\ ~MayRefresh(captured[c])
    /\ ClearTimer
    /\ state' = "acquiringToken"
    /\ step' = [step EXCEPT ![calls + 1] = "acquiring"]
    /\ UNCHANGED <<refreshable, tokenUsed>>

(* The token endpoint answers either request; r: with a refresh token; u:     *)
(* without expires_in, so that the in-memory store throws on the token.      *)
TokenReceived(k, r, u) ==
    /\ step[k] \in {"refreshing", "acquiring"}
    /\ SV!ResolverReturns(k, u)
    /\ state' = "tokenAcquired"
    /\ step' = [step EXCEPT ![k] = "none"]
    /\ refreshable' = IF r THEN refreshable \cup {k} ELSE refreshable
    /\ UNCHANGED <<timer, armed, tokenUsed>>

\* The store drops the token invocation k started from, if it still holds it.
DropToken(k) == IF value = prev[k] THEN SV!Reset ELSE UNCHANGED accessor

(* Faulty: a token that could not be refreshed is kept in the store.        *)
RefreshFailsKeepingToken(k) ==
    /\ step[k] = "refreshing"
    /\ step' = [step EXCEPT ![k] = "deleted"]
    /\ UNCHANGED <<accessor, state, refreshable, timer, armed, tokenUsed>>

(* tryRefreshToken gives up: the store is asked to delete the token.        *)
RefreshFails(k) ==
    /\ step[k] = "refreshing"
    /\ IF SV!Ordered
       THEN DropToken(k) /\ step' = [step EXCEPT ![k] = "deleted"]
       ELSE UNCHANGED accessor /\ step' = [step EXCEPT ![k] = "deleting"]
    /\ UNCHANGED <<state, refreshable, timer, armed, tokenUsed>>

(* A store that is not ordered deletes some time after the call.            *)
TokenDropped(k) ==
    /\ step[k] = "deleting"
    /\ DropToken(k)
    /\ step' = [step EXCEPT ![k] = "deleted"]
    /\ UNCHANGED <<state, refreshable, timer, armed, tokenUsed>>

(* The store acknowledges and doGetToken starts.  An ordered store has       *)
(* answered first the reads that saw the token: they came before.           *)
FallBack(k) ==
    /\ step[k] = "deleted"
    /\ SV!Ordered => \A c \in Callers : pc[c] = "read" => captured[c] # prev[k]
    /\ state' = "acquiringToken"
    /\ step' = [step EXCEPT ![k] = "acquiring"]
    /\ UNCHANGED <<accessor, refreshable, timer, armed, tokenUsed>>

(* refreshToken rethrows: the token was not obtained, or not deleted.       *)
ResolveFails(k) ==
    /\ \/ step[k] = "acquiring"
       \/ ~SV!Ordered /\ step[k] \in {"deleting", "deleted"}
    /\ SV!ResolverThrows(k)
    /\ state' = "error"
    /\ step' = [step EXCEPT ![k] = "none"]
    /\ UNCHANGED <<refreshable, timer, armed, tokenUsed>>

-----------------------------------------------------------------------------
(* tokenSetter, up to the reply of the token store.                         *)
StoreToken(c) ==
    /\ SV!StoreValue(c) \/ SV!StoreThrows(c) \/ SV!StartStoring(c)
    /\ tokenUsed' = FALSE
    /\ UNCHANGED <<state, step, refreshable, timer, armed>>

(* The rest of tokenSetter: the next refresh is scheduled.  A 'token' listener *)
(* that throws then is SetterFails.                                         *)
TokenStored(c) ==
    /\ SV!SetterReplied(c)
    /\ IF ScheduleRefresh
       THEN /\ timer' = own[c]
            /\ armed' = (armed \ {timer}) \cup {own[c]}
       ELSE UNCHANGED <<timer, armed>>
    /\ UNCHANGED <<state, step, refreshable, tokenUsed>>

\* The promise reactions have run.  A timeout elapses, and an HTTP request is
\* answered, in a later task than the one that settled the promises; a store
\* that is not ordered may reply in a later task too.
TaskBoundary ==
    \A c \in Callers :
        \/ pc[c] \in IF SV!Ordered THEN {"idle"}
                     ELSE {"idle", "getting", "read", "storing", "stored"}
        \/ pc[c] \in {"leading", "joined"} /\ phase[own[c]] = "pending"

(* Faulty: the callback calls getToken, which returns the token still valid.  *)
TimerFiresUnforced(t) ==
    /\ t \in armed
    /\ pc[Timer] = "idle"
    /\ TaskBoundary
    /\ armed' = armed \ {t}
    /\ IF tokenUsed THEN SV!Call(Timer, FALSE) ELSE UNCHANGED accessor
    /\ UNCHANGED <<state, step, refreshable, timer, tokenUsed>>

(* The timeout of t elapses.  Nothing is asked if the token was not used.    *)
(* The callback of the previous timeout is over: it ends with the promise    *)
(* reactions of the flight that started this one, at least a second ago.    *)
TimerFires(t) ==
    /\ t \in armed
    /\ pc[Timer] = "idle"
    /\ TaskBoundary
    /\ armed' = armed \ {t}
    /\ IF tokenUsed THEN SV!Call(Timer, TRUE) ELSE UNCHANGED accessor
    /\ UNCHANGED <<state, step, refreshable, timer, tokenUsed>>

-----------------------------------------------------------------------------
(* deleteToken, with a token that c was given or an older one: nothing       *)
(* happens unless it is the one stored.                                     *)
DeleteToken(c) ==
    /\ value <= result[c]
    /\ SV!Reset
    /\ UNCHANGED session

Expire(t) == SV!Expire(t) /\ UNCHANGED session

\* Nothing is left to do within the bound.
Exhausted == SV!Exhausted /\ UNCHANGED session

-----------------------------------------------------------------------------
Progress(c) ==
    \/ AccessorStep(c) \/ StartRefresh(c) \/ StartAcquire(c)
    \/ StoreToken(c) \/ TokenStored(c)

ProviderStep(k) ==
    \/ \E r, u \in BOOLEAN : TokenReceived(k, r, u)
    \/ RefreshFails(k) \/ TokenDropped(k) \/ FallBack(k) \/ ResolveFails(k)

Next ==
    \/ \E c \in Clients, f \in BOOLEAN : GetToken(c, f)
    \/ \E c \in Callers : Progress(c)
    \/ \E k \in Tokens : ProviderStep(k) \/ TimerFires(k) \/ Expire(k)
    \/ \E c \in Clients : DeleteToken(c)
    \/ Exhausted

Spec == Init /\ [][Next]_vars

(* The event loop runs what is ready, the token endpoint and the store        *)
(* answer or fail, the clients let the queue of reactions drain, and a        *)
(* timeout fires: strongly, for reactions, and the bound on the calls, can    *)
(* hold it back for a moment.                                               *)
Fairness ==
    /\ []<>TaskBoundary
    /\ \A c \in Callers : WF_vars(Progress(c))
    /\ \A k \in Tokens : WF_vars(ProviderStep(k)) /\ SF_vars(TimerFires(k))

FairSpec == Spec /\ Fairness

-----------------------------------------------------------------------------
(* Properties                                                              *)

\* this.state follows the newest invocation of refreshToken, through failed
\* refreshes and errors: no earlier invocation writes it afterwards.
StateFollowsFlight ==
    IF calls = 0 THEN state = "uninitialized"
    ELSE state = CASE phase[calls] = "resolved"  -> "tokenAcquired"
                   [] phase[calls] = "rejected"  -> "error"
                   [] step[calls] = "acquiring"  -> "acquiringToken"
                   [] OTHER                      -> "refreshingToken"

\* The only timeout that may be pending is that of the newest token: none
\* survives a new acquisition, however it was started (clearTimer).
TimerIsForNewestToken ==
    \A t \in armed : t = calls /\ t = timer /\ phase[t] = "resolved"

\* The invocation sent the refresh token of the token it was given.
SentRefreshToken(k) == phase[k] # "unused" /\ MayRefresh(prev[k])

\* Over the in-memory store, a refresh token is sent to the token endpoint again
\* only if it was answered before with a token without expires_in, on which the
\* store throws and keeps the one it has: not by overlapping calls or the timer,
\* nor after a refusal, an error or a listener that throws.
RefreshTokenSentOnce ==
    SV!Ordered => \A j, k \in Tokens :
        SentRefreshToken(j) /\ SentRefreshToken(k) /\ prev[j] = prev[k] /\ j < k
            => j \in unstorable

\* A token whose refresh was refused is in the store neither while its
\* replacement is being acquired nor, unless its deletion failed, after that
\* failed (tryRefreshToken).
RefusedTokenIsGone ==
    \A k \in Tokens :
        /\ SentRefreshToken(k)
        /\ step[k] = "acquiring" \/ (SV!Ordered /\ phase[k] = "rejected")
        => value # prev[k]

\* A token in use whose refresh is scheduled gets a successor without any call
\* of a client (or the bound on acquisitions is reached), unless the store fails.
ScheduledRefreshHappens ==
    \A t \in Tokens :
        SV!Ordered /\ t \in armed /\ tokenUsed ~> calls > t \/ calls = MaxCalls
=============================================================================
