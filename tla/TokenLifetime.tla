--------------------------- MODULE TokenLifetime ---------------------------
(***************************************************************************)
(* packages/oidc: the times at which a TokenSet expires and at which an     *)
(* OidcSession that schedules refreshes asks for the next one.  Time counts *)
(* in seconds, the unit of expires_in.  OidcSession.tla has the             *)
(* interleavings; here there is one token at a time and a clock.            *)
(*                                                                         *)
(* Names that every module has begin with TL here, so that a module of       *)
(* proofs can extend this one and another.                                  *)
(***************************************************************************)
EXTENDS Integers

CONSTANTS
    Lifetimes,    \* the expires_in the token endpoint may answer
    MaxLatency,   \* bound: from a request to the moment its token is stored
    MaxTimeout,   \* the longest delay setTimeout honours
    Stores        \* kinds of token store: "memory", "remote"

ASSUME LifetimeAssumption == Lifetimes \subseteq Nat \ {0}
ASSUME LatencyAssumption  == MaxLatency \in Nat
ASSUME TimeoutAssumption  == MaxTimeout \in Nat \ {0}

VARIABLES
    store,       \* the kind of token store of the session, for good
    token,       \* "dated", "undated" by an answer without expires_in, "none"
    expiresIn,   \* of the last dated token
    age,         \* of the token held: now - createdAt
    timer,       \* seconds before the timeout elapses, or NoTimer
    waiting      \* seconds since the next token was asked for, or NotWaiting

tlVars == <<store, token, expiresIn, age, timer, waiting>>

NoTimer    == -1
NotWaiting == -1

-----------------------------------------------------------------------------
\* calcExpirationOffsetInSecs
Offset(e) == CASE e <= 5   -> 0
               [] e \in 6 .. 20    -> 1
               [] e \in 21 .. 60   -> 5
               [] e \in 61 .. 300  -> 30
               [] OTHER            -> 60

\* The age at which hasExpired becomes true: expiresAt - createdAt.
ExpiresAt(e) == e - Offset(e)

\* Faulty: the refresh is scheduled for the moment the token expires.
DelayToExpiry(e) == e - Offset(e)

\* The delay of scheduleRefresh.
Delay(e) == LET d == e - 2 * Offset(e) IN IF d < 1 THEN 1 ELSE d

\* setTimeout replaces a delay it cannot represent by one millisecond.
Timeout(d) == IF d > MaxTimeout THEN 0 ELSE d

\* An invalid date is never past.
HasExpired == token = "dated" /\ age >= ExpiresAt(expiresIn)

-----------------------------------------------------------------------------
(* A token obtained s seconds ago, its creation, has just been stored.      *)
Stored(e, s) ==
    /\ token' = "dated"
    /\ expiresIn' = e
    /\ age' = s
    /\ timer' = Timeout(Delay(e))
    /\ waiting' = NotWaiting
    /\ UNCHANGED store

\* Faulty: the store keeps the token before it logs it.
UndatedStored(s) ==
    /\ token' = "undated"
    /\ age' = s
    /\ waiting' = NotWaiting
    /\ UNCHANGED <<store, expiresIn, timer>>

(* A token without expires_in: toRedactedJSON throws on its invalid date, in  *)
(* the in-memory store before the token is kept, and in scheduleRefresh before *)
(* the timeout is started.                                                  *)
Undated(s) ==
    /\ token' = IF store = "memory" THEN token ELSE "undated"
    /\ age' = IF store = "memory" THEN age ELSE s
    /\ waiting' = NotWaiting
    /\ UNCHANGED <<store, expiresIn, timer>>

TLInit ==
    /\ store \in Stores
    /\ token = "dated"
    /\ expiresIn \in Lifetimes
    /\ age \in 0 .. MaxLatency
    /\ timer = Timeout(Delay(expiresIn))
    /\ waiting = NotWaiting

(* getToken finds no token, or an expired one; refreshToken clears the timer. *)
RenewOnDemand ==
    /\ waiting = NotWaiting
    /\ token = "none" \/ HasExpired
    /\ timer' = NoTimer
    /\ waiting' = 0
    /\ UNCHANGED <<store, token, expiresIn, age>>

(* A server refuses the token, which is deleted and asked for again.        *)
Refused ==
    /\ waiting = NotWaiting
    /\ token # "none"
    /\ timer' = NoTimer
    /\ waiting' = 0
    /\ token' = "none"
    /\ UNCHANGED <<store, expiresIn, age>>

(* The timeout elapses and the token was used: it is renewed.               *)
TimerRenews ==
    /\ waiting = NotWaiting
    /\ timer = 0
    /\ timer' = NoTimer
    /\ waiting' = 0
    /\ UNCHANGED <<store, token, expiresIn, age>>

(* The timeout elapses and the token was not used: nothing is scheduled.    *)
TimerIdle ==
    /\ waiting = NotWaiting
    /\ timer = 0
    /\ timer' = NoTimer
    /\ UNCHANGED <<store, token, expiresIn, age, waiting>>

(* The token endpoint has answered, some of the time before the token is     *)
(* stored.                                                                  *)
Renewed ==
    /\ waiting # NotWaiting
    /\ \E e \in Lifetimes, s \in 0 .. waiting : Stored(e, s)

RenewedUndated == waiting # NotWaiting /\ \E s \in 0 .. waiting : Undated(s)

(* A second passes: a due timeout does not wait, an answer MaxLatency at     *)
(* most, and a token is not looked at long after its end.                   *)
Tick ==
    /\ timer # 0
    /\ waiting < MaxLatency
    /\ age <= expiresIn + MaxLatency
    /\ age' = age + 1
    /\ timer' = IF timer = NoTimer THEN NoTimer ELSE timer - 1
    /\ waiting' = IF waiting = NotWaiting THEN NotWaiting ELSE waiting + 1
    /\ UNCHANGED <<store, token, expiresIn>>

TLNext ==
    \/ TimerRenews \/ TimerIdle \/ RenewOnDemand \/ Refused
    \/ Renewed \/ RenewedUndated \/ Tick

TLSpec == TLInit /\ [][TLNext]_tlVars

\* Time passes, and somebody asks for a token that has expired.
TLFairSpec ==
    /\ TLSpec
    /\ WF_tlVars(Tick) /\ WF_tlVars(RenewOnDemand) /\ WF_tlVars(TimerRenews \/ TimerIdle)

-----------------------------------------------------------------------------
(* Properties                                                              *)

TLTypeOK ==
    /\ store \in Stores
    /\ token \in {"dated", "undated", "none"}
    /\ expiresIn \in Lifetimes
    /\ age \in Nat
    /\ timer \in Nat \cup {NoTimer}
    /\ waiting \in (0 .. MaxLatency) \cup {NotWaiting}

\* A renewal started by the timer leaves the token in use valid until the next
\* one is stored, if the offset of its lifetime covers the time the two tokens
\* take to come: callers of getToken never wait for it (scheduleRefresh).
RenewalIsEager ==
    [][ TimerRenews /\ 2 * MaxLatency < Offset(expiresIn) =>
            age + MaxLatency < ExpiresAt(expiresIn) ]_tlVars

\* With the store of the library a session whose token is in use asks for the
\* next one again and again, whatever the lifetimes, also those no timeout can
\* hold and those the server left out: no token is held for good.
TokensAreReplaced == store = "memory" => []<>(waiting # NotWaiting)
=============================================================================
