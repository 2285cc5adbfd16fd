-------------------------- MODULE OidcHttpClientProofs --------------------------
(***************************************************************************)
(* What the requests sent through an OidcHttpClient do to the session they   *)
(* share, for any number of them, every configuration and either kind of     *)
(* store.                                                                  *)
(***************************************************************************)
EXTENDS OidcHttpClient, TLAPS

(* The accessor as a request sees it is that of the session.                  *)
LEMMA SameAccessor ==
    ASSUME NEW r
    PROVE  /\ SV!ReturnCached(r) => Session!SV!ReturnCached(r)
           /\ SV!Finish(r) => Session!SV!Finish(r)
           /\ SV!JoinerReturns(r) => Session!SV!JoinerReturns(r)
           /\ SV!GetterFails(r) => Session!SV!GetterFails(r)
           /\ SV!SetterFails(r) => Session!SV!SetterFails(r)
           /\ SV!LeaderFails(r) => Session!SV!LeaderFails(r)
<1> USE DEF Session!Callers, SV!Settle, Session!SV!Settle, SV!Release, Session!SV!Release,
            SV!Forget, Session!SV!Forget, SV!Ordered, Session!SV!Ordered
<1>1. SV!ReturnCached(r) => Session!SV!ReturnCached(r)
  BY DEF SV!ReturnCached, Session!SV!ReturnCached, SV!NeedsResolve,
         Session!SV!NeedsResolve, SV!Valid, Session!SV!Valid
<1>2. SV!Finish(r) => Session!SV!Finish(r)
  BY DEF SV!Finish, Session!SV!Finish
<1>3. SV!JoinerReturns(r) => Session!SV!JoinerReturns(r)
  BY DEF SV!JoinerReturns, Session!SV!JoinerReturns
<1>4. SV!GetterFails(r) => Session!SV!GetterFails(r)
  BY DEF SV!GetterFails, Session!SV!GetterFails
<1>5. SV!SetterFails(r) => Session!SV!SetterFails(r)
  BY DEF SV!SetterFails, Session!SV!SetterFails
<1>6. SV!LeaderFails(r) => Session!SV!LeaderFails(r)
  BY DEF SV!LeaderFails, Session!SV!LeaderFails
<1> QED
  BY <1>1, <1>2, <1>3, <1>4, <1>5, <1>6

(* getToken ends for a request with a step of the accessor.                   *)
LEMMA TokenSteps ==
    ASSUME NEW r \in Requests, TokenGiven(r) \/ \E e \in Errors : TokenNotGiven(r, e)
    PROVE  Session!AccessorStep(r)
<1>1. /\ \/ SV!ReturnCached(r) \/ SV!Finish(r) \/ SV!JoinerReturns(r)
         \/ SV!GetterFails(r) \/ SV!SetterFails(r) \/ SV!LeaderFails(r)
      /\ UNCHANGED <<state, step, refreshable, timer, armed, tokenUsed>>
  BY DEF TokenGiven, TokenNotGiven
<1> QED
  BY <1>1, SameAccessor DEF Session!AccessorStep, Session!session

(* What each step is for the session.                                        *)
LEMMA SessionSteps ==
    ASSUME NEW r \in Requests, PassThrough(r) \/ Send(r) \/ Progress(r)
    PROVE  \/ UNCHANGED sessionVars
           \/ Session!GetToken(r, FALSE) \/ Session!Progress(r) \/ Session!DeleteToken(r)
<1>1. CASE TokenGiven(r) \/ \E e \in Errors : TokenNotGiven(r, e)
  BY <1>1, TokenSteps DEF Session!Progress
<1>2. CASE PassThrough(r) \/ PassedAnswer(r) \/ ApiAccepts(r) \/ CannotRetry(r)
           \/ TokenDeleted(r) \/ DeleteFails(r) \/ GiveUp(r)
  BY <1>2 DEF PassThrough, PassedAnswer, ApiAccepts, CannotRetry, TokenDeleted,
     DeleteFails, GiveUp
<1>3. ASSUME NEW e \in Errors, ApiFails(r, e) PROVE UNCHANGED sessionVars
  BY <1>3 DEF ApiFails
<1>4. CASE Send(r) \/ Retry(r)
  BY <1>4 DEF Send, Retry
<1>5. CASE SessionWorks(r)
  BY <1>5 DEF SessionWorks
<1>6. CASE DeleteToken(r)
  BY <1>6 DEF DeleteToken
<1> QED
  BY <1>1, <1>2, <1>3, <1>4, <1>5, <1>6, Zenon DEF Progress

LEMMA SessionStepping == [Next]_vars => [Session!Next]_(Session!vars)
<1> SUFFICES ASSUME [Next]_vars PROVE [Session!Next]_(Session!vars)
  OBVIOUS
<1> USE DEF sessionVars, Session!vars, Session!accessor, Session!session
<1>1. ASSUME NEW r \in Requests, PassThrough(r) \/ Send(r) \/ Progress(r)
      PROVE  [Session!Next]_(Session!vars)
  <2>1. r \in Session!Callers /\ FALSE \in BOOLEAN
    BY DEF Session!Callers
  <2> QED
    BY <1>1, <2>1, SessionSteps DEF Session!Next
<1>2. CASE SessionStep
  <2>1. Timer \in Session!Callers /\ Tokens = Session!Tokens
    BY DEF Session!Callers, Tokens, Session!Tokens, Session!SV!Invocations
  <2> QED
    BY <1>2, <2>1 DEF SessionStep, Session!Next
<1>3. CASE Exhausted
  BY <1>3 DEF Exhausted, Session!Next
<1>4. CASE UNCHANGED vars
  BY <1>4 DEF vars
<1> QED
  BY <1>1, <1>2, <1>3, <1>4 DEF Next

(* Requests move the session by its own operations only: each behaviour of    *)
(* OidcHttpClient is one of OidcSession.                                     *)
THEOREM RequestsImplementSession == Spec => Session!Spec
<1>1. Init => Session!Init
  BY DEF Init
<1> QED
  BY <1>1, SessionStepping, PTL DEF Spec, Session!Spec

-----------------------------------------------------------------------------
(* What a step of the session does to the calls under way and to the token.   *)
AccessorOK ==
    /\ DOMAIN pc = Session!Callers /\ DOMAIN own = Session!Callers /\ calls \in Nat
    /\ DOMAIN force = Session!Callers /\ DOMAIN result = Session!Callers
    /\ \A c \in Session!Callers : Session!SV!Leads(c) => own[c] # 0

\* Only the call of c moves.
OnlyMoves(c) == \A d \in Session!Callers \ {c} : UNCHANGED <<pc[d], own[d], force[d]>>

LEMMA CallMoves ==
    ASSUME AccessorOK, NEW c \in Session!Callers, NEW f, Session!SV!Call(c, f)
    PROVE  AccessorOK' /\ OnlyMoves(c) /\ pc[c] = "idle" /\ value' = value /\ force'[c] = f
  BY DEF AccessorOK, OnlyMoves, Session!SV!Call, Session!SV!Leads

LEMMA ProgressMoves ==
    ASSUME AccessorOK, NEW c \in Session!Callers, Session!Progress(c)
    PROVE  /\ AccessorOK' /\ OnlyMoves(c) /\ pc[c] # "idle"
           /\ value' = value \/ value' # 0
           /\ force'[c] \in {force[c], FALSE}
<1> USE DEF AccessorOK, OnlyMoves, Session!SV!Leads, Session!SV!Forget
<1> DEFINE P == /\ AccessorOK' /\ OnlyMoves(c) /\ pc[c] # "idle"
                /\ value' = value \/ value' # 0
                /\ force'[c] \in {force[c], FALSE}
<1> SUFFICES P
  OBVIOUS
<1>1. CASE Session!SV!StoreReads(c) \/ Session!SV!GetterFails(c) \/ Session!SV!ReturnCached(c)
           \/ Session!SV!Join(c)
  BY <1>1 DEF Session!SV!StoreReads, Session!SV!GetterFails, Session!SV!ReturnCached, Session!SV!Join
<1>2. CASE Session!SV!Resolve(c)
  BY <1>2 DEF Session!SV!Resolve
<1>3. CASE Session!SV!StoreValue(c) \/ Session!SV!StoreThrows(c) \/ Session!SV!StartStoring(c)
           \/ Session!SV!ValueStored(c) \/ Session!SV!SetterReplied(c)
  BY <1>3 DEF Session!SV!StoreValue, Session!SV!StoreThrows, Session!SV!StartStoring,
     Session!SV!ValueStored, Session!SV!SetterReplied, Session!SV!Write
<1>4. CASE Session!SV!SetterFails(c) \/ Session!SV!Finish(c) \/ Session!SV!LeaderFails(c)
           \/ Session!SV!JoinerReturns(c)
  BY <1>4 DEF Session!SV!SetterFails, Session!SV!Finish, Session!SV!LeaderFails,
     Session!SV!JoinerReturns
<1> HIDE DEF P
<1> QED
  BY <1>1, <1>2, <1>3, <1>4 DEF Session!Progress, Session!AccessorStep, Session!StartRefresh,
     Session!StartAcquire, Session!StoreToken, Session!TokenStored

\* The refresh of the token that k started from was refused.
Refusal(k) == prev[k] = value /\ step[k] \in {"refreshing", "deleting"}

LEMMA ProviderMoves ==
    ASSUME AccessorOK, NEW k \in Session!Tokens, Session!ProviderStep(k)
    PROVE  AccessorOK' /\ UNCHANGED <<pc, own, force>> /\ (value' = value \/ Refusal(k))
<1> USE DEF AccessorOK, Session!SV!Leads
<1>1. CASE \E r, u \in BOOLEAN : Session!TokenReceived(k, r, u)
  BY <1>1 DEF Session!TokenReceived, Session!SV!ResolverReturns
<1>2. CASE Session!RefreshFails(k) \/ Session!TokenDropped(k)
  BY <1>2 DEF Session!RefreshFails, Session!TokenDropped, Session!DropToken, Session!SV!Reset,
     Session!accessor, Refusal
<1>3. CASE Session!FallBack(k) \/ Session!ResolveFails(k)
  BY <1>3 DEF Session!FallBack, Session!ResolveFails, Session!SV!ResolverThrows, Session!accessor
<1> QED
  BY <1>1, <1>2, <1>3 DEF Session!ProviderStep

LEMMA ResetMoves ==
    ASSUME AccessorOK, NEW r, Session!DeleteToken(r)
    PROVE  AccessorOK' /\ UNCHANGED <<pc, own, force>>
  BY DEF AccessorOK, Session!SV!Leads, Session!DeleteToken, Session!SV!Reset

LEMMA SessionMoves ==
    ASSUME AccessorOK, SessionStep \/ Exhausted
    PROVE  /\ AccessorOK' /\ \A r \in Requests : pc'[r] = pc[r] /\ force'[r] = force[r]
           /\ value' = value \/ value' # 0 \/ \E k \in Tokens : Refusal(k)
<1> DEFINE P == /\ AccessorOK' /\ \A r \in Requests : pc'[r] = pc[r] /\ force'[r] = force[r]
                /\ value' = value \/ value' # 0 \/ \E k \in Tokens : Refusal(k)
<1> SUFFICES P
  OBVIOUS
<1>1. /\ Timer \in Session!Callers /\ Requests \subseteq Session!Callers
      /\ \A r \in Requests : r # Timer
      /\ Tokens = Session!Tokens
  BY TimerAssumption DEF Session!Callers, Tokens, Session!Tokens, Session!SV!Invocations
<1>2. CASE Session!Progress(Timer)
  BY <1>1, <1>2, ProgressMoves DEF OnlyMoves
<1>3. ASSUME NEW k \in Tokens, Session!ProviderStep(k) PROVE P
  BY <1>1, <1>3, ProviderMoves
<1>4. ASSUME NEW k \in Tokens, Session!TimerFires(k) PROVE P
  <2>1. CASE tokenUsed
    BY <1>1, <1>4, <2>1, CallMoves DEF Session!TimerFires, OnlyMoves
  <2>2. CASE ~tokenUsed
    BY <1>4, <2>2 DEF Session!TimerFires, Session!accessor, AccessorOK, Session!SV!Leads
  <2> QED
    BY <2>1, <2>2
<1>5. ASSUME NEW k \in Tokens, Session!Expire(k) PROVE P
  BY <1>5 DEF Session!Expire, Session!SV!Expire, AccessorOK, Session!SV!Leads
<1>6. CASE Exhausted
  BY <1>6 DEF Exhausted, Session!Exhausted, Session!SV!Exhausted, Session!SV!vars, AccessorOK,
     Session!SV!Leads
<1> HIDE DEF P
<1> QED
  BY <1>2, <1>3, <1>4, <1>5, <1>6 DEF SessionStep

-----------------------------------------------------------------------------
(* What is known of a send where it is suspended: at rest it left nothing     *)
(* behind, and once an attempt was refused its token is among the refused.    *)
SendTypes ==
    /\ at \in [Requests -> Points]
    /\ attempt \in [Requests -> 0 .. 1]
    /\ DOMAIN token = Requests
    /\ lastError \in [Requests -> Errors \cup {"none"}]

AtRest(r) == at[r] \in {"idle", "passing"}

IsRefused(r) == token[r] = 0 \/ token[r] \in refused

SendOK(r) ==
    /\ AtRest(r) => attempt[r] = 0 /\ token[r] = 0 /\ lastError[r] = "none"
    /\ at[r] \in {"token", "deleted", "delaying"} => IsRefused(r)
    /\ at[r] = "asking" /\ lastError[r] = "unauthorized" => IsRefused(r)

\* A call of getToken is under way for a send that waits for its token only,
\* and never forced.
WaitsForToken(r) == (pc[r] # "idle" => at[r] = "token") /\ force[r] = FALSE

SendInv ==
    /\ AccessorOK /\ SendTypes
    /\ \A r \in Requests : SendOK(r) /\ WaitsForToken(r)

(* The steps of a send, each by what it changes of it.                        *)
Same(r)    == UNCHANGED <<at[r], attempt[r], token[r], lastError[r]>>
Passes(r)  == AtRest(r) /\ at'[r] \in {"idle", "passing"} /\ UNCHANGED <<attempt[r], token[r], lastError[r]>>
Starts(r)  == at[r] = "idle" /\ at'[r] = "token" /\ UNCHANGED <<attempt[r], token[r], lastError[r]>>
Given(r)   ==
    \/ pc[r] = "read" /\ captured[r] # 0 /\ token'[r] = captured[r]
    \/ pc[r] = "set" /\ token'[r] = own[r]
    \/ pc[r] = "joined" /\ phase[own[r]] = "resolved" /\ token'[r] = own[r]
Sends(r)   ==
    /\ at[r] = "token" /\ at'[r] = "sent" /\ Given(r)
    /\ UNCHANGED <<attempt[r], lastError[r]>>
Fails(r)   ==
    /\ at[r] \in {"token", "sent"} /\ at'[r] = "asking" /\ lastError'[r] \in Errors
    /\ at[r] = "sent" /\ lastError'[r] = "unauthorized" => token[r] \in refused'
    /\ at[r] = "sent" => Session!TaskBoundary
    /\ UNCHANGED <<attempt[r], token[r]>>
Deletes(r) ==
    /\ \/ at[r] = "asking" /\ at'[r] \in {"deleted", "delaying"} /\ lastError[r] = "unauthorized"
       \/ at[r] = "deleted" /\ at'[r] = "delaying"
    /\ at[r] = "asking" => value' = 0 \/ (value' = value /\ value # token[r])
    /\ UNCHANGED <<attempt[r], token[r], lastError[r]>>
Retries(r) ==
    /\ at[r] = "delaying" /\ at'[r] = "token" /\ attempt[r] = 0 /\ attempt'[r] = 1
    /\ UNCHANGED <<token[r], lastError[r]>>
Settles(r) ==
    /\ at[r] \in {"sent", "asking", "deleted"} \/ (at[r] = "delaying" /\ attempt[r] = 1)
    /\ at'[r] = "idle" /\ attempt'[r] = 0 /\ token'[r] = 0 /\ lastError'[r] = "none"

Journey(r) ==
    \/ Same(r) \/ Passes(r) \/ Starts(r) \/ Sends(r) \/ Fails(r)
    \/ Deletes(r) \/ Retries(r) \/ Settles(r)

LEMMA SendStep ==
    ASSUME SendInv, NEW r \in Requests, PassThrough(r) \/ Send(r) \/ Progress(r)
    PROVE  /\ AccessorOK' /\ SendTypes' /\ refused \subseteq refused'
           /\ \A q \in Requests \ {r} : Same(q) /\ pc'[q] = pc[q] /\ force'[q] = force[q]
           /\ Journey(r) /\ WaitsForToken(r)'
           /\ value # 0 /\ value' = 0 => value \in refused
<1> DEFINE Others == \A q \in Requests \ {r} : pc'[q] = pc[q] /\ force'[q] = force[q]
           P == /\ AccessorOK' /\ SendTypes' /\ refused \subseteq refused'
                /\ \A q \in Requests \ {r} : Same(q) /\ pc'[q] = pc[q] /\ force'[q] = force[q]
                /\ Journey(r) /\ WaitsForToken(r)'
                /\ value # 0 /\ value' = 0 => value \in refused
<1> SUFFICES P
  OBVIOUS
<1> USE DEF SendInv, SendTypes, Points, Errors, WaitsForToken
<1>0. /\ Requests \subseteq Session!Callers /\ AccessorOK
      /\ (pc[r] # "idle" => at[r] = "token") /\ force[r] = FALSE
      /\ SendOK(r) /\ attempt[r] \in 0 .. 1
      /\ UNCHANGED <<pc, own, calls, force, result>> => AccessorOK'
  BY DEF Session!Callers, WaitsForToken, AccessorOK, Session!SV!Leads
<1>1. CASE PassThrough(r) \/ PassedAnswer(r)
  BY <1>0, <1>1 DEF PassThrough, PassedAnswer, sessionVars, Same, Journey, Passes, AtRest
<1>2. CASE Send(r) \/ Retry(r)
  <2>1. AccessorOK' /\ Others /\ pc[r] = "idle" /\ value' = value /\ force'[r] = FALSE
    <3>1. Session!SV!Call(r, FALSE)
      BY <1>2 DEF Send, Retry, Session!GetToken
    <3>2. AccessorOK /\ r \in Session!Callers
      BY <1>0
    <3>3. AccessorOK' /\ OnlyMoves(r) /\ pc[r] = "idle" /\ value' = value /\ force'[r] = FALSE
      BY <3>1, <3>2, CallMoves
    <3> QED
      BY <1>0, <3>3 DEF OnlyMoves
  <2>2. CASE Send(r)
    BY <1>0, <2>1, <2>2 DEF Send, Same, Journey, Starts
  <2>3. CASE Retry(r)
    <3>1. SendTypes'
      BY <2>3 DEF Retry
    <3> QED
      BY <1>0, <2>1, <2>3, <3>1 DEF Retry, Same, Journey, Retries
  <2> QED
    BY <1>2, <2>2, <2>3
<1>3. CASE SessionWorks(r)
  <2>1. /\ AccessorOK' /\ Others /\ pc[r] # "idle" /\ UNCHANGED sends
        /\ (value' = value \/ value' # 0) /\ force'[r] = FALSE
    BY <1>0, <1>3, ProgressMoves DEF SessionWorks, OnlyMoves
  <2> QED
    BY <1>0, <2>1 DEF sends, Same, Journey
<1>4. CASE TokenGiven(r)
  <2>1. /\ AccessorOK' /\ Others /\ pc[r] # "idle" /\ value' = value /\ force'[r] = FALSE
    BY <1>0, <1>4, TokenSteps, ProgressMoves DEF Session!Progress, OnlyMoves, TokenGiven,
       SV!ReturnCached, SV!Finish, SV!JoinerReturns
  <2>2. pc'[r] = "idle"
    BY <1>0, <1>4 DEF TokenGiven, SV!ReturnCached, SV!Finish, SV!JoinerReturns, AccessorOK
  <2>3. Given(r)
    <3>1. CASE SV!ReturnCached(r)
      BY <1>0, <1>4, <3>1 DEF TokenGiven, SV!ReturnCached, SV!NeedsResolve, SV!Valid,
         AccessorOK, Given
    <3>2. CASE SV!Finish(r) \/ (SV!JoinerReturns(r) /\ phase[own[r]] = "resolved")
      BY <1>0, <1>4, <3>2 DEF TokenGiven, SV!Finish, SV!JoinerReturns, AccessorOK, Given
    <3> QED
      BY <1>4, <3>1, <3>2 DEF TokenGiven
  <2> QED
    BY <1>0, <1>4, <2>1, <2>2, <2>3 DEF TokenGiven, Same, Journey, Sends
<1>5. ASSUME NEW e \in Errors, TokenNotGiven(r, e) PROVE P
  <2>1. /\ AccessorOK' /\ Others /\ pc[r] # "idle" /\ value' = value /\ force'[r] = FALSE
    BY <1>0, <1>5, TokenSteps, ProgressMoves DEF Session!Progress, OnlyMoves, TokenNotGiven,
       SV!GetterFails, SV!SetterFails, SV!LeaderFails, SV!JoinerReturns
  <2>2. pc'[r] = "idle"
    BY <1>0, <1>5 DEF TokenNotGiven, SV!GetterFails, SV!SetterFails, SV!LeaderFails,
       SV!JoinerReturns, AccessorOK
  <2> QED
    BY <1>0, <1>5, <2>1, <2>2 DEF TokenNotGiven, AskRetry, Same, Journey, Fails
<1>6. CASE ApiAccepts(r) \/ CannotRetry(r) \/ DeleteFails(r) \/ GiveUp(r)
  <2>1. Settle(r) /\ UNCHANGED <<sessionVars, refused>>
    BY <1>6 DEF ApiAccepts, CannotRetry, DeleteFails, GiveUp
  <2>2. at[r] \in {"sent", "asking", "deleted"} \/ (at[r] = "delaying" /\ attempt[r] = 1)
    BY <1>6 DEF ApiAccepts, CannotRetry, DeleteFails, GiveUp
  <2> QED
    BY <1>0, <2>1, <2>2 DEF Settle, sessionVars, Same, Journey, Settles
<1>7. ASSUME NEW e \in Errors, ApiFails(r, e) PROVE P
  BY <1>0, <1>7 DEF ApiFails, AskRetry, sessionVars, Same, Journey, Fails
<1>8. CASE DeleteToken(r)
  <2>1. /\ at[r] = "asking" /\ MayRetry(r) /\ UNCHANGED <<attempt, token, lastError, refused>>
        /\ at' = [at EXCEPT ![r] = IF ~SV!Ordered THEN "deleted" ELSE "delaying"]
    BY <1>8 DEF DeleteToken
  <2>2. IsRefused(r) /\ lastError[r] = "unauthorized"
    BY <1>0, <2>1 DEF MayRetry, SendOK
  <2>3. /\ AccessorOK' /\ UNCHANGED <<pc, force>>
        /\ value # 0 /\ value' = 0 => value \in refused
        /\ value' = 0 \/ (value' = value /\ value # token[r])
    BY <1>0, <1>8, <2>2, ResetMoves DEF DeleteToken, Holds, IsRefused, sessionVars,
       Session!DeleteToken, Session!SV!Reset
  <2> QED
    BY <1>0, <2>1, <2>2, <2>3 DEF Same, Journey, Deletes
<1>9. CASE TokenDeleted(r)
  BY <1>0, <1>9 DEF TokenDeleted, sessionVars, Same, Journey, Deletes
<1> HIDE DEF P
<1> QED
  BY <1>1, <1>2, <1>3, <1>4, <1>5, <1>6, <1>7, <1>8, <1>9, Zenon DEF Progress

(* Where a step can take each send, and what it does to the token stored.     *)
LEMMA Moves ==
    ASSUME SendInv, [Next]_vars
    PROVE  /\ AccessorOK' /\ SendTypes' /\ refused \subseteq refused'
           /\ \A r \in Requests : Journey(r) /\ WaitsForToken(r)'
           /\ value # 0 /\ value' = 0 => value \in refused \/ \E k \in Tokens : Refusal(k)
<1>1. ASSUME NEW r \in Requests, PassThrough(r) \/ Send(r) \/ Progress(r)
      PROVE  /\ AccessorOK' /\ SendTypes' /\ refused \subseteq refused'
             /\ \A q \in Requests : Journey(q) /\ WaitsForToken(q)'
             /\ value # 0 /\ value' = 0 => value \in refused
  <2>1. \A q \in Requests \ {r} : Journey(q) /\ WaitsForToken(q)'
    BY <1>1, SendStep DEF SendInv, Same, Journey, WaitsForToken
  <2> QED
    BY <1>1, <2>1, SendStep DEF WaitsForToken
<1>2. CASE SessionStep \/ Exhausted
  <2>1. UNCHANGED sends
    BY <1>2 DEF SessionStep, Exhausted
  <2> QED
    BY <1>2, <2>1, SessionMoves DEF sends, SendInv, SendTypes, Same, Journey, WaitsForToken
<1>3. CASE UNCHANGED vars
  BY <1>3 DEF vars, sessionVars, sends, SendInv, SendTypes, AccessorOK, Session!SV!Leads, Same,
     Journey, WaitsForToken
<1> QED
  BY <1>1, <1>2, <1>3 DEF Next

LEMMA InvStep == SendInv /\ [Next]_vars => SendInv'
<1> SUFFICES ASSUME SendInv, [Next]_vars, NEW r \in Requests PROVE SendOK(r)'
  BY Moves DEF SendInv
<1>1. Journey(r) /\ SendOK(r) /\ refused \subseteq refused'
  BY Moves DEF SendInv
<1>2. token'[r] = token[r] \/ token'[r] = 0 \/ Sends(r)
  BY <1>1 DEF Journey, Same, Passes, Starts, Fails, Deletes, Retries, Settles
<1> QED
  BY <1>1, <1>2 DEF SendOK, IsRefused, AtRest, Journey, Same, Passes, Starts, Sends, Fails,
     Deletes, Retries, Settles

LEMMA SendInvariant == Spec => []SendInv
<1>1. Init => SendInv
  BY DEF Init, Session!Init, Session!SV!Init, SendInv, AccessorOK, Session!SV!Leads, SendTypes,
     SendOK, AtRest, IsRefused, WaitsForToken, Points, Session!Callers
<1> QED
  BY <1>1, InvStep, PTL DEF Spec

(* A token leaves the store only if a server refused it, or its refresh was.  *)
THEOREM OnlyBadTokens == Spec => OnlyBadTokensDropped
<1> DEFINE Dropped ==
        value # 0 /\ value' = 0 =>
          \/ value \in refused
          \/ \E k \in Tokens : prev[k] = value /\ step[k] \in {"refreshing", "deleting"}
<1>1. SendInv /\ [Next]_vars => [Dropped]_vars
  BY Moves DEF Refusal
<1> QED
  BY <1>1, SendInvariant, PTL DEF Spec, OnlyBadTokensDropped

(* A step of the client is a step of the loop of each of its sends, or none.  *)
LEMMA LoopStep ==
    ASSUME SendInv, [Next]_vars, NEW r \in Requests
    PROVE  [Loop(r)!Next]_(Loop(r)!vars)
<1>0. /\ at[r] \in Points /\ at'[r] \in Points
      /\ AtRest(r) => attempt[r] = 0 /\ lastError[r] = "none"
  BY Moves DEF SendInv, SendTypes, SendOK
<1>1. CASE Same(r) \/ Passes(r) \/ Sends(r)
  BY <1>0, <1>1 DEF Same, Passes, Sends, AtRest, Loop!vars
<1>2. CASE Starts(r)
  BY <1>0, <1>2 DEF Starts, AtRest, Loop!Next, Loop!Start
<1>3. CASE Fails(r)
  BY <1>3 DEF Fails, Loop!Next, Loop!Progress, Loop!ActionThrows
<1>4. CASE Deletes(r)
  BY <1>4 DEF Deletes, Loop!Next, Loop!Progress, Loop!CanRetry, Loop!vars
<1>5. CASE Retries(r)
  BY <1>5 DEF Retries, Loop!Next, Loop!Progress, Loop!DelayElapsed, Loop!Retries
<1>6. CASE Settles(r)
  BY <1>6 DEF Settles, Loop!Next, Loop!Progress, Loop!ActionReturns, Loop!CannotRetry,
     Loop!DelayElapsed, Loop!Retries, Loop!Settle
<1> QED
  BY <1>1, <1>2, <1>3, <1>4, <1>5, <1>6, Moves DEF Journey

(* Each send is a run of retryAction with a single retry.                     *)
THEOREM RetriesOnce == Spec => SendsRetryOnce
<1> DEFINE Step == \A r \in Requests : [Loop(r)!Next]_(Loop(r)!vars)
<1>1. Init => \A r \in Requests : Loop(r)!Init
  BY DEF Init, Loop!Init
<1>2. SendInv /\ [Next]_vars => [Step]_vars
  BY LoopStep
<1> QED
  BY <1>1, <1>2, SendInvariant, PTL DEF Spec, SendsRetryOnce

-----------------------------------------------------------------------------
(* The session of the requests is one of those OidcSessionProofs is about.     *)
SP == INSTANCE OidcSessionProofs WITH Clients <- Requests

LEMMA SameAccessorSteps ==
    /\ \A c, f : Session!SV!Call(c, f) => SP!SV!Call(c, f)
    /\ \A c : Session!SV!StoreReads(c) => SP!SV!StoreReads(c)
    /\ \A c : Session!SV!GetterFails(c) => SP!SV!GetterFails(c)
    /\ \A c : Session!SV!ReturnCached(c) => SP!SV!ReturnCached(c)
    /\ \A c : Session!SV!Join(c) => SP!SV!Join(c)
    /\ \A c : Session!SV!Resolve(c) => SP!SV!Resolve(c)
    /\ \A c : Session!SV!StoreValue(c) => SP!SV!StoreValue(c)
    /\ \A c : Session!SV!StoreThrows(c) => SP!SV!StoreThrows(c)
    /\ \A c : Session!SV!StartStoring(c) => SP!SV!StartStoring(c)
    /\ \A c : Session!SV!ValueStored(c) => SP!SV!ValueStored(c)
    /\ \A c : Session!SV!SetterReplied(c) => SP!SV!SetterReplied(c)
    /\ \A c : Session!SV!SetterFails(c) => SP!SV!SetterFails(c)
    /\ \A c : Session!SV!Finish(c) => SP!SV!Finish(c)
    /\ \A c : Session!SV!LeaderFails(c) => SP!SV!LeaderFails(c)
    /\ \A c : Session!SV!JoinerReturns(c) => SP!SV!JoinerReturns(c)
    /\ \A k, u : Session!SV!ResolverReturns(k, u) => SP!SV!ResolverReturns(k, u)
    /\ \A k : Session!SV!ResolverThrows(k) => SP!SV!ResolverThrows(k)
    /\ \A k : Session!SV!Expire(k) => SP!SV!Expire(k)
    /\ Session!SV!Reset => SP!SV!Reset
    /\ Session!SV!Exhausted => SP!SV!Exhausted
<1> USE DEF Session!Callers, SP!Callers, Session!SV!Ordered, SP!SV!Ordered,
            Session!SV!Queue, SP!SV!Queue, Session!SV!HasRoom, SP!SV!HasRoom,
            Session!SV!Undecided, SP!SV!Undecided, Session!SV!AwaitingStore,
            SP!SV!AwaitingStore, Session!SV!Settle, SP!SV!Settle, Session!SV!Forget,
            SP!SV!Forget, Session!SV!NeedsResolve, SP!SV!NeedsResolve,
            Session!SV!Valid, SP!SV!Valid, Session!SV!NoFlight, SP!SV!NoFlight,
            Session!SV!Write, SP!SV!Write, Session!SV!Release, SP!SV!Release
<1>1. \A c, f : Session!SV!Call(c, f) => SP!SV!Call(c, f)
  BY DEF Session!SV!Call, SP!SV!Call
<1>2. \A c : Session!SV!StoreReads(c) => SP!SV!StoreReads(c)
  BY DEF Session!SV!StoreReads, SP!SV!StoreReads
<1>3. \A c : Session!SV!GetterFails(c) => SP!SV!GetterFails(c)
  BY DEF Session!SV!GetterFails, SP!SV!GetterFails
<1>4. \A c : Session!SV!ReturnCached(c) => SP!SV!ReturnCached(c)
  BY DEF Session!SV!ReturnCached, SP!SV!ReturnCached
<1>5. \A c : Session!SV!Join(c) => SP!SV!Join(c)
  BY DEF Session!SV!Join, SP!SV!Join
<1>6. \A c : Session!SV!Resolve(c) => SP!SV!Resolve(c)
  BY DEF Session!SV!Resolve, SP!SV!Resolve
<1>7. \A c : Session!SV!StoreValue(c) => SP!SV!StoreValue(c)
  BY DEF Session!SV!StoreValue, SP!SV!StoreValue
<1>7a. \A c : Session!SV!StoreThrows(c) => SP!SV!StoreThrows(c)
  BY DEF Session!SV!StoreThrows, SP!SV!StoreThrows
<1>8. \A c : Session!SV!StartStoring(c) => SP!SV!StartStoring(c)
  BY DEF Session!SV!StartStoring, SP!SV!StartStoring
<1>9. \A c : Session!SV!ValueStored(c) => SP!SV!ValueStored(c)
  BY DEF Session!SV!ValueStored, SP!SV!ValueStored
<1>10. \A c : Session!SV!SetterReplied(c) => SP!SV!SetterReplied(c)
  BY DEF Session!SV!SetterReplied, SP!SV!SetterReplied
<1>11. \A c : Session!SV!SetterFails(c) => SP!SV!SetterFails(c)
  BY DEF Session!SV!SetterFails, SP!SV!SetterFails
<1>12. \A c : Session!SV!Finish(c) => SP!SV!Finish(c)
  BY DEF Session!SV!Finish, SP!SV!Finish
<1>13. \A c : Session!SV!LeaderFails(c) => SP!SV!LeaderFails(c)
  BY DEF Session!SV!LeaderFails, SP!SV!LeaderFails
<1>14. \A c : Session!SV!JoinerReturns(c) => SP!SV!JoinerReturns(c)
  BY DEF Session!SV!JoinerReturns, SP!SV!JoinerReturns
<1>15. \A k, u : Session!SV!ResolverReturns(k, u) => SP!SV!ResolverReturns(k, u)
  BY DEF Session!SV!ResolverReturns, SP!SV!ResolverReturns
<1>16. \A k : Session!SV!ResolverThrows(k) => SP!SV!ResolverThrows(k)
  BY DEF Session!SV!ResolverThrows, SP!SV!ResolverThrows
<1>17. \A k : Session!SV!Expire(k) => SP!SV!Expire(k)
  BY DEF Session!SV!Expire, SP!SV!Expire
<1>18. Session!SV!Reset => SP!SV!Reset
  BY DEF Session!SV!Reset, SP!SV!Reset
<1>19. Session!SV!Exhausted => SP!SV!Exhausted
  BY DEF Session!SV!Exhausted, SP!SV!Exhausted, Session!SV!vars, SP!SV!vars
<1> QED
  BY <1>1, <1>2, <1>3, <1>4, <1>5, <1>6, <1>7, <1>7a, <1>8, <1>9, <1>10, <1>11, <1>12,
     <1>13, <1>14, <1>15, <1>16, <1>17, <1>18, <1>19

LEMMA SameSession == [Session!Next]_(Session!vars) => [SP!Next]_(SP!vars)
<1> USE SameAccessorSteps DEF Session!Callers, SP!Callers, Session!accessor, SP!accessor,
        Session!session, SP!session, Session!vars, SP!vars, Session!SV!Ordered, SP!SV!Ordered
<1>1. ASSUME NEW c, NEW f, Session!GetToken(c, f) PROVE SP!GetToken(c, f)
  BY <1>1 DEF Session!GetToken, SP!GetToken
<1>2. ASSUME NEW c, Session!AccessorStep(c) PROVE SP!AccessorStep(c)
  BY <1>2 DEF Session!AccessorStep, SP!AccessorStep
<1>3. ASSUME NEW c, Session!StartRefresh(c) PROVE SP!StartRefresh(c)
  BY <1>3 DEF Session!StartRefresh, SP!StartRefresh, Session!MayRefresh, SP!MayRefresh,
     Session!ClearTimer, SP!ClearTimer
<1>4. ASSUME NEW c, Session!StartAcquire(c) PROVE SP!StartAcquire(c)
  BY <1>4 DEF Session!StartAcquire, SP!StartAcquire, Session!MayRefresh, SP!MayRefresh,
     Session!ClearTimer, SP!ClearTimer
<1>5. ASSUME NEW c, Session!StoreToken(c) PROVE SP!StoreToken(c)
  BY <1>5 DEF Session!StoreToken, SP!StoreToken
<1>6. ASSUME NEW c, Session!TokenStored(c) PROVE SP!TokenStored(c)
  BY <1>6 DEF Session!TokenStored, SP!TokenStored
<1>7. ASSUME NEW c, Session!Progress(c) PROVE SP!Progress(c)
  BY <1>2, <1>3, <1>4, <1>5, <1>6, <1>7, Zenon DEF Session!Progress, SP!Progress
<1>8. ASSUME NEW k, NEW r, NEW u, Session!TokenReceived(k, r, u) PROVE SP!TokenReceived(k, r, u)
  BY <1>8 DEF Session!TokenReceived, SP!TokenReceived
<1>9. ASSUME NEW k, Session!RefreshFails(k) PROVE SP!RefreshFails(k)
  BY <1>9 DEF Session!RefreshFails, SP!RefreshFails, Session!DropToken, SP!DropToken
<1>10. ASSUME NEW k, Session!TokenDropped(k) PROVE SP!TokenDropped(k)
  BY <1>10 DEF Session!TokenDropped, SP!TokenDropped, Session!DropToken, SP!DropToken
<1>11. ASSUME NEW k, Session!FallBack(k) PROVE SP!FallBack(k)
  BY <1>11 DEF Session!FallBack, SP!FallBack
<1>12. ASSUME NEW k, Session!ResolveFails(k) PROVE SP!ResolveFails(k)
  BY <1>12 DEF Session!ResolveFails, SP!ResolveFails
<1>13. ASSUME NEW k, Session!ProviderStep(k) PROVE SP!ProviderStep(k)
  BY <1>8, <1>9, <1>10, <1>11, <1>12, <1>13, Zenon DEF Session!ProviderStep, SP!ProviderStep
<1>14. ASSUME NEW k, Session!TimerFires(k) PROVE SP!TimerFires(k)
  BY <1>14 DEF Session!TimerFires, SP!TimerFires, Session!TaskBoundary, SP!TaskBoundary
<1>15. ASSUME NEW k, Session!Expire(k) PROVE SP!Expire(k)
  BY <1>15 DEF Session!Expire, SP!Expire
<1>16. ASSUME NEW c, Session!DeleteToken(c) PROVE SP!DeleteToken(c)
  BY <1>16 DEF Session!DeleteToken, SP!DeleteToken
<1>17. Session!Exhausted => SP!Exhausted
  BY DEF Session!Exhausted, SP!Exhausted
<1>18. Session!Tokens = SP!Tokens
  BY DEF Session!Tokens, SP!Tokens, Session!SV!Invocations, SP!SV!Invocations
<1>19. Session!Next => SP!Next
  BY <1>1, <1>7, <1>13, <1>14, <1>15, <1>16, <1>17, <1>18, Zenon DEF Session!Next, SP!Next
<1> QED
  BY <1>19

LEMMA SessionSpec == Spec => SP!Spec
<1>1. Session!Init => SP!Init
  BY DEF Session!Init, SP!Init, Session!SV!Init, SP!SV!Init, Session!SV!Invocations,
     SP!SV!Invocations, Session!Tokens, SP!Tokens, Session!Callers, SP!Callers
<1> QED
  BY <1>1, SameSession, RequestsImplementSession, PTL DEF Session!Spec, SP!Spec

LEMMA SessionInvariants == Spec => [](SP!SVP!IInv /\ SP!RInv)
  BY SessionSpec, SP!AccessorInvariant, SP!RefreshInvariant, TimerAssumption, BoundAssumption,
     StoresAssumption, ConfigAssumption, PTL

-----------------------------------------------------------------------------
(* What the proofs below use of the invariants of the session and its accessor. *)
AllCallers == Requests \cup {Timer}

Facts ==
    /\ calls \in 0 .. MaxCalls /\ resolverCall \in {0, calls}
    /\ value \in 0 .. MaxCalls
    /\ phase \in [Tokens -> {"unused", "pending", "resolved", "rejected"}]
    /\ prev \in [Tokens -> 0 .. MaxCalls]
    /\ pc \in [AllCallers -> SP!SVP!Points]
    /\ captured \in [AllCallers -> 0 .. MaxCalls]
    /\ force \in [AllCallers -> BOOLEAN]
    /\ own \in [AllCallers -> 0 .. MaxCalls]
    /\ \A c \in AllCallers : SV!Leads(c) => own[c] = resolverCall /\ own[c] \in Tokens
    /\ \A c \in AllCallers : pc[c] = "joined" => own[c] \in 1 .. calls
    /\ resolverCall # 0 => \E c \in AllCallers : SV!Leads(c)
    /\ \A k \in Tokens : k > calls => phase[k] = "unused"
    /\ \A k \in Tokens : phase[k] = "pending" =>
          k = calls /\ \E c \in AllCallers : pc[c] = "leading" /\ own[c] = k
    /\ \A c \in AllCallers :
          pc[c] \in {"storing", "stored", "set", "throwing"} => phase[own[c]] = "resolved"
    /\ \A k \in unstorable : phase[k] = "resolved"
    /\ value # 0 => phase[value] = "resolved"
    /\ \A c \in AllCallers : captured[c] # 0 => phase[captured[c]] = "resolved"
    /\ \A k \in Tokens : prev[k] # 0 => prev[k] < k
    /\ \A k \in Tokens : step[k] # "none" => phase[k] = "pending"

LEMMA FactsHold == SP!SVP!IInv /\ SP!RInv => Facts
<1> SUFFICES ASSUME SP!SVP!IInv, SP!RInv PROVE Facts
  OBVIOUS
<1> USE BoundAssumption DEF AllCallers, SP!Callers, Tokens, SP!Tokens, SP!SV!Invocations,
        SP!Values, SV!Leads, SP!SVP!Leads, SP!SV!Leads
<1>1. /\ calls \in 0 .. MaxCalls /\ resolverCall \in {0, calls} /\ value \in 0 .. MaxCalls
      /\ phase \in [Tokens -> {"unused", "pending", "resolved", "rejected"}]
      /\ prev \in [Tokens -> 0 .. MaxCalls]
      /\ pc \in [AllCallers -> SP!SVP!Points]
      /\ captured \in [AllCallers -> 0 .. MaxCalls] /\ force \in [AllCallers -> BOOLEAN]
      /\ own \in [AllCallers -> 0 .. MaxCalls]
  BY DEF SP!SVP!IInv, SP!SVP!TypeOK, SP!SVP!PhasesOK, SP!SVP!Phases, SP!SVP!Invocations,
     SP!SVP!Values
<1>2. /\ \A c \in AllCallers : SV!Leads(c) => own[c] = resolverCall
      /\ \A c \in AllCallers : SV!Leads(c) \/ pc[c] = "joined" => own[c] \in 1 .. calls
      /\ resolverCall # 0 => \E c \in AllCallers : SV!Leads(c)
  BY DEF SP!SVP!IInv, SP!SVP!FlightHasOneLeader, SP!SVP!FramesOK
<1>3. /\ \A k \in Tokens : k > calls => phase[k] = "unused"
      /\ \A k \in Tokens : phase[k] = "pending" =>
            k = calls /\ \E c \in AllCallers : pc[c] = "leading" /\ own[c] = k
      /\ \A c \in AllCallers :
            pc[c] \in {"storing", "stored", "set", "throwing"} => phase[own[c]] = "resolved"
      /\ \A k \in unstorable : phase[k] = "resolved"
  BY DEF SP!RInv, SP!Flight
<1>4. /\ value # 0 => phase[value] = "resolved"
      /\ \A c \in AllCallers : captured[c] # 0 => phase[captured[c]] = "resolved"
      /\ \A k \in Tokens : prev[k] # 0 => prev[k] < k
  BY DEF SP!RInv, SP!TokensReceived, SP!Received
<1>5. \A k \in Tokens : step[k] # "none" => phase[k] = "pending"
  BY DEF SP!RInv, SP!StepsOK
<1> QED
  BY <1>1, <1>2, <1>3, <1>4, <1>5 DEF Facts

LEMMA FactsInvariant == Spec => []Facts
  BY SessionInvariants, FactsHold, PTL

-----------------------------------------------------------------------------
(* What a step of the accessor does to a call, to an invocation, to the value.  *)
Awaits(c) == SV!Leads(c) \/ pc[c] = "joined"

CallStep(c) ==
    /\ pc'[c] = "read" => \/ pc[c] = "read" /\ captured'[c] = captured[c]
                          \/ captured'[c] = value
    /\ Awaits(c)' => \/ Awaits(c) /\ own'[c] = own[c]
                     \/ own'[c] = resolverCall /\ resolverCall # 0
                     \/ own'[c] = calls + 1
    /\ pc[c] = "leading" => \/ pc'[c] = "leading" /\ own'[c] = own[c]
                            \/ phase[own[c]] = "rejected"
                            \/ value' = own[c] \/ own[c] \in unstorable

InvocationStep(k) ==
    /\ \/ phase'[k] = phase[k]
       \/ phase[k] = "pending" /\ phase'[k] \in {"resolved", "rejected"}
       \/ k = calls + 1 /\ phase'[k] = "pending"
    /\ prev'[k] = prev[k] \/ k = calls + 1
    /\ phase[k] = "resolved" => (k \in unstorable' <=> k \in unstorable)

BeingStored(t) == \E c \in AllCallers : pc[c] = "leading" /\ own[c] = t

ValueStep ==
    \/ value' \in {0, value}
    \/ phase[value'] = "resolved" /\ value' \notin unstorable /\ BeingStored(value')

AccessorStep ==
    /\ \A c \in AllCallers : CallStep(c)
    /\ \A k \in Tokens : InvocationStep(k)
    /\ ValueStep
    /\ resolverCall' \in {resolverCall, 0, calls + 1}
    /\ store' = store

LEMMA AccessorSteps == Facts /\ SV!Ordered /\ [SP!SV!Next]_(SP!SV!vars) => AccessorStep
<1> SUFFICES ASSUME Facts, SV!Ordered, [SP!SV!Next]_(SP!SV!vars) PROVE AccessorStep
  OBVIOUS
<1> USE DEF AccessorStep, CallStep, InvocationStep, ValueStep, Awaits, SV!Leads,
        SV!Ordered, SP!SV!Ordered, Facts, SP!Callers, AllCallers
<1>0. SP!SV!Invocations = Tokens
  BY DEF Tokens, SP!SV!Invocations
<1>1. ASSUME NEW c \in AllCallers, NEW f, SP!SV!Call(c, f) PROVE AccessorStep
  BY <1>1 DEF SP!SV!Call
<1>2. ASSUME NEW c \in AllCallers,
             SP!SV!StoreReads(c) \/ SP!SV!GetterFails(c) \/ SP!SV!ReturnCached(c)
      PROVE  AccessorStep
  BY <1>2 DEF SP!SV!StoreReads, SP!SV!GetterFails, SP!SV!ReturnCached, SP!SV!Forget
<1>3. ASSUME NEW c \in AllCallers, SP!SV!Join(c) PROVE AccessorStep
  BY <1>3 DEF SP!SV!Join, SP!SV!Forget, SP!SV!NoFlight
<1>4. ASSUME NEW c \in AllCallers, SP!SV!Resolve(c) PROVE AccessorStep
  BY <1>4 DEF SP!SV!Resolve, SP!SV!Forget
<1>5. ASSUME NEW c \in AllCallers, SP!SV!StoreValue(c) PROVE AccessorStep
  BY <1>5 DEF SP!SV!StoreValue, SP!SV!Write, BeingStored
<1>6. ASSUME NEW c \in AllCallers,
             \/ SP!SV!StoreThrows(c) \/ SP!SV!StartStoring(c) \/ SP!SV!ValueStored(c)
             \/ SP!SV!SetterReplied(c)
      PROVE  AccessorStep
  BY <1>6 DEF SP!SV!StoreThrows, SP!SV!StartStoring, SP!SV!ValueStored, SP!SV!SetterReplied
<1>7. ASSUME NEW c \in AllCallers,
             SP!SV!SetterFails(c) \/ SP!SV!Finish(c) \/ SP!SV!LeaderFails(c) \/ SP!SV!JoinerReturns(c)
      PROVE  AccessorStep
  BY <1>7 DEF SP!SV!SetterFails, SP!SV!Finish, SP!SV!LeaderFails, SP!SV!JoinerReturns,
     SP!SV!Release
<1>8. ASSUME NEW k \in Tokens, SP!SV!ResolverSettles(k) \/ SP!SV!Expire(k) PROVE AccessorStep
  BY <1>8 DEF SP!SV!ResolverSettles, SP!SV!ResolverReturns, SP!SV!ResolverThrows, SP!SV!Expire
<1>9. CASE SP!SV!Reset
  BY <1>9 DEF SP!SV!Reset
<1>10. CASE SP!SV!Exhausted \/ UNCHANGED SP!SV!vars
  BY <1>10 DEF SP!SV!Exhausted, SP!SV!vars
<1> HIDE DEF AccessorStep
<1> QED
  BY <1>0, <1>1, <1>2, <1>3, <1>4, <1>5, <1>6, <1>7, <1>8, <1>9, <1>10, Zenon
     DEF SP!SV!Next, SP!SV!Progress

(* Over the in-memory store, the newest token received is the one stored, or   *)
(* about to be, unless it was refused or an acquisition started from it: only   *)
(* these take it away.  No older token is stored.  The tokens the store throws *)
(* on do not count.                                                         *)
NoOlderStored ==
    \A t \in Tokens : phase[t] = "resolved" =>
        value = 0 \/ value >= t \/ BeingStored(t) \/ t \in unstorable

Superseded(t) == \E k \in Tokens :
    prev[k] = t /\ (phase[k] \in {"pending", "rejected"} \/ k \in unstorable)

NewestKept ==
    \A t \in Tokens : Newest(t) =>
        value = t \/ BeingStored(t) \/ t \in refused \/ Superseded(t)

(* A send that lost its token finds in the session none as old, from the        *)
(* deletion of that token to the end of the second attempt: the acquisition      *)
(* that brought it is over, and it is neither stored nor read.               *)
Refreshed(r) ==
    /\ token[r] # 0 => token[r] \in Tokens /\ phase[token[r]] = "resolved"
    /\ at[r] = "asking" /\ lastError[r] = "unauthorized" /\ token[r] # 0 =>
          resolverCall # token[r]
    /\ at[r] \in {"token", "deleted", "delaying"} /\ token[r] # 0 =>
          /\ resolverCall # token[r]
          /\ value = 0 \/ Replaces(value, token[r])
    /\ at[r] = "token" /\ token[r] # 0 =>
          /\ pc[r] = "read" => captured[r] = 0 \/ Replaces(captured[r], token[r])
          /\ Awaits(r) => own[r] > token[r]

Fresh == SV!Ordered => NoOlderStored /\ NewestKept /\ \A r \in Requests : Refreshed(r)

\* The facts that hold before and after a step, and what the step does.
Stepping ==
    /\ SendInv /\ Facts /\ Facts' /\ [Next]_vars
    /\ SV!Ordered /\ NoOlderStored /\ NewestKept /\ \A r \in Requests : Refreshed(r)
    /\ AccessorStep

LEMMA OlderStep == Stepping => NoOlderStored'
<1> SUFFICES ASSUME Stepping, NEW t \in Tokens, phase'[t] = "resolved"
             PROVE  value' = 0 \/ value' >= t \/ BeingStored(t)' \/ t \in unstorable'
  BY DEF NoOlderStored
<1>0. AccessorStep /\ Facts /\ NoOlderStored
  BY DEF Stepping
<1>1. /\ AccessorStep /\ Facts /\ NoOlderStored
      /\ calls \in Nat /\ value \in Nat /\ Tokens \subseteq Nat
  <2>1. calls \in 0 .. MaxCalls /\ value \in 0 .. MaxCalls
    BY <1>0 DEF Facts
  <2> QED
    BY <1>0, <2>1, BoundAssumption DEF Tokens
<1>2. \A c \in AllCallers : pc[c] = "leading" => own[c] = calls
  BY DEF Stepping, Facts, SV!Leads, Tokens
<1>3. phase[t] = "pending" \/ phase[t] = "resolved"
  BY <1>1 DEF AccessorStep, InvocationStep
<1>4. t <= calls
  BY <1>1, <1>3 DEF Facts, Tokens
<1>5. CASE BeingStored(t)
  <2>1. PICK c \in AllCallers : pc[c] = "leading" /\ own[c] = t
    BY <1>5 DEF BeingStored
  <2>2. phase[t] # "rejected"
    BY <1>3
  <2>3. (pc'[c] = "leading" /\ own'[c] = t) \/ value' = t \/ t \in unstorable'
    BY <1>1, <2>1, <2>2 DEF AccessorStep, CallStep, InvocationStep, Facts
  <2> QED
    BY <2>3, <1>1 DEF BeingStored
<1>6. CASE ~BeingStored(t)
  <2>1. phase[t] = "resolved" /\ (value = 0 \/ value >= t \/ t \in unstorable')
    BY <1>1, <1>3, <1>6 DEF Facts, BeingStored, NoOlderStored, AccessorStep, InvocationStep
  <2>2. value' \in {0, value} \/ value' = calls
    BY <1>1, <1>2 DEF AccessorStep, ValueStep, BeingStored
  <2> QED
    BY <1>1, <1>4, <2>1, <2>2
<1> QED
  BY <1>5, <1>6

LEMMA NewestStep == Stepping => NewestKept'
<1> SUFFICES ASSUME Stepping, NEW t \in Tokens, Newest(t)'
             PROVE  (value = t \/ BeingStored(t) \/ t \in refused \/ Superseded(t))'
  BY DEF NewestKept
<1>1. /\ AccessorStep /\ Facts /\ Facts' /\ NewestKept /\ Newest(t)'
      /\ calls \in Nat /\ value \in Nat /\ Tokens \subseteq Nat
  <2>1. AccessorStep /\ Facts /\ Facts' /\ NewestKept /\ Newest(t)'
    BY DEF Stepping
  <2>2. calls \in 0 .. MaxCalls /\ value \in 0 .. MaxCalls
    BY <2>1 DEF Facts
  <2> QED
    BY <2>1, <2>2, BoundAssumption DEF Tokens
<1>2. \A c \in AllCallers : pc[c] = "leading" => own[c] = calls
  BY DEF Stepping, Facts, SV!Leads, Tokens
<1>3. phase[t] = "pending" \/ phase[t] = "resolved"
  BY <1>1 DEF AccessorStep, InvocationStep, Newest
<1>4. t <= calls
  BY <1>1, <1>3 DEF Facts, Tokens
<1>5. \A k \in Tokens : phase[k] = "resolved" =>
        phase'[k] = "resolved" /\ (k \in unstorable' <=> k \in unstorable)
  BY <1>1 DEF AccessorStep, InvocationStep, Facts
<1>6. CASE BeingStored(t)
  <2>1. PICK c \in AllCallers : pc[c] = "leading" /\ own[c] = t
    BY <1>6 DEF BeingStored
  <2>2. phase[t] # "rejected"
    BY <1>3
  <2>3. t \notin unstorable
    BY <1>1, <1>5 DEF Facts, Newest
  <2>4. (pc'[c] = "leading" /\ own'[c] = t) \/ value' = t
    BY <1>1, <2>1, <2>2, <2>3 DEF AccessorStep, CallStep
  <2> QED
    BY <2>4, <1>1 DEF BeingStored
<1>7. CASE ~BeingStored(t)
  <2>1. Newest(t)
    BY <1>1, <1>3, <1>5, <1>7 DEF Facts, BeingStored, Newest
  <2>2. ASSUME NEW k \in Tokens, prev[k] = t,
               phase[k] \in {"pending", "rejected"} \/ k \in unstorable
        PROVE  Superseded(t)'
    <3>1. t < k /\ k <= calls
      <4>1. prev[k] < k
        <5>1. \A j \in Tokens : prev[j] # 0 => prev[j] < j
          BY <1>1 DEF Facts
        <5>2. prev[k] # 0
          BY <2>2 DEF Tokens
        <5> QED
          BY <5>1, <5>2
      <4>2. ~(k > calls)
        BY <1>1, <2>2 DEF Facts, Tokens
      <4> QED
        BY <1>1, <2>2, <4>1, <4>2
    <3>2. prev'[k] = t /\ (phase'[k] # "resolved" \/ k \in unstorable')
      BY <1>1, <2>2, <3>1 DEF AccessorStep, InvocationStep, Newest, Tokens
    <3>3. phase'[k] \in {"pending", "rejected"} \/ k \in unstorable'
      BY <1>1, <1>5, <2>2, <3>1, <3>2 DEF AccessorStep, InvocationStep, Facts
    <3> QED
      BY <3>2, <3>3 DEF Superseded
  <2>3. CASE value = t
    <3>1. value # 0
      BY <2>3 DEF Tokens
    <3>2. value' = t \/ value' = 0
      BY <1>1, <1>2, <1>4, <2>1, <2>3 DEF AccessorStep, ValueStep, BeingStored, Newest, Tokens, Facts
    <3>3. CASE value' = 0
      <4>1. t \in refused' \/ \E k \in Tokens : Refusal(k)
        BY <2>3, <3>1, <3>3, Moves DEF Stepping
      <4>2. \A k \in Tokens : Refusal(k) => prev[k] = t /\ phase[k] = "pending"
        BY <1>1, <2>3 DEF Refusal, Facts
      <4> QED
        BY <2>2, <4>1, <4>2
    <3> QED
      BY <3>2, <3>3
  <2>4. CASE t \in refused
    BY <2>4, Moves DEF Stepping
  <2> QED
    BY <1>1, <1>7, <2>1, <2>2, <2>3, <2>4 DEF NewestKept, Superseded
<1> QED
  BY <1>6, <1>7

\* The session has nothing as old as t under way or stored.
NoFlightOf(t) == resolverCall # t
NotStored(t)  == value = 0 \/ Replaces(value, t)

LEMMA TokenStays ==
    ASSUME Stepping, NEW t \in Tokens, phase[t] = "resolved"
    PROVE  /\ phase'[t] = "resolved"
           /\ resolverCall # 0 /\ NoFlightOf(t) => resolverCall > t
           /\ NoFlightOf(t) => NoFlightOf(t)'
           /\ NoFlightOf(t) /\ NotStored(t) => NotStored(t)'
           /\ NoFlightOf(t) => value = 0 \/ value >= t \/ t \in unstorable
           /\ t \in unstorable => t \in unstorable'
           /\ calls + 1 > t
<1>1. /\ AccessorStep /\ Facts /\ NoOlderStored
      /\ calls \in Nat /\ t \in Nat /\ t # 0
  BY BoundAssumption DEF Stepping, Facts, Tokens
<1>2. /\ t <= calls /\ resolverCall \in {0, calls}
      /\ \A c \in AllCallers : pc[c] = "leading" => own[c] = resolverCall /\ own[c] # 0
  BY <1>1 DEF Facts, SV!Leads, Tokens
<1>3. phase'[t] = "resolved"
  BY <1>1, <1>2 DEF AccessorStep, InvocationStep
<1>4. NoFlightOf(t) => NoFlightOf(t)'
  BY <1>1, <1>2 DEF AccessorStep, NoFlightOf
<1>5. ASSUME NoFlightOf(t), BeingStored(value') PROVE value' > t
  BY <1>1, <1>2, <1>5 DEF BeingStored, NoFlightOf
<1>8. t \in unstorable => t \in unstorable'
  BY <1>1 DEF AccessorStep, InvocationStep
<1>6. NoFlightOf(t) /\ NotStored(t) => NotStored(t)'
  BY <1>1, <1>5, <1>8 DEF AccessorStep, ValueStep, NotStored, Replaces
<1>7. NoFlightOf(t) => value = 0 \/ value >= t \/ t \in unstorable
  BY <1>1, <1>2 DEF NoOlderStored, BeingStored, NoFlightOf
<1> QED
  BY <1>1, <1>2, <1>3, <1>4, <1>6, <1>7, <1>8 DEF NoFlightOf

(* A token is obtained with a promise that resolved.                          *)
LEMMA GivenToken ==
    ASSUME Facts, NEW r \in Requests, Given(r)
    PROVE  /\ token'[r] \in Tokens /\ phase[token'[r]] = "resolved"
           /\ \/ pc[r] = "read" /\ captured[r] # 0 /\ token'[r] = captured[r]
              \/ Awaits(r) /\ token'[r] = own[r]
<1>1. r \in AllCallers /\ calls <= MaxCalls /\ calls \in Nat
  BY BoundAssumption DEF AllCallers, Facts
<1>2. CASE pc[r] = "read" /\ captured[r] # 0 /\ token'[r] = captured[r]
  BY <1>1, <1>2 DEF Facts, Tokens
<1>3. CASE pc[r] = "set" /\ token'[r] = own[r]
  BY <1>1, <1>3 DEF Facts, SV!Leads, Awaits
<1>4. CASE pc[r] = "joined" /\ phase[own[r]] = "resolved" /\ token'[r] = own[r]
  BY <1>1, <1>4, BoundAssumption DEF Facts, Tokens, Awaits
<1> QED
  BY <1>2, <1>3, <1>4 DEF Given

(* A send that has a token and is not given another.                          *)
LEMMA LostToken ==
    ASSUME Stepping, NEW r \in Requests, NEW t \in Tokens, phase[t] = "resolved",
           token[r] = t, token'[r] = t, at'[r] # "sent"
    PROVE  /\ at'[r] = "asking" /\ lastError'[r] = "unauthorized" => NoFlightOf(t)'
           /\ at'[r] \in {"token", "deleted", "delaying"} => NoFlightOf(t)' /\ NotStored(t)'
           /\ at'[r] = "token" =>
                 /\ pc'[r] = "read" => (captured[r] = 0 \/ Replaces(captured[r], t))'
                 /\ Awaits(r)' => own'[r] > t
<1>1. /\ Journey(r) /\ SendOK(r) /\ WaitsForToken(r) /\ CallStep(r)
      /\ r \in AllCallers /\ SV!Ordered /\ Facts /\ Refreshed(r)
  BY Moves DEF Stepping, SendInv, AllCallers, AccessorStep
<1>2. /\ resolverCall # 0 /\ NoFlightOf(t) => resolverCall > t
      /\ NoFlightOf(t) => NoFlightOf(t)'
      /\ NoFlightOf(t) /\ NotStored(t) => NotStored(t)'
      /\ NoFlightOf(t) => value = 0 \/ value >= t \/ t \in unstorable
      /\ t \in unstorable => t \in unstorable'
      /\ calls + 1 > t /\ t # 0 /\ t \in Nat /\ value \in Nat
  BY <1>1, TokenStays, BoundAssumption DEF Tokens, Facts
<1>3. /\ at[r] = "asking" /\ lastError[r] = "unauthorized" => NoFlightOf(t)
      /\ at[r] \in {"token", "deleted", "delaying"} => NoFlightOf(t) /\ NotStored(t)
      /\ at[r] = "token" =>
            /\ pc[r] = "read" => captured[r] = 0 \/ Replaces(captured[r], t)
            /\ Awaits(r) => own[r] > t
  BY <1>1, <1>2 DEF Refreshed, NoFlightOf, NotStored
<1>4. Session!TaskBoundary => NoFlightOf(t)
  BY <1>1, <1>2 DEF Session!TaskBoundary, Session!SV!Ordered, SV!Ordered, Session!Callers,
     AllCallers, Facts, SV!Leads, NoFlightOf
<1>5. at[r] \notin {"idle", "passing"}
  BY <1>1, <1>2 DEF SendOK, AtRest
<1>6. at'[r] \in {"asking", "token", "deleted", "delaying"} => Same(r) \/ Fails(r) \/ Deletes(r) \/ Retries(r)
  BY <1>1, <1>2, <1>5 DEF Journey, Passes, Starts, Sends, Settles
<1>7. at'[r] = "asking" /\ lastError'[r] = "unauthorized" => NoFlightOf(t)
  BY <1>3, <1>4, <1>6 DEF Same, Fails, Deletes, Retries
<1>8. at'[r] \in {"token", "deleted", "delaying"} => NoFlightOf(t)' /\ NotStored(t)'
  <2>1. CASE at[r] = "asking" /\ at'[r] \in {"token", "deleted", "delaying"}
    <3>1. Deletes(r) /\ NoFlightOf(t)
      BY <1>3, <1>6, <2>1 DEF Same, Fails, Deletes, Retries
    <3>2. value' = 0 \/ (value' = value /\ value # t)
      BY <2>1, <3>1 DEF Deletes
    <3> QED
      BY <1>2, <3>1, <3>2 DEF NotStored, Replaces
  <2>2. CASE at[r] # "asking" /\ at'[r] \in {"token", "deleted", "delaying"}
    BY <1>2, <1>3, <1>6, <2>2 DEF Same, Fails, Deletes, Retries
  <2> QED
    BY <2>1, <2>2
<1>9. ASSUME at'[r] = "token"
      PROVE  /\ pc'[r] = "read" => (captured[r] = 0 \/ Replaces(captured[r], t))'
             /\ Awaits(r)' => own'[r] > t
  <2>1. at[r] \in {"token", "delaying"}
    BY <1>6, <1>9 DEF Same, Fails, Deletes, Retries
  <2>2. NoFlightOf(t) /\ (value = 0 \/ Replaces(value, t))
    BY <1>3, <2>1 DEF NotStored
  <2>3. at[r] = "delaying" => pc[r] = "idle"
    BY <1>1 DEF WaitsForToken
  <2>4. pc'[r] = "read" => (captured[r] = 0 \/ Replaces(captured[r], t))'
    BY <1>1, <1>2, <1>3, <2>1, <2>2, <2>3 DEF CallStep, Replaces
  <2>5. Awaits(r)' => own'[r] > t
    <3>1. at[r] = "delaying" => ~Awaits(r)
      BY <2>3 DEF Awaits, SV!Leads
    <3> QED
      BY <1>1, <1>2, <1>3, <2>1, <2>2, <3>1 DEF CallStep
  <2> QED
    BY <2>4, <2>5
<1> QED
  BY <1>2, <1>7, <1>8, <1>9

LEMMA RefreshedStep == Stepping => \A r \in Requests : Refreshed(r)'
<1> SUFFICES ASSUME Stepping, NEW r \in Requests PROVE Refreshed(r)'
  OBVIOUS
<1>1. Journey(r) /\ Refreshed(r) /\ SendOK(r) /\ Facts
  BY Moves DEF Stepping, SendInv
<1>2. token'[r] = token[r] \/ token'[r] = 0 \/ (Given(r) /\ at'[r] = "sent")
  BY <1>1 DEF Journey, Same, Passes, Starts, Sends, Fails, Deletes, Retries, Settles
<1>3. token'[r] # 0 => token'[r] \in Tokens /\ phase'[token'[r]] = "resolved"
  <2> SUFFICES ASSUME token'[r] # 0 PROVE token'[r] \in Tokens /\ phase'[token'[r]] = "resolved"
    OBVIOUS
  <2>1. token'[r] \in Tokens /\ phase[token'[r]] = "resolved"
    BY <1>1, <1>2, GivenToken DEF Refreshed
  <2> QED
    BY <2>1, TokenStays
<1>4. CASE at'[r] = "sent" \/ token'[r] = 0
  BY <1>3, <1>4 DEF Refreshed
<1>5. CASE at'[r] # "sent" /\ token'[r] # 0
  <2>1. token[r] = token'[r] /\ token[r] \in Tokens /\ phase[token[r]] = "resolved"
    BY <1>1, <1>2, <1>5 DEF Refreshed
  <2> QED
    BY <1>3, <1>5, <2>1, LostToken DEF Refreshed, NoFlightOf, NotStored
<1> QED
  BY <1>4, <1>5

LEMMA AccessorNext == [Next]_vars => [SP!SV!Next]_(SP!SV!vars) /\ (SV!Ordered' => SV!Ordered)
<1> SUFFICES ASSUME [Next]_vars PROVE [SP!SV!Next]_(SP!SV!vars) /\ (SV!Ordered' => SV!Ordered)
  OBVIOUS
<1> USE TimerAssumption, BoundAssumption, StoresAssumption, ConfigAssumption
<1>1. [SP!Next]_(SP!vars)
  BY SessionStepping, SameSession
<1>2. [SP!SV!Next]_(SP!SV!vars)
  BY <1>1, SP!SessionStep
<1>3. SP!SVP!Ordered' <=> SP!SVP!Ordered
  BY <1>2, SP!SameStep, SP!SVP!StoreStep
<1> QED
  BY <1>2, <1>3 DEF SV!Ordered, SP!SVP!Ordered

LEMMA FreshStep == SendInv /\ Facts /\ Facts' /\ Fresh /\ [Next]_vars => Fresh'
<1> SUFFICES ASSUME SendInv, Facts, Facts', Fresh, [Next]_vars, SV!Ordered'
             PROVE  Fresh'
  BY DEF Fresh
<1>1. SV!Ordered /\ AccessorStep
  BY AccessorNext, AccessorSteps
<1>2. Stepping
  BY <1>1 DEF Fresh, Stepping
<1> QED
  BY <1>2, OlderStep, NewestStep, RefreshedStep DEF Fresh

LEMMA FreshInvariant == Spec => []Fresh
<1>1. Init => Fresh
  BY DEF Init, Session!Init, Session!SV!Init, Session!SV!Invocations, Tokens, Fresh,
     NoOlderStored, NewestKept, Newest, Refreshed
<1> QED
  BY <1>1, FreshStep, SendInvariant, FactsInvariant, PTL DEF Spec

(* Over the in-memory store, deleting a refused token is enough: the second     *)
(* attempt is given a newer one, for any number of requests, or another one if  *)
(* the store threw on the token refused.                                     *)
THEOREM NewerTokens == Spec => RetryCarriesNewerToken
<1> DEFINE Newer == SV!Ordered => \A r \in Requests :
        at[r] = "token" /\ at'[r] = "sent" /\ attempt[r] = 1 => Replaces(token'[r], token[r])
<1>1. SendInv /\ Facts /\ Fresh /\ [Next]_vars => [Newer]_vars
  <2> SUFFICES ASSUME SendInv, Facts, Fresh, [Next]_vars, SV!Ordered,
                      NEW r \in Requests, at[r] = "token", at'[r] = "sent"
               PROVE  Replaces(token'[r], token[r])
    OBVIOUS
  <2>1. Given(r) /\ Refreshed(r)
    BY Moves DEF Journey, Same, Passes, Starts, Sends, Fails, Deletes, Retries, Settles, Fresh
  <2>2. /\ token'[r] \in Tokens
        /\ \/ pc[r] = "read" /\ captured[r] # 0 /\ token'[r] = captured[r]
           \/ Awaits(r) /\ token'[r] = own[r]
    BY <2>1, GivenToken
  <2> QED
    BY <2>1, <2>2, BoundAssumption DEF Refreshed, Replaces, Tokens
<1> QED
  BY <1>1, SendInvariant, FactsInvariant, FreshInvariant, PTL DEF Spec, RetryCarriesNewerToken

(* Over the in-memory store, requests refused together share one renewal.       *)
THEOREM Needed == Spec => AcquisitionIsNeeded
<1> DEFINE Need == SV!Ordered => \A r \in Requests, t \in Tokens :
            SV!Resolve(r) /\ Newest(t) => Spent(t)
           Missing == SP!SVP!Ordered => \A c \in SP!Callers :
                SP!SVP!Resolve(c) /\ ~force[c] => ~SP!SVP!Valid(value)
<1>1. SendInv /\ Facts /\ Fresh /\ [Missing]_(SP!SVP!vars) => [Need]_vars
  <2> SUFFICES ASSUME SendInv, Facts, Fresh, [Missing]_(SP!SVP!vars), SV!Ordered,
                      NEW r \in Requests, SV!Resolve(r), NEW t \in Tokens, Newest(t)
               PROVE  Spent(t)
    OBVIOUS
  <2>1. calls' # calls /\ resolverCall = 0
    BY DEF Facts, SV!Resolve, SV!NoFlight
  <2>2. r \in AllCallers /\ r \in SP!Callers /\ ~force[r]
    BY DEF AllCallers, SP!Callers, SendInv, WaitsForToken
  <2>3. SP!SVP!Resolve(r) /\ SP!SVP!Ordered
    BY DEF SV!Resolve, SP!SVP!Resolve, SV!Ordered, SP!SVP!Ordered, SV!Settle, SP!SVP!Settle,
       SV!NeedsResolve, SP!SVP!NeedsResolve, SV!Valid, SP!SVP!Valid, SV!NoFlight,
       SP!SVP!NoFlight, SV!Forget, SP!SVP!Forget, SP!Callers
  <2>4. value = 0 \/ value \in expired
    BY <2>1, <2>2, <2>3 DEF SP!SVP!vars, SP!SVP!Valid
  <2>5. ~BeingStored(t) /\ \A k \in Tokens : phase[k] # "pending"
    BY <2>1 DEF BeingStored, Facts, SV!Leads, Tokens
  <2>6. value = t \/ t \in refused \/ Superseded(t)
    BY <2>5 DEF Fresh, NewestKept
  <2> QED
    BY <2>4, <2>5, <2>6 DEF Spent, Superseded, Tokens
<1>2. Spec => [][Missing]_(SP!SVP!vars)
  BY SessionSpec, SP!AccessorResolves, TimerAssumption, BoundAssumption, StoresAssumption,
     ConfigAssumption DEF SP!SVP!NoRedundantResolve
<1> QED
  BY <1>1, <1>2, SendInvariant, FactsInvariant, FreshInvariant, PTL DEF Spec, AcquisitionIsNeeded
=============================================================================
