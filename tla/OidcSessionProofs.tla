-------------------------- MODULE OidcSessionProofs --------------------------
(***************************************************************************)
(* What an OidcSession guarantees for any number of clients and acquisitions, *)
(* every configuration and either kind of store: first its state and timers,  *)
(* on the invariant of its accessor; then what it does with refresh tokens.   *)
(***************************************************************************)
EXTENDS OidcSession, TLAPS

SVP == INSTANCE SynchronizedAsyncValueProofs

LEMMA SameStep == [SV!Next]_SV!vars => [SVP!Next]_SVP!vars
<1>1. ASSUME NEW c, NEW f, SV!Call(c, f) PROVE SVP!Call(c, f)
  BY <1>1 DEF SV!Ordered, SVP!Ordered, SV!Call, SVP!Call, SV!Queue, SVP!Queue, SV!HasRoom, SVP!HasRoom,
     SV!Undecided, SVP!Undecided, SV!AwaitingStore, SVP!AwaitingStore
<1>2. ASSUME NEW c, SV!StoreReads(c) PROVE SVP!StoreReads(c)
  BY <1>2 DEF SV!Ordered, SVP!Ordered, SV!StoreReads, SVP!StoreReads
<1>3. ASSUME NEW c, SV!GetterFails(c) PROVE SVP!GetterFails(c)
  BY <1>3 DEF SV!Ordered, SVP!Ordered, SV!GetterFails, SVP!GetterFails, SV!Settle, SVP!Settle, SV!Forget,
     SVP!Forget
<1>4. ASSUME NEW c, SV!ReturnCached(c) PROVE SVP!ReturnCached(c)
  BY <1>4 DEF SV!ReturnCached, SVP!ReturnCached, SV!NeedsResolve,
     SVP!NeedsResolve, SV!Valid, SVP!Valid, SV!Settle, SVP!Settle,
     SV!Forget, SVP!Forget
<1>5. ASSUME NEW c, SV!Join(c) PROVE SVP!Join(c)
  BY <1>5 DEF SV!Join, SVP!Join, SV!NeedsResolve, SVP!NeedsResolve, SV!Valid,
     SVP!Valid, SV!NoFlight, SVP!NoFlight, SV!Settle, SVP!Settle, SV!Forget,
     SVP!Forget
<1>6. ASSUME NEW c, SV!Resolve(c) PROVE SVP!Resolve(c)
  BY <1>6 DEF SV!Resolve, SVP!Resolve, SV!NeedsResolve, SVP!NeedsResolve,
     SV!Valid, SVP!Valid, SV!NoFlight, SVP!NoFlight, SV!Settle, SVP!Settle,
     SV!Forget, SVP!Forget
<1>7. ASSUME NEW c, SV!StoreValue(c) PROVE SVP!StoreValue(c)
  BY <1>7 DEF SV!Ordered, SVP!Ordered, SV!StoreValue, SVP!StoreValue, SV!Write, SVP!Write, SV!Queue,
     SVP!Queue, SV!AwaitingStore, SVP!AwaitingStore
<1>7a. ASSUME NEW c, SV!StoreThrows(c) PROVE SVP!StoreThrows(c)
  BY <1>7a DEF SV!Ordered, SVP!Ordered, SV!StoreThrows, SVP!StoreThrows, SV!Queue,
     SVP!Queue, SV!AwaitingStore, SVP!AwaitingStore
<1>8. ASSUME NEW c, SV!StartStoring(c) PROVE SVP!StartStoring(c)
  BY <1>8 DEF SV!Ordered, SVP!Ordered, SV!StartStoring, SVP!StartStoring
<1>9. ASSUME NEW c, SV!ValueStored(c) PROVE SVP!ValueStored(c)
  BY <1>9 DEF SV!Ordered, SVP!Ordered, SV!ValueStored, SVP!ValueStored, SV!Write, SVP!Write
<1>10. ASSUME NEW c, SV!SetterReplied(c) PROVE SVP!SetterReplied(c)
  BY <1>10 DEF SV!SetterReplied, SVP!SetterReplied, SV!Settle, SVP!Settle
<1>11. ASSUME NEW c, SV!SetterFails(c) PROVE SVP!SetterFails(c)
  BY <1>11 DEF SV!Ordered, SVP!Ordered, SV!SetterFails, SVP!SetterFails, SV!Settle, SVP!Settle, SV!Release,
     SVP!Release
<1>12. ASSUME NEW c, SV!Finish(c) PROVE SVP!Finish(c)
  BY <1>12 DEF SV!Finish, SVP!Finish, SV!Release, SVP!Release
<1>13. ASSUME NEW c, SV!LeaderFails(c) PROVE SVP!LeaderFails(c)
  BY <1>13 DEF SV!LeaderFails, SVP!LeaderFails, SV!Release, SVP!Release
<1>14. ASSUME NEW c, SV!JoinerReturns(c) PROVE SVP!JoinerReturns(c)
  BY <1>14 DEF SV!JoinerReturns, SVP!JoinerReturns
<1>15. ASSUME NEW k, NEW u, SV!ResolverReturns(k, u) PROVE SVP!ResolverReturns(k, u)
  BY <1>15 DEF SV!ResolverReturns, SVP!ResolverReturns
<1>16. ASSUME NEW k, SV!ResolverThrows(k) PROVE SVP!ResolverThrows(k)
  BY <1>16 DEF SV!ResolverThrows, SVP!ResolverThrows
<1>17. ASSUME NEW k, SV!Expire(k) PROVE SVP!Expire(k)
  BY <1>17 DEF SV!Expire, SVP!Expire
<1>18. SV!Reset => SVP!Reset
  BY DEF SV!Reset, SVP!Reset
<1>19. SV!Exhausted => SVP!Exhausted
  BY DEF SV!Exhausted, SVP!Exhausted, SV!vars, SVP!vars
<1>23. SV!Invocations = SVP!Invocations
  BY DEF SV!Invocations, SVP!Invocations
<1>20. ASSUME NEW c, SV!Progress(c) PROVE SVP!Progress(c)
  BY <1>20, <1>2, <1>3, <1>4, <1>5, <1>6, <1>7, <1>7a, <1>8, <1>9, <1>10, <1>11, <1>12,
     <1>13, <1>14, Zenon DEF SV!Progress, SVP!Progress
<1>21. ASSUME NEW k, SV!ResolverSettles(k) \/ SV!Expire(k)
       PROVE  SVP!ResolverSettles(k) \/ SVP!Expire(k)
  BY <1>21, <1>15, <1>16, <1>17, Zenon DEF SV!ResolverSettles, SVP!ResolverSettles
<1>22. SV!Next => SVP!Next
  BY <1>1, <1>18, <1>19, <1>20, <1>21, <1>23, Zenon DEF SV!Next, SVP!Next
<1> QED
  BY <1>22 DEF SV!vars, SVP!vars

(* Every step of the session is a step of its accessor, or leaves it alone.   *)
LEMMA SessionStep == [Next]_vars => [SV!Next]_SV!vars
<1> SUFFICES ASSUME [Next]_vars PROVE [SV!Next]_SV!vars
  OBVIOUS
<1> USE DEF SV!vars, accessor, Tokens
<1>1. ASSUME NEW c \in Clients, NEW f \in BOOLEAN, GetToken(c, f) PROVE SV!Next
  BY <1>1 DEF GetToken, SV!Next, Callers
<1>2. ASSUME NEW c \in Callers, Progress(c) PROVE SV!Next
  BY <1>2 DEF Progress, AccessorStep, StartRefresh, StartAcquire, StoreToken,
     TokenStored, SV!Progress, SV!Next
<1>3. ASSUME NEW k \in Tokens, ProviderStep(k) PROVE [SV!Next]_SV!vars
  <2>1. ASSUME NEW r \in BOOLEAN, NEW u \in BOOLEAN, TokenReceived(k, r, u) PROVE SV!Next
    BY <2>1 DEF TokenReceived, SV!Next, SV!ResolverSettles
  <2>2. CASE RefreshFails(k)
    BY <2>2 DEF RefreshFails, DropToken, SV!Next
  <2>3. CASE TokenDropped(k)
    BY <2>3 DEF TokenDropped, DropToken, SV!Next
  <2>4. CASE FallBack(k)
    BY <2>4 DEF FallBack
  <2>5. CASE ResolveFails(k)
    BY <2>5 DEF ResolveFails, SV!Next, SV!ResolverSettles
  <2> QED
    BY <1>3, <2>1, <2>2, <2>3, <2>4, <2>5 DEF ProviderStep
<1>4. ASSUME NEW t \in Tokens, TimerFires(t) PROVE [SV!Next]_SV!vars
  <2>1. CASE tokenUsed
    BY <1>4, <2>1 DEF TimerFires, SV!Next, Callers
  <2>2. CASE ~tokenUsed
    BY <1>4, <2>2 DEF TimerFires
  <2> QED
    BY <2>1, <2>2
<1>5. ASSUME NEW t \in Tokens, Expire(t) PROVE SV!Next
  BY <1>5 DEF Expire, SV!Next
<1>6. ASSUME NEW c \in Clients, DeleteToken(c) PROVE SV!Next
  BY <1>6 DEF DeleteToken, SV!Next
<1>7. Exhausted => SV!Next
  BY DEF Exhausted, SV!Next
<1>8. CASE UNCHANGED vars
  BY <1>8 DEF vars
<1> QED
  BY <1>1, <1>2, <1>3, <1>4, <1>5, <1>6, <1>7, <1>8 DEF Next

(* The session uses its token accessor as SynchronizedAsyncValue describes.   *)
THEOREM SessionImplementsAccessor == Spec => SV!Spec
<1>1. Init => SV!Init
  BY DEF Init
<1> QED
  BY <1>1, SessionStep, PTL DEF Spec, SV!Spec

LEMMA AccessorIsProved == SV!Spec => SVP!Spec
<1>1. SV!Init => SVP!Init
  BY DEF SV!Init, SVP!Init, SV!Invocations, SVP!Invocations
<1> QED
  BY <1>1, SameStep, PTL DEF SV!Spec, SVP!Spec

LEMMA AccessorStores == Stores \subseteq {"cached", "memory", "remote"}
  BY StoresAssumption

LEMMA AccessorInvariant == Spec => []SVP!IInv
  BY AccessorIsProved, SessionImplementsAccessor, SVP!FlightInvariant, BoundAssumption,
     AccessorStores, PTL

LEMMA AccessorResolves == Spec => SVP!NoRedundantResolve
  BY AccessorIsProved, SessionImplementsAccessor, SVP!NoRedundant, BoundAssumption,
     AccessorStores, PTL

-----------------------------------------------------------------------------
(* An invocation of refreshToken is suspended exactly while its promise is    *)
(* pending.                                                                 *)
StepsOK ==
    /\ step \in [Tokens -> Steps]
    /\ \A k \in Tokens : step[k] # "none" <=> phase[k] = "pending"

SInv == StepsOK /\ StateFollowsFlight /\ TimerIsForNewestToken

USE BoundAssumption, StoresAssumption, ConfigAssumption DEF Tokens, SV!Invocations

(* What the invariant of the accessor says of the newest invocation.          *)
LEMMA Newest ==
    ASSUME SVP!IInv
    PROVE  /\ calls \in 0 .. MaxCalls
           /\ phase \in [Tokens -> SVP!Phases]
           /\ \A k \in Tokens : phase[k] = "pending" => k = calls
           /\ \A c \in Callers : pc[c] = "stored" =>
                 own[c] = calls /\ own[c] \in Tokens /\ phase[own[c]] = "resolved"
           /\ \A c \in Callers, k \in Tokens :
                 SV!Resolve(c) /\ phase[k] = "pending" => FALSE
<1> USE DEF SVP!IInv, SVP!TypeOK, SVP!FlightHasOneLeader, SVP!FramesOK, SVP!PhasesOK,
            SVP!Leads, SVP!Invocations, SVP!Values
<1>1. calls \in 0 .. MaxCalls /\ phase \in [Tokens -> SVP!Phases]
  OBVIOUS
<1>2. \A k \in Tokens : phase[k] = "pending" => k = calls /\ resolverCall # 0
  OBVIOUS
<1>3. \A c \in Callers : pc[c] = "stored" =>
        own[c] = calls /\ own[c] \in Tokens /\ phase[own[c]] = "resolved"
  OBVIOUS
<1>4. \A c \in Callers : SV!Resolve(c) => resolverCall = 0
  BY DEF SV!Resolve, SV!NoFlight
<1> QED
  BY <1>1, <1>2, <1>3, <1>4

LEMMA InvStep == SVP!IInv /\ SInv /\ [Next]_vars => SInv'
<1> SUFFICES ASSUME SVP!IInv, SInv, [Next]_vars PROVE SInv'
  OBVIOUS
<1> DEFINE N == /\ calls \in 0 .. MaxCalls
                /\ phase \in [Tokens -> SVP!Phases]
                /\ \A k \in Tokens : phase[k] = "pending" => k = calls
<1>0. N
  BY Newest
<1> USE <1>0 DEF SInv, StepsOK, Steps, StateFollowsFlight, TimerIsForNewestToken
<1>1. ASSUME UNCHANGED <<state, step, timer, phase, calls>>, armed' \subseteq armed
      PROVE  SInv'
  BY <1>1
<1>2. ASSUME NEW c \in Clients, NEW f \in BOOLEAN, GetToken(c, f) PROVE SInv'
  BY <1>1, <1>2 DEF GetToken, SV!Call
<1>3. ASSUME NEW c \in Callers, AccessorStep(c) PROVE SInv'
  BY <1>1, <1>3 DEF AccessorStep, session, SV!StoreReads, SV!GetterFails,
     SV!ReturnCached, SV!Join, SV!ValueStored, SV!SetterFails, SV!Finish,
     SV!LeaderFails, SV!JoinerReturns
<1>4. ASSUME NEW c \in Callers, StartRefresh(c) PROVE SInv'
  <2>1. \A k \in Tokens : phase[k] # "pending"
    BY <1>4, Newest DEF StartRefresh
  <2> QED
    BY <1>4, <2>1 DEF StartRefresh, SV!Resolve, ClearTimer
<1>5. ASSUME NEW c \in Callers, StartAcquire(c) PROVE SInv'
  <2>1. \A k \in Tokens : phase[k] # "pending"
    BY <1>5, Newest DEF StartAcquire
  <2> QED
    BY <1>5, <2>1 DEF StartAcquire, SV!Resolve, ClearTimer
<1>6. ASSUME NEW c \in Callers, StoreToken(c) PROVE SInv'
  BY <1>1, <1>6 DEF StoreToken, SV!StoreValue, SV!StoreThrows, SV!StartStoring
<1>7. ASSUME NEW c \in Callers, TokenStored(c) PROVE SInv'
  <2>1. own[c] = calls /\ own[c] \in Tokens /\ phase[own[c]] = "resolved"
    BY <1>7, Newest DEF TokenStored, SV!SetterReplied
  <2> QED
    BY <1>7, <2>1 DEF TokenStored, SV!SetterReplied
<1>8. ASSUME NEW k \in Tokens, NEW r \in BOOLEAN, NEW u \in BOOLEAN,
             TokenReceived(k, r, u) PROVE SInv'
  BY <1>8 DEF TokenReceived, SV!ResolverReturns
<1>9. ASSUME NEW k \in Tokens, DropToken(k) PROVE UNCHANGED <<phase, calls>>
  BY <1>9 DEF DropToken, SV!Reset, accessor
<1>10. ASSUME NEW k \in Tokens, RefreshFails(k) PROVE SInv'
  <2>1. UNCHANGED <<phase, calls>>
    BY <1>9, <1>10 DEF RefreshFails, accessor
  <2> QED
    BY <1>10, <2>1 DEF RefreshFails
<1>11. ASSUME NEW k \in Tokens, TokenDropped(k) PROVE SInv'
  BY <1>9, <1>11 DEF TokenDropped
<1>12. ASSUME NEW k \in Tokens, FallBack(k) PROVE SInv'
  BY <1>12 DEF FallBack, accessor
<1>13. ASSUME NEW k \in Tokens, ResolveFails(k) PROVE SInv'
  BY <1>13 DEF ResolveFails, SV!ResolverThrows
<1>14. ASSUME NEW t \in Tokens, TimerFires(t) PROVE SInv'
  BY <1>1, <1>14 DEF TimerFires, SV!Call, accessor
<1>15. ASSUME NEW t \in Tokens, Expire(t) PROVE SInv'
  BY <1>1, <1>15 DEF Expire, SV!Expire, session
<1>16. ASSUME NEW c \in Clients, DeleteToken(c) PROVE SInv'
  BY <1>1, <1>16 DEF DeleteToken, SV!Reset, session
<1>17. ASSUME Exhausted \/ UNCHANGED vars PROVE SInv'
  BY <1>1, <1>17 DEF Exhausted, SV!Exhausted, SV!vars, vars, accessor, session
<1> HIDE DEF SInv
<1> QED
  BY <1>2, <1>3, <1>4, <1>5, <1>6, <1>7, <1>8, <1>10, <1>11, <1>12, <1>13, <1>14,
     <1>15, <1>16, <1>17 DEF Next, Progress, ProviderStep

LEMMA SessionInvariant == Spec => []SInv
<1>1. Init => SInv
  BY DEF Init, SV!Init, SInv, StepsOK, Steps, StateFollowsFlight, TimerIsForNewestToken
<1> QED
  BY <1>1, InvStep, AccessorInvariant, PTL DEF Spec

(* The session never has two token acquisitions under way, whatever its       *)
(* clients, its timer and its store do.                                     *)
THEOREM OneAcquisition == Spec => []SV!SingleFlight
<1>1. SVP!IInv => SV!SingleFlight
  BY Newest DEF SV!SingleFlight
<1> QED
  BY <1>1, AccessorInvariant, PTL

(* The state of the session is that of its newest acquisition.               *)
THEOREM StateCorrect == Spec => []StateFollowsFlight
<1>1. SInv => StateFollowsFlight
  BY DEF SInv
<1> QED
  BY <1>1, SessionInvariant, PTL

(* No timeout survives the token it was started for.                         *)
THEOREM OneTimer == Spec => []TimerIsForNewestToken
<1>1. SInv => TimerIsForNewestToken
  BY DEF SInv
<1> QED
  BY <1>1, SessionInvariant, PTL

-----------------------------------------------------------------------------
Values == 0 .. MaxCalls

(* What the proofs below use of the invariant of the accessor.                *)
Flight ==
    /\ calls \in Values /\ value \in Values
    /\ phase \in [Tokens -> SVP!Phases]
    /\ prev \in [Tokens -> Values]
    /\ pc \in [Callers -> SVP!Points]
    /\ captured \in [Callers -> Values]
    /\ own \in [Callers -> Values]
    /\ ahead \in [Callers -> SUBSET Callers]
    /\ \A c \in Callers : SV!Leads(c) => own[c] = calls /\ own[c] \in Tokens /\ ~SV!NoFlight
    /\ \A c, d \in Callers : SV!Leads(c) /\ SV!Leads(d) => c = d
    /\ \A k \in Tokens : k > calls => phase[k] = "unused"
    /\ \A k \in Tokens : phase[k] = "pending" =>
          k = calls /\ \E c \in Callers : pc[c] = "leading" /\ own[c] = k
    /\ \A c \in Callers :
          pc[c] \in {"storing", "stored", "set", "throwing"} => phase[own[c]] = "resolved"
    /\ \A c \in Callers : pc[c] = "throwing" => own[c] \in unstorable
    /\ \A k \in unstorable : phase[k] = "resolved"

LEMMA FlightHolds == SVP!IInv => Flight
<1> USE DEF SVP!IInv, SVP!TypeOK, SVP!FlightHasOneLeader, SVP!FramesOK, SVP!PhasesOK,
            SVP!Leads, SV!Leads, SVP!Invocations, SVP!Values, SV!NoFlight, Values
<1> SUFFICES ASSUME SVP!IInv PROVE Flight
  OBVIOUS
<1>1. \A c \in Callers : SV!Leads(c) => own[c] = calls /\ own[c] \in Tokens /\ ~SV!NoFlight
  OBVIOUS
<1>2. \A k \in Tokens : phase[k] = "pending" => k = calls
  BY Newest
<1> QED
  BY <1>1, <1>2 DEF Flight

(* Only tokens that were received are stored, read and refreshed.              *)
Received(t) == t # 0 => t \in Tokens /\ phase[t] = "resolved"

TokensReceived ==
    /\ Received(value)
    /\ \A c \in Callers : Received(captured[c])
    /\ \A k \in Tokens : Received(prev[k]) /\ (prev[k] # 0 => prev[k] < k)

LEMMA ReceivedStep == Flight /\ TokensReceived /\ [Next]_vars => TokensReceived'
<1> SUFFICES ASSUME Flight, TokensReceived, [Next]_vars PROVE TokensReceived'
  OBVIOUS
<1> USE DEF TokensReceived, Received
<1>1. ASSUME \A k \in Tokens : phase[k] = "resolved" => phase'[k] = "resolved",
             value' \in {0, value}, UNCHANGED prev,
             \A c \in Callers : captured'[c] \in {0, value, captured[c]}
      PROVE  TokensReceived'
  BY <1>1
<1> USE DEF Flight
<1>2. ASSUME NEW c \in Callers, NEW f \in BOOLEAN, SV!Call(c, f) PROVE TokensReceived'
  BY <1>1, <1>2 DEF SV!Call
<1>3. ASSUME NEW c \in Callers, SV!StoreReads(c) PROVE TokensReceived'
  BY <1>1, <1>3 DEF SV!StoreReads
<1>4. ASSUME NEW c \in Callers, SV!GetterFails(c) \/ SV!ReturnCached(c) \/ SV!Join(c)
      PROVE  TokensReceived'
  BY <1>1, <1>4 DEF SV!GetterFails, SV!ReturnCached, SV!Join, SV!Forget
<1>5. ASSUME NEW c \in Callers, SV!Resolve(c) PROVE TokensReceived'
  <2>1. calls + 1 \in Tokens /\ phase[calls + 1] = "unused"
    BY <1>5 DEF SV!Resolve, Values
  <2>2. captured[c] # 0 => captured[c] \in Tokens /\ captured[c] < calls + 1
    BY <2>1 DEF Values
  <2>3. \A k \in Tokens : phase[k] = "resolved" => phase'[k] = "resolved"
    BY <1>5, <2>1 DEF SV!Resolve
  <2> QED
    BY <1>5, <2>1, <2>2, <2>3 DEF SV!Resolve, SV!Forget
<1>6. ASSUME NEW c \in Callers, SV!StoreValue(c) \/ SV!ValueStored(c) PROVE TokensReceived'
  BY <1>6 DEF SV!StoreValue, SV!ValueStored, SV!Write, SV!Leads
<1>7. ASSUME NEW c \in Callers,
             \/ SV!StoreThrows(c) \/ SV!StartStoring(c) \/ SV!SetterReplied(c)
             \/ SV!SetterFails(c) \/ SV!Finish(c) \/ SV!LeaderFails(c) \/ SV!JoinerReturns(c)
      PROVE  TokensReceived'
  BY <1>1, <1>7 DEF SV!StoreThrows, SV!StartStoring, SV!SetterReplied, SV!SetterFails,
     SV!Finish, SV!LeaderFails, SV!JoinerReturns
<1>8. ASSUME NEW k \in Tokens,
             (\E u \in BOOLEAN : SV!ResolverReturns(k, u)) \/ SV!ResolverThrows(k)
      PROVE  TokensReceived'
  BY <1>1, <1>8 DEF SV!ResolverReturns, SV!ResolverThrows
<1>9. ASSUME NEW k \in Tokens, SV!Expire(k) PROVE TokensReceived'
  BY <1>1, <1>9 DEF SV!Expire
<1>10. SV!Reset => TokensReceived'
  BY <1>1 DEF SV!Reset
<1>11. UNCHANGED SV!vars => TokensReceived'
  BY <1>1 DEF SV!vars
<1>12. [SV!Next]_SV!vars
  BY SessionStep
<1> HIDE DEF TokensReceived
<1> QED
  BY <1>2, <1>3, <1>4, <1>5, <1>6, <1>7, <1>8, <1>9, <1>10, <1>11, <1>12
     DEF SV!Next, SV!Progress, SV!ResolverSettles, SV!Exhausted

-----------------------------------------------------------------------------
(* A token that is being replaced is in the store, or in the hands of a caller *)
(* that read it, only until its replacement was refused: the caller that       *)
(* asked for it then resumes, and stores the new token behind all reads of the *)
(* old one, unless the store throws on it.                                    *)
Replaced(k) == \E d \in Callers : pc[d] = "leading" /\ own[d] = k /\ phase[k] = "resolved"

Overwritten(k, c) == \E d \in Callers :
    pc[d] = "stored" /\ own[d] = k /\ phase[k] = "resolved" /\ c \in ahead[d]

Refused(k) == step[k] \in {"deleted", "acquiring"} \/ (SV!Ordered /\ phase[k] = "rejected")

Dropped(k) == SentRefreshToken(k) /\ Refused(k) => value # prev[k]

StillStored(k) ==
    SV!Ordered /\ SentRefreshToken(k) /\ value = prev[k] =>
        step[k] = "refreshing" \/ Replaced(k) \/ k \in unstorable

StillRead(k) ==
    SV!Ordered /\ SentRefreshToken(k) => \A c \in Callers :
        pc[c] = "read" /\ captured[c] = prev[k] =>
            \/ step[k] \in {"refreshing", "deleted"} \/ k \in unstorable
            \/ Replaced(k) \/ Overwritten(k, c)

RefreshOK ==
    /\ refreshable \in SUBSET Tokens
    /\ \A k \in Tokens : Dropped(k) /\ StillStored(k) /\ StillRead(k)
    /\ RefreshTokenSentOnce

RInv == Flight /\ TokensReceived /\ StepsOK /\ RefreshOK

(* Whoever reads the token of a refresh that was started finds it under way.   *)
LEMMA NoSecondFlight ==
    ASSUME RInv, SV!Ordered, NEW j \in Tokens, SentRefreshToken(j), j \notin unstorable,
           NEW c \in Callers, pc[c] = "read", captured[c] = prev[j]
    PROVE  ~SV!NoFlight
<1>1. step[j] \in {"refreshing", "deleted"} => phase[j] = "pending"
  BY DEF RInv, RefreshOK, StepsOK
<1>2. step[j] \in {"refreshing", "deleted"} \/ Replaced(j) \/ Overwritten(j, c)
  BY DEF RInv, RefreshOK, StillRead
<1>3. \E d \in Callers : SV!Leads(d)
  BY <1>1, <1>2 DEF RInv, RefreshOK, Flight, Replaced, Overwritten, SV!Leads
<1> QED
  BY <1>3 DEF RInv, RefreshOK, Flight

(* Steps that neither start nor end an acquisition.                            *)
Steady == UNCHANGED <<store, phase, unstorable, prev, step, refreshable>>

LEMMA SteadySends ==
    ASSUME RInv, Steady
    PROVE  /\ \A k \in Tokens : SentRefreshToken(k)' <=> SentRefreshToken(k)
           /\ SV!Ordered' <=> SV!Ordered
           /\ refreshable' \in SUBSET Tokens
           /\ RefreshTokenSentOnce'
  BY DEF RInv, RefreshOK, Steady, SentRefreshToken, MayRefresh, SV!Ordered, RefreshTokenSentOnce

LEMMA SteadyDrops ==
    ASSUME RInv, Steady, NEW k \in Tokens,
           value' \in {0, value} \/ (value' = calls /\ phase[calls] = "resolved")
    PROVE  Dropped(k)'
<1>1. SentRefreshToken(k) => prev[k] \in Tokens /\ prev[k] < k /\ k <= calls
  BY DEF SentRefreshToken, MayRefresh, RInv, RefreshOK, Flight, TokensReceived, SVP!Phases, Values
<1>2. SentRefreshToken(k)' => SentRefreshToken(k)
  BY SteadySends
<1>3. Refused(k)' <=> Refused(k)
  BY DEF Refused, Steady, SV!Ordered
<1>4. SentRefreshToken(k) /\ value' = calls => value' # prev[k]
  BY <1>1 DEF RInv, RefreshOK, Flight, Values
<1>5. SentRefreshToken(k) => 0 # prev[k]
  BY <1>1
<1> QED
  BY <1>2, <1>3, <1>4, <1>5 DEF Dropped, Steady, RInv, RefreshOK

(* The callers that lead go on leading, and no other reads anything but the    *)
(* token in the store.                                                        *)
LEMMA SteadyReads ==
    ASSUME RInv, Steady, NEW k \in Tokens, value' \in {0, value},
           \A d \in Callers :
               SV!Ordered /\ pc[d] = "leading" /\ phase[own[d]] = "resolved"
                   => (pc'[d] = "leading" /\ own'[d] = own[d]) \/ own[d] \in unstorable,
           \A d \in Callers : SV!Ordered /\ pc[d] = "stored" /\ ahead[d] # {} =>
               pc'[d] = "stored" /\ own'[d] = own[d],
           \A c \in Callers : pc'[c] = "read" =>
               \/ captured'[c] = value
               \/ /\ pc[c] = "read" /\ captured'[c] = captured[c]
                  /\ \A d \in Callers : pc[d] = "stored" /\ c \in ahead[d] => c \in ahead'[d]
    PROVE  StillStored(k)' /\ StillRead(k)'
<1>1. SentRefreshToken(k) => 0 # prev[k]
  BY DEF SentRefreshToken, MayRefresh, RInv, RefreshOK
<1>2. SentRefreshToken(k)' => SentRefreshToken(k)
  BY SteadySends
<1>3. SV!Ordered /\ Replaced(k) => Replaced(k)' \/ k \in unstorable
  BY DEF Replaced, Steady
<1>4. StillStored(k)'
  BY <1>1, <1>2, <1>3 DEF StillStored, Steady, RInv, RefreshOK, SV!Ordered
<1>5. ASSUME NEW c \in Callers, SV!Ordered, Overwritten(k, c),
             \A d \in Callers : pc[d] = "stored" /\ c \in ahead[d] => c \in ahead'[d]
      PROVE  Overwritten(k, c)'
  BY <1>5 DEF Overwritten, Steady
<1>6. ASSUME NEW c \in Callers, SV!Ordered, SentRefreshToken(k),
             pc'[c] = "read", captured'[c] = prev[k]
      PROVE  \/ step[k] \in {"refreshing", "deleted"} \/ k \in unstorable
             \/ Replaced(k)' \/ Overwritten(k, c)'
  <2>1. CASE captured'[c] = value
    BY <1>3, <1>6, <2>1 DEF RInv, RefreshOK, StillStored
  <2>2. CASE captured'[c] # value
    BY <1>3, <1>5, <1>6, <2>2 DEF RInv, RefreshOK, StillRead
  <2> QED
    BY <2>1, <2>2
<1>7. StillRead(k)'
  BY <1>2, <1>6 DEF StillRead, Steady, SV!Ordered
<1> QED
  BY <1>4, <1>7

-----------------------------------------------------------------------------
LEMMA CallStep ==
    ASSUME RInv, Steady, NEW c \in Callers, NEW f \in BOOLEAN, SV!Call(c, f)
    PROVE  RefreshOK'
<1>1. \A k \in Tokens : Dropped(k)'
  BY SteadyDrops DEF SV!Call
<1>2. ASSUME NEW k \in Tokens PROVE StillStored(k)' /\ StillRead(k)'
  <2>1. pc \in [Callers -> SVP!Points] /\ captured \in [Callers -> Values]
        /\ ahead \in [Callers -> SUBSET Callers]
    BY DEF RInv, Flight
  <2>2. \A d \in Callers : d # c => pc'[d] = pc[d] /\ captured'[d] = captured[d]
                                    /\ ahead'[d] = ahead[d]
    BY <2>1 DEF SV!Call, SV!Queue
  <2>3. pc[c] = "idle" /\ (pc'[c] = "read" => captured'[c] = value)
    BY <2>1 DEF SV!Call
  <2> QED
    BY <2>2, <2>3, SteadyReads DEF SV!Call
<1> QED
  BY <1>1, <1>2, SteadySends DEF RefreshOK

(* The steps in which the accessor moves on without touching the store.        *)
LEMMA AccessorMoves ==
    ASSUME RInv, Steady, NEW c \in Callers,
           \/ SV!StoreReads(c) \/ SV!GetterFails(c) \/ SV!ReturnCached(c) \/ SV!Join(c)
           \/ SV!StoreThrows(c) \/ SV!StartStoring(c) \/ SV!SetterReplied(c)
           \/ SV!SetterFails(c) \/ SV!Finish(c) \/ SV!LeaderFails(c) \/ SV!JoinerReturns(c)
    PROVE  RefreshOK'
<1> USE DEF SV!StoreReads, SV!GetterFails, SV!ReturnCached, SV!Join, SV!StoreThrows, SV!StartStoring,
            SV!SetterReplied, SV!SetterFails, SV!Finish, SV!LeaderFails, SV!JoinerReturns,
            SV!Queue, SV!AwaitingStore
<1>1. value' = value
  OBVIOUS
<1>2. \A k \in Tokens : Dropped(k)'
  BY <1>1, SteadyDrops
<1>3. pc \in [Callers -> SVP!Points] /\ captured \in [Callers -> Values]
      /\ own \in [Callers -> Values] /\ ahead \in [Callers -> SUBSET Callers]
  BY DEF RInv, Flight
<1>4. \A d \in Callers : d # c => pc'[d] = pc[d] /\ own'[d] = own[d] /\ captured'[d] = captured[d]
  BY <1>3 DEF SV!Forget
<1>5. \A d \in Callers : \/ ahead'[d] = ahead[d] \/ (ahead[c] = {} /\ ahead'[d] = ahead[d] \ {c})
                         \/ d = c /\ pc[c] = "leading"
  BY <1>3 DEF SV!Settle
<1>6. pc'[c] = "read" => captured'[c] = value
  BY <1>3
<1>7. SV!Ordered /\ pc[c] = "leading" /\ phase[own[c]] = "resolved" => own[c] \in unstorable
  BY DEF SV!Ordered
<1>8. SV!Ordered /\ pc[c] = "stored" => ahead[c] = {}
  BY DEF SV!Ordered, SV!Settle
<1>9. ASSUME NEW k \in Tokens PROVE StillStored(k)' /\ StillRead(k)'
  <2>1. \A d \in Callers : SV!Ordered /\ pc[d] = "leading" /\ phase[own[d]] = "resolved" =>
            (pc'[d] = "leading" /\ own'[d] = own[d]) \/ own[d] \in unstorable
    BY <1>4, <1>7
  <2>2. \A d \in Callers : SV!Ordered /\ pc[d] = "stored" /\ ahead[d] # {} =>
            pc'[d] = "stored" /\ own'[d] = own[d]
    BY <1>4, <1>8
  <2>3. \A e \in Callers : pc'[e] = "read" =>
            \/ captured'[e] = value
            \/ /\ pc[e] = "read" /\ captured'[e] = captured[e]
               /\ \A d \in Callers : pc[d] = "stored" /\ e \in ahead[d] => e \in ahead'[d]
    BY <1>4, <1>5, <1>6
  <2> HIDE DEF SV!StoreReads, SV!GetterFails, SV!ReturnCached, SV!Join, SV!StoreThrows, SV!StartStoring,
               SV!SetterReplied, SV!SetterFails, SV!Finish, SV!LeaderFails, SV!JoinerReturns,
               SV!Queue, SV!AwaitingStore
  <2> QED
    BY <1>1, <2>1, <2>2, <2>3, SteadyReads
<1> QED
  BY <1>2, <1>9, SteadySends DEF RefreshOK

(* The store takes the newest token, behind whoever still reads.                *)
LEMMA StoreStep ==
    ASSUME RInv, Steady, NEW c \in Callers, SV!StoreValue(c) \/ SV!ValueStored(c)
    PROVE  RefreshOK'
<1>1. own[c] = calls /\ value' = calls /\ calls \in Tokens /\ phase[calls] = "resolved"
  BY DEF SV!StoreValue, SV!ValueStored, SV!Write, RInv, Flight, SV!Leads
<1>2. \A k \in Tokens : Dropped(k)'
  BY <1>1, SteadyDrops
<1>3. ASSUME NEW k \in Tokens, SentRefreshToken(k) PROVE value' # prev[k]
  <2>1. prev[k] < k /\ k <= calls
    BY <1>3 DEF SentRefreshToken, MayRefresh, RInv, RefreshOK, Flight, TokensReceived,
       SVP!Phases, Values
  <2> QED
    BY <1>1, <2>1 DEF RInv, Flight, Values
<1>4. \A k \in Tokens : StillStored(k)'
  BY <1>3, SteadySends DEF StillStored, Steady
<1>5. ASSUME NEW k \in Tokens, SV!Ordered PROVE StillRead(k)'
  <2>1. /\ pc' = [pc EXCEPT ![c] = "stored"] /\ pc[c] = "leading"
        /\ ahead' = [ahead EXCEPT ![c] = {d \in Callers : pc[d] \in {"read", "stored", "throwing"}}]
        /\ UNCHANGED <<own, captured>>
    BY <1>5 DEF SV!StoreValue, SV!ValueStored, SV!Queue, SV!AwaitingStore
  <2>2. ASSUME NEW e \in Callers, pc'[e] = "read" PROVE pc[e] = "read" /\ e \in ahead'[c]
    BY <2>1, <2>2 DEF RInv, Flight
  <2>3. ASSUME NEW e \in Callers, pc'[e] = "read", Replaced(k)
        PROVE  Replaced(k)' \/ Overwritten(k, e)'
    BY <2>1, <2>2, <2>3 DEF Replaced, Overwritten, Steady, RInv, Flight
  <2>4. ASSUME NEW e \in Callers, Overwritten(k, e) PROVE Overwritten(k, e)'
    BY <2>1, <2>4 DEF Overwritten, Steady, RInv, Flight
  <2> QED
    BY <2>1, <2>2, <2>3, <2>4, SteadySends DEF StillRead, Steady, RInv, RefreshOK
<1>6. \A k \in Tokens : StillRead(k)'
  BY <1>5, SteadySends DEF StillRead
<1> QED
  BY <1>2, <1>4, <1>6, SteadySends DEF RefreshOK

(* The store is emptied, or left alone.                                         *)
LEMMA IdleStep ==
    ASSUME RInv, Steady, value' \in {0, value}, UNCHANGED <<pc, captured, own, ahead>>
    PROVE  RefreshOK'
<1>1. \A k \in Tokens : Dropped(k)'
  BY SteadyDrops
<1>2. \A k \in Tokens : StillStored(k)' /\ StillRead(k)'
  BY SteadyReads
<1> QED
  BY <1>1, <1>2, SteadySends DEF RefreshOK

-----------------------------------------------------------------------------
(* A new acquisition starts, with the refresh token of the token that was read *)
(* or without one.  No earlier one sent the same token: it would be under way.  *)
LEMMA StartStep ==
    ASSUME RInv, NEW c \in Callers, StartRefresh(c) \/ StartAcquire(c)
    PROVE  RefreshOK'
<1>0. PICK n \in Tokens : n = calls + 1
  BY DEF StartRefresh, StartAcquire, SV!Resolve, RInv, Flight, Values
<1>1. /\ pc[c] = "read" /\ SV!NoFlight /\ phase[n] = "unused"
      /\ UNCHANGED <<store, value, unstorable, refreshable>>
      /\ phase' = [phase EXCEPT ![n] = "pending"]
      /\ prev' = [prev EXCEPT ![n] = captured[c]]
      /\ pc' = [pc EXCEPT ![c] = "leading"]
      /\ captured' = [captured EXCEPT ![c] = 0]
      /\ ahead[c] = {}
  BY <1>0 DEF StartRefresh, StartAcquire, SV!Resolve, SV!Forget, SV!Settle, RInv, Flight, Values
<1>2. /\ step' = [step EXCEPT ![n] = step'[n]]
      /\ MayRefresh(captured[c]) => step'[n] = "refreshing"
  BY <1>0, <1>1 DEF StartRefresh, StartAcquire, RInv, StepsOK
<1>3. \A d \in Callers : ~SV!Leads(d)
  BY <1>1 DEF RInv, Flight
<1>4. \A k \in Tokens : phase[k] # "pending"
  BY <1>3 DEF RInv, Flight, SV!Leads
<1>5. SentRefreshToken(n)' => step'[n] = "refreshing" /\ prev'[n] = captured[c]
                              /\ MayRefresh(captured[c])
  BY <1>1, <1>2 DEF SentRefreshToken, MayRefresh, RInv, Flight
<1>6. \A k \in Tokens : k # n => step'[k] = step[k] /\ phase'[k] = phase[k] /\ prev'[k] = prev[k]
                                 /\ (SentRefreshToken(k)' <=> SentRefreshToken(k))
  BY <1>1, <1>2 DEF SentRefreshToken, MayRefresh, RInv, Flight, StepsOK
<1>7. \A k \in Tokens : Dropped(k)'
  BY <1>1, <1>5, <1>6 DEF Dropped, Refused, RInv, RefreshOK, SV!Ordered, Flight
<1>8. ASSUME NEW k \in Tokens PROVE StillStored(k)'
  <2>1. CASE k = n
    BY <1>5, <2>1 DEF StillStored
  <2>2. CASE k # n
    <3>1. ~Replaced(k)
      BY <1>3 DEF Replaced, SV!Leads
    <3> QED
      BY <1>1, <1>6, <2>2, <3>1 DEF StillStored, RInv, RefreshOK, SV!Ordered
  <2> QED
    BY <2>1, <2>2
<1>9. ASSUME NEW k \in Tokens PROVE StillRead(k)'
  <2>1. CASE k = n
    BY <1>5, <2>1 DEF StillRead
  <2>2. CASE k # n
    <3>1. ASSUME NEW d \in Callers, SV!Ordered, SentRefreshToken(k), pc'[d] = "read",
                 captured'[d] = prev'[k], k \notin unstorable
          PROVE  FALSE
      <4>1. pc[d] = "read" /\ captured[d] = prev[k]
        BY <1>1, <1>6, <2>2, <3>1 DEF RInv, Flight
      <4> QED
        BY <1>1, <3>1, <4>1, NoSecondFlight
    <3> QED
      BY <1>1, <1>6, <2>2, <3>1 DEF StillRead, SV!Ordered
  <2> QED
    BY <2>1, <2>2
<1>10. RefreshTokenSentOnce'
  <2>1. ASSUME SV!Ordered, NEW j \in Tokens, j # n, SentRefreshToken(j), prev[j] = captured[c]
        PROVE  j \in unstorable
    BY <1>1, <2>1, NoSecondFlight
  <2>2. \A k \in Tokens : n < k => ~SentRefreshToken(k)
    BY <1>0 DEF SentRefreshToken, RInv, Flight, Values
  <2> QED
    BY <1>1, <1>5, <1>6, <2>1, <2>2 DEF RefreshTokenSentOnce, RInv, RefreshOK, SV!Ordered
<1> QED
  BY <1>1, <1>7, <1>8, <1>9, <1>10 DEF RefreshOK, RInv

(* What no step of the provider changes.                                        *)
LEMMA ProviderSends ==
    ASSUME RInv, NEW n \in Tokens, phase[n] = "pending", phase'[n] # "unused",
           UNCHANGED <<store, prev>>, refreshable' \in {refreshable, refreshable \cup {n}},
           unstorable' \in {unstorable, unstorable \cup {n}},
           \A k \in Tokens \ {n} : phase'[k] = phase[k]
    PROVE  /\ \A k \in Tokens : SentRefreshToken(k)' <=> SentRefreshToken(k)
           /\ SV!Ordered' <=> SV!Ordered
           /\ refreshable' \in SUBSET Tokens
           /\ RefreshTokenSentOnce'
<1>1. \A k \in Tokens : prev[k] # n
  BY DEF RInv, TokensReceived, Received
<1>2. \A k \in Tokens : SentRefreshToken(k)' <=> SentRefreshToken(k)
  BY <1>1 DEF SentRefreshToken, MayRefresh
<1> QED
  BY <1>2 DEF RefreshTokenSentOnce, RInv, RefreshOK, SV!Ordered

(* The provider only moves invocation n, and the store nothing but drops a      *)
(* token: the other invocations are as before.                                 *)
LEMMA ProviderOthers ==
    ASSUME RInv, NEW n \in Tokens, phase[n] = "pending", phase'[n] # "unused",
           UNCHANGED <<store, prev, pc, captured, own, ahead>>, value' \in {0, value},
           refreshable' \in {refreshable, refreshable \cup {n}},
           unstorable' \in {unstorable, unstorable \cup {n}},
           \A k \in Tokens \ {n} : phase'[k] = phase[k] /\ step'[k] = step[k],
           Dropped(n)', StillStored(n)', StillRead(n)'
    PROVE  RefreshOK'
<1>1. /\ \A k \in Tokens : SentRefreshToken(k)' <=> SentRefreshToken(k)
      /\ SV!Ordered' <=> SV!Ordered
      /\ refreshable' \in SUBSET Tokens
      /\ RefreshTokenSentOnce'
  BY ProviderSends
<1>2. \A k \in Tokens : SentRefreshToken(k) => prev[k] # 0
  BY DEF SentRefreshToken, MayRefresh, RInv, RefreshOK
<1>3. ASSUME NEW k \in Tokens \ {n} PROVE Dropped(k)' /\ StillStored(k)' /\ StillRead(k)'
  <2>1. Dropped(k) /\ StillStored(k) /\ StillRead(k)
    BY DEF RInv, RefreshOK
  <2>2. /\ Refused(k)' <=> Refused(k)
        /\ Replaced(k)' <=> Replaced(k)
        /\ \A c \in Callers : Overwritten(k, c)' <=> Overwritten(k, c)
    BY <1>1, <1>3 DEF Refused, Replaced, Overwritten
  <2> QED
    BY <1>1, <1>2, <1>3, <2>1, <2>2 DEF Dropped, StillStored, StillRead
<1> QED
  BY <1>1, <1>3 DEF RefreshOK

(* Its caller still leads, so that it stores the token that was received.       *)
LEMMA ReceiveStep ==
    ASSUME RInv, NEW n \in Tokens, NEW r \in BOOLEAN, NEW u \in BOOLEAN, TokenReceived(n, r, u)
    PROVE  RefreshOK'
<1>1. /\ phase[n] = "pending" /\ phase' = [phase EXCEPT ![n] = "resolved"]
      /\ step' = [step EXCEPT ![n] = "none"]
      /\ refreshable' \in {refreshable, refreshable \cup {n}}
      /\ unstorable' \in {unstorable, unstorable \cup {n}}
      /\ UNCHANGED <<store, value, prev, pc, captured, own, ahead>>
  BY DEF TokenReceived, SV!ResolverReturns
<1>2. /\ phase'[n] = "resolved" /\ step'[n] = "none"
      /\ \A k \in Tokens \ {n} : phase'[k] = phase[k] /\ step'[k] = step[k]
  BY <1>1 DEF RInv, Flight, StepsOK
<1>3. Replaced(n)'
  BY <1>1, <1>2 DEF Replaced, RInv, Flight
<1>4. Dropped(n)' /\ StillStored(n)' /\ StillRead(n)'
  BY <1>2, <1>3 DEF Dropped, Refused, StillStored, StillRead
<1> QED
  BY <1>1, <1>2, <1>4, ProviderOthers

LEMMA DropStep ==
    ASSUME RInv, NEW n \in Tokens, RefreshFails(n) \/ TokenDropped(n)
    PROVE  RefreshOK'
<1>1. /\ step[n] \in {"refreshing", "deleting"}
      /\ step' = [step EXCEPT ![n] = step'[n]]
      /\ UNCHANGED <<store, phase, unstorable, prev, pc, captured, own, ahead, refreshable>>
      /\ value' \in {0, value}
  BY DEF RefreshFails, TokenDropped, DropToken, SV!Reset, accessor, RInv, StepsOK
<1>2. \/ DropToken(n) /\ step'[n] = "deleted"
      \/ ~SV!Ordered /\ step'[n] = "deleting"
  BY DEF RefreshFails, TokenDropped, RInv, StepsOK
<1>3. phase[n] = "pending" /\ \A k \in Tokens \ {n} : step'[k] = step[k]
  BY <1>1 DEF RInv, StepsOK
<1>4. SentRefreshToken(n)' => SentRefreshToken(n) /\ prev[n] # 0
  BY <1>1 DEF SentRefreshToken, MayRefresh, RInv, RefreshOK
<1>5. DropToken(n) /\ SentRefreshToken(n)' => value' # prev'[n]
  BY <1>1, <1>4 DEF DropToken, SV!Reset, accessor
<1>6. SV!Ordered' <=> SV!Ordered
  BY <1>1 DEF SV!Ordered
<1>7. Dropped(n)' /\ StillStored(n)' /\ StillRead(n)'
  <2>1. CASE DropToken(n) /\ step'[n] = "deleted"
    BY <1>5, <2>1 DEF Dropped, StillStored, StillRead
  <2>2. CASE ~SV!Ordered /\ step'[n] = "deleting"
    BY <1>6, <2>2 DEF Dropped, Refused, StillStored, StillRead
  <2> QED
    BY <1>2, <2>1, <2>2
<1> QED
  BY <1>1, <1>3, <1>7, ProviderOthers

(* The reads of the dropped token have been answered.                          *)
LEMMA FallBackStep ==
    ASSUME RInv, NEW n \in Tokens, FallBack(n)
    PROVE  RefreshOK'
<1>1. /\ step[n] = "deleted" /\ step' = [step EXCEPT ![n] = "acquiring"]
      /\ SV!Ordered => \A c \in Callers : pc[c] = "read" => captured[c] # prev[n]
      /\ UNCHANGED <<store, value, phase, unstorable, prev, pc, captured, own, ahead, refreshable>>
  BY DEF FallBack, accessor
<1>2. phase[n] = "pending" /\ \A k \in Tokens \ {n} : step'[k] = step[k]
  BY <1>1 DEF RInv, StepsOK
<1>3. SentRefreshToken(n)' => SentRefreshToken(n) /\ value # prev[n]
  BY <1>1 DEF SentRefreshToken, MayRefresh, RInv, RefreshOK, Dropped, Refused
<1>4. Dropped(n)' /\ StillStored(n)' /\ StillRead(n)'
  BY <1>1, <1>3 DEF Dropped, StillStored, StillRead, SV!Ordered
<1> QED
  BY <1>1, <1>2, <1>4, ProviderOthers

LEMMA FailStep ==
    ASSUME RInv, NEW n \in Tokens, ResolveFails(n)
    PROVE  RefreshOK'
<1>1. /\ phase[n] = "pending" /\ phase' = [phase EXCEPT ![n] = "rejected"]
      /\ step' = [step EXCEPT ![n] = "none"]
      /\ SV!Ordered => step[n] = "acquiring"
      /\ UNCHANGED <<store, value, unstorable, prev, pc, captured, own, ahead, refreshable>>
  BY DEF ResolveFails, SV!ResolverThrows
<1>2. /\ phase'[n] = "rejected" /\ step'[n] = "none"
      /\ \A k \in Tokens \ {n} : phase'[k] = phase[k] /\ step'[k] = step[k]
  BY <1>1 DEF RInv, Flight, StepsOK
<1>3. SV!Ordered' <=> SV!Ordered
  BY <1>1 DEF SV!Ordered
<1>4. SV!Ordered /\ SentRefreshToken(n)' => SentRefreshToken(n) /\ value # prev[n]
  BY <1>1 DEF SentRefreshToken, MayRefresh, RInv, RefreshOK, Dropped, Refused
<1>5. n \notin unstorable
  BY <1>1 DEF RInv, Flight
<1>6. SV!Ordered /\ SentRefreshToken(n) => \A c \in Callers : pc[c] = "read" => captured[c] # prev[n]
  BY <1>1, <1>5 DEF RInv, RefreshOK, StillRead, Replaced, Overwritten
<1>7. Dropped(n)' /\ StillStored(n)' /\ StillRead(n)'
  BY <1>1, <1>2, <1>3, <1>4, <1>6 DEF Dropped, Refused, StillStored, StillRead
<1> QED
  BY <1>1, <1>2, <1>7, ProviderOthers

-----------------------------------------------------------------------------
LEMMA RefreshStep == RInv /\ [Next]_vars => RefreshOK'
<1> SUFFICES ASSUME RInv, [Next]_vars PROVE RefreshOK'
  OBVIOUS
<1>1. ASSUME NEW c \in Clients, NEW f \in BOOLEAN, GetToken(c, f) PROVE RefreshOK'
  <2>1. Steady /\ SV!Call(c, f) /\ c \in Callers
    BY <1>1 DEF GetToken, SV!Call, Steady, Callers
  <2> QED
    BY <2>1, CallStep
<1>2. ASSUME NEW c \in Callers, Progress(c) PROVE RefreshOK'
  <2>1. CASE SV!StoreReads(c) /\ UNCHANGED session
    BY <2>1, AccessorMoves DEF SV!StoreReads, session, Steady
  <2>2. CASE (SV!GetterFails(c) \/ SV!ReturnCached(c) \/ SV!Join(c)) /\ UNCHANGED session
    BY <2>2, AccessorMoves DEF SV!GetterFails, SV!ReturnCached, SV!Join, session, Steady
  <2>3. CASE SV!ValueStored(c) /\ UNCHANGED session
    BY <2>3, StoreStep DEF SV!ValueStored, session, Steady
  <2>4. CASE (SV!SetterFails(c) \/ SV!Finish(c)) /\ UNCHANGED session
    BY <2>4, AccessorMoves DEF SV!SetterFails, SV!Finish, session, Steady
  <2>5. CASE (SV!LeaderFails(c) \/ SV!JoinerReturns(c)) /\ UNCHANGED session
    BY <2>5, AccessorMoves DEF SV!LeaderFails, SV!JoinerReturns, session, Steady
  <2>6. CASE StartRefresh(c) \/ StartAcquire(c)
    BY <2>6, StartStep
  <2>7. CASE StoreToken(c)
    <3>1. CASE SV!StoreValue(c)
      BY <2>7, <3>1, StoreStep DEF StoreToken, SV!StoreValue, Steady
    <3>2. CASE SV!StartStoring(c) \/ SV!StoreThrows(c)
      BY <2>7, <3>2, AccessorMoves DEF StoreToken, SV!StartStoring, SV!StoreThrows, Steady
    <3> QED
      BY <2>7, <3>1, <3>2 DEF StoreToken
  <2>8. CASE TokenStored(c)
    BY <2>8, AccessorMoves DEF TokenStored, SV!SetterReplied, Steady
  <2> QED
    BY <1>2, <2>1, <2>2, <2>3, <2>4, <2>5, <2>6, <2>7, <2>8 DEF Progress, AccessorStep
<1>3. ASSUME NEW k \in Tokens, ProviderStep(k) PROVE RefreshOK'
  BY <1>3, ReceiveStep, DropStep, FallBackStep, FailStep DEF ProviderStep
<1>4. ASSUME NEW t \in Tokens, TimerFires(t) PROVE RefreshOK'
  <2>1. CASE tokenUsed
    <3>1. Steady /\ SV!Call(Timer, TRUE) /\ Timer \in Callers
      BY <1>4, <2>1 DEF TimerFires, SV!Call, Steady, Callers
    <3> QED
      BY <3>1, CallStep
  <2>2. CASE ~tokenUsed
    BY <1>4, <2>2, IdleStep DEF TimerFires, accessor, Steady
  <2> QED
    BY <2>1, <2>2
<1>5. ASSUME NEW t \in Tokens, Expire(t) PROVE RefreshOK'
  BY <1>5, IdleStep DEF Expire, SV!Expire, session, Steady
<1>6. ASSUME NEW c \in Clients, DeleteToken(c) PROVE RefreshOK'
  BY <1>6, IdleStep DEF DeleteToken, SV!Reset, session, Steady
<1>7. ASSUME Exhausted \/ UNCHANGED vars PROVE RefreshOK'
  BY <1>7, IdleStep DEF Exhausted, SV!Exhausted, SV!vars, vars, accessor, session, Steady
<1> QED
  BY <1>1, <1>2, <1>3, <1>4, <1>5, <1>6, <1>7 DEF Next

LEMMA RefreshInvariant == Spec => []RInv
<1>1. Init => TokensReceived /\ RefreshOK
  BY DEF Init, SV!Init, TokensReceived, Received, RefreshOK, Dropped, StillStored, StillRead,
     RefreshTokenSentOnce, SentRefreshToken
<1>2. SVP!IInv => Flight
  BY FlightHolds
<1>3. SInv => StepsOK
  BY DEF SInv
<1>4. Flight /\ StepsOK /\ TokensReceived /\ RefreshOK /\ [Next]_vars
        => TokensReceived' /\ RefreshOK'
  BY ReceivedStep, RefreshStep DEF RInv
<1>5. Flight /\ TokensReceived /\ StepsOK /\ RefreshOK => RInv
  BY DEF RInv
<1> QED
  BY <1>1, <1>2, <1>3, <1>4, <1>5, AccessorInvariant, SessionInvariant, PTL DEF Spec

(* Over the in-memory store, a refresh token is sent to the token endpoint again *)
(* only if it was answered with a token the store threw on, whatever the       *)
(* clients, the timer, the listeners and the deletions do meanwhile.           *)
THEOREM SentOnce == Spec => []RefreshTokenSentOnce
<1>1. RInv => RefreshTokenSentOnce
  BY DEF RInv, RefreshOK
<1> QED
  BY <1>1, RefreshInvariant, PTL

(* A token whose refresh was refused never comes back to the store.             *)
THEOREM RefusedIsGone == Spec => []RefusedTokenIsGone
<1>1. RInv => RefusedTokenIsGone
  BY DEF RInv, RefreshOK, Dropped, Refused, RefusedTokenIsGone
<1> QED
  BY <1>1, RefreshInvariant, PTL
=============================================================================
