-------------------- MODULE SynchronizedAsyncValueProofs --------------------
(***************************************************************************)
(* What SynchronizedAsyncValue guarantees for every set of callers, every  *)
(* bound and every kind of store.                                          *)
(***************************************************************************)
EXTENDS SynchronizedAsyncValue, TLAPS

(* A caller that leads or joined refers to an invocation; nobody else does. *)
FramesOK ==
    \A c \in Callers :
        /\ Leads(c) \/ pc[c] = "joined" => own[c] \in 1 .. calls
        /\ pc[c] \notin {"read", "stored", "throwing"} => ahead[c] = {}

(* Invocations are numbered in order, and only the newest can be under way. *)
(* It is pending at most until its leader resumes.                          *)
PhasesOK ==
    /\ resolverCall \in {0, calls}
    /\ \A k \in Invocations : k > calls => phase[k] = "unused"
    /\ \A k \in Invocations :
          phase[k] = "pending" => \E c \in Callers : pc[c] = "leading" /\ own[c] = k
    /\ \A c \in Callers :
          pc[c] \in {"storing", "stored", "set", "throwing"} => phase[own[c]] = "resolved"
    /\ \A c \in Callers : pc[c] = "throwing" => own[c] \in unstorable
    /\ \A k \in unstorable : phase[k] = "resolved"
    /\ value <= calls

IInv == TypeOK /\ FlightHasOneLeader /\ FramesOK /\ PhasesOK

USE BoundAssumption DEF Invocations, Values

(* Every step of the class preserves the types of its variables.            *)
LEMMA TypeStep == TypeOK /\ [Next]_vars => TypeOK'
<1> SUFFICES ASSUME TypeOK, [Next]_vars PROVE TypeOK'
  OBVIOUS
<1> USE DEF TypeOK, Phases, Points
<1>1. ASSUME NEW c \in Callers, NEW f \in BOOLEAN, Call(c, f) PROVE TypeOK'
  BY <1>1 DEF Call, Queue, AwaitingStore
<1>2. ASSUME NEW c \in Callers, StoreReads(c) PROVE TypeOK'
  BY <1>2 DEF StoreReads
<1>3. ASSUME NEW c \in Callers, GetterFails(c) PROVE TypeOK'
  BY <1>3 DEF GetterFails, Settle, Forget
<1>4. ASSUME NEW c \in Callers, ReturnCached(c) PROVE TypeOK'
  BY <1>4 DEF ReturnCached, Settle, Forget
<1>5. ASSUME NEW c \in Callers, Join(c) PROVE TypeOK'
  BY <1>5 DEF Join, Settle, Forget
<1>6. ASSUME NEW c \in Callers, Resolve(c) PROVE TypeOK'
  BY <1>6 DEF Resolve, Settle, Forget
<1>7. ASSUME NEW c \in Callers, StoreValue(c) PROVE TypeOK'
  BY <1>7 DEF StoreValue, Queue, AwaitingStore, Write
<1>8. ASSUME NEW c \in Callers, StartStoring(c) PROVE TypeOK'
  BY <1>8 DEF StartStoring
<1>8a. ASSUME NEW c \in Callers, StoreThrows(c) PROVE TypeOK'
  BY <1>8a DEF StoreThrows, Queue, AwaitingStore
<1>9. ASSUME NEW c \in Callers, ValueStored(c) PROVE TypeOK'
  BY <1>9 DEF ValueStored, Write
<1>10. ASSUME NEW c \in Callers, SetterReplied(c) PROVE TypeOK'
  BY <1>10 DEF SetterReplied, Settle
<1>11. ASSUME NEW c \in Callers, SetterFails(c) PROVE TypeOK'
  BY <1>11 DEF SetterFails, Settle, Release
<1>12. ASSUME NEW c \in Callers, Finish(c) PROVE TypeOK'
  BY <1>12 DEF Finish, Release
<1>13. ASSUME NEW c \in Callers, LeaderFails(c) PROVE TypeOK'
  BY <1>13 DEF LeaderFails, Release
<1>14. ASSUME NEW c \in Callers, JoinerReturns(c) PROVE TypeOK'
  BY <1>14 DEF JoinerReturns
<1>15. ASSUME NEW k \in Invocations, ResolverSettles(k) \/ Expire(k) PROVE TypeOK'
  BY <1>15 DEF ResolverSettles, ResolverReturns, ResolverThrows, Expire
<1>16. CASE Reset
  BY <1>16 DEF Reset
<1>17. CASE UNCHANGED vars \/ Exhausted
  BY <1>17 DEF vars, Exhausted
<1> QED
  BY <1>1, <1>2, <1>3, <1>4, <1>5, <1>6, <1>7, <1>9, <1>8, <1>8a, <1>10, <1>11, <1>12,
     <1>13, <1>14, <1>15, <1>16, <1>17 DEF Next, Progress

(* The variables keep their types: in particular the count of invocations     *)
(* stays within its bound.                                                  *)
THEOREM TypeCorrect == Spec => []TypeOK
<1>1. Init => TypeOK
  BY DEF Init, TypeOK, Phases, Points
<1> QED
  BY <1>1, TypeStep, PTL DEF Spec

(* Every step preserves the inductive invariant.                            *)
LEMMA FlightStep == IInv /\ [Next]_vars => IInv'
<1> SUFFICES ASSUME IInv, [Next]_vars PROVE IInv'
  OBVIOUS
<1> USE DEF IInv
<1>0. TypeOK'
  BY TypeStep
<1> DEFINE Rest == FlightHasOneLeader /\ FramesOK /\ PhasesOK
<1> USE DEF TypeOK, Phases, Points, FlightHasOneLeader, FramesOK, PhasesOK, Leads
<1>1. ASSUME NEW c \in Callers, NEW f \in BOOLEAN, Call(c, f) PROVE Rest'
  BY <1>1 DEF Call, Queue, AwaitingStore
<1>2. ASSUME NEW c \in Callers, StoreReads(c) PROVE Rest'
  BY <1>2 DEF StoreReads
<1>3. ASSUME NEW c \in Callers, GetterFails(c) PROVE Rest'
  BY <1>3 DEF GetterFails, Settle
<1>4. ASSUME NEW c \in Callers, ReturnCached(c) PROVE Rest'
  BY <1>4 DEF ReturnCached, Settle
<1>5. ASSUME NEW c \in Callers, Join(c) PROVE Rest'
  <2> USE DEF Join, Settle, NoFlight
  <2>1. FlightHasOneLeader'
    BY <1>5
  <2>2. FramesOK'
    BY <1>5
  <2>3. PhasesOK'
    BY <1>5
  <2> QED
    BY <2>1, <2>2, <2>3
<1>6. ASSUME NEW c \in Callers, Resolve(c) PROVE Rest'
  <2> USE DEF Resolve, Settle, NoFlight
  <2>1. \A d \in Callers : ~Leads(d) /\ (Leads(d)' <=> d = c)
    BY <1>6
  <2>2. FlightHasOneLeader'
    BY <1>6, <2>1
  <2>3. FramesOK'
    BY <1>6
  <2>4. PhasesOK'
    BY <1>6
  <2> QED
    BY <2>2, <2>3, <2>4
<1>7. ASSUME NEW c \in Callers, StoreValue(c) PROVE Rest'
  BY <1>7 DEF StoreValue, Queue, AwaitingStore, Write
<1>8. ASSUME NEW c \in Callers, StartStoring(c) PROVE Rest'
  BY <1>8 DEF StartStoring
<1>8a. ASSUME NEW c \in Callers, StoreThrows(c) PROVE Rest'
  BY <1>8a DEF StoreThrows, Queue, AwaitingStore
<1>9. ASSUME NEW c \in Callers, ValueStored(c) PROVE Rest'
  BY <1>9 DEF ValueStored, Write
<1>10. ASSUME NEW c \in Callers, SetterReplied(c) PROVE Rest'
  BY <1>10 DEF SetterReplied, Settle
<1>11. ASSUME NEW c \in Callers, SetterFails(c) PROVE Rest'
  BY <1>11 DEF SetterFails, Settle, Release
<1>12. ASSUME NEW c \in Callers, Finish(c) PROVE Rest'
  BY <1>12 DEF Finish, Release
<1>13. ASSUME NEW c \in Callers, LeaderFails(c) PROVE Rest'
  BY <1>13 DEF LeaderFails, Release
<1>14. ASSUME NEW c \in Callers, JoinerReturns(c) PROVE Rest'
  BY <1>14 DEF JoinerReturns
<1>15. ASSUME NEW k \in Invocations, NEW u \in BOOLEAN, ResolverReturns(k, u) PROVE Rest'
  BY <1>15 DEF ResolverReturns
<1>16. ASSUME NEW k \in Invocations, ResolverThrows(k) PROVE Rest'
  BY <1>16 DEF ResolverThrows
<1>17. ASSUME NEW k \in Invocations, Expire(k) PROVE Rest'
  BY <1>17 DEF Expire
<1>18. ASSUME Reset PROVE Rest'
  BY <1>18 DEF Reset
<1>19. ASSUME UNCHANGED vars PROVE Rest'
  BY <1>19 DEF vars
<1>19a. ASSUME Exhausted PROVE Rest'
  BY <1>19, <1>19a DEF Exhausted
<1> HIDE DEF Rest, TypeOK, FlightHasOneLeader, FramesOK, PhasesOK
<1>20. Rest'
  BY <1>1, <1>2, <1>3, <1>4, <1>5, <1>6, <1>7, <1>8, <1>8a, <1>9, <1>10, <1>11, <1>12,
     <1>13, <1>14, <1>15, <1>16, <1>17, <1>18, <1>19, <1>19a DEF Next, Progress, ResolverSettles
<1> QED
  BY <1>0, <1>20 DEF Rest

(* The store stays the one it is.                                           *)
LEMMA StoreStep == [Next]_vars => (Ordered' <=> Ordered)
<1>1. [Next]_vars => store' = store
  BY DEF Next, Progress, ResolverSettles, Call, StoreReads, GetterFails,
     ReturnCached, Join, Resolve, StoreValue, StoreThrows, StartStoring, ValueStored,
     SetterReplied, SetterFails, Finish, LeaderFails, JoinerReturns,
     ResolverReturns, ResolverThrows, Expire, Reset, Exhausted, vars
<1> QED
  BY <1>1 DEF Ordered

LEMMA FlightInvariant == Spec => []IInv
<1>1. Init => IInv
  BY DEF Init, IInv, TypeOK, Phases, Points, FlightHasOneLeader, FramesOK,
         PhasesOK, Leads
<1> QED
  BY <1>1, FlightStep, PTL DEF Spec

(* this.resolverCall is owned by exactly one caller while it is set.        *)
THEOREM FlightOwned == Spec => []FlightHasOneLeader
<1>1. IInv => FlightHasOneLeader
  BY DEF IInv
<1> QED
  BY <1>1, FlightInvariant, PTL

(* Two invocations of the resolver are never pending together.              *)
THEOREM OneFlight == Spec => []SingleFlight
<1>1. IInv => SingleFlight
  BY DEF IInv, SingleFlight, PhasesOK, FlightHasOneLeader, Leads
<1> QED
  BY <1>1, FlightInvariant, PTL

(* Whatever the store, the setter only ever brings a newer value.           *)
THEOREM StoreForward == Spec => StoreMovesForward
<1> DEFINE Forward == value' \notin {value, 0} =>
              \A k \in Invocations : phase[k] = "resolved" => k <= value'
<1>1. IInv /\ [Next]_vars => [Forward]_vars
  <2> SUFFICES ASSUME IInv, [Next]_vars PROVE Forward
    OBVIOUS
  <2>1. value' = value \/ value' = 0 \/ value' = calls
    <3>1. ASSUME NEW c \in Callers, StoreValue(c) \/ ValueStored(c) PROVE value' = calls
      BY <3>1 DEF StoreValue, ValueStored, Write, IInv, FlightHasOneLeader,
                  FramesOK, PhasesOK, Leads
    <3> QED
      BY <3>1 DEF Next, Progress, ResolverSettles, Call, StoreReads, GetterFails,
         ReturnCached, Join, Resolve, StoreThrows, StartStoring, SetterReplied, SetterFails, Finish,
         LeaderFails, JoinerReturns, ResolverReturns, ResolverThrows, Expire, Reset,
         Exhausted, vars
  <2> QED
    BY <2>1 DEF IInv, PhasesOK, TypeOK
<1> QED
  BY <1>1, FlightInvariant, PTL DEF Spec, StoreMovesForward

-----------------------------------------------------------------------------
(* Where the store is ordered, a caller about to act on a value that is no    *)
(* longer the one stored acts before the leader that replaced it finishes.   *)
ReadsOK ==
    \A c \in Callers :
        pc[c] = "read" /\ value # 0 /\ captured[c] # value =>
            \E d \in Callers : pc[d] = "stored" /\ c \in ahead[d]

LEMMA ReadsStep == Ordered /\ IInv /\ ReadsOK /\ [Next]_vars => ReadsOK'
<1> SUFFICES ASSUME Ordered, IInv, ReadsOK, [Next]_vars PROVE ReadsOK'
  OBVIOUS
<1> USE DEF IInv, TypeOK, ReadsOK
<1>1. ASSUME NEW c \in Callers, NEW f \in BOOLEAN, Call(c, f) PROVE ReadsOK'
  BY <1>1 DEF Call, Queue
<1>2. ASSUME NEW c \in Callers, StoreReads(c) PROVE ReadsOK'
  BY <1>2 DEF StoreReads, FramesOK
<1>3. ASSUME NEW c \in Callers, GetterFails(c) PROVE ReadsOK'
  BY <1>3 DEF GetterFails, Settle, Forget
<1>4. ASSUME NEW c \in Callers, ReturnCached(c) PROVE ReadsOK'
  BY <1>4 DEF ReturnCached, Settle, Forget
<1>5. ASSUME NEW c \in Callers, Join(c) PROVE ReadsOK'
  BY <1>5 DEF Join, Settle, Forget
<1>6. ASSUME NEW c \in Callers, Resolve(c) PROVE ReadsOK'
  BY <1>6 DEF Resolve, Settle, Forget
<1>7. ASSUME NEW c \in Callers, StoreValue(c) PROVE ReadsOK'
  BY <1>7 DEF StoreValue, Queue, AwaitingStore, Write
<1>8. ASSUME NEW c \in Callers, StartStoring(c) PROVE ReadsOK'
  BY <1>8 DEF StartStoring
<1>8a. ASSUME NEW c \in Callers, StoreThrows(c) PROVE ReadsOK'
  BY <1>8a DEF StoreThrows, Queue, AwaitingStore
<1>9. ASSUME NEW c \in Callers, ValueStored(c) PROVE ReadsOK'
  BY <1>9 DEF ValueStored, Write
<1>10. ASSUME NEW c \in Callers, SetterReplied(c) PROVE ReadsOK'
  BY <1>10 DEF SetterReplied, Settle
<1>11. ASSUME NEW c \in Callers, SetterFails(c) PROVE ReadsOK'
  BY <1>11 DEF SetterFails, Settle
<1>12. ASSUME NEW c \in Callers, Finish(c) PROVE ReadsOK'
  BY <1>12 DEF Finish
<1>13. ASSUME NEW c \in Callers, LeaderFails(c) PROVE ReadsOK'
  BY <1>13 DEF LeaderFails
<1>14. ASSUME NEW c \in Callers, JoinerReturns(c) PROVE ReadsOK'
  BY <1>14 DEF JoinerReturns
<1>15. ASSUME NEW k \in Invocations, ResolverSettles(k) \/ Expire(k) PROVE ReadsOK'
  BY <1>15 DEF ResolverSettles, ResolverReturns, ResolverThrows, Expire
<1>16. ASSUME Reset PROVE ReadsOK'
  BY <1>16 DEF Reset
<1>17. ASSUME UNCHANGED vars \/ Exhausted PROVE ReadsOK'
  BY <1>17 DEF vars, Exhausted
<1> HIDE DEF IInv, TypeOK, ReadsOK
<1> QED
  BY <1>1, <1>2, <1>3, <1>4, <1>5, <1>6, <1>7, <1>8, <1>8a, <1>9, <1>10, <1>11, <1>12,
     <1>13, <1>14, <1>15, <1>16, <1>17 DEF Next, Progress

(* With an ordered store, the documented promise: without forceResolve, no    *)
(* resolution while the store holds a value the validator accepts.          *)
THEOREM NoRedundant == Spec => NoRedundantResolve
<1> DEFINE Inv == Ordered => ReadsOK
<1>1. Init => Inv
  BY DEF Init, ReadsOK
<1>2. IInv /\ Inv => (Ordered => \A c \in Callers :
                         Resolve(c) /\ ~force[c] => ~Valid(value))
  BY DEF IInv, ReadsOK, FlightHasOneLeader, Leads, Resolve, NoFlight, NeedsResolve,
         Valid, FramesOK
<1>3. [](IInv /\ Inv) => NoRedundantResolve
  BY <1>2, PTL DEF NoRedundantResolve
<1>4. IInv /\ Inv /\ [Next]_vars => Inv'
  BY ReadsStep, StoreStep
<1> QED
  BY <1>1, <1>3, <1>4, FlightInvariant, PTL DEF Spec

-----------------------------------------------------------------------------
(* Where the store is ordered, the value held, a value                       *)
(* about to be returned and an invocation about to be shared are all at     *)
(* least as new as what the callers concerned have already been given.       *)
StoreUpToDate ==
    value # 0 => \A c \in Callers :
        /\ result[c] <= value \/ result[c] \in unstorable
        /\ pc[c] = "read" => captured[c] <= value

FramesUpToDate ==
    \A c \in Callers :
        /\ pc[c] \notin {"getting", "storing"}
        /\ result[c] <= calls /\ captured[c] <= calls
        /\ pc[c] = "read" /\ captured[c] # 0 =>
              result[c] <= captured[c] \/ result[c] \in unstorable
        /\ Leads(c) \/ pc[c] = "joined" => result[c] <= own[c]
        /\ pc[c] \in {"stored", "set"} => value \in {0, own[c]}

JoinersUpToDate ==
    \A c \in Callers :
        /\ pc[c] = "joined" /\ phase[own[c]] = "resolved" /\ value # 0
        /\ \A d \in Callers : pc[d] = "leading" => own[d] # own[c]
        => own[c] <= value \/ own[c] \in unstorable

ResultsOK == StoreUpToDate /\ FramesUpToDate /\ JoinersUpToDate

LEMMA ResultsStep ==
    Ordered /\ IInv /\ ResultsOK /\ [Next]_vars => ResultsOK'
<1> SUFFICES ASSUME Ordered, IInv, ResultsOK, [Next]_vars
             PROVE  ResultsOK'
  OBVIOUS
<1> USE DEF IInv, TypeOK, ResultsOK, StoreUpToDate, FramesUpToDate, JoinersUpToDate,
            Leads, FlightHasOneLeader, FramesOK, PhasesOK
<1>1. ASSUME NEW c \in Callers, NEW f \in BOOLEAN, Call(c, f) PROVE ResultsOK'
  BY <1>1 DEF Call, Queue
<1>2. ASSUME NEW c \in Callers, StoreReads(c) PROVE ResultsOK'
  BY <1>2 DEF StoreReads
<1>3. ASSUME NEW c \in Callers, GetterFails(c) PROVE ResultsOK'
  BY <1>3 DEF GetterFails
<1>4. ASSUME NEW c \in Callers, ReturnCached(c) PROVE ResultsOK'
  <2> USE DEF ReturnCached, NeedsResolve, Valid, Settle, Forget
  <2>1. StoreUpToDate'
    BY <1>4
  <2>2. FramesUpToDate' /\ JoinersUpToDate'
    BY <1>4
  <2> QED
    BY <2>1, <2>2
<1>5. ASSUME NEW c \in Callers, Join(c) PROVE ResultsOK'
  <2> USE DEF Join, NoFlight, Settle, Forget
  <2>1. StoreUpToDate' /\ FramesUpToDate'
    BY <1>5
  <2>2. JoinersUpToDate'
    <3> SUFFICES ASSUME NEW e \in Callers,
                        pc'[e] = "joined", phase'[own'[e]] = "resolved", value' # 0,
                        \A d \in Callers : pc'[d] = "leading" => own'[d] # own'[e]
                 PROVE  own'[e] <= value' \/ own'[e] \in unstorable'
      OBVIOUS
    <3>1. ASSUME NEW d \in Callers, pc[d] = "leading" PROVE own[d] # own'[e]
      <4>1. pc'[d] = "leading" /\ own'[d] = own[d]
        BY <1>5, <3>1
      <4>2. pc'[d] = "leading" => own'[d] # own'[e]
        OBVIOUS
      <4> QED
        BY <4>1, <4>2, Zenon
    <3>2. CASE e = c
      BY <1>5, <3>1, <3>2
    <3>3. CASE e # c
      BY <1>5, <3>1, <3>3
    <3> QED
      BY <3>2, <3>3
  <2> QED
    BY <2>1, <2>2
<1>6. ASSUME NEW c \in Callers, Resolve(c) PROVE ResultsOK'
  <2> USE DEF Resolve, NoFlight, Settle, Forget
  <2>1. \A d \in Callers : ~Leads(d)
    BY <1>6
  <2>2. StoreUpToDate' /\ FramesUpToDate'
    BY <1>6
  <2>3. JoinersUpToDate'
    BY <1>6, <2>1
  <2> QED
    BY <2>2, <2>3
<1>7. ASSUME NEW c \in Callers, StoreValue(c) PROVE ResultsOK'
  BY <1>7 DEF StoreValue, Write, Queue
<1>8. ASSUME NEW c \in Callers, StartStoring(c) PROVE ResultsOK'
  BY <1>8 DEF StartStoring
<1>8a. ASSUME NEW c \in Callers, StoreThrows(c) PROVE ResultsOK'
  BY <1>8a DEF StoreThrows, Queue, AwaitingStore
<1>9. ASSUME NEW c \in Callers, ValueStored(c) PROVE ResultsOK'
  BY <1>9 DEF ValueStored
<1>10. ASSUME NEW c \in Callers, SetterReplied(c) PROVE ResultsOK'
  BY <1>10 DEF SetterReplied, Settle
<1>11. ASSUME NEW c \in Callers, SetterFails(c) PROVE ResultsOK'
  BY <1>11 DEF SetterFails
<1>12. ASSUME NEW c \in Callers, Finish(c) PROVE ResultsOK'
  BY <1>12 DEF Finish, Release
<1>13. ASSUME NEW c \in Callers, LeaderFails(c) PROVE ResultsOK'
  BY <1>13 DEF LeaderFails, Release
<1>14. ASSUME NEW c \in Callers, JoinerReturns(c) PROVE ResultsOK'
  <2>1. /\ pc[c] = "joined" /\ pc' = [pc EXCEPT ![c] = "idle"]
        /\ own' = [own EXCEPT ![c] = 0]
        /\ UNCHANGED <<value, phase, unstorable, calls, captured>>
    BY <1>14 DEF JoinerReturns
  <2>2. \A d \in Callers \ {c} : pc'[d] = pc[d] /\ own'[d] = own[d]
    BY <2>1
  <2>3. pc'[c] = "idle" /\ own'[c] = 0
    BY <2>1
  <2>4. \/ result' = result
        \/ /\ result' = [result EXCEPT ![c] = own[c]]
           /\ own[c] <= calls
           /\ value # 0 => own[c] <= value \/ own[c] \in unstorable
    BY <1>14 DEF JoinerReturns
  <2>5. StoreUpToDate'
    BY <2>1, <2>2, <2>3, <2>4
  <2>6. FramesUpToDate'
    BY <2>1, <2>2, <2>3, <2>4
  <2>7. JoinersUpToDate'
    <3> SUFFICES ASSUME NEW e \in Callers,
                        pc'[e] = "joined", phase'[own'[e]] = "resolved", value' # 0,
                        \A d \in Callers : pc'[d] = "leading" => own'[d] # own'[e]
                 PROVE  own'[e] <= value' \/ own'[e] \in unstorable'
      OBVIOUS
    <3>1. e # c
      BY <2>3
    <3>2. ASSUME NEW d \in Callers, pc[d] = "leading" PROVE own[d] # own[e]
      <4>1. d # c
        BY <2>1, <3>2
      <4>2. pc'[d] = "leading" /\ own'[d] = own[d] /\ own'[e] = own[e]
        BY <2>2, <3>1, <3>2, <4>1
      <4>3. pc'[d] = "leading" => own'[d] # own'[e]
        OBVIOUS
      <4> QED
        BY <4>2, <4>3, Zenon
    <3> QED
      BY <2>1, <2>2, <3>1, <3>2
  <2> QED
    BY <2>5, <2>6, <2>7
<1>15. ASSUME NEW k \in Invocations, NEW u \in BOOLEAN, ResolverReturns(k, u) PROVE ResultsOK'
  BY <1>15 DEF ResolverReturns
<1>16. ASSUME NEW k \in Invocations, ResolverThrows(k) PROVE ResultsOK'
  BY <1>16 DEF ResolverThrows
<1>17. ASSUME NEW k \in Invocations, Expire(k) PROVE ResultsOK'
  BY <1>17 DEF Expire
<1>18. ASSUME Reset PROVE ResultsOK'
  BY <1>18 DEF Reset
<1>19. ASSUME UNCHANGED vars \/ Exhausted PROVE ResultsOK'
  BY <1>19 DEF vars, Exhausted
<1> HIDE DEF IInv, TypeOK, ResultsOK
<1> QED
  BY <1>1, <1>2, <1>3, <1>4, <1>5, <1>6, <1>7, <1>8, <1>8a, <1>9, <1>10, <1>11, <1>12,
     <1>13, <1>14, <1>15, <1>16, <1>17, <1>18, <1>19 DEF Next, Progress, ResolverSettles

(* With an ordered store, no caller sees values go back, but for those the    *)
(* store threw on.                                                         *)
THEOREM Monotonic == Spec => MonotonicReads
<1> DEFINE Forward == \A c \in Callers : result[c] \in unstorable \/ result'[c] >= result[c]
           Inv     == Ordered => ResultsOK
<1>1. Init => Inv
  BY DEF Init, ResultsOK, StoreUpToDate, FramesUpToDate, JoinersUpToDate, Leads
<1>2. IInv /\ Ordered /\ ResultsOK /\ [Next]_vars => Forward
  <2> SUFFICES ASSUME IInv, Ordered, ResultsOK, [Next]_vars PROVE Forward
    OBVIOUS
  <2>1. \/ result' = result
        \/ \E c \in Callers : ReturnCached(c) \/ Finish(c) \/ JoinerReturns(c)
    BY DEF Next, Progress, ResolverSettles, Call, StoreReads, GetterFails, Join,
       Resolve, StoreValue, StoreThrows, StartStoring, ValueStored, SetterReplied, SetterFails,
       LeaderFails, ResolverReturns, ResolverThrows, Expire, Reset, Exhausted, vars
  <2> USE DEF IInv, TypeOK, ResultsOK, FramesUpToDate
  <2>2. ASSUME NEW c \in Callers, ReturnCached(c) PROVE Forward
    BY <2>2 DEF ReturnCached, NeedsResolve, Valid
  <2>3. ASSUME NEW c \in Callers, Finish(c) PROVE Forward
    BY <2>3 DEF Finish, Leads
  <2>4. ASSUME NEW c \in Callers, JoinerReturns(c) PROVE Forward
    BY <2>4 DEF JoinerReturns
  <2>5. CASE result' = result
    BY <2>5
  <2> QED
    BY <2>1, <2>2, <2>3, <2>4, <2>5
<1>3. IInv /\ Inv /\ [Next]_vars => Inv'
  BY ResultsStep, StoreStep
<1>4. IInv /\ Inv /\ [Next]_vars => [Ordered => Forward]_vars
  BY <1>2
<1> QED
  BY <1>1, <1>3, <1>4, FlightInvariant, PTL DEF Spec, MonotonicReads
=============================================================================
