------------------------- MODULE RequestPluginProofs -------------------------
(***************************************************************************)
(* What the overridden methods and the hooked callback of a request do, for *)
(* any number of calls, of starts and of renewals.                          *)
(***************************************************************************)
EXTENDS RequestPlugin, SequenceTheorems, TLAPS

USE BoundAssumption

(* What a start, and the chain of a call, may be at.                           *)
States    == {"pending", "started", "failed"}
Reactions == {"waiting", "threw", "ran", "over"}

(* The types of the calls and of the starts.                                   *)
MethodsOK ==
    /\ calls \in 0 .. MaxCalls
    /\ startOf \in Seq(1 .. Len(starts)) /\ Len(startOf) = calls
    /\ start \in 0 .. Len(starts)
    /\ starts \in Seq(States)
    /\ reaction \in Seq(Reactions) /\ Len(reaction) = calls
    /\ forwarded \in Seq(1 .. calls)

(* The shared start is the last one, the only one that may be under way; when a  *)
(* start is made, the chains of the calls of the earlier ones are over.          *)
StartInv ==
    /\ start \in {0, Len(starts)}
    /\ \A g \in 1 .. Len(starts) : starts[g] = "pending" => g = start
    /\ \A m \in 1 .. calls : startOf[m] < Len(starts) => reaction[m] = "over"
    /\ \A m \in 1 .. calls : reaction[m] # "waiting" => starts[startOf[m]] # "pending"

(* Later calls wait for later starts, and of one start the calls react in order;  *)
(* a method that was forwarded has reacted.                                    *)
OrderInv ==
    /\ \A m, n \in 1 .. calls :
         n < m => /\ startOf[n] <= startOf[m]
                  /\ startOf[n] = startOf[m] /\ reaction[m] # "waiting" => reaction[n] # "waiting"
    /\ \A k \in 1 .. Len(forwarded) : reaction[forwarded[k]] # "waiting"

(* The inductive invariant of the calls.                                       *)
MethodInv == MethodsOK /\ StartInv /\ OrderInv /\ MethodsInOrder

(* What the elements of the sequences are.                                     *)
LEMMA Elements ==
    ASSUME MethodsOK
    PROVE  /\ calls \in Nat /\ Len(starts) \in Nat /\ Len(forwarded) \in Nat
           /\ \A m \in 1 .. calls : /\ startOf[m] \in 1 .. Len(starts)
                                    /\ starts[startOf[m]] \in States
                                    /\ reaction[m] \in Reactions
           /\ \A k \in 1 .. Len(forwarded) : forwarded[k] \in 1 .. calls
  BY DEF MethodsOK

(* A call waits for the start under way, or for one of its own.                 *)
LEMMA CallStep == MethodInv /\ CallMethod => MethodInv'
<1> SUFFICES ASSUME MethodInv, CallMethod PROVE MethodInv'
  OBVIOUS
<1> USE DEF MethodInv
<1>1. /\ calls' = calls + 1 /\ calls < MaxCalls /\ Drained
      /\ reaction' = Append(reaction, "waiting")
      /\ startOf' = Append(startOf, start')
      /\ forwarded' = forwarded
      /\ \/ start = 0 /\ starts' = Append(starts, "pending") /\ start' = Len(starts')
         \/ start # 0 /\ starts' = starts /\ start' = start
  BY DEF CallMethod
<1>2. /\ starts' \in Seq(States) /\ Len(starts') \in Nat /\ Len(starts) <= Len(starts')
      /\ start' \in 1 .. Len(starts') /\ start' = Len(starts')
      /\ \A g \in 1 .. Len(starts) : starts'[g] = starts[g]
      /\ \A g \in 1 .. Len(starts') : starts'[g] = "pending" => g = start'
  <2>1. /\ starts \in Seq(States) /\ Len(starts) \in Nat /\ start \in {0, Len(starts)}
        /\ \A g \in 1 .. Len(starts) : starts[g] = "pending" => g = start
    BY DEF MethodsOK, StartInv
  <2>2. CASE start = 0 /\ starts' = Append(starts, "pending") /\ start' = Len(starts')
    <3>1. /\ starts' \in Seq(States) /\ Len(starts') = Len(starts) + 1
          /\ \A g \in 1 .. Len(starts) : starts'[g] = starts[g]
      BY <2>1, <2>2 DEF States
    <3>2. ASSUME NEW g \in 1 .. Len(starts'), starts'[g] = "pending" PROVE g = Len(starts')
      <4>1. g \in 1 .. Len(starts) \/ g = Len(starts')
        BY <2>1, <3>1
      <4> QED
        BY <2>1, <2>2, <3>1, <3>2, <4>1
    <3> QED
      BY <2>1, <2>2, <3>1, <3>2
  <2>3. CASE start # 0 /\ starts' = starts /\ start' = start
    BY <2>1, <2>3
  <2> QED
    BY <1>1, <2>2, <2>3
<1>3. /\ Len(reaction') = calls' /\ reaction' \in Seq(Reactions)
      /\ reaction'[calls'] = "waiting"
      /\ \A m \in 1 .. calls : reaction'[m] = reaction[m]
  BY <1>1 DEF MethodsOK, Reactions
<1>4. /\ Len(startOf') = calls' /\ startOf'[calls'] = start'
      /\ \A m \in 1 .. calls : startOf'[m] = startOf[m]
      /\ startOf' \in Seq(1 .. Len(starts'))
  <2>1. 1 .. Len(starts) \subseteq 1 .. Len(starts')
    BY <1>2 DEF MethodsOK
  <2>2. startOf \in Seq(1 .. Len(starts')) /\ Len(startOf) = calls
    BY <2>1, SeqMonotonic DEF MethodsOK
  <2> QED
    BY <1>1, <1>2, <2>2
<1>6. forwarded' \in Seq(1 .. calls')
  <2>1. 1 .. calls \subseteq 1 .. calls'
    BY <1>1 DEF MethodsOK
  <2> QED
    BY <1>1, <2>1, SeqMonotonic DEF MethodsOK
<1>7. MethodsOK'
  BY <1>1, <1>2, <1>3, <1>4, <1>6 DEF MethodsOK
<1>8. \A m \in 1 .. calls' : m \in 1 .. calls \/ m = calls'
  BY <1>1 DEF MethodsOK
<1>9. StartInv'
  <2>1. ASSUME NEW m \in 1 .. calls, startOf[m] < Len(starts') PROVE reaction[m] = "over"
    <3>1. CASE start = 0
      <4>1. starts[startOf[m]] # "pending"
        BY <3>1, Elements DEF StartInv
      <4> QED
        BY <1>1, <4>1 DEF Drained
    <3>2. CASE start # 0
      BY <1>1, <2>1, <3>2 DEF StartInv
    <3> QED
      BY <3>1, <3>2
  <2>2. ASSUME NEW m \in 1 .. calls, reaction[m] # "waiting" PROVE starts'[startOf[m]] # "pending"
    BY <1>2, <2>2, Elements DEF StartInv
  <2>3. ASSUME NEW m \in 1 .. calls'
        PROVE  /\ startOf'[m] < Len(starts') => reaction'[m] = "over"
               /\ reaction'[m] # "waiting" => starts'[startOf'[m]] # "pending"
    <3>1. CASE m \in 1 .. calls
      BY <1>3, <1>4, <2>1, <2>2, <3>1
    <3>2. CASE m = calls'
      BY <1>2, <1>3, <1>4, <3>2
    <3> QED
      BY <1>8, <3>1, <3>2
  <2> QED
    BY <1>2, <2>3 DEF StartInv
<1>10. OrderInv'
  <2>1. ASSUME NEW m \in 1 .. calls', NEW n \in 1 .. calls', n < m
        PROVE  /\ startOf'[n] <= startOf'[m]
               /\ startOf'[n] = startOf'[m] /\ reaction'[m] # "waiting" => reaction'[n] # "waiting"
    <3>1. n \in 1 .. calls
      BY <1>1, <2>1 DEF MethodsOK
    <3>2. CASE m = calls'
      BY <1>2, <1>3, <1>4, <3>1, <3>2, Elements
    <3>3. CASE m \in 1 .. calls
      BY <1>3, <1>4, <2>1, <3>1, <3>3 DEF OrderInv
    <3> QED
      BY <1>8, <3>2, <3>3
  <2> QED
    BY <1>1, <1>3, <2>1, Elements DEF OrderInv
<1> QED
  BY <1>1, <1>7, <1>9, <1>10 DEF MethodsInOrder

(* The hooks of the start under way end.                                       *)
LEMMA EndStep ==
    ASSUME MethodInv, NEW g \in Calls, Pending(g), NEW how \in {"started", "failed"},
           EndStart(g, how), UNCHANGED <<calls, startOf, start, reaction, forwarded>>
    PROVE  MethodInv' /\ g = Len(starts) /\ Len(starts') = Len(starts) /\ starts'[g] = how
<1> USE DEF MethodInv
<1>1. g \in 1 .. Len(starts) /\ starts[g] = "pending" /\ how \in States
      /\ starts' = [starts EXCEPT ![g] = how]
  BY DEF Pending, EndStart, Calls, States, MethodsOK
<1>2. g = Len(starts)
  BY <1>1 DEF StartInv
<1>3. /\ starts' \in Seq(States) /\ Len(starts') = Len(starts) /\ starts'[g] = how
      /\ \A h \in 1 .. Len(starts) : h # g => starts'[h] = starts[h]
  BY <1>1, ExceptSeq DEF MethodsOK
<1>4. MethodsOK'
  BY <1>3 DEF MethodsOK
<1>5. StartInv'
  <2>1. ASSUME NEW h \in 1 .. Len(starts) PROVE starts'[h] = "pending" => starts[h] = "pending"
    BY <1>1, <1>3
  <2> QED
    BY <1>3, <2>1, Elements DEF StartInv
<1> QED
  BY <1>2, <1>3, <1>4, <1>5 DEF OrderInv, MethodsInOrder

(* One reaction of a call runs.                                                *)
LEMMA ReactionRuns ==
    ASSUME MethodInv, NEW m \in Calls, NEW step \in {"waiting", "threw", "ran"}, First(m, step),
           NEW r \in {"threw", "ran", "over"}, reaction' = [reaction EXCEPT ![m] = r],
           starts[startOf[m]] # "pending",
           UNCHANGED <<calls, startOf, starts>>,
           start' = start \/ (start' = 0 /\ step = "ran"),
           forwarded' = forwarded \/ (forwarded' = Append(forwarded, m) /\ step = "waiting")
    PROVE  MethodInv' /\ startOf[m] = Len(starts)
<1> USE DEF MethodInv
<1>1. m \in 1 .. calls /\ reaction[m] = step
      /\ \A n \in 1 .. m - 1 : startOf[n] = startOf[m] => reaction[n] # step
  BY DEF First, Calls, MethodsOK
<1>2. /\ reaction' \in Seq(Reactions) /\ Len(reaction') = calls /\ reaction'[m] = r
      /\ \A n \in 1 .. calls : n # m => reaction'[n] = reaction[n]
  BY <1>1, ExceptSeq DEF MethodsOK, Reactions
<1>3. startOf[m] = Len(starts) /\ \A g \in 1 .. Len(starts) : starts[g] # "pending" \/ g # Len(starts)
  BY <1>1, Elements DEF StartInv
<1>4. \A g \in 1 .. Len(starts) : starts[g] # "pending"
  BY <1>3 DEF StartInv, MethodsOK
<1>5. forwarded' \in Seq(1 .. calls)
  <2>1. forwarded \in Seq(1 .. calls)
    BY DEF MethodsOK
  <2>2. m \in 1 .. calls /\ Append(forwarded, m) \in Seq(1 .. calls)
    BY <1>1, <2>1, AppendProperties
  <2> QED
    BY <2>1, <2>2
<1>6. MethodsOK' /\ StartInv'
  BY <1>1, <1>2, <1>3, <1>4, <1>5 DEF MethodsOK, StartInv
<1>7. \A n \in 1 .. calls : reaction[n] # "waiting" => reaction'[n] # "waiting"
  BY <1>2
<1>8. ASSUME NEW n \in 1 .. calls, n < m, startOf[n] = startOf[m] PROVE reaction[n] # "waiting"
  <2>1. n \in 1 .. m - 1
    BY <1>1, <1>8, Elements
  <2> QED
    BY <1>1, <1>8, <2>1 DEF OrderInv
<1>9. ASSUME NEW k \in 1 .. Len(forwarded), step = "waiting" PROVE forwarded[k] < m
  <2>1. forwarded[k] \in 1 .. calls /\ reaction[forwarded[k]] # "waiting"
    BY Elements DEF OrderInv
  <2>2. CASE m < forwarded[k]
    <3>1. startOf[m] <= startOf[forwarded[k]] /\ startOf[forwarded[k]] <= Len(starts)
      BY <1>1, <2>1, <2>2, Elements DEF OrderInv
    <3>2. startOf[m] = startOf[forwarded[k]]
      BY <1>3, <2>1, <3>1, Elements
    <3> QED
      BY <1>1, <1>9, <2>1, <2>2, <3>2 DEF OrderInv
  <2> QED
    BY <1>1, <1>9, <2>1, <2>2 DEF MethodsOK
<1>10. OrderInv'
  <2>1. ASSUME NEW p \in 1 .. calls, NEW n \in 1 .. calls, n < p, startOf[n] = startOf[p],
               reaction'[p] # "waiting"
        PROVE  reaction'[n] # "waiting"
    <3>1. CASE p = m
      BY <1>7, <1>8, <2>1, <3>1
    <3>2. CASE p # m
      BY <1>2, <1>7, <2>1, <3>2 DEF OrderInv
    <3> QED
      BY <3>1, <3>2
  <2>2. ASSUME NEW k \in 1 .. Len(forwarded') PROVE reaction'[forwarded'[k]] # "waiting"
    <3>1. \/ k \in 1 .. Len(forwarded) /\ forwarded'[k] = forwarded[k]
          \/ forwarded'[k] = m
      <4>1. CASE forwarded' = forwarded
        BY <2>2, <4>1
      <4>2. CASE forwarded' = Append(forwarded, m)
        <5>1. forwarded \in Seq(1 .. calls) /\ Len(forwarded) \in Nat
          BY LenProperties DEF MethodsOK
        <5>2. /\ Len(forwarded') = Len(forwarded) + 1
              /\ \A i \in 1 .. Len(forwarded) : forwarded'[i] = forwarded[i]
              /\ forwarded'[Len(forwarded) + 1] = m
          BY <1>1, <4>2, <5>1, AppendProperties
        <5> QED
          BY <2>2, <5>1, <5>2
      <4> QED
        BY <4>1, <4>2
    <3>2. CASE k \in 1 .. Len(forwarded) /\ forwarded'[k] = forwarded[k]
      <4>1. forwarded[k] \in 1 .. calls /\ reaction[forwarded[k]] # "waiting"
        BY <1>2, <3>2, Elements DEF OrderInv
      <4> QED
        BY <1>7, <3>2, <4>1
    <3>3. CASE forwarded'[k] = m
      BY <1>2, <3>3
    <3> QED
      BY <3>1, <3>2, <3>3
  <2> QED
    BY <2>1, <2>2 DEF OrderInv
<1>11. MethodsInOrder'
  <2>1. CASE forwarded' = forwarded
    BY <2>1 DEF MethodsInOrder
  <2>2. CASE forwarded' = Append(forwarded, m) /\ step = "waiting"
    <3>1. /\ Len(forwarded') = Len(forwarded) + 1 /\ forwarded'[Len(forwarded) + 1] = m
          /\ \A k \in 1 .. Len(forwarded) : forwarded'[k] = forwarded[k]
          /\ Len(forwarded) \in Nat
      BY <1>1, <2>2 DEF MethodsOK
    <3>2. ASSUME NEW j \in 1 .. Len(forwarded'), NEW k \in 1 .. Len(forwarded'), j < k
          PROVE  forwarded'[j] < forwarded'[k]
      <4>1. j \in 1 .. Len(forwarded) /\ (k \in 1 .. Len(forwarded) \/ k = Len(forwarded) + 1)
        BY <3>1, <3>2
      <4> QED
        BY <1>9, <2>2, <3>1, <3>2, <4>1 DEF MethodsInOrder
    <3> QED
      BY <3>2 DEF MethodsInOrder
  <2> QED
    BY <2>1, <2>2
<1> QED
  BY <1>3, <1>6, <1>10, <1>11

(* Every step keeps the invariant of the calls: only a call, the end of a start   *)
(* and a reaction change them.                                                 *)
LEMMA MethodStep == MethodInv /\ [Next]_vars => MethodInv'
<1> SUFFICES ASSUME MethodInv, [Next]_vars PROVE MethodInv'
  OBVIOUS
<1>1. CASE CallMethod
  BY <1>1, CallStep
<1>2. ASSUME NEW g \in Calls, StartProgress(g) PROVE MethodInv'
  <2>1. PICK how \in {"started", "failed"} : EndStart(g, how)
    BY <1>2 DEF StartProgress, Pass, Inject, InjectFails
  <2>2. Pending(g) /\ UNCHANGED <<calls, startOf, start, reaction, forwarded>>
    BY <1>2 DEF StartProgress, Pass, Inject, InjectFails
  <2> QED
    BY <2>1, <2>2, EndStep
<1>3. ASSUME NEW m \in Calls, CallProgress(m) PROVE MethodInv'
  <2>1. starts[startOf[m]] # "pending"
    BY <1>3 DEF CallProgress, Forward, ForwardThrows, Started, EmitError, EmitThrown, Finally,
       First, MethodInv, StartInv, Calls
  <2>2. CASE Forward(m) \/ ForwardThrows(m)
    BY <2>1, <2>2, ReactionRuns DEF Forward, ForwardThrows
  <2>3. CASE EmitError(m) \/ EmitThrown(m) \/ Finally(m)
    BY <2>1, <2>3, ReactionRuns DEF EmitError, EmitThrown, Finally
  <2> QED
    BY <1>3, <2>2, <2>3 DEF CallProgress
<1>4. ASSUME UNCHANGED methods PROVE MethodInv'
  BY <1>4 DEF methods, MethodInv, MethodsOK, StartInv, OrderInv, MethodsInOrder
<1> QED
  BY <1>1, <1>2, <1>3, <1>4 DEF Next, Response, Respond, CallbackProgress, DeleteToken, KeepToken,
     OtherHook, OtherHookThrows, CallWithHookError, CallWithAnswer, Renew, Done, vars, methods

(* No call was made at first.                                                  *)
LEMMA MethodInit == Init => MethodInv
<1> SUFFICES ASSUME Init PROVE MethodInv
  OBVIOUS
<1>1. \A S : <<>> \in Seq(S) /\ Len(<<>>) = 0
  BY EmptySeq
<1>2. MethodsOK
  BY <1>1 DEF Init, MethodsOK
<1> QED
  BY <1>2 DEF Init, MethodInv, MethodsOK, StartInv, OrderInv, MethodsInOrder

(* So it holds in every state of a behaviour.                                  *)
LEMMA MethodInvariant == Spec => []MethodInv
  BY MethodInit, MethodStep, PTL DEF Spec

(* write and end reach the original methods in the order of the calls, for any    *)
(* number of calls and of starts they wait for, whichever of these fail.         *)
THEOREM RequestInOrder == Spec => []MethodsInOrder
<1>1. MethodInv => MethodsInOrder
  BY DEF MethodInv
<1> QED
  BY <1>1, MethodInvariant, PTL

-----------------------------------------------------------------------------
(* A start is under way.                                                       *)
Unsettled == \E g \in 1 .. Len(starts) : starts[g] = "pending"

(* A token is issued by a renewal or by a start, which issues one at most: so the *)
(* tokens stay within their bound.                                             *)
TokenInv ==
    /\ held \in Tokens /\ issued \in Nat /\ renewals \in 0 .. MaxRenewals
    /\ enabled \in BOOLEAN /\ header \in Tokens /\ token \in Tokens
    /\ sent \in Tokens \cup {NotSent}
    /\ Len(starts) <= calls
    /\ issued <= renewals + Len(starts)
    /\ Unsettled => issued < renewals + Len(starts)

(* A start that succeeded once the authenticator accepted the request has put a   *)
(* token in the header; the request left with the header of its only start.      *)
LeaveInv ==
    /\ sent = NotSent /\ enabled /\ Len(starts) > 0 /\ starts[Len(starts)] = "started" => header # 0
    /\ sent # NotSent => Len(starts) > 0
    /\ Len(starts) = 1 /\ sent # NotSent => starts[1] = "started" /\ header = sent
    /\ answer \in {"unauthorized", "response"} => sent # NotSent

(* The callback of the caller was called at most once by a hook that threw, and   *)
(* once at the end.                                                           *)
CallbackInv ==
    /\ answer \in {"none", "error", "unauthorized", "response"}
    /\ callback \in {"none", "authenticator", "other", "caught", "resolved", "over"}
    /\ callback \in {"none", "authenticator", "other", "caught"} => answers = 0
    /\ callback = "resolved" => answers \in {0, 1}
    /\ answer = "none" => callback = "none"
    /\ answers \in 0 .. 2

(* The inductive invariant.                                                    *)
RequestInv == MethodInv /\ TokenInv /\ LeaveInv /\ CallbackInv

(* A token that is issued now is within the bound of the tokens.                 *)
LEMMA TokenBounds ==
    ASSUME RequestInv
    PROVE  /\ Len(starts) \in Nat /\ Len(starts) <= MaxCalls /\ renewals <= MaxRenewals
           /\ issued \in Tokens /\ (Unsettled => issued + 1 \in Tokens)
           /\ (renewals < MaxRenewals => issued + 1 \in Tokens)
           /\ NotSent \notin Tokens /\ 0 \in Tokens
<1>1. /\ Len(starts) \in Nat /\ Len(starts) <= MaxCalls /\ renewals \in Nat /\ renewals <= MaxRenewals
      /\ issued \in Nat /\ issued <= renewals + Len(starts)
      /\ (Unsettled => issued < renewals + Len(starts))
  BY DEF RequestInv, MethodInv, MethodsOK, TokenInv
<1> QED
  BY <1>1 DEF Tokens, NotSent

(* Every step keeps the inductive invariant.                                   *)
LEMMA RequestStep == RequestInv /\ [Next]_vars => RequestInv'
<1> SUFFICES ASSUME RequestInv, [Next]_vars PROVE RequestInv'
  OBVIOUS
<1>0. MethodInv' /\ MethodInv /\ Len(starts) \in Nat
  BY MethodStep DEF RequestInv, MethodInv, MethodsOK
<1>1. CASE CallMethod
  <2>1. /\ UNCHANGED <<session, auth, sent, outcome>> /\ calls' = calls + 1 /\ calls \in Nat
        /\ \/ starts' = starts
           \/ starts' = Append(starts, "pending")
    BY <1>0, <1>1 DEF CallMethod, MethodInv, MethodsOK
  <2>2. CASE starts' = starts
    BY <1>0, <2>1, <2>2 DEF RequestInv, TokenInv, LeaveInv, CallbackInv, Unsettled, session, auth, outcome
  <2>3. CASE starts' = Append(starts, "pending")
    <3>1. Len(starts') = Len(starts) + 1 /\ starts'[Len(starts')] = "pending"
      BY <1>0, <2>3 DEF MethodInv, MethodsOK
    <3>2. TokenInv'
      BY <1>0, <2>1, <3>1 DEF RequestInv, TokenInv, session, auth
    <3>3. LeaveInv'
      BY <1>0, <2>1, <3>1 DEF RequestInv, LeaveInv, session, auth, outcome
    <3> QED
      BY <1>0, <2>1, <3>2, <3>3 DEF RequestInv, CallbackInv, outcome
  <2> QED
    BY <2>1, <2>2, <2>3
<1>2. ASSUME NEW g \in Calls, StartProgress(g) PROVE RequestInv'
  <2>1. PICK how \in {"started", "failed"} :
          /\ EndStart(g, how)
          /\ \/ ~enabled /\ UNCHANGED <<session, auth>>
             \/ /\ enabled' = TRUE
                /\ \E t \in {held, issued + 1} : Obtain(t) /\ header' = t /\ token' = t
             \/ how = "failed" /\ enabled' = TRUE /\ UNCHANGED <<session, header, token>>
    BY <1>2 DEF StartProgress, Pass, Inject, InjectFails
  <2>2. Pending(g) /\ UNCHANGED <<calls, startOf, start, reaction, forwarded, sent, outcome>>
    BY <1>2 DEF StartProgress, Pass, Inject, InjectFails
  <2>3. g = Len(starts) /\ Len(starts') = Len(starts) /\ starts'[g] = how
    BY <1>0, <2>1, <2>2, EndStep
  <2>4. Unsettled /\ ~Unsettled'
    BY <1>0, <2>2, <2>3 DEF Unsettled, Pending, MethodInv, MethodsOK, StartInv, Calls
  <2>5. /\ header' = header /\ token' = token /\ UNCHANGED session /\ (enabled' => how = "failed")
           /\ enabled' \in BOOLEAN
        \/ /\ enabled' = TRUE /\ header' # 0 /\ header' \in Tokens /\ token' \in Tokens
           /\ held' \in Tokens /\ renewals' = renewals
           /\ issued' \in {issued, issued + 1}
    <3>1. CASE ~enabled /\ UNCHANGED <<session, auth>>
      BY <3>1 DEF auth, RequestInv, TokenInv
    <3>2. CASE how = "failed" /\ enabled' = TRUE /\ UNCHANGED <<session, header, token>>
      BY <3>2
    <3>3. ASSUME NEW t \in {held, issued + 1}, enabled' = TRUE, Obtain(t), header' = t, token' = t
          PROVE  /\ enabled' = TRUE /\ header' # 0 /\ header' \in Tokens /\ token' \in Tokens
                 /\ held' \in Tokens /\ renewals' = renewals
                 /\ issued' \in {issued, issued + 1}
      <4>1. issued + 1 \in Tokens /\ issued + 1 # 0
        BY <2>4, TokenBounds DEF RequestInv, TokenInv
      <4> QED
        BY <3>3, <4>1 DEF Obtain, session, RequestInv, TokenInv
    <3> QED
      BY <2>1, <3>1, <3>2, <3>3
  <2>6. TokenInv'
    <3>1. /\ issued' \in {issued, issued + 1} /\ held' \in Tokens /\ renewals' = renewals
          /\ enabled' \in BOOLEAN /\ header' \in Tokens /\ token' \in Tokens
      BY <2>5 DEF RequestInv, TokenInv, session
    <3>2. issued < renewals + Len(starts) /\ issued \in Nat /\ renewals \in Nat
      BY <2>4 DEF RequestInv, TokenInv
    <3>3. issued' \in Nat /\ issued' <= renewals + Len(starts)
      BY <1>0, <3>1, <3>2
    <3> QED
      BY <2>2, <2>3, <2>4, <3>1, <3>3 DEF RequestInv, TokenInv
  <2>7. LeaveInv'
    <3>1. Len(starts) = 1 => sent = NotSent
      BY <2>2, <2>3 DEF RequestInv, LeaveInv, Pending
    <3>2. enabled' /\ how = "started" => header' # 0
      BY <2>5 DEF RequestInv, TokenInv
    <3> QED
      BY <1>0, <2>2, <2>3, <3>1, <3>2 DEF RequestInv, LeaveInv, outcome
  <2> QED
    BY <1>0, <2>2, <2>6, <2>7 DEF RequestInv, CallbackInv, outcome
<1>3. ASSUME NEW m \in Calls, CallProgress(m) PROVE RequestInv'
  <2>1. /\ UNCHANGED <<session, calls, starts, auth>>
        /\ \/ Started(startOf[m]) /\ sent' = (IF sent = NotSent THEN header ELSE sent) /\ UNCHANGED outcome
           \/ sent' = sent /\ (Callback("error") \/ UNCHANGED outcome)
    BY <1>3 DEF CallProgress, Forward, ForwardThrows, EmitError, EmitThrown, Finally
  <2>2. TokenInv'
    BY <2>1, TokenBounds DEF RequestInv, TokenInv, Unsettled, session, auth
  <2>3. m \in 1 .. calls
    BY <1>3 DEF CallProgress, Forward, ForwardThrows, EmitError, EmitThrown, Finally, First, Calls, RequestInv, MethodInv, MethodsOK
  <2>4. Len(starts) > 0 /\ startOf[m] \in 1 .. Len(starts)
    BY <1>0, <2>3, Elements DEF MethodInv
  <2>5. CallbackInv'
    BY <2>1 DEF RequestInv, CallbackInv, Callback, outcome
  <2>6. LeaveInv'
    BY <2>1, <2>4 DEF RequestInv, LeaveInv, Callback, outcome, auth, Started
  <2> QED
    BY <1>0, <2>2, <2>5, <2>6 DEF RequestInv
<1>4. CASE Response \/ CallbackProgress
  <2>1. UNCHANGED <<methods, enabled, header, sent, issued, renewals>>
    BY <1>4 DEF Response, Respond, CallbackProgress, DeleteToken, KeepToken,
       OtherHook, OtherHookThrows, CallWithHookError, CallWithAnswer, session, auth
  <2>2. held' \in Tokens /\ token' \in Tokens
    BY <1>4, TokenBounds DEF Response, Respond, CallbackProgress, DeleteToken, Drop, KeepToken,
       OtherHook, OtherHookThrows, CallWithHookError, CallWithAnswer, session, auth, RequestInv, TokenInv
  <2>3. TokenInv'
    BY <2>1, <2>2 DEF RequestInv, TokenInv, methods, Unsettled
  <2>4. answer' = answer \/ sent # NotSent
    BY <1>4 DEF Response, Respond, CallbackProgress, DeleteToken, KeepToken,
       OtherHook, OtherHookThrows, CallWithHookError, CallWithAnswer
  <2>5. LeaveInv'
    BY <2>1, <2>4 DEF RequestInv, LeaveInv, methods
  <2>6. CallbackInv'
    BY <1>4 DEF RequestInv, CallbackInv, Response, Respond, Callback, CallbackProgress, DeleteToken,
       KeepToken, OtherHook, OtherHookThrows, CallWithHookError, CallWithAnswer, outcome
  <2> QED
    BY <1>0, <2>3, <2>5, <2>6 DEF RequestInv
<1>5. CASE Renew
  <2>1. TokenInv'
    BY <1>0, <1>5, TokenBounds DEF Renew, RequestInv, TokenInv, methods, auth, Unsettled
  <2> QED
    BY <1>0, <1>5, <2>1 DEF Renew, RequestInv, LeaveInv, CallbackInv, methods, auth, outcome
<1>6. CASE UNCHANGED vars
  BY <1>0, <1>6 DEF vars, RequestInv, TokenInv, Unsettled, LeaveInv, CallbackInv
<1> QED
  BY <1>1, <1>2, <1>3, <1>4, <1>5, <1>6 DEF Next, Done

(* So it holds in every state of a behaviour.                                  *)
LEMMA RequestInvariant == Spec => []RequestInv
<1>1. Init => RequestInv
  <2> SUFFICES ASSUME Init PROVE RequestInv
    OBVIOUS
  <2>1. MethodInv /\ Len(starts) = 0
    BY MethodInit DEF Init
  <2>2. 0 \in Tokens /\ NotSent \notin Tokens
    BY DEF Tokens, NotSent
  <2>3. TokenInv
    <3>1. ~Unsettled
      BY <2>1 DEF Unsettled
    <3>2. calls = 0 /\ Len(starts) <= calls /\ issued = 0 /\ renewals = 0 /\ issued <= renewals + Len(starts)
      BY <2>1 DEF Init
    <3>3. enabled \in BOOLEAN
      BY DEF Init
    <3>4. /\ held \in Tokens /\ renewals \in 0 .. MaxRenewals /\ issued \in Nat
          /\ header \in Tokens /\ token \in Tokens /\ sent \in Tokens \cup {NotSent}
      BY <2>2 DEF Init
    <3> QED
      BY <3>1, <3>2, <3>3, <3>4 DEF TokenInv
  <2>4. LeaveInv
    BY <2>1 DEF Init, LeaveInv
  <2>5. CallbackInv
    BY DEF Init, CallbackInv
  <2> QED
    BY <2>1, <2>3, <2>4, <2>5 DEF RequestInv
<1> QED
  BY <1>1, RequestStep, PTL DEF Spec

(* Every variable keeps its type, for any number of calls and of renewals by      *)
(* others; the callback of the caller is called at most twice.                   *)
THEOREM RequestTypes == Spec => []TypeOK
<1>1. RequestInv => TypeOK
  BY TokenBounds DEF RequestInv, MethodInv, MethodsOK, TokenInv, CallbackInv, TypeOK, States, Reactions
<1> QED
  BY <1>1, RequestInvariant, PTL

(* A request that the authenticator accepted never leaves without a token, even    *)
(* after a start that failed.                                                  *)
THEOREM RequestTokenIsSent == Spec => TokenIsSent
<1>1. ASSUME RequestInv, [Next]_vars PROVE [sent' # sent /\ enabled => sent' # 0]_vars
  <2> SUFFICES ASSUME sent' # sent, enabled PROVE sent' # 0
    OBVIOUS
  <2>1. PICK m \in Calls : Forward(m) \/ ForwardThrows(m)
    BY <1>1 DEF Next, CallMethod, StartProgress, Pass, Inject, InjectFails, CallProgress, EmitError,
       EmitThrown, Finally, Response, Respond, CallbackProgress, DeleteToken, KeepToken, OtherHook,
       OtherHookThrows, CallWithHookError, CallWithAnswer, Renew, Done, vars
  <2>2. starts[Len(starts)] = "started" /\ Len(starts) > 0
    <3>1. startOf[m] = Len(starts)
      BY <1>1, <2>1, ReactionRuns DEF Forward, ForwardThrows, Started, RequestInv
    <3>2. m \in 1 .. calls
      BY <1>1, <2>1 DEF Forward, ForwardThrows, First, Calls, RequestInv, MethodInv, MethodsOK
    <3> QED
      BY <1>1, <2>1, <3>1, <3>2, Elements DEF Forward, ForwardThrows, Started, RequestInv, MethodInv
  <2>3. sent = NotSent /\ sent' = header
    BY <2>1 DEF Forward, ForwardThrows
  <2> QED
    BY <1>1, <2>2, <2>3 DEF RequestInv, LeaveInv
<1> QED
  BY <1>1, RequestInvariant, PTL DEF Spec, TokenIsSent

(* While the hooks ran once, a late answer takes from the session only the token   *)
(* the request was refused with, for any number of calls and renewals.          *)
THEOREM RequestOnlyRefused == Spec => OnlyRefusedTokenDropped
<1> DEFINE Act == held # 0 /\ held' = 0 /\ Len(starts) = 1 => held = sent /\ answer = "unauthorized"
<1>1. ASSUME RequestInv, [Next]_vars PROVE [Act]_vars
  <2> SUFFICES ASSUME held # 0, held' = 0, Len(starts) = 1 PROVE held = sent /\ answer = "unauthorized"
    OBVIOUS
  <2>1. DeleteToken
    <3>1. \A t : Obtain(t) => held' = held
      BY DEF Obtain, session
    <3>2. issued + 1 # 0
      BY <1>1 DEF RequestInv, TokenInv
    <3> QED
      BY <1>1, <3>1, <3>2 DEF Next, CallMethod, StartProgress, Pass, Inject, InjectFails, CallProgress,
         Forward, ForwardThrows, EmitError, EmitThrown, Finally, Response, Respond, CallbackProgress, KeepToken, OtherHook,
         OtherHookThrows, CallWithHookError, CallWithAnswer, Renew, Done, vars, session
  <2>2. answer = "unauthorized" /\ header = token /\ held = token
    BY <2>1 DEF DeleteToken, IsBadToken, Drop
  <2> QED
    BY <1>1, <2>2 DEF RequestInv, LeaveInv
<1> QED
  BY <1>1, RequestInvariant, PTL DEF Spec, OnlyRefusedTokenDropped
=============================================================================
