-------------------- MODULE CorrelatorAndSuperagentProofs --------------------
(***************************************************************************)
(* What the library does to the requests of an application: the correlator, *)
(* for any executions and targets, then the authenticator of superagent,    *)
(* for any requests, retries and renewals.  The two share no variable; a    *)
(* result is about one.                                                     *)
(***************************************************************************)
EXTENDS HttpRequestCorrelator, SuperagentPlugin, SequenceTheorems, TLAPS

USE ExecutionAssumption, IdAssumption

(* A store that replaces the last of a sequence, and the facts about Front    *)
(* and Append that the steps need.                                           *)
LEMMA FrontFacts ==
    ASSUME NEW S, NEW s \in Seq(S), s # <<>>
    PROVE  /\ Len(s) \in Nat \ {0}
           /\ Front(s) \in Seq(S)
           /\ Len(Front(s)) = Len(s) - 1
           /\ \A i \in 1 .. Len(s) - 1 : Front(s)[i] = s[i]
<1>1. Len(s) \in Nat \ {0}
  OBVIOUS
<1>2. Front(s) = [i \in 1 .. Len(s) - 1 |-> s[i]]
  <2>1. Len(s) - 1 \in 0 .. Len(s)
    BY <1>1
  <2> QED
    BY <2>1, SubSeqRestrict DEF Front, Restrict
<1>3. \A i \in 1 .. Len(s) - 1 : s[i] \in S
  BY <1>1
<1>4. [i \in 1 .. Len(s) - 1 |-> s[i]] \in Seq(S)
  BY <1>1, <1>3
<1> QED
  BY <1>1, <1>2, <1>3, <1>4

LEMMA ReplaceLast ==
    ASSUME NEW S, NEW s \in Seq(S), NEW x \in S, s # <<>>
    PROVE  /\ Append(Front(s), x) \in Seq(S)
           /\ Len(Append(Front(s), x)) = Len(s)
           /\ Append(Front(s), x)[Len(s)] = x
           /\ \A i \in 1 .. Len(s) - 1 : Append(Front(s), x)[i] = s[i]
           /\ Append(Front(s), x) # <<>>
  BY FrontFacts

LEMMA DropLast ==
    ASSUME NEW S, NEW s \in Seq(S), Len(s) > 1
    PROVE  /\ Front(s) \in Seq(S)
           /\ Len(Front(s)) = Len(s) - 1
           /\ \A i \in 1 .. Len(s) - 1 : Front(s)[i] = s[i]
           /\ Front(s) # <<>>
  BY FrontFacts

-----------------------------------------------------------------------------
Belongs(id, actor) == id = Undefined \/ owner[id] = actor

(* Whoever acts for a transaction has nothing but its IDs in its contexts,     *)
(* those it goes back to included; and so have the targets and the timeout.    *)
IInv ==
    /\ TypeOK
    /\ \A h \in Handlers : acting[h] = h /\ owner[h] \in {h, Nobody} /\ Running(h)
    /\ \A e \in Executions : ~Running(e) => acting[e] = Nobody
    /\ \A i \in 1 .. MaxIds : i > nextId => owner[i] = Nobody
    /\ \A e \in Executions : acting[e] # Nobody =>
           \A i \in 1 .. Len(stack[e]) : Belongs(stack[e][i], acting[e])
    /\ timer # Nobody => timer \in Ids /\ owner[timer] = Timer
    /\ \A t \in Targets : bound[t] = binder[t].id /\ Belongs(bound[t], binder[t].actor)
    /\ \A t \in Targets : binder[t].actor = Nobody => binder[t] = NotBound

LEMMA InitIInv == Init => IInv
<1> SUFFICES ASSUME Init PROVE IInv
  OBVIOUS
<1>1. TypeOK
  <2>1. <<>> \in Seq(Stores) /\ <<Undefined>> \in Seq(Stores)
    BY DEF Stores
  <2>2. stack \in [Executions -> Seq(Stores)]
    BY <2>1 DEF Init
  <2>3. acting \in [Executions -> Actors \cup {Nobody}]
    BY DEF Init, Actors
  <2> QED
    BY <2>2, <2>3 DEF Init, TypeOK, NotBound, Stores
<1>2. \A e \in Executions : stack[e] = IF e \in Handlers THEN <<Undefined>> ELSE <<>>
  BY DEF Init
<1>3. \A h \in Handlers : acting[h] = h /\ owner[h] \in {h, Nobody} /\ Running(h)
  BY <1>2 DEF Init, Executions, Ids, Running
<1>4. \A e \in Executions : ~Running(e) => acting[e] = Nobody
  BY <1>2 DEF Init, Running
<1>5. \A e \in Executions : \A i \in 1 .. Len(stack[e]) : Belongs(stack[e][i], acting[e])
  BY <1>2 DEF Belongs
<1>6. \A t \in Targets : binder[t] = NotBound /\ bound[t] = Undefined
  BY DEF Init
<1>7. timer = Nobody /\ \A i \in 1 .. MaxIds : owner[i] = Nobody
  BY DEF Init, Ids
<1> QED
  BY <1>1, <1>3, <1>4, <1>5, <1>6, <1>7 DEF IInv, NotBound, Belongs

(* An ID that somebody owns stays theirs, and one that is installed is theirs  *)
(* who install it.                                                           *)
LEMMA Installation ==
    ASSUME IInv, NEW id \in Ids, NEW given \in Handlers \cup {Undefined}, NEW actor \in Actors,
           given # Undefined => actor = given,
           Installs(id, given, actor)
    PROVE  /\ nextId' \in 0 .. MaxIds /\ owner' \in [Ids -> Actors \cup {Nobody}]
           /\ owner'[id] = actor
           /\ \A i \in Ids : owner[i] # Nobody => owner'[i] = owner[i]
           /\ \A h \in Handlers : owner'[h] \in {h, Nobody}
           /\ \A i \in 1 .. MaxIds : i > nextId' => owner'[i] = Nobody
<1>1. nextId \in 0 .. MaxIds /\ owner \in [Ids -> Actors \cup {Nobody}]
  BY DEF IInv, TypeOK
<1>2. CASE given # Undefined
  <2>1. id = given /\ nextId' = nextId /\ owner[id] \in {actor, Nobody}
    BY <1>2 DEF Installs, IInv
  <2> QED
    BY <1>1, <2>1, <1>2 DEF Installs, IInv, Ids, Actors
<1>3. CASE given = Undefined
  <2>1. nextId' = nextId + 1 /\ id = nextId + 1 /\ nextId < MaxIds /\ id \in 1 .. MaxIds
    BY <1>1, <1>3 DEF Installs
  <2>2. owner[id] = Nobody /\ id \notin Handlers
    BY <1>1, <2>1 DEF IInv
  <2>3. owner' = [owner EXCEPT ![id] = actor]
    BY <1>1, <2>2 DEF Installs
  <2> QED
    BY <1>1, <2>1, <2>2, <2>3 DEF IInv, Ids
<1> QED
  BY <1>2, <1>3

(* A store of somebody stays theirs when others install IDs.                  *)
LEMMA Kept ==
    ASSUME IInv, NEW store \in Stores, NEW actor \in Actors,
           \A i \in Ids : owner[i] # Nobody => owner'[i] = owner[i],
           Belongs(store, actor)
    PROVE  store = Undefined \/ owner'[store] = actor
  BY DEF Belongs, Stores, Actors

LEMMA WithIdStep == ASSUME IInv, NEW e \in Executions, withId(e) PROVE IInv'
<1>1. PICK id \in Ids, given \in {Undefined} \cup ({e} \cap Handlers) :
          Installs(id, given, acting[e]) /\ stack' = Run(e, id)
  BY DEF withId
<1>2. acting[e] \in Actors /\ given \in Handlers \cup {Undefined}
      /\ (given # Undefined => acting[e] = given)
  BY <1>1 DEF withId, IInv, TypeOK
<1>3. /\ nextId' \in 0 .. MaxIds /\ owner' \in [Ids -> Actors \cup {Nobody}]
      /\ owner'[id] = acting[e]
      /\ \A i \in Ids : owner[i] # Nobody => owner'[i] = owner[i]
      /\ \A h \in Handlers : owner'[h] \in {h, Nobody}
      /\ \A i \in 1 .. MaxIds : i > nextId' => owner'[i] = Nobody
  BY <1>1, <1>2, Installation
<1>4. stack' = [stack EXCEPT ![e] = Append(stack[e], id)] /\ id \in Stores
  BY <1>1 DEF Run, IInv, TypeOK, Stores
<1>5. /\ stack \in [Executions -> Seq(Stores)] /\ stack[e] # <<>>
      /\ UNCHANGED <<kind, timer, bound, sent, acting, binder>>
  BY DEF IInv, TypeOK, withId, Running
<1>6. stack' \in [Executions -> Seq(Stores)]
  BY <1>4, <1>5
<1>7. TypeOK'
  BY <1>3, <1>5, <1>6 DEF IInv, TypeOK
<1>8. \A f \in Executions : Running(f)' <=> Running(f)
  BY <1>4, <1>5 DEF Running
<1>9. ASSUME NEW f \in Executions, acting[f] # Nobody, NEW i \in 1 .. Len(stack'[f])
      PROVE  stack'[f][i] = Undefined \/ owner'[stack'[f][i]] = acting[f]
  <2>1. acting[f] \in Actors /\ stack[f] \in Seq(Stores)
    BY <1>5, <1>9 DEF IInv, TypeOK
  <2>2. CASE f = e /\ i = Len(stack[e]) + 1
    <3>1. stack'[e] = Append(stack[e], id) /\ stack'[e][i] = id
      BY <1>4, <1>5, <2>2
    <3> QED
      BY <1>3, <2>2, <3>1
  <2>3. CASE f # e \/ i # Len(stack[e]) + 1
    <3>1. i \in 1 .. Len(stack[f]) /\ stack'[f][i] = stack[f][i]
      BY <1>4, <1>5, <1>9, <2>1, <2>3
    <3>2. Belongs(stack[f][i], acting[f]) /\ stack[f][i] \in Stores
      BY <1>9, <2>1, <3>1 DEF IInv
    <3> QED
      <4>1. stack[f][i] = Undefined \/ owner'[stack[f][i]] = acting[f]
        BY <1>3, <2>1, <3>2, Kept
      <4> QED
        BY <3>1, <4>1
  <2> QED
    BY <1>4, <1>5, <1>9, <2>1, <2>2, <2>3
<1>10. \A t \in Targets : Belongs(bound[t], binder[t].actor)'
  <2> SUFFICES ASSUME NEW t \in Targets PROVE Belongs(bound[t], binder[t].actor)'
    OBVIOUS
  <2>1. CASE binder[t].actor = Nobody
    BY <2>1, <1>5 DEF IInv, NotBound, Belongs
  <2>2. CASE binder[t].actor # Nobody
    <3>1. binder[t].actor \in Actors /\ bound[t] \in Stores /\ Belongs(bound[t], binder[t].actor)
      BY <2>2 DEF IInv, TypeOK
    <3> QED
      BY <1>3, <1>5, <3>1, Kept DEF Belongs
  <2> QED
    BY <2>1, <2>2
<1>11. timer' # Nobody => timer' \in Ids /\ owner'[timer'] = Timer
  BY <1>3, <1>5 DEF IInv
<1>12. (\A e_1 \in Executions : ~Running(e_1) => acting[e_1] = Nobody)'
  BY <1>5, <1>8 DEF IInv
<1>13. (\A h \in Handlers : acting[h] = h /\ owner[h] \in {h, Nobody} /\ Running(h))'
  BY <1>3, <1>5, <1>8 DEF IInv, Executions
<1> QED
  BY <1>3, <1>5, <1>7, <1>9, <1>10, <1>11, <1>12, <1>13 DEF IInv, Belongs

LEMMA WorkEndsStep == ASSUME IInv, NEW e \in Executions, WorkEnds(e) PROVE IInv'
<1>1. /\ stack \in [Executions -> Seq(Stores)]
      /\ stack' = [stack EXCEPT ![e] = Front(stack[e])] /\ Len(stack[e]) > 1
      /\ UNCHANGED <<kind, nextId, timer, bound, sent, acting, owner, binder>>
  BY DEF IInv, TypeOK, WorkEnds
<1>2. /\ Front(stack[e]) \in Seq(Stores) /\ Front(stack[e]) # <<>>
      /\ Len(Front(stack[e])) = Len(stack[e]) - 1
      /\ \A i \in 1 .. Len(stack[e]) - 1 : Front(stack[e])[i] = stack[e][i]
  BY <1>1, DropLast
<1>3. stack' \in [Executions -> Seq(Stores)]
  BY <1>1, <1>2
<1>4. \A f \in Executions : Running(f)' <=> Running(f)
  BY <1>1, <1>2 DEF Running
<1>5. ASSUME NEW f \in Executions, acting[f] # Nobody, NEW i \in 1 .. Len(stack'[f])
      PROVE  stack'[f][i] = Undefined \/ owner[stack'[f][i]] = acting[f]
  <2>1. Len(stack[f]) \in Nat /\ Len(stack[e]) \in Nat
    BY <1>1
  <2>2. i \in 1 .. Len(stack[f]) /\ stack'[f][i] = stack[f][i]
    BY <1>1, <1>2, <1>5, <2>1
  <2> QED
    BY <1>5, <2>2 DEF IInv, Belongs
<1>6. TypeOK'
  BY <1>1, <1>3 DEF IInv, TypeOK
<1> QED
  BY <1>1, <1>4, <1>5, <1>6 DEF IInv, Belongs, Executions

LEMMA BindStep ==
    ASSUME IInv, NEW e \in Executions, NEW t \in Targets, bind(e, t) PROVE IInv'
<1>1. /\ stack \in [Executions -> Seq(Stores)] /\ stack[e] # <<>> /\ acting[e] # Nobody
      /\ acting[e] \in Actors
      /\ bound \in [Targets -> Stores]
      /\ binder \in [Targets -> [actor : Actors \cup {Nobody}, id : Stores]]
      /\ bound' = [bound EXCEPT ![t] = getId(e)]
      /\ binder' = [binder EXCEPT ![t] = [actor |-> acting[e], id |-> getId(e)]]
      /\ UNCHANGED <<kind, nextId, stack, timer, sent, acting, owner>>
  BY DEF IInv, TypeOK, bind, Running, Bound
<1>2. getId(e) \in Stores /\ Belongs(getId(e), acting[e])
  <2>1. Len(stack[e]) \in 1 .. Len(stack[e]) /\ getId(e) = stack[e][Len(stack[e])]
    BY <1>1 DEF getId, Last
  <2> QED
    BY <1>1, <2>1 DEF IInv
<1>3. bound' \in [Targets -> Stores]
      /\ binder' \in [Targets -> [actor : Actors \cup {Nobody}, id : Stores]]
  BY <1>1, <1>2
<1>4. TypeOK'
  BY <1>1, <1>3 DEF IInv, TypeOK
<1>5. ASSUME NEW u \in Targets
      PROVE  /\ bound'[u] = binder'[u].id
             /\ bound'[u] = Undefined \/ owner'[bound'[u]] = binder'[u].actor
             /\ binder'[u].actor = Nobody => binder'[u] = NotBound
  <2>1. CASE u = t
    BY <1>1, <1>2, <2>1 DEF Belongs
  <2>2. CASE u # t
    <3>1. bound'[u] = bound[u] /\ binder'[u] = binder[u] /\ owner' = owner
      BY <1>1, <2>2
    <3>2. bound[u] = Undefined \/ owner[bound[u]] = binder[u].actor
      BY DEF IInv, Belongs
    <3> QED
      BY <3>1, <3>2 DEF IInv
  <2> QED
    BY <2>1, <2>2
<1>6. \A f \in Executions : Running(f)' <=> Running(f)
  BY <1>1 DEF Running
<1> QED
  BY <1>1, <1>4, <1>5, <1>6 DEF IInv, Belongs, Executions

(* What the stack is after a target was triggered.                            *)
LEMMA EnteringFacts ==
    ASSUME IInv, NEW e \in Executions, NEW t \in Targets, MayTrigger(e, t),
           stack' = Entering(e, t)
    PROVE  /\ stack' \in [Executions -> Seq(Stores)]
           /\ stack'[e] # <<>> /\ Len(stack'[e]) = Len(stack[e])
           /\ \A f \in Executions \ {e} : stack'[f] = stack[f]
           /\ \A i \in 1 .. Len(stack[e]) - 1 : stack'[e][i] = stack[e][i]
           /\ bound[t] # Undefined => Last(stack'[e]) = bound[t]
           /\ stack'[e][Len(stack[e])] \in {bound[t], stack[e][Len(stack[e])]}
<1>1. /\ stack \in [Executions -> Seq(Stores)] /\ stack[e] # <<>> /\ bound[t] \in Stores
      /\ Len(stack[e]) \in Nat \ {0}
  BY DEF IInv, TypeOK, MayTrigger, Running
<1>2. CASE bound[t] # Undefined \/ kind[t] = "function"
  <2>1. stack' = [stack EXCEPT ![e] = Append(Front(stack[e]), bound[t])]
    BY <1>2 DEF Entering, Entered
  <2>2. /\ Append(Front(stack[e]), bound[t]) \in Seq(Stores)
        /\ Len(Append(Front(stack[e]), bound[t])) = Len(stack[e])
        /\ Append(Front(stack[e]), bound[t])[Len(stack[e])] = bound[t]
        /\ \A i \in 1 .. Len(stack[e]) - 1 :
               Append(Front(stack[e]), bound[t])[i] = stack[e][i]
        /\ Append(Front(stack[e]), bound[t]) # <<>>
    BY <1>1, ReplaceLast
  <2> QED
    BY <1>1, <2>1, <2>2 DEF Last
<1>3. CASE ~(bound[t] # Undefined \/ kind[t] = "function")
  BY <1>1, <1>3 DEF Entering
<1> QED
  BY <1>2, <1>3

LEMMA TriggerStep ==
    ASSUME IInv, NEW e \in Executions, NEW t \in Targets, MayTrigger(e, t),
           stack' = Entering(e, t), ActsFor(e, t), sent' \in [Targets -> Stores \cup {Nobody}],
           UNCHANGED <<kind, nextId, timer, bound, owner, binder>>
    PROVE  IInv'
<1>1. /\ stack \in [Executions -> Seq(Stores)] /\ stack[e] # <<>> /\ bound[t] \in Stores
      /\ Len(stack[e]) \in Nat \ {0} /\ acting \in [Executions -> Actors \cup {Nobody}]
      /\ binder[t].actor \in Actors
  BY DEF IInv, TypeOK, MayTrigger, Running
<1>2. /\ stack' \in [Executions -> Seq(Stores)]
      /\ stack'[e] # <<>> /\ Len(stack'[e]) = Len(stack[e])
      /\ \A f \in Executions \ {e} : stack'[f] = stack[f]
      /\ \A i \in 1 .. Len(stack[e]) - 1 : stack'[e][i] = stack[e][i]
      /\ bound[t] # Undefined => Last(stack'[e]) = bound[t]
      /\ stack'[e][Len(stack[e])] \in {bound[t], stack[e][Len(stack[e])]}
  BY EnteringFacts
<1>3. /\ acting' \in [Executions -> Actors \cup {Nobody}]
      /\ \A f \in Executions \ {e} : acting'[f] = acting[f]
      /\ acting'[e] = IF e \notin Sockets THEN acting[e]
                      ELSE IF bound[t] = Undefined THEN Nobody ELSE binder[t].actor
  BY <1>1 DEF ActsFor
<1>4. \A f \in Executions : Running(f)' <=> Running(f)
  BY <1>1, <1>2 DEF Running
<1>5. ASSUME NEW f \in Executions, acting'[f] # Nobody, NEW i \in 1 .. Len(stack'[f])
      PROVE  stack'[f][i] = Undefined \/ owner[stack'[f][i]] = acting'[f]
  <2>1. CASE f # e
    BY <1>2, <1>3, <1>5, <2>1 DEF IInv, Belongs
  <2>2. CASE f = e /\ acting[e] = binder[t].actor
    <3>1. acting'[e] = acting[e]
      BY <1>3, <1>5, <2>2
    <3>2. bound[t] = Undefined \/ owner[bound[t]] = acting[e]
      BY <2>2 DEF IInv, Belongs
    <3>3. stack[e][i] = Undefined \/ owner[stack[e][i]] = acting[e]
      BY <1>2, <1>5, <2>2, <3>1 DEF IInv, Belongs
    <3>4. stack'[e][i] \in {stack[e][i], bound[t]}
      <4>1. i \in 1 .. Len(stack[e])
        BY <1>2, <1>5, <2>2
      <4>2. CASE i = Len(stack[e])
        BY <1>2, <4>2
      <4>3. CASE i # Len(stack[e])
        BY <1>1, <1>2, <4>1, <4>3
      <4> QED
        BY <4>2, <4>3
    <3> QED
      BY <2>2, <3>1, <3>2, <3>3, <3>4
  <2>3. CASE f = e /\ acting[e] # binder[t].actor
    <3>1. e \in Sockets /\ Len(stack[e]) = 1
      BY <2>3 DEF MayTrigger
    <3>2. bound[t] # Undefined /\ acting'[e] = binder[t].actor
      BY <1>3, <1>5, <2>3, <3>1
    <3>3. stack'[e][i] = bound[t]
      <4>1. i = 1 /\ Len(stack'[e]) = 1
        <5>1. i \in 1 .. Len(stack'[e])
          BY <2>3
        <5>2. Len(stack'[e]) = 1
          BY <1>2, <3>1
        <5> QED
          BY <5>1, <5>2
      <4> QED
        BY <1>2, <3>2, <4>1 DEF Last
    <3> QED
      BY <2>3, <3>2, <3>3 DEF IInv, Belongs
  <2> QED
    BY <2>1, <2>2, <2>3
<1>6. TypeOK'
  BY <1>2, <1>3 DEF IInv, TypeOK
<1>7. \A h \in Handlers : acting'[h] = h
  BY <1>3 DEF IInv, Executions
<1>8. \A f \in Executions : ~Running(f)' => acting'[f] = Nobody
  BY <1>1, <1>3, <1>4 DEF IInv, Running
<1> QED
  BY <1>4, <1>5, <1>6, <1>7, <1>8 DEF IInv, Belongs, Executions

LEMMA TaskStartsStep ==
    ASSUME IInv, NEW e \in Executions, NEW s \in Sockets, TaskStarts(e, s) PROVE IInv'
<1>1. /\ stack \in [Executions -> Seq(Stores)] /\ stack[e] # <<>> /\ stack[s] = <<>>
      /\ stack' = [stack EXCEPT ![s] = <<getId(e)>>] /\ acting[s] = Nobody
      /\ UNCHANGED <<kind, nextId, timer, bound, sent, acting, owner, binder>>
  BY DEF IInv, TypeOK, TaskStarts, Running, Executions
<1>2. getId(e) \in Stores
  <2>1. Len(stack[e]) \in 1 .. Len(stack[e]) /\ getId(e) = stack[e][Len(stack[e])]
    BY <1>1 DEF getId, Last
  <2> QED
    BY <1>1, <2>1
<1>3. stack' \in [Executions -> Seq(Stores)]
  <2>1. <<getId(e)>> \in Seq(Stores)
    BY <1>2
  <2> QED
    BY <1>1, <2>1
<1>4. TypeOK'
  BY <1>1, <1>3 DEF IInv, TypeOK
<1>5. \A f \in Executions \ {s} : stack'[f] = stack[f]
  BY <1>1
<1>6. \A h \in Handlers : h \in Executions \ {s}
  BY DEF Executions
<1>7. acting[s] = Nobody /\ acting' = acting /\ stack'[s] = <<getId(e)>>
  BY <1>1 DEF Executions
<1>8. \A h \in Handlers : acting'[h] = h /\ owner'[h] \in {h, Nobody} /\ Running(h)'
  BY <1>1, <1>5, <1>6 DEF IInv, Running
<1>9. \A f \in Executions : ~Running(f)' => acting'[f] = Nobody
  BY <1>5, <1>7 DEF IInv, Running
<1>10. \A f \in Executions : acting'[f] # Nobody =>
           \A i \in 1 .. Len(stack'[f]) : stack'[f][i] = Undefined \/ owner'[stack'[f][i]] = acting'[f]
  <2> SUFFICES ASSUME NEW f \in Executions, acting'[f] # Nobody
               PROVE  \A i \in 1 .. Len(stack'[f]) :
                          stack'[f][i] = Undefined \/ owner'[stack'[f][i]] = acting'[f]
    OBVIOUS
  <2>1. f # s
    BY <1>7
  <2>2. stack'[f] = stack[f] /\ acting'[f] = acting[f] /\ owner' = owner
    BY <1>1, <1>5, <2>1
  <2>3. \A i \in 1 .. Len(stack[f]) : stack[f][i] = Undefined \/ owner[stack[f][i]] = acting[f]
    BY <2>2 DEF IInv, Belongs
  <2> QED
    BY <2>2, <2>3
<1>11. /\ \A i \in 1 .. MaxIds : i > nextId' => owner'[i] = Nobody
       /\ timer' # Nobody => timer' \in Ids /\ owner'[timer'] = Timer
       /\ \A t \in Targets : /\ bound'[t] = binder'[t].id
                             /\ bound'[t] = Undefined \/ owner'[bound'[t]] = binder'[t].actor
       /\ \A t \in Targets : binder'[t].actor = Nobody => binder'[t] = NotBound
  BY <1>1 DEF IInv, Belongs
<1> QED
  BY <1>4, <1>8, <1>9, <1>10, <1>11 DEF IInv, Belongs

LEMMA TaskEndsStep == ASSUME IInv, NEW e \in Executions, TaskEnds(e) PROVE IInv'
<1>1. /\ e \notin Handlers /\ stack \in [Executions -> Seq(Stores)]
      /\ stack' = [stack EXCEPT ![e] = <<>>] /\ acting' = [acting EXCEPT ![e] = Nobody]
      /\ acting \in [Executions -> Actors \cup {Nobody}]
      /\ UNCHANGED <<kind, nextId, timer, bound, sent, owner, binder>>
  BY DEF IInv, TypeOK, TaskEnds
<1>2. stack' \in [Executions -> Seq(Stores)]
  BY <1>1
<1>3. TypeOK'
  BY <1>1, <1>2 DEF IInv, TypeOK
<1>4. \A f \in Executions \ {e} : stack'[f] = stack[f] /\ acting'[f] = acting[f]
  BY <1>1
<1>5. acting'[e] = Nobody
  BY <1>1
<1>6. \A h \in Handlers : h \in Executions \ {e}
  BY <1>1 DEF Executions
<1> QED
  BY <1>1, <1>3, <1>4, <1>5, <1>6 DEF IInv, Belongs, Running

LEMMA ScheduleStep == ASSUME IInv, NEW e \in Executions, scheduleRefresh(e) PROVE IInv'
<1>1. PICK id \in Ids : Installs(id, Undefined, Timer) /\ timer' = id
  BY DEF scheduleRefresh
<1>2. /\ nextId' \in 0 .. MaxIds /\ owner' \in [Ids -> Actors \cup {Nobody}]
      /\ owner'[id] = Timer
      /\ \A i \in Ids : owner[i] # Nobody => owner'[i] = owner[i]
      /\ \A h \in Handlers : owner'[h] \in {h, Nobody}
      /\ \A i \in 1 .. MaxIds : i > nextId' => owner'[i] = Nobody
  <2>1. Timer \in Actors /\ Undefined \in Handlers \cup {Undefined}
    BY DEF Actors
  <2> QED
    BY <1>1, <2>1, Installation
<1>3. UNCHANGED <<kind, stack, bound, sent, acting, binder>>
  BY DEF scheduleRefresh
<1>4. TypeOK'
  BY <1>1, <1>2, <1>3 DEF IInv, TypeOK, Stores
<1>5. ASSUME NEW f \in Executions, acting[f] # Nobody, NEW i \in 1 .. Len(stack[f])
      PROVE  stack[f][i] = Undefined \/ owner'[stack[f][i]] = acting[f]
  <2>1. acting[f] \in Actors /\ stack[f] \in Seq(Stores)
    BY <1>5 DEF IInv, TypeOK
  <2>2. stack[f][i] \in Stores /\ Belongs(stack[f][i], acting[f])
    BY <1>5, <2>1 DEF IInv
  <2> QED
    BY <1>2, <2>1, <2>2, Kept
<1>6. ASSUME NEW t \in Targets
      PROVE  bound[t] = Undefined \/ owner'[bound[t]] = binder[t].actor
  <2>1. CASE binder[t].actor = Nobody
    BY <2>1 DEF IInv, NotBound
  <2>2. CASE binder[t].actor # Nobody
    <3>1. binder[t].actor \in Actors /\ bound[t] \in Stores
          /\ Belongs(bound[t], binder[t].actor)
      BY <2>2 DEF IInv, TypeOK
    <3> QED
      BY <1>2, <3>1, Kept
  <2> QED
    BY <2>1, <2>2
<1> QED
  BY <1>1, <1>2, <1>3, <1>4, <1>5, <1>6 DEF IInv, Belongs, Running

LEMMA TimerFiresStep == ASSUME IInv, TimerFires PROVE IInv'
<1>1. /\ timer \in Ids /\ owner[timer] = Timer
      /\ stack \in [Executions -> Seq(Stores)] /\ acting \in [Executions -> Actors \cup {Nobody}]
      /\ stack' = [stack EXCEPT ![Timer] = <<timer>>]
      /\ acting' = [acting EXCEPT ![Timer] = Timer] /\ timer' = Nobody
      /\ UNCHANGED <<kind, nextId, bound, sent, owner, binder>>
  BY DEF IInv, TypeOK, TimerFires
<1>2. stack' \in [Executions -> Seq(Stores)] /\ acting' \in [Executions -> Actors \cup {Nobody}]
  <2>1. timer \in Stores
    BY <1>1 DEF Stores
  <2>2. <<timer>> \in Seq(Stores)
    BY <2>1
  <2>3. Timer \in Actors
    BY DEF Actors
  <2> QED
    BY <1>1, <2>2, <2>3
<1>3. TypeOK'
  BY <1>1, <1>2 DEF IInv, TypeOK
<1>4. \A f \in Executions \ {Timer} : stack'[f] = stack[f] /\ acting'[f] = acting[f]
  BY <1>1
<1>5. stack'[Timer] = <<timer>> /\ acting'[Timer] = Timer /\ stack'[Timer] # <<>>
  BY <1>1 DEF Executions
<1>6. \A i \in 1 .. Len(stack'[Timer]) : owner'[stack'[Timer][i]] = Timer
  BY <1>1, <1>5
<1>7. \A h \in Handlers : h \in Executions \ {Timer}
  BY DEF Executions
<1>8. \A h \in Handlers : acting'[h] = h /\ owner'[h] \in {h, Nobody} /\ Running(h)'
  BY <1>1, <1>4, <1>7 DEF IInv, Running
<1>9. \A f \in Executions : ~Running(f)' => acting'[f] = Nobody
  BY <1>4, <1>5 DEF IInv, Running
<1>10. ASSUME NEW f \in Executions, acting'[f] # Nobody, NEW i \in 1 .. Len(stack'[f])
       PROVE  stack'[f][i] = Undefined \/ owner'[stack'[f][i]] = acting'[f]
  <2>1. CASE f = Timer
    BY <1>5, <1>6, <1>10, <2>1
  <2>2. CASE f # Timer
    BY <1>1, <1>4, <1>10, <2>2 DEF IInv, Belongs
  <2> QED
    BY <2>1, <2>2
<1> QED
  BY <1>1, <1>3, <1>8, <1>9, <1>10 DEF IInv, Belongs

LEMMA Step == IInv /\ [Next]_vars => IInv'
<1> SUFFICES ASSUME IInv, [Next]_vars PROVE IInv'
  OBVIOUS
<1>1. ASSUME NEW e \in Executions, withId(e) PROVE IInv'
  BY <1>1, WithIdStep
<1>2. ASSUME NEW e \in Executions, WorkEnds(e) PROVE IInv'
  BY <1>2, WorkEndsStep
<1>3. ASSUME NEW e \in Executions, TaskEnds(e) PROVE IInv'
  BY <1>3, TaskEndsStep
<1>4. ASSUME NEW e \in Executions, scheduleRefresh(e) PROVE IInv'
  BY <1>4, ScheduleStep
<1>5. ASSUME NEW e \in Executions, NEW t \in Targets, bind(e, t) PROVE IInv'
  BY <1>5, BindStep
<1>6. ASSUME NEW e \in Executions, NEW t \in Targets, Trigger(e, t) PROVE IInv'
  BY <1>6, TriggerStep DEF Trigger, IInv, TypeOK
<1>7. ASSUME NEW e \in Executions, NEW t \in Targets, EmitRequest(e, t) PROVE IInv'
  <2>1. MayTrigger(e, t) /\ stack' = Entering(e, t)
    BY <1>7 DEF EmitRequest
  <2>2. stack' \in [Executions -> Seq(Stores)] /\ stack'[e] # <<>>
    BY <2>1, EnteringFacts
  <2>3. Last(stack'[e]) \in Stores
    BY <2>2 DEF Last
  <2>4. sent' \in [Targets -> Stores \cup {Nobody}]
    BY <1>7, <2>3 DEF EmitRequest, IInv, TypeOK
  <2> QED
    BY <1>7, <2>1, <2>4, TriggerStep DEF EmitRequest
<1>8. ASSUME NEW e \in Executions, NEW s \in Sockets, TaskStarts(e, s) PROVE IInv'
  BY <1>8, TaskStartsStep
<1>9. CASE TimerFires
  BY <1>9, TimerFiresStep
<1>10. CASE UNCHANGED vars
  BY <1>10 DEF vars, IInv, TypeOK, Belongs, Running
<1> QED
  BY <1>1, <1>2, <1>3, <1>4, <1>5, <1>6, <1>7, <1>8, <1>9, <1>10 DEF Next

LEMMA Invariant == Spec => []IInv
  BY InitIInv, Step, PTL DEF Spec

-----------------------------------------------------------------------------
(* The variables keep their types, for any requests, connections and bounds.  *)
THEOREM TypeCorrect == Spec => []TypeOK
<1>1. IInv => TypeOK
  BY DEF IInv
<1> QED
  BY <1>1, Invariant, PTL

(* No handler, no callback of a request in a task of the pool and no scheduled *)
(* refresh ever runs under the ID of another transaction.                    *)
THEOREM OwnContexts == Spec => []TransactionsDoNotMix
<1>1. IInv => TransactionsDoNotMix
  <2> SUFFICES ASSUME IInv, NEW e \in Executions, Running(e), acting[e] # Nobody,
                      getId(e) # Undefined
               PROVE  owner[getId(e)] = acting[e]
    BY DEF TransactionsDoNotMix
  <2>1. stack[e] \in Seq(Stores) /\ stack[e] # <<>>
    BY DEF IInv, TypeOK, Running
  <2>2. Len(stack[e]) \in 1 .. Len(stack[e]) /\ getId(e) = stack[e][Len(stack[e])]
    BY <2>1 DEF getId, Last
  <2> QED
    BY <2>2 DEF IInv, Belongs
<1> QED
  BY <1>1, Invariant, PTL

(* Each attempt of a bound request carries the ID of the context in which the  *)
(* request was bound, whichever execution emits it.                          *)
THEOREM IdsAreKept == Spec => RequestKeepsItsId
<1> DEFINE Keeps == \A r \in Targets :
        sent'[r] # sent[r] /\ binder[r].id # Undefined => sent'[r] = binder[r].id
<1>1. IInv /\ [Next]_vars => [Keeps]_vars
  <2> SUFFICES ASSUME IInv, [Next]_vars, NEW r \in Targets, sent'[r] # sent[r],
                      binder[r].id # Undefined
               PROVE  sent'[r] = binder[r].id
    OBVIOUS
  <2>1. \E e \in Executions, t \in Targets : EmitRequest(e, t)
    BY DEF Next, vars, withId, WorkEnds, TaskEnds, scheduleRefresh, bind, Trigger,
           TaskStarts, TimerFires
  <2>2. PICK e \in Executions, t \in Targets : EmitRequest(e, t)
    BY <2>1
  <2>3. MayTrigger(e, t) /\ stack' = Entering(e, t)
        /\ sent' = [sent EXCEPT ![t] = Last(stack'[e])]
    BY <2>2 DEF EmitRequest
  <2>4. r = t /\ sent'[t] = Last(stack'[e])
    BY <2>3 DEF IInv, TypeOK
  <2>5. bound[t] = binder[t].id
    BY DEF IInv
  <2> QED
    BY <2>3, <2>4, <2>5, EnteringFacts
<1> QED
  BY <1>1, Invariant, PTL DEF RequestKeepsItsId, Spec

-----------------------------------------------------------------------------
USE RetriesAssumption

(* The session holds the newest token or none, and no token that a request was *)
(* refused with, unless it could not be deleted.                               *)
HeldInv ==
    /\ held \in {0, issued}
    /\ \A r \in Requests : held # 0 /\ held \in refused[r] => held \in undeleted

(* A request has a timer and attempts only once its end is running, and then a   *)
(* header; an attempt left with a token of the header, or one it had before, and *)
(* later attempts with later ones; none is numbered above the retries so far.    *)
AttemptInv ==
    \A r \in Requests :
        /\ pc[r] # "running" => ~ticking[r] /\ \A a \in Attempts : stage[r][a] = "none"
        /\ pc[r] \in {"injected", "running"} => header[r] # 0
        /\ \A a \in Attempts :
              /\ carried[r][a] <= header[r]
              /\ stage[r][a] = "sent" => carried[r][a] # 0
              /\ stage[r][a] # "none" => a <= tried[r]
        /\ \A a, b \in Attempts :
              a < b /\ stage[r][b] # "none" => carried[r][a] <= carried[r][b]

(* The inductive invariant.                                                   *)
SendInv == SATypeOK /\ HeldInv /\ AttemptInv

(* Where an attempt may be.                                                    *)
Stages == {"none", "sent", "renewing", "injected", "over"}

(* The retries of a request are natural numbers, and number its attempts.       *)
LEMMA Budgets ==
    /\ Attempts \subseteq Nat /\ 0 \in Attempts
    /\ \A r \in Requests : Budget(r) \in Nat /\ \A n \in 0 .. Budget(r) : n \in Attempts
  BY DEF Attempts, Budget

(* A token is taken from the session, or a new one issued to it.               *)
LEMMA Injected ==
    ASSUME SendInv, NEW r \in Requests, Inject(r)
    PROVE  /\ issued' \in Nat /\ issued' >= issued /\ held' = issued' /\ held' # 0
           /\ held' = IF held # 0 THEN held ELSE issued + 1
           /\ renewals' = renewals
           /\ header' \in [Requests -> 0 .. issued'] /\ header'[r] = held'
           /\ \A q \in Requests : q # r => header'[q] = header[q]
           /\ \A q \in Requests : header[q] <= header'[q]
<1> USE DEF SendInv, SATypeOK, HeldInv
<1>1. PICK t \in {held, issued + 1} : Obtain(t) /\ header' = [header EXCEPT ![r] = t]
  BY DEF Inject
<1>2. /\ issued' \in Nat /\ issued' >= issued /\ held' = issued' /\ held' # 0 /\ t = held'
      /\ held' = IF held # 0 THEN held ELSE issued + 1
      /\ renewals' = renewals
  BY <1>1 DEF Obtain, session
<1>3. header' \in [Requests -> 0 .. issued']
  BY <1>1, <1>2
<1> QED
  BY <1>1, <1>2, <1>3

(* What the original callback does: one retry at most, of its request alone, in  *)
(* an attempt that it numbers; or the end of the request.                       *)
LEMMA CallbackStep ==
    ASSUME SendInv, config' = config, NEW r \in Requests, NEW o, NEW s \in [Attempts -> Stages],
           Callback(r, o, s)
    PROVE  /\ tried' \in [Requests -> Nat] /\ \A q \in Requests : tried'[q] <= Budget(q)'
           /\ ticking' \in [Requests -> BOOLEAN] /\ answered' \in [Requests -> BOOLEAN]
           /\ stage' \in [Requests -> [Attempts -> Stages]]
           /\ \A q \in Requests \ {r} : stage'[q] = stage[q] /\ carried'[q] = carried[q]
                                        /\ tried'[q] = tried[q] /\ ticking'[q] = ticking[q]
           /\ tried'[r] \in {tried[r], tried[r] + 1}
           /\ \/ stage'[r] = s /\ carried' = carried /\ ~ticking'[r]
              \/ /\ tried'[r] = tried[r] + 1 /\ tried'[r] \in Attempts
                 /\ stage'[r] = [s EXCEPT ![tried'[r]] = "sent"]
                 /\ carried' = [carried EXCEPT ![r][tried'[r]] = header[r]]
<1> USE DEF SendInv, SATypeOK
<1>1. \A q \in Requests : Budget(q)' = Budget(q) /\ Budget(q) \in Nat
  BY Budgets DEF Budget, Retries401
<1>2. CASE RetriesLeft(r) /\ Retry(r, s)
  <2>1. tried'[r] = tried[r] + 1 /\ tried'[r] \in 0 .. Budget(r)
    BY <1>1, <1>2 DEF RetriesLeft, Retry
  <2>2. tried'[r] \in Attempts
    BY <2>1, Budgets
  <2>3. /\ stage' = [stage EXCEPT ![r] = [s EXCEPT ![tried'[r]] = "sent"]]
        /\ carried' = [carried EXCEPT ![r][tried'[r]] = header[r]]
        /\ ticking' = [ticking EXCEPT ![r] = TRUE] /\ answered' = answered
        /\ tried' = [tried EXCEPT ![r] = @ + 1]
    BY <1>2 DEF Retry, Leave
  <2>4. [s EXCEPT ![tried'[r]] = "sent"] \in [Attempts -> Stages]
    BY DEF Stages
  <2>5. stage' \in [Requests -> [Attempts -> Stages]]
    BY <2>3, <2>4 DEF Stages
  <2>6. tried' \in [Requests -> Nat] /\ \A q \in Requests : tried'[q] <= Budget(q)'
    BY <1>1, <2>1, <2>3
  <2>7. /\ ticking' \in [Requests -> BOOLEAN] /\ answered' \in [Requests -> BOOLEAN]
        /\ \A q \in Requests \ {r} : stage'[q] = stage[q] /\ carried'[q] = carried[q]
                                        /\ tried'[q] = tried[q] /\ ticking'[q] = ticking[q]
    BY <2>3
  <2>8. stage'[r] = [s EXCEPT ![tried'[r]] = "sent"]
    BY <2>3
  <2> QED
    BY <2>1, <2>2, <2>3, <2>5, <2>6, <2>7, <2>8
<1>3. CASE Finish(r, s)
  <2>1. tried' \in [Requests -> Nat] /\ \A q \in Requests : tried'[q] <= Budget(q)'
    BY <1>1, <1>3 DEF Finish, RetriesLeft
  <2>2. tried'[r] \in {tried[r], tried[r] + 1}
    BY <1>3 DEF Finish
  <2>3. stage' \in [Requests -> [Attempts -> Stages]]
    BY <1>3 DEF Finish, Stages
  <2> QED
    BY <1>3, <2>1, <2>2, <2>3 DEF Finish, Answer
<1> QED
  BY <1>2, <1>3 DEF Callback

(* The same, of the attempts alone, whatever becomes of the tokens.             *)
LEMMA CallbackStages ==
    ASSUME SendInv, config' = config, NEW r \in Requests, NEW o, NEW s \in [Attempts -> Stages],
           Callback(r, o, s)
    PROVE  /\ \A q \in Requests : q # r => stage'[q] = stage[q]
           /\ \/ stage'[r] = s
              \/ /\ tried'[r] = tried[r] + 1 /\ tried'[r] \in Attempts
                 /\ stage'[r] = [s EXCEPT ![tried'[r]] = "sent"]
<1> USE DEF SendInv, SATypeOK
<1>1. CASE RetriesLeft(r) /\ Retry(r, s)
  <2>1. tried'[r] = tried[r] + 1 /\ tried'[r] \in 0 .. Budget(r)
    BY <1>1, Budgets DEF RetriesLeft, Retry
  <2>2. tried'[r] \in Attempts
    BY <2>1, Budgets
  <2>3. stage' = [stage EXCEPT ![r] = [s EXCEPT ![tried'[r]] = "sent"]]
    BY <1>1 DEF Retry, Leave
  <2> QED
    BY <2>1, <2>2, <2>3
<1>2. CASE Finish(r, s)
  BY <1>2 DEF Finish
<1> QED
  BY <1>1, <1>2 DEF Callback

(* Tokens issued meanwhile leave the types as they are.                        *)
LEMMA Widened ==
    ASSUME SendInv, issued' \in Nat, issued' >= issued
    PROVE  /\ header \in [Requests -> 0 .. issued']
           /\ carried \in [Requests -> [Attempts -> 0 .. issued']]
           /\ refused \in [Requests -> SUBSET (1 .. issued')]
           /\ undeleted \subseteq 1 .. issued'
<1> USE DEF SendInv, SATypeOK
<1>1. 0 .. issued \subseteq 0 .. issued' /\ 1 .. issued \subseteq 1 .. issued'
  OBVIOUS
<1>2. \A f \in [Attempts -> 0 .. issued] : f \in [Attempts -> 0 .. issued']
  BY <1>1
<1>3. \A S \in SUBSET (1 .. issued) : S \in SUBSET (1 .. issued')
  BY <1>1
<1>4. header \in [Requests -> 0 .. issued']
  BY <1>1
<1>5. carried \in [Requests -> [Attempts -> 0 .. issued']]
  BY <1>2
<1>6. refused \in [Requests -> SUBSET (1 .. issued')]
  BY <1>3
<1> QED
  BY <1>1, <1>4, <1>5, <1>6

(* The types of what the hooks of a request change, and of what its attempts do. *)
TokensOK ==
    /\ held \in 0 .. issued /\ issued \in Nat /\ renewals \in 0 .. MaxRenewals
    /\ header \in [Requests -> 0 .. issued]
    /\ refused \in [Requests -> SUBSET (1 .. issued)]
    /\ undeleted \subseteq 1 .. issued

AttemptsOK ==
    /\ stage \in [Requests -> [Attempts -> Stages]]
    /\ carried \in [Requests -> [Attempts -> 0 .. issued]]
    /\ tried \in [Requests -> Nat] /\ \A r \in Requests : tried[r] <= Budget(r)
    /\ ticking \in [Requests -> BOOLEAN]
    /\ answered \in [Requests -> BOOLEAN]

(* Where the end of a request may be.                                          *)
Points == {"idle", "starting", "injected", "running", "failed", "thrown"}

(* The type invariant, in the parts that a step changes together.               *)
LEMMA Types ==
    SATypeOK <=> /\ TokensOK /\ AttemptsOK
               /\ config \in [Requests -> Configs] /\ pc \in [Requests -> Points]
  BY DEF SATypeOK, TokensOK, AttemptsOK, Points, Stages

(* The original callback: attempts that are over stay so, and one that leaves has *)
(* the token of the header.                                                    *)
LEMMA AttemptsMove ==
    ASSUME SendInv, UNCHANGED <<issued, config, pc, header>>,
           NEW r \in Requests, pc[r] = "running",
           NEW o, NEW s \in [Attempts -> Stages],
           \A a \in Attempts : s[a] # "none" => stage[r][a] # "none",
           \A a \in Attempts : s[a] = "sent" => stage[r][a] = "sent",
           Callback(r, o, s)
    PROVE  AttemptInv' /\ AttemptsOK'
<1> DEFINE n == tried'[r]
<1>1. /\ tried' \in [Requests -> Nat] /\ \A q \in Requests : tried'[q] <= Budget(q)'
      /\ ticking' \in [Requests -> BOOLEAN] /\ answered' \in [Requests -> BOOLEAN]
      /\ stage' \in [Requests -> [Attempts -> Stages]]
      /\ \A q \in Requests \ {r} : stage'[q] = stage[q] /\ carried'[q] = carried[q]
                                   /\ tried'[q] = tried[q] /\ ticking'[q] = ticking[q]
      /\ n \in {tried[r], tried[r] + 1}
      /\ \/ stage'[r] = s /\ carried' = carried /\ ~ticking'[r]
         \/ /\ n = tried[r] + 1 /\ n \in Attempts
            /\ stage'[r] = [s EXCEPT ![n] = "sent"]
            /\ carried' = [carried EXCEPT ![r][n] = header[r]]
  BY CallbackStep
<1>2. /\ header \in [Requests -> Nat] /\ Attempts \subseteq Nat /\ 0 \in Attempts
      /\ carried \in [Requests -> [Attempts -> Nat]] /\ tried \in [Requests -> Nat]
      /\ stage \in [Requests -> [Attempts -> Stages]] /\ ticking \in [Requests -> BOOLEAN]
  BY Budgets DEF SendInv, SATypeOK, Stages
<1>3. carried' \in [Requests -> [Attempts -> 0 .. issued]]
  <2>1. header[r] \in 0 .. issued /\ carried \in [Requests -> [Attempts -> 0 .. issued]]
    BY DEF SendInv, SATypeOK
  <2>2. [carried[r] EXCEPT ![n] = header[r]] \in [Attempts -> 0 .. issued]
    BY <2>1
  <2>3. \/ carried' = carried
        \/ carried' = [carried EXCEPT ![r] = [carried[r] EXCEPT ![n] = header[r]]]
    BY <1>1, <2>1
  <2> QED
    BY <2>1, <2>2, <2>3
<1>4. AttemptsOK'
  BY <1>1, <1>3 DEF AttemptsOK
<1>5. header[r] # 0
  BY DEF SendInv, AttemptInv
<1>6. ASSUME NEW a \in Attempts
      PROVE  /\ carried'[r][a] <= header[r]
             /\ stage'[r][a] = "sent" => carried'[r][a] # 0
             /\ stage'[r][a] # "none" => a <= n
  <2>1. CASE stage'[r] = s /\ carried' = carried /\ ~ticking'[r]
    BY <1>1, <1>2, <2>1 DEF SendInv, AttemptInv
  <2>2. CASE /\ n = tried[r] + 1 /\ n \in Attempts
             /\ stage'[r] = [s EXCEPT ![n] = "sent"]
             /\ carried' = [carried EXCEPT ![r][n] = header[r]]
    <3>1. CASE a = n
      BY <1>2, <1>5, <2>2, <3>1
    <3>2. CASE a # n
      <4>1. stage'[r][a] = s[a] /\ carried'[r][a] = carried[r][a]
        BY <1>2, <2>2, <3>2
      <4> QED
        BY <1>2, <2>2, <4>1 DEF SendInv, AttemptInv
    <3> QED
      BY <3>1, <3>2
  <2> QED
    BY <1>1, <2>1, <2>2
<1>7. ASSUME NEW a \in Attempts, NEW b \in Attempts, a < b, stage'[r][b] # "none"
      PROVE  carried'[r][a] <= carried'[r][b]
  <2>1. CASE stage'[r] = s /\ carried' = carried
    BY <1>7, <2>1 DEF SendInv, AttemptInv
  <2>2. CASE /\ n = tried[r] + 1 /\ n \in Attempts
             /\ stage'[r] = [s EXCEPT ![n] = "sent"]
             /\ carried' = [carried EXCEPT ![r][n] = header[r]]
    <3>1. CASE b = n
      BY <1>2, <1>6, <2>2, <3>1
    <3>2. CASE b # n
      <4>1. stage'[r][b] = s[b] /\ carried'[r][b] = carried[r][b]
        BY <1>2, <2>2, <3>2
      <4>2. stage[r][b] # "none" /\ b <= tried[r]
        BY <1>7, <4>1 DEF SendInv, AttemptInv
      <4>3. a # n /\ carried'[r][a] = carried[r][a]
        <5>1. a # n
          BY <1>2, <1>7, <2>2, <4>2
        <5> QED
          BY <1>2, <2>2, <5>1
      <4> QED
        BY <1>7, <4>1, <4>2, <4>3 DEF SendInv, AttemptInv
    <3> QED
      BY <3>1, <3>2
  <2> QED
    BY <1>1, <2>1, <2>2
<1>8. AttemptInv'
  <2>1. ASSUME NEW q \in Requests \ {r}
        PROVE  /\ pc'[q] # "running" => ~ticking'[q] /\ \A a \in Attempts : stage'[q][a] = "none"
               /\ \A a \in Attempts :
                    /\ carried'[q][a] <= header'[q]
                    /\ stage'[q][a] = "sent" => carried'[q][a] # 0
                    /\ stage'[q][a] # "none" => a <= tried'[q]
               /\ \A a, b \in Attempts :
                    a < b /\ stage'[q][b] # "none" => carried'[q][a] <= carried'[q][b]
    BY <1>1 DEF SendInv, AttemptInv
  <2>2. \A q \in Requests : pc'[q] \in {"injected", "running"} => header'[q] # 0
    BY DEF SendInv, AttemptInv
  <2> QED
    BY <1>6, <1>7, <2>1, <2>2 DEF AttemptInv
<1> QED
  BY <1>4, <1>8

(* A token that is held is the newest.                                         *)
LEMMA HeldStep ==
    ASSUME SendInv, issued' \in Nat, held' \in {0, held, issued + 1}, held' \in {0, issued'},
           UNCHANGED <<refused, undeleted>>
    PROVE  HeldInv'
<1>1. \A r \in Requests : issued + 1 \notin refused[r]
  BY DEF SendInv, SATypeOK
<1> QED
  BY <1>1 DEF SendInv, HeldInv

(* The attempts of a step that starts and ends none.                           *)
LEMMA AttemptsStay ==
    ASSUME SendInv, issued' \in Nat, issued' >= issued,
           UNCHANGED <<config, carried, tried, ticking>>,
           stage' \in [Requests -> [Attempts -> Stages]], answered' \in [Requests -> BOOLEAN],
           \A q \in Requests, a \in Attempts :
               /\ stage[q][a] = "none" <=> stage'[q][a] = "none"
               /\ stage'[q][a] = "sent" => stage[q][a] = "sent",
           \A q \in Requests :
               /\ pc[q] = "running" <=> pc'[q] = "running"
               /\ pc'[q] = "injected" => pc[q] = "injected" \/ header'[q] # 0,
           header' \in [Requests -> 0 .. issued'], \A q \in Requests : header[q] <= header'[q]
    PROVE  AttemptInv' /\ AttemptsOK'
<1>1. carried \in [Requests -> [Attempts -> 0 .. issued']]
  BY Widened
<1>2. AttemptsOK'
  BY <1>1 DEF SendInv, SATypeOK, AttemptsOK, Budget, Retries401
<1>3. ASSUME NEW q \in Requests, NEW a \in Attempts
      PROVE  /\ header'[q] = 0 => header[q] = 0
             /\ carried[q][a] <= header[q] => carried[q][a] <= header'[q]
  BY DEF SendInv, SATypeOK
<1>4. 0 \in Attempts
  BY Budgets
<1>5. AttemptInv'
  <2>1. ASSUME NEW q \in Requests
        PROVE  /\ pc'[q] # "running" => ~ticking[q] /\ \A a \in Attempts : stage'[q][a] = "none"
               /\ pc'[q] \in {"injected", "running"} => header'[q] # 0
               /\ \A a \in Attempts :
                    /\ carried[q][a] <= header'[q]
                    /\ stage'[q][a] = "sent" => carried[q][a] # 0
                    /\ stage'[q][a] # "none" => a <= tried[q]
               /\ \A a, b \in Attempts :
                    a < b /\ stage'[q][b] # "none" => carried[q][a] <= carried[q][b]
    BY <1>3, <1>4 DEF SendInv, AttemptInv
  <2> QED
    BY <2>1 DEF AttemptInv
<1> QED
  BY <1>2, <1>5

(* An attempt in progress that ends leaves the others as they are.              *)
LEMMA OverIsOver ==
    ASSUME SendInv, NEW r \in Requests, NEW a \in Attempts, stage[r][a] # "none"
    PROVE  /\ Over(r, a) \in [Attempts -> Stages] /\ pc[r] = "running"
           /\ \A b \in Attempts : Over(r, a)[b] # "none" => stage[r][b] # "none"
           /\ \A b \in Attempts : Over(r, a)[b] = "sent" => stage[r][b] = "sent"
           /\ Over(r, a)[a] = "over"
  BY DEF SendInv, SATypeOK, AttemptInv, Over, Stages

(* The tokens of a step that takes none, and of one that takes one.              *)
LEMMA TokensStay ==
    ASSUME SendInv, UNCHANGED <<session, header, refused, undeleted>>
    PROVE  /\ TokensOK' /\ HeldInv' /\ issued' \in Nat /\ issued' >= issued
           /\ header' \in [Requests -> 0 .. issued'] /\ \A q \in Requests : header[q] <= header'[q]
  BY DEF SendInv, SATypeOK, HeldInv, TokensOK, session

LEMMA TokensTaken ==
    ASSUME SendInv, NEW r \in Requests, Inject(r), UNCHANGED <<refused, undeleted>>
    PROVE  /\ TokensOK' /\ HeldInv' /\ issued' \in Nat /\ issued' >= issued
           /\ header' \in [Requests -> 0 .. issued'] /\ \A q \in Requests : header[q] <= header'[q]
<1>1. /\ issued' \in Nat /\ issued' >= issued /\ held' = issued' /\ held' # 0
      /\ held' = IF held # 0 THEN held ELSE issued + 1
      /\ renewals' = renewals
      /\ header' \in [Requests -> 0 .. issued'] /\ \A q \in Requests : header[q] <= header'[q]
  BY Injected
<1>2. HeldInv'
  BY <1>1, HeldStep
<1>3. TokensOK'
  BY <1>1, Widened DEF TokensOK, SendInv, SATypeOK
<1> QED
  BY <1>1, <1>2, <1>3

(* A 401 to the token that an attempt left with.                                *)
LEMMA TokensRefused ==
    ASSUME SendInv, NEW r \in Requests, NEW a \in Attempts, stage[r][a] = "sent",
           refused' = [refused EXCEPT ![r] = @ \cup {carried[r][a]}],
           DeleteToken(r), header' = header
    PROVE  /\ TokensOK' /\ HeldInv' /\ issued' \in Nat /\ issued' >= issued
           /\ header' \in [Requests -> 0 .. issued'] /\ \A q \in Requests : header[q] <= header'[q]
<1> DEFINE c == carried[r][a]
<1>0. issued \in Nat /\ held \in 0 .. issued /\ undeleted \subseteq 1 .. issued
  BY DEF SendInv, SATypeOK
<1>1. c \in 1 .. issued /\ c <= header[r] /\ header[r] \in 1 .. issued
  BY DEF SendInv, SATypeOK, AttemptInv
<1>2. /\ issued' = issued /\ renewals' = renewals
      /\ \/ held' = (IF held = header[r] THEN 0 ELSE held) /\ undeleted' = undeleted
         \/ held' = held /\ undeleted' = undeleted \cup {header[r]}
  BY DEF DeleteToken, Drop, session
<1>3. refused' \in [Requests -> SUBSET (1 .. issued)]
  BY <1>1 DEF SendInv, SATypeOK
<1>4. TokensOK'
  <2>1. undeleted' \subseteq 1 .. issued
    <3>1. undeleted' \subseteq undeleted \cup {header[r]}
      BY <1>2
    <3> QED
      BY <1>0, <1>1, <3>1
  <2>2. held' \in 0 .. issued
    BY <1>0, <1>2
  <2> QED
    BY <1>2, <1>3, <2>1, <2>2 DEF SendInv, SATypeOK, TokensOK
<1>5. ASSUME NEW q \in Requests, held' # 0, held' \in refused'[q] PROVE held' \in undeleted'
  <2>1. held' = held /\ held = issued /\ undeleted \subseteq undeleted'
    BY <1>2, <1>5 DEF SendInv, HeldInv
  <2>2. CASE held \in refused[q]
    BY <1>5, <2>1, <2>2 DEF SendInv, HeldInv
  <2>3. CASE held \notin refused[q]
    <3>1. held = c
      <4>1. refused'[q] \subseteq refused[q] \cup {c}
        BY DEF SendInv, SATypeOK
      <4> QED
        BY <1>5, <2>1, <2>3, <4>1
    <3>2. held = header[r]
      BY <1>0, <1>1, <2>1, <3>1
    <3> QED
      BY <1>2, <1>5, <2>1, <3>2
  <2> QED
    BY <2>2, <2>3
<1>6. held' \in {0, issued'}
  BY <1>2 DEF SendInv, HeldInv
<1> QED
  BY <1>2, <1>4, <1>5, <1>6 DEF HeldInv, SendInv, SATypeOK

(* Every step keeps the inductive invariant.                                   *)
LEMMA SendStep == SendInv /\ [SANext]_saVars => SendInv'
<1> SUFFICES ASSUME SendInv, [SANext]_saVars PROVE SendInv'
  OBVIOUS
<1> DEFINE Goal == /\ TokensOK' /\ AttemptsOK' /\ HeldInv' /\ AttemptInv'
                   /\ config' \in [Requests -> Configs] /\ pc' \in [Requests -> Points]
<1>1. Goal => SendInv'
  BY DEF SATypeOK, SendInv, TokensOK, AttemptsOK, Points, Stages
<1>2. /\ config \in [Requests -> Configs] /\ pc \in [Requests -> Points]
      /\ answered \in [Requests -> BOOLEAN] /\ stage \in [Requests -> [Attempts -> Stages]]
  BY DEF SendInv, SATypeOK, Points, Stages
<1>3. ASSUME NEW r \in Requests, End(r) \/ EndThrows(r) \/ StartFails(r) PROVE Goal
  <2>1. /\ UNCHANGED <<session, header, refused, undeleted>>
        /\ UNCHANGED <<config, carried, tried, ticking>> /\ stage' = stage
        /\ answered' \in [Requests -> BOOLEAN] /\ pc' \in [Requests -> Points]
        /\ \A q \in Requests :
              /\ pc[q] = "running" <=> pc'[q] = "running"
              /\ pc'[q] = "injected" => pc[q] = "injected"
    BY <1>2, <1>3 DEF End, EndThrows, StartFails, InjectFails, Answer, Points
  <2>2. /\ TokensOK' /\ HeldInv' /\ issued' \in Nat /\ issued' >= issued
        /\ header' \in [Requests -> 0 .. issued'] /\ \A q \in Requests : header[q] <= header'[q]
    BY <2>1, TokensStay
  <2>3. stage' \in [Requests -> [Attempts -> Stages]]
    BY <1>2, <2>1
  <2>4. AttemptInv' /\ AttemptsOK'
    BY <2>1, <2>2, <2>3, AttemptsStay
  <2> QED
    BY <1>2, <2>1, <2>2, <2>4
<1>4. ASSUME NEW r \in Requests, StartInjects(r) PROVE Goal
  <2>1. /\ Inject(r) /\ pc[r] = "starting" /\ pc' = [pc EXCEPT ![r] = "injected"]
        /\ UNCHANGED <<config, stage, carried, tried, ticking, answered, refused, undeleted>>
    BY <1>4 DEF StartInjects
  <2>2. /\ TokensOK' /\ HeldInv' /\ issued' \in Nat /\ issued' >= issued /\ header'[r] # 0
        /\ header' \in [Requests -> 0 .. issued'] /\ \A q \in Requests : header[q] <= header'[q]
    BY <2>1, TokensTaken, Injected
  <2>3. AttemptInv' /\ AttemptsOK'
    BY <1>2, <2>1, <2>2, AttemptsStay
  <2> QED
    BY <1>2, <2>1, <2>2, <2>3 DEF Points
<1>5. ASSUME NEW r \in Requests, Start(r) PROVE Goal
  <2>1. /\ TokensOK' /\ HeldInv' /\ issued' = issued /\ header' = header
    BY <1>5, TokensStay DEF Start, session
  <2>2. header[r] # 0 /\ header[r] \in 0 .. issued /\ 0 \in Attempts /\ Attempts \subseteq Nat
    BY <1>5, Budgets DEF Start, SendInv, AttemptInv, SATypeOK
  <2>3. /\ stage' = [stage EXCEPT ![r] = [stage[r] EXCEPT ![0] = "sent"]]
        /\ carried' = [carried EXCEPT ![r] = [carried[r] EXCEPT ![0] = header[r]]]
        /\ ticking' = [ticking EXCEPT ![r] = TRUE] /\ pc' = [pc EXCEPT ![r] = "running"]
        /\ UNCHANGED <<config, tried, answered>> /\ pc[r] = "injected"
    BY <1>5 DEF Start, Leave
  <2>4. carried \in [Requests -> [Attempts -> 0 .. issued]]
    BY DEF SendInv, SATypeOK
  <2>5. [carried[r] EXCEPT ![0] = header[r]] \in [Attempts -> 0 .. issued]
    BY <2>2, <2>4
  <2>6. carried' \in [Requests -> [Attempts -> 0 .. issued]]
    BY <2>3, <2>4, <2>5
  <2>7. [stage[r] EXCEPT ![0] = "sent"] \in [Attempts -> Stages]
    BY <1>2 DEF Stages
  <2>8. AttemptsOK'
    BY <1>2, <2>1, <2>3, <2>6, <2>7 DEF SendInv, SATypeOK, AttemptsOK, Budget, Retries401
  <2>9. \A a \in Attempts : stage'[r][a] = IF a = 0 THEN "sent" ELSE "none"
    BY <1>2, <2>2, <2>3 DEF SendInv, AttemptInv
  <2>10. \A a \in Attempts :
            carried'[r][a] = (IF a = 0 THEN header[r] ELSE carried[r][a]) /\ carried'[r][a] <= header[r]
    BY <2>2, <2>3, <2>4 DEF SendInv, AttemptInv, SATypeOK
  <2>11. tried[r] \in Nat /\ \A a \in Attempts : ~(a < 0)
    BY <2>2 DEF SendInv, SATypeOK
  <2>12. ASSUME NEW q \in Requests, q # r
         PROVE  stage'[q] = stage[q] /\ carried'[q] = carried[q] /\ ticking'[q] = ticking[q]
                /\ pc'[q] = pc[q]
    BY <1>2, <2>3, <2>4, <2>12
  <2>13. AttemptInv'
    <3>1. /\ pc'[r] = "running" /\ header'[r] # 0
          /\ \A a \in Attempts :
                 /\ carried'[r][a] <= header'[r]
                 /\ stage'[r][a] = "sent" => carried'[r][a] # 0
                 /\ stage'[r][a] # "none" => a <= tried'[r]
          /\ \A a, b \in Attempts :
                 a < b /\ stage'[r][b] # "none" => carried'[r][a] <= carried'[r][b]
      BY <1>2, <2>1, <2>2, <2>3, <2>9, <2>10, <2>11
    <3>2. ASSUME NEW q \in Requests, q # r
          PROVE  /\ pc'[q] # "running" => ~ticking'[q] /\ \A a \in Attempts : stage'[q][a] = "none"
                 /\ pc'[q] \in {"injected", "running"} => header'[q] # 0
                 /\ \A a \in Attempts :
                       /\ carried'[q][a] <= header'[q]
                       /\ stage'[q][a] = "sent" => carried'[q][a] # 0
                       /\ stage'[q][a] # "none" => a <= tried'[q]
                 /\ \A a, b \in Attempts :
                       a < b /\ stage'[q][b] # "none" => carried'[q][a] <= carried'[q][b]
      BY <2>1, <2>3, <2>12, <3>2 DEF SendInv, AttemptInv
    <3> QED
      BY <3>1, <3>2 DEF AttemptInv
  <2>14. config' \in [Requests -> Configs] /\ pc' \in [Requests -> Points]
    BY <1>2, <2>3 DEF Points
  <2> QED
    BY <2>1, <2>8, <2>13, <2>14
<1>6. ASSUME NEW r \in Requests, NEW a \in Attempts, NEW o \in Outcomes,
             Ends(r, a, o) \/ Renewed(r, a) \/ NotRenewed(r, a)
      PROVE  Goal
  <2>1. /\ UNCHANGED <<session, config, pc, header, refused, undeleted>> /\ stage[r][a] # "none"
        /\ Callback(r, o, Over(r, a)) \/ Callback(r, "unauthorized", Over(r, a))
    BY <1>6 DEF Ends, Renewed, NotRenewed
  <2>2. TokensOK' /\ HeldInv' /\ issued' = issued
    BY <2>1, TokensStay DEF session
  <2>3. AttemptInv' /\ AttemptsOK'
    BY <2>1, <2>2, OverIsOver, AttemptsMove
  <2> QED
    BY <1>2, <2>1, <2>2, <2>3
<1>7. ASSUME NEW r \in Requests, NEW a \in Attempts, Unauthorized(r, a) PROVE Goal
  <2>1. /\ TokensOK' /\ HeldInv' /\ issued' \in Nat /\ issued' >= issued
        /\ header' \in [Requests -> 0 .. issued'] /\ \A q \in Requests : header[q] <= header'[q]
    BY <1>7, TokensRefused DEF Unauthorized
  <2>2. /\ stage[r][a] = "sent" /\ stage' = [stage EXCEPT ![r][a] = "renewing"]
        /\ UNCHANGED <<config, pc, header, carried, tried, ticking, answered>>
    BY <1>7 DEF Unauthorized
  <2>3. /\ stage' \in [Requests -> [Attempts -> Stages]]
        /\ \A q \in Requests, b \in Attempts :
              /\ stage[q][b] = "none" <=> stage'[q][b] = "none"
              /\ stage'[q][b] = "sent" => stage[q][b] = "sent"
    BY <1>2, <2>2 DEF Stages
  <2>4. AttemptInv' /\ AttemptsOK'
    BY <1>2, <2>1, <2>2, <2>3, AttemptsStay
  <2> QED
    BY <1>2, <2>1, <2>2, <2>4
<1>8. ASSUME NEW r \in Requests, NEW a \in Attempts, RenewalInjects(r, a) PROVE Goal
  <2>1. /\ Inject(r) /\ stage[r][a] = "renewing" /\ stage' = [stage EXCEPT ![r][a] = "injected"]
        /\ UNCHANGED <<config, pc, carried, tried, ticking, answered, refused, undeleted>>
    BY <1>8 DEF RenewalInjects
  <2>2. /\ TokensOK' /\ HeldInv' /\ issued' \in Nat /\ issued' >= issued
        /\ header' \in [Requests -> 0 .. issued'] /\ \A q \in Requests : header[q] <= header'[q]
    BY <2>1, TokensTaken
  <2>3. /\ stage' \in [Requests -> [Attempts -> Stages]]
        /\ \A q \in Requests, b \in Attempts :
              /\ stage[q][b] = "none" <=> stage'[q][b] = "none"
              /\ stage'[q][b] = "sent" => stage[q][b] = "sent"
    BY <1>2, <2>1 DEF Stages
  <2>4. AttemptInv' /\ AttemptsOK'
    BY <1>2, <2>1, <2>2, <2>3, AttemptsStay
  <2> QED
    BY <1>2, <2>1, <2>2, <2>4
<1>9. ASSUME NEW r \in Requests, TimesOut(r) PROVE Goal
  <2>1. TokensOK' /\ HeldInv' /\ UNCHANGED <<issued, header>>
    BY <1>9, TokensStay DEF TimesOut, session
  <2> DEFINE s == [a \in Attempts |-> IF stage[r][a] = "sent" THEN "over" ELSE stage[r][a]]
  <2>2. /\ s \in [Attempts -> Stages] /\ pc[r] = "running"
        /\ \A b \in Attempts : s[b] # "none" => stage[r][b] # "none"
        /\ \A b \in Attempts : s[b] = "sent" => stage[r][b] = "sent"
    BY <1>2, <1>9 DEF TimesOut, SendInv, AttemptInv, Stages
  <2>3. Callback(r, "failed", s) /\ UNCHANGED <<config, pc>>
    BY <1>9 DEF TimesOut
  <2> HIDE DEF s
  <2>4. AttemptInv' /\ AttemptsOK'
    BY <2>1, <2>2, <2>3, AttemptsMove
  <2> QED
    BY <1>2, <2>1, <2>3, <2>4
<1>10. CASE Renew
  <2>1. /\ issued' = issued + 1 /\ held' = issued' /\ renewals' \in 0 .. MaxRenewals
        /\ UNCHANGED <<config, pc, header, stage, carried, tried, ticking, answered,
                       refused, undeleted>>
        /\ issued' \in Nat /\ issued' >= issued
    BY <1>10 DEF Renew, SendInv, SATypeOK
  <2>2. header' \in [Requests -> 0 .. issued'] /\ \A q \in Requests : header[q] <= header'[q]
    BY <2>1, Widened DEF SendInv, SATypeOK
  <2>3. AttemptInv' /\ AttemptsOK'
    BY <1>2, <2>1, <2>2, AttemptsStay
  <2>4. HeldInv'
    BY <2>1, HeldStep
  <2>5. TokensOK'
    BY <2>1, <2>2, Widened DEF TokensOK
  <2>6. config' \in [Requests -> Configs] /\ pc' \in [Requests -> Points]
    BY <1>2, <2>1
  <2> QED
    BY <1>1, <2>3, <2>4, <2>5, <2>6
<1>11. CASE UNCHANGED saVars
  <2>1. /\ TokensOK' /\ HeldInv' /\ issued' \in Nat /\ issued' >= issued
        /\ header' \in [Requests -> 0 .. issued'] /\ \A q \in Requests : header[q] <= header'[q]
    BY <1>11, TokensStay DEF saVars, session
  <2>2. AttemptInv' /\ AttemptsOK'
    BY <1>2, <1>11, <2>1, AttemptsStay DEF saVars
  <2>3. config' \in [Requests -> Configs] /\ pc' \in [Requests -> Points]
    BY <1>2, <1>11 DEF saVars
  <2> QED
    BY <1>1, <2>1, <2>2, <2>3
<1>12. \A r \in Requests, a \in Attempts : Renewed(r, a) \/ NotRenewed(r, a) => Goal
  <2>1. "ok" \in Outcomes
    BY DEF Outcomes
  <2> QED
    BY <1>6, <2>1
<1>13. \A r \in Requests : Progress(r) => Goal
  BY <1>3, <1>4, <1>5, <1>6, <1>7, <1>8, <1>9, <1>12 DEF Progress
<1> QED
  BY <1>1, <1>3, <1>10, <1>11, <1>13 DEF SANext, AllDone

(* So it holds in every state of a behaviour.                                  *)
LEMMA SendInvariant == SASpec => []SendInv
<1>1. SAInit => SendInv
  <2> SUFFICES ASSUME SAInit PROVE SendInv
    OBVIOUS
  <2>1. SATypeOK
    BY Budgets DEF SAInit, SATypeOK
  <2>2. HeldInv /\ AttemptInv
    BY Budgets DEF SAInit, HeldInv, AttemptInv
  <2> QED
    BY <2>1, <2>2 DEF SendInv
<1> QED
  BY <1>1, SendStep, PTL DEF SASpec

(* Every variable keeps its type, the retries of each request among them.       *)
THEOREM SuperagentTypes == SASpec => []SATypeOK
<1>1. SendInv => SATypeOK
  BY DEF SendInv
<1> QED
  BY <1>1, SendInvariant, PTL

(* What an attempt that is over was, if a hook had set its header.              *)
LEMMA AttemptOver ==
    ASSUME SendInv, [SANext]_saVars, NEW r \in Requests, NEW a \in Attempts,
           stage[r][a] = "injected", stage'[r][a] = "over"
    PROVE  Renewed(r, a)
<1> SUFFICES ASSUME ~ Renewed(r, a) PROVE FALSE
  OBVIOUS
<1>0. stage \in [Requests -> [Attempts -> Stages]]
  BY DEF SendInv, SATypeOK, Stages
<1>1. ASSUME NEW q \in Requests, NEW o, NEW s \in [Attempts -> Stages], Callback(q, o, s),
             config' = config, q = r => s[a] = "injected"
      PROVE  FALSE
  <2>1. q = r
    BY <1>1, CallbackStages
  <2>2. \/ stage'[r] = s
        \/ tried'[r] \in Attempts /\ stage'[r] = [s EXCEPT ![tried'[r]] = "sent"]
    BY <1>1, <2>1, CallbackStages
  <2> QED
    BY <1>1, <2>1, <2>2
<1>2. ASSUME NEW q \in Requests, NEW b \in Attempts, q # r \/ b # a
      PROVE  Over(q, b) \in [Attempts -> Stages] /\ (q = r => Over(q, b)[a] = "injected")
  BY <1>0, <1>2 DEF Over, Stages
<1>3. ~ UNCHANGED stage
  OBVIOUS
<1>4. ASSUME NEW q \in Requests, Start(q) PROVE FALSE
  BY <1>0, <1>4 DEF Start, Leave
<1>5. ASSUME NEW q \in Requests, NEW b \in Attempts, NEW o,
             Ends(q, b, o) \/ Renewed(q, b) \/ NotRenewed(q, b)
      PROVE  FALSE
  <2>1. /\ Callback(q, o, Over(q, b)) \/ Callback(q, "unauthorized", Over(q, b))
        /\ config' = config /\ (q # r \/ b # a)
    BY <1>5 DEF Ends, Renewed, NotRenewed
  <2> QED
    BY <1>1, <1>2, <2>1
<1>6. ASSUME NEW q \in Requests, NEW b \in Attempts, Unauthorized(q, b) \/ RenewalInjects(q, b)
      PROVE  FALSE
  BY <1>0, <1>6 DEF Unauthorized, RenewalInjects
<1>8. ASSUME NEW q \in Requests, TimesOut(q) PROVE FALSE
  <2> DEFINE s == [b \in Attempts |-> IF stage[q][b] = "sent" THEN "over" ELSE stage[q][b]]
  <2>1. s \in [Attempts -> Stages] /\ (q = r => s[a] = "injected")
    BY <1>0 DEF Stages
  <2>2. Callback(q, "failed", s) /\ config' = config
    BY <1>8 DEF TimesOut
  <2> HIDE DEF s
  <2> QED
    BY <1>1, <2>1, <2>2
<1> QED
  BY <1>3, <1>4, <1>5, <1>6, <1>8
     DEF SANext, Progress, End, StartInjects, EndThrows, StartFails, Renew, AllDone, saVars

(* A request takes from the session only a token it was refused with, but for    *)
(* the late 401 of an attempt that the timer sent.                              *)
THEOREM SuperagentRefusedAlone == SASpec => OnlyRefusedTokensDropped
<1> DEFINE Refused ==
      held # 0 /\ held' = 0 =>
          \E r \in Requests :
            \/ held \in refused'[r]
            \/ \E a \in Attempts : /\ stage[r][a] = "sent" /\ stage'[r][a] # "sent"
                                 /\ held = header[r] /\ carried[r][a] # header[r]
<1>1. ASSUME SendInv, [SANext]_saVars, held # 0, held' = 0
      PROVE  \E r \in Requests :
               \/ held \in refused'[r]
               \/ \E a \in Attempts : /\ stage[r][a] = "sent" /\ stage'[r][a] # "sent"
                                    /\ held = header[r] /\ carried[r][a] # header[r]
  <2>1. ~ UNCHANGED session /\ \A r \in Requests : ~ Inject(r)
    BY <1>1, Injected DEF session
  <2>2. ~ Renew
    BY <1>1 DEF Renew, SendInv, SATypeOK
  <2>3. PICK r \in Requests, a \in Attempts : Unauthorized(r, a)
    BY <1>1, <2>1, <2>2 DEF SANext, Progress, End, StartInjects, Start, EndThrows, StartFails, Ends,
       RenewalInjects, Renewed, NotRenewed, TimesOut, AllDone, saVars, session
  <2>4. stage[r][a] = "sent" /\ held = header[r]
    BY <1>1, <2>1, <2>3 DEF Unauthorized, DeleteToken, Drop
  <2>5. carried[r][a] \in refused'[r] /\ stage'[r][a] # "sent"
    BY <1>1, <2>3 DEF Unauthorized, SendInv, SATypeOK
  <2> QED
    BY <2>4, <2>5
<1>2. SendInv /\ [SANext]_saVars => [Refused]_saVars
  BY <1>1
<1> QED
  BY <1>2, SendInvariant, PTL DEF SASpec, OnlyRefusedTokensDropped

(* The hook of a 401 knows of the refusal; and the token it put in the header was *)
(* not refused since, but by an attempt that overtook it.                       *)
HookOK(r, a) ==
    /\ stage[r][a] \in {"renewing", "injected"} => carried[r][a] \in refused[r]
    /\ stage[r][a] = "injected" =>
          header[r] \notin refused[r] \/ header[r] \in undeleted \/ Overtaken(r, a)

HookInv == \A r \in Requests, a \in Attempts : HookOK(r, a)

(* A step that leaves the header and the refusals of a request alone.            *)
LEMMA HookKept ==
    ASSUME SendInv, NEW r \in Requests, NEW a \in Attempts, HookOK(r, a),
           stage'[r][a] \in {"renewing", "injected"} => stage'[r][a] = stage[r][a],
           header'[r] = header[r], refused'[r] = refused[r], undeleted \subseteq undeleted',
           tried[r] <= tried'[r], tried'[r] \in Nat,
           \A b \in Attempts : b <= tried[r] => carried'[r][b] = carried[r][b]
    PROVE  HookOK(r, a)'
<1>1. /\ tried[r] \in Nat /\ tried[r] <= Budget(r) /\ Budget(r) \in Nat /\ a \in Nat
      /\ \A n \in 0 .. Budget(r) : n \in Attempts
  BY Budgets DEF SendInv, SATypeOK
<1>2. SUFFICES ASSUME stage'[r][a] \in {"renewing", "injected"} PROVE HookOK(r, a)'
  BY DEF HookOK
<1>3. a <= tried[r] /\ carried'[r][a] = carried[r][a] /\ stage'[r][a] = stage[r][a]
  BY <1>2 DEF SendInv, AttemptInv
<1>4. Overtaken(r, a) => Overtaken(r, a)'
  <2> SUFFICES ASSUME NEW b \in (a + 1) .. tried[r],
                      carried[r][b] = header[r], carried[r][a] # header[r]
               PROVE  Overtaken(r, a)'
    BY DEF Overtaken
  <2>1. b \in Attempts /\ b <= tried[r] /\ b \in (a + 1) .. tried'[r]
    BY <1>1
  <2> QED
    BY <1>3, <2>1 DEF Overtaken
<1> QED
  BY <1>2, <1>3, <1>4 DEF HookOK

(* The original callback touches no hook but the one that ends with it.          *)
LEMMA HooksOfCallback ==
    ASSUME SendInv, HookInv, UNCHANGED <<config, header, refused, undeleted>>,
           NEW q \in Requests, NEW o, NEW s \in [Attempts -> Stages], Callback(q, o, s),
           \A b \in Attempts : s[b] \in {"renewing", "injected"} => stage[q][b] = s[b]
    PROVE  HookInv'
<1> SUFFICES ASSUME NEW r \in Requests, NEW a \in Attempts PROVE HookOK(r, a)'
  BY DEF HookInv
<1>1. /\ tried' \in [Requests -> Nat]
      /\ \A p \in Requests \ {q} : stage'[p] = stage[p] /\ carried'[p] = carried[p]
                                   /\ tried'[p] = tried[p] /\ ticking'[p] = ticking[p]
      /\ tried'[q] \in {tried[q], tried[q] + 1}
      /\ \/ stage'[q] = s /\ carried' = carried /\ ~ticking'[q]
         \/ /\ tried'[q] = tried[q] + 1 /\ tried'[q] \in Attempts
            /\ stage'[q] = [s EXCEPT ![tried'[q]] = "sent"]
            /\ carried' = [carried EXCEPT ![q][tried'[q]] = header[q]]
  <2>1. config' = config
    OBVIOUS
  <2> QED
    BY <2>1, CallbackStep
<1>2. /\ tried \in [Requests -> Nat] /\ carried \in [Requests -> [Attempts -> 0 .. issued]]
      /\ Attempts \subseteq Nat /\ HookOK(r, a)
  BY Budgets DEF SendInv, SATypeOK, HookInv
<1>3. CASE r # q
  BY <1>1, <1>2, <1>3, HookKept
<1>4. CASE r = q
  <2>1. stage'[r][a] \in {"renewing", "injected"} => stage'[r][a] = stage[r][a]
    BY <1>1, <1>4
  <2>2. \A b \in Attempts : b <= tried[r] => carried'[r][b] = carried[r][b]
    <3> SUFFICES ASSUME NEW b \in Attempts, b <= tried[r] PROVE carried'[r][b] = carried[r][b]
      OBVIOUS
    <3>1. b # tried[r] + 1
      BY <1>2
    <3> QED
      BY <1>1, <1>2, <1>4, <3>1
  <2>3. tried[r] <= tried'[r] /\ tried'[r] \in Nat
    BY <1>1, <1>2, <1>4
  <2> QED
    BY <1>2, <2>1, <2>2, <2>3, HookKept
<1> QED
  BY <1>3, <1>4

(* A 401 tells the hook of its attempt; the others find their token refused only  *)
(* if it was sent after them.                                                   *)
LEMMA HooksOfRefusal ==
    ASSUME SendInv, HookInv, NEW q \in Requests, NEW b \in Attempts, Unauthorized(q, b)
    PROVE  HookInv'
<1> SUFFICES ASSUME NEW r \in Requests, NEW a \in Attempts PROVE HookOK(r, a)'
  BY DEF HookInv
<1>1. /\ stage[q][b] = "sent" /\ stage' = [stage EXCEPT ![q][b] = "renewing"]
      /\ refused' = [refused EXCEPT ![q] = @ \cup {carried[q][b]}]
      /\ UNCHANGED <<header, carried, tried>> /\ undeleted \subseteq undeleted'
  BY DEF Unauthorized, DeleteToken
<1>2. /\ stage \in [Requests -> [Attempts -> Stages]] /\ HookOK(r, a)
      /\ refused \in [Requests -> SUBSET (1 .. issued)]
      /\ Attempts \subseteq Nat /\ tried \in [Requests -> Nat] /\ header[q] \in Nat
      /\ \A c \in Attempts : carried[q][c] \in Nat
  BY Budgets DEF SendInv, SATypeOK, HookInv, Stages
<1>3. CASE r # q
  BY <1>1, <1>2, <1>3, HookKept
<1>4. CASE r = q /\ a = b
  BY <1>1, <1>2, <1>4 DEF HookOK
<1>5. CASE r = q /\ a # b
  <2>1. stage'[r][a] = stage[r][a] /\ refused'[r] = refused[r] \cup {carried[r][b]}
    BY <1>1, <1>2, <1>5
  <2>2. Overtaken(r, a)' <=> Overtaken(r, a)
    BY <1>1 DEF Overtaken
  <2>3. ASSUME stage[r][a] = "injected", carried[r][b] = header[r]
        PROVE  header[r] \in undeleted \/ Overtaken(r, a)
    <3>1. CASE carried[r][a] = header[r]
      BY <1>2, <2>3, <3>1 DEF HookOK, Overtaken
    <3>2. CASE carried[r][a] # header[r]
      <4>1. b <= tried[r] /\ carried[r][a] <= header[r]
            /\ (b < a => carried[r][b] <= carried[r][a])
        <5>1. stage[r][a] # "none" /\ stage[r][b] # "none"
          BY <1>1, <1>5, <2>3
        <5> QED
          BY <5>1 DEF SendInv, AttemptInv
      <4>2. a \in Nat /\ b \in Nat /\ tried[r] \in Nat /\ ~(b < a)
        <5>1. /\ a \in Nat /\ b \in Nat /\ tried[r] \in Nat /\ header[r] \in Nat
              /\ carried[r][a] \in Nat /\ carried[r][b] \in Nat
          BY <1>2, <1>5
        <5>2. ~(carried[r][b] <= carried[r][a])
          BY <2>3, <3>2, <4>1, <5>1
        <5> QED
          BY <4>1, <5>1, <5>2
      <4>3. b \in (a + 1) .. tried[r]
        BY <1>5, <4>1, <4>2
      <4> QED
        BY <2>3, <3>2, <4>3 DEF Overtaken
    <3> QED
      BY <3>1, <3>2
  <2> QED
    BY <1>1, <1>2, <2>1, <2>2, <2>3 DEF HookOK
<1> QED
  BY <1>3, <1>4, <1>5

(* A header is given a token that was not refused, or not deleted.               *)
LEMMA HooksOfInjection ==
    ASSUME SendInv, HookInv, NEW q \in Requests, Inject(q),
           UNCHANGED <<carried, tried, refused, undeleted>>,
           \A r \in Requests, a \in Attempts :
               /\ stage'[r][a] = "renewing" => stage[r][a] = "renewing"
               /\ stage'[r][a] = "injected" =>
                     stage[r][a] = "injected" \/ (r = q /\ stage[r][a] = "renewing")
    PROVE  HookInv'
<1> SUFFICES ASSUME NEW r \in Requests, NEW a \in Attempts PROVE HookOK(r, a)'
  BY DEF HookInv
<1>1. /\ header'[q] = held' /\ held' # 0 /\ held' = IF held # 0 THEN held ELSE issued + 1
      /\ \A p \in Requests : p # q => header'[p] = header[p]
  BY Injected
<1>2. issued + 1 \notin refused[q] /\ (held # 0 /\ held \in refused[q] => held \in undeleted)
  BY DEF SendInv, SATypeOK, HeldInv
<1>3. HookOK(r, a) /\ tried[r] \in Nat
  BY DEF HookInv, SendInv, SATypeOK
<1>4. CASE r = q
  BY <1>1, <1>2, <1>3, <1>4 DEF HookOK
<1>5. CASE r # q
  <2>1. stage'[r][a] \in {"renewing", "injected"} => stage'[r][a] = stage[r][a]
    BY <1>5
  <2> QED
    BY <1>1, <1>3, <1>5, <2>1, HookKept
<1> QED
  BY <1>4, <1>5

LEMMA HookStep == SendInv /\ HookInv /\ [SANext]_saVars => HookInv'
<1> SUFFICES ASSUME SendInv, HookInv, [SANext]_saVars PROVE HookInv'
  OBVIOUS
<1>1. stage \in [Requests -> [Attempts -> Stages]] /\ tried \in [Requests -> Nat]
  BY DEF SendInv, SATypeOK, Stages
<1>2. ASSUME UNCHANGED <<header, stage, carried, tried, refused, undeleted>> PROVE HookInv'
  BY <1>2 DEF HookInv, HookOK, Overtaken
<1>3. ASSUME NEW q \in Requests, StartInjects(q) PROVE HookInv'
  BY <1>3, HooksOfInjection DEF StartInjects
<1>4. ASSUME NEW q \in Requests, Start(q) PROVE HookInv'
  <2> SUFFICES ASSUME NEW r \in Requests, NEW a \in Attempts PROVE HookOK(r, a)'
    BY DEF HookInv
  <2>1. /\ pc[q] = "injected" /\ UNCHANGED <<header, tried, refused, undeleted>>
        /\ stage' = [stage EXCEPT ![q] = [stage[q] EXCEPT ![0] = "sent"]]
        /\ carried' = [carried EXCEPT ![q][0] = header[q]]
    BY <1>4 DEF Start, Leave
  <2>2. stage[q][a] = "none"
    BY <2>1 DEF SendInv, AttemptInv
  <2>3. CASE r = q
    BY <1>1, <2>1, <2>2, <2>3 DEF HookOK
  <2>4. CASE r # q
    <3>1. /\ stage'[r] = stage[r] /\ carried'[r] = carried[r] /\ HookOK(r, a)
          /\ tried[r] <= tried'[r] /\ tried'[r] \in Nat
      BY <1>1, <2>1, <2>4 DEF SendInv, SATypeOK, HookInv
    <3> QED
      BY <2>1, <3>1, HookKept
  <2> QED
    BY <2>3, <2>4
<1>5. ASSUME NEW q \in Requests, NEW b \in Attempts, NEW o,
             Ends(q, b, o) \/ Renewed(q, b) \/ NotRenewed(q, b)
      PROVE  HookInv'
  <2>1. /\ Callback(q, o, Over(q, b)) \/ Callback(q, "unauthorized", Over(q, b))
        /\ UNCHANGED <<config, header, refused, undeleted>>
    BY <1>5 DEF Ends, Renewed, NotRenewed
  <2>2. /\ Over(q, b) \in [Attempts -> Stages]
        /\ \A c \in Attempts : Over(q, b)[c] \in {"renewing", "injected"} => stage[q][c] = Over(q, b)[c]
    BY <1>1 DEF Over, Stages
  <2> QED
    BY <2>1, <2>2, HooksOfCallback
<1>6. ASSUME NEW q \in Requests, TimesOut(q) PROVE HookInv'
  <2> DEFINE s == [a \in Attempts |-> IF stage[q][a] = "sent" THEN "over" ELSE stage[q][a]]
  <2>1. /\ s \in [Attempts -> Stages]
        /\ \A c \in Attempts : s[c] \in {"renewing", "injected"} => stage[q][c] = s[c]
    BY <1>1 DEF Stages
  <2>2. Callback(q, "failed", s) /\ UNCHANGED <<config, header, refused, undeleted>>
    BY <1>6 DEF TimesOut
  <2> HIDE DEF s
  <2> QED
    BY <2>1, <2>2, HooksOfCallback
<1>7. ASSUME NEW q \in Requests, NEW b \in Attempts, RenewalInjects(q, b) PROVE HookInv'
  <2>1. /\ Inject(q) /\ UNCHANGED <<carried, tried, refused, undeleted>>
        /\ stage[q][b] = "renewing" /\ stage' = [stage EXCEPT ![q][b] = "injected"]
    BY <1>7 DEF RenewalInjects
  <2>2. \A r \in Requests, a \in Attempts :
            /\ stage'[r][a] = "renewing" => stage[r][a] = "renewing"
            /\ stage'[r][a] = "injected" =>
                  stage[r][a] = "injected" \/ (r = q /\ stage[r][a] = "renewing")
    BY <1>1, <2>1
  <2> QED
    BY <2>1, <2>2, HooksOfInjection
<1>8. \A q \in Requests : Progress(q) => HookInv'
  <2>1. ASSUME NEW q \in Requests, EndThrows(q) \/ StartFails(q) PROVE HookInv'
    BY <1>2, <2>1 DEF EndThrows, StartFails
  <2> QED
    BY <1>3, <1>4, <1>5, <1>6, <1>7, <2>1, HooksOfRefusal DEF Progress
<1>9. ASSUME NEW q \in Requests, End(q) PROVE HookInv'
  BY <1>2, <1>9 DEF End
<1>10. Renew \/ UNCHANGED saVars => HookInv'
  BY <1>2 DEF Renew, saVars
<1> QED
  BY <1>8, <1>9, <1>10 DEF SANext, AllDone

(* The attempt that the hook of a 401 starts carries no token that its request    *)
(* was refused with, unless its deletion failed or the timer sent it before.     *)
THEOREM SuperagentNewToken == SASpec => RetryCarriesNewToken
<1> DEFINE NewToken ==
      \A r \in Requests, a \in Attempts :
          stage[r][a] = "injected" /\ stage'[r][a] = "over" /\ stage'[r][tried'[r]] = "sent" =>
            header[r] \notin refused[r] \/ header[r] \in undeleted \/ Overtaken(r, a)
<1>1. SAInit => HookInv
  BY DEF SAInit, HookInv, HookOK
<1>2. HookInv => NewToken
  BY DEF HookInv, HookOK
<1>3. SendInv /\ HookInv /\ [SANext]_saVars => [NewToken]_saVars
  BY <1>2
<1> QED
  BY <1>1, <1>3, HookStep, SendInvariant, PTL DEF SASpec, RetryCarriesNewToken
=============================================================================
