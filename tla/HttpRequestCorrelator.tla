----------------------- MODULE HttpRequestCorrelator -----------------------
(***************************************************************************)
(* packages/core/src/http/HttpRequestCorrelator.ts with its users: the       *)
(* middleware of a server, the requestCorrelator plugin of superagent, and   *)
(* the timer of OidcSession.  AsyncLocalStorage is external: an execution is *)
(* a chain of continuations, each with the store of the one before; run      *)
(* nests a store and restores the outer one, enterWith replaces the innermost.*)
(***************************************************************************)
EXTENDS Naturals, Sequences, SequencesExt

CONSTANTS
    Handlers,  \* incoming requests; each is also the ID in its own headers
    Timer,     \* the timer of the session
    Sockets,   \* pooled connections, that call back in tasks of their own
    Targets,   \* of bind: superagent requests with the plugin, and functions
    MaxIds,    \* bound on the generated IDs
    MaxDepth,  \* bound on the nested contexts
    Undefined, \* no store
    Nobody     \* who acts for no transaction

ASSUME ExecutionAssumption ==
    /\ Handlers \cap Sockets = {}
    /\ Timer \notin Handlers \cup Sockets

ASSUME IdAssumption ==
    /\ MaxIds \in Nat
    /\ Handlers \cap 1 .. MaxIds = {}
    /\ Undefined \notin Handlers \cup 1 .. MaxIds
    /\ Nobody \notin Handlers \cup 1 .. MaxIds \cup {Undefined, Timer}

VARIABLES
    kind,    \* "request" or "function", of a target
    nextId,  \* the generator of IDs
    stack,   \* the stores of an execution, the innermost last
    timer,   \* the store in which the timeout was started
    bound,   \* the store bound to a target
    sent,    \* the header a request went out with last
    acting,  \* history: for whom an execution acts
    owner,   \* history: who was first given an ID
    binder   \* history: for whom, and with which ID, a target was bound

vars == <<kind, nextId, stack, timer, bound, sent, acting, owner, binder>>

Executions == Handlers \cup Sockets \cup {Timer}
Ids        == Handlers \cup 1 .. MaxIds
Stores     == Ids \cup {Undefined}
Actors     == Handlers \cup {Timer}

NotBound == [actor |-> Nobody, id |-> Undefined]

TypeOK ==
    /\ kind \in [Targets -> {"request", "function"}]
    /\ nextId \in 0 .. MaxIds
    /\ stack \in [Executions -> Seq(Stores)]
    /\ timer \in Stores \cup {Nobody}
    /\ bound \in [Targets -> Stores]
    /\ sent \in [Targets -> Stores \cup {Nobody}]
    /\ acting \in [Executions -> Actors \cup {Nobody}]
    /\ owner \in [Ids -> Actors \cup {Nobody}]
    /\ binder \in [Targets -> [actor : Actors \cup {Nobody}, id : Stores]]

\* A handler runs before its middleware; the others wait for the event loop.
Init ==
    /\ kind \in [Targets -> {"request", "function"}]
    /\ nextId = 0
    /\ stack = [e \in Executions |-> IF e \in Handlers THEN <<Undefined>> ELSE <<>>]
    /\ timer = Nobody
    /\ bound = [t \in Targets |-> Undefined]
    /\ sent = [t \in Targets |-> Nobody]
    /\ acting = [e \in Executions |-> IF e \in Handlers THEN e ELSE Nobody]
    /\ owner = [i \in Ids |-> Nobody]
    /\ binder = [t \in Targets |-> NotBound]

Running(e) == stack[e] # <<>>

-----------------------------------------------------------------------------
(* The storage and the correlator.                                           *)
getId(e) == Last(stack[e])

Entered(e, store) == [stack EXCEPT ![e] = Append(Front(@), store)]

Run(e, store) == [stack EXCEPT ![e] = Append(@, store)]

\* The ID of a context that starts: the one given, or a new one.
Installs(id, given, actor) ==
    /\ IF given # Undefined THEN id = given /\ UNCHANGED nextId
       ELSE /\ nextId < MaxIds
            /\ nextId' = nextId + 1
            /\ id = nextId'
    /\ owner' = [owner EXCEPT ![id] = IF @ = Nobody THEN actor ELSE @]

\* withId(work, cid): of the middleware, with the header or without, and
\* again of any work below it.
withId(e) ==
    /\ Running(e)
    /\ Len(stack[e]) < MaxDepth
    /\ acting[e] # Nobody
    /\ \E id \in Ids, given \in {Undefined} \cup ({e} \cap Handlers) :
        /\ Installs(id, given, acting[e])
        /\ stack' = Run(e, id)
    /\ UNCHANGED <<kind, timer, bound, sent, acting, binder>>

\* work returns, or throws.
WorkEnds(e) ==
    /\ Len(stack[e]) > 1
    /\ stack' = [stack EXCEPT ![e] = Front(@)]
    /\ UNCHANGED <<kind, nextId, timer, bound, sent, acting, owner, binder>>

\* Faulty: the store is set with the patched emit, the first time alone.
BoundOnce(e, t) == IF binder[t] = NotBound THEN getId(e) ELSE bound[t]

\* What storeProperty, or the wrapper of a function, keeps.
Bound(e, t) == getId(e)

\* bind(target): again of a target that is bound, emit is patched once and
\* reads the store of the last bind.
bind(e, t) ==
    /\ Running(e)
    /\ acting[e] # Nobody
    /\ bound' = [bound EXCEPT ![t] = Bound(e, t)]
    /\ binder' = [binder EXCEPT ![t] = [actor |-> acting[e], id |-> getId(e)]]
    /\ UNCHANGED <<kind, nextId, stack, timer, sent, acting, owner>>

\* The patched emit enters the store if there is one, the wrapper in any case.
Entering(e, t) ==
    IF bound[t] # Undefined \/ kind[t] = "function" THEN Entered(e, bound[t]) ELSE stack

\* A target is triggered by those who bound it, and by a connection, which
\* goes on for them: a handler that triggers a target of another would leave
\* its own context for good.
MayTrigger(e, t) ==
    /\ Running(e)
    /\ binder[t] # NotBound
    /\ \/ e \in Sockets /\ Len(stack[e]) = 1
       \/ acting[e] = binder[t].actor

ActsFor(e, t) ==
    acting' = [acting EXCEPT ![e] =
        IF e \notin Sockets THEN @
        ELSE IF bound[t] = Undefined THEN Nobody ELSE binder[t].actor]

\* A bound function is called, or a request emits its response or its error,
\* and the listeners run.
Trigger(e, t) ==
    /\ MayTrigger(e, t)
    /\ stack' = Entering(e, t)
    /\ ActsFor(e, t)
    /\ UNCHANGED <<kind, nextId, timer, bound, sent, owner, binder>>

\* 'request', of the first attempt or of a retry, each a new native request
\* without the header: one that the caller set is left alone (HttpClients).
EmitRequest(e, r) ==
    /\ kind[r] = "request"
    /\ MayTrigger(e, r)
    /\ stack' = Entering(e, r)
    /\ sent' = [sent EXCEPT ![r] = Last(stack'[e])]
    /\ ActsFor(e, r)
    /\ UNCHANGED <<kind, nextId, timer, bound, owner, binder>>

-----------------------------------------------------------------------------
(* The event loop.                                                           *)
\* A connection calls back, for whichever request, in the store with which it
\* was opened: here by an execution that is still in it.
TaskStarts(e, s) ==
    /\ Running(e)
    /\ ~Running(s)
    /\ stack' = [stack EXCEPT ![s] = <<getId(e)>>]
    /\ UNCHANGED <<kind, nextId, timer, bound, sent, acting, owner, binder>>

TaskEnds(e) ==
    /\ e \notin Handlers
    /\ Len(stack[e]) = 1
    /\ stack' = [stack EXCEPT ![e] = <<>>]
    /\ acting' = [acting EXCEPT ![e] = Nobody]
    /\ UNCHANGED <<kind, nextId, timer, bound, sent, owner, binder>>

-----------------------------------------------------------------------------
\* Faulty: the timeout is started in the context of the current transaction.
ScheduleHere(e) ==
    /\ Running(e)
    /\ timer' = getId(e)
    /\ UNCHANGED <<kind, nextId, stack, bound, sent, acting, owner, binder>>

\* scheduleRefresh of OidcSession, by whoever stored the token: clearTimer,
\* then withId around startTimer.
scheduleRefresh(e) ==
    /\ Running(e)
    /\ \E id \in Ids : Installs(id, Undefined, Timer) /\ timer' = id
    /\ UNCHANGED <<kind, stack, bound, sent, acting, binder>>

TimerFires ==
    /\ timer # Nobody
    /\ ~Running(Timer)
    /\ stack' = [stack EXCEPT ![Timer] = <<timer>>]
    /\ acting' = [acting EXCEPT ![Timer] = Timer]
    /\ timer' = Nobody
    /\ UNCHANGED <<kind, nextId, bound, sent, owner, binder>>

Next ==
    \/ \E e \in Executions :
        \/ withId(e) \/ WorkEnds(e) \/ TaskEnds(e) \/ scheduleRefresh(e)
        \/ \E t \in Targets : bind(e, t) \/ Trigger(e, t) \/ EmitRequest(e, t)
        \/ \E s \in Sockets : TaskStarts(e, s)
    \/ TimerFires

Spec == Init /\ [][Next]_vars

-----------------------------------------------------------------------------
(* Properties                                                              *)

\* Whoever sends a request or sends it again, a handler or a connection that
\* was opened by another, it carries the ID of the context in which it was
\* bound, if there was one.
RequestKeepsItsId ==
    [][\A r \in Targets : sent'[r] # sent[r] /\ binder[r].id # Undefined =>
            sent'[r] = binder[r].id]_vars

\* No transaction runs under the ID of another: the handlers, the callbacks
\* of their requests in tasks of the pool, and the scheduled refresh, "to
\* avoid mixing them with the current transaction".
TransactionsDoNotMix ==
    \A e \in Executions : Running(e) /\ acting[e] # Nobody /\ getId(e) # Undefined =>
        owner[getId(e)] = acting[e]
=============================================================================
