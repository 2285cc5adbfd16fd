----------------------- MODULE SynchronizedAsyncValue -----------------------
(***************************************************************************)
(* packages/core/src/concurrency: a value that is read through an          *)
(* asynchronous getter and, when it is missing, rejected by the validator  *)
(* or forcibly renewed, obtained from an asynchronous resolver that        *)
(* concurrent callers share.                                               *)
(*                                                                         *)
(* JavaScript runs a callback to its end, so one action is the code        *)
(* between two awaits.  A value is the number of the resolver invocation   *)
(* that produced it, 0 is undefined.                                       *)
(***************************************************************************)
EXTENDS Naturals

CONSTANTS
    Callers,     \* concurrent users of getValue; one pending call each
    MaxCalls,    \* bound: invocations of the resolver
    Stores       \* the kinds of store the getter and the setter may be given

ASSUME BoundAssumption == MaxCalls \in Nat
ASSUME StoresAssumption == Stores \subseteq {"cached", "memory", "remote"}

Invocations == 1 .. MaxCalls
Values      == 0 .. MaxCalls

VARIABLES
    store,         \* the kind of store; it never changes
    value,         \* what the getter would read now
    expired,       \* the values the validator rejects
    resolverCall,  \* this.resolverCall: the shared invocation, or 0
    calls,         \* invocations of the resolver so far
    phase,         \* of each invocation's promise
    unstorable,    \* the values resolved that the store throws on
    prev,          \* the value each invocation was given
    pc,            \* where each caller's getValue is suspended
    captured,      \* the getter's result in each caller's frame
    force,         \* each caller's forceResolve
    own,           \* the invocation each caller leads or joined
    result,        \* the last value each caller was given
    ahead          \* per caller, those whose store operation settles before its own

vars == <<store, value, expired, resolverCall, calls, phase, unstorable, prev,
          pc, captured, force, own, result, ahead>>

Phases == {"unused", "pending", "resolved", "rejected"}
Points == {"idle", "getting", "read", "leading", "storing", "stored", "set", "throwing",
           "joined"}

\* "cached" (SynchronizedAsyncCachedValue): the getter and the setter act when
\* they are called, their promises settle in call order, and the setter never
\* fails.  "memory" (a session over InMemoryTokenStore): the same, but its setter
\* throws before it keeps a token that it cannot log, one without expires_in, and
\* after it kept the token when a listener throws.  "remote": they act some time
\* later, in any order, and may reject.
Ordered == store # "remote"

TypeOK ==
    /\ store \in Stores
    /\ value \in Values
    /\ expired \in SUBSET Invocations
    /\ resolverCall \in Values
    /\ calls \in Values
    /\ phase \in [Invocations -> Phases]
    /\ unstorable \in SUBSET Invocations
    /\ prev \in [Invocations -> Values]
    /\ pc \in [Callers -> Points]
    /\ captured \in [Callers -> Values]
    /\ force \in [Callers -> BOOLEAN]
    /\ own \in [Callers -> Values]
    /\ result \in [Callers -> Values]
    /\ ahead \in [Callers -> SUBSET Callers]

Init ==
    /\ store \in Stores
    /\ value = 0
    /\ expired = {}
    /\ resolverCall = 0
    /\ calls = 0
    /\ phase = [k \in Invocations |-> "unused"]
    /\ unstorable = {}
    /\ prev = [k \in Invocations |-> 0]
    /\ pc = [c \in Callers |-> "idle"]
    /\ captured = [c \in Callers |-> 0]
    /\ force = [c \in Callers |-> FALSE]
    /\ own = [c \in Callers |-> 0]
    /\ result = [c \in Callers |-> 0]
    /\ ahead = [c \in Callers |-> {}]

-----------------------------------------------------------------------------
\* Callers that may still invoke the resolver.
Undecided == {c \in Callers : pc[c] \in {"getting", "read"}}

\* Every one of them and c can have an invocation of its own within MaxCalls.
HasRoom(c) ==
    \E f \in [Undecided \cup {c} -> calls + 1 .. MaxCalls] :
        \A d, e \in Undecided \cup {c} : f[d] = f[e] => d = e

\* Callers waiting for a promise of the getter or of the setter.
AwaitingStore == {c \in Callers : pc[c] \in {"read", "stored", "throwing"}}

\* c's operation settles after those already under way, if the store is ordered.
Queue(c) == ahead' = [ahead EXCEPT ![c] = IF Ordered THEN AwaitingStore ELSE {}]

\* The promise c awaits settles.
Settle(c) == /\ ahead[c] = {}
             /\ ahead' = [d \in Callers |-> ahead[d] \ {c}]

\* The callers between the invocation of the resolver and the finally block.
Leads(c) == pc[c] \in {"leading", "storing", "stored", "set", "throwing"}

\* The cached value is defined and accepted by the validator.
Valid(v) == v # 0 /\ v \notin expired

\* The value c read cannot be returned as it is.
NeedsResolve(c) == force[c] \/ ~Valid(captured[c])

\* The value read and forceResolve are used no more.
Forget(c) == /\ captured' = [captured EXCEPT ![c] = 0]
             /\ force' = [force EXCEPT ![c] = FALSE]

\* Faulty: the shared invocation is ignored.
NeverShared == TRUE

\* There is no invocation to share.
NoFlight == resolverCall = 0

\* Faulty: the finally block is missing.
NotReleased == resolverCall' = resolverCall

\* The finally block of getValue.
Release == resolverCall' = 0

\* Faulty: a value already there is kept.
WriteOnce(v) == value' = IF value = 0 THEN v ELSE value

\* The setter's effect.
Write(v) == value' = v

-----------------------------------------------------------------------------
(* getValue, up to the await of the getter.                                *)
Call(c, f) ==
    /\ pc[c] = "idle"
    /\ HasRoom(c)
    /\ pc' = [pc EXCEPT ![c] = IF Ordered THEN "read" ELSE "getting"]
    /\ captured' = [captured EXCEPT ![c] = IF Ordered THEN value ELSE 0]
    /\ force' = [force EXCEPT ![c] = f]
    /\ Queue(c)
    /\ UNCHANGED <<store, value, expired, resolverCall, calls, phase, unstorable, prev, own, result>>

(* A store that is not ordered reads its value some time after the call.   *)
StoreReads(c) ==
    /\ pc[c] = "getting"
    /\ pc' = [pc EXCEPT ![c] = "read"]
    /\ captured' = [captured EXCEPT ![c] = value]
    /\ UNCHANGED <<store, value, expired, resolverCall, calls, phase, unstorable, prev,
                   force, own, result, ahead>>

GetterFails(c) ==
    /\ ~Ordered
    /\ pc[c] = "read"
    /\ Settle(c)
    /\ pc' = [pc EXCEPT ![c] = "idle"]
    /\ Forget(c)
    /\ UNCHANGED <<store, value, expired, resolverCall, calls, phase, unstorable, prev, own,
                   result>>

ReturnCached(c) ==
    /\ pc[c] = "read"
    /\ Settle(c)
    /\ ~NeedsResolve(c)
    /\ result' = [result EXCEPT ![c] = captured[c]]
    /\ pc' = [pc EXCEPT ![c] = "idle"]
    /\ Forget(c)
    /\ UNCHANGED <<store, value, expired, resolverCall, calls, phase, unstorable, prev, own>>

Join(c) ==
    /\ pc[c] = "read"
    /\ Settle(c)
    /\ NeedsResolve(c)
    /\ ~NoFlight
    /\ own' = [own EXCEPT ![c] = resolverCall]
    /\ pc' = [pc EXCEPT ![c] = "joined"]
    /\ Forget(c)
    /\ UNCHANGED <<store, value, expired, resolverCall, calls, phase, unstorable, prev, result>>

Resolve(c) ==
    /\ pc[c] = "read"
    /\ Settle(c)
    /\ NeedsResolve(c)
    /\ NoFlight
    /\ calls < MaxCalls
    /\ calls' = calls + 1
    /\ resolverCall' = calls + 1
    /\ phase' = [phase EXCEPT ![calls + 1] = "pending"]
    /\ prev' = [prev EXCEPT ![calls + 1] = captured[c]]
    /\ own' = [own EXCEPT ![c] = calls + 1]
    /\ pc' = [pc EXCEPT ![c] = "leading"]
    /\ Forget(c)
    /\ UNCHANGED <<store, value, expired, unstorable, result>>

-----------------------------------------------------------------------------
(* The promise of the resolver, external to the class; u: the in-memory      *)
(* token store will throw on the value.                                     *)
ResolverReturns(k, u) ==
    /\ phase[k] = "pending"
    /\ u => store = "memory"
    /\ phase' = [phase EXCEPT ![k] = "resolved"]
    /\ unstorable' = IF u THEN unstorable \cup {k} ELSE unstorable
    /\ UNCHANGED <<store, value, expired, resolverCall, calls, prev,
                   pc, captured, force, own, result, ahead>>

ResolverThrows(k) ==
    /\ phase[k] = "pending"
    /\ phase' = [phase EXCEPT ![k] = "rejected"]
    /\ UNCHANGED <<store, value, expired, resolverCall, calls, unstorable, prev,
                   pc, captured, force, own, result, ahead>>

(* Faulty: the setter is called and not awaited.                           *)
StoreValueUnawaited(c) ==
    /\ Ordered
    /\ pc[c] = "leading"
    /\ phase[own[c]] = "resolved"
    /\ own[c] \notin unstorable
    /\ Write(own[c])
    /\ pc' = [pc EXCEPT ![c] = "set"]
    /\ UNCHANGED <<store, expired, resolverCall, calls, phase, unstorable, prev,
                   captured, force, own, result, ahead>>

(* The leader resumes with the new value and calls the setter.              *)
StoreValue(c) ==
    /\ Ordered
    /\ pc[c] = "leading"
    /\ phase[own[c]] = "resolved"
    /\ own[c] \notin unstorable
    /\ Write(own[c])
    /\ pc' = [pc EXCEPT ![c] = "stored"]
    /\ Queue(c)
    /\ UNCHANGED <<store, expired, resolverCall, calls, phase, unstorable, prev,
                   captured, force, own, result>>

(* The same, with a value the store throws on: the one it holds is kept.      *)
StoreThrows(c) ==
    /\ pc[c] = "leading"
    /\ phase[own[c]] = "resolved"
    /\ own[c] \in unstorable
    /\ pc' = [pc EXCEPT ![c] = "throwing"]
    /\ Queue(c)
    /\ UNCHANGED <<store, value, expired, resolverCall, calls, phase, unstorable, prev,
                   captured, force, own, result>>

(* The same, with a setter that takes its time.                           *)
StartStoring(c) ==
    /\ ~Ordered
    /\ pc[c] = "leading"
    /\ phase[own[c]] = "resolved"
    /\ pc' = [pc EXCEPT ![c] = "storing"]
    /\ UNCHANGED <<store, value, expired, resolverCall, calls, phase, unstorable, prev,
                   captured, force, own, result, ahead>>

(* A store that is not ordered takes the value some time after the call.    *)
ValueStored(c) ==
    /\ ~Ordered
    /\ pc[c] = "storing"
    /\ Write(own[c])
    /\ pc' = [pc EXCEPT ![c] = "stored"]
    /\ UNCHANGED <<store, expired, resolverCall, calls, phase, unstorable, prev,
                   captured, force, own, result, ahead>>

(* The store has acknowledged: what the setter still does runs here.        *)
SetterReplied(c) ==
    /\ pc[c] = "stored"
    /\ Settle(c)
    /\ pc' = [pc EXCEPT ![c] = "set"]
    /\ UNCHANGED <<store, value, expired, resolverCall, calls, phase, unstorable, prev,
                   captured, force, own, result>>

(* The setter rejects: the store threw, or failed, or a listener threw after  *)
(* the value was stored.                                                    *)
SetterFails(c) ==
    /\ \/ store = "memory" /\ pc[c] \in {"throwing", "set"}
       \/ store = "remote" /\ pc[c] \in {"storing", "stored", "set"}
    /\ Settle(c)
    /\ Release
    /\ pc' = [pc EXCEPT ![c] = "idle"]
    /\ own' = [own EXCEPT ![c] = 0]
    /\ UNCHANGED <<store, value, expired, calls, phase, unstorable, prev, captured, force,
                   result>>

Finish(c) ==
    /\ pc[c] = "set"
    /\ Release
    /\ result' = [result EXCEPT ![c] = own[c]]
    /\ pc' = [pc EXCEPT ![c] = "idle"]
    /\ own' = [own EXCEPT ![c] = 0]
    /\ UNCHANGED <<store, value, expired, calls, phase, unstorable, prev, captured, force,
                   ahead>>

(* Faulty: the rejection of the resolver is not propagated.                 *)
LeaderHangs(c) ==
    /\ pc[c] = "leading"
    /\ phase[own[c]] = "rejected"
    /\ UNCHANGED vars

LeaderFails(c) ==
    /\ pc[c] = "leading"
    /\ phase[own[c]] = "rejected"
    /\ Release
    /\ pc' = [pc EXCEPT ![c] = "idle"]
    /\ own' = [own EXCEPT ![c] = 0]
    /\ UNCHANGED <<store, value, expired, calls, phase, unstorable, prev, captured, force,
                   result, ahead>>

(* The reactions of a promise run in the order they were registered: the    *)
(* leader's, registered when it invoked the resolver, is the first.         *)
JoinerReturns(c) ==
    /\ pc[c] = "joined"
    /\ phase[own[c]] # "pending"
    /\ \A d \in Callers : pc[d] = "leading" => own[d] # own[c]
    /\ result' = IF phase[own[c]] = "resolved"
                 THEN [result EXCEPT ![c] = own[c]] ELSE result
    /\ pc' = [pc EXCEPT ![c] = "idle"]
    /\ own' = [own EXCEPT ![c] = 0]
    /\ UNCHANGED <<store, value, expired, resolverCall, calls, phase, unstorable, prev, captured,
                   force, ahead>>

-----------------------------------------------------------------------------
(* reset(), or the deletion of the value from the store it is kept in.      *)
Reset ==
    /\ value # 0
    /\ value' = 0
    /\ UNCHANGED <<store, expired, resolverCall, calls, phase, unstorable, prev,
                   pc, captured, force, own, result, ahead>>

(* From now on the validator rejects v.                                     *)
Expire(v) ==
    /\ v \notin expired
    /\ phase[v] = "resolved"
    /\ expired' = expired \cup {v}
    /\ UNCHANGED <<store, value, resolverCall, calls, phase, unstorable, prev,
                   pc, captured, force, own, result, ahead>>

(* The bound MaxCalls is reached: nothing more is asked.                    *)
Exhausted ==
    /\ calls = MaxCalls
    /\ \A c \in Callers : pc[c] = "idle"
    /\ UNCHANGED vars

-----------------------------------------------------------------------------
ResolverSettles(k) == (\E u \in BOOLEAN : ResolverReturns(k, u)) \/ ResolverThrows(k)

\* What the event loop and the store do for a call under way.
Progress(c) ==
    \/ StoreReads(c) \/ GetterFails(c) \/ ReturnCached(c) \/ Join(c) \/ Resolve(c)
    \/ StoreValue(c) \/ StoreThrows(c) \/ StartStoring(c) \/ ValueStored(c)
    \/ SetterReplied(c) \/ SetterFails(c) \/ Finish(c) \/ LeaderFails(c) \/ JoinerReturns(c)

Next ==
    \/ \E c \in Callers, f \in BOOLEAN : Call(c, f)
    \/ \E c \in Callers : Progress(c)
    \/ \E k \in Invocations : ResolverSettles(k) \/ Expire(k)
    \/ Reset
    \/ Exhausted

Spec == Init /\ [][Next]_vars

(* A promise that settles runs its reactions, the store answers, and the    *)
(* resolver given to the class settles: nothing else is assumed.            *)
Fairness ==
    /\ \A c \in Callers : WF_vars(Progress(c))
    /\ \A k \in Invocations : WF_vars(ResolverSettles(k))

FairSpec == Spec /\ Fairness

-----------------------------------------------------------------------------
(* Properties                                                              *)

\* At most one invocation of the resolver is pending, whatever the callers
\* (the test and assignment of this.resolverCall in getValue).
SingleFlight ==
    \A j, k \in Invocations :
        phase[j] = "pending" /\ phase[k] = "pending" => j = k

\* this.resolverCall is set exactly while one caller is on its way to the
\* finally block that clears it: a shared promise is never left behind, and
\* never cleared under a leader still storing its value.
FlightHasOneLeader ==
    /\ \A c \in Callers : Leads(c) => own[c] = resolverCall
    /\ \A c, d \in Callers : Leads(c) /\ Leads(d) => c = d
    /\ resolverCall # 0 => \E c \in Callers : Leads(c)

\* What the setter stores is the newest value ever resolved: a late setter
\* never overwrites a newer value with an older one.
StoreMovesForward ==
    [][ value' \notin {value, 0} =>
          \A k \in Invocations : phase[k] = "resolved" => k <= value' ]_vars

\* With an ordered store, the resolver is invoked without forceResolve only when
\* the value held at that moment is missing or rejected by the validator.
NoRedundantResolve ==
    [][ Ordered => \A c \in Callers :
            Resolve(c) /\ ~force[c] => ~Valid(value) ]_vars

\* With an ordered store, a caller that was given a value is never given an
\* older one later, whether it is served from the cache or by a resolution it
\* leads or joins, unless that value was shared with it by a leader whose store
\* threw on it: SynchronizedAsyncCachedValue has none, a session over
\* InMemoryTokenStore has the tokens without expires_in.
MonotonicReads ==
    [][ Ordered => \A c \in Callers :
            result[c] \in unstorable \/ result'[c] >= result[c] ]_vars

\* Every getValue settles, with a value or an error.
EveryCallReturns ==
    \A c \in Callers : pc[c] # "idle" ~> pc[c] = "idle"
=============================================================================
