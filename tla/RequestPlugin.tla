--------------------------- MODULE RequestPlugin ---------------------------
(***************************************************************************)
(* packages/oidc-plugin-request: one object of class Request whose methods  *)
(* write, end and pipe, and callback, were overridden by customRequest.     *)
(* The caller writes the body piece by piece and ends the request; each of  *)
(* these calls waits for the onStart hooks of the plugins: the              *)
(* authenticator, then another.                                            *)
(*                                                                         *)
(* The library request is external: it sends the request at its first       *)
(* method call, and calls the callback once, for a response or an error.    *)
(***************************************************************************)
EXTENDS Naturals, Sequences

CONSTANTS
    MaxCalls,     \* calls of write and end; the last one is end
    MaxRenewals   \* renewals of the token by others (bound)

ASSUME BoundAssumption == MaxCalls \in Nat \ {0} /\ MaxRenewals \in Nat

VARIABLES
    held, issued, renewals,  \* the token of the session, tokens issued, renewals
    calls,      \* calls made so far
    startOf,    \* the start each call waits for, in order of the calls
    start,      \* this._start: the shared start, 0: undefined
    starts,     \* the state of each start, in order
    reaction,   \* where the chain of each call is
    forwarded,  \* the calls that reached the original methods, in order
    enabled,    \* enabledProperty
    header,     \* the token in the authorization header, 0: none
    token,      \* tokenProperty, 0: cleared
    sent,       \* the header the request left with; NotSent before
    answer,     \* what the library has called back with
    callback,   \* where onCallback is
    answers     \* times the caller's callback was called

session == <<held, issued, renewals>>
methods == <<calls, startOf, start, starts, reaction, forwarded>>
auth    == <<enabled, header, token>>
outcome == <<answer, callback, answers>>
vars == <<held, issued, renewals, calls, startOf, start, starts, reaction,
          forwarded, enabled, header, token, sent, answer, callback, answers>>

Calls == 1 .. MaxCalls  \* calls, and starts, are numbered in order

NotSent == MaxRenewals + MaxCalls + 1
Tokens  == 0 .. MaxRenewals + MaxCalls

TypeOK ==
    /\ held \in Tokens /\ issued \in Tokens /\ renewals \in 0 .. MaxRenewals
    /\ calls \in 0 .. MaxCalls
    /\ startOf \in Seq(1 .. Len(starts)) /\ Len(startOf) = calls
    /\ start \in 0 .. Len(starts)
    /\ starts \in Seq({"pending", "started", "failed"})
    /\ reaction \in Seq({"waiting", "threw", "ran", "over"}) /\ Len(reaction) = calls
    /\ forwarded \in Seq(1 .. calls)
    /\ enabled \in BOOLEAN /\ header \in Tokens /\ token \in Tokens
    /\ sent \in Tokens \cup {NotSent}
    /\ answer \in {"none", "error", "unauthorized", "response"}
    /\ callback \in {"none", "authenticator", "other", "caught", "resolved", "over"}
    /\ answers \in 0 .. 2

Init ==
    /\ held = 0 /\ issued = 0 /\ renewals = 0
    /\ calls = 0 /\ startOf = <<>> /\ start = 0 /\ starts = <<>>
    /\ reaction = <<>> /\ forwarded = <<>>
    /\ enabled = FALSE /\ header = 0 /\ token = 0
    /\ sent = NotSent
    /\ answer = "none" /\ callback = "none" /\ answers = 0

-----------------------------------------------------------------------------
\* The promise reactions of the starts that ended have run: the caller makes
\* its calls in later tasks, one or several at a time.
Drained == \A m \in 1 .. calls : reaction[m] = "over" \/ starts[startOf[m]] = "pending"

\* Faulty: each call makes the hooks run.
StartEach ==
    /\ calls < MaxCalls
    /\ Drained
    /\ calls' = calls + 1
    /\ reaction' = Append(reaction, "waiting")
    /\ starts' = Append(starts, "pending")
    /\ start' = Len(starts')
    /\ startOf' = Append(startOf, start')
    /\ UNCHANGED <<session, forwarded, auth, sent, outcome>>

(* The overridden method is called: it joins the start under way, or makes   *)
(* the hooks run.                                                            *)
CallMethod ==
    /\ calls < MaxCalls
    /\ Drained
    /\ calls' = calls + 1
    /\ reaction' = Append(reaction, "waiting")
    /\ starts' = IF start = 0 THEN Append(starts, "pending") ELSE starts
    /\ start' = IF start = 0 THEN Len(starts') ELSE start
    /\ startOf' = Append(startOf, start')
    /\ UNCHANGED <<session, forwarded, auth, sent, outcome>>

Pending(g) == g <= Len(starts) /\ starts[g] = "pending"

\* The hooks of start g end.
EndStart(g, how) == starts' = [starts EXCEPT ![g] = how]

\* A filter of the authenticator rejects the request, or it brings a header of
\* its own; neither is looked at once the authenticator was applied.
Pass(g) ==
    /\ Pending(g)
    /\ ~enabled
    /\ EndStart(g, "started")
    /\ UNCHANGED <<session, calls, startOf, start, reaction, forwarded, auth, sent, outcome>>

\* session.getToken: the token of the session, or a new one.
Obtain(t) ==
    IF held # 0 THEN t = held /\ UNCHANGED session
    ELSE t = issued + 1 /\ held' = t /\ issued' = t /\ UNCHANGED renewals

\* The token is put in the headers; then beforeSendRequest, or the other
\* plugin, may throw.
Inject(g) ==
    /\ Pending(g)
    /\ enabled' = TRUE
    /\ \E t \in {held, issued + 1} : Obtain(t) /\ header' = t /\ token' = t
    /\ \E how \in {"started", "failed"} : EndStart(g, how)
    /\ UNCHANGED <<calls, startOf, start, reaction, forwarded, sent, outcome>>

\* session.getToken throws.
InjectFails(g) ==
    /\ Pending(g)
    /\ held = 0
    /\ enabled' = TRUE
    /\ EndStart(g, "failed")
    /\ UNCHANGED <<session, calls, startOf, start, reaction, forwarded,
                   header, token, sent, outcome>>

-----------------------------------------------------------------------------
\* The reactions of one start run in the order they were registered.
First(m, step) ==
    /\ m <= calls /\ reaction[m] = step
    /\ \A n \in 1 .. m - 1 : startOf[n] = startOf[m] => reaction[n] # step

\* The callback of the library, which calls onCallback once.
Callback(what) ==
    IF answer = "none"
    THEN /\ answer' = what
         /\ callback' = IF what = "error" THEN "other" ELSE "authenticator"
         /\ UNCHANGED answers
    ELSE UNCHANGED outcome

\* Faulty: the method does not wait for the hooks.
StartedOrPending(g) == starts[g] # "failed"

Started(g) == starts[g] = "started"

(* then: the original method.  The first one sends the headers.              *)
Forward(m) ==
    /\ First(m, "waiting")
    /\ Started(startOf[m])
    /\ reaction' = [reaction EXCEPT ![m] = "ran"]
    /\ forwarded' = Append(forwarded, m)
    /\ sent' = IF sent = NotSent THEN header ELSE sent
    /\ UNCHANGED <<session, calls, startOf, start, starts, auth, outcome>>

(* then: the original method throws, before it sends the headers or after.   *)
ForwardThrows(m) ==
    /\ First(m, "waiting")
    /\ Started(startOf[m])
    /\ reaction' = [reaction EXCEPT ![m] = "threw"]
    /\ forwarded' = Append(forwarded, m)
    /\ sent' \in {sent, IF sent = NotSent THEN header ELSE sent}
    /\ UNCHANGED <<session, calls, startOf, start, starts, auth, outcome>>

\* Faulty: the error is not emitted.
SwallowError(m) ==
    /\ First(m, "waiting")
    /\ starts[startOf[m]] = "failed"
    /\ reaction' = [reaction EXCEPT ![m] = "ran"]
    /\ UNCHANGED <<session, calls, startOf, start, starts, forwarded, auth, sent, outcome>>

(* catch: the error is emitted, and the library calls back with it.          *)
EmitError(m) ==
    /\ First(m, "waiting")
    /\ starts[startOf[m]] = "failed"
    /\ reaction' = [reaction EXCEPT ![m] = "ran"]
    /\ Callback("error")
    /\ UNCHANGED <<session, calls, startOf, start, starts, forwarded, auth, sent>>

\* The reactions of then come first, for all the calls of a start, then those of
\* catch, then those of finally.
NoneBefore(m, steps) ==
    \A n \in 1 .. calls : startOf[n] = startOf[m] => reaction[n] \notin steps

(* catch: the same, of the error of an original method.                      *)
EmitThrown(m) ==
    /\ First(m, "threw")
    /\ NoneBefore(m, {"waiting"})
    /\ reaction' = [reaction EXCEPT ![m] = "ran"]
    /\ Callback("error")
    /\ UNCHANGED <<session, calls, startOf, start, starts, forwarded, auth, sent>>

(* finally: _start is deleted.                                               *)
Finally(m) ==
    /\ First(m, "ran")
    /\ NoneBefore(m, {"waiting", "threw"})
    /\ reaction' = [reaction EXCEPT ![m] = "over"]
    /\ start' = 0
    /\ UNCHANGED <<session, calls, startOf, starts, forwarded, auth, sent, outcome>>

-----------------------------------------------------------------------------
Ended == \E k \in 1 .. Len(forwarded) : forwarded[k] = MaxCalls

(* The library answers: as soon as the request was sent for an error or an   *)
(* early response.                                                           *)
Respond(what) ==
    /\ sent # NotSent
    /\ answer = "none"
    /\ Callback(what)
    /\ UNCHANGED <<session, methods, auth, sent>>

(* onComplete of the authenticator.                                          *)

\* A 401 to the token this plugin put in the header.
IsBadToken == answer = "unauthorized" /\ token # 0 /\ header = token

\* Faulty: whichever token the session holds is deleted.
DropHeld(t) == held' = 0

\* session.deleteToken: only the token it is given.
Drop(t) == held' = IF held = t THEN 0 ELSE held

DeleteToken ==
    /\ callback = "authenticator"
    /\ IsBadToken
    /\ Drop(token)
    /\ token' = 0
    /\ callback' = "other"
    /\ UNCHANGED <<issued, renewals, methods, enabled, header, sent, answer, answers>>

\* Nothing to delete, or the deletion fails and is logged.
KeepToken ==
    /\ callback = "authenticator"
    /\ callback' = "other"
    /\ UNCHANGED <<session, methods, auth, sent, answer, answers>>

(* onComplete or onError of the other plugin.                                *)
OtherHook ==
    /\ callback = "other"
    /\ callback' = "resolved"
    /\ UNCHANGED <<session, methods, auth, sent, answer, answers>>

OtherHookThrows ==
    /\ callback = "other"
    /\ callback' = "caught"
    /\ UNCHANGED <<session, methods, auth, sent, answer, answers>>

\* catch: the caller gets the error of the hook; then follows.
CallWithHookError ==
    /\ callback = "caught"
    /\ answers' = answers + 1
    /\ callback' = "resolved"
    /\ UNCHANGED <<session, methods, auth, sent, answer>>

\* then: the caller gets the answer of the library.
CallWithAnswer ==
    /\ callback = "resolved"
    /\ answers' = answers + 1
    /\ callback' = "over"
    /\ UNCHANGED <<session, methods, auth, sent, answer>>

(* The timer, or another client of the session, replaces the token.          *)
Renew ==
    /\ renewals < MaxRenewals
    /\ held # 0
    /\ renewals' = renewals + 1
    /\ issued' = issued + 1
    /\ held' = issued + 1
    /\ UNCHANGED <<methods, auth, sent, outcome>>

\* All calls were made: the caller only waits.
Done == calls = MaxCalls /\ UNCHANGED vars

-----------------------------------------------------------------------------
StartProgress(g) == Pass(g) \/ Inject(g) \/ InjectFails(g)
CallProgress(m)  ==
    Forward(m) \/ ForwardThrows(m) \/ EmitError(m) \/ EmitThrown(m) \/ Finally(m)
CallbackProgress ==
    DeleteToken \/ KeepToken \/ OtherHook \/ OtherHookThrows
    \/ CallWithHookError \/ CallWithAnswer

Response == \E what \in {"error", "unauthorized", "response"} : Respond(what)

Next ==
    \/ CallMethod
    \/ \E k \in Calls : StartProgress(k) \/ CallProgress(k)
    \/ Response
    \/ CallbackProgress
    \/ Renew
    \/ Done

Spec == Init /\ [][Next]_vars

(* The hooks settle, reactions run, and the library answers a request that    *)
(* was ended.                                                                *)
Fairness ==
    /\ \A k \in Calls : WF_vars(StartProgress(k)) /\ WF_vars(CallProgress(k))
    /\ WF_vars(Ended /\ Response)
    /\ WF_vars(CallbackProgress)

FairSpec == Spec /\ Fairness

-----------------------------------------------------------------------------
(* Properties                                                              *)

\* write and end reach the original methods in the order of the calls, however
\* many starts they waited for.
MethodsInOrder ==
    \A j, k \in 1 .. Len(forwarded) : j < k => forwarded[j] < forwarded[k]

\* A request that the authenticator accepted never leaves without a token,
\* even after a start that failed.
TokenIsSent == [][ sent' # sent /\ enabled => sent' # 0 ]_vars

\* While the hooks ran once, a late answer takes from the session only the token
\* the request was refused with.
OnlyRefusedTokenDropped ==
    [][ held # 0 /\ held' = 0 /\ Len(starts) = 1 => held = sent /\ answer = "unauthorized" ]_vars

\* A request whose calls were all made is answered, with a response or an error.
RequestAnswered == calls = MaxCalls ~> answers > 0

\* "we must wait for the first one (write) to complete before letting the other
\* one (end) continue": no method goes on when an earlier one did not.
LaterMethodsWait ==
    \A k \in 1 .. Len(forwarded) : forwarded[k] = k
=============================================================================
