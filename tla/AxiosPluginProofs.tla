--------------------------- MODULE AxiosPluginProofs ---------------------------
(***************************************************************************)
(* What the plugin of Axios does with the tokens of the session, for any     *)
(* number of overlapping requests, renewals and retries, and both orders of  *)
(* the plugins.                                                             *)
(***************************************************************************)
EXTENDS AxiosPlugin, TLAPS

USE PluginsAssumption, RetriesAssumption

(* The plugins of a request are two, the authenticator at one place.           *)
LEMMA TwoPlugins == Len(Plugins) = 2 /\ Plugins[1] # Plugins[2]
  OBVIOUS

LEMMA RetryCount == Retries \in Nat
  BY DEF Retries, AuthRetries

USE DEF Points, Errors, HookErrors, session

(* Where the hooks of a request take it.                                       *)
LEMMA Moves ==
    ASSUME TypeOK, NEW r \in Requests, NEW point \in Points, NextHook(r, point) \/ Go(r, point)
    PROVE  /\ at' \in [Requests -> Points] /\ plugin' \in [Requests -> 1 .. Len(Plugins)]
           /\ \A q \in Requests \ {r} : at'[q] = at[q] /\ plugin'[q] = plugin[q]
           /\ \/ at'[r] = point /\ plugin'[r] = 1
              \/ at'[r] = at[r] /\ plugin[r] = 1 /\ plugin'[r] = 2 /\ NextHook(r, point)
  BY TwoPlugins DEF TypeOK, NextHook, Go

LEMMA TypeStep == TypeOK /\ [Next]_vars => TypeOK'
<1> SUFFICES ASSUME TypeOK, [Next]_vars PROVE TypeOK'
  OBVIOUS
<1> DEFINE Places == at' \in [Requests -> Points] /\ plugin' \in [Requests -> 1 .. Len(Plugins)]
<1>1. ASSUME NEW r \in Requests, Begin(r) PROVE TypeOK'
  <2>1. Places
    BY <1>1, Moves DEF Begin
  <2> QED
    BY <1>1, <2>1 DEF Begin, TypeOK
<1>2. ASSUME NEW r \in Requests, Progress(r) PROVE TypeOK'
  <2>1. CASE Pass(r) \/ OtherStarts(r)
    <3>1. Places
      BY <2>1, Moves DEF Pass, OtherStarts, Throw
    <3>2. lastError' \in [Requests -> Errors \cup {"none"}]
      BY <2>1 DEF Pass, OtherStarts, Throw, TypeOK
    <3> QED
      BY <2>1, <3>1, <3>2 DEF Pass, OtherStarts, TypeOK
  <2>2. CASE Inject(r)
    <3>1. Places
      BY <2>2, Moves DEF Inject, Throw
    <3>2. lastError' \in [Requests -> Errors \cup {"none"}]
      BY <2>2 DEF Inject, Throw, TypeOK
    <3>3. PICK t \in {held, issued + 1} : Obtain(t) /\ header' = [header EXCEPT ![r] = t]
                                          /\ token' = [token EXCEPT ![r] = t]
      BY <2>2 DEF Inject
    <3>4. /\ issued' \in Nat /\ issued' >= issued /\ t \in 0 .. issued' /\ held' \in 0 .. issued'
          /\ renewals' = renewals
      BY <3>3 DEF Obtain, TypeOK
    <3>5. \A S \in SUBSET (1 .. issued) : S \in SUBSET (1 .. issued')
      BY <3>4 DEF TypeOK
    <3>6. refused' \in [Requests -> SUBSET (1 .. issued')]
      BY <2>2, <3>5 DEF Inject, TypeOK
    <3>7. \A n \in 0 .. issued : n \in 0 .. issued'
      BY <3>4 DEF TypeOK
    <3>8. header' \in [Requests -> 0 .. issued'] /\ token' \in [Requests -> 0 .. issued']
      BY <3>3, <3>4, <3>7 DEF TypeOK
    <3> QED
      BY <2>2, <3>1, <3>2, <3>4, <3>6, <3>8 DEF Inject, TypeOK
  <2>3. CASE Answered(r) \/ SuccessHook(r)
    <3>1. Places
      BY <2>3, Moves DEF Answered, SuccessHook
    <3> QED
      BY <2>3, <3>1 DEF Answered, SuccessHook, TypeOK
  <2>4. CASE Succeed(r) \/ CannotRetry(r) \/ GiveUp(r)
    <3>1. Settle(r)
      BY <2>4 DEF Succeed, CannotRetry, GiveUp
    <3>2. Places
      BY <3>1, Moves DEF Settle
    <3>3. attempt' \in [Requests -> 0 .. Retries] /\ lastError' \in [Requests -> Errors \cup {"none"}]
      BY <3>1, RetryCount DEF Settle, TypeOK
    <3> QED
      BY <3>1, <3>2, <3>3 DEF Settle, TypeOK
  <2>5. ASSUME NEW e \in Errors, InjectFails(r, e) PROVE TypeOK'
    <3>1. Places
      BY <2>5, Moves DEF InjectFails, Throw
    <3> QED
      BY <2>5, <3>1 DEF InjectFails, Throw, TypeOK
  <2>6. ASSUME NEW e \in Errors, Failed(r, e) PROVE TypeOK'
    <3>1. Places
      BY <2>6, Moves DEF Failed, Throw
    <3>2. refused' \in [Requests -> SUBSET (1 .. issued)]
      BY <2>6 DEF Failed, TypeOK
    <3> QED
      BY <2>6, <3>1, <3>2 DEF Failed, Throw, TypeOK
  <2>7. ASSUME NEW e \in HookErrors, SuccessHookFails(r, e) PROVE TypeOK'
    <3>1. Places
      BY <2>7, Moves DEF SuccessHookFails, Throw
    <3> QED
      BY <2>7, <3>1 DEF SuccessHookFails, Throw, TypeOK
  <2>8. CASE Ignore(r) \/ DeleteToken(r) \/ DeleteFails(r)
    <3>1. Places
      BY <2>8, Moves DEF Ignore, DeleteToken, DeleteFails
    <3>2. held \in 0 .. issued /\ 0 \in 0 .. issued /\ token \in [Requests -> 0 .. issued]
      BY DEF TypeOK
    <3>3. held' \in 0 .. issued /\ token' \in [Requests -> 0 .. issued] /\ issued' = issued
          /\ renewals' = renewals
      BY <2>8, <3>2 DEF Ignore, DeleteToken, DeleteFails, Drop
    <3> QED
      BY <2>8, <3>1, <3>3 DEF Ignore, DeleteToken, DeleteFails, TypeOK
  <2>9. CASE OtherSeesError(r)
    <3>1. Places
      BY <2>9, Moves DEF OtherSeesError, Throw
    <3>2. lastError' \in [Requests -> Errors \cup {"none"}]
      BY <2>9 DEF OtherSeesError, Throw, TypeOK
    <3> QED
      BY <2>9, <3>1, <3>2 DEF OtherSeesError, TypeOK
  <2>10. CASE CanRetry(r)
    <3>1. Places
      BY <2>10, Moves DEF CanRetry
    <3> QED
      BY <2>10, <3>1 DEF CanRetry, TypeOK
  <2>11. CASE Retry(r)
    <3>1. Places
      BY <2>11, Moves DEF Retry
    <3>2. attempt[r] \in 0 .. Retries /\ attempt[r] < Retries
      BY <2>11 DEF Retry, RetriesLeft, TypeOK
    <3>3. attempt[r] + 1 \in 0 .. Retries
      BY <3>2, RetryCount
    <3>4. attempt' \in [Requests -> 0 .. Retries]
      BY <2>11, <3>3 DEF Retry, TypeOK
    <3> QED
      BY <2>11, <3>1, <3>4 DEF Retry, TypeOK
  <2> QED
    BY <1>2, <2>1, <2>2, <2>3, <2>4, <2>5, <2>6, <2>7, <2>8, <2>9, <2>10, <2>11
       DEF Progress
<1>3. CASE Renew
  BY <1>3 DEF Renew, TypeOK
<1>4. CASE AllDone \/ UNCHANGED vars
  BY <1>4 DEF AllDone, vars, TypeOK
<1> QED
  BY <1>1, <1>2, <1>3, <1>4 DEF Next

-----------------------------------------------------------------------------
(* The header of a request that leaves is the token of the authenticator, and  *)
(* a token that a request was refused with is either no more in the session or *)
(* still in its tokenProperty: its deletion is to come, or failed.             *)
Injected(r) ==
    \/ at[r] = "sent"
    \/ at[r] = "starting" /\ plugin[r] = 2 /\ Plugins[1] = "authenticator"

HeaderOK(r) ==
    /\ enabled[r] \/ header[r] = 0
    /\ Injected(r) /\ enabled[r] => header[r] = token[r]

RefusalOK(r) ==
    /\ at[r] = "failing" /\ lastError[r] = "unauthorized" /\ header[r] # 0 =>
           header[r] \in refused[r]
    /\ \A t \in refused[r] : held # t \/ token[r] = t

TokenInv == \A r \in Requests : HeaderOK(r) /\ RefusalOK(r)

(* What the steps of another request, and a renewal, do to a request.          *)
LEMMA Others ==
    ASSUME TypeOK, TokenInv, NEW r \in Requests,
           UNCHANGED <<at[r], plugin[r], enabled[r], header[r], token[r], lastError[r], refused[r]>>,
           held' \in {0, held, issued + 1}
    PROVE  HeaderOK(r)' /\ RefusalOK(r)'
<1>1. refused[r] \subseteq 1 .. issued /\ issued \in Nat
  BY DEF TypeOK
<1>2. \A t \in refused[r] : t # 0 /\ t # issued + 1
  BY <1>1
<1> QED
  BY <1>2 DEF TokenInv, HeaderOK, RefusalOK, Injected

LEMMA TokenStep == TypeOK /\ TokenInv /\ [Next]_vars => TokenInv'
<1> SUFFICES ASSUME TypeOK, TokenInv, [Next]_vars PROVE TokenInv'
  OBVIOUS
<1>1. ASSUME NEW r \in Requests, held' \in {0, held, issued + 1},
             \A q \in Requests \ {r} :
                 UNCHANGED <<at[q], plugin[q], enabled[q], header[q], token[q], lastError[q], refused[q]>>,
             HeaderOK(r)' /\ RefusalOK(r)'
      PROVE  TokenInv'
  BY <1>1, Others DEF TokenInv
<1>2. ASSUME NEW r \in Requests, NEW point \in Points, NextHook(r, point) \/ Go(r, point),
             UNCHANGED <<held, header[r], token[r], refused[r]>>,
             lastError'[r] = lastError[r] \/ at'[r] # "failing" \/ lastError'[r] # "unauthorized",
             point # "failing" \/ lastError'[r] # "unauthorized",
             enabled'[r] \/ enabled'[r] = enabled[r],
             Injected(r)' => ~enabled'[r] \/ (Injected(r) /\ enabled'[r] = enabled[r]),
             \A q \in Requests \ {r} :
                 UNCHANGED <<enabled[q], header[q], token[q], lastError[q], refused[q]>>
      PROVE  TokenInv'
  <2>1. \A q \in Requests \ {r} : at'[q] = at[q] /\ plugin'[q] = plugin[q]
    BY <1>2, Moves
  <2>2. at'[r] = "failing" /\ lastError'[r] = "unauthorized" =>
            at[r] = "failing" /\ lastError[r] = "unauthorized"
    BY <1>2, Moves
  <2>3. HeaderOK(r) /\ RefusalOK(r)
    BY DEF TokenInv
  <2>4. HeaderOK(r)' /\ RefusalOK(r)'
    BY <1>2, <2>2, <2>3 DEF HeaderOK, RefusalOK
  <2>5. held' \in {0, held, issued + 1}
    BY <1>2
  <2>6. \A q \in Requests \ {r} :
            UNCHANGED <<at[q], plugin[q], enabled[q], header[q], token[q], lastError[q], refused[q]>>
    BY <1>2, <2>1
  <2> QED
    BY <1>1, <2>4, <2>5, <2>6
<1>3. ASSUME NEW r \in Requests, Begin(r) \/ CanRetry(r) \/ Retry(r) PROVE TokenInv'
  <2>1. PICK point \in {"starting", "delaying"} : Go(r, point)
    BY <1>3 DEF Begin, CanRetry, Retry
  <2>2. ~Injected(r)'
    BY <2>1 DEF Go, Injected, TypeOK
  <2> QED
    BY <1>2, <1>3, <2>1, <2>2 DEF Begin, CanRetry, Retry
<1>4. ASSUME NEW r \in Requests, Succeed(r) \/ CannotRetry(r) \/ GiveUp(r) PROVE TokenInv'
  <2>1. Settle(r)
    BY <1>4 DEF Succeed, CannotRetry, GiveUp
  <2>2. at'[r] = "done"
    BY <2>1 DEF Settle, Go, TypeOK
  <2>3. ~Injected(r)'
    BY <2>2 DEF Injected
  <2>4. \A q \in Requests \ {r} : lastError'[q] = lastError[q]
    BY <2>1 DEF Settle, TypeOK
  <2> QED
    BY <1>2, <2>1, <2>2, <2>3, <2>4 DEF Settle
<1>5. ASSUME NEW r \in Requests, Pass(r) PROVE TokenInv'
  <2>1. ~enabled'[r] /\ NextHook(r, "sent")
    BY <1>5 DEF Pass, CanApply
  <2> QED
    BY <1>2, <1>5, <2>1 DEF Pass
<1>6. ASSUME NEW r \in Requests, OtherStarts(r) PROVE TokenInv'
  <2>1. CASE NextHook(r, "sent") /\ UNCHANGED lastError
    <3>1. Injected(r)' => Injected(r)
      BY <1>6, <2>1, TwoPlugins DEF OtherStarts, Hook, NextHook, Go, Injected, TypeOK
    <3> QED
      BY <1>2, <1>6, <2>1, <3>1 DEF OtherStarts
  <2>2. ASSUME NEW e \in Errors, Throw(r, e, "asking") PROVE TokenInv'
    <3>1. at'[r] = "asking" /\ \A q \in Requests \ {r} : lastError'[q] = lastError[q]
      BY <2>2 DEF Throw, Go, TypeOK
    <3>2. ~Injected(r)'
      BY <3>1 DEF Injected
    <3> QED
      BY <1>2, <1>6, <2>2, <3>1, <3>2 DEF OtherStarts, Throw
  <2> QED
    BY <1>6, <2>1, <2>2 DEF OtherStarts
<1>7. ASSUME NEW r \in Requests, Answered(r) \/ SuccessHook(r) PROVE TokenInv'
  <2>1. PICK point \in {"succeeding", "done"} : NextHook(r, point) \/ Go(r, point)
    BY <1>7 DEF Answered, SuccessHook
  <2>2. ~Injected(r)'
    BY <1>7, <2>1 DEF Answered, SuccessHook, NextHook, Go, Injected, TypeOK
  <2> QED
    BY <1>2, <1>7, <2>1, <2>2 DEF Answered, SuccessHook
<1>8. ASSUME NEW r \in Requests, NEW e \in HookErrors, SuccessHookFails(r, e) PROVE TokenInv'
  <2>1. /\ Go(r, "failing") /\ at'[r] = "failing" /\ lastError'[r] = e
        /\ \A q \in Requests \ {r} : lastError'[q] = lastError[q]
    BY <1>8 DEF SuccessHookFails, Throw, Go, TypeOK
  <2>2. ~Injected(r)'
    BY <2>1 DEF Injected
  <2> QED
    BY <1>2, <1>8, <2>1, <2>2 DEF SuccessHookFails
<1>9. ASSUME NEW r \in Requests, NEW e \in Errors, InjectFails(r, e) PROVE TokenInv'
  <2>1. /\ Go(r, "asking") /\ at'[r] = "asking" /\ enabled'[r]
        /\ \A q \in Requests \ {r} : lastError'[q] = lastError[q] /\ enabled'[q] = enabled[q]
    BY <1>9 DEF InjectFails, Throw, Go, TypeOK
  <2>2. ~Injected(r)'
    BY <2>1 DEF Injected
  <2> QED
    BY <1>2, <1>9, <2>1, <2>2 DEF InjectFails
<1>10. ASSUME NEW r \in Requests, Ignore(r) \/ DeleteFails(r) PROVE TokenInv'
  <2>1. ~Injected(r)'
    BY <1>10 DEF Ignore, DeleteFails, Hook, NextHook, Go, Injected, TypeOK
  <2> QED
    BY <1>2, <1>10, <2>1 DEF Ignore, DeleteFails
<1>11. ASSUME NEW r \in Requests, OtherSeesError(r) PROVE TokenInv'
  <2>1. ~Injected(r)'
    BY <1>11 DEF OtherSeesError, Throw, Hook, NextHook, Go, Injected, TypeOK
  <2>2. CASE NextHook(r, "asking") /\ UNCHANGED lastError
    BY <1>2, <1>11, <2>1, <2>2 DEF OtherSeesError
  <2>3. ASSUME NEW e \in Errors, Throw(r, e, "asking") PROVE TokenInv'
    <3>1. at'[r] = "asking" /\ \A q \in Requests \ {r} : lastError'[q] = lastError[q]
      BY <2>3 DEF Throw, Go, TypeOK
    <3> QED
      BY <1>2, <1>11, <2>1, <2>3, <3>1 DEF OtherSeesError, Throw
  <2>4. \/ NextHook(r, "asking") /\ UNCHANGED lastError
        \/ \E e \in Errors : Throw(r, e, "asking")
    BY <1>11, Zenon DEF OtherSeesError
  <2> QED
    BY <2>2, <2>3, <2>4
<1>12. ASSUME NEW r \in Requests, Inject(r) PROVE TokenInv'
  <2>1. PICK t \in {held, issued + 1} :
            Obtain(t) /\ header' = [header EXCEPT ![r] = t] /\ token' = [token EXCEPT ![r] = t]
    BY <1>12 DEF Inject
  <2>2. held' = t /\ held' \in {0, held, issued + 1} /\ (t = held \/ t = issued + 1)
    BY <2>1 DEF Obtain
  <2>3. /\ header'[r] = t /\ token'[r] = t /\ enabled'[r] /\ refused' = refused
        /\ \A q \in Requests \ {r} :
               header'[q] = header[q] /\ token'[q] = token[q] /\ enabled'[q] = enabled[q]
    BY <1>12, <2>1 DEF Inject, TypeOK
  <2>4. at[r] = "starting" /\ at'[r] # "failing"
    BY <1>12 DEF Inject, Hook, NextHook, Throw, Go, TypeOK
  <2>5. \A q \in Requests \ {r} : at'[q] = at[q] /\ plugin'[q] = plugin[q]
    BY <1>12, Moves DEF Inject, Throw
  <2>6. \A q \in Requests \ {r} : lastError'[q] = lastError[q]
    BY <1>12 DEF Inject, Throw, TypeOK
  <2>7. HeaderOK(r)' /\ RefusalOK(r)'
    BY <2>2, <2>3, <2>4 DEF HeaderOK, RefusalOK
  <2> QED
    BY <1>1, <2>2, <2>3, <2>5, <2>6, <2>7
<1>13. ASSUME NEW r \in Requests, NEW e \in Errors, Failed(r, e) PROVE TokenInv'
  <2>1. /\ at[r] = "sent" /\ at'[r] = "failing" /\ Go(r, "failing") /\ lastError'[r] = e
        /\ UNCHANGED <<held, issued, enabled, header, token>>
        /\ \A q \in Requests \ {r} : lastError'[q] = lastError[q] /\ refused'[q] = refused[q]
    BY <1>13 DEF Failed, Throw, Go, TypeOK
  <2>2. refused'[r] = IF e = "unauthorized" /\ header[r] # 0
                      THEN refused[r] \cup {header[r]} ELSE refused[r]
    BY <1>13 DEF Failed, TypeOK
  <2>3. header[r] # 0 => header[r] = token[r]
    BY <2>1 DEF TokenInv, HeaderOK, Injected
  <2>4. HeaderOK(r)'
    BY <2>1 DEF TokenInv, HeaderOK, Injected
  <2>5. RefusalOK(r)'
    BY <2>1, <2>2, <2>3 DEF TokenInv, RefusalOK
  <2>6. \A q \in Requests \ {r} : at'[q] = at[q] /\ plugin'[q] = plugin[q]
    BY <2>1, Moves
  <2> QED
    BY <1>1, <2>1, <2>4, <2>5, <2>6
<1>14. ASSUME NEW r \in Requests, DeleteToken(r) PROVE TokenInv'
  <2>1. /\ at[r] = "failing" /\ at'[r] \in {"failing", "asking"} /\ token'[r] = 0
        /\ UNCHANGED <<issued, enabled, header, lastError, refused>>
        /\ \A q \in Requests \ {r} : token'[q] = token[q]
        /\ held' \in {0, held} /\ (held = token[r] => held' = 0)
    BY <1>14 DEF DeleteToken, Hook, NextHook, Go, Drop, TypeOK
  <2>2. \A t \in refused[r] : t # 0
    BY DEF TypeOK
  <2>3. HeaderOK(r)' /\ RefusalOK(r)'
    BY <2>1, <2>2 DEF TokenInv, HeaderOK, RefusalOK, Injected
  <2>4. \A q \in Requests \ {r} : at'[q] = at[q] /\ plugin'[q] = plugin[q]
    BY <1>14, Moves DEF DeleteToken
  <2> QED
    BY <1>1, <2>1, <2>3, <2>4
<1>15. CASE Renew
  BY <1>15, Others DEF Renew, TokenInv
<1>16. CASE AllDone \/ UNCHANGED vars
  BY <1>16, Others DEF AllDone, vars, TokenInv
<1> QED
  BY <1>3, <1>4, <1>5, <1>6, <1>7, <1>8, <1>9, <1>10, <1>11, <1>12, <1>13, <1>14,
     <1>15, <1>16 DEF Next, Progress

LEMMA Invariant == Spec => [](TypeOK /\ TokenInv)
<1>1. Init => TypeOK
  <2>1. 0 \in 0 .. Retries
    BY RetryCount
  <2> QED
    BY <2>1, TwoPlugins DEF Init, TypeOK
<1>2. Init => TokenInv
  BY DEF Init, TokenInv, HeaderOK, RefusalOK, Injected
<1> QED
  BY <1>1, <1>2, TypeStep, TokenStep, PTL DEF Spec

-----------------------------------------------------------------------------
(* The variables keep their types, for any requests, retries and renewals.      *)
THEOREM TypeCorrect == Spec => []TypeOK
  BY Invariant, PTL

(* Only the authenticator empties the session, and of a token it was refused.   *)
THEOREM RefusedTokensAlone == Spec => OnlyRefusedTokensDropped
<1> DEFINE Drops == held # 0 /\ held' = 0 => \E r \in Requests : held \in refused[r]
<1>1. TypeOK /\ TokenInv /\ [Next]_vars => [Drops]_vars
  <2> SUFFICES ASSUME TypeOK, TokenInv, [Next]_vars, held # 0, held' = 0
               PROVE  \E r \in Requests : held \in refused[r]
    OBVIOUS
  <2>1. issued \in Nat /\ issued + 1 # 0
    BY DEF TypeOK
  <2>2. ASSUME NEW r \in Requests, Inject(r) PROVE FALSE
    BY <2>1, <2>2 DEF Inject, Obtain
  <2>3. ~Renew
    BY <2>1 DEF Renew
  <2>4. ASSUME NEW r \in Requests,
               Begin(r) \/ (Progress(r) /\ ~Inject(r) /\ ~DeleteToken(r))
        PROVE  FALSE
    BY <2>4 DEF Begin, Progress, Pass, OtherStarts, Answered, SuccessHook, Succeed, InjectFails,
       Failed, SuccessHookFails, Ignore, DeleteFails, OtherSeesError, CanRetry, CannotRetry,
       Retry, GiveUp, Settle
  <2>5. PICK r \in Requests : DeleteToken(r)
    BY <2>2, <2>3, <2>4 DEF Next, AllDone, vars, Progress
  <2>6. held = token[r] /\ at[r] = "failing" /\ lastError[r] = "unauthorized"
        /\ header[r] = token[r]
    BY <2>5 DEF DeleteToken, Drop, Hook, IsBadToken
  <2> QED
    BY <2>6 DEF TokenInv, RefusalOK
<1> QED
  BY <1>1, Invariant, PTL DEF Spec, OnlyRefusedTokensDropped

(* A request is sent again with another token than it was refused with, but    *)
(* for the one that could not be deleted.                                      *)
THEOREM NotSentAgain == Spec => RefusedTokenNotSentAgain
<1> DEFINE Again == \A r \in Requests : at[r] = "starting" =>
          /\ token'[r] \in refused[r] => token'[r] = token[r]
          /\ at'[r] = "sent" /\ header'[r] \in refused[r] => header'[r] = token'[r]
<1>1. TypeOK /\ TokenInv /\ [Next]_vars => [Again]_vars
  <2> SUFFICES ASSUME TypeOK, TokenInv, [Next]_vars, NEW r \in Requests, at[r] = "starting"
               PROVE  /\ token'[r] \in refused[r] => token'[r] = token[r]
                      /\ at'[r] = "sent" /\ header'[r] \in refused[r] => header'[r] = token'[r]
    OBVIOUS
  <2>1. refused[r] \subseteq 1 .. issued /\ issued \in Nat
    BY DEF TypeOK
  <2>2. CASE Inject(r)
    <3>1. PICK t \in {held, issued + 1} :
              Obtain(t) /\ header' = [header EXCEPT ![r] = t] /\ token' = [token EXCEPT ![r] = t]
      BY <2>2 DEF Inject
    <3>2. token'[r] = t /\ header'[r] = t /\ (t \in refused[r] => t = held)
      BY <2>1, <3>1 DEF TypeOK
    <3> QED
      BY <3>2 DEF TokenInv, RefusalOK
  <2>3. CASE ~Inject(r)
    <3>1. token'[r] = token[r] /\ header'[r] = header[r]
      <4>1. ASSUME NEW q \in Requests, Begin(q) \/ Progress(q)
            PROVE  token'[r] = token[r] /\ header'[r] = header[r]
        BY <2>3, <4>1 DEF Begin, Progress, Inject, Pass, OtherStarts, Answered, SuccessHook,
           Succeed, InjectFails, Failed, SuccessHookFails, Ignore, DeleteToken, DeleteFails,
           OtherSeesError, CanRetry, CannotRetry, Retry, GiveUp, Settle, Hook, TypeOK
      <4> QED
        BY <4>1 DEF Next, Renew, AllDone, vars
    <3>2. at'[r] = "sent" => enabled'[r] = enabled[r]
      <4>1. ASSUME NEW q \in Requests, Begin(q) \/ Progress(q), at'[r] = "sent"
            PROVE  enabled'[r] = enabled[r]
        BY <2>3, <4>1 DEF Begin, Progress, Inject, Pass, OtherStarts, Answered, SuccessHook,
           Succeed, InjectFails, Failed, SuccessHookFails, Ignore, DeleteToken, DeleteFails,
           OtherSeesError, CanRetry, CannotRetry, Retry, GiveUp, Settle, Hook, Throw, Go, TypeOK
      <4> QED
        BY <4>1 DEF Next, Renew, AllDone, vars
    <3>3. at'[r] = "sent" => HeaderOK(r)'
      BY TokenStep DEF TokenInv
    <3>4. at'[r] = "sent" /\ header[r] # 0 => header'[r] = token'[r]
      BY <3>1, <3>3 DEF HeaderOK, Injected
    <3> QED
      BY <2>1, <3>1, <3>4
  <2> QED
    BY <2>2, <2>3
<1> QED
  BY <1>1, Invariant, PTL DEF Spec, RefusedTokenNotSentAgain

-----------------------------------------------------------------------------
(* A request whose adapter is not running has made no attempt.                 *)
AtRest(r) == at[r] \in {"idle", "done"}

CountInv == \A r \in Requests : AtRest(r) => attempt[r] = 0

(* Where a step can take a request.                                            *)
LEMMA Journey ==
    ASSUME TypeOK, NEW r \in Requests, [Next]_vars
    PROVE  \/ UNCHANGED <<at[r], attempt[r]>>
           \/ at[r] = "idle" /\ at'[r] = "starting" /\ attempt'[r] = attempt[r]
           \/ /\ at[r] \in {"starting", "sent", "succeeding", "failing"}
              /\ at'[r] \in {"starting", "sent", "succeeding", "failing", "asking"}
              /\ attempt'[r] = attempt[r]
           \/ at[r] = "asking" /\ at'[r] = "delaying" /\ attempt'[r] = attempt[r]
           \/ /\ at[r] = "delaying" /\ attempt[r] < Retries
              /\ at'[r] = "starting" /\ attempt'[r] = attempt[r] + 1
           \/ /\ at[r] \in {"succeeding", "asking"} \/ (at[r] = "delaying" /\ attempt[r] >= Retries)
              /\ at'[r] = "done" /\ attempt'[r] = 0
<1> DEFINE J == \/ UNCHANGED <<at[r], attempt[r]>>
                \/ at[r] = "idle" /\ at'[r] = "starting" /\ attempt'[r] = attempt[r]
                \/ /\ at[r] \in {"starting", "sent", "succeeding", "failing"}
                   /\ at'[r] \in {"starting", "sent", "succeeding", "failing", "asking"}
                   /\ attempt'[r] = attempt[r]
                \/ at[r] = "asking" /\ at'[r] = "delaying" /\ attempt'[r] = attempt[r]
                \/ /\ at[r] = "delaying" /\ attempt[r] < Retries
                   /\ at'[r] = "starting" /\ attempt'[r] = attempt[r] + 1
                \/ /\ at[r] \in {"succeeding", "asking"} \/ (at[r] = "delaying" /\ attempt[r] >= Retries)
                   /\ at'[r] = "done" /\ attempt'[r] = 0
<1> SUFFICES J
  OBVIOUS
<1>1. ASSUME NEW q \in Requests \ {r}, Begin(q) \/ Progress(q) PROVE J
  BY <1>1 DEF Begin, Progress, Inject, Pass, OtherStarts, Answered, SuccessHook, Succeed,
     InjectFails, Failed, SuccessHookFails, Ignore, DeleteToken, DeleteFails, OtherSeesError,
     CanRetry, CannotRetry, Retry, GiveUp, Settle, NextHook, Throw, Go, TypeOK
<1>2. CASE Begin(r) \/ CanRetry(r) \/ Answered(r)
  BY <1>2 DEF Begin, CanRetry, Answered, Go, TypeOK
<1>3. CASE Pass(r) \/ Inject(r) \/ OtherStarts(r)
  BY <1>3 DEF Pass, Inject, OtherStarts, Hook, NextHook, Throw, Go, TypeOK
<1>4. CASE SuccessHook(r) \/ Ignore(r) \/ DeleteToken(r) \/ DeleteFails(r) \/ OtherSeesError(r)
  BY <1>4 DEF SuccessHook, Ignore, DeleteToken, DeleteFails, OtherSeesError, Hook, NextHook,
     Throw, Go, TypeOK
<1>5. ASSUME NEW e \in Errors, InjectFails(r, e) \/ Failed(r, e) PROVE J
  BY <1>5 DEF InjectFails, Failed, Hook, Throw, Go, TypeOK
<1>6. ASSUME NEW e \in HookErrors, SuccessHookFails(r, e) PROVE J
  BY <1>6 DEF SuccessHookFails, Hook, Throw, Go, TypeOK
<1>7. CASE Succeed(r) \/ CannotRetry(r)
  BY <1>7 DEF Succeed, CannotRetry, Settle, Go, TypeOK
<1>8. CASE Retry(r) \/ GiveUp(r)
  <2>1. attempt[r] \in Nat
    BY RetryCount DEF TypeOK
  <2> QED
    BY <1>8, <2>1, RetryCount DEF Retry, GiveUp, RetriesLeft, Settle, Go, TypeOK
<1>9. CASE Renew \/ AllDone \/ UNCHANGED vars
  BY <1>9 DEF Renew, AllDone, vars
<1> HIDE DEF J
<1>10. CASE Begin(r) \/ Progress(r)
  BY <1>2, <1>3, <1>4, <1>5, <1>6, <1>7, <1>8, <1>10 DEF Progress
<1> QED
  BY <1>1, <1>9, <1>10 DEF Next

(* A step of the plugin is a step of the loop of a request, or none.           *)
LEMMA LoopStep ==
    ASSUME TypeOK, CountInv, NEW r \in Requests, [Next]_vars
    PROVE  (AtRest(r) => attempt[r] = 0)' /\ [Loop(r)!Next]_(Loop(r)!vars)
<1> USE DEF AtRest
<1>0. attempt[r] \in Nat /\ Retries \in Nat /\ at[r] \in Points
      /\ (AtRest(r) => attempt[r] = 0)
  BY RetryCount DEF TypeOK, CountInv
<1>1. CASE UNCHANGED <<at[r], attempt[r]>>
  BY <1>0, <1>1 DEF Loop!vars
<1>2. CASE at[r] = "idle" /\ at'[r] = "starting" /\ attempt'[r] = attempt[r]
  BY <1>0, <1>2 DEF Loop!Next, Loop!Start
<1>3. CASE /\ at[r] \in {"starting", "sent", "succeeding", "failing"}
           /\ at'[r] \in {"starting", "sent", "succeeding", "failing", "asking"}
           /\ attempt'[r] = attempt[r]
  <2>1. CASE at'[r] = "asking"
    BY <1>0, <1>3, <2>1 DEF Loop!Next, Loop!Progress, Loop!ActionThrows
  <2>2. CASE at'[r] # "asking"
    BY <1>0, <1>3, <2>2 DEF Loop!vars
  <2> QED
    BY <2>1, <2>2
<1>4. CASE at[r] = "asking" /\ at'[r] = "delaying" /\ attempt'[r] = attempt[r]
  BY <1>0, <1>4 DEF Loop!Next, Loop!Progress, Loop!CanRetry
<1>5. CASE /\ at[r] = "delaying" /\ attempt[r] < Retries
           /\ at'[r] = "starting" /\ attempt'[r] = attempt[r] + 1
  BY <1>0, <1>5 DEF Loop!Next, Loop!Progress, Loop!DelayElapsed, Loop!Retries
<1>6. CASE /\ at[r] \in {"succeeding", "asking"} \/ (at[r] = "delaying" /\ attempt[r] >= Retries)
           /\ at'[r] = "done" /\ attempt'[r] = 0
  BY <1>0, <1>6 DEF Loop!Next, Loop!Progress, Loop!ActionReturns, Loop!CannotRetry,
     Loop!DelayElapsed, Loop!Retries, Loop!Settle
<1> QED
  BY <1>1, <1>2, <1>3, <1>4, <1>5, <1>6, Journey

(* Whatever the plugins do, a request is a run of retryAction.                 *)
THEOREM OneLoop == Spec => RequestsShareRetries
<1> DEFINE Step == \A r \in Requests : [Loop(r)!Next]_(Loop(r)!vars)
<1>1. Init => CountInv /\ \A r \in Requests : Loop(r)!Init
  BY DEF Init, CountInv, AtRest, Loop!Init
<1>2. TypeOK /\ CountInv /\ [Next]_vars => CountInv' /\ [Step]_vars
  BY LoopStep DEF CountInv
<1> QED
  BY <1>1, <1>2, Invariant, PTL DEF Spec, RequestsShareRetries
=============================================================================
