----------------------------- MODULE RetryAction -----------------------------
(***************************************************************************)
(* packages/core/src/resilience: a caller that runs an action under         *)
(* retryAction, as often as it likes.  The action and canRetry are          *)
(* asynchronous callbacks of the caller; an error is all an action that     *)
(* fails leaves behind.                                                    *)
(***************************************************************************)
EXTENDS Integers

CONSTANTS
    Errors,      \* what the action may throw
    NoError,     \* null
    RetryCounts  \* the values of options.maxRetries

VARIABLES
    pc,          \* where the invocation is suspended; "idle": none is under way
    maxRetries,  \* options.maxRetries
    i,           \* the loop's counter
    lastError    \* why the last attempt failed

vars == <<pc, maxRetries, i, lastError>>

TypeOK ==
    /\ pc \in {"idle", "acting", "asking", "delaying"}
    /\ maxRetries \in RetryCounts
    /\ i \in Nat
    /\ lastError \in Errors \cup {NoError}

Init ==
    /\ pc = "idle"
    /\ maxRetries \in RetryCounts
    /\ i = 0
    /\ lastError = NoError

\* Math.max(0, options.maxRetries)
Retries == IF maxRetries < 0 THEN 0 ELSE maxRetries

\* The promise settles: the frame of the invocation is gone.
Settle == pc' = "idle" /\ i' = 0 /\ lastError' = NoError

-----------------------------------------------------------------------------
Start(n) ==
    /\ pc = "idle"
    /\ pc' = "acting"
    /\ maxRetries' = n
    /\ i' = 0
    /\ lastError' = NoError

ActionReturns ==
    /\ pc = "acting"
    /\ Settle
    /\ UNCHANGED maxRetries

ActionThrows(e) ==
    /\ pc = "acting"
    /\ pc' = "asking"
    /\ lastError' = e
    /\ UNCHANGED <<maxRetries, i>>

CanRetry ==
    /\ pc = "asking"
    /\ pc' = "delaying"
    /\ UNCHANGED <<maxRetries, i, lastError>>

\* canRetry says no: lastError is thrown.  Or it throws, and its error is.
CannotRetry ==
    /\ pc = "asking"
    /\ Settle
    /\ UNCHANGED maxRetries

\* The delay follows every failure that may be retried, the last one too.
DelayElapsed ==
    /\ pc = "delaying"
    /\ IF i < Retries THEN pc' = "acting" /\ i' = i + 1 /\ UNCHANGED lastError
                      ELSE Settle
    /\ UNCHANGED maxRetries

-----------------------------------------------------------------------------
Progress ==
    \/ ActionReturns
    \/ \E e \in Errors : ActionThrows(e)
    \/ CanRetry \/ CannotRetry
    \/ DelayElapsed

Next == (\E n \in RetryCounts : Start(n)) \/ Progress

Spec == Init /\ [][Next]_vars

-----------------------------------------------------------------------------
(* Properties                                                              *)

\* The action is attempted at most 1 + max(0, maxRetries) times (i counts from
\* zero), and always knows the error of the attempt before.
AttemptsWithinBudget ==
    /\ i <= Retries
    /\ pc = "acting" => (lastError = NoError <=> i = 0)
=============================================================================
