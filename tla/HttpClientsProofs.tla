--------------------------- MODULE HttpClientsProofs ---------------------------
(***************************************************************************)
(* Each of the three clients keeps the promises of IHttpClient, and two of   *)
(* them log every attempt, for any requests, defaults, bodies and retries.   *)
(***************************************************************************)
EXTENDS HttpClients, TLAPS

USE ClientsAssumption, CasesAssumption

(* What the server and the network may do is never nothing.                    *)
LEMMA AnswersAreAnswers ==
    ASSUME NEW n \in Nat, NEW a \in Answers(n)
    PROVE  a.kind # "none"
<1>1. CASE request.path = "any"
  BY <1>1 DEF Answers, AnyAnswers, Answer, Fault
<1>2. CASE request.path # "any"
  <2>1. a = SampleApi(request, Sent, n)
    BY <1>2 DEF Answers
  <2> QED
    BY <2>1 DEF SampleApi, Answer, Fault, Echo, TextAnswer
<1> QED
  BY <1>1, <1>2

(* What failed is what the last attempt came to.                               *)
SendInv ==
    /\ client \in Clients /\ case \in Cases
    /\ attempt \in Nat /\ served \in Nat
    /\ at \in {"idle", "sent", "answered", "failed", "settled"}
    /\ at = "answered" => answer.kind # "none"
    /\ at \in {"idle", "sent", "answered"} => outcome = NoOutcome
    /\ at = "failed" => outcome = AttemptOutcome /\ outcome.code # "none"

LEMMA SendStep == SendInv /\ [Next]_vars => SendInv'
<1> SUFFICES ASSUME SendInv, [Next]_vars PROVE SendInv'
  OBVIOUS
<1> USE DEF SendInv, rigid
<1>1. CASE CannotSend
  BY <1>1 DEF CannotSend
<1>2. CASE Send
  BY <1>2 DEF Send, Attempt
<1>3. CASE ServerAnswers
  <2>1. answer' \in Answers(served + 1) /\ served + 1 \in Nat
    BY <1>3 DEF ServerAnswers
  <2>2. answer'.kind # "none"
    BY <2>1, AnswersAreAnswers
  <2> QED
    BY <1>3, <2>2 DEF ServerAnswers
<1>4. CASE HostIsUnknown
  <2>1. answer' \in Answers(served + 1) /\ served + 1 \in Nat
    BY <1>4 DEF HostIsUnknown
  <2>2. answer'.kind # "none"
    BY <2>1, AnswersAreAnswers
  <2> QED
    BY <1>4, <2>2 DEF HostIsUnknown
<1>5. CASE AttemptEnds
  <2>1. AttemptOutcome' = AttemptOutcome
    BY <1>5 DEF AttemptEnds, AttemptOutcome, ResponseOutcome, SuperagentResponse, processResponse,
       StatusOutcome, Rejected, Responds, TimesOut, Timeout, ConnectionError, request, defaults
  <2> QED
    BY <1>5, <2>1 DEF AttemptEnds
<1>6. CASE Retry
  BY <1>6 DEF Retry, Attempt
<1>7. CASE GiveUp
  BY <1>7 DEF GiveUp
<1>8. CASE UNCHANGED vars
  <2>1. AttemptOutcome' = AttemptOutcome
    BY <1>8 DEF vars, AttemptOutcome, ResponseOutcome, SuperagentResponse, processResponse,
       StatusOutcome, Rejected, Responds, TimesOut, Timeout, ConnectionError, request, defaults
  <2> QED
    BY <1>8, <2>1 DEF vars
<1> QED
  BY <1>1, <1>2, <1>3, <1>4, <1>5, <1>6, <1>7, <1>8 DEF Next

LEMMA SendInvariant == Spec => []SendInv
<1>1. Init => SendInv
  BY DEF Init, SendInv
<1> QED
  BY <1>1, SendStep, PTL DEF Spec

-----------------------------------------------------------------------------
(* What an attempt comes to: no error, and then a status within 200 to 299 of a *)
(* response in time; or an error, which has the status of the response or none. *)
LEMMA Outcomes ==
    ASSUME SendInv, at = "answered" \/ at = "failed"
    PROVE  /\ AttemptOutcome.code = "none" => Responds /\ answer.status \in 200 .. 299
           /\ Responds => AttemptOutcome.status \in {0, answer.status}
           /\ Responds => AttemptOutcome.code \in {"none", "ESerialization", "EBadHttpResponseStatusCode"}
           /\ ~Responds => AttemptOutcome.status = 0
<1>1. ASSUME NEW body
      PROVE  /\ StatusOutcome(body).status = answer.status
             /\ StatusOutcome(body).code \in {"none", "EBadHttpResponseStatusCode"}
             /\ StatusOutcome(body).code = "none" => answer.status \in 200 .. 299
  BY DEF StatusOutcome, Outcome, Rejected
<1>2. /\ processResponse.status \in {0, answer.status}
      /\ processResponse.code \in {"none", "ESerialization", "EBadHttpResponseStatusCode"}
      /\ processResponse.code = "none" => answer.status \in 200 .. 299
  BY <1>1 DEF processResponse, Outcome
<1>3. /\ SuperagentResponse.status \in {0, answer.status}
      /\ SuperagentResponse.code \in {"none", "ESerialization", "EBadHttpResponseStatusCode"}
      /\ SuperagentResponse.code = "none" => answer.status \in 200 .. 299
  BY <1>1 DEF SuperagentResponse, Outcome
<1>4. /\ ResponseOutcome.status \in {0, answer.status}
      /\ ResponseOutcome.code \in {"none", "ESerialization", "EBadHttpResponseStatusCode"}
      /\ ResponseOutcome.code = "none" => answer.status \in 200 .. 299
  BY <1>2, <1>3 DEF ResponseOutcome
<1>5. ~Responds /\ AttemptOutcome.code = "none" => answer.kind = "none"
  BY DEF AttemptOutcome, ConnectionError, Outcome
<1>6. at = "answered" => answer.kind # "none"
  BY DEF SendInv
<1>7. ~Responds => AttemptOutcome.status = 0
  BY DEF AttemptOutcome, ConnectionError, Outcome
<1>8. at = "failed" => AttemptOutcome.code # "none"
  BY DEF SendInv
<1> QED
  BY <1>4, <1>5, <1>6, <1>7, <1>8 DEF AttemptOutcome

(* Whatever makes a client retry may go away.                                  *)
LEMMA RetriesMayHelp ==
    ASSUME SendInv, at = "failed", MayRetry
    PROVE  Abstract!MayGoAway(
               [code |-> outcome.code, status |-> IF Responds THEN answer.status ELSE outcome.status])
<1>1. client \in {"default", "axios", "superagent"} /\ outcome = AttemptOutcome
  BY DEF SendInv
<1>2. /\ Responds => outcome.status \in {0, answer.status}
      /\ ~Responds => outcome.status = 0
  BY <1>1, Outcomes
<1>3. CASE client = "default"
  BY <1>2, <1>3 DEF MayRetry, isTransientHttpError, Abstract!MayGoAway
<1>4. CASE client = "axios"
  BY <1>2, <1>4 DEF MayRetry, AxiosMayRetry, isTransientHttpError, Abstract!MayGoAway
<1>5. CASE client = "superagent"
  BY <1>2, <1>5 DEF MayRetry, shouldRetry, Abstract!MayGoAway
<1> QED
  BY <1>1, <1>3, <1>4, <1>5

(* Every step of a client is a step of the interface, or none of its own.       *)
LEMMA AbstractStep ==
    ASSUME SendInv, [Next]_vars
    PROVE  [Abstract!Next]_(Abstract!vars)
<1> DEFINE Result == [code |-> outcome.code,
                      status |-> IF at \in {"failed", "settled"} /\ Responds THEN answer.status
                                 ELSE outcome.status]
<1> USE DEF rigid
<1>1. CASE CannotSend
  BY <1>1 DEF CannotSend, Outcome, Abstract!Next, Abstract!Reject, Retries, Or, request, defaults
<1>2. CASE Send
  BY <1>2 DEF Send, Attempt, NoOutcome, Outcome, Abstract!Next, Abstract!Attempt, Abstract!NoResult,
     Retries, Or, request, defaults
<1>3. CASE ServerAnswers \/ HostIsUnknown
  BY <1>3 DEF ServerAnswers, HostIsUnknown, Abstract!vars, Retries, Or, request, defaults
<1>4. CASE AttemptEnds
  <2>1. /\ Responds' = Responds /\ outcome' = AttemptOutcome /\ at = "answered"
        /\ answer' = answer /\ attempt' = attempt /\ Retries' = Retries
        /\ at' = IF outcome'.code = "none" THEN "settled" ELSE "failed"
    BY <1>4 DEF AttemptEnds, Responds, TimesOut, Timeout, Retries, Or, request, defaults
  <2>2. outcome'.code = "none" => Responds /\ answer.status \in 200 .. 299
    BY <2>1, Outcomes
  <2>3. CASE outcome'.code = "none"
    BY <2>1, <2>2, <2>3 DEF Abstract!Next, Abstract!Return
  <2>4. CASE outcome'.code # "none"
    BY <2>1, <2>4 DEF Abstract!Next, Abstract!Fail
  <2> QED
    BY <2>3, <2>4
<1>5. CASE Retry
  <2>1. Abstract!MayGoAway(
            [code |-> outcome.code, status |-> IF Responds THEN answer.status ELSE outcome.status])
    BY <1>5, RetriesMayHelp DEF Retry
  <2> QED
    BY <1>5, <2>1 DEF Retry, RetriesLeft, Attempt, NoOutcome, Outcome, Abstract!Next,
       Abstract!Attempt, Abstract!NoResult, Retries, Or, request, defaults
<1>6. CASE GiveUp
  <2>1. outcome.code # "none" /\ UNCHANGED <<Responds, Retries>>
    BY <1>6 DEF GiveUp, SendInv, Responds, TimesOut, Timeout, Retries, Or, request, defaults
  <2> QED
    BY <1>6, <2>1 DEF GiveUp, Abstract!Next, Abstract!Reject
<1>7. CASE UNCHANGED vars
  BY <1>7 DEF vars, Abstract!vars, Retries, Or, Responds, TimesOut, Timeout, request, defaults
<1> QED
  BY <1>1, <1>2, <1>3, <1>4, <1>5, <1>6, <1>7 DEF Next

(* send of each of the clients is a send of the interface: one settlement, of   *)
(* the last attempt; no attempt too many, and none after what will not go away. *)
THEOREM KeepsThePromises == Spec => ImplementsIHttpClient
<1>1. Init => Abstract!Init
  BY DEF Init, NoOutcome, Outcome, Abstract!Init, Abstract!NoResult, Retries, Or, request, defaults
<1> QED
  BY <1>1, SendInvariant, AbstractStep, PTL DEF Spec, ImplementsIHttpClient

-----------------------------------------------------------------------------
(* An attempt under way is the last thing that was logged, if anything is.      *)
Open == at \in {"sent", "answered"}

Events == {"started", "ended", "failed"}

Alternates(s) == \A i \in 1 .. Len(s) - 1 : s[i] = "started" <=> s[i + 1] # "started"

LogOK ==
    /\ log \in Seq(Events)
    /\ Alternates(log)
    /\ log # <<>> => (log[Len(log)] = "started" <=> Open)
    /\ Open /\ defaults.logRequests => log # <<>>
    /\ ~defaults.logRequests => log = <<>>

LogInv ==
    /\ client # "superagent" => LogOK
    /\ at = "idle" => log = <<>>

(* One more event, of the other kind than the last one.                         *)
LEMMA OneEvent ==
    ASSUME NEW s \in Seq(Events), Alternates(s), NEW event \in Events,
           s # <<>> => (s[Len(s)] = "started" <=> event # "started")
    PROVE  /\ Append(s, event) \in Seq(Events) /\ Append(s, event) # <<>>
           /\ Append(s, event)[Len(Append(s, event))] = event
           /\ Alternates(Append(s, event))
<1> DEFINE t == Append(s, event)
<1>1. /\ Len(s) \in Nat /\ t \in Seq(Events) /\ Len(t) = Len(s) + 1 /\ t[Len(s) + 1] = event
      /\ \A i \in 1 .. Len(s) : t[i] = s[i]
  OBVIOUS
<1>2. ASSUME NEW i \in 1 .. Len(t) - 1
      PROVE  t[i] = "started" <=> t[i + 1] # "started"
  <2>1. i \in 1 .. Len(s)
    BY <1>1, <1>2
  <2>2. CASE i = Len(s)
    <3>1. s # <<>>
      BY <1>1, <2>1
    <3>2. t[i] = s[Len(s)] /\ t[i + 1] = event
      BY <1>1, <2>1, <2>2
    <3> QED
      BY <3>1, <3>2
  <2>3. CASE i # Len(s)
    <3>1. i \in 1 .. Len(s) - 1 /\ i + 1 \in 1 .. Len(s)
      BY <1>1, <2>1, <2>3
    <3> QED
      BY <1>1, <3>1 DEF Alternates
  <2> QED
    BY <2>2, <2>3
<1>3. t # <<>>
  BY <1>1
<1> QED
  BY <1>1, <1>2, <1>3 DEF Alternates

LEMMA LogStep == SendInv /\ LogInv /\ [Next]_vars => LogInv'
<1> SUFFICES ASSUME SendInv, LogInv, [Next]_vars PROVE LogInv'
  OBVIOUS
<1> USE DEF rigid
<1>1. ASSUME UNCHANGED <<client, case, log>>, Open' <=> Open, at' = "idle" => at = "idle"
      PROVE  LogInv'
  BY <1>1 DEF LogInv, LogOK, Alternates, defaults
<1>2. ASSUME NEW event \in Events, event = "started" <=> ~Open,
             UNCHANGED <<client, case>>, Open' <=> ~Open, at' # "idle",
             client # "superagent" => Logs(<<event>>)
      PROVE  LogInv'
  <2>1. CASE client # "superagent" /\ defaults.logRequests
    <3>1. log' = Append(log, event) /\ log \in Seq(Events) /\ Alternates(log)
          /\ (log # <<>> => (log[Len(log)] = "started" <=> event # "started"))
      BY <1>2, <2>1 DEF Logs, LogInv, LogOK
    <3>2. /\ log' \in Seq(Events) /\ log' # <<>> /\ log'[Len(log')] = event
          /\ Alternates(log')
      BY <3>1, OneEvent
    <3>3. event = "started" <=> Open'
      BY <1>2
    <3>4. LogOK'
      BY <1>2, <2>1, <3>2, <3>3 DEF LogOK, Alternates, defaults
    <3> QED
      BY <1>2, <3>4 DEF LogInv
  <2>2. CASE client # "superagent" /\ ~defaults.logRequests
    BY <1>2, <2>2 DEF LogInv, LogOK, Logs, defaults, Alternates
  <2>3. CASE client = "superagent"
    BY <1>2, <2>3 DEF LogInv
  <2> QED
    BY <2>1, <2>2, <2>3
<1>3. CASE CannotSend
  <2>1. /\ at = "idle" /\ at' = "settled" /\ log = <<>>
        /\ UNCHANGED <<client, case>>
        /\ log' \in {<<>>, <<"started", "failed">>}
        /\ ~defaults.logRequests => log' = <<>>
    BY <1>3 DEF CannotSend, Logs, LogInv
  <2>2. <<"started", "failed">> \in Seq(Events) /\ <<>> \in Seq(Events)
    BY DEF Events
  <2>3. Alternates(<<"started", "failed">>) /\ Alternates(<<>>)
    BY DEF Alternates
  <2>4. ~Open' /\ defaults' = defaults
    BY <2>1 DEF Open, defaults
  <2>5. log' \in Seq(Events) /\ Alternates(log') /\ (log' # <<>> => log'[Len(log')] = "failed")
    <3>1. CASE log' = <<>>
      BY <2>2, <2>3, <3>1
    <3>2. CASE log' = <<"started", "failed">>
      <4>1. Len(log') = 2 /\ log'[2] = "failed"
        BY <3>2
      <4> QED
        BY <2>2, <2>3, <3>2, <4>1
    <3> QED
      BY <2>1, <3>1, <3>2
  <2>6. LogOK'
    BY <2>1, <2>4, <2>5 DEF LogOK, Alternates
  <2> QED
    BY <2>1, <2>6 DEF LogInv
<1>4. CASE Send \/ Retry
  BY <1>2, <1>4 DEF Send, Retry, Attempt, Open, Events
<1>5. CASE ServerAnswers \/ HostIsUnknown
  BY <1>1, <1>5 DEF ServerAnswers, HostIsUnknown, Open
<1>6. CASE AttemptEnds
  <2>1. PICK event \in {"ended", "failed"} : client # "superagent" => Logs(<<event>>)
    BY <1>6 DEF AttemptEnds, LogOf, DefaultLog, AxiosLog, SendInv
  <2> QED
    BY <1>2, <1>6, <2>1 DEF AttemptEnds, Open, Events
<1>7. CASE GiveUp
  <2>1. client # "superagent" => log' = log
    BY <1>7 DEF GiveUp, Logs, LogInv, LogOK
  <2> QED
    BY <1>7, <2>1 DEF GiveUp, LogInv, LogOK, Alternates, Open, defaults
<1>8. CASE UNCHANGED vars
  BY <1>1, <1>8 DEF vars, Open
<1> QED
  BY <1>3, <1>4, <1>5, <1>6, <1>7, <1>8 DEF Next

(* DefaultHttpClient and Axios tell the logger how each attempt ended, before   *)
(* the next one starts and before send settles.                                *)
THEOREM EveryAttemptIsLogged == Spec => []AttemptsAreLogged
<1>1. Init => LogInv
  <2>1. <<>> \in Seq(Events) /\ Alternates(<<>>)
    BY DEF Alternates
  <2> QED
    BY <2>1 DEF Init, LogInv, LogOK, Open
<1>2. SendInv /\ LogInv => AttemptsAreLogged
  BY DEF LogInv, LogOK, Alternates, Open, AttemptsAreLogged, Last
<1> QED
  BY <1>1, <1>2, LogStep, SendInvariant, PTL DEF Spec

-----------------------------------------------------------------------------
(* A send to the server of the suite.  What reached the server, and what the    *)
(* last attempt was answered, follow from the number of attempts; a send ends   *)
(* when an attempt succeeds or may not be retried.                              *)
SuiteInv ==
    /\ at = "idle" => attempt = 0
    /\ attempt = 0 =>
          /\ served = 0 /\ sentId = "none"
          /\ at # "idle" =>
                /\ at = "settled" /\ CannotSendCode # "none"
                /\ outcome = Outcome(CannotSendCode, 0, Undefined)
    /\ attempt > 0 =>
          /\ CannotSendCode = "none" /\ sentId = CorrelationId
          /\ attempt <= Retries + 1
          /\ request.path = "unknown-host" => served = 0
          /\ request.path # "unknown-host" =>
                /\ at = "sent" => served + 1 = attempt
                /\ at # "sent" => served = attempt
          /\ at # "sent" => answer = SampleApi(request, Sent, attempt)
          /\ at \in {"failed", "settled"} => outcome = AttemptOutcome
          /\ at = "settled" => outcome.code = "none" \/ ~(MayRetry /\ RetriesLeft)

(* Nothing is logged where logs are turned off.                                *)
Silence == ~defaults.logRequests => log = <<>>

(* What a step that leaves the send and its answer alone leaves alone.          *)
LEMMA SameSend ==
    ASSUME UNCHANGED rigid
    PROVE  /\ request' = request /\ defaults' = defaults /\ CannotSendCode' = CannotSendCode
           /\ Sent' = Sent /\ CorrelationId' = CorrelationId /\ Retries' = Retries
           /\ UNCHANGED answer => Responds' = Responds /\ AttemptOutcome' = AttemptOutcome
           /\ UNCHANGED <<answer, outcome, attempt>> =>
                  MayRetry' = MayRetry /\ RetriesLeft' = RetriesLeft
<1>1. request' = request /\ defaults' = defaults /\ client' = client
  BY DEF rigid, request, defaults
<1>2. Content' = Content
  BY <1>1 DEF Content, DefaultContent, SuperagentContent, ContentType
<1>3. Retries' = Retries /\ CorrelationId' = CorrelationId
  BY <1>1 DEF Retries, CorrelationId
<1>4. CannotSendCode' = CannotSendCode /\ Sent' = Sent
  BY <1>1, <1>2 DEF CannotSendCode, NoLengthCode, Sent, CookieHeader, GivenToNode
<1>5. ASSUME UNCHANGED answer PROVE Responds' = Responds /\ AttemptOutcome' = AttemptOutcome
  BY <1>1, <1>5 DEF AttemptOutcome, ResponseOutcome, SuperagentResponse, processResponse,
     StatusOutcome, Rejected, Responds, TimesOut, Timeout, ConnectionError
<1>6. ASSUME UNCHANGED <<answer, outcome, attempt>>
      PROVE  MayRetry' = MayRetry /\ RetriesLeft' = RetriesLeft
  BY <1>1, <1>3, <1>5, <1>6 DEF MayRetry, AxiosMayRetry, RetriesLeft
<1> QED
  BY <1>1, <1>3, <1>4, <1>5, <1>6

(* The server of the suite is reached by every request but one.                 *)
LEMMA SampleReached ==
    ASSUME NEW n \in Nat
    PROVE  SampleApi(request, Sent, n).kind = "ENOTFOUND" <=> request.path = "unknown-host"
  BY DEF SampleApi, Fault, Answer, Echo, TextAnswer

(* ... to which the server gives the same however often it is asked.           *)
LEMMA UnknownHost ==
    ASSUME request.path = "unknown-host", NEW n
    PROVE  SampleApi(request, Sent, n) = Fault("ENOTFOUND")
  BY DEF SampleApi

(* A send to the path that may answer anything is not one to this server.      *)
LEMMA SuiteStep == SendInv /\ SuiteInv /\ request.path # "any" /\ [Next]_vars => SuiteInv'
<1> SUFFICES ASSUME SendInv, SuiteInv, request.path # "any", [Next]_vars PROVE SuiteInv'
  OBVIOUS
<1>0. /\ UNCHANGED rigid /\ attempt \in Nat /\ served \in Nat /\ Retries \in Nat
      /\ request' = request /\ CannotSendCode' = CannotSendCode
      /\ Sent' = Sent /\ CorrelationId' = CorrelationId /\ Retries' = Retries
  <2>1. UNCHANGED rigid
    BY DEF Next, CannotSend, Send, ServerAnswers, HostIsUnknown, AttemptEnds, Retry, Attempt,
       GiveUp,
       vars, rigid
  <2>2. Retries \in Nat
    BY DEF Retries, Or, request, defaults, SendInv
  <2> QED
    BY <2>1, <2>2, SameSend DEF SendInv
<1>1. CASE CannotSend
  BY <1>0, <1>1 DEF CannotSend, SuiteInv
<1>2. CASE Send
  BY <1>0, <1>2 DEF Send, Attempt, SuiteInv
<1>3. ASSUME ServerAnswers \/ HostIsUnknown PROVE SuiteInv'
  <2>1. /\ at = "sent" /\ at' = "answered" /\ attempt > 0
        /\ answer' = SampleApi(request, Sent, served + 1)
        /\ UNCHANGED <<attempt, outcome, sentId>>
    <3>1. at = "sent" /\ at' = "answered" /\ UNCHANGED <<attempt, outcome, sentId>>
      BY <1>3 DEF ServerAnswers, HostIsUnknown
    <3>2. answer' \in Answers(served + 1)
      BY <1>3 DEF ServerAnswers, HostIsUnknown
    <3>3. attempt > 0
      BY <1>0, <3>1 DEF SuiteInv
    <3> QED
      BY <3>1, <3>2, <3>3 DEF Answers
  <2>2. served' = IF request.path = "unknown-host" THEN served ELSE served + 1
    <3>1. answer'.kind = "ENOTFOUND" <=> request.path = "unknown-host"
      BY <1>0, <2>1, SampleReached
    <3>2. CASE ServerAnswers
      BY <3>1, <3>2 DEF ServerAnswers, ReachesServer
    <3>3. CASE HostIsUnknown
      BY <3>1, <3>3 DEF HostIsUnknown, ReachesServer
    <3> QED
      BY <1>3, <3>2, <3>3
  <2>3. answer' = SampleApi(request, Sent, attempt)
    <3>1. CASE request.path = "unknown-host"
      BY <2>1, <3>1, UnknownHost
    <3>2. CASE request.path # "unknown-host"
      BY <1>0, <2>1, <3>2 DEF SuiteInv
    <3> QED
      BY <3>1, <3>2
  <2> QED
    BY <1>0, <2>1, <2>2, <2>3 DEF SuiteInv
<1>4. CASE AttemptEnds
  <2>1. AttemptOutcome' = AttemptOutcome
    BY <1>0, <1>4, SameSend DEF AttemptEnds
  <2> QED
    BY <1>0, <1>4, <2>1 DEF AttemptEnds, SuiteInv
<1>5. CASE Retry
  BY <1>0, <1>5 DEF Retry, Attempt, RetriesLeft, SuiteInv, SendInv
<1>6. CASE GiveUp
  <2>1. AttemptOutcome' = AttemptOutcome /\ MayRetry' = MayRetry /\ RetriesLeft' = RetriesLeft
    BY <1>0, <1>6, SameSend DEF GiveUp
  <2> QED
    BY <1>0, <1>6, <2>1 DEF GiveUp, SuiteInv
<1>7. CASE UNCHANGED vars
  <2>1. AttemptOutcome' = AttemptOutcome /\ MayRetry' = MayRetry /\ RetriesLeft' = RetriesLeft
    BY <1>0, <1>7, SameSend DEF vars
  <2> QED
    BY <1>0, <1>7, <2>1 DEF vars, SuiteInv
<1> QED
  BY <1>1, <1>2, <1>3, <1>4, <1>5, <1>6, <1>7 DEF Next

(* Every step logs through Logs.                                               *)
LEMMA SilenceStep == SendInv /\ Silence /\ [Next]_vars => Silence'
  BY DEF Next, CannotSend, Send, ServerAnswers, HostIsUnknown, AttemptEnds, Retry, Attempt, GiveUp,
     vars, rigid, Logs, Silence, defaults

(* Each attempt is logged, and the end of a send that returns.                 *)
Told ==
    /\ log \in Seq(Events)
    /\ defaults.logRequests /\ attempt > 0 =>
          /\ "started" \in ToSet(log)
          /\ at = "settled" /\ outcome.code = "none" => "ended" \in ToSet(log)

(* What was logged stays there.                                                *)
LEMMA LogGrows ==
    ASSUME log \in Seq(Events), NEW events \in Seq(Events), Logs(events)
    PROVE  /\ log' \in Seq(Events) /\ ToSet(log) \subseteq ToSet(log')
           /\ defaults.logRequests => ToSet(events) \subseteq ToSet(log')
<1>1. CASE defaults.logRequests
  <2>1. log' = log \o events
    BY <1>1 DEF Logs
  <2>2. /\ log' \in Seq(Events) /\ Len(log') = Len(log) + Len(events)
        /\ Len(log) \in Nat /\ Len(events) \in Nat
        /\ \A i \in 1 .. Len(log) : log'[i] = log[i]
        /\ \A i \in 1 .. Len(events) : log'[Len(log) + i] = events[i]
    BY <2>1
  <2>3. /\ DOMAIN log = 1 .. Len(log) /\ DOMAIN events = 1 .. Len(events)
        /\ DOMAIN log' = 1 .. Len(log')
    BY <2>2
  <2>4. ASSUME NEW x \in ToSet(log) PROVE x \in ToSet(log')
    <3>1. PICK i \in 1 .. Len(log) : log[i] = x
      BY <2>3, <2>4 DEF ToSet
    <3>2. i \in DOMAIN log' /\ log'[i] = x
      BY <2>2, <2>3, <3>1
    <3> QED
      BY <3>2 DEF ToSet
  <2>5. ASSUME NEW x \in ToSet(events) PROVE x \in ToSet(log')
    <3>1. PICK i \in 1 .. Len(events) : events[i] = x
      BY <2>3, <2>5 DEF ToSet
    <3>2. Len(log) + i \in DOMAIN log' /\ log'[Len(log) + i] = x
      BY <2>2, <2>3, <3>1
    <3> QED
      BY <3>2 DEF ToSet
  <2> QED
    BY <2>2, <2>4, <2>5
<1>2. CASE ~defaults.logRequests
  BY <1>2 DEF Logs
<1> QED
  BY <1>1, <1>2

LEMMA ToldStep == SendInv /\ Told /\ [Next]_vars => Told'
<1> SUFFICES ASSUME SendInv, Told, [Next]_vars PROVE Told'
  OBVIOUS
<1> USE DEF rigid
<1>1. /\ <<>> \in Seq(Events) /\ <<"started">> \in Seq(Events) /\ <<"ended">> \in Seq(Events)
      /\ <<"failed">> \in Seq(Events) /\ <<"started", "failed">> \in Seq(Events)
  BY DEF Events
<1>2. "started" \in ToSet(<<"started">>) /\ "ended" \in ToSet(<<"ended">>)
  BY DEF ToSet
<1>3. CASE CannotSend
  <2>1. attempt' = attempt /\ at = "idle" /\ outcome'.code # "none" /\ defaults' = defaults
    BY <1>3 DEF CannotSend, Outcome, defaults
  <2>2. log' \in Seq(Events) /\ ToSet(log) \subseteq ToSet(log')
    BY <1>1, <1>3, LogGrows DEF CannotSend, Told
  <2> QED
    BY <2>1, <2>2 DEF Told
<1>4. CASE Send \/ Retry
  <2>1. at' = "sent" /\ defaults' = defaults /\ Logs(<<"started">>)
    BY <1>4 DEF Send, Retry, Attempt, defaults
  <2>2. log' \in Seq(Events) /\ (defaults.logRequests => "started" \in ToSet(log'))
    BY <1>1, <1>2, <2>1, LogGrows DEF Told
  <2> QED
    BY <2>1, <2>2 DEF Told
<1>5. CASE ServerAnswers \/ HostIsUnknown
  BY <1>5 DEF ServerAnswers, HostIsUnknown, Told, defaults
<1>6. CASE AttemptEnds
  <2>1. /\ at = "answered" /\ outcome' = AttemptOutcome /\ attempt' = attempt
        /\ defaults' = defaults /\ Logs(LogOf(outcome'))
    BY <1>6 DEF AttemptEnds, defaults
  <2>2. client \in {"default", "axios", "superagent"}
    BY DEF SendInv
  <2>3. LogOf(outcome') \in Seq(Events)
    BY <1>1, <2>2 DEF LogOf, DefaultLog, AxiosLog, SuperagentLog
  <2>4. outcome'.code = "none" => LogOf(outcome') = <<"ended">>
    BY <2>1, <2>2, Outcomes DEF LogOf, DefaultLog, AxiosLog, SuperagentLog
  <2>5. log' \in Seq(Events) /\ ToSet(log) \subseteq ToSet(log')
        /\ (defaults.logRequests => ToSet(LogOf(outcome')) \subseteq ToSet(log'))
    BY <2>1, <2>3, LogGrows DEF Told
  <2> QED
    BY <1>2, <2>1, <2>4, <2>5 DEF Told
<1>7. CASE GiveUp
  <2>1. /\ at = "failed" /\ outcome' = outcome /\ outcome.code # "none" /\ attempt' = attempt
        /\ defaults' = defaults
    BY <1>7 DEF GiveUp, SendInv, defaults
  <2>2. log' \in Seq(Events) /\ ToSet(log) \subseteq ToSet(log')
    BY <1>1, <1>7, LogGrows DEF GiveUp, SuperagentErrorLog, Told
  <2> QED
    BY <2>1, <2>2 DEF Told
<1>8. CASE UNCHANGED vars
  BY <1>8 DEF vars, Told, defaults
<1> QED
  BY <1>3, <1>4, <1>5, <1>6, <1>7, <1>8 DEF Next

-----------------------------------------------------------------------------
(* Which serializer each of the content types of the suite has.                *)
LEMMA Serializers ==
    /\ findSerializer(Json) = "json" /\ findSerializer(Form) = "form"
    /\ findSerializer(Plain) = "text" /\ findSerializer(Html) = "text"
    /\ findSerializer(Octets) = "binary" /\ findSerializer(Jpeg) = "binary"
    /\ findSerializer(Yaml) = "none"
  BY DEF findSerializer, Json, Form, Plain, Html, Octets, Jpeg, Yaml

(* No two of them are the same, and none is the absence of one.                *)
LEMMA Types ==
    /\ NoType \notin {Json, Form, Plain, Html, Octets, Jpeg, Yaml}
    /\ Json \notin {Form, Plain, Html, Octets, Jpeg, Yaml}
    /\ Form \notin {Plain, Html, Octets, Jpeg, Yaml}
    /\ Json[1] = "application" /\ Form[1] = "application" /\ Yaml[1] = "application"
    /\ Plain[1] = "text" /\ Html[1] = "text" /\ Jpeg[1] = "image"
  BY DEF NoType, Json, Form, Plain, Html, Octets, Jpeg, Yaml

(* The three clients understand a response alike.  Of JSON:                    *)
LEMMA ReadsJson ==
    ASSUME NEW data, data \notin {"number", "nothing"},
           Responds, answer.type = Json, answer.chars = Chars("json", data)
    PROVE  AttemptOutcome = StatusOutcome(Object(data))
<1> DEFINE chars == Chars("json", data)
<1>0. chars # Empty /\ chars.format = "json" /\ chars.data = data
  BY DEF Chars, Empty
<1>1. JsonDeserializer(chars) = Object(data) /\ Object(data) # Throws
  BY <1>0 DEF JsonDeserializer, Parsed, Object, Value, Throws, Chars
<1>2. deserialize(chars, Json) = Object(data)
  BY <1>0, <1>1, Serializers, Types DEF deserialize, deserializeWith
<1>3. SuperagentBody(chars, Json) = Object(data)
  BY <1>0, <1>1, Types DEF SuperagentBody
<1>4. ~HasNoKeys(Object(data))
  BY DEF HasNoKeys, Object, Value, Number, CharsOf, Chars, Empty
<1>5. evalBody(Object(data), SuperagentText(chars, Json)) = Object(data)
  BY <1>4 DEF evalBody
<1> QED
  BY <1>1, <1>2, <1>3, <1>5 DEF AttemptOutcome, ResponseOutcome, processResponse, SuperagentResponse

(* Of what says it is JSON and is not: an error, of another status for superagent.*)
LEMMA BadJson ==
    ASSUME NEW data, Responds, answer.type = Json, answer.chars = Chars("plain", data)
    PROVE  AttemptOutcome.code = "ESerialization"
<1> DEFINE chars == Chars("plain", data)
<1>0. chars # Empty /\ chars.format = "plain" /\ chars.data = data
  BY DEF Chars, Empty
<1>1. JsonDeserializer(chars) = Throws
  BY <1>0 DEF JsonDeserializer
<1>2. deserialize(chars, Json) = Throws
  BY <1>0, <1>1, Serializers, Types DEF deserialize, deserializeWith
<1>3. SuperagentBody(chars, Json) = Throws
  BY <1>0, <1>1, Types DEF SuperagentBody
<1> QED
  BY <1>0, <1>1, <1>2, <1>3 DEF AttemptOutcome, ResponseOutcome, processResponse,
     SuperagentResponse, Outcome

(* Of a form:                                                                  *)
LEMMA ReadsForm ==
    ASSUME NEW data, data # "nothing",
           Responds, answer.type = Form, answer.chars = Chars("form", data)
    PROVE  AttemptOutcome = StatusOutcome(Object(data))
<1> DEFINE chars == Chars("form", data)
<1>0. chars # Empty /\ chars.format = "form" /\ chars.data = data
  BY DEF Chars, Empty
<1>1. Object(data) # Throws
  BY DEF Object, Value, Throws, Chars
<1>2. deserialize(chars, Form) = Object(data)
  BY <1>0, <1>1, Serializers, Types DEF deserialize, deserializeWith
<1>3. SuperagentBody(chars, Form) = Object(data)
  BY <1>0, <1>1, Types DEF SuperagentBody
<1>4. ~HasNoKeys(Object(data))
  BY DEF HasNoKeys, Object, Value, Number, CharsOf, Chars, Empty
<1>5. evalBody(Object(data), SuperagentText(chars, Form)) = Object(data)
  BY <1>4 DEF evalBody
<1> QED
  BY <1>1, <1>2, <1>3, <1>5 DEF AttemptOutcome, ResponseOutcome, processResponse, SuperagentResponse

(* Of text, which the body of superagent leaves in the text of the response:   *)
LEMMA ReadsText ==
    ASSUME NEW type \in {Html, Plain}, NEW chars, NEW format, NEW data, chars = Chars(format, data),
           Responds, answer.type = type, answer.chars = chars
    PROVE  AttemptOutcome = StatusOutcome(IF chars = Empty THEN Null ELSE String(format, data))
<1> DEFINE body == IF chars = Empty THEN Null ELSE String(format, data)
<1>0. chars.format = format /\ chars.data = data
  BY DEF Chars
<1>1. type[1] = "text" /\ type # NoType /\ type # Json /\ type # Octets /\ type # Form
  BY DEF Html, Plain, NoType, Json, Octets, Form
<1>2. findSerializer(type) = "text"
  BY <1>1 DEF findSerializer
<1>3. deserialize(chars, type) = body
  BY <1>0, <1>1, <1>2 DEF deserialize, deserializeWith
<1>4. SuperagentBody(chars, type) = Object("nothing")
  BY <1>1 DEF SuperagentBody
<1>5. SuperagentText(chars, type) = chars
  BY <1>1 DEF SuperagentText
<1>6. evalBody(Object("nothing"), chars) = body
  BY <1>0 DEF evalBody, HasNoKeys, Object, Value
<1>7. body # Throws /\ Object("nothing") # Throws
  BY DEF Null, String, Value, Object, Throws, Chars
<1> QED
  BY <1>0, <1>3, <1>4, <1>5, <1>6, <1>7 DEF AttemptOutcome, ResponseOutcome, processResponse,
     SuperagentResponse

(* Of a type that has no deserializer, or a binary one:                        *)
LEMMA ReadsBytes ==
    ASSUME NEW type \in {Yaml, Jpeg}, NEW format, NEW data, format # "empty",
           Responds, answer.type = type, answer.chars = Chars(format, data)
    PROVE  AttemptOutcome = StatusOutcome(Buffer(format, data))
<1> DEFINE chars == Chars(format, data)
           body == Buffer(format, data)
<1>0. chars.format = format /\ chars.data = data /\ chars # Empty
  BY DEF Chars, Empty
<1>1. type[1] # "text" /\ type # NoType /\ type # Json /\ type # Octets /\ type # Form
  BY DEF Yaml, Jpeg, NoType, Json, Octets, Form
<1>2. findSerializer(type) \in {"binary", "none"}
  BY <1>1 DEF findSerializer
<1>3. deserialize(chars, type) = body
  BY <1>0, <1>1, <1>2 DEF deserialize, deserializeWith
<1>4. SuperagentBody(chars, type) = body
  BY <1>0, <1>1 DEF SuperagentBody
<1>6. ~HasNoKeys(body)
  BY <1>0 DEF HasNoKeys, Object, Value, Buffer, Number, CharsOf, Chars, Empty
<1>7. body # Throws
  BY DEF Buffer, Value, Throws, Chars
<1> QED
  BY <1>0, <1>3, <1>4, <1>6, <1>7 DEF AttemptOutcome, ResponseOutcome, processResponse,
     SuperagentResponse, evalBody

-----------------------------------------------------------------------------
(* What they send of a body, and when they refuse to.                          *)
LEMMA SendsNothing ==
    ASSUME request.body = Undefined, request.contentType = NoType
    PROVE  Content = Empty /\ CannotSendCode = "none"
<1>0. request.body.type = "undefined"
  BY DEF Undefined, Value
<1>1. ContentType = NoType
  BY <1>0 DEF ContentType, guessContentTypeFrom
<1>2. Content = Empty
  BY <1>1 DEF Content, DefaultContent, SuperagentContent, Undefined, Null, Value
<1> QED
  BY <1>2 DEF CannotSendCode, Empty, Throws, Chars, CharsOf, Null, Value

(* A send is refused for content that threw or has no length.                  *)
LEMMA MaySend ==
    ASSUME Content.format \notin {"throws", "none"}
    PROVE  CannotSendCode = "none"
  BY DEF CannotSendCode, Throws, Chars, CharsOf, Null, Value

(* A string or a buffer goes out as it is, if its type has no serializer that  *)
(* refuses it.                                                                 *)
LEMMA SendsCharacters ==
    ASSUME NEW format, NEW data, format \notin {"throws", "none"},
           \/ request.body = String(format, data) /\ findSerializer(ContentType) # "binary"
           \/ request.body = Buffer(format, data) /\ findSerializer(ContentType) # "text",
           ContentType # NoType
    PROVE  Content = Chars(format, data) /\ CannotSendCode = "none"
<1> DEFINE body == request.body
<1>1. body.type \in {"string", "buffer"} /\ CharsOf(body) = Chars(format, data)
      /\ body # Undefined /\ body # Null /\ ~Missing(body)
      /\ (body.type = "string" => findSerializer(ContentType) # "binary")
      /\ (body.type = "buffer" => findSerializer(ContentType) # "text")
  BY DEF String, Buffer, Value, Undefined, Null, Missing, CharsOf, Chars
<1>2. findSerializer(ContentType) \in {"json", "binary", "form", "text", "none"}
  BY DEF findSerializer
<1>3. serialize(body, ContentType) = Chars(format, data)
  BY <1>1, <1>2 DEF serialize, serializeWith, JsonSerializer, FormSerializer, TextSerializer,
     BinarySerializer, isAlreadySerialized
<1>4. validateRequestContentType(ContentType, body) = Chars(format, data)
  BY <1>1 DEF validateRequestContentType, isAlreadySerializedContent
<1>5. Content = Chars(format, data)
  BY <1>1, <1>3, <1>4 DEF Content, DefaultContent, SuperagentContent
<1> QED
  BY <1>5, MaySend DEF Chars

(* An object goes out as JSON, by default.                                     *)
LEMMA SendsJson ==
    ASSUME NEW data, request.body = Object(data), request.contentType = NoType
    PROVE  ContentType = Json /\ Content = Chars("json", data) /\ CannotSendCode = "none"
<1> DEFINE body == request.body
<1>1. body.type = "object" /\ body.data = data /\ body # Undefined /\ body # Null /\ ~Missing(body)
  BY DEF Object, Value, Undefined, Null, Missing
<1>2. ContentType = Json /\ Json # NoType
  BY <1>1, Types DEF ContentType, guessContentTypeFrom
<1>3. stringify(body) = Chars("json", data)
  BY <1>1 DEF stringify
<1>4. serialize(body, Json) = Chars("json", data)
  BY <1>1, <1>3, Serializers DEF serialize, serializeWith, JsonSerializer
<1>5. validateRequestContentType(Json, body) = Chars("json", data)
  BY <1>1, <1>3, Types DEF validateRequestContentType, isAlreadySerializedContent, Serializes,
     SuperagentSends
<1>6. Content = Chars("json", data)
  BY <1>1, <1>2, <1>4, <1>5 DEF Content, DefaultContent, SuperagentContent
<1> QED
  BY <1>2, <1>6, MaySend DEF Chars

(* An object as a form, or a URLSearchParams: a property that is null is empty.*)
LEMMA SendsForm ==
    ASSUME \/ request.body = Object("withNull") /\ request.contentType = Form
           \/ request.body = Params("blank") /\ request.contentType = NoType
    PROVE  ContentType = Form /\ Content = Chars("form", "blank") /\ CannotSendCode = "none"
<1> DEFINE body == request.body
<1>1. /\ \/ body.type = "object" /\ body.data = "withNull" /\ request.contentType = Form
         \/ body.type = "params" /\ body.data = "blank" /\ request.contentType = NoType
      /\ body # Undefined /\ body # Null /\ ~Missing(body)
  BY DEF Object, Params, Value, Undefined, Null, Missing
<1>2. ContentType = Form /\ Form # NoType
  BY <1>1, Types DEF ContentType, guessContentTypeFrom
<1>4. serialize(body, Form) = Chars("form", "blank")
  BY <1>1, Serializers DEF serialize, serializeWith, FormSerializer, Blanked
<1>5. validateRequestContentType(Form, body) = Chars("form", "blank")
  BY <1>1, Types DEF validateRequestContentType, isAlreadySerializedContent, Serializes,
     SuperagentSends
<1>6. Content = Chars("form", "blank")
  BY <1>1, <1>2, <1>4, <1>5 DEF Content, DefaultContent, SuperagentContent
<1> QED
  BY <1>2, <1>6, MaySend DEF Chars

(* A number is neither bytes nor something no serializer is needed for.        *)
LEMMA RefusesNumbers ==
    ASSUME request.body = Number, request.contentType \in {Yaml, Jpeg}
    PROVE  CannotSendCode = "ESerialization"
<1> DEFINE type == request.contentType
<1>1. Number.type = "number" /\ Number # Undefined /\ Number # Null
  BY DEF Number, Value, Undefined, Null
<1>2. ContentType = type /\ type # NoType /\ type # Json /\ type # Form
  BY Types DEF ContentType
<1>3. findSerializer(type) \in {"binary", "none"}
  BY Serializers
<1>4. serialize(Number, type) = Throws
  BY <1>1, <1>3 DEF serialize, serializeWith, BinarySerializer, isAlreadySerialized, Missing
<1>5. validateRequestContentType(type, Number) = Throws
  BY <1>1, <1>2, <1>3 DEF validateRequestContentType, isAlreadySerializedContent, Serializes,
     serializeWith, BinarySerializer, Missing
<1>6. Content = Throws
  BY <1>1, <1>2, <1>4, <1>5 DEF Content, DefaultContent, SuperagentContent
<1> QED
  BY <1>6 DEF CannotSendCode, Throws, Chars, CharsOf, Null, Value

-----------------------------------------------------------------------------
(* How a send ends.                                                            *)
SuiteState == SendInv /\ SuiteInv /\ Silence /\ at = "settled"

(* What the suite expects of the end of a send.                                *)
Meets(e) ==
    /\ outcome.code = e.code
    /\ e.status # 0 => outcome.status = e.status
    /\ e.body # Undefined => outcome.body = e.body
    /\ e.served # 0 => served = e.served
    /\ sentId = e.correlationId

(* There are three clients.                                                    *)
LEMMA ClientIsKnown == SuiteState => client \in {"default", "axios", "superagent"}
  BY DEF SuiteState, SendInv

(* A send whose request could be sent: after its last attempt.                 *)
LEMMA Ended ==
    ASSUME SuiteState, CannotSendCode = "none"
    PROVE  /\ attempt \in Nat \ {0} /\ sentId = CorrelationId /\ attempt <= Retries + 1
           /\ request.path # "unknown-host" => served = attempt
           /\ answer = SampleApi(request, Sent, attempt)
           /\ outcome = AttemptOutcome
           /\ outcome.code = "none" \/ ~(MayRetry /\ attempt <= Retries)
  BY DEF SuiteState, SendInv, SuiteInv, RetriesLeft

(* A send whose request could not be sent: at once.                            *)
LEMMA NotSent ==
    ASSUME SuiteState, CannotSendCode # "none"
    PROVE  /\ outcome = Outcome(CannotSendCode, 0, Undefined) /\ sentId = "none" /\ served = 0
  BY DEF SuiteState, SendInv, SuiteInv

(* The fields of a case.                                                       *)
LEMMA Fields ==
    ASSUME NEW r, NEW d, NEW e, case = With(d, Case(r, e))
    PROVE  request = r /\ defaults = d /\ case.expected = e
  BY DEF Case, With, request, defaults

(* The fields of a case, without defaults.                                     *)
LEMMA PlainFields ==
    ASSUME NEW r, NEW e, case = Case(r, e)
    PROVE  request = r /\ defaults = NoDefaults /\ case.expected = e
  BY DEF Case, request, defaults

(* The fields of its request: of a GET,                                        *)
LEMMA GetFields ==
    ASSUME NEW path
    PROVE  /\ Get(path).method = "GET" /\ Get(path).path = path /\ Get(path).body = Undefined
           /\ Get(path).cookie = Undefined
           /\ Get(path).contentType = NoType /\ Get(path).correlationId = "none"
           /\ Get(path).retries = 0 /\ Get(path).timeout = 0
  BY DEF Get, Request

(* and of a POST.                                                              *)
LEMMA PostFields ==
    ASSUME NEW path, NEW type, NEW body
    PROVE  /\ Post(path, type, body).method = "POST" /\ Post(path, type, body).path = path
           /\ Post(path, type, body).body = body /\ Post(path, type, body).contentType = type
           /\ Post(path, type, body).correlationId = "none"
           /\ Post(path, type, body).retries = 0 /\ Post(path, type, body).timeout = 0
  BY DEF Post, Request

(* With no retries, no timeout: what the server answers to the only request.   *)
LEMMA Single ==
    ASSUME SuiteState, CannotSendCode = "none", Retries = 0
    PROVE  /\ attempt = 1 /\ sentId = CorrelationId
           /\ request.path # "unknown-host" => served = 1
           /\ answer = SampleApi(request, Sent, 1)
           /\ outcome = AttemptOutcome
  BY Ended

(* A response whose status is that of a success, or not.                       *)
LEMMA Success ==
    ASSUME NEW status \in 200 .. 299, NEW body, answer.status = status
    PROVE  StatusOutcome(body) = Outcome("none", status, body)
  BY DEF StatusOutcome, Rejected

(* A response of a bad status has its body in the error.                       *)
LEMMA Failure ==
    ASSUME NEW status \in Nat \ (200 .. 299), NEW body, answer.status = status
    PROVE  StatusOutcome(body) = Outcome("EBadHttpResponseStatusCode", status, body)
  BY DEF StatusOutcome, Rejected

(* Without a timeout every response is in time.                                *)
LEMMA NoTimeout ==
    ASSUME NEW status, NEW type, NEW chars, Timeout = 0, answer = Answer(status, type, chars)
    PROVE  Responds /\ answer.status = status /\ answer.type = type /\ answer.chars = chars
  BY DEF Responds, TimesOut, Answer

(* The GET requests of the suite, and what the server gives them.              *)
LEMMA OnGet ==
    ASSUME SuiteState, NEW path, request = Get(path), path # "unknown-host",
           defaults.retries = 0, defaults.timeout = 0,
           NEW status, NEW type, NEW chars,
           SampleApi(request, Sent, 1) = Answer(status, type, chars)
    PROVE  /\ answer.status = status /\ answer.type = type /\ answer.chars = chars /\ Responds
           /\ outcome = AttemptOutcome /\ served = 1 /\ sentId = CorrelationId
<1>1. request.body = Undefined /\ request.contentType = NoType /\ Retries = 0 /\ Timeout = 0
      /\ request.path = path
  BY GetFields DEF Retries, Timeout, Or
<1>2. CannotSendCode = "none"
  BY <1>1, SendsNothing
<1>3. /\ answer = Answer(status, type, chars) /\ outcome = AttemptOutcome /\ served = 1
      /\ sentId = CorrelationId
  BY <1>1, <1>2, Single
<1> QED
  BY <1>1, <1>3, NoTimeout

(* The POST requests, sent with the characters of Content.                     *)
LEMMA OnPost ==
    ASSUME SuiteState, NEW path, NEW type, NEW body, request = Post(path, type, body),
           path # "unknown-host",
           defaults = NoDefaults, CannotSendCode = "none",
           NEW status, NEW answerType, NEW chars,
           SampleApi(request, Sent, 1) = Answer(status, answerType, chars)
    PROVE  /\ answer.status = status /\ answer.type = answerType /\ answer.chars = chars /\ Responds
           /\ outcome = AttemptOutcome /\ served = 1 /\ sentId = "none"
<1>1. Retries = 0 /\ Timeout = 0 /\ request.path = path /\ CorrelationId = "none"
  BY PostFields DEF Retries, Timeout, Or, NoDefaults, CorrelationId
<1>2. /\ answer = Answer(status, answerType, chars) /\ outcome = AttemptOutcome /\ served = 1
      /\ sentId = "none"
  BY <1>1, Single
<1> QED
  BY <1>1, <1>2, NoTimeout

(* No correlation ID and no timeout, of the request or by default.             *)
LEMMA NoId ==
    ASSUME NEW path, request = Get(path), defaults \in {NoDefaults, Silent}
    PROVE  CorrelationId = "none" /\ defaults.retries = 0 /\ defaults.timeout = 0
  BY GetFields DEF CorrelationId, NoDefaults, Silent

(* A send that returns the body the suite asks for.                            *)
LEMMA Gives ==
    ASSUME NEW status \in 200 .. 299, NEW body, NEW n \in {0, 1},
           answer.status = status, outcome = AttemptOutcome, AttemptOutcome = StatusOutcome(body),
           served = 1, sentId = "none"
    PROVE  Meets(Served(Returns(status, body), n)) /\ Meets(Returns(status, body))
<1>1. outcome = Outcome("none", status, body)
  BY Success
<1> QED
  BY <1>1 DEF Meets, Outcome, Returns, Served

(* SampleApi, for each of the GET requests                                     *)
LEMMA ApiGet ==
    ASSUME NEW sent
    PROVE  /\ SampleApi(Get("yaml"), sent, 1) = Answer(200, Yaml, Chars("plain", FooBar))
           /\ SampleApi(Get("json"), sent, 1) = Answer(200, Json, Chars("json", "todo"))
           /\ SampleApi(Get("form"), sent, 1) = Answer(200, Form, Chars("form", "topic"))
           /\ SampleApi(Get("text"), sent, 1) = TextAnswer(sent.cookie)
           /\ SampleApi(Get("bad-json"), sent, 1) = Answer(200, Json, Chars("plain", "a:1"))
           /\ SampleApi(Get("bad-request"), sent, 1)
                 = Answer(400, Html, Chars("plain", "validation-error"))
           /\ SampleApi(Get("todox"), sent, 1) = Answer(404, Html, Chars("plain", "cannot-get"))
  BY DEF SampleApi, Get, Request

(* and the POST requests of the suite.                                         *)
LEMMA ApiPost ==
    ASSUME NEW sent, NEW type, NEW body
    PROVE  /\ SampleApi(Post("yaml", type, body), sent, 1) = Echo(201, Yaml, sent)
           /\ SampleApi(Post("json", type, body), sent, 1) = Echo(201, Json, sent)
           /\ SampleApi(Post("form", type, body), sent, 1) = Echo(201, Json, sent)
           /\ SampleApi(Post("text", type, body), sent, 1) = Echo(201, Plain, sent)
           /\ SampleApi(Post("html", type, body), sent, 1) = Echo(201, Html, sent)
           /\ SampleApi(Post("binary", type, body), sent, 1) = Echo(200, Jpeg, sent)
  BY DEF SampleApi, Post, Request

(* A client that is given no cookies sends none,                               *)
LEMMA NoCookies ==
    ASSUME SuiteState, request = Get("text")
    PROVE  SampleApi(request, Sent, 1) = Answer(200, Html, Chars("plain", "hello"))
<1>1. request.cookie = Undefined /\ Undefined.type = "undefined" /\ Undefined.format = "none"
  BY GetFields DEF Undefined, Value
<1>2. client \in {"default", "axios", "superagent"}
  BY ClientIsKnown
<1>3. GivenToNode = Undefined
  BY <1>1, <1>2 DEF GivenToNode, AxiosCookie, copyHeaders
<1>4. Sent.cookie = Undefined
  BY <1>1, <1>3 DEF Sent, CookieHeader
<1>5. TextAnswer(Undefined) = Answer(200, Html, Chars("plain", "hello"))
  BY <1>1 DEF TextAnswer, Answer
<1> QED
  BY <1>4, <1>5, ApiGet

(* and one that is given an array of them sends them as one string.            *)
LEMMA SendsCookies ==
    ASSUME SuiteState, NEW items, request.cookie = Array(items)
    PROVE  Sent.cookie = Joined(items)
<1>1. /\ Array(items).type = "array" /\ Array(items).data = items
      /\ Joined(items).type = "string"
  BY DEF Array, Joined, String, Value
<1>2. client \in {"default", "axios", "superagent"}
  BY ClientIsKnown
<1>3. GivenToNode \in {Array(items), Joined(items)}
  BY <1>1, <1>2 DEF GivenToNode, AxiosCookie, copyHeaders
<1> QED
  BY <1>1, <1>3 DEF Sent, CookieHeader

(* One request reached the server, and its answer arrived.                     *)
Answered(status, type, chars) ==
    /\ answer.status = status /\ answer.type = type /\ answer.chars = chars /\ Responds
    /\ outcome = AttemptOutcome /\ served = 1 /\ sentId = "none"

(* A GET without an ID or a timeout.                                           *)
LEMMA PlainGet ==
    ASSUME SuiteState, NEW path, request = Get(path), path # "unknown-host",
           defaults \in {NoDefaults, Silent},
           NEW status, NEW type, NEW chars,
           SampleApi(request, Sent, 1) = Answer(status, type, chars)
    PROVE  Answered(status, type, chars)
<1>1. CorrelationId = "none" /\ defaults.retries = 0 /\ defaults.timeout = 0
  BY NoId
<1> QED
  BY <1>1, OnGet DEF Answered

(* A body that is sent as its characters, and given back.                      *)
LEMMA PlainPost ==
    ASSUME SuiteState, NEW path, NEW type, NEW body, request = Post(path, type, body),
           path # "unknown-host",
           defaults = NoDefaults, CannotSendCode = "none",
           NEW status, NEW answerType, SampleApi(request, Sent, 1) = Echo(status, answerType, Sent)
    PROVE  Answered(status, answerType,
                    IF answerType = Json THEN Chars("json", Content.data) ELSE Content)
<1> DEFINE chars == IF answerType = Json THEN Chars("json", Content.data) ELSE Content
<1>1. SampleApi(request, Sent, 1) = Answer(status, answerType, chars)
  BY DEF Echo, Sent
<1> QED
  BY <1>1, OnPost DEF Answered

(* The answer to either, understood.                                           *)
LEMMA Understood ==
    ASSUME NEW status \in 200 .. 299, NEW type, NEW chars, NEW body, Answered(status, type, chars),
           AttemptOutcome = StatusOutcome(body), NEW n \in {0, 1}
    PROVE  Meets(Served(Returns(status, body), n)) /\ Meets(Returns(status, body))
  BY Gives DEF Answered

(* The content of a POST with a content type,                                  *)
LEMMA SendsTyped ==
    ASSUME NEW path, NEW type, NEW format, NEW data, format \notin {"throws", "none"},
           \/ request = Post(path, type, String(format, data)) /\ findSerializer(type) # "binary"
           \/ request = Post(path, type, Buffer(format, data)) /\ findSerializer(type) # "text",
           type # NoType
    PROVE  Content = Chars(format, data) /\ CannotSendCode = "none"
<1>1. ContentType = type
  BY PostFields DEF ContentType
<1> QED
  BY <1>1, PostFields, SendsCharacters

(* and without one: text for a string, octets for a buffer.                    *)
LEMMA SendsGuessed ==
    ASSUME NEW path, NEW format, NEW data, format \notin {"throws", "none"},
           \/ request = Post(path, NoType, String(format, data))
           \/ request = Post(path, NoType, Buffer(format, data))
    PROVE  Content = Chars(format, data) /\ CannotSendCode = "none"
<1>1. request.contentType = NoType
  BY PostFields
<1>2. CASE request = Post(path, NoType, String(format, data))
  <2>1. request.body = String(format, data) /\ request.body.type = "string"
    BY <1>2, PostFields DEF String, Value
  <2>2. ContentType = Plain
    BY <1>1, <2>1 DEF ContentType, guessContentTypeFrom
  <2> QED
    BY <2>1, <2>2, Serializers, Types, SendsCharacters
<1>3. CASE request = Post(path, NoType, Buffer(format, data))
  <2>1. request.body = Buffer(format, data) /\ request.body.type = "buffer"
    BY <1>3, PostFields DEF Buffer, Value
  <2>2. ContentType = Octets
    BY <1>1, <2>1 DEF ContentType, guessContentTypeFrom
  <2> QED
    BY <2>1, <2>2, Serializers, Types, SendsCharacters
<1> QED
  BY <1>2, <1>3

(* What is no success: a bad status of a response, in text.                    *)
LEMMA TextRejected ==
    ASSUME NEW status \in Nat \ (200 .. 299), NEW data, Responds, answer.status = status,
           answer.type \in {Html, Plain}, answer.chars = Chars("plain", data)
    PROVE  AttemptOutcome
              = Outcome("EBadHttpResponseStatusCode", status, String("plain", data))
<1>1. Chars("plain", data) # Empty
  BY DEF Chars, Empty
<1>2. AttemptOutcome = StatusOutcome(String("plain", data))
  BY <1>1, ReadsText
<1> QED
  BY <1>2, Failure

(* A fault of the connection, without a timeout.                               *)
LEMMA Faults ==
    ASSUME NEW kind, kind # "response", answer = Fault(kind), Timeout = 0
    PROVE  AttemptOutcome = Outcome(kind, 0, Undefined) /\ ~Responds
<1>1. answer.kind = kind /\ ~Responds /\ ~TimesOut
  BY DEF Fault, Responds, TimesOut
<1> QED
  BY <1>1 DEF AttemptOutcome, ConnectionError

(* A send with one retry, whose first attempt fails in a way every client       *)
(* retries, settles after its second.                                          *)
LEMMA Retried ==
    ASSUME SuiteState, NEW path, path # "unknown-host",
           request = [Get(path) EXCEPT !.retries = 1], defaults = NoDefaults,
           attempt = 1 => outcome.code # "none" /\ MayRetry
    PROVE  /\ served = 2 /\ sentId = "none" /\ Timeout = 0
           /\ answer = SampleApi(request, Sent, 2) /\ outcome = AttemptOutcome
<1>1. request.body = Undefined /\ request.contentType = NoType /\ Retries = 1 /\ Timeout = 0
      /\ request.path = path /\ CorrelationId = "none"
  BY DEF Retries, Timeout, Or, NoDefaults, Get, Request, CorrelationId
<1>2. CannotSendCode = "none"
  BY <1>1, SendsNothing
<1>3. /\ attempt \in Nat \ {0} /\ sentId = CorrelationId /\ attempt <= 2
      /\ served = attempt /\ answer = SampleApi(request, Sent, attempt)
      /\ outcome = AttemptOutcome
      /\ outcome.code = "none" \/ ~(MayRetry /\ attempt <= 1)
  BY <1>1, <1>2, Ended
<1>4. attempt = 2
  BY <1>3
<1> QED
  BY <1>1, <1>3, <1>4

(* The request of such a send.                                                 *)
LEMMA RetriedFields ==
    ASSUME NEW path
    PROVE  /\ [Get(path) EXCEPT !.retries = 1].path = path
           /\ [Get(path) EXCEPT !.retries = 1].method = "GET"
           /\ [Get(path) EXCEPT !.retries = 1].body = Undefined
           /\ [Get(path) EXCEPT !.retries = 1].contentType = NoType
           /\ [Get(path) EXCEPT !.retries = 1].timeout = 0
  BY DEF Get, Request

(* What the server gave to the first attempt of such a send.                   *)
LEMMA FirstAnswer ==
    ASSUME SuiteState, NEW path, request = [Get(path) EXCEPT !.retries = 1], defaults = NoDefaults,
           attempt = 1
    PROVE  answer = SampleApi(request, Sent, 1) /\ outcome = AttemptOutcome /\ Timeout = 0
<1>1. CannotSendCode = "none"
  BY RetriedFields, SendsNothing
<1> QED
  BY <1>1, RetriedFields, Ended DEF Timeout, Or, NoDefaults

(* What every client retries.                                                  *)
LEMMA TransientIsRetried ==
    ASSUME SuiteState,
           \/ outcome.code = "ECONNRESET"
           \/ /\ outcome.code = "EBadHttpResponseStatusCode" /\ outcome.status = 500
              /\ Responds /\ answer.status = 500
    PROVE  outcome.code # "none" /\ MayRetry
<1>1. /\ isTransientHttpError(outcome.status, outcome.code)
      /\ shouldRetry(outcome.status, outcome.code)
  BY DEF isTransientHttpError, shouldRetry
<1>2. AxiosMayRetry
  BY DEF AxiosMayRetry, isTransientHttpError
<1>3. client \in {"default", "axios", "superagent"}
  BY ClientIsKnown
<1>4. CASE client = "default"
  BY <1>1, <1>4 DEF MayRetry
<1>5. CASE client = "axios"
  BY <1>2, <1>5 DEF MayRetry
<1>6. CASE client = "superagent"
  BY <1>1, <1>6 DEF MayRetry
<1> QED
  BY <1>3, <1>4, <1>5, <1>6

(* /retry-json: 500 first, the JSON then.                                      *)
LEMMA RetriedJson ==
    ASSUME SuiteState,
           case = Case([Get("retry-json") EXCEPT !.retries = 1], Served(Returns(200, Todo), 2))
    PROVE  Meets(case.expected)
<1> DEFINE r == [Get("retry-json") EXCEPT !.retries = 1]
<1>1. request = r /\ defaults = NoDefaults /\ case.expected = Served(Returns(200, Todo), 2)
  BY PlainFields
<1>2. request.path = "retry-json"
  BY <1>1, RetriedFields
<1>3. ASSUME attempt = 1 PROVE outcome.code # "none" /\ MayRetry
  <2>1. answer = SampleApi(request, Sent, 1) /\ outcome = AttemptOutcome /\ Timeout = 0
    BY <1>1, <1>3, FirstAnswer
  <2>2. answer = Answer(500, Plain, Chars("plain", "internal-server-error"))
    BY <1>2, <2>1 DEF SampleApi
  <2>3. /\ Responds /\ answer.status = 500 /\ answer.type = Plain
        /\ answer.chars = Chars("plain", "internal-server-error")
    BY <2>1, <2>2, NoTimeout
  <2>4. outcome.code = "EBadHttpResponseStatusCode" /\ outcome.status = 500
    BY <2>1, <2>3, TextRejected DEF Outcome
  <2> QED
    BY <2>3, <2>4, TransientIsRetried
<1>4. /\ served = 2 /\ sentId = "none" /\ Timeout = 0
      /\ answer = SampleApi(request, Sent, 2) /\ outcome = AttemptOutcome
  BY <1>1, <1>3, Retried
<1>5. answer = Answer(200, Json, Chars("json", "todo"))
  BY <1>2, <1>4 DEF SampleApi
<1>6. /\ Responds /\ answer.status = 200 /\ answer.type = Json
      /\ answer.chars = Chars("json", "todo")
  BY <1>4, <1>5, NoTimeout
<1>7. AttemptOutcome = StatusOutcome(Todo)
  BY <1>6, ReadsJson DEF Todo
<1>8. outcome = Outcome("none", 200, Todo)
  BY <1>4, <1>6, <1>7, Success
<1> QED
  BY <1>1, <1>4, <1>8 DEF Meets, Served, Returns, Outcome

(* /disconnected-request: cut first, the text then.                            *)
LEMMA RetriedText ==
    ASSUME SuiteState,
           case = Case([Get("disconnected-request") EXCEPT !.retries = 1],
                       Served(Returns(200, HelloWorld), 2))
    PROVE  Meets(case.expected)
<1> DEFINE r == [Get("disconnected-request") EXCEPT !.retries = 1]
<1>1. request = r /\ defaults = NoDefaults /\ case.expected = Served(Returns(200, HelloWorld), 2)
  BY PlainFields
<1>2. request.path = "disconnected-request"
  BY <1>1, RetriedFields
<1>3. ASSUME attempt = 1 PROVE outcome.code # "none" /\ MayRetry
  <2>1. answer = SampleApi(request, Sent, 1) /\ outcome = AttemptOutcome /\ Timeout = 0
    BY <1>1, <1>3, FirstAnswer
  <2>2. answer = Fault("ECONNRESET")
    BY <1>2, <2>1 DEF SampleApi
  <2>3. outcome.code = "ECONNRESET"
    BY <2>1, <2>2, Faults DEF Outcome
  <2> QED
    BY <2>3, TransientIsRetried
<1>4. /\ served = 2 /\ sentId = "none" /\ Timeout = 0
      /\ answer = SampleApi(request, Sent, 2) /\ outcome = AttemptOutcome
  BY <1>1, <1>3, Retried
<1>5. answer = Answer(200, Html, Chars("plain", "hello"))
  BY <1>2, <1>4 DEF SampleApi
<1>6. /\ Responds /\ answer.status = 200 /\ answer.type = Html
      /\ answer.chars = Chars("plain", "hello")
  BY <1>4, <1>5, NoTimeout
<1>7. AttemptOutcome = StatusOutcome(HelloWorld)
  BY <1>6, ReadsText DEF HelloWorld, Chars, Empty
<1>8. outcome = Outcome("none", 200, HelloWorld)
  BY <1>4, <1>6, <1>7, Success
<1> QED
  BY <1>1, <1>4, <1>8 DEF Meets, Served, Returns, Outcome

(* A connection that fails, of a request without retries.                      *)
LEMMA ConnectionFails ==
    ASSUME SuiteState, NEW path, request = Get(path), defaults = NoDefaults,
           NEW kind, kind # "response", SampleApi(request, Sent, 1) = Fault(kind)
    PROVE  /\ outcome = Outcome(kind, 0, Undefined) /\ sentId = "none"
           /\ path # "unknown-host" => served = 1
<1>1. /\ request.body = Undefined /\ request.contentType = NoType /\ Retries = 0 /\ Timeout = 0
      /\ request.path = path
  BY GetFields DEF Retries, Timeout, Or, NoDefaults
<1>2. CannotSendCode = "none" /\ CorrelationId = "none"
  BY <1>1, SendsNothing, NoId
<1>3. answer = Fault(kind) /\ outcome = AttemptOutcome /\ sentId = "none"
      /\ (path # "unknown-host" => served = 1)
  BY <1>1, <1>2, Single
<1> QED
  BY <1>1, <1>3, Faults

(* ... which is an error without the retry.                                    *)
LEMMA Disconnected ==
    ASSUME SuiteState, case = Case(Get("disconnected-request"), Served(Rejects("ECONNRESET", 0), 1))
    PROVE  Meets(case.expected)
<1>1. /\ request = Get("disconnected-request") /\ defaults = NoDefaults
      /\ case.expected = Served(Rejects("ECONNRESET", 0), 1)
  BY PlainFields
<1>2. SampleApi(request, Sent, 1) = Fault("ECONNRESET")
  BY <1>1, GetFields DEF SampleApi
<1>3. outcome = Outcome("ECONNRESET", 0, Undefined) /\ sentId = "none" /\ served = 1
  BY <1>1, <1>2, ConnectionFails
<1> QED
  BY <1>1, <1>3 DEF Meets, Served, Rejects, Returns, Outcome

(* /bad-request: 400, with a body.                                             *)
LEMMA BadRequestIsMet ==
    ASSUME SuiteState, request = Get("bad-request"), defaults \in {NoDefaults, Silent}
    PROVE  Meets(BadRequest)
<1>1. Answered(400, Html, Chars("plain", "validation-error"))
  BY ApiGet, PlainGet
<1>2. outcome = Outcome("EBadHttpResponseStatusCode", 400, String("plain", "validation-error"))
  BY <1>1, TextRejected DEF Answered
<1> QED
  BY <1>1, <1>2 DEF Answered, Meets, BadRequest, BadStatus, Served, Rejects, Returns, Outcome

-----------------------------------------------------------------------------
(* The cases.                                                                  *)
(* A content type that no serializer is for.                                   *)
LEMMA ContentTypesAreMet ==
    ASSUME SuiteState, case \in ContentTypeCases
    PROVE  Meets(case.expected)
<1>1. ASSUME case = Case(Post("yaml", Yaml, Number), Rejects("ESerialization", 0))
      PROVE  Meets(case.expected)
  <2>1. request = Post("yaml", Yaml, Number) /\ case.expected = Rejects("ESerialization", 0)
    BY <1>1, PlainFields
  <2>2. CannotSendCode = "ESerialization"
    BY <2>1, PostFields, RefusesNumbers
  <2>3. outcome = Outcome("ESerialization", 0, Undefined) /\ sentId = "none"
    BY <2>2, NotSent
  <2> QED
    BY <2>1, <2>3 DEF Meets, Rejects, Returns, Outcome
<1>2. ASSUME case = Case(Post("yaml", Yaml, Buffer("plain", FooBar)),
                         Returns(201, Buffer("plain", FooBar)))
      PROVE  Meets(case.expected)
  <2>1. request = Post("yaml", Yaml, Buffer("plain", FooBar)) /\ defaults = NoDefaults
        /\ case.expected = Returns(201, Buffer("plain", FooBar))
    BY <1>2, PlainFields
  <2>2. Content = Chars("plain", FooBar) /\ CannotSendCode = "none"
    BY <2>1, SendsTyped, Serializers, Types
  <2>3. Answered(201, Yaml, Chars("plain", FooBar))
    BY <2>1, <2>2, ApiPost, PlainPost, Types
  <2>4. AttemptOutcome = StatusOutcome(Buffer("plain", FooBar))
    BY <2>3, ReadsBytes DEF Answered
  <2> QED
    BY <2>1, <2>3, <2>4, Understood
<1>3. ASSUME case = Case(Get("yaml"), Returns(200, Buffer("plain", FooBar)))
      PROVE  Meets(case.expected)
  <2>1. request = Get("yaml") /\ defaults = NoDefaults
        /\ case.expected = Returns(200, Buffer("plain", FooBar))
    BY <1>3, PlainFields
  <2>2. Answered(200, Yaml, Chars("plain", FooBar))
    BY <2>1, ApiGet, PlainGet
  <2>3. AttemptOutcome = StatusOutcome(Buffer("plain", FooBar))
    BY <2>2, ReadsBytes DEF Answered
  <2> QED
    BY <2>1, <2>2, <2>3, Understood
<1> QED
  BY <1>1, <1>2, <1>3 DEF ContentTypeCases

(* Forms, received and sent.                                                   *)
LEMMA FormsAreMet ==
    ASSUME SuiteState, case \in FormCases
    PROVE  Meets(case.expected)
<1>1. ASSUME case = Case(Get("form"), Returns(200, Object("topic")))
      PROVE  Meets(case.expected)
  <2>1. request = Get("form") /\ defaults = NoDefaults
        /\ case.expected = Returns(200, Object("topic"))
    BY <1>1, PlainFields
  <2>2. Answered(200, Form, Chars("form", "topic"))
    BY <2>1, ApiGet, PlainGet
  <2>3. AttemptOutcome = StatusOutcome(Object("topic"))
    BY <2>2, ReadsForm DEF Answered
  <2> QED
    BY <2>1, <2>2, <2>3, Understood
<1>2. ASSUME case = Case(Post("form", Form, Object("withNull")), Returns(201, Object("blank")))
      PROVE  Meets(case.expected)
  <2>1. request = Post("form", Form, Object("withNull")) /\ defaults = NoDefaults
        /\ case.expected = Returns(201, Object("blank"))
    BY <1>2, PlainFields
  <2>2. Content = Chars("form", "blank") /\ CannotSendCode = "none"
    BY <2>1, PostFields, SendsForm
  <2>3. Answered(201, Json, Chars("json", "blank"))
    BY <2>1, <2>2, ApiPost, PlainPost, Types DEF Chars
  <2>4. AttemptOutcome = StatusOutcome(Object("blank"))
    BY <2>3, ReadsJson DEF Answered
  <2> QED
    BY <2>1, <2>3, <2>4, Understood
<1>3. ASSUME case = Case(Post("form", NoType, Params("blank")), Returns(201, Object("blank")))
      PROVE  Meets(case.expected)
  <2>1. request = Post("form", NoType, Params("blank")) /\ defaults = NoDefaults
        /\ case.expected = Returns(201, Object("blank"))
    BY <1>3, PlainFields
  <2>2. Content = Chars("form", "blank") /\ CannotSendCode = "none"
    BY <2>1, PostFields, SendsForm
  <2>3. Answered(201, Json, Chars("json", "blank"))
    BY <2>1, <2>2, ApiPost, PlainPost, Types DEF Chars
  <2>4. AttemptOutcome = StatusOutcome(Object("blank"))
    BY <2>3, ReadsJson DEF Answered
  <2> QED
    BY <2>1, <2>3, <2>4, Understood
<1> QED
  BY <1>1, <1>2, <1>3 DEF FormCases

(* JSON, that is wrong, right, sent as an object, a buffer and a string.       *)
LEMMA JsonIsMet ==
    ASSUME SuiteState, case \in JsonCases
    PROVE  Meets(case.expected)
<1>1. ASSUME case = Case(Get("bad-json"), Served(Rejects("ESerialization", 0), 1))
      PROVE  Meets(case.expected)
  <2>1. request = Get("bad-json") /\ defaults = NoDefaults
        /\ case.expected = Served(Rejects("ESerialization", 0), 1)
    BY <1>1, PlainFields
  <2>2. Answered(200, Json, Chars("plain", "a:1"))
    BY <2>1, ApiGet, PlainGet
  <2>3. AttemptOutcome.code = "ESerialization"
    BY <2>2, BadJson DEF Answered
  <2> QED
    BY <2>1, <2>2, <2>3 DEF Answered, Meets, Served, Rejects, Returns
<1>2. ASSUME case = Case(Get("json"), LoggedJson)
      PROVE  Meets(case.expected)
  <2>1. request = Get("json") /\ defaults = NoDefaults /\ case.expected = LoggedJson
    BY <1>2, PlainFields
  <2>2. Answered(200, Json, Chars("json", "todo"))
    BY <2>1, ApiGet, PlainGet
  <2>3. AttemptOutcome = StatusOutcome(Todo)
    BY <2>2, ReadsJson DEF Answered, Todo
  <2>4. Meets(Served(Returns(200, Todo), 1))
    BY <2>2, <2>3, Understood
  <2> QED
    BY <2>1, <2>4 DEF LoggedJson, Meets, Served, Returns
<1>3. ASSUME case = Case([Get("retry-json") EXCEPT !.retries = 1], Served(Returns(200, Todo), 2))
      PROVE  Meets(case.expected)
  BY <1>3, RetriedJson
<1>4. ASSUME case = Case(Post("json", NoType, Age), Served(Returns(201, Age), 1))
      PROVE  Meets(case.expected)
  <2>1. request = Post("json", NoType, Age) /\ defaults = NoDefaults
        /\ case.expected = Served(Returns(201, Age), 1)
    BY <1>4, PlainFields
  <2>2. Content = Chars("json", "age") /\ CannotSendCode = "none"
    BY <2>1, PostFields, SendsJson DEF Age
  <2>3. Answered(201, Json, Chars("json", "age"))
    BY <2>1, <2>2, ApiPost, PlainPost, Types DEF Chars
  <2>4. AttemptOutcome = StatusOutcome(Age)
    BY <2>3, ReadsJson DEF Answered, Age
  <2> QED
    BY <2>1, <2>3, <2>4, Understood
<1>5. ASSUME case = Case(Post("json", Json, Buffer("json", "age")), Returns(201, Age))
      PROVE  Meets(case.expected)
  <2>1. request = Post("json", Json, Buffer("json", "age")) /\ defaults = NoDefaults
        /\ case.expected = Returns(201, Age)
    BY <1>5, PlainFields
  <2>2. Content = Chars("json", "age") /\ CannotSendCode = "none"
    BY <2>1, SendsTyped, Serializers, Types
  <2>3. Answered(201, Json, Chars("json", "age"))
    BY <2>1, <2>2, ApiPost, PlainPost, Types DEF Chars
  <2>4. AttemptOutcome = StatusOutcome(Age)
    BY <2>3, ReadsJson DEF Answered, Age
  <2> QED
    BY <2>1, <2>3, <2>4, Understood
<1>6. ASSUME case = Case(Post("json", Json, String("json", "age")), Returns(201, Age))
      PROVE  Meets(case.expected)
  <2>1. request = Post("json", Json, String("json", "age")) /\ defaults = NoDefaults
        /\ case.expected = Returns(201, Age)
    BY <1>6, PlainFields
  <2>2. Content = Chars("json", "age") /\ CannotSendCode = "none"
    BY <2>1, SendsTyped, Serializers, Types
  <2>3. Answered(201, Json, Chars("json", "age"))
    BY <2>1, <2>2, ApiPost, PlainPost, Types DEF Chars
  <2>4. AttemptOutcome = StatusOutcome(Age)
    BY <2>3, ReadsJson DEF Answered, Age
  <2> QED
    BY <2>1, <2>3, <2>4, Understood
<1> QED
  BY <1>1, <1>2, <1>3, <1>4, <1>5, <1>6 DEF JsonCases

(* Text: empty, guessed, cut, retried.                                         *)
LEMMA TextIsMet ==
    ASSUME SuiteState, case \in TextCases
    PROVE  Meets(case.expected)
<1>1. ASSUME case = Case(Get("text"), Returns(200, HelloWorld))
      PROVE  Meets(case.expected)
  <2>1. request = Get("text") /\ defaults = NoDefaults
        /\ case.expected = Returns(200, HelloWorld)
    BY <1>1, PlainFields
  <2>2. Answered(200, Html, Chars("plain", "hello"))
    BY <2>1, NoCookies, PlainGet
  <2>3. AttemptOutcome = StatusOutcome(HelloWorld)
    BY <2>2, ReadsText DEF Answered, HelloWorld, Chars, Empty
  <2> QED
    BY <2>1, <2>2, <2>3, Understood
<1>2. ASSUME case = Case(Post("text", Plain, String("empty", "none")), Returns(201, Null))
      PROVE  Meets(case.expected)
  <2>1. request = Post("text", Plain, String("empty", "none")) /\ defaults = NoDefaults
        /\ case.expected = Returns(201, Null)
    BY <1>2, PlainFields
  <2>2. Content = Empty /\ CannotSendCode = "none"
    BY <2>1, SendsTyped, Serializers, Types DEF Empty
  <2>3. Answered(201, Plain, Empty)
    BY <2>1, <2>2, ApiPost, PlainPost, Types
  <2>4. AttemptOutcome = StatusOutcome(Null)
    BY <2>3, ReadsText DEF Answered, Empty
  <2> QED
    BY <2>1, <2>3, <2>4, Understood
<1>3. ASSUME case = Case(Post("text", NoType, HelloWorld), Returns(201, HelloWorld))
      PROVE  Meets(case.expected)
  <2>1. request = Post("text", NoType, HelloWorld) /\ defaults = NoDefaults
        /\ case.expected = Returns(201, HelloWorld)
    BY <1>3, PlainFields
  <2>2. Content = Chars("plain", "hello") /\ CannotSendCode = "none"
    BY <2>1, SendsGuessed DEF HelloWorld
  <2>3. Answered(201, Plain, Chars("plain", "hello"))
    BY <2>1, <2>2, ApiPost, PlainPost, Types
  <2>4. AttemptOutcome = StatusOutcome(HelloWorld)
    BY <2>3, ReadsText DEF Answered, HelloWorld, Chars, Empty
  <2> QED
    BY <2>1, <2>3, <2>4, Understood
<1>4. ASSUME case = Case(Get("disconnected-request"), Served(Rejects("ECONNRESET", 0), 1))
      PROVE  Meets(case.expected)
  BY <1>4, Disconnected
<1>5. ASSUME case = Case([Get("disconnected-request") EXCEPT !.retries = 1],
                         Served(Returns(200, HelloWorld), 2))
      PROVE  Meets(case.expected)
  BY <1>5, RetriedText
<1>6. ASSUME case = Case(Post("html", Html, String("plain", FooBar)),
                         Returns(201, String("plain", FooBar)))
      PROVE  Meets(case.expected)
  <2>1. request = Post("html", Html, String("plain", FooBar)) /\ defaults = NoDefaults
        /\ case.expected = Returns(201, String("plain", FooBar))
    BY <1>6, PlainFields
  <2>2. Content = Chars("plain", FooBar) /\ CannotSendCode = "none"
    BY <2>1, SendsTyped, Serializers, Types
  <2>3. Answered(201, Html, Chars("plain", FooBar))
    BY <2>1, <2>2, ApiPost, PlainPost, Types
  <2>4. AttemptOutcome = StatusOutcome(String("plain", FooBar))
    BY <2>3, ReadsText DEF Answered, Chars, Empty
  <2> QED
    BY <2>1, <2>3, <2>4, Understood
<1> QED
  BY <1>1, <1>2, <1>3, <1>4, <1>5, <1>6 DEF TextCases

(* Bytes, with a content type and without.                                     *)
LEMMA BinaryIsMet ==
    ASSUME SuiteState, case \in BinaryCases
    PROVE  Meets(case.expected)
<1>1. ASSUME case = Case(Post("binary", Jpeg, Buffer("bytes", "123")),
                         Returns(200, Buffer("bytes", "123")))
      PROVE  Meets(case.expected)
  <2>1. request = Post("binary", Jpeg, Buffer("bytes", "123")) /\ defaults = NoDefaults
        /\ case.expected = Returns(200, Buffer("bytes", "123"))
    BY <1>1, PlainFields
  <2>2. Content = Chars("bytes", "123") /\ CannotSendCode = "none"
    BY <2>1, SendsTyped, Serializers, Types
  <2>3. Answered(200, Jpeg, Chars("bytes", "123"))
    BY <2>1, <2>2, ApiPost, PlainPost, Types
  <2>4. AttemptOutcome = StatusOutcome(Buffer("bytes", "123"))
    BY <2>3, ReadsBytes DEF Answered
  <2> QED
    BY <2>1, <2>3, <2>4, Understood
<1>2. ASSUME case = Case(Post("binary", NoType, Buffer("bytes", "123")),
                         Returns(200, Buffer("bytes", "123")))
      PROVE  Meets(case.expected)
  <2>1. request = Post("binary", NoType, Buffer("bytes", "123")) /\ defaults = NoDefaults
        /\ case.expected = Returns(200, Buffer("bytes", "123"))
    BY <1>2, PlainFields
  <2>2. Content = Chars("bytes", "123") /\ CannotSendCode = "none"
    BY <2>1, SendsGuessed
  <2>3. Answered(200, Jpeg, Chars("bytes", "123"))
    BY <2>1, <2>2, ApiPost, PlainPost, Types
  <2>4. AttemptOutcome = StatusOutcome(Buffer("bytes", "123"))
    BY <2>3, ReadsBytes DEF Answered
  <2> QED
    BY <2>1, <2>3, <2>4, Understood
<1>3. ASSUME case = Case(Post("binary", Jpeg, Number), Rejects("ESerialization", 0))
      PROVE  Meets(case.expected)
  <2>1. request = Post("binary", Jpeg, Number) /\ case.expected = Rejects("ESerialization", 0)
    BY <1>3, PlainFields
  <2>2. CannotSendCode = "ESerialization"
    BY <2>1, PostFields, RefusesNumbers
  <2>3. outcome = Outcome("ESerialization", 0, Undefined) /\ sentId = "none"
    BY <2>2, NotSent
  <2> QED
    BY <2>1, <2>3 DEF Meets, Rejects, Returns, Outcome
<1> QED
  BY <1>1, <1>2, <1>3 DEF BinaryCases

(* An unknown host, an unknown resource.                                       *)
LEMMA UnknownIsMet ==
    ASSUME SuiteState, case \in UnknownCases
    PROVE  Meets(case.expected)
<1>1. ASSUME case = Case(Get("unknown-host"), Rejects("ENOTFOUND", 0))
      PROVE  Meets(case.expected)
  <2>1. /\ request = Get("unknown-host") /\ defaults = NoDefaults
        /\ case.expected = Rejects("ENOTFOUND", 0)
    BY <1>1, PlainFields
  <2>2. SampleApi(request, Sent, 1) = Fault("ENOTFOUND")
    BY <2>1, GetFields DEF SampleApi
  <2>3. outcome = Outcome("ENOTFOUND", 0, Undefined) /\ sentId = "none"
    BY <2>1, <2>2, ConnectionFails
  <2> QED
    BY <2>1, <2>3 DEF Meets, Rejects, Returns, Outcome
<1>2. ASSUME case = Case(Get("todox"), BadStatus(404))
      PROVE  Meets(case.expected)
  <2>1. request = Get("todox") /\ defaults = NoDefaults /\ case.expected = BadStatus(404)
    BY <1>2, PlainFields
  <2>2. Answered(404, Html, Chars("plain", "cannot-get"))
    BY <2>1, ApiGet, PlainGet
  <2>3. outcome = Outcome("EBadHttpResponseStatusCode", 404, String("plain", "cannot-get"))
    BY <2>2, TextRejected DEF Answered
  <2> QED
    BY <2>1, <2>2, <2>3 DEF Answered, Meets, BadStatus, Rejects, Returns, Outcome
<1> QED
  BY <1>1, <1>2 DEF UnknownCases

(* No content type of its own; a response of a bad status.                     *)
LEMMA RequestsAreMet ==
    ASSUME SuiteState, case \in RequestCases
    PROVE  Meets(case.expected)
<1>1. ASSUME case = Case(Post("html", NoType, String("plain", FooBar)),
                         Returns(201, String("plain", FooBar)))
      PROVE  Meets(case.expected)
  <2>1. request = Post("html", NoType, String("plain", FooBar)) /\ defaults = NoDefaults
        /\ case.expected = Returns(201, String("plain", FooBar))
    BY <1>1, PlainFields
  <2>2. Content = Chars("plain", FooBar) /\ CannotSendCode = "none"
    BY <2>1, SendsGuessed
  <2>3. Answered(201, Html, Chars("plain", FooBar))
    BY <2>1, <2>2, ApiPost, PlainPost, Types
  <2>4. AttemptOutcome = StatusOutcome(String("plain", FooBar))
    BY <2>3, ReadsText DEF Answered, Chars, Empty
  <2> QED
    BY <2>1, <2>3, <2>4, Understood
<1>2. ASSUME case = Case(Get("bad-request"), BadRequest)
      PROVE  Meets(case.expected)
  BY <1>2, PlainFields, BadRequestIsMet
<1> QED
  BY <1>1, <1>2 DEF RequestCases

(* The answer of /slow comes after 50 ms.                                      *)
LEMMA TimeoutsAreMet ==
    ASSUME SuiteState, case \in TimeoutCases
    PROVE  Meets(case.expected)
<1>1. ASSUME NEW t \in {10, 100}, request = [Get("slow") EXCEPT !.timeout = t],
             defaults = NoDefaults
      PROVE  /\ answer = [Answer(200, Html, Chars("plain", "ok")) EXCEPT !.after = 50]
             /\ outcome = AttemptOutcome /\ sentId = "none" /\ Timeout = t
  <2>1. /\ request.body = Undefined /\ request.contentType = NoType /\ Retries = 0 /\ Timeout = t
        /\ request.path = "slow" /\ CorrelationId = "none"
    BY <1>1 DEF Retries, Timeout, Or, NoDefaults, Get, Request, CorrelationId
  <2>2. CannotSendCode = "none"
    BY <2>1, SendsNothing
  <2>3. /\ answer = SampleApi(request, Sent, 1) /\ outcome = AttemptOutcome /\ sentId = "none"
    BY <2>1, <2>2, Single
  <2> QED
    BY <2>1, <2>3 DEF SampleApi
<1>2. ASSUME case = Case([Get("slow") EXCEPT !.timeout = 100], Returns(200, String("plain", "ok")))
      PROVE  Meets(case.expected)
  <2>1. request = [Get("slow") EXCEPT !.timeout = 100] /\ defaults = NoDefaults
        /\ case.expected = Returns(200, String("plain", "ok"))
    BY <1>2, PlainFields
  <2>2. /\ answer = [Answer(200, Html, Chars("plain", "ok")) EXCEPT !.after = 50]
        /\ outcome = AttemptOutcome /\ sentId = "none" /\ Timeout = 100
    BY <1>1, <2>1
  <2>3. /\ Responds /\ answer.status = 200 /\ answer.type = Html
        /\ answer.chars = Chars("plain", "ok")
    BY <2>2 DEF TimesOut, Responds, Answer
  <2>4. AttemptOutcome = StatusOutcome(String("plain", "ok"))
    BY <2>3, ReadsText DEF Chars, Empty
  <2>5. outcome = Outcome("none", 200, String("plain", "ok"))
    BY <2>2, <2>3, <2>4, Success
  <2> QED
    BY <2>1, <2>2, <2>5 DEF Meets, Returns, Outcome
<1>3. ASSUME case = Case([Get("slow") EXCEPT !.timeout = 10], Rejects("ETIMEDOUT", 0))
      PROVE  Meets(case.expected)
  <2>1. request = [Get("slow") EXCEPT !.timeout = 10] /\ defaults = NoDefaults
        /\ case.expected = Rejects("ETIMEDOUT", 0)
    BY <1>3, PlainFields
  <2>2. /\ answer = [Answer(200, Html, Chars("plain", "ok")) EXCEPT !.after = 50]
        /\ outcome = AttemptOutcome /\ sentId = "none" /\ Timeout = 10
    BY <1>1, <2>1
  <2>3. TimesOut /\ ~Responds
    BY <2>2 DEF TimesOut, Responds, Answer
  <2>4. outcome = Outcome("ETIMEDOUT", 0, Undefined)
    BY <2>2, <2>3 DEF AttemptOutcome, ConnectionError
  <2> QED
    BY <2>1, <2>2, <2>4 DEF Meets, Rejects, Returns, Outcome
<1> QED
  BY <1>2, <1>3 DEF TimeoutCases

(* The array of cookies: what the server gives back of them is returned.       *)
LEMMA CookiesAreMet ==
    ASSUME SuiteState, case \in CookieCases
    PROVE  Meets(case.expected) /\ SetCookie = case.expected.setCookie
<1> DEFINE r == [Get("text") EXCEPT !.cookie = Array(Cookies)]
           e == [Returns(200, HelloWorld) EXCEPT !.setCookie = WithPath(Cookies)]
<1>1. request = r /\ defaults = NoDefaults /\ case.expected = e
  <2>1. case = Case(r, e)
    BY DEF CookieCases
  <2> QED
    BY <2>1, PlainFields
<1>2. /\ r.method = "GET" /\ r.path = "text" /\ r.body = Undefined /\ r.contentType = NoType
      /\ r.cookie = Array(Cookies) /\ r.correlationId = "none" /\ r.retries = 0 /\ r.timeout = 0
  BY DEF Get, Request
<1>3. Retries = 0 /\ Timeout = 0 /\ CorrelationId = "none"
  BY <1>1, <1>2 DEF Retries, Timeout, Or, NoDefaults, CorrelationId
<1>4. CannotSendCode = "none"
  BY <1>1, <1>2, SendsNothing
<1>5. answer = SampleApi(request, Sent, 1) /\ outcome = AttemptOutcome /\ sentId = "none"
  BY <1>3, <1>4, Single
<1>6. Sent.cookie = Joined(Cookies)
  BY <1>1, <1>2, SendsCookies
<1>7. SampleApi(request, Sent, 1) = TextAnswer(Joined(Cookies))
  BY <1>1, <1>2, <1>6 DEF SampleApi
<1>8. Joined(Cookies).format = "joined" /\ Joined(Cookies).data = Cookies
  BY DEF Joined, String, Value
<1>9. answer = [Answer(200, Html, Chars("plain", "hello")) EXCEPT !.setCookie = WithPath(Cookies)]
  BY <1>5, <1>7, <1>8 DEF TextAnswer
<1>10. /\ Responds /\ answer.status = 200 /\ answer.type = Html
       /\ answer.chars = Chars("plain", "hello") /\ answer.setCookie = WithPath(Cookies)
  BY <1>3, <1>9 DEF Answer, Responds, TimesOut
<1>11. AttemptOutcome = StatusOutcome(HelloWorld)
  BY <1>10, ReadsText DEF HelloWorld, Chars, Empty
<1>12. outcome = Outcome("none", 200, HelloWorld)
  BY <1>5, <1>10, <1>11, Success
<1>13. SetCookie = WithPath(Cookies)
  <2>1. WithPath(Cookies).type = "array"
    BY DEF WithPath, Value
  <2> QED
    BY <1>10, <2>1 DEF SetCookie, convertHeaderValue
<1> QED
  BY <1>1, <1>5, <1>12, <1>13 DEF Meets, Returns, Outcome

(* The same where logs are turned off.                                         *)
LEMMA LoggingIsMet ==
    ASSUME SuiteState, case \in LoggingCases
    PROVE  Meets(case.expected)
<1>1. ASSUME case = With(Silent, Case(Get("json"), Served(Returns(200, Todo), 1)))
      PROVE  Meets(case.expected)
  <2>1. request = Get("json") /\ defaults = Silent /\ case.expected = Served(Returns(200, Todo), 1)
    BY <1>1, Fields
  <2>2. Answered(200, Json, Chars("json", "todo"))
    BY <2>1, ApiGet, PlainGet
  <2>3. AttemptOutcome = StatusOutcome(Todo)
    BY <2>2, ReadsJson DEF Answered, Todo
  <2> QED
    BY <2>1, <2>2, <2>3, Understood
<1>2. ASSUME case = With(Silent, Case(Get("bad-request"), BadRequest))
      PROVE  Meets(case.expected)
  BY <1>2, Fields, BadRequestIsMet
<1> QED
  BY <1>1, <1>2 DEF LoggingCases

(* The ID of the request, else that of the correlator, else none.              *)
LEMMA CorrelationIsMet ==
    ASSUME SuiteState, case \in CorrelationCases
    PROVE  Meets(case.expected)
<1>1. ASSUME NEW cid, CorrelationId = cid, request.path = "json", request.method = "GET",
             request.body = Undefined, request.contentType = NoType, Retries = 0, Timeout = 0,
             case.expected = GetsTodoWith(cid)
      PROVE  Meets(case.expected)
  <2>1. CannotSendCode = "none"
    BY <1>1, SendsNothing
  <2>2. /\ sentId = cid /\ served = 1 /\ outcome = AttemptOutcome
        /\ answer = SampleApi(request, Sent, 1)
    BY <1>1, <2>1, Single
  <2>3. answer = Answer(200, Json, Chars("json", "todo"))
    BY <1>1, <2>2 DEF SampleApi
  <2>4. /\ Responds /\ answer.status = 200 /\ answer.type = Json
        /\ answer.chars = Chars("json", "todo")
    BY <1>1, <2>3, NoTimeout
  <2>5. AttemptOutcome = StatusOutcome(Todo)
    BY <2>4, ReadsJson DEF Todo
  <2>6. outcome = Outcome("none", 200, Todo)
    BY <2>2, <2>4, <2>5, Success
  <2> QED
    BY <1>1, <2>2, <2>6 DEF Meets, GetsTodoWith, Served, Returns, Outcome
<1>2. ASSUME case = With(Correlator("mine"), Case(Get("json"), GetsTodoWith("mine")))
      PROVE  Meets(case.expected)
  <2>1. /\ request = Get("json") /\ defaults = Correlator("mine")
        /\ case.expected = GetsTodoWith("mine")
    BY <1>2, Fields
  <2>2. CorrelationId = "mine" /\ Retries = 0 /\ Timeout = 0
    BY <2>1, GetFields DEF CorrelationId, Retries, Timeout, Or, Correlator, Silent, NoDefaults
  <2> QED
    BY <1>1, <2>1, <2>2, GetFields
<1>3. ASSUME case = With(Correlator("undefined"), Case(Get("json"), GetsTodoWith("none")))
      PROVE  Meets(case.expected)
  <2>1. request = Get("json") /\ defaults = Correlator("undefined")
        /\ case.expected = GetsTodoWith("none")
    BY <1>3, Fields
  <2>2. CorrelationId = "none" /\ Retries = 0 /\ Timeout = 0
    BY <2>1, GetFields DEF CorrelationId, Retries, Timeout, Or, Correlator, Silent, NoDefaults
  <2> QED
    BY <1>1, <2>1, <2>2, GetFields
<1>4. ASSUME case = With(Correlator("mine"), Case([Get("json") EXCEPT !.correlationId = "existing"],
                                                  GetsTodoWith("existing")))
      PROVE  Meets(case.expected)
  <2>1. request = [Get("json") EXCEPT !.correlationId = "existing"] /\ defaults = Correlator("mine")
        /\ case.expected = GetsTodoWith("existing")
    BY <1>4, Fields
  <2>2. /\ CorrelationId = "existing" /\ Retries = 0 /\ Timeout = 0
        /\ request.path = "json" /\ request.method = "GET"
        /\ request.body = Undefined /\ request.contentType = NoType
    BY <2>1 DEF CorrelationId, Retries, Timeout, Or, Correlator, Silent, NoDefaults, Get, Request
  <2> QED
    BY <1>1, <2>1, <2>2
<1> QED
  BY <1>2, <1>3, <1>4 DEF CorrelationCases

(* What is expected of most cases: nothing of the cookies or of the log.       *)
Ordinary(e) == e.setCookie = Undefined /\ e.logged = {}

LEMMA Expectations ==
    ASSUME NEW code, NEW status, NEW body, NEW n, NEW cid
    PROVE  /\ Ordinary(Returns(status, body)) /\ Ordinary(Rejects(code, status))
           /\ Ordinary(Served(Returns(status, body), n))
           /\ Ordinary(Served(Rejects(code, status), n))
           /\ Ordinary(BadStatus(status)) /\ Ordinary(BadRequest)
           /\ Ordinary(GetsTodoWith(cid))
<1>1. Ordinary(Returns(status, body)) /\ Ordinary(Rejects(code, status))
  BY DEF Ordinary, Returns, Rejects
<1>2. Ordinary(Served(Returns(status, body), n)) /\ Ordinary(Served(Rejects(code, status), n))
  BY DEF Ordinary, Returns, Rejects, Served
<1>3. Ordinary(BadStatus(status)) /\ Ordinary(BadRequest)
  BY DEF Ordinary, Returns, Rejects, Served, BadStatus, BadRequest
<1>4. Ordinary(GetsTodoWith(cid))
  BY DEF Ordinary, Returns, Served, GetsTodoWith
<1> QED
  BY <1>1, <1>2, <1>3, <1>4

(* The expectation of a case, whatever the defaults.                           *)
LEMMA ExpectedOf ==
    ASSUME NEW r, NEW d, NEW e
    PROVE  Case(r, e).expected = e /\ With(d, Case(r, e)).expected = e
  BY DEF Case, With

(* No other case looks at the cookies, and one looks for lines of the log.     *)
LEMMA OtherCases ==
    ASSUME case \in SuiteCases
    PROVE  /\ case \notin CookieCases => case.expected.setCookie = Undefined
           /\ case # Case(Get("json"), LoggedJson) => case.expected.logged = {}
<1>1. case \in UnknownCases => Ordinary(case.expected)
  BY Expectations, ExpectedOf DEF UnknownCases
<1>2. case \in ContentTypeCases => Ordinary(case.expected)
  BY Expectations, ExpectedOf, SMTT(30) DEF ContentTypeCases
<1>3. case \in FormCases => Ordinary(case.expected)
  BY Expectations, ExpectedOf DEF FormCases
<1>4. case \in TextCases => Ordinary(case.expected)
  <2>1. case = Case([Get("disconnected-request") EXCEPT !.retries = 1],
                    Served(Returns(200, HelloWorld), 2)) => Ordinary(case.expected)
    BY PlainFields, Expectations
  <2>2. case \in {Case(Get("text"), Returns(200, HelloWorld)),
                  Case(Post("text", Plain, String("empty", "none")), Returns(201, Null)),
                  Case(Post("text", NoType, HelloWorld), Returns(201, HelloWorld))}
           => Ordinary(case.expected)
    BY Expectations, ExpectedOf
  <2>3. case \in {Case(Get("disconnected-request"), Served(Rejects("ECONNRESET", 0), 1)),
                  Case(Post("html", Html, String("plain", FooBar)),
                       Returns(201, String("plain", FooBar)))}
           => Ordinary(case.expected)
    BY Expectations, ExpectedOf
  <2> QED
    BY <2>1, <2>2, <2>3 DEF TextCases
<1>5. case \in BinaryCases => Ordinary(case.expected)
  BY Expectations, ExpectedOf, SMTT(30) DEF BinaryCases
<1>6. case \in RequestCases => Ordinary(case.expected)
  BY Expectations, ExpectedOf DEF RequestCases
<1>7. case \in TimeoutCases => Ordinary(case.expected)
  BY Expectations, ExpectedOf DEF TimeoutCases
<1>8. case \in LoggingCases => Ordinary(case.expected)
  BY Expectations, ExpectedOf DEF LoggingCases
<1>9. case \in CorrelationCases => Ordinary(case.expected)
  BY Expectations, ExpectedOf DEF CorrelationCases
<1>10. case \in JsonCases /\ case # Case(Get("json"), LoggedJson) => Ordinary(case.expected)
  <2>1. case = Case([Get("retry-json") EXCEPT !.retries = 1], Served(Returns(200, Todo), 2))
           => Ordinary(case.expected)
    BY PlainFields, Expectations
  <2>2. case \in {Case(Get("bad-json"), Served(Rejects("ESerialization", 0), 1)),
                  Case(Post("json", NoType, Age), Served(Returns(201, Age), 1))}
           => Ordinary(case.expected)
    BY Expectations, ExpectedOf
  <2>3. case \in {Case(Post("json", Json, Buffer("json", "age")), Returns(201, Age)),
                  Case(Post("json", Json, String("json", "age")), Returns(201, Age))}
           => Ordinary(case.expected)
    BY Expectations, ExpectedOf
  <2> QED
    BY <2>1, <2>2, <2>3 DEF JsonCases
<1>11. case = Case(Get("json"), LoggedJson) => case.expected.setCookie = Undefined
  <2>1. LoggedJson.setCookie = Undefined
    BY DEF LoggedJson, Served, Returns
  <2> QED
    BY <2>1, ExpectedOf
<1>12. case \in CookieCases => case.expected.logged = {}
  BY ExpectedOf DEF CookieCases, Returns
<1> QED
  BY <1>1, <1>2, <1>3, <1>4, <1>5, <1>6, <1>7, <1>8, <1>9, <1>10, <1>11, <1>12 DEF SuiteCases, Ordinary

(* None of the cases asks for the path that may answer anything.               *)
LEMMA SuitePaths ==
    ASSUME case \in SuiteCases
    PROVE  request.path # "any"
  BY DEF request, SuiteCases, UnknownCases, ContentTypeCases, JsonCases, FormCases, TextCases,
     BinaryCases, RequestCases, TimeoutCases, CookieCases, LoggingCases, CorrelationCases,
     Case, With, Get, Post, Request

(* The lines that the one case looks for are there.                            *)
LEMMA LoggedIsMet ==
    ASSUME SuiteState, Told, case = Case(Get("json"), LoggedJson)
    PROVE  case.expected.logged \subseteq ToSet(log)
<1>1. request = Get("json") /\ defaults = NoDefaults /\ case.expected = LoggedJson
  BY PlainFields
<1>2. CannotSendCode = "none"
  BY <1>1, GetFields, SendsNothing
<1>3. attempt \in Nat \ {0}
  BY <1>2, Ended
<1>4. Meets(LoggedJson)
  BY <1>1, JsonIsMet DEF JsonCases
<1>5. outcome.code = "none" /\ at = "settled" /\ defaults.logRequests
  BY <1>1, <1>4 DEF Meets, LoggedJson, Served, Returns, SuiteState, NoDefaults
<1>6. "started" \in ToSet(log) /\ "ended" \in ToSet(log)
  BY <1>3, <1>5 DEF Told
<1>7. LoggedJson.logged = {"started", "ended"}
  BY DEF LoggedJson, Served, Returns
<1> QED
  BY <1>1, <1>6, <1>7

(* Each of the three clients gives what the common suite expects of each of its*)
(* cases: the code or the status, the body, the cookies, the requests that     *)
(* reached the server, the correlation ID it saw, the lines of the log that the*)
(* case looks for, and no log where logs are turned off.                       *)
THEOREM SuiteHeld == Spec => []SuiteHolds
<1> DEFINE Inv == case \in SuiteCases => SuiteInv
<1>1. Init => Inv /\ Silence /\ Told
  <2>1. <<>> \in Seq(Events)
    OBVIOUS
  <2> QED
    BY <2>1 DEF Init, SuiteInv, Silence, Told
<1>2. SendInv /\ Inv /\ Silence /\ Told /\ [Next]_vars => Inv' /\ Silence' /\ Told'
  <2> SUFFICES ASSUME SendInv, Inv, Silence, Told, [Next]_vars PROVE Inv' /\ Silence' /\ Told'
    OBVIOUS
  <2>1. case' = case
    BY DEF Next, CannotSend, Send, ServerAnswers, HostIsUnknown, AttemptEnds, Retry, Attempt,
       GiveUp,
       vars, rigid
  <2> QED
    BY <2>1, SuitePaths, SuiteStep, SilenceStep, ToldStep
<1>3. SendInv /\ Inv /\ Silence /\ Told => SuiteHolds
  <2> SUFFICES ASSUME SendInv, SuiteInv, Silence, Told, at = "settled", case \in SuiteCases
               PROVE  /\ Meets(case.expected)
                      /\ case.expected.setCookie # Undefined =>
                            SetCookie = case.expected.setCookie
                      /\ case.expected.logged \subseteq ToSet(log)
                      /\ ~defaults.logRequests => log = <<>>
    BY DEF SuiteHolds, Meets
  <2>1. SuiteState
    BY DEF SuiteState
  <2>2. Meets(case.expected)
    BY <2>1, UnknownIsMet, ContentTypesAreMet, JsonIsMet, FormsAreMet, TextIsMet, BinaryIsMet,
       RequestsAreMet, TimeoutsAreMet, CookiesAreMet, LoggingIsMet, CorrelationIsMet DEF SuiteCases
  <2>3. case.expected.setCookie # Undefined => SetCookie = case.expected.setCookie
    BY <2>1, CookiesAreMet, OtherCases
  <2>4. case.expected.logged \subseteq ToSet(log)
    BY <2>1, LoggedIsMet, OtherCases
  <2> QED
    BY <2>2, <2>3, <2>4 DEF Silence
<1> QED
  BY <1>1, <1>2, <1>3, SendInvariant, PTL DEF Spec
=============================================================================
