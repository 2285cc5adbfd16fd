---------------------------- MODULE HttpClients ----------------------------
(***************************************************************************)
(* send of the three IHttpClients of the repository: DefaultHttpClient of    *)
(* packages/core, AxiosHttpClient and SuperagentHttpClient of the plugins,   *)
(* against one server.  A response arrives whole: DefaultHttpClient.tla      *)
(* has its events.  Axios and superagent are external.                      *)
(***************************************************************************)
EXTENDS HttpClientSuite, Sequences, SequencesExt

CONSTANTS
    Clients,  \* "default", "axios", "superagent"
    Cases     \* the requests and the defaults of the clients

ASSUME ClientsAssumption == Clients \subseteq {"default", "axios", "superagent"}
ASSUME CasesAssumption ==
    \A c \in Cases : c.request.retries \in Nat /\ c.defaults.retries \in Nat

VARIABLES
    client,   \* which client it is
    case,     \* its one send
    at,       \* where the send is suspended
    attempt,  \* how many attempts were started
    answer,   \* what the last one was answered
    outcome,  \* the response or the error it came to
    served,   \* how many requests reached the server
    sentId,   \* x-correlation-id of the last one
    log       \* what the logger was told of each attempt

rigid == <<client, case>>
vars == <<client, case, at, attempt, answer, outcome, served, sentId, log>>

request  == case.request
defaults == case.defaults

Outcome(code, status, body) == [code |-> code, status |-> status, body |-> body]
NoOutcome == Outcome("none", 0, Undefined)

Init ==
    /\ client \in Clients
    /\ case \in Cases
    /\ at = "idle"
    /\ attempt = 0
    /\ answer = Fault("none")
    /\ outcome = NoOutcome
    /\ served = 0
    /\ sentId = "none"
    /\ log = <<>>

\* a || b of two numbers
Or(a, b) == IF a # 0 THEN a ELSE b

Retries == Or(request.retries, defaults.retries)

\* Faulty: the default is not looked at.
TimeoutOfRequest == request.timeout

Timeout == Or(request.timeout, defaults.timeout)

Logs(events) == log' = IF defaults.logRequests THEN log \o events ELSE log

-----------------------------------------------------------------------------
(* The content of the request.                                               *)
ContentType ==
    IF request.contentType # NoType THEN request.contentType
    ELSE guessContentTypeFrom(request.body)

\* createRequestContent: without a content type nothing is sent.
DefaultContent ==
    IF ContentType = NoType THEN Empty ELSE serialize(request.body, ContentType)

\* Nothing is sent of a body that is undefined; null has no content type that
\* findSerializer could split.
SuperagentContent ==
    CASE request.body = Undefined                    -> Empty
      [] request.body = Null /\ ContentType = NoType -> CharsOf(Null)
      [] OTHER -> validateRequestContentType(ContentType, request.body)

Content == IF client = "superagent" THEN SuperagentContent ELSE DefaultContent

\* Content that is undefined or null has no length.  The TypeError is remapped
\* by DefaultHttpClient alone: the two others prepare a request outside of try.
NoLengthCode == IF client = "default" THEN "EUNKNOWN" ELSE "TypeError"

CannotSendCode ==
    CASE Content = Throws        -> "ESerialization"
      [] Content = CharsOf(Null) -> NoLengthCode
      [] OTHER                   -> "none"

\* The attempt ends before its request: only DefaultHttpClient started to log.
CannotSend ==
    /\ at = "idle"
    /\ CannotSendCode # "none"
    /\ at' = "settled"
    /\ outcome' = Outcome(CannotSendCode, 0, Undefined)
    /\ Logs(IF client = "default" THEN <<"started", "failed">> ELSE <<>>)
    /\ UNCHANGED <<rigid, attempt, answer, served, sentId>>

\* injectCorrelationId and the two requestCorrelators.
CorrelationId ==
    IF request.correlationId # "none" THEN request.correlationId
    ELSE IF defaults.correlator = "undefined" THEN "none" ELSE defaults.correlator

Attempt ==
    /\ at' = "sent"
    /\ attempt' = attempt + 1
    /\ outcome' = NoOutcome
    /\ sentId' = CorrelationId
    /\ Logs(<<"started">>)
    /\ UNCHANGED <<rigid, answer, served>>

\* createRequestContext of AxiosHttpClient.
AxiosCookie(header) == IF header.type = "array" THEN Joined(header.data) ELSE header

\* copyHeaders: a header is copied that is a string, or this one as an array.
copyHeaders(header) == IF header.type \in {"string", "array"} THEN header ELSE Undefined

\* The header the client of Node is given; Axios and superagent send with it.
GivenToNode ==
    CASE client = "default"    -> request.cookie
      [] client = "axios"      -> AxiosCookie(request.cookie)
      [] client = "superagent" -> copyHeaders(request.cookie)

\* Node writes one cookie header: it joins the items of an array.
CookieHeader ==
    IF GivenToNode.type = "array" THEN Joined(GivenToNode.data) ELSE GivenToNode

Send == at = "idle" /\ CannotSendCode = "none" /\ Attempt

-----------------------------------------------------------------------------
(* The server and the network.                                               *)
Sent == [chars |-> Content, cookie |-> CookieHeader]

\* What the path "any" may answer, each time something else.
AnyAnswers ==
    { Answer(200, Json, Chars("json", "todo")), Answer(200, Json, Chars("plain", FooBar)),
      Answer(204, NoType, Empty), Answer(404, Html, Chars("plain", "missing")),
      Answer(413, Html, Empty), Answer(503, Plain, Chars("plain", "Unavailable")),
      Answer(503, Json, Chars("plain", "Unavailable")),
      [Answer(200, Plain, Chars("plain", "late")) EXCEPT !.after = 50],
      Fault("ECONNRESET"), Fault("ENOTFOUND"), Fault("never") }

Answers(n) ==
    IF request.path = "any" THEN AnyAnswers ELSE {SampleApi(request, Sent, n)}

ReachesServer(a) == a.kind # "ENOTFOUND"

ServerAnswers ==
    /\ at = "sent"
    /\ served' = served + 1
    /\ answer' \in {a \in Answers(served + 1) : ReachesServer(a)}
    /\ at' = "answered"
    /\ UNCHANGED <<rigid, attempt, outcome, sentId, log>>

HostIsUnknown ==
    /\ at = "sent"
    /\ answer' \in {a \in Answers(served + 1) : ~ReachesServer(a)}
    /\ at' = "answered"
    /\ UNCHANGED <<rigid, attempt, outcome, served, sentId, log>>

-----------------------------------------------------------------------------
(* The answer, once it is there or the time is up.                           *)
TimesOut == Timeout # 0 /\ (answer.kind = "never" \/ answer.after > Timeout)

\* The promise of the attempt settles: not without an answer and a timeout.
Settles == answer.kind # "never" \/ TimesOut

Responds == answer.kind = "response" /\ ~TimesOut

\* isInvalidStatusCode
Rejected(status) == status \notin 200 .. 299

StatusOutcome(body) ==
    Outcome(IF Rejected(answer.status) THEN "EBadHttpResponseStatusCode" ELSE "none",
            answer.status, body)

\* processResponse of DefaultHttpClient, and the same of AxiosHttpClient: the
\* error of a body that is not understood has its characters, and no status.
processResponse ==
    LET body == deserialize(answer.chars, answer.type)
    IN  IF body = Throws
        THEN Outcome("ESerialization", 0, Buffer(answer.chars.format, answer.chars.data))
        ELSE StatusOutcome(body)

\* The response of superagent; its parser's error has the status.
SuperagentResponse ==
    LET body == SuperagentBody(answer.chars, answer.type)
    IN  IF body = Throws THEN Outcome("ESerialization", answer.status, Undefined)
        ELSE StatusOutcome(evalBody(body, SuperagentText(answer.chars, answer.type)))

\* convertHeaders of AxiosHttpClient: an array stays one, a number is written out.
convertHeaderValue(v) ==
    CASE v.type \in {"undefined", "null"} -> Undefined
      [] v.type \in {"array", "string"}   -> v
      [] OTHER                            -> String("plain", v.data)

\* headers["set-cookie"] of the response that send returns.
SetCookie ==
    IF client = "axios" THEN convertHeaderValue(answer.setCookie) ELSE answer.setCookie

ResponseOutcome == IF client = "superagent" THEN SuperagentResponse ELSE processResponse

\* remapError: ECONNABORTED of Axios and superagent becomes ETIMEDOUT.
ConnectionError == Outcome(IF TimesOut THEN "ETIMEDOUT" ELSE answer.kind, 0, Undefined)

AttemptOutcome == IF Responds THEN ResponseOutcome ELSE ConnectionError

\* logEnd and logError.
DefaultLog(o) == IF o.code = "none" THEN <<"ended">> ELSE <<"failed">>

\* Faulty: a response of a bad status is left out.
AxiosLogOfGoodStatus(o) ==
    IF o.code = "none" THEN <<"ended">> ELSE IF Responds THEN <<>> ELSE <<"failed">>

\* onSuccess and onError: Axios takes no status for an error, and hands the
\* characters to processResponse after its hooks.
AxiosLog(o) == IF Responds THEN <<"ended">> ELSE <<"failed">>

\* 'response' of superagent, once it is parsed.
SuperagentLog(o) == IF Responds /\ o.code # "ESerialization" THEN <<"ended">> ELSE <<>>

LogOf(o) ==
    CASE client = "default"    -> DefaultLog(o)
      [] client = "axios"      -> AxiosLog(o)
      [] client = "superagent" -> SuperagentLog(o)

AttemptEnds ==
    /\ at = "answered"
    /\ Settles
    /\ outcome' = AttemptOutcome
    /\ at' = IF outcome'.code = "none" THEN "settled" ELSE "failed"
    /\ Logs(LogOf(outcome'))
    /\ UNCHANGED <<rigid, attempt, answer, served, sentId>>

-----------------------------------------------------------------------------
\* isTransientHttpError, of the errors of the model.
isTransientHttpError(status, code) ==
    \/ status >= 500 \/ status \in {408, 429}
    \/ code \in {"ECONNRESET", "ENOTFOUND", "ETIMEDOUT"}

\* _shouldRetry of superagent.
shouldRetry(status, code) ==
    \/ status \in {408, 413, 429, 500, 502, 503, 504, 521, 522, 524}
    \/ code \in {"ECONNRESET", "ENOTFOUND", "ETIMEDOUT"}

\* canRetry of AxiosHttpClient looks at the status of the response, also of one
\* whose body was not understood.
AxiosMayRetry ==
    isTransientHttpError(IF Responds THEN answer.status ELSE 0, outcome.code)

MayRetry ==
    CASE client = "default"    -> isTransientHttpError(outcome.status, outcome.code)
      [] client = "axios"      -> AxiosMayRetry
      [] client = "superagent" ->
            outcome.code # "ESerialization" /\ shouldRetry(outcome.status, outcome.code)

\* Faulty: the first attempt is counted as a retry of its own.
RetriesLeftOrOneMore == attempt <= Retries + 1

RetriesLeft == attempt <= Retries

Retry == at = "failed" /\ MayRetry /\ RetriesLeft /\ Attempt

\* 'error' of superagent is logged unless a response was, of any attempt.
SuperagentErrorLog == IF Contains(log, "ended") THEN <<>> ELSE <<"failed">>

GiveUp ==
    /\ at = "failed"
    /\ ~(MayRetry /\ RetriesLeft)
    /\ at' = "settled"
    /\ Logs(IF client = "superagent" THEN SuperagentErrorLog ELSE <<>>)
    /\ UNCHANGED <<rigid, attempt, answer, outcome, served, sentId>>

Next ==
    \/ CannotSend \/ Send \/ ServerAnswers \/ HostIsUnknown
    \/ AttemptEnds \/ Retry \/ GiveUp

Spec == Init /\ [][Next]_vars

\* The timers, the server and the microtasks.
FairSpec == Spec /\ WF_vars(Next)

-----------------------------------------------------------------------------
(* Properties                                                              *)

\* Every client gives what the common suite expects of each of its cases: the
\* code or the status, the body, the cookies it got back, the requests that
\* reached the server, the correlation ID it saw, the start and the end in the
\* log where the case looks for them, and no log where logs are turned off.
SuiteHolds ==
    at = "settled" /\ case \in SuiteCases =>
        LET e == case.expected
        IN  /\ outcome.code = e.code
            /\ e.status # 0 => outcome.status = e.status
            /\ e.body # Undefined => outcome.body = e.body
            /\ e.setCookie # Undefined => SetCookie = e.setCookie
            /\ e.served # 0 => served = e.served
            /\ sentId = e.correlationId
            /\ e.logged \subseteq ToSet(log)
            /\ ~defaults.logRequests => log = <<>>

\* Each of the clients keeps the promises of the interface.  What their
\* retries look at is each client's own; the interface sees the status of the
\* response, also of one that was not understood.
Abstract == INSTANCE IHttpClient WITH
    attempts <- attempt, retries <- Retries,
    phase <- CASE at \in {"sent", "answered"} -> "sent"
               [] at = "settled" /\ outcome.code = "none" -> "returned"
               [] at = "settled" /\ outcome.code # "none" -> "rejected"
               [] OTHER -> at,
    result <- [code |-> outcome.code,
               status |-> IF at \in {"failed", "settled"} /\ Responds THEN answer.status
                          ELSE outcome.status]

ImplementsIHttpClient == Abstract!Init /\ [][Abstract!Next]_(Abstract!vars)

\* DefaultHttpClient and Axios log, of each attempt they logged the start of,
\* how it ended, before the next one and before send settles.
AttemptsAreLogged ==
    client # "superagent" =>
        /\ at = "settled" /\ log # <<>> => Last(log) # "started"
        /\ \A i \in 1 .. Len(log) - 1 : log[i] = "started" <=> log[i + 1] # "started"

\* "plugin that will log a message before and after the execution of request"
OutcomeIsLogged == at = "settled" /\ log # <<>> => Last(log) # "started"

\* A send that has a timeout, of its own or by default, settles whatever the
\* server does, and so does every send that is answered.
SendEnds ==
    [](request.timeout = 0 /\ defaults.timeout = 0 => answer.kind # "never")
        => <>(at = "settled")
=============================================================================
