-------------------------- MODULE HttpClientSuite --------------------------
(***************************************************************************)
(* packages/core/src/http/HttpClientTestSuite.ts: the suite that every      *)
(* IHttpClient of the repository has to pass, as data.  A case is a request, *)
(* the defaults of the client, and what is expected of send; SampleApi is    *)
(* the server the suite starts.                                             *)
(***************************************************************************)
EXTENDS HttpContent, Naturals

Request(method, path, type, body) ==
    [method |-> method, path |-> path, contentType |-> type, body |-> body,
     cookie |-> Undefined, correlationId |-> "none", retries |-> 0, timeout |-> 0]

Get(path)              == Request("GET", path, NoType, Undefined)
Post(path, type, body) == Request("POST", path, type, body)

\* IHttpDefaults: FakeHttpRequestCorrelator always gives its one ID, or none.
NoDefaults == [retries |-> 0, timeout |-> 0, logRequests |-> TRUE, correlator |-> "none"]
Silent     == [NoDefaults EXCEPT !.logRequests = FALSE]

\* What send is expected to give: a response, or an HttpClientError; 0,
\* Undefined and {} where the suite does not look.
Returns(status, body) ==
    [code |-> "none", status |-> status, body |-> body, setCookie |-> Undefined,
     served |-> 0, correlationId |-> "none", logged |-> {}]
Rejects(code, status) == [Returns(status, Undefined) EXCEPT !.code = code]
BadStatus(status)     == Rejects("EBadHttpResponseStatusCode", status)

\* expect(requestCounter).toBe(n)
Served(expected, n) == [expected EXCEPT !.served = n]

Case(request, expected) ==
    [request |-> request, defaults |-> NoDefaults, expected |-> expected]
With(defaults, case) == [case EXCEPT !.defaults = defaults]

Todo       == Object("todo")
HelloWorld == String("plain", "hello")
Age        == Object("age")               \* { age: 33, foo: 'bar' }
FooBar     == "foo:bar"
Cookies    == <<FooBar, "session:1234">>

-----------------------------------------------------------------------------
(* The cases, in the order of the suite.                                     *)
UnknownCases ==
    { Case(Get("unknown-host"), Rejects("ENOTFOUND", 0)),
      Case(Get("todox"), BadStatus(404)) }

ContentTypeCases ==
    { Case(Post("yaml", Yaml, Number), Rejects("ESerialization", 0)),
      Case(Post("yaml", Yaml, Buffer("plain", FooBar)), Returns(201, Buffer("plain", FooBar))),
      Case(Get("yaml"), Returns(200, Buffer("plain", FooBar))) }

\* The one case that looks for lines of the log.
LoggedJson ==
    [Served(Returns(200, Todo), 1) EXCEPT !.logged = {"started", "ended"}]

JsonCases ==
    { Case(Get("bad-json"), Served(Rejects("ESerialization", 0), 1)),
      Case(Get("json"), LoggedJson),
      Case([Get("retry-json") EXCEPT !.retries = 1], Served(Returns(200, Todo), 2)),
      Case(Post("json", NoType, Age), Served(Returns(201, Age), 1)),
      Case(Post("json", Json, Buffer("json", "age")), Returns(201, Age)),
      Case(Post("json", Json, String("json", "age")), Returns(201, Age)) }

FormCases ==
    { Case(Get("form"), Returns(200, Object("topic"))),
      Case(Post("form", Form, Object("withNull")), Returns(201, Object("blank"))),
      Case(Post("form", NoType, Params("blank")), Returns(201, Object("blank"))) }

TextCases ==
    { Case(Get("text"), Returns(200, HelloWorld)),
      Case(Post("text", Plain, String("empty", "none")), Returns(201, Null)),
      Case(Post("text", NoType, HelloWorld), Returns(201, HelloWorld)),
      Case(Get("disconnected-request"), Served(Rejects("ECONNRESET", 0), 1)),
      Case([Get("disconnected-request") EXCEPT !.retries = 1],
           Served(Returns(200, HelloWorld), 2)),
      Case(Post("html", Html, String("plain", FooBar)), Returns(201, String("plain", FooBar))) }

BinaryCases ==
    { Case(Post("binary", Jpeg, Buffer("bytes", "123")), Returns(200, Buffer("bytes", "123"))),
      Case(Post("binary", NoType, Buffer("bytes", "123")), Returns(200, Buffer("bytes", "123"))),
      Case(Post("binary", Jpeg, Number), Rejects("ESerialization", 0)) }

BadRequest ==
    Served([BadStatus(400) EXCEPT !.body = String("plain", "validation-error")], 1)

\* A content type that is a number is no content type.
RequestCases ==
    { Case(Post("html", NoType, String("plain", FooBar)), Returns(201, String("plain", FooBar))),
      Case(Get("bad-request"), BadRequest) }

TimeoutCases ==
    { Case([Get("slow") EXCEPT !.timeout = 100], Returns(200, String("plain", "ok"))),
      Case([Get("slow") EXCEPT !.timeout = 10], Rejects("ETIMEDOUT", 0)) }

\* Each cookie of the request comes back, with a path.
CookieCases ==
    { Case([Get("text") EXCEPT !.cookie = Array(Cookies)],
           [Returns(200, HelloWorld) EXCEPT !.setCookie = WithPath(Cookies)]) }

LoggingCases ==
    { With(Silent, Case(Get("json"), Served(Returns(200, Todo), 1))),
      With(Silent, Case(Get("bad-request"), BadRequest)) }

Correlator(cid) == [Silent EXCEPT !.correlator = cid]

\* The ID that /json found in x-correlation-id comes back in its answer.
GetsTodoWith(cid) == Served([Returns(200, Todo) EXCEPT !.correlationId = cid], 1)

CorrelationCases ==
    { With(Correlator("mine"), Case(Get("json"), GetsTodoWith("mine"))),
      With(Correlator("undefined"), Case(Get("json"), GetsTodoWith("none"))),
      With(Correlator("mine"), Case([Get("json") EXCEPT !.correlationId = "existing"],
                                    GetsTodoWith("existing"))) }

SuiteCases ==
    UnknownCases \cup ContentTypeCases \cup JsonCases \cup FormCases \cup TextCases
    \cup BinaryCases \cup RequestCases \cup TimeoutCases
    \cup CookieCases \cup LoggingCases \cup CorrelationCases

-----------------------------------------------------------------------------
(* The server: what it answers to the n-th request it receives, after how     *)
(* many milliseconds.                                                       *)
Answer(status, type, chars) ==
    [kind |-> "response", status |-> status, type |-> type, chars |-> chars,
     setCookie |-> Undefined, after |-> 0]
Fault(kind) ==
    [kind |-> kind, status |-> 0, type |-> NoType, chars |-> Empty,
     setCookie |-> Undefined, after |-> 0]

\* GET /text splits the cookie header, which is one string, and sets each
\* cookie it finds with a path; without the header it sets none.
TextAnswer(cookie) ==
    [Answer(200, Html, Chars("plain", "hello")) EXCEPT
        !.setCookie = IF cookie.format = "joined" THEN WithPath(cookie.data) ELSE Undefined]

\* The parsed body sent back as JSON, as text, or as it is: the body parser of
\* the type of the request read it.
Echo(status, type, sent) ==
    Answer(status, type, IF type = Json THEN Chars("json", sent.chars.data) ELSE sent.chars)

SampleApi(request, sent, n) ==
    CASE request.path = "unknown-host"         -> Fault("ENOTFOUND")
      [] request.path = "disconnected-request" ->
            IF n = 1 THEN Fault("ECONNRESET") ELSE Answer(200, Html, Chars("plain", "hello"))
      [] request.path = "retry-json" ->
            IF n = 1 THEN Answer(500, Plain, Chars("plain", "internal-server-error"))
            ELSE Answer(200, Json, Chars("json", "todo"))
      [] request.path = "bad-json"    -> Answer(200, Json, Chars("plain", "a:1"))
      [] request.path = "bad-request" -> Answer(400, Html, Chars("plain", "validation-error"))
      [] request.path = "slow" ->
            [Answer(200, Html, Chars("plain", "ok")) EXCEPT !.after = 50]
      [] request.path = "text" /\ request.method = "GET"  -> TextAnswer(sent.cookie)
      [] request.path = "text" /\ request.method = "POST" -> Echo(201, Plain, sent)
      [] request.path = "json" /\ request.method = "GET"  -> Answer(200, Json, Chars("json", "todo"))
      [] request.path = "json" /\ request.method = "POST" -> Echo(201, Json, sent)
      [] request.path = "form" /\ request.method = "GET"  -> Answer(200, Form, Chars("form", "topic"))
      [] request.path = "form" /\ request.method = "POST" -> Echo(201, Json, sent)
      [] request.path = "yaml" /\ request.method = "GET"  -> Answer(200, Yaml, Chars("plain", FooBar))
      [] request.path = "yaml" /\ request.method = "POST" -> Echo(201, Yaml, sent)
      [] request.path = "html"   -> Echo(201, Html, sent)
      [] request.path = "binary" -> Echo(200, Jpeg, sent)
      [] OTHER                   -> Answer(404, Html, Chars("plain", "cannot-get"))
=============================================================================
