--------------------------- MODULE MCHttpClients ---------------------------
(* Instances of HttpClients for TLC: the suite, sends to a server that may     *)
(* answer anything with retries and timeouts of the request and by default,   *)
(* and every kind of body under every kind of content type.                  *)
EXTENDS HttpClients

Anything == Returns(0, Undefined)

MCFaultCases ==
    { With([NoDefaults EXCEPT !.retries = d, !.timeout = dt, !.logRequests = l],
           Case([Get("any") EXCEPT !.retries = r, !.timeout = t], Anything)) :
        d \in {0, 1}, dt \in {0, 10}, l \in BOOLEAN, r \in {0, 2}, t \in {0, 100} }

MCBodies ==
    { Undefined, Null, Number, Object("withNull"), Params("blank"),
      String("plain", "hello"), Buffer("bytes", "123") }

MCPayloadCases ==
    { Case(Post("any", type, body), Anything) :
        type \in {NoType, Json, Form, Plain, Octets, Yaml}, body \in MCBodies }

MCCases == SuiteCases \cup MCFaultCases \cup MCPayloadCases
=============================================================================
