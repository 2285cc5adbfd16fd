# A TLA+ model of authentication-nodejs-lib

The library obtains OpenID Connect access tokens and attaches them to the HTTP
requests of an application. Its hard part is asynchronous: one session is shared by
every request of a process, a token is renewed by whichever caller finds it missing,
by a timer or by force, and each `await` lets the others run. This directory models
that part and the HTTP clients it runs over, checks it with TLC and proves the main
results with TLAPS.

## Inventory of the system

| Part | State it keeps | Operations | Interacts with |
|---|---|---|---|
| `SynchronizedAsyncValue` (core/concurrency) | `resolverCall`, the shared promise; the value is kept behind a getter and a setter | `getValue(force)`, `reset` (cached variant) | the callbacks it is given |
| `OidcSession` (oidc) | `state`, `timer`, `getTokenCounter` | `getToken`, `forceRefreshToken`, `deleteToken`, `getState`, `hasToken`, the timeout | token accessor, token store, token provider; emits `stateChanged`, `token` |
| `InMemoryTokenStore` / `ITokenStore` | one token | `add`, `get`, `delete` (only the same token) | session |
| `TokenSet` | immutable token, `claims` cached | `hasExpired`, `equals`, `getClaims` | time provider, claims provider |
| `OidcTokenProvider` | none | `getToken`, `refreshToken`: one request to the token endpoint | discovery, HTTP client |
| `OidcHttpClient`, `retryAction` | none across requests | `send`: attach the token, on 401 delete it and retry | session, HTTP client |
| Discovery (`OidcWellknownServerConfigProvider`, `OidcServerConfigGetter`, `Cache`) | shared cache with TTL | `getConfig` | HTTP client, clock |
| `DefaultHttpClient`, `AxiosHttpClient`, `SuperagentHttpClient` | per request: promise, timeout, attempts | `send` of the interface `IHttpClient` | Node `http`, axios, superagent; serializers, logger, correlator |
| `HttpRequestCorrelator` | continuation-local correlation id; the store bound to a target | `bind`, `withId`, `getId` | the middleware of a server, every HTTP client, the timer of the session |
| Axios, superagent and request plugins | per request: attempts, hooked methods, token | intercept a request, log, correlate, authenticate, retry | session, the host library |
| Serializers | none | body to content, content to body | HTTP clients |
| `OidcTokenInspector`, `OidcUserInfoClaimsProvider`, `OidcSessionBuilder`, logging | none | one request, wiring or formatting | |

What makes them hard, and what is correct:

* Callers overlap at every `await`; a value read before it may be stale after it. One
  acquisition at a time, no acquisition while the store holds a good token, nobody
  served an older token after a newer one.
* The resolver, the store and the listeners may fail at every step. The shared
  promise must always be released and every caller answered.
* A refresh token may be refused or rotated. It is sent once, unless its answer could not
  be kept, and the token it belongs to disappears when it is refused.
* The refresh timer races callers, expiry and forced refreshes. At most one timeout,
  that of the newest token; a token in use is renewed without a client's call,
  whatever lifetime the server announces, or forgets to announce.
* The state events are written from several asynchronous continuations: they tell
  the state of the newest acquisition.
* 401 answers arrive late, after the token has been replaced: only the token they
  refuse may be deleted, the requests refused together share one renewal, and the
  retry must carry a newer token, once. Retries are shared by several plugins, whose
  hooks may each fail.
* The request plugin overrides methods that were synchronous: their order must survive
  the asynchronous hooks, and the caller must be answered whatever fails.
* Three HTTP clients promise one interface over libraries that differ in everything:
  what they retry, when they log, what they make of a body.
* A request outlives the execution that made it: its events run in tasks of a pooled
  connection, opened by somebody else, and still have to bear its own correlation ID.

`PROJECT.json` lists the hazards one by one, at their lines.

## Modules

| Module | What it models |
|---|---|
| `SynchronizedAsyncValue` | `getValue` from await to await, its getter, setter and resolver |
| `OidcSession` | the session over `SynchronizedAsyncValue`: acquisition, refresh and its fallback, store, state, timer |
| `TokenLifetime` | the offset, the expiry and the delay of the scheduled refresh, with a clock |
| `RetryAction` | the loop of `retryAction`: what it promises of attempts, delays and the last error |
| `OidcHttpClient` | requests sent over one `OidcSession`, each an implementation of `RetryAction` |
| `AxiosPlugin` | requests with two plugins bound to axios: hooks, votes, shared retries, token deletion; each an implementation of `RetryAction` |
| `RequestPlugin` | one object of class `Request`: its overridden methods and its hooked callback |
| `SuperagentPlugin` | superagent requests: the hooked `end` and `callback`, the retry, the timer |
| `DefaultHttpClient` | requests of the Node client: the events of each attempt, the timeout, the retries; each an implementation of `RetryAction` |
| `Discovery` | the cached configuration of a server and its users, over `DefaultHttpClient` |
| `HttpContent` | the serializers and the deserializers: pure operators on bodies and content types |
| `HttpClientSuite` | the cases of the suite every `IHttpClient` must pass, and the server it starts, as data |
| `IHttpClient` | abstract: what `send` promises |
| `HttpClients` | `send` of the three clients, from a body and a server to a response or an error, with its log; an implementation of `IHttpClient` |
| `HttpRequestCorrelator` | the store of each execution, bound targets, tasks of pooled connections, the timer |
| `MC...` | the instances TLC checks |
| `...Proofs` | the theorems TLAPS checks |

Two compositions carry the rest. `OidcHttpClient` is an instance of `OidcSession`, which is
an instance of `SynchronizedAsyncValue`, over the same variables: a request, the
session and its accessor move together. `Discovery` is in the same way an instance of
`DefaultHttpClient`.

### SynchronizedAsyncValue

JavaScript runs a callback to completion, so an action is the code between two
awaits of one call. The frame of a call is `pc[c]`, `captured[c]` (the local `value`),
`force[c]` and `own[c]` (the invocation of the resolver it leads or joined). The
values are numbers of resolver invocations, 0 for `undefined`: the identity of a
value is all the class depends on. `expired` is the set of values the validator
rejects; it grows at any moment.

| Code | Actions |
|---|---|
| `await this.getter()` | `Call`; `StoreReads` when the read happens later; `GetterFails` |
| return of the cached value | `ReturnCached` |
| `if (this.resolverCall) return this.resolverCall` | `Join`, then `JoinerReturns` |
| `this.resolverCall = this.resolver(value)` | `Resolve`, then `ResolverReturns` or `ResolverThrows` |
| `await this.setter(newValue)` | `StoreValue` or `StoreThrows`, or `StartStoring` and `ValueStored`; `SetterReplied`, `SetterFails` |
| `finally` | `Release`, in `Finish`, `SetterFails` and `LeaderFails` |

Three kinds of store are one module: `Stores` is the constant set of kinds an instance
ranges over, and `store` the kind of a behaviour, chosen by `Init` and never changed. The
first two (`Ordered`) read and write when the getter and the setter are called, and their
promises settle in the order of the calls: that is `Promise.resolve(...)` and the microtask
queue. `ahead[c]` is the set of callers whose store operation was queued before the one `c`
awaits.

* "cached" is `SynchronizedAsyncCachedValue`, whose setter is an assignment and never fails.
* "memory" is the session's setter over `InMemoryTokenStore`. `add` writes the token in a log
  before it keeps it, and that throws for a token without `expires_in`, whose expiry is no
  date (`TokenSet.toRedactedJSON`): the setter rejects and the store holds what it held
  (`StoreThrows`). The setter may also reject after the token was kept, when a listener of
  `token` throws. Which values the store throws on is chosen when they are resolved
  (`unstorable`).
* "remote" acts and answers at any time, and may reject, as the `ITokenStore` extension
  point allows.

A leader resumes before those that joined it, because its reaction was registered first
(`JoinerReturns`). Those that joined a value on which the store throws are given it all
the same, and only its leader fails.

### OidcSession

The accessor's variables are those of `SynchronizedAsyncValue` and each session action
is a step of it together with the session's own code, so the specification of the
session implements that of the class (`SessionImplementsAccessor`). The resolver is
`refreshToken`: `StartRefresh` or `StartAcquire`, then `TokenReceived`, or
`RefreshFails` (the token is deleted from the store if it is still there) and
`FallBack` to an acquisition, or `ResolveFails`. The setter is `StoreToken`, then
`TokenStored`, which starts the timer. `TimerFires` forces a call of its own user
`Timer` if the token was used. `tokenUsed` is `getTokenCounter > 0`, all the code asks
of the counter. An answer without `expires_in` is the third argument of `TokenReceived`; the
setter then ends in `SetterFails` with the older token in the store and its refresh token
unspent as far as the session knows. `timer` is the handle kept by the session, `armed` the timeouts
really pending in the event loop: a leaked timeout is one in `armed` that the handle
no longer names. `DeleteToken` is given any token its client may still hold.

The hops between nested async functions of one resolution (`doGetToken` returning
through `refreshToken`) are one step: nothing reads the session between them that
could not have read it before. Time is abstract here: tokens expire and timeouts fire
in any order.

### TokenLifetime

A token, its age in seconds, the timeout and the time since a renewal was asked for.
`Offset`, `ExpiresAt` and `Delay` are the formulas of the code, `Timeout` the wrap of
`setTimeout` beyond its longest delay. An answer without `expires_in` (`Undated`) has an
invalid date for an expiry: it is never past, so that the token never expires, and
writing it in a log throws. `InMemoryTokenStore.add` logs first and so never keeps such a
token; another store keeps it, `scheduleRefresh` throws before it starts a timeout, and
only a 401 ends its life. `TokensAreReplaced` is therefore stated of the store of the
library.

### RetryAction

One action per await of the loop: the action, `canRetry`, the delay. `Settle` is the end
of the promise. It is also the abstract specification of every user of `retryAction`.

### OidcHttpClient

The clients of the session are the requests. The variables of the session are declared
again and `Session == INSTANCE OidcSession WITH Clients <- Requests`: a request moves
through `getToken` by the session's own actions (`Send`, `SessionWorks`, `TokenGiven`,
`TokenNotGiven`), is answered (`ApiAccepts`, `ApiFails`), asks `canRetry`
(`CannotRetry`, `DeleteToken`), waits and retries (`Retry`) or gives up (`GiveUp`). A
failure of the hook `beforeSendRequest` ends the attempt as a failed request does and is
an `ApiFails`. A 401 of the token endpoint, thrown by `getToken`, is taken for one of the
API (`TokenNotGiven`). `refused` is a history variable: the tokens some server answered
401 to.

An HTTP answer, a timeout and a delay are tasks of the event loop, and all promise
reactions run before the next task. With an ordered store no getter or setter outlives
a task, so `TaskBoundary` (in `OidcSession`) lets the timer fire, an answer come and a
delay elapse only when no call of the session is between two awaits. It is what makes
`RetryCarriesNewerToken` and `AcquisitionIsNeeded` true of the in-memory store, but for the
tokens without `expires_in` that it throws on: who joined such an acquisition sends one,
the store keeps the older token, the retry of the first carries that one or another, and the next
request acquires again (`Replaces`, `Newest` and `Spent` name these exceptions). Over a
remote store they are lost, and are not claimed (`SV!Ordered` in both): the token is
shared with the joiners before it is stored, so that a joiner refused with it deletes
nothing and finds it again.

### AxiosPlugin

`makeAxiosPlugin` replaces the adapter of a request; each plugin bound later wraps the
list of hooks that `retryAction` runs. A request is one `RetryAction` loop, whose action
is: the `onStart` hooks, the original adapter, the `onSuccess` or `onError` hooks. `at[r]`
is the await it is suspended on, `plugin[r]` the plugin whose hook that is.

| Code | Actions |
|---|---|
| the wrapped adapter is called | `Begin` |
| `onStart` of `authenticator` | `Pass`, `Inject`, `InjectFails` |
| the original adapter settles | `Answered`, `Failed` |
| `onSuccess` of each plugin, then the result | `SuccessHook`, `Succeed`, `SuccessHookFails` |
| `onError` of `authenticator` | `Ignore`, `DeleteToken`, `DeleteFails` |
| hooks of another plugin | `OtherStarts`, `OtherSeesError`, the disjunct of `SuccessHookFails` |
| `canRetry`, `pluginErrorPoll` | `CanRetry`, `CannotRetry` with every vote of the other plugin |
| the delay of `retryAction` | `Retry`, `GiveUp` |

The other plugin stands for any: its hooks may throw any error and it votes as it
likes; `retryRequest` with a callback, the logger and the correlator are such plugins.
Its `onSuccess` is taken not to throw the 401 of some other request (`HookErrors`).

The session is abstract here: it holds a token or none, gives the one it holds or a
new one, deletes only the token it is given, and may be renewed by others. These are
what `OidcSession` and `OidcHttpClient` establish of the real one over the in-memory store
when answers have an `expires_in`: a token given is never older than one given before
(`MonotonicReads`), nor one that was deleted (`RetryCarriesNewerToken`).

### RequestPlugin

The life of one `Request`. A call of `write`, `end` or `pipe` (`CallMethod`) joins the start
under way or begins one; the start ends in `Pass`, `Inject` or `InjectFails`, and each
call then runs its reactions: the original method (`Forward`) or the emission of the
error (`EmitError`), then the `finally` that forgets the start (`Finally`). An original method
may throw (`ForwardThrows`), and its own `catch` then emits that error (`EmitThrown`).
Reactions of one start run in the order they were registered, all of `then` before any of
`catch`, and these before any `finally`. Calls are made in later tasks, one or several at a time (`Drained`), as a
program writing a body from a stream does. The library `request` is external: it leaves at
the first original method, and calls the callback once (`Callback`, `Respond`). The
overridden callback runs the hooks (`DeleteToken`, `KeepToken`, `OtherHook`,
`OtherHookThrows`) and calls the caller (`CallWithHookError`, `CallWithAnswer`). When a hook
throws, the caller's callback is called for the error and then again for the answer:
the code's `catch` is followed by its `then`, and `answers` counts both.

### SuperagentPlugin

A request of superagent with the `authenticator` plugin, which hooks two of its methods with
`hookMethod`. The library is external: it is taken to call `callback` once for each attempt
that ends, and once when the timer of the request fires. An attempt is numbered by the
retries before it; `stage[r][a]` is where it is and `carried[r][a]` the token it left with,
while `header[r]` is the token the request would leave with now.

| Code | Actions |
|---|---|
| the hook of `end` | `End` |
| `injectTokenInHeaders`, up to the await of `beforeSendRequest` | `StartInjects` |
| `onEnd` succeeds, the original `end` | `Start`, `EndThrows` |
| `onEnd` fails (`InjectFails`) and calls the caller | `StartFails` |
| the hook of `callback`, not a 401 | `Ends` |
| the hook of `callback`, a 401 | `Unauthorized` |
| another token in the header, up to the await of `beforeSendRequest` | `RenewalInjects`, then `Renewed` |
| no token asked for, or none obtained | `NotRenewed` |
| the original `callback` (`_shouldRetry`, `_retry`, or the caller) | `Callback`: `Retry`, `Finish` |
| the timer of the request | `TimesOut` |

`EndThrows` is an error that `hookMethod` catches for `onError` and that nobody then sees:
`CallerIsCalled` excepts it. The timer is stopped by the original `callback` only, so it may
start the next attempt while the hook of a 401 still awaits a token or `beforeSendRequest`,
and two attempts are then in flight. The 401 of the older one is blamed on the token that is
in the header by then; `OnlyRefusedTokensDropped` excepts that case and no other. And the
timer may send the header a hook has just set: the new token may then be refused before that
hook goes on, which sends it again. `RetryCarriesNewToken` excepts that case (`Overtaken`) and a
deletion that failed. A `config` of "off" is the
option set to false, or no config at all. The session is as abstract as in `AxiosPlugin`.
Requests that the filter of the configuration rejects, or that bear an `Authorization` header
of their own, meet none of these hooks and are left out.

### DefaultHttpClient

A send is a `RetryAction` loop whose action is one request of Node's `http`, which is
external: it opens a connection (`DoSend`, when the url, the headers and the body can be
used; `NotSent` otherwise) and emits events.

| Event of Node | Actions | Code |
|---|---|---|
| `response` | `Responds` | the body is collected |
| `end` of the response | `Succeeds`, `BadStatus`, `BadBody` | `deserialize`, then the status |
| `error` of the request | `ConnectionFails`, `Destroyed` | `reject` |
| `timeout` | `TimesOut` | `destroy(error)`, whose `error` comes later |
| `aborted` of the response | `Cut` | none |

The body is deserialized before the status is looked at: an answer 503 whose body is not
the JSON its header claims is a `BadBody`, which no retry follows. The last row is a hole
of the code: a server that closes the connection within a body ends the response with
`aborted`, which has no listener, and no `end`. The promise then never settles, timeout
or not, and neither do those that share it; `UsesEnd` excepts that case and no other.

### Discovery

`entries` and `cache` are `Cache.entries` with the entries numbered, `expired` the entries
whose hour is over, which runs from the creation of the entry, before its fetch. An entry is a
`SynchronizedAsyncCachedValue`; its `getValue` is one step here (`GetValue`: the value, the
fetch under way, or a new fetch), which is what `NoRedundantResolve` and `SingleFlight`
establish of `SynchronizedAsyncValue`. The users stand for the token provider, the token
inspector and the claims provider: `GetConfig` (or `UseOwnConfig`), then `SendRequest` or
`RequestNotCreated`, then `RequestSettles`. Fetches and requests of users go through one
`DefaultHttpClient` (`INSTANCE` over the same variables), and settle in the same step as
those that wait for them.

### HttpContent, HttpClientSuite, IHttpClient and HttpClients

`DefaultHttpClient` has the events of one attempt; `HttpClients` has what an attempt is about,
for the three clients. A body is a JavaScript value: its type, the format of its characters
and what it says. `HttpContent` has `guessContentTypeFrom`, `findSerializer`, the serializers
and the deserializers, and what superagent does instead of them (`validateRequestContentType`,
its parsers, `evalBody`). `HttpClientSuite` is the repository's own acceptance suite: each case
is a request, the defaults of the client and what `send` must give; `SampleApi` is the server
of the suite. The cookies of a request are an array, which `AxiosHttpClient` joins, `copyHeaders`
lets pass and Node joins for the others; those of a response are in its `set-cookie` header. Of the
other headers, the type of the content and the correlation ID are modelled; the default headers
of a client are not.

| Code | Actions of `HttpClients` |
|---|---|
| the content, before anything is sent | `CannotSend`, `Send` |
| the server or the resolver of names | `ServerAnswers`, `HostIsUnknown` |
| `processResponse`, `remapError`, the timeout, the loggers | `AttemptEnds` |
| `isTransientHttpError`, axios' `canRetry`, superagent's `_shouldRetry` | `Retry`, `GiveUp` |

`IHttpClient` is what its users may count on: attempts bounded by the retries asked for, and
again only after a failure that may go away; one outcome, a response whose status is in
200 to 299 or an error. The clients differ in what they do with an answer 503 that is not the
JSON it claims (axios retries it, the others do not), with a 413 (superagent retries it),
and with a body of no length (a `TypeError` of the two plugins escapes their error mapping).

### HttpRequestCorrelator

`AsyncLocalStorage` is external: an execution is a chain of continuations with a stack of
stores, the innermost last. `run` nests one (`withId`, `WorkEnds`), `enterWith` replaces the
innermost (`Entered`), and a continuation inherits the stack of the one before. A handler
is an incoming request, whose middleware calls `withId` with the ID of its headers or a new
one; a socket is a pooled connection whose tasks run in the store of whoever opened it
(`TaskStarts`); `Timer` is the scheduled refresh, started within a `withId` of its own
(`scheduleRefresh`, `TimerFires`). `bind` keeps the store of its caller with a superagent
request, whose patched `emit` enters it (`Trigger`, `EmitRequest`), or with a function.
`acting`, `owner` and `binder` are history variables: for whom each execution really acts, who
was first given an ID, and who bound a target.

Two limits of the code appear as guards. `MayTrigger` lets a target be triggered by the
transaction that bound it or by a pooled connection: `enterWith` is never undone, so a
handler that emitted an event of another transaction's request would go on under that
ID. And a target bound outside of any context has no store to enter: its request takes
the ID of the task that emits it, and `RequestKeepsItsId` says nothing of it.

## Runs

A run is a module `MC...` and the configuration of the same name as the run. (p) marks
the properties that are also proved for every value of the constants.

| Run | Instance | Properties |
|---|---|---|
| `sav_stores` | three callers, three resolutions, a cached value; two callers over a store in memory that throws and over a remote one | `SingleFlight` (p), `FlightHasOneLeader` (p), `StoreMovesForward` (p), `NoRedundantResolve` (p), `MonotonicReads` (p), `EveryCallReturns` |
| `session_stores` | one client and the timer, three tokens, with or without `expires_in`, both kinds of store, with refresh tokens and scheduled refreshes | `StateFollowsFlight` (p), `TimerIsForNewestToken` (p), `RefreshTokenSentOnce` (p), `RefusedTokenIsGone` (p), `ScheduledRefreshHappens` |
| `lifetime_thresholds` | lifetimes at both sides of every threshold, one beyond the longest timeout, answers without one | `RenewalIsEager` (p), `TokensAreReplaced` |
| `http_stores` | two requests over the in-memory store and three acquisitions, one of them perhaps without `expires_in`; one request over a remote store and two | `OnlyBadTokensDropped` (p), `RetryCarriesNewerToken` (p), `AcquisitionIsNeeded` (p), `SendsRetryOnce` (p), `SendSettles` |
| `axios_requests` | two requests, a plugin that fails and votes as it likes, one renewal by others | `OnlyRefusedTokensDropped` (p), `RefusedTokenNotSentAgain` (p), `RequestsShareRetries` (p) |
| `request_methods` | three writes and an end, failing starts, early and late answers, failing hooks | `MethodsInOrder` (p), `TokenIsSent` (p), `OnlyRefusedTokenDropped` (p), `RequestAnswered` |
| `request_truncated` | a write and an end | `LaterMethodsWait` is violated, see the divergences |
| `superagent_requests` | two requests, three retries, one renewal by others, a timer that races the hooks | `OnlyRefusedTokensDropped` (p), `RetryCarriesNewToken` (p), `CallerIsCalled` |
| `discovery_requests` | two users of two servers, two entries, a timeout and a retry, every order of the events | `TypeOK` (p), `OneConnection` (p), `FetchIsNeeded` (p), `ConfigIsAlive` (p), `UsesEnd`, `SendsAreRetried` (p) |
| `http_clients` | one send of each client: the whole suite, a server that may answer anything, every kind of body under every content type | `SuiteHolds` (p), `AttemptsAreLogged` (p), `ImplementsIHttpClient` (p), `SendEnds` |
| `http_superagent_log` | the sends of superagent | `OutcomeIsLogged` is violated, see the divergences |
| `correlation` | two incoming requests, the timer, a pooled connection, a bound request or function | `TransactionsDoNotMix` (p), `RequestKeepsItsId` (p) |

Each property but those of the two violations is found violated when one of the
definitions marked `Faulty` takes the place of the one that follows it. `PROJECT.json`
pairs them.

### Bounds

`MaxCalls` bounds the resolutions; `HasRoom` keeps one for each call under way, so that
no call is suspended by the bound, and `Exhausted` is the end of a bounded run: deadlock
is checked there. Three resolutions are the least with which a token is replaced, its
refresh fails and another follows; three users are a leader, a joiner and a caller with a
stale read (or two clients and the timer). `FailingStoreBound`, `RequestBound`, `CallBound`
and `UnusedBound` are constraints on states. Over a store that may fail, where each read and
write is one more step, two callers of `getValue`, and one request with two acquisitions over
a remote store, already meet every failure between a call and the settling of another. The
in-memory store throws on one token of `http_stores`, as what follows an answer without
`expires_in` is one more acquisition, and that one is then made by a request alone.
`RequestBound` also uses that requests are alike: the one that ends last may be called `r1`. That
loses no behaviour up to the names, and only leaves out the states reached first under the
other name. Nor does `UnusedBound`: nobody asks whether a token has expired, or has a
refresh token, that no call reads any more. The safety properties of these runs are proved
without any bound.

The lifetimes of `lifetime_thresholds` are the numbers next to each threshold, and one
beyond `MaxTimeout`, which is scaled down with the clock. `MaxLatency` is two seconds: the
offsets of 1, 5, 30 and 60 seconds lie on both sides of twice the latency.

`axios_requests` needs two renewals of a token for one request (the one after its first
401, and one by others) and at least two retries for the votes to matter. With two
requests every late answer arises: each may be refused with the token the other
replaced. `request_methods` needs two starts with two calls each for an order between
starts. Both are acyclic: in `axios_requests` the deadlock check also shows that each
request is answered, as `AllDone` is the only step left at the end.

`superagent_requests` allows the token one renewal by others and a request three retries: a
first for the timer that sends the header of a hook before the hook does, a second for
that hook after the token was refused, and one more after it. Two requests that overlap
make three attempts in all (`AttemptBound`): with them a late 401 meets a renewed token or one
that the other request obtained, the timer meets a renewal, and a retry is refused in its turn.

In `discovery_requests` two servers tell the entries of the cache apart, and two entries are
one for each server, or one and the one that replaces it when it expires. One retry is
an attempt that is followed by another and one that is not. `Exhausted` is the bound on
entries; `Hangs` says that a request cut within its body goes on for ever.

`http_clients` and `http_superagent_log` need no bound: a send of two retries ends. They stop
there, and so deadlock is not checked. The cases a suite leaves out are added by
`MCFaultCases` (retries and timeouts of the request, by default, or none, against answers
200, 204, 404, 413, 503, unreadable, late, or missing) and `MCPayloadCases`.

`correlation` has `MaxDepth` nested contexts (the outer one, the middleware's and one in
the handler) and `MaxIds` generated IDs: one for a transaction without a header and one for
the timer, or two transactions. It stops when all IDs are used. Handlers are symmetric
there, as requests are in `axios_requests`; symmetry is used in runs of safety properties
only.

### Fairness

A promise that settles runs its reactions and the store answers: weak
fairness of each caller's `Progress`. The resolver settles: weak fairness of
`ResolverSettles` or `ProviderStep`. That is an assumption on the callback, which the
class shares (a resolver that never settles suspends all callers, see the hazards). A
timeout fires: strong fairness of `TimerFires`, because the bound on calls may
disable it for a moment while another call is under way. Tasks run: `[]<>TaskBoundary`,
that is, the clients do not keep the queue of reactions busy for ever, which would
starve every timer and socket of the process. Clients need not call, and nothing need
expire. Requests of `OidcHttpClient` are under strong fairness of `Progress` and of
`Retry`, because the reactions of the others may delay the boundary they wait for. A
retry starts a call of the session, which the bound may leave no room for:
`SendSettles` asks nothing of a retry delayed when `MaxCalls` acquisitions were made.
In `TokenLifetime` time passes, a timeout that is due fires, and an expired token is asked
for: the token endpoint itself is held to its latency by `Tick`.
In `RequestPlugin` the hooks settle, the reactions run, and the library answers a
request once its `end` was forwarded; it need not answer before. In
`SuperagentPlugin` the session answers, and an attempt ends or the timer of its request
fires. In `Discovery` an attempt in progress gets some event: it fails, is cut or is
answered, or its timeout destroys it, which is what the timeout is for. In `HttpClients`
every step is a microtask, a timer or an answer, and weak fairness of `Next` lets it
happen; a server may also choose never to answer, and `SendEnds` then relies on the timeout.

## Proofs

`SynchronizedAsyncValueProofs` (all callers, all bounds):

* `TypeCorrect`, `OneFlight`, `FlightOwned`, `StoreForward` for every kind of store.
  The inductive invariant `IInv` adds to the types that invocations are numbered in
  order, that only the newest can be pending, and then its leader is still waiting for
  it, and that a frame past `Resolve` names an invocation. Without the last two, a
  leader resuming late could release a newer flight.
* `NoRedundant` for ordered stores. `ReadsOK` is the argument: a
  caller that read a value since replaced is still ahead of the leader that replaced
  it, so it finds the flight in place.
* `Monotonic` for ordered stores. `ResultsOK` says that the store,
  the values read and the invocations shared are never older than the results given,
  those excepted that the store threw on.

`OidcSessionProofs`: `SessionImplementsAccessor` maps each step of the session to a step
of its accessor; through it the invariant of the class holds of the session, and with
it `OneAcquisition`, `StateCorrect` and `OneTimer`, for any clients, store and
configuration. `SentOnce` and `RefusedIsGone` rest on `RInv`: the invocation that sent the
refresh token of a stored token is still refreshing, or its leader is about to overwrite
that token (`StillStored`); and who has read that token without acting on it yet is
ahead of the leader, or finds the invocation under way (`StillRead`). Without the second
part, a caller that read the token before it was refused would send its refresh token again.
Both parts except an invocation whose answer the store throws on, after which the old token
does stay where it was.
`SameStep` only says that two instances of one module are equal.

`OidcHttpClientProofs`: `RequestsImplementSession` shows that requests move the session by its
own operations only, so that all of the above holds under any number of sends.

* `OnlyBadTokens` and `RetriesOnce` need `SendInv` only: a send past its first 401 still has
  the token it was refused with, a request at rest has nothing, and only a send that waits
  for a token has a call under way. `Journey` sums up where a step can take a send;
  `LoopStep` maps it to the loop of `retryAction`.
* `NewerTokens` and `Needed` add `Fresh`, on the invariants of the session and of its accessor.
  `NoOlderStored`: the store holds nothing older than a token received, unless that token is
  about to be stored. `NewestKept`: the newest token that the store could keep is in it, or about
  to be, unless a server refused it or an acquisition started from it. `Refreshed`: from the deletion of
  its token to its second attempt, a send finds in the session no token as old, neither
  stored, nor read, nor in flight. The step that establishes it is the answer 401 itself: it
  comes at a task boundary, where the flight that brought the token is over.

`DiscoveryAndLifetimeProofs`, of the lifetimes: `DelayWithinLifetime` for every `expires_in`, and `EagerRenewal`
for all lifetimes and latencies, from the invariant that age plus remaining timeout
is bounded by the delay and the latency of storing.

`AxiosPluginProofs` (any requests and retries, both orders of the plugins): `TypeCorrect`;
`RefusedTokensAlone` and `NotSentAgain` from `TokenInv`, by which the header that leaves is the
token of the authenticator, and a token a request was refused with is gone from the
session or is still the request's own, about to be deleted; `OneLoop`, the refinement of
`RetryAction`.

`DiscoveryAndLifetimeProofs`, of the configurations (any users, servers, entries and retries):
`TypeCorrect`, `Connections` and `FetchesAreShared`. Each step of the users is a step of the HTTP client (`UserStep`), so the
types and connections of the client are proved of it alone (`HttpStep`). The fetches are
shared because of `CacheInv`: only the newest entry of a server may be alive, and then
the cache holds it. It needs that an entry is replaced only when it expired, and
that no request of an entry starts before the entry exists. `ConfigsAreAlive` follows each user from
one await to the next (`UseStep`): who was given a configuration waited for its fetch, or
took it from an entry that had not expired. `SendsRetry` is the refinement of `RetryAction` by
every fetch and every request of a user: `SendMoves` lists where a step can take a send, and
`LoopStep` maps each to a step of the loop.

`RequestPluginProofs` (any number of calls, starts and renewals).

* `RequestInOrder` is about the reactions of shared promises, without an induction over their
  queue. `StartInv`: only the last start may be under way, and the chains of the calls that
  waited for earlier ones are over. `OrderInv`: later calls wait for later starts, those of
  one start react in the order of the calls, and what was forwarded has reacted. So the next
  method to be forwarded is later than all that were.
* `RequestTokenIsSent` and `RequestOnlyRefused` add `TokenInv`, `LeaveInv` (a start that
  succeeded for an accepted request left a token in the header, and with one start only the
  request left with just that header) and `CallbackInv`, which counts the calls of the caller.

`CorrelatorAndSuperagentProofs`, of superagent (any requests, retries and renewals):
`SuperagentTypes`, `SuperagentRefusedAlone` and `SuperagentNewToken`. The types are inductive
only with `AttemptInv`: a request has attempts and a timer once its header is set, no attempt is
numbered beyond its retries, and the tokens of attempts are never newer than the header.
`HeldInv` says that the session holds the newest token or none, and none that a request was
refused with unless it could not be deleted. For `SuperagentNewToken`, `HookInv` follows a hook
from its `RenewalInjects` to its `Renewed`: the header it set was in none of the request's
refusals, so if it is now, an attempt carried it meanwhile; tokens of later attempts are never
older (`AttemptInv`), so that attempt came after the hook's own, and only the timer or a hook
next to it starts one (`Overtaken`). The exceptions of the two properties are those of the code.

`HttpClientsProofs` (any requests, defaults and retries): `KeepsThePromises`, the refinement of
`IHttpClient` by each client, from `SendInv` (what failed is what the last attempt came to) and
`RetriesMayHelp` (whatever a client retries may go away, in the sense of the interface);
`EveryAttemptIsLogged` from `LogInv`, by which the log alternates and ends with a start
exactly while an attempt is under way. `SuiteHeld` rests on three groups of lemmas for any data:
what a client sends of a body (`SendsCharacters`, `SendsJson`, `SendsForm`, `RefusesNumbers`), what
it makes of an answer (`ReadsJson`, `ReadsForm`, `ReadsText`, `ReadsBytes`, in which the three
clients agree although superagent parses on its own), and how a send ends (`SuiteInv`: the
number of attempts tells how many requests reached the server, what the last was answered and
that no retry is left). `SendsCookies` and `CookiesAreMet` are the same of the cookies, and `Told` of
the lines of the log: whoever has logged has said that it started, and ended once the send
is over. Each case of the suite then follows in a few steps.

`CorrelatorAndSuperagentProofs`, of the correlator (any executions, targets, IDs and depths):
`TypeCorrect`,
`OwnContexts` and `IdsAreKept`. `IInv` says of whoever acts for a transaction that all the
contexts it is nested in, those it goes back to included, are that transaction's; and so
for what is bound and for the timeout. The innermost context alone would not be inductive:
`WorkEnds` uncovers the one below.

Assumptions are those named in the modules: the bounds are natural numbers, the modes
are booleans, the kinds of store are the three modelled, the timer is not a client, the
names of users and entries (of handlers, sockets and generated IDs) are distinct,
lifetimes are positive, the second plugin of axios is not the first.

Two of these modules are about two components each, which share no variable. They extend both,
and so the definitions of `TokenLifetime` and `SuperagentPlugin` whose names every module has
bear a prefix (`TLSpec`, `SASpec`, `saVars`).

A CASE whose guards overlap is any of its values to the prover, and the first to TLC. In
`HttpContent` and `HttpClients` the guards of a CASE exclude one another, or an IF gives
the order of the code. The names that stand for texts contain no spaces, which the prover
does not take.

Only model-checked is what is live: `EveryCallReturns`, `ScheduledRefreshHappens`,
`TokensAreReplaced`, `SendSettles`, `RequestAnswered`, `UsesEnd`, `CallerIsCalled` and `SendEnds`.
Fairness and ENABLED are outside the proof system's reach. Every other property of a passing
run is proved. Nothing is recursive, so no definition is left to TLC for that reason; no
induction over data is needed.

## Divergences from the documents

* `request_truncated` shows one: packages/oidc-plugin-request orders its methods by waiting for
  the first, but only when the first succeeds. A write whose start failed is dropped, and
  the end that follows starts the plugins again and sends the request without that part
  of its body.
* `http_superagent_log` shows another: the logger of the superagent plugin logs "before and
  after the execution of request", but a request that was answered 503, retried and then
  lost its connection logs no failure. `responseLogged` is set by the first response and
  never reset, and superagent emits `error` only when it gives up.
* "it will be retried only once" (packages/oidc/src/oidc/IOidcAuthenticatorConfig.ts): the retries
  of an axios request are the most that any of its plugins asks for, and each plugin votes
  on each error. Next to a plugin that allows two retries, a request refused twice
  may be sent a third time (`CanRetry` in `AxiosPlugin`). No run is about it.
* The option `retryUnauthenticatedRequests` "defaults to true" (same file, doc/README.md), but the
  superagent plugin tests `config && config.retryUnauthenticatedRequests !== false`: without a
  config it does not retry (`Configs` in `SuperagentPlugin`). No run is about it.
* Errors of a request that cannot be prepared are plain `TypeError`s in the axios and superagent
  clients, not the `HttpClientError` of the interface (`NoLengthCode` in `HttpClients`).

## Not modelled

* `OidcSessionBuilder`, `createSession` of the plugins and `injectHttpClient` call constructors in
  sequence, once, before any part runs: no state and no interleaving.
* `OidcTokenInspector`, `OidcUserInfoClaimsProvider` and `OidcTokenProvider` appear as users of a
  configuration that send one request (`Discovery`). The form they send and the fields they
  read are data that nothing else depends on. The claims of a `TokenSet` are a
  `SynchronizedAsyncCachedValue`, which is modelled.
* The logger and the correlator of the request plugin, whose hooks do not fail; redirects,
  requests without a callback, and callers that use the methods of a `Request` between two
  reactions of one task.
* Listeners of `stateChanged` that throw, and a resolver that throws before it returns
  its promise. `getState` and `hasToken`, which only read.
* The lines of the logs, redaction, stopwatch and clocks, the examples and the test doubles.
* Axios, superagent, `request`, Node's `http`, `AsyncLocalStorage`, the token endpoint and the
  servers are external, and modelled only as far as the code relies on them.

What could come next: `AxiosPlugin` and `SuperagentPlugin` composed with the real session of
`OidcHttpClient` instead of the abstract one, and the proof that the session implements that
abstraction over the in-memory store.
