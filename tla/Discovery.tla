----------------------------- MODULE Discovery -----------------------------
(***************************************************************************)
(* packages/oidc: OidcWellknownServerConfigProvider, its Cache (core), and  *)
(* its users: the token provider, the token inspector and the claims        *)
(* provider, which get the configuration of the server and send it one      *)
(* request.  Both go through DefaultHttpClient.                             *)
(*                                                                         *)
(* A cache entry is a SynchronizedAsyncCachedValue.  Its getValue is one     *)
(* step here: the value is returned, or the fetch under way joined, or a    *)
(* fetch started (NoRedundantResolve and SingleFlight say that this is what *)
(* the steps of SynchronizedAsyncValue amount to).                          *)
(***************************************************************************)
EXTENDS Integers, Sequences

CONSTANTS
    Users,       \* the users of the configurations
    Servers,     \* the servers they are configured with
    MaxEntries,  \* cache entries created (bound)
    MaxRetries,  \* defaults.retries of the HTTP client
    HasTimeout   \* requestTimeout, or the default of the HTTP client

Entries  == 1 .. MaxEntries  \* numbered as they are created
Requests == Entries \cup Users

ASSUME UsersAssumption  == MaxEntries \in Nat /\ Users \cap Entries = {}
ASSUME ClientAssumption == MaxRetries \in Nat /\ HasTimeout \in BOOLEAN

VARIABLES
    entries,  \* the servers of the entries created so far
    cache,    \* Cache.entries: the entry of each server, 0: none
    expired,  \* the entries whose time to live is over
    fetched,  \* the entries that hold a configuration
    stage,    \* where each user is
    entry,    \* the entry a user asked, 0: none
    at, attempt, lastError, sockets  \* the requests: fetches, and those of the users

http     == <<at, attempt, lastError, sockets>>
provider == <<entries, cache, expired, fetched>>
users    == <<stage, entry>>
vars     == <<entries, cache, expired, fetched, stage, entry,
              at, attempt, lastError, sockets>>

Http == INSTANCE DefaultHttpClient

TypeOK ==
    /\ entries \in Seq(Servers) /\ Len(entries) <= MaxEntries
    /\ cache \in [Servers -> 0 .. Len(entries)]
    /\ expired \subseteq 1 .. Len(entries)
    /\ fetched \subseteq 1 .. Len(entries)
    /\ stage \in [Users -> {"idle", "waiting", "given", "sending"}]
    /\ entry \in [Users -> 0 .. Len(entries)]
    /\ Http!TypeOK

Init ==
    /\ entries = <<>>
    /\ cache = [s \in Servers |-> 0]
    /\ expired = {}
    /\ fetched = {}
    /\ stage = [u \in Users |-> "idle"]
    /\ entry = [u \in Users |-> 0]
    /\ Http!Init

-----------------------------------------------------------------------------
\* Faulty: an entry counts only when its configuration was fetched.
LookupFetched(s) == IF cache[s] \in expired \/ cache[s] \notin fetched THEN 0 ELSE cache[s]

\* Faulty: the time to live is not looked at.
LookupAny(s) == cache[s]

\* Cache.get
Lookup(s) == IF cache[s] \in expired THEN 0 ELSE cache[s]

\* Cache.set, which first deletes the entries that expired.
Put(s, e) ==
    cache' = [t \in Servers |-> IF t = s THEN e ELSE IF cache[t] \in expired THEN 0 ELSE cache[t]]

\* The entry of the server, which may be a new one.
EntryOf(s, e) ==
    \/ e = Lookup(s) /\ e # 0 /\ UNCHANGED <<entries, cache>>
    \/ /\ Lookup(s) = 0
       /\ e = Len(entries) + 1
       /\ entries' = Append(entries, s)
       /\ Put(s, e)

\* getValue of the entry.
GetValue(u, e) ==
    \/ /\ e \in fetched
       /\ stage' = [stage EXCEPT ![u] = "given"]
       /\ UNCHANGED http
    \/ /\ e \notin fetched
       /\ stage' = [stage EXCEPT ![u] = "waiting"]
       /\ IF at[e] = "idle" THEN Http!Send(e) ELSE UNCHANGED http

(* getConfig: the user asks for the configuration of its server.            *)
GetConfig(u) ==
    /\ stage[u] = "idle"
    /\ \E s \in Servers, e \in Entries :
         EntryOf(s, e) /\ GetValue(u, e) /\ entry' = [entry EXCEPT ![u] = e]
    /\ UNCHANGED <<expired, fetched>>

(* The client config bears the configuration of the server.                 *)
UseOwnConfig(u) ==
    /\ stage[u] = "idle"
    /\ stage' = [stage EXCEPT ![u] = "given"]
    /\ UNCHANGED <<provider, entry, http>>

\* Those that wait for e resume.
Resume(e, point) ==
    /\ stage' = [u \in Users |-> IF stage[u] = "waiting" /\ entry[u] = e THEN point ELSE stage[u]]
    /\ entry' = [u \in Users |-> IF stage'[u] = "idle" THEN 0 ELSE entry[u]]

(* The fetch of an entry settles.                                            *)
ConfigFetched(e) ==
    /\ Http!Succeeds(e)
    /\ fetched' = fetched \cup {e}
    /\ Resume(e, "given")
    /\ UNCHANGED <<entries, cache, expired>>

\* Faulty: only the caller that started the fetch is told.
FetchFailsForOne(e) ==
    /\ Http!Fails(e)
    /\ \E u \in Users :
         /\ stage[u] = "waiting" /\ entry[u] = e
         /\ stage' = [stage EXCEPT ![u] = "idle"]
         /\ entry' = [entry EXCEPT ![u] = 0]
    /\ UNCHANGED provider

FetchFails(e) ==
    /\ Http!Fails(e)
    /\ Resume(e, "idle")
    /\ UNCHANGED provider

-----------------------------------------------------------------------------
\* The user's own call is over.
Return(u) ==
    /\ stage' = [stage EXCEPT ![u] = "idle"]
    /\ entry' = [entry EXCEPT ![u] = 0]

(* The request is created and sent.                                          *)
SendRequest(u) ==
    /\ stage[u] = "given"
    /\ Http!Send(u)
    /\ stage' = [stage EXCEPT ![u] = "sending"]
    /\ UNCHANGED <<provider, entry>>

(* The configuration lacks the endpoint, or the client config what the       *)
(* grant or the authentication method needs.                                *)
RequestNotCreated(u) ==
    /\ stage[u] = "given"
    /\ Return(u)
    /\ UNCHANGED <<provider, http>>

(* The request of the user settles.                                          *)
RequestSettles(u) ==
    /\ stage[u] = "sending"
    /\ Http!Succeeds(u) \/ Http!Fails(u)
    /\ Return(u)
    /\ UNCHANGED provider

(* One of the requests goes on.                                              *)
RequestWorks(r) == Http!Works(r) /\ UNCHANGED <<provider, users>>

(* An hour has passed since the entry was created.                           *)
Expire(e) ==
    /\ e <= Len(entries)
    /\ e \notin expired
    /\ expired' = expired \cup {e}
    /\ UNCHANGED <<entries, cache, fetched, users, http>>

\* The bound on entries is reached.
Exhausted == Len(entries) = MaxEntries /\ UNCHANGED vars

\* A request whose answer was cut goes on for ever: the system may stop there.
Hangs == (\E r \in Requests : at[r] = "cut") /\ UNCHANGED vars

Next ==
    \/ \E u \in Users :
         GetConfig(u) \/ UseOwnConfig(u) \/ SendRequest(u)
         \/ RequestNotCreated(u) \/ RequestSettles(u)
    \/ \E e \in Entries : ConfigFetched(e) \/ FetchFails(e) \/ Expire(e)
    \/ \E r \in Requests : RequestWorks(r)
    \/ Exhausted \/ Hangs

Spec == Init /\ [][Next]_vars

(* Reactions run, delays elapse, and a connection fails, times out, is cut    *)
(* or answered: the last with a timeout only.                               *)
Fairness ==
    /\ \A u \in Users :
         /\ WF_vars(SendRequest(u) \/ RequestNotCreated(u))
         /\ WF_vars(RequestSettles(u) \/ RequestWorks(u))
    /\ \A e \in Entries : WF_vars(ConfigFetched(e) \/ FetchFails(e) \/ RequestWorks(e))

FairSpec == Spec /\ Fairness

-----------------------------------------------------------------------------
(* Properties                                                              *)

\* A configuration is fetched only if no entry of its server that is still
\* alive holds it, or is fetching it: users that ask together share a fetch,
\* before and after the one that failed.
FetchIsNeeded ==
    [][ \A e \in Entries : at[e] = "idle" /\ at'[e] # "idle" =>
          \A f \in 1 .. Len(entries) :
             entries[f] = entries'[e] /\ f \notin expired => f \notin fetched /\ at[f] = "idle" ]_vars

\* A user is given a configuration that it waited for, or that was in the cache
\* for less than its time to live.
ConfigIsAlive ==
    [][ \A u \in Users : stage'[u] = "given" /\ stage[u] # "given" /\ entry'[u] # 0 =>
          \/ stage[u] = "waiting" /\ Http!Succeeds(entry[u])
          \/ entry'[u] \notin expired ]_vars

\* Every use of a configuration ends, with the requests in between retried and
\* timed out, unless the answer to one of them was cut within its body.
UsesEnd ==
    \A u \in Users :
        stage[u] # "idle" ~>
          \/ stage[u] = "idle"
          \/ stage[u] = "waiting" /\ at[entry[u]] = "cut"
          \/ stage[u] = "sending" /\ at[u] = "cut"

\* The fetches and the requests of the users hold one connection each, and are
\* runs of retryAction.
OneConnection   == Http!OneConnection
SendsAreRetried == Http!SendsAreRetried
=============================================================================
