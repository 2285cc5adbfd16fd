--------------------- MODULE DiscoveryAndLifetimeProofs ---------------------
(***************************************************************************)
(* The configuration of a server and the tokens that are got with it:       *)
(* Discovery, for any users, servers and retries, then TokenLifetime, for   *)
(* every lifetime.  The two share no variable; a result is about one.       *)
(***************************************************************************)
EXTENDS Discovery, TokenLifetime, TLAPS

USE UsersAssumption, ClientAssumption DEF Entries, Requests

-----------------------------------------------------------------------------
(* The requests                                                            *)

(* The types of the HTTP client, and its connections.                        *)
HttpInv == Http!TypeOK /\ Http!OneConnection

(* The client starts without a connection.                                   *)
LEMMA HttpInit == Http!Init => HttpInv
  BY DEF Http!Init, HttpInv, Http!TypeOK, Http!OneConnection, Http!Points, Http!Errors

(* Each step of a send leaves the client as its invariant says.              *)
LEMMA HttpStep == HttpInv /\ [Http!Next]_http => HttpInv'
<1> SUFFICES ASSUME HttpInv, [Http!Next]_http PROVE HttpInv'
  OBVIOUS
<1> USE DEF HttpInv, Http!TypeOK, Http!OneConnection, Http!Points, Http!Errors, Http!Go
<1>1. ASSUME NEW r \in Requests, Http!Send(r) PROVE HttpInv'
  <2>1. CASE at' = [at EXCEPT ![r] = "connecting"] /\ sockets' = [sockets EXCEPT ![r] = @ + 1]
    BY <1>1, <2>1 DEF Http!Send
  <2>2. CASE at' = [at EXCEPT ![r] = "invalid"] /\ UNCHANGED sockets
    BY <1>1, <2>2 DEF Http!Send
  <2> QED
    BY <1>1, <2>1, <2>2 DEF Http!Send, Http!DoSend
<1>2. ASSUME NEW r \in Requests, Http!NotSent(r) PROVE HttpInv'
  BY <1>2 DEF Http!NotSent, Http!Reject
<1>3. ASSUME NEW r \in Requests, NEW e \in Http!Errors, Http!ConnectionFails(r, e) PROVE HttpInv'
  BY <1>3 DEF Http!ConnectionFails, Http!Reject, Http!Close
<1>4. ASSUME NEW r \in Requests, Http!TimesOut(r) PROVE HttpInv'
  BY <1>4 DEF Http!TimesOut
<1>5. ASSUME NEW r \in Requests, Http!Destroyed(r) PROVE HttpInv'
  BY <1>5 DEF Http!Destroyed, Http!Reject, Http!Close
<1>6. ASSUME NEW r \in Requests, Http!Responds(r) PROVE HttpInv'
  BY <1>6 DEF Http!Responds
<1>7. ASSUME NEW r \in Requests, Http!Cut(r) PROVE HttpInv'
  BY <1>7 DEF Http!Cut, Http!Close
<1>8. ASSUME NEW r \in Requests, Http!Succeeds(r) PROVE HttpInv'
  BY <1>8 DEF Http!Succeeds, Http!Settle, Http!Close
<1>9. ASSUME NEW r \in Requests, NEW e \in Http!Errors, Http!BadStatus(r, e) PROVE HttpInv'
  BY <1>9 DEF Http!BadStatus, Http!Reject, Http!Close
<1>10. ASSUME NEW r \in Requests, Http!BadBody(r) PROVE HttpInv'
  BY <1>10 DEF Http!BadBody, Http!Reject, Http!Close
<1>11. ASSUME NEW r \in Requests, Http!CanRetry(r) PROVE HttpInv'
  BY <1>11 DEF Http!CanRetry
<1>12. ASSUME NEW r \in Requests, Http!Retry(r) PROVE HttpInv'
  <2>1. CASE at' = [at EXCEPT ![r] = "connecting"] /\ sockets' = [sockets EXCEPT ![r] = @ + 1]
    BY <1>12, <2>1 DEF Http!Retry, Http!RetriesLeft
  <2>2. CASE at' = [at EXCEPT ![r] = "invalid"] /\ UNCHANGED sockets
    BY <1>12, <2>2 DEF Http!Retry, Http!RetriesLeft
  <2> QED
    BY <1>12, <2>1, <2>2 DEF Http!Retry, Http!DoSend
<1>13. ASSUME NEW r \in Requests, Http!Fails(r) PROVE HttpInv'
  BY <1>13 DEF Http!Fails, Http!Settle
<1>14. ASSUME UNCHANGED http PROVE HttpInv'
  BY <1>14 DEF http
<1> QED
  BY <1>1, <1>2, <1>3, <1>4, <1>5, <1>6, <1>7, <1>8, <1>9, <1>10, <1>11, <1>12, <1>13, <1>14
     DEF Http!Next, Http!Progress, Http!Works

(* Every step of the users is a step of the HTTP client, or leaves it alone.  *)
LEMMA UserStep == [Next]_vars => [Http!Next]_http
<1> SUFFICES ASSUME [Next]_vars PROVE [Http!Next]_http
  OBVIOUS
<1>1. ASSUME NEW u \in Users, GetConfig(u) PROVE [Http!Next]_http
  BY <1>1 DEF GetConfig, GetValue, Http!Next
<1>2. ASSUME NEW u \in Users, UseOwnConfig(u) \/ RequestNotCreated(u) PROVE [Http!Next]_http
  BY <1>2 DEF UseOwnConfig, RequestNotCreated
<1>3. ASSUME NEW u \in Users, SendRequest(u) PROVE [Http!Next]_http
  BY <1>3 DEF SendRequest, Http!Next
<1>4. ASSUME NEW u \in Users, RequestSettles(u) PROVE [Http!Next]_http
  BY <1>4 DEF RequestSettles, Http!Next, Http!Progress
<1>5. ASSUME NEW e \in Entries, ConfigFetched(e) PROVE [Http!Next]_http
  BY <1>5 DEF ConfigFetched, Http!Next, Http!Progress
<1>6. ASSUME NEW e \in Entries, FetchFails(e) PROVE [Http!Next]_http
  BY <1>6 DEF FetchFails, Http!Next, Http!Progress
<1>7. ASSUME NEW e \in Entries, Expire(e) PROVE [Http!Next]_http
  BY <1>7 DEF Expire
<1>8. ASSUME NEW r \in Requests, RequestWorks(r) PROVE [Http!Next]_http
  BY <1>8 DEF RequestWorks, Http!Next, Http!Progress
<1>9. ASSUME UNCHANGED vars PROVE [Http!Next]_http
  BY <1>9 DEF vars, http
<1> QED
  BY <1>1, <1>2, <1>3, <1>4, <1>5, <1>6, <1>7, <1>8, <1>9 DEF Next, Exhausted, Hangs

-----------------------------------------------------------------------------
(* The cache                                                               *)

(* Only the newest entry of a server may be alive, and the cache holds it.   *)
CacheInv ==
    /\ \A f \in 1 .. Len(entries) : f \notin expired => cache[entries[f]] = f
    /\ \A s \in Servers : cache[s] # 0 => entries[cache[s]] = s
    /\ \A e \in Entries : at[e] # "idle" => e <= Len(entries)

IInv == TypeOK /\ HttpInv /\ CacheInv

(* The request of a user is not the fetch of an entry.                       *)
LEMMA Apart == \A u \in Users, e \in Entries : u # e
  OBVIOUS

(* The cache starts empty.                                                   *)
LEMMA InitInv == Init => IInv
  BY HttpInit DEF Init, IInv, TypeOK, CacheInv, HttpInv, Http!Init

(* Only Send makes a request leave "idle", and a step of one request leaves   *)
(* the others where they were.                                               *)
LEMMA SendStarts ==
    ASSUME Http!TypeOK, NEW r \in Requests
    PROVE  /\ Http!Send(r) => \A q \in Requests : q # r => at'[q] = at[q]
           /\ Http!Progress(r) => at[r] # "idle" /\ \A q \in Requests : q # r => at'[q] = at[q]
<1> USE DEF Http!TypeOK, Http!Go
<1>1. Http!Send(r) => \A q \in Requests : q # r => at'[q] = at[q]
  BY DEF Http!Send, Http!DoSend
<1>2. Http!Works(r) => at[r] # "idle" /\ \A q \in Requests : q # r => at'[q] = at[q]
  BY DEF Http!Works, Http!NotSent, Http!ConnectionFails, Http!TimesOut, Http!Destroyed,
     Http!Responds, Http!Cut, Http!BadStatus, Http!BadBody, Http!CanRetry, Http!Retry,
     Http!Reject, Http!DoSend
<1>3. Http!Succeeds(r) \/ Http!Fails(r)
        => at[r] # "idle" /\ \A q \in Requests : q # r => at'[q] = at[q]
  BY DEF Http!Succeeds, Http!Fails, Http!Settle
<1> QED
  BY <1>1, <1>2, <1>3 DEF Http!Progress

(* A new entry takes the place of the one that expired.                      *)
LEMMA EntryStep ==
    ASSUME IInv, NEW s \in Servers, NEW e \in Entries, EntryOf(s, e), UNCHANGED expired
    PROVE  /\ entries' \in Seq(Servers) /\ Len(entries') <= MaxEntries
           /\ Len(entries) <= Len(entries') /\ e <= Len(entries')
           /\ cache' \in [Servers -> 0 .. Len(entries')]
           /\ \A f \in 1 .. Len(entries') : f \notin expired => cache'[entries'[f]] = f
           /\ \A t \in Servers : cache'[t] # 0 => entries'[cache'[t]] = t
           /\ \A f \in 1 .. Len(entries) :
                entries[f] = entries'[e] /\ f \notin expired => f = e
<1> USE DEF IInv, TypeOK, CacheInv
<1>1. CASE e = Lookup(s) /\ e # 0 /\ UNCHANGED <<entries, cache>>
  BY <1>1 DEF Lookup
<1>2. CASE Lookup(s) = 0 /\ e = Len(entries) + 1 /\ entries' = Append(entries, s) /\ Put(s, e)
  <2>1. /\ entries' \in Seq(Servers) /\ Len(entries') = e
        /\ entries'[e] = s
        /\ \A f \in 1 .. Len(entries) : entries'[f] = entries[f]
    BY <1>2
  <2>2. cache' \in [Servers -> 0 .. Len(entries')]
    BY <1>2, <2>1 DEF Put
  <2>3. \A f \in 1 .. Len(entries) : f \notin expired => entries[f] # s
    BY <1>2 DEF Lookup
  <2>4. \A f \in 1 .. Len(entries') : f \notin expired => cache'[entries'[f]] = f
    <3> SUFFICES ASSUME NEW f \in 1 .. Len(entries'), f \notin expired PROVE cache'[entries'[f]] = f
      OBVIOUS
    <3>1. CASE f = e
      BY <3>1, <2>1, <1>2 DEF Put
    <3>2. CASE f # e
      <4>1. f \in 1 .. Len(entries) /\ entries'[f] = entries[f] /\ entries[f] \in Servers
        BY <3>2, <2>1, <1>2
      <4>2. cache[entries[f]] = f /\ entries[f] # s
        BY <4>1, <2>3
      <4> QED
        BY <4>1, <4>2, <1>2 DEF Put
    <3> QED
      BY <3>1, <3>2
  <2>5. \A t \in Servers : cache'[t] # 0 => entries'[cache'[t]] = t
    BY <1>2, <2>1 DEF Put
  <2>6. Len(entries) <= Len(entries') /\ e <= Len(entries') /\ Len(entries') <= MaxEntries
    BY <1>2, <2>1
  <2>7. \A f \in 1 .. Len(entries) : entries[f] = entries'[e] /\ f \notin expired => f = e
    BY <2>1, <2>3
  <2> HIDE DEF IInv
  <2> QED
    BY <2>1, <2>2, <2>4, <2>5, <2>6, <2>7
<1> QED
  BY <1>1, <1>2 DEF EntryOf

(* Each step of the users leaves the client and the cache as they should be.  *)
LEMMA Step == IInv /\ [Next]_vars => IInv'
<1> SUFFICES ASSUME IInv, [Next]_vars, HttpInv', Http!TypeOK' PROVE IInv'
  BY HttpStep, UserStep DEF IInv, HttpInv
<1> USE DEF IInv, TypeOK, CacheInv
<1>1. ASSUME NEW u \in Users, GetConfig(u) PROVE IInv'
  <2>1. PICK s \in Servers, e \in Entries :
          EntryOf(s, e) /\ GetValue(u, e) /\ entry' = [entry EXCEPT ![u] = e]
    BY <1>1 DEF GetConfig
  <2>2. UNCHANGED <<expired, fetched>>
    BY <1>1 DEF GetConfig
  <2>3. /\ entries' \in Seq(Servers) /\ Len(entries') <= MaxEntries
        /\ Len(entries) <= Len(entries') /\ e <= Len(entries')
        /\ cache' \in [Servers -> 0 .. Len(entries')]
        /\ \A f \in 1 .. Len(entries') : f \notin expired => cache'[entries'[f]] = f
        /\ \A t \in Servers : cache'[t] # 0 => entries'[cache'[t]] = t
    BY <2>1, <2>2, EntryStep
  <2>4. stage' \in [Users -> {"idle", "waiting", "given", "sending"}]
    BY <2>1 DEF GetValue
  <2>5. \A f \in Entries : f # e => at'[f] = at[f]
    BY <2>1, SendStarts DEF GetValue, http
  <2>6. \A f \in Entries : at'[f] # "idle" => f <= Len(entries')
    <3> SUFFICES ASSUME NEW f \in Entries, at'[f] # "idle" PROVE f <= Len(entries')
      OBVIOUS
    <3>1. Len(entries) \in Nat /\ Len(entries') \in Nat /\ Len(entries) <= Len(entries')
      BY <2>3
    <3>2. CASE f = e
      BY <2>3, <3>2
    <3>3. CASE f # e
      <4>1. f <= Len(entries)
        BY <2>5, <3>3
      <4> QED
        BY <3>1, <4>1
    <3> QED
      BY <3>2, <3>3
  <2>7. entry' \in [Users -> 0 .. Len(entries')]
    BY <2>1, <2>3
  <2>8. expired' \subseteq 1 .. Len(entries') /\ fetched' \subseteq 1 .. Len(entries')
    BY <2>2, <2>3
  <2>9. TypeOK'
    BY <2>3, <2>4, <2>7, <2>8
  <2>10. CacheInv'
    BY <2>2, <2>3, <2>6
  <2> HIDE DEF TypeOK, CacheInv
  <2> QED
    BY <2>9, <2>10
<1>2. ASSUME NEW u \in Users, UseOwnConfig(u) \/ RequestNotCreated(u) PROVE IInv'
  <2>1. /\ stage' \in [Users -> {"idle", "waiting", "given", "sending"}]
        /\ entry' \in [Users -> 0 .. Len(entries)]
    <3>1. CASE UseOwnConfig(u)
      BY <3>1 DEF UseOwnConfig
    <3>2. CASE RequestNotCreated(u)
      BY <3>2 DEF RequestNotCreated, Return
    <3> QED
      BY <1>2, <3>1, <3>2
  <2>2. UNCHANGED <<entries, cache, expired, fetched, at>>
    BY <1>2 DEF UseOwnConfig, RequestNotCreated, provider, http
  <2>3. TypeOK'
    BY <2>1, <2>2
  <2>4. CacheInv'
    BY <2>2
  <2> HIDE DEF TypeOK, CacheInv
  <2> QED
    BY <2>3, <2>4
<1>3. ASSUME NEW u \in Users, SendRequest(u) PROVE IInv'
  <2>1. \A f \in Entries : at'[f] = at[f]
    BY <1>3, SendStarts, Apart DEF SendRequest
  <2> QED
    BY <1>3, <2>1 DEF SendRequest, provider
<1>4. ASSUME NEW u \in Users, RequestSettles(u) PROVE IInv'
  <2>1. \A f \in Entries : at'[f] = at[f]
    BY <1>4, SendStarts, Apart DEF RequestSettles, Http!Progress
  <2>2. /\ stage' \in [Users -> {"idle", "waiting", "given", "sending"}]
        /\ entry' \in [Users -> 0 .. Len(entries)]
    BY <1>4 DEF RequestSettles, Return
  <2>3. UNCHANGED <<entries, cache, expired, fetched>>
    BY <1>4 DEF RequestSettles, provider
  <2>4. TypeOK'
    BY <2>2, <2>3
  <2>5. CacheInv'
    BY <2>1, <2>3
  <2> HIDE DEF TypeOK, CacheInv
  <2> QED
    BY <2>4, <2>5
<1>5. ASSUME NEW e \in Entries, ConfigFetched(e) \/ FetchFails(e) PROVE IInv'
  <2>1. /\ at[e] # "idle"
        /\ \A f \in Entries : f # e => at'[f] = at[f]
    BY <1>5, SendStarts DEF ConfigFetched, FetchFails, Http!Progress
  <2>2. e \in 1 .. Len(entries)
    BY <2>1
  <2>3. UNCHANGED <<entries, cache, expired>> /\ fetched' \subseteq fetched \cup {e}
    BY <1>5 DEF ConfigFetched, FetchFails, provider
  <2>4. stage' \in [Users -> {"idle", "waiting", "given", "sending"}]
    BY <1>5 DEF ConfigFetched, FetchFails, Resume
  <2>5. entry' \in [Users -> 0 .. Len(entries)]
    BY <1>5 DEF ConfigFetched, FetchFails, Resume
  <2> QED
    BY <2>1, <2>2, <2>3, <2>4, <2>5
<1>6. ASSUME NEW e \in Entries, Expire(e) PROVE IInv'
  BY <1>6 DEF Expire, users, http
<1>7. ASSUME NEW r \in Requests, RequestWorks(r) PROVE IInv'
  <2>1. at[r] # "idle" /\ \A q \in Requests : q # r => at'[q] = at[q]
    BY <1>7, SendStarts DEF RequestWorks, Http!Progress
  <2> QED
    BY <1>7, <2>1 DEF RequestWorks, provider, users
<1>8. ASSUME UNCHANGED vars PROVE IInv'
  BY <1>8 DEF vars
<1> HIDE DEF IInv
<1> QED
  BY <1>1, <1>2, <1>3, <1>4, <1>5, <1>6, <1>7, <1>8 DEF Next, Exhausted, Hangs

(* The variables keep their types: no entry is used before it is created.    *)
THEOREM TypeCorrect == Spec => []TypeOK
<1>1. IInv => TypeOK
  BY DEF IInv
<1> QED
  BY <1>1, InitInv, Step, PTL DEF Spec

(* Whichever events end its attempts, a request or a fetch never holds two    *)
(* connections, and holds none when it settled.                              *)
THEOREM Connections == Spec => []OneConnection
<1>1. IInv => OneConnection
  BY DEF IInv, HttpInv, OneConnection
<1> QED
  BY <1>1, InitInv, Step, PTL DEF Spec

(* Users that ask for the configuration of a server, however their requests   *)
(* overlap, fail and are retried, fetch it only if no entry of the cache that *)
(* is still alive holds it or is fetching it.                                *)
THEOREM FetchesAreShared == Spec => FetchIsNeeded
<1> DEFINE Needed ==
      \A e \in Entries : at[e] = "idle" /\ at'[e] # "idle" =>
        \A f \in 1 .. Len(entries) :
           entries[f] = entries'[e] /\ f \notin expired => f \notin fetched /\ at[f] = "idle"
<1>1. ASSUME IInv, [Next]_vars PROVE Needed
  <2>1. SUFFICES ASSUME NEW e \in Entries, at[e] = "idle", at'[e] # "idle",
                        NEW f \in 1 .. Len(entries), entries[f] = entries'[e], f \notin expired
                 PROVE  f \notin fetched /\ at[f] = "idle"
    OBVIOUS
  <2>2. Http!TypeOK
    BY <1>1 DEF IInv, TypeOK
  <2>3. ~ \E r \in Requests : Http!Progress(r)
    BY <2>1, <2>2, SendStarts
  <2>4. PICK u \in Users : GetConfig(u)
    <3>1. ASSUME NEW u \in Users, SendRequest(u) PROVE FALSE
      BY <3>1, <2>1, <2>2, SendStarts, Apart DEF SendRequest
    <3>2. ASSUME NEW u \in Users, UseOwnConfig(u) \/ RequestNotCreated(u) PROVE FALSE
      BY <3>2, <2>1 DEF UseOwnConfig, RequestNotCreated, http
    <3>3. ASSUME NEW u \in Users, RequestSettles(u) PROVE FALSE
      BY <3>3, <2>3 DEF RequestSettles, Http!Progress
    <3>4. ASSUME NEW k \in Entries, ConfigFetched(k) \/ FetchFails(k) PROVE FALSE
      BY <3>4, <2>3 DEF ConfigFetched, FetchFails, Http!Progress
    <3>5. ASSUME NEW k \in Entries, Expire(k) PROVE FALSE
      BY <3>5, <2>1 DEF Expire, http
    <3>6. ASSUME NEW r \in Requests, RequestWorks(r) PROVE FALSE
      BY <3>6, <2>3 DEF RequestWorks, Http!Progress
    <3>7. ~ UNCHANGED vars
      BY <2>1 DEF vars
    <3> QED
      BY <1>1, <3>1, <3>2, <3>3, <3>4, <3>5, <3>6, <3>7 DEF Next, Exhausted, Hangs
  <2>5. PICK s \in Servers, k \in Entries : EntryOf(s, k) /\ GetValue(u, k)
    BY <2>4 DEF GetConfig
  <2>6. k = e /\ k \notin fetched
    BY <2>1, <2>2, <2>5, SendStarts DEF GetValue, http
  <2>7. UNCHANGED expired
    BY <2>4 DEF GetConfig
  <2>8. f = k
    BY <1>1, <2>1, <2>5, <2>6, <2>7, EntryStep
  <2> QED
    BY <2>1, <2>6, <2>8
<1>2. IInv /\ [Next]_vars => [Needed]_vars
  BY <1>1
<1> QED
  BY <1>2, InitInv, Step, PTL DEF Spec, FetchIsNeeded

-----------------------------------------------------------------------------
(* Configurations in use                                                   *)

(* Where a step takes a user: to a configuration that was fetched while it      *)
(* waited, that the cache still holds alive, or that is its own.               *)
LEMMA UseStep ==
    ASSUME IInv, \A u \in Users : stage[u] = "idle" => entry[u] = 0, [Next]_vars, NEW u \in Users
    PROVE  /\ stage'[u] = "idle" => entry'[u] = 0
           /\ stage'[u] = "given" /\ stage[u] # "given" /\ entry'[u] # 0 =>
                \/ stage[u] = "waiting" /\ Http!Succeeds(entry[u])
                \/ entry'[u] \notin expired
<1> DEFINE Used == /\ stage'[u] = "idle" => entry'[u] = 0
                   /\ stage'[u] = "given" /\ stage[u] # "given" /\ entry'[u] # 0 =>
                        \/ stage[u] = "waiting" /\ Http!Succeeds(entry[u])
                        \/ entry'[u] \notin expired
<1>0. /\ stage \in [Users -> {"idle", "waiting", "given", "sending"}]
      /\ entry \in [Users -> 0 .. Len(entries)]
      /\ entries \in Seq(Servers) /\ expired \subseteq 1 .. Len(entries)
      /\ stage[u] = "idle" => entry[u] = 0
  BY DEF IInv, TypeOK
<1>1. ASSUME NEW v \in Users, GetConfig(v) PROVE Used
  <2>1. PICK s \in Servers, e \in Entries :
          EntryOf(s, e) /\ GetValue(v, e) /\ entry' = [entry EXCEPT ![v] = e]
    BY <1>1 DEF GetConfig
  <2>2. e \notin expired
    <3>1. CASE e = Lookup(s) /\ e # 0
      BY <3>1 DEF Lookup
    <3>2. CASE e = Len(entries) + 1
      BY <1>0, <3>2
    <3> QED
      BY <2>1, <3>1, <3>2 DEF EntryOf
  <2>3. \/ stage' = [stage EXCEPT ![v] = "given"]
        \/ stage' = [stage EXCEPT ![v] = "waiting"]
    BY <2>1 DEF GetValue
  <2> QED
    BY <1>0, <2>1, <2>2, <2>3
<1>2. ASSUME NEW v \in Users, UseOwnConfig(v) PROVE Used
  BY <1>0, <1>2 DEF UseOwnConfig
<1>3. ASSUME NEW v \in Users, SendRequest(v) PROVE Used
  BY <1>0, <1>3 DEF SendRequest
<1>4. ASSUME NEW v \in Users, RequestNotCreated(v) \/ RequestSettles(v) PROVE Used
  BY <1>0, <1>4 DEF RequestNotCreated, RequestSettles, Return
<1>5. ASSUME NEW e \in Entries, ConfigFetched(e) PROVE Used
  <2>1. Http!Succeeds(e)
    BY <1>5 DEF ConfigFetched
  <2> QED
    BY <1>0, <1>5, <2>1 DEF ConfigFetched, Resume
<1>6. ASSUME NEW e \in Entries, FetchFails(e) PROVE Used
  BY <1>0, <1>6 DEF FetchFails, Resume
<1>7. CASE UNCHANGED users
  BY <1>0, <1>7 DEF users
<1> QED
  BY <1>1, <1>2, <1>3, <1>4, <1>5, <1>6, <1>7
     DEF Next, Expire, RequestWorks, Exhausted, Hangs, vars, users

(* A user is given a configuration that it waited for, or that was in the cache *)
(* for less than its time to live, for any users, servers and entries.          *)
THEOREM ConfigsAreAlive == Spec => ConfigIsAlive
<1> DEFINE NoneWaits == \A u \in Users : stage[u] = "idle" => entry[u] = 0
<1> DEFINE Alive == \A u \in Users : stage'[u] = "given" /\ stage[u] # "given" /\ entry'[u] # 0 =>
                      \/ stage[u] = "waiting" /\ Http!Succeeds(entry[u])
                      \/ entry'[u] \notin expired
<1>1. Init => NoneWaits
  BY DEF Init
<1>2. IInv /\ NoneWaits /\ [Next]_vars => NoneWaits' /\ [Alive]_vars
  <2> SUFFICES ASSUME IInv, NoneWaits, [Next]_vars PROVE NoneWaits' /\ Alive
    OBVIOUS
  <2> QED
    BY UseStep
<1> QED
  BY <1>1, <1>2, InitInv, Step, PTL DEF Spec, ConfigIsAlive

-----------------------------------------------------------------------------
(* Attempts                                                                *)

(* A send that settled forgets its attempts and its error.                   *)
Forgotten(r) == at[r] = "idle" => attempt[r] = 0 /\ lastError[r] = "none"

Attempting == {"invalid", "connecting", "receiving", "destroyed", "cut"}

(* Where a step takes a send, and what becomes of its attempts and its error.  *)
LEMMA SendMoves ==
    ASSUME Http!TypeOK, NEW r \in Requests, [Http!Next]_http
    PROVE  \/ UNCHANGED <<at[r], attempt[r], lastError[r]>>
           \/ /\ at[r] \in Attempting \cup {"idle"} /\ at'[r] \in Attempting
              /\ UNCHANGED <<attempt[r], lastError[r]>>
           \/ /\ at[r] \in Attempting /\ at'[r] = "asking"
              /\ lastError'[r] \in Http!Errors /\ UNCHANGED attempt[r]
           \/ at[r] = "asking" /\ at'[r] = "delaying" /\ UNCHANGED <<attempt[r], lastError[r]>>
           \/ /\ at[r] = "delaying" /\ attempt[r] < MaxRetries /\ at'[r] \in Attempting
              /\ attempt'[r] = attempt[r] + 1 /\ UNCHANGED lastError[r]
           \/ /\ \/ at[r] \in {"receiving", "asking"}
                 \/ at[r] = "delaying" /\ attempt[r] >= MaxRetries
              /\ at'[r] = "idle" /\ attempt'[r] = 0 /\ lastError'[r] = "none"
<1> DEFINE Moved ==
           \/ UNCHANGED <<at[r], attempt[r], lastError[r]>>
           \/ /\ at[r] \in Attempting \cup {"idle"} /\ at'[r] \in Attempting
              /\ UNCHANGED <<attempt[r], lastError[r]>>
           \/ /\ at[r] \in Attempting /\ at'[r] = "asking"
              /\ lastError'[r] \in Http!Errors /\ UNCHANGED attempt[r]
           \/ at[r] = "asking" /\ at'[r] = "delaying" /\ UNCHANGED <<attempt[r], lastError[r]>>
           \/ /\ at[r] = "delaying" /\ attempt[r] < MaxRetries /\ at'[r] \in Attempting
              /\ attempt'[r] = attempt[r] + 1 /\ UNCHANGED lastError[r]
           \/ /\ \/ at[r] \in {"receiving", "asking"}
                 \/ at[r] = "delaying" /\ attempt[r] >= MaxRetries
              /\ at'[r] = "idle" /\ attempt'[r] = 0 /\ lastError'[r] = "none"
<1> USE DEF Http!TypeOK, Http!Go, Http!Errors, Http!Points, Attempting
<1>1. ASSUME NEW q \in Requests, Http!Send(q) PROVE Moved
  BY <1>1 DEF Http!Send, Http!DoSend
<1>2. ASSUME NEW q \in Requests, Http!Retry(q) PROVE Moved
  BY <1>2 DEF Http!Retry, Http!RetriesLeft, Http!DoSend
<1>3. ASSUME NEW q \in Requests, Http!TimesOut(q) \/ Http!Responds(q) \/ Http!Cut(q) PROVE Moved
  BY <1>3 DEF Http!TimesOut, Http!Responds, Http!Cut
<1>4. ASSUME NEW q \in Requests, Http!NotSent(q) \/ Http!Destroyed(q) \/ Http!BadBody(q) PROVE Moved
  BY <1>4 DEF Http!NotSent, Http!Destroyed, Http!BadBody, Http!Reject
<1>5. ASSUME NEW q \in Requests, NEW e \in Http!Errors, Http!ConnectionFails(q, e) \/ Http!BadStatus(q, e)
      PROVE  Moved
  BY <1>5 DEF Http!ConnectionFails, Http!BadStatus, Http!Reject
<1>6. ASSUME NEW q \in Requests, Http!CanRetry(q) PROVE Moved
  BY <1>6 DEF Http!CanRetry
<1>7. ASSUME NEW q \in Requests, Http!Succeeds(q) PROVE Moved
  BY <1>7 DEF Http!Succeeds, Http!Settle
<1>8. ASSUME NEW q \in Requests, Http!Fails(q) PROVE Moved
  BY <1>8 DEF Http!Fails, Http!Settle, Http!RetriesLeft
<1>9. ASSUME UNCHANGED http PROVE Moved
  BY <1>9 DEF http
<1> HIDE DEF Moved, Http!TypeOK, Http!Go, Http!Errors, Http!Points, Attempting
<1>10. ASSUME NEW q \in Requests, Http!Works(q) PROVE Moved
  BY <1>2, <1>3, <1>4, <1>5, <1>6, <1>10 DEF Http!Works
<1>11. ASSUME NEW q \in Requests, Http!Send(q) \/ Http!Progress(q) PROVE Moved
  BY <1>1, <1>7, <1>8, <1>10, <1>11 DEF Http!Progress
<1>12. Moved
  BY <1>9, <1>11 DEF Http!Next
<1> QED
  BY <1>12 DEF Moved

(* A step of a send is a step of the loop of retryAction, or none.             *)
LEMMA LoopStep ==
    ASSUME Http!TypeOK, NEW r \in Requests, Forgotten(r), [Http!Next]_http
    PROVE  Forgotten(r)' /\ [Http!Loop(r)!Next]_(Http!Loop(r)!vars)
<1> USE DEF Forgotten, Attempting
<1>0. /\ attempt[r] \in Nat /\ at[r] \in Http!Points /\ MaxRetries \in Nat
      /\ (at[r] = "idle" => attempt[r] = 0 /\ lastError[r] = "none")
  BY DEF Http!TypeOK
<1>1. CASE UNCHANGED <<at[r], attempt[r], lastError[r]>>
  BY <1>0, <1>1 DEF Http!Loop!vars
<1>2. CASE at[r] \in Attempting /\ at'[r] \in Attempting /\ UNCHANGED <<attempt[r], lastError[r]>>
  BY <1>0, <1>2 DEF Http!Loop!vars
<1>3. CASE at[r] = "idle" /\ at'[r] \in Attempting /\ UNCHANGED <<attempt[r], lastError[r]>>
  BY <1>0, <1>3 DEF Http!Loop!Next, Http!Loop!Start
<1>4. CASE /\ at[r] \in Attempting /\ at'[r] = "asking"
           /\ lastError'[r] \in Http!Errors /\ UNCHANGED attempt[r]
  BY <1>0, <1>4 DEF Http!Loop!Next, Http!Loop!Progress, Http!Loop!ActionThrows
<1>5. CASE at[r] = "asking" /\ at'[r] = "delaying" /\ UNCHANGED <<attempt[r], lastError[r]>>
  BY <1>0, <1>5 DEF Http!Loop!Next, Http!Loop!Progress, Http!Loop!CanRetry
<1>6. CASE /\ at[r] = "delaying" /\ attempt[r] < MaxRetries /\ at'[r] \in Attempting
           /\ attempt'[r] = attempt[r] + 1 /\ UNCHANGED lastError[r]
  BY <1>0, <1>6 DEF Http!Loop!Next, Http!Loop!Progress, Http!Loop!DelayElapsed, Http!Loop!Retries
<1>7. CASE /\ \/ at[r] \in {"receiving", "asking"}
              \/ at[r] = "delaying" /\ attempt[r] >= MaxRetries
           /\ at'[r] = "idle" /\ attempt'[r] = 0 /\ lastError'[r] = "none"
  BY <1>0, <1>7 DEF Http!Loop!Next, Http!Loop!Progress, Http!Loop!ActionReturns,
     Http!Loop!CannotRetry, Http!Loop!DelayElapsed, Http!Loop!Retries, Http!Loop!Settle
<1> QED
  BY <1>1, <1>2, <1>3, <1>4, <1>5, <1>6, <1>7, SendMoves

(* The fetches and the requests of the users are runs of retryAction, whatever    *)
(* the number of retries, and however they overlap.                            *)
THEOREM SendsRetry == Spec => SendsAreRetried
<1> DEFINE AllForgotten == \A r \in Requests : Forgotten(r)
           Loops == \A r \in Requests : [Http!Loop(r)!Next]_(Http!Loop(r)!vars)
<1>1. Init => AllForgotten /\ \A r \in Requests : Http!Loop(r)!Init
  BY DEF Init, Http!Init, Forgotten, Http!Loop!Init
<1>2. IInv /\ AllForgotten /\ [Next]_vars => AllForgotten' /\ [Loops]_(Http!vars)
  <2> SUFFICES ASSUME IInv, AllForgotten, [Next]_vars PROVE AllForgotten' /\ Loops
    OBVIOUS
  <2> QED
    BY UserStep, LoopStep DEF IInv, TypeOK
<1> QED
  BY <1>1, <1>2, InitInv, Step, PTL DEF Spec, SendsAreRetried, Http!SendsAreRetried

-----------------------------------------------------------------------------
USE LifetimeAssumption, LatencyAssumption, TimeoutAssumption

(* The delay before a refresh falls within the time the token is accepted,   *)
(* for every expires_in; from six seconds on it is ahead of the expiry by the *)
(* offset.  The lower bound of scheduleRefresh, Math.max(1, ...), is never    *)
(* needed.                                                                  *)
THEOREM DelayWithinLifetime ==
    ASSUME NEW e \in Nat \ {0}
    PROVE  /\ Delay(e) \in 1 .. ExpiresAt(e)
           /\ Delay(e) = e - 2 * Offset(e)
           /\ e > 5 => Delay(e) < ExpiresAt(e)
<1>1. \/ e <= 5 /\ Offset(e) = 0
      \/ e \in 6 .. 20 /\ Offset(e) = 1
      \/ e \in 21 .. 60 /\ Offset(e) = 5
      \/ e \in 61 .. 300 /\ Offset(e) = 30
      \/ e > 300 /\ Offset(e) = 60
  <2>1. CASE e <= 5
    BY <2>1 DEF Offset
  <2>2. CASE e \in 6 .. 20
    BY <2>2 DEF Offset
  <2>3. CASE e \in 21 .. 60
    BY <2>3 DEF Offset
  <2>4. CASE e \in 61 .. 300
    BY <2>4 DEF Offset
  <2>5. CASE e > 300
    BY <2>5 DEF Offset
  <2> QED
    BY <2>1, <2>2, <2>3, <2>4, <2>5
<1> QED
  BY <1>1 DEF Delay, ExpiresAt

LEMMA OffsetIsNatural == ASSUME NEW e \in Nat \ {0} PROVE Offset(e) \in Nat
  BY DEF Offset

LEMMA TimeoutIsBounded ==
    ASSUME NEW e \in Nat \ {0}
    PROVE  Timeout(Delay(e)) \in Nat /\ Timeout(Delay(e)) <= Delay(e)
<1>1. Delay(e) \in Nat \ {0}
  BY DelayWithinLifetime, OffsetIsNatural DEF ExpiresAt
<1> QED
  BY <1>1 DEF Timeout

(* The timeout elapses when the token is at most as old as its delay and the  *)
(* time it took to come, and there is none while a token is asked for.       *)
TimerInv ==
    /\ TLTypeOK
    /\ timer # NoTimer => age + timer <= MaxLatency + Delay(expiresIn)
    /\ waiting # NotWaiting => timer = NoTimer

LEMMA TimerStep == TimerInv /\ [TLNext]_tlVars => TimerInv'
<1> SUFFICES ASSUME TimerInv, [TLNext]_tlVars PROVE TimerInv'
  OBVIOUS
<1> USE DEF TimerInv, TLTypeOK, NoTimer, NotWaiting
<1>0. Delay(expiresIn) \in Nat
  BY DelayWithinLifetime, OffsetIsNatural DEF ExpiresAt
<1>1. CASE TimerRenews \/ TimerIdle \/ RenewOnDemand \/ Refused
  BY <1>1 DEF TimerRenews, TimerIdle, RenewOnDemand, Refused
<1>2. CASE Renewed
  <2>1. PICK e \in Lifetimes, s \in 0 .. waiting : Stored(e, s)
    BY <1>2 DEF Renewed
  <2>2. s \in 0 .. MaxLatency
    BY <1>2 DEF Renewed
  <2>3. Delay(e) \in Nat
    BY DelayWithinLifetime, OffsetIsNatural DEF ExpiresAt
  <2> QED
    BY <2>1, <2>2, <2>3, TimeoutIsBounded DEF Stored
<1>5. CASE RenewedUndated
  <2>1. PICK s \in 0 .. waiting : Undated(s)
    BY <1>5 DEF RenewedUndated
  <2>2. timer = NoTimer /\ s \in Nat
    BY <1>5 DEF RenewedUndated
  <2> QED
    BY <2>1, <2>2 DEF Undated
<1>3. CASE Tick
  BY <1>0, <1>3 DEF Tick
<1>4. CASE UNCHANGED tlVars
  BY <1>4 DEF tlVars
<1> QED
  BY <1>1, <1>2, <1>3, <1>4, <1>5 DEF TLNext

LEMMA TimerInvariant == TLSpec => []TimerInv
<1>1. TLInit => TimerInv
  <2> SUFFICES ASSUME TLInit PROVE TimerInv
    OBVIOUS
  <2>1. Delay(expiresIn) \in Nat /\ expiresIn \in Nat \ {0}
    BY DelayWithinLifetime, OffsetIsNatural DEF TLInit, ExpiresAt
  <2> QED
    BY <2>1, TimeoutIsBounded DEF TLInit, TimerInv, TLTypeOK, NoTimer, NotWaiting
<1> QED
  BY <1>1, TimerStep, PTL DEF TLSpec

(* The renewals the timer starts are over before the token they replace      *)
(* expires, whenever its offset is over twice the longest latency.           *)
THEOREM EagerRenewal == TLSpec => RenewalIsEager
<1> DEFINE Eager == TimerRenews /\ 2 * MaxLatency < Offset(expiresIn) =>
                        age + MaxLatency < ExpiresAt(expiresIn)
<1>1. TimerInv => [Eager]_tlVars
  <2> SUFFICES ASSUME TimerInv, TimerRenews, 2 * MaxLatency < Offset(expiresIn)
               PROVE  age + MaxLatency < ExpiresAt(expiresIn)
    OBVIOUS
  <2>1. expiresIn \in Nat \ {0} /\ age \in Nat
    BY DEF TimerInv, TLTypeOK
  <2>2. age <= MaxLatency + Delay(expiresIn)
    BY <2>1 DEF TimerInv, TimerRenews, NoTimer
  <2>3. Delay(expiresIn) = expiresIn - 2 * Offset(expiresIn)
    BY <2>1, DelayWithinLifetime
  <2> QED
    BY <2>1, <2>2, <2>3, OffsetIsNatural DEF ExpiresAt
<1> QED
  BY <1>1, TimerInvariant, PTL DEF RenewalIsEager
=============================================================================
