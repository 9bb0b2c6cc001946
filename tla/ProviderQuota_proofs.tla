------------------------ MODULE ProviderQuota_proofs ------------------------
(***************************************************************************)
(* Theorems about the quota of one account by provider and email, for every *)
(* number of requests, files, rewrites and endpoints: the requests use the  *)
(* cache as QuotaCache describes it; an answer is never older than the file *)
(* it was matched by; and the verdicts agree with the files that were read. *)
(***************************************************************************)
EXTENDS ProviderQuota, QuotaCache_proofs

(***************************************************************************)
(* The inductive invariant.  What a query of key k has read was read after  *)
(* the version of k was the one in the file: the key is made of what was    *)
(* read, and versions only grow.                                            *)
(***************************************************************************)
Own(k, q) == \A v \in q.from : k[2] <= v /\ v <= content[k[1]]

\* An answer without groups comes from the last of the endpoints.
Settled(q) == q.form = "empty" => q.asked = NEndpoints

Found(c) == {k \in scanned[c] : Belongs(c, k)}

ContentBound == \A d \in Creds : content[d] <= rewrites

MatchesSound ==
    \A c \in Callers :
        /\ match[c] # None => match[c][2] <= content[match[c][1]]
        /\ at[c] = "cache" => match[c] # None /\ ask[c] = match[c]
        /\ pc[c] # "idle" => at[c] = "cache"

QueriesSound ==
    \A c \in Callers :
        /\ at[c] = "cache" => Own(match[c], query[c])
        /\ at[c] # "cache" => query[c] = NoQuery
        /\ query[c].stage = "subscription" => Settled(query[c])
        /\ at[c] = "cache" /\ pc[c] = "idle" /\ joined[c] = 0 => Settled(query[c])

ValuesSound ==
    \A f \in Flights :
        /\ f <= nflights => Own(flight[f].key, value[f])
        /\ f > nflights => value[f] = NoQuery
        /\ Settled(value[f])

ScansSound ==
    \A c \in Callers :
        /\ at[c] # "idle" => /\ verdict[c] = "none"
                             /\ Found(c) = IF match[c] = None THEN {} ELSE {match[c]}
                             /\ \A k \in scanned[c] : k[1] \notin todo[c]
        /\ at[c] = "cache" => todo[c] = {}
        /\ verdict[c] = "404" => Found(c) = {}
        /\ verdict[c] = "409" => \E k, l \in Found(c) : k # l

ProviderInv ==
    /\ IInv
    /\ ProviderTypeOK
    /\ ContentBound
    /\ MatchesSound
    /\ QueriesSound
    /\ ValuesSound
    /\ ScansSound

-----------------------------------------------------------------------------
LEMMA NoQueryIsQuery == NoQuery \in Query /\ Failed \in Query
  BY ProviderBounds DEF NoQuery, Failed, Query, Forms

LEMMA KeyOfFile ==
    ASSUME NEW k \in Keys
    PROVE  k[1] \in Creds /\ k[2] \in Versions /\ k = <<k[1], k[2]>>
  BY KeysOfFiles

LEMMA InitProviderInv == InitProvider => ProviderInv
  <1> SUFFICES ASSUME InitProvider PROVE ProviderInv
    OBVIOUS
  <1>1. IInv
    BY InitIInv DEF InitProvider
  <1>2. ProviderTypeOK
    BY NoQueryIsQuery, ProviderBounds DEF InitProvider, ProviderTypeOK, Versions
  <1>3. ContentBound /\ MatchesSound
    BY DEF InitProvider, Init, ContentBound, MatchesSound
  <1>4. QueriesSound /\ ValuesSound
    BY DEF InitProvider, Init, QueriesSound, ValuesSound, NoQuery, Own, Settled
  <1>5. ScansSound
    BY DEF InitProvider, ScansSound, Found
  <1>6. QED
    BY <1>1, <1>2, <1>3, <1>4, <1>5 DEF ProviderInv

-----------------------------------------------------------------------------
\* Every step is a step of the cache, or leaves it alone.
LEMMA OutcomesOf == \A q : OutcomeOf(q) \in Outcomes
  BY DEF OutcomeOf, Outcomes

LEMMA ReturnsIsStep ==
    ASSUME NEW c \in Callers, NEW q, Returns(c, q)
    PROVE  Next
  BY OutcomesOf DEF Returns, Next, Step

LEMMA ProviderStepIsCacheStep ==
    ASSUME ProviderInv, [NextProvider]_provVars
    PROVE  [Next]_vars
  <1>1. ASSUME NEW c \in Callers, Scan(c) PROVE [Next]_vars
    <2>1. CASE AskCache(c)
      <3>1. match[c] \in Keys
        BY <2>1 DEF AskCache, ProviderInv, ProviderTypeOK
      <3>2. QED
        BY <2>1, <3>1 DEF AskCache, CacheKey, Next, Step
    <2>2. CASE ListAuths(c) \/ ReadAuth(c) \/ EndScan(c)
      BY <2>2 DEF ListAuths, ReadAuth, EndScan
    <2>3. QED
      BY <1>1, <2>1, <2>2 DEF Scan
  <1>2. ASSUME NEW c \in Callers, CacheStep(c) PROVE Next
    BY <1>2 DEF CacheStep, Next, Step
  <1>3. ASSUME NEW c \in Callers, QueryStep(c) PROVE [Next]_vars
    <2>1. ASSUME NEW q, Continues(c, q) PROVE UNCHANGED vars
      BY <2>1 DEF Continues
    <2>2. QED
      BY <1>3, <2>1, ReturnsIsStep
         DEF QueryStep, AskUsage, AskSubscription, NoProject, AskEndpoint, SettleEndpoints, AskNative
  <1>4. ASSUME NEW d \in Creds, Rewrite(d) PROVE UNCHANGED vars
    BY <1>4 DEF Rewrite
  <1>5. CASE Pass
    BY <1>5 DEF Pass, Next
  <1>6. CASE UNCHANGED provVars
    BY <1>6 DEF provVars
  <1>7. QED
    BY <1>1, <1>2, <1>3, <1>4, <1>5, <1>6 DEF NextProvider

-----------------------------------------------------------------------------
\* A rewrite only raises the version of a file.
LEMMA RewriteInv ==
    ASSUME ProviderInv, IInv', NEW d \in Creds, Rewrite(d)
    PROVE  ProviderInv'
  <1> USE DEF ProviderInv
  <1>1. /\ UNCHANGED <<vars, managed, request, query, value>>
        /\ rewrites' \in Versions
        /\ content' \in [Creds -> Versions]
        /\ \A e \in Creds : content[e] <= content'[e] /\ content'[e] <= rewrites'
    <2>1. rewrites \in Nat /\ \A e \in Creds : content[e] \in Nat /\ content[e] <= rewrites
      BY ProviderBounds DEF ProviderTypeOK, Versions, ContentBound
    <2>2. rewrites' = rewrites + 1 /\ rewrites' <= MaxRewrites
      BY <2>1, ProviderBounds DEF Rewrite
    <2>3. QED
      BY <2>1, <2>2, ProviderBounds DEF Rewrite, ProviderTypeOK, Versions
  <1>2. \A k \in Keys, q \in Query : Own(k, q) => Own(k, q)'
    <2> SUFFICES ASSUME NEW k \in Keys, NEW q \in Query, Own(k, q), NEW v \in q.from
                 PROVE  k[2] <= v /\ v <= content'[k[1]]
      BY DEF Own
    <2>1. k[1] \in Creds /\ v \in Versions
      BY KeyOfFile DEF Query
    <2>2. /\ content[k[1]] \in Nat /\ content'[k[1]] \in Nat /\ v \in Nat
          /\ content[k[1]] <= content'[k[1]]
      BY <1>1, <2>1 DEF ProviderTypeOK, Versions
    <2>3. QED
      BY <2>2 DEF Own
  <1>3. ProviderTypeOK' /\ ContentBound'
    BY <1>1 DEF ProviderTypeOK, ContentBound, request
  <1>4. MatchesSound'
    <2> SUFFICES ASSUME NEW c \in Callers, match[c] # None
                 PROVE  match[c][2] <= content'[match[c][1]]
      BY <1>1 DEF MatchesSound, request, vars, call
    <2>1. match[c] \in Keys
      BY DEF ProviderTypeOK
    <2>2. match[c][1] \in Creds /\ match[c][2] \in Nat
      BY <2>1, KeyOfFile DEF Versions
    <2>3. content[match[c][1]] \in Nat /\ content'[match[c][1]] \in Nat
      BY <1>1, <2>2 DEF ProviderTypeOK, Versions
    <2>4. QED
      BY <1>1, <2>2, <2>3 DEF MatchesSound
  <1>5. QueriesSound'
    <2>1. \A c \in Callers : at[c] = "cache" => match[c] \in Keys
      BY DEF MatchesSound, ProviderTypeOK
    <2>2. QED
      BY <1>1, <1>2, <2>1 DEF QueriesSound, Settled, request, vars, call, ProviderTypeOK
  <1>6. ValuesSound'
    <2>1. \A f \in Flights : f <= nflights => flight[f].key \in Keys
      BY DEF IInv, FlightsNumbered
    <2>2. QED
      BY <1>1, <1>2, <2>1 DEF ValuesSound, Settled, vars, cache, ProviderTypeOK
  <1>7. ScansSound'
    BY <1>1 DEF ScansSound, Found, Belongs, request
  <1>8. QED
    BY <1>3, <1>4, <1>5, <1>6, <1>7

\* The listing: the request starts anew.
LEMMA ListInv ==
    ASSUME ProviderInv, IInv', NEW c \in Callers, ListAuths(c)
    PROVE  ProviderInv'
  <1> USE DEF ProviderInv
  <1>1. /\ UNCHANGED <<vars, files, value>>
        /\ match' = [match EXCEPT ![c] = None]
        /\ scanned' = [scanned EXCEPT ![c] = {}]
        /\ query' = [query EXCEPT ![c] = NoQuery]
    BY DEF ListAuths
  <1>2. /\ \E s \in {"idle", "scan"} : at' = [at EXCEPT ![c] = s]
        /\ \E v \in {"none", "502"} : verdict' = [verdict EXCEPT ![c] = v]
        /\ at'[c] = "scan" => verdict'[c] = "none"
        /\ \E t \in SUBSET Creds : todo' = [todo EXCEPT ![c] = t] \/ todo' = todo
        /\ \E n \in SUBSET Creds : named' = [named EXCEPT ![c] = n] \/ named' = named
    <2>1. CASE End(c, "502") /\ UNCHANGED <<todo, named>>
      BY <2>1 DEF End, ProviderTypeOK
    <2>2. CASE ~(End(c, "502") /\ UNCHANGED <<todo, named>>)
      <3>1. PICK p \in Providers, l \in Listings :
                /\ todo' = [todo EXCEPT ![c] = Candidates(p, l)]
                /\ named' = [named EXCEPT ![c] = {d \in Creds : l[d] = "named"}]
                /\ at' = [at EXCEPT ![c] = "scan"]
                /\ verdict' = [verdict EXCEPT ![c] = "none"]
        BY <2>2 DEF ListAuths
      <3>2. Candidates(p, l) \in SUBSET Creds /\ {d \in Creds : l[d] = "named"} \in SUBSET Creds
        BY DEF Candidates
      <3>3. QED
        BY <3>1, <3>2 DEF ProviderTypeOK
    <2>3. QED
      BY <2>1, <2>2
  <1>3. todo' \in [Callers -> SUBSET Creds] /\ named' \in [Callers -> SUBSET Creds]
    BY <1>2 DEF ProviderTypeOK
  <1>4. \A d \in Callers : d # c => /\ at'[d] = at[d] /\ verdict'[d] = verdict[d]
                                    /\ todo'[d] = todo[d] /\ named'[d] = named[d]
    BY <1>2 DEF ProviderTypeOK
  <1>5. at' \in [Callers -> {"idle", "scan", "cache"}]
    BY <1>2 DEF ProviderTypeOK
  <1>6. verdict' \in [Callers -> {"none", "404", "409", "502", "503"}]
    BY <1>2 DEF ProviderTypeOK
  <1>7. ProviderTypeOK' /\ ContentBound'
    BY <1>1, <1>3, <1>5, <1>6, NoQueryIsQuery DEF ProviderTypeOK, ContentBound, files
  <1>8. pc[c] = "idle" /\ at'[c] # "cache"
    BY <1>2 DEF ListAuths, Over, MatchesSound, ProviderTypeOK
  <1>9. MatchesSound'
    BY <1>1, <1>4, <1>8 DEF MatchesSound, ProviderTypeOK, files, vars, call
  <1>10. QueriesSound' /\ ValuesSound'
    BY <1>1, <1>4, <1>8 DEF QueriesSound, ValuesSound, Own, Settled, NoQuery, ProviderTypeOK, files, vars, cache, call
  <1>11. ScansSound'
    <2>1. \A d \in Callers : d # c => Found(d)' = Found(d)
      BY <1>1, <1>4 DEF Found, Belongs, ProviderTypeOK
    <2>2. Found(c)' = {}
      BY <1>1 DEF Found, ProviderTypeOK
    <2>3. verdict'[c] \in {"none", "502"}
      BY <1>2 DEF ProviderTypeOK
    <2>4. QED
      BY <1>1, <1>2, <1>4, <1>8, <2>1, <2>2, <2>3 DEF ScansSound, ProviderTypeOK
  <1>12. QED
    BY <1>7, <1>9, <1>10, <1>11

\* A file is read: it is none of those that were read before.
LEMMA ReadAuthInv ==
    ASSUME ProviderInv, IInv', NEW c \in Callers, ReadAuth(c)
    PROVE  ProviderInv'
  <1> USE DEF ProviderInv
  <1>0. PICK d \in todo[c] :
            /\ todo' = [todo EXCEPT ![c] = @ \ {d}]
            /\ \/ /\ scanned' = [scanned EXCEPT ![c] = @ \union {<<d, content[d]>>}]
                  /\ Matched(c, <<d, content[d]>>)
               \/ End(c, "502") /\ UNCHANGED <<match, scanned>>
    BY DEF ReadAuth
  <1> DEFINE k == <<d, content[d]>>
  <1>1. /\ UNCHANGED <<vars, files, named, query, value>>
        /\ at[c] = "scan"
        /\ d \in Creds
        /\ k \in Keys
        /\ pc[c] = "idle"
    BY KeysOfFiles DEF ReadAuth, ProviderTypeOK, MatchesSound
  <1>2. /\ at' \in [Callers -> {"idle", "scan", "cache"}]
        /\ verdict' \in [Callers -> {"none", "404", "409", "502", "503"}]
        /\ match' \in [Callers -> Keys \union {None}]
        /\ scanned' \in [Callers -> SUBSET Keys]
        /\ todo' \in [Callers -> SUBSET Creds]
        /\ \A e \in Callers : e # c => /\ at'[e] = at[e] /\ verdict'[e] = verdict[e]
                                       /\ todo'[e] = todo[e] /\ match'[e] = match[e]
                                       /\ scanned'[e] = scanned[e]
        /\ at'[c] # "cache"
        /\ todo'[c] = todo[c] \ {d}
    <2>1. CASE End(c, "502") /\ UNCHANGED <<match, scanned>>
      BY <1>0, <1>1, <2>1 DEF End, ProviderTypeOK
    <2>2. CASE ~(End(c, "502") /\ UNCHANGED <<match, scanned>>)
      <3>1. /\ scanned' = [scanned EXCEPT ![c] = @ \union {k}]
            /\ Matched(c, k)
        BY <1>0, <2>2
      <3>2. scanned[c] \union {k} \in SUBSET Keys
        BY <1>1 DEF ProviderTypeOK
      <3>3. \/ UNCHANGED <<match, at, verdict>>
            \/ match' = [match EXCEPT ![c] = k] /\ UNCHANGED <<at, verdict>>
            \/ End(c, "409") /\ UNCHANGED match
        BY <3>1 DEF Matched
      <3>4. QED
        BY <1>0, <1>1, <3>1, <3>2, <3>3 DEF End, ProviderTypeOK
    <2>3. QED
      BY <2>1, <2>2
  <1>3. ProviderTypeOK' /\ ContentBound'
    BY <1>1, <1>2 DEF ProviderTypeOK, ContentBound, files
  <1>4. match'[c] = match[c] \/ match'[c] = k
    BY <1>0 DEF Matched, End, ProviderTypeOK
  <1>5. MatchesSound'
    <2>1. k[2] <= content[k[1]]
      BY <1>1, ProviderBounds DEF ProviderTypeOK, Versions
    <2>2. match'[c] # None => match'[c][2] <= content[match'[c][1]]
      BY <1>4, <2>1 DEF MatchesSound
    <2>3. QED
      BY <1>1, <1>2, <2>2 DEF MatchesSound, files, vars, call
  <1>6. QueriesSound' /\ ValuesSound'
    BY <1>1, <1>2 DEF QueriesSound, ValuesSound, Own, Settled, files, vars, cache, call
  <1>7. ScansSound'
    <2>1. \A e \in Callers : e # c => Found(e)' = Found(e)
      BY <1>1, <1>2 DEF Found, Belongs
    <2>2. /\ Found(c) = IF match[c] = None THEN {} ELSE {match[c]}
          /\ \A l \in scanned[c] : l[1] \notin todo[c]
          /\ verdict[c] = "none"
      BY <1>1 DEF ScansSound
    <2>3. CASE End(c, "502") /\ UNCHANGED <<match, scanned>>
      <3>1. verdict'[c] = "502" /\ at'[c] = "idle"
        BY <2>3 DEF End, ProviderTypeOK
      <3>2. QED
        BY <1>2, <2>1, <3>1 DEF ScansSound
    <2>4. CASE ~(End(c, "502") /\ UNCHANGED <<match, scanned>>)
      <3>1. /\ scanned'[c] = scanned[c] \union {k}
            /\ Matched(c, k)
        BY <1>0, <2>4 DEF ProviderTypeOK
      <3>2. /\ k \notin scanned[c]
            /\ \A l \in scanned'[c] : l[1] \notin todo'[c]
        BY <1>2, <2>2, <3>1
      <3>3. Found(c)' = Found(c) \union (IF Belongs(c, k) THEN {k} ELSE {})
        BY <1>1, <3>1 DEF Found, Belongs
      <3>4. CASE ~Belongs(c, k)
        <4>1. UNCHANGED <<match, at, verdict>>
          BY <3>1, <3>4 DEF Matched
        <4>2. QED
          BY <1>1, <1>2, <2>1, <2>2, <3>2, <3>3, <3>4, <4>1 DEF ScansSound
      <3>5. CASE Belongs(c, k) /\ match[c] = None
        <4>1. match'[c] = k /\ UNCHANGED <<at, verdict>>
          BY <3>1, <3>5 DEF Matched, ProviderTypeOK
        <4>2. Found(c)' = {k} /\ k # None
          BY <1>1, <2>2, <3>3, <3>5, NoneIsNoKey
        <4>3. QED
          BY <1>1, <1>2, <2>1, <2>2, <3>2, <4>1, <4>2 DEF ScansSound
      <3>6. CASE Belongs(c, k) /\ match[c] # None
        <4>1. verdict'[c] = "409" /\ at'[c] = "idle"
          BY <3>1, <3>6 DEF Matched, End, ProviderTypeOK
        <4>2. match[c] \in Found(c)' /\ k \in Found(c)' /\ match[c] # k
          BY <2>2, <3>2, <3>3, <3>6 DEF Found
        <4>3. QED
          BY <1>2, <2>1, <4>1, <4>2 DEF ScansSound
      <3>7. QED
        BY <3>4, <3>5, <3>6
    <2>5. QED
      BY <2>3, <2>4
  <1>8. QED
    BY <1>3, <1>5, <1>6, <1>7

\* The walk ends without a query.
LEMMA EndScanInv ==
    ASSUME ProviderInv, IInv', NEW c \in Callers, EndScan(c)
    PROVE  ProviderInv'
  <1> USE DEF ProviderInv
  <1>1. /\ UNCHANGED <<vars, files, todo, named, match, scanned, query, value>>
        /\ at[c] = "scan"
        /\ at' = [at EXCEPT ![c] = "idle"]
        /\ \E v \in {"404", "503"} :
              /\ verdict' = [verdict EXCEPT ![c] = v]
              /\ v = "404" => match[c] = None
    BY DEF EndScan, End
  <1>2. ProviderTypeOK' /\ ContentBound'
    BY <1>1 DEF ProviderTypeOK, ContentBound, files
  <1>3. MatchesSound' /\ QueriesSound' /\ ValuesSound'
    BY <1>1 DEF MatchesSound, QueriesSound, ValuesSound, Own, Settled, ProviderTypeOK, files,
                vars, cache, call
  <1>4. ScansSound'
    <2>1. \A e \in Callers : Found(e)' = Found(e)
      BY <1>1 DEF Found, Belongs
    <2>2. QED
      BY <1>1, <2>1 DEF ScansSound, ProviderTypeOK
  <1>5. QED
    BY <1>2, <1>3, <1>4

\* The request asks the cache, with the key of what it has read.
LEMMA AskCacheInv ==
    ASSUME ProviderInv, IInv', NEW c \in Callers, AskCache(c)
    PROVE  ProviderInv'
  <1> USE DEF ProviderInv
  <1>1. /\ UNCHANGED <<cache, stale, files, verdict, todo, named, match, scanned, query, value>>
        /\ at[c] = "scan" /\ todo[c] = {} /\ match[c] # None
        /\ at' = [at EXCEPT ![c] = "cache"]
        /\ pc' = [pc EXCEPT ![c] = "lookup"]
        /\ ask' = [ask EXCEPT ![c] = match[c]]
        /\ joined' = [joined EXCEPT ![c] = 0]
    BY DEF AskCache, Begin, CacheKey
  <1>2. ProviderTypeOK' /\ ContentBound'
    BY <1>1 DEF ProviderTypeOK, ContentBound, files
  <1>3. MatchesSound'
    BY <1>1 DEF MatchesSound, ProviderTypeOK, IInv, TypeOK, files
  <1>4. QueriesSound'
    <2>1. query[c] = NoQuery
      BY <1>1 DEF QueriesSound
    <2>2. QED
      BY <1>1, <2>1 DEF QueriesSound, Own, Settled, NoQuery, ProviderTypeOK, IInv, TypeOK, files
  <1>5. ValuesSound'
    BY <1>1 DEF ValuesSound, Own, Settled, files, cache
  <1>6. ScansSound'
    <2>1. \A e \in Callers : Found(e)' = Found(e)
      BY <1>1 DEF Found, Belongs
    <2>2. QED
      BY <1>1, <2>1 DEF ScansSound, ProviderTypeOK
  <1>7. QED
    BY <1>2, <1>3, <1>4, <1>5, <1>6

\* The steps of get: flights keep their keys, and whoever ends in the cache
\* has joined a flight.
LEMMA CacheStepInv ==
    ASSUME ProviderInv, IInv', NEW c \in Callers, CacheStep(c)
    PROVE  ProviderInv'
  <1> USE DEF ProviderInv
  <1>1. /\ UNCHANGED <<stale, ask, files, request, query, value>>
        /\ Hit(c) \/ Join(c) \/ Lead(c) \/ Publish(c) \/ Wake(c)
    BY DEF CacheStep, Hit, Join, Lead, Publish, Wake
  <1>2. \A d \in Callers : d # c => pc'[d] = pc[d] /\ joined'[d] = joined[d]
    BY <1>1 DEF Hit, Join, Lead, Publish, Wake, IInv, TypeOK
  <1>3. /\ pc[c] # "idle"
        /\ pc'[c] = "idle" => joined'[c] # 0
    <2>1. CASE Hit(c)
      <3>1. ask[c] \in Keys /\ entries[ask[c]] # NoEntry
        BY <2>1 DEF Hit, IInv, CallsSound, Live, NoEntry, TypeOK
      <3>2. QED
        BY <2>1, <3>1, CacheBounds DEF Hit, IInv, TypeOK, EntriesSound, Flights
    <2>2. CASE Join(c) \/ Lead(c)
      BY <2>2 DEF Join, Lead, IInv, TypeOK
    <2>3. CASE Publish(c) \/ Wake(c)
      BY <2>3, CacheBounds DEF Publish, Wake, IInv, TypeOK, LeadersSound, Leads, FollowersSound, Flights
    <2>4. QED
      BY <1>1, <2>1, <2>2, <2>3
  <1>4. \A f \in Flights : \/ /\ f <= nflights <=> f <= nflights'
                              /\ f <= nflights => flight'[f].key = flight[f].key
                           \/ f > nflights
    <2>1. CASE Hit(c) \/ Join(c) \/ Wake(c)
      BY <2>1 DEF Hit, Join, Wake, cache
    <2>2. CASE Lead(c)
      BY <2>2, CacheBounds DEF Lead, IInv, TypeOK, Flights
    <2>3. CASE Publish(c)
      <3>1. joined[c] \in Flights /\ flight[joined[c]] \in FlightRec
        BY <2>3, NoneIsNoKey DEF Publish, IInv, LeadersSound, Leads, TypeOK, CallsSound, NoFlight
      <3>2. QED
        BY <2>3, <3>1 DEF Publish, Close, IInv, TypeOK, FlightRec
    <2>4. QED
      BY <1>1, <2>1, <2>2, <2>3
  <1>5. nflights' \in Nat /\ nflights \in Nat /\ nflights <= nflights'
    BY <1>1, CacheBounds DEF Hit, Join, Lead, Publish, Wake, cache, IInv, TypeOK
  <1>6. ProviderTypeOK' /\ ContentBound'
    BY <1>1 DEF ProviderTypeOK, ContentBound, files, request
  <1>7. MatchesSound'
    BY <1>1, <1>2, <1>3 DEF MatchesSound, files, request
  <1>8. QueriesSound'
    BY <1>1, <1>2, <1>3 DEF QueriesSound, Own, Settled, files, request
  <1>9. ValuesSound'
    <2> SUFFICES ASSUME NEW f \in Flights
                 PROVE  /\ f <= nflights' => Own(flight[f].key, value[f])'
                        /\ f > nflights' => value[f] = NoQuery
                        /\ Settled(value[f])
      BY <1>1 DEF ValuesSound, Settled
    <2>1. f \in Nat
      BY CacheBounds DEF Flights
    <2>2. Settled(value[f]) /\ (f > nflights => value[f] = NoQuery)
      BY DEF ValuesSound
    <2>3. f > nflights => Own(flight[f].key, value[f])'
      BY <1>1, <2>2 DEF Own, NoQuery
    <2>4. f <= nflights => Own(flight[f].key, value[f])'
      BY <1>1, <1>4, <2>1, <1>5 DEF Own, ValuesSound, files
    <2>5. QED
      BY <1>5, <2>1, <2>2, <2>3, <2>4
  <1>10. ScansSound'
    BY <1>1 DEF ScansSound, Found, Belongs, request
  <1>11. QED
    BY <1>6, <1>7, <1>8, <1>9, <1>10

\* A query goes on with what it may hold.
LEMMA ContinuesInv ==
    ASSUME ProviderInv, IInv', NEW c \in Callers, NEW q \in Query, Continues(c, q),
           at[c] = "cache", pc[c] # "idle", Own(match[c], q),
           q.stage = "subscription" => Settled(q)
    PROVE  ProviderInv'
  <1> USE DEF ProviderInv
  <1>1. query' = [query EXCEPT ![c] = q] /\ UNCHANGED <<vars, files, request, value>>
    BY DEF Continues
  <1>2. ProviderTypeOK' /\ ContentBound'
    BY <1>1 DEF ProviderTypeOK, ContentBound, files, request
  <1>3. MatchesSound' /\ ValuesSound'
    BY <1>1 DEF MatchesSound, ValuesSound, Own, Settled, files, request, vars, cache, call
  <1>4. QueriesSound'
    BY <1>1 DEF QueriesSound, Own, Settled, ProviderTypeOK, files, request, vars, call
  <1>5. ScansSound'
    BY <1>1 DEF ScansSound, Found, Belongs, request
  <1>6. QED
    BY <1>2, <1>3, <1>4, <1>5

\* A load ends: what it found becomes the value of its flight, if it has one.
LEMMA ReturnsInv ==
    ASSUME ProviderInv, IInv', NEW c \in Callers, NEW q \in Query, Returns(c, q),
           at[c] = "cache", pc[c] # "idle", Own(match[c], q), Settled(q)
    PROVE  ProviderInv'
  <1> USE DEF ProviderInv
  <1>1. /\ query' = [query EXCEPT ![c] = q]
        /\ UNCHANGED <<now, cache, stale, ask, joined, files, request>>
        /\ \E s \in {"publish", "idle"} : pc' = [pc EXCEPT ![c] = s]
    BY DEF Returns, LoadReturns, LoadDirect
  <1>2. /\ value' \in [Flights -> Query]
        /\ \A f \in Flights : \/ value'[f] = value[f]
                              \/ value'[f] = q /\ f <= nflights /\ flight[f].key = match[c]
    <2>1. CASE pc[c] = "load"
      <3>1. /\ joined[c] \in Flights
            /\ joined[c] <= nflights
            /\ flight[joined[c]].key = match[c]
        BY <2>1 DEF IInv, LeadersSound, Leads, MatchesSound
      <3>2. QED
        BY <2>1, <3>1 DEF Returns, ProviderTypeOK
    <2>2. CASE pc[c] # "load"
      BY <2>2 DEF Returns, ProviderTypeOK
    <2>3. QED
      BY <2>1, <2>2
  <1>3. ProviderTypeOK' /\ ContentBound'
    BY <1>1, <1>2 DEF ProviderTypeOK, ContentBound, files, request
  <1>4. MatchesSound'
    BY <1>1 DEF MatchesSound, IInv, TypeOK, files, request
  <1>5. QueriesSound'
    BY <1>1 DEF QueriesSound, Own, Settled, ProviderTypeOK, IInv, TypeOK, files, request
  <1>6. ValuesSound'
    <2> SUFFICES ASSUME NEW f \in Flights
                 PROVE  /\ f <= nflights => Own(flight[f].key, value'[f])
                        /\ f > nflights => value'[f] = NoQuery
                        /\ Settled(value'[f])
      BY <1>1 DEF ValuesSound, Own, Settled, files, cache
    <2>1. f \in Nat /\ nflights \in Nat
      BY CacheBounds DEF Flights, IInv, TypeOK
    <2>2. QED
      BY <1>2, <2>1 DEF ValuesSound
  <1>7. ScansSound'
    BY <1>1 DEF ScansSound, Found, Belongs, request
  <1>8. QED
    BY <1>3, <1>4, <1>5, <1>6, <1>7

\* Every step of a query goes on or returns with what it may hold: the token
\* of a call is never older than the version matched.
LEMMA QueryStepInv ==
    ASSUME ProviderInv, IInv', NEW c \in Callers, QueryStep(c)
    PROVE  ProviderInv'
  <1> USE DEF ProviderInv
  <1> DEFINE q == query[c]
  <1>1. /\ at[c] = "cache"
        /\ pc[c] # "idle"
        /\ match[c] \in Keys
        /\ q \in Query
        /\ Own(match[c], q)
        /\ q.stage = "subscription" => Settled(q)
    BY DEF QueryStep, AskUsage, AskSubscription, NoProject, AskEndpoint, SettleEndpoints, AskNative,
           Querying, MatchesSound, QueriesSound, ProviderTypeOK
  <1>2. Token(c) \in Versions /\ match[c][2] <= Token(c) /\ Token(c) <= content[match[c][1]]
    BY <1>1, KeyOfFile, ProviderBounds DEF Token, MatchesSound, ProviderTypeOK, Versions
  <1>3. Failed \in Query /\ Own(match[c], Failed) /\ Settled(Failed)
    BY NoQueryIsQuery DEF Failed, NoQuery, Own, Settled
  <1>4. CASE AskUsage(c)
    <2> DEFINE r == [q EXCEPT !.stage = "subscription", !.form = "groups", !.from = {Token(c)}]
    <2>1. r \in Query /\ Own(match[c], r) /\ Settled(r)
      BY <1>1, <1>2 DEF Query, Forms, Own, Settled
    <2>2. Continues(c, r) \/ Returns(c, Failed)
      BY <1>4 DEF AskUsage
    <2>3. QED
      BY <1>1, <1>3, <2>1, <2>2, ContinuesInv, ReturnsInv
  <1>5. CASE AskSubscription(c)
    <2> DEFINE r == [q EXCEPT !.from = @ \union {Token(c)}]
    <2>1. q.stage = "subscription"
      BY <1>5 DEF AskSubscription, Querying
    <2>2. r \in Query /\ Own(match[c], r) /\ Settled(r)
      BY <1>1, <1>2, <2>1 DEF Query, Own, Settled
    <2>3. Returns(c, r) \/ Returns(c, q)
      BY <1>5 DEF AskSubscription
    <2>4. QED
      BY <1>1, <2>1, <2>2, <2>3, ReturnsInv
  <1>6. CASE NoProject(c)
    BY <1>1, <1>3, <1>6, ReturnsInv DEF NoProject
  <1>7. CASE AskEndpoint(c)
    <2>1. q.asked + 1 \in 0 .. NEndpoints /\ q.stage = "quota"
      BY <1>1, <1>7, ProviderBounds DEF AskEndpoint, EndpointsLeft, Query, Querying
    <2>2. CASE Continues(c, [q EXCEPT !.asked = @ + 1])
      <3>1. [q EXCEPT !.asked = @ + 1] \in Query
        BY <1>1, <2>1 DEF Query
      <3>2. Own(match[c], [q EXCEPT !.asked = @ + 1])
        BY <1>1 DEF Own, Query
      <3>3. [q EXCEPT !.asked = @ + 1].stage = "quota"
        BY <1>1, <2>1 DEF Query
      <3>4. QED
        BY <1>1, <2>2, <3>1, <3>2, <3>3, ContinuesInv
    <2>3. CASE ~Continues(c, [q EXCEPT !.asked = @ + 1])
      <3>1. PICK form \in {"groups", "empty", "garbled"} :
                Continues(c, [stage |-> IF Enough(form) THEN "subscription" ELSE "quota",
                              asked |-> q.asked + 1, form |-> form, from |-> {Token(c)}])
        BY <1>7, <2>3 DEF AskEndpoint
      <3> DEFINE r == [stage |-> IF Enough(form) THEN "subscription" ELSE "quota",
                       asked |-> q.asked + 1, form |-> form, from |-> {Token(c)}]
      <3>2. r \in Query
        BY <1>2, <2>1 DEF Query, Forms
      <3>3. Own(match[c], r)
        BY <1>2 DEF Own
      <3>4. r.stage = "subscription" => Settled(r)
        BY DEF Enough, Settled
      <3>5. QED
        BY <1>1, <3>1, <3>2, <3>3, <3>4, ContinuesInv
    <2>4. QED
      BY <2>2, <2>3
  <1>8. CASE SettleEndpoints(c)
    <2>1. CASE q.form = "empty"
      <3> DEFINE r == [q EXCEPT !.stage = "subscription"]
      <3>1. Continues(c, r)
        BY <1>8, <2>1 DEF SettleEndpoints
      <3>2. r \in Query /\ Own(match[c], r)
        BY <1>1 DEF Query, Own
      <3>3. r.asked = NEndpoints
        BY <1>1, <1>8, ProviderBounds DEF SettleEndpoints, EndpointsLeft, Query
      <3>4. QED
        BY <1>1, <3>1, <3>2, <3>3, ContinuesInv DEF Settled
    <2>2. CASE q.form # "empty"
      BY <1>1, <1>3, <1>8, <2>2, ReturnsInv DEF SettleEndpoints
    <2>3. QED
      BY <2>1, <2>2
  <1>9. CASE AskNative(c)
    <2>1. CASE Returns(c, [q EXCEPT !.form = "groups", !.from = {Token(c)}])
      <3> DEFINE r == [q EXCEPT !.form = "groups", !.from = {Token(c)}]
      <3>1. r \in Query /\ Own(match[c], r) /\ Settled(r)
        BY <1>1, <1>2 DEF Query, Forms, Own, Settled
      <3>2. QED
        BY <1>1, <2>1, <3>1, ReturnsInv
    <2>2. CASE ~Returns(c, [q EXCEPT !.form = "groups", !.from = {Token(c)}])
      <3>1. PICK form \in {"refused", "failed", "unsupported"} :
                Returns(c, [q EXCEPT !.form = form])
        BY <1>9, <2>2 DEF AskNative
      <3> DEFINE r == [q EXCEPT !.form = form]
      <3>2. r \in Query /\ Own(match[c], r)
        BY <1>1 DEF Query, Forms, Own
      <3>3. Settled(r)
        BY <1>1 DEF Query, Settled
      <3>4. QED
        BY <1>1, <3>1, <3>2, <3>3, ReturnsInv
    <2>3. QED
      BY <2>1, <2>2
  <1>10. QED
    BY <1>4, <1>5, <1>6, <1>7, <1>8, <1>9 DEF QueryStep

LEMMA PassInv ==
    ASSUME ProviderInv, IInv', Pass \/ UNCHANGED provVars
    PROVE  ProviderInv'
  <1>1. UNCHANGED <<flight, nflights, pc, ask, joined, files, request, query, value>>
    BY DEF Pass, Tick, provVars, vars, cache, call
  <1>2. QED
    BY <1>1 DEF ProviderInv, ProviderTypeOK, ContentBound, MatchesSound, QueriesSound, ValuesSound,
                ScansSound, Own, Settled, Found, Belongs, files, request

\* Every behaviour satisfies the inductive invariant, for every number of
\* requests, files, rewrites and endpoints.
THEOREM ProviderInductive == SpecProvider => []ProviderInv
  <1>1. InitProvider => ProviderInv
    BY InitProviderInv
  <1>2. ProviderInv /\ [NextProvider]_provVars => ProviderInv'
    <2> SUFFICES ASSUME ProviderInv, [NextProvider]_provVars PROVE ProviderInv'
      OBVIOUS
    <2>0. IInv'
      BY ProviderStepIsCacheStep, StepIInv DEF ProviderInv
    <2>1. ASSUME NEW c \in Callers, Scan(c) PROVE ProviderInv'
      BY <2>0, <2>1, ListInv, ReadAuthInv, EndScanInv, AskCacheInv DEF Scan
    <2>2. ASSUME NEW c \in Callers, CacheStep(c) PROVE ProviderInv'
      BY <2>0, <2>2, CacheStepInv
    <2>3. ASSUME NEW c \in Callers, QueryStep(c) PROVE ProviderInv'
      BY <2>0, <2>3, QueryStepInv
    <2>4. ASSUME NEW d \in Creds, Rewrite(d) PROVE ProviderInv'
      BY <2>0, <2>4, RewriteInv
    <2>5. CASE Pass \/ UNCHANGED provVars
      BY <2>0, <2>5, PassInv
    <2>6. QED
      BY <2>1, <2>2, <2>3, <2>4, <2>5 DEF NextProvider
  <1>3. QED
    BY <1>1, <1>2, PTL DEF SpecProvider

\* The variables keep their types; no endpoint is asked that does not exist.
THEOREM ProviderTypes == SpecProvider => []ProviderTypeOK
  BY ProviderInductive, PTL DEF ProviderInv

\* Requests use the cache only through its operations: every behaviour of
\* theirs is a behaviour of the cache, with all that is proved of it.
THEOREM ProviderUsesTheCache == SpecProvider => Spec
  <1>1. InitProvider => Init
    BY DEF InitProvider
  <1>2. ProviderInv /\ [NextProvider]_provVars => [Next]_vars
    BY ProviderStepIsCacheStep
  <1>3. QED
    BY <1>1, <1>2, ProviderInductive, PTL DEF SpecProvider, Spec

\* So what a caller of the cache is promised holds of the reads of every
\* credential of every provider.
THEOREM ProviderAnswersAreFreshReads == SpecProvider => AnswersAreFreshReads
  BY ProviderUsesTheCache, CacheKeepsPromise

-----------------------------------------------------------------------------
LEMMA AnswersSoundly ==
    ASSUME ProviderInv, NEW c \in Callers, Status(c) = "200"
    PROVE  /\ at[c] = "cache" /\ pc[c] = "idle"
           /\ Own(match[c], Answer(c))
           /\ Settled(Answer(c))
  <1> USE DEF ProviderInv
  <1>1. at[c] = "cache" /\ pc[c] = "idle"
    <2>1. verdict[c] # "200"
      BY DEF ProviderTypeOK
    <2>2. QED
      BY <2>1 DEF Status
  <1>2. CASE joined[c] = 0
    BY <1>1, <1>2 DEF QueriesSound, Answer
  <1>3. CASE joined[c] # 0
    <2>1. /\ joined[c] \in Flights
          /\ joined[c] <= nflights
          /\ flight[joined[c]].key = match[c]
      BY <1>1, <1>3 DEF IInv, TypeOK, AnswersSound, MatchesSound
    <2>2. QED
      BY <1>1, <1>3, <2>1 DEF ValuesSound, Answer
  <1>4. QED
    BY <1>1, <1>2, <1>3

\* Nothing in an answer was read before the file held what the request has
\* matched, whoever made the query and whatever was written meanwhile.
THEOREM QuotaIsNotPrevious == SpecProvider => []NoPreviousQuota
  <1>1. ProviderInv => NoPreviousQuota
    BY AnswersSoundly DEF NoPreviousQuota, Own
  <1>2. QED
    BY <1>1, ProviderInductive, PTL

\* An answer without groups was preceded by a question to every endpoint.
THEOREM EveryEndpointWasAsked == SpecProvider => []GroupsWin
  <1>1. ProviderInv => GroupsWin
    BY AnswersSoundly DEF GroupsWin, Settled
  <1>2. QED
    BY <1>1, ProviderInductive, PTL

\* 200, 404 and 409 agree with the files that were listed and read.
THEOREM VerdictsAreTrue == SpecProvider => []VerdictIsTrue
  <1>1. ProviderInv => VerdictIsTrue
    <2> SUFFICES ASSUME ProviderInv, NEW c \in Callers
                 PROVE  /\ Status(c) = "200" => Found(c) = {match[c]} /\ todo[c] = {}
                        /\ Status(c) = "404" => Found(c) = {}
                        /\ Status(c) = "409" => \E k, l \in Found(c) : k # l
      BY DEF VerdictIsTrue, Found
    <2>1. Status(c) = "200" => Found(c) = {match[c]} /\ todo[c] = {}
      BY AnswersSoundly DEF ProviderInv, ScansSound, MatchesSound
    <2>2. Status(c) \in {"404", "409"} => Status(c) = verdict[c]
      BY DEF Status
    <2>3. QED
      BY <2>1, <2>2 DEF ProviderInv, ScansSound
  <1>2. QED
    BY <1>1, ProviderInductive, PTL
=============================================================================
