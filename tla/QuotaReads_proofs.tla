------------------------- MODULE QuotaReads_proofs -------------------------
(***************************************************************************)
(* Theorems about the reads and resets of one credential: they use the     *)
(* cache as QuotaCache describes it, so what is proved of the cache holds  *)
(* of them; and the nesting of a native read inside a resource read never  *)
(* brings usage from before an invalidation into an entry or an answer     *)
(* from after it.                                                          *)
(***************************************************************************)
EXTENDS QuotaReads, QuotaCache_proofs


ReadsTypeOK ==
    /\ nested \subseteq Readers
    /\ source \in [Flights -> Flights \union {0}]
    /\ resetPc \in [Resetters -> {"idle", "check", "invalidate", "consume", "done"}]
    /\ old \in [Resetters -> SUBSET Flights]
    /\ applied \in [Resetters -> BOOLEAN]

\* A call of the inner kind asks for the native key, one of the outer kind
\* for the resource key, and only a loading outer call nests.
RolesFixed ==
    \A r \in Readers :
        /\ pc[Inner(r)] # "idle" => ask[Inner(r)] = NativeKey
        /\ pc[Outer(r)] # "idle" => ask[Outer(r)] = ResourceKey
        /\ joined[Inner(r)] # 0 => flight[joined[Inner(r)]].key = NativeKey
        /\ r \in nested => /\ pc[Outer(r)] = "load"
                           /\ pc[Inner(r)] = "idle" => joined[Inner(r)] # 0
        /\ pc[Inner(r)] # "idle" /\ pc[Outer(r)] # "idle" => r \in nested

\* A native flight carries the usage it has read itself, or none yet.
NativeSources ==
    /\ \A f \in Flights : f > nflights => source[f] = 0
    /\ \A f \in Flights : f <= nflights /\ flight[f].key = NativeKey => source[f] \in {0, f}
    /\ \A f \in Flights : source[f] <= nflights

\* A nested read began after every invalidation that has spared the flight it
\* is nested in, and after every one that a call spared by it has seen.
NestedIsLater ==
    \A r \in nested :
        /\ joined[Outer(r)] \notin stale => stale \subseteq seen[Inner(r)]
        /\ \A c \in Callers :
              joined[Outer(r)] \notin seen[c] => seen[c] \subseteq seen[Inner(r)]

\* The usage inside a flight is not older than an invalidation that has
\* spared the flight.
SourcesCurrent ==
    \A f \in Flights :
        /\ f \notin stale => source[f] \notin stale
        /\ \A c \in Callers : f \notin seen[c] => source[f] \notin seen[c]

\* What a reset found in the cache is overtaken before the credit is posted.
ResetsOrdered ==
    \A s \in Resetters :
        /\ old[s] \subseteq 1 .. nflights
        /\ resetPc[s] = "consume" \/ applied[s] => old[s] \subseteq stale
        /\ applied[s] => resetPc[s] = "done"

ReadsInv ==
    /\ IInv
    /\ ReadsTypeOK
    /\ RolesFixed
    /\ NativeSources
    /\ NestedIsLater
    /\ SourcesCurrent
    /\ ResetsOrdered

-----------------------------------------------------------------------------
LEMMA CallersOfReader ==
    ASSUME NEW r \in Readers
    PROVE  Inner(r) \in Callers /\ Outer(r) \in Callers /\ Inner(r) # Outer(r)
  BY ReaderCallers DEF Inner, Outer

LEMMA KeysOfCredential == NativeKey \in Keys /\ ResourceKey \in Keys
  BY TwoKeys

\* Every step is a step of the cache, or leaves it alone.
LEMMA StepIsCacheStep == [NextReads]_allVars => [Next]_vars
  <1> SUFFICES ASSUME [NextReads]_allVars PROVE [Next]_vars
    OBVIOUS
  <1>1. ASSUME NEW r \in Readers, ReadStep(r) PROVE Next
    <2> Inner(r) \in Callers /\ Outer(r) \in Callers
      BY CallersOfReader
    <2> USE KeysOfCredential
    <2>1. CASE ResourceRequest(r) \/ NativeRequest(r) \/ NestedRequest(r)
      BY <2>1 DEF ResourceRequest, NativeRequest, NestedRequest, Next, Step
    <2>2. CASE FinishResource(r)
      <3>1. PICK o \in ResourceOutcomes(result[Inner(r)]) : LoadReturns(Outer(r), o)
        BY <2>2 DEF FinishResource
      <3>2. o \in Outcomes
        BY <3>1 DEF ResourceOutcomes, Outcomes
      <3>3. QED
        BY <3>1, <3>2 DEF Next, Step
    <2>3. CASE \E o \in {"ok", "error"} : ReadUsage(r, o)
      <3>1. PICK o \in {"ok", "error"} : LoadReturns(Inner(r), o)
        BY <2>3 DEF ReadUsage
      <3>2. o \in Outcomes
        BY <3>1 DEF Outcomes
      <3>3. QED
        BY <3>1, <3>2 DEF Next, Step
    <2>4. QED
      BY <1>1, <2>1, <2>2, <2>3 DEF ReadStep
  <1>2. ASSUME NEW c \in Callers, CacheStep(c) PROVE Next
    BY <1>2 DEF CacheStep, Next, Step
  <1>3. ASSUME NEW s \in Resetters, ResetStep(s) PROVE [Next]_vars
    <2>1. CASE InvalidateBeforeConsume(s)
      <3>1. PICK a \in {AuthOf[NativeKey], NoAuth} : Invalidate(ProviderOf[NativeKey], a)
        BY <2>1 DEF InvalidateBeforeConsume
      <3>2. ProviderOf[NativeKey] \in Providers /\ a \in Auths
        BY <3>1, KeysOfCredential DEF Providers, Auths
      <3>3. QED
        BY <3>1, <3>2 DEF Next
    <2>2. CASE ~InvalidateBeforeConsume(s)
      BY <1>3, <2>2 DEF ResetStep, BeginReset, RefuseReset, ChooseCredit, Consume, ConsumeFails
    <2>3. QED
      BY <2>1, <2>2
  <1>4. CASE Pass
    BY <1>4 DEF Pass, Next
  <1>5. ASSUME NEW v \in Visitors, VisitStep(v) PROVE UNCHANGED vars
    BY <1>5 DEF VisitStep, VisitUsage, VisitDetails
  <1>6. CASE UNCHANGED allVars
    BY <1>6 DEF allVars
  <1>7. QED
    BY <1>1, <1>2, <1>3, <1>4, <1>5, <1>6 DEF NextReads

\* The readers and resetters of a credential use the cache only through its
\* operations: every behaviour of theirs is a behaviour of the cache.
THEOREM ReadsUseTheCache == SpecReads => Spec
  <1>1. InitReads => Init
    BY DEF InitReads
  <1>2. [NextReads]_allVars => [Next]_vars
    BY StepIsCacheStep
  <1>3. QED
    BY <1>1, <1>2, PTL DEF SpecReads, Spec

\* So what a caller of the cache is promised holds of every read of a credential,
\* nested or not, among any resets.
THEOREM ReadsAreFreshReads == SpecReads => AnswersAreFreshReads
  BY ReadsUseTheCache, CacheKeepsPromise

-----------------------------------------------------------------------------
LEMMA InitReadsInv == InitReads => ReadsInv
  <1> SUFFICES ASSUME InitReads PROVE ReadsInv
    OBVIOUS
  <1>1. IInv
    BY InitIInv DEF InitReads
  <1>2. ReadsTypeOK
    BY CacheBounds DEF InitReads, Init, ReadsTypeOK, Flights
  <1>3. RolesFixed /\ NestedIsLater /\ SourcesCurrent
    BY CallersOfReader DEF InitReads, Init, RolesFixed, NestedIsLater, SourcesCurrent, Flights
  <1>4. NativeSources
    BY CacheBounds DEF InitReads, Init, NativeSources, Flights
  <1>5. ResetsOrdered
    BY DEF InitReads, Init, ResetsOrdered
  <1>6. QED
    BY <1>1, <1>2, <1>3, <1>4, <1>5 DEF ReadsInv

\* Requests: one call begins, its history is the present.
LEMMA RequestReadsInv ==
    ASSUME ReadsInv, IInv', NEW r \in Readers,
           ResourceRequest(r) \/ NativeRequest(r) \/ NestedRequest(r)
    PROVE  ReadsInv'
  <1> Inner(r) \in Callers /\ Outer(r) \in Callers /\ Inner(r) # Outer(r)
    BY CallersOfReader
  <1> USE DEF ReadsInv, cache, reads, upstream, resets
  <1>0. PICK c \in {Inner(r), Outer(r)}, k \in Keys :
            /\ Begin(c, k)
            /\ c = Inner(r) => k = NativeKey
            /\ c = Outer(r) => k = ResourceKey /\ pc[Inner(r)] = "idle"
            /\ c = Inner(r) => r \in nested' \/ pc[Outer(r)] = "idle"
    BY KeysOfCredential DEF ResourceRequest, NativeRequest, NestedRequest
  <1>1. UNCHANGED <<source, fetched, upstream, resets, cache, stale>>
    BY DEF ResourceRequest, NativeRequest, NestedRequest, Begin
  <1>2. ReadsTypeOK'
    BY <1>1 DEF ReadsTypeOK, ResourceRequest, NativeRequest, NestedRequest
  <1>3. RolesFixed'
    <2> SUFFICES ASSUME NEW q \in Readers
                 PROVE  /\ pc'[Inner(q)] # "idle" => ask'[Inner(q)] = NativeKey
                        /\ pc'[Outer(q)] # "idle" => ask'[Outer(q)] = ResourceKey
                        /\ joined'[Inner(q)] # 0 => flight'[joined'[Inner(q)]].key = NativeKey
                        /\ q \in nested' => /\ pc'[Outer(q)] = "load"
                                            /\ pc'[Inner(q)] = "idle" => joined'[Inner(q)] # 0
                        /\ pc'[Inner(q)] # "idle" /\ pc'[Outer(q)] # "idle" => q \in nested'
      BY DEF RolesFixed
    <2>1. Inner(q) \in Callers /\ Outer(q) \in Callers /\ Inner(q) # Outer(q)
      BY CallersOfReader
    <2>2. q # r => Inner(q) # Inner(r) /\ Outer(q) # Outer(r)
      BY DEF Inner, Outer
    <2>3. Inner(q) # Outer(r) /\ Outer(q) # Inner(r)
      BY DEF Inner, Outer
    <2>4. CASE q # r
      BY <1>0, <1>1, <2>1, <2>2, <2>3, <2>4
         DEF Begin, RolesFixed, IInv, TypeOK, ResourceRequest, NativeRequest, NestedRequest
    <2>5. CASE q = r
      BY <1>0, <1>1, <2>1, <2>5
         DEF Begin, RolesFixed, IInv, TypeOK, ResourceRequest, NativeRequest, NestedRequest
    <2>6. QED
      BY <2>4, <2>5
  <1>4. NativeSources' /\ ResetsOrdered'
    BY <1>1 DEF NativeSources, ResetsOrdered
  <1>5. SourcesCurrent'
    BY <1>0, <1>1 DEF SourcesCurrent, Begin, IInv, TypeOK
  <1>6. NestedIsLater'
    <2> SUFFICES ASSUME NEW q \in nested'
                 PROVE  /\ joined'[Outer(q)] \notin stale' => stale' \subseteq seen'[Inner(q)]
                        /\ \A d \in Callers :
                              joined'[Outer(q)] \notin seen'[d] => seen'[d] \subseteq seen'[Inner(q)]
      BY DEF NestedIsLater
    <2>1. q \in Readers
      BY <1>2 DEF ReadsTypeOK
    <2>2. Inner(q) \in Callers /\ Outer(q) \in Callers /\ Inner(q) # Outer(q)
      BY <2>1, CallersOfReader
    <2>3. \A d \in Callers : seen[d] \subseteq stale
      BY DEF IInv, FlightsNumbered
    <2>4. Inner(q) # Inner(r) => Inner(q) # c
      <3>1. Inner(q) # Outer(r)
        BY DEF Inner, Outer
      <3>2. QED
        BY <3>1
    <2>5. CASE q \in nested /\ c # Inner(q)
      <3>0. pc[Outer(q)] = "load" /\ pc[c] = "idle"
        <4>1. pc[Outer(q)] = "load"
          BY <2>1, <2>5 DEF RolesFixed
        <4>2. pc[c] = "idle"
          BY <1>0 DEF Begin
        <4>3. QED
          BY <4>1, <4>2
      <3>1. c # Outer(q)
        BY <3>0
      <3>2. QED
        BY <1>0, <1>1, <2>2, <2>3, <2>5, <3>1 DEF NestedIsLater, Begin, IInv, TypeOK
    <2>6. CASE c = Inner(q)
      BY <1>0, <1>1, <2>2, <2>3, <2>6 DEF Begin, IInv, TypeOK
    <2>7. CASE q \notin nested
      <3>1. NestedRequest(r) /\ q = r
        BY <2>7 DEF ResourceRequest, NativeRequest, NestedRequest
      <3>2. Begin(Inner(q), NativeKey)
        BY <3>1 DEF NestedRequest
      <3>3. QED
        BY <3>2, <1>1, <2>2, <2>3 DEF Begin, IInv, TypeOK
    <2>8. QED
      BY <2>5, <2>6, <2>7
  <1>7. QED
    BY <1>2, <1>3, <1>4, <1>5, <1>6

LEMMA CallersApart ==
    /\ \A q, r \in Readers : /\ Inner(q) # Outer(r)
                             /\ q # r => Inner(q) # Inner(r) /\ Outer(q) # Outer(r)
    /\ \A c \in Callers : \E q \in Readers : c = Inner(q) \/ c = Outer(q)
  BY ReaderCallers DEF Inner, Outer

\* A load ends: its flight may now carry usage.
LEMMA UsageReadsInv ==
    ASSUME ReadsInv, IInv', NEW r \in Readers, NEW o \in {"ok", "error"}, ReadUsage(r, o)
    PROVE  ReadsInv'
  <1> Inner(r) \in Callers /\ Outer(r) \in Callers /\ Inner(r) # Outer(r)
    BY CallersOfReader
  <1> USE DEF ReadsInv, cache, reads, upstream, resets
  <1> DEFINE f == joined[Inner(r)]
  <1>1. /\ pc[Inner(r)] = "load"
        /\ pc' = [pc EXCEPT ![Inner(r)] = "publish"]
        /\ UNCHANGED <<cache, stale, ask, joined, seen, nested, upstream, resets>>
    BY DEF ReadUsage, LoadReturns
  <1>2. /\ f \in Flights
        /\ f <= nflights
        /\ flight[f].key = NativeKey
    BY <1>1 DEF IInv, LeadersSound, Leads, RolesFixed
  <1>3. /\ source' \in [Flights -> Flights \union {0}]
        /\ \A g \in Flights : source'[g] = source[g] \/ (g = f /\ source'[g] = f)
    BY <1>2 DEF ReadUsage, Fetch, ReadsTypeOK
  <1>4. ReadsTypeOK'
    BY <1>1, <1>3 DEF ReadsTypeOK
  <1>5. RolesFixed'
    <2>1. ASSUME NEW q \in Readers
          PROVE  /\ pc'[Outer(q)] = pc[Outer(q)]
                 /\ pc'[Inner(q)] # "idle" => pc[Inner(q)] # "idle"
                 /\ pc'[Inner(q)] = "idle" => pc[Inner(q)] = "idle"
      <3>1. Inner(q) \in Callers /\ Outer(q) \in Callers /\ Outer(q) # Inner(r)
        BY CallersOfReader DEF Inner, Outer
      <3>2. QED
        BY <1>1, <3>1 DEF IInv, TypeOK
    <2>2. QED
      BY <1>1, <2>1 DEF RolesFixed
  <1>6. NativeSources'
    <2>1. nflights \in Nat /\ \A h \in Flights : h \in Nat
      BY CacheBounds DEF IInv, TypeOK, Flights
    <2>2. QED
      BY <1>1, <1>2, <1>3, <2>1 DEF NativeSources
  <1>7. NestedIsLater' /\ ResetsOrdered'
    BY <1>1 DEF NestedIsLater, ResetsOrdered
  <1>8. SourcesCurrent'
    BY <1>1, <1>3 DEF SourcesCurrent
  <1>9. QED
    BY <1>4, <1>5, <1>6, <1>7, <1>8

LEMMA FinishReadsInv ==
    ASSUME ReadsInv, IInv', NEW r \in Readers, FinishResource(r)
    PROVE  ReadsInv'
  <1> Inner(r) \in Callers /\ Outer(r) \in Callers /\ Inner(r) # Outer(r)
    BY CallersOfReader
  <1> USE DEF ReadsInv, cache, reads, upstream, resets
  <1> DEFINE f == joined[Outer(r)]
             g == joined[Inner(r)]
  <1>1. /\ pc[Outer(r)] = "load"
        /\ pc[Inner(r)] = "idle"
        /\ r \in nested
        /\ pc' = [pc EXCEPT ![Outer(r)] = "publish"]
        /\ nested' = nested \ {r}
        /\ UNCHANGED <<cache, stale, ask, joined, seen, upstream, resets>>
    BY DEF FinishResource, LoadReturns
  <1>2. /\ f \in Flights
        /\ f <= nflights
        /\ flight[f].key = ResourceKey
    BY <1>1 DEF IInv, LeadersSound, Leads, RolesFixed
  <1>3. /\ source' = [source EXCEPT ![f] = source[g]]
        /\ g \in Flights \union {0}
    BY DEF FinishResource, Fetch, IInv, TypeOK
  <1>g. /\ g \in Flights
        /\ g <= nflights
        /\ source[g] \in {0, g}
        /\ g \notin seen[Inner(r)]
    BY <1>1, <1>3 DEF IInv, AnswersSound, RolesFixed, NativeSources
  <1>s. /\ source' \in [Flights -> Flights \union {0}]
        /\ \A h \in Flights : source'[h] = source[h] \/ (h = f /\ source'[h] = source[g])
    BY <1>2, <1>3, <1>g DEF ReadsTypeOK
  <1>4. ReadsTypeOK'
    BY <1>1, <1>s DEF ReadsTypeOK
  <1>5. RolesFixed'
    <2>1. ASSUME NEW q \in Readers
          PROVE  /\ pc'[Inner(q)] = pc[Inner(q)]
                 /\ pc'[Outer(q)] # "idle" => pc[Outer(q)] # "idle"
                 /\ q # r => pc'[Outer(q)] = pc[Outer(q)]
      <3>1. /\ Inner(q) \in Callers
            /\ Outer(q) \in Callers
            /\ Inner(q) # Outer(r)
            /\ q # r => Outer(q) # Outer(r)
        BY CallersOfReader DEF Inner, Outer
      <3>2. QED
        BY <1>1, <3>1 DEF IInv, TypeOK
    <2>2. QED
      BY <1>1, <2>1 DEF RolesFixed
  <1>6. NativeSources'
    <2>1. \A h \in Flights : h > nflights => h # f
      BY <1>2, CacheBounds DEF IInv, TypeOK, Flights
    <2>2. \A h \in Flights : flight[h].key = NativeKey => h # f
      BY <1>2, TwoKeys
    <2>3. QED
      BY <1>1, <1>s, <2>1, <2>2, <1>g DEF NativeSources
  <1>7. NestedIsLater' /\ ResetsOrdered'
    BY <1>1 DEF NestedIsLater, ResetsOrdered
  <1>8. SourcesCurrent'
    <2>0. 0 \notin stale /\ \A c \in Callers : 0 \notin seen[c]
      BY CacheBounds DEF IInv, TypeOK, Flights
    <2>1. f \notin stale => source[g] \notin stale
      BY <1>1, <1>g, <2>0 DEF NestedIsLater
    <2>2. \A c \in Callers : f \notin seen[c] => source[g] \notin seen[c]
      BY <1>1, <1>g, <2>0 DEF NestedIsLater
    <2>3. QED
      BY <1>1, <1>s, <2>1, <2>2 DEF SourcesCurrent
  <1>9. QED
    BY <1>4, <1>5, <1>6, <1>7, <1>8

\* The steps of get: the cache changes, what flights carry does not.
LEMMA CacheReadsInv ==
    ASSUME ReadsInv, IInv', NEW c \in Callers, CacheStep(c)
    PROVE  ReadsInv'
  <1> USE DEF ReadsInv, cache, reads, upstream, resets
  <1>1. /\ UNCHANGED <<stale, ask, seen, nested, source, upstream, resets>>
        /\ \/ Hit(c) \/ Join(c) \/ Lead(c) \/ Publish(c) \/ Wake(c)
    BY DEF CacheStep, Hit, Join, Lead, Publish, Wake
  <1>2. /\ nflights' \in Nat
        /\ nflights <= nflights'
        /\ \A h \in Flights : h <= nflights => flight'[h].key = flight[h].key
        /\ \A h \in Flights : h > nflights => source[h] = 0
    <2>1. CASE Hit(c) \/ Join(c) \/ Wake(c)
      BY <2>1 DEF Hit, Join, Wake, IInv, TypeOK, NativeSources
    <2>2. CASE Lead(c)
      BY <2>2, CacheBounds DEF Lead, IInv, TypeOK, Flights, NativeSources
    <2>3. CASE Publish(c)
      <3>1. joined[c] \in Flights /\ flight[joined[c]] \in FlightRec
        BY <2>3, NoneIsNoKey DEF Publish, IInv, LeadersSound, Leads, TypeOK, CallsSound, NoFlight
      <3>2. QED
        BY <2>3, <3>1 DEF Publish, Close, IInv, TypeOK, NativeSources, FlightRec
    <2>4. QED
      BY <1>1, <2>1, <2>2, <2>3
  <1>p. /\ \A d \in Callers : d # c => pc'[d] = pc[d] /\ joined'[d] = joined[d]
        /\ pc[c] \in {"lookup", "publish", "wait"}
        /\ pc'[c] = "load" => pc[c] = "lookup"
        /\ pc'[c] = "idle" => joined'[c] # 0
    <2>1. CASE Hit(c)
      <3>1. ask[c] \in Keys /\ entries[ask[c]] # NoEntry
        BY <2>1 DEF Hit, IInv, CallsSound, Live, NoEntry, TypeOK
      <3>2. QED
        BY <2>1, <3>1, CacheBounds DEF Hit, IInv, TypeOK, EntriesSound, Flights
    <2>2. CASE Join(c) \/ Lead(c)
      BY <2>2 DEF Join, Lead, IInv, TypeOK
    <2>3. CASE Publish(c) \/ Wake(c)
      BY <2>3, CacheBounds DEF Publish, Wake, IInv, TypeOK, LeadersSound, Leads, FollowersSound, Flights
    <2>4. QED
      BY <1>1, <2>1, <2>2, <2>3
  <1>k. joined'[c] # 0 => flight'[joined'[c]].key = ask[c]
    <2>1. CASE Hit(c)
      <3>1. ask[c] \in Keys /\ entries[ask[c]] # NoEntry
        BY <2>1 DEF Hit, IInv, CallsSound, Live, NoEntry, TypeOK
      <3>2. QED
        BY <2>1, <3>1 DEF Hit, IInv, TypeOK, EntriesSound
    <2>2. CASE Join(c)
      BY <2>2 DEF Join, IInv, TypeOK, BindingsCurrent, CallsSound, Loading
    <2>3. CASE Lead(c)
      BY <2>3 DEF Lead, IInv, TypeOK
    <2>4. CASE Publish(c)
      BY <2>4, <1>2 DEF Publish, IInv, TypeOK, LeadersSound, Leads
    <2>5. CASE Wake(c)
      BY <2>5 DEF Wake, IInv, TypeOK, FollowersSound
    <2>6. QED
      BY <1>1, <2>1, <2>2, <2>3, <2>4, <2>5
  <1>j. \A d \in Callers : joined[d] # 0 => joined[d] \in Flights /\ joined[d] <= nflights
    BY DEF IInv, TypeOK, LeadersSound, Leads, FollowersSound, AnswersSound, CallsSound
  <1>n. \A q \in nested : Outer(q) # c
    <2> SUFFICES ASSUME NEW q \in nested PROVE Outer(q) # c
      OBVIOUS
    <2>1. q \in Readers
      BY DEF ReadsTypeOK
    <2>2. pc[Outer(q)] = "load"
      BY <2>1 DEF RolesFixed
    <2>3. QED
      BY <1>p, <2>2 DEF Outer
  <1>4. ReadsTypeOK'
    BY <1>1 DEF ReadsTypeOK
  <1>5. RolesFixed'
    <2> SUFFICES ASSUME NEW q \in Readers
                 PROVE  /\ pc'[Inner(q)] # "idle" => ask'[Inner(q)] = NativeKey
                        /\ pc'[Outer(q)] # "idle" => ask'[Outer(q)] = ResourceKey
                        /\ joined'[Inner(q)] # 0 => flight'[joined'[Inner(q)]].key = NativeKey
                        /\ q \in nested' => /\ pc'[Outer(q)] = "load"
                                            /\ pc'[Inner(q)] = "idle" => joined'[Inner(q)] # 0
                        /\ pc'[Inner(q)] # "idle" /\ pc'[Outer(q)] # "idle" => q \in nested'
      BY DEF RolesFixed
    <2>1. Inner(q) \in Callers /\ Outer(q) \in Callers /\ Inner(q) # Outer(q)
      BY CallersOfReader
    <2>2. CASE c # Inner(q) /\ c # Outer(q)
      BY <1>1, <1>2, <1>p, <1>j, <2>1, <2>2 DEF RolesFixed
    <2>3. CASE c = Inner(q)
      BY <1>1, <1>2, <1>p, <1>k, <1>j, <2>1, <2>3 DEF RolesFixed
    <2>4. CASE c = Outer(q)
      BY <1>1, <1>2, <1>p, <1>n, <1>j, <2>1, <2>4 DEF RolesFixed
    <2>5. QED
      BY <2>2, <2>3, <2>4
  <1>6. NativeSources'
    <2>1. nflights \in Nat
      BY DEF IInv, TypeOK
    <2>2. \A h \in Flights : h \in Nat
      BY CacheBounds DEF Flights
    <2>3. \A h \in Flights : source'[h] <= nflights'
      BY <1>1, <1>2, <2>1, <2>2 DEF NativeSources, ReadsTypeOK
    <2>4. QED
      BY <1>1, <1>2, <2>1, <2>2, <2>3 DEF NativeSources
  <1>7. NestedIsLater'
    BY <1>1, <1>p, <1>n, CallersOfReader DEF NestedIsLater, ReadsTypeOK
  <1>8. SourcesCurrent'
    BY <1>1 DEF SourcesCurrent
  <1>9. ResetsOrdered'
    <2>1. \A s \in Resetters : old[s] \subseteq 1 .. nflights'
      BY <1>2 DEF ResetsOrdered, IInv, TypeOK
    <2>2. QED
      BY <1>1, <2>1 DEF ResetsOrdered
  <1>10. QED
    BY <1>4, <1>5, <1>6, <1>7, <1>8, <1>9

\* The reset invalidates both keys: every flight there is becomes stale.
LEMMA InvalidateReadsInv ==
    ASSUME ReadsInv, IInv', NEW s \in Resetters, InvalidateBeforeConsume(s)
    PROVE  ReadsInv'
  <1> USE DEF ReadsInv, reads, call
  <1>1. /\ resetPc[s] = "invalidate"
        /\ resetPc' = [resetPc EXCEPT ![s] = "consume"]
        /\ UNCHANGED <<flight, nflights, pc, ask, joined, seen, nested, source, old, applied>>
    BY DEF InvalidateBeforeConsume, Invalidate
  <1>2. stale' = 1 .. nflights
    <2>1. PICK a \in {AuthOf[NativeKey], NoAuth} : Invalidate(ProviderOf[NativeKey], a)
      BY DEF InvalidateBeforeConsume
    <2>2. \A k \in Keys : Matches(k, ProviderOf[NativeKey], a)
      BY TwoKeys, OneCredential, <2>1 DEF Matches
    <2>3. \A f \in 1 .. nflights : flight[f].key \in Keys
      BY CacheBounds DEF IInv, FlightsNumbered, TypeOK, Flights
    <2>4. stale \subseteq 1 .. nflights
      BY CacheBounds DEF IInv, FlightsNumbered, TypeOK, Flights
    <2>5. stale' = stale \union {f \in 1 .. nflights : Matches(flight[f].key, ProviderOf[NativeKey], a)}
      BY <2>1 DEF Invalidate
    <2>6. QED
      BY <2>2, <2>3, <2>4, <2>5
  <1>3. ReadsTypeOK' /\ RolesFixed' /\ NativeSources'
    BY <1>1 DEF ReadsTypeOK, RolesFixed, NativeSources
  <1>4. NestedIsLater'
    <2>1. ASSUME NEW q \in nested PROVE joined[Outer(q)] \in 1 .. nflights
      <3>1. q \in Readers /\ Outer(q) \in Callers
        BY CallersOfReader DEF ReadsTypeOK
      <3>2. pc[Outer(q)] = "load"
        BY <3>1 DEF RolesFixed
      <3>3. QED
        BY <3>1, <3>2, CacheBounds DEF IInv, LeadersSound, Leads, TypeOK, Flights
    <2>2. QED
      BY <1>1, <1>2, <2>1 DEF NestedIsLater
  <1>5. SourcesCurrent'
    <2>1. ASSUME NEW f \in Flights, f \notin stale' PROVE source[f] = 0
      <3>1. f > nflights
        BY <1>2, <2>1, CacheBounds DEF IInv, TypeOK, Flights
      <3>2. QED
        BY <3>1 DEF NativeSources
    <2>2. 0 \notin stale'
      BY <1>2
    <2>3. QED
      BY <1>1, <2>1, <2>2 DEF SourcesCurrent
  <1>6. ResetsOrdered'
    BY <1>1, <1>2 DEF ResetsOrdered
  <1>7. QED
    BY <1>3, <1>4, <1>5, <1>6

\* The other steps of a reset, and the clock, leave the reads alone.
LEMMA ResetReadsInv ==
    ASSUME ReadsInv, IInv', NEW s \in Resetters,
           \/ BeginReset(s) \/ RefuseReset(s) \/ ChooseCredit(s)
           \/ Consume(s) \/ ConsumeFails(s)
    PROVE  ReadsInv'
  <1> USE DEF ReadsInv, vars, cache, call, reads, upstream
  <1>1. UNCHANGED <<flight, nflights, pc, ask, joined, seen, stale, nested, source>>
    BY DEF BeginReset, RefuseReset, ChooseCredit, Consume, ConsumeFails
  <1>2. RolesFixed' /\ NativeSources' /\ NestedIsLater' /\ SourcesCurrent'
    BY <1>1 DEF RolesFixed, NativeSources, NestedIsLater, SourcesCurrent
  <1>3. 1 .. nflights \subseteq Flights
    BY CacheBounds DEF IInv, TypeOK, Flights
  <1>4. ReadsTypeOK'
    BY <1>1, <1>3 DEF ReadsTypeOK, BeginReset, RefuseReset, ChooseCredit, Consume,
                      ConsumeFails, EndReset
  <1>5. ResetsOrdered'
    <2>1. CASE ChooseCredit(s)
      <3>1. /\ old' = [old EXCEPT ![s] = 1 .. nflights]
            /\ resetPc' = [resetPc EXCEPT ![s] = "invalidate"]
            /\ applied' = applied
            /\ resetPc[s] = "check"
        BY <2>1 DEF ChooseCredit
      <3>2. ~applied[s]
        BY <3>1 DEF ReadsTypeOK, ResetsOrdered
      <3>3. QED
        BY <1>1, <3>1, <3>2 DEF ResetsOrdered, ReadsTypeOK
    <2>2. CASE BeginReset(s) \/ RefuseReset(s) \/ Consume(s) \/ ConsumeFails(s)
      BY <1>1, <2>2 DEF ResetsOrdered, ReadsTypeOK, BeginReset, RefuseReset, Consume,
                        ConsumeFails, EndReset
    <2>3. QED
      BY <2>1, <2>2
  <1>6. QED
    BY <1>2, <1>4, <1>5

LEMMA PassReadsInv ==
    ASSUME ReadsInv, IInv', Pass \/ UNCHANGED allVars
    PROVE  ReadsInv'
  <1>1. UNCHANGED <<flight, nflights, pc, ask, joined, seen, stale, nested, source, resetPc,
                    old, applied>>
    BY DEF Pass, Tick, allVars, vars, cache, call, reads, resets
  <1>2. QED
    BY <1>1 DEF ReadsInv, ReadsTypeOK, RolesFixed, NativeSources, NestedIsLater,
                SourcesCurrent, ResetsOrdered

\* A visit reads without the cache.
LEMMA VisitReadsInv ==
    ASSUME ReadsInv, IInv', NEW v \in Visitors, VisitStep(v)
    PROVE  ReadsInv'
  <1>1. UNCHANGED <<vars, reads, resets>>
    BY DEF VisitStep, VisitUsage, VisitDetails
  <1>2. QED
    BY <1>1 DEF ReadsInv, ReadsTypeOK, RolesFixed, NativeSources, NestedIsLater,
                SourcesCurrent, ResetsOrdered, vars, cache, call, reads, resets

\* The inductive invariant behind the theorems below.
THEOREM ReadsInductive == SpecReads => []ReadsInv
  <1>1. InitReads => ReadsInv
    BY InitReadsInv
  <1>2. ReadsInv /\ [NextReads]_allVars => ReadsInv'
    <2> SUFFICES ASSUME ReadsInv, [NextReads]_allVars PROVE ReadsInv'
      OBVIOUS
    <2>0. IInv'
      BY StepIsCacheStep, StepIInv DEF ReadsInv
    <2>1. ASSUME NEW r \in Readers, ReadStep(r) PROVE ReadsInv'
      BY <2>0, <2>1, RequestReadsInv, UsageReadsInv, FinishReadsInv DEF ReadStep
    <2>2. ASSUME NEW c \in Callers, CacheStep(c) PROVE ReadsInv'
      BY <2>0, <2>2, CacheReadsInv
    <2>3. ASSUME NEW s \in Resetters, ResetStep(s) PROVE ReadsInv'
      BY <2>0, <2>3, InvalidateReadsInv, ResetReadsInv DEF ResetStep
    <2>4. CASE Pass \/ UNCHANGED allVars
      BY <2>0, <2>4, PassReadsInv
    <2>5. ASSUME NEW v \in Visitors, VisitStep(v) PROVE ReadsInv'
      BY <2>0, <2>5, VisitReadsInv
    <2>6. QED
      BY <2>1, <2>2, <2>3, <2>4, <2>5 DEF NextReads
  <1>3. QED
    BY <1>1, <1>2, PTL DEF SpecReads

-----------------------------------------------------------------------------
\* An answer never contains usage from before an invalidation that had
\* returned when the call began, however reads nest and share one another.
THEOREM UsageFreshness == SpecReads => []UsageIsFresh
  <1>1. ReadsInv => UsageIsFresh
    BY DEF ReadsInv, IInv, TypeOK, AnswersSound, SourcesCurrent, UsageIsFresh
  <1>2. QED
    BY <1>1, ReadsInductive, PTL

\* Usage that was in the cache when a reset found its credit is gone from it
\* once upstream has consumed the credit, whether or not the answer arrived.
THEOREM ResetOvertakesCache == SpecReads => []ResetHidesOldQuota
  <1>1. ReadsInv => ResetHidesOldQuota
    <2> SUFFICES ASSUME ReadsInv, NEW s \in Resetters, applied[s], NEW k \in Held(entries)
                 PROVE  source[entries[k].flight] \notin old[s]
      BY DEF ResetHidesOldQuota
    <2>1. entries[k].flight \in Flights /\ entries[k].flight \notin stale
      BY CacheBounds DEF Held, ReadsInv, IInv, TypeOK, EntriesSound, Entry, NoEntry
    <2>2. source[entries[k].flight] \notin stale
      BY <2>1 DEF ReadsInv, SourcesCurrent
    <2>3. old[s] \subseteq stale
      BY DEF ReadsInv, ResetsOrdered
    <2>4. QED
      BY <2>2, <2>3
  <1>2. QED
    BY <1>1, ReadsInductive, PTL

-----------------------------------------------------------------------------
\* A usage that was read, the credits told with it or after it, and what
\* upstream has: a reset turns one credit into one reset.
Told(u) == /\ u \in [at : Nat, quota : Nat, credits : Nat]
           /\ u.quota <= quota
           /\ u.quota + u.credits <= NCredits

CreditsInv ==
    /\ quota \in Nat
    /\ IsFiniteSet(credits)
    /\ Cardinality(credits) \in Nat
    /\ quota + Cardinality(credits) <= NCredits
    /\ visit \in [Visitors -> {"idle", "details", "answered"}]
    /\ DOMAIN fetched = Flights /\ DOMAIN live = Visitors
    /\ \A f \in Flights : Told(fetched[f])
    /\ \A v \in Visitors : Told(live[v])

LEMMA InitCreditsInv == InitReads => CreditsInv
  <1> SUFFICES ASSUME InitReads PROVE CreditsInv
    OBVIOUS
  <1>1. IsFiniteSet(1 .. NCredits) /\ Cardinality(1 .. NCredits) = NCredits
    BY NCreditsIsNat, FS_Interval
  <1>2. QED
    BY <1>1, NCreditsIsNat DEF InitReads, CreditsInv, Told, NotFetched

\* What upstream tells is what it has, and details are read after the usage.
LEMMA ToldNow ==
    ASSUME CreditsInv, TypeOK
    PROVE  /\ \A t \in Nat : Told(Usage(t))
           /\ \A u : Told(u) => \A o, w : w \in WithDetails(u, o) => Told(w)
  <1>1. \A t \in Nat : Told(Usage(t))
    BY NCreditsIsNat DEF CreditsInv, Told, Usage, TypeOK
  <1>2. ASSUME NEW u, Told(u), NEW o, NEW w \in WithDetails(u, o) PROVE Told(w)
    <2>1. w = u \/ w = [u EXCEPT !.credits = Cardinality(credits)]
      BY <1>2 DEF WithDetails
    <2>2. QED
      BY <1>2, <2>1, NCreditsIsNat DEF CreditsInv, Told
  <1>3. QED
    BY <1>1, <1>2

\* One usage at most is new; a consumed credit makes every older one smaller.
LEMMA CreditsStep ==
    ASSUME ReadsInv, CreditsInv, [NextReads]_allVars
    PROVE  CreditsInv'
  <1>0. TypeOK
    BY DEF ReadsInv, IInv
  <1>1. ASSUME UNCHANGED <<fetched, visits, upstream>> PROVE CreditsInv'
    BY <1>1 DEF CreditsInv, Told, visits, upstream
  <1>2. ASSUME UNCHANGED <<visits, upstream>>, NEW f \in Flights, NEW u, Told(u),
               fetched' = [fetched EXCEPT ![f] = u]
        PROVE  CreditsInv'
    BY <1>2 DEF CreditsInv, Told, visits, upstream
  <1>3. ASSUME NEW r \in Readers, ReadStep(r) PROVE CreditsInv'
    <2>1. CASE ResourceRequest(r) \/ NativeRequest(r) \/ NestedRequest(r)
      BY <1>1, <2>1 DEF ResourceRequest, NativeRequest, NestedRequest, reads
    <2>2. CASE \E o \in {"ok", "error"} : ReadUsage(r, o)
      <3>1. PICK o \in {"ok", "error"} : ReadUsage(r, o)
        BY <2>2
      <3>2. joined[Inner(r)] \in Flights
        BY <3>1, CallersOfReader DEF ReadUsage, LoadReturns, ReadsInv, IInv, LeadersSound, Leads
      <3>3. CASE o = "ok"
        <4>1. Told(Usage(now))
          BY <1>0, ToldNow DEF TypeOK
        <4>2. QED
          BY <1>2, <3>1, <3>2, <3>3, <4>1 DEF ReadUsage, Fetch
      <3>4. CASE o # "ok"
        BY <1>1, <3>1, <3>4 DEF ReadUsage
      <3>5. QED
        BY <3>3, <3>4
    <2>3. CASE FinishResource(r)
      <3>1. /\ joined[Outer(r)] \in Flights
            /\ joined[Inner(r)] \in Flights
        BY <2>3, CallersOfReader
           DEF FinishResource, LoadReturns, ReadsInv, RolesFixed, IInv, TypeOK, LeadersSound, Leads
      <3>2. PICK o \in ResourceOutcomes(result[Inner(r)]) :
                \E u \in WithDetails(fetched[joined[Inner(r)]], o) :
                    Fetch(joined[Outer(r)], source[joined[Inner(r)]], u)
        BY <2>3 DEF FinishResource
      <3>3. PICK u \in WithDetails(fetched[joined[Inner(r)]], o) :
                Fetch(joined[Outer(r)], source[joined[Inner(r)]], u)
        BY <3>2
      <3>4. Told(fetched[joined[Inner(r)]])
        BY <3>1 DEF CreditsInv
      <3>5. Told(u)
        BY <1>0, <3>3, <3>4, ToldNow
      <3>6. QED
        BY <1>2, <2>3, <3>1, <3>3, <3>5 DEF FinishResource, Fetch
    <2>4. QED
      BY <1>3, <2>1, <2>2, <2>3 DEF ReadStep
  <1>4. ASSUME NEW c \in Callers, CacheStep(c) PROVE CreditsInv'
    BY <1>1, <1>4 DEF CacheStep, reads
  <1>5. ASSUME NEW s \in Resetters, ResetStep(s) PROVE CreditsInv'
    <2>1. CASE Consume(s)
      <3>1. /\ chosen[s] \in credits
            /\ credits' = credits \ {chosen[s]}
            /\ quota' = quota + 1
            /\ UNCHANGED <<fetched, visits>>
        BY <2>1 DEF Consume, reads
      <3>2. IsFiniteSet(credits') /\ Cardinality(credits') = Cardinality(credits) - 1
        BY <3>1, FS_RemoveElement DEF CreditsInv
      <3>3. Cardinality(credits) > 0
        BY <3>1, FS_EmptySet DEF CreditsInv
      <3>4. QED
        BY <3>1, <3>2, <3>3, NCreditsIsNat DEF CreditsInv, Told, visits
    <2>2. CASE ~Consume(s)
      BY <1>1, <1>5, <2>2
         DEF ResetStep, BeginReset, RefuseReset, ChooseCredit, InvalidateBeforeConsume,
             ConsumeFails, reads
    <2>3. QED
      BY <2>1, <2>2
  <1>6. ASSUME NEW v \in Visitors, VisitStep(v) PROVE CreditsInv'
    <2>0. UNCHANGED <<fetched, upstream>>
      BY <1>6 DEF VisitStep, VisitUsage, VisitDetails, reads
    <2>1. visit' \in [Visitors -> {"idle", "details", "answered"}]
      BY <1>6 DEF VisitStep, VisitUsage, VisitDetails, CreditsInv
    <2>2. \/ UNCHANGED live
          \/ \E u : Told(u) /\ live' = [live EXCEPT ![v] = u]
      <3>1. CASE VisitUsage(v)
        BY <1>0, <3>1, ToldNow DEF VisitUsage
      <3>2. CASE VisitDetails(v)
        <4>1. PICK u \in WithDetails(live[v], "ok") : live' = [live EXCEPT ![v] = u]
          BY <3>2 DEF VisitDetails
        <4>2. Told(live[v])
          BY DEF CreditsInv
        <4>3. Told(u)
          BY <1>0, <4>1, <4>2, ToldNow
        <4>4. QED
          BY <4>1, <4>3
      <3>3. QED
        BY <1>6, <3>1, <3>2 DEF VisitStep
    <2>3. QED
      BY <2>0, <2>1, <2>2 DEF CreditsInv, Told, upstream
  <1>7. CASE Pass \/ UNCHANGED allVars
    BY <1>1, <1>7 DEF Pass, allVars, reads
  <1>8. QED
    BY <1>3, <1>4, <1>5, <1>6, <1>7 DEF NextReads

\* No answer offers a credit that its usage shows as spent, whoever has read
\* the usage and whatever was reset between the usage and the details.
THEOREM CreditsAgreeWithUsage == SpecReads => []NoSpentCreditOffered
  <1>1. ReadsInv /\ CreditsInv => NoSpentCreditOffered
    BY DEF ReadsInv, IInv, TypeOK, CreditsInv, Told, NoSpentCreditOffered
  <1>2. InitReads => CreditsInv
    BY InitCreditsInv
  <1>3. ReadsInv /\ CreditsInv /\ [NextReads]_allVars => CreditsInv'
    BY CreditsStep
  <1>4. QED
    BY <1>1, <1>2, <1>3, ReadsInductive, PTL DEF SpecReads

-----------------------------------------------------------------------------
(***************************************************************************)
(* How old usage can be.  A flight carries usage of a native flight: its   *)
(* own, or that of one whose lifetime in the cache was not over when it    *)
(* began itself.  What is published carries its usage for good.            *)
(***************************************************************************)
Carries(f) ==
    LET g == source[f] IN
    /\ g \in Flights
    /\ flight[g].key = NativeKey
    /\ source[g] = g
    /\ span[g].from <= fetched[g].at
    /\ fetched[f].at = fetched[g].at
    /\ g # f => flight[g].done /\ span[f].from < span[g].to + TTL[NativeKey]

\* A nested read that waits began before what it waits for is published, and
\* one that has been answered began while the native entry could still live.
ReaderLag(r) ==
    LET f == joined[Outer(r)]
        g == joined[Inner(r)] IN
    /\ pc[Inner(r)] \notin {"idle", "lookup"} => TTL[NativeKey] # 0
    /\ r \in nested /\ pc[Inner(r)] = "wait" /\ flight[g].done => span[f].from <= span[g].to
    /\ r \in nested /\ pc[Inner(r)] = "idle" => span[f].from < span[g].to + TTL[NativeKey]

SpansSound ==
    /\ span \in [Flights -> [from : Nat, to : Nat]]
    /\ \A f \in Flights : f <= nflights => span[f].from <= now
    /\ \A f \in Flights : flight[f].done => f <= nflights
    /\ \A k \in Held(entries) : entries[k].expiresAt = span[entries[k].flight].to + TTL[k]

Sourced ==
    /\ \A f \in Flights : flight[f].done /\ flight[f].outcome = "ok" => Carries(f)
    /\ \A c \in Callers : pc[c] = "publish" /\ result[c] = "ok" => Carries(joined[c])

Lag == SpansSound /\ Sourced /\ \A r \in Readers : ReaderLag(r)

LagInv == ReadsInv /\ CreditsInv /\ Lag

\* Times are natural numbers, and what is done or about to be published is a
\* flight that exists.
LEMMA LagTypes ==
    ASSUME LagInv
    PROVE  /\ now \in Nat /\ nflights \in Nat
           /\ \A f \in Flights : /\ f \in Nat
                                 /\ fetched[f].at \in Nat
                                 /\ span[f].from \in Nat /\ span[f].to \in Nat
                                 /\ flight[f].done => f <= nflights
           /\ \A k \in Keys : TTL[k] \in Nat
           /\ NativeKey \in Keys /\ ResourceKey \in Keys
  <1>1. \A f \in Flights : f \in Nat
    BY CacheBounds DEF Flights
  <1>2. QED
    BY <1>1, CacheBounds, TwoKeys
       DEF LagInv, Lag, SpansSound, ReadsInv, IInv, TypeOK, CreditsInv, Told

\* What a step does to the flights: register one, publish one, give one that
\* is loading its usage, or nothing.
Registers == /\ nflights' = nflights + 1
             /\ nflights' \in Flights
             /\ span' = [span EXCEPT ![nflights'].from = now]
             /\ \A f \in Flights \ {nflights'} : flight'[f] = flight[f]
             /\ ~flight'[nflights'].done
             /\ UNCHANGED <<now, source, fetched>>

Publishes(c) == /\ pc[c] = "publish"
                /\ flight' = [flight EXCEPT ![joined[c]].done = TRUE,
                                            ![joined[c]].outcome = result[c]]
                /\ span' = [span EXCEPT ![joined[c]].to = now]
                /\ UNCHANGED <<now, nflights, source, fetched>>

Loads(c) == /\ pc[c] = "load"
            /\ \A f \in Flights \ {joined[c]} : source'[f] = source[f] /\ fetched'[f] = fetched[f]
            /\ UNCHANGED <<now, nflights, flight, span>>

Passes == now' \in Nat /\ now <= now' /\ UNCHANGED <<nflights, flight, span, source, fetched>>

LEMMA StepOfFlights ==
    ASSUME LagInv, [NextReads]_allVars
    PROVE  Registers \/ Passes \/ \E c \in Callers : Publishes(c) \/ Loads(c)
  <1>t. now \in Nat /\ nflights \in Nat /\ flight \in [Flights -> FlightRec \union {NoFlight}]
    BY DEF LagInv, ReadsInv, IInv, TypeOK
  <1>1. ASSUME NEW r \in Readers, ReadStep(r) PROVE Passes \/ \E c \in Callers : Loads(c)
    <2>0. Inner(r) \in Callers /\ Outer(r) \in Callers
      BY CallersOfReader
    <2>1. CASE ResourceRequest(r) \/ NativeRequest(r) \/ NestedRequest(r)
      BY <1>t, <2>1
         DEF ResourceRequest, NativeRequest, NestedRequest, Begin, Passes, reads, cache
    <2>2. CASE \E o \in {"ok", "error"} : ReadUsage(r, o)
      <3>1. Loads(Inner(r))
        BY <2>2 DEF ReadUsage, LoadReturns, Fetch, Loads, cache, LagInv, CreditsInv, ReadsInv,
                    ReadsTypeOK
      <3>2. QED
        BY <2>0, <3>1
    <2>3. CASE FinishResource(r)
      <3>1. Loads(Outer(r))
        BY <2>3 DEF FinishResource, LoadReturns, Fetch, Loads, cache, LagInv, CreditsInv, ReadsInv,
                    ReadsTypeOK
      <3>2. QED
        BY <2>0, <3>1
    <2>4. QED
      BY <1>1, <2>1, <2>2, <2>3 DEF ReadStep
  <1>2. ASSUME NEW c \in Callers, CacheStep(c) PROVE Registers \/ Passes \/ Publishes(c)
    <2>1. CASE Hit(c) \/ Join(c) \/ Wake(c)
      BY <1>t, <1>2, <2>1 DEF CacheStep, Hit, Join, Wake, Lead, Publish, Passes, cache
    <2>2. CASE Lead(c)
      <3>1. span' = [span EXCEPT ![nflights + 1].from = now]
        BY <1>2, <2>2 DEF CacheStep, Hit, Join, Wake, Lead, Publish
      <3>2. QED
        BY <1>t, <1>2, <2>2, <3>1 DEF CacheStep, Lead, Registers
    <2>3. CASE Publish(c)
      <3>1. span' = [span EXCEPT ![joined[c]].to = now]
        BY <1>2, <2>3 DEF CacheStep, Hit, Join, Wake, Lead, Publish
      <3>2. QED
        BY <1>2, <2>3, <3>1 DEF CacheStep, Publish, Close, Publishes
    <2>4. QED
      BY <1>2, <2>1, <2>2, <2>3 DEF CacheStep
  <1>3. ASSUME NEW s \in Resetters, ResetStep(s) PROVE Passes
    BY <1>t, <1>3 DEF ResetStep, BeginReset, RefuseReset, ChooseCredit, Consume, ConsumeFails,
                      InvalidateBeforeConsume, Invalidate, Passes, reads, vars, cache
  <1>4. CASE Pass
    BY <1>t, <1>4 DEF Pass, Tick, Passes, reads, cache
  <1>5. ASSUME NEW v \in Visitors, VisitStep(v) PROVE Passes
    BY <1>t, <1>5 DEF VisitStep, VisitUsage, VisitDetails, Passes, reads, vars, cache
  <1>6. CASE UNCHANGED allVars
    BY <1>t, <1>6 DEF allVars, Passes, reads, vars, cache
  <1>7. QED
    BY <1>1, <1>2, <1>3, <1>4, <1>5, <1>6 DEF NextReads

\* A flight keeps its key and its beginning; what has been published, or is
\* about to be, keeps its usage.
LEMMA FlightsKept ==
    ASSUME LagInv, [NextReads]_allVars, NEW f \in Flights, f <= nflights
    PROVE  /\ flight'[f].key = flight[f].key
           /\ span'[f].from = span[f].from
           /\ flight[f].done => flight'[f] = flight[f] /\ span'[f].to = span[f].to
           /\ flight[f].done \/ (\E c \in Callers : pc[c] = "publish" /\ joined[c] = f)
                  => source'[f] = source[f] /\ fetched'[f] = fetched[f]
  <1>t. /\ nflights \in Nat /\ f \in Nat
        /\ span \in [Flights -> [from : Nat, to : Nat]]
        /\ flight \in [Flights -> FlightRec \union {NoFlight}]
    BY LagTypes DEF LagInv, Lag, SpansSound, ReadsInv, IInv, TypeOK
  <1>1. CASE Registers
    BY <1>t, <1>1 DEF Registers
  <1>2. CASE Passes
    BY <1>2 DEF Passes
  <1>3. ASSUME NEW c \in Callers, Publishes(c)
        PROVE
           /\ flight'[f].key = flight[f].key
           /\ span'[f].from = span[f].from
           /\ flight[f].done => flight'[f] = flight[f] /\ span'[f].to = span[f].to
           /\ source'[f] = source[f] /\ fetched'[f] = fetched[f]
    <2>1. joined[c] \in Flights /\ ~flight[joined[c]].done
      BY <1>3 DEF Publishes, LagInv, ReadsInv, IInv, LeadersSound, Leads
    <2>2. flight[joined[c]] \in FlightRec
      BY <1>3, <2>1, <1>t, NoneIsNoKey
         DEF Publishes, LagInv, ReadsInv, IInv, LeadersSound, Leads, CallsSound, NoFlight
    <2>3. QED
      BY <1>t, <1>3, <2>1, <2>2 DEF Publishes, FlightRec
  <1>4. ASSUME NEW c \in Callers, Loads(c)
        PROVE
           /\ UNCHANGED <<flight, span>>
           /\ flight[f].done \/ (\E d \in Callers : pc[d] = "publish" /\ joined[d] = f)
                  => source'[f] = source[f] /\ fetched'[f] = fetched[f]
    <2>1. ~flight[joined[c]].done /\ \A d \in Callers : pc[d] = "publish" => joined[d] # joined[c]
      BY <1>4 DEF Loads, LagInv, ReadsInv, IInv, LeadersSound, Leads
    <2>2. QED
      BY <1>4, <2>1 DEF Loads
  <1>5. CASE \E c \in Callers : Publishes(c)
    <2>1. PICK c \in Callers : Publishes(c)
      BY <1>5
    <2>2. QED
      BY <1>3, <2>1
  <1>6. CASE \E c \in Callers : Loads(c)
    <2>1. PICK c \in Callers : Loads(c)
      BY <1>6
    <2>2. QED
      BY <1>4, <2>1
  <1>7. QED
    BY <1>1, <1>2, <1>5, <1>6, StepOfFlights

LEMMA CarriesKept ==
    ASSUME LagInv, [NextReads]_allVars, NEW f \in Flights, Carries(f),
           flight[f].done \/ \E c \in Callers : pc[c] = "publish" /\ joined[c] = f
    PROVE  Carries(f)'
  <1> DEFINE g == source[f]
  <1>1. f <= nflights
    BY DEF LagInv, Lag, SpansSound, ReadsInv, IInv, LeadersSound, Leads
  <1>2. g \in Flights /\ (g # f => flight[g].done) /\ g <= nflights
    BY <1>1 DEF Carries, LagInv, Lag, SpansSound
  <1>3. source'[f] = g /\ fetched'[f] = fetched[f] /\ span'[f].from = span[f].from
    BY <1>1, FlightsKept
  <1>4. /\ flight'[g].key = flight[g].key
        /\ span'[g].from = span[g].from
        /\ g # f => flight'[g].done /\ span'[g].to = span[g].to
        /\ source'[g] = source[g] /\ fetched'[g] = fetched[g]
    BY <1>2, FlightsKept
  <1>5. QED
    BY <1>2, <1>3, <1>4 DEF Carries

\* What a step does to one call: nothing, begin it, end its load, or a step
\* of get.
LEMMA CallStep ==
    ASSUME LagInv, [NextReads]_allVars, NEW c \in Callers
    PROVE  \/ pc'[c] = pc[c] /\ joined'[c] = joined[c] /\ result'[c] = result[c]
           \/ pc[c] = "idle" /\ pc'[c] = "lookup"
           \/ CacheStep(c)
           \/ /\ pc[c] = "load" /\ pc'[c] = "publish" /\ joined'[c] = joined[c]
              /\ \E r \in Readers : \/ c = Inner(r) /\ ReadUsage(r, result'[c])
                                    \/ c = Outer(r) /\ FinishResource(r)
  <1> DEFINE Same(d) == pc'[d] = pc[d] /\ joined'[d] = joined[d] /\ result'[d] = result[d]
  <1>t. /\ pc \in [Callers -> {"idle", "lookup", "load", "publish", "wait"}]
        /\ joined \in [Callers -> Flights \union {0}]
        /\ result \in [Callers -> Results]
    BY DEF LagInv, ReadsInv, IInv, TypeOK
  <1>1. ASSUME NEW r \in Readers, ReadStep(r)
        PROVE  \/ Same(c) \/ (pc[c] = "idle" /\ pc'[c] = "lookup")
               \/ /\ pc[c] = "load" /\ pc'[c] = "publish" /\ joined'[c] = joined[c]
                  /\ \/ c = Inner(r) /\ ReadUsage(r, result'[c])
                     \/ c = Outer(r) /\ FinishResource(r)
    <2>1. CASE ResourceRequest(r) \/ NativeRequest(r) \/ NestedRequest(r)
      BY <1>t, <2>1 DEF ResourceRequest, NativeRequest, NestedRequest, Begin
    <2>2. ASSUME NEW o \in {"ok", "error"}, ReadUsage(r, o)
          PROVE  Same(c) \/ (/\ pc[c] = "load" /\ pc'[c] = "publish" /\ joined'[c] = joined[c]
                             /\ c = Inner(r) /\ result'[c] = o)
      BY <1>t, <2>2 DEF ReadUsage, LoadReturns
    <2>3. CASE FinishResource(r)
      BY <1>t, <2>3 DEF FinishResource, LoadReturns
    <2>4. QED
      BY <1>1, <2>1, <2>2, <2>3 DEF ReadStep
  <1>2. ASSUME NEW d \in Callers, CacheStep(d), d # c PROVE Same(c)
    BY <1>t, <1>2 DEF CacheStep, Hit, Join, Lead, Publish, Wake
  <1>3. ASSUME NEW s \in Resetters, ResetStep(s) PROVE Same(c)
    BY <1>3 DEF ResetStep, BeginReset, RefuseReset, ChooseCredit, Consume, ConsumeFails,
                InvalidateBeforeConsume, Invalidate, vars, call
  <1>4. CASE Pass \/ UNCHANGED allVars
    BY <1>4 DEF Pass, Tick, allVars, vars, call
  <1>5. ASSUME NEW v \in Visitors, VisitStep(v) PROVE Same(c)
    BY <1>5 DEF VisitStep, VisitUsage, VisitDetails, vars, call
  <1>6. QED
    BY <1>1, <1>2, <1>3, <1>4, <1>5 DEF NextReads

\* What a step does to the entries: they are dropped, or a read is stored when
\* it is published.
LEMMA EntriesStep ==
    ASSUME LagInv, [NextReads]_allVars, NEW k \in Keys
    PROVE  \/ entries'[k] \in {entries[k], NoEntry}
           \/ \E c \in Callers : /\ Publishes(c)
                                 /\ joined[c] \in Flights
                                 /\ entries'[k] = [flight |-> joined[c], expiresAt |-> now + TTL[k]]
  <1>1. ASSUME NEW c \in Callers, CacheStep(c)
        PROVE  \/ entries'[k] \in {entries[k], NoEntry}
               \/ /\ Publishes(c)
                  /\ joined[c] \in Flights
                  /\ entries'[k] = [flight |-> joined[c], expiresAt |-> now + TTL[k]]
    <2>0. ask[c] \in Keys
      BY <1>1 DEF CacheStep, Hit, Join, Lead, Publish, Wake, LagInv, ReadsInv, IInv, CallsSound
    <2>1. CASE Hit(c) \/ Wake(c)
      BY <2>1 DEF Hit, Wake, cache
    <2>2. CASE Join(c) \/ Lead(c)
      BY <2>0, <2>2 DEF Join, Lead, LagInv, ReadsInv, IInv, TypeOK
    <2>3. CASE Publish(c)
      <3>1. span' = [span EXCEPT ![joined[c]].to = now]
        BY <1>1, <2>3 DEF CacheStep, Hit, Join, Wake, Lead, Publish
      <3>2. Publishes(c)
        BY <1>1, <2>3, <3>1 DEF CacheStep, Publish, Close, Publishes
      <3>3. joined[c] \in Flights
        BY <2>3 DEF Publish, LagInv, ReadsInv, IInv, LeadersSound, Leads
      <3>4. entries' = entries \/ Store(ask[c], joined[c])
        BY <2>3 DEF Publish, Keep
      <3>5. Store(ask[c], joined[c]) =>
                /\ entries'[ask[c]] = [flight |-> joined[c], expiresAt |-> now + TTL[ask[c]]]
                /\ \A j \in Keys \ {ask[c]} : entries'[j] = entries[j] \/ entries'[j] = NoEntry
        BY <2>0, <3>3, StoreEffect DEF LagInv, ReadsInv, IInv
      <3>6. QED
        BY <3>2, <3>3, <3>4, <3>5
    <2>4. QED
      BY <1>1, <2>1, <2>2, <2>3 DEF CacheStep
  <1>2. ASSUME NEW s \in Resetters, ResetStep(s) PROVE entries'[k] \in {entries[k], NoEntry}
    BY <1>2 DEF ResetStep, BeginReset, RefuseReset, ChooseCredit, Consume, ConsumeFails,
                InvalidateBeforeConsume, Invalidate, Dropped, vars, cache
  <1>3. ASSUME NEW r \in Readers, ReadStep(r) PROVE entries' = entries
    BY <1>3 DEF ReadStep, ResourceRequest, NativeRequest, NestedRequest, Begin, ReadUsage,
                FinishResource, LoadReturns, cache
  <1>4. CASE Pass \/ UNCHANGED allVars
    BY <1>4 DEF Pass, Tick, allVars, vars, cache
  <1>5. ASSUME NEW v \in Visitors, VisitStep(v) PROVE entries' = entries
    BY <1>5 DEF VisitStep, VisitUsage, VisitDetails, vars, cache
  <1>6. QED
    BY <1>1, <1>2, <1>3, <1>4, <1>5 DEF NextReads

LEMMA SpansStep ==
    ASSUME LagInv, [NextReads]_allVars
    PROVE  SpansSound'
  <1>t. /\ now \in Nat /\ nflights \in Nat
        /\ \A f \in Flights : f \in Nat
        /\ span \in [Flights -> [from : Nat, to : Nat]]
        /\ flight \in [Flights -> FlightRec \union {NoFlight}]
    BY LagTypes DEF LagInv, Lag, SpansSound, ReadsInv, IInv, TypeOK
  <1>o. /\ \A f \in Flights : f <= nflights => span[f].from <= now
        /\ \A f \in Flights : flight[f].done => f <= nflights
    BY DEF LagInv, Lag, SpansSound
  <1>1. /\ span' \in [Flights -> [from : Nat, to : Nat]]
        /\ \A f \in Flights : f <= nflights' => span'[f].from <= now'
        /\ \A f \in Flights : flight'[f].done => f <= nflights'
    <2>1. CASE Registers
      <3>1. nflights' \in Flights /\ nflights' = nflights + 1 /\ now' = now
        BY <2>1 DEF Registers
      <3>2. /\ span' \in [Flights -> [from : Nat, to : Nat]]
            /\ span'[nflights'].from = now
            /\ \A f \in Flights \ {nflights'} : span'[f] = span[f]
        BY <1>t, <2>1, <3>1 DEF Registers
      <3>3. \A f \in Flights : f <= nflights' => f = nflights' \/ f <= nflights
        BY <1>t, <3>1
      <3>4. \A f \in Flights : f <= nflights' => span'[f].from <= now'
        <4> SUFFICES ASSUME NEW f \in Flights, f <= nflights' PROVE span'[f].from <= now'
          OBVIOUS
        <4>1. CASE f = nflights'
          BY <1>t, <3>1, <3>2, <4>1
        <4>2. CASE f # nflights'
          BY <1>o, <3>1, <3>2, <3>3, <4>2
        <4>3. QED
          BY <4>1, <4>2
      <3>5. \A f \in Flights : flight'[f].done => f <= nflights'
        BY <1>t, <1>o, <2>1, <3>1 DEF Registers
      <3>6. QED
        BY <3>2, <3>4, <3>5
    <2>2. CASE Passes
      <3>1. ASSUME NEW f \in Flights, f <= nflights PROVE span[f].from <= now'
        <4>1. span[f].from \in Nat /\ span[f].from <= now
          BY <1>t, <1>o, <3>1
        <4>2. QED
          BY <1>t, <2>2, <4>1 DEF Passes
      <3>2. QED
        BY <1>t, <1>o, <2>2, <3>1 DEF Passes
    <2>3. ASSUME NEW c \in Callers, Publishes(c)
          PROVE
             /\ span' \in [Flights -> [from : Nat, to : Nat]]
             /\ \A f \in Flights : f <= nflights' => span'[f].from <= now'
             /\ \A f \in Flights : flight'[f].done => f <= nflights'
      <3>1. joined[c] \in Flights /\ joined[c] <= nflights
        BY <2>3 DEF Publishes, LagInv, ReadsInv, IInv, LeadersSound, Leads
      <3>2. QED
        BY <1>t, <1>o, <2>3, <3>1 DEF Publishes
    <2>4. ASSUME NEW c \in Callers, Loads(c) PROVE UNCHANGED <<now, nflights, flight, span>>
      BY <2>4 DEF Loads
    <2>5. QED
      BY <1>t, <1>o, <2>1, <2>2, <2>3, <2>4, StepOfFlights
  <1>2. ASSUME NEW k \in Held(entries)'
        PROVE  entries'[k].expiresAt = span'[entries'[k].flight].to + TTL[k]
    <2>0. k \in Keys /\ entries'[k] # NoEntry
      BY <1>2 DEF Held
    <2>1. CASE entries'[k] = entries[k]
      <3>1. k \in Held(entries)
        BY <2>0, <2>1 DEF Held
      <3>2. entries[k].flight \in Flights /\ flight[entries[k].flight].done
        BY <2>0, <2>1 DEF LagInv, ReadsInv, IInv, EntriesSound
      <3>3. span'[entries[k].flight].to = span[entries[k].flight].to
        BY <1>o, <3>2, FlightsKept
      <3>4. QED
        BY <2>1, <3>1, <3>3 DEF LagInv, Lag, SpansSound
    <2>2. CASE entries'[k] # entries[k]
      <3>1. PICK c \in Callers : /\ Publishes(c)
                                 /\ joined[c] \in Flights
                                 /\ entries'[k] = [flight |-> joined[c], expiresAt |-> now + TTL[k]]
        BY <2>0, <2>2, EntriesStep
      <3>2. span'[joined[c]].to = now
        BY <1>t, <3>1 DEF Publishes
      <3>3. QED
        BY <3>1, <3>2
    <2>3. QED
      BY <2>1, <2>2
  <1>3. QED
    BY <1>1, <1>2 DEF SpansSound

\* The usage a load ends with.
LEMMA UsageCarries ==
    ASSUME LagInv, NEW r \in Readers, ReadUsage(r, "ok")
    PROVE  Carries(joined[Inner(r)])'
  <1>0. PICK f : f = joined[Inner(r)]
    OBVIOUS
  <1>1. /\ f \in Flights /\ f <= nflights
        /\ flight[f].key = NativeKey
    BY <1>0, CallersOfReader
       DEF ReadUsage, LoadReturns, LagInv, ReadsInv, IInv, LeadersSound, Leads, RolesFixed
  <1>2. /\ source' = [source EXCEPT ![f] = f]
        /\ fetched' = [fetched EXCEPT ![f] = Usage(now)]
        /\ UNCHANGED <<flight, span, joined>>
    BY <1>0 DEF ReadUsage, LoadReturns, Fetch, cache
  <1>3. source'[f] = f /\ fetched'[f].at = now
    BY <1>1, <1>2 DEF LagInv, CreditsInv, ReadsInv, ReadsTypeOK, Usage
  <1>4. span[f].from <= now
    BY <1>1 DEF LagInv, Lag, SpansSound
  <1>5. Carries(f)'
    BY <1>1, <1>2, <1>3, <1>4 DEF Carries
  <1>6. QED
    BY <1>0, <1>2, <1>5

LEMMA ResourceCarries ==
    ASSUME LagInv, NEW r \in Readers, FinishResource(r), result'[Outer(r)] = "ok"
    PROVE  Carries(joined[Outer(r)])'
  <1>d. PICK f, g : f = joined[Outer(r)] /\ g = joined[Inner(r)]
    OBVIOUS
  <1>0. Outer(r) \in Callers /\ Inner(r) \in Callers /\ Inner(r) # Outer(r)
    BY CallersOfReader
  <1>1. /\ pc[Outer(r)] = "load" /\ r \in nested /\ pc[Inner(r)] = "idle"
        /\ UNCHANGED <<flight, span, joined>>
    BY DEF FinishResource, LoadReturns, cache
  <1>2. PICK o \in ResourceOutcomes(result[Inner(r)]) :
            /\ LoadReturns(Outer(r), o)
            /\ \E u \in WithDetails(fetched[g], o) : Fetch(f, source[g], u)
    BY <1>d DEF FinishResource
  <1>3. PICK u \in WithDetails(fetched[g], o) : Fetch(f, source[g], u)
    BY <1>2
  <1>4. o = "ok" /\ result[Inner(r)] = "ok"
    <2>1. o = "ok"
      BY <1>0, <1>2 DEF LoadReturns, LagInv, ReadsInv, IInv, TypeOK
    <2>2. QED
      BY <2>1 DEF ResourceOutcomes
  <1>5. /\ f \in Flights /\ f <= nflights /\ flight[f].key = ResourceKey
    BY <1>d, <1>0, <1>1 DEF LagInv, ReadsInv, IInv, LeadersSound, Leads, RolesFixed
  <1>6. /\ g \in Flights /\ g <= nflights
        /\ flight[g].key = NativeKey
        /\ flight[g].done /\ flight[g].outcome = "ok"
    BY <1>d, <1>0, <1>1, <1>4 DEF LagInv, ReadsInv, RolesFixed, IInv, TypeOK, AnswersSound
  <1>7. f # g
    BY <1>5, <1>6, TwoKeys
  <1>8. Carries(g)
    BY <1>6 DEF LagInv, Lag, Sourced
  <1>9. source[g] = g
    BY <1>6, <1>8, CacheBounds DEF Carries, LagInv, ReadsInv, NativeSources, Flights
  <1>10. u.at = fetched[g].at
    <2>1. Told(fetched[g])
      BY <1>6 DEF LagInv, CreditsInv
    <2>2. QED
      BY <1>3, <2>1 DEF WithDetails, Told
  <1>11. /\ source'[f] = g /\ source'[g] = g
         /\ fetched'[f].at = fetched[g].at /\ fetched'[g] = fetched[g]
    BY <1>3, <1>5, <1>6, <1>7, <1>9, <1>10
       DEF Fetch, LagInv, CreditsInv, ReadsInv, ReadsTypeOK
  <1>12. span[f].from < span[g].to + TTL[NativeKey]
    BY <1>d, <1>1 DEF LagInv, Lag, ReaderLag
  <1>13. Carries(f)'
    BY <1>1, <1>6, <1>8, <1>9, <1>11, <1>12 DEF Carries
  <1>14. QED
    BY <1>d, <1>1, <1>13

LEMMA SourcedStep ==
    ASSUME LagInv, [NextReads]_allVars
    PROVE  Sourced'
  <1>1. ASSUME NEW f \in Flights, flight'[f].done, flight'[f].outcome = "ok"
        PROVE  Carries(f)'
    <2>1. CASE flight[f].done
      <3>1. flight'[f] = flight[f]
        BY <2>1, FlightsKept DEF LagInv, Lag, SpansSound
      <3>2. Carries(f)
        BY <1>1, <2>1, <3>1 DEF LagInv, Lag, Sourced
      <3>3. QED
        BY <2>1, <3>2, CarriesKept
    <2>2. CASE ~flight[f].done
      <3>1. flight'[f] # flight[f]
        BY <1>1, <2>2
      <3>2. ~Registers /\ ~Passes /\ \A c \in Callers : ~Loads(c)
        BY <1>1, <3>1 DEF Registers, Passes, Loads
      <3>3. PICK c \in Callers : Publishes(c)
        BY <3>2, StepOfFlights
      <3>4. flight \in [Flights -> FlightRec \union {NoFlight}]
        BY DEF LagInv, ReadsInv, IInv, TypeOK
      <3>5. joined[c] \in Flights /\ flight[joined[c]] \in FlightRec
        BY <3>3, <3>4, NoneIsNoKey
           DEF Publishes, LagInv, ReadsInv, IInv, LeadersSound, Leads, CallsSound, NoFlight
      <3>6. joined[c] = f
        BY <3>1, <3>3, <3>4 DEF Publishes
      <3>7. result[c] = "ok"
        BY <1>1, <3>3, <3>4, <3>5, <3>6 DEF Publishes, FlightRec
      <3>8. pc[c] = "publish"
        BY <3>3 DEF Publishes
      <3>9. Carries(f)
        BY <3>6, <3>7, <3>8 DEF LagInv, Lag, Sourced
      <3>10. QED
        BY <3>6, <3>8, <3>9, CarriesKept
    <2>3. QED
      BY <2>1, <2>2
  <1>2. ASSUME NEW c \in Callers, pc'[c] = "publish", result'[c] = "ok"
        PROVE  Carries(joined[c])'
    <2>1. CASE pc'[c] = pc[c] /\ joined'[c] = joined[c] /\ result'[c] = result[c]
      <3>1. PICK f : f = joined[c]
        OBVIOUS
      <3>2. f \in Flights /\ Carries(f)
        BY <1>2, <2>1, <3>1 DEF LagInv, Lag, Sourced, ReadsInv, IInv, LeadersSound, Leads
      <3>3. Carries(f)'
        BY <1>2, <2>1, <3>1, <3>2, CarriesKept
      <3>4. QED
        BY <2>1, <3>1, <3>3
    <2>2. ASSUME CacheStep(c) PROVE FALSE
      BY <1>2, <2>2 DEF CacheStep, Hit, Join, Lead, Publish, Wake, LagInv, ReadsInv, IInv, TypeOK
    <2>3. ASSUME NEW r \in Readers, c = Inner(r), ReadUsage(r, result'[c])
          PROVE  Carries(joined[c])'
      BY <1>2, <2>3, UsageCarries
    <2>4. ASSUME NEW r \in Readers, c = Outer(r), FinishResource(r)
          PROVE  Carries(joined[c])'
      BY <1>2, <2>4, ResourceCarries
    <2>5. QED
      BY <1>2, <2>1, <2>2, <2>3, <2>4, CallStep
  <1>3. QED
    BY <1>1, <1>2 DEF Sourced

\* Where a nested read stands when its flight is published, joined or hit.
LEMMA ReaderStep ==
    ASSUME LagInv, [NextReads]_allVars, NEW r \in Readers
    PROVE  ReaderLag(r)'
  <1> DEFINE i == Inner(r)
             o == Outer(r)
  <1>0. i \in Callers /\ o \in Callers /\ i # o
    BY CallersOfReader
  <1>t. /\ now \in Nat /\ nflights \in Nat
        /\ span \in [Flights -> [from : Nat, to : Nat]]
        /\ TTL[NativeKey] \in Nat
        /\ pc \in [Callers -> {"idle", "lookup", "load", "publish", "wait"}]
        /\ joined \in [Callers -> Flights \union {0}]
    BY LagTypes DEF LagInv, Lag, SpansSound, ReadsInv, IInv, TypeOK
  <1>l. ReaderLag(r)
    BY DEF LagInv, Lag
  <1>k. pc[i] # "idle" => ask[i] = NativeKey
    BY DEF LagInv, ReadsInv, RolesFixed
  <1>1. pc'[i] \notin {"idle", "lookup"} => TTL[NativeKey] # 0
    <2>1. CacheStep(i) /\ pc'[i] \notin {"idle", "lookup"} => TTL[NativeKey] # 0
      BY <1>0, <1>t, <1>k, <1>l
         DEF CacheStep, Hit, Join, Lead, Publish, Wake, Bypasses, ReaderLag
    <2>2. pc[i] = "load" => TTL[NativeKey] # 0
      BY <1>l DEF ReaderLag
    <2>3. QED
      BY <1>0, <1>l, <2>1, <2>2, CallStep DEF ReaderLag
  <1>2. ASSUME r \in nested', pc'[i] \in {"idle", "wait"}
        PROVE
           /\ pc'[i] = "wait" /\ flight'[joined'[i]].done => span'[joined'[o]].from <= span'[joined'[i]].to
           /\ pc'[i] = "idle" => span'[joined'[o]].from < span'[joined'[i]].to + TTL[NativeKey]
    <2>1. r \in nested
      <3>1. r \in nested' /\ r \notin nested => NestedRequest(r)
        BY DEF NextReads, ReadStep, ResourceRequest, NativeRequest, NestedRequest, ReadUsage,
               FinishResource, CacheStep, ResetStep, BeginReset, RefuseReset, ChooseCredit,
               InvalidateBeforeConsume, Consume, ConsumeFails, VisitStep, VisitUsage,
               VisitDetails, Pass, reads, allVars
      <3>2. NestedRequest(r) => pc'[i] = "lookup"
        BY <1>0, <1>t DEF NestedRequest, Begin
      <3>3. QED
        BY <1>2, <3>1, <3>2
    <2>2. pc[o] = "load" /\ joined'[o] = joined[o]
      <3>1. pc[o] = "load"
        BY <2>1 DEF LagInv, ReadsInv, RolesFixed
      <3>2. ~CacheStep(o)
        BY <3>1 DEF CacheStep, Hit, Join, Lead, Publish, Wake
      <3>3. QED
        BY <1>0, <3>1, <3>2, CallStep
    <2>f. PICK f : f = joined[o]
      OBVIOUS
    <2>3. /\ f \in Flights /\ joined'[o] = f
          /\ span'[f].from = span[f].from
          /\ span[f].from \in Nat /\ span[f].from <= now
      <3>1. f \in Flights /\ f <= nflights
        BY <1>0, <2>2, <2>f DEF LagInv, ReadsInv, IInv, LeadersSound, Leads
      <3>2. span[f].from <= now
        BY <3>1 DEF LagInv, Lag, SpansSound
      <3>3. QED
        BY <1>t, <2>2, <2>f, <3>1, <3>2, FlightsKept
    <2>4. CASE pc'[i] = pc[i] /\ joined'[i] = joined[i]
      <3>g. PICK g : g = joined[i]
        OBVIOUS
      <3>1. g \in Flights /\ g <= nflights
        BY <1>0, <1>2, <1>t, <2>1, <2>4, <3>g
           DEF LagInv, ReadsInv, RolesFixed, IInv, FollowersSound, AnswersSound
      <3>2. CASE flight[g].done
        <4>1. span'[g].to = span[g].to
          BY <3>1, <3>2, FlightsKept
        <4>2. QED
          BY <1>l, <1>2, <2>1, <2>3, <2>4, <2>f, <3>2, <3>g, <4>1 DEF ReaderLag
      <3>3. CASE ~flight[g].done
        <4>1. pc'[i] = "wait"
          BY <1>0, <1>2, <2>1, <2>4, <3>3, <3>g DEF LagInv, ReadsInv, RolesFixed, IInv, AnswersSound
        <4>2. ASSUME flight'[g].done PROVE span'[g].to = now
          <5>1. nflights \in Nat /\ g # nflights + 1
            BY <1>t, <3>1, LagTypes
          <5>2. ~Registers /\ ~Passes /\ \A c \in Callers : ~Loads(c)
            BY <3>1, <3>3, <4>2, <5>1 DEF Registers, Passes, Loads
          <5>3. PICK c \in Callers : Publishes(c)
            BY <5>2, StepOfFlights
          <5>4. flight \in [Flights -> FlightRec \union {NoFlight}]
            BY DEF LagInv, ReadsInv, IInv, TypeOK
          <5>5. joined[c] = g
            BY <3>1, <3>3, <4>2, <5>3, <5>4 DEF Publishes
          <5>6. QED
            BY <1>t, <3>1, <5>3, <5>5 DEF Publishes
        <4>3. QED
          BY <2>3, <2>4, <3>g, <4>1, <4>2
      <3>4. QED
        BY <3>2, <3>3
    <2>5. CASE CacheStep(i)
      <3>g. PICK g : g = joined'[i]
        OBVIOUS
      <3>1. CASE Hit(i)
        <4>0. NativeKey \in Keys /\ ask[i] = NativeKey
          BY <3>1, <1>k, KeysOfCredential DEF Hit
        <4>1. g = entries[NativeKey].flight /\ now < entries[NativeKey].expiresAt /\ pc'[i] = "idle"
          BY <1>0, <1>t, <3>1, <3>g, <4>0 DEF Hit, Live
        <4>2. NativeKey \in Held(entries)
          BY <1>t, <4>0, <4>1 DEF Held, NoEntry
        <4>3. g \in Flights /\ g <= nflights /\ flight[g].done
          BY <4>1, <4>2 DEF Held, LagInv, ReadsInv, IInv, EntriesSound
        <4>4. entries[NativeKey].expiresAt = span[g].to + TTL[NativeKey]
          BY <4>1, <4>2 DEF LagInv, Lag, SpansSound
        <4>5. span'[g].to = span[g].to /\ span[g].to \in Nat
          BY <1>t, <4>3, FlightsKept
        <4>6. span'[f].from < span'[g].to + TTL[NativeKey]
          BY <1>t, <2>3, <4>1, <4>4, <4>5
        <4>7. QED
          BY <2>3, <3>g, <4>1, <4>6
      <3>2. CASE Join(i)
        <4>0. NativeKey \in Keys /\ ask[i] = NativeKey
          BY <3>2, <1>k, KeysOfCredential DEF Join
        <4>1. pc'[i] = "wait" /\ ~flight'[joined'[i]].done
          BY <1>0, <1>t, <3>2, <4>0 DEF Join, Loading, LagInv, ReadsInv, IInv, BindingsCurrent
        <4>2. QED
          BY <4>1
      <3>3. CASE Lead(i)
        BY <1>0, <1>t, <1>2, <3>3 DEF Lead
      <3>4. CASE Publish(i)
        <4>1. /\ pc[i] = "publish" /\ pc'[i] = "idle" /\ g = joined[i] /\ g \in Flights
              /\ span' = [span EXCEPT ![joined[i]].to = now]
          BY <1>0, <1>t, <2>5, <3>4, <3>g
             DEF CacheStep, Hit, Join, Lead, Publish, Wake, LagInv, ReadsInv, IInv, LeadersSound, Leads
        <4>2. span'[g].to = now
          BY <1>t, <4>1
        <4>3. TTL[NativeKey] # 0
          BY <1>l, <4>1 DEF ReaderLag
        <4>4. span'[f].from < span'[g].to + TTL[NativeKey]
          BY <1>t, <2>3, <4>2, <4>3
        <4>5. QED
          BY <2>3, <3>g, <4>1, <4>4
      <3>5. CASE Wake(i)
        <4>1. /\ pc[i] = "wait" /\ pc'[i] = "idle" /\ g = joined[i] /\ g \in Flights
              /\ flight[g].done /\ span' = span
          BY <1>0, <1>t, <2>5, <3>5, <3>g
             DEF CacheStep, Hit, Join, Lead, Publish, Wake, LagInv, ReadsInv, IInv, FollowersSound
        <4>2. TTL[NativeKey] # 0 /\ span[f].from <= span[g].to
          BY <1>l, <2>1, <2>f, <4>1 DEF ReaderLag
        <4>3. span'[f].from < span'[g].to + TTL[NativeKey]
          <5>1. span[g].to \in Nat /\ span'[g].to = span[g].to
            BY <1>t, <4>1
          <5>2. QED
            BY <1>t, <2>3, <4>2, <5>1
        <4>4. QED
          BY <2>3, <3>g, <4>1, <4>3
      <3>6. QED
        BY <2>5, <3>1, <3>2, <3>3, <3>4, <3>5 DEF CacheStep
    <2>6. QED
      BY <1>0, <1>2, <2>4, <2>5, CallStep
  <1>3. QED
    BY <1>1, <1>2 DEF ReaderLag

LEMMA LagStep ==
    ASSUME LagInv, [NextReads]_allVars
    PROVE  Lag'
  BY SpansStep, SourcedStep, ReaderStep DEF Lag

\* The bound follows: a resource read began before the native entry it took
\* its usage from could expire, and an entry expires a TTL after its read.
LEMMA LagBound == LagInv => LagWithinTTLsAndReads
  <1> SUFFICES ASSUME LagInv, NEW k \in Held(entries),
                      NEW f, f = entries[k].flight, NEW g, g = source[f]
               PROVE  IF k = NativeKey
                      THEN entries[k].expiresAt <= fetched[f].at + Lasted(f) + TTL[k]
                      ELSE entries[k].expiresAt
                               < fetched[f].at + Lasted(g) + TTL[NativeKey] + Lasted(f) + TTL[k]
    BY DEF LagWithinTTLsAndReads
  <1>1. /\ k \in Keys /\ f \in Flights /\ flight[f].key = k
        /\ flight[f].done /\ flight[f].outcome = "ok" /\ f <= nflights
    BY DEF Held, LagInv, ReadsInv, IInv, EntriesSound
  <1>2. entries[k].expiresAt = span[f].to + TTL[k]
    BY DEF LagInv, Lag, SpansSound
  <1>3. Carries(f)
    BY <1>1 DEF LagInv, Lag, Sourced
  <1>4. /\ g \in Flights /\ flight[g].key = NativeKey
        /\ span[g].from <= fetched[f].at
        /\ g # f => span[f].from < span[g].to + TTL[NativeKey]
    BY <1>3 DEF Carries
  <1>5. /\ TTL[k] \in Nat /\ TTL[NativeKey] \in Nat /\ fetched[f].at \in Nat
        /\ span[f].from \in Nat /\ span[f].to \in Nat
        /\ span[g].from \in Nat /\ span[g].to \in Nat
    BY <1>1, <1>4, LagTypes
  <1>6. CASE k = NativeKey
    <2>1. g = f
      BY <1>1, <1>4, <1>6, CacheBounds DEF LagInv, ReadsInv, NativeSources, Flights
    <2>2. QED
      BY <1>2, <1>4, <1>5, <1>6, <2>1 DEF Lasted
  <1>7. CASE k # NativeKey
    <2>1. g # f
      BY <1>1, <1>4, <1>7
    <2>2. QED
      BY <1>2, <1>4, <1>5, <1>7, <2>1 DEF Lasted
  <1>8. QED
    BY <1>6, <1>7

\* An entry is never older than its TTLs and the reads that filled it allow:
\* whoever had read the usage, and however reads share one another.
THEOREM LagIsBounded == SpecReads => []LagWithinTTLsAndReads
  <1>1. InitReads => Lag
    <2> SUFFICES ASSUME InitReads PROVE Lag
      OBVIOUS
    <2>1. \A f \in Flights : f \in Nat /\ f > 0
      BY CacheBounds DEF Flights
    <2>2. SpansSound
      BY <2>1, CacheBounds DEF InitReads, Init, SpansSound, Held, NoSpan, NoFlight
    <2>3. Sourced /\ \A r \in Readers : ReaderLag(r)
      BY CallersOfReader DEF InitReads, Init, Sourced, ReaderLag, NoFlight
    <2>4. QED
      BY <2>2, <2>3 DEF Lag
  <1>2. InitReads => CreditsInv
    BY InitCreditsInv
  <1>3. ReadsInv /\ ReadsInv' /\ CreditsInv /\ Lag /\ [NextReads]_allVars => CreditsInv' /\ Lag'
    BY CreditsStep, LagStep DEF LagInv
  <1>4. ReadsInv /\ CreditsInv /\ Lag => LagWithinTTLsAndReads
    BY LagBound DEF LagInv
  <1>5. QED
    BY <1>1, <1>2, <1>3, <1>4, ReadsInductive, PTL DEF SpecReads
=============================================================================
