------------------------- MODULE QuotaCache_proofs -------------------------
(***************************************************************************)
(* Theorems about the quota read cache, for every set of keys and callers, *)
(* every TTL and every capacity.                                           *)
(***************************************************************************)
EXTENDS QuotaCache, FiniteSetTheorems, SequenceTheorems, TLAPS

(***************************************************************************)
(* The inductive invariant.  A flight is numbered when it is registered    *)
(* and from then on belongs to its key and to the caller that leads it     *)
(* until that caller publishes it; a binding or an entry of a key never    *)
(* refers to a flight that an invalidation of that key has overtaken.      *)
(***************************************************************************)
FlightsNumbered ==
    /\ \A f \in Flights : f <= nflights => flight[f].key \in Keys
    /\ \A f \in stale : f <= nflights
    /\ \A c \in Callers : seen[c] \subseteq stale

BindingsCurrent ==
    \A k \in Keys : inFlight[k] # 0 =>
        /\ inFlight[k] <= nflights
        /\ flight[inFlight[k]].key = k
        /\ ~flight[inFlight[k]].done
        /\ inFlight[k] \notin stale
        /\ entries[k] = NoEntry

EntriesSound ==
    \A k \in Keys : entries[k] # NoEntry =>
        /\ entries[k].flight \in Flights
        /\ entries[k].flight <= nflights
        /\ flight[entries[k].flight].key = k
        /\ flight[entries[k].flight].done
        /\ flight[entries[k].flight].outcome = "ok"
        /\ entries[k].flight \notin stale

Leads(c) == pc[c] \in {"load", "publish"}

LeadersSound ==
    \A c \in Callers : Leads(c) =>
        /\ joined[c] \in Flights
        /\ joined[c] <= nflights
        /\ flight[joined[c]].key = ask[c]
        /\ ~flight[joined[c]].done
        /\ joined[c] \notin seen[c]
        /\ \A d \in Callers : Leads(d) /\ joined[d] = joined[c] => d = c

FollowersSound ==
    \A c \in Callers : pc[c] = "wait" =>
        /\ joined[c] \in Flights
        /\ joined[c] <= nflights
        /\ flight[joined[c]].key = ask[c]
        /\ joined[c] \notin seen[c]

AnswersSound ==
    \A c \in Callers : pc[c] = "idle" /\ joined[c] # 0 =>
        /\ joined[c] <= nflights
        /\ flight[joined[c]].key = ask[c]
        /\ flight[joined[c]].done
        /\ flight[joined[c]].outcome = result[c]
        /\ joined[c] \notin seen[c]

CallsSound ==
    \A c \in Callers :
        /\ pc[c] # "idle" => ask[c] \in Keys
        /\ pc[c] = "lookup" => joined[c] = 0
        /\ pc[c] = "publish" => result[c] \in Outcomes

\* A running read that no invalidation has overtaken is still bound, so that
\* it will be joined by later misses and cached when it succeeds.
RunningIsBound ==
    \A f \in 1 .. nflights :
        Running(f) /\ f \notin stale => inFlight[flight[f].key] = f

IInv ==
    /\ TypeOK
    /\ FlightsNumbered
    /\ BindingsCurrent
    /\ EntriesSound
    /\ LeadersSound
    /\ FollowersSound
    /\ AnswersSound
    /\ CallsSound
    /\ RunningIsBound

-----------------------------------------------------------------------------
\* Making room leaves every entry as it was or drops it.
LEMMA RoomMadeDrops ==
    ASSUME NEW e, e \in [Keys -> Entry \union {NoEntry}], NEW r \in RoomMade(e)
    PROVE  /\ r \in [Keys -> Entry \union {NoEntry}]
           /\ \A k \in Keys : r[k] = e[k] \/ r[k] = NoEntry
  <1>1. CASE Cardinality(Held(e)) < MaxEntries
    BY <1>1 DEF RoomMade
  <1>2. CASE ~(Cardinality(Held(e)) < MaxEntries)
    <2>1. PICK j \in Oldest(e) : r = [e EXCEPT ![j] = NoEntry]
      BY <1>2 DEF RoomMade
    <2>2. QED
      BY <2>1
  <1>3. QED
    BY <1>1, <1>2

\* The purge leaves every entry as it was or drops it.
LEMMA PurgedDrops ==
    ASSUME entries \in [Keys -> Entry \union {NoEntry}]
    PROVE  /\ Purged \in [Keys -> Entry \union {NoEntry}]
           /\ \A k \in Keys : Purged[k] = entries[k] \/ Purged[k] = NoEntry
  BY DEF Purged

\* An entry that is absent is never live.
LEMMA LiveIsHeld ==
    ASSUME TypeOK, NEW k \in Keys, Live(k)
    PROVE  entries[k] \in Entry
  BY DEF TypeOK, Live, NoEntry, Entry

\* What storing a read does to the table.
LEMMA StoreEffect ==
    ASSUME TypeOK, NEW k \in Keys, NEW f \in Flights, Store(k, f)
    PROVE  /\ entries' \in [Keys -> Entry \union {NoEntry}]
           /\ entries'[k] = [flight |-> f, expiresAt |-> now + TTL[k]]
           /\ \A j \in Keys \ {k} : entries'[j] = entries[j] \/ entries'[j] = NoEntry
  <1>1. PICK e \in RoomMade(Purged) :
            entries' = [e EXCEPT ![k] = [flight |-> f, expiresAt |-> now + TTL[k]]]
    BY DEF Store
  <1>2. Purged \in [Keys -> Entry \union {NoEntry}]
    BY PurgedDrops DEF TypeOK
  <1>3. /\ e \in [Keys -> Entry \union {NoEntry}]
        /\ \A j \in Keys : e[j] = Purged[j] \/ e[j] = NoEntry
    BY <1>2, RoomMadeDrops
  <1>4. [flight |-> f, expiresAt |-> now + TTL[k]] \in Entry
    BY CacheBounds DEF TypeOK, Entry
  <1>5. QED
    BY <1>1, <1>3, <1>4, PurgedDrops DEF TypeOK

-----------------------------------------------------------------------------
LEMMA InitIInv == Init => IInv
  <1> SUFFICES ASSUME Init PROVE IInv
    OBVIOUS
  <1>1. TypeOK
    BY CacheBounds DEF Init, TypeOK, Results, Outcomes
  <1>2. FlightsNumbered /\ RunningIsBound
    BY <1>1, CacheBounds DEF Init, FlightsNumbered, RunningIsBound, Flights
  <1>3. BindingsCurrent /\ EntriesSound
    BY DEF Init, BindingsCurrent, EntriesSound
  <1>4. LeadersSound /\ FollowersSound /\ AnswersSound /\ CallsSound
    BY DEF Init, LeadersSound, FollowersSound, AnswersSound, CallsSound, Leads
  <1>5. QED
    BY <1>1, <1>2, <1>3, <1>4 DEF IInv

\* The parts of the invariant a step that leaves the cache alone can disturb.
LEMMA BeginIInv ==
    ASSUME IInv, NEW c \in Callers, NEW k \in Keys, Begin(c, k) \/ Refuse(c, k)
    PROVE  IInv'
  <1> USE DEF IInv, TypeOK, cache
  <1>1. TypeOK'
    BY DEF Begin, Refuse, Results
  <1>2. FlightsNumbered' /\ RunningIsBound' /\ BindingsCurrent' /\ EntriesSound'
    BY DEF Begin, Refuse, FlightsNumbered, RunningIsBound, Running, BindingsCurrent, EntriesSound
  <1>3. LeadersSound' /\ FollowersSound' /\ AnswersSound'
    BY DEF Begin, Refuse, LeadersSound, FollowersSound, AnswersSound, Leads
  <1>4. CallsSound'
    BY DEF Begin, Refuse, CallsSound
  <1>5. QED
    BY <1>1, <1>2, <1>3, <1>4

\* Steps that leave the cache alone and end the call, or its load.
LEMMA LoadIInv ==
    ASSUME IInv, NEW c \in Callers, NEW o \in Outcomes,
           LoadDirect(c, o) \/ LoadReturns(c, o)
    PROVE  IInv'
  <1> USE DEF IInv, TypeOK, cache
  <1>1. TypeOK'
    BY DEF LoadDirect, LoadReturns, Results
  <1>2. FlightsNumbered' /\ RunningIsBound' /\ BindingsCurrent' /\ EntriesSound'
    BY DEF LoadDirect, LoadReturns, FlightsNumbered, RunningIsBound, Running,
           BindingsCurrent, EntriesSound
  <1>3. LeadersSound' /\ FollowersSound'
    BY DEF LoadDirect, LoadReturns, LeadersSound, FollowersSound, Leads
  <1>4. AnswersSound' /\ CallsSound'
    BY DEF LoadDirect, LoadReturns, AnswersSound, CallsSound
  <1>5. QED
    BY <1>1, <1>2, <1>3, <1>4

LEMMA WaitEndsIInv ==
    ASSUME IInv, NEW c \in Callers, Wake(c) \/ CancelWait(c)
    PROVE  IInv'
  <1> USE DEF IInv, TypeOK, cache
  <1>1. TypeOK'
    <2>1. CASE Wake(c)
      <3>1. joined[c] \in Flights
        BY <2>1 DEF Wake, FollowersSound
      <3>2. flight[joined[c]].outcome \in Results
        BY <3>1 DEF NoFlight, FlightRec, Results
      <3>3. QED
        BY <2>1, <3>2 DEF Wake
    <2>2. CASE CancelWait(c)
      BY <2>2 DEF CancelWait, Results
    <2>3. QED
      BY <2>1, <2>2
  <1>2. FlightsNumbered' /\ RunningIsBound' /\ BindingsCurrent' /\ EntriesSound'
    BY DEF Wake, CancelWait, FlightsNumbered, RunningIsBound, Running,
           BindingsCurrent, EntriesSound
  <1>3. LeadersSound' /\ FollowersSound'
    BY DEF Wake, CancelWait, LeadersSound, FollowersSound, Leads
  <1>4. AnswersSound' /\ CallsSound'
    BY DEF Wake, CancelWait, AnswersSound, FollowersSound, CallsSound
  <1>5. QED
    BY <1>1, <1>2, <1>3, <1>4

LEMMA HitIInv ==
    ASSUME IInv, NEW c \in Callers, Hit(c)
    PROVE  IInv'
  <1> USE DEF IInv, TypeOK, cache
  <1>k. ask[c] \in Keys
    BY DEF CallsSound, Hit
  <1>0. /\ entries[ask[c]] # NoEntry
        /\ entries[ask[c]].flight \in Flights
        /\ flight[entries[ask[c]].flight].outcome \in Results
    BY <1>k DEF Hit, Live, NoEntry, EntriesSound, Results, Outcomes
  <1>1. TypeOK'
    BY <1>0 DEF Hit
  <1>2. FlightsNumbered' /\ RunningIsBound' /\ BindingsCurrent' /\ EntriesSound'
    BY DEF Hit, FlightsNumbered, RunningIsBound, Running, BindingsCurrent, EntriesSound
  <1>3. LeadersSound' /\ FollowersSound'
    BY DEF Hit, LeadersSound, FollowersSound, Leads
  <1>4. AnswersSound' /\ CallsSound'
    BY <1>k, <1>0 DEF Hit, AnswersSound, CallsSound, EntriesSound, FlightsNumbered
  <1>5. QED
    BY <1>1, <1>2, <1>3, <1>4

LEMMA JoinIInv ==
    ASSUME IInv, NEW c \in Callers, Join(c)
    PROVE  IInv'
  <1> USE DEF IInv, TypeOK
  <1>k. ask[c] \in Keys
    BY DEF CallsSound, Join
  <1>1. TypeOK'
    BY <1>k DEF Join
  <1>2. FlightsNumbered' /\ RunningIsBound'
    BY DEF Join, Loading, FlightsNumbered, RunningIsBound, Running
  <1>3. BindingsCurrent' /\ EntriesSound'
    BY <1>k DEF Join, Loading, BindingsCurrent, EntriesSound
  <1>4. LeadersSound' /\ FollowersSound'
    BY <1>k DEF Join, Loading, LeadersSound, FollowersSound, Leads, BindingsCurrent, FlightsNumbered
  <1>5. AnswersSound' /\ CallsSound'
    BY DEF Join, Loading, AnswersSound, CallsSound
  <1>6. QED
    BY <1>1, <1>2, <1>3, <1>4, <1>5

LEMMA LeadIInv ==
    ASSUME IInv, NEW c \in Callers, Lead(c)
    PROVE  IInv'
  <1> USE DEF IInv, TypeOK
  <1>k. ask[c] \in Keys
    BY DEF CallsSound, Lead
  <1>n. /\ nflights \in Nat
        /\ nflights + 1 \in Flights
        /\ nflights + 1 \notin stale
        /\ nflights' = nflights + 1
        /\ \A d \in Callers : nflights + 1 \notin seen[d]
    BY CacheBounds DEF Lead, Loading, Flights, FlightsNumbered
  <1>f. /\ flight' \in [Flights -> FlightRec \union {NoFlight}]
        /\ flight'[nflights + 1] = [key |-> ask[c], done |-> FALSE, outcome |-> "none"]
        /\ \A g \in Flights : g # nflights + 1 => flight'[g] = flight[g]
    BY <1>k, <1>n DEF Lead, Loading, FlightRec, Results
  <1>1. TypeOK'
    BY <1>k, <1>n, <1>f, CacheBounds DEF Lead, Loading, Flights
  <1>2. FlightsNumbered'
    <2>1. \A g \in Flights : g <= nflights' => g = nflights + 1 \/ g <= nflights
      BY <1>n, CacheBounds DEF Flights
    <2>2. \A g \in Flights : g <= nflights' => flight'[g].key \in Keys
      BY <1>k, <1>n, <1>f, <2>1 DEF FlightsNumbered
    <2>3. \A g \in stale : g <= nflights'
      BY <1>n, CacheBounds DEF FlightsNumbered, Flights
    <2>4. QED
      BY <2>2, <2>3 DEF Lead, Loading, FlightsNumbered
  <1>3. RunningIsBound'
    BY <1>k, <1>n, <1>f, CacheBounds DEF Lead, Loading, RunningIsBound, Running, Flights, FlightsNumbered
  <1>4. BindingsCurrent'
    BY <1>k, <1>n, <1>f, CacheBounds DEF Lead, Loading, BindingsCurrent, Flights
  <1>5. EntriesSound'
    BY <1>k, <1>n, <1>f, CacheBounds DEF Lead, Loading, EntriesSound, Flights
  <1>6. LeadersSound'
    BY <1>k, <1>n, <1>f, CacheBounds DEF Lead, Loading, LeadersSound, Leads, Flights
  <1>7. FollowersSound'
    BY <1>k, <1>n, <1>f, CacheBounds DEF Lead, Loading, FollowersSound, Flights
  <1>8. AnswersSound' /\ CallsSound'
    BY <1>k, <1>n, <1>f, CacheBounds DEF Lead, Loading, AnswersSound, CallsSound, Flights
  <1>9. QED
    BY <1>1, <1>2, <1>3, <1>4, <1>5, <1>6, <1>7, <1>8

LEMMA InvalidateIInv ==
    ASSUME IInv, NEW p \in Providers, NEW a \in Auths, Invalidate(p, a)
    PROVE  IInv'
  <1> USE DEF IInv, TypeOK, call
  <1>1. TypeOK'
    <2>1. entries' \in [Keys -> Entry \union {NoEntry}]
      BY DEF Invalidate, Dropped
    <2>2. inFlight' \in [Keys -> Flights \union {0}]
      BY DEF Invalidate, Dropped
    <2>3. 1 .. nflights \subseteq Flights
      BY CacheBounds DEF Flights
    <2>4. stale' \subseteq Flights
      BY <2>3 DEF Invalidate, Dropped
    <2>5. QED
      BY <2>1, <2>2, <2>4 DEF Invalidate, Dropped
  <1>2. FlightsNumbered'
    BY CacheBounds DEF Invalidate, Dropped, FlightsNumbered, Flights
  <1>3. RunningIsBound'
    BY CacheBounds DEF Invalidate, Dropped, RunningIsBound, Running, Flights, FlightsNumbered
  <1>4. BindingsCurrent' /\ EntriesSound'
    BY CacheBounds DEF Invalidate, Dropped, BindingsCurrent, EntriesSound, Flights
  <1>5. LeadersSound' /\ FollowersSound' /\ AnswersSound' /\ CallsSound'
    BY DEF Invalidate, Dropped, LeadersSound, FollowersSound, AnswersSound, CallsSound, Leads
  <1>6. QED
    BY <1>1, <1>2, <1>3, <1>4, <1>5

LEMMA PublishIInv ==
    ASSUME IInv, NEW c \in Callers, Publish(c)
    PROVE  IInv'
  <1> USE DEF IInv, TypeOK
  <1> DEFINE k == ask[c]
             f == joined[c]
  <1>k. /\ k \in Keys
        /\ f \in Flights
        /\ f <= nflights
        /\ f # 0
        /\ flight[f].key = k
        /\ ~flight[f].done
        /\ f \notin seen[c]
        /\ result[c] \in Outcomes
        /\ \A d \in Callers : Leads(d) /\ joined[d] = f => d = c
    BY CacheBounds DEF Publish, Unbind, Keep, Close, CallsSound, LeadersSound, Leads, Flights
  <1>f. /\ flight' \in [Flights -> FlightRec \union {NoFlight}]
        /\ flight'[f].key = k
        /\ flight'[f].done
        /\ flight'[f].outcome = result[c]
        /\ \A g \in Flights : g # f => flight'[g] = flight[g]
    <2>1. flight' = [flight EXCEPT ![f].done = TRUE, ![f].outcome = result[c]]
      BY DEF Publish, Unbind, Keep, Close
    <2>2. flight[f] \in FlightRec
      BY <1>k, NoneIsNoKey DEF NoFlight
    <2>3. QED
      BY <1>k, <2>1, <2>2 DEF FlightRec, Results
  <1>b. /\ inFlight' \in [Keys -> Flights \union {0}]
        /\ \A j \in Keys : inFlight'[j] = IF inFlight[j] = f THEN 0 ELSE inFlight[j]
    BY <1>k DEF Publish, Unbind, Keep, Close, BindingsCurrent
  <1>e. /\ entries' \in [Keys -> Entry \union {NoEntry}]
        /\ \A j \in Keys \ {k} : entries'[j] = entries[j] \/ entries'[j] = NoEntry
        /\ \/ /\ inFlight[k] = f
              /\ result[c] = "ok"
              /\ entries'[k] = [flight |-> f, expiresAt |-> now + TTL[k]]
           \/ entries'[k] = entries[k]
    <2>1. CASE inFlight[k] = f /\ result[c] = "ok"
      BY <1>k, <2>1, StoreEffect DEF Publish, Unbind, Keep, Close
    <2>2. CASE ~(inFlight[k] = f /\ result[c] = "ok")
      BY <1>k, <2>2 DEF Publish, Unbind, Keep, Close
    <2>3. QED
      BY <2>1, <2>2
  <1> HIDE DEF k, f
  <1>u. /\ pc' = [pc EXCEPT ![c] = "idle"]
        /\ UNCHANGED <<now, nflights, stale, ask, joined, result, seen>>
    BY DEF Publish, Unbind, Keep, Close
  <1>0. joined[c] = f /\ ask[c] = k
    BY DEF f, k
  <1>1. TypeOK'
    BY <1>f, <1>b, <1>e, <1>u
  <1>2. FlightsNumbered'
    BY <1>k, <1>f, <1>u DEF FlightsNumbered
  <1>3. RunningIsBound'
    BY <1>k, <1>f, <1>b, <1>u, CacheBounds DEF RunningIsBound, Running, Flights, FlightsNumbered
  <1>4. BindingsCurrent'
    <2> SUFFICES ASSUME NEW j \in Keys, inFlight'[j] # 0
                 PROVE  /\ inFlight'[j] <= nflights'
                        /\ flight'[inFlight'[j]].key = j
                        /\ ~flight'[inFlight'[j]].done
                        /\ inFlight'[j] \notin stale'
                        /\ entries'[j] = NoEntry
      BY DEF BindingsCurrent
    <2>1. inFlight'[j] = inFlight[j] /\ inFlight[j] # f /\ inFlight[j] \in Flights
      BY <1>b
    <2>2. entries'[j] = NoEntry
      BY <1>e, <2>1 DEF BindingsCurrent
    <2>3. QED
      BY <1>f, <1>u, <2>1, <2>2 DEF BindingsCurrent
  <1>5. EntriesSound'
    <2> SUFFICES ASSUME NEW j \in Keys, entries'[j] # NoEntry
                 PROVE  /\ entries'[j].flight \in Flights
                        /\ entries'[j].flight <= nflights'
                        /\ flight'[entries'[j].flight].key = j
                        /\ flight'[entries'[j].flight].done
                        /\ flight'[entries'[j].flight].outcome = "ok"
                        /\ entries'[j].flight \notin stale'
      BY DEF EntriesSound
    <2>1. CASE entries'[j] = entries[j]
      BY <1>k, <1>f, <1>u, <2>1 DEF EntriesSound
    <2>2. CASE entries'[j] # entries[j]
      <3>1. j = k /\ inFlight[k] = f /\ result[c] = "ok" /\ entries'[j].flight = f
        BY <1>e, <2>2
      <3>2. f \notin stale
        BY <1>k, <3>1 DEF BindingsCurrent
      <3>3. QED
        BY <1>k, <1>f, <1>u, <3>1, <3>2
    <2>3. QED
      BY <2>1, <2>2
  <1>6. LeadersSound' /\ FollowersSound'
    BY <1>k, <1>f, <1>u, <1>0 DEF LeadersSound, FollowersSound, Leads
  <1>7. AnswersSound' /\ CallsSound'
    BY <1>k, <1>f, <1>u, <1>0 DEF AnswersSound, CallsSound
  <1>8. QED
    BY <1>1, <1>2, <1>3, <1>4, <1>5, <1>6, <1>7

LEMMA TickIInv ==
    ASSUME IInv, Tick \/ UNCHANGED vars
    PROVE  IInv'
  BY DEF IInv, TypeOK, Tick, vars, cache, call, FlightsNumbered, RunningIsBound, Running,
         BindingsCurrent, EntriesSound, LeadersSound, FollowersSound, AnswersSound,
         CallsSound, Leads

LEMMA StepIInv ==
    ASSUME IInv, [Next]_vars
    PROVE  IInv'
  <1>1. CASE \E c \in Callers : Step(c)
    <2> PICK c \in Callers : Step(c)
      BY <1>1
    <2>1. CASE \E k \in Keys : Begin(c, k) \/ Refuse(c, k)
      BY <2>1, BeginIInv
    <2>2. CASE \E o \in Outcomes : LoadDirect(c, o) \/ LoadReturns(c, o)
      BY <2>2, LoadIInv
    <2>3. CASE Hit(c)
      BY <2>3, HitIInv
    <2>4. CASE Join(c)
      BY <2>4, JoinIInv
    <2>5. CASE Lead(c)
      BY <2>5, LeadIInv
    <2>6. CASE Publish(c)
      BY <2>6, PublishIInv
    <2>7. CASE Wake(c) \/ CancelWait(c)
      BY <2>7, WaitEndsIInv
    <2>8. QED
      BY <2>1, <2>2, <2>3, <2>4, <2>5, <2>6, <2>7 DEF Step
  <1>2. CASE \E p \in Providers, a \in Auths : Invalidate(p, a)
    BY <1>2, InvalidateIInv
  <1>3. CASE Tick \/ UNCHANGED vars
    BY <1>3, TickIInv
  <1>4. QED
    BY <1>1, <1>2, <1>3 DEF Next

\* Every behaviour of the cache satisfies the inductive invariant, for every
\* number of keys, callers, flights and entries.
THEOREM Inductive == Spec => []IInv
  <1>1. Init => IInv
    BY InitIInv
  <1>2. IInv /\ [Next]_vars => IInv'
    BY StepIInv
  <1>3. QED
    BY <1>1, <1>2, PTL DEF Spec

-----------------------------------------------------------------------------
\* The variables keep their types.
THEOREM TypeCorrect == Spec => []TypeOK
  BY Inductive, PTL DEF IInv

\* No call is ever answered by a read that an invalidation had overtaken
\* before the call began, neither by an entry nor by a flight in progress.
THEOREM Freshness == Spec => []FreshForLaterCallers
  <1>1. IInv => FreshForLaterCallers
    BY CacheBounds DEF IInv, TypeOK, FollowersSound, AnswersSound, FreshForLaterCallers, Flights
  <1>2. QED
    BY <1>1, Inductive, PTL

\* Every answer is the published result of a read of the key asked for.
THEOREM Answers == Spec => []AnswersItsKey
  <1>1. IInv => AnswersItsKey
    BY DEF IInv, AnswersSound, AnswersItsKey
  <1>2. QED
    BY <1>1, Inductive, PTL

\* Entries are complete successes that no invalidation has overtaken.
THEOREM CurrentEntries == Spec => []EntriesAreCurrent
  <1>1. IInv => EntriesAreCurrent
    BY DEF IInv, EntriesSound, EntriesAreCurrent, Held
  <1>2. QED
    BY <1>1, Inductive, PTL

\* A running read that was not overtaken is the one its key is bound to, so
\* two running reads of one key are separated by an invalidation.
THEOREM Coalescing == Spec => [](RunningIsBound /\ MissesCoalesce)
  <1>1. IInv => RunningIsBound
    BY DEF IInv
  <1>2. RunningIsBound => MissesCoalesce
    BY DEF RunningIsBound, MissesCoalesce
  <1>3. QED
    BY <1>1, <1>2, Inductive, PTL

-----------------------------------------------------------------------------
LEMMA HeldFinite == ASSUME NEW e PROVE IsFiniteSet(Held(e))
  BY KeysFinite, FS_Subset DEF Held

\* There is always room for one more entry after RoomMade.
LEMMA RoomForOne ==
    ASSUME NEW e \in [Keys -> Entry \union {NoEntry}], NEW r \in RoomMade(e),
           Cardinality(Held(e)) <= MaxEntries
    PROVE  Cardinality(Held(r)) <= MaxEntries - 1
  <1>1. IsFiniteSet(Held(e)) /\ Cardinality(Held(e)) \in Nat
    BY HeldFinite, FS_CardinalityType
  <1>2. CASE Cardinality(Held(e)) < MaxEntries
    BY <1>1, <1>2, CacheBounds DEF RoomMade
  <1>3. CASE ~(Cardinality(Held(e)) < MaxEntries)
    <2>1. PICK j \in Oldest(e) : r = [e EXCEPT ![j] = NoEntry]
      BY <1>3 DEF RoomMade
    <2>2. j \in Held(e) /\ j \in Keys
      BY DEF Oldest, Held
    <2>3. Held(r) = Held(e) \ {j}
      BY <2>1, <2>2 DEF Held
    <2>4. Cardinality(Held(r)) = Cardinality(Held(e)) - 1
      BY <1>1, <2>2, <2>3, FS_RemoveElement
    <2>5. QED
      BY <1>1, <2>4, CacheBounds
  <1>4. QED
    BY <1>2, <1>3

\* The table never exceeds its capacity.
THEOREM Bounded == Spec => []CacheBounded
  <1>1. Init => CacheBounded
    <2> SUFFICES ASSUME Init PROVE CacheBounded
      OBVIOUS
    <2>1. Held(entries) = {}
      BY DEF Init, Held
    <2>2. QED
      BY <2>1, FS_EmptySet, CacheBounds DEF CacheBounded
  <1>2. IInv /\ CacheBounded /\ [Next]_vars => CacheBounded'
    <2> SUFFICES ASSUME IInv, CacheBounded, [Next]_vars PROVE CacheBounded'
      OBVIOUS
    <2>s. ASSUME Held(entries)' \subseteq Held(entries) PROVE CacheBounded'
      BY <2>s, HeldFinite, FS_Subset, FS_CardinalityType, CacheBounds DEF CacheBounded
    <2>1. ASSUME NEW c \in Callers, Join(c) \/ Lead(c) PROVE CacheBounded'
      <3>1. entries' = [entries EXCEPT ![ask[c]] = NoEntry] /\ ask[c] \in Keys
        BY <2>1 DEF Join, Loading, Lead, IInv, CallsSound
      <3>2. Held(entries)' \subseteq Held(entries)
        BY <3>1 DEF Held, IInv, TypeOK
      <3>3. QED
        BY <2>s, <3>2
    <2>2. ASSUME NEW c \in Callers, Publish(c) PROVE CacheBounded'
      <3> DEFINE k == ask[c]
                 f == joined[c]
      <3>1. CASE entries' = entries
        BY <2>s, <3>1 DEF Held
      <3>2. CASE Store(k, f)
        <4>1. PICK e \in RoomMade(Purged) :
                  entries' = [e EXCEPT ![k] = [flight |-> f, expiresAt |-> now + TTL[k]]]
          BY <3>2 DEF Store
        <4>2. /\ Purged \in [Keys -> Entry \union {NoEntry}]
              /\ Held(Purged) \subseteq Held(entries)
          BY PurgedDrops DEF IInv, TypeOK, Held
        <4>3. Cardinality(Held(Purged)) <= MaxEntries
          BY <4>2, HeldFinite, FS_Subset, FS_CardinalityType, CacheBounds DEF CacheBounded
        <4>4. Cardinality(Held(e)) <= MaxEntries - 1
          BY <4>2, <4>3, RoomForOne
        <4>5. e \in [Keys -> Entry \union {NoEntry}]
          BY <4>2, RoomMadeDrops
        <4>6. Held(entries') \subseteq Held(e) \union {k}
          BY <4>1, <4>5 DEF Held
        <4>7. /\ IsFiniteSet(Held(e) \union {k})
              /\ Cardinality(Held(e) \union {k}) <= MaxEntries
          <5>1. IsFiniteSet(Held(e)) /\ Cardinality(Held(e)) \in Nat
            BY HeldFinite, FS_CardinalityType
          <5>2. \/ Cardinality(Held(e) \union {k}) = Cardinality(Held(e))
                \/ Cardinality(Held(e) \union {k}) = Cardinality(Held(e)) + 1
            BY <5>1, FS_AddElement
          <5>3. IsFiniteSet(Held(e) \union {k})
            BY <5>1, FS_AddElement
          <5>4. QED
            BY <4>4, <5>1, <5>2, <5>3, CacheBounds
        <4>8. Cardinality(Held(entries')) <= MaxEntries
          BY <4>6, <4>7, FS_Subset, FS_CardinalityType, CacheBounds
        <4>9. QED
          BY <4>8 DEF CacheBounded, Held
      <3>3. QED
        BY <2>2, <3>1, <3>2 DEF Publish, Unbind, Keep, Close
    <2>3. ASSUME NEW p \in Providers, NEW a \in Auths, Invalidate(p, a) PROVE CacheBounded'
      <3>1. Held(entries)' \subseteq Held(entries)
        BY <2>3 DEF Held, Invalidate, Dropped
      <3>2. QED
        BY <2>s, <3>1
    <2>4. CASE entries' = entries
      BY <2>s, <2>4 DEF Held
    <2>5. QED
      BY <2>1, <2>2, <2>3, <2>4 DEF Next, Step, Begin, Refuse, LoadDirect, LoadReturns, Hit,
         Wake, CancelWait, Tick, cache, vars
  <1>3. QED
    BY <1>1, <1>2, Inductive, PTL DEF Spec

-----------------------------------------------------------------------------
\* A success that no invalidation overtook is cached when it is published.
THEOREM Caching == Spec => SuccessIsCached
  <1>1. IInv /\ [Next]_vars => [\A f \in 1 .. nflights : Cached(f)]_vars
    <2> SUFFICES ASSUME IInv, Next, NEW f \in 1 .. nflights,
                        f \notin stale, ~flight[f].done,
                        flight'[f].done, flight'[f].outcome = "ok"
                 PROVE  entries'[flight[f].key].flight = f
      BY DEF Cached
    <2>0. f \in Flights /\ f <= nflights /\ nflights \in Nat
      BY CacheBounds DEF IInv, TypeOK, Flights
    <2>1. PICK c \in Callers : Publish(c) /\ joined[c] = f
      <3>1. ASSUME NEW c \in Callers, Lead(c) PROVE FALSE
        BY <2>0, <3>1 DEF Lead, Loading, IInv, TypeOK, Flights
      <3>2. ASSUME NEW c \in Callers, Publish(c), joined[c] # f PROVE FALSE
        BY <2>0, <3>2 DEF Publish, Unbind, Keep, Close, IInv, TypeOK
      <3>3. QED
        BY <3>1, <3>2 DEF Next, Step, Begin, Refuse, LoadDirect, LoadReturns, Hit, Join,
           Wake, CancelWait, Tick, Invalidate, Dropped, cache
    <2>2. ask[c] \in Keys /\ flight[f].key = ask[c] /\ inFlight[ask[c]] = f
      BY <2>0, <2>1 DEF IInv, Publish, CallsSound, LeadersSound, Leads, RunningIsBound, Running
    <2>3. result[c] = "ok"
      BY <2>0, <2>1, NoneIsNoKey, <2>2 DEF Publish, Unbind, Keep, Close, IInv, TypeOK, FlightRec, NoFlight
    <2>4. Store(ask[c], f)
      BY <2>1, <2>2, <2>3 DEF Publish, Unbind, Keep, Close
    <2>5. entries'[ask[c]] = [flight |-> f, expiresAt |-> now + TTL[ask[c]]]
      BY <2>0, <2>2, <2>4, StoreEffect DEF IInv
    <2>6. QED
      BY <2>2, <2>5
  <1>2. QED
    BY <1>1, Inductive, PTL DEF Spec, SuccessIsCached

\* A live entry is dropped only for an invalidation of its key, or to make
\* room in a table full of live entries none of which expires before it.
THEOREM NoEarlyLoss == Spec => NothingLostEarly
  <1>1. IInv /\ [Next]_vars => [DropsForAReason]_vars
    <2> SUFFICES ASSUME IInv, Next, NEW k \in Held(entries),
                        entries'[k] # entries[k], Live(k), entries[k].flight \notin stale'
                 PROVE  /\ Cardinality({j \in Keys : Live(j)}) >= MaxEntries
                        /\ \A j \in Keys : Live(j) => entries[k].expiresAt <= entries[j].expiresAt
      BY DEF DropsForAReason
    <2>k. k \in Keys /\ entries[k] # NoEntry
      BY DEF Held
    <2>1. ASSUME NEW c \in Callers, Join(c) \/ Lead(c) PROVE FALSE
      BY <2>1, <2>k DEF Join, Loading, Lead, IInv, TypeOK
    <2>2. ASSUME NEW p \in Providers, NEW a \in Auths, Invalidate(p, a) PROVE FALSE
      <3>1. Matches(k, p, a)
        BY <2>2, <2>k DEF Invalidate, Dropped
      <3>2. /\ flight[entries[k].flight].key = k
            /\ entries[k].flight \in 1 .. nflights
        BY <2>k, CacheBounds DEF IInv, EntriesSound, Flights, TypeOK
      <3>3. entries[k].flight \in stale'
        BY <2>2, <3>1, <3>2 DEF Invalidate, Dropped
      <3>4. QED
        BY <3>3
    <2>3. ASSUME NEW c \in Callers, Publish(c)
          PROVE  /\ Cardinality({j \in Keys : Live(j)}) >= MaxEntries
                 /\ \A j \in Keys : Live(j) => entries[k].expiresAt <= entries[j].expiresAt
      <3> DEFINE i == ask[c]
                 f == joined[c]
      <3>1. inFlight[i] = f /\ Store(i, f)
        BY <2>3 DEF Publish, Unbind, Keep, Close
      <3>2. f # 0 /\ i \in Keys
        BY <2>3, CacheBounds DEF Publish, Unbind, Keep, Close, IInv, CallsSound, LeadersSound, Leads, Flights
      <3>3. i # k
        BY <2>k, <3>1, <3>2 DEF IInv, BindingsCurrent
      <3>4. PICK e \in RoomMade(Purged) :
                entries' = [e EXCEPT ![i] = [flight |-> f, expiresAt |-> now + TTL[i]]]
        BY <3>1 DEF Store
      <3>5. Purged \in [Keys -> Entry \union {NoEntry}] /\ Purged[k] = entries[k]
        BY <2>k, PurgedDrops DEF Purged, IInv, TypeOK
      <3>6. e[k] # Purged[k]
        BY <2>k, <3>3, <3>4, <3>5, RoomMadeDrops
      <3>7. /\ ~(Cardinality(Held(Purged)) < MaxEntries)
            /\ k \in Oldest(Purged)
        BY <2>k, <3>4, <3>5, <3>6 DEF RoomMade
      <3>8. /\ Held(Purged) = {j \in Keys : Live(j)}
            /\ \A j \in Keys : Live(j) => Purged[j] = entries[j]
        BY LiveIsHeld DEF Held, Purged, Live, NoEntry, Entry, IInv, TypeOK
      <3>9. Cardinality(Held(Purged)) \in Nat
        BY HeldFinite, FS_CardinalityType
      <3>10. Cardinality({j \in Keys : Live(j)}) >= MaxEntries
        BY <3>7, <3>8, <3>9, CacheBounds
      <3>11. \A j \in Keys : Live(j) => entries[k].expiresAt <= entries[j].expiresAt
        BY <3>5, <3>7, <3>8 DEF Oldest
      <3>12. QED
        BY <3>10, <3>11
    <2>4. CASE entries' = entries
      BY <2>4
    <2>5. QED
      BY <2>1, <2>2, <2>3, <2>4 DEF Next, Step, Begin, Refuse, LoadDirect, LoadReturns, Hit,
         Wake, CancelWait, Tick, cache
  <1>2. QED
    BY <1>1, Inductive, PTL DEF Spec, NothingLostEarly

-----------------------------------------------------------------------------

(***************************************************************************)
(* The cache implements FreshReads: what a caller does, its answer and the *)
(* reads that were begun follow that specification, step by step.          *)
(***************************************************************************)
ShownReads  == [f \in 1 .. nflights |-> flight[f]]
ShownPhase  == [c \in Callers |-> Doing[pc[c]]]
ShownAnswer == [c \in Callers |-> IF pc[c] = "idle" THEN result[c] ELSE "none"]

LEMMA DoingIs ==
    /\ Doing["idle"] = "idle"
    /\ Doing["lookup"] = "asking"
    /\ Doing["wait"] = "waiting"
    /\ Doing["load"] = "reading"
    /\ Doing["publish"] = "reading"
  BY DEF Doing

\* What a step of one caller shows of it.
LEMMA OneCallerMoves ==
    ASSUME NEW c \in Callers,
           \A d \in Callers \ {c} : pc'[d] = pc[d] /\ result'[d] = result[d]
    PROVE  /\ ShownPhase' = [ShownPhase EXCEPT ![c] = Doing[pc'[c]]]
           /\ ShownAnswer' = [ShownAnswer EXCEPT ![c] = IF pc'[c] = "idle" THEN result'[c] ELSE "none"]
  BY DEF ShownPhase, ShownAnswer

\* A caller that is not idle has no answer, before and after its step.
LEMMA NoAnswerYet ==
    ASSUME NEW c \in Callers, pc[c] # "idle", pc'[c] # "idle",
           \A d \in Callers \ {c} : pc'[d] = pc[d] /\ result'[d] = result[d]
    PROVE  ShownAnswer' = ShownAnswer
  BY DEF ShownAnswer

\* The reads a caller may turn to are those of its key that no invalidation
\* has overtaken.
LEMMA CurrentReads ==
    ASSUME TypeOK, NEW k, NEW f
    PROVE  f \in Promise!Current(k) <=>
               /\ f \in 1 .. nflights
               /\ flight[f].key = k
               /\ f \notin stale
  BY DEF Promise!Current

LEMMA ReadsKept ==
    ASSUME UNCHANGED <<flight, nflights>> PROVE ShownReads' = ShownReads
  BY DEF ShownReads

LEMMA ReadsAppended ==
    ASSUME NEW n \in Nat, NEW F, NEW G, NEW e,
           \A f \in 1 .. n : G[f] = F[f], G[n + 1] = e
    PROVE  /\ Len([f \in 1 .. n |-> F[f]]) = n
           /\ Append([f \in 1 .. n |-> F[f]], e) = [f \in 1 .. n + 1 |-> G[f]]
  <1> DEFINE s == [f \in 1 .. n |-> F[f]]
             T == {F[f] : f \in 1 .. n} \union {e}
  <1>1. s \in Seq(T)
    <2>1. s \in [1 .. n -> T]
      OBVIOUS
    <2>2. QED
      BY <2>1 DEF Seq
  <1>2. Len(s) = n
    BY <1>1, LenProperties
  <1>3. Append(s, e) \in Seq(T)
    BY <1>1, AppendProperties
  <1>4. /\ Len(Append(s, e)) = n + 1
        /\ \A f \in 1 .. n : Append(s, e)[f] = s[f]
        /\ Append(s, e)[n + 1] = e
    BY <1>1, <1>2, AppendProperties
  <1>5. Append(s, e) = [f \in 1 .. n + 1 |-> G[f]]
    <2>1. \A f \in 1 .. n + 1 : Append(s, e)[f] = G[f]
      BY <1>4
    <2>2. DOMAIN Append(s, e) = 1 .. n + 1 /\ Append(s, e) = [f \in DOMAIN Append(s, e) |-> Append(s, e)[f]]
      BY <1>3, <1>4, LenProperties
    <2>3. QED
      BY <2>1, <2>2
  <1>6. QED
    BY <1>2, <1>5

-----------------------------------------------------------------------------
LEMMA BeginPromised ==
    ASSUME TypeOK, NEW c \in Callers, NEW k \in Keys
    PROVE  /\ Begin(c, k) => Promise!Ask(c, k)
           /\ Refuse(c, k) => Promise!Refuse(c, k)
  <1>1. ASSUME Begin(c, k) PROVE Promise!Ask(c, k)
    <2>1. ShownPhase[c] = "idle"
      BY <1>1, DoingIs DEF Begin, ShownPhase
    <2>2. /\ pc'[c] = "lookup"
          /\ \A d \in Callers \ {c} : pc'[d] = pc[d] /\ result'[d] = result[d]
      BY <1>1 DEF Begin, TypeOK
    <2>3. /\ ShownPhase' = [ShownPhase EXCEPT ![c] = "asking"]
          /\ ShownAnswer' = [ShownAnswer EXCEPT ![c] = "none"]
      BY <2>2, DoingIs, OneCallerMoves
    <2>4. ShownReads' = ShownReads
      BY <1>1, ReadsKept DEF Begin, cache
    <2>5. QED
      BY <1>1, <2>1, <2>3, <2>4 DEF Promise!Ask, Begin, ShownReads, ShownPhase, ShownAnswer
  <1>2. ASSUME Refuse(c, k) PROVE Promise!Refuse(c, k)
    <2>1. ShownPhase[c] = "idle" /\ ShownPhase' = ShownPhase
      BY <1>2, DoingIs DEF Refuse, ShownPhase
    <2>2. /\ pc'[c] = "idle" /\ result'[c] = "cancelled"
          /\ \A d \in Callers \ {c} : pc'[d] = pc[d] /\ result'[d] = result[d]
      BY <1>2 DEF Refuse, TypeOK
    <2>3. ShownAnswer' = [ShownAnswer EXCEPT ![c] = "cancelled"]
      BY <2>2, OneCallerMoves
    <2>4. ShownReads' = ShownReads
      BY <1>2, ReadsKept DEF Refuse, cache
    <2>5. QED
      BY <1>2, <2>1, <2>3, <2>4 DEF Promise!Refuse, Refuse, ShownReads, ShownPhase, ShownAnswer
  <1>3. QED
    BY <1>1, <1>2

\* A load that bypasses the cache is a read shared with nobody.
LEMMA LoadDirectPromised ==
    ASSUME IInv, NEW c \in Callers, NEW o \in Outcomes, LoadDirect(c, o)
    PROVE  Promise!ReadAlone(c, o)
  <1>1. ShownPhase[c] = "asking"
    BY DoingIs DEF LoadDirect, ShownPhase
  <1>2. /\ pc'[c] = "idle" /\ result'[c] = o
        /\ \A d \in Callers \ {c} : pc'[d] = pc[d] /\ result'[d] = result[d]
    BY DEF LoadDirect, IInv, TypeOK
  <1>3. /\ ShownPhase' = [ShownPhase EXCEPT ![c] = "idle"]
        /\ ShownAnswer' = [ShownAnswer EXCEPT ![c] = o]
    BY <1>2, DoingIs, OneCallerMoves
  <1>4. joined' = [joined EXCEPT ![c] = 0]
    BY DEF LoadDirect, IInv, TypeOK, CallsSound
  <1>5. ShownReads' = ShownReads
    BY ReadsKept DEF LoadDirect, cache
  <1>6. QED
    BY <1>1, <1>3, <1>4, <1>5
       DEF Promise!ReadAlone, Promise!Answered, LoadDirect, ShownReads, ShownPhase, ShownAnswer

\* What a hit hands out is a complete success that no invalidation overtook.
LEMMA HitPromised ==
    ASSUME IInv, NEW c \in Callers, Hit(c)
    PROVE  Promise!Recall(c)
  <1> DEFINE f == entries[ask[c]].flight
  <1>k. ask[c] \in Keys /\ entries[ask[c]] # NoEntry
    BY DEF Hit, Live, NoEntry, IInv, CallsSound, TypeOK
  <1>f. /\ f \in 1 .. nflights
        /\ flight[f].key = ask[c]
        /\ flight[f].done
        /\ flight[f].outcome = "ok"
        /\ f \notin stale
    BY <1>k, CacheBounds DEF IInv, TypeOK, EntriesSound, Flights
  <1>1. ShownPhase[c] = "asking"
    BY DoingIs DEF Hit, ShownPhase
  <1>2. /\ pc'[c] = "idle" /\ result'[c] = "ok"
        /\ \A d \in Callers \ {c} : pc'[d] = pc[d] /\ result'[d] = result[d]
    BY <1>f DEF Hit, IInv, TypeOK
  <1>3. /\ ShownPhase' = [ShownPhase EXCEPT ![c] = "idle"]
        /\ ShownAnswer' = [ShownAnswer EXCEPT ![c] = "ok"]
    BY <1>2, DoingIs, OneCallerMoves
  <1>4. joined' = [joined EXCEPT ![c] = f]
    BY DEF Hit
  <1>5. ShownReads' = ShownReads
    BY ReadsKept DEF Hit, cache
  <1>6. /\ f \in Promise!Current(ask[c])
        /\ ShownReads[f].done
        /\ ShownReads[f].outcome = "ok"
    <2>1. ShownReads[f] = flight[f]
      BY <1>f DEF ShownReads
    <2>2. QED
      BY <1>f, <2>1, CurrentReads DEF IInv
  <1>7. Promise!Answered(c, f, "ok")
    BY <1>3, <1>4 DEF Promise!Answered, Hit, ShownPhase, ShownAnswer
  <1> HIDE DEF f
  <1>8. QED
    BY <1>1, <1>5, <1>6, <1>7 DEF Promise!Recall, ShownReads, ShownPhase

\* Who joins turns to a running read that no invalidation overtook.
LEMMA JoinPromised ==
    ASSUME IInv, NEW c \in Callers, Join(c)
    PROVE  Promise!Attend(c)
  <1> DEFINE f == inFlight[ask[c]]
  <1>k. ask[c] \in Keys /\ f # 0
    BY DEF Join, Loading, IInv, CallsSound
  <1>f. /\ f \in 1 .. nflights
        /\ flight[f].key = ask[c]
        /\ ~flight[f].done
        /\ f \notin stale
    BY <1>k, CacheBounds DEF IInv, TypeOK, BindingsCurrent, Flights
  <1>1. ShownPhase[c] = "asking"
    BY DoingIs DEF Join, Loading, ShownPhase
  <1>2. /\ pc'[c] = "wait" /\ pc[c] = "lookup"
        /\ \A d \in Callers \ {c} : pc'[d] = pc[d] /\ result'[d] = result[d]
    BY DEF Join, Loading, IInv, TypeOK
  <1>3. ShownPhase' = [ShownPhase EXCEPT ![c] = "waiting"] /\ ShownAnswer' = ShownAnswer
    BY <1>2, DoingIs, OneCallerMoves, NoAnswerYet
  <1>4. joined' = [joined EXCEPT ![c] = f]
    BY DEF Join, Loading
  <1>5. ShownReads' = ShownReads
    BY ReadsKept DEF Join, Loading
  <1>6. f \in Promise!Current(ask[c]) /\ ~ShownReads[f].done
    <2>1. ShownReads[f] = flight[f]
      BY <1>f DEF ShownReads
    <2>2. QED
      BY <1>f, <2>1, CurrentReads DEF IInv
  <1>7. UNCHANGED <<stale, ask>>
    BY DEF Join, Loading
  <1> HIDE DEF f
  <1>8. QED
    BY <1>1, <1>3, <1>4, <1>5, <1>6, <1>7 DEF Promise!Attend, ShownReads, ShownPhase, ShownAnswer

\* Who finds no binding starts a read, and there was none to wait for.
LEMMA LeadPromised ==
    ASSUME IInv, NEW c \in Callers, Lead(c)
    PROVE  Promise!Start(c)
  <1> DEFINE e == [key |-> ask[c], done |-> FALSE, outcome |-> "none"]
  <1>n. /\ nflights \in Nat
        /\ nflights + 1 \in Flights
        /\ nflights' = nflights + 1
        /\ 1 .. nflights \subseteq Flights
    BY CacheBounds DEF Lead, Loading, IInv, TypeOK, Flights
  <1>1. ShownPhase[c] = "asking"
    BY DoingIs DEF Lead, Loading, ShownPhase
  <1>2. /\ pc'[c] = "load" /\ pc[c] = "lookup"
        /\ \A d \in Callers \ {c} : pc'[d] = pc[d] /\ result'[d] = result[d]
    BY DEF Lead, Loading, IInv, TypeOK
  <1>3. ShownPhase' = [ShownPhase EXCEPT ![c] = "reading"] /\ ShownAnswer' = ShownAnswer
    BY <1>2, DoingIs, OneCallerMoves, NoAnswerYet
  <1>4. joined' = [joined EXCEPT ![c] = nflights + 1]
    BY DEF Lead, Loading
  <1>5. /\ \A f \in 1 .. nflights : flight'[f] = flight[f]
        /\ flight'[nflights + 1] = e
    BY <1>n DEF Lead, Loading, IInv, TypeOK
  <1>6. /\ Len(ShownReads) = nflights
        /\ ShownReads' = Append(ShownReads, e)
    <2>1. /\ Len([f \in 1 .. nflights |-> flight[f]]) = nflights
          /\ Append([f \in 1 .. nflights |-> flight[f]], e) = [f \in 1 .. nflights + 1 |-> flight'[f]]
      BY <1>n, <1>5, ReadsAppended
    <2>2. QED
      BY <1>n, <2>1 DEF ShownReads
  <1>7. ASSUME NEW f \in Promise!Current(ask[c]) PROVE ShownReads[f].done
    <2>1. f \in 1 .. nflights /\ flight[f].key = ask[c] /\ f \notin stale
      BY <1>7, CurrentReads DEF IInv
    <2>2. inFlight[ask[c]] # f
      BY <1>n, <2>1 DEF Lead, Loading, Flights
    <2>3. flight[f].done
      BY <1>n, <2>1, <2>2 DEF IInv, RunningIsBound, Running
    <2>4. QED
      BY <2>1, <2>3 DEF ShownReads
  <1>8. UNCHANGED <<stale, ask>>
    BY DEF Lead, Loading
  <1>9. QED
    BY <1>1, <1>3, <1>4, <1>6, <1>7, <1>8 DEF Promise!Start, ShownReads, ShownPhase, ShownAnswer

\* A leader's second critical section ends its own read, of its own key, and
\* answers it with what was published.
LEMMA PublishPromised ==
    ASSUME IInv, NEW c \in Callers, NEW o \in Outcomes, Publish(c), result[c] = o
    PROVE  Promise!Finish(c, o)
  <1> DEFINE f == joined[c]
             e == [key |-> ask[c], done |-> TRUE, outcome |-> o]
  <1>f. /\ f \in 1 .. nflights /\ f \in Flights
        /\ flight[f].key = ask[c]
        /\ ask[c] \in Keys
    BY CacheBounds DEF Publish, Unbind, Keep, Close, IInv, TypeOK, CallsSound, LeadersSound, Leads, Flights
  <1>1. ShownPhase[c] = "reading"
    BY DoingIs DEF Publish, Unbind, Keep, Close, ShownPhase
  <1>2. /\ pc'[c] = "idle" /\ result'[c] = o
        /\ \A d \in Callers \ {c} : pc'[d] = pc[d] /\ result'[d] = result[d]
    BY DEF Publish, Unbind, Keep, Close, IInv, TypeOK
  <1>3. /\ ShownPhase' = [ShownPhase EXCEPT ![c] = "idle"]
        /\ ShownAnswer' = [ShownAnswer EXCEPT ![c] = o]
    BY <1>2, DoingIs, OneCallerMoves
  <1>4. joined' = [joined EXCEPT ![c] = f]
    BY DEF Publish, Unbind, Keep, Close, IInv, TypeOK
  <1>5. ShownReads' = [ShownReads EXCEPT ![f] = e]
    <2>1. flight' = [flight EXCEPT ![f].done = TRUE, ![f].outcome = result[c]] /\ nflights' = nflights
      BY DEF Publish, Unbind, Keep, Close
    <2>2. flight[f] \in FlightRec
      BY <1>f, NoneIsNoKey DEF IInv, TypeOK, NoFlight
    <2>3. flight'[f] = e
      BY <1>f, <2>1, <2>2 DEF FlightRec, IInv, TypeOK
    <2>4. \A g \in 1 .. nflights : g # f => flight'[g] = flight[g]
      BY <2>1, CacheBounds DEF IInv, TypeOK, Flights
    <2>5. QED
      BY <1>f, <2>1, <2>3, <2>4 DEF ShownReads
  <1>6. UNCHANGED <<stale, ask>>
    BY DEF Publish, Unbind, Keep, Close
  <1>7. QED
    BY <1>1, <1>3, <1>4, <1>5, <1>6
       DEF Promise!Finish, Promise!Answered, ShownReads, ShownPhase, ShownAnswer

\* A waiter is answered with what its read ended with, or gives up.
LEMMA WakePromised ==
    ASSUME IInv, NEW c \in Callers
    PROVE  /\ Wake(c) => Promise!Learn(c)
           /\ CancelWait(c) => Promise!GiveUp(c)
  <1>1. ASSUME Wake(c) PROVE Promise!Learn(c)
    <2> DEFINE f == joined[c]
               o == flight[f].outcome
    <2>1. f \in 1 .. nflights /\ ShownReads[f] = flight[f]
      BY <1>1, CacheBounds DEF Wake, IInv, TypeOK, FollowersSound, Flights, ShownReads
    <2>2. ShownPhase[c] = "waiting"
      BY <1>1, DoingIs DEF Wake, ShownPhase
    <2>3. /\ pc'[c] = "idle" /\ result'[c] = o
          /\ \A d \in Callers \ {c} : pc'[d] = pc[d] /\ result'[d] = result[d]
      BY <1>1 DEF Wake, IInv, TypeOK
    <2>4. /\ ShownPhase' = [ShownPhase EXCEPT ![c] = "idle"]
          /\ ShownAnswer' = [ShownAnswer EXCEPT ![c] = o]
      BY <2>3, DoingIs, OneCallerMoves
    <2>5. joined' = [joined EXCEPT ![c] = f]
      BY <1>1 DEF Wake, IInv, TypeOK
    <2>6. ShownReads' = ShownReads
      BY <1>1, ReadsKept DEF Wake, cache
    <2>7. flight[f].done /\ UNCHANGED <<stale, ask>>
      BY <1>1 DEF Wake
    <2>8. QED
      BY <2>1, <2>2, <2>4, <2>5, <2>6, <2>7
         DEF Promise!Learn, Promise!Answered, ShownReads, ShownPhase, ShownAnswer
  <1>2. ASSUME CancelWait(c) PROVE Promise!GiveUp(c)
    <2>1. ShownPhase[c] = "waiting"
      BY <1>2, DoingIs DEF CancelWait, ShownPhase
    <2>2. /\ pc'[c] = "idle" /\ result'[c] = "cancelled"
          /\ \A d \in Callers \ {c} : pc'[d] = pc[d] /\ result'[d] = result[d]
      BY <1>2 DEF CancelWait, IInv, TypeOK
    <2>3. /\ ShownPhase' = [ShownPhase EXCEPT ![c] = "idle"]
          /\ ShownAnswer' = [ShownAnswer EXCEPT ![c] = "cancelled"]
      BY <2>2, DoingIs, OneCallerMoves
    <2>4. ShownReads' = ShownReads
      BY <1>2, ReadsKept DEF CancelWait, cache
    <2>5. QED
      BY <1>2, <2>1, <2>3, <2>4
         DEF Promise!GiveUp, Promise!Answered, CancelWait, ShownReads, ShownPhase, ShownAnswer
  <1>3. QED
    BY <1>1, <1>2

\* An invalidation overtakes the reads begun so far of the keys it is about.
LEMMA InvalidatePromised ==
    ASSUME IInv, NEW p \in Providers, NEW a \in Auths, Invalidate(p, a)
    PROVE  \E K \in SUBSET Keys : Promise!Overtake(K)
  <1> DEFINE K == {k \in Keys : Matches(k, p, a)}
  <1>1. \A f \in 1 .. nflights : flight[f].key \in Keys
    BY CacheBounds DEF IInv, TypeOK, FlightsNumbered, Flights
  <1>2. stale' = stale \union {f \in DOMAIN ShownReads : ShownReads[f].key \in K}
    <2>1. {f \in 1 .. nflights : Matches(flight[f].key, p, a)}
              = {f \in 1 .. nflights : flight[f].key \in K}
      BY <1>1
    <2>2. \A f \in DOMAIN ShownReads : ShownReads[f] = flight[f]
      BY DEF ShownReads
    <2>3. DOMAIN ShownReads = 1 .. nflights
      BY DEF ShownReads
    <2>4. {f \in DOMAIN ShownReads : ShownReads[f].key \in K}
              = {f \in 1 .. nflights : flight[f].key \in K}
      BY <2>2, <2>3
    <2>5. QED
      BY <2>1, <2>4 DEF Invalidate
  <1>3. UNCHANGED <<ShownReads, ShownPhase, ShownAnswer, ask, joined>>
    BY DEF Invalidate, call, ShownReads, ShownPhase, ShownAnswer
  <1>4. Promise!Overtake(K)
    <2> HIDE DEF K
    <2> QED
      BY <1>2, <1>3 DEF Promise!Overtake, ShownReads, ShownPhase, ShownAnswer
  <1>5. K \in SUBSET Keys
    OBVIOUS
  <1>6. QED
    BY <1>4, <1>5

\* The clock, and a load that has returned, do not show.
LEMMA HiddenSteps ==
    ASSUME IInv, Tick \/ UNCHANGED vars \/ \E c \in Callers, o \in Outcomes : LoadReturns(c, o)
    PROVE  UNCHANGED Promise!promise
  <1>1. UNCHANGED <<ShownReads, ShownPhase, ShownAnswer, stale, ask, joined>>
    <2>1. CASE Tick \/ UNCHANGED vars
      BY <2>1 DEF Tick, vars, cache, call, ShownReads, ShownPhase, ShownAnswer
    <2>2. ASSUME NEW c \in Callers, NEW o \in Outcomes, LoadReturns(c, o)
          PROVE  UNCHANGED <<ShownReads, ShownPhase, ShownAnswer, stale, ask, joined>>
      <3>1. /\ pc'[c] = "publish" /\ pc[c] = "load"
            /\ \A d \in Callers \ {c} : pc'[d] = pc[d] /\ result'[d] = result[d]
        BY <2>2 DEF LoadReturns, IInv, TypeOK
      <3>2. ShownAnswer' = ShownAnswer
        BY <3>1, NoAnswerYet
      <3>3. ShownPhase' = ShownPhase
        BY <3>1, DoingIs DEF ShownPhase
      <3>4. ShownReads' = ShownReads
        BY <2>2, ReadsKept DEF LoadReturns, cache
      <3>5. QED
        BY <2>2, <3>2, <3>3, <3>4 DEF LoadReturns
    <2>3. QED
      BY <2>1, <2>2
  <1>2. QED
    BY <1>1 DEF Promise!promise, ShownReads, ShownPhase, ShownAnswer

\* get and invalidate implement FreshReads, for every set of keys and callers,
\* every ttl and every capacity.
THEOREM CacheKeepsPromise == Spec => AnswersAreFreshReads
  <1>1. Init => Promise!Init
    <2> SUFFICES ASSUME Init PROVE Promise!Init
      OBVIOUS
    <2>1. /\ ShownReads = <<>>
          /\ ShownPhase = [c \in Callers |-> "idle"]
          /\ ShownAnswer = [c \in Callers |-> "none"]
      BY DoingIs DEF Init, ShownReads, ShownPhase, ShownAnswer
    <2>2. QED
      BY <2>1 DEF Promise!Init, Init, ShownReads, ShownPhase, ShownAnswer
  <1>2. IInv /\ [Next]_vars => [Promise!Next]_(Promise!promise)
    <2> SUFFICES ASSUME IInv, [Next]_vars
                 PROVE  Promise!Next \/ UNCHANGED Promise!promise
      OBVIOUS
    <2>t. TypeOK
      BY DEF IInv
    <2>1. ASSUME NEW c \in Callers, Step(c)
          PROVE  Promise!Next \/ UNCHANGED Promise!promise
      <3>1. ASSUME NEW k \in Keys, Begin(c, k) \/ Refuse(c, k) PROVE Promise!Next
        BY <2>t, <3>1, BeginPromised DEF Promise!Next
      <3>2. ASSUME NEW o \in Outcomes, LoadDirect(c, o) PROVE Promise!Next
        BY <3>2, LoadDirectPromised DEF Promise!Next, Outcomes
      <3>3. ASSUME Publish(c) PROVE Promise!Next
        <4>1. PICK o \in Outcomes : result[c] = o
          BY <3>3 DEF IInv, CallsSound, Publish, Unbind, Keep, Close
        <4>2. Promise!Finish(c, o)
          BY <3>3, <4>1, PublishPromised
        <4>3. QED
          BY <4>2 DEF Promise!Next, Outcomes
      <3>4. ASSUME Hit(c) \/ Join(c) \/ Lead(c) \/ Wake(c) \/ CancelWait(c) PROVE Promise!Next
        BY <3>4, HitPromised, JoinPromised, LeadPromised, WakePromised DEF Promise!Next
      <3>5. QED
        BY <2>1, <3>1, <3>2, <3>3, <3>4, HiddenSteps DEF Step
    <2>2. ASSUME NEW p \in Providers, NEW a \in Auths, Invalidate(p, a) PROVE Promise!Next
      BY <2>2, InvalidatePromised DEF Promise!Next
    <2>3. QED
      BY <2>1, <2>2, HiddenSteps DEF Next
  <1>3. QED
    BY <1>1, <1>2, Inductive, PTL DEF Spec, AnswersAreFreshReads, Promise!Spec
=============================================================================
