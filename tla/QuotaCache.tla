----------------------------- MODULE QuotaCache -----------------------------
(***************************************************************************)
(* The quota read cache of the plugin (quotaReadCache, quota_cache.go):    *)
(* a table of unexpired successful reads, a table of the reads in flight,  *)
(* and one mutex.  Callers run get concurrently; anyone may invalidate a   *)
(* credential, or a whole provider, between any two critical sections.     *)
(*                                                                         *)
(* One action is one critical section of the mutex, or one step a caller   *)
(* takes outside it.  The value a read returns is represented by the       *)
(* flight that loaded it: flights are numbered in the order in which they  *)
(* were registered, so two values are the same read exactly when they have *)
(* the same number.                                                        *)
(***************************************************************************)
EXTENDS Naturals, FiniteSets

CONSTANTS
    Keys,         \* the cache keys in use (kind, provider, auth_index, fingerprint)
    Callers,      \* goroutines that may be inside get
    Cancellable,  \* those of them whose context may be cancelled
    ProviderOf,   \* the provider field of each key
    AuthOf,       \* the auth_index field of each key
    NoAuth,       \* the empty auth_index
    None,         \* the key of a call or of a flight that does not exist yet
    TTL,          \* the ttl get is called with for each key, in clock ticks
    MaxEntries,   \* quotaCacheMaxEntries
    MaxFlights,   \* bound on the number of reads of a behaviour
    MaxTime       \* bound on the clock

Providers == {ProviderOf[k] : k \in Keys}
Auths     == {AuthOf[k] : k \in Keys} \union {NoAuth}

ASSUME KeysFinite       == IsFiniteSet(Keys)
ASSUME NoneIsNoKey      == None \notin Keys
ASSUME CancellableCalls == Cancellable \subseteq Callers
ASSUME CacheBounds      == /\ TTL \in [Keys -> Nat]
                           /\ MaxEntries \in Nat \ {0}
                           /\ MaxFlights \in Nat
                           /\ MaxTime \in Nat

VARIABLES
    now,       \* the clock time.Now reads
    entries,   \* c.entries, NoEntry where the key is absent
    inFlight,  \* c.inFlight, 0 where the key is absent
    flight,    \* every flight ever registered, by number
    nflights,  \* how many there are
    pc,        \* where each caller is inside get
    ask,       \* the key it asked for
    joined,    \* the flight it leads, waits for, or took its value from
    result,    \* how its load, and then its call, ended
    stale,     \* history: flights whose key was invalidated after they began
    seen       \* history: what stale was when the call began

cache == <<entries, inFlight, flight, nflights>>
call  == <<pc, ask, joined, result, seen>>
vars  == <<now, cache, call, stale>>

-----------------------------------------------------------------------------
Flights    == 1 .. MaxFlights
Outcomes   == {"ok", "uncacheable", "error"}
Results    == Outcomes \union {"none", "cancelled"}
NoEntry    == [flight |-> 0, expiresAt |-> 0]
Entry      == [flight : Flights, expiresAt : Nat]
NoFlight   == [key |-> None, done |-> FALSE, outcome |-> "none"]
FlightRec  == [key : Keys, done : BOOLEAN, outcome : Results]

\* The keys an invalidation of provider p and auth_index a is about.
Matches(k, p, a) == ProviderOf[k] = p /\ (a = NoAuth \/ AuthOf[k] = a)

\* The keys that have an entry in table e, expired or not.
Held(e) == {k \in Keys : e[k] # NoEntry}

\* get does not use the cache at all: ttl <= 0 or no auth_index.
Bypasses(k) == TTL[k] = 0 \/ AuthOf[k] = NoAuth

\* Mutant: an entry is served in the instant it expires, too.
Live_atExpiry(k) == entries[k] # NoEntry /\ now <= entries[k].expiresAt

Live(k) == now < entries[k].expiresAt

\* The table after the purge of expired entries.
Purged == [k \in Keys |-> IF Live(k) THEN entries[k] ELSE NoEntry]

\* Mutant: the scan keeps the latest expiry instead of the earliest.
Oldest_keepsLatest(e) ==
    {k \in Held(e) : \A j \in Held(e) : e[k].expiresAt >= e[j].expiresAt}

\* The keys the scan for the oldest entry may end on: map order breaks ties.
Oldest(e) == {k \in Held(e) : \A j \in Held(e) : e[k].expiresAt <= e[j].expiresAt}

\* Mutant: room is made only when the table is already over its capacity.
RoomMade_offByOne(e) == IF Cardinality(Held(e)) <= MaxEntries
                        THEN {e}
                        ELSE {[e EXCEPT ![k] = NoEntry] : k \in Oldest(e)}

\* The table after making room for one more entry.
RoomMade(e) == IF Cardinality(Held(e)) < MaxEntries
               THEN {e}
               ELSE {[e EXCEPT ![k] = NoEntry] : k \in Oldest(e)}

\* Mutant: a miss does not look for a read in progress.
Loading_ignored(k) == FALSE

Loading(k) == inFlight[k] # 0

Running(f) == f <= nflights /\ ~flight[f].done

-----------------------------------------------------------------------------
Init ==
    /\ now = 0
    /\ entries = [k \in Keys |-> NoEntry]
    /\ inFlight = [k \in Keys |-> 0]
    /\ flight = [f \in Flights |-> NoFlight]
    /\ nflights = 0
    /\ pc = [c \in Callers |-> "idle"]
    /\ ask = [c \in Callers |-> None]
    /\ joined = [c \in Callers |-> 0]
    /\ result = [c \in Callers |-> "none"]
    /\ stale = {}
    /\ seen = [c \in Callers |-> {}]

\* A call begins; its context is not cancelled when ctx.Err is read.
Begin(c, k) ==
    /\ pc[c] = "idle"
    /\ pc' = [pc EXCEPT ![c] = "lookup"]
    /\ ask' = [ask EXCEPT ![c] = k]
    /\ joined' = [joined EXCEPT ![c] = 0]
    /\ result' = [result EXCEPT ![c] = "none"]
    /\ seen' = [seen EXCEPT ![c] = stale]
    /\ UNCHANGED <<now, cache, stale>>

\* A call whose context is already cancelled ends before it takes the mutex.
Refuse(c, k) ==
    /\ pc[c] = "idle"
    /\ c \in Cancellable
    /\ ask' = [ask EXCEPT ![c] = k]
    /\ joined' = [joined EXCEPT ![c] = 0]
    /\ result' = [result EXCEPT ![c] = "cancelled"]
    /\ seen' = [seen EXCEPT ![c] = stale]
    /\ UNCHANGED <<now, cache, stale, pc>>

\* The caller loads for itself and shares nothing.
LoadDirect(c, o) ==
    /\ pc[c] = "lookup"
    /\ Bypasses(ask[c])
    /\ pc' = [pc EXCEPT ![c] = "idle"]
    /\ result' = [result EXCEPT ![c] = o]
    /\ UNCHANGED <<now, cache, stale, ask, joined, seen>>

\* First critical section, first outcome: an unexpired entry.
Hit(c) ==
    LET k == ask[c] IN
    /\ pc[c] = "lookup"
    /\ ~Bypasses(k)
    /\ Live(k)
    /\ pc' = [pc EXCEPT ![c] = "idle"]
    /\ joined' = [joined EXCEPT ![c] = entries[k].flight]
    /\ result' = [result EXCEPT ![c] = flight[entries[k].flight].outcome]
    /\ UNCHANGED <<now, cache, stale, ask, seen>>

\* Mutant: flights are found by their credential, whatever it is that they read.
Join_ofCredential(c) ==
    LET k == ask[c] IN
    /\ pc[c] = "lookup"
    /\ ~Bypasses(k)
    /\ ~Live(k)
    /\ \E o \in {x \in Keys : Loading(x) /\ Matches(x, ProviderOf[k], AuthOf[k])} :
        joined' = [joined EXCEPT ![c] = inFlight[o]]
    /\ entries' = [entries EXCEPT ![k] = NoEntry]
    /\ pc' = [pc EXCEPT ![c] = "wait"]
    /\ UNCHANGED <<now, inFlight, flight, nflights, stale, ask, result, seen>>

\* Second outcome: another caller is loading this key; wait for it.
Join(c) ==
    LET k == ask[c] IN
    /\ pc[c] = "lookup"
    /\ ~Bypasses(k)
    /\ ~Live(k)
    /\ Loading(k)
    /\ entries' = [entries EXCEPT ![k] = NoEntry]
    /\ joined' = [joined EXCEPT ![c] = inFlight[k]]
    /\ pc' = [pc EXCEPT ![c] = "wait"]
    /\ UNCHANGED <<now, inFlight, flight, nflights, stale, ask, result, seen>>

\* Third outcome: nobody is; register a flight and leave the mutex to load.
Lead(c) ==
    LET k == ask[c]
        f == nflights + 1 IN
    /\ pc[c] = "lookup"
    /\ ~Bypasses(k)
    /\ ~Live(k)
    /\ ~Loading(k)
    /\ f \in Flights                      \* bound MaxFlights
    /\ entries' = [entries EXCEPT ![k] = NoEntry]
    /\ inFlight' = [inFlight EXCEPT ![k] = f]
    /\ flight' = [flight EXCEPT ![f] = [key |-> k, done |-> FALSE, outcome |-> "none"]]
    /\ nflights' = f
    /\ joined' = [joined EXCEPT ![c] = f]
    /\ pc' = [pc EXCEPT ![c] = "load"]
    /\ UNCHANGED <<now, stale, ask, result, seen>>

\* load returns: a value to cache, a value not to cache, or an error.
LoadReturns(c, o) ==
    /\ pc[c] = "load"
    /\ pc' = [pc EXCEPT ![c] = "publish"]
    /\ result' = [result EXCEPT ![c] = o]
    /\ UNCHANGED <<now, cache, stale, ask, joined, seen>>

\* Mutant: the value is taken from the binding after the binding was deleted.
Store_afterUnbinding(k, f) ==
    \E e \in RoomMade(Purged) :
        entries' = [e EXCEPT ![k] = [flight |-> inFlight'[k], expiresAt |-> now + TTL[k]]]

Store(k, f) ==
    \E e \in RoomMade(Purged) :
        entries' = [e EXCEPT ![k] = [flight |-> f, expiresAt |-> now + TTL[k]]]

\* Mutants: cache whatever became of the binding; delete whatever binding
\* there is; close the channel of a bound flight only.
Keep_unbound(k, f, o) == IF o = "ok" THEN Store(k, f) ELSE UNCHANGED entries
Unbind_any(k, f)      == inFlight' = [inFlight EXCEPT ![k] = 0]
Close_ifBound(k, f, o) ==
    flight' = IF inFlight[k] = f
              THEN [flight EXCEPT ![f].done = TRUE, ![f].outcome = o]
              ELSE flight

\* The second critical section: unbind the flight if it is still bound, cache
\* what it loaded if that was then a complete success, and in any case set
\* the flight's result and close its channel.
Unbind(k, f)   == inFlight' = [inFlight EXCEPT ![k] = IF @ = f THEN 0 ELSE @]
Keep(k, f, o)  == IF inFlight[k] = f /\ o = "ok" THEN Store(k, f) ELSE UNCHANGED entries
Close(k, f, o) == flight' = [flight EXCEPT ![f].done = TRUE, ![f].outcome = o]

Publish(c) ==
    /\ pc[c] = "publish"
    /\ Unbind(ask[c], joined[c])
    /\ Keep(ask[c], joined[c], result[c])
    /\ Close(ask[c], joined[c], result[c])
    /\ pc' = [pc EXCEPT ![c] = "idle"]
    /\ UNCHANGED <<now, nflights, stale, ask, joined, result, seen>>

\* A waiter takes what the flight published.
Wake(c) ==
    /\ pc[c] = "wait"
    /\ flight[joined[c]].done
    /\ pc' = [pc EXCEPT ![c] = "idle"]
    /\ result' = [result EXCEPT ![c] = flight[joined[c]].outcome]
    /\ UNCHANGED <<now, cache, stale, ask, joined, seen>>

\* A waiter's context ends: select may take that branch even when the flight
\* is done as well.
CancelWait(c) ==
    /\ pc[c] = "wait"
    /\ c \in Cancellable
    /\ pc' = [pc EXCEPT ![c] = "idle"]
    /\ joined' = [joined EXCEPT ![c] = 0]
    /\ result' = [result EXCEPT ![c] = "cancelled"]
    /\ UNCHANGED <<now, cache, stale, ask, seen>>

\* The table t without the keys an invalidation is about.
Dropped(t, absent, p, a) == [k \in Keys |-> IF Matches(k, p, a) THEN absent ELSE t[k]]

\* Mutant: the reads in progress stay bound.
Invalidate_entriesOnly(p, a) ==
    /\ entries' = Dropped(entries, NoEntry, p, a)
    /\ stale' = stale \union {f \in 1 .. nflights : Matches(flight[f].key, p, a)}
    /\ UNCHANGED <<now, inFlight, flight, nflights, call>>

\* invalidate(p, a): drop the entries and the in-flight bindings that match.
Invalidate(p, a) ==
    /\ entries' = Dropped(entries, NoEntry, p, a)
    /\ inFlight' = Dropped(inFlight, 0, p, a)
    /\ stale' = stale \union {f \in 1 .. nflights : Matches(flight[f].key, p, a)}
    /\ UNCHANGED <<now, flight, nflights, call>>

Tick ==
    /\ now < MaxTime
    /\ now' = now + 1
    /\ UNCHANGED <<cache, call, stale>>

Step(c) ==
    \/ \E k \in Keys : Begin(c, k) \/ Refuse(c, k)
    \/ \E o \in Outcomes : LoadDirect(c, o) \/ LoadReturns(c, o)
    \/ Hit(c) \/ Join(c) \/ Lead(c) \/ Publish(c) \/ Wake(c) \/ CancelWait(c)

Next ==
    \/ \E c \in Callers : Step(c)
    \/ \E p \in Providers, a \in Auths : Invalidate(p, a)
    \/ Tick

Spec == Init /\ [][Next]_vars

\* A load is a host callback that answers or fails, and a goroutine that is
\* ready to run, or to take a free mutex, eventually does.
LoadFinishes(c) == \E o \in Outcomes : LoadReturns(c, o)
Fairness == \A c \in Callers : WF_vars(LoadFinishes(c)) /\ WF_vars(Publish(c) \/ Wake(c))
FairSpec == Spec /\ Fairness

-----------------------------------------------------------------------------
\* The variables keep their types: in particular a bound flight exists.
TypeOK ==
    /\ now \in Nat
    /\ entries \in [Keys -> Entry \union {NoEntry}]
    /\ inFlight \in [Keys -> Flights \union {0}]
    /\ flight \in [Flights -> FlightRec \union {NoFlight}]
    /\ nflights \in 0 .. MaxFlights
    /\ pc \in [Callers -> {"idle", "lookup", "load", "publish", "wait"}]
    /\ ask \in [Callers -> Keys \union {None}]
    /\ joined \in [Callers -> Flights \union {0}]
    /\ result \in [Callers -> Results]
    /\ stale \subseteq Flights
    /\ seen \in [Callers -> SUBSET Flights]

\* A call that begins after an invalidation returned never gets a value (nor
\* an error) from a read that was begun before that invalidation, by a hit or
\* by waiting, however long that read stays in flight (invalidate drops the
\* in-flight binding, get publishes only under its own binding).
FreshForLaterCallers ==
    \A c \in Callers : pc[c] \in {"idle", "wait"} => joined[c] \notin seen[c]

\* Whatever get hands out was read for the very key the caller asked for, and
\* was published before it was handed out.
AnswersItsKey ==
    \A c \in Callers :
        pc[c] = "idle" /\ joined[c] # 0 =>
            /\ flight[joined[c]].key = ask[c]
            /\ flight[joined[c]].done
            /\ flight[joined[c]].outcome = result[c]

\* The cache holds only complete successes, each of a read that no
\* invalidation has overtaken: "never caches errors" (quota_cache.go:81).
EntriesAreCurrent ==
    \A k \in Held(entries) :
        LET f == entries[k].flight IN
        flight[f].key = k /\ flight[f].outcome = "ok" /\ f \notin stale

\* Simultaneous misses of one key share one read: two reads of the same key
\* overlap only when an invalidation came between their beginnings.
MissesCoalesce ==
    \A f, g \in 1 .. nflights :
        f # g /\ Running(f) /\ Running(g) /\ flight[f].key = flight[g].key =>
            f \in stale \/ g \in stale

\* The table never grows beyond quotaCacheMaxEntries.
CacheBounded == Cardinality(Held(entries)) <= MaxEntries

\* An entry leaves the cache only because it has expired, because it was
\* invalidated, or because the table was full of live entries and none would
\* expire before it.
DropsForAReason ==
    \A k \in Held(entries) :
        entries'[k] # entries[k] =>
            \/ ~Live(k)
            \/ entries[k].flight \in stale'
            \/ /\ Cardinality({j \in Keys : Live(j)}) >= MaxEntries
               /\ \A j \in Keys : Live(j) => entries[k].expiresAt <= entries[j].expiresAt
NothingLostEarly == [][DropsForAReason]_vars

\* A successful read that no invalidation overtook is in the cache as soon as
\* it is published, whatever else the table held.
Cached(f) ==
    f \notin stale /\ ~flight[f].done /\ flight'[f].done /\ flight'[f].outcome = "ok" =>
        entries'[flight[f].key].flight = f
SuccessIsCached == [][\A f \in 1 .. nflights : Cached(f)]_vars

\* What a caller of get is promised: the table, the bindings, the clock and the
\* steps inside a load are hidden.
Doing   == [idle |-> "idle", lookup |-> "asking", wait |-> "waiting",
            load |-> "reading", publish |-> "reading"]
Promise == INSTANCE FreshReads WITH
    reads     <- [f \in 1 .. nflights |-> flight[f]],
    overtaken <- stale,
    phase     <- [c \in Callers |-> Doing[pc[c]]],
    key       <- ask,
    of        <- joined,
    result    <- [c \in Callers |-> IF pc[c] = "idle" THEN result[c] ELSE "none"]

\* get and invalidate together keep that promise: whatever expires, is evicted
\* or is unbound, every answer is the outcome of a read that its caller was
\* entitled to when it turned to it, and nobody starts a read beside one that
\* it could have waited for.
AnswersAreFreshReads == Promise!Spec

\* Everyone who waits for a flight is released, also when the flight was
\* unbound by an invalidation meanwhile (close(flight.done) is unconditional).
WaitersAreReleased ==
    \A c \in Callers : pc[c] = "wait" ~> pc[c] = "idle"
=============================================================================
