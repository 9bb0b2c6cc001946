----------------------------- MODULE QuotaReads -----------------------------
(***************************************************************************)
(* One Codex credential as it is read and reset through the quota cache    *)
(* (quota.go).  A reader is a goroutine that serves the /quota resource,   *)
(* whose read of the account nests a read of the native quota in its load, *)
(* or CPA's native quota.fetch, which does the inner read alone.  A        *)
(* resetter runs ResetQuota: check the credits, invalidate the cache, and  *)
(* post the one request that consumes a credit.  A visitor calls           *)
(* /quota/direct, which has no auth_index and goes round the cache.        *)
(*                                                                         *)
(* The cache is QuotaCache, with two callers per reader.  The upstream     *)
(* service is external: its quota is the number of resets it has applied,  *)
(* and a posted reset may be applied or not, and answered or not.          *)
(***************************************************************************)
EXTENDS QuotaCache

CONSTANTS
    Readers,      \* goroutines that read the quota of the credential
    Resetters,    \* goroutines that may run ResetQuota for it
    Visitors,     \* goroutines that may serve /quota/direct for its account
    ResourceKey,  \* its codex-resource key
    NativeKey,    \* its codex-native key
    NCredits      \* reset credits the account has at first

ASSUME ReaderCallers == Callers = Readers \X {"resource", "native"}
ASSUME TwoKeys       == Keys = {ResourceKey, NativeKey} /\ ResourceKey # NativeKey
ASSUME OneCredential == /\ AuthOf[ResourceKey] = AuthOf[NativeKey]
                        /\ ProviderOf[ResourceKey] = ProviderOf[NativeKey]
ASSUME NCreditsIsNat == NCredits \in Nat

VARIABLES
    nested,    \* readers whose resource load has issued its native read
    source,    \* the native flight whose usage a flight carries
    fetched,   \* when that usage was read, of which quota, and the credits told
    span,      \* history: when each flight was registered and when published
    visit,     \* where each call of /quota/direct is
    live,      \* and the usage it has read
    quota,     \* upstream: resets applied so far
    credits,   \* upstream: credits that are available, in list order
    resetPc,   \* where each resetter is
    chosen,    \* the credit it found available
    outcome,   \* how its call ended
    old,       \* history: the flights that existed when it found it
    applied    \* history: whether upstream applied the reset

reads    == <<nested, source, fetched, span>>
visits   == <<visit, live>>
upstream == <<quota, credits>>
resets   == <<resetPc, chosen, outcome, old, applied>>
allVars  == <<vars, reads, visits, upstream, resets>>

Outer(r) == <<r, "resource">>
Inner(r) == <<r, "native">>
NotFetched == [at |-> 0, quota |-> 0, credits |-> 0]
NoSpan     == [from |-> 0, to |-> 0]

-----------------------------------------------------------------------------
InitReads ==
    /\ Init
    /\ nested = {}
    /\ source = [f \in Flights |-> 0]
    /\ fetched = [f \in Flights |-> NotFetched]
    /\ span = [f \in Flights |-> NoSpan]
    /\ visit = [v \in Visitors |-> "idle"]
    /\ live = [v \in Visitors |-> NotFetched]
    /\ quota = 0
    /\ credits = 1 .. NCredits
    /\ resetPc = [s \in Resetters |-> "idle"]
    /\ chosen = [s \in Resetters |-> 0]
    /\ outcome = [s \in Resetters |-> "none"]
    /\ old = [s \in Resetters |-> {}]
    /\ applied = [s \in Resetters |-> FALSE]

\* The /quota resource asks the cache for the account of the credential.
ResourceRequest(r) ==
    /\ pc[Inner(r)] = "idle"
    /\ Begin(Outer(r), ResourceKey)
    /\ UNCHANGED <<reads, visits, upstream, resets>>

\* CPA asks for the native quota of the credential (quota.fetch).
NativeRequest(r) ==
    /\ pc[Outer(r)] = "idle"
    /\ Begin(Inner(r), NativeKey)
    /\ UNCHANGED <<reads, visits, upstream, resets>>

\* The load of the resource key calls FetchQuota first.
NestedRequest(r) ==
    /\ pc[Outer(r)] = "load"
    /\ r \notin nested
    /\ Begin(Inner(r), NativeKey)
    /\ nested' = nested \union {r}
    /\ UNCHANGED <<source, fetched, span, visits, upstream, resets>>

\* Flight f carries the usage that native flight from has read.
Fetch(f, from, what) ==
    /\ source' = [source EXCEPT ![f] = from]
    /\ fetched' = [fetched EXCEPT ![f] = what]

\* Upstream tells the usage and, with it, how many credits there are.
Usage(when) == [at |-> when, quota |-> quota, credits |-> Cardinality(credits)]

\* The load of the native key reads the usage upstream, with its retries.
ReadUsage(r, o) ==
    LET f == joined[Inner(r)] IN
    /\ LoadReturns(Inner(r), o)
    /\ IF o = "ok"
       THEN Fetch(f, f, Usage(now))
       ELSE UNCHANGED <<source, fetched>>
    /\ UNCHANGED <<nested, span, visits, upstream, resets>>

\* Mutant: the usage is read again after the details.
WithDetails_usageLast(u, o) == {[u EXCEPT !.quota = quota]}

\* The credit details, read after usage u, tell how many credits there are, or
\* leave that to the usage; it is all there is where they cannot be read.
WithDetails(u, o) ==
    {u} \union (IF o = "ok" THEN {[u EXCEPT !.credits = Cardinality(credits)]} ELSE {})

\* The load of the resource key has the usage and reads the credit details:
\* without them the account is complete enough to answer but not to cache.
\* Without the usage it fails.
ResourceOutcomes(o) == IF o = "ok" THEN {"ok", "uncacheable"} ELSE {"error"}

FinishResource(r) ==
    LET f == joined[Outer(r)]
        g == joined[Inner(r)] IN
    /\ pc[Outer(r)] = "load"
    /\ r \in nested
    /\ pc[Inner(r)] = "idle"
    /\ \E o \in ResourceOutcomes(result[Inner(r)]) :
          /\ LoadReturns(Outer(r), o)
          /\ \E u \in WithDetails(fetched[g], o) : Fetch(f, source[g], u)
    /\ nested' = nested \ {r}
    /\ UNCHANGED <<span, visits, upstream, resets>>

\* /quota/direct: FetchQuota is called without an auth_index and so reads the
\* usage itself, and the credit details are read after it.  A call whose usage
\* cannot be read leaves nothing behind; when it was read is of no matter.
VisitUsage(v) ==
    /\ visit[v] = "idle"
    /\ visit' = [visit EXCEPT ![v] = "details"]
    /\ live' = [live EXCEPT ![v] = Usage(0)]
    /\ UNCHANGED <<vars, reads, upstream, resets>>

VisitDetails(v) ==
    /\ visit[v] = "details"
    /\ visit' = [visit EXCEPT ![v] = "answered"]
    /\ \E u \in WithDetails(live[v], "ok") : live' = [live EXCEPT ![v] = u]
    /\ UNCHANGED <<vars, reads, upstream, resets>>

\* The steps of get itself, for either call of a reader.
CacheStep(c) ==
    /\ \/ Hit(c) /\ UNCHANGED span
       \/ Join(c) /\ UNCHANGED span
       \/ Lead(c) /\ span' = [span EXCEPT ![nflights + 1].from = now]
       \/ Publish(c) /\ span' = [span EXCEPT ![joined[c]].to = now]
       \/ Wake(c) /\ UNCHANGED span
    /\ UNCHANGED <<nested, source, fetched, visits, upstream, resets>>

\* Time may pass between any two steps: a read takes as long as its requests
\* and the backoff between them take, and its TTL begins when it is published.
Pass ==
    /\ Tick
    /\ UNCHANGED <<reads, visits, upstream, resets>>

-----------------------------------------------------------------------------
\* ResetQuota, called with usable credentials; each resetter makes one call.
BeginReset(s) ==
    /\ resetPc[s] = "idle"
    /\ resetPc' = [resetPc EXCEPT ![s] = "check"]
    /\ UNCHANGED <<vars, reads, visits, upstream, chosen, outcome, old, applied>>

EndReset(s, o) ==
    /\ resetPc' = [resetPc EXCEPT ![s] = "done"]
    /\ outcome' = [outcome EXCEPT ![s] = o]

\* The credits could not be read, or there is none to consume.
RefuseReset(s) ==
    /\ resetPc[s] = "check"
    /\ EndReset(s, "refused")
    /\ UNCHANGED <<vars, reads, visits, upstream, chosen, old, applied>>

\* The first available credit of the list is the one to consume.
ChooseCredit(s) ==
    /\ resetPc[s] = "check"
    /\ \E i \in credits :
          /\ \A j \in credits : i <= j
          /\ chosen' = [chosen EXCEPT ![s] = i]
    /\ old' = [old EXCEPT ![s] = 1 .. nflights]
    /\ resetPc' = [resetPc EXCEPT ![s] = "invalidate"]
    /\ UNCHANGED <<vars, reads, visits, upstream, outcome, applied>>

\* Mutant: only the native read of the credential is dropped.
InvalidateBeforeConsume_nativeOnly(s) ==
    /\ resetPc[s] = "invalidate"
    /\ entries' = [entries EXCEPT ![NativeKey] = NoEntry]
    /\ inFlight' = [inFlight EXCEPT ![NativeKey] = 0]
    /\ resetPc' = [resetPc EXCEPT ![s] = "consume"]
    /\ UNCHANGED <<now, flight, nflights, call, stale, reads, visits, upstream,
                   chosen, outcome, old, applied>>

\* The native and the resource reset know the auth_index of the credential;
\* /quota/direct/reset does not and invalidates the provider.
InvalidateBeforeConsume(s) ==
    /\ resetPc[s] = "invalidate"
    /\ \E a \in {AuthOf[NativeKey], NoAuth} : Invalidate(ProviderOf[NativeKey], a)
    /\ resetPc' = [resetPc EXCEPT ![s] = "consume"]
    /\ UNCHANGED <<reads, visits, upstream, chosen, outcome, old, applied>>

\* The post reaches upstream and the credit is still there: it is consumed.
\* The answer may be lost on its way back.
Consume(s) ==
    /\ resetPc[s] = "consume"
    /\ chosen[s] \in credits
    /\ credits' = credits \ {chosen[s]}
    /\ quota' = quota + 1
    /\ applied' = [applied EXCEPT ![s] = TRUE]
    /\ \E o \in {"success", "uncertain"} : EndReset(s, o)
    /\ UNCHANGED <<vars, reads, visits, chosen, old>>

\* The post is lost, refused or not confirmed, and nothing is consumed.
ConsumeFails(s) ==
    /\ resetPc[s] = "consume"
    /\ EndReset(s, "uncertain")
    /\ UNCHANGED <<vars, reads, visits, upstream, chosen, old, applied>>

ReadStep(r) ==
    \/ ResourceRequest(r) \/ NativeRequest(r) \/ NestedRequest(r) \/ FinishResource(r)
    \/ \E o \in {"ok", "error"} : ReadUsage(r, o)

ResetStep(s) ==
    \/ BeginReset(s) \/ RefuseReset(s) \/ ChooseCredit(s) \/ InvalidateBeforeConsume(s)
    \/ Consume(s) \/ ConsumeFails(s)

VisitStep(v) == VisitUsage(v) \/ VisitDetails(v)

NextReads ==
    \/ \E r \in Readers : ReadStep(r)
    \/ \E c \in Callers : CacheStep(c)
    \/ \E s \in Resetters : ResetStep(s)
    \/ \E v \in Visitors : VisitStep(v)
    \/ Pass

SpecReads == InitReads /\ [][NextReads]_allVars

-----------------------------------------------------------------------------
\* The usage inside an answer was read after every invalidation that had
\* returned when the call began, also when a resource read took it from the
\* native read that another goroutine has in progress or has cached.
UsageIsFresh ==
    \A c \in Callers :
        pc[c] = "idle" /\ joined[c] # 0 => source[joined[c]] \notin seen[c]

\* Once upstream has consumed the credit, even if its answer was lost, the
\* cache does not hold usage that was read before the call invalidated it
\* (quota.go:195, "The upstream may consume a credit even when the response is
\* lost"), neither under the native key nor inside a resource entry.
ResetHidesOldQuota ==
    \A s \in Resetters : applied[s] =>
        \A k \in Held(entries) : source[entries[k].flight] \notin old[s]

\* No answer, of a resource that joins or hits a cached read or of a visit,
\* offers a credit that its own usage shows as spent: the two are read one
\* after the other, and a reset may come between them (quota.go:506, 862).
NoSpentCreditOffered ==
    /\ \A c \in Callers :
          pc[c] = "idle" /\ joined[c] # 0 =>
              fetched[joined[c]].quota + fetched[joined[c]].credits <= NCredits
    /\ \A v \in Visitors :
          visit[v] = "answered" => live[v].quota + live[v].credits <= NCredits

\* What quota.go:195 says: reads after a reset do not reuse old quota.  Once a
\* reset has reported success, no entry that would answer a read that begins
\* now has a quota without it.
ResetIsSeen ==
    \A k \in Keys :
        Live(k) => fetched[entries[k].flight].quota >= Cardinality({s \in Resetters : outcome[s] = "success"})

\* How long a published flight was in progress.
Lasted(f) == span[f].to - span[f].from

\* What README_EN.md:127 says: "Quota values ... can lag by up to one TTL".
\* Even if none of the time that reads were in progress is counted, no entry
\* outlives the reading of the usage it holds by more than one TTL.
LagWithinTTL ==
    \A k \in Held(entries) :
        LET f == entries[k].flight IN
        entries[k].expiresAt <= fetched[f].at + TTL[k] + Lasted(f) + Lasted(source[f])

\* What does hold (quota.go:505, quota_cache.go:131, 147): a native entry is
\* dropped within its TTL and the time its read lasted, and a resource entry
\* before two TTLs and the time of two reads have passed, since the usage was
\* read.  Reads that nest, join and hit one another do not add up any further.
LagWithinTTLsAndReads ==
    \A k \in Held(entries) :
        LET f == entries[k].flight
            g == source[f]
            readAt == fetched[f].at IN
        IF k = NativeKey
        THEN entries[k].expiresAt <= readAt + Lasted(f) + TTL[k]
        ELSE entries[k].expiresAt < readAt + Lasted(g) + TTL[NativeKey] + Lasted(f) + TTL[k]
=============================================================================
