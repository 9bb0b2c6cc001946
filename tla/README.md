# Verification of cpa-plugin-userrouting

A Go plugin of CPA (CLIProxyAPI). It recognises the downstream API key of a
request, sends the request to the model under that key's own prefix or under a
default one, moves on to fallback prefixes when a quota is exhausted, hides
prefixed models behind aliases, and serves quota queries and quota resets to
the keys. CPA calls it through a C ABI, from many threads at once.

The modules here model the parts with state, order, failure and concurrency.
TLC checks small instances of them. TLAPS proves the safety properties for
every value of the constants.

Contents: [1 Inventory](#1-inventory) · [2 Modules](#2-modules) ·
[3 Runs](#3-runs) · [4 Proofs](#4-proofs) · [5 Findings](#5-findings) ·
[6 What is left out](#6-what-is-left-out) · [7 Plan](#7-plan)

To run one: `tlc -config QuotaResets.cfg MCQuotaReads`, `tlapm QuotaReads_proofs.tla`.

## 1 Inventory

Paths are below `src/`; Go files without a directory are in
`internal/userrouting/`.

### Quota read cache (`quota_cache.go`)

*State*: `entries` (key to value and expiry), `inFlight` (key to the read in
progress), one mutex, a capacity of 256. A key is kind, provider, auth_index and
a fingerprint of the credentials.
*Operations*: `get` (hit, join a running read, or lead one), `invalidate`
(a provider and an auth_index, or all of a provider).
*Hard*: the read itself runs outside the mutex. It may be invalidated, replaced
by a second read of the same key, cancelled, or fail, while others wait on its
channel.
*Correct if*: nobody whose call began after an invalidation gets a read from
before it; answers are of the key that was asked; simultaneous misses share one
read; only complete successes stay; entries are lost only for a reason; waiters
are always released.

### Codex quota: native read, account read, reset (`quota.go`)

*State*: none but the cache; upstream keeps usage and reset credits.
*Operations*: `FetchQuota` (cached native read), the account read of `/quota`
(cached, nests the native one in its load), `ResetQuota` (read the credits,
invalidate, post one consuming request), `/quota/direct` and
`/quota/direct/reset` (the same without an auth_index, so without the cache, and
with the invalidation of every credential of the provider).
*Hard*: a cached read inside another cached read, races of reads with a reset,
an answer to the post that is lost after upstream has acted, two reads upstream
(usage, credit details) in one answer.
*Correct if*: usage in an answer is never older than an invalidation before the
call; what was read before a consumed reset does not stay in the cache; the
credits in an answer agree with its usage.

### Quota by provider and email (`quota.go`, `quota_management_center.go`)

*State*: none but the cache; CPA keeps the auth files and the tokens in them.
*Operations*: `handleQuotaByProviderEmail` (list, read, match one file, query it
through the cache), the queries of Claude (usage, then the profile), Antigravity
(endpoints in turn, then the plan) and other providers (one call of CPA).
*Hard*: CPA rewrites a file between the read that matched it, the key made of what
was read, and each call of the query, for which CPA takes the token; any call may fail.
*Correct if*: nothing is answered that an older credential has read; found, not
found and ambiguous agree with the files that were read; an endpoint without
groups does not hide a later one.

### Executor with quota fallback (`runtime.go`, `main_cgo.go`, `config.go`)

*State*: of each request the targets, the index, the host stream, whether a
payload was emitted; the loaded runtime.
*Operations*: `executor.execute`, `executor.execute_stream` (a goroutine that
outlives the call), `streamModel`, normalisation of `quota_fallback`.
*Hard*: each of open, read, emit, close may fail; an emit may report an error
although the client got the payload; the plugin is reconfigured or shut down
meanwhile.
*Correct if*: one answer reaches the client, in order; host streams do not leak;
the configured targets are tried in order, exactly as far as they should be; an
accepted stream is closed exactly once.

### CPA configuration reader (`config.go`)

*State*: the client keys last read, with modification time and size, a mutex.
*Operations*: `Snapshot`.
*Hard*: the file is looked at before the mutex is taken and read after, and CPA
rewrites, damages or removes it meanwhile.
*Correct if*: a snapshot is one the file held at some moment of the call.

### Request routing, API keys, model catalog (`runtime.go`, `auth.go`, `catalog.go`)

*State*: one catalog with an expiry, under a mutex held while CPA is asked.
*Operations*: `Route`, `Resolve`, `ModelExists`/`snapshot`, `applyPrefix`.
*Hard*: two snapshots per request, look-ups that fail or are late, a catalog
shared by all keys, what CPA offers changes.
*Correct if*: the key was listed in the call; the choice between own and default
prefix agrees with a recent offer of CPA; everyone is answered.

### Model registration and model-list interceptor (`model_registration.go`, `models_response.go`, `catalog.go`)

*State*: `deduplicatedModelsLoaded` and a bypass token of each runtime; CPA keeps
the registered aliases.
*Operations*: `RegisterModels` (key by key), `InterceptResponse`.
*Hard*: the look-ups of a registration are model lists, too, and pass through the
interceptor; registrations overlap each other, client lists and
reconfigurations; a list is intercepted some time after CPA has built it.
*Correct if*: a look-up is not filtered by its own interceptor; nothing is hidden
without an alias.

### Quota resource of a key: query and reset (`quota.go`)

*State*: of each request the walk over prefixes and credentials, accounts,
errors, counters; auth files, quotas and credits are CPA's and upstream's.
*Operations*: `GET /quota` (nominal prefix, then fallbacks, until one has quota
left), `GET /quota/reset` (one reset for each credential of the nominal
prefix), `retryQuotaRead`.
*Hard*: many reads of which any may fail; the world changes during the walk;
accounts may share an email or have none.
*Correct if*: `actual_prefix`, `partial`, `success` and the listed accounts say
what was so; no credit is consumed twice.

### The others

| Component | State and operations | Status |
|---|---|---|
| Retried reads (`quota.go`) | tries of one read | tries of the credits read modelled; other reads take all their tries in one step |
| Plugin lifecycle (`main_cgo.go`) | the loaded runtime; register, reconfigure, shutdown | as the executor and the registration see it; caches of several runtimes are in the plan |
| Plugin configuration (`config.go`) | none; parsing | `normalizeQuotaFallback` is modelled; the rest parses one value at a time |
| C ABI, envelopes, buffers (`main_cgo.go`) | none | not modelled |
| Packaging, scripts, `main_nocgo.go` | none | not modelled: not part of the running plugin |

How they interact: an executor request resolves its model through routing, which
uses the reader and the catalog; the quota resource recognises its key by the same
reader and reads through the quota cache; registration asks the catalog, whose
look-ups come back through the interceptor. The interceptor and the executor use
whichever runtime is loaded when they are called.

## 2 Modules

| Module | Models | Builds on |
|---|---|---|
| `FreshReads` | abstract: what a caller of the cache is promised | |
| `QuotaCache` | `get`, `invalidate` | refines `FreshReads` |
| `QuotaReads` | native and account reads, `ResetQuota`, `/quota/direct` and its reset | EXTENDS `QuotaCache`, every behaviour is one of its `Spec` |
| `ProviderQuota` | `handleQuotaByProviderEmail`, the Management Center queries | EXTENDS `QuotaCache`, every behaviour is one of its `Spec` |
| `FallbackTargets` | `normalizeQuotaFallback`, `quotaFallbackTargets` (pure) | |
| `Delivery` | abstract: what the client of a stream is promised | |
| `StreamFallback` | `Execute`, `RunStream`, `streamModel`, `executeStream` | EXTENDS `FallbackTargets`, refines `Delivery` |
| `ConfigReader` | `CPAConfigReader.Snapshot` | |
| `KeyRouting` | `Route`, `Resolve`, the catalog | EXTENDS `ConfigReader`, every behaviour is one of `ReaderSpec` |
| `ModelVisibility` | `RegisterModels`, `InterceptResponse` | |
| `QuotaResource` | `/quota`, `/quota/reset` | |
| `MC*` | the instances TLC checks | the module of that name |
| `*_proofs` | the theorems | the module of that name |

An operator named `X_reason` (`Emits_afterDone`, `Unbind_any`) with a comment
that begins with "Mutant" is a plausible bug in the place of `X`. No specification
uses it. It documents what the properties of the runs are able to see: with it in
place of `X`, the run reports the property it was written for.

### QuotaCache, FreshReads

One action is one critical section, or one step a caller takes outside the mutex.
`Hit`, `Join`, `Lead` are the three ends of the first critical section of `get`;
`LoadReturns` is the load; `Publish` the second critical section (unbind if still
bound, purge, evict and store if it is a cacheable success, then close the
channel); `Wake` and `CancelWait` the two branches of the select; `LoadDirect` the
bypass without TTL or auth_index (`TTL` is a function of the key: the quota of some
providers is not cached); `Invalidate` is `invalidate`. A value is
represented by the number of the flight that read it, so that "the same read" is
an equality. `stale` (flights that an invalidation has overtaken) and `seen` (what
`stale` was when a call began) are history: no guard reads them.

FreshReads knows no table, no clock, no capacity, no binding. It has the reads that were
begun, those an invalidation has overtaken, and what each caller asks, runs, waits for or
was answered with. In it a caller is answered at once only with a complete success, waits
only for a read still running, begins one only when there is none to wait for, and
never turns to an overtaken read. The mapping `Promise` takes flights for reads and `stale` for
the overtaken ones. `Doing` is what a caller is seen to do: from `Lead` to `Publish` it
reads. Its answer counts only when the call is over. `Tick` stutters, and so does
`LoadReturns` of a shared read: its outcome is nobody's until it is published.

### QuotaReads

Each reader has two callers of the cache: its account read and the native read
inside it. `NestedRequest` and `FinishResource` are the load of the account key;
`ReadUsage` is the load of the native key, at the moment upstream gives the usage;
`WithDetails` are the credit details read after it, without which the account is
answered and not cached. A visitor is a call of `/quota/direct`: `VisitUsage` and
`VisitDetails` are its two reads upstream, and its calls leave the cache alone. A resetter takes
`ChooseCredit`, `InvalidateBeforeConsume`, `Consume`/`ConsumeFails` in the order of
`ResetQuota`; a consumed credit may be reported as uncertain. The invalidation is of
the credential, or, over `/quota/direct/reset`, of all of its provider. The quota is counted
in resets applied. `Pass` is possible between any two steps, so a read may last while
entries age, and an entry gets its TTL only when its read is published, after its requests
and the backoff between them. `span`, when a flight was registered and when it was
published, is history. Contexts are not cancelled here, they are in QuotaCache.

### ProviderQuota

A credential is the place of its file in CPA's list, a key is a credential and a version of
its file. `ListAuths` is the call of CPA and the filter by provider, state and listed
email (a listing may hide a file, tell its email or leave it blank); `ReadAuth` reads
the next file and compares, `EndScan` and `AskCache` are what follows the last.
Each call of the management API is one action that stands for its four attempts:
`AskUsage`, `AskSubscription`, `AskEndpoint`, `AskNative`; `Token` is the version of
the file CPA takes the token from, at the moment of that call. What is decoded from an
answer is a choice among the forms the code tells apart (groups, none, garbled). `Status` is the
answer of the request. `Rewrite` is CPA. Time passes between any two steps. No version comes back: a credential that
is replaced and then restored to the very same bytes has the old fingerprint again,
which is what the code means it to have.

### FallbackTargets, StreamFallback, Delivery

Models and prefixes are sequences of segments, so "prefix plus slash" is
`IsStrictPrefix`. Two spellings of a prefix (`team`, `/team/`) normalise to one path,
and Go's map order decides whose list comes first: normalisation returns a set of
tables. One action of a request is one host call together with the code up to the
next: `Opens`, `ReadPayload`, `Emits`, `Release` and their failures, `Executes` for
requests that are not streamed, `Failed` for the loop over targets,
`ClosePluginStream` for the goroutine. `Refuse` is a call that ends before there is a
goroutine: no runtime, a request that cannot be read, no stream named. `Errors` are what
`isCodexQuotaExhausted`, `isCPAModelCooldown` and `streamModel` tell apart.
`Reconfigure` and `Shutdown` replace the loaded runtime; accepted requests keep
theirs. Delivery has the payloads produced, received and the end; the mapping takes
`got`, the length of `delivered`, and `closes`.

### ConfigReader, KeyRouting

`Stat` is the look at the file outside the mutex; `Kept`, `Read`, `ReadFails` are
the critical section, in which only the file is foreign. The file is the history of its
versions; the version stands for modification time and size. KeyRouting uses
`Snapshot` in both handlers, takes the first candidate key that is listed, and asks
the catalog only if the key has a prefix that changes the model. `holder` is the mutex of the
catalog; it stays taken from `CatalogMiss` to `Store` or `FetchFails`, with `Answer`
(CPA) and time in between. A look-up ends at its deadline at the latest.

### ModelVisibility

A call of `RegisterModels` clears the flag of the runtime it runs on, looks its
keys up one by one (in any order; the code sorts them), sets the flag if it has found an
alias, and returns; `Register` is CPA. Every list takes two steps, between which anything may
happen: CPA builds it (`AskCatalog` for a look-up, `Build` for a client), and only
then the interceptor reads the flag (`LookUp`, `Intercept`). `Intercepted` is
the interceptor of the runtime that is *loaded* by then; the token of another runtime is of
no use to it. `built` is a client's list on its way, `shown` what the client got;
`settled` says that CPA had nothing left to register when the list was intercepted
and has registered nothing since it was built.

### QuotaResource

One action is the step of one request at one file: `Unreadable`, `Skip`, `Nameless`,
`Match`, then the read, or the read of the credits with its retries and the post. At
the end of a walk `NextPrefix` or an answer. `Fault` says where a failure goes: a
query notes an error of the candidate prefix, a reset counts it. A read of a quota may
return any quota the credential ever had. That covers whatever the cache may
answer. `Change` moves a credential, uses or restores its quota or spends a credit
between any two steps. `listed` is chosen freely: entries of CPA's list may be
disabled or unavailable. Requests meet only in the world around them.

## 3 Runs

Passing runs:

| Run | Instance | What it shows |
|---|---|---|
| `cache_races` (QuotaCacheRaces.cfg) | 2 callers, one of them cancellable, a cached key and one without auth_index, 3 flights, TTL 1, time 1 | `FreshForLaterCallers`, `EntriesAreCurrent`, `MissesCoalesce`, refinement `AnswersAreFreshReads`; fair: `WaitersAreReleased` |
| `reset_reads` (QuotaResets.cfg) | 2 readers with nested reads, 1 visitor, 1 reset, 1 credit, 3 flights, TTL 1, time 1; the readers are interchangeable; a visit is explored beside one flight at most | `UsageIsFresh`, `NoSpentCreditOffered`, `ResetHidesOldQuota`, `LagWithinTTLsAndReads`; of the cache beneath, with two cached keys: `AnswersItsKey` |
| `provider_quota` (ProviderQuota.cfg) | 1 request at a time, any number of them; a file of Claude, two of Antigravity, one of a provider without caching; 1 rewrite, 3 endpoints, 2 entries, 3 flights, TTL 2, time 2 | `NoPreviousQuota`, `VerdictIsTrue`, `GroupsWin`; of the cache beneath: `CacheBounded`, `NothingLostEarly`, `SuccessIsCached` |
| `stream_fallback` (StreamFallback.cfg) | 1 request, 2 payloads, 7 configurations, 3 models | `OneSource`, `HostStreamsReleased`, `TriedInOrder`, `FallbackIsExact`, refinement `DeliveryKept`; fair: `StreamsEnd` |
| `key_routing` (KeyRouting.cfg) | 2 requests, 2 keys, 4 states of the file and 1 rewrite, 1 change of the offer, timeout 1, catalog TTL 1 or 0, strict or not | `SnapshotIsCurrent`, `KeyWasListed`, `DecisionWasTrue`; fair: `RequestsAreAnswered` |
| `model_visibility` (ModelVisibility.cfg) | 2 overlapping calls of 3, 2 runtimes, nested prefixes, a nameless model | `OwnInputsAreWhole`, `HiddenOnlyWithAliases` |
| `quota_resource` (QuotaResource.cfg) | 1 request, 3 credentials, up to 3 candidate prefixes, 1 retry, 1 outside change | `AvailableIsReported`, `ActualHadQuota`, `PartialIsTold`, `SuccessIsComplete`, `ResetsAreListed`, `ConsumedOnce`; fair: `EveryoneIsAnswered` |

The other five runs each end in a behaviour of the code that a comment or the
documentation denies ([section 5](#5-findings)).

### Why the bounds are enough

- *Cache*. Every race here is between one read, one invalidation and one other caller, or
  a second read of the same key after the invalidation: two callers and three
  flights have them all (a flight, its replacement, and one that a hit comes
  from). An entry must be able to expire and to live: a clock of one TTL does
  both. Eviction needs one key more than entries, and two expiry times that
  differ: `provider_quota` has them, with a clock of one TTL.
- *Reads and resets*. The interesting reads straddle an invalidation, own or of
  another reader: two readers, a reset, and a flight for each of an outer read, a
  nested one and one from before. The visitor reads before, between or after the
  steps of the reset. Nothing in the readers tells them apart, nor do the
  properties, so TLC takes two states for one that differ by exchanging them.
  `VisitsBesideFewReads` explores no further once a visit has begun and a second flight is
  registered: a visit shares nothing with the readers but the account, and the one property
  about it, `NoSpentCreditOffered`, never relates a visit to a flight. Without
  it the run would not end in a few minutes, for time passes during every read. A clock of
  one TTL lets a read last exactly as long as an entry lives.
- *Provider and email*. One rewrite lies before, between or after any two of list,
  read, key and calls; a later request then meets what an earlier one has stored
  under the older version. Two files of one provider make a match ambiguous, one of
  them only after its rewrite. Two requests at a time are too many states for
  TLC; the theorems are for any number.
- *Streams*. Requests share only the loaded runtime, which `Reconfigure` changes at
  any time anyway. Two payloads tell "first" from "later". The configurations nest
  a source in another, name a source as its own target, repeat a target, name an
  unusable source, chain sources (fallback is one level only) and disable the
  table.
- *Routing*. Two requests contend for the catalog's mutex. A rewrite takes place
  before, between or after the two snapshots of either. Time 2 lets a catalog with
  TTL 1 expire after a look-up of length 1.
- *Registration*. Two calls overlap; a third gives a call after both. Two runtimes give
  an old one beside a new one. One nested prefix makes "the longest" matter. One
  client's list at a time is on its way; lists do not touch each other.
- *Quota resource*. Three credentials let two share an email or a prefix while
  the third differs. The chains have repetitions and a prefix without
  fallbacks. Requests do not touch each other's state.

The proofs in section 4 remove these bounds for every safety property of these runs
(`TriedInOrder` and `FallbackIsExact` for configurations that spell each source once,
`DecisionWasTrue` where CPA offers every key the same).

### Fairness

- `QuotaCache`: weak fairness of each load (a host callback that answers or fails) and of
  each caller's `Publish` or `Wake` (a goroutine that is ready eventually runs, and
  a free Go mutex is eventually had). Nothing is assumed of callers that could
  begin, of invalidations or of time. A caller whose context could be cancelled is not
  assumed to be.
- `StreamFallback`: weak fairness of each request's `Serve`. The host answers each call,
  with an error if need be; the bound on payloads stands for an upstream stream
  that ends. Against an upstream that never stops sending, the plugin goes
  on forwarding, and no such promise is made.
- `KeyRouting`: weak fairness of each request's `Serve`; a look-up cannot last, because
  the HTTP client's timeout ends it.
- `QuotaResource`: weak fairness of each request's `Handle`, for the same reasons.
- Clients, CPA, reconfigurations and changes from outside get no fairness anywhere.

### Deadlock

TLC looks for deadlocks in `cache_races`, `stream_fallback` and
`model_visibility`. `CHECK_DEADLOCK FALSE` is set where the
model comes to its end: in the runs of `QuotaReads` and `ProviderQuota` when the bound
on flights is used up, in those of `KeyRouting` and `QuotaResource` when all of their finitely many
requests are answered. There `RequestsAreAnswered` and `EveryoneIsAnswered`
say that nothing else stops them.

## 4 Proofs

All are for any number of requests, callers, keys, credentials, and any values of the
bounds. What they assume of the constants are the named `ASSUME`s of the modules, which
TLC evaluates in the runs.

| Module | Theorems | Inductive invariant and why it is needed |
|---|---|---|
| `QuotaCache_proofs` | `TypeCorrect`, `Freshness`, `Answers`, `CurrentEntries`, `Coalescing`, `Bounded`, `Caching`, `NoEarlyLoss`, `CacheKeepsPromise` (step simulation of FreshReads); `Inductive` | `IInv`: bindings and entries refer to flights that are numbered, of their own key and not stale; a running flight that is not stale is bound; each running flight has exactly one leader, and leaders own distinct flights; followers refer to flights later than what they have seen. `FreshForLaterCallers` alone says nothing of what is *bound*, which is what the next caller will join |
| `QuotaReads_proofs` | `ReadsUseTheCache`, `ReadsAreFreshReads`, `UsageFreshness`, `ResetOvertakesCache`, `CreditsAgreeWithUsage`, `LagIsBounded`; `ReadsInductive` | `ReadsInv`: `IInv`, and that a nested read begins after every invalidation that spared the flight it is nested in, and a source is as current as the flight that carries it. `CreditsInv`: every usage that is carried was told when no more resets were applied than now, and its resets and credits together are no more than there were. `LagInv`: a successful flight carries (`Carries`, `Sourced`) usage of a native flight, read no earlier than that flight was registered, and an account flight was registered within a native lifetime of its source's publication; an entry's lifetime is counted from the publication of its flight (`SpansSound`); a reader's nested read, waiting or answered, will make its account read such a flight (`ReaderLag`) |
| `ProviderQuota_proofs` | `ProviderTypes`, `ProviderUsesTheCache`, `ProviderAnswersAreFreshReads`, `QuotaIsNotPrevious`, `VerdictsAreTrue`, `EveryEndpointWasAsked`; `ProviderInductive` | what a running query has read, and what a flight carries, is of the version of its key or later, and no later than the file; every match is among the files read, and those before it in the list belong to others |
| `StreamFallback_proofs` | `StreamTypes`, `OneSourceOnly`, `NoStreamLeaks`, `PromiseKept` (step simulation of Delivery), `ListIsFollowed`, `FallbackGoesAllTheWay`; `StreamInductive`, `FallbackInductive` | `StreamInv`: the open host stream is the one of the attempt; what was delivered agrees with what was read and with the `emitted` flag; a pending return value of `streamModel` is true. `FallbackInv`: the targets are those of the runtime that accepted the request, the models asked are the first of them up to the present one, every failure before it is one that moves on, and one that is about to be judged has been judged by its kind |
| `ConfigReader_proofs` | `ReaderInductive` | `ReaderInv`: what is kept was read at or after the version it is stamped with. The stamp may be *older* than the content, never newer |
| `KeyRouting_proofs` | `ReaderInPlace`, `PluginSnapshotsAreCurrent`, `RoutedByListedKeys`, `DecisionsFollowOffers`, `RoutingTypes`; `OfferInductive` | `KeyInv` for the keys; `OfferInv` for time: an answer is no older than its look-up, the kept catalog no older than its lifetime and one look-up, no look-up outlives its deadline |
| `ModelVisibility_proofs` | `VisibilityTypes`, `LookUpsAreWhole`, `NoHidingWithoutAliases`; `VisibilityInductive` | `VisibilityInv`: while calls do not overlap, a runtime's flag, its last call and CPA's registry agree, and a list built since the last registration has the aliases of that registration (`ListIsRecent`) |
| `QuotaResource_proofs` | `ResourceTypesOK`, `PostsOnce`, `SuccessMeansAll`, `OmissionIsPartial`, `ActualIsReal`, `NoAccountPassedOver`, `ConfirmedIsListed`, `NominalKept`; `ResourceInductive` | `ResourceInv`: `TypeInv`, and for each request that what lies behind it on its walk is dealt with, shown or read, and what lies ahead is not posted for. `ListedInv`: the counters agree with the sets of reports and of confirmed credentials, but for the match at hand, whose number no report has |

How the longer arguments go:

- *The cache keeps its promise.* Initial states map to initial states. One lemma for each
  action says which step of FreshReads it is: `Hit` a `Recall`, `Join` an `Attend`, `Lead` a
  `Start`, `Publish` a `Finish`, `Wake` a `Learn`, `CancelWait` a `GiveUp`, `LoadDirect` a
  read alone, `Invalidate` an `Overtake` of the keys it matches. `Start` is the one that needs the
  whole invariant: that nothing is bound has to mean that nothing of the key runs that has not
  been overtaken. The readers and the provider's requests only take steps of the cache,
  so the promise is theirs, too.
- *The list is followed.* Go's loops over targets are `At`, the members of a list at chosen
  positions in the order of the list. Lemmas say what its length is, where each member comes
  from and that every chosen one is there, by counting positions. From them: `Kept`
  lists what is configured but for the source itself, each once; and
  `QuotaFallbackTargets` begins with the model and covers what `Specified`, which is written
  from the documentation, lists for it. `FallbackInv` then needs only that the models asked
  are a beginning of the targets.
- *The hypothesis `EachSpelledOnce`.* These two are for configurations in which no source is
  spelled in two ways. With two spellings the lists are appended in map order, each
  with its own check for repetitions (`config.go:247`). No order is documented for
  that, and a model may then be asked twice. How the sources and targets are named, and how
  many there are, is free: `NamesAreSegments` only says that names are sequences of segments.
- *The lag.* The TTL of an entry begins when its read is published. Between the reading
  of its usage and that moment lies no more than the time the read was in progress, so a native
  entry expires within its TTL and that time. An account read takes its usage from a native
  entry that is alive after the account read was registered, or from a flight that
  is published after that: either way it was registered within a native TTL of that
  publication, and its own TTL begins when it is published itself. So the age of its entry
  stays below both TTLs and the time of both reads, however long those last and whoever
  joins or hits them in between.
- *The nominal prefix is kept* under `EmailsDiffer`, no two credentials with one email:
  emails do not change, so each account is alone by its email, and `AvailableIsReported` says
  the rest.

`DecisionsFollowOffers` is proved from an assumption of its own that CPA offers every key the
same models. Without it the property is false ([finding 3](#5-findings)).
`NoHidingWithoutAliases` is about calls that do not overlap, and about lists with no
registration between their building and their interception, as its property says
([section 6](#6-what-is-left-out) has the rest).
The three composed modules are proved to be behaviours of what they
build on (`ReadsUseTheCache`, `ProviderUsesTheCache`, `ReaderInPlace`), so the theorems
of the cache and of the reader carry over to them.

Only model-checked is the liveness: `WaitersAreReleased`, `StreamsEnd`,
`RequestsAreAnswered`, `EveryoneIsAnswered`. The prover does not reach liveness under
fairness.

## 5 Findings

| Run | Property | Code | What it contradicts |
|---|---|---|---|
| `reset_seen` | `ResetIsSeen` | `quota.go:197` invalidates before the post and not again after it. A read that lies between the two puts the old quota back for a TTL | `quota.go:195`: "Invalidate before the one mutating request so subsequent reads cannot reuse old quota" |
| `quota_lag` | `LagWithinTTL` | `quota.go:505`: the account read takes usage from the native entry, almost a TTL old, and caches it for another; the run leaves the time of the reads themselves out of account | `README_EN.md:127`: "can lag by up to one TTL" |
| `key_routing_by_key` | `DecisionWasTrue` | `catalog.go:83`: one catalog, fetched with whichever key missed, answers all keys | `README_EN.md:18`, `:19`, and the comment at `catalog.go:70` that catalogs differ by key |
| `quota_duplicates` | `NominalStaysActual` | `quota.go:523`: of two accounts with one email the later overwrites the earlier, and an exhausted one hides one with quota | `README_EN.md:59`: "If the nominal prefix still has quota, `actual_prefix` remains the nominal prefix" |
| `missing_provider` | `MissingProviderIsTold` | `quota.go:666`: 501 is among the statuses of 500 and above that `queryCPAManagementQuota` returns as an error (`quota.go:749`), so the branch that answers 501 is never taken | `quota.go:667`: "CPA has no quota provider for this credential" |

Each passing run checks what does hold beside it: `ResetHidesOldQuota` (what was
read *before* the reset is gone), `DecisionWasTrue` where all keys are offered
the same, `HiddenOnlyWithAliases`, `AvailableIsReported` where no email is shared.
Two of the findings are delimited by a theorem: `LagIsBounded` gives the bound
on age that the code does keep, two TTLs and the time the two reads were in progress, and `NominalKept` shows that a shared email is the
only way to what `quota_duplicates` finds.

## 6 What is left out

- Texts: JSON, URLs, headers, durations, logging, the formats of provider
  answers. The model has what the code decides from them, as a choice.
- Two versions of CPA's file with the same modification time and size. The reader
  cannot tell them apart, and how likely that is depends on the file system.
- Two spellings of one fallback source: normalisation covers them, the checked
  configurations spell each source once, because no order is documented for the others.
- The fingerprint of a native key is taken to be equal for CPA's own call and for
  the nested one. With different fingerprints they would only share less.
- In ProviderQuota: Codex credentials, which CPA queries by calling this plugin's own
  `quota.fetch` (QuotaReads has that read), and contexts that end between two attempts: the
  contexts of the plugin's calls are never cancelled.
- What clients see around the end of a registration. `RegisterModels` starts the hiding
  before CPA has registered what it returns. A list that is intercepted in between, or that
  CPA built before it registered the aliases and hands to the interceptor afterwards,
  shows neither the prefixed models nor their aliases: the interceptor cannot tell when the list
  was built. The model has both cases, and `HiddenOnlyWithAliases` excepts them, by
  `settled`. `README_EN.md:29` promises that nothing is hidden if no alias
  is found, which holds in both; how long they last is up to CPA.
- Overlapping registrations whose results CPA registers in another order: whether
  CPA does that is not known from this repository.
- The cache of several runtimes. After a reconfiguration each runtime has a cache,
  a catalog and a token of its own. A reset, or a stream, that still runs on the old
  runtime reaches only that one's. QuotaReads and KeyRouting have one runtime.
- The components marked *not modelled* in section 1.

## 7 Plan

Done, in this order: QuotaCache and its proofs; QuotaReads; FallbackTargets,
StreamFallback, Delivery; ConfigReader and KeyRouting; ModelVisibility;
QuotaResource; the proofs of each; the direct routes in QuotaReads; ProviderQuota and
its proofs; the proofs of `TriedInOrder` and `FallbackIsExact`; FreshReads and the
proof that the cache implements it; the bound on the lag.

Next, in this order:

1. *Several runtimes*: a module that runs QuotaReads over two runtimes with a cache
   each. A reset on the old one and reads on the new one (`main_cgo.go:211`). Likewise
   the catalog look-up of an old stream through the interceptor of a new runtime
   (`catalog.go:104`), KeyRouting composed with ModelVisibility.
2. *Proofs*: for configurations that spell a source in two ways, what remains of
   `TriedInOrder`: nothing is asked that no spelling lists. Whether a `RegisterModels` that
   does overlap others keeps a part of `HiddenOnlyWithAliases` that can be stated.
3. *Abstract specification of the catalog*: what `Route` is promised of `ModelExists`,
   which KeyRouting implements as QuotaCache implements FreshReads.
