----------------------------- MODULE KeyRouting -----------------------------
(***************************************************************************)
(* The model a request is sent to: Route and Resolve (runtime.go), the API *)
(* key they recognise (auth.go) and the model catalog they consult         *)
(* (catalog.go), on top of the reader of CPA's configuration.              *)
(*                                                                         *)
(* A request calls Snapshot once in Route and once more in Resolve.  A key *)
(* with a prefix of its own asks CPA whether the prefixed model exists,    *)
(* through one catalog kept for all keys under a mutex, which is held      *)
(* while CPA answers.  CPA may offer each key other models and may change  *)
(* what it offers at any time.                                             *)
(*                                                                         *)
(* Models and prefixes are split at their slashes.  Time is counted in     *)
(* ticks; a call of CPA ends at its deadline at the latest.                *)
(***************************************************************************)
EXTENDS ConfigReader, SequencesExt

CONSTANTS
    Default,     \* the key "default" of prefix_map
    Configs,     \* plugin configurations
    Calls,       \* what the requests present: candidate keys, and a model
    Offers,      \* what CPA may offer each key
    Timeout,     \* model_lookup_timeout
    MaxOffers,   \* bound on the changes of what CPA offers
    MaxTime      \* bound on time

ASSUME TimeoutIsPositive == Timeout \in Nat \ {0}
ASSUME ConfigsAreRead ==
    \A c \in Configs : c.ttl \in Nat /\ DOMAIN c.prefixes \subseteq Keys \union {Default}
ASSUME CallsPresentKeys ==
    \A c \in Calls : \A r \in Requests : c[r].candidates \in Seq(Keys)

VARIABLES
    config,    \* PrefixMap, StrictKeyValidation and ModelCacheTTL
    call,      \* what each request presents
    stage,     \* where each request is
    key,       \* the key Resolve recognised
    final,     \* FinalModel and
    usedDefault, \* UsedDefault of the decision
    catalog,   \* models and expiresAt of the catalog
    holder,    \* who holds the catalog's mutex
    wanted,    \* the model each request looks up,
    deadline,  \* when CPA has to have answered,
    answer,    \* and what it did
    now,
    offered,   \* history: what CPA offered, and since when
    seen,      \* history: the version of the file Resolve looked at
    decided    \* history: when the decision was taken

inputs      == <<config, call>>
decision    == <<key, final, usedDefault, wanted, seen, decided>>
shared      == <<catalog, holder>>
lookup      == <<deadline, answer>>
routingVars == <<inputs, stage, decision, shared, lookup, now, offered>>
vars        == <<readerVars, routingVars>>

Nobody == "nobody"
ASSUME NobodyIsNoRequest == Nobody \notin Requests

Offer == Last(offered).to

\* applyPrefix: a prefix that is already there is not added again.
ApplyPrefix(p, model) == IF IsStrictPrefix(p, model) THEN model ELSE p \o model

HasSpecific(k) == k \in DOMAIN config.prefixes
PrefixOf(k)    == IF HasSpecific(k) THEN config.prefixes[k] ELSE <<>>

\* Strict validation wants every mapped key in CPA's list.
Valid(keys) == config.strict => DOMAIN config.prefixes \ {Default} \subseteq keys

\* The first candidate CPA knows.
APIKeys(r, keys) ==
    LET candidates == call[r].candidates
    IN  {candidates[i] : i \in {i \in DOMAIN candidates :
            candidates[i] \in keys /\ \A j \in 1 .. i - 1 : candidates[j] \notin keys}}

\* The snapshot can be used, and one of the candidates is a key.
Usable(r) == snap[r].pc = "returned" /\ Valid(Listed(r))
Keyed(r)  == Usable(r) /\ APIKeys(r, Listed(r)) # {}

-----------------------------------------------------------------------------
Init ==
    /\ ReaderInit
    /\ config \in Configs
    /\ call \in Calls
    /\ stage = [r \in Requests |-> "route"]
    /\ key = [r \in Requests |-> Default]
    /\ final = [r \in Requests |-> <<>>]
    /\ usedDefault = [r \in Requests |-> FALSE]
    /\ catalog = [models |-> {}, expiresAt |-> 0]
    /\ holder = Nobody
    /\ wanted = [r \in Requests |-> <<>>]
    /\ deadline = [r \in Requests |-> 0]
    /\ answer = [r \in Requests |-> {}]
    /\ now = 0
    /\ offered \in {<<[since |-> 0, to |-> o]>> : o \in Offers}
    /\ seen = [r \in Requests |-> 0]
    /\ decided = [r \in Requests |-> 0]

\* Both handlers begin with a snapshot.
TakesSnapshot(r) ==
    /\ stage[r] \in {"route", "resolve"}
    /\ Snapshot(r)
    /\ UNCHANGED routingVars

Stage(r, s) == stage' = [stage EXCEPT ![r] = s]

\* Route declines a request without a known key, and one no prefix applies to.
Routable(r) ==
    \E k \in APIKeys(r, Listed(r)) :
        /\ HasSpecific(k) \/ PrefixOf(Default) # <<>>
        /\ PrefixOf(k) # <<>> \/ PrefixOf(Default) # <<>>

Route(r) ==
    /\ stage[r] = "route"
    /\ Use(r)
    /\ Stage(r, IF ~Usable(r) THEN "failed"
                ELSE IF Routable(r) THEN "resolve" ELSE "declined")
    /\ UNCHANGED <<inputs, decision, shared, lookup, now, offered>>

ResolveFails(r) ==
    /\ stage[r] = "resolve"
    /\ Use(r)
    /\ ~Keyed(r)
    /\ Stage(r, "failed")
    /\ UNCHANGED <<inputs, decision, shared, lookup, now, offered>>

\* A key without a prefix of its own, or whose prefix changes nothing, needs
\* no catalog; any other one looks its model up.
Resolve(r) ==
    /\ stage[r] = "resolve"
    /\ Keyed(r)
    /\ Use(r)
    /\ \E k \in APIKeys(r, Listed(r)) :
        LET primary  == ApplyPrefix(PrefixOf(k), call[r].model)
            fallback == ApplyPrefix(PrefixOf(Default), call[r].model)
            known    == ~HasSpecific(k) \/ primary = fallback
        IN  /\ Stage(r, IF known THEN "decided" ELSE "lookup")
            /\ key' = [key EXCEPT ![r] = k]
            /\ final' = [final EXCEPT ![r] = fallback]
            /\ usedDefault' = [usedDefault EXCEPT ![r] = ~HasSpecific(k) \/ ~known]
            /\ wanted' = [wanted EXCEPT ![r] = IF known THEN <<>> ELSE primary]
    /\ seen' = [seen EXCEPT ![r] = snap[r].stamp]
    /\ decided' = [decided EXCEPT ![r] = now]
    /\ UNCHANGED <<inputs, shared, lookup, now, offered>>

\* The model exists: its prefix is the key's own.
Decide(r, models) ==
    /\ Stage(r, "decided")
    /\ final' = IF wanted[r] \in models THEN [final EXCEPT ![r] = wanted[r]] ELSE final
    /\ usedDefault' = [usedDefault EXCEPT ![r] = wanted[r] \notin models]
    /\ decided' = [decided EXCEPT ![r] = now]
    /\ UNCHANGED <<key, wanted, seen>>

Fresh == catalog.models # {} /\ config.ttl > 0 /\ now < catalog.expiresAt

\* Mutant: the lifetime includes its end.
CatalogHit_expired(r) ==
    /\ stage[r] = "lookup" /\ holder = Nobody
    /\ catalog.models # {} /\ config.ttl > 0 /\ now <= catalog.expiresAt
    /\ Decide(r, catalog.models)
    /\ UNCHANGED <<readerVars, inputs, shared, lookup, now, offered>>

\* The mutex is free, and what it guards is fresh.
CatalogHit(r) ==
    /\ stage[r] = "lookup" /\ holder = Nobody
    /\ Fresh
    /\ Decide(r, catalog.models)
    /\ UNCHANGED <<readerVars, inputs, shared, lookup, now, offered>>

\* CPA is asked, with the key of the request, while the mutex is held.
CatalogMiss(r) ==
    /\ stage[r] = "lookup" /\ holder = Nobody
    /\ ~Fresh
    /\ holder' = r
    /\ deadline' = [deadline EXCEPT ![r] = now + Timeout]
    /\ Stage(r, "asking")
    /\ UNCHANGED <<readerVars, inputs, decision, catalog, answer, now, offered>>

\* External: CPA answers with what it offers the key.
Answer(r) ==
    /\ stage[r] = "asking"
    /\ answer' = [answer EXCEPT ![r] = Offer[key[r]]]
    /\ Stage(r, "answered")
    /\ UNCHANGED <<readerVars, inputs, decision, shared, deadline, now, offered>>

\* The look-up is over.
Over(r) ==
    /\ deadline' = [deadline EXCEPT ![r] = 0]
    /\ answer' = [answer EXCEPT ![r] = {}]

\* Mutant: a failure returns without unlocking.
FetchFails_holding(r) ==
    /\ stage[r] \in {"asking", "answered"}
    /\ Over(r)
    /\ Stage(r, "failed")
    /\ UNCHANGED <<readerVars, inputs, decision, shared, now, offered>>

\* No answer, an error or the deadline: nothing is kept.
FetchFails(r) ==
    /\ stage[r] \in {"asking", "answered"}
    /\ holder' = Nobody
    /\ Over(r)
    /\ Stage(r, "failed")
    /\ UNCHANGED <<readerVars, inputs, decision, catalog, now, offered>>

Store(r) ==
    /\ stage[r] = "answered"
    /\ catalog' = [models |-> answer[r], expiresAt |-> now + config.ttl]
    /\ holder' = Nobody
    /\ Decide(r, answer[r])
    /\ Over(r)
    /\ UNCHANGED <<readerVars, inputs, now, offered>>

\* A call of CPA does not outlive its deadline.
Tick ==
    /\ now < MaxTime
    /\ \A r \in Requests : stage[r] \in {"asking", "answered"} => now < deadline[r]
    /\ now' = now + 1
    /\ UNCHANGED <<readerVars, inputs, stage, decision, shared, lookup, offered>>

\* External: CPA offers other models, after a change of its credentials.
Reoffer ==
    /\ Len(offered) <= MaxOffers
    /\ \E o \in Offers \ {Offer} : offered' = Append(offered, [since |-> now, to |-> o])
    /\ UNCHANGED <<readerVars, inputs, stage, decision, shared, lookup, now>>

Fetches(r) == CatalogMiss(r) \/ Answer(r) \/ FetchFails(r) \/ Store(r)

Serve(r) ==
    \/ TakesSnapshot(r) \/ Route(r) \/ ResolveFails(r) \/ Resolve(r)
    \/ CatalogHit(r) \/ Fetches(r)

Next ==
    \/ \E r \in Requests : Serve(r)
    \/ Rewrite /\ UNCHANGED routingVars
    \/ Tick
    \/ Reoffer

Spec == Init /\ [][Next]_vars

FairSpec == Spec /\ \A r \in Requests : WF_vars(Serve(r))

-----------------------------------------------------------------------------
Stages == {"route", "resolve", "lookup", "asking", "answered", "decided", "declined", "failed"}

\* The variables keep their types.
TypeOK ==
    /\ ReaderTypeOK
    /\ config \in Configs /\ call \in Calls
    /\ stage \in [Requests -> Stages]
    /\ key \in [Requests -> Keys \union {Default}]
    /\ usedDefault \in [Requests -> BOOLEAN]
    /\ deadline \in [Requests -> Nat]
    /\ seen \in [Requests -> Nat] /\ decided \in [Requests -> Nat]
    /\ holder \in Requests \union {Nobody}
    /\ now \in Nat /\ catalog.expiresAt \in Nat
    /\ offered \in Seq([since : Nat, to : Offers])

\* The key a request is routed by was in CPA's list after the request looked
\* at it in Resolve: a key removed before that is never used again, whatever
\* Route saw and whatever is kept (runtime.go, 129 to 149).
KeyWasListed ==
    \A r \in Requests : stage[r] \in {"lookup", "asking", "answered", "decided"} =>
        \E v \in seen[r] .. Version :
            contents[v].state = "list" /\ key[r] \in contents[v].keys

\* What CPA offered at some moment of the last span ticks before at.
OfferedWithin(span, at) ==
    {offered[i].to : i \in {i \in DOMAIN offered :
        /\ offered[i].since <= at
        /\ i < Len(offered) => offered[i + 1].since + span >= at}}

\* A request that had to look its model up is sent there if its key had the
\* model, and to the default one if it had not, at some moment within the
\* lifetime of the catalog plus one lookup (README_EN.md, 18 to 23).
DecisionWasTrue ==
    \A r \in Requests : stage[r] = "decided" /\ wanted[r] # <<>> =>
        \E o \in OfferedWithin(Timeout + (IF config.ttl > 0 THEN config.ttl - 1 ELSE 0), decided[r]) :
            usedDefault[r] <=> wanted[r] \notin o[key[r]]


\* Every request is answered: nobody keeps the mutex of the catalog
\* (catalog.go, 81 to 95).
RequestsAreAnswered ==
    \A r \in Requests : <>(stage[r] \in {"decided", "declined", "failed"})
=============================================================================
