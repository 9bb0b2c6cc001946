--------------------------- MODULE ProviderQuota ---------------------------
(***************************************************************************)
(* The quota of one account by provider and email (                        *)
(* handleQuotaByProviderEmail, quota.go): find the one auth file that      *)
(* belongs to the account, then query its quota through the read cache.    *)
(* A query asks CPA's management API, which calls upstream with the token  *)
(* the file holds at that moment: the plugin names the file and no more.   *)
(* So CPA may rewrite a file between the read that matched it, the key     *)
(* made of what was read, and each of the calls of the query.              *)
(*                                                                         *)
(* Codex credentials are left out: CPA queries them by calling this        *)
(* plugin's own quota.fetch, whose reads are those of QuotaReads.          *)
(*                                                                         *)
(* A credential is the place of its file in CPA's list; a key is a         *)
(* credential and a version of its file: no version comes back.  A caller  *)
(* of the cache is a request, for the same account at every provider.      *)
(* A call of the management API stands for its attempts, and what it       *)
(* returns for what the last of them returned.                             *)
(***************************************************************************)
EXTENDS QuotaCache

CONSTANTS
    NCreds,       \* auth files, in the order of CPA's list
    MaxRewrites,  \* bound on the rewrites of files
    KindOf,       \* how the quota of each provider is queried
    Mine,         \* the versions of files that hold the account asked for
    WithProject,  \* the versions of files that have an Antigravity project
    Listings,     \* what CPA may list of each file
    NEndpoints    \* the quota endpoints of Antigravity

Creds    == 1 .. NCreds
Versions == 0 .. MaxRewrites

Provider(d) == ProviderOf[<<d, 0>>]

ASSUME ProviderBounds == NCreds \in Nat /\ MaxRewrites \in Nat /\ NEndpoints \in Nat
ASSUME KeysOfFiles    == /\ Keys = Creds \X Versions
                         /\ \A k \in Keys : AuthOf[k] = k[1] /\ ProviderOf[k] = Provider(k[1])
ASSUME KindsOfQuery   == KindOf \in [Providers -> {"claude", "antigravity", "native"}]
ASSUME AccountsOfFiles == Mine \subseteq Keys /\ WithProject \subseteq Keys
ASSUME ListingsOfFiles == Listings \subseteq [Creds -> {"hidden", "blank", "named"}]

VARIABLES
    content,   \* the version each file holds
    rewrites,  \* how many rewrites there were
    managed,   \* MANAGEMENT_PASSWORD is set in CPA's environment
    at,        \* where each request is
    verdict,   \* the status of a request that ended before the cache
    todo,      \* the files it has yet to read
    named,     \* those of the listed files that came with an email
    match,     \* the version of a file it has matched
    query,     \* the query it makes
    value,     \* what each flight loaded
    scanned    \* history: the versions it has read

files    == <<content, rewrites, managed>>
request  == <<at, verdict, todo, named, match, scanned>>
provVars == <<vars, files, request, query, value>>

Forms    == {"none", "groups", "empty", "garbled", "failed", "refused", "unsupported"}
NoQuery  == [stage |-> "quota", asked |-> 0, form |-> "none", from |-> {}]
Query    == [stage : {"quota", "subscription"}, asked : 0 .. NEndpoints,
             form : Forms, from : SUBSET Versions]

-----------------------------------------------------------------------------
InitProvider ==
    /\ Init
    /\ content = [d \in Creds |-> 0]
    /\ rewrites = 0
    /\ managed \in BOOLEAN
    /\ at = [c \in Callers |-> "idle"]
    /\ verdict = [c \in Callers |-> "none"]
    /\ todo = [c \in Callers |-> {}]
    /\ named = [c \in Callers |-> {}]
    /\ match = [c \in Callers |-> None]
    /\ query = [c \in Callers |-> NoQuery]
    /\ value = [f \in Flights |-> NoQuery]
    /\ scanned = [c \in Callers |-> {}]

\* CPA refreshes a token, or replaces the credential of an auth_index.
Rewrite(d) ==
    /\ rewrites < MaxRewrites
    /\ rewrites' = rewrites + 1
    /\ content' = [content EXCEPT ![d] = rewrites']
    /\ UNCHANGED <<vars, managed, request, query, value>>

-----------------------------------------------------------------------------
\* The request is over, before or after it has used the cache.
Over(c) == at[c] = "idle" \/ (at[c] = "cache" /\ pc[c] = "idle")

\* The files of a listing that may belong to the account at provider p.
Candidates(p, l) ==
    {d \in Creds : /\ Provider(d) = p
                   /\ l[d] # "hidden"
                   /\ l[d] = "named" => <<d, content[d]>> \in Mine}

\* The request ends with a status, before it has used the cache.
End(c, status) ==
    /\ at' = [at EXCEPT ![c] = "idle"]
    /\ verdict' = [verdict EXCEPT ![c] = status]

\* CPA lists the auth files, or does not.
ListAuths(c) ==
    /\ Over(c)
    /\ match' = [match EXCEPT ![c] = None]
    /\ scanned' = [scanned EXCEPT ![c] = {}]
    /\ query' = [query EXCEPT ![c] = NoQuery]
    /\ \/ /\ End(c, "502")
          /\ UNCHANGED <<todo, named>>
       \/ \E p \in Providers, l \in Listings :
             /\ todo' = [todo EXCEPT ![c] = Candidates(p, l)]
             /\ named' = [named EXCEPT ![c] = {d \in Creds : l[d] = "named"}]
             /\ at' = [at EXCEPT ![c] = "scan"]
             /\ verdict' = [verdict EXCEPT ![c] = "none"]
    /\ UNCHANGED <<vars, files, value>>

\* A file that was read belongs to the account: CPA's email of it comes first.
Belongs(c, k) == k[1] \in named[c] \/ k \in Mine

\* Mutant: the first match is taken.
Matched_first(c, k) ==
    IF Belongs(c, k) /\ match[c] = None
    THEN match' = [match EXCEPT ![c] = k] /\ UNCHANGED <<at, verdict>>
    ELSE UNCHANGED <<match, at, verdict>>

\* A second match ends the request.
Matched(c, k) ==
    IF ~Belongs(c, k) THEN UNCHANGED <<match, at, verdict>>
    ELSE IF match[c] = None
         THEN match' = [match EXCEPT ![c] = k] /\ UNCHANGED <<at, verdict>>
         ELSE End(c, "409") /\ UNCHANGED match

\* The next file is read; one that cannot be read ends the request.
ReadAuth(c) ==
    /\ at[c] = "scan"
    /\ \E d \in todo[c] :
          LET k == <<d, content[d]>> IN
          /\ \A e \in todo[c] : d <= e
          /\ todo' = [todo EXCEPT ![c] = @ \ {d}]
          /\ \/ /\ scanned' = [scanned EXCEPT ![c] = @ \union {k}]
                /\ Matched(c, k)
             \/ End(c, "502") /\ UNCHANGED <<match, scanned>>
    /\ UNCHANGED <<vars, files, named, query, value>>

\* Every file has been read, and there is no query to make.
EndScan(c) ==
    /\ at[c] = "scan"
    /\ todo[c] = {}
    /\ match[c] = None \/ ~managed
    /\ End(c, IF match[c] = None THEN "404" ELSE "503")
    /\ UNCHANGED <<vars, files, todo, named, match, scanned, query, value>>

\* Mutant: the key is made of the auth_index alone.
CacheKey_indexOnly(k) == <<k[1], 0>>

\* newQuotaCacheKey: the auth_index and the hash of what was read.
CacheKey(k) == k

AskCache(c) ==
    /\ at[c] = "scan"
    /\ todo[c] = {}
    /\ match[c] # None
    /\ managed
    /\ Begin(c, CacheKey(match[c]))
    /\ at' = [at EXCEPT ![c] = "cache"]
    /\ UNCHANGED <<files, verdict, todo, named, match, scanned, query, value>>

CacheStep(c) ==
    /\ Hit(c) \/ Join(c) \/ Lead(c) \/ Publish(c) \/ Wake(c)
    /\ UNCHANGED <<files, request, query, value>>

-----------------------------------------------------------------------------
\* The load of the request is running, under a flight of its own or without.
Querying(c, kind, stage) ==
    /\ at[c] = "cache"
    /\ pc[c] = "load" \/ (pc[c] = "lookup" /\ Bypasses(ask[c]))
    /\ KindOf[ProviderOf[match[c]]] = kind
    /\ query[c].stage = stage

\* The version the token of a call is taken from.
Token(c) == content[match[c][1]]

\* Only an answer with a 2xx status may be cached.
OutcomeOf(q) == CASE q.form \in {"groups", "empty"} -> "ok"
                  [] q.form = "refused"             -> "uncacheable"
                  [] OTHER                          -> "error"

\* The load ends with what the query has found.
Returns(c, q) ==
    /\ LoadReturns(c, OutcomeOf(q)) \/ LoadDirect(c, OutcomeOf(q))
    /\ query' = [query EXCEPT ![c] = q]
    /\ value' = IF pc[c] = "load" THEN [value EXCEPT ![joined[c]] = q] ELSE value
    /\ UNCHANGED <<files, request>>

\* The query goes on with q.
Continues(c, q) ==
    /\ query' = [query EXCEPT ![c] = q]
    /\ UNCHANGED <<vars, files, request, value>>

Failed == [NoQuery EXCEPT !.form = "failed"]

\* Claude: usage first; without any the query fails.
AskUsage(c) ==
    /\ Querying(c, "claude", "quota")
    /\ \/ Continues(c, [query[c] EXCEPT !.stage = "subscription", !.form = "groups",
                                        !.from = {Token(c)}])
       \/ Returns(c, Failed)

\* The profile, or the plan, is a supplement: the answer does without it.
AskSubscription(c) ==
    /\ \E kind \in {"claude", "antigravity"} : Querying(c, kind, "subscription")
    /\ \/ Returns(c, [query[c] EXCEPT !.from = @ \union {Token(c)}])
       \/ Returns(c, query[c])

\* Antigravity: without a project there is nothing to ask for.
NoProject(c) ==
    /\ Querying(c, "antigravity", "quota")
    /\ match[c] \notin WithProject
    /\ Returns(c, Failed)

\* Mutant: the first endpoint that answers settles the query.
Enough_anySuccess(form) == form \in {"groups", "empty"}

\* Groups settle the query.
Enough(form) == form = "groups"

\* Mutant: one endpoint more than there are.
EndpointsLeft_offByOne(q) == q.asked <= NEndpoints

EndpointsLeft(q) == q.asked < NEndpoints

\* The endpoints are asked in turn; what the last that answered said is kept.
AskEndpoint(c) ==
    /\ Querying(c, "antigravity", "quota")
    /\ match[c] \in WithProject
    /\ EndpointsLeft(query[c])
    /\ \/ Continues(c, [query[c] EXCEPT !.asked = @ + 1])
       \/ \E form \in {"groups", "empty", "garbled"} :
             Continues(c, [stage |-> IF Enough(form) THEN "subscription" ELSE "quota",
                           asked |-> query[c].asked + 1, form |-> form, from |-> {Token(c)}])

\* No endpoint told groups: an answer without any is an answer, if it is the
\* last that came.
SettleEndpoints(c) ==
    /\ Querying(c, "antigravity", "quota")
    /\ match[c] \in WithProject
    /\ ~EndpointsLeft(query[c])
    /\ IF query[c].form = "empty"
       THEN Continues(c, [query[c] EXCEPT !.stage = "subscription"])
       ELSE Returns(c, Failed)

\* Other providers: one call, which CPA answers, refuses, or answers with 501
\* where it has no quota provider; 501 is 500 or above and so a failure.
AskNative(c) ==
    /\ Querying(c, "native", "quota")
    /\ \/ Returns(c, [query[c] EXCEPT !.form = "groups", !.from = {Token(c)}])
       \/ \E form \in {"refused", "failed", "unsupported"} :
             Returns(c, [query[c] EXCEPT !.form = form])

\* What get handed the request, and the status of its answer.
Answer(c) == IF joined[c] = 0 THEN query[c] ELSE value[joined[c]]

Status(c) ==
    IF ~(at[c] = "cache" /\ pc[c] = "idle") THEN verdict[c]
    ELSE IF result[c] = "error" THEN "502"
    ELSE IF Answer(c).form \in {"groups", "empty"} THEN "200"
    ELSE IF Answer(c).form = "unsupported" THEN "501"
    ELSE "502"

-----------------------------------------------------------------------------
\* Time may pass between any two steps of a request.
Pass ==
    /\ Tick
    /\ UNCHANGED <<files, request, query, value>>

Scan(c)      == ListAuths(c) \/ ReadAuth(c) \/ EndScan(c) \/ AskCache(c)
QueryStep(c) == \/ AskUsage(c) \/ AskSubscription(c) \/ NoProject(c)
                \/ AskEndpoint(c) \/ SettleEndpoints(c) \/ AskNative(c)

NextProvider ==
    \/ \E c \in Callers : Scan(c) \/ CacheStep(c) \/ QueryStep(c)
    \/ \E d \in Creds : Rewrite(d)
    \/ Pass

SpecProvider == InitProvider /\ [][NextProvider]_provVars

-----------------------------------------------------------------------------
\* The variables keep their types.
ProviderTypeOK ==
    /\ content \in [Creds -> Versions] /\ rewrites \in Versions /\ managed \in BOOLEAN
    /\ at \in [Callers -> {"idle", "scan", "cache"}]
    /\ verdict \in [Callers -> {"none", "404", "409", "502", "503"}]
    /\ todo \in [Callers -> SUBSET Creds] /\ named \in [Callers -> SUBSET Creds]
    /\ match \in [Callers -> Keys \union {None}]
    /\ query \in [Callers -> Query] /\ value \in [Flights -> Query]
    /\ scanned \in [Callers -> SUBSET Keys]

\* "The hash prevents an updated/reused auth_index from receiving a previous
\* credential's quota" (quota_cache.go:24): nothing in an answer was read with
\* a token from before the version of the file that the request has matched.
NoPreviousQuota ==
    \A c \in Callers : Status(c) = "200" =>
        \A v \in Answer(c).from : match[c][2] <= v /\ v <= content[match[c][1]]

\* An account is found exactly when one of the files that were listed and read
\* belongs to it, whatever became of the files meanwhile.
VerdictIsTrue ==
    \A c \in Callers :
        LET mine == {k \in scanned[c] : Belongs(c, k)} IN
        /\ Status(c) = "200" => mine = {match[c]} /\ todo[c] = {}
        /\ Status(c) = "404" => mine = {}
        /\ Status(c) = "409" => \E k, l \in mine : k # l

\* An account without any quota groups is an answer only after every endpoint
\* was asked, also when the answer comes from another request's query.
GroupsWin ==
    \A c \in Callers :
        Status(c) = "200" /\ Answer(c).form = "empty" => Answer(c).asked = NEndpoints

\* A credential that CPA has no quota provider for is answered so
\* (quota.go:667, "CPA has no quota provider for this credential").
MissingProviderIsTold ==
    \A c \in Callers :
        at[c] = "cache" /\ pc[c] = "idle" /\ Answer(c).form = "unsupported" => Status(c) = "501"
=============================================================================
