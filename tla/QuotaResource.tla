--------------------------- MODULE QuotaResource ---------------------------
(***************************************************************************)
(* The public /quota and /quota/reset resources of a downstream key        *)
(* (HandleManagement and handleQuotaResetResource, quota.go): a walk over  *)
(* the credentials CPA lists, which inspects each one's auth file anew,    *)
(* reads its quota or resets it if the file names the wanted prefix, and   *)
(* makes one answer of what succeeded and what failed.                     *)
(*                                                                         *)
(* /quota repeats the walk for the fallback prefixes of the nominal one    *)
(* until an account has quota left; /quota/reset stays with the nominal    *)
(* one and posts at most one consuming request for each credential, after  *)
(* a read of its credits that is tried again when it fails.                *)
(*                                                                         *)
(* Auth files, quotas and credits change while a request walks.  A quota   *)
(* read may come from the cache: it is any quota the credential ever had.  *)
(* The request's own key is recognised as in KeyRouting.                   *)
(***************************************************************************)
EXTENDS Naturals, Sequences, FiniteSets, SequencesExt

CONSTANTS
    Requests,
    Creds,       \* Codex credentials
    Files,       \* all of them in the order of CPA's list
    PrefixNames, \* normalized names of prefixes
    Fallbacks,   \* quota_fallback.prefixes, empty where it is disabled
    Emails,
    NoEmail,
    Retries,     \* quotaQueryRetryCount
    Worlds,      \* emails, prefixes, quotas and credits there may be at first
    MaxChanges   \* bound on the changes from outside

ASSUME FilesAreCreds       ==
    /\ Files \in Seq(Creds) /\ Creds = {Files[i] : i \in DOMAIN Files}
    /\ \A i, j \in DOMAIN Files : Files[i] = Files[j] => i = j
ASSUME FallbacksArePrefixes == Fallbacks \in [PrefixNames -> Seq(PrefixNames)]
ASSUME NoEmailIsNone       == NoEmail \notin Emails
ASSUME RetriesIsNat        == Retries \in Nat

\* Every window has something left, some window has nothing, or none is told.
Quotas == {"left", "spent", "windowless"}

ASSUME WorldsAreTyped ==
    Worlds \subseteq [email  : [Creds -> Emails \union {NoEmail}], prefix  : [Creds -> PrefixNames],
                      quota  : [Creds -> Quotas],                  credits : [Creds -> Nat]]

VARIABLES
    email,      \* the email of each credential
    prefix,     \* the prefix in each auth file
    quota,      \* what upstream has left for each credential
    credits,    \* its reset credits
    changes,
    kind,       \* "quota" or "reset"
    nominal,    \* the prefix of the request's key
    pc,         \* where each request is
    listed,     \* the enabled and available credentials CPA listed to it
    at,         \* the candidate prefix it is walking for
    pos,        \* the file it is at
    tries,      \* how often its read of the credits has failed
    accounts,   \* the account read under each candidate and email
    errors,     \* the candidates with errors
    tally,      \* matched, succeeded, failed and unresolved of a reset
    resets,     \* the accounts of a reset's answer
    answer,     \* how the request ended
    had,        \* history: the quotas each credential ever had
    carried,    \* history: the prefixes each auth file ever had
    unread,     \* history: what each request failed to read or inspect
    posted,     \* history: the consuming requests it posted
    confirmed   \* history: the credentials it confirmed a reset of

world    == <<email, prefix, quota, credits, changes, had, carried>>
request  == <<kind, nominal>>
walk     == <<pc, listed, at, pos, tries>>
found    == <<accounts, errors>>
reset    == <<tally, resets, posted, confirmed>>
vars     == <<world, request, walk, found, reset, answer, unread>>

\* quotaFallbackPrefixes: the nominal prefix and its fallbacks, each once.
Chain(n)      == <<n>> \o Fallbacks[n]
Candidates(n) == {i \in DOMAIN Chain(n) : \A j \in 1 .. i - 1 : Chain(n)[j] # Chain(n)[i]}

Here(r)   == Files[pos[r]]
Wanted(r) == Chain(nominal[r])[at[r]]

NoAccount  == "none"
NoAccounts == [e \in Emails |-> NoAccount]
Counters   == {"matched", "succeeded", "failed", "unresolved"}
NoTally    == [x \in Counters |-> 0]
Empty(s)   == [status |-> s, actual |-> 1, partial |-> FALSE, success |-> FALSE]

-----------------------------------------------------------------------------
Init ==
    /\ \E w \in Worlds :
        /\ email = w.email /\ prefix = w.prefix /\ quota = w.quota /\ credits = w.credits
        /\ had = [c \in Creds |-> {w.quota[c]}]
        /\ carried = [c \in Creds |-> {w.prefix[c]}]
    /\ changes = 0
    /\ kind \in [Requests -> {"quota", "reset"}]
    /\ nominal \in [Requests -> PrefixNames]
    /\ pc = [r \in Requests |-> "list"]
    /\ listed = [r \in Requests |-> {}]
    /\ at = [r \in Requests |-> 1]
    /\ pos = [r \in Requests |-> 1]
    /\ tries = [r \in Requests |-> 0]
    /\ accounts = [r \in Requests |-> [i \in DOMAIN Chain(nominal[r]) |-> NoAccounts]]
    /\ errors = [r \in Requests |-> {}]
    /\ tally = [r \in Requests |-> NoTally]
    /\ resets = [r \in Requests |-> {}]
    /\ answer = [r \in Requests |-> Empty("none")]
    /\ unread = [r \in Requests |-> {}]
    /\ posted = [r \in Requests |-> [c \in Creds |-> 0]]
    /\ confirmed = [r \in Requests |-> {}]

Go(r, to)     == pc' = [pc EXCEPT ![r] = to]
Say(r, a)     == Go(r, "answered") /\ answer' = [answer EXCEPT ![r] = a]

\* CPA lists its files; those that are enabled and available count.
List(r) ==
    /\ pc[r] = "list"
    /\ \E S \in SUBSET Creds : listed' = [listed EXCEPT ![r] = S]
    /\ Go(r, "walk")
    /\ UNCHANGED <<world, request, at, pos, tries, found, reset, answer, unread>>

ListFails(r) ==
    /\ pc[r] = "list"
    /\ Say(r, Empty("failed"))
    /\ UNCHANGED <<world, request, listed, at, pos, tries, found, reset, unread>>

-----------------------------------------------------------------------------
\* The next file, or the end of the walk, comes next.
Advance(r) ==
    /\ Go(r, "walk")
    /\ pos' = [pos EXCEPT ![r] = @ + 1]
    /\ tries' = [tries EXCEPT ![r] = 0]
    /\ UNCHANGED <<listed, at>>

\* The candidate has an error.
Note(r) == errors' = [errors EXCEPT ![r] = @ \union {at[r]}]

Count(r, S) == tally' = [tally EXCEPT ![r] = [x \in Counters |-> IF x \in S THEN @[x] + 1 ELSE @[x]]]

\* What went wrong is an error of the candidate, or is counted as S.
Fault(r, S) ==
    /\ IF kind[r] = "quota" THEN Note(r) /\ UNCHANGED tally ELSE Count(r, S) /\ UNCHANGED errors
    /\ UNCHANGED <<accounts, resets, posted, confirmed>>

AtFile(r)  == pc[r] = "walk" /\ pos[r] <= Len(Files)
Matches(r) == AtFile(r) /\ Here(r) \in listed[r] /\ prefix[Here(r)] = Wanted(r)

\* The auth file cannot be read.
Unreadable(r) ==
    /\ AtFile(r) /\ Here(r) \in listed[r]
    /\ Fault(r, {"unresolved"})
    /\ Advance(r)
    /\ unread' = [unread EXCEPT ![r] = @ \union {Here(r)}]
    /\ UNCHANGED <<world, request, answer>>

\* The credential does not count, or has another prefix.
Skip(r) ==
    /\ AtFile(r)
    /\ Here(r) \notin listed[r] \/ prefix[Here(r)] # Wanted(r)
    /\ Advance(r)
    /\ UNCHANGED <<world, request, found, reset, answer, unread>>

\* Mutant: without an email a credential is passed over like any other.
Nameless_silently(r) ==
    /\ Matches(r) /\ email[Here(r)] = NoEmail
    /\ Advance(r)
    /\ UNCHANGED <<world, request, found, reset, answer, unread>>

\* The credential has the prefix and no email to answer with.
Nameless(r) ==
    /\ Matches(r) /\ email[Here(r)] = NoEmail
    /\ Fault(r, {"matched", "failed"})
    /\ Advance(r)
    /\ UNCHANGED <<world, request, answer, unread>>

\* The credential is one to read, or to reset.
Match(r) ==
    /\ Matches(r) /\ email[Here(r)] # NoEmail
    /\ IF kind[r] = "quota"
       THEN Go(r, "read") /\ UNCHANGED tally
       ELSE Go(r, "credits") /\ Count(r, {"matched"})
    /\ UNCHANGED <<world, request, listed, at, pos, tries, found, resets, posted, confirmed,
                   answer, unread>>

-----------------------------------------------------------------------------
\* The account is read; without its credit details that is an error, too.
\* Of two accounts with one email the later one stays.
ReadAccount(r) ==
    /\ pc[r] = "read"
    /\ \E q \in had[Here(r)] : accounts' = [accounts EXCEPT ![r][at[r]][email[Here(r)]] = q]
    /\ Note(r) \/ UNCHANGED errors
    /\ Advance(r)
    /\ UNCHANGED <<world, request, reset, answer, unread>>

ReadFails(r) ==
    /\ pc[r] = "read"
    /\ Note(r)
    /\ Advance(r)
    /\ unread' = [unread EXCEPT ![r] = @ \union {Here(r)}]
    /\ UNCHANGED <<world, request, accounts, reset, answer>>

Walked(r) == pc[r] = "walk" /\ pos[r] > Len(Files)

\* Mutant: every account has to have something left.
HasRemaining_everywhere(r) ==
    {accounts[r][at[r]][e] : e \in Emails} \ {NoAccount} = {"left"}

\* quotaPrefixHasRemaining: an account has something left in every window.
HasRemaining(r) == \E e \in Emails : accounts[r][at[r]][e] = "left"

Later(r) == {i \in Candidates(nominal[r]) : i > at[r]}

\* Without quota under this prefix the next one is tried.
NextPrefix(r) ==
    /\ Walked(r) /\ kind[r] = "quota"
    /\ ~HasRemaining(r)
    /\ \E i \in Later(r) :
        /\ \A j \in Later(r) : i <= j
        /\ at' = [at EXCEPT ![r] = i]
    /\ pos' = [pos EXCEPT ![r] = 1]
    /\ UNCHANGED <<world, request, pc, listed, tries, found, reset, answer, unread>>

\* The answer has the nominal prefix and the one that was chosen; the others
\* and their errors are left out.
QuotaAnswer(r, actual) ==
    [status  |-> IF \E i \in {1, actual} : accounts[r][i] # NoAccounts THEN "ok" ELSE "notFound",
     actual  |-> actual,
     partial |-> errors[r] \intersect {1, actual} # {},
     success |-> FALSE]

\* Mutant: the last prefix is the actual one, with quota or without.
AnswerQuota_last(r) ==
    /\ Walked(r) /\ kind[r] = "quota"
    /\ HasRemaining(r) \/ Later(r) = {}
    /\ Say(r, QuotaAnswer(r, at[r]))
    /\ UNCHANGED <<world, request, listed, at, pos, tries, found, reset, unread>>

AnswerQuota(r) ==
    /\ Walked(r) /\ kind[r] = "quota"
    /\ HasRemaining(r) \/ Later(r) = {}
    /\ Say(r, QuotaAnswer(r, IF HasRemaining(r) THEN at[r] ELSE 1))
    /\ UNCHANGED <<world, request, listed, at, pos, tries, found, reset, unread>>

-----------------------------------------------------------------------------
\* Mutant: a second account with the email replaces the first.
Report_byEmail(r, ok) ==
    LET account == email[Here(r)]
    IN  /\ resets' = [resets EXCEPT ![r] =
              {x \in @ : x.account # account} \union {[account |-> account, tag |-> 0, success |-> ok]}]
        /\ Count(r, {IF ok THEN "succeeded" ELSE "failed"})

\* What became of the reset is listed under the email, or under the email and
\* the number of the match if the email is taken.
Report(r, ok) ==
    LET account == email[Here(r)]
        taken   == \E x \in resets[r] : x.account = account
    IN  /\ resets' = [resets EXCEPT ![r] = @ \union
              {[account |-> account, tag |-> IF taken THEN tally[r]["matched"] ELSE 0, success |-> ok]}]
        /\ Count(r, {IF ok THEN "succeeded" ELSE "failed"})

CreditsRead(r) ==
    /\ pc[r] = "credits" /\ credits[Here(r)] > 0
    /\ Go(r, "consume")
    /\ UNCHANGED <<world, request, listed, at, pos, tries, found, reset, answer, unread>>

\* Mutant: after the last try it starts over.
CreditsRetried_forever(r) ==
    /\ pc[r] = "credits"
    /\ tries' = [tries EXCEPT ![r] = IF @ < Retries THEN @ + 1 ELSE 0]
    /\ UNCHANGED <<world, request, pc, listed, at, pos, found, reset, answer, unread>>

\* Mutant: one try too many.
CreditsRetried_offByOne(r) ==
    /\ pc[r] = "credits" /\ tries[r] <= Retries
    /\ tries' = [tries EXCEPT ![r] = @ + 1]
    /\ UNCHANGED <<world, request, pc, listed, at, pos, found, reset, answer, unread>>

\* retryQuotaRead: a read that fails is tried again.
CreditsRetried(r) ==
    /\ pc[r] = "credits" /\ tries[r] < Retries
    /\ tries' = [tries EXCEPT ![r] = @ + 1]
    /\ UNCHANGED <<world, request, pc, listed, at, pos, found, reset, answer, unread>>

\* The reset ends without a post: no usable login, no read of the credits in
\* all its tries, or no credit that could be chosen.
Refused(r) ==
    /\ pc[r] = "credits"
    /\ Report(r, FALSE)
    /\ Advance(r)
    /\ UNCHANGED <<world, request, found, posted, confirmed, answer, unread>>

Posts(r) == posted' = [posted EXCEPT ![r][Here(r)] = @ + 1]

\* Upstream consumes the credit; the answer may be lost or not confirm it.
Consume(r) ==
    /\ pc[r] = "consume" /\ credits[Here(r)] > 0
    /\ Posts(r)
    /\ credits' = [credits EXCEPT ![Here(r)] = @ - 1]
    /\ quota' = [quota EXCEPT ![Here(r)] = "left"]
    /\ had' = [had EXCEPT ![Here(r)] = @ \union {"left"}]
    /\ \E ok \in BOOLEAN :
        /\ Report(r, ok)
        /\ confirmed' = [confirmed EXCEPT ![r] = IF ok THEN @ \union {Here(r)} ELSE @]
    /\ Advance(r)
    /\ UNCHANGED <<email, prefix, carried, changes, request, found, answer, unread>>

\* Mutant: the post is tried again like a read.
ConsumeFails_retried(r) ==
    /\ pc[r] = "consume" /\ tries[r] < Retries
    /\ Posts(r)
    /\ tries' = [tries EXCEPT ![r] = @ + 1]
    /\ UNCHANGED <<world, request, pc, listed, at, pos, found, tally, resets, confirmed, answer, unread>>

\* The post is lost or refused, and is not tried again.
ConsumeFails(r) ==
    /\ pc[r] = "consume"
    /\ Posts(r)
    /\ Report(r, FALSE)
    /\ Advance(r)
    /\ UNCHANGED <<world, request, found, confirmed, answer, unread>>

\* Mutant: credentials that could not be inspected do not count.
ResetAnswer_inspected(r) ==
    LET t == tally[r] IN
    [status  |-> "ok", actual  |-> 1,
     partial |-> t["succeeded"] > 0 /\ t["failed"] > 0,
     success |-> t["matched"] > 0 /\ t["failed"] = 0 /\ Cardinality(resets[r]) = t["matched"]]

ResetAnswer(r) ==
    LET t    == tally[r]
        bad  == t["failed"] > 0 \/ t["unresolved"] > 0
        some == t["matched"] > 0
    IN  [status  |-> IF some THEN "ok" ELSE IF bad THEN "failed" ELSE "notFound",
         actual  |-> 1,
         partial |-> some /\ t["succeeded"] > 0 /\ bad,
         success |-> some /\ ~bad /\ Cardinality(resets[r]) = t["matched"]]

AnswerReset(r) ==
    /\ Walked(r) /\ kind[r] = "reset"
    /\ Say(r, ResetAnswer(r))
    /\ UNCHANGED <<world, request, listed, at, pos, tries, found, reset, unread>>

-----------------------------------------------------------------------------
\* External: a credential is moved to another prefix, used or redeemed.
Change ==
    /\ changes < MaxChanges
    /\ changes' = changes + 1
    /\ \E c \in Creds :
        \/ /\ \E p \in PrefixNames \ {prefix[c]} :
                 /\ prefix' = [prefix EXCEPT ![c] = p]
                 /\ carried' = [carried EXCEPT ![c] = @ \union {p}]
           /\ UNCHANGED <<quota, credits, had>>
        \/ /\ \E q \in Quotas \ {quota[c]} :
                 /\ quota' = [quota EXCEPT ![c] = q]
                 /\ had' = [had EXCEPT ![c] = @ \union {q}]
           /\ UNCHANGED <<prefix, credits, carried>>
        \/ /\ credits[c] > 0
           /\ credits' = [credits EXCEPT ![c] = @ - 1]
           /\ UNCHANGED <<prefix, quota, had, carried>>
    /\ UNCHANGED <<email, request, walk, found, reset, answer, unread>>

Inspects(r) == Unreadable(r) \/ Skip(r) \/ Nameless(r) \/ Match(r)
Reads(r)    == ReadAccount(r) \/ ReadFails(r)
Resets(r)   == CreditsRead(r) \/ CreditsRetried(r) \/ Refused(r) \/ Consume(r) \/ ConsumeFails(r)
Answers(r)  == NextPrefix(r) \/ AnswerQuota(r) \/ AnswerReset(r)

Handle(r) == List(r) \/ ListFails(r) \/ Inspects(r) \/ Reads(r) \/ Resets(r) \/ Answers(r)

Next == (\E r \in Requests : Handle(r)) \/ Change

Spec == Init /\ [][Next]_vars

FairSpec == Spec /\ \A r \in Requests : WF_vars(Handle(r))

-----------------------------------------------------------------------------
Answered(r, k) == pc[r] = "answered" /\ kind[r] = k /\ answer[r].status # "failed"

AnswerType == [status : {"none", "ok", "notFound", "failed"}, actual : Nat \ {0},
            partial : BOOLEAN, success : BOOLEAN]

\* The variables keep their types: a read of the credits is tried at most
\* Retries times more (quota.go, 1181).
TypeOK ==
    /\ email \in [Creds -> Emails \union {NoEmail}]
    /\ prefix \in [Creds -> PrefixNames] /\ quota \in [Creds -> Quotas] /\ credits \in [Creds -> Nat]
    /\ had \in [Creds -> SUBSET Quotas] /\ carried \in [Creds -> SUBSET PrefixNames]
    /\ kind \in [Requests -> {"quota", "reset"}] /\ nominal \in [Requests -> PrefixNames]
    /\ pc \in [Requests -> {"list", "walk", "read", "credits", "consume", "answered"}]
    /\ listed \in [Requests -> SUBSET Creds]
    /\ at \in [Requests -> Nat \ {0}] /\ pos \in [Requests -> Nat \ {0}]
    /\ tries \in [Requests -> 0 .. Retries]
    /\ DOMAIN accounts = Requests
    /\ \A r \in Requests : accounts[r] \in
           [DOMAIN Chain(nominal[r]) -> [Emails -> Quotas \union {NoAccount}]]
    /\ errors \in [Requests -> SUBSET Nat]
    /\ tally \in [Requests -> [Counters -> Nat]]
    /\ resets \in [Requests -> SUBSET [account : Emails, tag : Nat, success : BOOLEAN]]
    /\ answer \in [Requests -> AnswerType]
    /\ posted \in [Requests -> [Creds -> Nat]]
    /\ unread \in [Requests -> SUBSET Creds] /\ confirmed \in [Requests -> SUBSET Creds]

\* No other credential listed to r could take c's place in the answer.
AloneByEmail(r, c) ==
    /\ email[c] # NoEmail
    /\ \A d \in listed[r] : email[d] = email[c] /\ d # c => carried[c] \intersect carried[d] = {}

\* A prefix that has had an account with quota all the time, which the request
\* could read, is the actual one or comes after it: "If the nominal prefix
\* still has quota, actual_prefix remains the nominal prefix", and querying
\* "stops at the first prefix with an available account" (README_EN.md, 59),
\* whatever other credentials do meanwhile.
AvailableIsReported ==
    \A r \in Requests : Answered(r, "quota") =>
        \A c \in listed[r] \ unread[r] : \A i \in Candidates(nominal[r]) :
            AloneByEmail(r, c) /\ had[c] = {"left"} /\ carried[c] = {Chain(nominal[r])[i]}
                => answer[r].actual <= i

\* The same without AloneByEmail, for the nominal prefix: "If the nominal prefix
\* still has quota, actual_prefix remains the nominal prefix" (README_EN.md, 59).
\* The code does not keep it: under one email the later account hides the
\* earlier one (quota.go, 523).
NominalStaysActual ==
    \A r \in Requests : Answered(r, "quota") =>
        \A c \in listed[r] \ unread[r] :
            email[c] # NoEmail /\ had[c] = {"left"} /\ carried[c] = {nominal[r]}
                => answer[r].actual = 1

\* A fallback prefix is called the actual one only if a credential that had it
\* has had quota (README_EN.md, 59).
ActualHadQuota ==
    \A r \in Requests : Answered(r, "quota") /\ answer[r].actual # 1 =>
        \E c \in listed[r] :
            "left" \in had[c] /\ Chain(nominal[r])[answer[r].actual] \in carried[c]

\* Without "partial" an answer has every account that was listed and had the
\* nominal prefix (quota.go, 546 to 561).
PartialIsTold ==
    \A r \in Requests : Answered(r, "quota") /\ ~answer[r].partial =>
        \A c \in listed[r] : carried[c] = {nominal[r]} =>
            email[c] # NoEmail /\ accounts[r][1][email[c]] # NoAccount

\* "success" of a reset means all of them: each credential that was listed and
\* had the nominal prefix has been reset (quota.go, 986).
SuccessIsComplete ==
    \A r \in Requests : pc[r] = "answered" /\ answer[r].success =>
        \A c \in listed[r] : carried[c] = {nominal[r]} => c \in confirmed[r]

\* Every reset that was confirmed is in the answer under a key of its own, and
\* the answer says success or partial (quota.go, 948 to 967).
ResetsAreListed ==
    \A r \in Requests : Answered(r, "reset") =>
        /\ Cardinality({x \in resets[r] : x.success}) = Cardinality(confirmed[r])
        /\ confirmed[r] # {} => answer[r].success \/ answer[r].partial

\* No request posts twice for a credential, or for one that never had the
\* nominal prefix: "The mutating consumption request is never retried"
\* (README_EN.md, 112).
ConsumedOnce ==
    \A r \in Requests : \A c \in Creds :
        /\ posted[r][c] <= 1
        /\ posted[r][c] = 1 => kind[r] = "reset" /\ nominal[r] \in carried[c]

\* Every request is answered, however its reads fail.
EveryoneIsAnswered == \A r \in Requests : <>(pc[r] = "answered")
=============================================================================
