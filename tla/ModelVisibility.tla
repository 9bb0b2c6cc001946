-------------------------- MODULE ModelVisibility --------------------------
(***************************************************************************)
(* The models a client is shown: RegisterModels (model_registration.go)    *)
(* looks the prefixed models up, key by key, and hands CPA one alias for   *)
(* each; InterceptResponse (models_response.go) takes the prefixed ones    *)
(* out of model lists while deduplicatedModelsLoaded is set.               *)
(*                                                                         *)
(* CPA may call RegisterModels again while a call is still looking models  *)
(* up, and lists models meanwhile.  It builds a list from what it offers   *)
(* and has registered, and the interceptor reads the flag only later, when *)
(* it is handed that list; a look-up is such a list, too.  Lists change    *)
(* nothing, so one of a client on its way is as good as many.              *)
(* A reconfiguration loads a new runtime, *)
(* with a flag and a bypass token of its own; calls that run stay with     *)
(* theirs.                                                                 *)
(*                                                                         *)
(* Models and prefixes are split at their slashes.                         *)
(***************************************************************************)
EXTENDS Naturals, Sequences, SequencesExt

CONSTANTS
    MappedKeys,   \* the keys of prefix_map, without "default"
    OtherKeys,    \* keys without a prefix of their own
    DeduplicationPrefixes,  \* the prefixes that are hidden
    Offers,       \* what CPA may offer each key
    Registrars,   \* overlapping calls of RegisterModels
    MaxRuntimes,  \* bound on the runtimes loaded one after another
    MaxCalls      \* bound on the calls of RegisterModels

ASSUME RuntimeBound == MaxRuntimes \in Nat \ {0}

VARIABLES
    current,   \* the runtime loaded last
    loaded,    \* deduplicatedModelsLoaded of each runtime
    pc,        \* where each call of RegisterModels is
    runtime,   \* the runtime it runs on
    left,      \* the keys it has yet to look up
    found,     \* the aliases it has found
    answer,    \* the list CPA has built for its look-up
    calls,     \* how many calls there were
    offers,    \* what CPA offers each key
    registry,  \* the aliases CPA has registered
    built,     \* the list CPA has built for a client and the interceptor has yet
               \* to see, the aliases in it, and whether they are CPA's still
    shown,     \* history: the list a client got last, the whole of it, the
               \* aliases in it, and whether CPA had registered what it was handed
               \* and registered nothing since it built the list
    there,     \* history: the aliases of all that each call looked up
    overlaps   \* history: two calls of RegisterModels overlapped

register == <<pc, runtime, left, found, answer, there>>
cpa      == <<calls, offers, registry>>
lists    == <<built, shown>>
vars     == <<current, loaded, register, cpa, lists, overlaps>>

Runtimes == 1 .. MaxRuntimes
AllKeys  == MappedKeys \union OtherKeys

\* What is left of a model that is nothing but a prefix.
Nameless == <<"">>

PrefixesOf(model) == {p \in DeduplicationPrefixes : IsStrictPrefix(p, model)}
Prefixed(model)   == PrefixesOf(model) # {}

\* stripModelPrefix: the longest prefix is taken off.
Alias(model) ==
    LET p == CHOOSE p \in PrefixesOf(model) : \A q \in PrefixesOf(model) : Len(q) <= Len(p)
    IN  SubSeq(model, Len(p) + 1, Len(model))

\* Mutant: a model that is nothing but a prefix has an alias too.
Aliases_nameless(models) == {Alias(m) : m \in {m \in models : Prefixed(m)}}

\* A model that is nothing but a prefix has no alias.
Aliases(models) == {Alias(m) : m \in {m \in models : Prefixed(m)}} \ {Nameless}

\* What CPA lists for a key.
Listed(k) == offers[k] \union registry

\* Mutant: look-ups are filtered like any list.
Intercepted_all(models, token) ==
    IF loaded[current] THEN {m \in models : ~Prefixed(m)} ELSE models

\* InterceptResponse of the loaded runtime; token is the one the request bears.
Intercepted(models, token) ==
    IF loaded[current] /\ token # current
    THEN {m \in models : ~Prefixed(m)}
    ELSE models

NoToken == 0
NoList  == [open |-> FALSE, all |-> {}, aliases |-> {}, settled |-> FALSE]

-----------------------------------------------------------------------------
Init ==
    /\ current = 1
    /\ loaded = [t \in Runtimes |-> FALSE]
    /\ pc = [c \in Registrars |-> "idle"]
    /\ runtime = [c \in Registrars |-> 0]
    /\ left = [c \in Registrars |-> {}]
    /\ found = [c \in Registrars |-> {}]
    /\ answer = [c \in Registrars |-> {}]
    /\ calls = 0
    /\ offers \in Offers
    /\ registry = {}
    /\ built = NoList
    /\ shown = [all |-> {}, list |-> {}, aliases |-> {}, settled |-> TRUE]
    /\ there = [c \in Registrars |-> {}]
    /\ overlaps = FALSE

\* CPA calls RegisterModels: nothing is hidden while models are looked up.
Begin(c) ==
    /\ pc[c] = "idle" /\ calls < MaxCalls
    /\ calls' = calls + 1
    /\ loaded' = [loaded EXCEPT ![current] = FALSE]
    /\ pc' = [pc EXCEPT ![c] = IF DeduplicationPrefixes = {} THEN "returned" ELSE "looking"]
    /\ runtime' = [runtime EXCEPT ![c] = current]
    /\ left' = [left EXCEPT ![c] = MappedKeys]
    /\ found' = [found EXCEPT ![c] = {}]
    /\ there' = [there EXCEPT ![c] = {}]
    /\ overlaps' = (overlaps \/ \E d \in Registrars : pc[d] # "idle")
    /\ UNCHANGED <<current, answer, offers, registry, lists>>

\* The catalog of a key is asked for, and CPA builds the list.
AskCatalog(c) ==
    /\ pc[c] = "looking"
    /\ \E k \in left[c] :
        /\ left' = [left EXCEPT ![c] = @ \ {k}]
        /\ answer' = [answer EXCEPT ![c] = Listed(k)]
    /\ pc' = [pc EXCEPT ![c] = "asked"]
    /\ UNCHANGED <<current, loaded, runtime, found, there, cpa, lists, overlaps>>

\* It is intercepted, with the token of the runtime that asked, and looked up.
LookUp(c) ==
    /\ pc[c] = "asked"
    /\ found' = [found EXCEPT ![c] = @ \union Aliases(Intercepted(answer[c], runtime[c]))]
    /\ there' = [there EXCEPT ![c] = @ \union Aliases(answer[c])]
    /\ answer' = [answer EXCEPT ![c] = {}]
    /\ pc' = [pc EXCEPT ![c] = "looking"]
    /\ UNCHANGED <<current, loaded, runtime, left, cpa, lists, overlaps>>

\* A key whose catalog cannot be had is passed over.
LookUpFails(c) ==
    /\ pc[c] = "asked"
    /\ answer' = [answer EXCEPT ![c] = {}]
    /\ pc' = [pc EXCEPT ![c] = "looking"]
    /\ UNCHANGED <<current, loaded, runtime, left, found, there, cpa, lists, overlaps>>

\* Mutant: models are hidden once they were looked up, aliases or not.
Return_always(c) ==
    /\ pc[c] = "looking" /\ left[c] = {}
    /\ loaded' = [loaded EXCEPT ![runtime[c]] = TRUE]
    /\ pc' = [pc EXCEPT ![c] = "returned"]
    /\ UNCHANGED <<current, runtime, left, found, answer, there, cpa, lists, overlaps>>

\* Prefixed models are hidden from now on if there is an alias at all.
Return(c) ==
    /\ pc[c] = "looking" /\ left[c] = {}
    /\ loaded' = [loaded EXCEPT ![runtime[c]] = found[c] # {}]
    /\ pc' = [pc EXCEPT ![c] = "returned"]
    /\ UNCHANGED <<current, runtime, left, found, answer, there, cpa, lists, overlaps>>

\* External: CPA registers the aliases it was handed; a list it has built
\* before is without them.
Register(c) ==
    /\ pc[c] = "returned"
    /\ registry' = found[c]
    /\ pc' = [pc EXCEPT ![c] = "idle"]
    /\ built' = [built EXCEPT !.settled = FALSE]
    /\ UNCHANGED <<current, loaded, runtime, left, found, answer, there, calls, offers, shown, overlaps>>

\* External: CPA builds the list of models of a client's key.
Build(k) ==
    /\ ~built.open
    /\ built' = [open |-> TRUE, all |-> Listed(k), aliases |-> registry, settled |-> TRUE]
    /\ UNCHANGED <<current, loaded, register, cpa, shown, overlaps>>

\* The interceptor of the runtime that is loaded by then is handed the list.
Intercept ==
    /\ built.open
    /\ built' = NoList
    /\ shown' = [all |-> built.all, list |-> Intercepted(built.all, NoToken), aliases |-> built.aliases,
                 settled |-> /\ built.settled /\ ~overlaps
                             /\ \A c \in Registrars : pc[c] # "returned"]
    /\ UNCHANGED <<current, loaded, register, cpa, overlaps>>

\* The plugin is configured anew.
Reconfigure ==
    /\ current + 1 \in Runtimes
    /\ current' = current + 1
    /\ UNCHANGED <<loaded, register, cpa, lists, overlaps>>

\* External: CPA offers other models.
Reoffer ==
    /\ offers' \in Offers \ {offers}
    /\ UNCHANGED <<current, loaded, register, calls, registry, lists, overlaps>>

Registers(c) == Begin(c) \/ AskCatalog(c) \/ LookUp(c) \/ LookUpFails(c) \/ Return(c) \/ Register(c)

Next ==
    \/ \E c \in Registrars : Registers(c)
    \/ \E k \in AllKeys : Build(k)
    \/ Intercept
    \/ Reconfigure
    \/ Reoffer

Spec == Init /\ [][Next]_vars

-----------------------------------------------------------------------------
\* The variables keep their types; no alias is the empty name
\* (model_registration.go, 60).
TypeOK ==
    /\ current \in Runtimes /\ loaded \in [Runtimes -> BOOLEAN]
    /\ pc \in [Registrars -> {"idle", "looking", "asked", "returned"}]
    /\ runtime \in [Registrars -> Runtimes \union {0}]
    /\ left \in [Registrars -> SUBSET MappedKeys]
    /\ DOMAIN found = Registrars /\ DOMAIN there = Registrars
    /\ offers \in Offers
    /\ \A c \in Registrars : Nameless \notin found[c]
    /\ Nameless \notin registry

\* What the loaded runtime looks up it sees whole: every prefixed model of a
\* key that answers is found, whatever the interceptor hides from clients
\* while other calls end (model_registration.go, 82 to 86).
OwnInputsAreWhole ==
    \A c \in Registrars : runtime[c] = current => found[c] = there[c]

\* As long as CPA registers one result before it asks for the next, a list that
\* hides models has aliases in it (README_EN.md, 29), whatever look-ups failed
\* and whichever runtime filters, unless CPA was handed aliases that it had not
\* registered when the list was filtered or registered after it was built.
HiddenOnlyWithAliases ==
    shown.settled /\ shown.list # shown.all => shown.aliases # {}
=============================================================================
