--------------------------- MODULE FallbackTargets ---------------------------
(***************************************************************************)
(* The models an executor request may be sent to: quota_fallback as it is  *)
(* configured (normalizeQuotaFallback, config.go) and the list of targets  *)
(* of a routed model (quotaFallbackTargets, runtime.go).                   *)
(*                                                                         *)
(* Names are split at their slashes: a prefix is a sequence of segments, a *)
(* model is a sequence whose last segment is its own name.  Two spellings  *)
(* of one prefix, "team" and "/team/", differ only in "spelling".          *)
(***************************************************************************)
EXTENDS Naturals, Sequences, FiniteSets, SequencesExt

\* The members of list at the positions in I, in the order of list.
At(list, I) ==
    [n \in 1 .. Cardinality(I) |-> list[CHOOSE i \in I : Cardinality({j \in I : j <= i}) = n]]

\* The targets one configured source keeps: itself and repetitions are skipped.
Kept(path, list) ==
    At(list, {i \in DOMAIN list : list[i] # path /\ \A j \in 1 .. i - 1 : list[j] # list[i]})

\* A source or a target without a name is an error, and so is the configuration.
Normalizable(input) ==
    \A source \in DOMAIN input :
        source.path # <<>> /\ \A i \in DOMAIN input[source] : input[source][i] # <<>>

\* The tables normalization may produce.  Sources are visited in map order:
\* what the spellings of one source keep is appended in any order.
NormalizeQuotaFallback(input) ==
    LET Spellings(path) == {source \in DOMAIN input : source.path = path}
        Appended(order) == FlattenSeq([i \in DOMAIN order |-> Kept(order[i].path, input[order[i]])])
        Lists(path)     == {Appended(order) : order \in SetToSeqs(Spellings(path))}
        Sources         == {p \in {source.path : source \in DOMAIN input} : Lists(p) # {<<>>}}
    IN  {table \in [Sources -> UNION {Lists(p) : p \in Sources}] :
            \A p \in Sources : table[p] \in Lists(p)}

\* The sources in table that model starts with.
Matching(table, model) == {p \in DOMAIN table : IsStrictPrefix(p, model)}

Longest(S) == {p \in S : \A q \in S : Len(q) <= Len(p)}

\* The targets of a model: itself, then the targets of its longest source,
\* with the rest of its name.
QuotaFallbackTargets(enabled, table, model) ==
    IF ~enabled \/ Matching(table, model) = {} THEN <<model>>
    ELSE LET source == CHOOSE p \in Longest(Matching(table, model)) : TRUE
             base   == SubSeq(model, Len(source) + 1, Len(model))
             named  == [i \in DOMAIN table[source] |-> table[source][i] \o base]
         IN  <<model>> \o At(named, {i \in DOMAIN named : named[i] # model})
=============================================================================
