---------------------------- MODULE MCQuotaReads ----------------------------
(***************************************************************************)
(* Small instances of QuotaReads: one credential with its two keys.        *)
(***************************************************************************)
EXTENDS QuotaReads, TLC

CONSTANTS resource, native, r1, r2, s1, d1, codex, a1, noAuth, none

MCCallers    == Readers \X {"resource", "native"}
MCProviderOf == [k \in Keys |-> codex]
MCAuthOf     == [k \in Keys |-> a1]
Alike        == Permutations({r1, r2})
OneTick      == [k \in Keys |-> 1]
TwoTicks     == [k \in Keys |-> 2]

\* A visit shares nothing with the readers but the account: it is explored
\* beside one flight at most.
VisitsBesideFewReads == nflights <= 1 \/ \A v \in Visitors : visit[v] = "idle"
=============================================================================
