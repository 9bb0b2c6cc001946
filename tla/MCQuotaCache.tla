---------------------------- MODULE MCQuotaCache ----------------------------
(***************************************************************************)
(* A small instance of QuotaCache: the resource key of a credential, and a *)
(* key without an auth_index.  Two cached keys of a credential are in      *)
(* MCQuotaReads, keys of several credentials in MCProviderQuota.           *)
(***************************************************************************)
EXTENDS QuotaCache

CONSTANTS kResource, kDirect, c1, c2, codex, a1, noAuth, none

MCProviderOf == [k \in Keys |-> codex]
MCAuthOf     == [k \in Keys |-> IF k = kDirect THEN noAuth ELSE a1]
OneTick      == [k \in Keys |-> 1]
=============================================================================
