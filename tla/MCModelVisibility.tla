------------------------- MODULE MCModelVisibility -------------------------
(***************************************************************************)
(* A small instance of ModelVisibility: one prefix is the beginning of     *)
(* another, a model is nothing but a prefix, and CPA offers a key nothing   *)
(* for a while.                                                            *)
(***************************************************************************)
EXTENDS ModelVisibility, TLC

CONSTANTS k1, other, a, b

MCPrefixes == {<<"team">>, <<"team", "codex">>}

MCOffers ==
    {k1 :> {<<"team", "gpt">>, <<"team", "codex", "gpt">>, <<"team", "codex", "">>} @@ other :> {<<"team", "gpt">>, <<"gpt">>},
     k1 :> {<<"team", "codex", "">>} @@ other :> {<<"gpt">>}}
=============================================================================
