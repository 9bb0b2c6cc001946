-------------------------- MODULE MCStreamFallback --------------------------
(***************************************************************************)
(* Small instances of StreamFallback.  The configurations nest one source  *)
(* in another, name a source as its own target, name a target twice and    *)
(* name a prefix of which the model is already a model.                    *)
(***************************************************************************)
EXTENDS StreamFallback

CONSTANT r1

Spelled(p) == [path |-> p, spelling |-> 1]

Nested ==
    Spelled(<<"team">>) :> <<<<"other">>, <<"team">>, <<"other">>, <<"spare">>>>
    @@ Spelled(<<"team", "codex">>) :> <<<<"backup">>, <<"team">>>>
    @@ Spelled(<<"other">>) :> <<<<"team">>>>

Chain ==
    Spelled(<<"team">>) :> <<<<"backup">>>>
    @@ Spelled(<<"backup">>) :> <<<<"spare">>>>
    @@ Spelled(<<"team", "codex">>) :> <<<<"team", "codex">>>>

Nameless == Spelled(<<"team">>) :> <<<<>>>>

MCInputs ==
    {[enabled |-> TRUE, others |-> o, prefixes |-> p] : o \in BOOLEAN, p \in {Nested, Chain, Nameless}}
    \union {[enabled |-> FALSE, others |-> TRUE, prefixes |-> Nested]}

MCSegments == {"team", "codex", "gpt", "other", "spare", "backup"}

MCModels == {<<"team", "gpt">>, <<"team", "codex", "gpt">>, <<"gpt">>}

NoRuntimeYet == [configured |-> "none"]
=============================================================================
