---------------------------- MODULE MCKeyRouting ----------------------------
(***************************************************************************)
(* Small instances of KeyRouting: two keys with prefixes of their own, a   *)
(* default that has one or has none, and a file that loses a key, is       *)
(* damaged or disappears.                                                  *)
(***************************************************************************)
EXTENDS KeyRouting, TLC

CONSTANTS r1, r2, k1, k2

Lists(keys) == [state |-> "list", keys |-> keys]
Unlisted(s) == [state |-> s, keys |-> {}]

MCWritten == {Lists({k1, k2}), Lists({k2}), Unlisted("malformed"), Unlisted("missing")}

MCConfigs ==
    {[strict |-> FALSE, ttl |-> 1,
      prefixes |-> k1 :> <<"p1">> @@ k2 :> <<"p2">> @@ "default" :> <<"d">>],
     [strict |-> TRUE, ttl |-> 0, prefixes |-> k1 :> <<"p1">> @@ k2 :> <<>>]}

OneKey  == [candidates |-> <<k1>>, model |-> <<"gpt">>]
TwoKeys == [candidates |-> <<k1, k2>>, model |-> <<"p2", "gpt">>]
MCCalls == {r1 :> OneKey @@ r2 :> OneKey, r1 :> OneKey @@ r2 :> TwoKeys}

\* Every key is offered the same models.
MCOffers == {[k \in {k1, k2} |-> {<<"p1", "gpt">>, <<"d", "gpt">>}],
             [k \in {k1, k2} |-> {<<"d", "gpt">>}]}

\* Each key is offered the models of its own prefix, and the file stays.
ByKeyWritten == {Lists({k1, k2})}
ByKeyConfigs == {c \in MCConfigs : ~c.strict}
ByKeyCalls   == {r1 :> OneKey @@ r2 :> [OneKey EXCEPT !.candidates = <<k2>>]}
ByKeyOffers  == {k1 :> {<<"p1", "gpt">>} @@ k2 :> {<<"p2", "gpt">>}}
=============================================================================
