-------------------------- MODULE MCQuotaResource --------------------------
(***************************************************************************)
(* A small instance of QuotaResource: two credentials share an email, one  *)
(* of them may have none, and a fallback is named twice.                   *)
(***************************************************************************)
EXTENDS QuotaResource, TLC

CONSTANTS r1, a, b, c

MCFiles     == <<a, b, c>>
MCFallbacks == "team" :> <<"spare", "team", "spare", "last">> @@ "spare" :> <<>> @@ "last" :> <<"team">>
MCWorlds    ==
    {[email |-> e, prefix |-> p, quota |-> q, credits |-> [d \in Creds |-> 1]] :
        e \in {a :> "x" @@ b :> "x" @@ c :> "none", a :> "x" @@ b :> "y" @@ c :> "x"},
        p \in {a :> "team" @@ b :> "team" @@ c :> "team",
               a :> "team" @@ b :> "spare" @@ c :> "last"},
        q \in {q \in [Creds -> {"left", "spent"}] : q[a] = "spent"}}

\* Two accounts with one email under the nominal prefix, the later one spent.
MCDuplicates ==
    {[email   |-> a :> "x" @@ b :> "x" @@ c :> "y",
      prefix  |-> a :> "team" @@ b :> "team" @@ c :> "spare",
      quota   |-> a :> "left" @@ b :> "spent" @@ c :> "left",
      credits |-> [d \in Creds |-> 0]]}
=============================================================================
