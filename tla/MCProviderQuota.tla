-------------------------- MODULE MCProviderQuota --------------------------
(***************************************************************************)
(* A small instance of ProviderQuota: a file of Claude, two of Antigravity  *)
(* and one of a provider whose quota is not cached; one request at a time. *)
(***************************************************************************)
EXTENDS ProviderQuota

CONSTANTS claude, antigravity, other, c1, none

MCProviderOfFile == <<claude, antigravity, antigravity, other>>

MCKeys       == (1 .. NCreds) \X (0 .. MaxRewrites)
MCProviderOf == [k \in MCKeys |-> MCProviderOfFile[k[1]]]
MCAuthOf     == [k \in MCKeys |-> k[1]]
MCKindOf     == [p \in Providers |-> CASE p = claude      -> "claude"
                                       [] p = antigravity -> "antigravity"
                                       [] OTHER           -> "native"]
MCTTL        == [k \in MCKeys |-> IF MCProviderOf[k] = other THEN 0 ELSE 2]

\* The second file of Antigravity is of another account until it is rewritten,
\* and has no project; the file of Claude is the account's until then.
MCMine        == MCKeys \ {<<3, 0>>, <<1, 1>>}
MCWithProject == {k \in MCKeys : k[1] = 2}

\* CPA tells no email, of all files or all but the first of Antigravity, or it
\* tells all and hides the second.
MCListings    == {[d \in 1 .. NCreds |-> "blank"],
                  [d \in 1 .. NCreds |-> IF d = 2 THEN "hidden" ELSE "blank"],
                  [d \in 1 .. NCreds |-> IF d = 3 THEN "hidden" ELSE "named"]}
=============================================================================
