----------------------------- MODULE FreshReads -----------------------------
(***************************************************************************)
(* What a caller of the quota cache is promised, whatever the cache keeps, *)
(* for how long, and what it has to drop: every answer is the outcome of   *)
(* one read of the key that was asked for.  A caller is answered at once   *)
(* only with a complete success, waits only for a read that is still       *)
(* running, and starts a read of its own when there is none to wait for;   *)
(* and it never turns to a read that an invalidation has overtaken.        *)
(***************************************************************************)
EXTENDS Naturals, Sequences

CONSTANTS Keys, Callers, None

VARIABLES
    reads,      \* every read that was begun: its key, and how it ended
    overtaken,  \* the reads begun before an invalidation of their key
    phase,      \* what each caller does
    key,        \* what it asked for last
    of,         \* the read it runs, waits for, or was answered with
    result      \* its answer

promise == <<reads, overtaken, phase, key, of, result>>

Init ==
    /\ reads = <<>>
    /\ overtaken = {}
    /\ phase = [c \in Callers |-> "idle"]
    /\ key = [c \in Callers |-> None]
    /\ of = [c \in Callers |-> 0]
    /\ result = [c \in Callers |-> "none"]

\* The reads of k a caller may turn to now.
Current(k) == {f \in DOMAIN reads : reads[f].key = k /\ f \notin overtaken}

Ask(c, k) ==
    /\ phase[c] = "idle"
    /\ phase' = [phase EXCEPT ![c] = "asking"]
    /\ key' = [key EXCEPT ![c] = k]
    /\ of' = [of EXCEPT ![c] = 0]
    /\ result' = [result EXCEPT ![c] = "none"]
    /\ UNCHANGED <<reads, overtaken>>

\* A call that is cancelled before it asks for anything.
Refuse(c, k) ==
    /\ phase[c] = "idle"
    /\ key' = [key EXCEPT ![c] = k]
    /\ of' = [of EXCEPT ![c] = 0]
    /\ result' = [result EXCEPT ![c] = "cancelled"]
    /\ UNCHANGED <<reads, overtaken, phase>>

Answered(c, f, outcome) ==
    /\ phase' = [phase EXCEPT ![c] = "idle"]
    /\ of' = [of EXCEPT ![c] = f]
    /\ result' = [result EXCEPT ![c] = outcome]
    /\ UNCHANGED <<overtaken, key>>

\* A read that is shared with nobody.
ReadAlone(c, outcome) ==
    /\ phase[c] = "asking"
    /\ Answered(c, 0, outcome)
    /\ UNCHANGED reads

Recall(c) ==
    /\ phase[c] = "asking"
    /\ \E f \in Current(key[c]) :
          reads[f].done /\ reads[f].outcome = "ok" /\ Answered(c, f, "ok")
    /\ UNCHANGED reads

Attend(c) ==
    /\ phase[c] = "asking"
    /\ \E f \in Current(key[c]) : ~reads[f].done /\ of' = [of EXCEPT ![c] = f]
    /\ phase' = [phase EXCEPT ![c] = "waiting"]
    /\ UNCHANGED <<reads, overtaken, key, result>>

Start(c) ==
    /\ phase[c] = "asking"
    /\ \A f \in Current(key[c]) : reads[f].done
    /\ reads' = Append(reads, [key |-> key[c], done |-> FALSE, outcome |-> "none"])
    /\ of' = [of EXCEPT ![c] = Len(reads) + 1]
    /\ phase' = [phase EXCEPT ![c] = "reading"]
    /\ UNCHANGED <<overtaken, key, result>>

Finish(c, outcome) ==
    /\ phase[c] = "reading"
    /\ reads' = [reads EXCEPT ![of[c]] = [key |-> key[c], done |-> TRUE, outcome |-> outcome]]
    /\ Answered(c, of[c], outcome)

Learn(c) ==
    /\ phase[c] = "waiting"
    /\ reads[of[c]].done
    /\ Answered(c, of[c], reads[of[c]].outcome)
    /\ UNCHANGED reads

GiveUp(c) ==
    /\ phase[c] = "waiting"
    /\ Answered(c, 0, "cancelled")
    /\ UNCHANGED reads

Overtake(K) ==
    /\ overtaken' = overtaken \union {f \in DOMAIN reads : reads[f].key \in K}
    /\ UNCHANGED <<reads, phase, key, of, result>>

Next ==
    \/ \E c \in Callers :
          \/ \E k \in Keys : Ask(c, k) \/ Refuse(c, k)
          \/ \E outcome \in {"ok", "uncacheable", "error"} : ReadAlone(c, outcome) \/ Finish(c, outcome)
          \/ Recall(c) \/ Attend(c) \/ Start(c) \/ Learn(c) \/ GiveUp(c)
    \/ \E K \in SUBSET Keys : Overtake(K)

Spec == Init /\ [][Next]_promise
=============================================================================
