------------------------ MODULE QuotaResource_proofs ------------------------
(***************************************************************************)
(* What the answers of /quota and /quota/reset say holds for any number of *)
(* requests, credentials, prefixes, fallbacks, emails and changes.         *)
(***************************************************************************)
EXTENDS QuotaResource, FiniteSetTheorems, TLAPS

WorldOK ==
    /\ email \in [Creds -> Emails \union {NoEmail}]
    /\ prefix \in [Creds -> PrefixNames] /\ quota \in [Creds -> Quotas] /\ credits \in [Creds -> Nat]
    /\ had \in [Creds -> SUBSET Quotas] /\ carried \in [Creds -> SUBSET PrefixNames]
    /\ \A c \in Creds : prefix[c] \in carried[c] /\ quota[c] \in had[c]

WalkTypes ==
    /\ kind \in [Requests -> {"quota", "reset"}] /\ nominal \in [Requests -> PrefixNames]
    /\ pc \in [Requests -> {"list", "walk", "read", "credits", "consume", "answered"}]
    /\ listed \in [Requests -> SUBSET Creds]
    /\ at \in [Requests -> Nat \ {0}] /\ pos \in [Requests -> Nat \ {0}]
    /\ tries \in [Requests -> 0 .. Retries]

\* The request is at a credential that CPA listed and whose file named the prefix.
AtWork(r) ==
    /\ pos[r] <= Len(Files)
    /\ Here(r) \in listed[r]
    /\ Wanted(r) \in carried[Here(r)]
    /\ email[Here(r)] \in Emails

WalksWell(r) ==
    /\ at[r] \in Candidates(nominal[r])
    /\ pc[r] = "list" => at[r] = 1 /\ pos[r] = 1
    /\ kind[r] = "reset" => at[r] = 1
    /\ pc[r] \in {"read", "credits", "consume"} => AtWork(r)
    /\ pc[r] = "read" => kind[r] = "quota"
    /\ pc[r] \in {"credits", "consume"} => kind[r] = "reset"

WalkOK == WalkTypes /\ \A r \in Requests : WalksWell(r)

FoundOK ==
    /\ DOMAIN accounts = Requests
    /\ \A r \in Requests : accounts[r] \in
           [DOMAIN Chain(nominal[r]) -> [Emails -> Quotas \union {NoAccount}]]
    /\ errors \in [Requests -> SUBSET Nat]

ResetOK ==
    /\ tally \in [Requests -> [Counters -> Nat]]
    /\ resets \in [Requests -> SUBSET [account : Emails, tag : Nat, success : BOOLEAN]]
    /\ posted \in [Requests -> [Creds -> Nat]]
    /\ confirmed \in [Requests -> SUBSET Creds]

AnswerOK ==
    /\ answer \in [Requests -> AnswerType]
    /\ unread \in [Requests -> SUBSET Creds]

TypeInv == WorldOK /\ WalkOK /\ FoundOK /\ ResetOK /\ AnswerOK

-----------------------------------------------------------------------------
(* The candidates, and the world outside a request *)

LEMMA ChainIsSeq ==
    ASSUME NEW n \in PrefixNames
    PROVE  /\ Chain(n) \in Seq(PrefixNames) /\ Len(Chain(n)) >= 1
           /\ DOMAIN Chain(n) = 1 .. Len(Chain(n))
           /\ Chain(n)[1] = n /\ 1 \in Candidates(n)
<1>1. Fallbacks[n] \in Seq(PrefixNames) /\ <<n>> \in Seq(PrefixNames)
    BY FallbacksArePrefixes
<1>2. Chain(n) \in Seq(PrefixNames) /\ Len(Chain(n)) = 1 + Len(Fallbacks[n]) /\ Chain(n)[1] = n
    BY <1>1 DEF Chain
<1>3. Len(Fallbacks[n]) \in Nat /\ DOMAIN Chain(n) = 1 .. Len(Chain(n))
    BY <1>1, <1>2
<1> QED
    BY <1>2, <1>3 DEF Candidates

\* Each candidate has a prefix of its own.
LEMMA CandidatesDiffer ==
    ASSUME NEW n \in PrefixNames, NEW i \in Candidates(n), NEW j \in Candidates(n),
           Chain(n)[i] = Chain(n)[j]
    PROVE  i = j
<1>1. i \in Nat /\ j \in Nat /\ i >= 1 /\ j >= 1
    BY ChainIsSeq DEF Candidates
<1> QED
    BY <1>1 DEF Candidates

LEMMA FilesCount ==
    /\ Len(Files) \in Nat /\ DOMAIN Files = 1 .. Len(Files)
    /\ \A i \in 1 .. Len(Files) : Files[i] \in Creds
    /\ \A c \in Creds : \E i \in 1 .. Len(Files) : Files[i] = c
    /\ \A i, j \in 1 .. Len(Files) : Files[i] = Files[j] => i = j
BY FilesAreCreds

\* Emails stay, and what was once so stays on record.
Grows ==
    /\ email' = email
    /\ \A c \in Creds : had[c] \subseteq had'[c] /\ carried[c] \subseteq carried'[c]

LEMMA WorldSteps == ASSUME WorldOK, [Next]_vars PROVE WorldOK' /\ Grows
<1> USE DEF WorldOK, Grows
<1>1. CASE UNCHANGED world
    BY <1>1 DEF world
<1>2. ASSUME NEW r \in Requests, Consume(r) PROVE WorldOK' /\ Grows
  <2> DEFINE h == Here(r)
  <2>1. /\ credits' = [credits EXCEPT ![h] = @ - 1] /\ credits[h] > 0
        /\ quota' = [quota EXCEPT ![h] = "left"]
        /\ had' = [had EXCEPT ![h] = @ \union {"left"}]
        /\ UNCHANGED <<email, prefix, carried>>
      BY <1>2 DEF Consume
  <2> HIDE DEF h
  <2>2. \A c \in Creds : credits'[c] \in Nat
      BY <2>1
  <2>3. credits' \in [Creds -> Nat]
      BY <2>1, <2>2
  <2>4. quota' \in [Creds -> Quotas] /\ had' \in [Creds -> SUBSET Quotas]
      BY <2>1 DEF Quotas
  <2>5. \A c \in Creds : quota'[c] \in had'[c] /\ had[c] \subseteq had'[c]
      BY <2>1
  <2> QED
      BY <2>1, <2>3, <2>4, <2>5
<1>3. CASE Change
  <2>1. PICK c \in Creds :
        \/ /\ \E p \in PrefixNames \ {prefix[c]} :
                 /\ prefix' = [prefix EXCEPT ![c] = p]
                 /\ carried' = [carried EXCEPT ![c] = @ \union {p}]
           /\ UNCHANGED <<quota, credits, had>>
        \/ /\ \E q \in Quotas \ {quota[c]} :
                 /\ quota' = [quota EXCEPT ![c] = q]
                 /\ had' = [had EXCEPT ![c] = @ \union {q}]
           /\ UNCHANGED <<prefix, credits, carried>>
        \/ /\ credits[c] > 0
           /\ credits' = [credits EXCEPT ![c] = @ - 1]
           /\ UNCHANGED <<prefix, quota, had, carried>>
      BY <1>3 DEF Change
  <2>2. email' = email
      BY <1>3 DEF Change
  <2> QED
      BY <2>1, <2>2
<1>4. ASSUME NEW r \in Requests, Handle(r), ~Consume(r) PROVE UNCHANGED world
  <2>1. CASE List(r) \/ ListFails(r)
      BY <2>1 DEF List, ListFails
  <2>2. CASE Inspects(r)
      BY <2>2 DEF Inspects, Unreadable, Skip, Nameless, Match
  <2>3. CASE Reads(r)
      BY <2>3 DEF Reads, ReadAccount, ReadFails
  <2>4. CASE Resets(r)
      BY <1>4, <2>4 DEF Resets, CreditsRead, CreditsRetried, Refused, ConsumeFails
  <2>5. CASE Answers(r)
      BY <2>5 DEF Answers, NextPrefix, AnswerQuota, AnswerReset
  <2> QED
      BY <1>4, <2>1, <2>2, <2>3, <2>4, <2>5 DEF Handle
<1> QED
    BY <1>1, <1>2, <1>3, <1>4 DEF Next, vars, world

-----------------------------------------------------------------------------
(* Types *)

\* What a step of r does to its walk.
Starts(r)   == pc[r] = "list" /\ Go(r, "walk") /\ UNCHANGED <<at, pos, tries>>
                  /\ \E S \in SUBSET Creds : listed' = [listed EXCEPT ![r] = S]
Ends(r)     == Go(r, "answered") /\ UNCHANGED <<listed, at, pos, tries>>
Moves(r)    == pc[r] # "list" /\ Advance(r)
Finds(r)    == Matches(r) /\ email[Here(r)] # NoEmail /\ UNCHANGED <<listed, at, pos, tries>>
                  /\ Go(r, IF kind[r] = "quota" THEN "read" ELSE "credits")
Sends(r)    == pc[r] = "credits" /\ Go(r, "consume") /\ UNCHANGED <<listed, at, pos, tries>>
TriesOn(r)  == pc[r] = "credits" /\ tries[r] < Retries /\ tries' = [tries EXCEPT ![r] = @ + 1]
                  /\ UNCHANGED <<pc, listed, at, pos>>
Repeats(r)  == pc[r] = "walk" /\ kind[r] = "quota" /\ UNCHANGED <<pc, listed, tries>>
                  /\ (\E i \in Later(r) : at' = [at EXCEPT ![r] = i])
                  /\ pos' = [pos EXCEPT ![r] = 1]

LEMMA WalkMoves ==
    ASSUME NEW r \in Requests, Handle(r)
    PROVE  /\ UNCHANGED request
           /\ \/ Starts(r) \/ Ends(r) \/ Moves(r) \/ Finds(r) \/ Sends(r) \/ TriesOn(r) \/ Repeats(r)
<1>1. CASE List(r) \/ ListFails(r)
    BY <1>1 DEF List, ListFails, Say, Starts, Ends
<1>2. CASE Unreadable(r) \/ Skip(r) \/ Nameless(r)
    BY <1>2 DEF Unreadable, Skip, Nameless, Matches, AtFile, Moves
<1>3. CASE Match(r)
    BY <1>3 DEF Match, Finds
<1>4. CASE ReadAccount(r) \/ ReadFails(r)
    BY <1>4 DEF ReadAccount, ReadFails, Moves
<1>5. CASE CreditsRead(r) \/ CreditsRetried(r)
    BY <1>5 DEF CreditsRead, CreditsRetried, Sends, TriesOn
<1>6. CASE Refused(r) \/ Consume(r) \/ ConsumeFails(r)
    BY <1>6 DEF Refused, Consume, ConsumeFails, Moves
<1>7. CASE NextPrefix(r)
    BY <1>7 DEF NextPrefix, Walked, Repeats
<1>8. CASE AnswerQuota(r) \/ AnswerReset(r)
    BY <1>8 DEF AnswerQuota, AnswerReset, Say, Ends
<1> QED
    BY <1>1, <1>2, <1>3, <1>4, <1>5, <1>6, <1>7, <1>8 DEF Handle, Inspects, Reads, Resets, Answers

LEMMA WalkTypesStep ==
    ASSUME WalkOK, NEW r \in Requests, Handle(r)
    PROVE  WalkTypes'
<1> USE DEF WalkOK, WalkTypes, Go
<1>1. kind' = kind /\ nominal' = nominal
    BY WalkMoves DEF request
<1>2. CASE Starts(r)
    BY <1>1, <1>2 DEF Starts
<1>3. CASE Ends(r)
    BY <1>1, <1>3 DEF Ends
<1>4. CASE Moves(r)
    BY <1>1, <1>4, RetriesIsNat DEF Moves, Advance
<1>5. CASE Finds(r)
    BY <1>1, <1>5 DEF Finds
<1>6. CASE Sends(r)
    BY <1>1, <1>6 DEF Sends
<1>7. CASE TriesOn(r)
  <2>1. tries' \in [Requests -> 0 .. Retries]
      BY <1>7, RetriesIsNat DEF TriesOn
  <2> QED
      BY <1>1, <1>7, <2>1 DEF TriesOn
<1>8. CASE Repeats(r)
  <2>1. PICK i \in Later(r) : at' = [at EXCEPT ![r] = i]
      BY <1>8 DEF Repeats
  <2>2. i \in Nat \ {0}
      BY ChainIsSeq DEF Later, Candidates
  <2> QED
      BY <1>1, <1>8, <2>1, <2>2 DEF Repeats
<1> QED
    BY WalkMoves, <1>2, <1>3, <1>4, <1>5, <1>6, <1>7, <1>8

LEMMA WalkStays ==
    ASSUME WorldOK, WalkOK, Grows, NEW s \in Requests,
           UNCHANGED <<kind[s], nominal[s], pc[s], listed[s], at[s], pos[s]>>
    PROVE  WalksWell(s)'
<1>1. WalksWell(s)
    BY DEF WalkOK
<1>2. Here(s)' = Here(s) /\ Wanted(s)' = Wanted(s)
    BY DEF Here, Wanted, Chain
<1>3. listed[s] \subseteq Creds
    BY DEF WalkOK, WalkTypes
<1>4. AtWork(s) => AtWork(s)'
    BY <1>2, <1>3 DEF AtWork, Grows
<1> QED
    BY <1>1, <1>4 DEF WalksWell, Candidates, Chain

LEMMA WalkStep ==
    ASSUME WorldOK, WalkOK, Grows, NEW r \in Requests, Handle(r)
    PROVE  WalkOK'
<1>1. WalkTypes'
    BY WalkTypesStep
<1>2. UNCHANGED <<kind, nominal>>
    BY WalkMoves DEF request
<1>3. ASSUME NEW s \in Requests \ {r} PROVE WalksWell(s)'
  <2>1. UNCHANGED <<pc[s], listed[s], at[s], pos[s]>>
      BY WalkMoves, <1>3 DEF Starts, Ends, Moves, Finds, Sends, TriesOn, Repeats, Advance, Go,
                             WalkOK, WalkTypes
  <2> QED
      BY <1>2, <2>1, WalkStays
<1>4. WalksWell(r)'
  <2> USE DEF WalkOK, WalkTypes, Go
  <2>0. WalksWell(r) /\ 1 \in Candidates(nominal[r])
      BY ChainIsSeq
  <2>1. CASE Starts(r)
      BY <1>2, <2>0, <2>1 DEF Starts, WalksWell, Candidates, Chain
  <2>2. CASE Ends(r)
      BY <1>2, <2>0, <2>2 DEF Ends, WalksWell, Candidates, Chain
  <2>3. CASE Moves(r)
      BY <1>2, <2>0, <2>3 DEF Moves, Advance, WalksWell, Candidates, Chain
  <2>4. CASE Finds(r)
    <3>1. AtWork(r)
      <4>1. pos[r] <= Len(Files) /\ Here(r) \in listed[r] /\ prefix[Here(r)] = Wanted(r)
          BY <2>4 DEF Finds, Matches, AtFile
      <4>2. Here(r) \in Creds
          BY <4>1
      <4>3. email[Here(r)] \in Emails /\ prefix[Here(r)] \in carried[Here(r)]
          BY <2>4, <4>2 DEF Finds, WorldOK
      <4> QED
          BY <4>1, <4>3 DEF AtWork
    <3>2. AtWork(r)' /\ Candidates(nominal[r])' = Candidates(nominal[r])
      <4>1. Here(r)' = Here(r) /\ Wanted(r)' = Wanted(r) /\ Here(r) \in Creds
          BY <1>2, <2>4, <3>1 DEF Finds, Here, Wanted, Chain, AtWork
      <4> QED
          BY <1>2, <2>4, <3>1, <4>1 DEF Finds, AtWork, Grows, Candidates, Chain
    <3>3. pc'[r] = IF kind[r] = "quota" THEN "read" ELSE "credits"
        BY <2>4 DEF Finds
    <3> QED
        BY <1>2, <2>0, <2>4, <3>2, <3>3 DEF Finds, WalksWell
  <2>5. CASE Sends(r)
    <3>1. AtWork(r) /\ kind[r] = "reset" /\ pc'[r] = "consume"
        BY <2>0, <2>5 DEF Sends, WalksWell
    <3>2. Here(r)' = Here(r) /\ Wanted(r)' = Wanted(r) /\ Here(r) \in Creds
        BY <1>2, <2>5, <3>1 DEF Sends, Here, Wanted, Chain, AtWork
    <3>3. AtWork(r)'
        BY <2>5, <3>1, <3>2 DEF Sends, AtWork, Grows
    <3> QED
        BY <1>2, <2>0, <2>5, <3>1, <3>3 DEF Sends, WalksWell, Candidates, Chain
  <2>6. CASE TriesOn(r)
      BY <1>2, <2>6, WalkStays DEF TriesOn
  <2>7. CASE Repeats(r)
    <3>1. PICK i \in Later(r) : at' = [at EXCEPT ![r] = i]
        BY <2>7 DEF Repeats
    <3> QED
        BY <1>2, <2>0, <2>7, <3>1 DEF Repeats, WalksWell, Later, Candidates, Chain
  <2> QED
      BY WalkMoves, <2>1, <2>2, <2>3, <2>4, <2>5, <2>6, <2>7
<1> QED
    BY <1>1, <1>3, <1>4 DEF WalkOK

LEMMA FoundStep ==
    ASSUME WalkOK, FoundOK, WorldOK, NEW r \in Requests, Handle(r)
    PROVE  FoundOK'
<1>1. UNCHANGED <<kind, nominal>>
    BY WalkMoves DEF request
<1>2. \A s \in Requests : DOMAIN Chain(nominal[s])' = DOMAIN Chain(nominal[s])
    BY <1>1 DEF Chain
<1>3. CASE UNCHANGED found
    BY <1>2, <1>3 DEF FoundOK, found
<1>4. CASE Note(r) /\ UNCHANGED accounts
    BY <1>2, <1>4 DEF FoundOK, Note, WalkOK, WalkTypes
<1>5. CASE ReadAccount(r)
  <2>1. at[r] \in DOMAIN Chain(nominal[r]) /\ email[Here(r)] \in Emails /\ Here(r) \in Creds
    <3>1. WalksWell(r) /\ listed[r] \subseteq Creds /\ pc[r] = "read"
        BY <1>5 DEF WalkOK, WalkTypes, ReadAccount
    <3> QED
        BY <3>1 DEF WalksWell, AtWork, Candidates
  <2>2. errors' \in [Requests -> SUBSET Nat]
      BY <1>5 DEF ReadAccount, Note, FoundOK, WalkOK, WalkTypes
  <2>3. PICK q \in had[Here(r)] : accounts' = [accounts EXCEPT ![r][at[r]][email[Here(r)]] = q]
      BY <1>5 DEF ReadAccount
  <2>4. q \in Quotas
      BY <2>1, <2>3 DEF WorldOK
  <2> DEFINE i == at[r]
             e == email[Here(r)]
  <2>5. accounts' = [accounts EXCEPT ![r][i][e] = q] /\ i \in DOMAIN Chain(nominal[r]) /\ e \in Emails
      BY <2>1, <2>3
  <2> HIDE DEF i, e
  <2>6. DOMAIN accounts' = Requests
      BY <2>5 DEF FoundOK
  <2>7. ASSUME NEW s \in Requests
        PROVE  accounts'[s] \in [DOMAIN Chain(nominal[s]) -> [Emails -> Quotas \union {NoAccount}]]
      BY <2>4, <2>5 DEF FoundOK
  <2> QED
      BY <1>2, <2>2, <2>6, <2>7 DEF FoundOK
<1>6. CASE List(r) \/ ListFails(r)
    BY <1>3, <1>6 DEF List, ListFails
<1>7. CASE Inspects(r)
    BY <1>3, <1>4, <1>7 DEF Inspects, Unreadable, Skip, Nameless, Match, Fault, found
<1>8. CASE ReadFails(r)
    BY <1>4, <1>8 DEF ReadFails
<1>9. CASE Resets(r)
    BY <1>3, <1>9 DEF Resets, CreditsRead, CreditsRetried, Refused, Consume, ConsumeFails
<1>10. CASE Answers(r)
    BY <1>3, <1>10 DEF Answers, NextPrefix, AnswerQuota, AnswerReset
<1> QED
    BY <1>5, <1>6, <1>7, <1>8, <1>9, <1>10 DEF Handle, Reads

LEMMA CountTypes ==
    ASSUME tally \in [Requests -> [Counters -> Nat]], NEW r \in Requests, NEW S, Count(r, S)
    PROVE  tally' \in [Requests -> [Counters -> Nat]]
BY DEF Count

LEMMA ReportTypes ==
    ASSUME WorldOK, WalkOK, ResetOK, NEW r \in Requests, NEW ok \in BOOLEAN, Report(r, ok),
           pc[r] \in {"credits", "consume"}
    PROVE  /\ tally' \in [Requests -> [Counters -> Nat]]
           /\ resets' \in [Requests -> SUBSET [account : Emails, tag : Nat, success : BOOLEAN]]
<1>1. email[Here(r)] \in Emails
    BY DEF WalkOK, WalksWell, AtWork
<1>2. tally' \in [Requests -> [Counters -> Nat]]
    BY CountTypes DEF Report, ResetOK
<1>3. tally[r]["matched"] \in Nat
    BY DEF ResetOK, Counters
<1>4. PICK tag \in Nat : resets' = [resets EXCEPT ![r] = @ \union
                               {[account |-> email[Here(r)], tag |-> tag, success |-> ok]}]
    BY <1>3 DEF Report
<1>5. [account |-> email[Here(r)], tag |-> tag, success |-> ok]
        \in [account : Emails, tag : Nat, success : BOOLEAN]
    BY <1>1
<1> QED
    BY <1>2, <1>4, <1>5 DEF ResetOK

LEMMA ResetStep ==
    ASSUME WorldOK, WalkOK, ResetOK, NEW r \in Requests, Handle(r)
    PROVE  ResetOK'
<1>1. CASE UNCHANGED reset
    BY <1>1 DEF reset, ResetOK
<1>2. CASE List(r) \/ ListFails(r) \/ Reads(r) \/ Answers(r)
    BY <1>1, <1>2 DEF List, ListFails, Reads, ReadAccount, ReadFails,
                      Answers, NextPrefix, AnswerQuota, AnswerReset
<1>3. CASE Inspects(r)
  <2>1. UNCHANGED <<resets, posted, confirmed>>
      BY <1>3 DEF Inspects, Unreadable, Skip, Nameless, Match, Fault, reset
  <2>2. UNCHANGED tally \/ \E S \in SUBSET Counters : Count(r, S)
      BY <1>3 DEF Inspects, Unreadable, Skip, Nameless, Match, Fault, reset, Counters
  <2> QED
      BY <2>1, <2>2, CountTypes DEF ResetOK
<1>4. CASE CreditsRead(r) \/ CreditsRetried(r)
    BY <1>1, <1>4 DEF CreditsRead, CreditsRetried
<1>5. CASE Refused(r)
    BY <1>5, ReportTypes DEF Refused, ResetOK
<1>6. ASSUME Posts(r) PROVE posted' \in [Requests -> [Creds -> Nat]]
  <2> DEFINE h == Here(r)
  <2>1. posted' = [posted EXCEPT ![r][h] = @ + 1]
      BY <1>6 DEF Posts
  <2> HIDE DEF h
  <2>2. posted \in [Requests -> [Creds -> Nat]]
      BY DEF ResetOK
  <2>3. \A c \in Creds : posted[r][c] + 1 \in Nat
      BY <2>2
  <2>4. [posted[r] EXCEPT ![h] = @ + 1] \in [Creds -> Nat]
      BY <2>2, <2>3
  <2> QED
      BY <2>1, <2>2, <2>4
<1>7. CASE Consume(r)
  <2>1. PICK ok \in BOOLEAN :
        /\ Report(r, ok)
        /\ confirmed' = [confirmed EXCEPT ![r] = IF ok THEN @ \union {Here(r)} ELSE @]
      BY <1>7 DEF Consume
  <2>2. pc[r] = "consume" /\ Posts(r) /\ Here(r) \in Creds
      BY <1>7 DEF Consume, WalkOK, WalkTypes, WalksWell, AtWork
  <2>3. confirmed' \in [Requests -> SUBSET Creds]
      BY <2>1, <2>2 DEF ResetOK
  <2> QED
      BY <1>6, <2>1, <2>2, <2>3, ReportTypes DEF ResetOK
<1>8. CASE ConsumeFails(r)
    BY <1>6, <1>8, ReportTypes DEF ConsumeFails, ResetOK
<1> QED
    BY <1>2, <1>3, <1>4, <1>5, <1>7, <1>8 DEF Handle, Resets

LEMMA AnswerStep ==
    ASSUME WalkOK, FoundOK, AnswerOK, NEW r \in Requests, Handle(r)
    PROVE  AnswerOK'
<1>1. ASSUME NEW a \in AnswerType, Say(r, a) PROVE answer' \in [Requests -> AnswerType]
    BY <1>1 DEF Say, AnswerOK
<1>2. CASE UNCHANGED <<answer, unread>>
    BY <1>2 DEF AnswerOK
<1>3. CASE List(r) \/ Resets(r) \/ NextPrefix(r) \/ ReadAccount(r) \/ Skip(r) \/ Nameless(r) \/ Match(r)
    BY <1>2, <1>3 DEF List, Resets, CreditsRead, CreditsRetried, Refused, Consume, ConsumeFails,
                      NextPrefix, ReadAccount, Skip, Nameless, Match
<1>4. CASE ListFails(r)
  <2>1. Empty("failed") \in AnswerType
      BY DEF Empty, AnswerType
  <2> QED
      BY <1>1, <1>4, <2>1 DEF ListFails, AnswerOK
<1>5. CASE Unreadable(r) \/ ReadFails(r)
  <2>1. Here(r) \in Creds
      BY <1>5 DEF Unreadable, ReadFails, WalkOK, WalkTypes, WalksWell, AtWork
  <2> QED
      BY <1>5, <2>1 DEF Unreadable, ReadFails, AnswerOK
<1>6. CASE AnswerQuota(r)
  <2>1. PICK i \in Nat \ {0} : Say(r, QuotaAnswer(r, i)) /\ UNCHANGED unread
      BY <1>6 DEF AnswerQuota, WalkOK, WalkTypes
  <2>2. QuotaAnswer(r, i) \in AnswerType
      BY DEF QuotaAnswer, AnswerType
  <2> QED
      BY <1>1, <2>1, <2>2 DEF AnswerOK
<1>7. CASE AnswerReset(r)
  <2>1. ResetAnswer(r) \in AnswerType
      BY DEF ResetAnswer, AnswerType
  <2> QED
      BY <1>1, <1>7, <2>1 DEF AnswerReset, AnswerOK
<1> QED
    BY <1>3, <1>4, <1>5, <1>6, <1>7 DEF Handle, Inspects, Reads, Answers

LEMMA TypesStart == Init => TypeInv
<1> SUFFICES ASSUME Init PROVE TypeInv
    OBVIOUS
<1>1. WorldOK
    BY WorldsAreTyped DEF Init, WorldOK
<1>2. WalkOK
  <2>1. WalkTypes
      BY RetriesIsNat DEF Init, WalkTypes
  <2>2. \A r \in Requests : nominal[r] \in PrefixNames /\ pc[r] = "list" /\ at[r] = 1 /\ pos[r] = 1
      BY DEF Init
  <2> QED
      BY <2>1, <2>2, ChainIsSeq DEF WalkOK, WalksWell
<1>3. FoundOK
    BY DEF Init, FoundOK, NoAccounts
<1>4. ResetOK /\ AnswerOK
    BY DEF Init, ResetOK, AnswerOK, NoTally, Empty, AnswerType
<1> QED
    BY <1>1, <1>2, <1>3, <1>4 DEF TypeInv

LEMMA TypesStep == TypeInv /\ [Next]_vars => TypeInv'
<1> SUFFICES ASSUME TypeInv, [Next]_vars PROVE TypeInv'
    OBVIOUS
<1> USE DEF TypeInv
<1>1. WorldOK' /\ Grows
    BY WorldSteps
<1>2. ASSUME NEW r \in Requests, Handle(r) PROVE TypeInv'
    BY <1>1, <1>2, WalkStep, FoundStep, ResetStep, AnswerStep
<1>3. CASE Change \/ UNCHANGED vars
  <2>1. UNCHANGED <<request, walk, found, reset, answer, unread>>
      BY <1>3 DEF Change, vars
  <2>2. WalkOK'
      BY <1>1, <2>1, WalkStays DEF WalkOK, WalkTypes, request, walk
  <2>3. FoundOK' /\ ResetOK' /\ AnswerOK'
      BY <2>1 DEF FoundOK, ResetOK, AnswerOK, Chain, request, found, reset
  <2> QED
      BY <1>1, <2>2, <2>3
<1> QED
    BY <1>2, <1>3 DEF Next

\* The types, and where a request is while it works on a credential.
THEOREM ResourceTypes == Spec => []TypeInv
BY TypesStart, TypesStep, PTL DEF Spec

\* The variables keep their types, whatever the requests and the world do.
THEOREM ResourceTypesOK == Spec => []TypeOK
<1>1. TypeInv => TypeOK
    BY DEF TypeInv, WorldOK, WalkOK, WalkTypes, FoundOK, ResetOK, AnswerOK, TypeOK
<1> QED
    BY <1>1, ResourceTypes, PTL

-----------------------------------------------------------------------------
(* What the answers rest on, request by request *)

State(r) == <<kind[r], nominal[r], pc[r], listed[r], at[r], pos[r], accounts[r], errors[r],
              tally[r], answer[r], unread[r], posted[r], confirmed[r]>>

\* A request has posted for no file that is still to come.
Posted(r) ==
    /\ \A c \in Creds : posted[r][c] <= 1
    /\ \A c \in Creds : posted[r][c] = 1 => kind[r] = "reset" /\ nominal[r] \in carried[c]
    /\ \A j \in 1 .. Len(Files) : j >= pos[r] => posted[r][Files[j]] = 0

Dealt(r, c) == c \in confirmed[r] \/ tally[r]["failed"] > 0 \/ tally[r]["unresolved"] > 0

\* Of the files behind it those with the nominal prefix are reset, or counted.
Complete(r) ==
    /\ kind[r] = "reset" =>
        \A j \in 1 .. Len(Files) :
            j < pos[r] /\ Files[j] \in listed[r] /\ carried[Files[j]] = {nominal[r]} =>
                Dealt(r, Files[j])
    /\ pc[r] = "answered" /\ answer[r].success =>
        \A c \in listed[r] : carried[c] = {nominal[r]} => c \in confirmed[r]

HasAccount(r, c) == email[c] # NoEmail /\ accounts[r][1][email[c]] # NoAccount

Shown(r, c) == 1 \in errors[r] \/ HasAccount(r, c)

\* Of the files behind it those with the nominal prefix have an account, or there is an error.
Told(r) ==
    /\ kind[r] = "quota" =>
        \A j \in 1 .. Len(Files) :
            /\ j < pos[r] \/ at[r] # 1
            /\ Files[j] \in listed[r] /\ carried[Files[j]] = {nominal[r]}
            => Shown(r, Files[j])
    /\ Answered(r, "quota") /\ ~answer[r].partial =>
        \A c \in listed[r] : carried[c] = {nominal[r]} => HasAccount(r, c)

HadLeft(r, i) == \E c \in listed[r] : "left" \in had[c] /\ Chain(nominal[r])[i] \in carried[c]

\* An account with quota left belongs to a credential that had some, and the prefix.
Had(r) ==
    /\ \A i \in DOMAIN Chain(nominal[r]) : \A e \in Emails :
        accounts[r][i][e] = "left" => pc[r] # "list" /\ HadLeft(r, i)
    /\ Answered(r, "quota") /\ answer[r].actual # 1 => HadLeft(r, answer[r].actual)

Lasts(r, c, i) ==
    /\ AloneByEmail(r, c) /\ had[c] = {"left"} /\ carried[c] = {Chain(nominal[r])[i]}

\* A request does not walk past a candidate with a lasting account.
Available(r) ==
    \A c \in listed[r] \ unread[r] : \A i \in Candidates(nominal[r]) :
        Lasts(r, c, i) =>
            /\ at[r] <= i
            /\ at[r] = i => \A j \in 1 .. Len(Files) :
                   j < pos[r] /\ Files[j] = c => accounts[r][i][email[c]] = "left"
            /\ Answered(r, "quota") => answer[r].actual <= i

Parts(r) == Posted(r) /\ Complete(r) /\ Told(r) /\ Had(r) /\ (kind[r] = "quota" => Available(r))

ResourceInv == TypeInv /\ \A r \in Requests : Parts(r)

LEMMA OthersStay ==
    ASSUME TypeInv, NEW r \in Requests, Handle(r), NEW s \in Requests \ {r}
    PROVE  UNCHANGED State(s)
<1> USE DEF State, Go, Say, world, request, walk, found, reset
<1>0. /\ DOMAIN pc = Requests /\ DOMAIN listed = Requests /\ DOMAIN at = Requests /\ DOMAIN pos = Requests
      /\ DOMAIN accounts = Requests /\ DOMAIN errors = Requests /\ DOMAIN tally = Requests
      /\ DOMAIN answer = Requests /\ DOMAIN unread = Requests /\ DOMAIN posted = Requests
      /\ DOMAIN confirmed = Requests
    BY DEF TypeInv, WalkOK, WalkTypes, FoundOK, ResetOK, AnswerOK
<1>1. CASE List(r) \/ ListFails(r)
    BY <1>0, <1>1 DEF List, ListFails
<1>2. CASE Unreadable(r) \/ Skip(r) \/ Nameless(r)
    BY <1>0, <1>2 DEF Unreadable, Skip, Nameless, Fault, Note, Count, Advance
<1>3. CASE Match(r)
    BY <1>0, <1>3 DEF Match, Count
<1>4. CASE ReadAccount(r) \/ ReadFails(r)
    BY <1>0, <1>4 DEF ReadAccount, ReadFails, Note, Advance
<1>5. CASE CreditsRead(r) \/ CreditsRetried(r) \/ Refused(r)
    BY <1>0, <1>5 DEF CreditsRead, CreditsRetried, Refused, Report, Count, Advance
<1>6. CASE Consume(r) \/ ConsumeFails(r)
    BY <1>0, <1>6 DEF Consume, ConsumeFails, Posts, Report, Count, Advance
<1>7. CASE NextPrefix(r) \/ AnswerQuota(r) \/ AnswerReset(r)
    BY <1>0, <1>7 DEF NextPrefix, AnswerQuota, AnswerReset
<1> QED
    BY <1>1, <1>2, <1>3, <1>4, <1>5, <1>6, <1>7 DEF Handle, Inspects, Reads, Resets, Answers

LEMMA PartsStay ==
    ASSUME TypeInv, Grows, NEW r \in Requests, UNCHANGED State(r), Parts(r)
    PROVE  Parts(r)'
<1> USE DEF State
<1>1. /\ email' = email /\ listed[r] \subseteq Creds /\ \A j \in 1 .. Len(Files) : Files[j] \in Creds
      /\ Chain(nominal[r])' = Chain(nominal[r]) /\ Candidates(nominal[r])' = Candidates(nominal[r])
    BY FilesCount DEF Grows, TypeInv, WalkOK, WalkTypes, Chain, Candidates
<1>2. \A c \in Creds : had[c] \subseteq had'[c] /\ carried[c] \subseteq carried'[c]
    BY DEF Grows
<1>3. \A c \in Creds : \A p : carried'[c] = {p} => carried[c] = {p}
    BY <1>2 DEF TypeInv, WorldOK
<1>4. \A c \in Creds : had'[c] = {"left"} => had[c] = {"left"}
    BY <1>2 DEF TypeInv, WorldOK
<1>5. Posted(r)'
    BY <1>1, <1>2 DEF Parts, Posted
<1>6. Complete(r)'
    BY <1>1, <1>3 DEF Parts, Complete, Dealt
<1>0. /\ kind'[r] = kind[r] /\ nominal'[r] = nominal[r] /\ pc'[r] = pc[r] /\ listed'[r] = listed[r]
      /\ at'[r] = at[r] /\ pos'[r] = pos[r] /\ accounts'[r] = accounts[r] /\ errors'[r] = errors[r]
      /\ answer'[r] = answer[r] /\ unread'[r] = unread[r]
    OBVIOUS
<1>7. Told(r)'
  <2>1. \A c \in Creds : HasAccount(r, c)' = HasAccount(r, c)
      BY <1>0, <1>1 DEF HasAccount
  <2>2. Answered(r, "quota")' = Answered(r, "quota")
      BY <1>0 DEF Answered
  <2> HIDE DEF State
  <2> QED
      BY <1>0, <1>1, <1>3, <2>1, <2>2 DEF Parts, Told, Shown
<1>8. Had(r)'
    BY <1>1, <1>2 DEF Parts, Had, HadLeft, Answered
<1>9. kind[r] = "quota" => Available(r)'
  <2> HIDE DEF State
  <2>1. ASSUME NEW c \in listed[r], NEW i \in Candidates(nominal[r]), Lasts(r, c, i)'
        PROVE  Lasts(r, c, i)
    <3>1. c \in Creds /\ AloneByEmail(r, c)' /\ had'[c] = {"left"} /\ carried'[c] = {Chain(nominal[r])[i]}
        BY <1>1, <2>1 DEF Lasts
    <3>2. AloneByEmail(r, c)
        BY <1>0, <1>1, <1>2, <3>1 DEF AloneByEmail
    <3> QED
        BY <1>3, <1>4, <3>1, <3>2 DEF Lasts
  <2>2. Answered(r, "quota")' = Answered(r, "quota")
      BY <1>0 DEF Answered
  <2>3. SUFFICES ASSUME kind[r] = "quota", NEW c \in listed[r] \ unread[r],
                        NEW i \in Candidates(nominal[r]), Lasts(r, c, i)
                 PROVE  /\ at[r] <= i
                        /\ at[r] = i => \A j \in 1 .. Len(Files) :
                               j < pos[r] /\ Files[j] = c => accounts[r][i][email[c]] = "left"
                        /\ Answered(r, "quota") => answer[r].actual <= i
      BY <1>0, <1>1, <2>1, <2>2 DEF Available
  <2> QED
      BY <2>3 DEF Parts, Available
<1> QED
    BY <1>5, <1>6, <1>7, <1>8, <1>9, <1>0 DEF Parts

-----------------------------------------------------------------------------
(* What a step makes of them *)

LEMMA WorkFacts ==
    ASSUME TypeInv, NEW r \in Requests, pc[r] \in {"read", "credits", "consume"}
    PROVE  /\ pos[r] \in 1 .. Len(Files) /\ Here(r) = Files[pos[r]]
           /\ Here(r) \in listed[r] /\ Here(r) \in Creds
           /\ Wanted(r) \in carried[Here(r)] /\ email[Here(r)] \in Emails
           /\ pc[r] = "read" => kind[r] = "quota"
           /\ pc[r] \in {"credits", "consume"} =>
                  kind[r] = "reset" /\ at[r] = 1 /\ nominal[r] \in carried[Here(r)]
<1>1. WalksWell(r) /\ listed[r] \subseteq Creds /\ pos[r] \in Nat \ {0} /\ nominal[r] \in PrefixNames
    BY DEF TypeInv, WalkOK, WalkTypes
<1>2. Chain(nominal[r])[1] = nominal[r] /\ Len(Files) \in Nat
    BY <1>1, ChainIsSeq, FilesCount
<1> QED
    BY <1>1, <1>2 DEF WalksWell, AtWork, Here, Wanted

\* Only a request that posts disturbs Posted, or one that starts over.
LEMMA PostedKept ==
    ASSUME TypeInv, TypeInv', Grows, NEW r \in Requests, Posted(r),
           UNCHANGED <<posted, kind, nominal>>, pos'[r] >= pos[r] \/ kind[r] = "quota"
    PROVE  Posted(r)'
<1>1. /\ pos[r] \in Nat /\ pos'[r] \in Nat /\ posted[r] \in [Creds -> Nat]
      /\ \A c \in Creds : carried[c] \subseteq carried'[c]
      /\ Len(Files) \in Nat /\ \A j \in 1 .. Len(Files) : Files[j] \in Creds
    BY FilesCount DEF TypeInv, WalkOK, WalkTypes, ResetOK, Grows
<1>2. CASE kind[r] = "quota"
  <2>1. \A c \in Creds : posted[r][c] = 0
      BY <1>1, <1>2 DEF Posted
  <2> QED
      BY <1>1, <2>1 DEF Posted
<1>3. CASE pos'[r] >= pos[r]
    BY <1>1, <1>3 DEF Posted
<1> QED
    BY <1>2, <1>3

LEMMA PostedStep ==
    ASSUME TypeInv, TypeInv', Grows, NEW r \in Requests, Handle(r), Posted(r)
    PROVE  Posted(r)'
<1>1. UNCHANGED <<kind, nominal>>
    BY WalkMoves DEF request
<1>2. /\ pos[r] \in Nat /\ DOMAIN pos = Requests
      /\ posted \in [Requests -> [Creds -> Nat]]
      /\ \A c \in Creds : carried[c] \subseteq carried'[c]
    BY DEF TypeInv, WalkOK, WalkTypes, ResetOK, Grows
<1>3. CASE UNCHANGED <<posted, pos>>
    BY <1>1, <1>2, <1>3, PostedKept
<1>4. CASE posted' = posted /\ Advance(r)
    BY <1>1, <1>2, <1>4, PostedKept DEF Advance
<1>5. CASE NextPrefix(r)
    BY <1>1, <1>5, PostedKept DEF NextPrefix, reset
<1>6. CASE pc[r] = "consume" /\ Posts(r) /\ Advance(r)
  <2> DEFINE h == Here(r)
  <2>1. /\ kind[r] = "reset" /\ nominal[r] \in carried'[h] /\ h \in Creds /\ h = Files[pos[r]]
        /\ pos[r] \in 1 .. Len(Files)
      BY <1>2, <1>6, WorkFacts
  <2>2. posted'[r] = [posted[r] EXCEPT ![h] = @ + 1] /\ pos'[r] = pos[r] + 1
      BY <1>2, <1>6 DEF Posts, Advance
  <2> HIDE DEF h
  <2>3. posted[r][h] = 0
      BY <1>2, <2>1 DEF Posted
  <2>4. posted'[r][h] = 1 /\ \A c \in Creds \ {h} : posted'[r][c] = posted[r][c]
      BY <1>2, <2>1, <2>2, <2>3
  <2>5. \A j \in 1 .. Len(Files) : j >= pos'[r] => Files[j] \in Creds \ {h} /\ j >= pos[r]
      BY <1>2, <2>1, <2>2, FilesCount
  <2>6. kind'[r] = kind[r] /\ nominal'[r] = nominal[r]
      BY <1>1
  <2>7. ASSUME NEW c \in Creds
        PROVE  posted'[r][c] <= 1 /\ (posted'[r][c] = 1 => kind'[r] = "reset" /\ nominal'[r] \in carried'[c])
      BY <1>2, <2>1, <2>4, <2>6, <2>7 DEF Posted
  <2>8. \A j \in 1 .. Len(Files) : j >= pos'[r] => posted'[r][Files[j]] = 0
      BY <2>4, <2>5 DEF Posted
  <2> QED
      BY <2>7, <2>8 DEF Posted
<1>7. CASE List(r) \/ ListFails(r) \/ Answers(r)
    BY <1>3, <1>5, <1>7 DEF List, ListFails, Answers, AnswerQuota, AnswerReset, reset
<1>8. CASE Inspects(r)
    BY <1>3, <1>4, <1>8 DEF Inspects, Unreadable, Skip, Nameless, Match, Fault, reset
<1>9. CASE Reads(r)
    BY <1>4, <1>9 DEF Reads, ReadAccount, ReadFails, reset
<1>10. CASE Resets(r)
    BY <1>3, <1>4, <1>6, <1>10 DEF Resets, CreditsRead, CreditsRetried, Refused, Consume, ConsumeFails, reset
<1> QED
    BY <1>7, <1>8, <1>9, <1>10 DEF Handle

LEMMA CountAdds ==
    ASSUME TypeInv, NEW r \in Requests, NEW S, Count(r, S)
    PROVE  \A x \in Counters : /\ tally'[r][x] >= tally[r][x]
                               /\ x \in S => tally'[r][x] > 0
<1>1. tally[r] \in [Counters -> Nat] /\ DOMAIN tally = Requests
    BY DEF TypeInv, ResetOK
<1>2. tally'[r] = [x \in Counters |-> IF x \in S THEN tally[r][x] + 1 ELSE tally[r][x]]
    BY <1>1 DEF Count
<1> QED
    BY <1>1, <1>2

\* A step leaves what is dealt with, and a step to the next file deals with the one it leaves.
LEMMA ResetMoves ==
    ASSUME TypeInv, TypeInv', NEW r \in Requests, Handle(r), kind[r] = "reset"
    PROVE  /\ \A c \in Creds : Dealt(r, c) => Dealt(r, c)'
           /\ Advance(r) =>
                  \A c \in listed[r] : c = Here(r) /\ carried[c] = {nominal[r]} => Dealt(r, c)'
<1> USE DEF Counters
<1>1. /\ tally[r] \in [Counters -> Nat] /\ tally'[r] \in [Counters -> Nat]
      /\ DOMAIN confirmed = Requests /\ DOMAIN pos = Requests /\ pos[r] \in Nat
    BY DEF TypeInv, ResetOK, WalkOK, WalkTypes
<1>13. listed[r] \subseteq Creds
    BY DEF TypeInv, WalkOK, WalkTypes
<1>2. at[r] = 1 /\ Wanted(r) = nominal[r]
    BY ChainIsSeq DEF TypeInv, WalkOK, WalkTypes, WalksWell, Wanted
<1>3. CASE UNCHANGED <<tally, confirmed>> /\ ~Advance(r)
    BY <1>3 DEF Dealt
<1>4. ~Advance(r) \/ pos'[r] = pos[r] + 1
    BY <1>1 DEF Advance
<1>5. CASE List(r) \/ ListFails(r) \/ Answers(r) \/ CreditsRead(r) \/ CreditsRetried(r)
  <2>1. UNCHANGED <<tally, confirmed>>
      BY <1>5 DEF List, ListFails, Answers, NextPrefix, AnswerQuota, AnswerReset, CreditsRead, CreditsRetried, reset
  <2>2. pos' = pos \/ (pos'[r] = 1 /\ pos[r] >= 1)
      BY <1>1, <1>5 DEF List, ListFails, Answers, NextPrefix, AnswerQuota, AnswerReset,
                        CreditsRead, CreditsRetried, TypeInv, WalkOK, WalkTypes
  <2> QED
      BY <1>1, <1>3, <1>4, <2>1, <2>2
<1>6. CASE Unreadable(r) \/ Nameless(r)
  <2>1. confirmed' = confirmed
      BY <1>6 DEF Unreadable, Nameless, Fault
  <2>2. Count(r, {"unresolved"}) \/ Count(r, {"matched", "failed"})
      BY <1>6 DEF Unreadable, Nameless, Fault
  <2> QED
      BY <1>1, <2>1, <2>2, CountAdds DEF Dealt
<1>7. CASE Skip(r)
  <2>1. UNCHANGED <<tally, confirmed>>
      BY <1>7 DEF Skip, reset
  <2>2. Here(r) \in listed[r] => Here(r) \in Creds /\ nominal[r] # prefix[Here(r)]
      BY <1>2, <1>7 DEF Skip, TypeInv, WalkOK, WalkTypes
  <2>3. Here(r) \in listed[r] => carried[Here(r)] # {nominal[r]}
      BY <2>2 DEF TypeInv, WorldOK
  <2> QED
      BY <2>1, <2>3 DEF Dealt
<1>8. CASE Match(r)
  <2>1. confirmed' = confirmed /\ pos' = pos /\ Count(r, {"matched"})
      BY <1>8 DEF Match
  <2> QED
      BY <1>1, <1>4, <2>1, CountAdds DEF Dealt
<1>9. CASE Reads(r)
    BY <1>9, WorkFacts DEF Reads, ReadAccount, ReadFails
<1>10. ASSUME Report(r, FALSE), confirmed' = confirmed
       PROVE  \A c \in Creds : Dealt(r, c)'
  <2>1. Count(r, {"failed"})
      BY <1>10 DEF Report
  <2> QED
      BY <1>1, <1>10, <2>1, CountAdds DEF Dealt
<1>11. CASE Refused(r) \/ ConsumeFails(r)
    BY <1>10, <1>11, <1>13 DEF Refused, ConsumeFails
<1>12. CASE Consume(r)
  <2>1. PICK ok \in BOOLEAN :
        /\ Report(r, ok)
        /\ confirmed' = [confirmed EXCEPT ![r] = IF ok THEN @ \union {Here(r)} ELSE @]
      BY <1>12 DEF Consume
  <2>2. Count(r, {IF ok THEN "succeeded" ELSE "failed"})
      BY <2>1 DEF Report
  <2>3. /\ tally'[r]["failed"] >= tally[r]["failed"] /\ tally'[r]["unresolved"] >= tally[r]["unresolved"]
        /\ ~ok => tally'[r]["failed"] > 0
      BY <2>2, CountAdds
  <2>4. confirmed'[r] = IF ok THEN confirmed[r] \union {Here(r)} ELSE confirmed[r]
      BY <1>1, <2>1
  <2> HIDE DEF Here
  <2>5. \A c \in Creds : Dealt(r, c) => Dealt(r, c)'
      BY <1>1, <2>3, <2>4 DEF Dealt
  <2>6. Here(r) \in confirmed'[r] \/ tally'[r]["failed"] > 0
      BY <2>3, <2>4
  <2> QED
      BY <1>13, <2>5, <2>6 DEF Dealt
<1> QED
    BY <1>5, <1>6, <1>7, <1>8, <1>9, <1>11, <1>12 DEF Handle, Inspects, Resets

LEMMA Records ==
    ASSUME TypeInv, Grows, NEW c \in Creds, NEW p
    PROVE  /\ carried'[c] = {p} => carried[c] = {p}
           /\ had'[c] = {p} => had[c] = {p}
           /\ carried[c] # {} /\ had[c] # {}
BY DEF TypeInv, WorldOK, Grows

LEMMA AnswerFields ==
    ASSUME NEW r \in Requests, NEW i
    PROVE  /\ QuotaAnswer(r, i).actual = i /\ ~QuotaAnswer(r, i).success
           /\ QuotaAnswer(r, i).partial <=> (errors[r] \intersect {1, i} # {})
           /\ QuotaAnswer(r, i).status # "failed"
           /\ Empty("failed").status = "failed" /\ ~Empty("failed").success
           /\ ResetAnswer(r).success => ~(tally[r]["failed"] > 0 \/ tally[r]["unresolved"] > 0)
BY DEF QuotaAnswer, Empty, ResetAnswer

\* Only the three answering actions leave a request answered.
LEMMA AnswerMoves ==
    ASSUME TypeInv, NEW r \in Requests, Handle(r)
    PROVE  \/ pc'[r] # "answered"
           \/ ListFails(r) /\ pc'[r] = "answered" /\ answer'[r] = Empty("failed")
           \/ AnswerQuota(r) /\ pc'[r] = "answered"
                /\ answer'[r] = QuotaAnswer(r, IF HasRemaining(r) THEN at[r] ELSE 1)
           \/ AnswerReset(r) /\ pc'[r] = "answered" /\ answer'[r] = ResetAnswer(r)
<1>1. DOMAIN pc = Requests /\ DOMAIN answer = Requests
    BY DEF TypeInv, WalkOK, WalkTypes, AnswerOK
<1>2. CASE List(r) \/ Inspects(r) \/ Reads(r)
    BY <1>1, <1>2 DEF List, Inspects, Unreadable, Skip, Nameless, Match, Reads, ReadAccount, ReadFails,
                      Advance, Go
<1>3. CASE Resets(r) \/ NextPrefix(r)
    BY <1>1, <1>3 DEF Resets, CreditsRead, CreditsRetried, Refused, Consume, ConsumeFails, NextPrefix,
                      Walked, Advance, Go
<1>4. CASE ListFails(r) \/ AnswerQuota(r) \/ AnswerReset(r)
    BY <1>1, <1>4 DEF ListFails, AnswerQuota, AnswerReset, Say, Go
<1> QED
    BY <1>2, <1>3, <1>4 DEF Handle, Answers

\* Where the walk of a reset is after a step.
LEMMA ResetWalks ==
    ASSUME TypeInv, NEW r \in Requests, Handle(r), kind[r] = "reset"
    PROVE  \/ listed'[r] = listed[r] /\ pos'[r] = pos[r]
           \/ listed'[r] = listed[r] /\ pos'[r] = pos[r] + 1 /\ Advance(r)
           \/ pos'[r] = 1
<1>1. DOMAIN pos = Requests /\ WalksWell(r)
    BY DEF TypeInv, WalkOK, WalkTypes
<1> QED
    BY <1>1, WalkMoves DEF Starts, Ends, Moves, Finds, Sends, TriesOn, Repeats, Advance, WalksWell

LEMMA CompleteStep ==
    ASSUME TypeInv, TypeInv', Grows, NEW r \in Requests, Handle(r), Complete(r)
    PROVE  Complete(r)'
<1>1. kind' = kind /\ nominal' = nominal
    BY WalkMoves DEF request
<1>2. /\ listed[r] \subseteq Creds /\ listed'[r] \subseteq Creds
      /\ pos[r] \in Nat \ {0} /\ pos'[r] \in Nat \ {0}
    BY DEF TypeInv, WalkOK, WalkTypes
<1>3. ASSUME kind[r] = "reset", NEW j \in 1 .. Len(Files), j < pos'[r],
             Files[j] \in listed'[r], carried'[Files[j]] = {nominal[r]}
      PROVE  Dealt(r, Files[j])'
  <2>0. Files[j] \in Creds /\ j \in Nat /\ j >= 1
      BY FilesCount
  <2>1. Files[j] \in Creds /\ carried[Files[j]] = {nominal[r]} /\ j \in Nat /\ j >= 1
      BY <1>3, <2>0, Records
  <2>2. pos'[r] # 1
      BY <1>2, <1>3, <2>1
  <2>3. listed'[r] = listed[r] /\ (pos'[r] = pos[r] \/ (pos'[r] = pos[r] + 1 /\ Advance(r)))
      BY <1>3, <2>2, ResetWalks
  <2> DEFINE c == Files[j]
  <2>4. CASE j < pos[r]
    <3>1. Dealt(r, c)
        BY <1>3, <2>1, <2>3, <2>4 DEF Complete
    <3> HIDE DEF c
    <3>2. c \in Creds
        BY <2>1 DEF c
    <3>3. Dealt(r, c)'
        BY <1>3, <3>1, <3>2, ResetMoves
    <3> QED
        BY <3>3 DEF c
  <2>5. CASE ~(j < pos[r])
    <3>1. j = pos[r] /\ Advance(r)
        BY <1>2, <1>3, <2>1, <2>3, <2>5
    <3>2. c = Here(r) /\ c \in listed[r] /\ carried[c] = {nominal[r]}
        BY <1>3, <2>1, <2>3, <3>1 DEF Here
    <3> HIDE DEF c
    <3>3. Dealt(r, c)'
        BY <1>3, <3>1, <3>2, ResetMoves
    <3> QED
        BY <3>3 DEF c
  <2> QED
      BY <2>4, <2>5
<1>4. ASSUME pc'[r] = "answered", answer'[r].success, NEW c \in listed'[r], carried'[c] = {nominal[r]}
      PROVE  c \in confirmed'[r]
  <2>1. AnswerReset(r) /\ answer'[r] = ResetAnswer(r)
    <3>1. \A a \in {Empty("failed"), QuotaAnswer(r, 1), QuotaAnswer(r, at[r])} : ~a.success
        BY AnswerFields
    <3> QED
        BY <1>4, <3>1, AnswerMoves
  <2>2. ~(tally[r]["failed"] > 0 \/ tally[r]["unresolved"] > 0)
      BY <1>4, <2>1, AnswerFields
  <2>3. /\ kind[r] = "reset" /\ pos[r] > Len(Files)
        /\ confirmed' = confirmed /\ listed' = listed
      BY <2>1 DEF AnswerReset, Walked, reset
  <2>4. c \in Creds /\ carried[c] = {nominal[r]} /\ c \in listed[r]
      BY <1>2, <1>4, <2>3, Records
  <2>5. PICK j \in 1 .. Len(Files) : Files[j] = c
      BY <2>4, FilesCount
  <2>6. j < pos[r]
      BY <1>2, <2>3, <2>5, FilesCount
  <2> QED
      BY <2>2, <2>3, <2>4, <2>5, <2>6 DEF Complete, Dealt
<1> QED
    BY <1>1, <1>3, <1>4 DEF Complete

\* The account that ReadAccount reads, and what it leaves.
LEMMA AccountRead ==
    ASSUME TypeInv, NEW r \in Requests, ReadAccount(r)
    PROVE  \E q \in had[Here(r)] :
             /\ q \in Quotas /\ at[r] \in DOMAIN Chain(nominal[r])
             /\ \A i \in DOMAIN Chain(nominal[r]), e \in Emails :
                  accounts'[r][i][e] = IF i = at[r] /\ e = email[Here(r)] THEN q ELSE accounts[r][i][e]
<1>1. PICK q \in had[Here(r)] : accounts' = [accounts EXCEPT ![r][at[r]][email[Here(r)]] = q]
    BY DEF ReadAccount
<1>2. Here(r) \in Creds /\ email[Here(r)] \in Emails /\ at[r] \in DOMAIN Chain(nominal[r])
    BY WorkFacts DEF ReadAccount, TypeInv, WalkOK, WalksWell, Candidates
<1>3. q \in Quotas
    BY <1>2 DEF TypeInv, WorldOK
<1> DEFINE k == at[r]
           d == email[Here(r)]
<1>4. accounts' = [accounts EXCEPT ![r][k][d] = q] /\ k \in DOMAIN Chain(nominal[r]) /\ d \in Emails
    BY <1>1, <1>2
<1> HIDE DEF k, d
<1>5. accounts[r] \in [DOMAIN Chain(nominal[r]) -> [Emails -> Quotas \union {NoAccount}]] /\ DOMAIN accounts = Requests
    BY DEF TypeInv, FoundOK
<1>6. accounts'[r] = [accounts[r] EXCEPT ![k][d] = q]
    BY <1>4, <1>5
<1>7. \A i \in DOMAIN Chain(nominal[r]), e \in Emails :
        accounts'[r][i][e] = IF i = k /\ e = d THEN q ELSE accounts[r][i][e]
    BY <1>4, <1>5, <1>6
<1> QED
    BY <1>2, <1>3, <1>7 DEF k, d

LEMMA OthersLeaveAccounts ==
    ASSUME NEW r \in Requests, Handle(r), ~ReadAccount(r)
    PROVE  accounts' = accounts
<1>1. CASE List(r) \/ ListFails(r) \/ Inspects(r)
    BY <1>1 DEF List, ListFails, Inspects, Unreadable, Skip, Nameless, Match, Fault, found
<1>2. CASE ReadFails(r) \/ Resets(r) \/ Answers(r)
    BY <1>2 DEF ReadFails, Resets, CreditsRead, CreditsRetried, Refused, Consume, ConsumeFails,
                Answers, NextPrefix, AnswerQuota, AnswerReset, found
<1> QED
    BY <1>1, <1>2 DEF Handle, Reads

LEMMA ErrorsGrow ==
    ASSUME TypeInv, NEW r \in Requests, Handle(r)
    PROVE  errors[r] \subseteq errors'[r]
<1>1. DOMAIN errors = Requests
    BY DEF TypeInv, FoundOK
<1>2. CASE Inspects(r) \/ Reads(r)
    BY <1>1, <1>2 DEF Inspects, Unreadable, Skip, Nameless, Match, Fault, found, Note, Reads, ReadAccount, ReadFails
<1>3. CASE List(r) \/ ListFails(r) \/ Resets(r) \/ Answers(r)
    BY <1>3 DEF List, ListFails, Resets, CreditsRead, CreditsRetried, Refused, Consume, ConsumeFails,
                Answers, NextPrefix, AnswerQuota, AnswerReset, found
<1> QED
    BY <1>2, <1>3 DEF Handle

\* A step leaves what is shown, and under the nominal prefix a step to the
\* next file shows the one it leaves.
LEMMA QuotaMoves ==
    ASSUME TypeInv, TypeInv', Grows, NEW r \in Requests, Handle(r), kind[r] = "quota"
    PROVE  /\ \A c \in Creds : Shown(r, c) => Shown(r, c)'
           /\ Advance(r) /\ at[r] = 1 =>
                  \A c \in listed[r] : c = Here(r) /\ carried[c] = {nominal[r]} => Shown(r, c)'
<1>1. /\ DOMAIN pos = Requests /\ pos[r] \in Nat /\ listed[r] \subseteq Creds
      /\ DOMAIN errors = Requests /\ nominal[r] \in PrefixNames
      /\ email' = email /\ email \in [Creds -> Emails \union {NoEmail}]
    BY DEF TypeInv, FoundOK, WalkOK, WalkTypes, WorldOK, Grows
<1>2. 1 \in DOMAIN Chain(nominal[r]) /\ (at[r] = 1 => Wanted(r) = nominal[r])
    BY <1>1, ChainIsSeq DEF Wanted, Candidates
<1>3. ASSUME NEW c \in Creds, Shown(r, c) PROVE Shown(r, c)'
  <2>1. CASE 1 \in errors[r]
      BY <2>1, ErrorsGrow DEF Shown
  <2>2. CASE HasAccount(r, c)
    <3>1. CASE accounts' = accounts
        BY <1>1, <2>2, <3>1 DEF HasAccount, Shown
    <3>2. CASE ReadAccount(r)
      <4>1. email[c] \in Emails
          BY <1>1, <2>2 DEF HasAccount
      <4>2. PICK q \in Quotas :
              accounts'[r][1][email[c]] = q \/ accounts'[r][1][email[c]] = accounts[r][1][email[c]]
          BY <1>2, <3>2, <4>1, AccountRead
      <4>3. accounts'[r][1][email[c]] # NoAccount
          BY <2>2, <4>2 DEF HasAccount, Quotas, NoAccount
      <4> QED
          BY <1>1, <2>2, <4>3 DEF HasAccount, Shown
    <3> QED
        BY <3>1, <3>2, OthersLeaveAccounts
  <2> QED
      BY <1>3, <2>1, <2>2 DEF Shown
<1>4. ASSUME Advance(r), at[r] = 1, NEW c \in listed[r], c = Here(r), carried[c] = {nominal[r]}
      PROVE  Shown(r, c)'
  <2>1. pos'[r] # pos[r] /\ c \in Creds /\ prefix[c] = Wanted(r)
      BY <1>1, <1>2, <1>4 DEF Advance, TypeInv, WorldOK
  <2>2. CASE Unreadable(r) \/ Nameless(r) \/ ReadFails(r)
    <3>1. Note(r)
        BY <2>2, WorkFacts DEF Unreadable, Nameless, ReadFails, Fault
    <3> QED
        BY <1>1, <1>4, <3>1 DEF Note, Shown
  <2>3. CASE ReadAccount(r)
    <3>1. email[c] \in Emails
        BY <1>4, <2>3, WorkFacts DEF ReadAccount
    <3>2. accounts'[r][1][email[c]] \in Quotas
        BY <1>2, <1>4, <2>3, <3>1, AccountRead
    <3> QED
        BY <1>1, <3>1, <3>2, NoEmailIsNone DEF HasAccount, Shown, Quotas, NoAccount
  <2>4. CASE Skip(r) \/ Match(r)
      BY <1>4, <2>1, <2>4 DEF Skip, Match
  <2>5. CASE List(r) \/ ListFails(r) \/ AnswerQuota(r) \/ AnswerReset(r)
      BY <2>1, <2>5 DEF List, ListFails, AnswerQuota, AnswerReset
  <2>6. CASE NextPrefix(r)
      BY <1>1, <1>4, <2>6 DEF NextPrefix, Advance, TypeInv, WalkOK, WalkTypes
  <2>7. CASE Resets(r)
      BY <2>7, WorkFacts DEF Resets, CreditsRead, CreditsRetried, Refused, Consume, ConsumeFails
  <2> QED
      BY <2>2, <2>3, <2>4, <2>5, <2>6, <2>7 DEF Handle, Inspects, Reads, Answers
<1> QED
    BY <1>3, <1>4

\* Where the walk of a query is after a step.
LEMMA QuotaWalks ==
    ASSUME TypeInv, NEW r \in Requests, Handle(r)
    PROVE  \/ listed'[r] = listed[r] /\ at'[r] = at[r] /\ pos'[r] = pos[r]
           \/ listed'[r] = listed[r] /\ at'[r] = at[r] /\ pos'[r] = pos[r] + 1 /\ Advance(r)
           \/ List(r) /\ at'[r] = 1 /\ pos'[r] = 1
           \/ NextPrefix(r) /\ listed'[r] = listed[r] /\ at'[r] \in Later(r) /\ pos'[r] = 1
<1>1. DOMAIN pos = Requests /\ DOMAIN at = Requests /\ WalksWell(r)
    BY DEF TypeInv, WalkOK, WalkTypes
<1>2. CASE List(r)
    BY <1>1, <1>2 DEF List, WalksWell
<1>3. CASE NextPrefix(r)
    BY <1>1, <1>3 DEF NextPrefix
<1>4. CASE Inspects(r)
    BY <1>1, <1>4 DEF Inspects, Unreadable, Skip, Nameless, Match, Advance
<1>5. CASE ListFails(r) \/ AnswerQuota(r) \/ AnswerReset(r)
    BY <1>1, <1>5 DEF ListFails, AnswerQuota, AnswerReset
<1>6. CASE Reads(r) \/ Resets(r)
    BY <1>1, <1>6 DEF Reads, ReadAccount, ReadFails, Resets, CreditsRead, CreditsRetried, Refused, Consume,
                      ConsumeFails, Advance
<1> QED
    BY <1>2, <1>3, <1>4, <1>5, <1>6 DEF Handle, Answers

\* What an answer to a query says.
LEMMA QuotaAnswers ==
    ASSUME TypeInv, NEW r \in Requests, Handle(r), Answered(r, "quota")'
    PROVE  /\ Walked(r) /\ kind[r] = "quota" /\ UNCHANGED <<listed, at, pos, accounts, errors, email, had, carried>>
           /\ answer'[r].actual \in {1, at[r]}
           /\ answer'[r].actual # 1 => HasRemaining(r) /\ answer'[r].actual = at[r]
           /\ ~answer'[r].partial => 1 \notin errors[r]
<1>1. kind' = kind
    BY WalkMoves DEF request
<1>2. \/ ListFails(r) /\ answer'[r] = Empty("failed")
      \/ AnswerQuota(r) /\ answer'[r] = QuotaAnswer(r, IF HasRemaining(r) THEN at[r] ELSE 1)
      \/ AnswerReset(r)
    BY AnswerMoves DEF Answered
<1>3. AnswerQuota(r)
    BY <1>1, <1>2, AnswerFields DEF Answered, AnswerReset
<1>4. answer'[r] = QuotaAnswer(r, IF HasRemaining(r) THEN at[r] ELSE 1)
    BY <1>2, <1>3, AnswerFields DEF Answered, AnswerQuota, AnswerReset
<1>5. PICK i : i = (IF HasRemaining(r) THEN at[r] ELSE 1) /\ answer'[r] = QuotaAnswer(r, i)
    BY <1>4
<1>6. answer'[r].actual = i /\ (~answer'[r].partial => 1 \notin errors[r])
    BY <1>5, AnswerFields
<1> QED
    BY <1>3, <1>5, <1>6 DEF AnswerQuota, found, world

LEMMA ToldStep ==
    ASSUME TypeInv, TypeInv', Grows, NEW r \in Requests, Handle(r), Told(r)
    PROVE  Told(r)'
<1>1. kind' = kind /\ nominal' = nominal
    BY WalkMoves DEF request
<1>2. /\ listed[r] \subseteq Creds /\ at[r] \in Nat \ {0}
      /\ pos[r] \in Nat \ {0} /\ pos'[r] \in Nat \ {0} /\ Len(Files) \in Nat
    BY FilesCount DEF TypeInv, WalkOK, WalkTypes
<1>3. ASSUME kind[r] = "quota", NEW j \in 1 .. Len(Files), j < pos'[r] \/ at'[r] # 1,
             Files[j] \in listed'[r], carried'[Files[j]] = {nominal[r]}
      PROVE  Shown(r, Files[j])'
  <2>0. Files[j] \in Creds /\ j \in Nat /\ j >= 1
      BY FilesCount
  <2> DEFINE c == Files[j]
  <2>1. c \in Creds /\ carried[c] = {nominal[r]}
      BY <1>3, <2>0, Records
  <2>2. listed'[r] = listed[r]
      BY <1>3, <2>0, QuotaWalks
  <2>3. CASE j < pos[r] \/ at[r] # 1
    <3>1. Shown(r, c)
        BY <1>3, <2>1, <2>2, <2>3 DEF Told
    <3> HIDE DEF c
    <3>2. Shown(r, c)'
        BY <1>3, <2>1, <3>1, QuotaMoves
    <3> QED
        BY <3>2 DEF c
  <2>4. CASE ~(j < pos[r]) /\ at[r] = 1
    <3>1. ~NextPrefix(r)
        BY <1>2, <2>0, <2>4 DEF NextPrefix, Walked
    <3>2. j = pos[r] /\ Advance(r)
        BY <1>2, <1>3, <2>0, <2>4, <3>1, QuotaWalks
    <3>3. c = Here(r) /\ c \in listed[r]
        BY <1>3, <2>2, <3>2 DEF Here
    <3> HIDE DEF c
    <3>4. Shown(r, c)'
        BY <1>3, <2>1, <2>4, <3>2, <3>3, QuotaMoves
    <3> QED
        BY <3>4 DEF c
  <2> QED
      BY <2>3, <2>4
<1>4. ASSUME Answered(r, "quota")', ~answer'[r].partial, NEW c \in listed'[r], carried'[c] = {nominal[r]}
      PROVE  HasAccount(r, c)'
  <2>1. /\ pos[r] > Len(Files) /\ kind[r] = "quota" /\ listed'[r] = listed[r]
        /\ 1 \notin errors[r] /\ UNCHANGED <<accounts, email>>
      BY <1>4, QuotaAnswers DEF Walked
  <2>2. c \in Creds /\ c \in listed[r]
      BY <1>2, <1>4, <2>1
  <2>3. carried[c] = {nominal[r]}
      BY <1>4, <2>2, Records
  <2>4. PICK j \in 1 .. Len(Files) : Files[j] = c
      BY <2>2, FilesCount
  <2>5. j < pos[r]
      BY <1>2, <2>1, <2>4
  <2>6. Shown(r, c)
      BY <2>1, <2>2, <2>3, <2>4, <2>5 DEF Told
  <2> QED
      BY <2>1, <2>6 DEF Shown, HasAccount
<1> QED
    BY <1>1, <1>3, <1>4 DEF Told

LEMMA HadStep ==
    ASSUME TypeInv, TypeInv', Grows, NEW r \in Requests, Handle(r), Had(r)
    PROVE  Had(r)'
<1>1. nominal' = nominal /\ Chain(nominal[r])' = Chain(nominal[r])
    BY WalkMoves DEF request, Chain
<1>2. /\ listed[r] \subseteq Creds /\ pc' \in [Requests -> {"list", "walk", "read", "credits", "consume", "answered"}]
      /\ \A c \in Creds : had[c] \subseteq had'[c] /\ carried[c] \subseteq carried'[c]
      /\ at[r] \in DOMAIN Chain(nominal[r])
    BY DEF TypeInv, WalkOK, WalkTypes, WalksWell, Candidates, Grows
<1>3. pc'[r] # "list"
  <2>1. DOMAIN pc = Requests
      BY DEF TypeInv, WalkOK, WalkTypes
  <2>2. CASE Starts(r) \/ Ends(r) \/ Moves(r)
      BY <2>1, <2>2 DEF Starts, Ends, Moves, Advance, Go
  <2>3. CASE Finds(r)
    <3>1. pc'[r] = IF kind[r] = "quota" THEN "read" ELSE "credits"
        BY <2>1, <2>3 DEF Finds, Go
    <3> QED
        BY <3>1
  <2>4. CASE Sends(r) \/ TriesOn(r) \/ Repeats(r)
      BY <2>1, <2>4 DEF Sends, TriesOn, Repeats, Go
  <2> QED
      BY <2>2, <2>3, <2>4, WalkMoves
<1>4. ASSUME NEW i, listed'[r] = listed[r], HadLeft(r, i) PROVE HadLeft(r, i)'
    BY <1>1, <1>2, <1>4 DEF HadLeft
<1>5. ASSUME NEW i \in DOMAIN Chain(nominal[r]), NEW e \in Emails, accounts'[r][i][e] = "left"
      PROVE  HadLeft(r, i)'
  <2>1. CASE accounts[r][i][e] = "left"
    <3>1. pc[r] # "list" /\ HadLeft(r, i)
        BY <2>1 DEF Had
    <3>2. listed'[r] = listed[r]
        BY <3>1, QuotaWalks DEF List
    <3> QED
        BY <1>4, <3>1, <3>2
  <2>2. CASE accounts[r][i][e] # "left"
    <3>1. ReadAccount(r)
        BY <1>5, <2>2, OthersLeaveAccounts
    <3>2. i = at[r] /\ "left" \in had[Here(r)]
        BY <1>5, <2>2, <3>1, AccountRead
    <3>3. Here(r) \in listed[r] /\ Chain(nominal[r])[i] \in carried[Here(r)] /\ listed' = listed
        BY <3>1, <3>2, WorkFacts DEF ReadAccount, Advance, Wanted
    <3> QED
        BY <1>4, <3>2, <3>3 DEF HadLeft
  <2> QED
      BY <2>1, <2>2
<1>6. ASSUME Answered(r, "quota")', answer'[r].actual # 1 PROVE HadLeft(r, answer[r].actual)'
  <2>1. HasRemaining(r) /\ answer'[r].actual = at[r] /\ listed' = listed
      BY <1>6, QuotaAnswers
  <2>2. HadLeft(r, at[r])
      BY <1>2, <2>1 DEF HasRemaining, Had
  <2> QED
      BY <1>4, <2>1, <2>2 DEF HadLeft
<1> QED
    BY <1>1, <1>3, <1>5, <1>6 DEF Had

LEMMA UnreadGrows ==
    ASSUME TypeInv, NEW r \in Requests, Handle(r)
    PROVE  unread[r] \subseteq unread'[r]
<1>1. DOMAIN unread = Requests
    BY DEF TypeInv, AnswerOK
<1>2. CASE Inspects(r) \/ Reads(r)
    BY <1>1, <1>2 DEF Inspects, Unreadable, Skip, Nameless, Match, Reads, ReadAccount, ReadFails
<1>3. CASE List(r) \/ ListFails(r) \/ Resets(r) \/ Answers(r)
    BY <1>3 DEF List, ListFails, Resets, CreditsRead, CreditsRetried, Refused, Consume, ConsumeFails,
                Answers, NextPrefix, AnswerQuota, AnswerReset
<1> QED
    BY <1>2, <1>3 DEF Handle

\* No other credential takes the place of a lasting account.
LEMMA LastingAccount ==
    ASSUME TypeInv, NEW r \in Requests, ReadAccount(r), NEW c \in listed[r], Lasts(r, c, at[r]),
           accounts[r][at[r]][email[c]] = "left" \/ c = Here(r)
    PROVE  accounts'[r][at[r]][email[c]] = "left"
<1>1. /\ c \in Creds /\ email[c] \in Emails /\ had[c] = {"left"} /\ carried[c] = {Wanted(r)}
      /\ \A d \in listed[r] : email[d] = email[c] /\ d # c => carried[c] \intersect carried[d] = {}
    BY DEF Lasts, AloneByEmail, Wanted, TypeInv, WorldOK, WalkOK, WalkTypes
<1>2. Here(r) \in listed[r] /\ Wanted(r) \in carried[Here(r)]
    BY WorkFacts DEF ReadAccount
<1>3. email[Here(r)] = email[c] => Here(r) = c
    BY <1>1, <1>2
<1>4. PICK q \in had[Here(r)] :
        /\ at[r] \in DOMAIN Chain(nominal[r])
        /\ \A i \in DOMAIN Chain(nominal[r]), e \in Emails :
             accounts'[r][i][e] = IF i = at[r] /\ e = email[Here(r)] THEN q ELSE accounts[r][i][e]
    BY AccountRead
<1>5. accounts'[r][at[r]][email[c]] = IF email[c] = email[Here(r)] THEN q ELSE accounts[r][at[r]][email[c]]
    BY <1>1, <1>4
<1>6. Here(r) = c => q = "left"
    BY <1>1, <1>4
<1> QED
    BY <1>3, <1>5, <1>6

\* A step to the next file has read the lasting account it leaves.
LEMMA LastingIsRead ==
    ASSUME TypeInv, NEW r \in Requests, Handle(r), kind[r] = "quota", Advance(r),
           NEW c \in listed[r], c \notin unread'[r], c = Here(r), Lasts(r, c, at[r])
    PROVE  accounts'[r][at[r]][email[c]] = "left"
<1>1. /\ DOMAIN pos = Requests /\ DOMAIN unread = Requests /\ pos[r] \in Nat
    BY DEF TypeInv, WalkOK, WalkTypes, AnswerOK
<1>2. pos'[r] = pos[r] + 1
    BY <1>1 DEF Advance
<1>3. /\ c \in Creds /\ email[c] # NoEmail /\ prefix[c] = Wanted(r)
    BY DEF Lasts, AloneByEmail, Wanted, TypeInv, WorldOK, WalkOK, WalkTypes
<1>4. CASE Unreadable(r) \/ ReadFails(r)
    BY <1>1, <1>4 DEF Unreadable, ReadFails
<1>5. CASE Skip(r) \/ Nameless(r)
    BY <1>3, <1>5 DEF Skip, Nameless
<1>6. CASE ReadAccount(r)
    BY <1>6, LastingAccount
<1>7. CASE List(r) \/ ListFails(r) \/ Match(r) \/ AnswerQuota(r) \/ AnswerReset(r)
    BY <1>1, <1>2, <1>7 DEF List, ListFails, Match, AnswerQuota, AnswerReset
<1>8. CASE NextPrefix(r)
    BY <1>1, <1>2, <1>8 DEF NextPrefix, TypeInv, WalkOK, WalkTypes
<1>9. CASE Resets(r)
    BY <1>9, WorkFacts DEF Resets, CreditsRead, CreditsRetried, Refused, Consume, ConsumeFails
<1> QED
    BY <1>4, <1>5, <1>6, <1>7, <1>8, <1>9 DEF Handle, Inspects, Reads, Answers

LEMMA LastsBefore ==
    ASSUME TypeInv, Grows, NEW r \in Requests, nominal' = nominal, listed'[r] = listed[r],
           NEW c \in listed[r], NEW i, Lasts(r, c, i)'
    PROVE  Lasts(r, c, i)
<1>1. /\ c \in Creds /\ listed[r] \subseteq Creds /\ email' = email
      /\ Chain(nominal[r])' = Chain(nominal[r])
      /\ \A d \in Creds : carried[d] \subseteq carried'[d]
    BY DEF TypeInv, WalkOK, WalkTypes, Grows, Chain
<1>2. had'[c] = {"left"} /\ carried'[c] = {Chain(nominal[r])[i]} /\ AloneByEmail(r, c)'
    BY <1>1 DEF Lasts
<1>3. had[c] = {"left"} /\ carried[c] = {Chain(nominal[r])[i]}
    BY <1>1, <1>2, Records
<1>4. AloneByEmail(r, c)
    BY <1>1, <1>2 DEF AloneByEmail
<1> QED
    BY <1>3, <1>4 DEF Lasts

LEMMA AvailableStep ==
    ASSUME TypeInv, TypeInv', Grows, NEW r \in Requests, Handle(r), kind[r] = "quota", Available(r)
    PROVE  Available(r)'
<1>1. nominal' = nominal /\ Candidates(nominal[r])' = Candidates(nominal[r])
    BY WalkMoves DEF request, Candidates, Chain
<1>2. /\ listed[r] \subseteq Creds /\ email' = email /\ Len(Files) \in Nat
      /\ pos[r] \in Nat \ {0} /\ at[r] \in Nat \ {0} /\ nominal[r] \in PrefixNames
    BY FilesCount DEF TypeInv, WalkOK, WalkTypes, Grows
<1>0. \A i \in Candidates(nominal[r]) : i \in Nat /\ i >= 1
    BY <1>2, ChainIsSeq DEF Candidates
<1> SUFFICES ASSUME NEW c \in listed'[r] \ unread'[r], NEW i \in Candidates(nominal[r]), Lasts(r, c, i)'
             PROVE  /\ at'[r] <= i
                    /\ at'[r] = i => \A j \in 1 .. Len(Files) :
                          j < pos'[r] /\ Files[j] = c => accounts'[r][i][email[c]] = "left"
                    /\ Answered(r, "quota")' => answer'[r].actual <= i
    BY <1>1, <1>2 DEF Available
<1>3. i \in Nat /\ i >= 1 /\ \A j \in 1 .. Len(Files) : j \in Nat /\ j >= 1
    BY <1>0, <1>2
<1>4. CASE List(r)
  <2>1. at'[r] = 1 /\ pos'[r] = 1 /\ ~Answered(r, "quota")'
      BY <1>4 DEF List, Go, Answered, TypeInv, WalkOK, WalkTypes, WalksWell
  <2> QED
      BY <1>3, <2>1
<1>5. CASE ~List(r)
  <2>1. listed'[r] = listed[r] /\ c \in listed[r] \ unread[r] /\ c \in Creds
      BY <1>2, <1>5, QuotaWalks, UnreadGrows
  <2>2. Lasts(r, c, i) /\ email[c] \in Emails
    <3>1. Lasts(r, c, i)
        BY <1>1, <2>1, LastsBefore
    <3> QED
        BY <2>1, <3>1 DEF Lasts, AloneByEmail, TypeInv, WorldOK
  <2>3. at[r] <= i
      BY <2>1, <2>2 DEF Available
  <2>4. at[r] = i => \A j \in 1 .. Len(Files) : j < pos[r] /\ Files[j] = c => accounts[r][i][email[c]] = "left"
      BY <2>1, <2>2 DEF Available
  <2>5. Answered(r, "quota")' => answer'[r].actual <= i
      BY <1>2, <1>3, <2>3, QuotaAnswers
  <2>6. at[r] = i => \A j \in 1 .. Len(Files) : j < pos[r] /\ Files[j] = c => accounts'[r][i][email[c]] = "left"
    <3>1. CASE ReadAccount(r)
        BY <2>1, <2>2, <2>4, <3>1, LastingAccount
    <3> QED
        BY <2>4, <3>1, OthersLeaveAccounts
  <2>7. CASE at'[r] = at[r] /\ pos'[r] = pos[r]
      BY <2>3, <2>5, <2>6, <2>7
  <2>8. CASE at'[r] = at[r] /\ pos'[r] = pos[r] + 1 /\ Advance(r)
    <3>1. ASSUME at[r] = i, NEW j \in 1 .. Len(Files), j < pos'[r], Files[j] = c
          PROVE  accounts'[r][i][email[c]] = "left"
      <4>1. CASE j < pos[r]
          BY <2>6, <3>1, <4>1
      <4>2. CASE ~(j < pos[r])
        <5>1. c = Here(r)
            BY <1>2, <1>3, <2>8, <3>1, <4>2 DEF Here
        <5> QED
            BY <2>1, <2>2, <2>8, <3>1, <5>1, LastingIsRead
      <4> QED
          BY <4>1, <4>2
    <3> QED
        BY <2>3, <2>5, <2>8, <3>1
  <2>9. CASE NextPrefix(r)
    <3>1. pos'[r] = 1 /\ pos[r] > Len(Files) /\ ~HasRemaining(r)
        BY <2>9 DEF NextPrefix, Walked, TypeInv, WalkOK, WalkTypes
    <3>2. PICK j \in 1 .. Len(Files) : Files[j] = c
        BY <2>1, FilesCount
    <3>3. at[r] # i
        BY <1>2, <1>3, <2>2, <2>4, <3>1, <3>2 DEF HasRemaining
    <3>4. i \in Later(r)
        BY <1>2, <1>3, <2>3, <3>3 DEF Later
    <3>5. at'[r] <= i
        BY <2>9, <3>4 DEF NextPrefix, TypeInv, WalkOK, WalkTypes
    <3> QED
        BY <1>3, <2>5, <3>1, <3>5
  <2> QED
      BY <1>5, <2>7, <2>8, <2>9, QuotaWalks
<1> QED
    BY <1>4, <1>5

-----------------------------------------------------------------------------
(* The theorems *)

LEMMA ResourceStarts == Init => ResourceInv
<1> SUFFICES ASSUME Init, NEW r \in Requests PROVE Parts(r)
    BY TypesStart DEF ResourceInv
<1>1. /\ pc[r] = "list" /\ pos[r] = 1 /\ at[r] = 1 /\ nominal[r] \in PrefixNames
      /\ \A c \in Creds : posted[r][c] = 0
      /\ \A i \in DOMAIN Chain(nominal[r]), e \in Emails : accounts[r][i][e] = "none"
    BY DEF Init, NoAccounts, NoAccount
<1>2. \A j \in 1 .. Len(Files) : Files[j] \in Creds /\ ~(j < 1)
    BY FilesCount
<1>3. \A i \in Candidates(nominal[r]) : 1 <= i
    BY <1>1, ChainIsSeq DEF Candidates
<1>4. Posted(r)
    BY <1>1, <1>2 DEF Posted
<1>5. Complete(r) /\ Told(r)
    BY <1>1, <1>2 DEF Complete, Told, Answered
<1>6. Had(r)
    BY <1>1 DEF Had, Answered
<1>7. Available(r)
    BY <1>1, <1>2, <1>3 DEF Available, Answered
<1> QED
    BY <1>4, <1>5, <1>6, <1>7 DEF Parts

LEMMA ResourceStep == ResourceInv /\ [Next]_vars => ResourceInv'
<1> SUFFICES ASSUME ResourceInv, [Next]_vars PROVE ResourceInv'
    OBVIOUS
<1>1. TypeInv /\ TypeInv' /\ Grows /\ \A r \in Requests : Parts(r)
    BY TypesStep, WorldSteps DEF ResourceInv, TypeInv
<1>2. ASSUME NEW r \in Requests, Handle(r), NEW s \in Requests PROVE Parts(s)'
  <2>1. CASE s # r
      BY <1>1, <1>2, <2>1, OthersStay, PartsStay
  <2>2. CASE s = r
    <3>1. Parts(r) /\ kind' = kind
        BY <1>1, <1>2, WalkMoves DEF request
    <3>2. Posted(r)' /\ Complete(r)' /\ Told(r)' /\ Had(r)'
        BY <1>1, <1>2, <3>1, PostedStep, CompleteStep, ToldStep, HadStep DEF Parts
    <3>3. kind[r] = "quota" => Available(r)'
        BY <1>1, <1>2, <3>1, AvailableStep DEF Parts
    <3> QED
        BY <2>2, <3>1, <3>2, <3>3 DEF Parts
  <2> QED
      BY <2>1, <2>2
<1>3. ASSUME Change \/ UNCHANGED vars, NEW s \in Requests PROVE Parts(s)'
  <2>1. UNCHANGED State(s)
      BY <1>3 DEF Change, vars, State, request, walk, found, reset
  <2> QED
      BY <1>1, <2>1, PartsStay
<1> QED
    BY <1>1, <1>2, <1>3 DEF Next, ResourceInv

\* The inductive invariant behind the claims of the answers: what lies behind
\* a request on its walk is dealt with, shown or read, and what lies ahead is
\* not posted for.
THEOREM ResourceInductive == Spec => []ResourceInv
BY ResourceStarts, ResourceStep, PTL DEF Spec

\* However many requests there are, none posts twice for a credential, or for
\* one that never had its prefix.
THEOREM PostsOnce == Spec => []ConsumedOnce
<1>1. ResourceInv => ConsumedOnce
    BY DEF ResourceInv, Parts, Posted, ConsumedOnce
<1> QED
    BY <1>1, ResourceInductive, PTL

\* A reset that reports success has reset each credential that was listed and
\* always had the nominal prefix.
THEOREM SuccessMeansAll == Spec => []SuccessIsComplete
<1>1. ResourceInv => SuccessIsComplete
    BY DEF ResourceInv, Parts, Complete, SuccessIsComplete
<1> QED
    BY <1>1, ResourceInductive, PTL

\* An answer that is not partial has every account of the nominal prefix.
THEOREM OmissionIsPartial == Spec => []PartialIsTold
<1>1. ResourceInv => PartialIsTold
    BY DEF ResourceInv, Parts, Told, HasAccount, PartialIsTold
<1> QED
    BY <1>1, ResourceInductive, PTL

\* The actual prefix, if it is a fallback, has had quota.
THEOREM ActualIsReal == Spec => []ActualHadQuota
<1>1. ResourceInv => ActualHadQuota
    BY DEF ResourceInv, Parts, Had, HadLeft, ActualHadQuota
<1> QED
    BY <1>1, ResourceInductive, PTL

\* No prefix is passed over whose account had quota all the time and was read.
THEOREM NoAccountPassedOver == Spec => []AvailableIsReported
<1>1. ResourceInv => AvailableIsReported
    BY DEF ResourceInv, Parts, Available, Lasts, Answered, AvailableIsReported
<1> QED
    BY <1>1, ResourceInductive, PTL

-----------------------------------------------------------------------------
(* The answer of a reset lists what was confirmed *)

Pending(r) == pc[r] \in {"credits", "consume"}
Good(r)    == {x \in resets[r] : x.success}

\* A match is counted when it is found, and once more when it is reported.
CountsWell(r) ==
    /\ Cardinality(confirmed[r]) = tally[r]["succeeded"]
    /\ Cardinality(Good(r)) = tally[r]["succeeded"]
    /\ \A x \in resets[r] : ~x.success => tally[r]["failed"] > 0
    /\ tally[r]["matched"] = tally[r]["succeeded"] + tally[r]["failed"] + (IF Pending(r) THEN 1 ELSE 0)

\* No report has the number of the match at hand; what is confirmed lies behind.
KeysDiffer(r) ==
    /\ \A x \in resets[r] : x.tag < tally[r]["matched"] + (IF Pending(r) THEN 0 ELSE 1)
    /\ \A c \in confirmed[r] : /\ kind[r] = "reset"
                               /\ \E i \in 1 .. Len(Files) : i < pos[r] /\ c = Files[i]

Lists(r) ==
    Answered(r, "reset") =>
        /\ Cardinality(Good(r)) = Cardinality(confirmed[r])
        /\ confirmed[r] # {} => answer[r].success \/ answer[r].partial

Listed(r) == /\ IsFiniteSet(resets[r]) /\ IsFiniteSet(confirmed[r])
             /\ CountsWell(r) /\ KeysDiffer(r) /\ Lists(r)

ListedInv == TypeInv /\ \A r \in Requests : Listed(r)

\* What a step of r does to its report: nothing, or it counts a credential
\* without an email, a match, or the end of one.
Same(r, x)  == tally'[r][x] = tally[r][x]
Plus(r, x)  == tally'[r][x] = tally[r][x] + 1
Rests(r)    == Same(r, "matched") /\ Same(r, "succeeded") /\ Same(r, "failed") /\ Pending(r)' = Pending(r)
Passes(r)   == /\ Plus(r, "matched") /\ Same(r, "succeeded") /\ Plus(r, "failed")
               /\ ~Pending(r) /\ ~Pending(r)'
Takes(r)    == /\ Plus(r, "matched") /\ Same(r, "succeeded") /\ Same(r, "failed")
               /\ ~Pending(r) /\ Pending(r)'
Finishes(r, ok) ==
    /\ Pending(r) /\ Advance(r) /\ Report(r, ok)
    /\ confirmed' = [confirmed EXCEPT ![r] = IF ok THEN @ \union {Here(r)} ELSE @]

LEMMA CountIs ==
    ASSUME TypeInv, NEW r \in Requests, NEW S, Count(r, S)
    PROVE  \A x \in Counters : IF x \in S THEN Plus(r, x) ELSE Same(r, x)
<1>1. tally[r] \in [Counters -> Nat] /\ DOMAIN tally = Requests
    BY DEF TypeInv, ResetOK
<1> QED
    BY <1>1 DEF Count, Plus, Same

LEMMA ReportMoves ==
    ASSUME TypeInv, NEW r \in Requests, Handle(r)
    PROVE  \/ (Rests(r) \/ Passes(r) \/ Takes(r)) /\ UNCHANGED <<resets, confirmed>>
           \/ \E ok \in BOOLEAN : Finishes(r, ok)
<1> USE DEF Pending
<1>0. \A x \in {"matched", "succeeded", "failed", "unresolved"} : x \in Counters
    BY DEF Counters
<1>1. DOMAIN pc = Requests /\ confirmed \in [Requests -> SUBSET Creds]
    BY DEF TypeInv, WalkOK, WalkTypes, ResetOK
<1>2. CASE List(r) \/ ListFails(r) \/ Reads(r) \/ Answers(r) \/ CreditsRead(r) \/ CreditsRetried(r) \/ Skip(r)
  <2>1. UNCHANGED <<tally, resets, confirmed>>
      BY <1>2 DEF List, ListFails, Reads, ReadAccount, ReadFails, Answers, NextPrefix, AnswerQuota,
                  AnswerReset, CreditsRead, CreditsRetried, Skip, reset
  <2>2. CASE Reads(r) \/ Skip(r)
    <3>1. pc[r] \in {"read", "walk"} /\ pc' = [pc EXCEPT ![r] = "walk"]
        BY <2>2 DEF Reads, ReadAccount, ReadFails, Skip, Advance, Go, AtFile
    <3> QED
        BY <1>1, <2>1, <3>1 DEF Rests, Same
  <2>3. CASE List(r) \/ ListFails(r) \/ AnswerQuota(r) \/ AnswerReset(r)
    <3>1. pc[r] \in {"list", "walk"} /\ \E to \in {"walk", "answered"} : pc' = [pc EXCEPT ![r] = to]
        BY <2>3 DEF List, ListFails, AnswerQuota, AnswerReset, Say, Go, Walked
    <3> QED
        BY <1>1, <2>1, <3>1 DEF Rests, Same
  <2>4. CASE NextPrefix(r) \/ CreditsRead(r) \/ CreditsRetried(r)
    <3>1. pc'[r] = pc[r] \/ (pc[r] = "credits" /\ pc'[r] = "consume")
        BY <1>1, <2>4 DEF NextPrefix, CreditsRead, CreditsRetried, Go
    <3>2. Pending(r)' <=> Pending(r)
        BY <3>1
    <3> QED
        BY <2>1, <3>2 DEF Rests, Same
  <2> QED
      BY <1>2, <2>1, <2>2, <2>3, <2>4 DEF Answers
<1>3. CASE Unreadable(r) \/ Nameless(r)
  <2>0. pc[r] = "walk" /\ pc' = [pc EXCEPT ![r] = "walk"]
      BY <1>3 DEF Unreadable, Nameless, Matches, AtFile, Advance, Go
  <2>1. ~Pending(r) /\ ~Pending(r)' /\ UNCHANGED <<resets, confirmed>>
      BY <1>1, <1>3, <2>0 DEF Unreadable, Nameless, Fault
  <2>2. UNCHANGED tally \/ Count(r, {"unresolved"}) \/ Count(r, {"matched", "failed"})
      BY <1>3 DEF Unreadable, Nameless, Fault
  <2>3. Rests(r) \/ Passes(r)
      BY <1>0, <2>1, <2>2, CountIs DEF Rests, Passes, Same
  <2> QED
      BY <2>1, <2>3
<1>4. CASE Match(r)
  <2>1. ~Pending(r) /\ UNCHANGED <<resets, confirmed>>
      BY <1>4 DEF Match, Matches, AtFile
  <2>2. CASE kind[r] = "quota"
    <3>1. UNCHANGED tally /\ Go(r, "read")
        BY <1>4, <2>2 DEF Match
    <3>2. ~Pending(r)'
        BY <1>1, <3>1 DEF Go
    <3> QED
        BY <2>1, <3>1, <3>2 DEF Rests, Same
  <2>3. CASE kind[r] # "quota"
    <3>1. Count(r, {"matched"}) /\ Go(r, "credits")
        BY <1>4, <2>3 DEF Match
    <3>2. Pending(r)'
        BY <1>1, <3>1 DEF Go
    <3> QED
        BY <1>0, <2>1, <3>1, <3>2, CountIs DEF Takes
  <2> QED
      BY <2>2, <2>3
<1>5. CASE Refused(r) \/ ConsumeFails(r)
  <2>1. confirmed' = [confirmed EXCEPT ![r] = IF FALSE THEN @ \union {Here(r)} ELSE @]
    <3>1. confirmed' = confirmed
        BY <1>5 DEF Refused, ConsumeFails
    <3> QED
        BY <1>1, <3>1
  <2>2. Pending(r) /\ Advance(r) /\ Report(r, FALSE)
      BY <1>5 DEF Refused, ConsumeFails
  <2> QED
      BY <2>1, <2>2 DEF Finishes
<1>6. CASE Consume(r)
    BY <1>6 DEF Consume, Finishes
<1> QED
    BY <1>2, <1>3, <1>4, <1>5, <1>6 DEF Handle, Inspects, Resets

LEMMA RestsList ==
    ASSUME TypeInv, TypeInv', NEW r \in Requests, Handle(r), Listed(r),
           Rests(r) \/ Passes(r) \/ Takes(r), UNCHANGED <<resets, confirmed>>
    PROVE  /\ IsFiniteSet(resets'[r]) /\ IsFiniteSet(confirmed'[r]) /\ CountsWell(r)' /\ KeysDiffer(r)'
<1>0. \A x \in {"matched", "succeeded", "failed"} : tally[r][x] \in Nat /\ tally'[r][x] \in Nat
    BY DEF TypeInv, ResetOK, Counters
<1>1. \A x \in resets[r] : x.tag \in Nat
    BY DEF TypeInv, ResetOK
<1>2. CountsWell(r)'
  <2>1. Good(r)' = Good(r)
      BY DEF Good
  <2>2. CASE Rests(r)
      BY <1>0, <2>1, <2>2 DEF Listed, CountsWell, Rests, Same
  <2>3. CASE Passes(r)
      BY <1>0, <2>1, <2>3 DEF Listed, CountsWell, Passes, Same, Plus
  <2>4. CASE Takes(r)
      BY <1>0, <2>1, <2>4 DEF Listed, CountsWell, Takes, Same, Plus
  <2> QED
      BY <2>2, <2>3, <2>4
<1>3. \A x \in resets'[r] : x.tag < tally'[r]["matched"] + (IF Pending(r)' THEN 0 ELSE 1)
  <2>1. CASE Rests(r)
      BY <1>0, <1>1, <2>1 DEF Listed, KeysDiffer, Rests, Same
  <2>2. CASE Passes(r)
      BY <1>0, <1>1, <2>2 DEF Listed, KeysDiffer, Passes, Plus
  <2>3. CASE Takes(r)
      BY <1>0, <1>1, <2>3 DEF Listed, KeysDiffer, Takes, Plus
  <2> QED
      BY <2>1, <2>2, <2>3
<1>4. \A c \in confirmed'[r] : kind'[r] = "reset" /\ \E i \in 1 .. Len(Files) : i < pos'[r] /\ c = Files[i]
  <2>1. kind' = kind
      BY WalkMoves DEF request
  <2>2. confirmed[r] # {} => pos'[r] >= pos[r]
    <3>1. confirmed[r] # {} => kind[r] = "reset"
        BY DEF Listed, KeysDiffer
    <3>2. kind[r] = "reset" => ~NextPrefix(r)
        BY DEF NextPrefix
    <3>3. pos[r] \in Nat /\ (List(r) => pos'[r] = pos[r])
        BY DEF TypeInv, WalkOK, WalkTypes, List
    <3> QED
        BY <3>1, <3>2, <3>3, QuotaWalks
  <2>3. pos[r] \in Nat /\ pos'[r] \in Nat /\ Len(Files) \in Nat
      BY FilesCount DEF TypeInv, WalkOK, WalkTypes
  <2> QED
      BY <2>1, <2>2, <2>3 DEF Listed, KeysDiffer
<1> QED
    BY <1>2, <1>3, <1>4 DEF Listed, KeysDiffer

\* A report adds an account of its own to the answer.
LEMMA FinishLists ==
    ASSUME TypeInv, TypeInv', NEW r \in Requests, Handle(r), Listed(r),
           NEW ok \in BOOLEAN, Finishes(r, ok)
    PROVE  /\ IsFiniteSet(resets'[r]) /\ IsFiniteSet(confirmed'[r]) /\ CountsWell(r)' /\ KeysDiffer(r)'
<1>1. /\ \A x \in Counters : tally[r][x] \in Nat /\ tally'[r][x] \in Nat
      /\ DOMAIN resets = Requests /\ DOMAIN confirmed = Requests /\ DOMAIN pos = Requests /\ DOMAIN pc = Requests
      /\ \A x \in resets[r] : x.tag \in Nat
      /\ pos[r] \in Nat
    BY DEF TypeInv, ResetOK, WalkOK, WalkTypes
<1>2. /\ pos[r] \in 1 .. Len(Files) /\ Here(r) = Files[pos[r]] /\ kind'[r] = "reset"
  <2>1. pc[r] \in {"read", "credits", "consume"} /\ pc[r] # "read"
      BY DEF Finishes, Pending
  <2> QED
      BY <2>1, WorkFacts, WalkMoves DEF request
<1>3. pos'[r] = pos[r] + 1 /\ Pending(r) /\ ~Pending(r)'
    BY <1>1 DEF Finishes, Advance, Go, Pending
<1>4. PICK x : /\ resets'[r] = resets[r] \union {x} /\ x.success = ok /\ x \notin resets[r]
               /\ x.tag \in Nat /\ x.tag < tally[r]["matched"] + 1
  <2> DEFINE e == email[Here(r)]
             m == tally[r]["matched"]
             taken == \E x \in resets[r] : x.account = e
             x == [account |-> e, tag |-> IF taken THEN m ELSE 0, success |-> ok]
  <2>1. resets'[r] = resets[r] \union {x}
      BY <1>1 DEF Finishes, Report
  <2>2. m \in Nat
      BY <1>1 DEF Counters
  <2>3. \A y \in resets[r] : y.tag < m
      BY <1>1, <1>3, <2>2 DEF Listed, KeysDiffer
  <2>4. x.success = ok /\ x.account = e /\ x.tag = IF taken THEN m ELSE 0
      OBVIOUS
  <2>5. x \notin resets[r]
    <3>1. CASE taken
        BY <2>2, <2>3, <2>4, <3>1
    <3>2. CASE ~taken
        BY <2>4, <3>2
    <3> QED
        BY <3>1, <3>2
  <2>6. x.tag \in Nat /\ x.tag < m + 1
      BY <2>2, <2>4
  <2> HIDE DEF x
  <2> QED
      BY <2>1, <2>4, <2>5, <2>6
<1>5. confirmed'[r] = IF ok THEN confirmed[r] \union {Here(r)} ELSE confirmed[r]
    BY <1>1 DEF Finishes
<1>6. Here(r) \notin confirmed[r]
    BY <1>1, <1>2, FilesCount DEF Listed, KeysDiffer
<1>7. Good(r)' = IF ok THEN Good(r) \union {x} ELSE Good(r)
    BY <1>4 DEF Good
<1>8. x \notin Good(r) /\ IsFiniteSet(Good(r)) /\ IsFiniteSet(resets[r]) /\ IsFiniteSet(confirmed[r])
  <2>1. Good(r) \in SUBSET resets[r]
      BY DEF Good
  <2> QED
      BY <1>4, <2>1, FS_Subset DEF Listed
<1>9. /\ IsFiniteSet(resets'[r]) /\ IsFiniteSet(confirmed'[r])
      /\ Cardinality(confirmed'[r]) = Cardinality(confirmed[r]) + (IF ok THEN 1 ELSE 0)
      /\ Cardinality(Good(r)') = Cardinality(Good(r)) + (IF ok THEN 1 ELSE 0)
  <2>1. /\ IsFiniteSet(resets[r] \union {x}) /\ IsFiniteSet(confirmed[r] \union {Here(r)})
        /\ Cardinality(confirmed[r] \union {Here(r)}) = Cardinality(confirmed[r]) + 1
        /\ Cardinality(Good(r) \union {x}) = Cardinality(Good(r)) + 1
        /\ Cardinality(confirmed[r]) \in Nat /\ Cardinality(Good(r)) \in Nat
      BY <1>6, <1>8, FS_AddElement, FS_CardinalityType
  <2> QED
      BY <1>4, <1>5, <1>7, <1>8, <2>1
<1>10. /\ tally'[r]["matched"] = tally[r]["matched"]
       /\ tally'[r]["succeeded"] = tally[r]["succeeded"] + (IF ok THEN 1 ELSE 0)
       /\ tally'[r]["failed"] = tally[r]["failed"] + (IF ok THEN 0 ELSE 1)
  <2>1. Count(r, {IF ok THEN "succeeded" ELSE "failed"})
      BY DEF Finishes, Report
  <2>2. \A y \in {"matched", "succeeded", "failed"} : y \in Counters
      BY DEF Counters
  <2> QED
      BY <1>1, <2>1, <2>2, CountIs DEF Same, Plus
<1>11. \A y \in {"matched", "succeeded", "failed"} : tally[r][y] \in Nat
    BY <1>1 DEF Counters
<1>12. CountsWell(r)'
  <2>1. /\ Cardinality(confirmed[r]) = tally[r]["succeeded"] /\ Cardinality(Good(r)) = tally[r]["succeeded"]
        /\ \A y \in resets[r] : ~y.success => tally[r]["failed"] > 0
        /\ tally[r]["matched"] = tally[r]["succeeded"] + tally[r]["failed"] + 1
      BY <1>3 DEF Listed, CountsWell
  <2>2. \A y \in resets'[r] : ~y.success => tally'[r]["failed"] > 0
      BY <1>4, <1>10, <1>11, <2>1
  <2> QED
      BY <1>3, <1>9, <1>10, <1>11, <2>1, <2>2 DEF CountsWell
<1>13. KeysDiffer(r)'
  <2>1. \A y \in resets'[r] : y.tag < tally'[r]["matched"] + 1
      BY <1>1, <1>3, <1>4, <1>10, <1>11 DEF Listed, KeysDiffer
  <2>2. \A c \in confirmed'[r] : \E i \in 1 .. Len(Files) : i < pos'[r] /\ c = Files[i]
      BY <1>1, <1>2, <1>3, <1>5, FilesCount DEF Listed, KeysDiffer
  <2> QED
      BY <1>2, <1>3, <2>1, <2>2 DEF KeysDiffer
<1> QED
    BY <1>9, <1>12, <1>13

LEMMA ListsStep ==
    ASSUME TypeInv, NEW r \in Requests, Handle(r), Listed(r)
    PROVE  Lists(r)'
<1> SUFFICES ASSUME Answered(r, "reset")'
             PROVE  /\ Cardinality(Good(r)') = Cardinality(confirmed'[r])
                    /\ confirmed'[r] # {} => answer'[r].success \/ answer'[r].partial
    BY DEF Lists
<1>1. kind[r] = "reset"
    BY WalkMoves DEF request, Answered
<1>2. AnswerReset(r) /\ answer'[r] = ResetAnswer(r)
    BY <1>1, AnswerMoves, AnswerFields DEF Answered, AnswerQuota
<1>3. ~Pending(r) /\ UNCHANGED <<resets, confirmed>>
    BY <1>2 DEF AnswerReset, Walked, Pending, reset
<1>4. /\ Cardinality(confirmed[r]) = tally[r]["succeeded"] /\ Cardinality(Good(r)) = tally[r]["succeeded"]
      /\ \A x \in resets[r] : ~x.success => tally[r]["failed"] > 0
      /\ tally[r]["matched"] = tally[r]["succeeded"] + tally[r]["failed"]
      /\ \A x \in {"matched", "succeeded", "failed", "unresolved"} : tally[r][x] \in Nat
    BY <1>3 DEF Listed, CountsWell, TypeInv, ResetOK, Counters
<1>5. ASSUME confirmed[r] # {} PROVE ResetAnswer(r).success \/ ResetAnswer(r).partial
  <2>1. tally[r]["succeeded"] > 0 /\ tally[r]["matched"] > 0
      BY <1>4, <1>5, FS_EmptySet DEF Listed
  <2>2. CASE tally[r]["failed"] > 0 \/ tally[r]["unresolved"] > 0
      BY <2>1, <2>2 DEF ResetAnswer
  <2>3. CASE ~(tally[r]["failed"] > 0 \/ tally[r]["unresolved"] > 0)
    <3>1. \A x \in resets[r] : x.success
        BY <1>4, <2>3
    <3>2. Good(r) = resets[r]
        BY <3>1 DEF Good
    <3>3. Cardinality(resets[r]) = tally[r]["matched"]
        BY <1>4, <2>3, <3>2
    <3> QED
        BY <2>1, <2>3, <3>3 DEF ResetAnswer
  <2> QED
      BY <2>2, <2>3
<1>6. Good(r)' = Good(r)
    BY <1>3 DEF Good
<1> QED
    BY <1>2, <1>3, <1>4, <1>5, <1>6

LEMMA ListedStays ==
    ASSUME NEW r \in Requests, UNCHANGED State(r), UNCHANGED resets[r], Listed(r)
    PROVE  Listed(r)'
<1>1. /\ UNCHANGED <<kind[r], pc[r], pos[r], tally[r], answer[r], confirmed[r], resets[r]>>
    BY DEF State
<1>2. Good(r)' = Good(r) /\ Pending(r)' = Pending(r) /\ Answered(r, "reset")' = Answered(r, "reset")
    BY <1>1 DEF Good, Pending, Answered
<1> QED
    BY <1>1, <1>2 DEF Listed, CountsWell, KeysDiffer, Lists

LEMMA OthersReportsStay ==
    ASSUME TypeInv, NEW r \in Requests, Handle(r), NEW s \in Requests \ {r}
    PROVE  UNCHANGED resets[s]
<1>1. DOMAIN resets = Requests
    BY DEF TypeInv, ResetOK
<1>2. CASE UNCHANGED resets
    BY <1>2
<1>3. ASSUME NEW ok \in BOOLEAN, Finishes(r, ok) PROVE UNCHANGED resets[s]
    BY <1>1, <1>3 DEF Finishes, Report
<1> QED
    BY <1>2, <1>3, ReportMoves

LEMMA ListedStarts == Init => ListedInv
<1> SUFFICES ASSUME Init, NEW r \in Requests PROVE Listed(r)
    BY TypesStart DEF ListedInv
<1>1. /\ pc[r] = "list" /\ resets[r] = {} /\ confirmed[r] = {}
      /\ tally[r]["matched"] = 0 /\ tally[r]["succeeded"] = 0 /\ tally[r]["failed"] = 0
    BY DEF Init, NoTally, Counters
<1>2. Good(r) = {} /\ ~Pending(r) /\ ~Answered(r, "reset")
    BY <1>1 DEF Good, Pending, Answered
<1> QED
    BY <1>1, <1>2, FS_EmptySet DEF Listed, CountsWell, KeysDiffer, Lists

LEMMA ListedStep == ListedInv /\ [Next]_vars => ListedInv'
<1> SUFFICES ASSUME ListedInv, [Next]_vars PROVE ListedInv'
    OBVIOUS
<1>1. TypeInv /\ TypeInv' /\ \A r \in Requests : Listed(r)
    BY TypesStep DEF ListedInv
<1>2. ASSUME NEW r \in Requests, Handle(r), NEW s \in Requests PROVE Listed(s)'
  <2>1. CASE s # r
      BY <1>1, <1>2, <2>1, OthersStay, OthersReportsStay, ListedStays
  <2>2. CASE s = r
    <3>1. IsFiniteSet(resets'[r]) /\ IsFiniteSet(confirmed'[r]) /\ CountsWell(r)' /\ KeysDiffer(r)'
        BY <1>1, <1>2, ReportMoves, RestsList, FinishLists
    <3>2. Lists(r)'
        BY <1>1, <1>2, ListsStep
    <3> QED
        BY <2>2, <3>1, <3>2 DEF Listed
  <2> QED
      BY <2>1, <2>2
<1>3. ASSUME Change \/ UNCHANGED vars, NEW s \in Requests PROVE Listed(s)'
  <2>1. UNCHANGED State(s) /\ UNCHANGED resets[s]
      BY <1>3 DEF Change, vars, State, request, walk, found, reset
  <2> QED
      BY <1>1, <2>1, ListedStays
<1> QED
    BY <1>1, <1>2, <1>3 DEF Next, ListedInv

\* However many credentials share an email, each reset that was confirmed is in
\* the answer under a key of its own, and the answer is not a plain failure.
THEOREM ConfirmedIsListed == Spec => []ResetsAreListed
<1>1. ListedInv => ResetsAreListed
    BY DEF ListedInv, Listed, Lists, Good, ResetsAreListed
<1> QED
    BY <1>1, ListedStarts, ListedStep, PTL DEF Spec

-----------------------------------------------------------------------------
(* Where no email is shared the nominal prefix is kept *)

\* The credentials CPA lists have different emails: what the code relies on when
\* it keeps accounts under their email (quota.go, 523).
EmailsDiffer ==
    \A w \in Worlds : \A c, d \in Creds : w.email[c] = w.email[d] /\ w.email[c] # NoEmail => c = d

Apart == \A c, d \in Creds : email[c] = email[d] /\ email[c] # NoEmail => c = d

LEMMA EmailsStay ==
    ASSUME [Next]_vars PROVE email' = email
<1> USE DEF world, vars
<1>1. ASSUME NEW r \in Requests, Handle(r) PROVE email' = email
    <2>1. CASE List(r) \/ ListFails(r)
        BY <2>1 DEF List, ListFails
    <2>2. CASE Inspects(r)
        BY <2>2 DEF Inspects, Unreadable, Skip, Nameless, Match
    <2>3. CASE Reads(r)
        BY <2>3 DEF Reads, ReadAccount, ReadFails
    <2>4. CASE Resets(r)
        BY <2>4 DEF Resets, CreditsRead, CreditsRetried, Refused, Consume, ConsumeFails
    <2>5. CASE Answers(r)
        BY <2>5 DEF Answers, NextPrefix, AnswerQuota, AnswerReset
    <2> QED
        BY <1>1, <2>1, <2>2, <2>3, <2>4, <2>5 DEF Handle
<1>2. CASE Change
    BY <1>2 DEF Change
<1> QED
    BY <1>1, <1>2 DEF Next

\* Where no two credentials have one email, the nominal prefix stays the actual
\* one as long as an account of it that could be read has quota: the sharing of
\* an email is the only way to lose it.
THEOREM NominalKept == ASSUME EmailsDiffer PROVE Spec => []NominalStaysActual
<1>1. Init => Apart
    BY EmailsDiffer DEF Init, EmailsDiffer, Apart
<1>2. Apart /\ [Next]_vars => Apart'
    BY EmailsStay DEF Apart
<1>3. TypeInv /\ Apart /\ AvailableIsReported => NominalStaysActual
    <2> SUFFICES ASSUME TypeInv, Apart, AvailableIsReported,
                        NEW r \in Requests, Answered(r, "quota"),
                        NEW c \in listed[r] \ unread[r],
                        email[c] # NoEmail, had[c] = {"left"}, carried[c] = {nominal[r]}
                 PROVE  answer[r].actual = 1
        BY DEF NominalStaysActual
    <2>1. nominal[r] \in PrefixNames /\ c \in Creds /\ listed[r] \subseteq Creds
        BY DEF TypeInv, WorldOK, WalkOK, WalkTypes
    <2>2. Chain(nominal[r])[1] = nominal[r] /\ 1 \in Candidates(nominal[r])
        BY <2>1, ChainIsSeq
    <2>3. AloneByEmail(r, c)
        BY <2>1 DEF Apart, AloneByEmail
    <2>4. answer[r].actual <= 1
        BY <2>2, <2>3 DEF AvailableIsReported
    <2>5. answer[r].actual \in Nat \ {0}
        BY DEF TypeInv, AnswerOK, AnswerType
    <2> QED
        BY <2>4, <2>5
<1> QED
    BY <1>1, <1>2, <1>3, ResourceTypes, NoAccountPassedOver, PTL DEF Spec

=============================================================================
