-------------------------- MODULE KeyRouting_proofs --------------------------
(***************************************************************************)
(* Requests are routed by keys CPA lists and by models CPA offers, for any *)
(* number of requests, keys, configurations, rewrites and offers.          *)
(***************************************************************************)
EXTENDS KeyRouting, ConfigReader_proofs

\* What TypeOK leaves open.
AreFunctions ==
    /\ final = [r \in Requests |-> final[r]]
    /\ wanted = [r \in Requests |-> wanted[r]]
    /\ answer = [r \in Requests |-> answer[r]]

Routed == {"lookup", "asking", "answered", "decided"}

\* Resolve looked at a version that was there.
SeenIsThere == \A r \in Requests : stage[r] \in Routed => seen[r] > 0

KeyInv ==
    /\ ReaderInv
    /\ TypeOK
    /\ AreFunctions
    /\ SeenIsThere
    /\ KeyWasListed

-----------------------------------------------------------------------------
(* The reader of the configuration inside the plugin *)

LEMMA ReaderSteps == ASSUME [Next]_vars PROVE [ReaderNext]_readerVars
<1>1. CASE \E r \in Requests : Serve(r)
  <2>1. PICK r \in Requests : Serve(r)
      BY <1>1
  <2>2. CASE TakesSnapshot(r)
      BY <2>2 DEF TakesSnapshot, ReaderNext
  <2>3. CASE Route(r) \/ ResolveFails(r) \/ Resolve(r)
      BY <2>3 DEF Route, ResolveFails, Resolve, ReaderNext
  <2>4. CASE CatalogHit(r) \/ Fetches(r)
      BY <2>4 DEF CatalogHit, Fetches, CatalogMiss, Answer, FetchFails, Store
  <2> QED
      BY <2>1, <2>2, <2>3, <2>4 DEF Serve
<1>2. CASE Rewrite /\ UNCHANGED routingVars
    BY <1>2 DEF ReaderNext
<1>3. CASE Tick \/ Reoffer
    BY <1>3 DEF Tick, Reoffer
<1>4. CASE UNCHANGED vars
    BY <1>4 DEF vars
<1> QED
    BY <1>1, <1>2, <1>3, <1>4 DEF Next

\* Inside the plugin the reader behaves as it does alone.
THEOREM ReaderInPlace == Spec => ReaderSpec
<1>1. Init => ReaderInit
    BY DEF Init
<1> QED
    BY <1>1, ReaderSteps, PTL DEF Spec, ReaderSpec

\* The snapshots Route and Resolve are given are those of the file as it was
\* during the call.
THEOREM PluginSnapshotsAreCurrent == Spec => []SnapshotIsCurrent
BY ReaderInPlace, SnapshotsAreCurrent, PTL

\* The file is rewritten, never forgotten.
LEMMA ContentsGrow ==
    ASSUME ReaderInv, [ReaderNext]_readerVars
    PROVE  /\ Version' \in Nat /\ Version' >= Version
           /\ \A v \in 1 .. Version : contents'[v] = contents[v]
<1> USE DEF ReaderInv, ReaderTypeOK, Version
<1>1. CASE Rewrite
    BY <1>1, WrittenAreFiles DEF Rewrite
<1>2. CASE contents' = contents
    BY <1>2
<1>3. CASE \E r \in Requests : Snapshot(r) \/ Use(r)
    BY <1>2, <1>3 DEF Snapshot, Stat, Kept, Read, ReadFails, Use
<1> QED
    BY <1>1, <1>2, <1>3 DEF ReaderNext, readerVars

-----------------------------------------------------------------------------
(* The key of a request *)

LEMMA KeyStarts == Init => KeyInv
<1> SUFFICES ASSUME Init PROVE KeyInv
    OBVIOUS
<1> USE DEF Init
<1>1. ReaderInv
    BY ReaderStarts
<1>2. PICK o \in Offers : offered = <<[since |-> 0, to |-> o]>>
    OBVIOUS
<1>3. offered \in Seq([since : Nat, to : Offers])
    BY <1>2
<1>4. TypeOK
    BY <1>1, <1>3 DEF TypeOK, ReaderInv, Stages
<1> QED
    BY <1>1, <1>4 DEF KeyInv, AreFunctions, SeenIsThere, KeyWasListed, Routed

\* The key is one of the candidates, and in the list.
LEMMA KeyIsListed ==
    ASSUME KeyInv, NEW r \in Requests, NEW k \in APIKeys(r, Listed(r))
    PROVE  k \in Keys /\ k \in Listed(r)
<1>1. call[r].candidates \in Seq(Keys)
    BY CallsPresentKeys DEF KeyInv, TypeOK
<1> QED
    BY <1>1 DEF APIKeys

\* A request that was in Resolve or before it is routed by no key yet; one
\* that keeps its key, and what it saw, keeps its witness.
LEMMA WitnessStays ==
    ASSUME KeyInv, [Next]_vars, UNCHANGED <<key, seen>>,
           \A r \in Requests : stage'[r] \in Routed => stage[r] \in Routed
    PROVE  SeenIsThere' /\ KeyWasListed'
<1>1. /\ Version' \in Nat /\ Version' >= Version /\ Version \in Nat \ {0}
      /\ \A v \in 1 .. Version : contents'[v] = contents[v]
      /\ \A r \in Requests : seen[r] \in Nat
    BY ReaderSteps, ContentsGrow DEF KeyInv, ReaderInv, ReaderTypeOK, Version, TypeOK
<1>0. SeenIsThere'
    BY DEF KeyInv, SeenIsThere
<1> SUFFICES ASSUME NEW r \in Requests, stage'[r] \in Routed
             PROVE  \E v \in seen[r] .. Version' :
                        contents'[v].state = "list" /\ key[r] \in contents'[v].keys
    BY <1>0 DEF KeyWasListed, Routed
<1>2. PICK v \in seen[r] .. Version : contents[v].state = "list" /\ key[r] \in contents[v].keys
    BY DEF KeyInv, KeyWasListed, Routed
<1>3. seen[r] > 0
    BY DEF KeyInv, SeenIsThere
<1> QED
    BY <1>1, <1>2, <1>3

\* What a step that does not resolve a request leaves of the invariant.
LEMMA StepKeeps ==
    ASSUME KeyInv, [Next]_vars, ReaderInv', TypeOK', AreFunctions', UNCHANGED <<key, seen>>,
           \A r \in Requests : stage'[r] \in Routed => stage[r] \in Routed
    PROVE  KeyInv'
BY WitnessStays DEF KeyInv

LEMMA ResolveKeeps ==
    ASSUME KeyInv, [Next]_vars, ReaderInv', NEW r \in Requests, Resolve(r)
    PROVE  KeyInv'
<1> USE DEF KeyInv, TypeOK, AreFunctions
<1>1. PICK k \in APIKeys(r, Listed(r)) : key' = [key EXCEPT ![r] = k]
    BY DEF Resolve
<1>2. k \in Keys /\ k \in Listed(r)
    BY KeyIsListed
<1>3. /\ stage' \in [Requests -> Stages]
      /\ \A q \in Requests : q # r => stage'[q] = stage[q]
    BY DEF Resolve, Stage, Stages
<1>4. /\ seen' = [seen EXCEPT ![r] = snap[r].stamp] /\ decided' = [decided EXCEPT ![r] = now]
      /\ UNCHANGED <<config, call, catalog, holder, deadline, answer, now, offered>>
    BY DEF Resolve, inputs, shared, lookup
<1>5. /\ snap[r].pc = "returned" /\ contents' = contents
      /\ snap[r].stamp \in 1 .. Version /\ snap[r].version \in snap[r].stamp .. Version
      /\ contents[snap[r].version].state = "list"
    BY DEF Resolve, Keyed, Usable, Use, ReaderInv, LookedIsThere, SnapshotIsCurrent
<1>6. key' \in [Requests -> Keys \union {Default}] /\ usedDefault' \in [Requests -> BOOLEAN]
    BY <1>1, <1>2 DEF Resolve
<1>7. Version \in Nat /\ seen' \in [Requests -> Nat] /\ decided' \in [Requests -> Nat]
    BY <1>4, <1>5 DEF ReaderInv, ReaderTypeOK, Version
<1>8. TypeOK'
    BY <1>3, <1>4, <1>6, <1>7 DEF ReaderInv
<1>9. AreFunctions'
    BY <1>4 DEF Resolve
<1>10. SeenIsThere'
    BY <1>3, <1>4, <1>5 DEF SeenIsThere
<1>11. KeyWasListed'
  <2> SUFFICES ASSUME NEW q \in Requests, stage'[q] \in Routed
               PROVE  \E v \in seen'[q] .. Version :
                          contents[v].state = "list" /\ key'[q] \in contents[v].keys
      BY <1>5 DEF KeyWasListed, Routed, Version
  <2>1. CASE q = r
      BY <1>1, <1>2, <1>4, <1>5, <2>1 DEF Listed
  <2>2. CASE q # r
      BY <1>1, <1>3, <1>4, <2>2 DEF KeyWasListed, Routed
  <2> QED
      BY <2>1, <2>2
<1> QED
    BY <1>8, <1>9, <1>10, <1>11

LEMMA CatalogKeeps ==
    ASSUME KeyInv, [Next]_vars, ReaderInv', NEW r \in Requests, CatalogHit(r) \/ Fetches(r)
    PROVE  KeyInv'
<1> USE DEF KeyInv, TypeOK, AreFunctions, Routed
<1>1. CASE CatalogHit(r)
  <2>1. stage' = [stage EXCEPT ![r] = "decided"] /\ stage[r] = "lookup"
      BY <1>1 DEF CatalogHit, Decide, Stage
  <2>2. TypeOK' /\ AreFunctions'
      BY <1>1, <2>1 DEF CatalogHit, Decide, shared, inputs, lookup, Stages, ReaderInv
  <2> QED
      BY <1>1, <2>1, <2>2, StepKeeps DEF CatalogHit, Decide
<1>2. CASE CatalogMiss(r)
  <2>1. stage' = [stage EXCEPT ![r] = "asking"] /\ stage[r] = "lookup"
      BY <1>2 DEF CatalogMiss, Stage
  <2>2. deadline' \in [Requests -> Nat]
      BY <1>2, TimeoutIsPositive DEF CatalogMiss
  <2>3. TypeOK' /\ AreFunctions'
      BY <1>2, <2>1, <2>2 DEF CatalogMiss, decision, inputs, Stages, ReaderInv
  <2> QED
      BY <1>2, <2>1, <2>3, StepKeeps DEF CatalogMiss, decision
<1>3. CASE Answer(r)
  <2>1. stage' = [stage EXCEPT ![r] = "answered"] /\ stage[r] = "asking"
      BY <1>3 DEF Answer, Stage
  <2>2. TypeOK' /\ AreFunctions'
      BY <1>3, <2>1 DEF Answer, decision, inputs, shared, Stages, ReaderInv
  <2> QED
      BY <1>3, <2>1, <2>2, StepKeeps DEF Answer, decision
<1>4. CASE FetchFails(r)
  <2>1. stage' = [stage EXCEPT ![r] = "failed"]
      BY <1>4 DEF FetchFails, Stage
  <2>2. TypeOK' /\ AreFunctions'
      BY <1>4, <2>1 DEF FetchFails, Over, decision, inputs, Stages, ReaderInv
  <2> QED
      BY <1>4, <2>1, <2>2, StepKeeps DEF FetchFails, decision
<1>5. CASE Store(r)
  <2>1. stage' = [stage EXCEPT ![r] = "decided"] /\ stage[r] = "answered"
      BY <1>5 DEF Store, Decide, Stage
  <2>2. catalog'.expiresAt \in Nat
      BY <1>5, ConfigsAreRead DEF Store
  <2>3. TypeOK' /\ AreFunctions'
      BY <1>5, <2>1, <2>2 DEF Store, Decide, Over, inputs, Stages, ReaderInv
  <2> QED
      BY <1>5, <2>1, <2>3, StepKeeps DEF Store, Decide
<1> QED
    BY <1>1, <1>2, <1>3, <1>4, <1>5 DEF Fetches

LEMMA OthersKeep ==
    ASSUME KeyInv, [Next]_vars, ReaderInv',
           \/ \E r \in Requests : TakesSnapshot(r) \/ Route(r) \/ ResolveFails(r)
           \/ Rewrite /\ UNCHANGED routingVars
           \/ Tick \/ Reoffer \/ UNCHANGED vars
    PROVE  KeyInv'
<1> USE DEF KeyInv, TypeOK, AreFunctions, ReaderInv
<1>1. CASE UNCHANGED routingVars
    BY <1>1, StepKeeps DEF routingVars, inputs, decision, shared, lookup
<1>2. CASE \E r \in Requests : Route(r) \/ ResolveFails(r)
  <2>1. PICK r \in Requests : Route(r) \/ ResolveFails(r)
      BY <1>2
  <2>2. PICK s \in {"failed", "resolve", "declined"} : stage' = [stage EXCEPT ![r] = s]
      BY <2>1 DEF Route, ResolveFails, Stage
  <2>3. UNCHANGED <<inputs, decision, shared, lookup, now, offered>>
      BY <2>1 DEF Route, ResolveFails
  <2>4. TypeOK' /\ AreFunctions'
      BY <2>2, <2>3 DEF inputs, decision, shared, lookup, Stages
  <2> QED
      BY <2>2, <2>3, <2>4, StepKeeps DEF decision, Routed
<1>3. CASE Tick
    BY <1>3, StepKeeps DEF Tick, inputs, decision, shared, lookup
<1>4. CASE Reoffer
  <2>1. PICK o \in Offers : offered' = Append(offered, [since |-> now, to |-> o])
      BY <1>4 DEF Reoffer
  <2>2. offered' \in Seq([since : Nat, to : Offers])
      BY <2>1
  <2> QED
      BY <1>4, <2>2, StepKeeps DEF Reoffer, inputs, decision, shared, lookup
<1> QED
    BY <1>1, <1>2, <1>3, <1>4 DEF TakesSnapshot, vars

\* Requests are routed by keys that were listed when Resolve looked.
THEOREM KeyInductive == Spec => []KeyInv
<1>1. KeyInv /\ ReaderInv' /\ [Next]_vars => KeyInv'
  <2> SUFFICES ASSUME KeyInv, ReaderInv', [Next]_vars PROVE KeyInv'
      OBVIOUS
  <2>1. CASE \E r \in Requests : Serve(r)
      BY <2>1, OthersKeep, ResolveKeeps, CatalogKeeps DEF Serve
  <2>2. CASE ~\E r \in Requests : Serve(r)
      BY <2>2, OthersKeep DEF Next
  <2> QED
      BY <2>1, <2>2
<1>2. Spec => []ReaderInv
    BY ReaderInPlace, ReaderInductive, PTL
<1> QED
    BY <1>1, <1>2, KeyStarts, PTL DEF Spec

\* The variables keep their types.
THEOREM RoutingTypes == Spec => []TypeOK
<1>1. KeyInv => TypeOK
    BY DEF KeyInv
<1> QED
    BY <1>1, KeyInductive, PTL

\* The key a request is routed by was listed after Resolve looked at the file.
THEOREM RoutedByListedKeys == Spec => []KeyWasListed
<1>1. KeyInv => KeyWasListed
    BY DEF KeyInv
<1> QED
    BY <1>1, KeyInductive, PTL

-----------------------------------------------------------------------------
(* The model of a request, when CPA offers every key the same models *)

\* Models were on offer to k at most span ticks before at.
Late(models, k, span, at) ==
    \E i \in DOMAIN offered :
        /\ models = offered[i].to[k]
        /\ i < Len(offered) => offered[i + 1].since + span >= at

Fetching == {"asking", "answered"}

Clock ==
    /\ offered # <<>>
    /\ \A i \in DOMAIN offered : offered[i].since <= now
    /\ catalog.expiresAt <= now + config.ttl
    /\ \A r \in Requests : stage[r] \in Fetching =>
        now <= deadline[r] /\ deadline[r] <= now + Timeout
    /\ \A r \in Requests : decided[r] <= now

\* An answer is no older than its look-up, what is kept no older than its
\* lifetime and one look-up.
AnswerIsRecent ==
    \A r \in Requests : stage[r] = "answered" => Late(answer[r], key[r], Timeout, deadline[r])

CatalogIsRecent ==
    catalog.models # {} =>
        \A k \in Keys : Late(catalog.models, k, Timeout + config.ttl, catalog.expiresAt)

Span == Timeout + (IF config.ttl > 0 THEN config.ttl - 1 ELSE 0)

\* One request's part of DecisionWasTrue.
TrueFor(r) ==
    stage[r] = "decided" /\ wanted[r] # <<>> =>
        \E i \in DOMAIN offered :
            /\ offered[i].since <= decided[r]
            /\ i < Len(offered) => offered[i + 1].since + Span >= decided[r]
            /\ usedDefault[r] <=> wanted[r] \notin offered[i].to[key[r]]

OfferInv ==
    /\ Clock
    /\ AnswerIsRecent
    /\ CatalogIsRecent
    /\ \A r \in Requests : TrueFor(r)

-----------------------------------------------------------------------------
LEMMA OfferStarts == Init => OfferInv
<1> SUFFICES ASSUME Init PROVE OfferInv
    OBVIOUS
<1>1. PICK o \in Offers : offered = <<[since |-> 0, to |-> o]>>
    BY DEF Init
<1>2. config.ttl \in Nat
    BY ConfigsAreRead DEF Init
<1>3. offered # <<>> /\ \A i \in DOMAIN offered : offered[i].since = 0
    BY <1>1
<1>4. Clock
    BY <1>2, <1>3 DEF Init, Clock, Fetching
<1>5. AnswerIsRecent /\ CatalogIsRecent /\ \A r \in Requests : TrueFor(r)
    BY DEF Init, AnswerIsRecent, CatalogIsRecent, TrueFor
<1> QED
    BY <1>4, <1>5 DEF OfferInv

\* An element of a sequence is of the type of the sequence.
LEMMA ElementIn == ASSUME NEW S, NEW s \in Seq(S), NEW i \in DOMAIN s PROVE s[i] \in S
OBVIOUS

\* The numbers the rest is about.
LEMMA Numbers ==
    ASSUME KeyInv
    PROVE  /\ config.ttl \in Nat /\ Timeout \in Nat \ {0} /\ Span \in Nat
           /\ now \in Nat /\ catalog.expiresAt \in Nat
           /\ \A r \in Requests : deadline[r] \in Nat /\ decided[r] \in Nat
           /\ \A i \in DOMAIN offered : offered[i].since \in Nat /\ offered[i].to \in Offers
           /\ offered \in Seq([since : Nat, to : Offers])
<1>1. config.ttl \in Nat
    BY ConfigsAreRead DEF KeyInv, TypeOK
<1>2. Span \in Nat
  <2>1. CASE config.ttl > 0
      BY <1>1, <2>1, TimeoutIsPositive DEF Span
  <2>2. CASE ~(config.ttl > 0)
      BY <1>1, <2>2, TimeoutIsPositive DEF Span
  <2> QED
      BY <2>1, <2>2
<1>3. offered \in Seq([since : Nat, to : Offers])
    BY DEF KeyInv, TypeOK
<1>4. ASSUME NEW i \in DOMAIN offered PROVE offered[i].since \in Nat /\ offered[i].to \in Offers
  <2>1. offered[i] \in [since : Nat, to : Offers]
      BY <1>3, <1>4, ElementIn
  <2> QED
      BY <2>1
<1>5. now \in Nat /\ catalog.expiresAt \in Nat
    BY DEF KeyInv, TypeOK
<1>6. \A r \in Requests : deadline[r] \in Nat /\ decided[r] \in Nat
    BY DEF KeyInv, TypeOK
<1> QED
    BY <1>1, <1>2, <1>3, <1>4, <1>5, <1>6, TimeoutIsPositive

\* CPA offers something else: what was on offer still was.
LEMMA ReofferKeeps == ASSUME KeyInv, OfferInv, Reoffer PROVE OfferInv'
<1>1. PICK o \in Offers : offered' = Append(offered, [since |-> now, to |-> o])
    BY DEF Reoffer
<1>2. /\ UNCHANGED <<config, stage, key, usedDefault, wanted, decided, catalog, deadline, answer, now>>
    BY DEF Reoffer, inputs, decision, shared, lookup
<1>3. /\ Len(offered') = Len(offered) + 1 /\ Len(offered) \in Nat
      /\ DOMAIN offered = 1 .. Len(offered) /\ DOMAIN offered' = 1 .. Len(offered) + 1
      /\ \A i \in 1 .. Len(offered) : offered'[i] = offered[i]
      /\ offered'[Len(offered) + 1].since = now
    BY <1>1, Numbers
<1>4. \A i \in DOMAIN offered :
        /\ i \in DOMAIN offered' /\ offered'[i] = offered[i]
        /\ offered'[i + 1].since = IF i < Len(offered) THEN offered[i + 1].since ELSE now
    BY <1>3
<1>5. ASSUME NEW models, NEW k, NEW span \in Nat, NEW at \in Nat,
             Late(models, k, span, at), at <= now + span
      PROVE  Late(models, k, span, at)'
    BY <1>2, <1>4, <1>5 DEF Late
<1>6. Clock'
    BY <1>2, <1>3, Numbers DEF OfferInv, Clock
<1>7. AnswerIsRecent'
    BY <1>2, <1>5, Numbers DEF OfferInv, AnswerIsRecent, Clock, Fetching
<1>8. CatalogIsRecent'
  <2> SUFFICES ASSUME catalog.models # {}, NEW k \in Keys
               PROVE  Late(catalog.models, k, Timeout + config.ttl, catalog.expiresAt)'
      BY <1>2 DEF CatalogIsRecent
  <2>1. /\ Late(catalog.models, k, Timeout + config.ttl, catalog.expiresAt)
        /\ catalog.expiresAt <= now + (Timeout + config.ttl)
      BY Numbers DEF OfferInv, CatalogIsRecent, Clock
  <2> QED
      BY <1>2, <1>5, <2>1, Numbers
<1>9. ASSUME NEW r \in Requests PROVE TrueFor(r)'
  <2> SUFFICES ASSUME stage[r] = "decided", wanted[r] # <<>>
               PROVE  \E i \in DOMAIN offered' :
                        /\ offered'[i].since <= decided[r]
                        /\ i < Len(offered') => offered'[i + 1].since + Span >= decided[r]
                        /\ usedDefault[r] <=> wanted[r] \notin offered'[i].to[key[r]]
      BY <1>2 DEF TrueFor, Span
  <2>1. PICK i \in DOMAIN offered :
            /\ offered[i].since <= decided[r]
            /\ i < Len(offered) => offered[i + 1].since + Span >= decided[r]
            /\ usedDefault[r] <=> wanted[r] \notin offered[i].to[key[r]]
      BY <1>9 DEF OfferInv, TrueFor
  <2>2. /\ i \in DOMAIN offered' /\ offered'[i] = offered[i]
        /\ offered'[i + 1].since = IF i < Len(offered) THEN offered[i + 1].since ELSE now
      BY <1>4
  <2>3. decided[r] <= now + Span /\ decided[r] <= now
      BY <1>9, Numbers DEF OfferInv, Clock
  <2>4. offered'[i + 1].since + Span >= decided[r]
      BY <1>3, <2>1, <2>2, <2>3, Numbers
  <2> QED
      BY <2>1, <2>2, <2>4
<1> QED
    BY <1>6, <1>7, <1>8, <1>9 DEF OfferInv

\* A request moves on, while CPA offers what it did: the others stay as they
\* were, and the numbers of this one are right.
LEMMA OneMoves ==
    ASSUME KeyInv, OfferInv, NEW r \in Requests, UNCHANGED <<config, now, offered>>,
           \A q \in Requests : q # r =>
               /\ stage'[q] = stage[q] /\ key'[q] = key[q] /\ answer'[q] = answer[q]
               /\ deadline'[q] = deadline[q] /\ decided'[q] = decided[q]
               /\ wanted'[q] = wanted[q] /\ usedDefault'[q] = usedDefault[q],
           CatalogIsRecent', catalog'.expiresAt <= now + config.ttl,
           stage'[r] \in Fetching => now <= deadline'[r] /\ deadline'[r] <= now + Timeout,
           decided'[r] <= now,
           stage'[r] = "answered" => Late(answer'[r], key'[r], Timeout, deadline'[r]),
           TrueFor(r)'
    PROVE  OfferInv'
<1>1. Clock'
    BY DEF OfferInv, Clock
<1>2. AnswerIsRecent'
  <2> SUFFICES ASSUME NEW q \in Requests, stage'[q] = "answered"
               PROVE  Late(answer[q], key[q], Timeout, deadline[q])'
      BY DEF AnswerIsRecent
  <2>1. CASE q = r
      BY <2>1 DEF Late
  <2>2. CASE q # r
      BY <2>2 DEF OfferInv, AnswerIsRecent, Late
  <2> QED
      BY <2>1, <2>2
<1>3. ASSUME NEW q \in Requests PROVE TrueFor(q)'
  <2>1. CASE q # r
    <3>1. TrueFor(q)
        BY DEF OfferInv
    <3> QED
        BY <2>1, <3>1 DEF TrueFor, Span
  <2> QED
      BY <2>1
<1> QED
    BY <1>1, <1>2, <1>3 DEF OfferInv

\* A decision taken now agrees with what was on offer no more than Span ago.
LEMMA DecidedNow ==
    ASSUME KeyInv, OfferInv, NEW r \in Requests, NEW models,
           UNCHANGED <<config, offered, now, key, wanted>>,
           decided'[r] = now, usedDefault'[r] <=> wanted[r] \notin models,
           Late(models, key[r], Span, now)
    PROVE  TrueFor(r)'
<1>1. PICK i \in DOMAIN offered :
        /\ models = offered[i].to[key[r]]
        /\ i < Len(offered) => offered[i + 1].since + Span >= now
    BY DEF Late
<1>2. offered[i].since <= now
    BY DEF OfferInv, Clock
<1> QED
    BY <1>1, <1>2 DEF TrueFor, Span

\* Route, Resolve and their snapshots know nothing of what is on offer.
LEMMA BeforeLookUp ==
    ASSUME KeyInv, OfferInv, NEW r \in Requests, Route(r) \/ ResolveFails(r) \/ Resolve(r)
    PROVE  OfferInv'
<1> USE DEF KeyInv, TypeOK, AreFunctions
<1>1. UNCHANGED <<config, catalog, deadline, answer, now, offered>>
    BY DEF Route, ResolveFails, Resolve, inputs, shared, lookup
<1>2. CatalogIsRecent' /\ catalog'.expiresAt <= now + config.ttl
    BY <1>1 DEF OfferInv, CatalogIsRecent, Late, Clock
<1>3. CASE Route(r) \/ ResolveFails(r)
  <2>1. PICK s \in {"failed", "resolve", "declined"} : stage' = [stage EXCEPT ![r] = s]
      BY <1>3 DEF Route, ResolveFails, Stage
  <2>2. UNCHANGED <<key, usedDefault, wanted, decided>>
      BY <1>3 DEF Route, ResolveFails, decision
  <2>3. decided'[r] <= now
      BY <2>2 DEF OfferInv, Clock
  <2>4. stage'[r] = s /\ TrueFor(r)'
      BY <2>1 DEF TrueFor
  <2> QED
      BY <1>1, <1>2, <2>1, <2>2, <2>3, <2>4, OneMoves DEF Fetching
<1>4. CASE Resolve(r)
  <2>1. PICK k \in APIKeys(r, Listed(r)) :
        LET primary  == ApplyPrefix(PrefixOf(k), call[r].model)
            fallback == ApplyPrefix(PrefixOf(Default), call[r].model)
            known    == ~HasSpecific(k) \/ primary = fallback
        IN  /\ Stage(r, IF known THEN "decided" ELSE "lookup")
            /\ key' = [key EXCEPT ![r] = k]
            /\ usedDefault' = [usedDefault EXCEPT ![r] = ~HasSpecific(k) \/ ~known]
            /\ wanted' = [wanted EXCEPT ![r] = IF known THEN <<>> ELSE primary]
      BY <1>4 DEF Resolve
  <2>2. /\ stage'[r] \in {"decided", "lookup"}
        /\ stage'[r] = "decided" => wanted'[r] = <<>>
      BY <2>1 DEF Stage
  <2>3. \A q \in Requests : q # r =>
            /\ stage'[q] = stage[q] /\ key'[q] = key[q]
            /\ wanted'[q] = wanted[q] /\ usedDefault'[q] = usedDefault[q]
      BY <2>1 DEF Stage
  <2>4. decided' = [decided EXCEPT ![r] = now]
      BY <1>4 DEF Resolve
  <2>5. decided'[r] <= now
      BY <2>4, Numbers
  <2>6. TrueFor(r)'
      BY <2>2 DEF TrueFor
  <2> QED
      BY <1>1, <1>2, <2>2, <2>3, <2>4, <2>5, <2>6, OneMoves DEF Fetching
<1> QED
    BY <1>3, <1>4

\* A request past Resolve has a key of the file.
LEMMA RoutedKeys ==
    ASSUME KeyInv, NEW r \in Requests, stage[r] \in Routed
    PROVE  key[r] \in Keys
<1>1. PICK v \in seen[r] .. Version : key[r] \in contents[v].keys
    BY DEF KeyInv, KeyWasListed, Routed
<1>2. v \in DOMAIN contents /\ contents \in Seq(Files)
    BY DEF KeyInv, SeenIsThere, TypeOK, ReaderTypeOK, Version
<1>3. contents[v] \in Files
    BY <1>2, ElementIn
<1> QED
    BY <1>1, <1>3 DEF Files

\* CPA offers every key the same.
Uniform == \A o \in Offers : \A j, k \in Keys : o[j] = o[k]

\* What was late enough for one span and moment is for another.
LEMMA LateStays ==
    ASSUME KeyInv, NEW models, NEW k, NEW s \in Nat, NEW a \in Nat, NEW t \in Nat, NEW b \in Nat,
           Late(models, k, s, a), b + s <= a + t
    PROVE  Late(models, k, t, b)
<1>1. PICK i \in DOMAIN offered :
        models = offered[i].to[k] /\ (i < Len(offered) => offered[i + 1].since + s >= a)
    BY DEF Late
<1>2. i < Len(offered) => offered[i + 1].since \in Nat
    BY Numbers
<1>3. i < Len(offered) => offered[i + 1].since + t >= b
    BY <1>1, <1>2
<1> QED
    BY <1>1, <1>3 DEF Late

LEMMA CatalogHitKeeps ==
    ASSUME KeyInv, OfferInv, NEW r \in Requests, CatalogHit(r)
    PROVE  OfferInv'
<1> USE DEF KeyInv, TypeOK, AreFunctions
<1>1. /\ UNCHANGED <<config, catalog, deadline, answer, now, offered, key, wanted>>
      /\ stage' = [stage EXCEPT ![r] = "decided"] /\ decided' = [decided EXCEPT ![r] = now]
      /\ usedDefault' = [usedDefault EXCEPT ![r] = wanted[r] \notin catalog.models]
    BY DEF CatalogHit, Decide, Stage, inputs, shared, lookup
<1>2. CatalogIsRecent' /\ catalog'.expiresAt <= now + config.ttl
    BY <1>1 DEF OfferInv, CatalogIsRecent, Late, Clock
<1>3. key[r] \in Keys
    BY RoutedKeys DEF CatalogHit, Routed
<1>4. /\ Late(catalog.models, key[r], Timeout + config.ttl, catalog.expiresAt)
      /\ config.ttl > 0 /\ now < catalog.expiresAt
    BY <1>3 DEF CatalogHit, Fresh, OfferInv, CatalogIsRecent
<1>5. Late(catalog.models, key[r], Span, now)
  <2> HIDE DEF KeyInv, TypeOK, AreFunctions
  <2>1. /\ config.ttl \in Nat /\ Timeout \in Nat /\ Span \in Nat
        /\ now \in Nat /\ catalog.expiresAt \in Nat
      BY Numbers
  <2>2. Span = Timeout + config.ttl - 1
      BY <1>4, <2>1 DEF Span
  <2>3. Timeout + config.ttl \in Nat /\ now + (Timeout + config.ttl) <= catalog.expiresAt + Span
      BY <1>4, <2>1, <2>2
  <2> QED
      BY <1>4, <2>1, <2>3, LateStays
<1>6. TrueFor(r)'
    BY <1>1, <1>5, DecidedNow
<1>7. decided'[r] <= now /\ stage'[r] = "decided"
    BY <1>1, Numbers
<1> QED
    BY <1>1, <1>2, <1>6, <1>7, OneMoves DEF Fetching

LEMMA CatalogMissKeeps ==
    ASSUME KeyInv, OfferInv, NEW r \in Requests, CatalogMiss(r)
    PROVE  OfferInv'
<1> USE DEF KeyInv, TypeOK, AreFunctions
<1>1. /\ UNCHANGED <<config, catalog, key, usedDefault, wanted, decided, answer, now, offered>>
      /\ stage' = [stage EXCEPT ![r] = "asking"]
      /\ deadline' = [deadline EXCEPT ![r] = now + Timeout]
    BY DEF CatalogMiss, Stage, inputs, decision
<1>2. CatalogIsRecent' /\ catalog'.expiresAt <= now + config.ttl
    BY <1>1 DEF OfferInv, CatalogIsRecent, Late, Clock
<1>3. /\ now <= deadline'[r] /\ deadline'[r] <= now + Timeout /\ decided'[r] <= now
      /\ stage'[r] = "asking"
    BY <1>1, Numbers DEF OfferInv, Clock
<1>4. TrueFor(r)'
    BY <1>3 DEF TrueFor
<1> QED
    BY <1>1, <1>2, <1>3, <1>4, OneMoves

LEMMA AnswerKeeps ==
    ASSUME KeyInv, OfferInv, NEW r \in Requests, Answer(r)
    PROVE  OfferInv'
<1> USE DEF KeyInv, TypeOK, AreFunctions
<1>1. /\ UNCHANGED <<config, catalog, key, usedDefault, wanted, decided, deadline, now, offered>>
      /\ stage' = [stage EXCEPT ![r] = "answered"]
      /\ answer' = [answer EXCEPT ![r] = Offer[key[r]]]
    BY DEF Answer, Stage, inputs, decision, shared
<1>2. CatalogIsRecent' /\ catalog'.expiresAt <= now + config.ttl
    BY <1>1 DEF OfferInv, CatalogIsRecent, Late, Clock
<1>3. /\ now <= deadline'[r] /\ deadline'[r] <= now + Timeout /\ decided'[r] <= now
      /\ stage'[r] = "answered"
    BY <1>1, Numbers DEF OfferInv, Clock, Answer, Fetching
<1>4. TrueFor(r)'
    BY <1>3 DEF TrueFor
<1>5. Len(offered) \in DOMAIN offered /\ Offer = offered[Len(offered)].to
    BY Numbers DEF OfferInv, Clock, Offer, Last
<1>6. Late(answer'[r], key'[r], Timeout, deadline'[r])
    BY <1>1, <1>5, Numbers DEF Late
<1> QED
    BY <1>1, <1>2, <1>3, <1>4, <1>6, OneMoves

LEMMA FetchFailsKeeps ==
    ASSUME KeyInv, OfferInv, NEW r \in Requests, FetchFails(r)
    PROVE  OfferInv'
<1> USE DEF KeyInv, TypeOK, AreFunctions
<1>1. /\ UNCHANGED <<config, catalog, key, usedDefault, wanted, decided, now, offered>>
      /\ stage' = [stage EXCEPT ![r] = "failed"]
      /\ deadline' = [deadline EXCEPT ![r] = 0] /\ answer' = [answer EXCEPT ![r] = {}]
    BY DEF FetchFails, Over, Stage, inputs, decision
<1>2. CatalogIsRecent' /\ catalog'.expiresAt <= now + config.ttl
    BY <1>1 DEF OfferInv, CatalogIsRecent, Late, Clock
<1>3. decided'[r] <= now /\ stage'[r] = "failed"
    BY <1>1 DEF OfferInv, Clock
<1>4. TrueFor(r)'
    BY <1>3 DEF TrueFor
<1> QED
    BY <1>1, <1>2, <1>3, <1>4, OneMoves DEF Fetching

LEMMA StoreKeeps ==
    ASSUME Uniform, KeyInv, OfferInv, NEW r \in Requests, Store(r)
    PROVE  OfferInv'
<1> USE DEF KeyInv, TypeOK, AreFunctions
<1>1. /\ UNCHANGED <<config, now, offered, key, wanted>>
      /\ stage[r] = "answered"
      /\ stage' = [stage EXCEPT ![r] = "decided"] /\ decided' = [decided EXCEPT ![r] = now]
      /\ usedDefault' = [usedDefault EXCEPT ![r] = wanted[r] \notin answer[r]]
      /\ deadline' = [deadline EXCEPT ![r] = 0] /\ answer' = [answer EXCEPT ![r] = {}]
      /\ catalog' = [models |-> answer[r], expiresAt |-> now + config.ttl]
    BY DEF Store, Decide, Over, Stage, inputs
<1>2. key[r] \in Keys
    BY <1>1, RoutedKeys DEF Routed
<1>3. Late(answer[r], key[r], Timeout, deadline[r]) /\ now <= deadline[r]
    BY <1>1 DEF OfferInv, AnswerIsRecent, Clock, Fetching
<1>4. Span >= Timeout /\ now + Timeout <= deadline[r] + Span
    BY <1>3, Numbers DEF Span
<1>5. Late(answer[r], key[r], Span, now)
    BY <1>3, <1>4, Numbers, LateStays
<1>6. TrueFor(r)'
    BY <1>1, <1>5, DecidedNow
<1>7. ASSUME NEW k \in Keys PROVE Late(answer[r], k, Timeout + config.ttl, now + config.ttl)
  <2> HIDE DEF KeyInv, TypeOK, AreFunctions
  <2>1. config.ttl \in Nat /\ Timeout \in Nat /\ now \in Nat /\ deadline[r] \in Nat
      BY Numbers
  <2>2. /\ Timeout + config.ttl \in Nat /\ now + config.ttl \in Nat
        /\ (now + config.ttl) + Timeout <= deadline[r] + (Timeout + config.ttl)
      BY <1>3, <2>1
  <2>3. Late(answer[r], key[r], Timeout + config.ttl, now + config.ttl)
      BY <1>3, <2>1, <2>2, LateStays
  <2>4. \A i \in DOMAIN offered : offered[i].to[k] = offered[i].to[key[r]]
      BY <1>2, <1>7, Numbers DEF Uniform
  <2> QED
      BY <2>3, <2>4 DEF Late
<1>8. CatalogIsRecent' /\ catalog'.expiresAt <= now + config.ttl
    BY <1>1, <1>7, Numbers DEF CatalogIsRecent, Late
<1>9. decided'[r] <= now /\ stage'[r] = "decided"
    BY <1>1, Numbers
<1> QED
    BY <1>1, <1>6, <1>8, <1>9, OneMoves DEF Fetching

\* Time does not pass a deadline.
LEMMA TickKeeps == ASSUME KeyInv, OfferInv, Tick PROVE OfferInv'
<1>1. /\ UNCHANGED <<config, stage, key, usedDefault, wanted, decided, catalog, deadline, answer, offered>>
      /\ now' = now + 1 /\ \A r \in Requests : stage[r] \in Fetching => now < deadline[r]
    BY DEF Tick, inputs, decision, shared, lookup, Fetching
<1>2. Clock'
    BY <1>1, Numbers DEF OfferInv, Clock
<1>3. AnswerIsRecent' /\ CatalogIsRecent' /\ \A r \in Requests : TrueFor(r)'
    BY <1>1 DEF OfferInv, AnswerIsRecent, CatalogIsRecent, TrueFor, Late, Span
<1> QED
    BY <1>2, <1>3 DEF OfferInv

\* What happens to the file, and in Snapshot, is another matter.
LEMMA NothingMoves == ASSUME OfferInv, UNCHANGED routingVars PROVE OfferInv'
<1>1. UNCHANGED <<config, stage, key, usedDefault, wanted, decided, catalog, deadline, answer, now, offered>>
    BY DEF routingVars, inputs, decision, shared, lookup
<1>2. Clock' /\ AnswerIsRecent' /\ CatalogIsRecent'
    BY <1>1 DEF OfferInv, Clock, AnswerIsRecent, CatalogIsRecent, Late
<1>3. \A r \in Requests : TrueFor(r)'
    BY <1>1 DEF OfferInv, TrueFor, Span
<1> QED
    BY <1>2, <1>3 DEF OfferInv

\* When CPA offers every key the same, decisions follow recent offers.
THEOREM OfferInductive == ASSUME Uniform PROVE Spec => []OfferInv
<1>1. KeyInv /\ OfferInv /\ [Next]_vars => OfferInv'
  <2> SUFFICES ASSUME KeyInv, OfferInv, [Next]_vars PROVE OfferInv'
      OBVIOUS
  <2>1. CASE \E r \in Requests : Serve(r)
    <3>1. PICK r \in Requests : Serve(r)
        BY <2>1
    <3>2. CASE TakesSnapshot(r)
        BY <3>2, NothingMoves DEF TakesSnapshot
    <3>3. CASE Route(r) \/ ResolveFails(r) \/ Resolve(r)
        BY <3>3, BeforeLookUp
    <3>4. CASE CatalogHit(r) \/ Fetches(r)
        BY <3>4, CatalogHitKeeps, CatalogMissKeeps, AnswerKeeps, FetchFailsKeeps, StoreKeeps DEF Fetches
    <3> QED
        BY <3>1, <3>2, <3>3, <3>4 DEF Serve
  <2>2. CASE UNCHANGED routingVars
      BY <2>2, NothingMoves
  <2>3. CASE Tick
      BY <2>3, TickKeeps
  <2>4. CASE Reoffer
      BY <2>4, ReofferKeeps
  <2> QED
      BY <2>1, <2>2, <2>3, <2>4 DEF Next, vars
<1> QED
    BY <1>1, OfferStarts, KeyInductive, PTL DEF Spec

\* When CPA offers every key the same, a decision agrees with what it offered
\* within the lifetime of the catalog and one look-up.
THEOREM DecisionsFollowOffers == ASSUME Uniform PROVE Spec => []DecisionWasTrue
<1>1. KeyInv /\ OfferInv => DecisionWasTrue
  <2> SUFFICES ASSUME KeyInv, OfferInv, NEW r \in Requests, stage[r] = "decided", wanted[r] # <<>>
               PROVE  \E o \in OfferedWithin(Span, decided[r]) :
                          usedDefault[r] <=> wanted[r] \notin o[key[r]]
      BY DEF DecisionWasTrue, Span
  <2>1. PICK i \in DOMAIN offered :
            /\ offered[i].since <= decided[r]
            /\ i < Len(offered) => offered[i + 1].since + Span >= decided[r]
            /\ usedDefault[r] <=> wanted[r] \notin offered[i].to[key[r]]
      BY DEF OfferInv, TrueFor
  <2>2. offered[i].to \in OfferedWithin(Span, decided[r])
      BY <2>1 DEF OfferedWithin
  <2> QED
      BY <2>1, <2>2
<1> QED
    BY <1>1, OfferInductive, KeyInductive, PTL

=============================================================================
