----------------------- MODULE ModelVisibility_proofs -----------------------
(***************************************************************************)
(* What hides models is in step with what replaces them, for any number of *)
(* keys, models, prefixes, overlapping registrations and reconfigurations. *)
(***************************************************************************)
EXTENDS ModelVisibility, TLAPS

\* What TypeOK leaves open.
AreFunctions ==
    /\ found = [c \in Registrars |-> found[c]]
    /\ there = [c \in Registrars |-> there[c]]
    /\ overlaps \in BOOLEAN

\* Calls run on runtimes that were loaded; one not yet loaded hides nothing.
LoadedSoFar ==
    /\ \A c \in Registrars : runtime[c] <= current
    /\ \A t \in Runtimes : t > current => ~loaded[t]

\* While calls do not overlap, at most one runs; when models are hidden it has
\* found aliases on the loaded runtime, and if none runs CPA has some.
OneAtATime == \A c, d \in Registrars : pc[c] # "idle" /\ pc[d] # "idle" => c = d

Backed ==
    loaded[current] =>
        /\ \A c \in Registrars : pc[c] # "idle" =>
            pc[c] = "returned" /\ runtime[c] = current /\ found[c] # {}
        /\ (\A c \in Registrars : pc[c] = "idle") => registry # {}

InStep == ~overlaps => OneAtATime /\ Backed

\* A list on its way has CPA's aliases in it as long as none were registered.
ListIsRecent == built.settled => built.aliases = registry

VisibilityInv ==
    /\ TypeOK
    /\ AreFunctions
    /\ LoadedSoFar
    /\ OwnInputsAreWhole
    /\ InStep
    /\ ListIsRecent
    /\ HiddenOnlyWithAliases

-----------------------------------------------------------------------------
LEMMA VisibilityStarts == Init => VisibilityInv
<1> SUFFICES ASSUME Init PROVE VisibilityInv
    OBVIOUS
<1> USE RuntimeBound DEF Init, Runtimes
<1>1. TypeOK
    BY DEF TypeOK
<1>2. AreFunctions /\ OwnInputsAreWhole
    BY DEF AreFunctions, OwnInputsAreWhole
<1>3. LoadedSoFar
    BY DEF LoadedSoFar
<1>4. InStep /\ ListIsRecent /\ HiddenOnlyWithAliases
    BY DEF InStep, OneAtATime, Backed, ListIsRecent, NoList, HiddenOnlyWithAliases
<1> QED
    BY <1>1, <1>2, <1>3, <1>4 DEF VisibilityInv

\* A list is built from what is registered, and shown when it was intercepted.
LEMMA ListsStay ==
    ASSUME VisibilityInv, UNCHANGED <<registry, built, shown>>
    PROVE  ListIsRecent' /\ HiddenOnlyWithAliases'
BY DEF VisibilityInv, ListIsRecent, HiddenOnlyWithAliases

LEMMA BeginKeeps == ASSUME VisibilityInv, NEW c \in Registrars, Begin(c) PROVE VisibilityInv'
<1> USE DEF VisibilityInv, TypeOK, AreFunctions
<1>1. TypeOK'
    BY DEF Begin
<1>2. AreFunctions'
    BY DEF Begin
<1>3. LoadedSoFar'
    BY RuntimeBound DEF Begin, LoadedSoFar, Runtimes
<1>4. OwnInputsAreWhole'
    BY DEF Begin, OwnInputsAreWhole
<1>5. InStep'
    BY DEF Begin, InStep, OneAtATime, Backed
<1>6. ListIsRecent' /\ HiddenOnlyWithAliases'
    BY ListsStay DEF Begin, lists
<1> QED
    BY <1>1, <1>2, <1>3, <1>4, <1>5, <1>6

\* What CPA answers a look-up is not found yet.
LEMMA AskCatalogKeeps == ASSUME VisibilityInv, NEW c \in Registrars, AskCatalog(c) PROVE VisibilityInv'
<1> USE DEF VisibilityInv, TypeOK, AreFunctions
<1>1. /\ UNCHANGED <<current, loaded, runtime, found, there, calls, offers, registry, built, shown, overlaps>>
      /\ pc[c] = "looking" /\ pc' = [pc EXCEPT ![c] = "asked"]
      /\ \E k \in left[c] : left' = [left EXCEPT ![c] = @ \ {k}]
    BY DEF AskCatalog, cpa, lists
<1>2. TypeOK'
    BY <1>1
<1>3. AreFunctions' /\ LoadedSoFar' /\ OwnInputsAreWhole'
    BY <1>1 DEF LoadedSoFar, OwnInputsAreWhole
<1>4. InStep'
    BY <1>1 DEF InStep, OneAtATime, Backed
<1>5. ListIsRecent' /\ HiddenOnlyWithAliases'
    BY <1>1, ListsStay
<1> QED
    BY <1>2, <1>3, <1>4, <1>5

\* A look-up of the loaded runtime bears its token and is not filtered.
LEMMA LookUpKeeps == ASSUME VisibilityInv, NEW c \in Registrars, LookUp(c) PROVE VisibilityInv'
<1> USE DEF VisibilityInv, TypeOK, AreFunctions
<1>1. /\ pc[c] = "asked" /\ pc' = [pc EXCEPT ![c] = "looking"]
      /\ found' = [found EXCEPT ![c] = @ \union Aliases(Intercepted(answer[c], runtime[c]))]
      /\ there' = [there EXCEPT ![c] = @ \union Aliases(answer[c])]
    BY DEF LookUp
<1>2. UNCHANGED <<current, loaded, left, runtime, calls, offers, registry, built, shown, overlaps>>
    BY DEF LookUp, cpa, lists
<1>3. \A models : Nameless \notin Aliases(models)
    BY DEF Aliases
<1>4. \A d \in Registrars :
        /\ found'[d] = IF d = c THEN found[c] \union Aliases(Intercepted(answer[c], runtime[c])) ELSE found[d]
        /\ there'[d] = IF d = c THEN there[c] \union Aliases(answer[c]) ELSE there[d]
    BY <1>1
<1>5. pc' \in [Registrars -> {"idle", "looking", "asked", "returned"}]
    BY <1>1
<1>6. DOMAIN found' = Registrars /\ DOMAIN there' = Registrars
    BY <1>1
<1>7. \A d \in Registrars : Nameless \notin found'[d]
    BY <1>3, <1>4
<1>8. TypeOK'
    BY <1>2, <1>5, <1>6, <1>7
<1>9. AreFunctions'
    BY <1>1, <1>2
<1>10. LoadedSoFar'
    BY <1>2 DEF LoadedSoFar
<1>11. runtime[c] = current => Intercepted(answer[c], runtime[c]) = answer[c]
    BY DEF Intercepted
<1>12. OwnInputsAreWhole'
    BY <1>2, <1>4, <1>11 DEF OwnInputsAreWhole
<1>13. InStep'
    BY <1>1, <1>2, <1>4 DEF InStep, OneAtATime, Backed
<1>14. ListIsRecent' /\ HiddenOnlyWithAliases'
    BY <1>2, ListsStay
<1> QED
    BY <1>8, <1>9, <1>10, <1>12, <1>13, <1>14

LEMMA LookUpFailsKeeps == ASSUME VisibilityInv, NEW c \in Registrars, LookUpFails(c) PROVE VisibilityInv'
<1>1. pc[c] = "asked" /\ pc' = [pc EXCEPT ![c] = "looking"]
    BY DEF LookUpFails
<1>2. UNCHANGED <<current, loaded, left, runtime, found, there, calls, offers, registry, built, shown, overlaps>>
    BY DEF LookUpFails, cpa, lists
<1>3. TypeOK'
    BY <1>1, <1>2 DEF VisibilityInv, TypeOK
<1>4. ListIsRecent' /\ HiddenOnlyWithAliases'
    BY <1>2, ListsStay
<1>5. AreFunctions' /\ LoadedSoFar' /\ OwnInputsAreWhole'
    BY <1>2 DEF VisibilityInv, AreFunctions, LoadedSoFar, OwnInputsAreWhole
<1>6. InStep'
    BY <1>1, <1>2 DEF VisibilityInv, TypeOK, InStep, OneAtATime, Backed
<1> QED
    BY <1>3, <1>4, <1>5, <1>6 DEF VisibilityInv

LEMMA ReturnKeeps == ASSUME VisibilityInv, NEW c \in Registrars, Return(c) PROVE VisibilityInv'
<1> USE DEF VisibilityInv, TypeOK, AreFunctions
<1>1. UNCHANGED <<current, runtime, left, found, there, calls, offers, registry, built, shown, overlaps>>
    BY DEF Return, cpa, lists
<1>2. /\ pc[c] = "looking" /\ pc' = [pc EXCEPT ![c] = "returned"]
      /\ loaded' = [loaded EXCEPT ![runtime[c]] = found[c] # {}]
    BY DEF Return
<1>3. TypeOK'
    BY <1>1, <1>2
<1>4. AreFunctions' /\ OwnInputsAreWhole'
    BY <1>1, <1>2 DEF OwnInputsAreWhole
<1>5. LoadedSoFar'
    BY <1>1, <1>2, RuntimeBound DEF LoadedSoFar, Runtimes
<1>6. InStep'
  <2> SUFFICES ASSUME ~overlaps PROVE (OneAtATime /\ Backed)'
      BY <1>1 DEF InStep
  <2>1. OneAtATime /\ Backed
      BY DEF InStep
  <2>2. OneAtATime'
      BY <1>2, <2>1 DEF OneAtATime
  <2>3. ~loaded[current]
      BY <1>2, <2>1 DEF Backed
  <2>4. \A d \in Registrars : d # c => pc'[d] = "idle"
      BY <1>2, <2>1 DEF OneAtATime
  <2>5. loaded'[current] => runtime[c] = current /\ found[c] # {}
      BY <1>2, <2>3
  <2>6. pc'[c] = "returned"
      BY <1>2
  <2>7. Backed'
      BY <1>1, <2>4, <2>5, <2>6 DEF Backed
  <2> QED
      BY <2>2, <2>7
<1>7. ListIsRecent' /\ HiddenOnlyWithAliases'
    BY <1>1, ListsStay
<1> QED
    BY <1>3, <1>4, <1>5, <1>6, <1>7

LEMMA RegisterKeeps == ASSUME VisibilityInv, NEW c \in Registrars, Register(c) PROVE VisibilityInv'
<1> USE DEF VisibilityInv, TypeOK, AreFunctions
<1>1. TypeOK'
    BY DEF Register
<1>2. AreFunctions' /\ OwnInputsAreWhole' /\ LoadedSoFar'
    BY DEF Register, OwnInputsAreWhole, LoadedSoFar
<1>3. InStep'
    BY DEF Register, InStep, OneAtATime, Backed
<1>4. ListIsRecent' /\ HiddenOnlyWithAliases'
    BY DEF Register, ListIsRecent, HiddenOnlyWithAliases
<1> QED
    BY <1>1, <1>2, <1>3, <1>4

LEMMA ReconfigureKeeps == ASSUME VisibilityInv, Reconfigure PROVE VisibilityInv'
<1> USE DEF VisibilityInv, TypeOK, AreFunctions
<1>1. current \in Nat /\ current' = current + 1 /\ current' \in Runtimes
    BY RuntimeBound DEF Reconfigure, Runtimes
<1>2. UNCHANGED <<loaded, pc, runtime, left, found, there, calls, offers, registry, built, shown, overlaps>>
    BY DEF Reconfigure, register, cpa, lists
<1>3. TypeOK' /\ AreFunctions'
    BY <1>1, <1>2
<1>4. \A c \in Registrars : runtime[c] \in Nat /\ runtime[c] <= current
    BY RuntimeBound DEF LoadedSoFar, Runtimes
<1>5. LoadedSoFar'
    BY <1>1, <1>2, <1>4, RuntimeBound DEF LoadedSoFar, Runtimes
<1>6. OwnInputsAreWhole'
    BY <1>1, <1>2, <1>4 DEF OwnInputsAreWhole
<1>7. ~loaded'[current']
    BY <1>1, <1>2 DEF LoadedSoFar
<1>8. InStep'
    BY <1>2, <1>7 DEF InStep, OneAtATime, Backed
<1>9. ListIsRecent' /\ HiddenOnlyWithAliases'
    BY <1>2, ListsStay
<1> QED
    BY <1>3, <1>5, <1>6, <1>8, <1>9

\* Lists and models on offer touch nothing else the invariant is about.
LEMMA OffersKeep ==
    ASSUME VisibilityInv, offers' \in Offers, ListIsRecent', HiddenOnlyWithAliases',
           UNCHANGED <<current, loaded, pc, runtime, left, found, there, registry, overlaps>>
    PROVE  VisibilityInv'
BY DEF VisibilityInv, TypeOK, AreFunctions, LoadedSoFar, OwnInputsAreWhole, InStep, OneAtATime, Backed

LEMMA BuildKeeps == ASSUME VisibilityInv, NEW k \in AllKeys, Build(k) PROVE VisibilityInv'
<1>1. UNCHANGED <<current, loaded, pc, runtime, left, found, there, offers, registry, shown, overlaps>>
    BY DEF Build, register, cpa
<1>2. ListIsRecent' /\ HiddenOnlyWithAliases'
    BY <1>1 DEF Build, ListIsRecent, HiddenOnlyWithAliases, VisibilityInv
<1> QED
    BY <1>1, <1>2, OffersKeep DEF VisibilityInv, TypeOK

\* A list is filtered only if the loaded runtime hides; then a call that runs
\* has returned, or CPA has aliases, and a recent list has them in it.
LEMMA InterceptKeeps == ASSUME VisibilityInv, Intercept PROVE VisibilityInv'
<1> USE DEF VisibilityInv, TypeOK, AreFunctions
<1>1. /\ UNCHANGED <<current, loaded, pc, runtime, left, found, there, offers, registry, overlaps>>
      /\ built' = NoList
      /\ shown' = [all |-> built.all, list |-> Intercepted(built.all, NoToken), aliases |-> built.aliases,
                   settled |-> built.settled /\ ~overlaps /\ \A c \in Registrars : pc[c] # "returned"]
    BY DEF Intercept, register, cpa
<1>2. shown'.list # shown'.all => loaded[current]
    BY <1>1 DEF Intercepted
<1>3. shown'.settled /\ loaded[current] => registry # {}
    BY <1>1 DEF InStep, Backed
<1>4. shown'.settled => shown'.aliases = registry
    BY <1>1 DEF ListIsRecent
<1>5. ListIsRecent' /\ HiddenOnlyWithAliases'
    BY <1>1, <1>2, <1>3, <1>4 DEF ListIsRecent, NoList, HiddenOnlyWithAliases
<1> QED
    BY <1>1, <1>5, OffersKeep

\* What hides models stays in step with what replaces them.
THEOREM VisibilityInductive == Spec => []VisibilityInv
<1>1. VisibilityInv /\ [Next]_vars => VisibilityInv'
  <2> SUFFICES ASSUME VisibilityInv, [Next]_vars PROVE VisibilityInv'
      OBVIOUS
  <2>1. CASE \E c \in Registrars : Registers(c)
      BY <2>1, BeginKeeps, AskCatalogKeeps, LookUpKeeps, LookUpFailsKeeps, ReturnKeeps, RegisterKeeps DEF Registers
  <2>2. CASE \E k \in AllKeys : Build(k)
      BY <2>2, BuildKeeps
  <2>3. CASE Intercept
      BY <2>3, InterceptKeeps
  <2>4. CASE Reconfigure
      BY <2>4, ReconfigureKeeps
  <2>5. CASE Reoffer
      BY <2>5, OffersKeep, ListsStay DEF Reoffer, register, lists
  <2>6. CASE UNCHANGED vars
      BY <2>6, OffersKeep, ListsStay DEF vars, register, cpa, lists, VisibilityInv, TypeOK
  <2> QED
      BY <2>1, <2>2, <2>3, <2>4, <2>5, <2>6 DEF Next
<1> QED
    BY <1>1, VisibilityStarts, PTL DEF Spec

\* The variables keep their types, and no alias is nameless.
THEOREM VisibilityTypes == Spec => []TypeOK
<1>1. VisibilityInv => TypeOK
    BY DEF VisibilityInv
<1> QED
    BY <1>1, VisibilityInductive, PTL

\* A look-up of the loaded runtime is never filtered by what other calls made
\* the interceptor hide.
THEOREM LookUpsAreWhole == Spec => []OwnInputsAreWhole
<1>1. VisibilityInv => OwnInputsAreWhole
    BY DEF VisibilityInv
<1> QED
    BY <1>1, VisibilityInductive, PTL

\* As long as registrations do not overlap, a client's list hides models only
\* with aliases in it, unless CPA was about to register some when the list was
\* filtered, or has registered some since it was built.
THEOREM NoHidingWithoutAliases == Spec => []HiddenOnlyWithAliases
<1>1. VisibilityInv => HiddenOnlyWithAliases
    BY DEF VisibilityInv
<1> QED
    BY <1>1, VisibilityInductive, PTL
=============================================================================
