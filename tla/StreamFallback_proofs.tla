------------------------ MODULE StreamFallback_proofs ------------------------
(***************************************************************************)
(* Theorems about executor requests: the client of a stream receives one   *)
(* answer without gaps and one end, whatever targets are tried; host       *)
(* streams are closed on every path; and the targets are those a reader of *)
(* the configuration would list, in that order, asked exactly as far as    *)
(* the failures allow.                                                     *)
(***************************************************************************)
EXTENDS StreamFallback, FiniteSetTheorems, SequenceTheorems, WellFoundedInduction, TLAPS

\* The host stream of the present attempt is open exactly while streamModel
\* is at work on it.
StreamOwned(r) == open[r] = IF pc[r] \in {"read", "emit", "release"} THEN {attempt[r]} ELSE {}

\* What the client has is the beginning of the present attempt, and agrees
\* with what has been read and with the flag; only streamed requests get past
\* the call.
Forwarded(r) ==
    /\ \A i \in 1 .. Len(delivered[r]) : delivered[r][i] = <<attempt[r], i>>
    /\ pc[r] \in {"read", "emit", "release", "close"} => kind[r] = "stream"
    /\ pc[r] \in {"idle", "resolve", "call"} => delivered[r] = <<>>
    /\ pc[r] = "read" => Len(delivered[r]) = got[r]
    /\ pc[r] = "emit" => Len(delivered[r]) + 1 = got[r]
    /\ pc[r] \in {"read", "emit"} => (emitted[r] <=> delivered[r] # <<>>)
    /\ pc[r] # "done" => closes[r] = <<>>

\* What streamModel and RunStream are about to return is true.
VerdictSound(r) ==
    /\ pc[r] = "release" => verdict[r] # "none"
    /\ pc[r] = "release" /\ verdict[r] = "retry" => delivered[r] = <<>>
    /\ pc[r] = "release" /\ verdict[r] = "complete" => Len(delivered[r]) = got[r]
    /\ pc[r] = "close" => outcome[r] \in {"complete", "error"}
    /\ pc[r] = "close" /\ outcome[r] = "complete" => Len(delivered[r]) = got[r]

Sound(r) == StreamOwned(r) /\ Forwarded(r) /\ VerdictSound(r)

StreamInv == TypeOK /\ \A r \in Requests : Sound(r)

\* Nothing of request q changes.
Same(q) ==
    /\ kind'[q] = kind[q] /\ pc'[q] = pc[q] /\ attempt'[q] = attempt[q]
    /\ open'[q] = open[q] /\ got'[q] = got[q] /\ emitted'[q] = emitted[q]
    /\ verdict'[q] = verdict[q] /\ outcome'[q] = outcome[q]
    /\ closes'[q] = closes[q] /\ delivered'[q] = delivered[q]

\* Request r takes a step that keeps the invariant, and no other request does.
Keeps(r) == TypeOK' /\ (\A q \in Requests \ {r} : Same(q)) /\ Sound(r)'

-----------------------------------------------------------------------------
LEMMA KeepsIsEnough ==
    ASSUME StreamInv, NEW r \in Requests, Keeps(r)
    PROVE  StreamInv'
  <1>1. ASSUME NEW q \in Requests \ {r} PROVE Sound(q)'
    <2>1. Same(q) /\ Sound(q)
      BY <1>1 DEF StreamInv, Keeps
    <2>2. StreamOwned(q)'
      BY <2>1 DEF Same, Sound, StreamOwned
    <2>3. Forwarded(q)'
      BY <2>1 DEF Same, Sound, Forwarded
    <2>4. VerdictSound(q)'
      BY <2>1 DEF Same, Sound, VerdictSound
    <2>5. QED
      BY <2>2, <2>3, <2>4 DEF Sound
  <1>2. QED
    BY <1>1 DEF StreamInv, Keeps

LEMMA InitStreamInv == Init => StreamInv
  BY DEF Init, StreamInv, TypeOK, Sound, StreamOwned, Forwarded, VerdictSound

\* The loop over the targets asks the next one, or the request fails.
LEMMA FailedEffect ==
    ASSUME TypeOK, NEW r \in Requests, NEW again \in BOOLEAN, Failed(r, again)
    PROVE  /\ attempt' \in [Requests -> Nat]
           /\ pc' \in [Requests -> {"idle", "resolve", "call", "read", "emit", "release",
                                    "close", "done"}]
           /\ outcome' \in [Requests -> {"none", "complete", "error", "refused"}]
           /\ \A q \in Requests \ {r} :
                 /\ attempt'[q] = attempt[q]
                 /\ pc'[q] = pc[q]
                 /\ outcome'[q] = outcome[q]
           /\ \/ again /\ pc'[r] = "call"
              \/ /\ pc'[r] = IF kind[r] = "stream" THEN "close" ELSE "done"
                 /\ outcome'[r] = "error"
                 /\ attempt'[r] = attempt[r]
  <1>1. CASE again /\ MoreTargets(r)
    <2>1. /\ attempt' = [attempt EXCEPT ![r] = attempt[r] + 1]
          /\ pc' = [pc EXCEPT ![r] = "call"]
          /\ outcome' = outcome
          /\ again
      BY <1>1 DEF Failed
    <2>2. attempt[r] \in Nat
      BY DEF TypeOK
    <2>3. attempt' \in [Requests -> Nat]
      BY <2>1, <2>2 DEF TypeOK
    <2>4. QED
      BY <2>1, <2>3 DEF TypeOK
  <1>2. CASE ~(again /\ MoreTargets(r))
    BY <1>2 DEF Failed, Finish, TypeOK
  <1>3. QED
    BY <1>1, <1>2

LEMMA AcceptKeeps ==
    ASSUME StreamInv, NEW r \in Requests, NEW k \in {"execute", "stream"}, Accept(r, k)
    PROVE  Keeps(r)
  <1> USE DEF accepted, host, client, history
  <1>0. TypeOK /\ Sound(r)
    BY DEF StreamInv
  <1>1. TypeOK'
    BY <1>0 DEF TypeOK, Accept
  <1>2. \A q \in Requests \ {r} : Same(q)
    BY <1>0 DEF Same, TypeOK, Accept
  <1>3. StreamOwned(r)'
    BY <1>0 DEF Sound, StreamOwned, Forwarded, VerdictSound, TypeOK, Accept
  <1>4. Forwarded(r)'
    BY <1>0 DEF Sound, Forwarded, VerdictSound, TypeOK, Accept
  <1>5. VerdictSound(r)'
    BY <1>0 DEF Sound, Forwarded, VerdictSound, TypeOK, Accept
  <1>6. QED
    BY <1>1, <1>2, <1>3, <1>4, <1>5 DEF Keeps, Sound

LEMMA RefuseKeeps ==
    ASSUME StreamInv, NEW r \in Requests, NEW k \in {"execute", "stream"}, Refuse(r, k)
    PROVE  Keeps(r)
  <1> USE DEF accepted, host, client, history
  <1>0. TypeOK /\ Sound(r)
    BY DEF StreamInv
  <1>1. TypeOK'
    BY <1>0 DEF TypeOK, Refuse
  <1>2. \A q \in Requests \ {r} : Same(q)
    BY <1>0 DEF Same, TypeOK, Refuse
  <1>3. StreamOwned(r)'
    BY <1>0 DEF Sound, StreamOwned, Forwarded, VerdictSound, TypeOK, Refuse
  <1>4. Forwarded(r)'
    BY <1>0 DEF Sound, Forwarded, VerdictSound, TypeOK, Refuse
  <1>5. VerdictSound(r)'
    BY <1>0 DEF Sound, Forwarded, VerdictSound, TypeOK, Refuse
  <1>6. QED
    BY <1>1, <1>2, <1>3, <1>4, <1>5 DEF Keeps, Sound

LEMMA ResolveKeeps ==
    ASSUME StreamInv, NEW r \in Requests, NEW m \in Models, Resolve(r, m)
    PROVE  Keeps(r)
  <1> USE DEF accepted, host, client, history
  <1>0. TypeOK /\ Sound(r)
    BY DEF StreamInv
  <1>1. TypeOK'
    BY <1>0 DEF TypeOK, Resolve
  <1>2. \A q \in Requests \ {r} : Same(q)
    BY <1>0 DEF Same, TypeOK, Resolve
  <1>3. StreamOwned(r)'
    BY <1>0 DEF Sound, StreamOwned, Forwarded, VerdictSound, TypeOK, Resolve
  <1>4. Forwarded(r)'
    BY <1>0 DEF Sound, Forwarded, VerdictSound, TypeOK, Resolve
  <1>5. VerdictSound(r)'
    BY <1>0 DEF Sound, Forwarded, VerdictSound, TypeOK, Resolve
  <1>6. QED
    BY <1>1, <1>2, <1>3, <1>4, <1>5 DEF Keeps, Sound

LEMMA ResolveFailsKeeps ==
    ASSUME StreamInv, NEW r \in Requests, ResolveFails(r)
    PROVE  Keeps(r)
  <1> USE DEF accepted, host, client, history
  <1>0. TypeOK /\ Sound(r)
    BY DEF StreamInv
  <1>1. TypeOK'
    BY <1>0 DEF TypeOK, ResolveFails, Finish
  <1>2. \A q \in Requests \ {r} : Same(q)
    BY <1>0 DEF Same, TypeOK, ResolveFails, Finish
  <1>3. StreamOwned(r)'
    BY <1>0 DEF Sound, StreamOwned, Forwarded, VerdictSound, TypeOK, ResolveFails, Finish
  <1>4. Forwarded(r)'
    BY <1>0 DEF Sound, Forwarded, VerdictSound, TypeOK, ResolveFails, Finish
  <1>5. VerdictSound(r)'
    BY <1>0 DEF Sound, Forwarded, VerdictSound, TypeOK, ResolveFails, Finish
  <1>6. QED
    BY <1>1, <1>2, <1>3, <1>4, <1>5 DEF Keeps, Sound

LEMMA ExecutesKeeps ==
    ASSUME StreamInv, NEW r \in Requests, Executes(r)
    PROVE  Keeps(r)
  <1> USE DEF accepted, host, client, history
  <1>0. TypeOK /\ Sound(r)
    BY DEF StreamInv
  <1>1. TypeOK'
    BY <1>0 DEF TypeOK, Executes, Finish
  <1>2. \A q \in Requests \ {r} : Same(q)
    BY <1>0 DEF Same, TypeOK, Executes, Finish
  <1>3. StreamOwned(r)'
    BY <1>0 DEF Sound, StreamOwned, Forwarded, VerdictSound, TypeOK, Executes, Finish
  <1>4. Forwarded(r)'
    BY <1>0 DEF Sound, Forwarded, VerdictSound, TypeOK, Executes, Finish
  <1>5. VerdictSound(r)'
    BY <1>0 DEF Sound, Forwarded, VerdictSound, TypeOK, Executes, Finish
  <1>6. QED
    BY <1>1, <1>2, <1>3, <1>4, <1>5 DEF Keeps, Sound

\* Calls that give no stream: the next target is asked, or the request ends.
LEMMA CallFailsKeeps ==
    ASSUME StreamInv, NEW r \in Requests, NEW e \in Errors, ExecuteFails(r, e) \/ OpenFails(r, e)
    PROVE  Keeps(r)
  <1>0. TypeOK /\ Sound(r)
    BY DEF StreamInv
  <1> DEFINE again == Eligible(runtime[r], e)
  <1>1. /\ again \in BOOLEAN
        /\ Failed(r, again)
        /\ pc[r] = "call"
        /\ UNCHANGED <<kind, open, got, last, emitted, verdict, closes, delivered>>
    BY DEF ExecuteFails, OpenFails, Eligible, accepted, host, client
  <1> HIDE DEF again
  <1>2. TypeOK'
    BY <1>0, <1>1, FailedEffect DEF TypeOK
  <1>3. \A q \in Requests \ {r} : Same(q)
    BY <1>0, <1>1, FailedEffect DEF Same
  <1>4. Sound(r)'
    <2>1. delivered[r] = <<>>
      BY <1>0, <1>1 DEF Sound, Forwarded
    <2>2. pc'[r] \in {"call", "close", "done"} /\ (pc'[r] = "close" => kind[r] = "stream" /\ outcome'[r] = "error")
      BY <1>0, <1>1, FailedEffect
    <2>3. StreamOwned(r)'
      BY <1>0, <1>1, <2>2 DEF Sound, StreamOwned
    <2>4. Forwarded(r)'
      BY <1>0, <1>1, <2>1, <2>2 DEF Sound, Forwarded
    <2>5. VerdictSound(r)'
      BY <2>2 DEF VerdictSound
    <2>6. QED
      BY <2>3, <2>4, <2>5 DEF Sound
  <1>5. QED
    BY <1>2, <1>3, <1>4 DEF Keeps

LEMMA OpensKeeps ==
    ASSUME StreamInv, NEW r \in Requests, Opens(r)
    PROVE  Keeps(r)
  <1> USE DEF accepted, host, client, history
  <1>0. TypeOK /\ Sound(r)
    BY DEF StreamInv
  <1>1. TypeOK'
    BY <1>0 DEF TypeOK, Opens
  <1>2. \A q \in Requests \ {r} : Same(q)
    BY <1>0 DEF Same, TypeOK, Opens
  <1>3. StreamOwned(r)'
    BY <1>0 DEF Sound, StreamOwned, Forwarded, VerdictSound, TypeOK, Opens
  <1>4. Forwarded(r)'
    BY <1>0 DEF Sound, Forwarded, VerdictSound, TypeOK, Opens
  <1>5. VerdictSound(r)'
    BY <1>0 DEF Sound, Forwarded, VerdictSound, TypeOK, Opens
  <1>6. QED
    BY <1>1, <1>2, <1>3, <1>4, <1>5 DEF Keeps, Sound

LEMMA ReadPayloadKeeps ==
    ASSUME StreamInv, NEW r \in Requests, NEW isLast \in BOOLEAN, ReadPayload(r, isLast)
    PROVE  Keeps(r)
  <1> USE DEF accepted, host, client, history
  <1>0. TypeOK /\ Sound(r)
    BY DEF StreamInv
  <1>1. TypeOK'
    BY <1>0 DEF TypeOK, ReadPayload
  <1>2. \A q \in Requests \ {r} : Same(q)
    BY <1>0 DEF Same, TypeOK, ReadPayload
  <1>3. StreamOwned(r)'
    BY <1>0 DEF Sound, StreamOwned, Forwarded, VerdictSound, TypeOK, ReadPayload
  <1>4. Forwarded(r)'
    BY <1>0 DEF Sound, Forwarded, VerdictSound, TypeOK, ReadPayload
  <1>5. VerdictSound(r)'
    BY <1>0 DEF Sound, Forwarded, VerdictSound, TypeOK, ReadPayload
  <1>6. QED
    BY <1>1, <1>2, <1>3, <1>4, <1>5 DEF Keeps, Sound

LEMMA ReadDoneKeeps ==
    ASSUME StreamInv, NEW r \in Requests, ReadDone(r)
    PROVE  Keeps(r)
  <1> USE DEF accepted, host, client, history
  <1>0. TypeOK /\ Sound(r)
    BY DEF StreamInv
  <1>1. TypeOK'
    BY <1>0 DEF TypeOK, ReadDone, Return
  <1>2. \A q \in Requests \ {r} : Same(q)
    BY <1>0 DEF Same, TypeOK, ReadDone, Return
  <1>3. StreamOwned(r)'
    BY <1>0 DEF Sound, StreamOwned, Forwarded, VerdictSound, TypeOK, ReadDone, Return
  <1>4. Forwarded(r)'
    BY <1>0 DEF Sound, Forwarded, VerdictSound, TypeOK, ReadDone, Return
  <1>5. VerdictSound(r)'
    BY <1>0 DEF Sound, Forwarded, VerdictSound, TypeOK, ReadDone, Return
  <1>6. QED
    BY <1>1, <1>2, <1>3, <1>4, <1>5 DEF Keeps, Sound

LEMMA ReadFailsKeeps ==
    ASSUME StreamInv, NEW r \in Requests, NEW e \in Errors, ReadFails(r, e)
    PROVE  Keeps(r)
  <1> USE DEF accepted, host, client, history
  <1>0. TypeOK /\ Sound(r)
    BY DEF StreamInv
  <1>1. TypeOK'
    BY <1>0 DEF TypeOK, ReadFails, Return
  <1>2. \A q \in Requests \ {r} : Same(q)
    BY <1>0 DEF Same, TypeOK, ReadFails, Return
  <1>3. StreamOwned(r)'
    BY <1>0 DEF Sound, StreamOwned, Forwarded, VerdictSound, TypeOK, ReadFails, Return
  <1>4. Forwarded(r)'
    BY <1>0 DEF Sound, Forwarded, VerdictSound, TypeOK, ReadFails, Return
  <1>5. VerdictSound(r)'
    BY <1>0 DEF Sound, Forwarded, VerdictSound, TypeOK, ReadFails, Return
  <1>6. QED
    BY <1>1, <1>2, <1>3, <1>4, <1>5 DEF Keeps, Sound

\* A payload reaches the client as the next of its stream.
LEMMA DeliverAppends ==
    ASSUME StreamInv, NEW r \in Requests, pc[r] = "emit", Deliver(r)
    PROVE  /\ delivered' \in [Requests -> Seq(Nat \X Nat)]
           /\ \A q \in Requests \ {r} : delivered'[q] = delivered[q]
           /\ Len(delivered'[r]) = got[r]
           /\ delivered'[r] # <<>>
           /\ \A i \in 1 .. Len(delivered'[r]) : delivered'[r][i] = <<attempt[r], i>>
  <1>1. delivered[r] \in Seq(Nat \X Nat) /\ <<attempt[r], got[r]>> \in Nat \X Nat
    BY DEF StreamInv, TypeOK
  <1>2. delivered'[r] = Append(delivered[r], <<attempt[r], got[r]>>)
    BY DEF Deliver, StreamInv, TypeOK
  <1>3. /\ delivered'[r] \in Seq(Nat \X Nat)
        /\ Len(delivered'[r]) = Len(delivered[r]) + 1
        /\ \A i \in 1 .. Len(delivered[r]) : delivered'[r][i] = delivered[r][i]
        /\ delivered'[r][Len(delivered[r]) + 1] = <<attempt[r], got[r]>>
    BY <1>1, <1>2, AppendProperties
  <1>4. /\ Len(delivered[r]) + 1 = got[r]
        /\ Len(delivered[r]) \in Nat
        /\ \A i \in 1 .. Len(delivered[r]) : delivered[r][i] = <<attempt[r], i>>
    BY <1>1 DEF StreamInv, Sound, Forwarded
  <1>5. /\ delivered' \in [Requests -> Seq(Nat \X Nat)]
        /\ \A q \in Requests \ {r} : delivered'[q] = delivered[q]
    BY <1>1, <1>3 DEF Deliver, StreamInv, TypeOK
  <1>6. delivered'[r] # <<>>
    BY <1>3, <1>4
  <1>7. ASSUME NEW i \in 1 .. Len(delivered'[r]) PROVE delivered'[r][i] = <<attempt[r], i>>
    <2>1. CASE i \in 1 .. Len(delivered[r])
      BY <1>3, <1>4, <2>1
    <2>2. CASE i = Len(delivered[r]) + 1
      BY <1>3, <1>4, <2>2
    <2>3. QED
      BY <1>3, <1>4, <1>7, <2>1, <2>2
  <1>8. QED
    BY <1>3, <1>4, <1>5, <1>6, <1>7

LEMMA EmitsKeeps ==
    ASSUME StreamInv, NEW r \in Requests, Emits(r)
    PROVE  Keeps(r)
  <1>0. TypeOK /\ Sound(r)
    BY DEF StreamInv
  <1>1. /\ pc[r] = "emit"
        /\ Deliver(r)
        /\ emitted' = [emitted EXCEPT ![r] = TRUE]
        /\ UNCHANGED <<kind, attempt, open, got, last, outcome, closes>>
        /\ \/ /\ pc' = [pc EXCEPT ![r] = "release"]
              /\ verdict' = [verdict EXCEPT ![r] = "complete"]
           \/ /\ pc' = [pc EXCEPT ![r] = "read"]
              /\ verdict' = verdict
    BY DEF Emits, Return, accepted, host
  <1>2. TypeOK'
    BY <1>0, <1>1, DeliverAppends DEF TypeOK
  <1>3. \A q \in Requests \ {r} : Same(q)
    BY <1>0, <1>1, DeliverAppends DEF Same, TypeOK
  <1>4. Sound(r)'
    <2>1. /\ pc'[r] \in {"release", "read"}
          /\ pc'[r] = "release" => verdict'[r] = "complete"
          /\ emitted'[r] = TRUE
      BY <1>0, <1>1 DEF TypeOK
    <2>2. QED
      BY <1>0, <1>1, <2>1, DeliverAppends DEF Sound, StreamOwned, Forwarded, VerdictSound
  <1>5. QED
    BY <1>2, <1>3, <1>4 DEF Keeps

LEMMA EmitFailsKeeps ==
    ASSUME StreamInv, NEW r \in Requests, EmitFails(r)
    PROVE  Keeps(r)
  <1>0. TypeOK /\ Sound(r)
    BY DEF StreamInv
  <1>1. /\ pc[r] = "emit"
        /\ pc' = [pc EXCEPT ![r] = "release"]
        /\ verdict' = [verdict EXCEPT ![r] = "error"]
        /\ UNCHANGED <<kind, attempt, open, got, last, emitted, outcome, closes>>
        /\ Deliver(r) \/ delivered' = delivered
    BY DEF EmitFails, Return, accepted, host
  <1>2. /\ delivered' \in [Requests -> Seq(Nat \X Nat)]
        /\ \A q \in Requests \ {r} : delivered'[q] = delivered[q]
        /\ \A i \in 1 .. Len(delivered'[r]) : delivered'[r][i] = <<attempt[r], i>>
    BY <1>0, <1>1, DeliverAppends DEF TypeOK, Sound, Forwarded
  <1>3. TypeOK'
    BY <1>0, <1>1, <1>2 DEF TypeOK
  <1>4. \A q \in Requests \ {r} : Same(q)
    BY <1>0, <1>1, <1>2 DEF Same, TypeOK
  <1>5. Sound(r)'
    <2>1. pc'[r] = "release" /\ verdict'[r] = "error"
      BY <1>0, <1>1 DEF TypeOK
    <2>2. QED
      BY <1>0, <1>1, <1>2, <2>1 DEF Sound, StreamOwned, Forwarded, VerdictSound
  <1>6. QED
    BY <1>3, <1>4, <1>5 DEF Keeps

LEMMA ReleaseKeeps ==
    ASSUME StreamInv, NEW r \in Requests, Release(r)
    PROVE  Keeps(r)
  <1>0. TypeOK /\ Sound(r)
    BY DEF StreamInv
  <1>1. /\ pc[r] = "release"
        /\ open' = [open EXCEPT ![r] = @ \ {attempt[r]}]
        /\ open'[r] = {}
        /\ UNCHANGED <<kind, got, last, emitted, verdict, closes, delivered>>
    BY <1>0 DEF Release, Sound, StreamOwned, TypeOK, accepted, client
  <1>2. CASE verdict[r] = "complete"
    <2>1. /\ outcome' = [outcome EXCEPT ![r] = "complete"]
          /\ pc' = [pc EXCEPT ![r] = "close"]
          /\ attempt' = attempt
      BY <1>0, <1>1, <1>2 DEF Release, AfterModel, Finish, Sound, Forwarded
    <2>2. TypeOK'
      BY <1>0, <1>1, <2>1 DEF TypeOK
    <2>3. \A q \in Requests \ {r} : Same(q)
      BY <1>0, <1>1, <2>1 DEF Same, TypeOK
    <2>4. pc'[r] = "close" /\ outcome'[r] = "complete"
      BY <1>0, <2>1 DEF TypeOK
    <2>5. Sound(r)'
      BY <1>0, <1>1, <1>2, <2>1, <2>4 DEF Sound, StreamOwned, Forwarded, VerdictSound
    <2>6. QED
      BY <2>2, <2>3, <2>5 DEF Keeps
  <1>3. CASE verdict[r] # "complete"
    <2> DEFINE again == verdict[r] = "retry"
    <2>1. again \in BOOLEAN /\ Failed(r, again)
      BY <1>3 DEF Release, AfterModel
    <2>2. again => delivered[r] = <<>>
      BY <1>0, <1>1 DEF Sound, VerdictSound
    <2> HIDE DEF again
    <2>3. TypeOK'
      BY <1>0, <1>1, <2>1, FailedEffect DEF TypeOK
    <2>4. \A q \in Requests \ {r} : Same(q)
      BY <1>0, <1>1, <2>1, FailedEffect DEF Same, TypeOK
    <2>5. \/ pc'[r] = "call" /\ delivered[r] = <<>>
          \/ pc'[r] = "close" /\ outcome'[r] = "error" /\ attempt'[r] = attempt[r]
      <3>1. kind[r] = "stream"
        BY <1>0, <1>1 DEF Sound, Forwarded
      <3>2. QED
        BY <1>0, <2>1, <2>2, <3>1, FailedEffect
    <2>6. Sound(r)'
      <3>1. StreamOwned(r)'
        BY <1>1, <2>5 DEF StreamOwned
      <3>2. Forwarded(r)'
        BY <1>0, <1>1, <2>5 DEF Sound, Forwarded
      <3>3. VerdictSound(r)'
        BY <2>5 DEF VerdictSound
      <3>4. QED
        BY <3>1, <3>2, <3>3 DEF Sound
    <2>7. QED
      BY <2>3, <2>4, <2>6 DEF Keeps
  <1>4. QED
    BY <1>2, <1>3

LEMMA CloseKeeps ==
    ASSUME StreamInv, NEW r \in Requests, ClosePluginStream(r)
    PROVE  Keeps(r)
  <1>0. TypeOK /\ Sound(r)
    BY DEF StreamInv
  <1>1. /\ pc[r] = "close"
        /\ pc' = [pc EXCEPT ![r] = "done"]
        /\ closes' = [closes EXCEPT ![r] = <<outcome[r]>>]
        /\ UNCHANGED <<kind, attempt, open, got, last, emitted, verdict, outcome, delivered>>
    BY <1>0 DEF ClosePluginStream, Sound, Forwarded, TypeOK, accepted, host
  <1>2. <<outcome[r]>> \in Seq({"complete", "error"})
    BY <1>0, <1>1 DEF Sound, VerdictSound
  <1>3. TypeOK'
    BY <1>0, <1>1, <1>2 DEF TypeOK
  <1>4. \A q \in Requests \ {r} : Same(q)
    BY <1>0, <1>1 DEF Same, TypeOK
  <1>5. Sound(r)'
    <2>1. pc'[r] = "done"
      BY <1>0, <1>1 DEF TypeOK
    <2>2. QED
      BY <1>0, <1>1, <2>1 DEF Sound, StreamOwned, Forwarded, VerdictSound
  <1>6. QED
    BY <1>3, <1>4, <1>5 DEF Keeps

\* The plugin's configuration changes, or nothing does.
LEMMA IdleStreamInv ==
    ASSUME StreamInv, (\E input \in Inputs : Reconfigure(input)) \/ Shutdown \/ UNCHANGED vars
    PROVE  StreamInv'
  <1>1. UNCHANGED <<kind, pc, attempt, open, got, last, emitted, verdict, outcome, closes, delivered>>
    BY DEF Reconfigure, Shutdown, vars, accepted, host, client
  <1>2. QED
    BY <1>1 DEF StreamInv, TypeOK, Sound, StreamOwned, Forwarded, VerdictSound

LEMMA ServeKeeps ==
    ASSUME StreamInv, NEW r \in Requests, Serve(r)
    PROVE  Keeps(r)
  <1>1. UpstreamErrors \subseteq Errors
    BY DEF Errors
  <1>2. QED
    BY <1>1, ResolveKeeps, ResolveFailsKeeps, ExecutesKeeps, CallFailsKeeps, OpensKeeps,
       ReadPayloadKeeps, ReadDoneKeeps, ReadFailsKeeps, EmitsKeeps, EmitFailsKeeps,
       ReleaseKeeps, CloseKeeps DEF Serve

LEMMA StepStreamInv == StreamInv /\ [Next]_vars => StreamInv'
  <1> SUFFICES ASSUME StreamInv, [Next]_vars PROVE StreamInv'
    OBVIOUS
  <1>1. ASSUME NEW r \in Requests, Serve(r) PROVE StreamInv'
    BY <1>1, ServeKeeps, KeepsIsEnough
  <1>2. ASSUME NEW r \in Requests, NEW k \in {"execute", "stream"}, Accept(r, k) \/ Refuse(r, k)
        PROVE  StreamInv'
    BY <1>2, AcceptKeeps, RefuseKeeps, KeepsIsEnough
  <1>3. QED
    BY <1>1, <1>2, IdleStreamInv DEF Next

\* The inductive invariant holds in every reachable state.
THEOREM StreamInductive == Spec => []StreamInv
  BY InitStreamInv, StepStreamInv, PTL DEF Spec

\* The variables keep their types.
THEOREM StreamTypes == Spec => []TypeOK
  <1>1. StreamInv => TypeOK
    BY DEF StreamInv
  <1>2. QED
    BY <1>1, StreamInductive, PTL

\* What a client received is the beginning of one model's stream, also when an
\* emit that reported an error had reached it.
THEOREM OneSourceOnly == Spec => []OneSource
  <1>1. StreamInv => OneSource
    BY DEF StreamInv, Sound, Forwarded, OneSource
  <1>2. QED
    BY <1>1, StreamInductive, PTL

\* No path through streamModel leaves a host stream open.
THEOREM NoStreamLeaks == Spec => []HostStreamsReleased
  <1>1. StreamInv => HostStreamsReleased
    BY DEF StreamInv, Sound, StreamOwned, HostStreamsReleased
  <1>2. QED
    BY <1>1, StreamInductive, PTL

-----------------------------------------------------------------------------
\* What a step of request r does to its client is a step of the promise.
LEMMA PromisedReads ==
    ASSUME StreamInv, NEW r \in Requests,
           Opens(r) \/ \E isLast \in BOOLEAN : ReadPayload(r, isLast)
    PROVE  Promise!Next
  <1>0. TypeOK /\ Sound(r)
    BY DEF StreamInv
  <1>1. UNCHANGED <<closes, delivered>>
    BY DEF Opens, ReadPayload, client
  <1>2. closes[r] = <<>>
    BY <1>0 DEF Sound, Forwarded, Opens, ReadPayload
  <1>3. CASE Opens(r)
    <2>1. Len(delivered[r]) = 0
      BY <1>0, <1>3 DEF Opens, Sound, Forwarded
    <2>2. Promise!Replace(r)
      BY <1>1, <1>2, <1>3, <2>1 DEF Promise!Replace, Promise!Open, Opens
    <2>3. QED
      BY <2>2 DEF Promise!Next
  <1>4. CASE \E isLast \in BOOLEAN : ReadPayload(r, isLast)
    <2>1. Len(delivered[r]) = got[r] /\ got' = [got EXCEPT ![r] = got[r] + 1]
      BY <1>0, <1>4 DEF ReadPayload, Sound, Forwarded
    <2>2. Promise!Produce(r)
      BY <1>1, <1>2, <2>1 DEF Promise!Produce, Promise!Open
    <2>3. QED
      BY <2>2 DEF Promise!Next
  <1>5. QED
    BY <1>3, <1>4

LEMMA PromisedEmits ==
    ASSUME StreamInv, NEW r \in Requests, Emits(r) \/ EmitFails(r)
    PROVE  Promise!Next \/ UNCHANGED Promise!promise
  <1>0. TypeOK /\ Sound(r)
    BY DEF StreamInv
  <1>1. /\ pc[r] = "emit"
        /\ UNCHANGED <<got, closes>>
        /\ Deliver(r) \/ delivered' = delivered
    BY DEF Emits, EmitFails, host
  <1>2. closes[r] = <<>> /\ Len(delivered[r]) + 1 = got[r] /\ Len(delivered[r]) \in Nat
    BY <1>0, <1>1 DEF Sound, Forwarded, TypeOK
  <1>3. CASE delivered' = delivered
    BY <1>1, <1>3 DEF Promise!promise
  <1>4. CASE Deliver(r)
    <2>1. /\ Len(delivered'[r]) = Len(delivered[r]) + 1
          /\ \A q \in Requests \ {r} : delivered'[q] = delivered[q]
      BY <1>1, <1>2, <1>4, DeliverAppends
    <2> DEFINE received == [q \in Requests |-> Len(delivered[q])]
    <2>2. received' = [received EXCEPT ![r] = received[r] + 1]
      BY <2>1
    <2>3. received[r] < got[r]
      BY <1>2
    <2>4. Promise!Receive(r)
      BY <1>1, <1>2, <2>2, <2>3 DEF Promise!Receive, Promise!Open
    <2>5. QED
      BY <2>4 DEF Promise!Next
  <1>5. QED
    BY <1>1, <1>3, <1>4

LEMMA PromisedClose ==
    ASSUME StreamInv, NEW r \in Requests, ClosePluginStream(r)
    PROVE  Promise!Next
  <1>0. TypeOK /\ Sound(r)
    BY DEF StreamInv
  <1>1. /\ pc[r] = "close"
        /\ closes[r] = <<>>
        /\ closes' = [closes EXCEPT ![r] = <<outcome[r]>>]
        /\ UNCHANGED <<got, delivered>>
    BY <1>0 DEF ClosePluginStream, Sound, Forwarded, TypeOK, host
  <1>2. /\ outcome[r] \in {"complete", "error"}
        /\ outcome[r] = "complete" => Len(delivered[r]) = got[r]
    BY <1>0, <1>1 DEF Sound, VerdictSound
  <1>3. Promise!End(r, outcome[r])
    BY <1>1, <1>2 DEF Promise!End, Promise!Open
  <1>4. QED
    BY <1>2, <1>3 DEF Promise!Next

LEMMA QuietSteps ==
    ASSUME NEW r \in Requests,
           \/ \E m \in Models : Resolve(r, m)
           \/ \E k \in {"execute", "stream"} : Accept(r, k) \/ Refuse(r, k)
           \/ ResolveFails(r) \/ Executes(r) \/ ReadDone(r) \/ Release(r)
           \/ \E e \in Errors : ExecuteFails(r, e) \/ OpenFails(r, e) \/ ReadFails(r, e)
    PROVE  UNCHANGED Promise!promise
  <1>1. UNCHANGED <<got, closes, delivered>>
    BY DEF Resolve, Accept, Refuse, ResolveFails, Executes, ReadDone, Release, ExecuteFails,
           OpenFails, ReadFails, host, client
  <1>2. QED
    BY <1>1 DEF Promise!promise

\* Whatever models are tried, the client of a stream is given what Delivery
\* promises: the implementation refines the abstract specification.
THEOREM PromiseKept == Spec => DeliveryKept
  <1>1. Init => Promise!Init
    BY DEF Init, Promise!Init
  <1>2. StreamInv /\ [Next]_vars => [Promise!Next]_(Promise!promise)
    <2> SUFFICES ASSUME StreamInv, [Next]_vars
                 PROVE  Promise!Next \/ UNCHANGED Promise!promise
      OBVIOUS
    <2>1. ASSUME NEW r \in Requests, Serve(r)
          PROVE  Promise!Next \/ UNCHANGED Promise!promise
      <3>1. UpstreamErrors \subseteq Errors
        BY DEF Errors
      <3>2. QED
        BY <2>1, <3>1, PromisedReads, PromisedEmits, PromisedClose, QuietSteps DEF Serve
    <2>2. ASSUME NEW r \in Requests, NEW k \in {"execute", "stream"}, Accept(r, k) \/ Refuse(r, k)
          PROVE  UNCHANGED Promise!promise
      BY <2>2, QuietSteps
    <2>3. CASE (\E input \in Inputs : Reconfigure(input)) \/ Shutdown \/ UNCHANGED vars
      <3>1. UNCHANGED <<got, closes, delivered>>
        BY <2>3 DEF Reconfigure, Shutdown, vars, host, client
      <3>2. QED
        BY <3>1 DEF Promise!promise
    <2>4. QED
      BY <2>1, <2>2, <2>3 DEF Next
  <1>3. QED
    BY <1>1, <1>2, StreamInductive, PTL DEF Spec, DeliveryKept, Promise!Spec

-----------------------------------------------------------------------------
\* A set of natural numbers has a least one.
LEMMA NatMin ==
    ASSUME NEW S \in SUBSET Nat, S # {}
    PROVE  \E n \in S : \A k \in S : n <= k
  <1> DEFINE less == {ss \in Nat \X Nat : ss[1] < ss[2]}
  <1>1. IsWellFoundedOn(less, Nat)
    BY NatLessThanWellFounded DEF OpToRel
  <1>2. \A k, n \in Nat : k < n => <<k, n>> \in less
    OBVIOUS
  <1> HIDE DEF less
  <1>3. \A R, U : IsWellFoundedOn(R, U) =>
            \A T : T \subseteq U /\ T # {} => \E x \in T : \A y \in T : ~ (<<y, x>> \in R)
    BY WFMin
  <1>4. S \subseteq Nat
    OBVIOUS
  <1>5. PICK n \in S : \A k \in S : ~(<<k, n>> \in less)
    BY <1>1, <1>3, <1>4, Zenon
  <1>6. ASSUME NEW k \in S PROVE n <= k
    <2>1. ~(k < n)
      BY <1>2, <1>4, <1>5, Zenon
    <2>2. QED
      BY <1>4, <2>1
  <1>7. QED
    BY <1>6

\* at enumerates the n members of I upwards.
Enumerates(at, n, I) ==
    /\ at \in [1 .. n -> I]
    /\ \A a, b \in 1 .. n : a < b => at[a] < at[b]
    /\ \A i \in I : \E k \in 1 .. n : at[k] = i

\* The members at the positions I are those of list, in its order.
LEMMA AtOrder ==
    ASSUME NEW list, NEW N \in Nat, NEW I \in SUBSET (1 .. N)
    PROVE  \E n \in Nat : \E at : Enumerates(at, n, I) /\ At(list, I) = [k \in 1 .. n |-> list[at[k]]]
  <1> DEFINE upTo(i) == {j \in I : j <= i}
             n       == Cardinality(I)
             rank    == [i \in I |-> Cardinality(upTo(i))]
             at      == [k \in 1 .. n |-> CHOOSE i \in I : Cardinality(upTo(i)) = k]
  <1>0. I \subseteq Nat /\ 1 \in Int /\ N \in Int
    OBVIOUS
  <1>1. IsFiniteSet(I) /\ n \in Nat
    <2>1. IsFiniteSet(1 .. N)
      BY <1>0, FS_Interval
    <2>2. IsFiniteSet(I)
      BY <2>1, FS_Subset
    <2>3. QED
      BY <2>2, FS_CardinalityType
  <1>2. ASSUME NEW i \in I PROVE IsFiniteSet(upTo(i)) /\ Cardinality(upTo(i)) \in 1 .. n
    <2>1. /\ upTo(i) \in SUBSET I
          /\ i \in upTo(i)
      OBVIOUS
    <2>2. IsFiniteSet(upTo(i)) /\ Cardinality(upTo(i)) <= n
      BY <1>1, <2>1, FS_Subset
    <2>3. Cardinality(upTo(i)) \in Nat /\ Cardinality(upTo(i)) # 0
      BY <2>1, <2>2, FS_CardinalityType, FS_EmptySet
    <2>4. QED
      BY <1>1, <2>2, <2>3
  <1>3. ASSUME NEW i \in I, NEW k \in I, i < k
        PROVE  Cardinality(upTo(i)) < Cardinality(upTo(k))
    <2>0. /\ i \in Nat /\ k \in Nat
          /\ \A j \in I : j \in Nat
      BY <1>0
    <2>1. \A j \in I : j <= i => j <= k
      BY <1>3, <2>0
    <2>2. /\ upTo(i) \in SUBSET upTo(k)
          /\ k \in upTo(k)
          /\ k \notin upTo(i)
      <3>1. upTo(i) \subseteq upTo(k)
        BY <2>1
      <3>2. k \in upTo(k)
        BY <2>0
      <3>3. ~(k <= i)
        BY <1>3, <2>0
      <3>4. k \notin upTo(i)
        BY <3>3
      <3>5. QED
        BY <3>1, <3>2, <3>4
    <2>3. /\ Cardinality(upTo(i)) <= Cardinality(upTo(k))
          /\ Cardinality(upTo(i)) # Cardinality(upTo(k))
      BY <1>2, <2>2, FS_Subset
    <2>4. QED
      BY <1>2, <2>3
  <1> HIDE DEF upTo
  <1>4. ASSUME NEW i \in I, NEW k \in I, Cardinality(upTo(i)) = Cardinality(upTo(k))
        PROVE  i = k
    BY <1>2, <1>3, <1>4
  <1>5. rank \in Surjection(I, 1 .. n)
    <2>1. rank \in Injection(I, 1 .. n)
      BY <1>2, <1>4 DEF Injection, IsInjective
    <2>2. IsFiniteSet(1 .. n) /\ Cardinality(1 .. n) = n
      BY <1>0, <1>1, FS_Interval
    <2>3. QED
      BY <2>1, <2>2, FS_Injection
  <1>6. \A k \in 1 .. n : \E i \in I : Cardinality(upTo(i)) = k
    BY <1>5 DEF Surjection
  <1>7. \A k \in 1 .. n : at[k] \in I /\ Cardinality(upTo(at[k])) = k
    BY <1>6
  <1>8. at \in [1 .. n -> I]
    BY <1>7
  <1>9. At(list, I) = [k \in 1 .. n |-> list[at[k]]]
    BY DEF At, upTo
  <1> HIDE DEF at
  <1>10. \A a, b \in 1 .. n : a < b => at[a] < at[b]
    <2> SUFFICES ASSUME NEW a \in 1 .. n, NEW b \in 1 .. n, a < b
                 PROVE  at[a] < at[b]
      OBVIOUS
    <2>1. /\ at[a] \in I /\ Cardinality(upTo(at[a])) = a
          /\ at[b] \in I /\ Cardinality(upTo(at[b])) = b
      BY <1>7
    <2>2. /\ at[a] \in Nat /\ at[b] \in Nat
          /\ at[b] < at[a] => b < a
          /\ at[a] = at[b] => a = b
      BY <1>0, <1>3, <2>1
    <2>3. QED
      BY <2>1, <2>2
  <1>11. \A i \in I : \E k \in 1 .. n : at[k] = i
    BY <1>2, <1>4, <1>7
  <1>12. QED
    BY <1>1, <1>8, <1>9, <1>10, <1>11 DEF Enumerates

\* All positions give the list itself.
LEMMA AtAll ==
    ASSUME NEW T, NEW list \in Seq(T)
    PROVE  At(list, DOMAIN list) = list
  <1> DEFINE n == Len(list)
  <1>1. n \in Nat /\ DOMAIN list = 1 .. n /\ list = [k \in 1 .. n |-> list[k]]
    OBVIOUS
  <1>2. Cardinality(1 .. n) = n
    BY <1>1, FS_Interval
  <1>3. ASSUME NEW i \in 1 .. n PROVE Cardinality({j \in 1 .. n : j <= i}) = i
    <2>1. {j \in 1 .. n : j <= i} = 1 .. i
      BY <1>1
    <2>2. 1 \in Int /\ i \in Int /\ ~(1 > i)
      BY <1>1
    <2>3. Cardinality(1 .. i) = IF 1 > i THEN 0 ELSE i - 1 + 1
      BY <2>2, FS_Interval
    <2>4. Cardinality(1 .. i) = i
      BY <2>2, <2>3
    <2>5. QED
      BY <2>1, <2>4, Zenon
  <1> DEFINE place(k) == CHOOSE i \in 1 .. n : Cardinality({j \in 1 .. n : j <= i}) = k
  <1>4. \A k \in 1 .. n : place(k) = k
    BY <1>3
  <1>5. At(list, 1 .. n) = [k \in 1 .. n |-> list[place(k)]]
    BY <1>2, Zenon DEF At
  <1> HIDE DEF place
  <1>6. [k \in 1 .. n |-> list[place(k)]] = [k \in 1 .. n |-> list[k]]
    BY <1>4
  <1>7. QED
    BY <1>1, <1>5, <1>6

\* What one configured source, or one request, is given to ask: the members of
\* list other than x, each once, in the order they are first named in.
Lists(kept, list, x) ==
    /\ IsInjective(kept)
    /\ \A k \in DOMAIN kept :
          /\ kept[k] # x
          /\ \E i \in DOMAIN list :
                /\ kept[k] = list[i]
                /\ \A j \in 1 .. i - 1 : list[j] = x \/ \E h \in 1 .. k - 1 : kept[h] = list[j]
    /\ \A i \in DOMAIN list : list[i] = x \/ \E k \in DOMAIN kept : kept[k] = list[i]

LEMMA KeptLists ==
    ASSUME NEW T, NEW list \in Seq(T), NEW path
    PROVE  Kept(path, list) \in Seq(T) /\ Lists(Kept(path, list), list, path)
  <1> DEFINE N    == Len(list)
             I    == {i \in 1 .. N : list[i] # path /\ \A j \in 1 .. i - 1 : list[j] # list[i]}
             kept == Kept(path, list)
  <1>1. N \in Nat /\ DOMAIN list = 1 .. N /\ (\A i \in 1 .. N : list[i] \in T)
    OBVIOUS
  <1>2. kept = At(list, I)
    BY <1>1 DEF Kept
  <1>3. I \in SUBSET (1 .. N) /\ I \subseteq Nat
    OBVIOUS
  <1>4. \A i \in I : list[i] # path /\ \A j \in 1 .. i - 1 : list[j] # list[i]
    OBVIOUS
  <1>5. ASSUME NEW i \in 1 .. N, list[i] # path
        PROVE  \E f \in I : f <= i /\ list[f] = list[i]
    <2> DEFINE same == {j \in 1 .. N : list[j] = list[i]}
    <2>1. PICK f \in same : \A k \in same : f <= k
      <3>1. same \in SUBSET Nat /\ i \in same
        BY <1>1
      <3>2. QED
        BY <3>1, NatMin
    <2>2. \A j \in 1 .. f - 1 : j \in 1 .. N /\ ~(f <= j)
      BY <1>1
    <2>3. \A j \in 1 .. f - 1 : list[j] # list[f]
      BY <2>1, <2>2
    <2>4. f \in I /\ f <= i
      BY <1>5, <2>1, <2>3
    <2>5. QED
      BY <2>4
  <1> HIDE DEF I
  <1>6. PICK n \in Nat : \E at : Enumerates(at, n, I) /\ At(list, I) = [k \in 1 .. n |-> list[at[k]]]
    BY <1>1, <1>3, AtOrder
  <1>7. PICK at : Enumerates(at, n, I) /\ At(list, I) = [k \in 1 .. n |-> list[at[k]]]
    BY <1>6
  <1>8. kept = [k \in 1 .. n |-> list[at[k]]]
    BY <1>2, <1>7
  <1> HIDE DEF kept, N
  <1>9. /\ \A k \in 1 .. n : at[k] \in I /\ at[k] \in 1 .. N /\ at[k] \in Nat
        /\ \A a, b \in 1 .. n : a < b => at[a] < at[b]
        /\ \A i \in I : \E k \in 1 .. n : at[k] = i
    BY <1>3, <1>7 DEF Enumerates
  <1>10. DOMAIN kept = 1 .. n /\ \A k \in 1 .. n : kept[k] = list[at[k]]
    BY <1>8
  <1>11. kept \in Seq(T)
    BY <1>1, <1>8, <1>9
  <1>12. ASSUME NEW a \in 1 .. n, NEW b \in 1 .. n, kept[a] = kept[b]
         PROVE  ~(a < b)
    <2> SUFFICES ASSUME a < b PROVE FALSE
      OBVIOUS
    <2>1. at[a] \in 1 .. at[b] - 1
      BY <1>9
    <2>2. list[at[a]] # list[at[b]]
      BY <1>4, <1>9, <2>1
    <2>3. QED
      BY <1>10, <1>12, <2>2
  <1>13. IsInjective(kept)
    BY <1>10, <1>12 DEF IsInjective
  <1>14. ASSUME NEW k \in 1 .. n, NEW j \in 1 .. at[k] - 1, list[j] # path
         PROVE  \E h \in 1 .. k - 1 : kept[h] = list[j]
    <2>1. j \in 1 .. N /\ j \in Nat /\ j < at[k]
      BY <1>1, <1>9
    <2>2. PICK f \in I : f <= j /\ list[f] = list[j]
      BY <1>5, <1>14, <2>1
    <2>3. PICK h \in 1 .. n : at[h] = f
      BY <1>9
    <2>4. at[h] < at[k]
      BY <1>3, <1>9, <2>1, <2>2, <2>3
    <2>5. h < k
      <3>1. h # k /\ ~(k < h)
        BY <1>9, <2>4
      <3>2. QED
        BY <3>1
    <2>6. QED
      BY <1>10, <2>2, <2>3, <2>5
  <1>15. ASSUME NEW k \in 1 .. n
         PROVE  /\ kept[k] # path
                /\ \E i \in 1 .. N :
                      /\ kept[k] = list[i]
                      /\ \A j \in 1 .. i - 1 : list[j] = path \/ \E h \in 1 .. k - 1 : kept[h] = list[j]
    <2>1. kept[k] # path
      BY <1>4, <1>9, <1>10
    <2>2. kept[k] = list[at[k]] /\ at[k] \in 1 .. N
      BY <1>9, <1>10
    <2>3. QED
      BY <1>14, <2>1, <2>2
  <1>16. ASSUME NEW i \in 1 .. N, list[i] # path
         PROVE  \E k \in 1 .. n : kept[k] = list[i]
    <2>1. PICK f \in I : list[f] = list[i]
      BY <1>5, <1>16
    <2>2. PICK k \in 1 .. n : at[k] = f
      BY <1>9
    <2>3. QED
      BY <1>10, <2>1, <2>2
  <1>17. Lists(kept, list, path)
    <2>1. \A k \in DOMAIN kept :
             /\ kept[k] # path
             /\ \E i \in DOMAIN list :
                   /\ kept[k] = list[i]
                   /\ \A j \in 1 .. i - 1 : list[j] = path \/ \E h \in 1 .. k - 1 : kept[h] = list[j]
      BY <1>1, <1>10, <1>15
    <2>2. \A i \in DOMAIN list : list[i] = path \/ \E k \in DOMAIN kept : kept[k] = list[i]
      BY <1>1, <1>10, <1>16
    <2>3. QED
      BY <1>13, <2>1, <2>2 DEF Lists
  <1>18. QED
    BY <1>11, <1>17 DEF kept

\* The targets of a source keep their order and stay apart with a common rest.
LEMMA RestCancels ==
    ASSUME NEW S, NEW s \in Seq(S), NEW t \in Seq(S), NEW rest \in Seq(S), s \o rest = t \o rest
    PROVE  s = t
  <1>1. Len(s) + Len(rest) = Len(t) + Len(rest)
    BY ConcatProperties
  <1>2. Len(s) = Len(t)
    BY <1>1
  <1>3. \A i \in 1 .. Len(s) : s[i] = (s \o rest)[i]
    OBVIOUS
  <1>4. \A i \in 1 .. Len(t) : t[i] = (t \o rest)[i]
    OBVIOUS
  <1>5. QED
    BY <1>2, <1>3, <1>4, SeqEqual

LEMMA ListsWithRest ==
    ASSUME NEW S, NEW kept \in Seq(Seq(S)), NEW list \in Seq(Seq(S)), NEW path \in Seq(S),
           NEW rest \in Seq(S), Lists(kept, list, path)
    PROVE  Lists([k \in DOMAIN kept |-> kept[k] \o rest], [i \in DOMAIN list |-> list[i] \o rest],
                 path \o rest)
  <1> DEFINE named == [k \in DOMAIN kept |-> kept[k] \o rest]
             L     == [i \in DOMAIN list |-> list[i] \o rest]
  <1>1. /\ \A k \in DOMAIN kept : kept[k] \in Seq(S)
        /\ \A i \in DOMAIN list : list[i] \in Seq(S)
        /\ DOMAIN kept = 1 .. Len(kept) /\ Len(kept) \in Nat
        /\ DOMAIN list = 1 .. Len(list) /\ Len(list) \in Nat
    OBVIOUS
  <1>2. \A s, t \in Seq(S) : s \o rest = t \o rest => s = t
    BY RestCancels
  <1>3. IsInjective(named)
    BY <1>1, <1>2 DEF Lists, IsInjective
  <1>4. ASSUME NEW k \in DOMAIN kept PROVE named[k] # path \o rest
    BY <1>1, <1>2 DEF Lists
  <1>5. ASSUME NEW k \in DOMAIN kept
        PROVE  \E i \in DOMAIN list :
                /\ named[k] = L[i]
                /\ \A j \in 1 .. i - 1 :
                      L[j] = path \o rest \/ \E h \in 1 .. k - 1 : named[h] = L[j]
    <2>1. PICK i \in DOMAIN list :
                /\ kept[k] = list[i]
                /\ \A j \in 1 .. i - 1 : list[j] = path \/ \E h \in 1 .. k - 1 : kept[h] = list[j]
      BY DEF Lists
    <2>2. ASSUME NEW j \in 1 .. i - 1
          PROVE  L[j] = path \o rest \/ \E h \in 1 .. k - 1 : named[h] = L[j]
      <3>1. j \in DOMAIN list
        BY <1>1
      <3>2. \A h \in 1 .. k - 1 : h \in DOMAIN kept
        BY <1>1
      <3>3. QED
        BY <2>1, <3>1, <3>2
    <2>3. QED
      BY <2>1, <2>2
  <1>6. ASSUME NEW i \in DOMAIN list
        PROVE  L[i] = path \o rest \/ \E k \in DOMAIN kept : named[k] = L[i]
    BY DEF Lists
  <1>7. DOMAIN named = DOMAIN kept /\ DOMAIN L = DOMAIN list
    OBVIOUS
  <1> HIDE DEF named, L
  <1>8. Lists(named, L, path \o rest)
    <2> DEFINE m == path \o rest
    <2>1. \A k \in DOMAIN named :
             /\ named[k] # m
             /\ \E i \in DOMAIN L :
                   /\ named[k] = L[i]
                   /\ \A j \in 1 .. i - 1 : L[j] = m \/ \E h \in 1 .. k - 1 : named[h] = L[j]
      BY <1>4, <1>5, <1>7
    <2>2. \A i \in DOMAIN L : L[i] = m \/ \E k \in DOMAIN named : named[k] = L[i]
      BY <1>6, <1>7
    <2> HIDE DEF m
    <2>3. Lists(named, L, m)
      BY <1>3, <2>1, <2>2 DEF Lists
    <2>4. QED
      BY <2>3 DEF m
  <1>9. QED
    BY <1>8 DEF named, L

LEMMA FlattenOne ==
    ASSUME NEW x
    PROVE  FlattenSeq([i \in 1 .. 1 |-> x]) = x
  <1>1. [i \in 1 .. 1 |-> x] = <<x>>
    OBVIOUS
  <1>2. FlattenSeq(<<x>>) = x
    BY DEF FlattenSeq
  <1>3. QED
    BY <1>1, <1>2, Zenon

LEMMA OneOrder ==
    ASSUME NEW s
    PROVE  SetToSeqs({s}) = {[i \in 1 .. 1 |-> s]}
  <1>1. Cardinality({s}) = 1
    BY FS_Singleton
  <1>2. \A i \in 1 .. 1 : i = 1
    OBVIOUS
  <1>3. SetToSeqs({s}) = {f \in [1 .. 1 -> {s}] : \A i, j \in 1 .. 1 : i # j => f[i] # f[j]}
    BY <1>1, Zenon DEF SetToSeqs
  <1>4. \A f \in [1 .. 1 -> {s}] : f = [i \in 1 .. 1 |-> s]
    OBVIOUS
  <1>5. QED
    BY <1>2, <1>3, <1>4

\* A source that is spelled once keeps, in every table, what its list keeps.
LEMMA SpelledOnceTable ==
    ASSUME NEW prefixes, NEW table \in NormalizeQuotaFallback(prefixes),
           \A s, t \in DOMAIN prefixes : s.path = t.path => s = t
    PROVE  /\ \A p \in DOMAIN table : \E s \in DOMAIN prefixes :
                 s.path = p /\ table[p] # <<>> /\ table[p] = Kept(p, prefixes[s])
           /\ \A s \in DOMAIN prefixes : Kept(s.path, prefixes[s]) # <<>> => s.path \in DOMAIN table
  <1> DEFINE Spellings(path) == {source \in DOMAIN prefixes : source.path = path}
             Appended(order) ==
                 FlattenSeq([i \in DOMAIN order |-> Kept(order[i].path, prefixes[order[i]])])
             AllLists(path)  == {Appended(order) : order \in SetToSeqs(Spellings(path))}
             Sources         == {p \in {source.path : source \in DOMAIN prefixes} : AllLists(p) # {<<>>}}
  <1>1. ASSUME NEW s \in DOMAIN prefixes
        PROVE  AllLists(s.path) = {Kept(s.path, prefixes[s])}
    <2> DEFINE one == [i \in 1 .. 1 |-> s]
    <2>1. Spellings(s.path) = {s}
      OBVIOUS
    <2>2. SetToSeqs(Spellings(s.path)) = {one}
      BY <2>1, OneOrder
    <2>3. Appended(one) = Kept(s.path, prefixes[s])
      <3>1. [i \in DOMAIN one |-> Kept(one[i].path, prefixes[one[i]])]
            = [i \in 1 .. 1 |-> Kept(s.path, prefixes[s])]
        OBVIOUS
      <3>2. QED
        BY <3>1, FlattenOne
    <2> HIDE DEF one, Spellings, Appended
    <2>4. AllLists(s.path) = {Appended(one)}
      BY <2>2
    <2>5. QED
      BY <2>3, <2>4
  <1>2. /\ DOMAIN table = Sources
        /\ \A p \in Sources : table[p] \in AllLists(p)
    BY DEF NormalizeQuotaFallback
  <1> HIDE DEF AllLists
  <1>3. ASSUME NEW p \in DOMAIN table
        PROVE  \E s \in DOMAIN prefixes :
                 s.path = p /\ table[p] # <<>> /\ table[p] = Kept(p, prefixes[s])
    <2>1. PICK s \in DOMAIN prefixes : s.path = p
      BY <1>2
    <2>2. AllLists(p) # {<<>>} /\ table[p] \in AllLists(p)
      BY <1>2
    <2>3. QED
      BY <1>1, <2>1, <2>2
  <1>4. ASSUME NEW s \in DOMAIN prefixes, Kept(s.path, prefixes[s]) # <<>>
        PROVE  s.path \in DOMAIN table
    BY <1>1, <1>2, <1>4
  <1>5. QED
    BY <1>3, <1>4

\* Two beginnings of one sequence that are equally long are the same.
LEMMA SamePrefix ==
    ASSUME NEW S, NEW s \in Seq(S), NEW t \in Seq(S), NEW m, IsPrefix(s, m), IsPrefix(t, m),
           Len(s) = Len(t)
    PROVE  s = t
  <1>1. SubSeq(s, 1, Len(s)) = s /\ SubSeq(t, 1, Len(t)) = t
    BY SubSeqFull
  <1>2. QED
    BY <1>1 DEF IsPrefix

LEMMA PrefixAndRest ==
    ASSUME NEW S, NEW s \in Seq(S), NEW m \in Seq(S), IsPrefix(s, m)
    PROVE  /\ SubSeq(m, Len(s) + 1, Len(m)) \in Seq(S)
           /\ s \o SubSeq(m, Len(s) + 1, Len(m)) = m
  <1>1. SubSeq(s, 1, Len(s)) = s /\ SubSeq(m, 1, Len(m)) = m
    BY SubSeqFull
  <1>2. s = SubSeq(m, 1, Len(s)) /\ Len(s) <= Len(m) /\ Len(s) \in Nat /\ Len(m) \in Nat
    BY <1>1 DEF IsPrefix
  <1> DEFINE rest == SubSeq(m, Len(s) + 1, Len(m))
  <1>3. rest \in Seq(S) /\ Len(rest) = Len(m) - Len(s) /\ \A i \in 1 .. Len(m) - Len(s) : rest[i] = m[Len(s) + i]
    BY <1>2
  <1>4. \A i \in 1 .. Len(s) : s[i] = m[i]
    BY <1>2
  <1> HIDE DEF rest
  <1>5. /\ s \o rest \in Seq(S)
        /\ Len(s \o rest) = Len(m)
        /\ \A i \in 1 .. Len(m) : (s \o rest)[i] = IF i <= Len(s) THEN s[i] ELSE rest[i - Len(s)]
    BY <1>2, <1>3, ConcatProperties
  <1>6. ASSUME NEW i \in 1 .. Len(m) PROVE (s \o rest)[i] = m[i]
    <2>1. CASE i \in 1 .. Len(s)
      BY <1>2, <1>4, <1>5, <2>1
    <2>2. CASE i \notin 1 .. Len(s)
      <3>1. i - Len(s) \in 1 .. Len(m) - Len(s) /\ Len(s) + (i - Len(s)) = i
        BY <1>2, <2>2
      <3>2. QED
        BY <1>2, <1>3, <1>5, <2>2, <3>1
    <2>3. QED
      BY <2>1, <2>2
  <1>7. s \o rest = m
    BY <1>5, <1>6, SeqEqual
  <1>8. QED
    BY <1>3, <1>7 DEF rest

-----------------------------------------------------------------------------
\* tried follows list: nothing twice, and after the first only what list names,
\* with all that list names ahead of it tried before.
Follows(tried, list) ==
    /\ IsInjective(tried)
    /\ \A j \in 2 .. Len(tried) : \E k \in DOMAIN list :
          /\ tried[j] = list[k]
          /\ \A i \in 1 .. k - 1 : \E h \in 1 .. j - 1 : tried[h] = list[i]

\* T is the model itself and then all that list names.
Covers(T, list, m) ==
    /\ T \in Seq(Seq(Segments)) /\ T # <<>> /\ T[1] = m
    /\ Follows(T, list)
    /\ ToSet(list) \subseteq ToSet(T)

LEMMA AloneCovers ==
    ASSUME NEW m \in Seq(Segments)
    PROVE  Covers(<<m>>, <<>>, m)
  BY DEF Covers, Follows, IsInjective, ToSet

LEMMA ListCovers ==
    ASSUME NEW m \in Seq(Segments), NEW named \in Seq(Seq(Segments)), NEW list \in Seq(Seq(Segments)),
           Lists(named, list, m)
    PROVE  Covers(<<m>> \o named, list, m)
  <1> DEFINE T == <<m>> \o named
             n == Len(named)
  <1>1. /\ n \in Nat /\ DOMAIN named = 1 .. n
        /\ DOMAIN list = 1 .. Len(list) /\ Len(list) \in Nat
    OBVIOUS
  <1>2. /\ T \in Seq(Seq(Segments)) /\ Len(T) = n + 1 /\ DOMAIN T = 1 .. n + 1
        /\ T[1] = m
        /\ \A k \in 1 .. n : T[k + 1] = named[k]
    OBVIOUS
  <1> HIDE DEF T, n
  <1>3. \A j \in 2 .. n + 1 : j - 1 \in 1 .. n /\ T[j] = named[j - 1]
    <2>1. \A j \in 2 .. n + 1 : j - 1 \in 1 .. n /\ (j - 1) + 1 = j
      BY <1>1
    <2>2. QED
      BY <1>2, <2>1
  <1>4. ASSUME NEW a \in 1 .. n + 1, NEW b \in 1 .. n + 1, T[a] = T[b]
        PROVE  a = b
    <2>1. \A k \in 1 .. n : named[k] # m
      BY <1>1 DEF Lists
    <2>2. \A k, h \in 1 .. n : named[k] = named[h] => k = h
      BY <1>1 DEF Lists, IsInjective
    <2>3. /\ a = 1 \/ a \in 2 .. n + 1
          /\ b = 1 \/ b \in 2 .. n + 1
      BY <1>1
    <2>4. CASE a = 1 \/ b = 1
      BY <1>2, <1>3, <1>4, <2>1, <2>3, <2>4
    <2>5. CASE a \in 2 .. n + 1 /\ b \in 2 .. n + 1
      <3>1. a - 1 = b - 1
        BY <1>3, <1>4, <2>2, <2>5
      <3>2. QED
        BY <3>1
    <2>6. QED
      BY <2>3, <2>4, <2>5
  <1>5. ASSUME NEW j \in 2 .. n + 1
        PROVE  \E k \in DOMAIN list :
                  /\ T[j] = list[k]
                  /\ \A i \in 1 .. k - 1 : \E h \in 1 .. j - 1 : T[h] = list[i]
    <2>1. PICK k \in DOMAIN list :
                /\ named[j - 1] = list[k]
                /\ \A i \in 1 .. k - 1 :
                      list[i] = m \/ \E h \in 1 .. (j - 1) - 1 : named[h] = list[i]
      BY <1>1, <1>3 DEF Lists
    <2>2. ASSUME NEW i \in 1 .. k - 1 PROVE \E h \in 1 .. j - 1 : T[h] = list[i]
      <3>1. CASE list[i] = m
        BY <1>1, <1>2, <3>1
      <3>2. CASE \E h \in 1 .. (j - 1) - 1 : named[h] = list[i]
        <4>1. PICK h \in 1 .. (j - 1) - 1 : named[h] = list[i]
          BY <3>2
        <4>2. h \in 1 .. n /\ h + 1 \in 1 .. j - 1
          BY <1>1
        <4>3. QED
          BY <1>2, <4>1, <4>2
      <3>3. QED
        BY <2>1, <3>1, <3>2
    <2>3. QED
      BY <1>3, <2>1, <2>2
  <1>6. ASSUME NEW i \in DOMAIN list PROVE \E h \in 1 .. n + 1 : T[h] = list[i]
    <2>1. CASE list[i] = m
      BY <1>1, <1>2, <2>1
    <2>2. CASE \E k \in 1 .. n : named[k] = list[i]
      <3>1. \A k \in 1 .. n : k + 1 \in 1 .. n + 1
        BY <1>1
      <3>2. QED
        BY <1>2, <2>2, <3>1
    <2>3. QED
      BY <1>1, <2>1, <2>2 DEF Lists
  <1>7. Follows(T, list)
    BY <1>2, <1>4, <1>5 DEF Follows, IsInjective
  <1>8. T # <<>>
    BY <1>1, <1>2
  <1>9. Covers(T, list, m)
    BY <1>2, <1>6, <1>7, <1>8 DEF Covers, ToSet
  <1>10. QED
    BY <1>9 DEF T

\* Each source of the configuration is spelled in one way.
SpelledOnce(input) == \A s, t \in DOMAIN input.prefixes : s.path = t.path => s = t

\* The sources that name another prefix than their own.
Naming(input) ==
    {s \in DOMAIN input.prefixes : ToSet(input.prefixes[s]) \ {s.path} # {}}

LEMMA NamingKeeps ==
    ASSUME NEW input \in Inputs, NEW s \in DOMAIN input.prefixes
    PROVE  s \in Naming(input) <=> Kept(s.path, input.prefixes[s]) # <<>>
  <1> DEFINE list == input.prefixes[s]
             kept == Kept(s.path, list)
  <1>1. list \in Seq(Seq(Segments))
    BY NamesAreSegments
  <1>2. kept \in Seq(Seq(Segments)) /\ Lists(kept, list, s.path)
    BY <1>1, KeptLists
  <1> HIDE DEF kept, list
  <1>3. kept # <<>> <=> DOMAIN kept # {}
    <2>1. DOMAIN kept = 1 .. Len(kept) /\ Len(kept) \in Nat /\ (kept = <<>> <=> Len(kept) = 0)
      BY <1>2
    <2>2. 1 .. Len(kept) = {} <=> Len(kept) = 0
      BY <2>1
    <2>3. QED
      BY <2>1, <2>2
  <1>4. kept # <<>> => \E i \in DOMAIN list : list[i] # s.path
    <2>1. \A k \in DOMAIN kept : kept[k] # s.path /\ \E i \in DOMAIN list : kept[k] = list[i]
      BY <1>2 DEF Lists
    <2>2. QED
      BY <1>3, <2>1
  <1>5. (\E i \in DOMAIN list : list[i] # s.path) => kept # <<>>
    BY <1>2, <1>3 DEF Lists
  <1>6. s \in Naming(input) <=> \E i \in DOMAIN list : list[i] # s.path
    BY DEF Naming, ToSet, list
  <1>7. QED
    BY <1>4, <1>5, <1>6 DEF kept, list

\* The longest of some sources that a model starts with.
LEMMA LongestExists ==
    ASSUME NEW m \in Seq(Segments), NEW P \in SUBSET Seq(Segments), P # {},
           \A p \in P : IsPrefix(p, m)
    PROVE  Longest(P) # {}
  <1> DEFINE left == {Len(m) - Len(p) : p \in P}
  <1>1. \A p \in P : Len(p) \in Nat /\ Len(m) \in Nat /\ Len(p) <= Len(m)
    BY DEF IsPrefix
  <1>2. left \in SUBSET Nat /\ left # {}
    BY <1>1
  <1>3. PICK n \in left : \A k \in left : n <= k
    BY <1>2, NatMin
  <1>4. PICK p \in P : n = Len(m) - Len(p)
    BY <1>3
  <1>5. ASSUME NEW q \in P PROVE Len(q) <= Len(p)
    <2>1. Len(m) - Len(p) <= Len(m) - Len(q)
      BY <1>3, <1>4
    <2>2. QED
      BY <1>1, <2>1
  <1>6. QED
    BY <1>5 DEF Longest

\* For a configuration that spells each source once, the targets of a model are
\* what a reader of the configuration would list for it, in that order.
LEMMA TargetsAreSpecified ==
    ASSUME NEW input \in Inputs, SpelledOnce(input),
           NEW table \in NormalizeQuotaFallback(input.prefixes), NEW m \in Models
    PROVE  Covers(QuotaFallbackTargets(input.enabled, table, m), Specified(input, m), m)
  <1> DEFINE matching == Matching(table, m)
             names(s)  == ToSet(input.prefixes[s]) \ {s.path}
             sources   == {s \in DOMAIN input.prefixes : IsStrictPrefix(s.path, m) /\ names(s) # {}}
             best      == {s \in sources : \A t \in sources : Len(t.path) <= Len(s.path)}
             rest(s)   == SubSeq(m, Len(s.path) + 1, Len(m))
             listed(s) == [i \in DOMAIN input.prefixes[s] |-> input.prefixes[s][i] \o rest(s)]
  <1>1. /\ m \in Seq(Segments)
        /\ \A s \in DOMAIN input.prefixes :
              s.path \in Seq(Segments) /\ input.prefixes[s] \in Seq(Seq(Segments))
    BY NamesAreSegments
  <1>2. /\ \A p \in DOMAIN table : \E s \in Naming(input) :
              s.path = p /\ table[p] = Kept(p, input.prefixes[s])
        /\ \A s \in Naming(input) : s.path \in DOMAIN table
    <2>1. /\ \A p \in DOMAIN table : \E s \in DOMAIN input.prefixes :
                s.path = p /\ table[p] # <<>> /\ table[p] = Kept(p, input.prefixes[s])
          /\ \A s \in DOMAIN input.prefixes :
                Kept(s.path, input.prefixes[s]) # <<>> => s.path \in DOMAIN table
      <3>1. \A s, t \in DOMAIN input.prefixes : s.path = t.path => s = t
        BY DEF SpelledOnce
      <3>2. QED
        BY <3>1, SpelledOnceTable
    <2>2. \A s \in DOMAIN input.prefixes :
              s \in Naming(input) <=> Kept(s.path, input.prefixes[s]) # <<>>
      BY NamingKeeps
    <2>3. Naming(input) \subseteq DOMAIN input.prefixes
      BY DEF Naming
    <2>4. ASSUME NEW p \in DOMAIN table
          PROVE  \E s \in Naming(input) : s.path = p /\ table[p] = Kept(p, input.prefixes[s])
      <3>1. PICK s \in DOMAIN input.prefixes :
                s.path = p /\ table[p] # <<>> /\ table[p] = Kept(p, input.prefixes[s])
        BY <2>1
      <3>2. QED
        BY <2>2, <3>1
    <2>5. QED
      BY <2>1, <2>2, <2>3, <2>4
  <1>3. /\ \A p \in matching : p \in DOMAIN table /\ IsStrictPrefix(p, m)
        /\ \A p \in matching : \E s \in sources :
              s.path = p /\ table[p] = Kept(p, input.prefixes[s])
        /\ \A s \in sources : s.path \in matching
    BY <1>2 DEF Matching, Naming
  <1>4. Specified(input, m) =
            IF input.enabled /\ best # {} THEN listed(CHOOSE s \in best : TRUE) ELSE <<>>
    BY DEF Specified
  <1>5. CASE ~input.enabled \/ matching = {}
    <2>1. QuotaFallbackTargets(input.enabled, table, m) = <<m>>
      BY <1>5 DEF QuotaFallbackTargets
    <2>2. Specified(input, m) = <<>>
      <3>1. ~input.enabled \/ sources = {}
        BY <1>3, <1>5
      <3>2. QED
        BY <1>4, <3>1
    <2>3. QED
      BY <1>1, <2>1, <2>2, AloneCovers
  <1>6. CASE input.enabled /\ matching # {}
    <2> DEFINE source == CHOOSE p \in Longest(matching) : TRUE
               base   == SubSeq(m, Len(source) + 1, Len(m))
               named  == [i \in DOMAIN table[source] |-> table[source][i] \o base]
    <2>1. source \in matching /\ \A q \in matching : Len(q) <= Len(source)
      <3>1. \A p \in matching : p \in Seq(Segments) /\ IsPrefix(p, m)
        BY <1>1, <1>3 DEF IsStrictPrefix
      <3>2. Longest(matching) # {}
        BY <1>1, <1>6, <3>1, LongestExists
      <3>3. source \in Longest(matching)
        BY <3>2
      <3>4. QED
        BY <3>3 DEF Longest
    <2> HIDE DEF source, matching
    <2>2. PICK s \in sources : s.path = source /\ table[source] = Kept(source, input.prefixes[s])
      BY <1>3, <2>1
    <2>3. ASSUME NEW t \in best PROVE t = s
      <3>1. Len(t.path) <= Len(source) /\ Len(source) <= Len(t.path)
        BY <1>3, <2>1, <2>2
      <3>2. t \in DOMAIN input.prefixes /\ s \in DOMAIN input.prefixes
        OBVIOUS
      <3>3. IsPrefix(t.path, m) /\ IsPrefix(s.path, m)
        BY DEF IsStrictPrefix
      <3>4. Len(t.path) = Len(s.path)
        BY <1>1, <2>2, <3>1, <3>2
      <3>5. t.path = s.path
        BY <1>1, <3>2, <3>3, <3>4, SamePrefix
      <3>6. QED
        BY <3>2, <3>5 DEF SpelledOnce
    <2>4. s \in best
      BY <1>3, <2>1, <2>2
    <2>5. (CHOOSE t \in best : TRUE) = s
      BY <2>3, <2>4
    <2>6. Specified(input, m) = listed(s)
      BY <1>4, <1>6, <2>4, <2>5, Zenon
    <2> DEFINE list == input.prefixes[s]
               kept == table[source]
    <2>7. /\ source \in Seq(Segments) /\ list \in Seq(Seq(Segments))
          /\ IsPrefix(source, m)
      BY <1>1, <2>2 DEF IsStrictPrefix
    <2>8. kept \in Seq(Seq(Segments)) /\ Lists(kept, list, source)
      BY <2>2, <2>7, KeptLists
    <2>9. base \in Seq(Segments) /\ source \o base = m
      BY <1>1, <2>7, PrefixAndRest
    <2>10. listed(s) = [i \in DOMAIN list |-> list[i] \o base]
      BY <2>2
    <2> HIDE DEF base, list, kept
    <2>11. /\ [i \in DOMAIN kept |-> kept[i] \o base] \in Seq(Seq(Segments))
           /\ [i \in DOMAIN list |-> list[i] \o base] \in Seq(Seq(Segments))
      <3>1. ASSUME NEW k \in Seq(Seq(Segments))
            PROVE  [i \in DOMAIN k |-> k[i] \o base] \in Seq(Seq(Segments))
        <4>1. \A i \in DOMAIN k : k[i] \o base \in Seq(Segments)
          BY <2>9, ConcatProperties
        <4>2. DOMAIN k = 1 .. Len(k) /\ Len(k) \in Nat
          OBVIOUS
        <4>3. QED
          BY <4>1, <4>2
      <3>2. QED
        BY <2>7, <2>8, <3>1
    <2>12. named \in Seq(Seq(Segments)) /\ Lists(named, listed(s), m)
      BY <2>7, <2>8, <2>9, <2>10, <2>11, ListsWithRest DEF kept
    <2> HIDE DEF named
    <2>13. At(named, {i \in DOMAIN named : named[i] # m}) = named
      <3>1. {i \in DOMAIN named : named[i] # m} = DOMAIN named
        BY <2>12 DEF Lists
      <3>2. QED
        BY <2>12, <3>1, AtAll
    <2>14. QuotaFallbackTargets(input.enabled, table, m) = <<m>> \o named
      BY <1>6, <2>13 DEF QuotaFallbackTargets, named, base, source, matching
    <2>15. Covers(<<m>> \o named, listed(s), m)
      BY <1>1, <2>10, <2>11, <2>12, ListCovers
    <2>16. QED
      BY <2>6, <2>14, <2>15
  <1>7. QED
    BY <1>5, <1>6
-----------------------------------------------------------------------------
\* rt was loaded from a configuration.
Configured(rt) ==
    \E input \in Inputs : rt.configured = input /\ rt.table \in NormalizeQuotaFallback(input.prefixes)

\* What a request may ask are the targets of the runtime that accepted it, and
\* it has asked the first of them, up to the present one.
Listed(r) ==
    /\ pc[r] = "resolve" \/ attempt[r] # 0 => Configured(runtime[r])
    /\ pc[r] \in {"idle", "resolve"} => attempt[r] = 0
    /\ pc[r] \in {"call", "read", "emit", "release"} => attempt[r] # 0
    /\ attempt[r] = 0 => asked[r] = <<>>
    /\ attempt[r] # 0 =>
          /\ \E m \in Models : targets[r] = QuotaFallbackTargets(
                                    runtime[r].configured.enabled, runtime[r].table, m)
          /\ attempt[r] <= Len(targets[r])
          /\ asked[r] = SubSeq(targets[r], 1, IF pc[r] = "call" THEN attempt[r] - 1 ELSE attempt[r])

\* Every attempt before the present one has a failure that let it move on; a
\* failure that is about to be judged, or has been, was judged by its kind.
Judged(r) ==
    /\ pc[r] \in {"idle", "resolve"} => failures[r] = <<>>
    /\ pc[r] \in {"call", "read", "emit"} => Len(failures[r]) = attempt[r] - 1
    /\ pc[r] = "release" /\ verdict[r] # "complete" => Len(failures[r]) = attempt[r]
    /\ \A i \in 1 .. attempt[r] - 1 :
          i \in DOMAIN failures[r] /\ Switches(runtime[r], failures[r][i])
    /\ pc[r] = "release" /\ verdict[r] = "retry" => Switches(runtime[r], Last(failures[r]))
    /\ pc[r] = "release" /\ verdict[r] = "error" =>
          ~Switches(runtime[r], Last(failures[r])) \/ delivered[r] # <<>>
    /\ pc[r] \notin {"close", "done"} => outcome[r] = "none"
    /\ /\ outcome[r] = "error" /\ delivered[r] = <<>> /\ attempt[r] # 0
       /\ Switches(runtime[r], Last(failures[r]))
       => attempt[r] = Len(targets[r])

HistoryTypes ==
    /\ runtime = [r \in Requests |-> runtime[r]]
    /\ targets \in [Requests -> Seq(Seq(Segments))]
    /\ asked \in [Requests -> Seq(Seq(Segments))]
    /\ failures \in [Requests -> Seq(Errors)]

FallbackInv ==
    /\ current = NoRuntime \/ Configured(current)
    /\ HistoryTypes
    /\ \A r \in Requests : Listed(r) /\ Judged(r)

EachSpelledOnce == \A input \in Inputs : SpelledOnce(input)

\* Nothing of what request q may ask, has asked and was answered changes.
SameHistory(q) ==
    /\ pc'[q] = pc[q] /\ attempt'[q] = attempt[q] /\ verdict'[q] = verdict[q]
    /\ outcome'[q] = outcome[q] /\ delivered'[q] = delivered[q]
    /\ runtime'[q] = runtime[q] /\ targets'[q] = targets[q]
    /\ asked'[q] = asked[q] /\ failures'[q] = failures[q]

\* Request r takes a step that keeps the invariant, and no other request does.
KeepsHistory(r) ==
    /\ UNCHANGED current
    /\ HistoryTypes'
    /\ \A q \in Requests \ {r} : SameHistory(q)
    /\ Listed(r)' /\ Judged(r)'

LEMMA HistoryIsEnough ==
    ASSUME FallbackInv, NEW r \in Requests, KeepsHistory(r)
    PROVE  FallbackInv'
  <1>1. ASSUME NEW q \in Requests \ {r} PROVE Listed(q)' /\ Judged(q)'
    <2>1. SameHistory(q) /\ Listed(q) /\ Judged(q)
      BY <1>1 DEF FallbackInv, KeepsHistory
    <2>2. Listed(q)'
      BY <2>1 DEF SameHistory, Listed, Configured
    <2>3. Judged(q)'
      BY <2>1 DEF SameHistory, Judged, Switches
    <2>4. QED
      BY <2>2, <2>3
  <1>2. QED
    BY <1>1 DEF FallbackInv, KeepsHistory, Configured

LEMMA InitFallbackInv == Init => FallbackInv
  BY DEF Init, FallbackInv, HistoryTypes, Listed, Judged, Configured, Switches

\* The failures that let a request move on are those the loop retries.
LEMMA EligibleSwitches ==
    ASSUME NEW rt, Configured(rt), NEW e \in Errors
    PROVE  Eligible(rt, e) <=> Switches(rt, e)
  BY NamesAreSegments DEF Configured, Eligible, Switches, Errors, UpstreamErrors

\* The present target is asked.
LEMMA AskAppends ==
    ASSUME FallbackInv, TypeOK, NEW r \in Requests, pc[r] = "call", Ask(r)
    PROVE  /\ asked' \in [Requests -> Seq(Seq(Segments))]
           /\ \A q \in Requests \ {r} : asked'[q] = asked[q]
           /\ asked'[r] = SubSeq(targets[r], 1, attempt[r])
  <1>1. /\ targets[r] \in Seq(Seq(Segments))
        /\ asked[r] \in Seq(Seq(Segments))
        /\ attempt[r] \in Nat
    BY DEF FallbackInv, HistoryTypes, TypeOK
  <1>2. /\ attempt[r] \in 1 .. Len(targets[r])
        /\ asked[r] = SubSeq(targets[r], 1, attempt[r] - 1)
    BY <1>1 DEF FallbackInv, Listed
  <1>3. Append(SubSeq(targets[r], 1, attempt[r] - 1), targets[r][attempt[r]])
            = SubSeq(targets[r], 1, attempt[r])
    BY <1>1, <1>2
  <1>4. asked' = [asked EXCEPT ![r] = SubSeq(targets[r], 1, attempt[r])]
    BY <1>2, <1>3 DEF Ask, FallbackInv, HistoryTypes
  <1>5. SubSeq(targets[r], 1, attempt[r]) \in Seq(Seq(Segments))
    BY <1>1, <1>2
  <1>6. QED
    BY <1>4, <1>5 DEF FallbackInv, HistoryTypes

\* A failure is noted after the earlier ones.
LEMMA NoteAppends ==
    ASSUME FallbackInv, NEW r \in Requests, NEW e \in Errors, Note(r, e)
    PROVE  /\ failures' \in [Requests -> Seq(Errors)]
           /\ \A q \in Requests \ {r} : failures'[q] = failures[q]
           /\ Len(failures'[r]) = Len(failures[r]) + 1
           /\ Last(failures'[r]) = e
           /\ \A i \in DOMAIN failures[r] :
                 i \in DOMAIN failures'[r] /\ failures'[r][i] = failures[r][i]
  <1>1. failures[r] \in Seq(Errors) /\ failures \in [Requests -> Seq(Errors)]
    BY DEF FallbackInv, HistoryTypes
  <1>2. failures' = [failures EXCEPT ![r] = Append(failures[r], e)]
    BY DEF Note
  <1>3. failures'[r] = Append(failures[r], e)
    BY <1>1, <1>2
  <1>4. /\ Append(failures[r], e) \in Seq(Errors)
        /\ Len(Append(failures[r], e)) = Len(failures[r]) + 1
        /\ \A i \in 1 .. Len(failures[r]) : Append(failures[r], e)[i] = failures[r][i]
        /\ Append(failures[r], e)[Len(failures[r]) + 1] = e
    BY <1>1, AppendProperties
  <1>5. failures' \in [Requests -> Seq(Errors)]
    BY <1>1, <1>2, <1>4
  <1>6. DOMAIN failures[r] = 1 .. Len(failures[r]) /\ Len(failures[r]) \in Nat
    BY <1>1
  <1>7. DOMAIN failures'[r] = 1 .. Len(failures[r]) + 1
    BY <1>3, <1>4
  <1>8. QED
    BY <1>1, <1>2, <1>3, <1>4, <1>5, <1>6, <1>7 DEF Last

\* The loop moves on to the next target, or the request fails.
LEMMA FailedMoves ==
    ASSUME TypeOK, NEW r \in Requests, NEW again \in BOOLEAN, Failed(r, again)
    PROVE  \/ /\ again /\ attempt[r] < Len(targets[r])
              /\ pc'[r] = "call" /\ attempt'[r] = attempt[r] + 1 /\ outcome'[r] = outcome[r]
           \/ /\ ~(again /\ attempt[r] < Len(targets[r]))
              /\ pc'[r] \in {"close", "done"} /\ attempt'[r] = attempt[r] /\ outcome'[r] = "error"
  <1>1. CASE again /\ MoreTargets(r)
    <2>1. /\ attempt' = [attempt EXCEPT ![r] = attempt[r] + 1]
          /\ pc' = [pc EXCEPT ![r] = "call"]
          /\ outcome' = outcome
      BY <1>1 DEF Failed
    <2>2. QED
      BY <1>1, <2>1 DEF TypeOK, MoreTargets
  <1>2. CASE ~(again /\ MoreTargets(r))
    BY <1>2 DEF Failed, Finish, TypeOK, MoreTargets
  <1>3. QED
    BY <1>1, <1>2

\* After a failure that was judged by its kind, or that came after the client
\* had received something, the loop keeps the invariant.
LEMMA FailureKeeps ==
    ASSUME FallbackInv, TypeOK, NEW r \in Requests, NEW again \in BOOLEAN, Failed(r, again),
           pc[r] \in {"call", "release"},
           runtime'[r] = runtime[r], targets'[r] = targets[r],
           asked'[r] = SubSeq(targets[r], 1, attempt[r]),
           failures' \in [Requests -> Seq(Errors)],
           Len(failures'[r]) = attempt[r],
           \A i \in 1 .. attempt[r] - 1 : Switches(runtime[r], failures'[r][i]),
           again => Switches(runtime[r], Last(failures'[r])),
           ~again => ~Switches(runtime[r], Last(failures'[r])) \/ delivered'[r] # <<>>
    PROVE  Listed(r)' /\ Judged(r)'
  <1>1. /\ attempt[r] \in Nat /\ attempt[r] # 0 /\ attempt[r] <= Len(targets[r])
        /\ Configured(runtime[r])
        /\ \E m \in Models : targets[r] = QuotaFallbackTargets(
                                runtime[r].configured.enabled, runtime[r].table, m)
        /\ targets[r] \in Seq(Seq(Segments))
        /\ outcome[r] = "none"
    BY DEF FallbackInv, HistoryTypes, TypeOK, Listed, Judged
  <1>2. DOMAIN failures'[r] = 1 .. attempt[r] /\ Last(failures'[r]) = failures'[r][attempt[r]]
    BY DEF Last
  <1>3. CASE /\ again /\ attempt[r] < Len(targets[r])
             /\ pc'[r] = "call" /\ attempt'[r] = attempt[r] + 1 /\ outcome'[r] = outcome[r]
    <2>1. /\ attempt'[r] - 1 = attempt[r] /\ attempt'[r] # 0 /\ attempt'[r] <= Len(targets[r])
      BY <1>1, <1>3
    <2>2. \A i \in 1 .. attempt[r] : i \in DOMAIN failures'[r] /\ Switches(runtime[r], failures'[r][i])
      <3>1. \A i \in 1 .. attempt[r] : i \in 1 .. attempt[r] - 1 \/ i = attempt[r]
        BY <1>1
      <3>2. Switches(runtime[r], failures'[r][attempt[r]])
        BY <1>2, <1>3
      <3>3. QED
        BY <1>2, <3>1, <3>2
    <2>3. Listed(r)'
      BY <1>1, <1>3, <2>1 DEF Listed, Configured
    <2>4. Judged(r)'
      BY <1>1, <1>3, <2>1, <2>2 DEF Judged, Switches
    <2>5. QED
      BY <2>3, <2>4
  <1>4. CASE /\ ~(again /\ attempt[r] < Len(targets[r]))
             /\ pc'[r] \in {"close", "done"} /\ attempt'[r] = attempt[r] /\ outcome'[r] = "error"
    <2>1. Listed(r)'
      BY <1>1, <1>4 DEF Listed, Configured
    <2>2. \A i \in 1 .. attempt'[r] - 1 :
              i \in DOMAIN failures'[r] /\ Switches(runtime'[r], failures'[r][i])
      BY <1>1, <1>2, <1>4
    <2>3. delivered'[r] = <<>> /\ Switches(runtime'[r], Last(failures'[r]))
              => attempt'[r] = Len(targets'[r])
      BY <1>1, <1>4
    <2>4. Judged(r)'
      BY <1>4, <2>2, <2>3 DEF Judged, Switches
    <2>5. QED
      BY <2>1, <2>4
  <1>5. QED
    BY <1>3, <1>4, FailedMoves

\* The steps that neither ask a model nor note a failure.
LEMMA QuietKeepsHistory ==
    ASSUME StreamInv, FallbackInv, NEW r \in Requests,
           \/ \E k \in {"execute", "stream"} : Refuse(r, k)
           \/ ResolveFails(r) \/ ReadDone(r) \/ ClosePluginStream(r)
           \/ \E isLast \in BOOLEAN : ReadPayload(r, isLast)
    PROVE  KeepsHistory(r)
  <1> USE DEF accepted, host, client, history
  <1>1. TypeOK /\ HistoryTypes /\ Listed(r) /\ Judged(r)
    BY DEF StreamInv, FallbackInv
  <1>2. UNCHANGED <<current, runtime, targets, attempt, delivered, asked, failures>>
    BY DEF Refuse, ResolveFails, ReadDone, ClosePluginStream, ReadPayload
  <1>3. \A q \in Requests \ {r} : SameHistory(q)
    BY <1>1, <1>2 DEF SameHistory, TypeOK, Refuse, ResolveFails, Finish, ReadDone, Return,
       ClosePluginStream, ReadPayload
  <1>4. HistoryTypes'
    BY <1>1, <1>2 DEF HistoryTypes
  <1>5. CASE \/ \E k \in {"execute", "stream"} : Refuse(r, k)
             \/ ResolveFails(r)
    <2>1. attempt[r] = 0 /\ pc'[r] \in {"close", "done"} /\ (outcome'[r] = "error" => attempt[r] = 0)
      BY <1>1, <1>5 DEF Listed, Refuse, ResolveFails, Finish, TypeOK
    <2>2. Listed(r)'
      BY <1>1, <1>2, <2>1 DEF Listed, Configured
    <2>3. Judged(r)'
      BY <1>1, <1>2, <2>1 DEF Judged, Switches
    <2>4. QED
      BY <1>2, <1>3, <1>4, <2>2, <2>3 DEF KeepsHistory
  <1>6. CASE ReadDone(r)
    <2>1. pc[r] = "read" /\ pc'[r] = "release" /\ verdict'[r] = "complete" /\ outcome'[r] = outcome[r]
      BY <1>1, <1>6 DEF ReadDone, Return, TypeOK
    <2>2. Listed(r)'
      BY <1>1, <1>2, <2>1 DEF Listed, Configured
    <2>3. Judged(r)'
      BY <1>1, <1>2, <2>1 DEF Judged, Switches
    <2>4. QED
      BY <1>2, <1>3, <1>4, <2>2, <2>3 DEF KeepsHistory
  <1>7. CASE ClosePluginStream(r)
    <2>1. pc[r] = "close" /\ pc'[r] = "done" /\ outcome'[r] = outcome[r]
      BY <1>1, <1>7 DEF ClosePluginStream, TypeOK
    <2>2. Listed(r)'
      BY <1>1, <1>2, <2>1 DEF Listed, Configured
    <2>3. Judged(r)'
      BY <1>1, <1>2, <2>1 DEF Judged, Switches
    <2>4. QED
      BY <1>2, <1>3, <1>4, <2>2, <2>3 DEF KeepsHistory
  <1>8. CASE \E isLast \in BOOLEAN : ReadPayload(r, isLast)
    <2>1. pc[r] = "read" /\ pc'[r] = "emit" /\ outcome'[r] = outcome[r]
      BY <1>1, <1>8 DEF ReadPayload, TypeOK
    <2>2. Listed(r)'
      BY <1>1, <1>2, <2>1 DEF Listed, Configured
    <2>3. Judged(r)'
      BY <1>1, <1>2, <2>1 DEF Judged, Switches
    <2>4. QED
      BY <1>2, <1>3, <1>4, <2>2, <2>3 DEF KeepsHistory
  <1>9. QED
    BY <1>5, <1>6, <1>7, <1>8

LEMMA AcceptKeepsHistory ==
    ASSUME StreamInv, FallbackInv, NEW r \in Requests, NEW k \in {"execute", "stream"}, Accept(r, k)
    PROVE  KeepsHistory(r)
  <1> USE DEF accepted, host, client, history
  <1>1. TypeOK /\ HistoryTypes /\ Listed(r) /\ Judged(r)
    BY DEF StreamInv, FallbackInv
  <1>2. /\ UNCHANGED <<current, targets, attempt, verdict, outcome, delivered, asked, failures>>
        /\ runtime' = [runtime EXCEPT ![r] = current]
        /\ pc' = [pc EXCEPT ![r] = "resolve"]
        /\ pc[r] = "idle"
        /\ Configured(current)
    BY DEF Accept, FallbackInv
  <1>3. runtime'[r] = current /\ pc'[r] = "resolve"
    BY <1>1, <1>2 DEF HistoryTypes, TypeOK
  <1>4. \A q \in Requests \ {r} : SameHistory(q)
    BY <1>1, <1>2 DEF SameHistory, TypeOK, HistoryTypes
  <1>5. HistoryTypes'
    BY <1>1, <1>2 DEF HistoryTypes
  <1>6. Listed(r)'
    BY <1>1, <1>2, <1>3 DEF Listed, Configured
  <1>7. Judged(r)'
    BY <1>1, <1>2, <1>3 DEF Judged, Listed, Switches
  <1>8. QED
    BY <1>2, <1>4, <1>5, <1>6, <1>7 DEF KeepsHistory

LEMMA ResolveKeepsHistory ==
    ASSUME StreamInv, FallbackInv, EachSpelledOnce,
           NEW r \in Requests, NEW m \in Models, Resolve(r, m)
    PROVE  KeepsHistory(r)
  <1> USE DEF accepted, host, client, history
  <1> DEFINE T == QuotaFallbackTargets(runtime[r].configured.enabled, runtime[r].table, m)
  <1>1. TypeOK /\ HistoryTypes /\ Listed(r) /\ Judged(r)
    BY DEF StreamInv, FallbackInv
  <1>2. /\ UNCHANGED <<current, runtime, verdict, outcome, delivered, asked, failures>>
        /\ targets' = [targets EXCEPT ![r] = T]
        /\ attempt' = [attempt EXCEPT ![r] = 1]
        /\ pc' = [pc EXCEPT ![r] = "call"]
        /\ pc[r] = "resolve"
    BY DEF Resolve
  <1>3. Configured(runtime[r])
    BY <1>1, <1>2 DEF Listed
  <1>4. T \in Seq(Seq(Segments)) /\ T # <<>>
    <2>1. PICK input \in Inputs :
              runtime[r].configured = input /\ runtime[r].table \in NormalizeQuotaFallback(input.prefixes)
      BY <1>3 DEF Configured
    <2>2. Covers(T, Specified(input, m), m)
      BY <2>1, TargetsAreSpecified DEF EachSpelledOnce
    <2>3. QED
      BY <2>2 DEF Covers
  <1>5. /\ targets'[r] = QuotaFallbackTargets(runtime[r].configured.enabled, runtime[r].table, m)
        /\ attempt'[r] = 1 /\ pc'[r] = "call"
    BY <1>1, <1>2 DEF HistoryTypes, TypeOK
  <1>6. targets'[r] \in Seq(Seq(Segments)) /\ targets'[r] # <<>>
    BY <1>4, <1>5
  <1> HIDE DEF T
  <1>7. \A q \in Requests \ {r} : SameHistory(q)
    BY <1>1, <1>2 DEF SameHistory, TypeOK, HistoryTypes
  <1>8. HistoryTypes'
    BY <1>1, <1>2, <1>4 DEF HistoryTypes
  <1>9. asked[r] = <<>> /\ failures[r] = <<>> /\ outcome[r] = "none"
    BY <1>1, <1>2 DEF Listed, Judged
  <1>10. Listed(r)'
    <2>1. attempt'[r] <= Len(targets'[r])
      BY <1>5, <1>6
    <2>2. asked'[r] = SubSeq(targets'[r], 1, attempt'[r] - 1)
      BY <1>2, <1>5, <1>6, <1>9, SubSeqEmpty
    <2>3. QED
      BY <1>2, <1>3, <1>5, <2>1, <2>2 DEF Listed, Configured
  <1>11. Judged(r)'
    BY <1>2, <1>5, <1>9 DEF Judged, Switches
  <1>12. QED
    BY <1>2, <1>7, <1>8, <1>10, <1>11 DEF KeepsHistory

\* A model is asked that answers, or opens a stream.
LEMMA AskKeepsHistory ==
    ASSUME StreamInv, FallbackInv, NEW r \in Requests, Executes(r) \/ Opens(r)
    PROVE  KeepsHistory(r)
  <1> USE DEF accepted, host, client, history
  <1>1. TypeOK /\ HistoryTypes /\ Listed(r) /\ Judged(r)
    BY DEF StreamInv, FallbackInv
  <1>2. /\ UNCHANGED <<current, runtime, targets, attempt, verdict, delivered, failures>>
        /\ pc[r] = "call" /\ Ask(r)
    BY DEF Executes, Opens
  <1>3. /\ asked' \in [Requests -> Seq(Seq(Segments))]
        /\ \A q \in Requests \ {r} : asked'[q] = asked[q]
        /\ asked'[r] = SubSeq(targets[r], 1, attempt[r])
    BY <1>1, <1>2, AskAppends
  <1>4. /\ \A q \in Requests \ {r} : pc'[q] = pc[q] /\ outcome'[q] = outcome[q]
        /\ \/ pc'[r] = "read" /\ outcome'[r] = "none"
           \/ pc'[r] \in {"close", "done"} /\ outcome'[r] = "complete"
    BY <1>1, <1>2 DEF Executes, Opens, Finish, TypeOK, Judged
  <1>5. \A q \in Requests \ {r} : SameHistory(q)
    BY <1>2, <1>3, <1>4 DEF SameHistory
  <1>6. HistoryTypes'
    BY <1>1, <1>2, <1>3 DEF HistoryTypes
  <1>7. Listed(r)'
    BY <1>1, <1>2, <1>3, <1>4 DEF Listed, Configured
  <1>8. Judged(r)'
    BY <1>1, <1>2, <1>4 DEF Judged, Switches
  <1>9. QED
    BY <1>2, <1>5, <1>6, <1>7, <1>8 DEF KeepsHistory

LEMMA CallFailsKeepsHistory ==
    ASSUME StreamInv, FallbackInv, NEW r \in Requests, NEW e \in Errors,
           ExecuteFails(r, e) \/ OpenFails(r, e)
    PROVE  KeepsHistory(r)
  <1>1. TypeOK /\ HistoryTypes /\ Listed(r) /\ Judged(r)
    BY DEF StreamInv, FallbackInv
  <1> DEFINE again == Eligible(runtime[r], e)
  <1>2. /\ UNCHANGED <<current, runtime, targets, verdict, delivered>>
        /\ pc[r] = "call" /\ Ask(r) /\ Note(r, e) /\ Failed(r, again)
        /\ again \in BOOLEAN
    BY DEF ExecuteFails, OpenFails, accepted, client, Eligible
  <1>3. Configured(runtime[r]) /\ attempt[r] \in Nat /\ attempt[r] # 0
    BY <1>1, <1>2 DEF Listed, TypeOK
  <1>4. again <=> Switches(runtime[r], e)
    BY <1>3, EligibleSwitches
  <1> HIDE DEF again
  <1>5. /\ asked' \in [Requests -> Seq(Seq(Segments))]
        /\ \A q \in Requests \ {r} : asked'[q] = asked[q]
        /\ asked'[r] = SubSeq(targets[r], 1, attempt[r])
    BY <1>1, <1>2, AskAppends
  <1>6. /\ failures' \in [Requests -> Seq(Errors)]
        /\ \A q \in Requests \ {r} : failures'[q] = failures[q]
        /\ Len(failures'[r]) = Len(failures[r]) + 1
        /\ Last(failures'[r]) = e
        /\ \A i \in DOMAIN failures[r] :
              i \in DOMAIN failures'[r] /\ failures'[r][i] = failures[r][i]
    BY <1>2, NoteAppends
  <1>7. /\ Len(failures'[r]) = attempt[r]
        /\ \A i \in 1 .. attempt[r] - 1 : Switches(runtime[r], failures'[r][i])
    BY <1>1, <1>2, <1>3, <1>6 DEF Judged
  <1>8. Listed(r)' /\ Judged(r)'
    BY <1>1, <1>2, <1>4, <1>5, <1>6, <1>7, FailureKeeps
  <1>9. \A q \in Requests \ {r} : SameHistory(q)
    BY <1>1, <1>2, <1>5, <1>6, FailedEffect DEF SameHistory
  <1>10. HistoryTypes'
    BY <1>1, <1>2, <1>5, <1>6 DEF HistoryTypes
  <1>11. QED
    BY <1>2, <1>8, <1>9, <1>10 DEF KeepsHistory

\* A failure of the stream is judged by its kind and by what was forwarded.
LEMMA StreamFailsKeepsHistory ==
    ASSUME StreamInv, FallbackInv, NEW r \in Requests,
           (\E e \in Errors : ReadFails(r, e)) \/ EmitFails(r)
    PROVE  KeepsHistory(r)
  <1>1. TypeOK /\ HistoryTypes /\ Listed(r) /\ Judged(r) /\ Forwarded(r)
    BY DEF StreamInv, FallbackInv, Sound
  <1>2. PICK e \in Errors, v \in {"retry", "error"} :
           /\ UNCHANGED <<current, runtime, targets, attempt, outcome, asked>>
           /\ pc[r] \in {"read", "emit"} /\ Note(r, e)
           /\ verdict' = [verdict EXCEPT ![r] = v]
           /\ pc' = [pc EXCEPT ![r] = "release"]
           /\ \A q \in Requests \ {r} : delivered'[q] = delivered[q]
           /\ v = "retry" => Eligible(runtime[r], e)
           /\ v = "error" => ~Eligible(runtime[r], e) \/ delivered'[r] # <<>>
    <2>1. CASE \E e \in Errors : ReadFails(r, e)
      <3>1. PICK e \in Errors : ReadFails(r, e)
        BY <2>1
      <3>2. pc[r] = "read" /\ delivered' = delivered /\ (emitted[r] <=> delivered[r] # <<>>)
        BY <1>1, <3>1 DEF ReadFails, Forwarded, client
      <3>3. CASE ~emitted[r] /\ Eligible(runtime[r], e)
        <4>1. Return(r, "retry")
          BY <3>1, <3>3 DEF ReadFails
        <4>2. QED
          BY <3>1, <3>2, <3>3, <4>1 DEF ReadFails, Return, accepted
      <3>4. CASE ~(~emitted[r] /\ Eligible(runtime[r], e))
        <4>1. Return(r, "error")
          BY <3>1, <3>4 DEF ReadFails
        <4>2. QED
          BY <1>1, <3>1, <3>2, <3>4, <4>1 DEF ReadFails, Return, accepted, TypeOK
      <3>5. QED
        BY <3>3, <3>4
    <2>2. CASE EmitFails(r)
      <3>1. "local" \in Errors /\ ~Eligible(runtime[r], "local")
        BY DEF Errors, Eligible
      <3>2. \A q \in Requests \ {r} : delivered'[q] = delivered[q]
        BY <1>1, <2>2 DEF EmitFails, Deliver, TypeOK
      <3>3. QED
        BY <2>2, <3>1, <3>2 DEF EmitFails, Return, accepted
    <2>3. QED
      BY <2>1, <2>2
  <1>3. Configured(runtime[r]) /\ attempt[r] \in Nat /\ attempt[r] # 0 /\ outcome[r] = "none"
    BY <1>1, <1>2 DEF Listed, Judged, TypeOK
  <1>4. Eligible(runtime[r], e) <=> Switches(runtime[r], e)
    BY <1>3, EligibleSwitches
  <1>5. /\ failures' \in [Requests -> Seq(Errors)]
        /\ \A q \in Requests \ {r} : failures'[q] = failures[q]
        /\ Len(failures'[r]) = Len(failures[r]) + 1
        /\ Last(failures'[r]) = e
        /\ \A i \in DOMAIN failures[r] :
              i \in DOMAIN failures'[r] /\ failures'[r][i] = failures[r][i]
    BY <1>2, NoteAppends
  <1>6. Len(failures'[r]) = attempt[r]
    BY <1>1, <1>2, <1>3, <1>5 DEF Judged
  <1>7. /\ pc'[r] = "release" /\ verdict'[r] = v
        /\ \A q \in Requests \ {r} : SameHistory(q)
    BY <1>1, <1>2, <1>5 DEF SameHistory, TypeOK
  <1>8. HistoryTypes'
    BY <1>1, <1>2, <1>5 DEF HistoryTypes
  <1>9. Listed(r)'
    BY <1>1, <1>2, <1>7 DEF Listed, Configured
  <1>10. Judged(r)'
    <2>1. \A i \in 1 .. attempt[r] - 1 :
              i \in DOMAIN failures'[r] /\ Switches(runtime[r], failures'[r][i])
      BY <1>1, <1>5 DEF Judged
    <2>2. /\ v = "retry" => Switches(runtime[r], Last(failures'[r]))
          /\ v = "error" => ~Switches(runtime[r], Last(failures'[r])) \/ delivered'[r] # <<>>
      BY <1>2, <1>4, <1>5
    <2>3. QED
      BY <1>2, <1>3, <1>6, <1>7, <2>1, <2>2 DEF Judged, Switches
  <1>11. QED
    BY <1>2, <1>7, <1>8, <1>9, <1>10 DEF KeepsHistory

LEMMA EmitsKeepsHistory ==
    ASSUME StreamInv, FallbackInv, NEW r \in Requests, Emits(r)
    PROVE  KeepsHistory(r)
  <1>1. TypeOK /\ HistoryTypes /\ Listed(r) /\ Judged(r)
    BY DEF StreamInv, FallbackInv
  <1>2. /\ UNCHANGED <<current, runtime, targets, attempt, outcome, asked, failures>>
        /\ pc[r] = "emit" /\ Deliver(r)
        /\ \/ /\ pc' = [pc EXCEPT ![r] = "release"]
              /\ verdict' = [verdict EXCEPT ![r] = "complete"]
           \/ /\ pc' = [pc EXCEPT ![r] = "read"]
              /\ verdict' = verdict
    BY DEF Emits, Return, accepted, history
  <1>3. \A q \in Requests \ {r} : SameHistory(q)
    BY <1>1, <1>2, DeliverAppends DEF SameHistory, TypeOK
  <1>4. HistoryTypes'
    BY <1>1, <1>2 DEF HistoryTypes
  <1>5. (pc'[r] = "release" /\ verdict'[r] = "complete") \/ pc'[r] = "read"
    BY <1>1, <1>2 DEF TypeOK
  <1>6. Listed(r)'
    BY <1>1, <1>2, <1>5 DEF Listed, Configured
  <1>7. Judged(r)'
    BY <1>1, <1>2, <1>5 DEF Judged, Switches
  <1>8. QED
    BY <1>2, <1>3, <1>4, <1>6, <1>7 DEF KeepsHistory

LEMMA ReleaseKeepsHistory ==
    ASSUME StreamInv, FallbackInv, NEW r \in Requests, Release(r)
    PROVE  KeepsHistory(r)
  <1>1. TypeOK /\ HistoryTypes /\ Listed(r) /\ Judged(r) /\ VerdictSound(r)
    BY DEF StreamInv, FallbackInv, Sound
  <1>2. /\ UNCHANGED <<current, runtime, targets, verdict, delivered, asked, failures>>
        /\ pc[r] = "release" /\ AfterModel(r)
    BY DEF Release, accepted, client, history
  <1>3. HistoryTypes'
    BY <1>1, <1>2 DEF HistoryTypes
  <1>4. CASE verdict[r] = "complete"
    <2>1. /\ Finish(r, "complete") /\ attempt' = attempt
      BY <1>2, <1>4 DEF AfterModel
    <2>2. /\ \A q \in Requests \ {r} : SameHistory(q)
          /\ pc'[r] \in {"close", "done"} /\ outcome'[r] = "complete"
      BY <1>1, <1>2, <2>1 DEF Finish, SameHistory, TypeOK
    <2>3. Listed(r)'
      BY <1>1, <1>2, <2>1, <2>2 DEF Listed, Configured
    <2>4. Judged(r)'
      BY <1>1, <1>2, <2>1, <2>2 DEF Judged, Switches
    <2>5. QED
      BY <1>2, <1>3, <2>2, <2>3, <2>4 DEF KeepsHistory
  <1>5. CASE verdict[r] # "complete"
    <2> DEFINE again == verdict[r] = "retry"
    <2>1. again \in BOOLEAN /\ Failed(r, again)
      BY <1>2, <1>5 DEF AfterModel
    <2>2. /\ again => Switches(runtime[r], Last(failures[r]))
          /\ ~again => ~Switches(runtime[r], Last(failures[r])) \/ delivered[r] # <<>>
      BY <1>1, <1>2, <1>5 DEF Judged, VerdictSound, TypeOK
    <2> HIDE DEF again
    <2>3. /\ asked'[r] = SubSeq(targets[r], 1, attempt[r])
          /\ Len(failures'[r]) = attempt[r]
          /\ \A i \in 1 .. attempt[r] - 1 : Switches(runtime[r], failures'[r][i])
          /\ failures' \in [Requests -> Seq(Errors)]
      BY <1>1, <1>2, <1>3, <1>5 DEF Listed, Judged, HistoryTypes
    <2>4. Listed(r)' /\ Judged(r)'
      BY <1>1, <1>2, <2>1, <2>2, <2>3, FailureKeeps
    <2>5. \A q \in Requests \ {r} : SameHistory(q)
      BY <1>1, <1>2, <2>1, FailedEffect DEF SameHistory
    <2>6. QED
      BY <1>2, <1>3, <2>4, <2>5 DEF KeepsHistory
  <1>6. QED
    BY <1>4, <1>5

\* Reconfiguring and shutting down leave every request its runtime.
LEMMA ReloadKeepsFallback ==
    ASSUME FallbackInv, (\E input \in Inputs : Reconfigure(input)) \/ Shutdown \/ UNCHANGED vars
    PROVE  FallbackInv'
  <1>1. UNCHANGED <<pc, attempt, verdict, outcome, delivered, runtime, targets, asked, failures>>
    BY DEF Reconfigure, Shutdown, vars, accepted, client, history
  <1>2. current' = NoRuntime \/ Configured(current')
    <2>1. CASE \E input \in Inputs : Reconfigure(input)
      <3>1. PICK input \in Inputs : Reconfigure(input)
        BY <2>1
      <3>2. PICK table \in NormalizeQuotaFallback(input.prefixes) :
                current' = [configured |-> input, table |-> table]
        BY <3>1 DEF Reconfigure
      <3>3. QED
        BY <3>2 DEF Configured
    <2>2. CASE Shutdown
      BY <2>2 DEF Shutdown
    <2>3. CASE UNCHANGED vars
      BY <2>3 DEF vars, accepted, FallbackInv, Configured
    <2>4. QED
      BY <2>1, <2>2, <2>3
  <1>3. HistoryTypes'
    BY <1>1 DEF FallbackInv, HistoryTypes
  <1>4. ASSUME NEW r \in Requests PROVE Listed(r)' /\ Judged(r)'
    <2>1. Listed(r) /\ Judged(r)
      BY DEF FallbackInv
    <2>2. Listed(r)'
      BY <1>1, <2>1 DEF Listed, Configured
    <2>3. Judged(r)'
      BY <1>1, <2>1 DEF Judged, Switches
    <2>4. QED
      BY <2>2, <2>3
  <1>5. QED
    BY <1>2, <1>3, <1>4 DEF FallbackInv, Configured

LEMMA ServeKeepsHistory ==
    ASSUME StreamInv, FallbackInv, EachSpelledOnce, NEW r \in Requests, Serve(r)
    PROVE  KeepsHistory(r)
  <1>1. UpstreamErrors \subseteq Errors
    BY DEF Errors
  <1>2. QED
    BY <1>1, ResolveKeepsHistory, QuietKeepsHistory, AskKeepsHistory, CallFailsKeepsHistory,
       StreamFailsKeepsHistory, EmitsKeepsHistory, ReleaseKeepsHistory DEF Serve

LEMMA StepFallbackInv == EachSpelledOnce /\ StreamInv /\ FallbackInv /\ [Next]_vars => FallbackInv'
  <1> SUFFICES ASSUME EachSpelledOnce, StreamInv, FallbackInv, [Next]_vars PROVE FallbackInv'
    OBVIOUS
  <1>1. ASSUME NEW r \in Requests, Serve(r) PROVE FallbackInv'
    BY <1>1, ServeKeepsHistory, HistoryIsEnough
  <1>2. ASSUME NEW r \in Requests, NEW k \in {"execute", "stream"}, Accept(r, k) \/ Refuse(r, k)
        PROVE  FallbackInv'
    BY <1>2, AcceptKeepsHistory, QuietKeepsHistory, HistoryIsEnough
  <1>3. QED
    BY <1>1, <1>2, ReloadKeepsFallback DEF Next

\* When every source is spelled once, the inductive invariant of the fallback
\* holds in every reachable state.
THEOREM FallbackInductive ==
    ASSUME EachSpelledOnce PROVE Spec => [](StreamInv /\ FallbackInv)
  <1>1. FallbackInv /\ StreamInv /\ [Next]_vars => FallbackInv'
    BY StepFallbackInv
  <1>2. QED
    BY <1>1, InitFallbackInv, StreamInductive, PTL DEF Spec

\* What a request has asked, given the whole list of its targets.
LEMMA AskedSoFar ==
    ASSUME TypeOK, FallbackInv, EachSpelledOnce, NEW r \in Requests, asked[r] # <<>>
    PROVE  \E n \in 1 .. Len(targets[r]) :
              /\ asked[r] = SubSeq(targets[r], 1, n)
              /\ n = IF pc[r] = "call" THEN attempt[r] - 1 ELSE attempt[r]
              /\ Covers(targets[r], Specified(runtime[r].configured, asked[r][1]), asked[r][1])
  <1> DEFINE n == IF pc[r] = "call" THEN attempt[r] - 1 ELSE attempt[r]
             T == targets[r]
  <1>1. /\ attempt[r] \in Nat /\ attempt[r] # 0 /\ attempt[r] <= Len(T)
        /\ asked[r] = SubSeq(T, 1, n)
        /\ Configured(runtime[r])
    BY DEF FallbackInv, Listed, TypeOK
  <1>2. PICK m \in Models : T = QuotaFallbackTargets(
                                runtime[r].configured.enabled, runtime[r].table, m)
    BY <1>1 DEF FallbackInv, Listed
  <1>3. PICK input \in Inputs :
            runtime[r].configured = input /\ runtime[r].table \in NormalizeQuotaFallback(input.prefixes)
    BY <1>1 DEF Configured
  <1>4. Covers(T, Specified(input, m), m)
    BY <1>2, <1>3, TargetsAreSpecified DEF EachSpelledOnce
  <1>5. T \in Seq(Seq(Segments)) /\ T[1] = m
    BY <1>4 DEF Covers
  <1> HIDE DEF T
  <1>6. n \in 0 .. Len(T)
    BY <1>1
  <1>7. n # 0
    BY <1>1, <1>5, SubSeqEmpty
  <1> HIDE DEF n
  <1>8. n \in 1 .. Len(T) /\ asked[r][1] = m
    BY <1>1, <1>5, <1>6, <1>7
  <1>9. QED
    BY <1>1, <1>3, <1>4, <1>8 DEF n, T

\* README: "The list is applied for one level only and in the specified
\* order", for any configuration that spells each of its sources once, and
\* whatever becomes of the configuration while the request runs.
THEOREM ListIsFollowed == ASSUME EachSpelledOnce PROVE Spec => []TriedInOrder
  <1>1. StreamInv /\ FallbackInv => TriedInOrder
    <2> SUFFICES ASSUME StreamInv, FallbackInv, NEW r \in Requests, asked[r] # <<>>
                 PROVE  LET tried == asked[r]
                            list  == Specified(runtime[r].configured, tried[1]) IN
                        /\ IsInjective(tried)
                        /\ \A j \in 2 .. Len(tried) : \E k \in DOMAIN list :
                              /\ tried[j] = list[k]
                              /\ \A i \in 1 .. k - 1 : Contains(SubSeq(tried, 1, j - 1), list[i])
      BY DEF TriedInOrder
    <2> DEFINE tried == asked[r]
               list  == Specified(runtime[r].configured, tried[1])
               T     == targets[r]
    <2>1. PICK n \in 1 .. Len(T) : tried = SubSeq(T, 1, n) /\ Covers(T, list, tried[1])
      BY AskedSoFar DEF StreamInv
    <2>2. /\ T \in Seq(Seq(Segments)) /\ Len(T) \in Nat /\ DOMAIN T = 1 .. Len(T)
          /\ Follows(T, list)
      BY <2>1 DEF Covers
    <2> HIDE DEF tried, list, T
    <2>3. /\ Len(tried) = n /\ DOMAIN tried = 1 .. n
          /\ \A j \in 1 .. n : tried[j] = T[j] /\ j \in DOMAIN T
      BY <2>1, <2>2
    <2>4. IsInjective(tried)
      BY <2>2, <2>3 DEF Follows, IsInjective
    <2>5. ASSUME NEW j \in 2 .. n
          PROVE  \E k \in DOMAIN list :
                    /\ tried[j] = list[k]
                    /\ \A i \in 1 .. k - 1 : Contains(SubSeq(tried, 1, j - 1), list[i])
      <3>1. j \in 2 .. Len(T) /\ j \in 1 .. n
        BY <2>2
      <3>2. PICK k \in DOMAIN list :
                /\ T[j] = list[k]
                /\ \A i \in 1 .. k - 1 : \E h \in 1 .. j - 1 : T[h] = list[i]
        BY <2>2, <3>1 DEF Follows
      <3>3. ASSUME NEW i \in 1 .. k - 1 PROVE Contains(SubSeq(tried, 1, j - 1), list[i])
        <4>1. PICK h \in 1 .. j - 1 : T[h] = list[i]
          BY <3>2
        <4>2. h \in 1 .. n /\ j - 1 \in 1 .. n
          BY <2>2
        <4>3. tried \in Seq(Seq(Segments))
          BY <2>1, <2>2
        <4>4. Len(SubSeq(tried, 1, j - 1)) = j - 1 /\ SubSeq(tried, 1, j - 1)[h] = tried[h]
          BY <2>3, <4>2, <4>3
        <4>5. QED
          BY <2>3, <4>1, <4>2, <4>4 DEF Contains
      <3>4. QED
        BY <2>3, <3>1, <3>2, <3>3
    <2>6. QED
      BY <2>3, <2>4, <2>5 DEF tried, list
  <1>2. QED
    BY <1>1, FallbackInductive, PTL

\* README: only the named failures trigger a switch, and as long as nothing was
\* delivered they do until the list is used up, whatever the list is.
THEOREM FallbackGoesAllTheWay == ASSUME EachSpelledOnce PROVE Spec => []FallbackIsExact
  <1>1. StreamInv /\ FallbackInv => FallbackIsExact
    <2> SUFFICES ASSUME StreamInv, FallbackInv, NEW r \in Requests
                 PROVE  /\ \A i \in 1 .. Len(asked[r]) - 1 :
                              i \in DOMAIN failures[r] /\ Switches(runtime[r], failures[r][i])
                        /\ /\ outcome[r] = "error" /\ delivered[r] = <<>> /\ asked[r] # <<>>
                           /\ Switches(runtime[r], Last(failures[r]))
                           => ToSet(Specified(runtime[r].configured, asked[r][1]))
                                  \subseteq ToSet(asked[r])
      BY DEF FallbackIsExact
    <2>1. TypeOK /\ HistoryTypes /\ Listed(r) /\ Judged(r)
      BY DEF StreamInv, FallbackInv
    <2>2. CASE asked[r] = <<>>
      BY <2>2
    <2>3. CASE asked[r] # <<>>
      <3>1. PICK n \in 1 .. Len(targets[r]) :
              /\ asked[r] = SubSeq(targets[r], 1, n)
              /\ n = IF pc[r] = "call" THEN attempt[r] - 1 ELSE attempt[r]
              /\ Covers(targets[r], Specified(runtime[r].configured, asked[r][1]), asked[r][1])
        BY <2>1, <2>3, AskedSoFar
      <3>2. /\ targets[r] \in Seq(Seq(Segments)) /\ attempt[r] \in Nat
            /\ Len(targets[r]) \in Nat
        BY <2>1 DEF HistoryTypes, TypeOK
      <3>3. Len(asked[r]) = n
        BY <3>1, <3>2
      <3>4. \A i \in 1 .. n - 1 : i \in 1 .. attempt[r] - 1
        BY <3>1, <3>2
      <3>5. \A i \in 1 .. Len(asked[r]) - 1 :
                i \in DOMAIN failures[r] /\ Switches(runtime[r], failures[r][i])
        BY <2>1, <3>3, <3>4 DEF Judged
      <3>6. ASSUME outcome[r] = "error", delivered[r] = <<>>,
                   Switches(runtime[r], Last(failures[r]))
            PROVE  ToSet(Specified(runtime[r].configured, asked[r][1])) \subseteq ToSet(asked[r])
        <4>1. attempt[r] # 0 /\ pc[r] # "call"
          BY <2>1, <2>3, <3>6 DEF Listed, Judged
        <4>2. n = Len(targets[r])
          BY <2>1, <3>1, <3>6, <4>1 DEF Judged
        <4>3. asked[r] = targets[r]
          BY <3>1, <3>2, <4>2, SubSeqFull
        <4>4. QED
          BY <3>1, <4>3 DEF Covers
      <3>7. QED
        BY <3>5, <3>6
    <2>4. QED
      BY <2>2, <2>3
  <1>2. QED
    BY <1>1, FallbackInductive, PTL
=============================================================================
