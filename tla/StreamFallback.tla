--------------------------- MODULE StreamFallback ---------------------------
(***************************************************************************)
(* Executor requests (Execute, RunStream and streamModel in runtime.go)    *)
(* and the goroutine that serves a streamed one (executeStream in          *)
(* main_cgo.go).  A request is resolved to a model, which is asked through *)
(* the host; when it fails, the next target of quota_fallback is asked, if *)
(* the failure allows it and the client has received nothing yet.          *)
(*                                                                         *)
(* One action is one call of the host with the code up to the next one.    *)
(* The host, the upstream models and the client are external: a call may   *)
(* fail at any time, an emitted payload may reach the client although the  *)
(* call reports an error, and the plugin may be reconfigured or shut down  *)
(* while requests run.                                                     *)
(***************************************************************************)
EXTENDS Naturals, Sequences, FiniteSets, FallbackTargets

CONSTANTS
    Requests,    \* executor requests
    Segments,    \* what names are made of, between their slashes
    Models,      \* models Resolve may choose
    Inputs,      \* quota_fallback as it may be configured
    NoRuntime,   \* the nil currentRuntime
    MaxPayloads  \* bound on the payloads of one upstream stream

ASSUME PayloadBound == MaxPayloads \in Nat

ASSUME NamesAreSegments ==
    /\ Models \subseteq Seq(Segments)
    /\ \A input \in Inputs :
          /\ input.enabled \in BOOLEAN /\ input.others \in BOOLEAN
          /\ \A s \in DOMAIN input.prefixes :
                s.path \in Seq(Segments) /\ input.prefixes[s] \in Seq(Seq(Segments))

VARIABLES
    current,    \* currentRuntime
    runtime,    \* the runtime each request was accepted by
    kind,       \* executor.execute or executor.execute_stream
    pc,         \* the host call each request makes next
    targets,    \* the models it may ask
    attempt,    \* the index of the one it asks
    open,       \* the attempts whose host stream is open
    got,        \* payloads read from the host stream
    last,       \* the chunk just read was the last one
    emitted,    \* a payload was forwarded
    verdict,    \* what streamModel returns once it has closed the host stream
    outcome,    \* how the request ended
    closes,     \* the close messages the host got for the plugin's stream
    delivered,  \* history: the payloads the client received
    asked,      \* history: the models that were asked
    failures    \* history: how the ones that failed did

accepted == <<current, runtime, kind, targets>>
host     == <<open, got, last>>
client   == <<closes, delivered>>
history  == <<asked, failures>>
vars     == <<accepted, attempt, host, emitted, pc, verdict, outcome, client, history>>

\* Errors by what isCodexQuotaExhausted, isCPAModelCooldown and streamModel
\* tell apart: "local" errors are the plugin's own, a recovered panic included.
UpstreamErrors == {"usage_limit_reached", "model_cooldown", "other"}
Errors         == UpstreamErrors \union {"local"}

\* streamModel never returns its own errors as retryable.
Eligible(rt, e) ==
    \/ e \in {"usage_limit_reached", "model_cooldown"}
    \/ e = "other" /\ rt.configured.others

-----------------------------------------------------------------------------
Init ==
    /\ current = NoRuntime
    /\ runtime = [r \in Requests |-> NoRuntime]
    /\ kind = [r \in Requests |-> "none"]
    /\ pc = [r \in Requests |-> "idle"]
    /\ targets = [r \in Requests |-> <<>>]
    /\ attempt = [r \in Requests |-> 0]
    /\ open = [r \in Requests |-> {}]
    /\ got = [r \in Requests |-> 0]
    /\ last = [r \in Requests |-> FALSE]
    /\ emitted = [r \in Requests |-> FALSE]
    /\ verdict = [r \in Requests |-> "none"]
    /\ outcome = [r \in Requests |-> "none"]
    /\ closes = [r \in Requests |-> <<>>]
    /\ delivered = [r \in Requests |-> <<>>]
    /\ asked = [r \in Requests |-> <<>>]
    /\ failures = [r \in Requests |-> <<>>]

\* plugin.register and plugin.reconfigure: a configuration that cannot be
\* normalized leaves the present runtime in place.
Reconfigure(input) ==
    /\ Normalizable(input.prefixes)
    /\ \E table \in NormalizeQuotaFallback(input.prefixes) :
          current' = [configured |-> input, table |-> table]
    /\ UNCHANGED <<runtime, kind, pc, targets, attempt, host, emitted, verdict, outcome, client, history>>

Shutdown ==
    /\ current' = NoRuntime
    /\ UNCHANGED <<runtime, kind, pc, targets, attempt, host, emitted, verdict, outcome, client, history>>

\* The request is accepted by the runtime that is loaded now, and keeps it.
Accept(r, k) ==
    /\ pc[r] = "idle"
    /\ current # NoRuntime
    /\ runtime' = [runtime EXCEPT ![r] = current]
    /\ kind' = [kind EXCEPT ![r] = k]
    /\ pc' = [pc EXCEPT ![r] = "resolve"]
    /\ UNCHANGED <<current, targets, attempt, host, emitted, verdict, outcome, client, history>>

\* Mutant: a request that is refused also closes the client's stream.
Refuse_closes(r, k) ==
    /\ pc[r] = "idle"
    /\ kind' = [kind EXCEPT ![r] = k]
    /\ outcome' = [outcome EXCEPT ![r] = "refused"]
    /\ pc' = [pc EXCEPT ![r] = "close"]
    /\ UNCHANGED <<current, runtime, targets, attempt, host, emitted, verdict, client, history>>

\* Without a runtime, or if the request cannot be read or names no stream, the
\* answer of the call itself is an error.
Refuse(r, k) ==
    /\ pc[r] = "idle"
    /\ kind' = [kind EXCEPT ![r] = k]
    /\ outcome' = [outcome EXCEPT ![r] = "refused"]
    /\ pc' = [pc EXCEPT ![r] = "done"]
    /\ UNCHANGED <<current, runtime, targets, attempt, host, emitted, verdict, client, history>>

\* The request ends; a streamed one has still to close the client's stream.
Finish(r, how) ==
    /\ outcome' = [outcome EXCEPT ![r] = how]
    /\ pc' = [pc EXCEPT ![r] = IF kind[r] = "stream" THEN "close" ELSE "done"]

\* Mutant: the targets are those of the runtime that is loaded now.
Resolve_reloaded(r, m) ==
    LET rt == IF current = NoRuntime THEN runtime[r] ELSE current IN
    /\ pc[r] = "resolve"
    /\ targets' = [targets EXCEPT ![r] =
                      QuotaFallbackTargets(rt.configured.enabled, rt.table, m)]
    /\ attempt' = [attempt EXCEPT ![r] = 1]
    /\ pc' = [pc EXCEPT ![r] = "call"]
    /\ UNCHANGED <<current, runtime, kind, host, emitted, verdict, outcome, client, history>>

Resolve(r, m) ==
    /\ pc[r] = "resolve"
    /\ targets' = [targets EXCEPT ![r] =
                      QuotaFallbackTargets(runtime[r].configured.enabled, runtime[r].table, m)]
    /\ attempt' = [attempt EXCEPT ![r] = 1]
    /\ pc' = [pc EXCEPT ![r] = "call"]
    /\ UNCHANGED <<current, runtime, kind, host, emitted, verdict, outcome, client, history>>

\* Mutant: a request that cannot be resolved leaves the client's stream open.
ResolveFails_silently(r) ==
    /\ pc[r] = "resolve"
    /\ outcome' = [outcome EXCEPT ![r] = "error"]
    /\ pc' = [pc EXCEPT ![r] = "done"]
    /\ UNCHANGED <<accepted, attempt, host, emitted, verdict, client, history>>

ResolveFails(r) ==
    /\ pc[r] = "resolve"
    /\ Finish(r, "error")
    /\ UNCHANGED <<accepted, attempt, host, emitted, verdict, client, history>>

-----------------------------------------------------------------------------
\* Mutant: the last target is never asked.
MoreTargets_offByOne(r) == attempt[r] + 1 < Len(targets[r])

MoreTargets(r) == attempt[r] < Len(targets[r])

\* The loop of Execute and RunStream over the targets.
Failed(r, again) ==
    IF again /\ MoreTargets(r)
    THEN /\ attempt' = [attempt EXCEPT ![r] = @ + 1]
         /\ pc' = [pc EXCEPT ![r] = "call"]
         /\ UNCHANGED outcome
    ELSE Finish(r, "error") /\ UNCHANGED attempt

Ask(r)     == asked' = [asked EXCEPT ![r] = Append(@, targets[r][attempt[r]])]
Note(r, e) == failures' = [failures EXCEPT ![r] = Append(@, e)]

\* executeModel answers, or fails; what it cannot build or decode counts as
\* any other error.
Executes(r) ==
    /\ pc[r] = "call"
    /\ kind[r] = "execute"
    /\ Ask(r)
    /\ Finish(r, "complete")
    /\ UNCHANGED <<accepted, attempt, host, emitted, verdict, client, failures>>

ExecuteFails(r, e) ==
    /\ pc[r] = "call"
    /\ kind[r] = "execute"
    /\ Ask(r)
    /\ Note(r, e)
    /\ Failed(r, Eligible(runtime[r], e))
    /\ UNCHANGED <<accepted, host, emitted, verdict, client>>

\* streamModel opens a host stream, or gets none.
Opens(r) ==
    /\ pc[r] = "call"
    /\ kind[r] = "stream"
    /\ Ask(r)
    /\ open' = [open EXCEPT ![r] = @ \union {attempt[r]}]
    /\ got' = [got EXCEPT ![r] = 0]
    /\ emitted' = [emitted EXCEPT ![r] = FALSE]
    /\ pc' = [pc EXCEPT ![r] = "read"]
    /\ UNCHANGED <<accepted, attempt, last, verdict, outcome, client, failures>>

OpenFails(r, e) ==
    /\ pc[r] = "call"
    /\ kind[r] = "stream"
    /\ Ask(r)
    /\ Note(r, e)
    /\ Failed(r, Eligible(runtime[r], e))
    /\ UNCHANGED <<accepted, host, emitted, verdict, client>>

\* streamModel is about to return v, and closes the host stream first.
Return(r, v) ==
    /\ verdict' = [verdict EXCEPT ![r] = v]
    /\ pc' = [pc EXCEPT ![r] = "release"]

\* A chunk with a payload is forwarded; an empty one is not.
ReadPayload(r, isLast) ==
    /\ pc[r] = "read"
    /\ got[r] < MaxPayloads               \* bound
    /\ got' = [got EXCEPT ![r] = @ + 1]
    /\ last' = [last EXCEPT ![r] = isLast]
    /\ pc' = [pc EXCEPT ![r] = "emit"]
    /\ UNCHANGED <<accepted, attempt, open, emitted, verdict, outcome, client, history>>

ReadDone(r) ==
    /\ pc[r] = "read"
    /\ Return(r, "complete")
    /\ UNCHANGED <<accepted, attempt, host, emitted, outcome, client, history>>

\* The read fails, cannot be decoded, or carries an error (and then its
\* payload is dropped).
ReadFails(r, e) ==
    /\ pc[r] = "read"
    /\ Note(r, e)
    /\ Return(r, IF ~emitted[r] /\ Eligible(runtime[r], e) THEN "retry" ELSE "error")
    /\ UNCHANGED <<accepted, attempt, host, emitted, outcome, client, asked>>

Deliver(r) == delivered' = [delivered EXCEPT ![r] = Append(@, <<attempt[r], got[r]>>)]

\* Mutant: the last chunk ends the stream before its payload is forwarded.
Emits_afterDone(r) ==
    /\ pc[r] = "emit"
    /\ IF last[r]
       THEN Return(r, "complete") /\ UNCHANGED <<emitted, delivered>>
       ELSE /\ Deliver(r)
            /\ emitted' = [emitted EXCEPT ![r] = TRUE]
            /\ pc' = [pc EXCEPT ![r] = "read"]
            /\ UNCHANGED verdict
    /\ UNCHANGED <<accepted, attempt, host, outcome, closes, history>>

Emits(r) ==
    /\ pc[r] = "emit"
    /\ Deliver(r)
    /\ emitted' = [emitted EXCEPT ![r] = TRUE]
    /\ IF last[r] THEN Return(r, "complete")
       ELSE pc' = [pc EXCEPT ![r] = "read"] /\ UNCHANGED verdict
    /\ UNCHANGED <<accepted, attempt, host, outcome, closes, history>>

\* Mutant: a failure to forward a payload may move on.
EmitFails_retried(r) ==
    /\ pc[r] = "emit"
    /\ Deliver(r) \/ UNCHANGED delivered
    /\ Note(r, "other")
    /\ Return(r, IF ~emitted[r] /\ Eligible(runtime[r], "other") THEN "retry" ELSE "error")
    /\ UNCHANGED <<accepted, attempt, host, emitted, outcome, closes, asked>>

\* host.stream.emit reports an error; the payload may have arrived.
EmitFails(r) ==
    /\ pc[r] = "emit"
    /\ Deliver(r) \/ UNCHANGED delivered
    /\ Note(r, "local")
    /\ Return(r, "error")
    /\ UNCHANGED <<accepted, attempt, host, emitted, outcome, closes, asked>>

AfterModel(r) ==
    \/ verdict[r] = "complete" /\ Finish(r, "complete") /\ UNCHANGED attempt
    \/ verdict[r] \in {"retry", "error"} /\ Failed(r, verdict[r] = "retry")

\* Mutant: the host stream is closed only when the request ends.
Release_atTheEnd(r) ==
    /\ pc[r] = "release"
    /\ AfterModel(r)
    /\ open' = [open EXCEPT ![r] = IF pc'[r] = "call" THEN @ ELSE {}]
    /\ UNCHANGED <<accepted, got, last, emitted, verdict, client, history>>

\* The deferred close of the host stream; RunStream goes on or returns.
Release(r) ==
    /\ pc[r] = "release"
    /\ open' = [open EXCEPT ![r] = @ \ {attempt[r]}]
    /\ AfterModel(r)
    /\ UNCHANGED <<accepted, got, last, emitted, verdict, client, history>>

\* closePluginStream, with the error of RunStream or with none.
ClosePluginStream(r) ==
    /\ pc[r] = "close"
    /\ closes' = [closes EXCEPT ![r] = Append(@, outcome[r])]
    /\ pc' = [pc EXCEPT ![r] = "done"]
    /\ UNCHANGED <<accepted, attempt, host, emitted, verdict, outcome, delivered, history>>

\* What the goroutine of an accepted request does next.
Serve(r) ==
    \/ \E m \in Models : Resolve(r, m)
    \/ ResolveFails(r)
    \/ Executes(r) \/ Opens(r)
    \/ \E e \in UpstreamErrors : ExecuteFails(r, e)
    \/ \E e \in Errors : OpenFails(r, e) \/ ReadFails(r, e)
    \/ \E isLast \in BOOLEAN : ReadPayload(r, isLast)
    \/ ReadDone(r)
    \/ Emits(r) \/ EmitFails(r)
    \/ Release(r) \/ ClosePluginStream(r)

Next ==
    \/ \E input \in Inputs : Reconfigure(input)
    \/ Shutdown
    \/ \E r \in Requests, k \in {"execute", "stream"} : Accept(r, k) \/ Refuse(r, k)
    \/ \E r \in Requests : Serve(r)

Spec == Init /\ [][Next]_vars

\* The host answers every call, and the goroutine of a request is scheduled.
FairSpec == Spec /\ \A r \in Requests : WF_vars(Serve(r))

-----------------------------------------------------------------------------
\* The variables keep their types.
TypeOK ==
    /\ kind \in [Requests -> {"none", "execute", "stream"}]
    /\ pc \in [Requests -> {"idle", "resolve", "call", "read", "emit", "release", "close", "done"}]
    /\ attempt \in [Requests -> Nat]
    /\ open \in [Requests -> SUBSET Nat]
    /\ got \in [Requests -> Nat]
    /\ last \in [Requests -> BOOLEAN]
    /\ emitted \in [Requests -> BOOLEAN]
    /\ verdict \in [Requests -> {"none", "complete", "retry", "error"}]
    /\ outcome \in [Requests -> {"none", "complete", "error", "refused"}]
    /\ closes \in [Requests -> Seq({"complete", "error"})]
    /\ delivered \in [Requests -> Seq(Nat \X Nat)]

\* README: "A streaming request that has already emitted content never
\* switches models."  What the client has received, also through an emit that
\* reported an error, is the beginning of what one model produced: the one the
\* request is at now, or has ended with.
OneSource ==
    \A r \in Requests : \A i \in 1 .. Len(delivered[r]) : delivered[r][i] = <<attempt[r], i>>

\* A host stream is closed before the next model is asked and before the
\* client's stream ends, and a request never has two.
HostStreamsReleased ==
    \A r \in Requests :
        /\ open[r] \subseteq {attempt[r]}
        /\ pc[r] \in {"call", "close", "done"} => open[r] = {}

\* The models one request may ask, as a reader of the configuration would
\* list them: itself, and for the most specific source of it that names
\* another prefix, the prefixes it names, each with the rest of the model.
Specified(input, m) ==
    LET names(s)  == ToSet(input.prefixes[s]) \ {s.path}
        sources   == {s \in DOMAIN input.prefixes : IsStrictPrefix(s.path, m) /\ names(s) # {}}
        best      == {s \in sources : \A t \in sources : Len(t.path) <= Len(s.path)}
        rest(s)   == SubSeq(m, Len(s.path) + 1, Len(m))
        listed(s) == [i \in DOMAIN input.prefixes[s] |-> input.prefixes[s][i] \o rest(s)]
    IN  IF input.enabled /\ best # {} THEN listed(CHOOSE s \in best : TRUE) ELSE <<>>

\* README: "The list is applied for one level only and in the specified
\* order."  Each request follows the list of the runtime that accepted it: it
\* asks no model twice, none that is not listed, and none before the ones that
\* are listed ahead of it.
TriedInOrder ==
    \A r \in Requests : asked[r] # <<>> =>
        LET tried == asked[r]
            list  == Specified(runtime[r].configured, tried[1]) IN
        /\ IsInjective(tried)
        /\ \A j \in 2 .. Len(tried) : \E k \in DOMAIN list :
              /\ tried[j] = list[k]
              /\ \A i \in 1 .. k - 1 : Contains(SubSeq(tried, 1, j - 1), list[i])

\* README: "By default, only usage_limit_reached and CPA's model_cooldown
\* errors trigger a switch", other upstream errors when that is configured.
Switches(rt, e) == e # "local" /\ (e = "other" => rt.configured.others)

\* Every model but the last failed in a way that allows another to be asked;
\* and a request that ends with such a failure, with nothing delivered, has
\* asked every model that is listed.
FallbackIsExact ==
    \A r \in Requests :
        /\ \A i \in 1 .. Len(asked[r]) - 1 :
              i \in DOMAIN failures[r] /\ Switches(runtime[r], failures[r][i])
        /\ /\ outcome[r] = "error" /\ delivered[r] = <<>> /\ asked[r] # <<>>
           /\ Switches(runtime[r], Last(failures[r]))
           => ToSet(Specified(runtime[r].configured, asked[r][1])) \subseteq ToSet(asked[r])

\* What the client of a streamed request is promised.
Promise == INSTANCE Delivery WITH
    produced <- got,
    received <- [r \in Requests |-> Len(delivered[r])],
    ends     <- closes
DeliveryKept == Promise!Spec

\* Every stream that was accepted is closed in the end, whatever the plugin's
\* configuration becomes meanwhile.
StreamsEnd ==
    \A r \in Requests : pc[r] = "resolve" /\ kind[r] = "stream" ~> closes[r] # <<>>
=============================================================================
