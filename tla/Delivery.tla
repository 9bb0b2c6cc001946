------------------------------ MODULE Delivery ------------------------------
(***************************************************************************)
(* What the client of a streamed request is promised, whatever models the  *)
(* plugin has to try: the payloads of one answer, in order and without a   *)
(* gap, then one end, which is reported as complete only when nothing of   *)
(* that answer is missing.  Before the client has received anything, the   *)
(* answer may be given up for another one.                                 *)
(***************************************************************************)
EXTENDS Naturals

CONSTANT Requests

VARIABLES
    produced,  \* payloads the present answer has produced
    received,  \* payloads the client has received
    ends       \* how the stream of the client ended, once it has

promise == <<produced, received, ends>>
Open(r) == ends[r] = <<>>

Init ==
    /\ produced = [r \in Requests |-> 0]
    /\ received = [r \in Requests |-> 0]
    /\ ends = [r \in Requests |-> <<>>]

\* The answer goes on once the client has all of it so far.
Produce(r) ==
    /\ Open(r)
    /\ received[r] = produced[r]
    /\ produced' = [produced EXCEPT ![r] = @ + 1]
    /\ UNCHANGED <<received, ends>>

Receive(r) ==
    /\ Open(r)
    /\ received[r] < produced[r]
    /\ received' = [received EXCEPT ![r] = @ + 1]
    /\ UNCHANGED <<produced, ends>>

\* Another answer takes the place of one the client has seen nothing of.
Replace(r) ==
    /\ Open(r)
    /\ received[r] = 0
    /\ produced' = [produced EXCEPT ![r] = 0]
    /\ UNCHANGED <<received, ends>>

End(r, how) ==
    /\ Open(r)
    /\ how = "complete" => received[r] = produced[r]
    /\ ends' = [ends EXCEPT ![r] = <<how>>]
    /\ UNCHANGED <<produced, received>>

Next ==
    \E r \in Requests :
        \/ Produce(r) \/ Receive(r) \/ Replace(r)
        \/ \E how \in {"complete", "error"} : End(r, how)

Spec == Init /\ [][Next]_promise
=============================================================================
