---------------------------- MODULE DeliveryLedger ----------------------------
(***************************************************************************)
(* What the dispatcher promises about a delivery, without jobs, workers or *)
(* transactions: an account that is charged one attempt at a time, each    *)
(* charge backed by a POST that was really sent, until it is settled; the  *)
(* endpoint of a delivery is disabled in the very step that uses up its    *)
(* last attempt.  POSTs may exceed the charges: delivery is at least once. *)
(***************************************************************************)
EXTENDS Integers, Sequences

CONSTANTS Endpoint, EndpointOf, MaxAttempts

VARIABLES account, endpoint
vars == <<account, endpoint>>

Delivery == 1 .. Len(EndpointOf)

Init ==
    /\ account = [d \in Delivery |->
                    [posts |-> 0, counter |-> 0, remaining |-> MaxAttempts]]
    /\ endpoint = [e \in Endpoint |-> "enabled"]

\* posts saturates: MaxAttempts + 1 stands for "more than MaxAttempts"
Post(d) ==
    /\ account' = [account EXCEPT ![d].posts = IF @ > MaxAttempts THEN @ ELSE @ + 1]
    /\ UNCHANGED endpoint

\* an attempt was made and not charged yet
Backed(d) == account[d].remaining > 0 /\ account[d].posts > account[d].counter

Charge(d, left) ==
    account' = [account EXCEPT ![d].counter = @ + 1, ![d].remaining = left]

RecordSuccess(d) ==
    /\ Backed(d)
    /\ Charge(d, 0)
    /\ UNCHANGED endpoint

RecordFailure(d) ==
    /\ Backed(d)
    /\ account[d].remaining > 1
    /\ Charge(d, account[d].remaining - 1)
    /\ UNCHANGED endpoint

Exhaust(d) ==
    /\ Backed(d)
    /\ account[d].remaining = 1
    /\ Charge(d, 0)
    /\ endpoint' = [endpoint EXCEPT ![EndpointOf[d]] = "disabled"]

SetStatus(e, status) ==
    /\ endpoint' = [endpoint EXCEPT ![e] = status]
    /\ UNCHANGED account

Next ==
    \/ \E d \in Delivery :
           Post(d) \/ RecordSuccess(d) \/ RecordFailure(d) \/ Exhaust(d)
    \/ \E e \in Endpoint : \E status \in {"enabled", "disabled"} : SetStatus(e, status)

Spec == Init /\ [][Next]_vars
=============================================================================
