-------------------------------- MODULE Outbox --------------------------------
(***************************************************************************)
(* What zebrahook promises the people who submit events and those who own  *)
(* endpoints, without workers, jobs or rows: every submitted event owes a  *)
(* letter to endpoints that listened to it at some moment since then, and  *)
(* to no other; a letter ends delivered, once it really was sent, or       *)
(* abandoned, which switches the endpoint off in the same step.  A letter  *)
(* may be sent more than once, and an abandoned one may be taken up again  *)
(* (a mapping job that runs twice makes a second copy), but a delivered    *)
(* one is never taken back.                                                *)
(***************************************************************************)
CONSTANTS Event, Endpoint

VARIABLES
    submitted,  \* the events handed over to zebrahook
    listening,  \* listening[ev]: the endpoints that listen to ev, switched on
    heard,      \* heard[ev]: who listened at some moment since ev was submitted
    letter,     \* letter[ev][e]: what became of ev for endpoint e
    sent        \* the <<event, endpoint>> pairs sent at least once

vars == <<submitted, listening, heard, letter, sent>>

Init ==
    /\ submitted = {} /\ sent = {}
    /\ listening \in [Event -> SUBSET Endpoint]
    /\ heard = [ev \in Event |-> {}]
    /\ letter = [ev \in Event |-> [e \in Endpoint |-> "none"]]

\* who listens now has heard every event submitted by now
Hear(now, events) ==
    /\ listening' = now
    /\ submitted' = events
    /\ heard' = [ev \in Event |->
           IF ev \in events THEN heard[ev] \cup now[ev] ELSE heard[ev]]

Becomes(ev, e, state) == letter' = [letter EXCEPT ![ev][e] = state]

Submit(ev) ==
    /\ ev \notin submitted
    /\ Hear(listening, submitted \cup {ev})
    /\ UNCHANGED <<letter, sent>>

Switch(now) ==
    /\ Hear(now, submitted)
    /\ UNCHANGED <<letter, sent>>

Owe(ev, e) ==
    /\ e \in heard[ev]
    /\ letter[ev][e] \in {"none", "abandoned"}
    /\ Becomes(ev, e, "owed")
    /\ UNCHANGED <<submitted, listening, heard, sent>>

Send(ev, e) ==
    /\ letter[ev][e] # "none"
    /\ sent' = sent \cup {<<ev, e>>}
    /\ UNCHANGED <<submitted, listening, heard, letter>>

Deliver(ev, e) ==
    /\ letter[ev][e] = "owed"
    /\ <<ev, e>> \in sent
    /\ Becomes(ev, e, "delivered")
    /\ UNCHANGED <<submitted, listening, heard, sent>>

Abandon(ev, e) ==
    /\ letter[ev][e] = "owed"
    /\ <<ev, e>> \in sent
    /\ Becomes(ev, e, "abandoned")
    /\ Hear([x \in Event |-> listening[x] \ {e}], submitted)
    /\ UNCHANGED sent

Next ==
    \/ \E now \in [Event -> SUBSET Endpoint] : Switch(now)
    \/ \E ev \in Event :
          \/ Submit(ev)
          \/ \E e \in Endpoint : Owe(ev, e) \/ Send(ev, e) \/ Deliver(ev, e) \/ Abandon(ev, e)

Spec == Init /\ [][Next]_vars
===============================================================================
