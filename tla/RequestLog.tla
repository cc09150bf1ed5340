------------------------------ MODULE RequestLog ------------------------------
(***************************************************************************)
(* The logging middleware of the API server, customZeroLog                 *)
(* (cmd/zebrahook/http.go).  All requests share one logger, through a      *)
(* pointer; each request takes a copy, adds its own id to the fields of    *)
(* the copy and stores the copy back over the shared logger.  Nothing      *)
(* orders the goroutines of two requests: a read that meets a store may    *)
(* see the old fields, the new ones, or words of both (Torn).              *)
(***************************************************************************)
EXTENDS Naturals, Sequences

CONSTANTS
    Request,    \* requests the clients send; a request stands for its log id
    Torn        \* what is left of fields read or stored by two at once

VARIABLES
    process,    \* "up", or how it ended: "exited", "killed", "panicked"
    fields,     \* the request ids in the context of the shared logger
    request     \* what the goroutine of each request is doing, its locals

vars == <<process, fields, request>>

NotSent == [pc |-> "none", copy |-> <<>>, line |-> <<>>, alone |-> TRUE]

Init ==
    /\ fields = <<>>
    /\ request = [r \in Request |-> NotSent]

Running == {"entered", "copied", "storing", "stored", "handled"}
InFlight == {r \in Request : request[r].pc \in Running}

Goes(r, from, to) ==
    /\ process = "up"
    /\ request[r].pc = from
    /\ request' = [request EXCEPT ![r].pc = to]
    /\ UNCHANGED process

\* net/http starts a goroutine for the request; alone records whether it ever
\* shared the server with another one
Enter(r) ==
    /\ process = "up"
    /\ request[r].pc = "none"
    /\ request' = [q \in Request |->
           IF q = r THEN [NotSent EXCEPT !.pc = "entered", !.alone = InFlight = {}]
           ELSE IF q \in InFlight THEN [request[q] EXCEPT !.alone = FALSE]
           ELSE request[q]]
    /\ UNCHANGED <<process, fields>>

Storing == {q \in Request : request[q].pc = "storing"}

\* what a read of the shared logger may return
Seen == {fields} \cup {request[q].copy : q \in Storing}
                 \cup {<<Torn>> : q \in Storing}

\* slip: the id is put in front, and the last field is somebody else's
WithIdFirst(seen, r) == <<r>> \o seen

\* l.With().Str("requestId", reqID).Logger()
WithId(seen, r) == Append(seen, r)

\* lines 47-52: RequestID runs inside this middleware, so the context has no
\* id yet and a new one is made up
CopyLogger(r) ==
    /\ process = "up"
    /\ request[r].pc = "entered"
    /\ \E seen \in Seen :
           request' = [request EXCEPT ![r].pc = "copied", ![r].copy = WithId(seen, r)]
    /\ UNCHANGED <<process, fields>>

\* line 53: the store of a struct of many words begins ...
BeginStore(r) == Goes(r, "copied", "storing") /\ UNCHANGED fields

\* ... and ends
EndStore(r) ==
    /\ Goes(r, "storing", "stored")
    /\ fields' \in {request[r].copy} \cup {<<Torn>> : q \in Storing \ {r}}

\* line 58: the handler behind the middleware returns
Serve(r) == Goes(r, "stored", "handled") /\ UNCHANGED fields

\* or it panics: net/http recovers and closes the connection, nothing is logged
Panics(r) == Goes(r, "stored", "closed") /\ UNCHANGED fields

\* line 60: the line is written with the fields the shared logger has by now
LogLine(r) ==
    /\ process = "up"
    /\ request[r].pc = "handled"
    /\ \E seen \in Seen :
           request' = [request EXCEPT ![r].pc = "answered", ![r].line = seen]
    /\ UNCHANGED <<process, fields>>

Step(r) ==
    \/ CopyLogger(r) \/ BeginStore(r) \/ EndStore(r) \/ Serve(r) \/ Panics(r) \/ LogLine(r)

-----------------------------------------------------------------------------
Ids == Request \cup {Torn}
TypeOK ==
    /\ fields \in Seq(Ids)
    /\ request \in [Request ->
           [pc : Running \cup {"none", "answered", "closed", "cut"},
            copy : Seq(Ids), line : Seq(Ids), alone : BOOLEAN]]

\* A request that shared the server with no other is logged under its own id:
\* the last field of its line is its own, whatever earlier requests and their
\* panics left in the logger.
LoneLine ==
    \A r \in Request : request[r].pc = "answered" /\ request[r].alone =>
        request[r].line[Len(request[r].line)] = r
=============================================================================
