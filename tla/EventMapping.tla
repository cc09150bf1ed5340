----------------------------- MODULE EventMapping -----------------------------
(***************************************************************************)
(* The event mapping worker (worker/eventMapping/main.go): the handler     *)
(* EventToEndpointsMappingJob turns one queued event into deliveries,      *)
(* first attempts and dispatcher jobs for the endpoints that listen to it. *)
(* Every statement is a transaction of its own and every error is ignored; *)
(* the endpoints change under it, and a process may die between any two    *)
(* statements, after which the job runs again from its beginning.          *)
(***************************************************************************)
EXTENDS Integers, Sequences, FiniteSets

CONSTANTS
    Endpoint,       \* ids of webhook endpoints, registered or not
    Subscription,   \* elements of enabled_events
    Listening,      \* the values of enabled_events the clients use
    EventTypeOf,    \* EventTypeOf[ev]: the type of event ev
    Matches,        \* <<type, subscription>>: what the query selects (EventMatch)
    Worker, Process, ProcessOf,
    MaxFailures,    \* bound: statements of the database that fail
    MaxCrashes      \* bound: crashes of a process

Event == 1 .. Len(EventTypeOf)

ASSUME ConstantsAssumption ==
    /\ IsFiniteSet(Endpoint)
    /\ Listening \subseteq Seq(Subscription) \ {<<>>}
    /\ ProcessOf \in [Worker -> Process]
    /\ MaxFailures \in Nat /\ MaxCrashes \in Nat
    /\ Len(EventTypeOf) \in Nat

VARIABLES
    mapping,    \* the job of each event, event_mapping queue; "none" is no job yet
    endpoint,   \* endpoints: status and enabled_events; "none" is no row
    delivery,   \* event_deliveries, by id
    attempts,   \* event_delivery_attempts, by id: the delivery
    jobs,       \* what was enqueued for the dispatcher
    wk,         \* what each goroutine is doing, and its locals
    scope,      \* history: endpoints that listened to the event always, or ever
    failures,   \* how many statements have failed
    crashes     \* how many crashes have happened

vars == <<mapping, endpoint, delivery, attempts, jobs, wk, scope, failures, crashes>>

Idle == [pc |-> "idle", event |-> 0, rows |-> <<>>, deliveries |-> <<>>,
         attempts |-> <<>>, sent |-> 0]

-----------------------------------------------------------------------------
(***************************************************************************)
(* The query.  unnest makes a row of every element of enabled_events, so   *)
(* an endpoint comes as often as it has elements that match.               *)
(***************************************************************************)
\* slip: the status of the endpoint is not asked for
RowsOfAll(table, ev) ==
    {row \in UNION {{e} \X DOMAIN table[e].listens : e \in Endpoint} :
        /\ <<EventTypeOf[ev], table[row[1]].listens[row[2]]>> \in Matches}

RowsOf(table, ev) ==
    {row \in UNION {{e} \X DOMAIN table[e].listens : e \in Endpoint} :
        /\ table[row[1]].status = "enabled"
        /\ <<EventTypeOf[ev], table[row[1]].listens[row[2]]>> \in Matches}

\* the rows in the order the database happens to give them
InSomeOrder(rows) ==
    {s \in [1 .. Cardinality(rows) -> rows] : \A i, j \in DOMAIN s : s[i] = s[j] => i = j}

\* history: who listens to an event, enabled and with an element that selects it
Listeners(table, ev) ==
    {e \in Endpoint :
        /\ table[e].status = "enabled"
        /\ \E i \in DOMAIN table[e].listens :
              <<EventTypeOf[ev], table[e].listens[i]>> \in Matches}

-----------------------------------------------------------------------------
Init ==
    /\ mapping = [ev \in Event |-> "none"]
    /\ endpoint \in [Endpoint ->
           {[status |-> "none", listens |-> <<>>]}
             \cup [status : {"enabled", "disabled"}, listens : Listening]]
    /\ delivery = <<>> /\ attempts = <<>> /\ jobs = <<>>
    /\ wk = [w \in Worker |-> Idle]
    /\ scope = [ev \in Event |-> [always |-> {}, ever |-> {}]]
    /\ failures = 0 /\ crashes = 0

At(w, pc) == wk[w].pc = pc

\* a statement fails (connection lost, timeout); the handler goes on regardless
Fails == failures < MaxFailures /\ failures' = failures + 1

\* pgq hands a queued job to one goroutine (row lock, SKIP LOCKED)
Claim(w, ev) ==
    /\ At(w, "idle")
    /\ mapping[ev] = "queued"
    /\ mapping' = [mapping EXCEPT ![ev] = "running"]
    /\ wk' = [wk EXCEPT ![w] = [Idle EXCEPT !.pc = "claimed", !.event = ev]]
    /\ UNCHANGED <<endpoint, delivery, attempts, jobs, scope, failures, crashes>>

\* lines 66-86: the endpoints to call; an error leaves the list empty
Select(w) ==
    /\ At(w, "claimed")
    /\ \/ /\ \E s \in InSomeOrder(RowsOf(endpoint, wk[w].event)) :
                wk' = [wk EXCEPT ![w].pc = "selected",
                                 ![w].rows = [i \in DOMAIN s |-> s[i][1]]]
          /\ UNCHANGED failures
       \/ /\ Fails
          /\ wk' = [wk EXCEPT ![w].pc = "selected"]
    /\ UNCHANGED <<mapping, endpoint, delivery, attempts, jobs, scope, crashes>>

\* slip: counted from the length after the insert of the first row
NewIdsAhead(table, n) == [i \in 1 .. n |-> Len(table) + i + 1]

\* the ids n inserted rows get; the structs of a failed insert keep id 0
NewIds(table, n) == [i \in 1 .. n |-> Len(table) + i]
NoIds(n) == [i \in 1 .. n |-> 0]

\* lines 90-107: one INSERT of all deliveries (nothing for an empty list)
CreateDeliveries(w) ==
    LET rows == wk[w].rows
    IN  /\ At(w, "selected")
        /\ \/ /\ delivery' = delivery \o
                     [i \in DOMAIN rows |-> [event |-> wk[w].event, endpoint |-> rows[i]]]
              /\ wk' = [wk EXCEPT ![w].pc = "delivering",
                                  ![w].deliveries = NewIds(delivery, Len(rows))]
              /\ UNCHANGED failures
           \/ /\ Fails
              /\ wk' = [wk EXCEPT ![w].pc = "delivering",
                                  ![w].deliveries = NoIds(Len(rows))]
              /\ UNCHANGED delivery
        /\ UNCHANGED <<mapping, endpoint, attempts, jobs, scope, crashes>>

\* lines 109-118: one INSERT of all first attempts; it fails whenever the
\* deliveries it refers to are missing
CreateAttempts(w) ==
    LET ids == wk[w].deliveries
    IN  /\ At(w, "delivering")
        /\ \/ /\ \A i \in DOMAIN ids : ids[i] # 0
              /\ attempts' = attempts \o ids
              /\ wk' = [wk EXCEPT ![w].pc = "queueing",
                                  ![w].attempts = NewIds(attempts, Len(ids))]
              /\ UNCHANGED failures
           \/ /\ \/ Fails
                 \/ UNCHANGED failures /\ \E i \in DOMAIN ids : ids[i] = 0
              /\ wk' = [wk EXCEPT ![w].pc = "queueing",
                                  ![w].attempts = NoIds(Len(ids))]
              /\ UNCHANGED attempts
        /\ UNCHANGED <<mapping, endpoint, delivery, jobs, scope, crashes>>

\* slip: the payload takes its endpoint from the first row
PayloadFirst(s, i) ==
    [attempt |-> s.attempts[i], endpoint |-> s.rows[1], event |-> s.event]

\* lines 122-126
Payload(s, i) ==
    [attempt |-> s.attempts[i], endpoint |-> s.rows[i], event |-> s.event]

\* slip: the last job of the list is forgotten
AllSentEarly(s) == s.sent + 1 >= Len(s.attempts)

AllSent(s) == s.sent = Len(s.attempts)

\* lines 120-132: one job per attempt, one after the other
Enqueue(w) ==
    /\ At(w, "queueing")
    /\ ~AllSent(wk[w])
    /\ \/ /\ jobs' = Append(jobs, Payload(wk[w], wk[w].sent + 1))
          /\ UNCHANGED failures
       \/ Fails /\ UNCHANGED jobs
    /\ wk' = [wk EXCEPT ![w].sent = @ + 1]
    /\ UNCHANGED <<mapping, endpoint, delivery, attempts, scope, crashes>>

\* slip: the handler returns an error at its end, and pgq queues the job again
FinishRetried(w) ==
    /\ At(w, "queueing")
    /\ AllSent(wk[w])
    /\ mapping' = [mapping EXCEPT ![wk[w].event] = "queued"]
    /\ wk' = [wk EXCEPT ![w] = Idle]
    /\ UNCHANGED <<endpoint, delivery, attempts, jobs, scope, failures, crashes>>

\* line 136: the handler returns nil whatever happened, pgq marks the job
Finish(w) ==
    /\ At(w, "queueing")
    /\ AllSent(wk[w])
    /\ mapping' = [mapping EXCEPT ![wk[w].event] = "done"]
    /\ wk' = [wk EXCEPT ![w] = Idle]
    /\ UNCHANGED <<endpoint, delivery, attempts, jobs, scope, failures, crashes>>

\* the process goes and the row locks on its jobs with it; what its statements
\* inserted stays
Crash(p) ==
    LET dead == {w \in Worker : ProcessOf[w] = p}
    IN  /\ crashes < MaxCrashes
        /\ wk' = [w \in Worker |-> IF w \in dead THEN Idle ELSE wk[w]]
        /\ mapping' = [ev \in Event |->
               IF \E w \in dead : wk[w].event = ev THEN "queued" ELSE mapping[ev]]
        /\ crashes' = crashes + 1
        /\ UNCHANGED <<endpoint, delivery, attempts, jobs, scope, failures>>

-----------------------------------------------------------------------------
(***************************************************************************)
(* The API server (main.go) queues the job of an event, from where on the  *)
(* listeners count, and changes the endpoints.                             *)
(***************************************************************************)
Submit(ev) ==
    LET now == Listeners(endpoint, ev)
    IN  /\ mapping[ev] = "none"
        /\ mapping' = [mapping EXCEPT ![ev] = "queued"]
        /\ scope' = [scope EXCEPT ![ev] = [always |-> now, ever |-> now]]
        /\ UNCHANGED <<endpoint, delivery, attempts, jobs, wk, failures, crashes>>

\* the history, once the endpoints are those of table
ScopeWith(table) ==
    [ev \in Event |->
        IF mapping[ev] = "none" THEN scope[ev]
        ELSE [always |-> scope[ev].always \cap Listeners(table, ev),
              ever |-> scope[ev].ever \cup Listeners(table, ev)]]

Put(e, row) ==
    LET table == [endpoint EXCEPT ![e] = row]
    IN  /\ endpoint' = table
        /\ scope' = ScopeWith(table)
        /\ UNCHANGED <<mapping, delivery, attempts, jobs, wk, failures, crashes>>

Register(e, listens) ==
    /\ endpoint[e].status = "none"
    /\ Put(e, [status |-> "enabled", listens |-> listens])

\* the request may leave out either part; an empty enabled_events is left out
Update(e, status, listens) ==
    /\ endpoint[e].status # "none"
    /\ Put(e, [status |-> status, listens |-> listens])

Handle(w) ==
    \/ Select(w) \/ CreateDeliveries(w) \/ CreateAttempts(w) \/ Enqueue(w) \/ Finish(w)

Poll(w) == \E ev \in Event : Claim(w, ev)

Next ==
    \/ \E w \in Worker : Poll(w) \/ Handle(w)
    \/ \E p \in Process : Crash(p)
    \/ \E ev \in Event : Submit(ev)
    \/ \E e \in Endpoint : \E listens \in Listening :
           \/ Register(e, listens)
           \/ \E status \in {"enabled", "disabled"} : Update(e, status, listens)

Spec == Init /\ [][Next]_vars

\* the database answers, and idle goroutines poll in a loop
FairSpec == Spec /\ \A w \in Worker : WF_vars(Handle(w)) /\ WF_vars(Poll(w))

-----------------------------------------------------------------------------
JobId == DOMAIN jobs
DeliveryRow == [event : Event, endpoint : Endpoint]
JobRow == [attempt : Nat, endpoint : Endpoint, event : Event]
EndpointRow == [status : {"none", "enabled", "disabled"}, listens : Listening \cup {<<>>}]
Goroutine ==
    [pc : {"idle", "claimed", "selected", "delivering", "queueing"},
     event : Event \cup {0}, rows : Seq(Endpoint), deliveries : Seq(Nat),
     attempts : Seq(Nat), sent : Nat]

\* Every variable keeps its type, and a goroutine never runs past its lists: the
\* lists it indexes by the same i (line 124) are equally long.
TypeOK ==
    /\ mapping \in [Event -> {"none", "queued", "running", "done"}]
    /\ endpoint \in [Endpoint -> EndpointRow]
    /\ delivery \in Seq(DeliveryRow)
    /\ attempts \in Seq(1 .. Len(delivery))
    /\ jobs \in Seq(JobRow)
    /\ wk \in [Worker -> Goroutine]
    /\ \A w \in Worker : At(w, "queueing") =>
          /\ Len(wk[w].rows) = Len(wk[w].attempts)
          /\ wk[w].sent <= Len(wk[w].attempts)
    /\ scope \in [Event -> [always : SUBSET Endpoint, ever : SUBSET Endpoint]]
    /\ failures \in 0 .. MaxFailures /\ crashes \in 0 .. MaxCrashes

JobFor(ev, e) ==
    \E j \in JobId : jobs[j].event = ev /\ jobs[j].endpoint = e /\ jobs[j].attempt # 0
CopiesOf(ev, e) ==
    {d \in DOMAIN delivery : delivery[d] = [event |-> ev, endpoint |-> e]}

\* A job of the dispatcher and the rows it leads to tell the same story: the
\* attempt it names belongs to a delivery of the event and the endpoint in its
\* payload, and no other job names it.  The payload is put together from two
\* lists by position (lines 121-126); the dispatcher relies on it.
JobsNameTheirAttempt ==
    /\ \A j \in JobId : jobs[j].attempt # 0 =>
          /\ jobs[j].attempt \in DOMAIN attempts
          /\ delivery[attempts[jobs[j].attempt]] =
                [event |-> jobs[j].event, endpoint |-> jobs[j].endpoint]
    /\ \A j, k \in JobId : jobs[j].attempt = jobs[k].attempt /\ jobs[j].attempt # 0 => j = k

\* No listener is left out: once the job of an event is done, every endpoint
\* that listened to it all the time has a job, whatever crashed in between (a
\* statement that fails is not noticed: there no such promise holds).
NoneLeftOut ==
    \A ev \in Event : failures = 0 /\ mapping[ev] = "done" =>
        \A e \in scope[ev].always : JobFor(ev, e)

\* No endpoint gets an event it did not listen to, enabled, at some moment since
\* the event was submitted; the answer of the query may be out of date.
NoStranger == \A j \in JobId : jobs[j].endpoint \in scope[jobs[j].event].ever

\* No list of subscriptions has two elements that select the same event: up to
\* the clients, for the query gives a row for each of them.
NoDoubleMatch ==
    \A listens \in Listening : \A ev \in Event : \A i, k \in DOMAIN listens :
        /\ <<EventTypeOf[ev], listens[i]>> \in Matches
        /\ <<EventTypeOf[ev], listens[k]>> \in Matches
        => i = k

\* An event has one delivery per endpoint and run of its job: only a crash
\* (which makes the job run again) adds a second one.
OneDeliveryPerRun ==
    \A ev \in Event : \A e \in Endpoint : Cardinality(CopiesOf(ev, e)) <= 1 + crashes

\* Nothing is half done without a crash or a failure: when the job of an event
\* has ended, all its deliveries have been handed to the dispatcher.
HandedOver ==
    \A ev \in Event : crashes + failures = 0 /\ mapping[ev] = "done" =>
        \A d \in DOMAIN delivery : delivery[d].event = ev =>
            \E j \in JobId : jobs[j].attempt # 0 /\ attempts[jobs[j].attempt] = d

\* An event reaches the endpoints that listened at its submission and keep to it.
Reached ==
    \A ev \in Event : \A e \in Endpoint :
        e \in scope[ev].always ~> e \notin scope[ev].always \/ JobFor(ev, e) \/ failures > 0
=============================================================================
