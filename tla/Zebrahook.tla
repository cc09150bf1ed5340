------------------------------- MODULE Zebrahook -------------------------------
(***************************************************************************)
(* The way of an event through the whole of zebrahook: the API server      *)
(* queues it (main.go), the mapping workers of EventMapping make its       *)
(* deliveries, the dispatcher workers of Dispatcher send them.  The three  *)
(* talk through the job table of pgq and the endpoints table only, and     *)
(* each of their processes may die at any point.                           *)
(*                                                                         *)
(* The two workers keep the actions of their own modules.  A row of        *)
(* event_deliveries or event_delivery_attempts is of no concern to a       *)
(* dispatcher before a job leads to it, so the tables of Dispatcher take   *)
(* it over with the job (HandOver); the ids stand for one another.  Unlike *)
(* in the modules alone, pgq gives out the oldest runnable job.            *)
(***************************************************************************)
EXTENDS Integers, Sequences, FiniteSets

CONSTANTS
    Endpoint,
    PriorityOf,      \* the priority of each event of the request
    EndpointOf,      \* bound: deliveries there may be, and their endpoints
    Subscription, Listening, EventTypeOf, Matches,         \* see EventMapping
    Mapper, MapperProcess, MapperProcessOf,
    Worker, Process, ProcessOf, MaxAttempts, UintMax,      \* see Dispatcher
    Failure, Horizon,
    MaxCrashes       \* bound: crashes of a process

\* the events of the request, in its order
Event == 1 .. Len(PriorityOf)

\* what the two workers assume, and that a delivery is tried at all
ASSUME ConstantsAssumption ==
    /\ PriorityOf \in Seq(Int) /\ Len(EventTypeOf) = Len(PriorityOf)
    /\ IsFiniteSet(Endpoint) /\ EndpointOf \in Seq(Endpoint)
    /\ Listening \subseteq Seq(Subscription) \ {<<>>}
    /\ MapperProcessOf \in [Mapper -> MapperProcess]
    /\ ProcessOf \in [Worker -> Process]
    /\ MaxAttempts \in Nat \ {0} /\ UintMax \in Nat /\ MaxAttempts <= UintMax
    /\ Failure \subseteq {"error_response", "error_timeout", "error_network"}
    /\ Horizon \in Nat /\ MaxCrashes \in Nat

VARIABLES
    server,     \* the handler of the request: "sending", "told" or "died"
    left,       \* the events it has not queued yet, in order
    queued,     \* the event_mapping jobs, oldest first
    endpoint, status, \* the table endpoints; its column status
    mapping, mdelivery, mattempts, handed, mwk, scope, failures, \* EventMapping's
    delivery, attempts, jobs, wk, posts,                    \* Dispatcher's
    eventOf,    \* event_deliveries.event_id, 0 before there is such a row
    sentFirst,  \* history: the events in the order of their first POST
    crashes

Mapping == INSTANCE EventMapping WITH
    Worker <- Mapper, Process <- MapperProcess, ProcessOf <- MapperProcessOf,
    MaxFailures <- 0, delivery <- mdelivery, attempts <- mattempts,
    jobs <- handed, wk <- mwk

Calls == INSTANCE Dispatcher WITH
    Fault <- {}, PanicOutcome <- {"recovered"}, DelayOutlivesTx <- TRUE,
    endpoint <- status

serverVars == <<server, left>>
mappingVars == <<mapping, mdelivery, mattempts, handed, mwk, failures>>
callVars == <<delivery, attempts, jobs, wk, posts>>
linkVars == <<eventOf, sentFirst>>
vars == <<serverVars, queued, endpoint, status, mappingVars, scope, callVars,
          linkVars, crashes>>

-----------------------------------------------------------------------------
\* main.go, lines 133-136
Ahead(a, b) == PriorityOf[a] > PriorityOf[b]

\* SliceStable: the events that compare equal stay in the order of the request
Sorted(s) ==
    \A i, k \in Event : i < k =>
        Ahead(s[i], s[k]) \/ (~Ahead(s[k], s[i]) /\ s[i] < s[k])

Init ==
    /\ server = "sending" /\ queued = <<>>
    /\ left \in [Event -> Event] /\ Sorted(left)
    /\ \E listens \in [Endpoint -> Listening] : \E on \in SUBSET Endpoint :
          /\ status = [e \in Endpoint |-> IF e \in on THEN "enabled" ELSE "disabled"]
          /\ endpoint = [e \in Endpoint |-> [status |-> status[e], listens |-> listens[e]]]
    /\ mapping = [ev \in Event |-> "none"]
    /\ mdelivery = <<>> /\ mattempts = <<>> /\ handed = <<>>
    /\ mwk = [m \in Mapper |-> Mapping!Idle]
    /\ scope = [ev \in Event |-> [always |-> {}, ever |-> {}]]
    /\ failures = 0
    /\ delivery = [d \in Calls!Delivery |-> [counter |-> 0, remaining |-> MaxAttempts]]
    /\ attempts = <<>> /\ jobs = <<>>
    /\ wk = [w \in Worker |-> Calls!Idle]
    /\ posts = [d \in Calls!Delivery |-> 0]
    /\ eventOf = [d \in Calls!Delivery |-> 0] /\ sentFirst = <<>>
    /\ crashes = 0

-----------------------------------------------------------------------------
(***************************************************************************)
(* The server (main.go, SubmitNewEvents): one job per event; the client is *)
(* told when all are queued.                                               *)
(***************************************************************************)
EnqueueEvent ==
    /\ server = "sending" /\ left # <<>>
    /\ Mapping!Submit(Head(left))
    /\ left' = Tail(left)
    /\ queued' = Append(queued, Head(left))
    /\ UNCHANGED <<server, status, callVars, linkVars>>

Tell ==
    /\ server = "sending" /\ left = <<>>
    /\ server' = "told"
    /\ UNCHANGED <<left, queued, endpoint, status, mappingVars, scope, callVars,
                   linkVars, crashes>>

ServerDies ==
    /\ server = "sending" /\ crashes < MaxCrashes
    /\ server' = "died"
    /\ crashes' = crashes + 1
    /\ UNCHANGED <<left, queued, endpoint, status, mappingVars, scope, callVars, linkVars>>

\* the owner of an endpoint switches it on or off (UpdateWebhookEndpointByID):
\* the one row both workers look at
Table(s) == [e \in Endpoint |-> [endpoint[e] EXCEPT !.status = s[e]]]
StatusChanges ==
    /\ endpoint' = Table(status')
    /\ scope' = Mapping!ScopeWith(Table(status'))

UpdateEndpoint(e, s) ==
    /\ Calls!UpdateEndpoint(e, s)
    /\ StatusChanges
    /\ UNCHANGED <<serverVars, queued, mappingVars, linkVars>>

-----------------------------------------------------------------------------
(***************************************************************************)
(* The mapping workers.                                                    *)
(***************************************************************************)
\* the oldest of the runnable jobs: run_after is the time they were queued, and
\* a job that goes back to the queue keeps it
OldestEvent(ev) ==
    \A i, k \in DOMAIN queued :
        queued[k] = ev /\ i < k => mapping[queued[i]] # "queued"

MapperPolls(m) ==
    /\ \E ev \in Event : OldestEvent(ev) /\ Mapping!Claim(m, ev)
    /\ UNCHANGED <<serverVars, queued, status, callVars, linkVars>>

MapperSteps(m) ==
    /\ \/ Mapping!Select(m) \/ Mapping!CreateDeliveries(m)
       \/ Mapping!CreateAttempts(m) \/ Mapping!Finish(m)
    /\ UNCHANGED <<serverVars, queued, status, callVars, linkVars>>

\* worker/eventMapping/main.go, lines 120-132: no AttemptCounter in the payload
FirstJob(a, d) == [attempt |-> a, target |-> d, counter |-> 0, state |-> "queued"]

\* the delivery a job for endpoint e gets, if the bound leaves one
Free(d, e) == eventOf[d] = 0 /\ EndpointOf[d] = e
NextFree(d, e) == Free(d, e) /\ \A k \in Calls!Delivery : Free(k, e) => d <= k

\* the job of a delivery becomes the dispatcher's, and the rows with it
HandOver(m) ==
    LET job == Mapping!Payload(mwk[m], mwk[m].sent + 1)
    IN  /\ Mapping!Enqueue(m)
        /\ \E d \in Calls!Delivery :
              /\ NextFree(d, job.endpoint)
              /\ eventOf' = [eventOf EXCEPT ![d] = job.event]
              /\ attempts' = Append(attempts, [delivery |-> d, status |-> "pending",
                                               row |-> "committed"])
              /\ jobs' = Append(jobs, FirstJob(Len(attempts) + 1, d))
        /\ UNCHANGED <<serverVars, queued, status, delivery, wk, posts, sentFirst>>

MapperCrash(p) ==
    /\ Mapping!Crash(p)
    /\ UNCHANGED <<serverVars, queued, status, callVars, linkVars>>

-----------------------------------------------------------------------------
(***************************************************************************)
(* The dispatcher workers.                                                 *)
(***************************************************************************)
\* first jobs run in the order they were queued; when the backoff of a later
\* one elapses among them is left open
OldestJob(j) ==
    jobs[j].counter = 0 =>
        \A i \in DOMAIN jobs : i < j => ~(jobs[i].counter = 0 /\ jobs[i].state = "queued")

WorkerPolls(w) ==
    /\ \E j \in DOMAIN jobs : OldestJob(j) /\ Calls!Claim(w, j)
    /\ UNCHANGED <<serverVars, queued, endpoint, mappingVars, scope, linkVars>>

WorkerSteps(w) ==
    /\ \/ Calls!LoadAttempt(w) \/ Calls!PanicRecovered(w) \/ Calls!ReadDelivery(w)
       \/ Calls!Reschedule(w) \/ Calls!Finish(w)
    /\ UNCHANGED <<serverVars, queued, endpoint, mappingVars, scope, linkVars>>

WorkerPosts(w) ==
    /\ Calls!CallEndpoint(w)
    /\ LET ev == eventOf[Calls!JobOf(w).target]
       IN  sentFirst' = IF \E i \in DOMAIN sentFirst : sentFirst[i] = ev THEN sentFirst
                        ELSE Append(sentFirst, ev)
    /\ UNCHANGED <<serverVars, queued, endpoint, mappingVars, scope, eventOf>>

WorkerCommits(w) ==
    /\ Calls!Commit(w)
    /\ StatusChanges
    /\ UNCHANGED <<serverVars, queued, mappingVars, linkVars>>

BackoffElapses ==
    /\ Calls!Time
    /\ UNCHANGED <<serverVars, queued, endpoint, mappingVars, scope, linkVars>>

WorkerCrash(p) ==
    /\ Calls!Crash(p)
    /\ UNCHANGED <<serverVars, queued, endpoint, mappingVars, scope, linkVars>>

-----------------------------------------------------------------------------
MapperRuns(m) == MapperPolls(m) \/ MapperSteps(m) \/ HandOver(m)
WorkerRuns(w) == WorkerPolls(w) \/ WorkerSteps(w) \/ WorkerPosts(w) \/ WorkerCommits(w)

Next ==
    \/ EnqueueEvent \/ Tell \/ ServerDies
    \/ \E e \in Endpoint : \E s \in {"enabled", "disabled"} : UpdateEndpoint(e, s)
    \/ \E m \in Mapper : MapperRuns(m)
    \/ \E p \in MapperProcess : MapperCrash(p)
    \/ \E w \in Worker : WorkerRuns(w)
    \/ BackoffElapses
    \/ \E p \in Process : WorkerCrash(p)

Spec == Init /\ [][Next]_vars

(***************************************************************************)
(* Handlers end, idle goroutines poll in a loop, time passes: while there  *)
(* is work, some of it gets done.  That much is enough here, and less than *)
(* the code gives; nothing is asked of the server or of the endpoints.     *)
(***************************************************************************)
Work ==
    \/ \E m \in Mapper : MapperRuns(m)
    \/ \E w \in Worker : WorkerRuns(w)
    \/ BackoffElapses

FairSpec == Spec /\ WF_vars(Work)

-----------------------------------------------------------------------------
\* Every variable keeps its type, and what two components each hold of the same
\* row agrees: the column status with the table, every handed job with the row
\* of its delivery and with the attempt the mapping worker inserted for it.
TypeOK ==
    /\ server \in {"sending", "told", "died"}
    /\ left \in Seq(Event) /\ queued \in Seq(Event)
    /\ {queued[i] : i \in DOMAIN queued} = {ev \in Event : mapping[ev] # "none"}
    /\ mapping \in [Event -> {"none", "queued", "running", "done"}]
    /\ endpoint \in [Endpoint -> Mapping!EndpointRow]
    /\ status = [e \in Endpoint |-> endpoint[e].status]
    /\ mwk \in [Mapper -> Mapping!Goroutine]
    /\ Calls!TypeOK
    /\ \A i \in DOMAIN handed : \E d \in Calls!Delivery :
          /\ handed[i].attempt \in DOMAIN mattempts
          /\ mdelivery[mattempts[handed[i].attempt]] =
                [event |-> eventOf[d], endpoint |-> EndpointOf[d]]
    /\ Cardinality({d \in Calls!Delivery : eventOf[d] # 0}) = Len(handed)
    /\ sentFirst \in Seq(Event)

(***************************************************************************)
(* What became of an event for an endpoint, over all its copies.           *)
(***************************************************************************)
Succeeded(d) ==
    \E a \in DOMAIN attempts : attempts[a].delivery = d /\ attempts[a].status = "success"
Letter(ev, e) ==
    LET copies == {d \in Calls!Delivery : eventOf[d] = ev /\ EndpointOf[d] = e}
    IN  CASE copies = {} -> "none"
          [] \E d \in copies : Succeeded(d) -> "delivered"
          [] OTHER -> IF \E d \in copies : delivery[d].remaining > 0 THEN "owed" ELSE "abandoned"

\* The whole keeps the promise of the outbox: no endpoint is sent an event that
\* did not listen to it since it was submitted, nothing counts as delivered that
\* was not sent, a delivered event stays delivered, and the step that gives an
\* event up takes its endpoint off, whatever crashes in between.
Promise == INSTANCE Outbox WITH
    submitted <- {ev \in Event : mapping[ev] # "none"},
    listening <- [ev \in Event |-> Mapping!Listeners(endpoint, ev)],
    heard <- [ev \in Event |-> scope[ev].ever],
    letter <- [ev \in Event |-> [e \in Endpoint |-> Letter(ev, e)]],
    sent <- {p \in Event \X Endpoint : \E d \in Calls!Delivery :
                 eventOf[d] = p[1] /\ EndpointOf[d] = p[2] /\ posts[d] > 0}

\* Zebrahook implements Outbox under the mapping above.
OutboxSpec == Promise!Spec

\* something still has to be done for the event: it is owed to the endpoint; or it
\* was queued, also by a server that died before it answered, the endpoint keeps
\* listening and no delivery exists yet; or it was accepted and not even queued
Due(ev, e) ==
    \/ Letter(ev, e) = "owed"
    \/ Letter(ev, e) = "none" /\ mapping[ev] # "none" /\ e \in scope[ev].always
    \/ server = "told" /\ mapping[ev] = "none"

\* An event that was queued is delivered or given up at every endpoint that keeps
\* listening, one whose submission succeeded was queued, and whatever is owed is
\* settled even when the endpoint is switched off (the dispatcher does not look at
\* its status): the system comes to a point where nothing is due, whatever crashed.
Arrives == <>[](\A ev \in Event : \A e \in Endpoint : ~Due(ev, e))

\* An event with a higher number goes out before the others of its request
\* (design/design.go:43).
PostedInOrder ==
    \A i, k \in DOMAIN sentFirst :
        i < k => PriorityOf[sentFirst[i]] >= PriorityOf[sentFirst[k]]
================================================================================
