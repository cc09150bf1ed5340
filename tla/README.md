# Verification of zebrahook

zebrahook delivers webhooks. Clients submit events through a REST API; event
mapping workers turn each event into deliveries for the endpoints that listen to
it; dispatcher workers POST them, retry with an exponential backoff, and disable
an endpoint whose delivery runs out of attempts. The parts share nothing but a
PostgreSQL database: five tables and the job table of the library pgq. Nearly
every statement is a transaction of its own and nearly every error is ignored,
so what makes the system correct is how the rows, the jobs and the goroutines
that work on them fit together, and that is what the modules here model.

Line numbers below are those of the repository.

## Inventory

| Part | State | Operations | Interacts with | What is hard |
|---|---|---|---|---|
| Dispatcher worker, `worker/dispatcher/main.go` | `event_deliveries`, `event_delivery_attempts`, endpoint status, job `webhook_delivery`; locals of the handler | `CallWebhookEndpointJob` | the endpoint (HTTP), pgq (own queue), API server (endpoint status) | crash between POST, enqueue and commit; an enqueue that escapes its transaction; errors ignored; reads long before the writes; unsigned arithmetic; jobs that run again |
| Event mapping worker, `worker/eventMapping/main.go` | the same tables, job `event_mapping` | `EventToEndpointsMappingJob`, `buildEventSearchRegex` | API server (endpoints, events), dispatcher (jobs) | no transaction around its inserts; lists joined by position; endpoints that change meanwhile; a pattern made of data |
| REST service, `main.go` | endpoints, events, API keys | `Register`, `Update`, `ListWebhookEndpoint`, `GetWebhookEndpointByID`, `SubmitNewEvents`, `CreateAPIKey`, `JWTAuth` | enqueues `event_mapping` | concurrent calls; partial failure hidden from the client; order of priority; a key that changes |
| HTTP layer, `gen/http/.../server`, `gen/zebrahook` | none kept | route, decode, validate, authorise, call, encode | REST service | the order of refusals; nil among what was validated |
| Client and command line, `gen/http/.../client`, `gen/http/cli` | none kept | build a payload, encode, decode the reply | HTTP layer | checks generated twice that must agree |
| Worker pool, `utils/worker.go` | goroutines, `StopChan`, the interrupt channel | `RunWorker` | pgq | one stop message for many goroutines; goroutines that end with an error |
| Server lifecycle, `cmd/zebrahook` | `errc`, context, wait group, requests in flight | start, signal, shutdown | REST service | two senders on a channel nobody reads twice; shutdown with a timeout |
| Request log, `cmd/zebrahook/http.go` | one logger shared by all requests | `customZeroLog` | every request | a data race by construction |
| Configuration and command line of the program, `utils/config.go`, `cmd/zebrahook/main.go` | viper, flags | `LoadConfig`, `GetWorkerConfig`, the choice of a mode | everything | values the sanity checks let through (`maxAttempts` 0) |
| Database setup, `cmd/zebrahook/main.go` | the tables | `--setup` | | an interrupted setup, an ignored error |
| Hash, encryption, random strings, logging | none | | | nothing that a model of control shows |

What makes the parts correct:

* Dispatcher: the two counters of a delivery and its attempts agree, whatever
  dies in between; no attempt is recorded twice, doubled or lost; an endpoint
  sees no more than `maxAttempts` POSTs of an event and none once it is settled;
  every delivery settles.
* Event mapping: every listener is reached, nobody else is, an endpoint has one
  delivery per event, and the jobs left for the dispatcher name the right rows.
* REST service: what the client was told is what happened; whoever is refused
  has changed nothing; no update of what `Update` reads is lost, and none touches
  what it did not name.
* Client and server: they read each other, in both directions.
* Pool and server: an interrupt ends the process, and cuts no work short that
  it could have waited for.
* The whole: an accepted event is delivered or given up at every listener.

## Modules

    DeliveryLedger          abstract: the account of a delivery
          ^ implemented by
    Dispatcher  <---- DispatcherInv <---- DispatcherProofs <---- DispatcherLedgerProofs
        |                   ^------------ MCDispatcher (4 runs)
        |
        |   Outbox          abstract: what becomes of an event
        |     ^ implemented by
        +-> Zebrahook <------------------ MCZebrahook (2 runs)
        |     ^  (submission, both workers, their queues and tables)
        |     +-------------------------- ZebrahookProofs, which instantiates
        |                                 EventMappingProofs and DispatcherLedgerProofs
        |
    EventMapping <----------------------- MCEventMapping (2 runs)
        ^ ^-------------------------------- EventMappingProofs
        | what a subscription selects
    EventMatch  <---- EventMatchProofs
          ^------------------------------ MCEventMatch (2 runs)

    Wire                    what travels between client and server
      ^ extended by
    Front <------------------------------ MCFront (1 run)
          ^------------------------------ FrontProofs

    RequestLog --> ServerLifecycle --+
    WorkerPool ----------------------+--> Program <--- MCProgram (1 run)
                                             ^------ ProgramProofs

    TableLemmas             rows appended to a table, one row changed; cited by
                            the proofs of the dispatcher and of the mapping

### Dispatcher

`delivery`, `attempts`, `endpoint` are the tables; `jobs` is pgq's table for the
queue `webhook_delivery` (`waiting` until `run_after` has passed, `queued`,
`running` while a goroutine holds its row lock, `done`); `wk[w]` is what a
goroutine holds: the job, the ids and the numbers it has read, and its
transaction. A step is what the database lets others observe:

| Action | Code |
|---|---|
| `Claim`, `Finish` | pgq takes the job; the handler returns nil (263) whatever happened |
| `LoadAttempt`, `PanicRecovered`, `PanicFatal` | 59-64: the attempt is read, the guard on `AttemptMadeAt` |
| `LoadFails` | 60 fails: a zero struct, for which the guard passes |
| `CallEndpoint` | 103-161: the POST and its outcome |
| `ReadDelivery` | 165-170: the transaction reads the delivery, updates the attempt, or is aborted by a body that cannot be stored |
| `ReadFails` | 167 fails: a zero struct, and an aborted transaction |
| `Reschedule` | 181-246 with attempts left: next attempt inside the transaction, its job outside |
| `Commit` | 200-206, 249-259: charge the delivery, perhaps disable the endpoint, COMMIT or, when aborted, ROLLBACK |
| `Crash` | a process dies at any point: transactions roll back, jobs are released, enqueued jobs stay |
| `BackoffElapses` | `pgq.After` |
| `UpdateEndpoint` | the API changes the status (`main.go:352-389`) |

Three ways of the code shape the model. Find by an id without a row is no error
and leaves a zero struct, so an id of 0 travels on (`DeliveryOf`, `RemainingOf`,
`RowOf`). `EnqueueJob` uses another connection, so a rollback leaves the job. And
`AttemptsRemaining` is unsigned (`UintMinusOne`, width `UintMax`).

`Fault` is what may fail, any number of times: `body` is the first update of the
transaction (a response body with a byte that Postgres refuses), `enqueue` the
`EnqueueJob` of a retry, `load` the Find of the attempt (60), `read` that of the
delivery (167). Not modelled are a failing read of the event or of the endpoint,
which change what is sent, the later updates of the transaction, and a BEGIN or
COMMIT that fails.

What a panic in a handler does is a parameter (`PanicOutcome`), since pgq is not
part of the repository: it may be recovered, which ends the job, or end the
process, which releases it.

`DeliveryLedger` is the promise: an account charged one attempt at a time, every
charge backed by a POST, and the endpoint disabled in the very step that uses up
the last attempt. POSTs may exceed the charges: delivery is at least once.

### EventMatch

The pattern `buildEventSearchRegex` builds and the query that searches for it in
the subscriptions (`enabled_event ~ pattern OR enabled_event = '*'`). Texts are
sequences of characters, because what is matched is the point. A search is not
anchored and a dot is any character (`Occurs`); the `.*` at the end of an
alternative matches the empty string and so asks for nothing. The event type goes
into the pattern unescaped, so it stands for itself only if it holds none of the
operators of the pattern language, ( ) [ ] { } + ? * ^ $ | \ (`Literal`). What an
event type with one finds is the constant `Answer`, any relation: `a+b` finds `ab`
and not `a+b`, and an unbalanced parenthesis makes Postgres refuse the query, whose
error is ignored, so the event reaches nobody, not even a subscription to `*`. The
properties are about literal event types; the subscriptions, which are searched
and not interpreted, may be any text. `Wants` is what the documentation says a
subscription means.

### EventMapping

`mapping` is the job of each event, `wk[w]` the lists of the handler: the rows
selected, the ids of the deliveries and of the attempts. `Select`,
`CreateDeliveries`, `CreateAttempts`, `Enqueue` (one job at a time) and `Finish`
are the statements of `EventToEndpointsMappingJob`; each may fail, up to
`MaxFailures` in all, and then the lists are empty or the ids 0, as gorm leaves
them.
`Submit`, `Register` and `Update` are the API's: an event has no job (`none`)
until `Submit` queues it. `scope` is a history variable: which endpoints have
listened to an event all the time since then, and which at some time
(`ScopeWith`). What a subscription selects is the constant `Matches`;
`MCEventMapping` takes it from `EventMatch`.

### Zebrahook and Outbox

The way of one request's events through the whole. `Zebrahook` instantiates
`EventMapping` and `Dispatcher` and keeps their actions: each of its actions is
one of theirs, with what the shared state adds to it. `StatusChanges` writes the
one row that both workers look at, when the dispatcher disables an endpoint or
the API updates it; `HandOver` is the enqueue of the mapping worker, with which a
delivery and its first attempt come to the dispatcher's notice: the next of the
deliveries set aside for its endpoint (`NextFree`), whose number bounds how often
an instance hands over. `queued` and `OldestJob` are the order pgq gives jobs out
in. `Sorted` is the stable sort of `SubmitNewEvents`, and the server may die before
it has queued everything.

The parts are taken without the faults their own runs meet: no statement fails, a
body can always be stored, panics are recovered and backoffs outlive transactions.
What is left is crashes, of the server and of both workers, and every interleaving.
The theorems about `Zebrahook` hold under the same.

`Outbox` is the promise, without workers, jobs or rows: a submitted event owes a
letter to endpoints that listened to it at some moment since (who listens is told
per event, since subscriptions differ), and to nobody else;
a letter is delivered after it was sent, or abandoned, in the step that switches
its endpoint off. The refinement mapping takes the copies of a delivery together,
since a mapping job that runs twice makes two (`Letter`): delivered when one of
them was. It lets an abandoned letter be taken up again, which the second copy
does, and never a delivered one.

### Wire and Front

`Wire` holds the two generated halves that meet on the network, as operators over
payloads, requests and replies: what the command line makes of a typed body
(`Build...Payload`), the request made of it (`Encode...Request`), the route, the
checks and the payload on the server's side (`Route`, `Validate...`,
`Decode...Request`), the reply and what the client's decoder takes of it. A
missing field is `Nil`; the difference between a missing list and an empty one
matters (`omitempty`). The request body is read before the header, both before
the validation reports, and all of it before the key is looked at, so each
handler has the same two refusals: `Decode` and `Authorise`. `PanicsIn` are the
two requests whose decoding panics: a null among the events, and a filter
`metadata[` without its end. A filter of a listing is sent under its bare key and
read under the names the server looks for: `Filters` and `Bound` say what becomes
of a key that is such a name (`metadata[team]`, `createdAt.gte`); the constants
`Bracketed` and `Numeral` are the texts of the instance and what they hold. A path
that is there under another verb is answered by 405, any other by 404 (`Unrouted`).

`Front` is the service behind it. `call[c]` is what a handler holds; a step is a
statement of the database.

| Action | Code |
|---|---|
| `TypeCommand`, `SendRaw` | a client: the generated one, or any other |
| `Decode`, `Authorise` | `server.go`, `endpoints.go`, `JWTAuth`, `findApiKey` |
| `InsertEvents`, `EnqueueEvent`, `SubmitReply` | `SubmitNewEvents`, 113-165 |
| `Register`, `RegisterReply` | 302-350 |
| `Update`, `UpdateReply` | 352-389 |
| `List`, `Get` | 167-225, 227-267 |
| `CreateAPIKey` | 90-111 |
| `Crash` | the server dies; the next one may have another encryption key |

A secret is its text and the key it was sealed under; which events a row holds is
told by the call and the position it came from (`content`). `endpoint` is a
sequence, because a listing has no ORDER BY and an updated row may move. Rows have
no dates, so a bound on them may choose any of the rows. A listing
is the places of the rows its filters choose, in the order of the scan (`InOrder`),
cut to a page; gorm takes a limit or an offset that is not positive for none.
`Order`
is what `sort.SliceStable` makes of a batch: the permutation of its positions
sorted by priority, equal ones left in place; the proofs show that there is one.

### Program, WorkerPool, ServerLifecycle, RequestLog

`Program` is the process: the configuration, the mode its flags choose, and
then one of setup, worker or server. `StaysUp` is what a server checks before
it listens: the flag for a new key, the host, the port and the domain. `main`
is where the main goroutine is, and `process` how the whole has ended, both
shared by the parts it instantiates.

* `WorkerPool`: `run[g]` is what a goroutine does in pgq's `Run`; `Stop` is the
  rendezvous on `StopChan`, possible only between two jobs; `Leave` ends the
  process whatever the other goroutines do, which `aborted` counts.
* `ServerLifecycle`: main, the signal goroutine, the listener and the shutdown
  goroutine each have a variable. `Receive` is main's one receive from `errc`,
  from either of its senders. `Exit` cuts off what is still in flight.
* `RequestLog`: the three accesses of a request to the shared logger. The store
  of a struct takes two steps, and a read in between may see the old fields, the
  new ones, or words of both (`Torn`).

## Runs

Dispatcher, all in `MCDispatcher`:

| Run | Instance | Shows |
|---|---|---|
| recovery | 1 delivery, 2 processes, 3 attempts, 2 kinds of failures, 1 crash, fairness | no attempt lost, and none with an outcome written again; `attempts_counter`, the attempts table and the exponent in the job payload agree; the delivery settles; the invariant behind `NoLostAttempt`; as long as nothing crashed, `maxAttempts` bounds the POSTs and nothing is sent once a delivery is settled |
| faults | 1 delivery, 2 processes, 3 attempts, 1 crash, fatal or recovered panics, all four faults, short backoffs | the account balances, one open attempt, every step is one of the ledger or a stutter; the inductive invariant |
| disabled_still_called | violated | a queued delivery is sent although its endpoint is disabled |
| unstorable_body | violated | a body Postgres refuses makes POSTs without bound or count |

A body Postgres refuses has a second face that has no run of its own: on the last
attempt it leaves that attempt pending with no job to make it, since the handler
returns nil after the rollback, so `NoLostAttempt` needs `Fault = {}`. And with a
backoff shorter than its transaction the next job may read no attempt, then
update it once it is committed without charging a delivery:
`CounterCountsAttempts` needs `DelayOutlivesTx`. A read that fails breaks the same
two, and the bound on the POSTs besides; and where that of an attempt fails when its
job runs again after the commit, the guard passes on a zero struct and the attempt is
sent and written a second time, so `WriteOnce` is checked and proved for reads of
attempts that work.

Event mapping:

| Run | Instance | Shows |
|---|---|---|
| match | 50 event types of up to 4 characters and two with an operator, 168 subscriptions | no subscription misses a literal event type it asks for; the first segment alone decides |
| over_match | violated | `a.a` reaches a subscription to `a.b` |
| mapping | 2 events, 2 endpoints, 2 processes, 1 failing statement | jobs, attempts and deliveries tell the same story; no stranger is reached; nothing half done |
| mapping_recovery | 1 event, subscriptions that change, 1 failing statement, 1 crash, fairness | every listener is reached, and in the end; one delivery per run of the job; each job names its own attempt |

The whole, the service and the process:

| Run | Instance | Shows |
|---|---|---|
| zebrahook | 1 event, 1 endpoint whose subscription may or may not select it, room for a second copy, a mapping worker, 2 goroutines of a dispatcher, 2 attempts, 1 crash, fairness | the rows that two components share agree; the whole implements `Outbox`; nothing that was queued stays due, even if the server died before its answer |
| priority_overtaken | 2 events of a request; violated | the more important event is sent second |
| service | 2 concurrent calls out of 32 commands and 10 requests by hand, 1 failing statement, 1 crash | refused calls leave nothing behind; an accepted batch is all there, in order; updates keep what they do not name, and are kept but for the url; secrets are those handed out; client and server read each other, with the exceptions `SameChecks` names |
| program | all command lines, addresses that each check refuses, 6 config files, 1 or 2 goroutines, 2 requests, 2 signals, fairness | one goroutine comes to the end of its job; worker and server stop; only the 30 seconds cut a request off; a lone request is logged under its own id |

Deadlock is not checked in the runs of Dispatcher, EventMapping, Front and
Program, because there the work may run out or the process end. In run zebrahook
it is checked: the owner of an endpoint can always switch it.

### Bounds

* `Horizon`: a job whose counter is above it is not waited for. In the passing
  runs it is `MaxAttempts + 1`, so every chain of retries that the counters allow
  runs to its end, and one attempt too many would be made if the code scheduled
  it; only the chains of stray jobs (attempt 0), which never end, are cut.
* `MaxCrashes`: one, which suffices for every pair of steps to be separated, and
  for a job to run again on top of what its first run left; in faults a fatal
  panic ends processes besides, without a bound.
* `MaxFailures`: one failing statement; after it the handler goes on with ids 0,
  so a second failure finds nothing left to spoil in that run of the job.
* `posts` saturates at `MaxAttempts + 1`, which stands for "more than
  `MaxAttempts`"; the bound on it can still be seen to fail.
* Event numbers: run zebrahook has one event and two slots for its deliveries, so
  that a mapping job cut off after its enqueue can run again and make a second
  copy while the first one is being sent; its dispatcher has two goroutines, one
  for each. `Horizon` 3 is `MaxAttempts + 1` there too. Two events of one request
  are in priority_overtaken.
* `Call`: two calls see every interleaving of two handlers, one of them possibly
  a raw request; the endpoint registered before the run gives them something to
  meet at. One statement fails (a second one would hit a call that has already
  gone wrong, or the other one, as the first does), and the server dies once.
* `MaxSignals`, `MaxInterrupts`: two, the second of which meets a channel that is
  full or a process on its way out. Two requests suffice to share the logger; a
  third adds no kind of value to it but more ids.
* Two goroutines are enough for two of them to want the same job or the same
  delivery; a delivery has one open attempt (a theorem), so a third one has
  nothing to add to it. The invariants proved hold for any number.
* `UintMax` is 7 instead of 2^64-1: larger than any count in the runs, so
  wrapping happens exactly when 1 is subtracted from 0.

### Fairness

`FairSpec` asks for weak fairness of each goroutine's handler and of its polling,
and that time passes. A handler always ends: the HTTP client has a timeout
(`webhookRequest.timeoutSecs`) and the database answers. A goroutine polls in a
loop (`RunWorker`), and a process that died is started again by its supervisor,
which is the deployment's part. pgq takes the oldest runnable job, so with one
delivery or event the fairness of polling is that of the job. Crashes, faults and
API calls are never fair. Run recovery assumes recovered panics: where a panic
ends the process, the same job is claimed and panics again after every restart.

`Zebrahook!FairSpec` asks for less: weak fairness of all the workers' steps taken
together (`Work`). With one event no goroutine can be busy for ever on its own:
jobs end, retries are bounded by the counters, stray jobs by `Horizon`; so while
something is due some step of a worker is enabled, and only finitely many of them
can be taken before nothing is due. The API server, crashes and the owners of
endpoints owe nothing.

`Program` asks for weak fairness of each goroutine of a server and of a worker,
and of the timer of the shutdown, but not of the handlers of requests: a request
may hang for ever. `Stop` has strong fairness: goroutines come by the receive of
`StopChan` again and again without staying there, and a Go channel serves a
sender that waits.

## Theorems

In `DispatcherProofs`, for any number of endpoints, deliveries, goroutines,
processes and crashes, any `maxAttempts` above 0, and, where nothing else is said,
any of the faults, short backoffs and fatal panics:

* `Invariance`: `Spec => []IInv`;
* `TypeCorrectness`, `AccountsBalance`, `NeverTwoOpenAttempts`: the conjuncts of
  `IInv` that a reader wants;
* `AttemptsAreWriteOnce`: an attempt with an outcome never changes, if no read of an
  attempt fails;
* `NoAttemptLost`, from `AttemptsAreKept`: with no fault, and a backoff that
  outlives its transaction, a pending attempt always has an
  unfinished job.

The argument. That a delivery is charged correctly depends on a number the
transaction read (`remaining`) being current at the commit, although nothing locks
the row. It is current because a delivery has one pending attempt, an attempt one
job, and a job one goroutine: `OneOpenAttempt`, `JobsName`, `JobsHeld`.
`ReadsHold` says that what a goroutine has read still holds, `OpenRows` that
uncommitted attempts belong to one transaction each, and `PendingIsOwed` that a
pending attempt means a delivery with attempts left, which is why the subtraction
does not wrap. None of these is inductive alone; their conjunction is. A crash
leaves the stray jobs it leaves: their attempt is void, so they find no row and
change nothing. `AttemptsKept` adds, for the last theorem, that a job that is not
waiting names no uncommitted attempt and that a goroutine about to end its job has
settled its attempt.

`maxAttempts > 0` is needed: with 0 the subtraction of the last attempt wraps, and
the account never balances.

In `DispatcherLedgerProofs`, from `Invariance` and under the same assumption:

* `ChargesAreBacked`: a delivery is never charged more attempts than POSTs were
  made, nor more than `maxAttempts`. It is inductive with the clause that a
  goroutine between its POST and its commit has one POST that is not charged yet;
* `KeepsTheLedger`: `Spec` implements `DeliveryLedger`. The initial states map to
  the initial ones; `CallEndpoint` is the ledger's `Post`, a commit that charges a
  delivery its `RecordSuccess`, `RecordFailure` or `Exhaust`, for which
  `ChargesAreBacked` gives the POST, an update of a status its `SetStatus`, and
  every other step stutters;
* `ExponentIsAttempt`: the number in the payload of a job that is due is the
  number of attempts made, although it is carried from job to job and never read
  from the row;
* `CounterIsCount`, if a backoff outlives its transaction and no read of an attempt
  fails: `attempts_counter` is
  the cardinality of the attempts with an outcome. `NothingOpen` says why: no job
  that can be taken names an uncommitted attempt, so the row updated by the
  handler is always there;
* `NothingForgotten`, under the assumptions of `NoAttemptLost`: a delivery that has
  attempts left has a job that is not done. `AheadStep` carries from step to step
  that it has a pending attempt, which is more than that pending attempts have
  jobs: every commit that leaves attempts makes the next one. That a delivery is
  settled in the end, which run recovery checks, needs fairness besides;
* `PostsAreBounded`, `SettledIsQuiet`, if moreover no body is refused by Postgres and
  no read fails, neither of an attempt nor of a delivery; an enqueue may:
  while nothing has crashed, `maxAttempts` bounds the POSTs, and none is made for
  a settled delivery. Both rest on `NoPostInVain`: without a crash every POST is
  charged before the next one, so POSTs and charges differ by the one that a
  goroutine holds. A crash between POST and commit ends that, which is what at
  least once means.

In `EventMatchProofs`, for event types of any length without an operator of the
pattern language, and any subscriptions:

* `NothingMissed`: no subscription misses an event it asks for;
* `FirstSegmentIsEnough`: the pattern selects exactly what its first segment
  selects. The portions of an event type are nested, so a longer one occurs only
  where the shortest does; that one ends before the first dot, whose existence is
  that of the least element of a set of numbers.

In `EventMappingProofs`, for any number of events, endpoints, goroutines,
processes, failing statements and crashes, and any subscriptions; `endpoints` has
finitely many rows:

* `Invariance`: the lists of a goroutine agree with the tables. `Lists` says it
  place by place: the i-th delivery belongs to the event and the i-th endpoint,
  the i-th attempt to the i-th delivery, or the ids are those of a statement that
  failed. `OneMention`, that no two goroutines, nor two places of one list, nor a
  place and a job, name the same attempt, is what inserts into shared tables could
  break; `Held` that the goroutine on an event has its job; `Heard` that what it
  has selected did listen;
* `TypeCorrectness`, `PayloadsFitTheRows`, `OnlyListeners` follow from it;
* `EveryListener`, by adding `Sent` to it (`SentInvariance`): while no statement
  has failed, an endpoint that listened all the time is on the list, and stays
  there until its job is inserted. A crash begins again at the query, so it may
  happen any number of times;
* `NothingHalfDone`, by adding `Handed`: without crashes and failures each
  delivery of a finished event has its job;
* `OneDelivery`, by adding `Distinct` and `Copies`: an event has at most one
  delivery to an endpoint more than there were crashes, and not even that while a
  run of its job still has its deliveries to create. It assumes `NoDoubleMatch`,
  that no list of subscriptions selects an event twice. This is up to the clients:
  the query makes a row per element that matches (`unnest`), see below.

In `FrontProofs`, for any number of concurrent calls, any commands and requests,
batches of any length, any number of failing statements and crashes:

* `TypeCorrectness`: no two endpoints share an id, no job names a row that is not
  there, no handler runs past its batch;
* `OnlyAcceptedCallsWrite`: a call that ends refused or by a panic has left
  nothing;
* `PriorityOrder`, `NothingDropped`: what becomes of an accepted batch;
* `UpdatesAreKept`, `SecretsAreKept`: what becomes of a row of `endpoints`. Updates
  of the enabled events, the metadata and the status are kept; the url is as
  registered, whatever was asked;
* `ClientAndServerAgree`: the server decodes a command to what was meant, with three
  exceptions that the property names: it refuses an event without content, it does
  not see the filters of a listing, and a filter whose key is a name the server
  looks for is read as that, refused, or a panic;
* `RepliesAreTaken`: no row gets into the table that the checks of the client
  refuse, and no reply lacks what they ask for. It assumes `NilIsNoList`, that null
  differs from every list, which TLC cannot evaluate for a model value.

They rest on four invariants, each inductive with those before it. `Control`
says where each call is and what it holds there: whoever is past the
authorisation came with a key that was handed out, and the payload is what was
decoded from the request. `BatchInv` is about submissions: the ids of a batch
are rows of that batch in the order of `Order`, and the jobs in `mapping` name
a first part of them, as far as the call has got in its loop. That there is a
stable sort takes counting: the place of an event is the number of those that
go before it, these numbers are different, and an injection of `1..n` into
itself is onto. `EndpointInv` is about endpoints: an id is known to nobody
before it is issued, rows have different ids and the secret handed out with
them, and `FieldOf`, which is `FieldsKept` with updates whose statement was
executed but which are not answered yet. `ReplyInv` adds that the checks of
the client would pass every row (`Sound`): `NewIsSound` and `UpdatedIsSound`
follow a payload from the server's validation to the row, `ListShows` and
`OpenedIsText` a row to the reply. The lemmas `RegisterAgreed`,
`UpdateAgreed`, `ReadsAgreed` and `SubmitAgreed` follow a command through
payload, request, route, validation and decoding.

What they take from the environment is in four assumptions. `CommandAssumption`
and `RawAssumption`: a list in a JSON body is a sequence with priorities that are
numbers or missing; a null among the events ends the generated client, so only a
request by hand has one; ids are random, so none is written into a request by hand
before it is issued. `EndpointAssumption`: the row registered before the start has
the columns of any other, is sealed with the first key, and was validated like any
other. `SentAssumption`: the
flags of a listing have values, and the bodies the client builds are records.

In `ProgramProofs`, for any number of requests, goroutines and signals, any
command lines and any config files:

* `TypeCorrectness`: the variables of the process keep their types; the wait group
  never becomes negative, which would be a panic;
* `OnlyTimeCutsOff`, `LoneRequestsKeepTheirId`, `OneIsWaitedFor`: the safety
  properties of the run `program`.

The invariant has a part for each part of the process; they share `process` and
`main` only, and each works while `main` is in states of its own, which is what
the lemmas `...Elsewhere` say. The logger (`LogInv`): a request that is alone is
the only one in flight, and the last id of what it copied, and later of the shared
logger, is its own; the next to enter ends that. The server (`ServerInv`): the
wait group counts the shutdown goroutine, `main` leaves only when it is done, and
it is done only when nothing is in flight or the time is over. The setup
(`SetupInv`): where `main` stands says which tables exist. The pool (`PoolInv`):
the goroutines spawned are 1 to k, no more than `parallelJobs`, and when `main`
leaves one of them has taken the stop message, so fewer than k are busy.
`ProgramAssumption` names what the proofs take from the code: goroutines are
numbered, and the numbers of parallel jobs are not negative (they are `uint`).

In `ZebrahookProofs`, for any number of events in a request, endpoints, mapping
processes, dispatcher processes, goroutines of either and crashes, and any
subscriptions and matching, while no statement fails:

* `Invariance`: `Spec => []ZInv`;
* `TypeCorrectness`: `TypeOK`, which says above all that the parts agree on the
  rows they share;
* `ImplementsOutbox`: `Spec => OutboxSpec`, the refinement;
* `OnlyListenersAreSent`, `ListenersAreServed`, `GivenUpAfterAllAttempts`: every
  POST is of an event its endpoint has listened to since the submission; once the
  mapping of an event is over, whoever kept listening has a delivery; and an event
  is given up only after `maxAttempts` POSTs of every copy;
* `NothingDueIsForgotten`: whatever is due has a job of one of the two workers that
  is not done, which is what remains of `Arrives` without fairness. Due is what is
  owed, and what was queued while the endpoint keeps listening, also by a server that
  died before its answer; that an accepted event was queued is part of it.

The proof takes from the parts what was proved of them. `EventMappingProofs` and
`DispatcherLedgerProofs` are instantiated as `MP` and `CP` under the names of the
whole, with their assumptions derived from those of `Zebrahook`
(`MapperAssumption`, `DispatcherAssumption`). Their theorems about `Spec` do not
apply, because the whole takes steps that neither part takes alone; their step
lemmas do. Each part has an invariant `CInv` made for this: it is kept by the
actions of the part, by steps that leave its tables alone, and by what the rest of
the system does to it, which is a submission or a switch of an endpoint for the
mapping, and a delivery that comes in (`Enters`) for the dispatcher. `ZInv` is the
two, with what ties them together: `Queue` (the jobs queued are those of the events
submitted), `OneStatus` (both see one status of an endpoint), `Rows` (a delivery not
handed over is untouched, one handed over has a pending attempt while attempts are
left) and `HandedOver` (deliveries handed over and jobs of the mapping worker
correspond).

For the refinement each value of `Outbox` has a short name (`Sub`, `Lis`, `Hrd`,
`Let`, `Snt`), and `IsSubmit`, `IsSwitch`, `IsOwe`, `IsSend`, `IsDeliver` and
`IsAbandon` say what has to be shown of them for a step to be one of the promise.
A commit needs the most (`SettleImplements`): whether it settles the letter depends
on the other copies of the delivery, and the row it writes must be the one it read,
with a POST behind it, for which it has `CommitSettles` of the dispatcher. A mapping
job that runs again maps to a stutter, or, if the first copy has been given up
already, to taking the letter up again.

Only model-checked is liveness (`Settles`, `Reached`, `Arrives`, `WorkerStops`,
`ServerStops`): it is out of the prover's reach, and so is what a fairness condition
enables. `NothingForgotten` and `NothingDueIsForgotten` are the safety that
`Settles` and `Arrives` rest on.

## Where code and documentation disagree

Four disagreements have a run that shows them (`disabled_still_called`,
`unstorable_body`, `over_match`, `priority_overtaken`). These were met on the way
and have none, since they can be read off the lines:

* `maxAttempts` 0 passes the sanity checks, and `AttemptsRemaining-1` wraps
  (`worker/dispatcher/main.go:197`), so a failing delivery is retried for ever.
* `unnest` gives a row per matching element of `enabled_events`
  (`worker/eventMapping/main.go:83`), so an endpoint with `charge.*` and
  `charge.failed` gets two deliveries of one event.
* An event of a type with an operator of the pattern language may miss its own
  subscription (`a+b`), or reach nobody (`worker/eventMapping/main.go:36-50`).
* `Update` never reads `url` (`main.go:352-381`), which `design/design.go:93`
  documents for it, and tells success all the same; `FieldsKept` says that the
  url stays as registered. It tells success for an id without a row, too.
  `Register` returns an id, and `CreateAPIKey` prints a key, even if the
  insert failed. `JWTAuth` does not look at the status of a key.
* A server with another `encryptionKey` answers with an empty secret
  (`main.go:250`).
* A filter on metadata typed into the generated client is sent under its bare key
  (`gen/http/zebrahook/client/encode_decode.go:303`), which the server does not look
  for, so the search of `design/design.go:306` lists everything; and a key that is a
  name the server looks for is read as that. A filter `metadata[` without its `]`,
  and a null among the events, make a handler panic. A command line that submits an
  event without content is refused by the server only.
* A listing has no ORDER BY, so pages of it may overlap.
* The middleware that makes a request id runs inside `customZeroLog`
  (`cmd/zebrahook/http.go:107-111`), so the id it looks for is never there
  (32-42): the line of a request carries one made up, its context the other.
  The context of the logger grows by one id per request.
* `signal.Notify` is called inside the goroutine (`cmd/zebrahook/main.go:168-172`),
  so a signal that comes early kills the server without a shutdown; a worker is
  killed by SIGTERM, which it does not ask for.
* `--new-api-key` without `--server` panics. `--setup` does not look at the result of
  its last statement (`cmd/zebrahook/main.go:108`) and reports success without the
  table of jobs.
* The Find of an attempt ignores its error (`worker/dispatcher/main.go:60`), so one
  that fails lets an attempt be made and written again, where `models/event.go:55`
  calls the table write only.
* README.md calls `parallelJob` (default 2) what the code calls `parallelJobs`
  (default 3); a global `pollingIntervalSecs` never applies, because the defaults
  of each worker are always set; `sha512Hash` makes one round less than it is
  asked for; the delay of README.md:101 is not that of
  `worker/dispatcher/main.go:208-210`.

## Plan

Built and proved: every component that has a state of its own, their composition,
and every safety property that a passing run checks. What is left:

1. The size of the backoff and the rounds of `sha512Hash`, as pure algorithms.
2. `Zebrahook` with statements that fail: `MaxFailures` is 0 and `Fault` empty
   there, since a failing insert drops a delivery without a trace and `Arrives` does
   not hold then; a weaker promise could say what remains.

## Not modelled

The content, signature and encryption of a request (cryptography and pure
computation); logging other than the shared logger of the requests; the size
of the backoff, floating point with a random part; polling intervals; usage
texts and the parsing of flags by the generated client; content types and the
wording of errors; the dates of the rows of `endpoints`; a path whose id is
empty or holds a slash, which is routed elsewhere; texts behind the brackets
of a filter's name; the regular expressions of Postgres beyond literals and
the dot; statements of the dispatcher that fail other than those of `Fault`;
the job history and the error column of pgq. pgq, gorm, Postgres, goa and
net/http are modelled as far as the code uses them.
