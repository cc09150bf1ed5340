------------------------------ MODULE Dispatcher ------------------------------
(***************************************************************************)
(* The dispatcher worker of zebrahook (worker/dispatcher/main.go): the job *)
(* handler CallWebhookEndpointJob, run by the goroutines of one or more    *)
(* worker processes over the job table of pgq and the three tables it      *)
(* reads and writes (event_deliveries, event_delivery_attempts, endpoints).*)
(*                                                                         *)
(* A step is what the database lets others observe: a claim, a read before *)
(* the transaction, the HTTP call, the reads of the transaction, the       *)
(* enqueue that escapes the transaction (it goes through another           *)
(* connection), the commit, and the end of the job.  A process may die     *)
(* between any two of them.                                                *)
(***************************************************************************)
EXTENDS Integers, Sequences, FiniteSets

CONSTANTS
    Endpoint,        \* ids of webhook endpoints
    EndpointOf,      \* EndpointOf[d]: the endpoint event delivery d is for
    Worker,          \* goroutines started by utils.RunWorker
    Process,         \* dispatcher processes
    ProcessOf,       \* the process each goroutine lives in
    MaxAttempts,     \* backoffStrategy.maxAttempts
    UintMax,         \* largest value of a Go uint
    Failure,         \* the error outcomes the endpoints can produce
    Fault,           \* what fails, its error ignored: "body": a response body
                     \* Postgres refuses to store; "enqueue": EnqueueJob; "load":
                     \* the Find of the attempt; "read": that of the delivery
    PanicOutcome,    \* what a panic in a handler does: pgq recovers it, or not
    DelayOutlivesTx, \* a backoff is longer than the transaction that set it
    Horizon,         \* bound: jobs with a larger counter are not waited for
    MaxCrashes       \* bound: crashes of a process

ASSUME ConstantsAssumption ==
    /\ EndpointOf \in Seq(Endpoint)
    /\ ProcessOf \in [Worker -> Process]
    /\ MaxAttempts \in Nat /\ UintMax \in Nat \ {0} /\ MaxAttempts <= UintMax
    /\ Failure \subseteq {"error_response", "error_timeout", "error_network"}
    /\ Fault \subseteq {"body", "enqueue", "load", "read"}
    /\ PanicOutcome \subseteq {"recovered", "fatal"}
    /\ DelayOutlivesTx \in BOOLEAN
    /\ Horizon \in Nat /\ MaxCrashes \in Nat

VARIABLES
    delivery,  \* event_deliveries, by id
    attempts,  \* event_delivery_attempts, by id; "open" rows belong to a
               \* transaction still running, "void" ones to one that died
    jobs,      \* the job table of pgq, webhook-delivery queue
    endpoint,  \* status of each endpoint
    wk,        \* what each goroutine is doing, its locals and its transaction
    posts,     \* history: POSTs sent per delivery, saturating (see Posted)
    crashes    \* how many crashes have happened

vars == <<delivery, attempts, jobs, endpoint, wk, posts, crashes>>

Delivery == 1 .. Len(EndpointOf)
Result == {"success"} \cup Failure
Carries == {"success", "error_response"}  \* outcomes that have a body

\* a goroutine with job j, nothing read yet
Holding(j, pc) ==
    [pc |-> pc, job |-> j, dlv |-> 0, hit |-> 0, result |-> "success",
     remaining |-> 0, next |-> 0, ok |-> TRUE]
Idle == Holding(0, "idle")

-----------------------------------------------------------------------------
(***************************************************************************)
(* What the event mapping worker leaves behind for each delivery: a        *)
(* pending attempt and a job without AttemptCounter (0 here).              *)
(***************************************************************************)
Init ==
    /\ delivery = [d \in Delivery |->
           [counter |-> 0, remaining |-> MaxAttempts]]
    /\ attempts = [d \in Delivery |->
           [delivery |-> d, status |-> "pending", row |-> "committed"]]
    /\ jobs = [d \in Delivery |->
           [attempt |-> d, target |-> d, counter |-> 0, state |-> "queued"]]
    /\ endpoint = [e \in Endpoint |-> "enabled"]
    /\ wk = [w \in Worker |-> Idle]
    /\ posts = [d \in Delivery |-> 0]
    /\ crashes = 0

(***************************************************************************)
(* Reading the tables.  Another connection sees committed rows only, and   *)
(* Find by an id without a row is not an error: it leaves the zero struct. *)
(***************************************************************************)
Visible(a) == a \in DOMAIN attempts /\ attempts[a].row = "committed"

\* slip: no guard against a job that runs again
AlreadyMadeUnguarded(a) == FALSE

\* AttemptMadeAt # nil: it is set by the update that sets the status
AlreadyMade(a) == Visible(a) /\ attempts[a].status # "pending"

\* EventDeliveryAttempt.EventDeliveryID of the struct Find fills
DeliveryOf(a) == IF Visible(a) THEN attempts[a].delivery ELSE 0

\* EventDelivery.AttemptsRemaining of the struct Find fills
RemainingOf(d) == IF d = 0 THEN 0 ELSE delivery[d].remaining

\* the row UPDATE ... WHERE id = a changes, 0 when there is none
RowOf(a) == IF Visible(a) THEN a ELSE 0

-----------------------------------------------------------------------------
(***************************************************************************)
(* The arithmetic of the handler.                                          *)
(***************************************************************************)
\* slip: the absent counter of a first job taken for zero
NextCounterFromZero(c) == c + 1

\* AttemptCounter of the next job; absent (0) counts as the first attempt
NextCounter(c) == IF c > 0 THEN c + 1 ELSE 2

\* the subtraction wraps around
UintMinusOne(r) == IF r = 0 THEN UintMax ELSE r - 1

\* slips: the attempt under way not subtracted, or subtracted twice
NoMoreAttemptsLate(r) == r <= 0
NoMoreAttemptsEarly(r) == UintMinusOne(r) <= 1

NoMoreAttempts(r) == UintMinusOne(r) <= 0

WillRetry(s) == s.result # "success" /\ ~NoMoreAttempts(s.remaining)

\* slips: the expression of the other counter copied; a guard off by one
ChargeAdding(row, s) ==
    [row EXCEPT !.counter = @ + 1,
                !.remaining = IF s.result = "success" THEN 0 ELSE @ + 1]
ChargeNotLast(row, s) ==
    [row EXCEPT !.counter = @ + 1,
                !.remaining = IF s.remaining <= 1 THEN @
                              ELSE IF s.result = "success" THEN 0 ELSE @ - 1]

\* the two counters of a delivery row once the attempt held by s is recorded
Charge(row, s) ==
    [row EXCEPT
        !.counter = @ + 1,
        !.remaining = IF s.remaining = 0 THEN @
                      ELSE IF s.result = "success" THEN 0 ELSE @ - 1]

\* one more POST; MaxAttempts + 1 stands for "more than MaxAttempts"
Posted(n) == IF n > MaxAttempts THEN n ELSE n + 1

-----------------------------------------------------------------------------
JobOf(w) == jobs[wk[w].job]
At(w, pc) == wk[w].pc = pc
Ends(j) == jobs' = [jobs EXCEPT ![j].state = "done"]

\* pgq hands a runnable job to one goroutine (row lock, SKIP LOCKED)
Claim(w, j) ==
    /\ At(w, "idle")
    /\ jobs[j].state = "queued"
    /\ jobs' = [jobs EXCEPT ![j].state = "running"]
    /\ wk' = [wk EXCEPT ![w] = Holding(j, "claimed")]
    /\ UNCHANGED <<delivery, attempts, endpoint, posts, crashes>>

\* lines 59-64, the guard passes; event and endpoint are read as well, but
\* neither the status of the endpoint nor the delivery is looked at
LoadAttempt(w) ==
    /\ At(w, "claimed")
    /\ ~AlreadyMade(JobOf(w).attempt)
    /\ wk' = [wk EXCEPT ![w].pc = "loaded",
                        ![w].dlv = DeliveryOf(JobOf(w).attempt)]
    /\ UNCHANGED <<delivery, attempts, jobs, endpoint, posts, crashes>>

\* line 60 fails: the struct stays zero, so the guard passes, whatever the row says
LoadFails(w) ==
    /\ At(w, "claimed")
    /\ "load" \in Fault
    /\ wk' = [wk EXCEPT ![w].pc = "loaded"]
    /\ UNCHANGED <<delivery, attempts, jobs, endpoint, posts, crashes>>

\* the connections of the process close: its transactions roll back and the
\* row locks on its jobs go, so the jobs can be claimed again
ProcessDies(p) ==
    LET dead == {w \in Worker : ProcessOf[w] = p}
    IN  /\ wk' = [w \in Worker |-> IF w \in dead THEN Idle ELSE wk[w]]
        /\ jobs' = [j \in DOMAIN jobs |->
               IF \E w \in dead : wk[w].job = j
               THEN [jobs[j] EXCEPT !.state = "queued"] ELSE jobs[j]]
        /\ attempts' = [a \in DOMAIN attempts |->
               IF \E w \in dead : wk[w].next = a
               THEN [attempts[a] EXCEPT !.row = "void"] ELSE attempts[a]]
        /\ UNCHANGED <<delivery, endpoint, posts>>

\* the guard fails: the job was already run to its commit
PanicRecovered(w) ==
    /\ At(w, "claimed")
    /\ AlreadyMade(JobOf(w).attempt)
    /\ "recovered" \in PanicOutcome
    /\ Ends(wk[w].job)
    /\ wk' = [wk EXCEPT ![w] = Idle]
    /\ UNCHANGED <<delivery, attempts, endpoint, posts, crashes>>

PanicFatal(w) ==
    /\ At(w, "claimed")
    /\ AlreadyMade(JobOf(w).attempt)
    /\ "fatal" \in PanicOutcome
    /\ ProcessDies(ProcessOf[w])
    /\ UNCHANGED crashes

\* lines 103-161: the POST and its outcome
CallEndpoint(w) ==
    /\ At(w, "loaded")
    /\ posts' = [posts EXCEPT ![JobOf(w).target] = Posted(@)]
    /\ \E r \in Result :
           wk' = [wk EXCEPT ![w].pc = "answered", ![w].result = r]
    /\ UNCHANGED <<delivery, attempts, jobs, endpoint, crashes>>

\* lines 165-170: the transaction reads the delivery and updates the attempt;
\* a body Postgres refuses leaves the transaction aborted (ok = FALSE)
ReadDelivery(w) ==
    /\ At(w, "answered")
    /\ \E ok \in BOOLEAN :
           /\ ~ok => "body" \in Fault /\ wk[w].result \in Carries
           /\ wk' = [wk EXCEPT ![w].pc = "intx",
                               ![w].remaining = RemainingOf(wk[w].dlv),
                               ![w].hit = RowOf(JobOf(w).attempt),
                               ![w].ok = ok]
    /\ UNCHANGED <<delivery, attempts, jobs, endpoint, posts, crashes>>

\* line 167 fails: the struct stays zero, the transaction is aborted
ReadFails(w) ==
    /\ At(w, "answered")
    /\ "read" \in Fault
    /\ wk' = [wk EXCEPT ![w].pc = "intx", ![w].ok = FALSE]
    /\ UNCHANGED <<delivery, attempts, jobs, endpoint, posts, crashes>>

\* slip: the job names the attempt just made, not the one created
NextJobSameAttempt(w, next) ==
    [attempt |-> JobOf(w).attempt, target |-> JobOf(w).target,
     counter |-> NextCounter(JobOf(w).counter), state |-> "waiting"]

\* the payload of the next job copies event and endpoint (target) of this one
NextJob(w, next) ==
    [attempt |-> next, target |-> JobOf(w).target,
     counter |-> NextCounter(JobOf(w).counter), state |-> "waiting"]

\* lines 224-245: the next attempt is inserted inside the transaction (not
\* when it is aborted, nor for delivery 0, which no row has), its job outside
Reschedule(w) ==
    LET created == wk[w].ok /\ wk[w].dlv # 0
        next == IF created THEN Len(attempts) + 1 ELSE 0
    IN  /\ At(w, "intx")
        /\ WillRetry(wk[w])
        /\ attempts' =
               IF created
               THEN Append(attempts, [delivery |-> wk[w].dlv,
                                      status |-> "pending", row |-> "open"])
               ELSE attempts
        /\ \/ jobs' = Append(jobs, NextJob(w, next))
           \/ "enqueue" \in Fault /\ UNCHANGED jobs
        /\ wk' = [wk EXCEPT ![w].pc = "rescheduled", ![w].next = next,
                            ![w].ok = created]
        /\ UNCHANGED <<delivery, endpoint, posts, crashes>>

\* lines 199-206 and 249-259: with no retry the endpoint is disabled unless
\* the attempt succeeded; COMMIT, or ROLLBACK of an aborted transaction.  No
\* two transactions hold the same delivery, so none waits for the other here
Commit(w) ==
    LET s == wk[w]
        e == EndpointOf[JobOf(w).target]
    IN  /\ \/ s.pc = "rescheduled"
           \/ s.pc = "intx" /\ ~WillRetry(s)
        /\ attempts' =
               [a \in DOMAIN attempts |->
                  IF s.ok /\ a = s.hit THEN [attempts[a] EXCEPT !.status = s.result]
                  ELSE IF s.ok /\ a = s.next THEN [attempts[a] EXCEPT !.row = "committed"]
                  ELSE attempts[a]]
        /\ delivery' = [d \in Delivery |->
               IF s.ok /\ d = s.dlv THEN Charge(delivery[d], s) ELSE delivery[d]]
        /\ endpoint' =
               IF s.ok /\ s.pc = "intx" /\ s.result # "success"
               THEN [endpoint EXCEPT ![e] = "disabled"] ELSE endpoint
        /\ wk' = [wk EXCEPT ![w] = Holding(s.job, "recorded")]
        /\ UNCHANGED <<jobs, posts, crashes>>

\* line 263: the handler returns nil whatever happened, pgq marks the job
Finish(w) ==
    /\ At(w, "recorded")
    /\ Ends(wk[w].job)
    /\ wk' = [wk EXCEPT ![w] = Idle]
    /\ UNCHANGED <<delivery, attempts, endpoint, posts, crashes>>

Crash(p) ==
    /\ crashes < MaxCrashes
    /\ ProcessDies(p)
    /\ crashes' = crashes + 1

\* pgq.After: run_after has passed
BackoffElapses(j) ==
    /\ jobs[j].state = "waiting"
    /\ jobs[j].counter <= Horizon
    /\ DelayOutlivesTx /\ jobs[j].attempt # 0 =>
           attempts[jobs[j].attempt].row # "open"
    /\ jobs' = [jobs EXCEPT ![j].state = "queued"]
    /\ UNCHANGED <<delivery, attempts, endpoint, wk, posts, crashes>>

\* the API server's UpdateWebhookEndpointByID (main.go), status only
UpdateEndpoint(e, status) ==
    /\ endpoint' = [endpoint EXCEPT ![e] = status]
    /\ UNCHANGED <<delivery, attempts, jobs, wk, posts, crashes>>

Handle(w) ==
    \/ LoadAttempt(w) \/ LoadFails(w) \/ PanicRecovered(w) \/ PanicFatal(w)
    \/ CallEndpoint(w) \/ ReadDelivery(w) \/ ReadFails(w)
    \/ Reschedule(w) \/ Commit(w) \/ Finish(w)

Poll(w) == \E j \in DOMAIN jobs : Claim(w, j)

Time == \E j \in DOMAIN jobs : BackoffElapses(j)

Next ==
    \/ \E w \in Worker : Poll(w) \/ Handle(w)
    \/ Time
    \/ \E p \in Process : Crash(p)
    \/ \E e \in Endpoint : \E status \in {"enabled", "disabled"} : UpdateEndpoint(e, status)

Spec == Init /\ [][Next]_vars

(***************************************************************************)
(* Every step of a handler ends (the HTTP client has a Timeout, the        *)
(* database answers), idle goroutines poll in a loop, and time passes.     *)
(***************************************************************************)
FairSpec ==
    /\ Spec
    /\ \A w \in Worker : WF_vars(Handle(w)) /\ WF_vars(Poll(w))
    /\ WF_vars(Time)

-----------------------------------------------------------------------------
(***************************************************************************)
(* Types.                                                                  *)
(***************************************************************************)
JobId == DOMAIN jobs
AttemptId == DOMAIN attempts

DeliveryRow == [counter : Nat, remaining : 0 .. MaxAttempts]
AttemptRow == [delivery : Delivery, status : Result \cup {"pending"},
               row : {"open", "committed", "void"}]
JobRow == [attempt : Nat, target : Delivery, counter : Nat,
           state : {"waiting", "queued", "running", "done"}]
Goroutine ==
    [pc : {"idle", "claimed", "loaded", "answered", "intx", "rescheduled", "recorded"},
     job : Nat, dlv : Delivery \cup {0}, hit : Nat, result : Result,
     remaining : 0 .. MaxAttempts, next : Nat, ok : BOOLEAN]

\* Every variable keeps its type: the rows of the three tables, the job table,
\* the locals of the handler; attempts_remaining never leaves 0 .. MaxAttempts,
\* although the code decrements an unsigned column (lines 174 and 254-256).
TypeOK ==
    /\ delivery \in [Delivery -> DeliveryRow]
    /\ attempts \in Seq(AttemptRow)
    /\ jobs \in Seq(JobRow)
    /\ endpoint \in [Endpoint -> {"enabled", "disabled"}]
    /\ wk \in [Worker -> Goroutine]
    /\ \A w \in Worker : wk[w].pc # "idle" => wk[w].job \in JobId
    /\ posts \in [Delivery -> 0 .. MaxAttempts + 1]
    /\ crashes \in Nat

Pending(a) == Visible(a) /\ attempts[a].status = "pending"
MadeFor(d) == {a \in AttemptId :
                 Visible(a) /\ attempts[a].delivery = d /\ attempts[a].status # "pending"}

(***************************************************************************)
(* Safety.                                                                 *)
(***************************************************************************)
\* The two counters of a delivery always add up to the configured number of
\* attempts, until a success zeroes attempts_remaining (lines 173-180, 251-256),
\* whatever crashes, aborted transactions and stray jobs did in between.
AccountBalances ==
    \A d \in Delivery :
        \/ delivery[d].counter + delivery[d].remaining = MaxAttempts
        \/ /\ delivery[d].remaining = 0
           /\ \E a \in MadeFor(d) : attempts[a].status = "success"

\* attempts_counter agrees with the attempts table: it is the number of rows
\* of the delivery that have an outcome.  The two are written by statements of
\* their own (lines 170 and 251), through ids obtained from different reads.
CounterCountsAttempts ==
    \A d \in Delivery : delivery[d].counter = Cardinality(MadeFor(d))

\* A delivery never has two attempts waiting to be made, and a settled one
\* has none: a second chain of retries would double every later POST.
OneOpenAttempt ==
    \A a, b \in AttemptId :
        Pending(a) /\ Pending(b) /\ attempts[a].delivery = attempts[b].delivery => a = b

\* An attempt that waits to be made has a job that will make it: neither a
\* crash nor the early return of the handler can leave a pending row behind
\* (the row and the job are written through different connections).
NoLostAttempt ==
    \A a \in AttemptId : Pending(a) =>
        \E j \in JobId : jobs[j].attempt = a /\ jobs[j].state # "done"

\* The exponent of the backoff is the number of the attempt in its delivery:
\* the counter that travels in the job payload (lines 186-192) agrees with the
\* one in the table when the attempt is due (the first job carries none).
BackoffExponent ==
    \A j \in JobId : Pending(jobs[j].attempt) =>
        LET c == IF jobs[j].counter = 0 THEN 1 ELSE jobs[j].counter
        IN  c = delivery[jobs[j].target].counter + 1

\* maxAttempts bounds what the endpoint sees of an event: without a crash no
\* delivery is POSTed more often than that.
PostsBounded == crashes = 0 => \A d \in Delivery : posts[d] <= MaxAttempts

\* Nothing is sent for a delivery that was delivered or gave up, unless a crash
\* left a job behind whose attempt was never inserted.
QuietOnceSettled ==
    [][crashes = 0 =>
         \A d \in Delivery : delivery[d].remaining = 0 => posts'[d] = posts[d]]_vars

\* The attempts table is write-only (models/event.go:55): once an attempt has
\* an outcome, its row never changes, however often its job runs again.
WriteOnce ==
    [][\A a \in AttemptId : attempts[a].status # "pending" => attempts'[a] = attempts[a]]_vars

\* A disabled endpoint receives no event: a job loaded while its endpoint is
\* disabled goes no further (an update that comes later may be missed).
DisabledIsQuiet ==
    [][\A w \in Worker : At(w, "claimed") /\ wk'[w].pc = "loaded" =>
          endpoint[EndpointOf[JobOf(w).target]] = "enabled"]_vars

(***************************************************************************)
(* Every delivery ends: delivered, or out of attempts.                     *)
(***************************************************************************)
Settles == \A d \in Delivery : <>(delivery[d].remaining = 0)

(***************************************************************************)
(* The account of each delivery, as its abstract ledger sees it.           *)
(***************************************************************************)
Accounts == INSTANCE DeliveryLedger WITH
    account <- [d \in Delivery |->
        [posts |-> posts[d], counter |-> delivery[d].counter,
         remaining |-> delivery[d].remaining]]
LedgerSpec == Accounts!Spec
=============================================================================
