--------------------------- MODULE ZebrahookProofs ---------------------------
(***************************************************************************)
(* Theorems about the whole of zebrahook, for every set of endpoints and   *)
(* subscriptions, any number of events and goroutines, and any crashes of  *)
(* the server and the workers: its state is well typed and its parts agree *)
(* about the rows they share, it implements Outbox, and nothing it owes is *)
(* forgotten.  The invariants of the two workers are those proved of the   *)
(* workers alone; every step of the whole is a step of each of them, or    *)
(* leaves its tables alone, or brings it what it waits for.                *)
(***************************************************************************)
EXTENDS Zebrahook, SequenceTheorems, FunctionTheorems, FiniteSetTheorems, TLAPS

MP == INSTANCE EventMappingProofs WITH
    Worker <- Mapper, Process <- MapperProcess, ProcessOf <- MapperProcessOf,
    MaxFailures <- 0, delivery <- mdelivery, attempts <- mattempts,
    jobs <- handed, wk <- mwk

CP == INSTANCE DispatcherLedgerProofs WITH
    Fault <- {}, PanicOutcome <- {"recovered"}, DelayOutlivesTx <- TRUE,
    endpoint <- status

-----------------------------------------------------------------------------
(***************************************************************************)
(* The assumptions of the workers follow from those of the whole.          *)
(***************************************************************************)
LEMMA SameSizes ==
    ASSUME NEW S
    PROVE  /\ MP!IsFiniteSet(S) <=> IsFiniteSet(S)
           /\ MP!Cardinality(S) = Mapping!Cardinality(S)
<1>1. MP!IsFiniteSet(S) <=> IsFiniteSet(S)
  BY DEF MP!IsFiniteSet, IsFiniteSet
<1>2. MP!Cardinality(S) = Mapping!Cardinality(S)
  BY DEF MP!Cardinality, Mapping!Cardinality
<1> QED
  BY <1>1, <1>2

LEMMA MapperAssumption == MP!ConstantsAssumption
<1>1. Len(PriorityOf) \in Nat
  BY ConstantsAssumption, LenProperties
<1> QED
  BY <1>1, ConstantsAssumption, SameSizes DEF ConstantsAssumption, MP!ConstantsAssumption

LEMMA DispatcherAssumption == CP!ConstantsAssumption
BY ConstantsAssumption DEF ConstantsAssumption, CP!ConstantsAssumption

\* Both see the same events and deliveries as the whole.
LEMMA SameIds ==
    /\ MP!Event = Event /\ Mapping!Event = Event /\ CP!Delivery = Calls!Delivery
    /\ Len(PriorityOf) \in Nat /\ 0 \notin Event
    /\ Len(EndpointOf) \in Nat /\ Calls!Delivery = 1 .. Len(EndpointOf)
    /\ \A d \in Calls!Delivery : EndpointOf[d] \in Endpoint
<1>1. Len(PriorityOf) \in Nat /\ Len(EndpointOf) \in Nat
  BY ConstantsAssumption, LenProperties
<1>2. \A d \in 1 .. Len(EndpointOf) : EndpointOf[d] \in Endpoint
  BY ConstantsAssumption, ElementOfSeq
<1> QED
  BY <1>1, <1>2, ConstantsAssumption
  DEF MP!Event, Mapping!Event, Event, CP!Delivery, Calls!Delivery

-----------------------------------------------------------------------------
(***************************************************************************)
(* The actions Zebrahook takes from its parts are the actions the theorems *)
(* about the parts speak of.                                               *)
(***************************************************************************)
LEMMA MapperClaims ==
    ASSUME NEW m \in Mapper, NEW ev \in Event, Mapping!Claim(m, ev)
    PROVE  MP!Poll(m)
<1>1. MP!Claim(m, ev)
  BY DEF Mapping!Claim, MP!Claim, Mapping!At, MP!At, Mapping!Idle, MP!Idle
<1> QED
  BY <1>1, SameIds DEF MP!Poll

LEMMA MapperHandles ==
    ASSUME NEW m \in Mapper
    PROVE  /\ Mapping!Select(m) => MP!Handle(m)
           /\ Mapping!CreateDeliveries(m) => MP!Handle(m)
           /\ Mapping!CreateAttempts(m) => MP!Handle(m)
           /\ Mapping!Enqueue(m) => MP!Enqueue(m) /\ MP!Handle(m)
           /\ Mapping!Finish(m) => MP!Handle(m)
<1>1. Mapping!Select(m) => MP!Select(m)
  <2>1. \A table, ev : Mapping!RowsOf(table, ev) = MP!RowsOf(table, ev)
    BY DEF Mapping!RowsOf, MP!RowsOf
  <2>2. \A rows : Mapping!InSomeOrder(rows) = MP!InSomeOrder(rows)
    BY SameSizes DEF Mapping!InSomeOrder, MP!InSomeOrder
  <2> QED
    BY <2>1, <2>2 DEF Mapping!Select, MP!Select, Mapping!At, MP!At, Mapping!Fails, MP!Fails
<1>2. Mapping!CreateDeliveries(m) => MP!CreateDeliveries(m)
  BY DEF Mapping!CreateDeliveries, MP!CreateDeliveries, Mapping!At, MP!At, Mapping!NewIds,
         MP!NewIds, Mapping!NoIds, MP!NoIds, Mapping!Fails, MP!Fails
<1>3. Mapping!CreateAttempts(m) => MP!CreateAttempts(m)
  BY DEF Mapping!CreateAttempts, MP!CreateAttempts, Mapping!At, MP!At, Mapping!NewIds,
         MP!NewIds, Mapping!NoIds, MP!NoIds, Mapping!Fails, MP!Fails
<1>4. Mapping!Enqueue(m) => MP!Enqueue(m)
  BY DEF Mapping!Enqueue, MP!Enqueue, Mapping!At, MP!At, Mapping!AllSent, MP!AllSent,
         Mapping!Payload, MP!Payload, Mapping!Fails, MP!Fails
<1>5. Mapping!Finish(m) => MP!Finish(m)
  BY DEF Mapping!Finish, MP!Finish, Mapping!At, MP!At, Mapping!AllSent, MP!AllSent,
         Mapping!Idle, MP!Idle
<1> QED
  BY <1>1, <1>2, <1>3, <1>4, <1>5 DEF MP!Handle

LEMMA MapperDies ==
    ASSUME NEW p \in MapperProcess, Mapping!Crash(p)
    PROVE  MP!Crash(p)
BY DEF Mapping!Crash, MP!Crash, Mapping!Idle, MP!Idle, Mapping!Event, MP!Event

LEMMA SameListeners ==
    ASSUME NEW table, NEW ev
    PROVE  Mapping!Listeners(table, ev) = MP!Listeners(table, ev)
BY DEF Mapping!Listeners, MP!Listeners

LEMMA EventSubmitted ==
    ASSUME NEW ev, Mapping!Submit(ev)
    PROVE  MP!Submit(ev)
BY DEF Mapping!Submit, MP!Submit, Mapping!Listeners, MP!Listeners

LEMMA SameScope ==
    ASSUME NEW table
    PROVE  Mapping!ScopeWith(table) = MP!ScopeWith(table)
BY DEF Mapping!ScopeWith, MP!ScopeWith, Mapping!Listeners, MP!Listeners,
       Mapping!Event, MP!Event

LEMMA WorkerClaims ==
    ASSUME NEW w \in Worker, NEW j \in DOMAIN jobs, Calls!Claim(w, j)
    PROVE  CP!Poll(w) /\ CP!Claim(w, j)
BY DEF Calls!Claim, CP!Claim, Calls!At, CP!At, Calls!Holding, CP!Holding, CP!Poll

LEMMA WorkerHandles ==
    ASSUME NEW w \in Worker
    PROVE  /\ Calls!LoadAttempt(w) => CP!LoadAttempt(w)
           /\ Calls!PanicRecovered(w) => CP!PanicRecovered(w)
           /\ Calls!ReadDelivery(w) => CP!ReadDelivery(w)
           /\ Calls!Reschedule(w) => CP!Reschedule(w)
           /\ Calls!Finish(w) => CP!Finish(w)
           /\ Calls!CallEndpoint(w) => CP!CallEndpoint(w)
           /\ Calls!Commit(w) => CP!Commit(w)
<1>1. Calls!LoadAttempt(w) => CP!LoadAttempt(w)
  BY DEF Calls!LoadAttempt, CP!LoadAttempt, Calls!At, CP!At, Calls!JobOf, CP!JobOf,
         Calls!AlreadyMade, CP!AlreadyMade, Calls!Visible, CP!Visible,
         Calls!DeliveryOf, CP!DeliveryOf
<1>2. Calls!PanicRecovered(w) => CP!PanicRecovered(w)
  BY DEF Calls!PanicRecovered, CP!PanicRecovered, Calls!At, CP!At, Calls!JobOf, CP!JobOf,
         Calls!AlreadyMade, CP!AlreadyMade, Calls!Visible, CP!Visible, Calls!Ends, CP!Ends,
         Calls!Idle, CP!Idle, Calls!Holding, CP!Holding
<1>3. Calls!ReadDelivery(w) => CP!ReadDelivery(w)
  BY DEF Calls!ReadDelivery, CP!ReadDelivery, Calls!At, CP!At, Calls!JobOf, CP!JobOf,
         Calls!RemainingOf, CP!RemainingOf, Calls!RowOf, CP!RowOf, Calls!Visible, CP!Visible,
         Calls!Carries, CP!Carries
<1>4. Calls!Reschedule(w) => CP!Reschedule(w)
  BY DEF Calls!Reschedule, CP!Reschedule, Calls!At, CP!At, Calls!JobOf, CP!JobOf,
         Calls!WillRetry, CP!WillRetry, Calls!NoMoreAttempts, CP!NoMoreAttempts,
         Calls!UintMinusOne, CP!UintMinusOne, Calls!NextJob, CP!NextJob,
         Calls!NextCounter, CP!NextCounter
<1>5. Calls!Finish(w) => CP!Finish(w)
  BY DEF Calls!Finish, CP!Finish, Calls!At, CP!At, Calls!Ends, CP!Ends,
         Calls!Idle, CP!Idle, Calls!Holding, CP!Holding
<1>6. Calls!CallEndpoint(w) => CP!CallEndpoint(w)
  BY DEF Calls!CallEndpoint, CP!CallEndpoint, Calls!At, CP!At, Calls!JobOf, CP!JobOf,
         Calls!Posted, CP!Posted, Calls!Result, CP!Result
<1>7. Calls!Commit(w) => CP!Commit(w)
  BY DEF Calls!Commit, CP!Commit, Calls!JobOf, CP!JobOf, Calls!WillRetry, CP!WillRetry,
         Calls!NoMoreAttempts, CP!NoMoreAttempts, Calls!UintMinusOne, CP!UintMinusOne,
         Calls!Charge, CP!Charge, Calls!Delivery, CP!Delivery, Calls!Holding, CP!Holding
<1> QED
  BY <1>1, <1>2, <1>3, <1>4, <1>5, <1>6, <1>7

LEMMA TimePasses ==
    ASSUME Calls!Time
    PROVE  CP!Time
BY DEF Calls!Time, CP!Time, Calls!BackoffElapses, CP!BackoffElapses

LEMMA WorkersDie ==
    ASSUME NEW p \in Process, Calls!Crash(p)
    PROVE  CP!Crash(p)
BY DEF Calls!Crash, CP!Crash, Calls!ProcessDies, CP!ProcessDies, Calls!Idle, CP!Idle,
       Calls!Holding, CP!Holding

LEMMA OwnerSwitches ==
    ASSUME NEW e, NEW s, Calls!UpdateEndpoint(e, s)
    PROVE  CP!UpdateEndpoint(e, s)
BY DEF Calls!UpdateEndpoint, CP!UpdateEndpoint

-----------------------------------------------------------------------------
(***************************************************************************)
(* The invariant: those of the two workers, and how the parts of the state *)
(* hang together.                                                          *)
(***************************************************************************)
\* The jobs the server made are those the mapping workers know of.
Queue ==
    /\ server \in {"sending", "told", "died"}
    /\ left \in Seq(Event) /\ queued \in Seq(Event)
    /\ {queued[i] : i \in DOMAIN queued} = {ev \in Event : mapping[ev] # "none"}

\* The two workers look at the same column of the endpoints.
OneStatus == status = [e \in Endpoint |-> endpoint[e].status]

\* A delivery that was not handed over is as if it were not there; one that was
\* has an attempt ahead while it has any left.
Used == {d \in Calls!Delivery : eventOf[d] # 0}
Rows ==
    /\ eventOf \in [Calls!Delivery -> Event \cup {0}]
    /\ \A d \in Calls!Delivery : eventOf[d] = 0 => CP!Untouched(d)
    /\ \A d \in Used : delivery[d].remaining > 0 => CP!Ahead(d)

\* The deliveries that were handed over are those the mapping workers enqueued
\* a job for, no more and no less.
For(job, d) == eventOf[d] = job.event /\ EndpointOf[d] = job.endpoint
HandedOver ==
    /\ \A i \in DOMAIN handed : handed[i].attempt # 0 /\ \E d \in Used : For(handed[i], d)
    /\ \A d \in Used : \E i \in DOMAIN handed : For(handed[i], d)
    /\ Cardinality(Used) = Len(handed)

ZInv ==
    /\ MP!CInv /\ CP!CInv
    /\ Queue /\ OneStatus /\ Rows /\ HandedOver /\ sentFirst \in Seq(Event)

LEMMA InitZInv == Init => ZInv
<1> SUFFICES ASSUME Init PROVE ZInv
  OBVIOUS
<1>1. MP!CInv
  <2>1. \A listens \in [Endpoint -> Listening], on \in SUBSET Endpoint :
           [e \in Endpoint |-> [status |-> IF e \in on THEN "enabled" ELSE "disabled",
                                listens |-> listens[e]]]
             \in [Endpoint -> [status : {"enabled", "disabled"}, listens : Listening]]
    OBVIOUS
  <2>2. endpoint \in [Endpoint -> [status : {"enabled", "disabled"}, listens : Listening]]
    BY <2>1 DEF Init
  <2>3. MP!Init
    BY <2>2, SameIds DEF Init, MP!Init, Mapping!Idle, MP!Idle
  <2> QED
    BY <2>3, MP!InitCInv, MapperAssumption
<1>2. CP!NothingYet
  BY SameIds DEF Init, CP!NothingYet, CP!FreshRow, Calls!Idle, CP!Idle, Calls!Holding, CP!Holding
<1>3. CP!CInv /\ \A d \in Calls!Delivery : CP!Untouched(d)
  BY <1>2, SameIds, CP!InitCInv, CP!NothingYetGood, DispatcherAssumption
<1>4. Queue
  <2>1. left \in Seq(Event)
    <3>1. Len(PriorityOf) \in Nat /\ left \in [1 .. Len(PriorityOf) -> Event]
      BY SameIds DEF Init, Event
    <3> QED
      BY <3>1, SeqDef
  <2> QED
    BY <2>1, EmptySeq DEF Init, Queue
<1>5. OneStatus
  BY DEF Init, OneStatus
<1>6. Used = {} /\ Rows
  BY <1>3 DEF Init, Used, Rows
<1>7. HandedOver
  BY <1>6, FS_EmptySet DEF Init, HandedOver
<1> QED
  BY <1>1, <1>3, <1>4, <1>5, <1>6, <1>7, EmptySeq DEF ZInv, Init

-----------------------------------------------------------------------------
(***************************************************************************)
(* What each action is for the two workers.                                *)
(***************************************************************************)
\* A change of the column status is a change of one row of the endpoints.
LEMMA StatusIsPut ==
    ASSUME ZInv, NEW e \in Endpoint, NEW s \in {"enabled", "disabled"},
           status' = [status EXCEPT ![e] = s], StatusChanges,
           UNCHANGED <<mapping, mdelivery, mattempts, handed, mwk, failures, crashes>>
    PROVE  /\ OneStatus'
           /\ \E row \in MP!EndpointRow : MP!Put(e, row)
<1>1. /\ endpoint \in [Endpoint -> MP!EndpointRow]
      /\ status = [x \in Endpoint |-> endpoint[x].status]
  BY DEF ZInv, OneStatus, MP!CInv, MP!SInv, MP!IInv, MP!TypeOK
<1>2. PICK row : row = [endpoint[e] EXCEPT !.status = s]
  OBVIOUS
<1>3. /\ row \in MP!EndpointRow /\ row.status = s
      /\ \A x \in Endpoint : [endpoint[x] EXCEPT !.status = endpoint[x].status] = endpoint[x]
  BY <1>1, <1>2 DEF MP!EndpointRow
<1>4. \A x \in Endpoint : status'[x] = IF x = e THEN s ELSE endpoint[x].status
  BY <1>1
<1>5. Table(status') = [endpoint EXCEPT ![e] = row]
  BY <1>1, <1>2, <1>3, <1>4 DEF Table
<1>6. endpoint' = [endpoint EXCEPT ![e] = row] /\ scope' = MP!ScopeWith([endpoint EXCEPT ![e] = row])
  BY <1>5, SameScope DEF StatusChanges
<1>7. MP!Put(e, row)
  BY <1>6 DEF MP!Put
<1>8. OneStatus'
  BY <1>1, <1>3, <1>6 DEF OneStatus
<1> QED
  BY <1>3, <1>7, <1>8

\* The server and the mapping workers, but for the hand-over.
LEMMA MapperSide ==
    ASSUME ZInv, \/ EnqueueEvent
                 \/ \E m \in Mapper : MapperPolls(m) \/ MapperSteps(m)
                 \/ \E p \in MapperProcess : MapperCrash(p)
    PROVE  MP!CInv' /\ CP!CInv'
<1>1. /\ MP!Next
      /\ UNCHANGED <<status, delivery, attempts, jobs, wk, posts>>
      /\ crashes' \in 0 .. MaxCrashes
  <2>0. crashes \in 0 .. MaxCrashes /\ MaxCrashes \in Nat
    BY ConstantsAssumption DEF ZInv, MP!CInv, MP!SInv, MP!IInv, MP!TypeOK
  <2>1. CASE EnqueueEvent
    <3>1. Head(left) \in Event
      BY <2>1, HeadTailProperties DEF EnqueueEvent, ZInv, Queue
    <3>2. MP!Submit(Head(left)) /\ crashes' = crashes
      BY <2>1, EventSubmitted DEF EnqueueEvent, Mapping!Submit
    <3> QED
      BY <2>0, <2>1, <3>1, <3>2, SameIds DEF EnqueueEvent, callVars, MP!Next
  <2>2. ASSUME NEW m \in Mapper, MapperPolls(m) \/ MapperSteps(m)
        PROVE  /\ MP!Poll(m) \/ MP!Handle(m)
               /\ UNCHANGED <<status, delivery, attempts, jobs, wk, posts, crashes>>
    <3>1. CASE MapperPolls(m)
      BY <3>1, MapperClaims DEF MapperPolls, Mapping!Claim, callVars
    <3>2. CASE MapperSteps(m)
      BY <3>2, MapperHandles DEF MapperSteps, Mapping!Select, Mapping!CreateDeliveries,
                                 Mapping!CreateAttempts, Mapping!Finish, callVars
    <3> QED
      BY <2>2, <3>1, <3>2
  <2>3. ASSUME NEW p \in MapperProcess, MapperCrash(p)
        PROVE  /\ MP!Crash(p) /\ crashes' \in 0 .. MaxCrashes
               /\ UNCHANGED <<status, delivery, attempts, jobs, wk, posts>>
    BY <2>0, <2>3, MapperDies DEF MapperCrash, Mapping!Crash, callVars
  <2> QED
    BY <2>0, <2>1, <2>2, <2>3 DEF MP!Next
<1>2. crashes' \in Nat
  BY <1>1, ConstantsAssumption
<1> QED
  BY <1>1, <1>2, MP!StepCInv, CP!ElsewhereCInv, MapperAssumption, DispatcherAssumption DEF ZInv

\* The endpoints' owners and the dispatcher workers.
LEMMA DispatcherSide ==
    ASSUME ZInv, \/ \E e \in Endpoint : \E s \in {"enabled", "disabled"} : UpdateEndpoint(e, s)
                 \/ \E w \in Worker : WorkerRuns(w)
                 \/ BackoffElapses
                 \/ \E p \in Process : WorkerCrash(p)
    PROVE  CP!Next /\ CP!CInv'
<1>1. CP!Next
  <2>1. ASSUME NEW e \in Endpoint, NEW s \in {"enabled", "disabled"}, UpdateEndpoint(e, s)
        PROVE  CP!Next
    BY <2>1, OwnerSwitches DEF UpdateEndpoint, CP!Next
  <2>2. ASSUME NEW w \in Worker, WorkerRuns(w)
        PROVE  CP!Next
    BY <2>2, WorkerClaims, WorkerHandles
    DEF WorkerRuns, WorkerPolls, WorkerSteps, WorkerPosts, WorkerCommits, CP!Next, CP!Handle
  <2>3. CASE BackoffElapses
    BY <2>3, TimePasses DEF BackoffElapses, CP!Next
  <2>4. ASSUME NEW p \in Process, WorkerCrash(p)
        PROVE  CP!Next
    BY <2>4, WorkersDie DEF WorkerCrash, CP!Next
  <2> QED
    BY <2>1, <2>2, <2>3, <2>4
<1> QED
  BY <1>1, CP!StepCInv, DispatcherAssumption DEF ZInv

\* What a commit does to the table of the endpoints: the row of one of them.
LEMMA CommitSwitches ==
    ASSUME ZInv, NEW w \in Worker, WorkerCommits(w)
    PROVE  \E e \in Endpoint, s \in {"enabled", "disabled"} : status' = [status EXCEPT ![e] = s]
<1>1. CP!Commit(w) /\ CP!IInv
  BY WorkerHandles DEF WorkerCommits, ZInv, CP!CInv
<1>2. wk[w].pc \in CP!InTx
  BY <1>1 DEF CP!Commit, CP!InTx
<1>3. wk[w].job \in CP!JobId /\ CP!JobOf(w).target \in Calls!Delivery
  <2>1. wk[w].job \in CP!JobId /\ \A j \in CP!JobId : jobs[j] \in CP!JobRow
    BY <1>1, <1>2, CP!InTransaction, CP!Lookups, DispatcherAssumption DEF CP!IInv
  <2> QED
    BY <2>1, SameIds DEF CP!JobOf, CP!JobRow
<1>4. PICK e \in Endpoint : e = EndpointOf[CP!JobOf(w).target]
  BY <1>3, SameIds
<1>5. status \in [Endpoint -> {"enabled", "disabled"}]
  BY <1>1 DEF CP!IInv, CP!TypeOK
<1>6. status' = [status EXCEPT ![e] = "disabled"] \/ status' = [status EXCEPT ![e] = status[e]]
  BY <1>1, <1>4, <1>5 DEF CP!Commit
<1> QED
  BY <1>5, <1>6

\* Both invariants hold on, and the column stays one.
LEMMA OwnerStep ==
    ASSUME ZInv, \/ \E e \in Endpoint : \E s \in {"enabled", "disabled"} : UpdateEndpoint(e, s)
                 \/ \E w \in Worker : WorkerCommits(w)
    PROVE  /\ OneStatus' /\ MP!CInv'
           /\ \E e \in Endpoint : \E row \in MP!EndpointRow : MP!Put(e, row)
<1>1. PICK e \in Endpoint, s \in {"enabled", "disabled"} :
          /\ status' = [status EXCEPT ![e] = s] /\ StatusChanges
          /\ UNCHANGED <<mapping, mdelivery, mattempts, handed, mwk, failures, crashes>>
  <2>1. ASSUME NEW e \in Endpoint, NEW s \in {"enabled", "disabled"}, UpdateEndpoint(e, s)
        PROVE  /\ status' = [status EXCEPT ![e] = s] /\ StatusChanges
               /\ UNCHANGED <<mapping, mdelivery, mattempts, handed, mwk, failures, crashes>>
    BY <2>1 DEF UpdateEndpoint, Calls!UpdateEndpoint, mappingVars
  <2>2. ASSUME NEW w \in Worker, WorkerCommits(w)
        PROVE  /\ StatusChanges
               /\ UNCHANGED <<mapping, mdelivery, mattempts, handed, mwk, failures, crashes>>
    BY <2>2 DEF WorkerCommits, Calls!Commit, mappingVars
  <2> QED
    BY <2>1, <2>2, CommitSwitches
<1>2. OneStatus' /\ \E row \in MP!EndpointRow : MP!Put(e, row)
  BY <1>1, StatusIsPut
<1> QED
  BY <1>2, MP!PutCInv, MapperAssumption DEF ZInv

\* The steps that change nothing but, maybe, the count of the crashes.
CrashCounted ==
    \/ crashes' = crashes
    \/ crashes < MaxCrashes /\ crashes' = crashes + 1

LEMMA CrashCount ==
    ASSUME ZInv, CrashCounted
    PROVE  crashes' \in 0 .. MaxCrashes /\ crashes' \in Nat
BY ConstantsAssumption DEF CrashCounted, ZInv, MP!CInv, MP!SInv, MP!IInv, MP!TypeOK

LEMMA MapperElsewhere ==
    ASSUME ZInv, UNCHANGED <<endpoint, mappingVars, scope>>,
           CrashCounted
    PROVE  MP!CInv'
BY CrashCount, MP!ElsewhereCInv, MapperAssumption DEF ZInv, mappingVars

LEMMA DispatcherElsewhere ==
    ASSUME ZInv, UNCHANGED <<status, callVars>>,
           CrashCounted
    PROVE  CP!CInv'
BY CrashCount, CP!ElsewhereCInv, DispatcherAssumption DEF ZInv, callVars

\* The rest of the dispatcher workers leave the tables of the others alone.
LEMMA WorkerStep ==
    ASSUME ZInv, \/ \E w \in Worker : WorkerPolls(w) \/ WorkerSteps(w) \/ WorkerPosts(w)
                 \/ BackoffElapses
                 \/ \E p \in Process : WorkerCrash(p)
    PROVE  /\ UNCHANGED <<endpoint, status, mappingVars, scope>>
           /\ CrashCounted
           /\ MP!CInv'
<1>1. /\ UNCHANGED <<endpoint, status, mappingVars, scope>>
      /\ CrashCounted
  <2> USE DEF CrashCounted
  <2>1. ASSUME NEW w \in Worker, WorkerPolls(w) \/ WorkerPosts(w)
        PROVE  UNCHANGED <<endpoint, status, mappingVars, scope, crashes>>
    BY <2>1 DEF WorkerPolls, WorkerPosts, Calls!Claim, Calls!CallEndpoint
  <2>2. ASSUME NEW w \in Worker, WorkerSteps(w)
        PROVE  UNCHANGED <<endpoint, status, mappingVars, scope, crashes>>
    BY <2>2 DEF WorkerSteps, Calls!LoadAttempt, Calls!PanicRecovered, Calls!ReadDelivery,
                Calls!Reschedule, Calls!Finish
  <2>3. CASE BackoffElapses
    BY <2>3 DEF BackoffElapses, Calls!Time, Calls!BackoffElapses
  <2>4. ASSUME NEW p \in Process, WorkerCrash(p)
        PROVE  /\ UNCHANGED <<endpoint, status, mappingVars, scope>>
               /\ crashes < MaxCrashes /\ crashes' = crashes + 1
    BY <2>4 DEF WorkerCrash, Calls!Crash, Calls!ProcessDies
  <2> QED
    BY <2>1, <2>2, <2>3, <2>4
<1> QED
  BY <1>1, MapperElsewhere

\* The hand-over: the job a mapping worker enqueues names an attempt, and brings
\* the dispatcher workers the delivery of its event for its endpoint.
Brings(job, d) ==
    /\ job \in MP!JobRow /\ job.event \in Event /\ job.endpoint \in Endpoint /\ job.attempt # 0
    /\ d \in Calls!Delivery /\ eventOf[d] = 0 /\ EndpointOf[d] = job.endpoint
    /\ eventOf' = [eventOf EXCEPT ![d] = job.event]
    /\ handed' = Append(handed, job)
    /\ CP!Untouched(d) /\ CP!Enters(d)

LEMMA HandOverStep ==
    ASSUME ZInv, NEW m \in Mapper, HandOver(m)
    PROVE  /\ \E job, d : Brings(job, d)
           /\ MP!Next /\ MP!CInv' /\ CP!CInv'
           /\ UNCHANGED <<serverVars, queued, endpoint, status, mapping, scope, posts, delivery,
                          sentFirst, crashes>>
<1>1. MP!Enqueue(m) /\ MP!Handle(m) /\ MP!Next
  BY MapperHandles DEF HandOver, MP!Next
<1>2. PICK job : job = MP!Payload(mwk[m], mwk[m].sent + 1)
  OBVIOUS
<1>3. /\ job \in MP!JobRow /\ job.attempt # 0 /\ handed' = Append(handed, job)
      /\ UNCHANGED <<mapping, endpoint, scope, crashes>>
  BY <1>1, <1>2, MP!EnqueueNames, MapperAssumption DEF ZInv
<1>4. job.event \in Event /\ job.endpoint \in Endpoint
  BY <1>3, SameIds DEF MP!JobRow
<1>5. job = Mapping!Payload(mwk[m], mwk[m].sent + 1)
  BY <1>2 DEF MP!Payload, Mapping!Payload
<1>6. PICK d \in Calls!Delivery :
          /\ NextFree(d, job.endpoint)
          /\ eventOf' = [eventOf EXCEPT ![d] = job.event]
          /\ attempts' = Append(attempts, [delivery |-> d, status |-> "pending",
                                           row |-> "committed"])
          /\ jobs' = Append(jobs, FirstJob(Len(attempts) + 1, d))
  BY <1>5 DEF HandOver
<1>7. /\ UNCHANGED <<serverVars, queued, status, delivery, wk, posts, sentFirst>>
  BY DEF HandOver
<1>8. eventOf[d] = 0 /\ EndpointOf[d] = job.endpoint /\ CP!Untouched(d)
  BY <1>6 DEF NextFree, Free, ZInv, Rows
<1>9. CP!Enters(d)
  BY <1>3, <1>6, <1>7 DEF CP!Enters, CP!FirstAttempt, CP!FirstJob, FirstJob
<1>10. MP!CInv'
  BY <1>1, MP!StepCInv, MapperAssumption DEF ZInv
<1>11. CP!CInv'
  BY <1>6, <1>8, <1>9, SameIds, ConstantsAssumption, CP!EntersCInv, DispatcherAssumption DEF ZInv
<1>12. Brings(job, d)
  BY <1>3, <1>4, <1>6, <1>8, <1>9 DEF Brings
<1> QED
  BY <1>1, <1>3, <1>7, <1>10, <1>11, <1>12

-----------------------------------------------------------------------------
(***************************************************************************)
(* The links between the parts.                                            *)
(***************************************************************************)
\* A step of the dispatcher workers, or of none of them.
LEMMA RowsKept ==
    ASSUME ZInv, UNCHANGED eventOf, CP!Next \/ UNCHANGED callVars
    PROVE  Rows' /\ Used' = Used
<1>1. Used' = Used
  BY DEF Used
<1>2. ASSUME UNCHANGED callVars
      PROVE  Rows'
  BY <1>1, <1>2 DEF callVars, ZInv, Rows, CP!Untouched, CP!Ahead, CP!Pending, CP!Visible,
                    CP!AttemptId, CP!JobId, CP!FreshRow
<1>3. ASSUME CP!Next
      PROVE  Rows'
  <2>1. ASSUME NEW d \in Calls!Delivery, eventOf[d] = 0
        PROVE  CP!Untouched(d)'
    BY <1>3, <2>1, SameIds, CP!UntouchedStep, DispatcherAssumption DEF ZInv, Rows, CP!CInv
  <2>2. ASSUME NEW d \in Used
        PROVE  (delivery[d].remaining > 0 => CP!Ahead(d))'
    <3>1. d \in CP!Delivery /\ (delivery[d].remaining > 0 => CP!Ahead(d))
      BY SameIds DEF Used, ZInv, Rows
    <3> QED
      BY <1>3, <3>1, CP!AheadStep, DispatcherAssumption DEF ZInv, CP!CInv, CP!Loads
  <2> QED
    BY <1>1, <2>1, <2>2 DEF ZInv, Rows
<1> QED
  BY <1>1, <1>2, <1>3

LEMMA HandedKept ==
    ASSUME ZInv, UNCHANGED <<eventOf, handed>>
    PROVE  HandedOver'
BY DEF ZInv, HandedOver, Used, For

\* A hand-over uses one more delivery, for one more job.
LEMMA BringsLinks ==
    ASSUME ZInv, NEW job, NEW d, Brings(job, d)
    PROVE  Rows' /\ HandedOver' /\ Used' = Used \cup {d} /\ d \notin Used
<1>1. /\ d \in Calls!Delivery /\ d \in CP!Delivery /\ eventOf[d] = 0
      /\ eventOf \in [Calls!Delivery -> Event \cup {0}]
      /\ CP!IInv
  BY SameIds DEF Brings, ZInv, Rows, CP!CInv
<1>2. /\ job.event \in Event /\ job.event # 0
      /\ eventOf' \in [Calls!Delivery -> Event \cup {0}]
      /\ eventOf'[d] = job.event
      /\ \A e \in Calls!Delivery : e # d => eventOf'[e] = eventOf[e]
  BY <1>1, SameIds DEF Brings
<1>3. Used' = Used \cup {d} /\ d \notin Used
  BY <1>1, <1>2 DEF Used
<1>4. ASSUME NEW e \in Calls!Delivery
      PROVE  /\ delivery' = delivery
             /\ CP!Ahead(e) \/ e = d => CP!Ahead(e)'
             /\ CP!Untouched(e) /\ e # d => CP!Untouched(e)'
  BY <1>1, SameIds, CP!EntersSettlesNothing, DispatcherAssumption DEF Brings
<1>5. Rows'
  <2>1. ASSUME NEW e \in Calls!Delivery, eventOf'[e] = 0
        PROVE  CP!Untouched(e)'
    BY <1>2, <1>4, <2>1 DEF ZInv, Rows
  <2>2. ASSUME NEW e \in Used'
        PROVE  (delivery[e].remaining > 0 => CP!Ahead(e))'
    <3>1. e \in Calls!Delivery
      BY <1>1, <1>3 DEF Used
    <3>2. CASE e = d
      BY <1>4, <3>1, <3>2
    <3>3. CASE e # d
      <4>1. e \in Used
        BY <1>3, <3>3
      <4> QED
        BY <1>4, <3>1, <4>1 DEF ZInv, Rows
    <3> QED
      BY <3>2, <3>3
  <2> QED
    BY <1>2, <2>1, <2>2 DEF Rows
<1>6. /\ handed \in Seq(MP!JobRow) /\ job \in MP!JobRow
      /\ Len(handed) \in Nat /\ DOMAIN handed = 1 .. Len(handed)
  BY LenProperties DEF Brings, ZInv, MP!CInv, MP!SInv, MP!IInv, MP!TypeOK
<1>7. PICK n : n = Len(handed) + 1
  OBVIOUS
<1>8. /\ Len(handed') = n /\ DOMAIN handed' = 1 .. n
      /\ handed'[n] = job /\ \A i \in 1 .. Len(handed) : handed'[i] = handed[i]
  BY <1>6, <1>7, AppendProperties, LenProperties DEF Brings
<1>9. DOMAIN handed' = DOMAIN handed \cup {n} /\ n \in DOMAIN handed'
  BY <1>6, <1>7, <1>8
<1>10. Cardinality(Used') = Len(handed')
  <2>1. IsFiniteSet(Used)
    <3>1. Used \subseteq 1 .. Len(EndpointOf) /\ IsFiniteSet(1 .. Len(EndpointOf))
      BY SameIds, FS_Interval DEF Used
    <3> QED
      BY <3>1, FS_Subset
  <2>2. Cardinality(Used \cup {d}) = Cardinality(Used) + 1
    BY <1>3, <2>1, FS_AddElement
  <2>3. Cardinality(Used) = Len(handed)
    BY DEF ZInv, HandedOver
  <2> QED
    BY <1>3, <1>7, <1>8, <2>2, <2>3
<1>11. \A i \in DOMAIN handed' : handed'[i].attempt # 0 /\ \E e \in Used' : For(handed[i], e)'
  <2>1. ASSUME NEW i \in DOMAIN handed
        PROVE  handed'[i].attempt # 0 /\ \E e \in Used' : For(handed[i], e)'
    <3>1. PICK e \in Used : For(handed[i], e)
      BY DEF ZInv, HandedOver
    <3>2. e \in Calls!Delivery /\ e # d /\ handed'[i] = handed[i] /\ handed[i].attempt # 0
      BY <1>3, <1>6, <1>8 DEF Used, ZInv, HandedOver
    <3> QED
      BY <1>2, <1>3, <3>1, <3>2 DEF For
  <2>2. handed'[n].attempt # 0 /\ \E e \in Used' : For(handed[n], e)'
    BY <1>2, <1>3, <1>8 DEF Brings, For
  <2> QED
    BY <1>9, <2>1, <2>2
<1>12. \A e \in Used' : \E i \in DOMAIN handed' : For(handed[i], e)'
  <2>1. ASSUME NEW e \in Used
        PROVE  \E i \in DOMAIN handed' : For(handed[i], e)'
    <3>1. PICK i \in DOMAIN handed : For(handed[i], e)
      BY DEF ZInv, HandedOver
    <3>2. e \in Calls!Delivery /\ e # d /\ i \in DOMAIN handed' /\ handed'[i] = handed[i]
      BY <1>3, <1>6, <1>8, <1>9 DEF Used
    <3> QED
      BY <1>2, <3>1, <3>2 DEF For
  <2>2. For(handed[n], d)'
    BY <1>2, <1>8 DEF Brings, For
  <2> QED
    BY <1>3, <1>9, <2>1, <2>2
<1> QED
  BY <1>3, <1>5, <1>10, <1>11, <1>12 DEF HandedOver

\* The jobs of the server: no step but a submission adds one.
LEMMA QueueKept ==
    ASSUME ZInv, server' \in {"sending", "told", "died"}, UNCHANGED <<left, queued>>,
           \A ev \in Event : mapping'[ev] = "none" <=> mapping[ev] = "none"
    PROVE  Queue'
BY DEF ZInv, Queue

LEMMA SubmissionQueued ==
    ASSUME ZInv, EnqueueEvent
    PROVE  /\ Queue' /\ Head(left) \in Event /\ mapping[Head(left)] = "none"
           /\ mapping' = [mapping EXCEPT ![Head(left)] = "queued"]
           /\ MP!Submit(Head(left)) /\ UNCHANGED <<endpoint, handed, crashes>>
<1>1. PICK ev : ev = Head(left)
  OBVIOUS
<1>2. /\ left \in Seq(Event) /\ left # <<>> /\ queued \in Seq(Event)
      /\ left' = Tail(left) /\ queued' = Append(queued, ev) /\ server' = server
  BY <1>1 DEF EnqueueEvent, ZInv, Queue
<1>3. ev \in Event /\ left' \in Seq(Event)
  BY <1>1, <1>2, HeadTailProperties
<1>4. MP!Submit(ev)
  BY <1>1, EventSubmitted DEF EnqueueEvent
<1>5. /\ mapping[ev] = "none" /\ mapping' = [mapping EXCEPT ![ev] = "queued"]
      /\ UNCHANGED <<endpoint, handed, crashes>>
  BY <1>4 DEF MP!Submit
<1>6. mapping \in [Event -> {"none", "queued", "running", "done"}]
  BY SameIds DEF ZInv, MP!CInv, MP!SInv, MP!IInv, MP!TypeOK
<1>7. PICK n : n = Len(queued) + 1
  OBVIOUS
<1>8. /\ queued' \in Seq(Event) /\ DOMAIN queued' = 1 .. n /\ DOMAIN queued = 1 .. Len(queued)
      /\ Len(queued) \in Nat
      /\ queued'[n] = ev /\ \A i \in 1 .. Len(queued) : queued'[i] = queued[i]
  BY <1>2, <1>3, <1>7, AppendProperties, LenProperties
<1>9. {queued'[i] : i \in DOMAIN queued'} = {queued[i] : i \in DOMAIN queued} \cup {ev}
  <2>1. DOMAIN queued' = DOMAIN queued \cup {n}
    BY <1>7, <1>8
  <2>2. \A i \in DOMAIN queued : queued'[i] = queued[i]
    BY <1>8
  <2>3. queued'[n] = ev
    BY <1>8
  <2> QED
    BY <2>1, <2>2, <2>3
<1>10. {x \in Event : mapping'[x] # "none"} = {x \in Event : mapping[x] # "none"} \cup {ev}
  BY <1>3, <1>5, <1>6
<1>11. Queue'
  BY <1>2, <1>3, <1>8, <1>9, <1>10 DEF ZInv, Queue
<1> QED
  BY <1>1, <1>3, <1>4, <1>5, <1>11

\* A POST is for a delivery that was handed over.
LEMMA PostedEvent ==
    ASSUME ZInv, NEW w \in Worker, WorkerPosts(w), NEW d, d = Calls!JobOf(w).target
    PROVE  /\ d \in Used /\ d \in Calls!Delivery /\ eventOf[d] \in Event
           /\ EndpointOf[d] \in Endpoint
           /\ UNCHANGED <<delivery, attempts, status, crashes>>
           /\ posts' = [posts EXCEPT ![d] = CP!Posted(@)]
           /\ sentFirst' \in Seq(Event)
<1>1. CP!CallEndpoint(w) /\ CP!IInv
  BY WorkerHandles DEF WorkerPosts, ZInv, CP!CInv
<1>2. d = CP!JobOf(w).target
  BY DEF Calls!JobOf, CP!JobOf
<1>3. /\ d \in Calls!Delivery /\ wk[w].job \in CP!JobId
      /\ posts' = [posts EXCEPT ![d] = CP!Posted(@)]
      /\ UNCHANGED <<delivery, attempts, status, crashes>>
  BY <1>1, <1>2, SameIds, CP!CallDoes, DispatcherAssumption DEF CP!Local
<1>4. ~CP!Untouched(d)
  BY <1>2, <1>3 DEF CP!Untouched, CP!JobOf
<1>5. d \in Used /\ eventOf[d] \in Event
  BY <1>3, <1>4 DEF Used, ZInv, Rows
<1>6. sentFirst' = sentFirst \/ sentFirst' = Append(sentFirst, eventOf[d])
  BY DEF WorkerPosts
<1>7. sentFirst' \in Seq(Event)
  BY <1>5, <1>6, AppendProperties DEF ZInv
<1> QED
  BY <1>3, <1>5, <1>7, SameIds

\* The mapping workers, but for the hand-over, change nothing the others see.
LEMMA MapperStep ==
    ASSUME ZInv, \/ \E m \in Mapper : MapperPolls(m) \/ MapperSteps(m)
                 \/ \E p \in MapperProcess : MapperCrash(p)
    PROVE  /\ UNCHANGED <<serverVars, queued, endpoint, status, handed, scope, callVars, linkVars>>
           /\ \A ev \in Event : mapping'[ev] = "none" <=> mapping[ev] = "none"
<1>1. ASSUME NEW m \in Mapper, MapperPolls(m) \/ MapperSteps(m)
      PROVE  /\ MP!Poll(m) \/ MP!Handle(m)
             /\ UNCHANGED <<serverVars, queued, status, handed, callVars, linkVars>>
  <2>1. CASE MapperPolls(m)
    BY <2>1, MapperClaims DEF MapperPolls, Mapping!Claim
  <2>2. CASE MapperSteps(m)
    BY <2>2, MapperHandles DEF MapperSteps, Mapping!Select, Mapping!CreateDeliveries,
                               Mapping!CreateAttempts, Mapping!Finish
  <2> QED
    BY <1>1, <2>1, <2>2
<1>2. ASSUME NEW p \in MapperProcess, MapperCrash(p)
      PROVE  /\ MP!Crash(p)
             /\ UNCHANGED <<serverVars, queued, status, handed, callVars, linkVars>>
  BY <1>2, MapperDies DEF MapperCrash, Mapping!Crash
<1>3. MP!IInv
  BY DEF ZInv, MP!CInv, MP!SInv
<1> QED
  BY <1>1, <1>2, <1>3, SameIds, MP!WorkersSubmitNothing, MapperAssumption

LEMMA StepZInv == ZInv /\ [Next]_vars => ZInv'
<1> SUFFICES ASSUME ZInv, [Next]_vars PROVE ZInv'
  OBVIOUS
<1>1. /\ server \in {"sending", "told", "died"} /\ sentFirst \in Seq(Event)
  BY DEF ZInv, Queue
<1>2. ASSUME UNCHANGED <<endpoint, status>> PROVE OneStatus'
  BY <1>2 DEF ZInv, OneStatus
<1>3. CASE EnqueueEvent
  <2>1. MP!CInv' /\ CP!CInv'
    BY <1>3, MapperSide
  <2>2. Queue' /\ UNCHANGED <<endpoint, handed, status, callVars, linkVars>>
    BY <1>3, SubmissionQueued DEF EnqueueEvent
  <2>3. Rows' /\ HandedOver'
    BY <2>2, RowsKept, HandedKept DEF linkVars
  <2> QED
    BY <1>1, <1>2, <2>1, <2>2, <2>3 DEF ZInv, linkVars
<1>4. ASSUME server' \in {"sending", "told", "died"}, CrashCounted,
             UNCHANGED <<left, queued, endpoint, status, mappingVars, scope, callVars, linkVars>>
      PROVE  ZInv'
  <2>1. MP!CInv' /\ CP!CInv'
    BY <1>4, MapperElsewhere, DispatcherElsewhere
  <2>2. Queue'
    BY <1>4, QueueKept DEF mappingVars
  <2>3. Rows' /\ HandedOver'
    BY <1>4, RowsKept, HandedKept DEF linkVars, mappingVars
  <2> QED
    BY <1>1, <1>2, <1>4, <2>1, <2>2, <2>3 DEF ZInv, linkVars
<1>5. CASE Tell \/ ServerDies \/ UNCHANGED vars
  BY <1>1, <1>4, <1>5 DEF Tell, ServerDies, vars, serverVars, CrashCounted
<1>6. CASE \/ \E m \in Mapper : MapperPolls(m) \/ MapperSteps(m)
           \/ \E p \in MapperProcess : MapperCrash(p)
  <2>1. MP!CInv' /\ CP!CInv'
    BY <1>6, MapperSide
  <2>2. /\ UNCHANGED <<serverVars, queued, endpoint, status, handed, scope, callVars, linkVars>>
        /\ \A ev \in Event : mapping'[ev] = "none" <=> mapping[ev] = "none"
    BY <1>6, MapperStep
  <2>3. Queue' /\ Rows' /\ HandedOver'
    BY <1>1, <2>2, QueueKept, RowsKept, HandedKept DEF linkVars, serverVars
  <2> QED
    BY <1>1, <1>2, <2>1, <2>2, <2>3 DEF ZInv, linkVars
<1>7. ASSUME NEW m \in Mapper, HandOver(m) PROVE ZInv'
  <2>1. PICK job, d : Brings(job, d)
    BY <1>7, HandOverStep
  <2>2. /\ MP!CInv' /\ CP!CInv'
        /\ UNCHANGED <<serverVars, queued, endpoint, status, mapping, sentFirst>>
    BY <1>7, HandOverStep
  <2>3. Rows' /\ HandedOver'
    BY <2>1, BringsLinks
  <2>4. Queue'
    BY <1>1, <2>2, QueueKept DEF serverVars
  <2> QED
    BY <1>1, <1>2, <2>2, <2>3, <2>4 DEF ZInv
<1>8. CASE \/ \E e \in Endpoint : \E s \in {"enabled", "disabled"} : UpdateEndpoint(e, s)
           \/ \E w \in Worker : WorkerRuns(w)
           \/ BackoffElapses
           \/ \E p \in Process : WorkerCrash(p)
  <2>1. CP!Next /\ CP!CInv'
    BY <1>8, DispatcherSide
  <2>2. UNCHANGED <<serverVars, queued, mappingVars, eventOf>>
    BY <1>8 DEF UpdateEndpoint, WorkerRuns, WorkerPolls, WorkerSteps, WorkerPosts,
                WorkerCommits, BackoffElapses, WorkerCrash, linkVars
  <2>3. Rows' /\ HandedOver' /\ Queue'
    BY <1>1, <2>1, <2>2, RowsKept, HandedKept, QueueKept DEF serverVars, mappingVars
  <2>4. sentFirst' \in Seq(Event)
    <3>1. (\E w \in Worker : WorkerPosts(w)) \/ sentFirst' = sentFirst
      BY <1>8 DEF UpdateEndpoint, WorkerRuns, WorkerPolls, WorkerSteps,
                  WorkerCommits, BackoffElapses, WorkerCrash, linkVars
    <3> QED
      BY <1>1, <3>1, PostedEvent
  <2>5. MP!CInv' /\ OneStatus'
    <3>1. CASE \/ \E e \in Endpoint : \E s \in {"enabled", "disabled"} : UpdateEndpoint(e, s)
               \/ \E w \in Worker : WorkerCommits(w)
      BY <3>1, OwnerStep
    <3>2. CASE \/ \E w \in Worker : WorkerPolls(w) \/ WorkerSteps(w) \/ WorkerPosts(w)
               \/ BackoffElapses
               \/ \E p \in Process : WorkerCrash(p)
      BY <1>2, <3>2, WorkerStep
    <3> QED
      BY <1>8, <3>1, <3>2 DEF WorkerRuns
  <2> QED
    BY <2>1, <2>3, <2>4, <2>5 DEF ZInv
<1> QED
  BY <1>3, <1>5, <1>6, <1>7, <1>8 DEF Next, MapperRuns

\* ZInv holds.
THEOREM Invariance == Spec => []ZInv
BY InitZInv, StepZInv, PTL DEF Spec

\* Every variable keeps its type, and the components agree about the rows they
\* share: the status of each endpoint, and for each job that was handed over the
\* delivery and the attempt it names (eventMapping/main.go, lines 120-132).
THEOREM TypeCorrectness == Spec => []TypeOK
<1>1. ASSUME ZInv PROVE TypeOK
  <2>1. /\ mapping \in [Event -> {"none", "queued", "running", "done"}]
        /\ endpoint \in [Endpoint -> Mapping!EndpointRow]
        /\ mwk \in [Mapper -> Mapping!Goroutine]
        /\ handed \in Seq(MP!JobRow) /\ MP!JobsNameTheirAttempt
    BY <1>1, SameIds
    DEF ZInv, MP!CInv, MP!SInv, MP!IInv, MP!TypeOK, MP!EndpointRow, Mapping!EndpointRow,
        MP!Goroutine, Mapping!Goroutine
  <2>2. Calls!TypeOK
    <3>1. CP!TypeOK
      BY <1>1 DEF ZInv, CP!CInv, CP!IInv
    <3> QED
      BY <3>1 DEF CP!TypeOK, Calls!TypeOK, CP!Delivery, Calls!Delivery,
                  CP!DeliveryRow, Calls!DeliveryRow, CP!AttemptRow, Calls!AttemptRow,
                  CP!JobRow, Calls!JobRow, CP!Goroutine, Calls!Goroutine, CP!Result, Calls!Result,
                  CP!JobId, Calls!JobId
  <2>3. ASSUME NEW i \in DOMAIN handed
        PROVE  \E d \in Calls!Delivery :
                  /\ handed[i].attempt \in DOMAIN mattempts
                  /\ mdelivery[mattempts[handed[i].attempt]] =
                        [event |-> eventOf[d], endpoint |-> EndpointOf[d]]
    <3>1. PICK d \in Used : For(handed[i], d) /\ handed[i].attempt # 0
      BY <1>1 DEF ZInv, HandedOver
    <3> QED
      BY <2>1, <3>1 DEF MP!JobsNameTheirAttempt, MP!JobId, For, Used
  <2> QED
    BY <1>1, <2>1, <2>2, <2>3 DEF ZInv, Queue, OneStatus, HandedOver, Used, TypeOK
<1> QED
  BY <1>1, Invariance, PTL

-----------------------------------------------------------------------------
(***************************************************************************)
(* What the outbox sees of a state (Promise in Zebrahook).                 *)
(***************************************************************************)
Sub == {ev \in Event : mapping[ev] # "none"}
Lis == [ev \in Event |-> Mapping!Listeners(endpoint, ev)]
Hrd == [ev \in Event |-> scope[ev].ever]
Let == [ev \in Event |-> [e \in Endpoint |-> Letter(ev, e)]]
Snt == {p \in Event \X Endpoint : \E d \in Calls!Delivery :
            eventOf[d] = p[1] /\ EndpointOf[d] = p[2] /\ posts[d] > 0}

\* Whoever listens now has heard the events that were submitted.
HearsNow == Hrd' = [ev \in Event |-> IF ev \in Sub THEN Hrd[ev] \cup Lis'[ev] ELSE Hrd[ev]]

\* The steps of the outbox, in these terms.
LEMMA Quiet ==
    ASSUME Sub' = Sub, Lis' = Lis, Hrd' = Hrd, Let' = Let, Snt' = Snt
    PROVE  [Promise!Next]_(Promise!vars)
BY DEF Promise!vars, Sub, Lis, Hrd, Let, Snt

LEMMA IsSubmit ==
    ASSUME NEW ev \in Event, ev \notin Sub, Sub' = Sub \cup {ev}, Lis' = Lis,
           Hrd' = [x \in Event |-> IF x \in Sub \cup {ev} THEN Hrd[x] \cup Lis[x] ELSE Hrd[x]],
           Let' = Let, Snt' = Snt
    PROVE  Promise!Next
<1>1. Promise!Submit(ev)
  BY DEF Promise!Submit, Promise!Hear, Sub, Lis, Hrd, Let, Snt
<1> QED
  BY <1>1 DEF Promise!Next

LEMMA IsSwitch ==
    ASSUME Lis' \in [Event -> SUBSET Endpoint], Sub' = Sub, HearsNow, Let' = Let, Snt' = Snt
    PROVE  Promise!Next
<1>1. PICK now \in [Event -> SUBSET Endpoint] : now = Lis'
  OBVIOUS
<1>2. Promise!Switch(now)
  BY <1>1 DEF HearsNow, Promise!Switch, Promise!Hear, Sub, Lis, Hrd, Let, Snt
<1> QED
  BY <1>2 DEF Promise!Next

LEMMA IsOwe ==
    ASSUME NEW ev \in Event, NEW e \in Endpoint, e \in Hrd[ev], Let[ev][e] \in {"none", "abandoned"},
           Let' = [Let EXCEPT ![ev][e] = "owed"],
           Sub' = Sub, Lis' = Lis, Hrd' = Hrd, Snt' = Snt
    PROVE  Promise!Next
<1>1. Promise!Owe(ev, e)
  BY DEF Promise!Owe, Promise!Becomes, Sub, Lis, Hrd, Let, Snt
<1> QED
  BY <1>1 DEF Promise!Next

LEMMA IsSend ==
    ASSUME NEW ev \in Event, NEW e \in Endpoint, Let[ev][e] # "none",
           Snt' = Snt \cup {<<ev, e>>},
           Sub' = Sub, Lis' = Lis, Hrd' = Hrd, Let' = Let
    PROVE  Promise!Next
<1>1. Promise!Send(ev, e)
  BY DEF Promise!Send, Sub, Lis, Hrd, Let, Snt
<1> QED
  BY <1>1 DEF Promise!Next

LEMMA IsDeliver ==
    ASSUME NEW ev \in Event, NEW e \in Endpoint, Let[ev][e] = "owed", <<ev, e>> \in Snt,
           Let' = [Let EXCEPT ![ev][e] = "delivered"],
           Sub' = Sub, Lis' = Lis, Hrd' = Hrd, Snt' = Snt
    PROVE  Promise!Next
<1>1. Promise!Deliver(ev, e)
  BY DEF Promise!Deliver, Promise!Becomes, Sub, Lis, Hrd, Let, Snt
<1> QED
  BY <1>1 DEF Promise!Next

LEMMA IsAbandon ==
    ASSUME NEW ev \in Event, NEW e \in Endpoint, Let[ev][e] = "owed", <<ev, e>> \in Snt,
           Let' = [Let EXCEPT ![ev][e] = "abandoned"],
           Lis' = [x \in Event |-> Lis[x] \ {e}], HearsNow, Sub' = Sub, Snt' = Snt
    PROVE  Promise!Next
<1>1. Promise!Abandon(ev, e)
  BY DEF HearsNow, Promise!Abandon, Promise!Becomes, Promise!Hear, Sub, Lis, Hrd, Let, Snt
<1> QED
  BY <1>1 DEF Promise!Next

-----------------------------------------------------------------------------
(***************************************************************************)
(* How a letter depends on the copies of the delivery.                     *)
(***************************************************************************)
Copies(ev, e) == {d \in Calls!Delivery : eventOf[d] = ev /\ EndpointOf[d] = e}

LEMMA LetterIs ==
    ASSUME NEW ev, NEW e
    PROVE  /\ Copies(ev, e) = {} => Letter(ev, e) = "none"
           /\ (\E d \in Copies(ev, e) : CP!Won(d)) => Letter(ev, e) = "delivered"
           /\ Copies(ev, e) # {} /\ (\A d \in Copies(ev, e) : ~CP!Won(d)) =>
                 Letter(ev, e) = IF \E d \in Copies(ev, e) : delivery[d].remaining > 0
                                 THEN "owed" ELSE "abandoned"
<1>1. PICK copies : copies = Copies(ev, e)
  OBVIOUS
<1>2. \A d : Succeeded(d) <=> CP!Won(d)
  BY DEF Succeeded, CP!Won, CP!AttemptId
<1> QED
  BY <1>1, <1>2 DEF Letter, Copies

LEMMA LetterWillBe ==
    ASSUME NEW ev, NEW e
    PROVE  /\ Copies(ev, e)' = {} => Letter(ev, e)' = "none"
           /\ (\E d \in Copies(ev, e)' : CP!Won(d)') => Letter(ev, e)' = "delivered"
           /\ Copies(ev, e)' # {} /\ (\A d \in Copies(ev, e)' : ~CP!Won(d)') =>
                 Letter(ev, e)' = IF \E d \in Copies(ev, e)' : delivery'[d].remaining > 0
                                  THEN "owed" ELSE "abandoned"
<1>1. PICK copies : copies = Copies(ev, e)'
  OBVIOUS
<1>2. \A d : Succeeded(d)' <=> CP!Won(d)'
  BY DEF Succeeded, CP!Won, CP!AttemptId
<1> QED
  BY <1>1, <1>2 DEF Letter, Copies

\* A letter stays as it is while its copies do.
LEMMA LetterKept ==
    ASSUME NEW ev, NEW e, Copies(ev, e)' = Copies(ev, e),
           \A d \in Copies(ev, e) : /\ CP!Won(d)' <=> CP!Won(d)
                                    /\ delivery'[d].remaining > 0 <=> delivery[d].remaining > 0
    PROVE  Letter(ev, e)' = Letter(ev, e)
<1>1. CASE Copies(ev, e) = {}
  BY <1>1, LetterIs, LetterWillBe
<1>2. CASE \E d \in Copies(ev, e) : CP!Won(d)
  BY <1>2, LetterIs, LetterWillBe
<1>3. CASE Copies(ev, e) # {} /\ \A d \in Copies(ev, e) : ~CP!Won(d)
  BY <1>3, LetterIs, LetterWillBe
<1> QED
  BY <1>1, <1>2, <1>3

LEMMA AllKept ==
    ASSUME eventOf' = eventOf,
           \A d \in Calls!Delivery : /\ CP!Won(d)' <=> CP!Won(d)
                                     /\ delivery'[d].remaining > 0 <=> delivery[d].remaining > 0
    PROVE  Let' = Let
<1>1. ASSUME NEW ev, NEW e
      PROVE  Letter(ev, e)' = Letter(ev, e)
  BY LetterKept DEF Copies
<1> QED
  BY <1>1 DEF Let

\* One letter changes, and it alone.
LEMMA OneLetter ==
    ASSUME NEW ev \in Event, NEW e \in Endpoint, NEW s, Letter(ev, e)' = s,
           \A x \in Event : \A y \in Endpoint : x # ev \/ y # e => Letter(x, y)' = Letter(x, y)
    PROVE  Let' = [Let EXCEPT ![ev][e] = s]
BY DEF Let

-----------------------------------------------------------------------------
(***************************************************************************)
(* Every step of zebrahook is a step of the outbox, or none.               *)
(***************************************************************************)
LEMMA InitImplements == Init => Promise!Init
<1> SUFFICES ASSUME Init PROVE Promise!Init
  OBVIOUS
<1>1. Sub = {} /\ Hrd = [ev \in Event |-> {}]
  BY DEF Init, Sub, Hrd
<1>2. Lis \in [Event -> SUBSET Endpoint]
  BY DEF Lis, Mapping!Listeners
<1>3. ASSUME NEW ev \in Event, NEW e PROVE Letter(ev, e) = "none"
  <2>1. Copies(ev, e) = {}
    BY SameIds DEF Init, Copies
  <2> QED
    BY <2>1, LetterIs
<1>4. Let = [ev \in Event |-> [e \in Endpoint |-> "none"]]
  BY <1>3 DEF Let
<1>5. Snt = {}
  BY SameIds DEF Init, Snt
<1> QED
  BY <1>1, <1>2, <1>4, <1>5 DEF Promise!Init, Sub, Lis, Hrd, Let, Snt

\* Nobody else submits, changes an endpoint or the history.
LEMMA SameOutside ==
    ASSUME UNCHANGED <<endpoint, scope>>,
           \A ev \in Event : mapping'[ev] = "none" <=> mapping[ev] = "none"
    PROVE  Sub' = Sub /\ Lis' = Lis /\ Hrd' = Hrd
<1>1. Sub' = Sub
  BY DEF Sub
<1>2. Lis' = Lis
  BY DEF Lis
<1>3. Hrd' = Hrd
  BY DEF Hrd
<1> QED
  BY <1>1, <1>2, <1>3

LEMMA SameInside ==
    ASSUME UNCHANGED <<eventOf, delivery, attempts, posts>>
    PROVE  Let' = Let /\ Snt' = Snt
<1>1. Let' = Let
  BY AllKept DEF CP!Won, CP!AttemptId
<1>2. Snt' = Snt
  BY DEF Snt
<1> QED
  BY <1>1, <1>2

\* EnqueueEvent is Submit, for who listens is the whole history of the event.
LEMMA SubmitImplements ==
    ASSUME ZInv, EnqueueEvent
    PROVE  Promise!Next
<1>1. PICK ev : ev = Head(left)
  OBVIOUS
<1>2. /\ ev \in Event /\ mapping[ev] = "none" /\ mapping' = [mapping EXCEPT ![ev] = "queued"]
      /\ MP!Submit(ev) /\ endpoint' = endpoint
  BY <1>1, SubmissionQueued
<1>3. mapping \in [Event -> {"none", "queued", "running", "done"}]
  BY SameIds DEF ZInv, MP!CInv, MP!SInv, MP!IInv, MP!TypeOK
<1>4. ev \notin Sub /\ Sub' = Sub \cup {ev}
  BY <1>2, <1>3 DEF Sub
<1>5. /\ scope \in [Event -> [always : SUBSET Endpoint, ever : SUBSET Endpoint]]
      /\ scope[ev].ever = {}
      /\ \A x \in Sub : MP!Listeners(endpoint, x) \subseteq scope[x].ever
  BY <1>2, SameIds DEF ZInv, MP!CInv, MP!SInv, MP!IInv, MP!TypeOK, MP!Heard, MP!Unheard, Sub
<1>6. \A x \in Event : scope'[x].ever = IF x = ev THEN MP!Listeners(endpoint, ev) ELSE scope[x].ever
  BY <1>2, <1>5 DEF MP!Submit
<1>7. \A x \in Event : Lis[x] = MP!Listeners(endpoint, x) /\ Hrd[x] = scope[x].ever
  BY SameListeners DEF Lis, Hrd
<1>8. Hrd' = [x \in Event |-> IF x \in Sub \cup {ev} THEN Hrd[x] \cup Lis[x] ELSE Hrd[x]]
  <2>1. \A x \in Event :
           scope'[x].ever = IF x \in Sub \cup {ev} THEN Hrd[x] \cup Lis[x] ELSE Hrd[x]
    BY <1>4, <1>5, <1>6, <1>7
  <2> QED
    BY <2>1 DEF Hrd
<1>9. Lis' = Lis
  BY <1>2 DEF Lis
<1>10. Let' = Let /\ Snt' = Snt
  BY SameInside DEF EnqueueEvent, callVars, linkVars
<1> QED
  BY <1>2, <1>4, <1>8, <1>9, <1>10, IsSubmit

\* A step that changes the row of an endpoint.
LEMMA OwnerSwitch ==
    ASSUME ZInv, \/ \E e \in Endpoint : \E s \in {"enabled", "disabled"} : UpdateEndpoint(e, s)
                 \/ \E w \in Worker : WorkerCommits(w)
    PROVE  Sub' = Sub /\ HearsNow /\ Lis' \in [Event -> SUBSET Endpoint]
<1>1. PICK e \in Endpoint, row \in MP!EndpointRow : MP!Put(e, row)
  BY OwnerStep
<1>2. MP!IInv
  BY DEF ZInv, MP!CInv, MP!SInv
<1>3. \A ev \in Event :
         /\ mapping' = mapping
         /\ scope'[ev].ever = IF mapping[ev] = "none" THEN scope[ev].ever
                              ELSE scope[ev].ever \cup MP!Listeners(endpoint', ev)
  BY <1>1, <1>2, SameIds, MP!PutHears, MapperAssumption
<1>4. mapping' = mapping
  BY <1>1 DEF MP!Put
<1>5. Sub' = Sub
  BY <1>4 DEF Sub
<1>6. \A ev \in Event : Mapping!Listeners(endpoint', ev) = MP!Listeners(endpoint', ev)
  BY DEF Mapping!Listeners, MP!Listeners
<1>7. \A ev \in Event : Lis'[ev] = MP!Listeners(endpoint', ev)
  BY <1>6 DEF Lis
<1>8. HearsNow
  <2>1. \A ev \in Event :
           scope'[ev].ever = IF ev \in Sub THEN Hrd[ev] \cup Lis'[ev] ELSE Hrd[ev]
    BY <1>3, <1>7 DEF Hrd, Sub
  <2> QED
    BY <2>1 DEF HearsNow, Hrd
<1>9. Lis' \in [Event -> SUBSET Endpoint]
  BY DEF Lis, Mapping!Listeners
<1> QED
  BY <1>5, <1>8, <1>9

\* HandOver is Owe, unless the letter is owed or delivered already: the endpoint
\* was selected for the event, so it listened since the submission.
LEMMA HandOverImplements ==
    ASSUME ZInv, NEW m \in Mapper, HandOver(m)
    PROVE  [Promise!Next]_(Promise!vars)
<1>1. PICK job, d : Brings(job, d)
  BY HandOverStep
<1>2. PICK ev \in Event, e \in Endpoint : ev = job.event /\ e = job.endpoint
  BY <1>1 DEF Brings
<1>3. MP!CInv' /\ UNCHANGED <<mapping, endpoint, scope, posts>>
  BY HandOverStep
<1>4. Sub' = Sub /\ Lis' = Lis /\ Hrd' = Hrd
  BY <1>3, SameOutside
<1>5. /\ d \in Calls!Delivery /\ EndpointOf[d] = e /\ eventOf[d] = 0 /\ posts[d] = 0
      /\ \A x \in Calls!Delivery : eventOf'[x] = IF x = d THEN ev ELSE eventOf[x]
      /\ delivery[d].remaining > 0 /\ ~CP!Won(d)
      /\ \A x \in Calls!Delivery : delivery' = delivery /\ (CP!Won(x)' <=> CP!Won(x))
  <2>1. CP!IInv /\ d \in CP!Delivery /\ CP!Untouched(d) /\ CP!Enters(d)
    BY <1>1, SameIds DEF Brings, ZInv, CP!CInv
  <2>2. \A x \in CP!Delivery : delivery' = delivery /\ (CP!Won(x)' <=> CP!Won(x))
    BY <2>1, CP!EntersSettlesNothing, DispatcherAssumption
  <2>3. delivery[d].remaining > 0 /\ ~CP!Won(d) /\ posts[d] = 0
    BY <2>1, ConstantsAssumption DEF CP!Untouched, CP!FreshRow, CP!Won
  <2> QED
    BY <1>1, <1>2, <2>2, <2>3, SameIds DEF Brings, ZInv, Rows
<1>6. Snt' = Snt
  BY <1>3, <1>5, SameIds DEF Snt
<1>7. \A x \in Event : \A y \in Endpoint : x # ev \/ y # e => Letter(x, y)' = Letter(x, y)
  <2>1. ASSUME NEW x \in Event, NEW y \in Endpoint, x # ev \/ y # e
        PROVE  Letter(x, y)' = Letter(x, y)
    <3>1. Copies(x, y)' = Copies(x, y)
      BY <1>5, <2>1, SameIds DEF Copies
    <3>2. \A c \in Copies(x, y) : /\ CP!Won(c)' <=> CP!Won(c)
                                  /\ delivery'[c].remaining > 0 <=> delivery[c].remaining > 0
      BY <1>5 DEF Copies
    <3> QED
      BY <3>1, <3>2, LetterKept
  <2> QED
    BY <2>1
<1>8. Copies(ev, e)' = Copies(ev, e) \cup {d} /\ Copies(ev, e) \subseteq Calls!Delivery
  BY <1>5, SameIds DEF Copies
<1>9. CASE \E c \in Copies(ev, e) : CP!Won(c)
  <2>1. Letter(ev, e)' = Letter(ev, e)
    BY <1>5, <1>8, <1>9, LetterIs, LetterWillBe
  <2>2. Let' = Let
    BY <1>7, <2>1 DEF Let
  <2> QED
    BY <1>4, <1>6, <2>2, Quiet
<1>10. CASE \A c \in Copies(ev, e) : ~CP!Won(c)
  <2>1. Letter(ev, e)' = "owed"
    BY <1>5, <1>8, <1>10, LetterWillBe
  <2>2. Let' = [Let EXCEPT ![ev][e] = "owed"]
    BY <1>7, <2>1, OneLetter
  <2>3. Letter(ev, e) \in {"none", "owed", "abandoned"}
    BY <1>10, LetterIs
  <2>4. CASE Letter(ev, e) = "owed"
    <3>1. Let' = Let
      BY <1>7, <2>1, <2>4 DEF Let
    <3> QED
      BY <1>4, <1>6, <3>1, Quiet
  <2>5. CASE Letter(ev, e) # "owed"
    <3>1. Let[ev][e] \in {"none", "abandoned"}
      BY <2>3, <2>5 DEF Let
    <3>2. e \in Hrd[ev]
      <4>1. \A i \in DOMAIN handed' : handed'[i].endpoint \in scope'[handed'[i].event].ever
        BY <1>3 DEF MP!CInv, MP!SInv, MP!IInv, MP!NoStranger, MP!JobId
      <4>2. \E i \in DOMAIN handed' : handed'[i] = job
        <5>1. handed \in Seq(MP!JobRow) /\ job \in MP!JobRow /\ handed' = Append(handed, job)
          BY <1>1 DEF Brings, ZInv, MP!CInv, MP!SInv, MP!IInv, MP!TypeOK
        <5>2. Len(handed) + 1 \in DOMAIN handed' /\ handed'[Len(handed) + 1] = job
          BY <5>1, AppendProperties, LenProperties
        <5> QED
          BY <5>2
      <4> QED
        BY <1>2, <1>3, <4>1, <4>2 DEF Hrd
    <3> QED
      BY <1>4, <1>6, <2>2, <3>1, <3>2, IsOwe
  <2> QED
    BY <2>4, <2>5
<1> QED
  BY <1>9, <1>10

\* A POST is Send: the delivery it is for was handed over.
LEMMA PostImplements ==
    ASSUME ZInv, NEW w \in Worker, WorkerPosts(w)
    PROVE  Promise!Next
<1>1. PICK d : d = Calls!JobOf(w).target
  OBVIOUS
<1>2. /\ d \in Calls!Delivery /\ eventOf[d] \in Event /\ EndpointOf[d] \in Endpoint
      /\ UNCHANGED <<delivery, attempts, status, crashes>>
      /\ posts' = [posts EXCEPT ![d] = CP!Posted(@)]
  BY <1>1, PostedEvent
<1>3. PICK ev \in Event, e \in Endpoint : ev = eventOf[d] /\ e = EndpointOf[d]
  BY <1>2
<1>4. Sub' = Sub /\ Lis' = Lis /\ Hrd' = Hrd
  <2>1. UNCHANGED <<endpoint, mappingVars, scope>>
    BY WorkerStep
  <2> QED
    BY <2>1, SameOutside DEF mappingVars
<1>5. eventOf' = eventOf
  BY DEF WorkerPosts
<1>6. Let' = Let
  BY <1>2, <1>5, AllKept DEF CP!Won, CP!AttemptId
<1>7. Letter(ev, e) # "none"
  <2>1. d \in Copies(ev, e)
    BY <1>2, <1>3 DEF Copies
  <2> QED
    BY <2>1, LetterIs
<1>8. posts \in [Calls!Delivery -> Nat]
  BY SameIds, ConstantsAssumption DEF ZInv, CP!CInv, CP!IInv, CP!TypeOK
<1>9. \A x \in Calls!Delivery : posts'[x] > 0 <=> posts[x] > 0 \/ x = d
  BY <1>2, <1>8, ConstantsAssumption DEF CP!Posted
<1>10. Snt' = Snt \cup {<<ev, e>>}
  <2>1. \A p \in Event \X Endpoint :
           (\E x \in Calls!Delivery :
               eventOf'[x] = p[1] /\ EndpointOf[x] = p[2] /\ posts'[x] > 0)
           <=> (\E x \in Calls!Delivery :
                   eventOf[x] = p[1] /\ EndpointOf[x] = p[2] /\ posts[x] > 0)
               \/ (eventOf[d] = p[1] /\ EndpointOf[d] = p[2])
    BY <1>2, <1>5, <1>9
  <2>2. \A p \in Event \X Endpoint : p = <<ev, e>> <=> p[1] = ev /\ p[2] = e
    OBVIOUS
  <2> QED
    BY <1>3, <2>1, <2>2 DEF Snt
<1>11. Let[ev][e] # "none"
  BY <1>7 DEF Let
<1> QED
  BY <1>4, <1>6, <1>10, <1>11, IsSend

\* Unless its status changed, an endpoint listens as before, and who listens is
\* known to the history; one that was switched off listens to nothing.
LEMMA StatusAsBefore ==
    ASSUME ZInv, NEW w \in Worker, WorkerCommits(w), status' = status
    PROVE  Lis' = Lis /\ Hrd' = Hrd
<1>1. /\ endpoint \in [Endpoint -> MP!EndpointRow]
      /\ status = [x \in Endpoint |-> endpoint[x].status]
  BY DEF ZInv, OneStatus, MP!CInv, MP!SInv, MP!IInv, MP!TypeOK
<1>2. \A x \in Endpoint : [endpoint[x] EXCEPT !.status = status[x]] = endpoint[x]
  BY <1>1 DEF MP!EndpointRow
<1>3. Table(status') = endpoint
  BY <1>1, <1>2 DEF Table
<1>4. endpoint' = endpoint
  BY <1>3 DEF WorkerCommits, StatusChanges
<1>5. Lis' = Lis
  BY <1>4 DEF Lis
<1>6. HearsNow
  BY OwnerSwitch
<1>7. \A ev \in Sub : Lis[ev] \subseteq Hrd[ev]
  BY SameIds, SameListeners
  DEF ZInv, MP!CInv, MP!SInv, MP!IInv, MP!Heard, Sub, Lis, Hrd
<1>8. Hrd' = Hrd
  <2>1. \A ev \in Event :
           (IF ev \in Sub THEN Hrd[ev] \cup Lis'[ev] ELSE Hrd[ev]) = Hrd[ev]
    BY <1>5, <1>7
  <2>2. Hrd = [ev \in Event |-> Hrd[ev]]
    BY DEF Hrd
  <2> QED
    BY <1>6, <2>1, <2>2 DEF HearsNow
<1> QED
  BY <1>5, <1>8

LEMMA SwitchedOff ==
    ASSUME ZInv, NEW w \in Worker, WorkerCommits(w), NEW e \in Endpoint,
           status' = [status EXCEPT ![e] = "disabled"]
    PROVE  Lis' = [x \in Event |-> Lis[x] \ {e}]
<1>1. /\ endpoint \in [Endpoint -> MP!EndpointRow]
      /\ status = [x \in Endpoint |-> endpoint[x].status]
  BY DEF ZInv, OneStatus, MP!CInv, MP!SInv, MP!IInv, MP!TypeOK
<1>2. \A x \in Endpoint : status'[x] = IF x = e THEN "disabled" ELSE endpoint[x].status
  BY <1>1
<1>3. endpoint' = Table(status')
  BY DEF WorkerCommits, StatusChanges
<1>4. \A x \in Endpoint : /\ endpoint'[x].status = status'[x]
                          /\ endpoint'[x].listens = endpoint[x].listens
  BY <1>1, <1>3 DEF Table, MP!EndpointRow
<1>5. ASSUME NEW x \in Event
      PROVE  Mapping!Listeners(endpoint', x) = Mapping!Listeners(endpoint, x) \ {e}
  BY <1>2, <1>4 DEF Mapping!Listeners
<1> QED
  BY <1>5 DEF Lis

\* The commit of a worker settles the letter its delivery is a copy of: Deliver,
\* or Abandon together with the endpoint, or neither while another copy counts.
LEMMA SettleImplements ==
    ASSUME ZInv, NEW w \in Worker, WorkerCommits(w), wk[w].dlv # 0
    PROVE  Promise!Next
<1>1. PICK d : d = wk[w].dlv
  OBVIOUS
<1>2. CP!Commit(w) /\ CP!IInv /\ CP!PostsCover /\ CP!AttemptsKept
  BY WorkerHandles DEF WorkerCommits, ZInv, CP!CInv
<1>3. /\ d \in CP!Delivery /\ delivery[d].remaining > 0 /\ posts[d] > 0
      /\ \A x \in CP!Delivery : x # d => /\ delivery'[x] = delivery[x]
                                         /\ CP!Won(x)' <=> CP!Won(x)
      /\ \/ CP!Won(d)' /\ delivery'[d].remaining = 0 /\ status' = status
         \/ /\ CP!Won(d)' <=> CP!Won(d)
            /\ delivery'[d].remaining > 0 /\ status' = status
         \/ /\ CP!Won(d)' <=> CP!Won(d)
            /\ delivery'[d].remaining = 0
            /\ status' = [status EXCEPT ![EndpointOf[d]] = "disabled"]
  BY <1>1, <1>2, CP!CommitSettles, DispatcherAssumption
<1>4. d \in Calls!Delivery /\ eventOf[d] \in Event /\ EndpointOf[d] \in Endpoint
  BY <1>3, SameIds DEF CP!Untouched, ZInv, Rows
<1>5. PICK ev \in Event, e \in Endpoint : ev = eventOf[d] /\ e = EndpointOf[d]
  BY <1>4
<1>6. eventOf' = eventOf /\ posts' = posts /\ mapping' = mapping
  <2>1. UNCHANGED <<mappingVars, linkVars>>
    BY DEF WorkerCommits
  <2>2. posts' = posts
    BY <1>2 DEF CP!Commit
  <2> QED
    BY <2>1, <2>2 DEF mappingVars, linkVars
<1>7. Snt' = Snt /\ <<ev, e>> \in Snt
  BY <1>3, <1>4, <1>5, <1>6 DEF Snt
<1>8. Sub' = Sub /\ HearsNow /\ Lis' \in [Event -> SUBSET Endpoint]
  BY OwnerSwitch
<1>9. /\ Copies(ev, e)' = Copies(ev, e) /\ d \in Copies(ev, e)
      /\ Copies(ev, e) \subseteq CP!Delivery
  BY <1>4, <1>5, <1>6, SameIds DEF Copies
<1>10. \A x \in Event : \A y \in Endpoint : x # ev \/ y # e => Letter(x, y)' = Letter(x, y)
  <2>1. ASSUME NEW x \in Event, NEW y \in Endpoint, x # ev \/ y # e
        PROVE  Letter(x, y)' = Letter(x, y)
    <3>1. Copies(x, y)' = Copies(x, y) /\ d \notin Copies(x, y)
      BY <1>5, <1>6, <2>1 DEF Copies
    <3>2. Copies(x, y) \subseteq CP!Delivery
      BY SameIds DEF Copies
    <3>3. \A c \in Copies(x, y) : /\ CP!Won(c)' <=> CP!Won(c)
                                  /\ delivery'[c].remaining > 0 <=> delivery[c].remaining > 0
      BY <1>3, <3>1, <3>2
    <3> QED
      BY <3>1, <3>3, LetterKept
  <2> QED
    BY <2>1
<1>11. (\E c \in Copies(ev, e) : CP!Won(c)) \/ Letter(ev, e) = "owed"
  BY <1>3, <1>9, LetterIs
<1>12. ASSUME Letter(ev, e)' = Letter(ev, e)
       PROVE  Promise!Next
  <2>1. Let' = Let
    BY <1>10, <1>12 DEF Let
  <2> QED
    BY <1>7, <1>8, <2>1, IsSwitch
<1>13. CASE CP!Won(d)' /\ delivery'[d].remaining = 0 /\ status' = status
  <2>1. Letter(ev, e)' = "delivered"
    BY <1>9, <1>13, LetterWillBe
  <2>2. CASE Letter(ev, e) = "owed"
    <3>1. Let' = [Let EXCEPT ![ev][e] = "delivered"]
      BY <1>10, <2>1, OneLetter
    <3>2. Lis' = Lis /\ Hrd' = Hrd
      BY <1>13, StatusAsBefore
    <3>3. Let[ev][e] = "owed"
      BY <2>2 DEF Let
    <3> QED
      BY <1>7, <1>8, <3>1, <3>2, <3>3, IsDeliver
  <2>3. CASE \E c \in Copies(ev, e) : CP!Won(c)
    <3>1. Letter(ev, e) = "delivered"
      BY <2>3, LetterIs
    <3> QED
      BY <1>12, <2>1, <3>1
  <2> QED
    BY <1>11, <2>2, <2>3
<1>14. CASE (CP!Won(d)' <=> CP!Won(d)) /\ delivery'[d].remaining > 0
  <2>1. \A c \in Copies(ev, e) : /\ CP!Won(c)' <=> CP!Won(c)
                                 /\ delivery'[c].remaining > 0 <=> delivery[c].remaining > 0
    BY <1>3, <1>9, <1>14
  <2> QED
    BY <1>9, <1>12, <2>1, LetterKept
<1>15. CASE /\ CP!Won(d)' <=> CP!Won(d)
            /\ delivery'[d].remaining = 0
            /\ status' = [status EXCEPT ![EndpointOf[d]] = "disabled"]
  <2>1. \A c \in Copies(ev, e) : CP!Won(c)' <=> CP!Won(c)
    BY <1>3, <1>9, <1>15
  <2>2. CASE \E c \in Copies(ev, e) : CP!Won(c)
    <3>1. Letter(ev, e) = "delivered" /\ Letter(ev, e)' = "delivered"
      BY <1>9, <2>1, <2>2, LetterIs, LetterWillBe
    <3> QED
      BY <1>12, <3>1
  <2>3. CASE \A c \in Copies(ev, e) : ~CP!Won(c)
    <3>1. Letter(ev, e) = "owed"
      BY <1>11, <2>3
    <3>2. Letter(ev, e)' = IF \E c \in Copies(ev, e) : delivery'[c].remaining > 0
                           THEN "owed" ELSE "abandoned"
      BY <1>9, <2>1, <2>3, LetterWillBe
    <3>3. CASE Letter(ev, e)' = "owed"
      BY <1>12, <3>1, <3>3
    <3>4. CASE Letter(ev, e)' = "abandoned"
      <4>1. Let' = [Let EXCEPT ![ev][e] = "abandoned"]
        BY <1>10, <3>4, OneLetter
      <4>2. Lis' = [x \in Event |-> Lis[x] \ {e}]
        BY <1>5, <1>15, SwitchedOff
      <4>3. Let[ev][e] = "owed"
        BY <3>1 DEF Let
      <4> QED
        BY <1>7, <1>8, <4>1, <4>2, <4>3, IsAbandon
    <3> QED
      BY <3>2, <3>3, <3>4
  <2> QED
    BY <2>2, <2>3
<1> QED
  BY <1>3, <1>13, <1>14, <1>15

\* The commit of a handler that found no row.
LEMMA IdleCommitImplements ==
    ASSUME ZInv, NEW w \in Worker, WorkerCommits(w), wk[w].dlv = 0
    PROVE  Promise!Next
<1>1. CP!Commit(w) /\ CP!IInv /\ CP!AttemptsKept /\ UintMax > 0
  BY WorkerHandles, ConstantsAssumption DEF WorkerCommits, ZInv, CP!CInv
<1>2. /\ \A d \in CP!Delivery : delivery'[d] = delivery[d]
      /\ CP!AttemptId' = CP!AttemptId
      /\ \A a \in CP!AttemptId : /\ attempts'[a].delivery = attempts[a].delivery
                                 /\ attempts'[a].status = attempts[a].status
  BY <1>1, CP!CommitOfNothing, DispatcherAssumption DEF CP!Loads
<1>3. eventOf' = eventOf /\ posts' = posts
  BY <1>1 DEF WorkerCommits, linkVars, CP!Commit
<1>4. \A d \in Calls!Delivery : /\ CP!Won(d)' <=> CP!Won(d)
                                /\ delivery'[d].remaining > 0 <=> delivery[d].remaining > 0
  BY <1>2, SameIds DEF CP!Won
<1>5. Let' = Let /\ Snt' = Snt
  BY <1>3, <1>4, AllKept DEF Snt
<1>6. Sub' = Sub /\ HearsNow /\ Lis' \in [Event -> SUBSET Endpoint]
  BY OwnerSwitch
<1> QED
  BY <1>5, <1>6, IsSwitch

\* The rest of what the workers do, and their death, is no step of the outbox.
LEMMA OthersImplement ==
    ASSUME ZInv, \/ \E w \in Worker : WorkerPolls(w) \/ WorkerSteps(w)
                 \/ BackoffElapses
                 \/ \E p \in Process : WorkerCrash(p)
    PROVE  [Promise!Next]_(Promise!vars)
<1>1. CP!IInv
  BY DEF ZInv, CP!CInv
<1>2. /\ Sub' = Sub /\ Lis' = Lis /\ Hrd' = Hrd
  <2>1. UNCHANGED <<endpoint, mappingVars, scope>>
    BY WorkerStep
  <2> QED
    BY <2>1, SameOutside DEF mappingVars
<1>3. eventOf' = eventOf
  BY DEF WorkerPolls, WorkerSteps, BackoffElapses, WorkerCrash, linkVars
<1>4. /\ posts' = posts
      /\ \A d \in Calls!Delivery : delivery' = delivery /\ (CP!Won(d)' <=> CP!Won(d))
  <2>1. ASSUME NEW w \in Worker, WorkerPolls(w)
        PROVE  UNCHANGED <<delivery, attempts, posts>>
    BY <2>1 DEF WorkerPolls, Calls!Claim
  <2>2. ASSUME NEW w \in Worker, WorkerSteps(w)
        PROVE  posts' = posts /\ (UNCHANGED <<delivery, attempts>> \/ CP!Reschedule(w))
    BY <2>2, WorkerHandles DEF WorkerSteps, Calls!LoadAttempt, Calls!PanicRecovered,
                               Calls!ReadDelivery, Calls!Finish, CP!Reschedule
  <2>3. CASE BackoffElapses
    <3>1. UNCHANGED <<delivery, attempts, posts>>
      BY <2>3 DEF BackoffElapses, Calls!Time, Calls!BackoffElapses
    <3> QED
      BY <3>1 DEF CP!Won, CP!AttemptId
  <2>4. ASSUME NEW p \in Process, WorkerCrash(p)
        PROVE  CP!ProcessDies(p) /\ posts' = posts
    <3>1. CP!Crash(p)
      BY <2>4, WorkersDie DEF WorkerCrash
    <3> QED
      BY <3>1 DEF CP!Crash, CP!ProcessDies
  <2>5. ASSUME UNCHANGED <<delivery, attempts>> \/ \E w \in Worker : CP!Reschedule(w)
        PROVE  \A d \in Calls!Delivery : delivery' = delivery /\ (CP!Won(d)' <=> CP!Won(d))
    BY <1>1, <2>5, SameIds, CP!OthersSettleNothing, DispatcherAssumption
  <2>6. ASSUME NEW p, CP!ProcessDies(p)
        PROVE  \A d \in Calls!Delivery : delivery' = delivery /\ (CP!Won(d)' <=> CP!Won(d))
    BY <1>1, <2>6, SameIds, CP!DeathSettlesNothing, DispatcherAssumption
  <2> QED
    BY <2>1, <2>2, <2>3, <2>4, <2>5, <2>6
<1>5. Let' = Let /\ Snt' = Snt
  BY <1>3, <1>4, AllKept DEF Snt
<1> QED
  BY <1>2, <1>5, Quiet

LEMMA StepImplements == ZInv /\ [Next]_vars => [Promise!Next]_(Promise!vars)
<1> SUFFICES ASSUME ZInv, [Next]_vars PROVE [Promise!Next]_(Promise!vars)
  OBVIOUS
<1>1. CASE EnqueueEvent
  BY <1>1, SubmitImplements
<1>2. CASE Tell \/ ServerDies \/ UNCHANGED vars
  <2>1. UNCHANGED <<endpoint, scope, mapping, eventOf, delivery, attempts, posts>>
    BY <1>2 DEF Tell, ServerDies, vars, mappingVars, callVars, linkVars
  <2> QED
    BY <2>1, SameOutside, SameInside, Quiet
<1>3. CASE \/ \E m \in Mapper : MapperPolls(m) \/ MapperSteps(m)
           \/ \E p \in MapperProcess : MapperCrash(p)
  <2>1. /\ UNCHANGED <<endpoint, scope, eventOf, delivery, attempts, posts>>
        /\ \A ev \in Event : mapping'[ev] = "none" <=> mapping[ev] = "none"
    BY <1>3, MapperStep DEF callVars, linkVars
  <2> QED
    BY <2>1, SameOutside, SameInside, Quiet
<1>4. ASSUME NEW m \in Mapper, HandOver(m)
      PROVE  [Promise!Next]_(Promise!vars)
  BY <1>4, HandOverImplements
<1>5. ASSUME NEW e \in Endpoint, NEW s \in {"enabled", "disabled"}, UpdateEndpoint(e, s)
      PROVE  Promise!Next
  <2>1. UNCHANGED <<eventOf, delivery, attempts, posts>>
    BY <1>5 DEF UpdateEndpoint, Calls!UpdateEndpoint, linkVars
  <2> QED
    BY <1>5, <2>1, OwnerSwitch, SameInside, IsSwitch
<1>6. ASSUME NEW w \in Worker, WorkerRuns(w)
      PROVE  [Promise!Next]_(Promise!vars)
  <2>1. CASE WorkerPolls(w) \/ WorkerSteps(w)
    BY <2>1, OthersImplement
  <2>2. CASE WorkerPosts(w)
    BY <2>2, PostImplements
  <2>3. CASE WorkerCommits(w)
    BY <2>3, SettleImplements, IdleCommitImplements
  <2> QED
    BY <1>6, <2>1, <2>2, <2>3 DEF WorkerRuns
<1>7. CASE BackoffElapses \/ \E p \in Process : WorkerCrash(p)
  BY <1>7, OthersImplement
<1> QED
  BY <1>1, <1>2, <1>3, <1>4, <1>5, <1>6, <1>7 DEF Next, MapperRuns

\* The whole of zebrahook keeps the promise of the outbox, for any number of
\* events, endpoints and goroutines and any crashes: no endpoint is sent an event
\* it did not listen to since the submission (eventMapping/main.go, lines 76-86),
\* nothing is delivered that was not sent, a delivered event stays delivered, and
\* one is given up only together with its endpoint (dispatcher/main.go, 183-282).
THEOREM ImplementsOutbox == Spec => OutboxSpec
<1>1. Spec => Promise!Spec
  BY InitImplements, StepImplements, Invariance, PTL DEF Spec, Promise!Spec
<1> QED
  BY <1>1 DEF OutboxSpec

-----------------------------------------------------------------------------
(***************************************************************************)
(* Nothing that is due is forgotten.  That it gets done takes fairness     *)
(* (Arrives); that somebody still has it to do is an invariant.            *)
(***************************************************************************)
\* Every event of the request is submitted or stands in line, and the client is
\* told only when none stands there.
Accepted ==
    /\ \A ev \in Event : mapping[ev] # "none" \/ \E i \in DOMAIN left : left[i] = ev
    /\ server = "told" => left = <<>>

\* An order of the request that is sorted has all its events.
LEMMA SortedHasAll ==
    ASSUME NEW s \in [Event -> Event], Sorted(s)
    PROVE  \A ev \in Event : \E i \in Event : s[i] = ev
<1>1. Event \subseteq Int /\ IsFiniteSet(Event)
  BY SameIds, FS_Interval DEF Event
<1>2. \A i, k \in Event : s[i] = s[k] => i = k
  <2>1. ASSUME NEW i \in Event, NEW k \in Event, i < k
        PROVE  s[i] # s[k]
    <3>1. \A x \in Event : PriorityOf[x] \in Int
      BY ConstantsAssumption, ElementOfSeq DEF Event
    <3>2. Ahead(s[i], s[k]) \/ s[i] < s[k]
      BY <2>1 DEF Sorted
    <3>3. \A x \in Event : ~Ahead(x, x) /\ ~(x < x)
      BY <1>1, <3>1 DEF Ahead
    <3>4. s[i] \in Event
      OBVIOUS
    <3> QED
      BY <3>2, <3>3, <3>4
  <2>2. \A i, k \in Event : i # k => i < k \/ k < i
    BY <1>1
  <2> QED
    BY <2>1, <2>2
<1>3. s \in Injection(Event, Event)
  BY <1>2, Fun_IsInj
<1>4. s \in Surjection(Event, Event)
  BY <1>1, <1>3, FS_Injection
<1> QED
  BY <1>4, Fun_SurjectionProperties

LEMMA InitAccepted == Init => Accepted
<1> SUFFICES ASSUME Init PROVE Accepted
  OBVIOUS
<1>1. left \in [Event -> Event] /\ Sorted(left)
  BY DEF Init
<1>2. DOMAIN left = Event
  BY <1>1
<1> QED
  BY <1>1, <1>2, SortedHasAll DEF Init, Accepted

LEMMA StepAccepted == ZInv /\ Accepted /\ [Next]_vars => Accepted'
<1> SUFFICES ASSUME ZInv, Accepted, [Next]_vars PROVE Accepted'
  OBVIOUS
<1>1. CASE EnqueueEvent
  <2>1. /\ left \in Seq(Event) /\ left # <<>> /\ left' = Tail(left) /\ server' = "sending"
    BY <1>1 DEF EnqueueEvent, ZInv, Queue
  <2>2. mapping' = [mapping EXCEPT ![Head(left)] = "queued"]
    BY <1>1, SubmissionQueued
  <2>3. mapping \in [Event -> {"none", "queued", "running", "done"}]
    BY SameIds DEF ZInv, MP!CInv, MP!SInv, MP!IInv, MP!TypeOK
  <2>4. ASSUME NEW i \in DOMAIN left, left[i] # Head(left)
        PROVE  \E k \in DOMAIN left' : left'[k] = left[i]
    <3>1. i \in 1 .. Len(left) /\ Len(left) \in Nat /\ Head(left) = left[1]
      BY <2>1, LenProperties, HeadTailProperties
    <3>2. i - 1 \in 1 .. Len(left) - 1
      BY <2>4, <3>1
    <3>3. DOMAIN left' = 1 .. Len(left) - 1 /\ left'[i - 1] = left[i]
      BY <2>1, <3>1, <3>2, HeadTailProperties, LenProperties
    <3> QED
      BY <3>2, <3>3
  <2>5. ASSUME NEW ev \in Event, mapping'[ev] = "none"
        PROVE  \E k \in DOMAIN left' : left'[k] = ev
    <3>1. mapping[ev] = "none" /\ ev # Head(left)
      BY <2>2, <2>3, <2>5
    <3>2. PICK i \in DOMAIN left : left[i] = ev
      BY <3>1 DEF Accepted
    <3> QED
      BY <2>4, <3>1, <3>2
  <2> QED
    BY <2>1, <2>5 DEF Accepted
<1>2. ASSUME UNCHANGED left, server' = "told" => server = "told" \/ left = <<>>,
             \A ev \in Event : mapping'[ev] = "none" <=> mapping[ev] = "none"
      PROVE  Accepted'
  BY <1>2 DEF Accepted
<1>3. CASE Tell \/ ServerDies \/ UNCHANGED vars
  BY <1>2, <1>3 DEF Tell, ServerDies, vars, serverVars, mappingVars
<1>4. CASE \/ \E m \in Mapper : MapperPolls(m) \/ MapperSteps(m)
           \/ \E p \in MapperProcess : MapperCrash(p)
  <2>1. /\ UNCHANGED serverVars
        /\ \A ev \in Event : mapping'[ev] = "none" <=> mapping[ev] = "none"
    BY <1>4, MapperStep
  <2> QED
    BY <1>2, <2>1 DEF serverVars
<1>5. ASSUME NEW m \in Mapper, HandOver(m) PROVE Accepted'
  <2>1. UNCHANGED <<serverVars, mapping>>
    BY <1>5, HandOverStep
  <2> QED
    BY <1>2, <2>1 DEF serverVars
<1>6. CASE \/ \E e \in Endpoint : \E s \in {"enabled", "disabled"} : UpdateEndpoint(e, s)
           \/ \E w \in Worker : WorkerRuns(w)
           \/ BackoffElapses
           \/ \E p \in Process : WorkerCrash(p)
  <2>1. UNCHANGED <<serverVars, mappingVars>>
    BY <1>6 DEF UpdateEndpoint, WorkerRuns, WorkerPolls, WorkerSteps, WorkerPosts,
                WorkerCommits, BackoffElapses, WorkerCrash
  <2> QED
    BY <1>2, <2>1 DEF serverVars, mappingVars
<1> QED
  BY <1>1, <1>3, <1>4, <1>5, <1>6 DEF Next, MapperRuns

\* A mapping job for the event is not done, or a dispatcher job for a copy of
\* its delivery to the endpoint.
InWork(ev, e) ==
    \/ mapping[ev] \in {"queued", "running"}
    \/ \E d \in Copies(ev, e) : \E j \in DOMAIN jobs :
          jobs[j].target = d /\ jobs[j].state # "done"

DueIsInWork == \A ev \in Event : \A e \in Endpoint : Due(ev, e) => InWork(ev, e)

\* From the submission (main.go, lines 113-158) to the last attempt
\* (dispatcher/main.go, lines 224-247), whatever crashes: an event that is owed to
\* an endpoint, or was queued while the endpoint keeps listening and has no
\* delivery yet, has a job in the table that is not done; and no event is accepted
\* without being queued.
THEOREM NothingDueIsForgotten == Spec => []DueIsInWork
<1>1. ASSUME ZInv, Accepted, NEW ev \in Event, NEW e \in Endpoint, Letter(ev, e) = "owed"
      PROVE  InWork(ev, e)
  <2>1. /\ Copies(ev, e) # {} /\ \A d \in Copies(ev, e) : ~CP!Won(d)
    BY <1>1, LetterIs
  <2>2. PICK d \in Copies(ev, e) : delivery[d].remaining > 0
    BY <1>1, <2>1, LetterIs
  <2>3. d \in Used
    BY <2>2, SameIds DEF Copies, Used
  <2>4. CP!Ahead(d) /\ CP!IInv /\ CP!AttemptsKept
    BY <1>1, <2>2, <2>3 DEF ZInv, Rows, CP!CInv
  <2>5. \E j \in CP!JobId : jobs[j].target = d /\ jobs[j].state # "done"
    BY <2>4, CP!AheadHasJob, DispatcherAssumption
  <2> QED
    BY <2>2, <2>5 DEF InWork, CP!JobId
<1>2. ASSUME ZInv, Accepted, NEW ev \in Event, NEW e \in Endpoint,
             Letter(ev, e) = "none", mapping[ev] # "none", e \in scope[ev].always
      PROVE  InWork(ev, e)
  <2>1. mapping \in [Event -> {"none", "queued", "running", "done"}] /\ failures = 0
    BY <1>2, SameIds DEF ZInv, MP!CInv, MP!SInv, MP!IInv, MP!TypeOK
  <2>3. mapping[ev] # "done"
    <3>1. ASSUME mapping[ev] = "done"
          PROVE  FALSE
      <4>1. MP!JobFor(ev, e)
        BY <1>2, <2>1, <3>1, SameIds DEF ZInv, MP!CInv, MP!SInv, MP!NoneLeftOut
      <4>2. PICK i \in DOMAIN handed : handed[i].event = ev /\ handed[i].endpoint = e
        BY <4>1 DEF MP!JobFor, MP!JobId
      <4>3. PICK d \in Used : For(handed[i], d)
        BY <1>2 DEF ZInv, HandedOver
      <4>4. d \in Copies(ev, e)
        BY <4>2, <4>3 DEF For, Used, Copies
      <4> QED
        BY <1>2, <4>4, LetterIs
    <3> QED
      BY <3>1
  <2> QED
    BY <1>2, <2>1, <2>3 DEF InWork
<1>3. ASSUME Accepted, NEW ev \in Event, server = "told" PROVE mapping[ev] # "none"
  BY <1>3 DEF Accepted
<1>4. ZInv /\ Accepted => DueIsInWork
  BY <1>1, <1>2, <1>3 DEF DueIsInWork, Due
<1> QED
  BY <1>4, InitAccepted, StepAccepted, Invariance, PTL DEF Spec

-----------------------------------------------------------------------------
(***************************************************************************)
(* From end to end: what the agreement of the parts means for the owners   *)
(* of the endpoints.                                                       *)
(***************************************************************************)
\* Who was sent an event listened to it at some moment since its submission.
SentToListeners ==
    \A d \in Calls!Delivery : posts[d] > 0 =>
        eventOf[d] \in Event /\ EndpointOf[d] \in scope[eventOf[d]].ever

\* No POST of the dispatcher (dispatcher/main.go, lines 103-161) reaches an owner
\* who never listened while the event was there: each is for a delivery that a
\* mapping worker has handed over (eventMapping/main.go, lines 76-132).
THEOREM OnlyListenersAreSent == Spec => []SentToListeners
<1>1. ASSUME ZInv, NEW d \in Calls!Delivery, posts[d] > 0
      PROVE  eventOf[d] \in Event /\ EndpointOf[d] \in scope[eventOf[d]].ever
  <2>1. d \in Used /\ eventOf[d] \in Event
    BY <1>1, SameIds DEF ZInv, Rows, CP!Untouched, Used
  <2>2. PICK i \in DOMAIN handed : For(handed[i], d)
    BY <1>1, <2>1 DEF ZInv, HandedOver
  <2>3. handed[i].endpoint \in scope[handed[i].event].ever
    BY <1>1 DEF ZInv, MP!CInv, MP!SInv, MP!IInv, MP!NoStranger, MP!JobId
  <2> QED
    BY <2>1, <2>2, <2>3 DEF For
<1>2. ZInv => SentToListeners
  BY <1>1 DEF SentToListeners
<1> QED
  BY <1>2, Invariance, PTL

\* When the mapping of an event is over, who kept listening has a letter.
NobodyLeftOut ==
    \A ev \in Event : mapping[ev] = "done" =>
        \A e \in scope[ev].always : Letter(ev, e) # "none"

\* Once the mapping job of an event is done, the dispatcher has a delivery for
\* every endpoint that has listened all the time, however often the job was cut
\* off and run again (eventMapping/main.go, lines 57-137).
THEOREM ListenersAreServed == Spec => []NobodyLeftOut
<1>1. ASSUME ZInv, NEW ev \in Event, mapping[ev] = "done", NEW e \in scope[ev].always
      PROVE  Letter(ev, e) # "none"
  <2>1. failures = 0
    BY <1>1 DEF ZInv, MP!CInv, MP!SInv, MP!IInv, MP!TypeOK
  <2>2. MP!JobFor(ev, e)
    BY <1>1, <2>1, SameIds DEF ZInv, MP!CInv, MP!SInv, MP!NoneLeftOut
  <2>3. PICK i \in DOMAIN handed : handed[i].event = ev /\ handed[i].endpoint = e
    BY <2>2 DEF MP!JobFor, MP!JobId
  <2>4. PICK d \in Used : For(handed[i], d)
    BY <1>1 DEF ZInv, HandedOver
  <2>5. d \in Copies(ev, e)
    BY <2>3, <2>4 DEF For, Used, Copies
  <2> QED
    BY <2>5, LetterIs
<1>2. ZInv => NobodyLeftOut
  BY <1>1 DEF NobodyLeftOut
<1> QED
  BY <1>2, Invariance, PTL

\* Nobody is given up before each copy of the delivery was POSTed MaxAttempts times.
GivenUpLate ==
    \A ev \in Event : \A e \in Endpoint : Letter(ev, e) = "abandoned" =>
        \A d \in Copies(ev, e) : posts[d] >= MaxAttempts

\* An event is given up at an endpoint only after maxAttempts real POSTs of every
\* copy, none of which succeeded: no crash, and no job that runs again, uses up an
\* attempt that was not made (dispatcher/main.go, lines 165-259).
THEOREM GivenUpAfterAllAttempts == Spec => []GivenUpLate
<1>1. ASSUME ZInv, NEW ev \in Event, NEW e \in Endpoint, Letter(ev, e) = "abandoned",
             NEW d \in Copies(ev, e)
      PROVE  posts[d] >= MaxAttempts
  <2>1. d \in CP!Delivery
    BY SameIds DEF Copies
  <2>2. /\ \A c \in Copies(ev, e) : ~CP!Won(c)
        /\ ~(\E c \in Copies(ev, e) : delivery[c].remaining > 0)
    BY <1>1, LetterIs
  <2>3. ~CP!Won(d) /\ ~(delivery[d].remaining > 0)
    BY <2>2
  <2>4. /\ delivery[d].counter \in Nat /\ delivery[d].remaining \in Nat /\ posts[d] \in Nat
        /\ MaxAttempts \in Nat
    BY <1>1, <2>1, ConstantsAssumption
    DEF ZInv, CP!CInv, CP!IInv, CP!TypeOK, CP!DeliveryRow
  <2>5. delivery[d].counter + delivery[d].remaining = MaxAttempts
    BY <1>1, <2>1, <2>3
    DEF ZInv, CP!CInv, CP!IInv, CP!AccountBalances, CP!Won, CP!MadeFor, CP!AttemptId
  <2>6. delivery[d].counter <= posts[d]
    BY <1>1, <2>1 DEF ZInv, CP!CInv, CP!PostsCover
  <2> QED
    BY <2>3, <2>4, <2>5, <2>6
<1>2. ZInv => GivenUpLate
  BY <1>1 DEF GivenUpLate
<1> QED
  BY <1>2, Invariance, PTL
==============================================================================
