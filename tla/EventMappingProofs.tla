-------------------------- MODULE EventMappingProofs --------------------------
(***************************************************************************)
(* Theorems about EventMapping for every set of endpoints, subscriptions   *)
(* and goroutines, any number of events, failures and crashes, and any     *)
(* updates of the endpoints meanwhile.                                     *)
(***************************************************************************)
EXTENDS EventMapping, TableLemmas, FunctionTheorems, FiniteSetTheorems

-----------------------------------------------------------------------------
(***************************************************************************)
(* The invariant.                                                          *)
(***************************************************************************)
\* A busy goroutine holds the job of an event of its own, marked as running.
Held ==
    /\ \A w \in Worker :
          IF At(w, "idle") THEN wk[w] = Idle
          ELSE wk[w].event \in Event /\ mapping[wk[w].event] = "running"
    /\ \A v, w \in Worker : ~At(v, "idle") /\ wk[v].event = wk[w].event => v = w

\* The lists of a goroutine are filled one after the other, and what stands at
\* the same place of each is about the same endpoint; 0 is the id of an insert
\* that failed.
ListsOf(w) ==
    LET s == wk[w]
    IN  /\ s.pc \in {"idle", "claimed"} => s.rows = <<>>
        /\ s.pc \in {"idle", "claimed", "selected"} => s.deliveries = <<>>
        /\ s.pc # "queueing" => s.attempts = <<>> /\ s.sent = 0
        /\ s.pc \in {"delivering", "queueing"} => Len(s.deliveries) = Len(s.rows)
        /\ s.pc = "queueing" => Len(s.attempts) = Len(s.rows) /\ s.sent <= Len(s.attempts)
        /\ \A i \in DOMAIN s.deliveries : s.deliveries[i] # 0 =>
              /\ s.deliveries[i] \in DOMAIN delivery
              /\ delivery[s.deliveries[i]] = [event |-> s.event, endpoint |-> s.rows[i]]
        /\ \A i \in DOMAIN s.attempts : s.attempts[i] # 0 =>
              /\ s.attempts[i] \in DOMAIN attempts
              /\ s.deliveries[i] # 0 /\ attempts[s.attempts[i]] = s.deliveries[i]
Lists == \A w \in Worker : ListsOf(w)

\* An attempt stands once in all lists, and no job names it before its turn.
OneMention ==
    /\ \A v, w \in Worker : \A i \in DOMAIN wk[v].attempts, k \in DOMAIN wk[w].attempts :
          wk[v].attempts[i] = wk[w].attempts[k] /\ wk[v].attempts[i] # 0 => v = w /\ i = k
    /\ \A w \in Worker : \A i \in DOMAIN wk[w].attempts : \A j \in JobId :
          jobs[j].attempt = wk[w].attempts[i] /\ jobs[j].attempt # 0 => i <= wk[w].sent

\* Whoever listens now is known to the history, and so is whoever was selected.
Heard ==
    /\ \A ev \in Event : mapping[ev] # "none" =>
          /\ scope[ev].always \subseteq Listeners(endpoint, ev)
          /\ Listeners(endpoint, ev) \subseteq scope[ev].ever
    /\ \A w \in Worker : \A i \in DOMAIN wk[w].rows : wk[w].rows[i] \in scope[wk[w].event].ever

\* Nothing is done for an event before its job is in the queue.
Submitted ==
    /\ \A d \in DOMAIN delivery : mapping[delivery[d].event] # "none"
    /\ \A j \in JobId : mapping[jobs[j].event] # "none"

IInv ==
    /\ TypeOK /\ Held /\ Lists /\ OneMention /\ JobsNameTheirAttempt
    /\ Heard /\ NoStranger /\ Submitted

-----------------------------------------------------------------------------
(***************************************************************************)
(* Types.                                                                  *)
(***************************************************************************)
LEMMA EventsAreNumbers == Event \subseteq Nat \ {0}
BY ConstantsAssumption DEF Event

LEMMA IdleIsTyped ==
    /\ Idle \in Goroutine /\ Idle.pc = "idle" /\ Idle.event = 0 /\ Idle.event \notin Event
    /\ Idle.rows = <<>> /\ Idle.deliveries = <<>> /\ Idle.attempts = <<>> /\ Idle.sent = 0
<1>1. /\ <<>> \in Seq(Endpoint) /\ <<>> \in Seq(Nat)
  BY EmptySeq
<1> QED
  BY <1>1, EventsAreNumbers DEF Idle, Goroutine

\* What the types say about the lists of a goroutine.
LEMMA ListTypes ==
    ASSUME wk \in [Worker -> Goroutine], NEW w \in Worker
    PROVE  LET s == wk[w]
           IN  /\ s \in Goroutine
               /\ s.rows \in Seq(Endpoint) /\ s.deliveries \in Seq(Nat) /\ s.attempts \in Seq(Nat)
               /\ Len(s.rows) \in Nat /\ DOMAIN s.rows = 1 .. Len(s.rows)
               /\ Len(s.deliveries) \in Nat /\ DOMAIN s.deliveries = 1 .. Len(s.deliveries)
               /\ Len(s.attempts) \in Nat /\ DOMAIN s.attempts = 1 .. Len(s.attempts)
               /\ \A i \in DOMAIN s.rows : s.rows[i] \in Endpoint
               /\ \A i \in DOMAIN s.deliveries : s.deliveries[i] \in Nat
               /\ \A i \in DOMAIN s.attempts : s.attempts[i] \in Nat
               /\ s.sent \in Nat /\ s.event \in Event \cup {0}
<1>1. /\ wk[w] \in Goroutine /\ wk[w].sent \in Nat /\ wk[w].event \in Event \cup {0}
      /\ wk[w].rows \in Seq(Endpoint) /\ wk[w].deliveries \in Seq(Nat)
      /\ wk[w].attempts \in Seq(Nat)
  BY DEF Goroutine
<1> QED
  BY <1>1, LenProperties, ElementOfSeq

\* The same of the tables.
LEMMA TableTypes ==
    ASSUME TypeOK
    PROVE  /\ Len(delivery) \in Nat /\ DOMAIN delivery = 1 .. Len(delivery)
           /\ \A d \in DOMAIN delivery : delivery[d] \in DeliveryRow
           /\ Len(attempts) \in Nat /\ DOMAIN attempts = 1 .. Len(attempts)
           /\ \A a \in DOMAIN attempts : attempts[a] \in DOMAIN delivery
           /\ Len(jobs) \in Nat /\ JobId = 1 .. Len(jobs)
           /\ \A j \in JobId : jobs[j] \in JobRow
BY LenProperties, ElementOfSeq DEF TypeOK, JobId

LEMMA IdleLists == \A w \in Worker : wk[w] = Idle => ListsOf(w)
BY IdleIsTyped DEF ListsOf

\* The lists of a goroutine stay good while rows are added to the tables.
LEMMA ListsKept ==
    ASSUME NEW v \in Worker, ListsOf(v), wk'[v] = wk[v],
           \A d \in DOMAIN delivery : d \in DOMAIN delivery' /\ delivery'[d] = delivery[d],
           \A a \in DOMAIN attempts : a \in DOMAIN attempts' /\ attempts'[a] = attempts[a]
    PROVE  ListsOf(v)'
BY DEF ListsOf

-----------------------------------------------------------------------------
(***************************************************************************)
(* The initial states.                                                     *)
(***************************************************************************)
LEMMA InitIInv == Init => IInv
<1> SUFFICES ASSUME Init PROVE IInv
  OBVIOUS
<1>1. \A w \in Worker : wk[w] = Idle
  BY DEF Init
<1>2. TypeOK
  <2>1. endpoint \in [Endpoint -> EndpointRow]
    BY DEF Init, EndpointRow
  <2>2. delivery \in Seq(DeliveryRow) /\ attempts \in Seq(1 .. Len(delivery)) /\ jobs \in Seq(JobRow)
    BY EmptySeq DEF Init
  <2>3. \A ev \in Event : Listeners(endpoint, ev) \in SUBSET Endpoint
    BY DEF Listeners
  <2> QED
    BY <1>1, <2>1, <2>2, <2>3, IdleIsTyped, ConstantsAssumption DEF Init, TypeOK, At
<1>3. Held
  BY <1>1, IdleIsTyped DEF Held, At
<1>4. Lists
  BY <1>1, IdleLists DEF Lists
<1>5. JobId = {} /\ \A w \in Worker : DOMAIN wk[w].attempts = {} /\ DOMAIN wk[w].rows = {}
  BY <1>1, IdleIsTyped, EmptySeq DEF Init, JobId
<1> QED
  BY <1>2, <1>3, <1>4, <1>5
  DEF Init, IInv, OneMention, JobsNameTheirAttempt, Heard, NoStranger, Submitted

-----------------------------------------------------------------------------
(***************************************************************************)
(* The steps.                                                              *)
(***************************************************************************)
\* What the steps of a handler have in common: one goroutine goes on with its
\* event, and rows are added to the tables.
LEMMA HandlerIInv ==
    ASSUME IInv, NEW w \in Worker, ~At(w, "idle"),
           wk' \in [Worker -> Goroutine], \A v \in Worker \ {w} : wk'[v] = wk[v],
           wk'[w].event = wk[w].event, wk'[w].pc # "idle",
           UNCHANGED <<mapping, endpoint, scope, crashes>>, failures' \in 0 .. MaxFailures,
           delivery' \in Seq(DeliveryRow), attempts' \in Seq(1 .. Len(delivery')),
           \A d \in DOMAIN delivery : d \in DOMAIN delivery' /\ delivery'[d] = delivery[d],
           \A a \in DOMAIN attempts : a \in DOMAIN attempts' /\ attempts'[a] = attempts[a],
           jobs' \in Seq(JobRow),
           ListsOf(w)',
           \A i \in DOMAIN wk'[w].rows : wk'[w].rows[i] \in scope[wk[w].event].ever
    PROVE  TypeOK' /\ Held' /\ Lists' /\ Heard'
<1>1. Lists'
  <2>1. ASSUME NEW v \in Worker PROVE ListsOf(v)'
    BY <2>1, ListsKept DEF IInv, Lists
  <2> QED
    BY <2>1 DEF Lists
<1>2. TypeOK'
  BY <1>1 DEF IInv, TypeOK, Lists, ListsOf, At
<1>3. Held'
  <2>1. ASSUME NEW v \in Worker
        PROVE  /\ wk'[v].event = wk[v].event /\ (At(v, "idle")' <=> At(v, "idle"))
               /\ At(v, "idle") => wk'[v] = wk[v]
    BY DEF At
  <2> QED
    BY <2>1 DEF IInv, Held
<1>4. Heard'
  BY DEF IInv, Heard, Listeners
<1> QED
  BY <1>1, <1>2, <1>3, <1>4

\* Where neither the attempts nor the jobs nor the lists of attempts change.
LEMMA MentionsKept ==
    ASSUME IInv, UNCHANGED <<attempts, jobs>>,
           \A d \in DOMAIN delivery : d \in DOMAIN delivery' /\ delivery'[d] = delivery[d],
           \A w \in Worker : wk'[w].attempts = <<>> \/ wk'[w] = wk[w]
    PROVE  OneMention' /\ JobsNameTheirAttempt'
<1>1. DOMAIN (<<>>) = {}
  OBVIOUS
<1>2. JobId' = JobId
  BY DEF JobId
<1>3. OneMention'
  BY <1>1, <1>2 DEF IInv, OneMention
<1>4. \A a \in DOMAIN attempts : attempts[a] \in DOMAIN delivery
  BY TableTypes DEF IInv
<1> QED
  BY <1>2, <1>3, <1>4 DEF IInv, JobsNameTheirAttempt

\* Where the history and the jobs stay.
LEMMA StrangersKept ==
    ASSUME IInv, UNCHANGED <<scope, jobs>>
    PROVE  NoStranger'
BY DEF IInv, NoStranger, JobId

\* Where no job of an event goes, and rows come for submitted events only.
LEMMA SubmittedKept ==
    ASSUME IInv, \A ev \in Event : mapping'[ev] = "none" => mapping[ev] = "none",
           \A d \in DOMAIN delivery' : \/ d \in DOMAIN delivery /\ delivery'[d] = delivery[d]
                                       \/ mapping'[delivery'[d].event] # "none",
           \A j \in JobId' : \/ j \in JobId /\ jobs'[j] = jobs[j]
                             \/ mapping'[jobs'[j].event] # "none"
    PROVE  Submitted'
<1>1. /\ \A d \in DOMAIN delivery : delivery[d].event \in Event
      /\ \A j \in JobId : jobs[j].event \in Event
  BY TableTypes DEF IInv, DeliveryRow, JobRow
<1> QED
  BY <1>1 DEF IInv, Submitted

\* The query has finitely many rows, so they come in some order.
LEMMA RowsAreFinite ==
    ASSUME TypeOK, NEW ev
    PROVE  IsFiniteSet(RowsOf(endpoint, ev))
<1> DEFINE f == [e \in Endpoint |-> {e} \X DOMAIN endpoint[e].listens]
           All == {{e} \X DOMAIN endpoint[e].listens : e \in Endpoint}
<1>1. ASSUME NEW e \in Endpoint PROVE IsFiniteSet({e} \X DOMAIN endpoint[e].listens)
  <2>1. endpoint[e].listens \in Seq(Subscription)
    <3>1. endpoint[e].listens \in Listening \cup {<<>>} /\ <<>> \in Seq(Subscription)
      BY EmptySeq DEF TypeOK, EndpointRow
    <3> QED
      BY <3>1, ConstantsAssumption
  <2>2. /\ DOMAIN endpoint[e].listens = 1 .. Len(endpoint[e].listens)
        /\ Len(endpoint[e].listens) \in Nat
    BY <2>1, LenProperties
  <2>3. IsFiniteSet(DOMAIN endpoint[e].listens)
    <3>1. \A n \in Nat : IsFiniteSet(1 .. n)
      BY FS_Interval
    <3> QED
      BY <2>2, <3>1
  <2> QED
    BY <2>3, FS_Singleton, FS_Product
<1>2. f \in Surjection(Endpoint, All)
  BY Fun_IsSurj
<1>3. IsFiniteSet(All)
  <2> HIDE DEF f, All
  <2> QED
    BY <1>2, ConstantsAssumption, FS_Surjection
<1>4. IsFiniteSet(UNION All)
  <2>1. \A T \in All : IsFiniteSet(T)
    BY <1>1
  <2> HIDE DEF All
  <2> QED
    BY <1>3, <2>1, FS_UNION
<1>5. RowsOf(endpoint, ev) \subseteq UNION All
  BY DEF RowsOf
<1> QED
  BY <1>4, <1>5, FS_Subset

\* What is selected are endpoints that listen now.
LEMMA SelectedListen ==
    ASSUME TypeOK, NEW ev, NEW s \in InSomeOrder(RowsOf(endpoint, ev))
    PROVE  /\ [i \in DOMAIN s |-> s[i][1]] \in Seq(Endpoint)
           /\ \A i \in DOMAIN s : s[i][1] \in Listeners(endpoint, ev)
<1> DEFINE n == Cardinality(RowsOf(endpoint, ev))
<1>1. n \in Nat
  BY RowsAreFinite, FS_CardinalityType
<1>2. DOMAIN s = 1 .. n /\ \A i \in DOMAIN s : s[i] \in RowsOf(endpoint, ev)
  BY DEF InSomeOrder
<1>3. ASSUME NEW row \in RowsOf(endpoint, ev)
      PROVE  row[1] \in Endpoint /\ row[1] \in Listeners(endpoint, ev)
  <2>1. PICK e \in Endpoint : row \in {e} \X DOMAIN endpoint[e].listens
    BY DEF RowsOf
  <2>2. row[1] = e /\ row[2] \in DOMAIN endpoint[e].listens
    BY <2>1
  <2> QED
    BY <2>2 DEF RowsOf, Listeners
<1>4. [i \in DOMAIN s |-> s[i][1]] \in [1 .. n -> Endpoint]
  BY <1>2, <1>3
<1>5. [i \in DOMAIN s |-> s[i][1]] \in Seq(Endpoint)
  <2> HIDE DEF n
  <2> QED
    BY <1>1, <1>4, SeqDef
<1> QED
  BY <1>2, <1>3, <1>5

\* What a busy goroutine holds.
LEMMA Busy ==
    ASSUME IInv, NEW w \in Worker, ~At(w, "idle")
    PROVE  /\ wk[w] \in Goroutine /\ ListsOf(w)
           /\ wk[w].event \in Event /\ mapping[wk[w].event] = "running"
BY DEF IInv, TypeOK, Held, Lists

\* A goroutine that goes on with its event.
GoesOn(w, pc) ==
    /\ wk' \in [Worker -> Goroutine] /\ \A v \in Worker \ {w} : wk'[v] = wk[v]
    /\ wk'[w].pc = pc /\ wk'[w].event = wk[w].event

\* What a step of the handler does to the lists of its goroutine.
LEMMA SelectDoes ==
    ASSUME IInv, NEW w \in Worker, Select(w)
    PROVE  /\ At(w, "claimed") /\ wk[w].event \in Event /\ GoesOn(w, "selected")
           /\ UNCHANGED <<mapping, endpoint, delivery, attempts, jobs, scope, crashes>>
           /\ failures' \in 0 .. MaxFailures
           /\ wk'[w].deliveries = <<>> /\ wk'[w].attempts = <<>> /\ wk'[w].sent = 0
           /\ \/ /\ failures' = failures
                 /\ \E s \in InSomeOrder(RowsOf(endpoint, wk[w].event)) :
                       wk'[w].rows = [i \in DOMAIN s |-> s[i][1]]
              \/ failures' = failures + 1 /\ wk'[w].rows = <<>>
<1>1. /\ At(w, "claimed") /\ wk[w] \in Goroutine /\ wk[w].event \in Event
      /\ wk[w].rows = <<>> /\ wk[w].deliveries = <<>> /\ wk[w].attempts = <<>> /\ wk[w].sent = 0
  BY Busy DEF Select, At, ListsOf
<1>2. /\ UNCHANGED <<mapping, endpoint, delivery, attempts, jobs, scope, crashes>>
      /\ failures' \in 0 .. MaxFailures
  BY ConstantsAssumption DEF Select, Fails, IInv, TypeOK
<1>3. CASE \E s \in InSomeOrder(RowsOf(endpoint, wk[w].event)) :
              /\ wk' = [wk EXCEPT ![w].pc = "selected",
                                  ![w].rows = [i \in DOMAIN s |-> s[i][1]]]
              /\ failures' = failures
  <2>1. PICK s \in InSomeOrder(RowsOf(endpoint, wk[w].event)) :
             wk' = [wk EXCEPT ![w].pc = "selected",
                              ![w].rows = [i \in DOMAIN s |-> s[i][1]]]
    BY <1>3
  <2> DEFINE r == [i \in DOMAIN s |-> s[i][1]]
             new == [wk[w] EXCEPT !.pc = "selected", !.rows = r]
  <2>2. r \in Seq(Endpoint)
    BY SelectedListen DEF IInv
  <2>3. wk' = [wk EXCEPT ![w] = new]
    BY <2>1
  <2>4. /\ new \in Goroutine /\ new.pc = "selected" /\ new.event = wk[w].event /\ new.rows = r
        /\ new.deliveries = <<>> /\ new.attempts = <<>> /\ new.sent = 0
    <3> HIDE DEF r
    <3> QED
      BY <1>1, <2>2 DEF Goroutine
  <2>5. wk'[w] = new /\ wk' \in [Worker -> Goroutine] /\ \A v \in Worker \ {w} : wk'[v] = wk[v]
    <3> HIDE DEF new
    <3> QED
      BY <2>3, <2>4 DEF IInv, TypeOK
  <2> HIDE DEF new
  <2> QED
    BY <1>1, <1>2, <1>3, <2>4, <2>5 DEF GoesOn
<1>4. CASE failures' = failures + 1 /\ wk' = [wk EXCEPT ![w].pc = "selected"]
  BY <1>1, <1>2, <1>4 DEF GoesOn, IInv, TypeOK, Goroutine
<1> QED
  BY <1>3, <1>4 DEF Select, Fails

LEMMA SelectIInv ==
    ASSUME IInv, NEW w \in Worker, Select(w)
    PROVE  IInv'
<1>1. /\ At(w, "claimed") /\ wk[w].event \in Event /\ GoesOn(w, "selected")
      /\ UNCHANGED <<mapping, endpoint, delivery, attempts, jobs, scope, crashes>>
      /\ failures' \in 0 .. MaxFailures
      /\ wk'[w].deliveries = <<>> /\ wk'[w].attempts = <<>> /\ wk'[w].sent = 0
  BY SelectDoes
<1>2. ListsOf(w)'
  BY <1>1 DEF ListsOf, GoesOn
<1>3. \A i \in DOMAIN wk'[w].rows : wk'[w].rows[i] \in scope[wk[w].event].ever
  <2>1. \A i \in DOMAIN wk'[w].rows : wk'[w].rows[i] \in Listeners(endpoint, wk[w].event)
    <3>1. DOMAIN (<<>>) = {}
      OBVIOUS
    <3> QED
      BY <3>1, SelectDoes, SelectedListen DEF IInv
  <2> QED
    BY <1>1, <2>1, Busy DEF IInv, Heard, At
<1>4. TypeOK' /\ Held' /\ Lists' /\ Heard'
  BY <1>1, <1>2, <1>3, HandlerIInv DEF IInv, TypeOK, At, GoesOn
<1>5. OneMention' /\ JobsNameTheirAttempt'
  BY <1>1, MentionsKept DEF GoesOn
<1>6. Submitted'
  BY <1>1, SubmittedKept DEF JobId
<1> QED
  BY <1>1, <1>4, <1>5, <1>6, StrangersKept DEF IInv

\* the ids that were given to new rows are those of the new rows
LEMMA NewIdsType ==
    ASSUME NEW S, NEW table \in Seq(S), NEW n \in Nat
    PROVE  /\ NewIds(table, n) \in Seq(Nat) /\ Len(NewIds(table, n)) = n
           /\ DOMAIN NewIds(table, n) = 1 .. n
           /\ \A i \in 1 .. n : NewIds(table, n)[i] = Len(table) + i /\ Len(table) + i # 0
<1>1. Len(table) \in Nat
  BY LenProperties
<1>2. NewIds(table, n) \in [1 .. n -> Nat]
  BY <1>1 DEF NewIds
<1>3. NewIds(table, n) \in Seq(Nat) /\ Len(NewIds(table, n)) = n
  BY <1>2, SeqDef, LenProperties
<1> QED
  BY <1>1, <1>3 DEF NewIds

LEMMA NoIdsType ==
    ASSUME NEW n \in Nat
    PROVE  /\ NoIds(n) \in Seq(Nat) /\ Len(NoIds(n)) = n
           /\ DOMAIN NoIds(n) = 1 .. n /\ \A i \in 1 .. n : NoIds(n)[i] = 0
<1>1. NoIds(n) \in [1 .. n -> Nat]
  BY DEF NoIds
<1>2. NoIds(n) \in Seq(Nat) /\ Len(NoIds(n)) = n
  BY <1>1, SeqDef, LenProperties
<1> QED
  BY <1>2 DEF NoIds

LEMMA CreateDeliveriesDoes ==
    ASSUME IInv, NEW w \in Worker, CreateDeliveries(w)
    PROVE  LET rows == wk[w].rows
               ids == wk'[w].deliveries
               new == [i \in DOMAIN rows |-> [event |-> wk[w].event, endpoint |-> rows[i]]]
           IN  /\ At(w, "selected") /\ wk[w].event \in Event /\ GoesOn(w, "delivering")
               /\ UNCHANGED <<mapping, endpoint, attempts, jobs, scope, crashes>>
               /\ failures' \in 0 .. MaxFailures
               /\ Len(rows) \in Nat /\ DOMAIN rows = 1 .. Len(rows)
               /\ \A i \in DOMAIN rows : rows[i] \in Endpoint
               /\ new \in Seq(DeliveryRow) /\ DOMAIN new = DOMAIN rows
               /\ wk'[w].rows = rows /\ wk'[w].attempts = <<>> /\ wk'[w].sent = 0
               /\ Len(ids) = Len(rows) /\ DOMAIN ids = DOMAIN rows
               /\ \/ /\ failures' = failures /\ delivery' = delivery \o new
                     /\ \A i \in DOMAIN ids : ids[i] = Len(delivery) + i
                  \/ /\ failures' = failures + 1 /\ delivery' = delivery
                     /\ \A i \in DOMAIN ids : ids[i] = 0
<1> DEFINE rows == wk[w].rows
           n == Len(rows)
           new == [i \in DOMAIN rows |-> [event |-> wk[w].event, endpoint |-> rows[i]]]
<1>1. /\ At(w, "selected") /\ wk[w] \in Goroutine /\ wk[w].event \in Event
      /\ wk[w].attempts = <<>> /\ wk[w].sent = 0
      /\ n \in Nat /\ DOMAIN rows = 1 .. n /\ rows \in Seq(Endpoint)
      /\ \A i \in DOMAIN rows : rows[i] \in Endpoint
  BY Busy, ListTypes DEF CreateDeliveries, At, ListsOf, IInv, TypeOK
<1>2. /\ UNCHANGED <<mapping, endpoint, attempts, jobs, scope, crashes>>
      /\ failures' \in 0 .. MaxFailures
  BY ConstantsAssumption DEF CreateDeliveries, Fails, IInv, TypeOK
<1>3. new \in Seq(DeliveryRow) /\ DOMAIN new = DOMAIN rows
  <2>1. new \in [DOMAIN rows -> DeliveryRow]
    BY <1>1 DEF DeliveryRow
  <2> QED
    BY <1>1, <2>1, RowsInPlace
<1>4. PICK ids \in Seq(Nat) :
         /\ wk' = [wk EXCEPT ![w] = [wk[w] EXCEPT !.pc = "delivering", !.deliveries = ids]]
         /\ Len(ids) = n /\ DOMAIN ids = 1 .. n
         /\ \/ /\ failures' = failures /\ delivery' = delivery \o new
               /\ \A i \in 1 .. n : ids[i] = Len(delivery) + i
            \/ /\ failures' = failures + 1 /\ delivery' = delivery
               /\ \A i \in 1 .. n : ids[i] = 0
  <2>1. CASE /\ failures' = failures /\ delivery' = delivery \o new
             /\ wk' = [wk EXCEPT ![w].pc = "delivering",
                                 ![w].deliveries = NewIds(delivery, n)]
    BY <1>1, <2>1, NewIdsType DEF IInv, TypeOK
  <2>2. CASE /\ failures' = failures + 1 /\ delivery' = delivery
             /\ wk' = [wk EXCEPT ![w].pc = "delivering", ![w].deliveries = NoIds(n)]
    BY <1>1, <2>2, NoIdsType
  <2> QED
    BY <2>1, <2>2 DEF CreateDeliveries, Fails
<1>5. /\ GoesOn(w, "delivering") /\ wk'[w].rows = rows
      /\ wk'[w].deliveries = ids /\ wk'[w].attempts = <<>> /\ wk'[w].sent = 0
  BY <1>1, <1>4 DEF IInv, TypeOK, Goroutine, GoesOn
<1> QED
  BY <1>1, <1>2, <1>3, <1>4, <1>5

LEMMA CreateDeliveriesIInv ==
    ASSUME IInv, NEW w \in Worker, CreateDeliveries(w)
    PROVE  IInv'
<1> DEFINE rows == wk[w].rows
           ids == wk'[w].deliveries
           n == Len(rows)
           new == [i \in DOMAIN rows |-> [event |-> wk[w].event, endpoint |-> rows[i]]]
<1>1. /\ At(w, "selected") /\ wk[w].event \in Event
      /\ n \in Nat /\ DOMAIN rows = 1 .. n /\ \A i \in DOMAIN rows : rows[i] \in Endpoint
  BY CreateDeliveriesDoes
<1>2. /\ UNCHANGED <<mapping, endpoint, attempts, jobs, scope, crashes>>
      /\ failures' \in 0 .. MaxFailures
  BY CreateDeliveriesDoes
<1>3. new \in Seq(DeliveryRow) /\ DOMAIN new = DOMAIN rows
  BY CreateDeliveriesDoes
<1>4. /\ Len(ids) = n /\ DOMAIN ids = 1 .. n
      /\ \/ delivery' = delivery \o new /\ \A i \in 1 .. n : ids[i] = Len(delivery) + i
         \/ delivery' = delivery /\ \A i \in 1 .. n : ids[i] = 0
  BY <1>1, CreateDeliveriesDoes
<1>5. /\ wk' \in [Worker -> Goroutine] /\ \A v \in Worker \ {w} : wk'[v] = wk[v]
      /\ wk'[w].pc = "delivering" /\ wk'[w].event = wk[w].event /\ wk'[w].rows = rows
      /\ wk'[w].deliveries = ids /\ wk'[w].attempts = <<>> /\ wk'[w].sent = 0
  BY CreateDeliveriesDoes DEF GoesOn
<1>6. /\ delivery' \in Seq(DeliveryRow)
      /\ \A d \in DOMAIN delivery : d \in DOMAIN delivery' /\ delivery'[d] = delivery[d]
      /\ \A i \in 1 .. n : ids[i] # 0 =>
            ids[i] \in DOMAIN delivery' /\ delivery'[ids[i]] = new[i]
  <2>1. CASE delivery' = delivery \o new /\ \A i \in 1 .. n : ids[i] = Len(delivery) + i
    <3>1. /\ delivery \o new \in Seq(DeliveryRow)
          /\ \A d \in DOMAIN delivery : /\ d \in DOMAIN (delivery \o new)
                                        /\ (delivery \o new)[d] = delivery[d]
          /\ \A i \in DOMAIN new : /\ Len(delivery) + i \in DOMAIN (delivery \o new)
                                   /\ (delivery \o new)[Len(delivery) + i] = new[i]
      <4> HIDE DEF new
      <4> QED
        BY <1>3, RowsInserted DEF IInv, TypeOK
    <3> HIDE DEF new
    <3> QED
      BY <1>1, <1>3, <2>1, <3>1
  <2>2. CASE delivery' = delivery /\ \A i \in 1 .. n : ids[i] = 0
    BY <2>2 DEF IInv, TypeOK
  <2> QED
    BY <1>4, <2>1, <2>2
<1>7. ListsOf(w)'
  <2>1. \A i \in 1 .. n : ids[i] # 0 =>
           /\ ids[i] \in DOMAIN delivery'
           /\ delivery'[ids[i]] = [event |-> wk[w].event, endpoint |-> rows[i]]
    BY <1>1, <1>6
  <2>2. DOMAIN (<<>>) = {}
    OBVIOUS
  <2> QED
    BY <1>1, <1>4, <1>5, <2>1, <2>2 DEF ListsOf
<1>8. attempts' \in Seq(1 .. Len(delivery'))
  <2>1. \A a \in DOMAIN attempts : attempts[a] \in DOMAIN delivery'
    BY <1>6, TableTypes DEF IInv
  <2>2. DOMAIN delivery' = 1 .. Len(delivery')
    BY <1>6, LenProperties
  <2>3. attempts \in [DOMAIN attempts -> 1 .. Len(delivery')]
    BY <2>1, <2>2, TableTypes DEF IInv, TypeOK
  <2> QED
    BY <1>2, <2>3, RowsInPlace DEF IInv, TypeOK
<1>9. \A i \in DOMAIN wk'[w].rows : wk'[w].rows[i] \in scope[wk[w].event].ever
  BY <1>5 DEF IInv, Heard
<1>10. TypeOK' /\ Held' /\ Lists' /\ Heard'
  BY <1>1, <1>2, <1>5, <1>6, <1>7, <1>8, <1>9, HandlerIInv DEF IInv, TypeOK, At
<1>11. OneMention' /\ JobsNameTheirAttempt'
  BY <1>2, <1>5, <1>6, MentionsKept
<1>12. Submitted'
  <2>1. mapping[wk[w].event] = "running"
    BY <1>1, Busy DEF At
  <2>2. ASSUME NEW d \in DOMAIN delivery'
        PROVE  \/ d \in DOMAIN delivery /\ delivery'[d] = delivery[d]
               \/ delivery'[d].event = wk[w].event
    <3>1. CASE delivery' = delivery \o new
      <4>1. /\ \A k \in DOMAIN delivery : (delivery \o new)[k] = delivery[k]
            /\ \A i \in DOMAIN new : (delivery \o new)[Len(delivery) + i] = new[i]
            /\ \A k \in DOMAIN (delivery \o new) :
                  k \in DOMAIN delivery \/ \E i \in DOMAIN new : k = Len(delivery) + i
        <5> HIDE DEF new
        <5> QED
          BY <1>3, RowsInserted DEF IInv, TypeOK
      <4>2. \A i \in DOMAIN new : new[i].event = wk[w].event
        OBVIOUS
      <4> HIDE DEF new
      <4> QED
        BY <2>2, <3>1, <4>1, <4>2
    <3>2. CASE delivery' = delivery
      BY <2>2, <3>2
    <3> QED
      BY <1>4, <3>1, <3>2
  <2> QED
    BY <1>2, <2>1, <2>2, SubmittedKept DEF JobId
<1> QED
  BY <1>2, <1>10, <1>11, <1>12, StrangersKept DEF IInv

LEMMA CreateAttemptsDoes ==
    ASSUME IInv, NEW w \in Worker, CreateAttempts(w)
    PROVE  LET ids == wk[w].deliveries
               as == wk'[w].attempts
           IN  /\ At(w, "delivering") /\ wk[w].event \in Event /\ GoesOn(w, "queueing")
               /\ UNCHANGED <<mapping, endpoint, delivery, jobs, scope, crashes>>
               /\ failures' \in 0 .. MaxFailures
               /\ ids \in Seq(Nat) /\ Len(ids) \in Nat /\ DOMAIN ids = 1 .. Len(ids)
               /\ wk'[w].rows = wk[w].rows /\ wk'[w].deliveries = ids /\ wk'[w].sent = 0
               /\ as \in Seq(Nat) /\ Len(as) = Len(ids) /\ DOMAIN as = DOMAIN ids
               /\ \/ /\ failures' = failures /\ \A i \in DOMAIN ids : ids[i] # 0
                     /\ attempts' = attempts \o ids
                     /\ \A i \in DOMAIN as : as[i] = Len(attempts) + i
                  \/ /\ failures' = failures + 1 \/ \E i \in DOMAIN ids : ids[i] = 0
                     /\ failures' >= failures
                     /\ attempts' = attempts /\ \A i \in DOMAIN as : as[i] = 0
<1> DEFINE ids == wk[w].deliveries
           n == Len(ids)
<1>1. /\ At(w, "delivering") /\ wk[w] \in Goroutine /\ wk[w].event \in Event
      /\ wk[w].sent = 0 /\ n \in Nat /\ DOMAIN ids = 1 .. n /\ ids \in Seq(Nat)
  BY Busy, ListTypes DEF CreateAttempts, At, ListsOf, IInv, TypeOK
<1>2. /\ UNCHANGED <<mapping, endpoint, delivery, jobs, scope, crashes>>
      /\ failures' \in 0 .. MaxFailures /\ failures \in Nat
  BY ConstantsAssumption DEF CreateAttempts, Fails, IInv, TypeOK
<1>3. PICK as \in Seq(Nat) :
         /\ wk' = [wk EXCEPT ![w] = [wk[w] EXCEPT !.pc = "queueing", !.attempts = as]]
         /\ Len(as) = n /\ DOMAIN as = 1 .. n
         /\ \/ /\ failures' = failures /\ \A i \in 1 .. n : ids[i] # 0
               /\ attempts' = attempts \o ids /\ \A i \in 1 .. n : as[i] = Len(attempts) + i
            \/ /\ failures' = failures + 1 \/ \E i \in 1 .. n : ids[i] = 0
               /\ failures' >= failures
               /\ attempts' = attempts /\ \A i \in 1 .. n : as[i] = 0
  <2>1. CASE /\ failures' = failures /\ \A i \in 1 .. n : ids[i] # 0
             /\ attempts' = attempts \o ids
             /\ wk' = [wk EXCEPT ![w].pc = "queueing", ![w].attempts = NewIds(attempts, n)]
    <3> DEFINE as == NewIds(attempts, n)
    <3>1. /\ as \in Seq(Nat) /\ Len(as) = n /\ DOMAIN as = 1 .. n
          /\ \A i \in 1 .. n : as[i] = Len(attempts) + i
      <4>1. attempts \in Seq(1 .. Len(delivery)) /\ n \in Nat
        BY <1>1 DEF IInv, TypeOK
      <4> HIDE DEF n
      <4> QED
        BY <4>1, NewIdsType
    <3>2. wk' = [wk EXCEPT ![w] = [wk[w] EXCEPT !.pc = "queueing", !.attempts = as]]
      BY <2>1
    <3> HIDE DEF as
    <3> QED
      BY <2>1, <3>1, <3>2
  <2>2. CASE /\ failures' = failures + 1 \/ \E i \in 1 .. n : ids[i] = 0
             /\ failures' >= failures /\ attempts' = attempts
             /\ wk' = [wk EXCEPT ![w].pc = "queueing", ![w].attempts = NoIds(n)]
    BY <1>1, <2>2, NoIdsType
  <2>3. \/ failures' = failures + 1 /\ failures' >= failures
        \/ failures' = failures /\ failures' >= failures
    BY <1>2 DEF CreateAttempts, Fails
  <2> QED
    BY <1>1, <2>1, <2>2, <2>3 DEF CreateAttempts, Fails
<1>4. /\ GoesOn(w, "queueing") /\ wk'[w].rows = wk[w].rows
      /\ wk'[w].deliveries = ids /\ wk'[w].attempts = as /\ wk'[w].sent = 0
  BY <1>1, <1>3 DEF IInv, TypeOK, Goroutine, GoesOn
<1> QED
  BY <1>1, <1>2, <1>3, <1>4

LEMMA CreateAttemptsIInv ==
    ASSUME IInv, NEW w \in Worker, CreateAttempts(w)
    PROVE  IInv'
<1> DEFINE ids == wk[w].deliveries
           as == wk'[w].attempts
           n == Len(ids)
<1>1. /\ At(w, "delivering") /\ wk[w].event \in Event
      /\ n \in Nat /\ DOMAIN ids = 1 .. n /\ ids \in Seq(Nat)
      /\ Len(wk[w].rows) = n /\ DOMAIN wk[w].rows = 1 .. n
      /\ \A i \in 1 .. n : ids[i] # 0 =>
            /\ ids[i] \in DOMAIN delivery
            /\ delivery[ids[i]] = [event |-> wk[w].event, endpoint |-> wk[w].rows[i]]
  <2>1. At(w, "delivering") /\ wk[w].pc = "delivering" /\ ~At(w, "idle")
    BY DEF CreateAttempts, At
  <2>2. wk[w].event \in Event /\ ListsOf(w)
    BY <2>1, Busy
  <2>3. n \in Nat /\ DOMAIN ids = 1 .. n /\ ids \in Seq(Nat) /\ DOMAIN wk[w].rows = 1 .. Len(wk[w].rows)
    BY ListTypes DEF IInv, TypeOK
  <2>4. Len(wk[w].rows) = n
    BY <2>1, <2>2 DEF ListsOf
  <2>5. \A i \in DOMAIN ids : ids[i] # 0 =>
            /\ ids[i] \in DOMAIN delivery
            /\ delivery[ids[i]] = [event |-> wk[w].event, endpoint |-> wk[w].rows[i]]
    BY <2>2 DEF ListsOf
  <2> QED
    BY <2>1, <2>2, <2>3, <2>4, <2>5
<1>2. /\ UNCHANGED <<mapping, endpoint, delivery, jobs, scope, crashes>>
      /\ failures' \in 0 .. MaxFailures
  BY CreateAttemptsDoes
<1>3. /\ as \in Seq(Nat) /\ Len(as) = n /\ DOMAIN as = 1 .. n
      /\ \/ /\ \A i \in 1 .. n : ids[i] # 0
            /\ attempts' = attempts \o ids /\ \A i \in 1 .. n : as[i] = Len(attempts) + i
         \/ attempts' = attempts /\ \A i \in 1 .. n : as[i] = 0
  BY CreateAttemptsDoes
<1>4. /\ wk' \in [Worker -> Goroutine] /\ \A v \in Worker \ {w} : wk'[v] = wk[v]
      /\ wk'[w].pc = "queueing" /\ wk'[w].event = wk[w].event /\ wk'[w].rows = wk[w].rows
      /\ wk'[w].deliveries = ids /\ wk'[w].attempts = as /\ wk'[w].sent = 0
  BY CreateAttemptsDoes DEF GoesOn
<1>5. /\ Len(attempts) \in Nat /\ DOMAIN attempts = 1 .. Len(attempts)
      /\ \A a \in DOMAIN attempts : attempts[a] \in DOMAIN delivery
  BY TableTypes DEF IInv
<1>6. /\ attempts' \in Seq(1 .. Len(delivery))
      /\ \A a \in DOMAIN attempts : a \in DOMAIN attempts' /\ attempts'[a] = attempts[a]
      /\ \A i \in 1 .. n : as[i] # 0 =>
            /\ as[i] \in DOMAIN attempts' /\ as[i] = Len(attempts) + i
            /\ ids[i] # 0 /\ attempts'[as[i]] = ids[i]
  <2>1. CASE /\ \A i \in 1 .. n : ids[i] # 0
             /\ attempts' = attempts \o ids /\ \A i \in 1 .. n : as[i] = Len(attempts) + i
    <3>1. ids \in Seq(1 .. Len(delivery))
      <4>1. \A i \in DOMAIN ids : ids[i] \in 1 .. Len(delivery)
        BY <1>1, <2>1, TableTypes DEF IInv
      <4> QED
        BY <1>1, <4>1, Retyped
    <3>2. /\ attempts \o ids \in Seq(1 .. Len(delivery))
          /\ \A a \in DOMAIN attempts : /\ a \in DOMAIN (attempts \o ids)
                                        /\ (attempts \o ids)[a] = attempts[a]
          /\ \A i \in DOMAIN ids : /\ Len(attempts) + i \in DOMAIN (attempts \o ids)
                                   /\ (attempts \o ids)[Len(attempts) + i] = ids[i]
      <4> DEFINE T == 1 .. Len(delivery)
      <4>1. attempts \in Seq(T) /\ ids \in Seq(T)
        BY <3>1 DEF IInv, TypeOK
      <4> HIDE DEF ids, T
      <4>2. /\ attempts \o ids \in Seq(T)
            /\ \A a \in DOMAIN attempts : /\ a \in DOMAIN (attempts \o ids)
                                          /\ (attempts \o ids)[a] = attempts[a]
            /\ \A i \in DOMAIN ids : /\ Len(attempts) + i \in DOMAIN (attempts \o ids)
                                     /\ (attempts \o ids)[Len(attempts) + i] = ids[i]
        BY <4>1, RowsInserted
      <4> QED
        BY <4>2 DEF T
    <3> QED
      BY <1>1, <2>1, <3>2
  <2>2. CASE attempts' = attempts /\ \A i \in 1 .. n : as[i] = 0
    BY <2>2 DEF IInv, TypeOK
  <2> QED
    BY <1>3, <2>1, <2>2
<1>7. ListsOf(w)'
  <2>1. \A i \in DOMAIN ids : ids[i] # 0 =>
           /\ ids[i] \in DOMAIN delivery'
           /\ delivery'[ids[i]] = [event |-> wk'[w].event, endpoint |-> wk'[w].rows[i]]
    BY <1>1, <1>2, <1>4
  <2>2. \A i \in DOMAIN as : as[i] # 0 =>
           as[i] \in DOMAIN attempts' /\ ids[i] # 0 /\ attempts'[as[i]] = ids[i]
    BY <1>3, <1>6
  <2>3. Len(ids) = Len(wk'[w].rows) /\ Len(as) = Len(wk'[w].rows) /\ 0 <= Len(as)
    BY <1>1, <1>3, <1>4
  <2> HIDE DEF ids, n
  <2> QED
    BY <1>4, <2>1, <2>2, <2>3 DEF ListsOf
<1>8. \A i \in DOMAIN wk'[w].rows : wk'[w].rows[i] \in scope[wk[w].event].ever
  BY <1>4 DEF IInv, Heard
<1>9. TypeOK' /\ Held' /\ Lists' /\ Heard'
  BY <1>1, <1>2, <1>4, <1>6, <1>7, <1>8, HandlerIInv DEF IInv, TypeOK, At
<1>10. \A v \in Worker : \A k \in DOMAIN wk'[v].attempts : wk'[v].attempts[k] # 0 =>
          \/ v = w /\ wk'[v].attempts[k] = Len(attempts) + k /\ k \in 1 .. n
          \/ v # w /\ wk'[v] = wk[v] /\ wk'[v].attempts[k] \in DOMAIN attempts
  <2>1. ASSUME NEW v \in Worker \ {w} PROVE ListsOf(v)
    BY DEF IInv, Lists
  <2>2. ASSUME NEW v \in Worker \ {w}, NEW k \in DOMAIN wk[v].attempts, wk[v].attempts[k] # 0
        PROVE  wk[v].attempts[k] \in DOMAIN attempts
    BY <2>1, <2>2 DEF ListsOf
  <2>3. ASSUME NEW k \in DOMAIN as, as[k] # 0 PROVE k \in 1 .. n /\ as[k] = Len(attempts) + k
    BY <1>3, <1>6, <2>3
  <2>4. ASSUME NEW v \in Worker, NEW k \in DOMAIN wk'[v].attempts, wk'[v].attempts[k] # 0
        PROVE  \/ v = w /\ wk'[v].attempts[k] = Len(attempts) + k /\ k \in 1 .. n
               \/ v # w /\ wk'[v] = wk[v] /\ wk'[v].attempts[k] \in DOMAIN attempts
    <3>1. CASE v = w
      BY <1>4, <2>3, <2>4, <3>1
    <3>2. CASE v # w
      BY <1>4, <2>2, <2>4, <3>2
    <3> QED
      BY <3>1, <3>2
  <2> QED
    BY <2>4
<1>11. OneMention'
  <2>1. ASSUME NEW v \in Worker, NEW u \in Worker,
               NEW i \in DOMAIN wk'[v].attempts, NEW k \in DOMAIN wk'[u].attempts,
               wk'[v].attempts[i] = wk'[u].attempts[k], wk'[v].attempts[i] # 0
        PROVE  v = u /\ i = k
    <3>1. CASE v # w /\ u # w
      BY <1>4, <2>1, <3>1 DEF IInv, OneMention
    <3>2. CASE v = w \/ u = w
      BY <1>5, <1>10, <2>1, <3>2
    <3> QED
      BY <3>1, <3>2
  <2>2. ASSUME NEW v \in Worker, NEW i \in DOMAIN wk'[v].attempts, NEW j \in JobId,
               jobs[j].attempt = wk'[v].attempts[i], jobs[j].attempt # 0
        PROVE  i <= wk'[v].sent
    <3>1. jobs[j].attempt \in DOMAIN attempts
      BY <2>2 DEF IInv, JobsNameTheirAttempt
    <3>2. v # w /\ wk'[v] = wk[v]
      BY <1>5, <1>10, <2>2, <3>1
    <3> QED
      BY <2>2, <3>2 DEF IInv, OneMention
  <2> QED
    BY <1>2, <2>1, <2>2 DEF OneMention, JobId
<1>12. JobsNameTheirAttempt'
  BY <1>2, <1>6 DEF IInv, JobsNameTheirAttempt, JobId
<1>13. Submitted'
  BY <1>2, SubmittedKept DEF JobId
<1> QED
  BY <1>2, <1>9, <1>11, <1>12, <1>13, StrangersKept DEF IInv

LEMMA EnqueueDoes ==
    ASSUME IInv, NEW w \in Worker, Enqueue(w)
    PROVE  LET s == wk[w]
               i == s.sent + 1
           IN  /\ At(w, "queueing") /\ s.event \in Event /\ GoesOn(w, "queueing")
               /\ UNCHANGED <<mapping, endpoint, delivery, attempts, scope, crashes>>
               /\ failures' \in 0 .. MaxFailures
               /\ s.sent \in Nat /\ i \in DOMAIN s.attempts
               /\ DOMAIN s.attempts = 1 .. Len(s.attempts) /\ Len(s.attempts) \in Nat
               /\ DOMAIN s.rows = DOMAIN s.attempts /\ DOMAIN s.deliveries = DOMAIN s.attempts
               /\ wk'[w].rows = s.rows /\ wk'[w].deliveries = s.deliveries
               /\ wk'[w].attempts = s.attempts /\ wk'[w].sent = i
               /\ Payload(s, i) \in JobRow
               /\ \/ failures' = failures /\ jobs' = Append(jobs, Payload(s, i))
                  \/ failures' = failures + 1 /\ jobs' = jobs
<1> DEFINE s == wk[w]
           i == s.sent + 1
<1>1. /\ At(w, "queueing") /\ s \in Goroutine /\ s.event \in Event
      /\ s.sent \in Nat /\ s.sent <= Len(s.attempts) /\ s.sent # Len(s.attempts)
      /\ Len(s.attempts) \in Nat /\ DOMAIN s.attempts = 1 .. Len(s.attempts)
      /\ DOMAIN s.rows = 1 .. Len(s.attempts) /\ DOMAIN s.deliveries = 1 .. Len(s.attempts)
      /\ \A k \in 1 .. Len(s.attempts) : s.attempts[k] \in Nat /\ s.rows[k] \in Endpoint
  BY Busy, ListTypes DEF Enqueue, AllSent, At, ListsOf, IInv, TypeOK
<1>2. i \in 1 .. Len(s.attempts)
  BY <1>1
<1>3. /\ UNCHANGED <<mapping, endpoint, delivery, attempts, scope, crashes>>
      /\ failures' \in 0 .. MaxFailures
      /\ \/ failures' = failures /\ jobs' = Append(jobs, Payload(s, i))
         \/ failures' = failures + 1 /\ jobs' = jobs
  BY ConstantsAssumption DEF Enqueue, Fails, IInv, TypeOK
<1>4. /\ GoesOn(w, "queueing") /\ wk'[w].rows = s.rows
      /\ wk'[w].deliveries = s.deliveries /\ wk'[w].attempts = s.attempts /\ wk'[w].sent = i
  <2>1. wk' = [wk EXCEPT ![w] = [s EXCEPT !.sent = i]]
    BY DEF Enqueue
  <2>2. [s EXCEPT !.sent = i] \in Goroutine
    <3>1. s \in Goroutine /\ i \in Nat
      BY <1>1
    <3> HIDE DEF s, i
    <3> QED
      BY <3>1 DEF Goroutine
  <2>3. wk' \in [Worker -> Goroutine] /\ wk'[w] = [s EXCEPT !.sent = i]
        /\ \A v \in Worker \ {w} : wk'[v] = wk[v]
    BY <2>1, <2>2 DEF IInv, TypeOK
  <2> QED
    BY <1>1, <2>3 DEF Goroutine, At, GoesOn
<1>5. Payload(s, i) \in JobRow
  BY <1>1, <1>2 DEF Payload, JobRow
<1> QED
  BY <1>1, <1>2, <1>3, <1>4, <1>5

LEMMA EnqueueIInv ==
    ASSUME IInv, NEW w \in Worker, Enqueue(w)
    PROVE  IInv'
<1> DEFINE s == wk[w]
           i == s.sent + 1
<1>1. /\ At(w, "queueing") /\ s.event \in Event /\ ListsOf(w)
      /\ s.sent \in Nat /\ s.sent <= Len(s.attempts)
      /\ Len(s.attempts) \in Nat /\ DOMAIN s.attempts = 1 .. Len(s.attempts)
      /\ DOMAIN s.rows = 1 .. Len(s.attempts) /\ DOMAIN s.deliveries = 1 .. Len(s.attempts)
  BY EnqueueDoes, Busy DEF At, ListsOf
<1>2. i \in 1 .. Len(s.attempts) /\ i \notin 1 .. s.sent
  BY <1>1, EnqueueDoes
<1>3. /\ UNCHANGED <<mapping, endpoint, delivery, attempts, scope, crashes>>
      /\ failures' \in 0 .. MaxFailures
  BY EnqueueDoes
<1>4. /\ wk' \in [Worker -> Goroutine] /\ \A v \in Worker \ {w} : wk'[v] = wk[v]
      /\ wk'[w].pc = "queueing" /\ wk'[w].event = s.event /\ wk'[w].rows = s.rows
      /\ wk'[w].deliveries = s.deliveries /\ wk'[w].attempts = s.attempts /\ wk'[w].sent = i
  BY EnqueueDoes DEF GoesOn
<1>5. ListsOf(w)'
  <2>1. wk'[w].pc = wk[w].pc /\ wk'[w].sent <= Len(s.attempts)
    BY <1>1, <1>2, <1>4 DEF At
  <2>2. /\ UNCHANGED <<delivery, attempts>> /\ wk[w].pc = "queueing"
        /\ wk'[w].rows = wk[w].rows /\ wk'[w].deliveries = wk[w].deliveries
        /\ wk'[w].attempts = wk[w].attempts /\ wk'[w].event = wk[w].event
    BY <1>1, <1>3, <1>4 DEF At
  <2>3. wk'[w].sent <= Len(wk[w].attempts) /\ ListsOf(w)
    BY <1>1, <2>1
  <2> HIDE DEF s, i
  <2> QED
    BY <2>1, <2>2, <2>3 DEF ListsOf
<1> DEFINE job == Payload(s, i)
<1>6. /\ job \in JobRow
      /\ job.attempt = s.attempts[i] /\ job.event = s.event /\ job.endpoint = s.rows[i]
  BY EnqueueDoes DEF Payload
<1>7. \/ jobs' = jobs
      \/ jobs' = Append(jobs, job)
  BY EnqueueDoes
<1>8. /\ jobs' \in Seq(JobRow)
      /\ \A j \in JobId' : \/ j \in JobId /\ jobs'[j] = jobs[j]
                           \/ j = Len(jobs) + 1 /\ j \notin JobId /\ jobs'[j] = job
  <2>1. CASE jobs' = jobs
    BY <2>1 DEF IInv, TypeOK, JobId
  <2>2. CASE jobs' = Append(jobs, job)
    <3> HIDE DEF job
    <3> QED
      BY <1>6, <2>2, RowInserted DEF IInv, TypeOK, JobId
  <2> QED
    BY <1>7, <2>1, <2>2
<1>9. \A k \in DOMAIN wk'[w].rows : wk'[w].rows[k] \in scope[s.event].ever
  BY <1>4 DEF IInv, Heard
<1>10. TypeOK' /\ Held' /\ Lists' /\ Heard'
  BY <1>1, <1>3, <1>4, <1>5, <1>8, <1>9, HandlerIInv DEF IInv, TypeOK, At
<1>11. \A v \in Worker : wk'[v].attempts = wk[v].attempts /\ (v # w => wk'[v] = wk[v])
  BY <1>4
<1>12. OneMention'
  <2>1. ASSUME NEW v \in Worker, NEW k \in DOMAIN wk[v].attempts, NEW j \in JobId',
               jobs'[j].attempt = wk[v].attempts[k], jobs'[j].attempt # 0
        PROVE  k <= wk'[v].sent
    <3>1. CASE j \in JobId /\ jobs'[j] = jobs[j]
      <4>1. k <= wk[v].sent
        BY <2>1, <3>1 DEF IInv, OneMention
      <4>2. CASE v = w
        BY <1>1, <1>4, <2>1, <4>1, <4>2
      <4> QED
        BY <1>11, <4>1, <4>2
    <3>2. CASE jobs'[j] = job
      <4>1. wk[w].attempts[i] = wk[v].attempts[k] /\ wk[w].attempts[i] # 0
        BY <1>6, <2>1, <3>2
      <4>2. v = w /\ k = i
        BY <1>1, <1>2, <2>1, <4>1 DEF IInv, OneMention
      <4> QED
        BY <1>1, <1>4, <4>2
    <3> QED
      BY <1>8, <3>1, <3>2
  <2> QED
    BY <1>11, <2>1 DEF IInv, OneMention
<1>13. JobsNameTheirAttempt'
  <2>1. job.attempt # 0 => /\ job.attempt \in DOMAIN attempts
                           /\ delivery[attempts[job.attempt]] =
                                 [event |-> job.event, endpoint |-> job.endpoint]
    BY <1>1, <1>2, <1>6 DEF ListsOf
  <2>2. \A j \in JobId : jobs[j].attempt = job.attempt => job.attempt = 0
    BY <1>1, <1>2, <1>6 DEF IInv, OneMention
  <2> HIDE DEF job
  <2> QED
    <3>1. ASSUME NEW j \in JobId', jobs'[j].attempt # 0
          PROVE  /\ jobs'[j].attempt \in DOMAIN attempts
                 /\ delivery[attempts[jobs'[j].attempt]] =
                       [event |-> jobs'[j].event, endpoint |-> jobs'[j].endpoint]
      BY <1>8, <2>1, <3>1 DEF IInv, JobsNameTheirAttempt
    <3>2. ASSUME NEW j \in JobId', NEW k \in JobId',
                 jobs'[j].attempt = jobs'[k].attempt, jobs'[j].attempt # 0
          PROVE  j = k
      BY <1>8, <2>2, <3>2 DEF IInv, JobsNameTheirAttempt
    <3> QED
      BY <1>3, <3>1, <3>2 DEF JobsNameTheirAttempt
<1>14. NoStranger'
  <2>1. job.endpoint \in scope[job.event].ever
    BY <1>1, <1>2, <1>6 DEF IInv, Heard
  <2> HIDE DEF job
  <2> QED
    BY <1>3, <1>8, <2>1 DEF IInv, NoStranger
<1>15. Submitted'
  <2>1. mapping[job.event] = "running"
    BY <1>1, <1>6, Busy DEF At
  <2> HIDE DEF job
  <2> QED
    BY <1>3, <1>8, <2>1, SubmittedKept
<1> QED
  BY <1>10, <1>12, <1>13, <1>14, <1>15 DEF IInv

\* What Claim and Finish have in common: a goroutine takes or leaves a job, and
\* holds no lists of attempts afterwards.
LEMMA TakeOrLeave ==
    ASSUME IInv, NEW w \in Worker, NEW ev \in Event, NEW state \in {"running", "done"},
           mapping' = [mapping EXCEPT ![ev] = state],
           wk' \in [Worker -> Goroutine], \A v \in Worker \ {w} : wk'[v] = wk[v],
           wk'[w].rows = <<>>, wk'[w].deliveries = <<>>, wk'[w].attempts = <<>>,
           wk'[w].sent = 0, wk'[w].pc \in {"idle", "claimed"},
           UNCHANGED <<endpoint, delivery, attempts, jobs, scope, failures, crashes>>,
           mapping[ev] # "none", Held'
    PROVE  IInv'
<1>1. DOMAIN (<<>>) = {}
  OBVIOUS
<1>2. Lists'
  <2>1. ASSUME NEW v \in Worker PROVE ListsOf(v)'
    <3>1. CASE v = w
      BY <1>1, <3>1 DEF ListsOf
    <3>2. CASE v # w
      BY <3>2, ListsKept DEF IInv, Lists
    <3> QED
      BY <3>1, <3>2
  <2> QED
    BY <2>1 DEF Lists
<1>3. TypeOK'
  <2>1. mapping' \in [Event -> {"none", "queued", "running", "done"}]
    BY DEF IInv, TypeOK
  <2> QED
    BY <1>2, <2>1 DEF IInv, TypeOK, Lists, ListsOf, At
<1>4. \A x \in Event : mapping'[x] = "none" <=> mapping[x] = "none"
  BY DEF IInv, TypeOK
<1>5. Heard'
  BY <1>1, <1>4 DEF IInv, Heard, Listeners
<1>6. OneMention' /\ JobsNameTheirAttempt'
  BY MentionsKept
<1>7. Submitted'
  BY <1>4, SubmittedKept DEF JobId
<1> QED
  BY <1>2, <1>3, <1>5, <1>6, <1>7, StrangersKept DEF IInv

LEMMA ClaimIInv ==
    ASSUME IInv, NEW w \in Worker, NEW ev \in Event, Claim(w, ev)
    PROVE  IInv'
<1> DEFINE s == [Idle EXCEPT !.pc = "claimed", !.event = ev]
<1>1. /\ s \in Goroutine /\ s.pc = "claimed" /\ s.event = ev /\ s.rows = <<>>
      /\ s.deliveries = <<>> /\ s.attempts = <<>> /\ s.sent = 0
  BY IdleIsTyped DEF Goroutine
<1>2. wk' \in [Worker -> Goroutine] /\ wk'[w] = s /\ \A v \in Worker \ {w} : wk'[v] = wk[v]
  BY <1>1 DEF Claim, IInv, TypeOK
<1>3. mapping[ev] = "queued" /\ mapping' = [mapping EXCEPT ![ev] = "running"]
  BY DEF Claim
<1>4. Held'
  <2>1. \A v \in Worker : ~At(v, "idle") => wk[v].event # ev
    BY <1>3 DEF IInv, Held
  <2>2. \A v \in Worker : At(v, "idle") => wk[v].event # ev
    BY IdleIsTyped DEF IInv, Held
  <2>3. \A v \in Worker \ {w} : wk'[v] = wk[v] /\ wk'[v].event # ev /\ (At(v, "idle")' <=> At(v, "idle"))
    BY <1>2, <2>1, <2>2 DEF At
  <2>4. ~At(w, "idle")' /\ wk'[w].event = ev
    BY <1>1, <1>2 DEF At
  <2>5. mapping'[ev] = "running" /\ \A e \in Event : mapping[e] = "running" => mapping'[e] = "running"
    BY <1>3 DEF IInv, TypeOK
  <2>6. ASSUME NEW v \in Worker
        PROVE  IF At(v, "idle")' THEN wk'[v] = Idle
               ELSE wk'[v].event \in Event /\ mapping'[wk'[v].event] = "running"
    <3>1. CASE v = w
      BY <2>4, <2>5, <3>1
    <3>2. CASE v # w
      BY <2>3, <2>5, <3>2 DEF IInv, Held
    <3> QED
      BY <3>1, <3>2
  <2>7. ASSUME NEW u \in Worker, NEW v \in Worker, ~At(u, "idle")', wk'[u].event = wk'[v].event
        PROVE  u = v
    BY <2>3, <2>4, <2>7 DEF IInv, Held
  <2> QED
    BY <2>6, <2>7 DEF Held
<1>5. /\ wk'[w].rows = <<>> /\ wk'[w].deliveries = <<>> /\ wk'[w].attempts = <<>>
      /\ wk'[w].sent = 0 /\ wk'[w].pc \in {"idle", "claimed"}
      /\ UNCHANGED <<endpoint, delivery, attempts, jobs, scope, failures, crashes>>
  BY <1>1, <1>2 DEF Claim
<1> HIDE DEF s
<1> QED
  BY <1>2, <1>3, <1>4, <1>5, TakeOrLeave

LEMMA FinishIInv ==
    ASSUME IInv, NEW w \in Worker, Finish(w)
    PROVE  IInv'
<1> DEFINE ev == wk[w].event
<1>1. /\ ~At(w, "idle") /\ ev \in Event /\ mapping' = [mapping EXCEPT ![ev] = "done"]
      /\ wk' \in [Worker -> Goroutine] /\ wk'[w] = Idle /\ \A v \in Worker \ {w} : wk'[v] = wk[v]
  BY Busy, IdleIsTyped DEF Finish, At, IInv, TypeOK
<1>2. Held'
  <2>1. \A v \in Worker \ {w} : wk[v].event # ev
    BY <1>1 DEF IInv, Held
  <2>2. At(w, "idle")' /\ wk'[w].event = 0
    BY <1>1, IdleIsTyped DEF At
  <2>3. \A v \in Worker \ {w} : wk'[v] = wk[v] /\ (At(v, "idle")' <=> At(v, "idle"))
    BY <1>1 DEF At
  <2>4. \A e \in Event \ {ev} : mapping'[e] = mapping[e]
    BY <1>1 DEF IInv, TypeOK
  <2> HIDE DEF ev
  <2>5. ASSUME NEW v \in Worker
        PROVE  IF At(v, "idle")' THEN wk'[v] = Idle
               ELSE wk'[v].event \in Event /\ mapping'[wk'[v].event] = "running"
    <3>1. CASE v = w
      BY <1>1, <2>2, <3>1
    <3>2. CASE v # w
      BY <2>1, <2>3, <2>4, <3>2 DEF IInv, Held
    <3> QED
      BY <3>1, <3>2
  <2>6. ASSUME NEW u \in Worker, NEW v \in Worker, ~At(u, "idle")', wk'[u].event = wk'[v].event
        PROVE  u = v
    <3>1. u # w /\ wk'[u].event # 0
      BY <2>2, <2>5, <2>6, EventsAreNumbers
    <3> QED
      BY <2>2, <2>3, <2>6, <3>1 DEF IInv, Held
  <2> QED
    BY <2>5, <2>6 DEF Held
<1>3. /\ wk'[w].rows = <<>> /\ wk'[w].deliveries = <<>> /\ wk'[w].attempts = <<>>
      /\ wk'[w].sent = 0 /\ wk'[w].pc \in {"idle", "claimed"}
      /\ UNCHANGED <<endpoint, delivery, attempts, jobs, scope, failures, crashes>>
  BY <1>1, IdleIsTyped DEF Finish
<1>4. PICK e \in Event : mapping' = [mapping EXCEPT ![e] = "done"] /\ mapping[e] # "none"
  BY <1>1, Busy
<1> HIDE DEF ev
<1> QED
  BY <1>1, <1>2, <1>3, <1>4, TakeOrLeave

LEMMA CrashIInv ==
    ASSUME IInv, NEW p \in Process, Crash(p)
    PROVE  IInv'
<1> DEFINE dead == {w \in Worker : ProcessOf[w] = p}
<1>1. /\ \A w \in dead : wk'[w] = Idle
      /\ \A w \in Worker \ dead : wk'[w] = wk[w]
      /\ wk' \in [Worker -> Goroutine] /\ crashes' \in 0 .. MaxCrashes
  BY IdleIsTyped, ConstantsAssumption DEF Crash, IInv, TypeOK
<1>2. UNCHANGED <<endpoint, delivery, attempts, jobs, scope, failures>>
  BY DEF Crash
<1>3. mapping' = [ev \in Event |->
          IF \E w \in dead : wk[w].event = ev THEN "queued" ELSE mapping[ev]]
  BY DEF Crash
<1>4. /\ mapping' \in [Event -> {"none", "queued", "running", "done"}]
      /\ \A ev \in Event : mapping'[ev] = "none" <=> mapping[ev] = "none"
  <2>1. \A w \in Worker : wk[w].event \in Event => mapping[wk[w].event] = "running"
    BY IdleIsTyped DEF IInv, Held
  <2> QED
    BY <1>3, <2>1 DEF IInv, TypeOK
<1> HIDE DEF dead
<1>5. Lists'
  <2>1. ASSUME NEW v \in Worker PROVE ListsOf(v)'
    <3>1. CASE wk'[v] = Idle
      BY <3>1, IdleIsTyped DEF ListsOf
    <3>2. CASE wk'[v] = wk[v]
      BY <1>2, <3>2, ListsKept DEF IInv, Lists
    <3> QED
      BY <1>1, <3>1, <3>2
  <2> QED
    BY <2>1 DEF Lists
<1>6. TypeOK'
  BY <1>1, <1>2, <1>4, <1>5 DEF IInv, TypeOK, Lists, ListsOf, At
<1>7. Held'
  <2>1. ASSUME NEW v \in Worker, ~At(v, "idle")'
        PROVE  /\ v \notin dead /\ wk'[v] = wk[v] /\ ~At(v, "idle")
               /\ wk'[v].event \in Event /\ mapping'[wk'[v].event] = "running"
    <3>1. v \notin dead /\ wk'[v] = wk[v] /\ ~At(v, "idle")
      BY <1>1, <2>1, IdleIsTyped DEF At
    <3>2. \A u \in dead : u \in Worker => wk[u].event # wk[v].event
      BY <3>1 DEF IInv, Held
    <3>3. dead \subseteq Worker
      BY DEF dead
    <3> QED
      BY <1>3, <3>1, <3>2, <3>3 DEF IInv, Held
  <2>2. ASSUME NEW v \in Worker, At(v, "idle")' PROVE wk'[v] = Idle
    BY <1>1, <2>2 DEF IInv, Held, At
  <2>3. ASSUME NEW u \in Worker, NEW v \in Worker, ~At(u, "idle")', wk'[u].event = wk'[v].event
        PROVE  u = v
    <3>1. ~At(v, "idle")'
      BY <2>1, <2>2, <2>3, IdleIsTyped
    <3> QED
      BY <2>1, <2>3, <3>1 DEF IInv, Held
  <2> QED
    BY <2>1, <2>2, <2>3 DEF Held
<1>8. Heard'
  <2>1. ASSUME NEW v \in Worker, NEW i \in DOMAIN wk'[v].rows
        PROVE  wk'[v].rows[i] \in scope[wk'[v].event].ever
    <3>1. DOMAIN (<<>>) = {}
      OBVIOUS
    <3>2. wk'[v] = wk[v]
      BY <1>1, <2>1, <3>1, IdleIsTyped
    <3> QED
      BY <2>1, <3>2 DEF IInv, Heard
  <2> QED
    BY <1>2, <1>4, <2>1 DEF IInv, Heard, Listeners
<1>9. OneMention' /\ JobsNameTheirAttempt'
  BY <1>1, <1>2, MentionsKept, IdleIsTyped
<1>10. Submitted'
  BY <1>2, <1>4, SubmittedKept DEF JobId
<1> QED
  BY <1>2, <1>5, <1>6, <1>7, <1>8, <1>9, <1>10, StrangersKept DEF IInv

\* The job of an event comes into the queue, and its history begins.
LEMMA SubmitIInv ==
    ASSUME IInv, NEW ev \in Event, Submit(ev)
    PROVE  IInv'
<1>1. /\ mapping[ev] = "none" /\ mapping' = [mapping EXCEPT ![ev] = "queued"]
      /\ scope' = [scope EXCEPT ![ev] = [always |-> Listeners(endpoint, ev),
                                         ever |-> Listeners(endpoint, ev)]]
      /\ UNCHANGED <<endpoint, delivery, attempts, jobs, wk, failures, crashes>>
  BY DEF Submit
<1>2. /\ mapping' \in [Event -> {"none", "queued", "running", "done"}]
      /\ mapping'[ev] = "queued" /\ \A x \in Event \ {ev} : mapping'[x] = mapping[x]
  BY <1>1 DEF IInv, TypeOK
<1>3. /\ scope' \in [Event -> [always : SUBSET Endpoint, ever : SUBSET Endpoint]]
      /\ scope'[ev].always = Listeners(endpoint, ev)
      /\ scope'[ev].ever = Listeners(endpoint, ev)
      /\ \A x \in Event \ {ev} : scope'[x] = scope[x]
  <2>1. Listeners(endpoint, ev) \in SUBSET Endpoint
    BY DEF Listeners
  <2> QED
    BY <1>1, <2>1 DEF IInv, TypeOK
<1>4. \A w \in Worker : wk[w].event # ev
  BY <1>1, IdleIsTyped DEF IInv, Held
<1>5. Held'
  <2>1. \A w \in Worker : (At(w, "idle")' <=> At(w, "idle"))
    BY <1>1 DEF At
  <2> QED
    BY <1>1, <1>2, <1>4, <2>1 DEF IInv, Held
<1>6. TypeOK' /\ Lists'
  BY <1>1, <1>2, <1>3 DEF IInv, TypeOK, Lists, ListsOf, At
<1>7. Heard'
  <2>1. ASSUME NEW w \in Worker, NEW i \in DOMAIN wk[w].rows
        PROVE  wk[w].rows[i] \in scope'[wk[w].event].ever
    <3>1. ~At(w, "idle")
      <4>1. DOMAIN (<<>>) = {}
        OBVIOUS
      <4> QED
        BY <2>1, <4>1, IdleIsTyped DEF IInv, Held
    <3>2. wk[w].event \in Event \ {ev}
      BY <1>4, <3>1, Busy
    <3> QED
      BY <1>3, <3>2 DEF IInv, Heard
  <2>2. \A x \in Event : Listeners(endpoint, x)' = Listeners(endpoint, x)
    BY <1>1 DEF Listeners
  <2> QED
    BY <1>1, <1>2, <1>3, <2>1, <2>2 DEF IInv, Heard
<1>8. OneMention' /\ JobsNameTheirAttempt'
  BY <1>1, MentionsKept
<1>9. Submitted'
  BY <1>1, <1>2, SubmittedKept DEF JobId
<1>10. NoStranger'
  <2>1. \A j \in JobId : jobs[j].event \in Event \ {ev}
    BY <1>1, TableTypes DEF IInv, Submitted, JobRow
  <2> QED
    BY <1>1, <1>3, <2>1 DEF IInv, NoStranger, JobId
<1> QED
  BY <1>5, <1>6, <1>7, <1>8, <1>9, <1>10 DEF IInv

LEMMA PutIInv ==
    ASSUME IInv, NEW e \in Endpoint, NEW row \in EndpointRow, Put(e, row)
    PROVE  IInv'
<1>1. endpoint' \in [Endpoint -> EndpointRow]
  BY DEF Put, IInv, TypeOK
<1>2. /\ \A ev \in Event :
            IF mapping[ev] = "none" THEN scope'[ev] = scope[ev]
            ELSE /\ scope'[ev].always = scope[ev].always \cap Listeners(endpoint', ev)
                 /\ scope'[ev].ever = scope[ev].ever \cup Listeners(endpoint', ev)
      /\ UNCHANGED <<mapping, delivery, attempts, jobs, wk, failures, crashes>>
  BY DEF Put, ScopeWith
<1>3. \A ev \in Event : Listeners(endpoint', ev) \subseteq Endpoint
  BY DEF Listeners
<1>4. scope' \in [Event -> [always : SUBSET Endpoint, ever : SUBSET Endpoint]]
  BY <1>3 DEF Put, ScopeWith, IInv, TypeOK
<1>5. TypeOK' /\ Held' /\ Lists'
  BY <1>1, <1>2, <1>4 DEF IInv, TypeOK, Held, Lists, ListsOf, At
<1>6. Heard'
  <2>1. ASSUME NEW w \in Worker, NEW i \in DOMAIN wk[w].rows
        PROVE  wk[w].event \in Event /\ wk[w].rows[i] \in scope[wk[w].event].ever
    <3>1. ~At(w, "idle")
      <4>1. DOMAIN (<<>>) = {}
        OBVIOUS
      <4> QED
        BY <2>1, <4>1, IdleIsTyped DEF IInv, Held
    <3> QED
      BY <2>1, <3>1, Busy DEF IInv, Heard
  <2>2. \A ev \in Event : Listeners(endpoint, ev)' = Listeners(endpoint', ev)
    BY DEF Listeners
  <2>3. \A ev \in Event : scope[ev].ever \subseteq scope'[ev].ever
    BY <1>2
  <2> QED
    BY <1>2, <2>1, <2>2, <2>3 DEF Heard
<1>7. OneMention' /\ JobsNameTheirAttempt'
  BY <1>2, MentionsKept
<1>8. NoStranger'
  <2>1. \A j \in JobId : jobs[j].event \in Event
    BY TableTypes DEF IInv, JobRow
  <2> QED
    BY <1>2, <2>1 DEF IInv, NoStranger, JobId
<1>9. Submitted'
  BY <1>2, SubmittedKept DEF JobId
<1> QED
  BY <1>5, <1>6, <1>7, <1>8, <1>9 DEF IInv

LEMMA UpdatedRow ==
    ASSUME NEW listens \in Listening, NEW status \in {"enabled", "disabled"}
    PROVE  [status |-> status, listens |-> listens] \in EndpointRow
BY DEF EndpointRow

LEMMA StepIInv == IInv /\ [Next]_vars => IInv'
<1> SUFFICES ASSUME IInv, [Next]_vars PROVE IInv'
  OBVIOUS
<1>1. ASSUME NEW w \in Worker, Poll(w) \/ Handle(w) PROVE IInv'
  BY <1>1, ClaimIInv, SelectIInv, CreateDeliveriesIInv, CreateAttemptsIInv, EnqueueIInv,
     FinishIInv
  DEF Poll, Handle
<1>2. ASSUME NEW p \in Process, Crash(p) PROVE IInv'
  BY <1>2, CrashIInv
<1>3. ASSUME NEW e \in Endpoint, NEW listens \in Listening,
             \/ Register(e, listens)
             \/ \E status \in {"enabled", "disabled"} : Update(e, status, listens)
      PROVE  IInv'
  <2>1. \E status \in {"enabled", "disabled"} : Put(e, [status |-> status, listens |-> listens])
    BY <1>3 DEF Register, Update
  <2> QED
    BY <2>1, PutIInv, UpdatedRow
<1>4. CASE UNCHANGED vars
  <2>1. TypeOK' /\ Held' /\ Lists' /\ Heard'
    BY <1>4 DEF vars, IInv, TypeOK, Held, Lists, ListsOf, Heard, At, Listeners
  <2>2. OneMention' /\ JobsNameTheirAttempt'
    BY <1>4, MentionsKept DEF vars
  <2>3. Submitted'
    BY <1>4, SubmittedKept DEF vars, JobId
  <2> QED
    BY <1>4, <2>1, <2>2, <2>3, StrangersKept DEF vars, IInv
<1>5. ASSUME NEW ev \in Event, Submit(ev) PROVE IInv'
  BY <1>5, SubmitIInv
<1> QED
  BY <1>1, <1>2, <1>3, <1>4, <1>5 DEF Next

\* IInv holds in every state the worker reaches: the lists of a goroutine agree
\* with the tables place by place, whatever fails or dies on the way.
THEOREM Invariance == Spec => []IInv
BY InitIInv, StepIInv, PTL DEF Spec

\* Every variable keeps its type and no goroutine runs past the lists it indexes
\* together (main.go 120-132).
THEOREM TypeCorrectness == Spec => []TypeOK
<1>1. IInv => TypeOK
  BY DEF IInv
<1> QED
  BY <1>1, Invariance, PTL

\* A job of the dispatcher names an attempt of the very delivery its payload
\* speaks of, and no two jobs name the same one, with any number of goroutines
\* inserting into the same tables and any number of statements failing.
THEOREM PayloadsFitTheRows == Spec => []JobsNameTheirAttempt
<1>1. IInv => JobsNameTheirAttempt
  BY DEF IInv
<1> QED
  BY <1>1, Invariance, PTL

\* No endpoint gets an event it did not listen to at some moment since the event
\* was submitted, however the endpoints change while the handler runs.
THEOREM OnlyListeners == Spec => []NoStranger
<1>1. IInv => NoStranger
  BY DEF IInv
<1> QED
  BY <1>1, Invariance, PTL

-----------------------------------------------------------------------------
(***************************************************************************)
(* No listener is left out.                                                *)
(***************************************************************************)
\* As long as no statement fails, a goroutine that has selected knows every
\* endpoint that kept listening, its inserts have ids, and the first "sent" of
\* its jobs are in the queue.
SentOf(w) ==
    LET s == wk[w]
    IN  /\ s.pc \in {"selected", "delivering", "queueing"} =>
              \A e \in scope[s.event].always : \E i \in DOMAIN s.rows : s.rows[i] = e
        /\ \A i \in DOMAIN s.deliveries : s.deliveries[i] # 0
        /\ \A i \in DOMAIN s.attempts : s.attempts[i] # 0
        /\ \A i \in 1 .. s.sent : \E j \in JobId : jobs[j] = Payload(s, i)
Sent == failures = 0 => \A w \in Worker : SentOf(w)

SInv == IInv /\ Sent /\ NoneLeftOut

\* The order in which rows come leaves none of them out.
LEMMA AllRowsCome ==
    ASSUME NEW rows, IsFiniteSet(rows), NEW s \in InSomeOrder(rows), NEW row \in rows
    PROVE  \E i \in DOMAIN s : s[i] = row
<1> DEFINE n == Cardinality(rows)
<1>1. n \in Nat
  BY FS_CardinalityType
<1>2. s \in [1 .. n -> rows] /\ \A i, j \in 1 .. n : s[i] = s[j] => i = j
  BY DEF InSomeOrder
<1>3. IsFiniteSet(1 .. n) /\ Cardinality(1 .. n) = n
  <2> HIDE DEF n
  <2> QED
    BY <1>1, FS_Interval
<1> HIDE DEF n
<1>4. s \in Injection(1 .. n, rows)
  BY <1>2, Fun_IsInj
<1>5. s \in Surjection(1 .. n, rows)
  BY <1>3, <1>4, FS_Injection DEF n
<1>6. \A t \in rows : \E i \in 1 .. n : s[i] = t
  BY <1>5 DEF Surjection
<1> QED
  BY <1>2, <1>6

\* Whoever listens is selected.
LEMMA ListenersSelected ==
    ASSUME TypeOK, NEW ev, NEW s \in InSomeOrder(RowsOf(endpoint, ev)),
           NEW e \in Listeners(endpoint, ev)
    PROVE  \E i \in DOMAIN s : s[i][1] = e
<1>1. PICK k \in DOMAIN endpoint[e].listens :
           <<EventTypeOf[ev], endpoint[e].listens[k]>> \in Matches
  BY DEF Listeners
<1>2. <<e, k>> \in RowsOf(endpoint, ev)
  <2>1. e \in Endpoint /\ endpoint[e].status = "enabled"
    BY DEF Listeners
  <2>2. <<e, k>> \in {e} \X DOMAIN endpoint[e].listens
    OBVIOUS
  <2>3. <<e, k>>[1] = e /\ <<e, k>>[2] = k
    OBVIOUS
  <2> HIDE DEF RowsOf
  <2>4. <<e, k>> \in UNION {{f} \X DOMAIN endpoint[f].listens : f \in Endpoint}
    BY <2>1, <2>2
  <2> QED
    BY <1>1, <2>1, <2>3, <2>4 DEF RowsOf
<1>3. PICK i \in DOMAIN s : s[i] = <<e, k>>
  BY <1>2, AllRowsCome, RowsAreFinite
<1> QED
  BY <1>3

LEMMA SentKept ==
    ASSUME NEW v \in Worker, SentOf(v), wk'[v] = wk[v],
           ~At(v, "idle") => wk[v].event \in Event /\ mapping[wk[v].event] # "none",
           \A ev \in Event : mapping[ev] # "none" => scope'[ev].always \subseteq scope[ev].always,
           \A j \in JobId : j \in JobId' /\ jobs'[j] = jobs[j]
    PROVE  SentOf(v)'
BY DEF SentOf, Payload, At

\* Where no event is done that was not, the promise is kept.
LEMMA LeftOutKept ==
    ASSUME NoneLeftOut, failures' = 0 => failures = 0,
           \A ev \in Event : mapping'[ev] = "done" => mapping[ev] = "done",
           \A ev \in Event : mapping[ev] # "none" => scope'[ev].always \subseteq scope[ev].always,
           \A j \in JobId : j \in JobId' /\ jobs'[j] = jobs[j]
    PROVE  NoneLeftOut'
BY DEF NoneLeftOut, JobFor

\* A step of a handler that is not its last.
LEMMA HandlerSent ==
    ASSUME SInv, NEW w \in Worker, UNCHANGED <<mapping, scope>>,
           \A v \in Worker \ {w} : wk'[v] = wk[v],
           failures' = 0 => failures = 0,
           \A j \in JobId : j \in JobId' /\ jobs'[j] = jobs[j],
           failures' = 0 => SentOf(w)'
    PROVE  Sent' /\ NoneLeftOut'
<1>1. \A v \in Worker :
         ~At(v, "idle") => wk[v].event \in Event /\ mapping[wk[v].event] # "none"
  BY DEF SInv, IInv, Held
<1>2. ASSUME failures' = 0, NEW v \in Worker PROVE SentOf(v)'
  BY <1>1, <1>2, SentKept DEF SInv, Sent
<1> QED
  BY <1>2, LeftOutKept DEF SInv, Sent

LEMMA SelectSent ==
    ASSUME SInv, NEW w \in Worker, Select(w)
    PROVE  Sent' /\ NoneLeftOut'
<1>1. /\ At(w, "claimed") /\ wk[w].event \in Event /\ GoesOn(w, "selected")
      /\ UNCHANGED <<mapping, endpoint, delivery, attempts, jobs, scope, crashes>>
      /\ wk'[w].deliveries = <<>> /\ wk'[w].attempts = <<>> /\ wk'[w].sent = 0
      /\ \/ /\ failures' = failures
            /\ \E s \in InSomeOrder(RowsOf(endpoint, wk[w].event)) :
                  wk'[w].rows = [i \in DOMAIN s |-> s[i][1]]
         \/ failures' = failures + 1
  BY SelectDoes DEF SInv
<1>2. failures \in Nat /\ TypeOK
  BY ConstantsAssumption DEF SInv, IInv, TypeOK
<1>3. ASSUME failures' = 0, NEW e \in scope[wk[w].event].always
      PROVE  \E i \in DOMAIN wk'[w].rows : wk'[w].rows[i] = e
  <2>1. e \in Listeners(endpoint, wk[w].event)
    BY <1>1, <1>3, Busy DEF SInv, IInv, Heard, At
  <2>2. failures' # failures + 1
    BY <1>2, <1>3
  <2>3. PICK s \in InSomeOrder(RowsOf(endpoint, wk[w].event)) :
             wk'[w].rows = [i \in DOMAIN s |-> s[i][1]]
    BY <1>1, <2>2
  <2> QED
    BY <1>2, <2>1, <2>3, ListenersSelected
<1>4. failures' = 0 => SentOf(w)'
  <2>1. DOMAIN (<<>>) = {} /\ 1 .. 0 = {}
    OBVIOUS
  <2> QED
    BY <1>1, <1>3, <2>1 DEF SentOf, GoesOn
<1> QED
  BY <1>1, <1>2, <1>4, HandlerSent DEF GoesOn, JobId

LEMMA CreateDeliveriesSent ==
    ASSUME SInv, NEW w \in Worker, CreateDeliveries(w)
    PROVE  Sent' /\ NoneLeftOut'
<1>1. /\ At(w, "selected") /\ GoesOn(w, "delivering")
      /\ UNCHANGED <<mapping, endpoint, attempts, jobs, scope, crashes>>
      /\ wk'[w].rows = wk[w].rows /\ wk'[w].attempts = <<>> /\ wk'[w].sent = 0
      /\ DOMAIN wk'[w].deliveries = DOMAIN wk[w].rows
      /\ DOMAIN wk[w].rows = 1 .. Len(wk[w].rows) /\ Len(wk[w].rows) \in Nat
      /\ \/ /\ failures' = failures
            /\ \A i \in DOMAIN wk'[w].deliveries : wk'[w].deliveries[i] = Len(delivery) + i
         \/ failures' = failures + 1
  BY CreateDeliveriesDoes DEF SInv
<1>2. failures \in Nat /\ Len(delivery) \in Nat
  BY TableTypes, ConstantsAssumption DEF SInv, IInv, TypeOK
<1>3. failures' = 0 => SentOf(w)'
  <2>1. DOMAIN (<<>>) = {} /\ 1 .. 0 = {}
    OBVIOUS
  <2>2. failures' = 0 => \A i \in DOMAIN wk'[w].deliveries : wk'[w].deliveries[i] # 0
    BY <1>1, <1>2
  <2>3. failures' = 0 => SentOf(w)
    BY <1>1, <1>2 DEF SInv, Sent
  <2> QED
    BY <1>1, <2>1, <2>2, <2>3 DEF SentOf, GoesOn, At
<1> QED
  BY <1>1, <1>2, <1>3, HandlerSent DEF GoesOn, JobId

LEMMA CreateAttemptsSent ==
    ASSUME SInv, NEW w \in Worker, CreateAttempts(w)
    PROVE  Sent' /\ NoneLeftOut'
<1>1. /\ At(w, "delivering") /\ GoesOn(w, "queueing")
      /\ UNCHANGED <<mapping, endpoint, delivery, jobs, scope, crashes>>
      /\ wk'[w].rows = wk[w].rows /\ wk'[w].deliveries = wk[w].deliveries /\ wk'[w].sent = 0
      /\ DOMAIN wk'[w].attempts = 1 .. Len(wk[w].deliveries)
      /\ DOMAIN wk[w].deliveries = 1 .. Len(wk[w].deliveries)
      /\ \/ /\ failures' = failures
            /\ \A i \in DOMAIN wk'[w].attempts : wk'[w].attempts[i] = Len(attempts) + i
         \/ failures' = failures + 1
         \/ failures' >= failures /\ \E i \in DOMAIN wk[w].deliveries : wk[w].deliveries[i] = 0
  BY CreateAttemptsDoes DEF SInv
<1>2. failures \in Nat /\ failures' \in Nat /\ Len(attempts) \in Nat
  BY CreateAttemptsDoes, TableTypes, ConstantsAssumption DEF SInv, IInv, TypeOK
<1>3. failures' = 0 => SentOf(w)'
  <2>1. 1 .. 0 = {}
    OBVIOUS
  <2>2. failures' = 0 => SentOf(w)
    BY <1>1, <1>2 DEF SInv, Sent
  <2>3. failures' = 0 => \A i \in DOMAIN wk'[w].attempts : wk'[w].attempts[i] # 0
    <3>1. failures' = 0 => \A i \in DOMAIN wk[w].deliveries : wk[w].deliveries[i] # 0
      BY <2>2 DEF SentOf
    <3> QED
      BY <1>1, <1>2, <3>1
  <2> QED
    BY <1>1, <2>1, <2>2, <2>3 DEF SentOf, GoesOn, At
<1> QED
  BY <1>1, <1>2, <1>3, HandlerSent DEF GoesOn, JobId

LEMMA EnqueueSent ==
    ASSUME SInv, NEW w \in Worker, Enqueue(w)
    PROVE  Sent' /\ NoneLeftOut'
<1> DEFINE s == wk[w]
           k == s.sent + 1
<1>1. /\ At(w, "queueing") /\ GoesOn(w, "queueing")
      /\ UNCHANGED <<mapping, endpoint, delivery, attempts, scope, crashes>>
      /\ s.sent \in Nat /\ k \in DOMAIN s.attempts
      /\ wk'[w].rows = s.rows /\ wk'[w].deliveries = s.deliveries
      /\ wk'[w].attempts = s.attempts /\ wk'[w].sent = k
      /\ Payload(s, k) \in JobRow
      /\ \/ failures' = failures /\ jobs' = Append(jobs, Payload(s, k))
         \/ failures' = failures + 1 /\ jobs' = jobs
  BY EnqueueDoes DEF SInv
<1>2. failures \in Nat /\ jobs \in Seq(JobRow)
  BY ConstantsAssumption DEF SInv, IInv, TypeOK
<1>3. ASSUME NEW job \in JobRow, jobs' = Append(jobs, job)
      PROVE  /\ \A j \in JobId : j \in JobId' /\ jobs'[j] = jobs[j]
             /\ \E j \in JobId' : jobs'[j] = job
  BY <1>2, <1>3, RowInserted DEF JobId
<1>4. \A j \in JobId : j \in JobId' /\ jobs'[j] = jobs[j]
  BY <1>1, <1>3 DEF JobId
<1>5. failures' = 0 => SentOf(w)'
  <2> SUFFICES ASSUME failures' = 0 PROVE SentOf(w)'
    OBVIOUS
  <2>1. failures = 0 /\ SentOf(w) /\ jobs' = Append(jobs, Payload(s, k))
    BY <1>1, <1>2 DEF SInv, Sent
  <2>2. \A i \in 1 .. k : Payload(wk'[w], i) = Payload(s, i)
    BY <1>1 DEF Payload, GoesOn
  <2>3. \A i \in 1 .. k : i \in 1 .. s.sent \/ i = k
    BY <1>1
  <2>4. \A i \in 1 .. k : \E j \in JobId' : jobs'[j] = Payload(s, i)
    <3>1. \E j \in JobId' : jobs'[j] = Payload(s, k)
      BY <1>1, <1>3, <2>1
    <3>2. \A i \in 1 .. s.sent : \E j \in JobId' : jobs'[j] = Payload(s, i)
      BY <1>4, <2>1 DEF SentOf
    <3> QED
      BY <2>3, <3>1, <3>2
  <2> HIDE DEF s, k
  <2>5. \A i \in 1 .. wk'[w].sent : \E j \in JobId' : jobs'[j] = Payload(wk'[w], i)
    BY <1>1, <2>2, <2>4
  <2>6. /\ wk'[w].pc = wk[w].pc /\ wk'[w].event = wk[w].event /\ wk'[w].rows = wk[w].rows
        /\ wk'[w].deliveries = wk[w].deliveries /\ wk'[w].attempts = wk[w].attempts
        /\ scope' = scope
    BY <1>1 DEF s, GoesOn, At
  <2> QED
    BY <2>1, <2>5, <2>6 DEF SentOf
<1> QED
  BY <1>1, <1>2, <1>4, <1>5, HandlerSent DEF GoesOn

\* The last step of a handler: all its jobs are in the queue.
LEMMA FinishSent ==
    ASSUME SInv, NEW w \in Worker, Finish(w)
    PROVE  Sent' /\ NoneLeftOut'
<1> DEFINE s == wk[w]
<1>1. /\ At(w, "queueing") /\ s.event \in Event /\ ListsOf(w)
      /\ s.sent = Len(s.attempts) /\ DOMAIN s.attempts = 1 .. Len(s.attempts)
      /\ DOMAIN s.rows = 1 .. Len(s.attempts)
      /\ mapping' = [mapping EXCEPT ![s.event] = "done"]
      /\ wk'[w] = Idle /\ \A v \in Worker \ {w} : wk'[v] = wk[v]
      /\ UNCHANGED <<endpoint, delivery, attempts, jobs, scope, failures, crashes>>
  BY Busy, ListTypes DEF SInv, IInv, TypeOK, Finish, AllSent, At, ListsOf
<1>2. JobId' = JobId
  BY <1>1 DEF JobId
<1>3. Sent'
  <2>1. ASSUME failures = 0, NEW v \in Worker PROVE SentOf(v)'
    <3>1. CASE v = w
      <4>1. DOMAIN (<<>>) = {} /\ 1 .. 0 = {}
        OBVIOUS
      <4> QED
        BY <1>1, <3>1, <4>1, IdleIsTyped DEF SentOf
    <3>2. CASE v # w
      BY <1>1, <1>2, <2>1, <3>2, SentKept DEF SInv, Sent, IInv, Held
    <3> QED
      BY <3>1, <3>2
  <2> QED
    BY <1>1, <2>1 DEF Sent
<1>4. ASSUME failures = 0, NEW e \in scope[s.event].always PROVE JobFor(s.event, e)
  <2>1. SentOf(w)
    BY <1>4 DEF SInv, Sent
  <2>2. PICK i \in 1 .. s.sent : s.rows[i] = e /\ s.attempts[i] # 0
    BY <1>1, <1>4, <2>1 DEF SentOf, At
  <2>3. PICK j \in JobId : jobs[j] = Payload(s, i)
    BY <2>1 DEF SentOf
  <2> QED
    BY <2>2, <2>3 DEF JobFor, Payload
<1>5. NoneLeftOut'
  <2>1. \A ev \in Event, e \in Endpoint : JobFor(ev, e)' <=> JobFor(ev, e)
    BY <1>1, <1>2 DEF JobFor
  <2>2. \A ev \in Event \ {s.event} : mapping'[ev] = mapping[ev]
    BY <1>1 DEF SInv, IInv, TypeOK
  <2>3. \A ev \in Event : scope[ev].always \subseteq Endpoint
    BY DEF SInv, IInv, TypeOK
  <2> QED
    BY <1>1, <1>4, <2>1, <2>2, <2>3 DEF SInv, NoneLeftOut
<1> QED
  BY <1>3, <1>5

LEMMA InitSInv == Init => SInv
<1> SUFFICES ASSUME Init PROVE SInv
  OBVIOUS
<1>1. \A w \in Worker : wk[w] = Idle
  BY DEF Init
<1>2. DOMAIN (<<>>) = {} /\ 1 .. 0 = {}
  OBVIOUS
<1>3. Sent
  BY <1>1, <1>2, IdleIsTyped DEF Sent, SentOf
<1>4. NoneLeftOut
  BY DEF Init, NoneLeftOut
<1> QED
  BY <1>3, <1>4, InitIInv DEF SInv

\* The other steps leave the lists alone, or empty them.
LEMMA OthersSent ==
    ASSUME SInv, UNCHANGED <<jobs, failures>>,
           \A w \in Worker : \/ wk'[w] = wk[w]
                             \/ /\ wk'[w].deliveries = <<>> /\ wk'[w].attempts = <<>>
                                /\ wk'[w].sent = 0 /\ wk'[w].pc \in {"idle", "claimed"},
           \A ev \in Event : mapping'[ev] = "done" => mapping[ev] = "done",
           \A ev \in Event : mapping[ev] # "none" => scope'[ev].always \subseteq scope[ev].always
    PROVE  Sent' /\ NoneLeftOut'
<1>1. JobId' = JobId
  BY DEF JobId
<1>2. ASSUME failures = 0, NEW v \in Worker PROVE SentOf(v)'
  <2>1. DOMAIN (<<>>) = {} /\ 1 .. 0 = {}
    OBVIOUS
  <2>2. CASE wk'[v] = wk[v]
    BY <1>1, <1>2, <2>2, SentKept DEF SInv, Sent, IInv, Held
  <2>3. CASE wk'[v] # wk[v]
    BY <2>1, <2>3 DEF SentOf
  <2> QED
    BY <2>2, <2>3
<1> QED
  BY <1>1, <1>2, LeftOutKept DEF SInv, Sent

LEMMA StepSInv == SInv /\ [Next]_vars => SInv'
<1> SUFFICES ASSUME SInv, [Next]_vars PROVE SInv'
  OBVIOUS
<1>1. IInv'
  BY StepIInv DEF SInv
<1>2. ASSUME NEW w \in Worker, NEW ev \in Event, Claim(w, ev)
      PROVE  Sent' /\ NoneLeftOut'
  <2>1. [Idle EXCEPT !.pc = "claimed", !.event = ev].pc = "claimed"
    BY DEF Idle
  <2>2. LET s == [Idle EXCEPT !.pc = "claimed", !.event = ev]
        IN  s.deliveries = <<>> /\ s.attempts = <<>> /\ s.sent = 0
    BY DEF Idle
  <2>3. \A v \in Worker : \/ wk'[v] = wk[v]
                          \/ wk'[v] = [Idle EXCEPT !.pc = "claimed", !.event = ev]
    BY <1>2 DEF Claim, SInv, IInv, TypeOK
  <2>4. /\ mapping' = [mapping EXCEPT ![ev] = "running"]
        /\ UNCHANGED <<endpoint, delivery, attempts, jobs, scope, failures, crashes>>
    BY <1>2 DEF Claim
  <2> QED
    BY <2>1, <2>2, <2>3, <2>4, OthersSent DEF SInv, IInv, TypeOK
<1>3. ASSUME NEW p \in Process, Crash(p)
      PROVE  Sent' /\ NoneLeftOut'
  <2>1. /\ \A v \in Worker : wk'[v] = wk[v] \/ wk'[v] = Idle
        /\ \A ev \in Event : mapping'[ev] = "done" => mapping[ev] = "done"
        /\ UNCHANGED <<endpoint, delivery, attempts, jobs, scope, failures>>
    BY <1>3 DEF Crash
  <2> QED
    BY <2>1, IdleIsTyped, OthersSent
<1>4. ASSUME NEW e \in Endpoint, NEW row, Put(e, row)
      PROVE  Sent' /\ NoneLeftOut'
  BY <1>4, OthersSent DEF Put, ScopeWith
<1>5. ASSUME UNCHANGED vars PROVE Sent' /\ NoneLeftOut'
  BY <1>5, OthersSent DEF vars
<1>6. ASSUME NEW w \in Worker, Handle(w)
      PROVE  Sent' /\ NoneLeftOut'
  BY <1>6, SelectSent, CreateDeliveriesSent, CreateAttemptsSent, EnqueueSent, FinishSent
  DEF Handle
<1>7. ASSUME NEW e \in Endpoint, NEW listens \in Listening,
             \/ Register(e, listens)
             \/ \E status \in {"enabled", "disabled"} : Update(e, status, listens)
      PROVE  Sent' /\ NoneLeftOut'
  BY <1>4, <1>7 DEF Register, Update
<1>8. ASSUME NEW w \in Worker, Poll(w) \/ Handle(w)
      PROVE  Sent' /\ NoneLeftOut'
  BY <1>2, <1>6, <1>8 DEF Poll
<1>9. ASSUME NEW ev \in Event, Submit(ev) PROVE Sent' /\ NoneLeftOut'
  <2>1. /\ mapping[ev] = "none" /\ UNCHANGED <<jobs, wk, failures>>
        /\ mapping' \in [Event -> {"none", "queued", "running", "done"}]
        /\ mapping'[ev] = "queued" /\ \A x \in Event \ {ev} : mapping'[x] = mapping[x]
        /\ \A x \in Event \ {ev} : scope'[x] = scope[x]
    BY <1>9 DEF Submit, SInv, IInv, TypeOK
  <2> QED
    BY <2>1, OthersSent
<1>10. Sent' /\ NoneLeftOut'
  BY <1>3, <1>5, <1>7, <1>8, <1>9 DEF Next
<1> QED
  BY <1>1, <1>10 DEF SInv

\* SInv, which the theorem below rests on, holds: while a run of a job has had no
\* failing statement, an endpoint that listens all the time is in the list the
\* goroutine selected, and stays on it until its job is inserted (main.go 83-132).
THEOREM SentInvariance == Spec => []SInv
BY InitSInv, StepSInv, PTL DEF Spec

\* When the job of an event is done and no statement has failed, every endpoint
\* that listened all the time has a job of its own, whatever crashed meanwhile:
\* a run that died is started again from the query (main.go 66-136).
THEOREM EveryListener == Spec => []NoneLeftOut
<1>1. SInv => NoneLeftOut
  BY DEF SInv
<1> QED
  BY <1>1, SentInvariance, PTL

-----------------------------------------------------------------------------
(***************************************************************************)
(* Nothing is half done.                                                   *)
(***************************************************************************)
\* Without a crash or a failure an event has deliveries only once its job has
\* been taken and the deliveries inserted; they are in the list of the goroutine
\* that works on it.
Handed ==
    crashes + failures = 0 => \A d \in DOMAIN delivery :
        /\ mapping[delivery[d].event] # "queued"
        /\ \A w \in Worker : wk[w].event = delivery[d].event =>
              /\ wk[w].pc \notin {"claimed", "selected"}
              /\ \E i \in DOMAIN wk[w].deliveries : wk[w].deliveries[i] = d

HInv == SInv /\ Handed /\ HandedOver

LEMMA NeitherHappened == \A m, n \in Nat : m + n = 0 => m = 0 /\ n = 0
OBVIOUS

\* Where no event is done that was not and no row goes.
LEMMA HandedOverKept ==
    ASSUME IInv, HandedOver, crashes' + failures' = 0 => crashes + failures = 0,
           \A ev \in Event : mapping'[ev] = "done" => mapping[ev] = "done",
           \A j \in JobId : j \in JobId' /\ jobs'[j] = jobs[j],
           \A a \in DOMAIN attempts : attempts'[a] = attempts[a],
           \A d \in DOMAIN delivery' : \/ d \in DOMAIN delivery /\ delivery'[d] = delivery[d]
                                       \/ mapping'[delivery'[d].event] # "done"
    PROVE  HandedOver'
<1> SUFFICES ASSUME NEW ev \in Event, crashes' + failures' = 0, mapping'[ev] = "done",
                    NEW d \in DOMAIN delivery', delivery'[d].event = ev
             PROVE  \E j \in JobId' : jobs'[j].attempt # 0 /\ attempts'[jobs'[j].attempt] = d
  BY DEF HandedOver
<1>1. d \in DOMAIN delivery /\ delivery[d].event = ev /\ mapping[ev] = "done"
  OBVIOUS
<1>2. PICK j \in JobId : jobs[j].attempt # 0 /\ attempts[jobs[j].attempt] = d
  BY <1>1 DEF HandedOver
<1>3. jobs[j].attempt \in DOMAIN attempts
  BY <1>2 DEF IInv, JobsNameTheirAttempt
<1> QED
  BY <1>2, <1>3

\* Where the deliveries stay, and so do the lists of them.
LEMMA HandedKept ==
    ASSUME IInv, Handed, crashes' + failures' = 0 => crashes + failures = 0,
           delivery' = delivery,
           \A ev \in Event : mapping'[ev] = "queued" => mapping[ev] \in {"none", "queued"},
           \A w \in Worker : \/ wk'[w].event \notin Event
                             \/ /\ wk'[w].event = wk[w].event
                                /\ wk'[w].deliveries = wk[w].deliveries
                                /\ wk'[w].pc \in {"claimed", "selected"} =>
                                      wk[w].pc \in {"claimed", "selected"}
    PROVE  Handed'
<1>1. \A d \in DOMAIN delivery :
         delivery[d].event \in Event /\ mapping[delivery[d].event] # "none"
  BY TableTypes DEF IInv, DeliveryRow, Submitted
<1> QED
  BY <1>1 DEF Handed

LEMMA ClaimHanded ==
    ASSUME HInv, NEW w \in Worker, NEW ev \in Event, Claim(w, ev)
    PROVE  Handed' /\ HandedOver'
<1>1. /\ mapping[ev] = "queued" /\ mapping' = [mapping EXCEPT ![ev] = "running"]
      /\ wk'[w].event = ev /\ \A v \in Worker \ {w} : wk'[v] = wk[v]
      /\ UNCHANGED <<endpoint, delivery, attempts, jobs, scope, failures, crashes>>
  BY DEF Claim, Idle, HInv, SInv, IInv, TypeOK
<1>2. \A e \in Event : mapping'[e] \in {"queued", "done"} => mapping'[e] = mapping[e]
  BY <1>1 DEF HInv, SInv, IInv, TypeOK
<1>3. Handed'
  <2>1. ASSUME crashes + failures = 0, NEW d \in DOMAIN delivery
        PROVE  delivery[d].event # ev /\ delivery[d].event \in Event
    BY <1>1, <2>1, TableTypes DEF HInv, SInv, IInv, Handed, DeliveryRow
  <2> QED
    BY <1>1, <1>2, <2>1 DEF HInv, Handed
<1>4. HandedOver'
  BY <1>1, <1>2, HandedOverKept DEF HInv, SInv, JobId
<1> QED
  BY <1>3, <1>4

LEMMA CreateDeliveriesHanded ==
    ASSUME HInv, NEW w \in Worker, CreateDeliveries(w)
    PROVE  Handed' /\ HandedOver'
<1> DEFINE rows == wk[w].rows
           new == [i \in DOMAIN rows |-> [event |-> wk[w].event, endpoint |-> rows[i]]]
<1>1. /\ At(w, "selected") /\ wk[w].event \in Event /\ GoesOn(w, "delivering")
      /\ UNCHANGED <<mapping, endpoint, attempts, jobs, scope, crashes>>
      /\ new \in Seq(DeliveryRow) /\ DOMAIN new = DOMAIN rows
      /\ DOMAIN wk'[w].deliveries = DOMAIN rows
      /\ \/ /\ failures' = failures /\ delivery' = delivery \o new
            /\ \A i \in DOMAIN rows : wk'[w].deliveries[i] = Len(delivery) + i
         \/ failures' = failures + 1 /\ delivery' = delivery
  BY CreateDeliveriesDoes DEF HInv, SInv
<1>2. failures \in Nat /\ crashes \in Nat /\ delivery \in Seq(DeliveryRow)
  BY ConstantsAssumption DEF HInv, SInv, IInv, TypeOK
<1>3. mapping[wk[w].event] = "running" /\ \A v \in Worker : wk[v].event = wk[w].event => v = w
  BY <1>1 DEF HInv, SInv, IInv, Held, At
<1>4. /\ \A i \in DOMAIN new : (delivery \o new)[Len(delivery) + i] = new[i]
      /\ \A d \in DOMAIN delivery : (delivery \o new)[d] = delivery[d]
      /\ \A d \in DOMAIN (delivery \o new) :
            d \in DOMAIN delivery \/ \E i \in DOMAIN new : d = Len(delivery) + i
  <2>1. new \in Seq(DeliveryRow)
    BY <1>1
  <2> HIDE DEF new
  <2> QED
    BY <1>2, <2>1, RowsInserted
<1>5. \A i \in DOMAIN new : new[i].event = wk[w].event
  OBVIOUS
<1>6. ASSUME NEW d \in DOMAIN delivery'
      PROVE  \/ d \in DOMAIN delivery /\ delivery'[d] = delivery[d]
             \/ /\ delivery'[d].event = wk[w].event /\ failures' = failures
                /\ \E i \in DOMAIN rows : d = Len(delivery) + i
  <2> HIDE DEF new, rows
  <2> QED
    BY <1>1, <1>4, <1>5, <1>6
<1>7. Handed'
  <2> SUFFICES ASSUME crashes' + failures' = 0, NEW d \in DOMAIN delivery'
               PROVE  /\ mapping'[delivery'[d].event] # "queued"
                      /\ \A v \in Worker : wk'[v].event = delivery'[d].event =>
                            /\ wk'[v].pc \notin {"claimed", "selected"}
                            /\ \E i \in DOMAIN wk'[v].deliveries : wk'[v].deliveries[i] = d
    BY DEF Handed
  <2>1. crashes + failures = 0 /\ failures' # failures + 1
    BY <1>1, <1>2, CreateDeliveriesDoes DEF HInv, SInv
  <2>2. CASE d \in DOMAIN delivery /\ delivery'[d] = delivery[d]
    <3>1. \A v \in Worker : wk[v].event = delivery[d].event => v # w /\ wk'[v] = wk[v]
      BY <1>1, <2>1, <2>2 DEF HInv, Handed, At, GoesOn
    <3>2. delivery[d].event # wk[w].event
      BY <3>1
    <3> QED
      BY <1>1, <2>1, <2>2, <3>1, <3>2 DEF HInv, Handed, GoesOn
  <2>3. CASE delivery'[d].event = wk[w].event /\ \E i \in DOMAIN rows : d = Len(delivery) + i
    <3>1. \A v \in Worker : wk'[v].event = delivery'[d].event => v = w
      BY <1>1, <1>3, <2>3 DEF GoesOn
    <3>2. wk'[w].pc = "delivering"
      BY <1>1 DEF GoesOn
    <3> HIDE DEF new
    <3>3. \E i \in DOMAIN wk'[w].deliveries : wk'[w].deliveries[i] = d
      BY <1>1, <2>1, <2>3
    <3> QED
      BY <1>1, <1>3, <2>3, <3>1, <3>2, <3>3
  <2> QED
    BY <1>6, <2>2, <2>3
<1>8. HandedOver'
  <2>1. \A d \in DOMAIN delivery' : \/ d \in DOMAIN delivery /\ delivery'[d] = delivery[d]
                                    \/ mapping'[delivery'[d].event] # "done"
    BY <1>1, <1>3, <1>6
  <2>2. crashes' + failures' = 0 => crashes + failures = 0
    BY <1>1, <1>2
  <2>3. UNCHANGED <<mapping, jobs, attempts>>
    BY <1>1
  <2> QED
    BY <2>1, <2>2, <2>3, HandedOverKept DEF HInv, SInv, JobId
<1> QED
  BY <1>7, <1>8

\* The last step: what is in the lists is in the queue.
LEMMA FinishHanded ==
    ASSUME HInv, NEW w \in Worker, Finish(w)
    PROVE  Handed' /\ HandedOver'
<1> DEFINE s == wk[w]
<1>1. /\ At(w, "queueing") /\ s.event \in Event /\ ListsOf(w)
      /\ s.sent = Len(s.attempts) /\ DOMAIN s.attempts = 1 .. Len(s.attempts)
      /\ DOMAIN s.deliveries = 1 .. Len(s.attempts)
      /\ mapping' = [mapping EXCEPT ![s.event] = "done"]
      /\ wk'[w] = Idle /\ \A v \in Worker \ {w} : wk'[v] = wk[v]
      /\ UNCHANGED <<endpoint, delivery, attempts, jobs, scope, failures, crashes>>
  BY Busy, ListTypes DEF HInv, SInv, IInv, TypeOK, Finish, AllSent, At, ListsOf
<1>2. /\ \A ev \in Event : mapping'[ev] = "queued" => mapping[ev] = "queued"
      /\ \A ev \in Event \ {s.event} : mapping'[ev] = mapping[ev]
  BY <1>1 DEF HInv, SInv, IInv, TypeOK
<1>3. Handed'
  BY <1>1, <1>2, HandedKept, IdleIsTyped DEF HInv, SInv
<1>4. ASSUME crashes + failures = 0, NEW d \in DOMAIN delivery, delivery[d].event = s.event
      PROVE  \E j \in JobId : jobs[j].attempt # 0 /\ attempts[jobs[j].attempt] = d
  <2>1. PICK i \in DOMAIN s.deliveries : s.deliveries[i] = d
    BY <1>4 DEF HInv, Handed
  <2>2. failures = 0
    BY <1>4, ConstantsAssumption DEF HInv, SInv, IInv, TypeOK
  <2>3. SentOf(w)
    BY <2>2 DEF HInv, SInv, Sent
  <2>4. i \in 1 .. s.sent /\ i \in DOMAIN s.attempts
    BY <1>1, <2>1
  <2>5. s.attempts[i] # 0 /\ \E j \in JobId : jobs[j] = Payload(s, i)
    BY <2>3, <2>4 DEF SentOf
  <2>6. PICK j \in JobId : jobs[j] = Payload(s, i)
    BY <2>5
  <2>7. attempts[s.attempts[i]] = d
    BY <1>1, <2>1, <2>4, <2>5 DEF ListsOf
  <2> QED
    BY <2>5, <2>6, <2>7 DEF Payload
<1>5. HandedOver'
  BY <1>1, <1>2, <1>4 DEF HInv, HandedOver, JobId
<1> QED
  BY <1>3, <1>5

LEMMA InitHInv == Init => HInv
<1> SUFFICES ASSUME Init PROVE HInv
  OBVIOUS
<1>1. DOMAIN delivery = {}
  BY DEF Init
<1> QED
  BY <1>1, InitSInv DEF HInv, Handed, HandedOver

LEMMA StepHInv == HInv /\ [Next]_vars => HInv'
<1> SUFFICES ASSUME HInv, [Next]_vars PROVE HInv'
  OBVIOUS
<1>1. SInv' /\ SInv /\ IInv /\ Handed /\ HandedOver
  BY StepSInv DEF HInv, SInv
<1>2. failures \in Nat /\ crashes \in Nat
  BY <1>1, ConstantsAssumption DEF IInv, TypeOK
<1>3. failures' \in Nat /\ crashes' \in Nat
  BY <1>1, ConstantsAssumption DEF SInv, IInv, TypeOK
<1>4. ASSUME NEW w \in Worker, Poll(w) PROVE Handed' /\ HandedOver'
  BY <1>4, ClaimHanded DEF Poll
<1>5. ASSUME NEW w \in Worker, Select(w) PROVE Handed' /\ HandedOver'
  <2>1. /\ At(w, "claimed") /\ GoesOn(w, "selected") /\ ListsOf(w)
        /\ UNCHANGED <<mapping, delivery, attempts, jobs, crashes>>
        /\ wk'[w].deliveries = <<>>
        /\ failures' = failures \/ failures' = failures + 1
    BY <1>1, <1>5, SelectDoes DEF IInv, Lists
  <2>2. wk[w].deliveries = <<>> /\ wk[w].pc = "claimed"
    BY <2>1 DEF ListsOf, At
  <2>3. crashes' + failures' = 0 => crashes + failures = 0
    BY <1>2, <2>1
  <2> QED
    BY <1>1, <2>1, <2>2, <2>3, HandedKept, HandedOverKept DEF GoesOn, JobId
<1>6. ASSUME NEW w \in Worker, CreateDeliveries(w) PROVE Handed' /\ HandedOver'
  BY <1>6, CreateDeliveriesHanded
<1>7. ASSUME NEW w \in Worker, CreateAttempts(w) PROVE Handed' /\ HandedOver'
  <2>1. /\ GoesOn(w, "queueing") /\ UNCHANGED <<mapping, delivery, jobs, crashes>>
        /\ wk'[w].deliveries = wk[w].deliveries /\ wk[w].deliveries \in Seq(Nat)
        /\ DOMAIN wk[w].deliveries = 1 .. Len(wk[w].deliveries)
        /\ failures' >= failures \/ failures' = failures
        /\ attempts' = attempts \o wk[w].deliveries \/ attempts' = attempts
    BY <1>1, <1>7, CreateAttemptsDoes
  <2>2. crashes' + failures' = 0 => crashes + failures = 0
    <3>1. crashes' = crashes /\ failures' >= failures
      BY <1>2, <2>1
    <3>2. crashes' + failures' = 0 => failures' = 0
      BY <1>3, NeitherHappened
    <3>3. failures' = 0 => failures = failures'
      BY <1>2, <1>3, <3>1
    <3> QED
      BY <3>1, <3>2, <3>3
  <2>3. \A a \in DOMAIN attempts : attempts'[a] = attempts[a]
    <3>1. attempts \in Seq(Nat)
      <4>1. \A a \in DOMAIN attempts : attempts[a] \in Nat
        BY <1>1, TableTypes DEF IInv
      <4> QED
        BY <1>1, <4>1, Retyped DEF IInv, TypeOK
    <3>2. \A a \in DOMAIN attempts : (attempts \o wk[w].deliveries)[a] = attempts[a]
      BY <2>1, <3>1, RowsInserted
    <3> QED
      BY <2>1, <3>2
  <2> QED
    BY <1>1, <2>1, <2>2, <2>3, HandedKept, HandedOverKept DEF GoesOn, JobId
<1>8. ASSUME NEW w \in Worker, Enqueue(w) PROVE Handed' /\ HandedOver'
  <2>1. /\ GoesOn(w, "queueing") /\ UNCHANGED <<mapping, delivery, attempts, crashes>>
        /\ wk'[w].deliveries = wk[w].deliveries
        /\ Payload(wk[w], wk[w].sent + 1) \in JobRow
        /\ \/ failures' = failures /\ jobs' = Append(jobs, Payload(wk[w], wk[w].sent + 1))
           \/ failures' = failures + 1 /\ jobs' = jobs
    BY <1>1, <1>8, EnqueueDoes
  <2>2. crashes' + failures' = 0 => crashes + failures = 0
    BY <1>2, <2>1
  <2>3. \A j \in JobId : j \in JobId' /\ jobs'[j] = jobs[j]
    <3>1. jobs \in Seq(JobRow)
      BY <1>1 DEF IInv, TypeOK
    <3> QED
      BY <2>1, <3>1, RowInserted DEF JobId
  <2> QED
    BY <1>1, <2>1, <2>2, <2>3, HandedKept, HandedOverKept DEF GoesOn
<1>9. ASSUME NEW w \in Worker, Finish(w) PROVE Handed' /\ HandedOver'
  BY <1>9, FinishHanded
<1>10. ASSUME NEW p \in Process, Crash(p) PROVE Handed' /\ HandedOver'
  <2>1. crashes' + failures' # 0
    BY <1>2, <1>10 DEF Crash
  <2> QED
    BY <2>1 DEF Handed, HandedOver
<1>11. ASSUME NEW e \in Endpoint, NEW row, Put(e, row) PROVE Handed' /\ HandedOver'
  BY <1>1, <1>11, HandedKept, HandedOverKept DEF Put, JobId
<1>12. ASSUME UNCHANGED vars PROVE Handed' /\ HandedOver'
  BY <1>1, <1>12, HandedKept, HandedOverKept DEF vars, JobId
<1>13. ASSUME NEW w \in Worker, Poll(w) \/ Handle(w) PROVE Handed' /\ HandedOver'
  BY <1>4, <1>5, <1>6, <1>7, <1>8, <1>9, <1>13 DEF Handle
<1>14. ASSUME NEW e \in Endpoint, NEW listens \in Listening,
              \/ Register(e, listens)
              \/ \E status \in {"enabled", "disabled"} : Update(e, status, listens)
       PROVE  Handed' /\ HandedOver'
  BY <1>11, <1>14 DEF Register, Update
<1>15. ASSUME NEW ev \in Event, Submit(ev) PROVE Handed' /\ HandedOver'
  <2>1. /\ mapping[ev] = "none" /\ mapping' = [mapping EXCEPT ![ev] = "queued"]
        /\ UNCHANGED <<delivery, attempts, jobs, wk, failures, crashes>>
    BY <1>15 DEF Submit
  <2>2. /\ \A x \in Event : mapping'[x] = "queued" => mapping[x] \in {"none", "queued"}
        /\ \A x \in Event : mapping'[x] = "done" => mapping[x] = "done"
    BY <1>1, <2>1 DEF IInv, TypeOK
  <2> QED
    BY <1>1, <2>1, <2>2, HandedKept, HandedOverKept DEF JobId
<1>16. Handed' /\ HandedOver'
  BY <1>10, <1>12, <1>13, <1>14, <1>15 DEF Next
<1> QED
  BY <1>1, <1>16 DEF HInv

\* Without a crash or a failing statement no delivery stays without its job in
\* the dispatcher's queue once the event is done (main.go 90-132): the three
\* inserts of a handler are no transaction, so this needs both premises.
THEOREM NothingHalfDone == Spec => []HandedOver
<1>1. HInv => HandedOver
  BY DEF HInv
<1>2. Spec => []HInv
  BY InitHInv, StepHInv, PTL DEF Spec
<1> QED
  BY <1>1, <1>2, PTL

-----------------------------------------------------------------------------
(***************************************************************************)
(* One delivery per endpoint and run.                                      *)
(***************************************************************************)
\* The deliveries of the run of an event that goes on, or comes next, are not
\* inserted yet.
Ahead(ev) ==
    \/ mapping[ev] \in {"none", "queued"}
    \/ \E w \in Worker : wk[w].event = ev /\ wk[w].pc \in {"claimed", "selected"}

Distinct == \A w \in Worker : \A i, k \in DOMAIN wk[w].rows : wk[w].rows[i] = wk[w].rows[k] => i = k
Copies ==
    \A ev \in Event : \A e \in Endpoint :
        Cardinality(CopiesOf(ev, e)) <= crashes + (IF Ahead(ev) THEN 0 ELSE 1)

DInv == IInv /\ Distinct /\ Copies

LEMMA CopiesAreFinite ==
    ASSUME TypeOK, NEW ev, NEW e
    PROVE  IsFiniteSet(CopiesOf(ev, e)) /\ Cardinality(CopiesOf(ev, e)) \in Nat
<1>1. IsFiniteSet(DOMAIN delivery)
  BY TableTypes, FS_Interval
<1>2. CopiesOf(ev, e) \subseteq DOMAIN delivery
  BY DEF CopiesOf
<1> QED
  BY <1>1, <1>2, FS_Subset, FS_CardinalityType

\* Where no delivery is inserted and no run begins anew.
LEMMA CopiesKept ==
    ASSUME DInv, delivery' = delivery, crashes' = crashes,
           \A w \in Worker : wk'[w].rows \in {wk[w].rows, <<>>},
           \A ev \in Event : Ahead(ev)' => Ahead(ev)
    PROVE  Distinct' /\ Copies'
<1>1. Distinct'
  <2>1. DOMAIN (<<>>) = {}
    OBVIOUS
  <2> QED
    BY <2>1 DEF DInv, Distinct
<1>2. \A ev, e : CopiesOf(ev, e)' = CopiesOf(ev, e)
  BY DEF CopiesOf
<1>3. ASSUME NEW ev \in Event, NEW e \in Endpoint
      PROVE  Cardinality(CopiesOf(ev, e)) <= crashes + (IF Ahead(ev)' THEN 0 ELSE 1)
  <2> DEFINE c == Cardinality(CopiesOf(ev, e))
  <2>1. c \in Nat /\ crashes \in Nat
    BY CopiesAreFinite, ConstantsAssumption DEF DInv, IInv, TypeOK
  <2>2. c <= crashes + (IF Ahead(ev) THEN 0 ELSE 1)
    BY DEF DInv, Copies
  <2> HIDE DEF c
  <2>3. CASE Ahead(ev)'
    BY <2>1, <2>2, <2>3 DEF c
  <2>4. CASE ~Ahead(ev)'
    <3>1. c <= crashes + 1
      BY <2>1, <2>2
    <3> QED
      BY <2>4, <3>1 DEF c
  <2> QED
    BY <2>3, <2>4
<1> QED
  BY <1>1, <1>2, <1>3 DEF Copies

\* A handler that goes on with its event does not begin anew.
LEMMA AheadKept ==
    ASSUME NEW w \in Worker, mapping' = mapping, \A v \in Worker \ {w} : wk'[v] = wk[v],
           wk'[w].event = wk[w].event,
           wk'[w].pc \in {"claimed", "selected"} => wk[w].pc \in {"claimed", "selected"},
           NEW ev, Ahead(ev)'
    PROVE  Ahead(ev)
BY DEF Ahead

LEMMA SelectCopies ==
    ASSUME NoDoubleMatch, DInv, NEW w \in Worker, Select(w)
    PROVE  Distinct' /\ Copies'
<1>1. /\ At(w, "claimed") /\ wk[w].event \in Event /\ GoesOn(w, "selected")
      /\ UNCHANGED <<mapping, endpoint, delivery, attempts, jobs, scope, crashes>>
      /\ \/ \E s \in InSomeOrder(RowsOf(endpoint, wk[w].event)) :
               wk'[w].rows = [i \in DOMAIN s |-> s[i][1]]
         \/ wk'[w].rows = <<>>
  BY SelectDoes DEF DInv
<1> DEFINE ev == wk[w].event
<1>2. ASSUME NEW r \in RowsOf(endpoint, ev), NEW t \in RowsOf(endpoint, ev), r[1] = t[1]
      PROVE  r = t
  <2>1. PICK e \in Endpoint : r \in {e} \X DOMAIN endpoint[e].listens
    BY DEF RowsOf
  <2>2. PICK f \in Endpoint : t \in {f} \X DOMAIN endpoint[f].listens
    BY DEF RowsOf
  <2>3. /\ r = <<e, r[2]>> /\ t = <<e, t[2]>>
        /\ r[2] \in DOMAIN endpoint[e].listens /\ t[2] \in DOMAIN endpoint[e].listens
    BY <1>2, <2>1, <2>2
  <2>4. /\ <<EventTypeOf[ev], endpoint[e].listens[r[2]]>> \in Matches
        /\ <<EventTypeOf[ev], endpoint[e].listens[t[2]]>> \in Matches
    <3>1. r[1] = e /\ t[1] = e
      BY <1>2, <2>1
    <3> QED
      BY <3>1 DEF RowsOf
  <2>5. endpoint[e].listens \in Listening
    <3>1. endpoint[e].listens \in Listening \cup {<<>>}
      BY DEF DInv, IInv, TypeOK, EndpointRow
    <3>2. endpoint[e].listens # <<>>
      BY <2>3
    <3> QED
      BY <3>1, <3>2
  <2>6. r[2] = t[2]
    BY <1>1, <2>3, <2>4, <2>5 DEF NoDoubleMatch
  <2> QED
    BY <2>3, <2>6
<1>3. \A i, k \in DOMAIN wk'[w].rows : wk'[w].rows[i] = wk'[w].rows[k] => i = k
  <2>1. DOMAIN (<<>>) = {}
    OBVIOUS
  <2>2. CASE wk'[w].rows = <<>>
    BY <2>1, <2>2
  <2>3. ASSUME NEW s \in InSomeOrder(RowsOf(endpoint, ev)),
               wk'[w].rows = [i \in DOMAIN s |-> s[i][1]]
        PROVE  \A i, k \in DOMAIN wk'[w].rows : wk'[w].rows[i] = wk'[w].rows[k] => i = k
    <3>1. /\ \A i \in DOMAIN s : s[i] \in RowsOf(endpoint, ev)
          /\ \A i, k \in DOMAIN s : s[i] = s[k] => i = k
      BY DEF InSomeOrder
    <3> HIDE DEF ev
    <3> QED
      BY <1>2, <2>3, <3>1
  <2> QED
    BY <1>1, <2>2, <2>3
<1>4. Distinct'
  BY <1>1, <1>3 DEF DInv, Distinct, GoesOn
<1>5. \A x \in Event : Ahead(x)' => Ahead(x)
  BY <1>1, AheadKept DEF GoesOn, At
<1>6. Copies'
  <2>1. \A x, e : CopiesOf(x, e)' = CopiesOf(x, e)
    BY <1>1 DEF CopiesOf
  <2>2. \A x \in Event : Ahead(x)' <=> Ahead(x)
    BY <1>1, <1>5 DEF GoesOn, Ahead, At
  <2> QED
    BY <1>1, <2>1, <2>2 DEF DInv, Copies
<1> QED
  BY <1>4, <1>6

LEMMA CreateDeliveriesCopies ==
    ASSUME DInv, NEW w \in Worker, CreateDeliveries(w)
    PROVE  Distinct' /\ Copies'
<1>0. wk[w].event \in Event
  BY CreateDeliveriesDoes DEF DInv
<1> PICK x \in Event : x = wk[w].event
  BY <1>0
<1> DEFINE rows == wk[w].rows
           new == [i \in DOMAIN rows |-> [event |-> wk[w].event, endpoint |-> rows[i]]]
<1>1. /\ At(w, "selected") /\ GoesOn(w, "delivering")
      /\ UNCHANGED <<mapping, endpoint, attempts, jobs, scope, crashes>>
      /\ new \in Seq(DeliveryRow) /\ DOMAIN new = DOMAIN rows /\ wk'[w].rows = rows
      /\ delivery' = delivery \o new \/ delivery' = delivery
  BY CreateDeliveriesDoes DEF DInv
<1>2. delivery \in Seq(DeliveryRow) /\ crashes \in Nat /\ TypeOK
  BY ConstantsAssumption DEF DInv, IInv, TypeOK
<1>3. Distinct'
  BY <1>1 DEF DInv, Distinct, GoesOn
<1>4. /\ Ahead(x) /\ ~Ahead(x)'
      /\ \A ev \in Event \ {x} : Ahead(ev)' <=> Ahead(ev)
  <2>1. mapping[x] = "running" /\ \A v \in Worker : wk[v].event = x => v = w
    BY <1>1 DEF DInv, IInv, Held, At
  <2>2. /\ wk'[w].event = x /\ wk[w].event = x /\ wk'[w].pc = "delivering" /\ wk[w].pc = "selected"
        /\ \A v \in Worker \ {w} : wk'[v] = wk[v]
        /\ mapping' = mapping
    BY <1>1 DEF GoesOn, At
  <2>3. Ahead(x) /\ ~Ahead(x)'
    BY <2>1, <2>2 DEF Ahead
  <2>4. ASSUME NEW ev \in Event \ {x} PROVE Ahead(ev)' <=> Ahead(ev)
    <3>1. \A v \in Worker : wk'[v].event = ev => v # w /\ wk'[v] = wk[v]
      BY <2>2
    <3>2. \A v \in Worker : wk[v].event = ev => v # w /\ wk'[v] = wk[v]
      BY <2>2
    <3> QED
      BY <2>2, <3>1, <3>2 DEF Ahead
  <2> QED
    BY <2>3, <2>4
<1>5. ASSUME NEW d \in DOMAIN delivery'
      PROVE  \/ d \in DOMAIN delivery /\ delivery'[d] = delivery[d]
             \/ \E i \in DOMAIN rows : /\ d = Len(delivery) + i
                                       /\ delivery'[d].event = x
                                       /\ delivery'[d].endpoint = rows[i]
  <2>1. \A i \in DOMAIN rows : new[i].event = x /\ new[i].endpoint = rows[i]
    OBVIOUS
  <2>2. CASE delivery' = delivery \o new
    <3>1. /\ \A i \in DOMAIN new : (delivery \o new)[Len(delivery) + i] = new[i]
          /\ \A k \in DOMAIN delivery : (delivery \o new)[k] = delivery[k]
          /\ \A k \in DOMAIN (delivery \o new) :
                k \in DOMAIN delivery \/ \E i \in DOMAIN new : k = Len(delivery) + i
      <4>1. new \in Seq(DeliveryRow)
        BY <1>1
      <4> HIDE DEF new
      <4> QED
        BY <1>2, <4>1, RowsInserted
    <3> HIDE DEF new, rows
    <3> QED
      BY <1>1, <1>5, <2>1, <2>2, <3>1
  <2>3. CASE delivery' = delivery
    BY <1>5, <2>3
  <2> QED
    BY <1>1, <2>2, <2>3
<1>6. ASSUME NEW ev \in Event, NEW e \in Endpoint
      PROVE  Cardinality(CopiesOf(ev, e)') <= crashes + (IF Ahead(ev)' THEN 0 ELSE 1)
  <2> DEFINE old == CopiesOf(ev, e)
             fresh == CopiesOf(ev, e)'
  <2>1. IsFiniteSet(old) /\ Cardinality(old) \in Nat
    BY <1>2, CopiesAreFinite
  <2>2. Cardinality(old) <= crashes + (IF Ahead(ev) THEN 0 ELSE 1)
    BY DEF DInv, Copies
  <2>3. CASE ev # x
    <3>1. ASSUME NEW d \in fresh PROVE d \in old
      <4>1. d \in DOMAIN delivery' /\ delivery'[d] = [event |-> ev, endpoint |-> e]
        BY <3>1 DEF CopiesOf
      <4>2. delivery'[d].event # x
        BY <2>3, <4>1
      <4>3. d \in DOMAIN delivery /\ delivery'[d] = delivery[d]
        BY <1>5, <4>1, <4>2
      <4> QED
        BY <4>1, <4>3 DEF CopiesOf
    <3>2. Cardinality(fresh) \in Nat /\ Cardinality(fresh) <= Cardinality(old)
      <4>1. fresh \subseteq old
        BY <3>1
      <4> HIDE DEF old, fresh
      <4> QED
        BY <2>1, <4>1, FS_Subset, FS_CardinalityType
    <3>3. Ahead(ev)' <=> Ahead(ev)
      BY <1>4, <2>3
    <3> DEFINE m == Cardinality(fresh)
               n == Cardinality(old)
               bound == crashes + (IF Ahead(ev) THEN 0 ELSE 1)
    <3>4. bound \in Nat
      BY <1>2
    <3>5. n <= bound /\ n \in Nat /\ m \in Nat /\ m <= n
      BY <2>1, <2>2, <3>2
    <3> HIDE DEF m, n, bound
    <3>6. m <= bound
      BY <3>4, <3>5
    <3> QED
      BY <3>3, <3>6 DEF m, bound
  <2>4. CASE ev = x
    <3>1. ASSUME NEW d \in fresh
          PROVE  d \in old \/ \E i \in DOMAIN rows : rows[i] = e /\ d = Len(delivery) + i
      <4>1. d \in DOMAIN delivery' /\ delivery'[d] = [event |-> ev, endpoint |-> e]
        BY <3>1 DEF CopiesOf
      <4>2. CASE d \in DOMAIN delivery /\ delivery'[d] = delivery[d]
        BY <4>1, <4>2 DEF CopiesOf
      <4>3. CASE \E i \in DOMAIN rows : /\ d = Len(delivery) + i
                                        /\ delivery'[d].endpoint = rows[i]
        BY <4>1, <4>3
      <4> QED
        BY <1>5, <4>1, <4>2, <4>3
    <3>2. \E d : fresh \subseteq old \cup {d}
      <4>1. \A i, k \in DOMAIN rows : rows[i] = e /\ rows[k] = e => i = k
        BY DEF DInv, Distinct
      <4> HIDE DEF old, fresh, rows
      <4>2. \A c, d \in fresh : c \notin old /\ d \notin old => c = d
        BY <3>1, <4>1
      <4> QED
        BY <4>2
    <3>3. Cardinality(fresh) \in Nat /\ Cardinality(fresh) <= Cardinality(old) + 1
      <4> HIDE DEF old, fresh
      <4> PICK d : fresh \subseteq old \cup {d}
        BY <3>2
      <4>1. IsFiniteSet(old \cup {d}) /\ Cardinality(old \cup {d}) <= Cardinality(old) + 1
        <5>1. /\ IsFiniteSet(old \cup {d})
              /\ \/ Cardinality(old \cup {d}) = Cardinality(old)
                 \/ Cardinality(old \cup {d}) = Cardinality(old) + 1
          BY <2>1, FS_AddElement
        <5> QED
          BY <2>1, <5>1
      <4>2. /\ Cardinality(fresh) \in Nat /\ Cardinality(fresh) <= Cardinality(old \cup {d})
            /\ Cardinality(old \cup {d}) \in Nat
        BY <4>1, FS_Subset, FS_CardinalityType
      <4> QED
        BY <2>1, <4>1, <4>2
    <3>4. Cardinality(old) <= crashes + 0
      BY <1>4, <2>2, <2>4
    <3> HIDE DEF old, fresh
    <3>5. Cardinality(fresh) <= crashes + 1
      BY <1>2, <2>1, <3>3, <3>4
    <3>6. ~Ahead(ev)'
      BY <1>4, <2>4
    <3> QED
      BY <3>5, <3>6 DEF fresh
  <2> QED
    BY <2>3, <2>4
<1>7. Copies'
  BY <1>1, <1>6 DEF Copies
<1> QED
  BY <1>3, <1>7

LEMMA InitDInv == Init => DInv
<1> SUFFICES ASSUME Init PROVE DInv
  OBVIOUS
<1>1. IInv
  BY InitIInv
<1>2. Distinct
  <2>1. DOMAIN (<<>>) = {}
    OBVIOUS
  <2> QED
    BY <2>1, IdleIsTyped DEF Init, Distinct
<1>3. ASSUME NEW ev \in Event, NEW e \in Endpoint
      PROVE  Cardinality(CopiesOf(ev, e)) = 0 /\ Ahead(ev)
  <2>1. CopiesOf(ev, e) = {}
    BY DEF Init, CopiesOf
  <2> QED
    BY <2>1, FS_EmptySet DEF Init, Ahead
<1>4. Copies
  BY <1>3 DEF Copies, Init
<1> QED
  BY <1>1, <1>2, <1>4 DEF DInv

LEMMA StepDInv == ASSUME NoDoubleMatch PROVE DInv /\ [Next]_vars => DInv'
<1> SUFFICES ASSUME DInv, [Next]_vars PROVE DInv'
  OBVIOUS
<1>1. IInv' /\ IInv
  BY StepIInv DEF DInv
<1>2. ASSUME NEW w \in Worker, NEW ev \in Event, Claim(w, ev) PROVE Distinct' /\ Copies'
  <2>1. /\ mapping[ev] = "queued" /\ mapping' = [mapping EXCEPT ![ev] = "running"]
        /\ wk'[w].event = ev /\ wk'[w].rows = <<>> /\ \A v \in Worker \ {w} : wk'[v] = wk[v]
        /\ UNCHANGED <<endpoint, delivery, attempts, jobs, scope, failures, crashes>>
    BY <1>1, <1>2 DEF Claim, Idle, IInv, TypeOK
  <2>2. \A x \in Event : Ahead(x)' => Ahead(x)
    BY <1>1, <2>1 DEF Ahead, IInv, TypeOK
  <2> QED
    BY <2>1, <2>2, CopiesKept
<1>3. ASSUME NEW w \in Worker, Handle(w) PROVE Distinct' /\ Copies'
  <2>1. CASE Select(w)
    BY <2>1, SelectCopies
  <2>2. CASE CreateDeliveries(w)
    BY <2>2, CreateDeliveriesCopies
  <2>3. CASE CreateAttempts(w) \/ Enqueue(w)
    <3>1. /\ GoesOn(w, "queueing") /\ UNCHANGED <<mapping, delivery, crashes>>
          /\ wk'[w].rows = wk[w].rows
      BY <1>1, <2>3, CreateAttemptsDoes, EnqueueDoes
    <3>2. \A ev \in Event : Ahead(ev)' => Ahead(ev)
      BY <3>1, AheadKept DEF GoesOn
    <3> QED
      BY <3>1, <3>2, CopiesKept DEF GoesOn
  <2>4. CASE Finish(w)
    <3>1. /\ mapping' = [mapping EXCEPT ![wk[w].event] = "done"]
          /\ wk'[w] = Idle /\ \A v \in Worker \ {w} : wk'[v] = wk[v]
          /\ UNCHANGED <<delivery, crashes>>
      BY <1>1, <2>4 DEF Finish, IInv, TypeOK
    <3>2. \A ev \in Event : Ahead(ev)' => Ahead(ev)
      BY <1>1, <3>1, IdleIsTyped DEF Ahead, IInv, TypeOK
    <3> QED
      BY <3>1, <3>2, CopiesKept, IdleIsTyped
  <2> QED
    BY <1>3, <2>1, <2>2, <2>3, <2>4 DEF Handle
<1>4. ASSUME NEW p \in Process, Crash(p) PROVE Distinct' /\ Copies'
  <2>1. /\ \A v \in Worker : wk'[v] = wk[v] \/ wk'[v] = Idle
        /\ UNCHANGED <<endpoint, delivery, attempts, jobs, scope, failures>>
        /\ crashes' = crashes + 1 /\ crashes \in Nat
    BY <1>1, <1>4, ConstantsAssumption DEF Crash, IInv, TypeOK
  <2>2. Distinct'
    <3>1. DOMAIN (<<>>) = {}
      OBVIOUS
    <3> QED
      BY <2>1, <3>1, IdleIsTyped DEF DInv, Distinct
  <2>3. ASSUME NEW ev \in Event, NEW e \in Endpoint
        PROVE  Cardinality(CopiesOf(ev, e)') <= crashes' + (IF Ahead(ev)' THEN 0 ELSE 1)
    <3> DEFINE c == Cardinality(CopiesOf(ev, e))
    <3>1. c \in Nat /\ CopiesOf(ev, e)' = CopiesOf(ev, e)
      BY <1>1, <2>1, CopiesAreFinite DEF IInv, CopiesOf
    <3>2. c <= crashes + (IF Ahead(ev) THEN 0 ELSE 1)
      BY DEF DInv, Copies
    <3> HIDE DEF c
    <3>3. c <= crashes + 1 /\ c <= crashes + 1 + 1
      BY <2>1, <3>1, <3>2
    <3> QED
      BY <2>1, <3>1, <3>3 DEF c
  <2> QED
    BY <2>2, <2>3 DEF Copies
<1>5. ASSUME NEW e \in Endpoint, NEW row, Put(e, row) PROVE Distinct' /\ Copies'
  BY <1>5, CopiesKept DEF Put, Ahead
<1>6. ASSUME UNCHANGED vars PROVE Distinct' /\ Copies'
  BY <1>6, CopiesKept DEF vars, Ahead
<1>7. ASSUME NEW w \in Worker, Poll(w) \/ Handle(w) PROVE Distinct' /\ Copies'
  BY <1>2, <1>3, <1>7 DEF Poll
<1>8. ASSUME NEW e \in Endpoint, NEW listens \in Listening,
             \/ Register(e, listens)
             \/ \E status \in {"enabled", "disabled"} : Update(e, status, listens)
      PROVE  Distinct' /\ Copies'
  BY <1>5, <1>8 DEF Register, Update
<1>9. ASSUME NEW ev \in Event, Submit(ev) PROVE Distinct' /\ Copies'
  <2>1. /\ mapping[ev] = "none" /\ mapping' = [mapping EXCEPT ![ev] = "queued"]
        /\ UNCHANGED <<delivery, wk, crashes>>
    BY <1>9 DEF Submit
  <2>2. \A x \in Event : Ahead(x)' => Ahead(x)
    BY <1>1, <2>1 DEF Ahead, IInv, TypeOK
  <2> QED
    BY <2>1, <2>2, CopiesKept
<1>10. Distinct' /\ Copies'
  BY <1>4, <1>6, <1>7, <1>8, <1>9 DEF Next
<1> QED
  BY <1>1, <1>10 DEF DInv

\* Where no list of subscriptions selects an event twice, an event has one
\* delivery per endpoint and run of its job: failing statements, updates of the
\* endpoints and other goroutines never add one, only a crash does.
THEOREM OneDelivery ==
    ASSUME NoDoubleMatch
    PROVE  Spec => []OneDeliveryPerRun
<1>1. DInv => OneDeliveryPerRun
  <2> SUFFICES ASSUME DInv, NEW ev \in Event, NEW e \in Endpoint
               PROVE  Cardinality(CopiesOf(ev, e)) <= 1 + crashes
    BY DEF OneDeliveryPerRun
  <2> DEFINE c == Cardinality(CopiesOf(ev, e))
  <2>1. c \in Nat /\ crashes \in Nat
    BY CopiesAreFinite, ConstantsAssumption DEF DInv, IInv, TypeOK
  <2>2. c <= crashes + (IF Ahead(ev) THEN 0 ELSE 1)
    BY DEF DInv, Copies
  <2> HIDE DEF c
  <2>3. c <= 1 + crashes
    BY <2>1, <2>2
  <2> QED
    BY <2>3 DEF c
<1>2. DInv /\ [Next]_vars => DInv'
  BY StepDInv
<1>3. Spec => []DInv
  BY InitDInv, <1>2, PTL DEF Spec
<1> QED
  BY <1>1, <1>3, PTL

-----------------------------------------------------------------------------
(***************************************************************************)
(* The worker as a part of Zebrahook, where endpoints change for more      *)
(* reasons, and others crash, too.                                         *)
(***************************************************************************)
\* Nobody has listened to an event that was not submitted.
Unheard == \A ev \in Event : mapping[ev] = "none" => scope[ev].ever = {}

CInv == SInv /\ Unheard

LEMMA InitCInv == Init => CInv
BY InitSInv DEF CInv, Init, Unheard

\* Any row an endpoint may get.
LEMMA PutCInv ==
    ASSUME CInv, NEW e \in Endpoint, NEW row \in EndpointRow, Put(e, row)
    PROVE  CInv'
<1>1. IInv'
  BY PutIInv DEF CInv, SInv
<1>2. Sent' /\ NoneLeftOut'
  BY OthersSent DEF CInv, SInv, Put, ScopeWith
<1>3. Unheard'
  BY DEF CInv, Unheard, Put, ScopeWith
<1> QED
  BY <1>1, <1>2, <1>3 DEF CInv, SInv

\* A job that is there is not taken away.
LEMMA StaysSubmitted ==
    ASSUME IInv, [Next]_vars, NEW ev \in Event, mapping'[ev] = "none"
    PROVE  mapping[ev] = "none" /\ scope'[ev].ever \subseteq scope[ev].ever
<1>1. mapping \in [Event -> {"none", "queued", "running", "done"}]
  BY DEF IInv, TypeOK
<1>2. ASSUME NEW w \in Worker, NEW x \in Event, Claim(w, x)
      PROVE  mapping[ev] = "none" /\ scope' = scope
  BY <1>1, <1>2 DEF Claim
<1>3. ASSUME NEW w \in Worker, Handle(w)
      PROVE  mapping[ev] = "none" /\ scope' = scope
  BY <1>1, <1>3 DEF Handle, Select, CreateDeliveries, CreateAttempts, Enqueue, Finish
<1>4. ASSUME NEW p \in Process, Crash(p)
      PROVE  mapping[ev] = "none" /\ scope' = scope
  BY <1>1, <1>4 DEF Crash
<1>5. ASSUME NEW x \in Event, Submit(x)
      PROVE  mapping[ev] = "none" /\ scope'[ev] = scope[ev]
  <2>1. ev # x
    BY <1>1, <1>5 DEF Submit
  <2> QED
    BY <1>1, <1>5, <2>1 DEF Submit, IInv, TypeOK
<1>6. ASSUME NEW e \in Endpoint, NEW row, Put(e, row)
      PROVE  mapping[ev] = "none" /\ scope'[ev] = scope[ev]
  BY <1>6 DEF Put, ScopeWith
<1>7. ASSUME NEW e \in Endpoint, NEW listens \in Listening,
             \/ Register(e, listens)
             \/ \E status \in {"enabled", "disabled"} : Update(e, status, listens)
      PROVE  mapping[ev] = "none" /\ scope'[ev] = scope[ev]
  BY <1>6, <1>7 DEF Register, Update
<1>8. ASSUME UNCHANGED vars PROVE mapping[ev] = "none" /\ scope' = scope
  BY <1>8 DEF vars
<1> QED
  BY <1>2, <1>3, <1>4, <1>5, <1>7, <1>8 DEF Next, Poll

LEMMA StepCInv ==
    ASSUME CInv, [Next]_vars
    PROVE  CInv'
<1>1. SInv'
  BY StepSInv DEF CInv
<1>2. Unheard'
  BY StaysSubmitted DEF CInv, SInv, Unheard
<1> QED
  BY <1>1, <1>2 DEF CInv

LEMMA ElsewhereCInv ==
    ASSUME CInv, UNCHANGED <<mapping, endpoint, delivery, attempts, jobs, wk, scope, failures>>,
           crashes' \in 0 .. MaxCrashes
    PROVE  CInv'
<1>1. TypeOK'
  BY DEF CInv, SInv, IInv, TypeOK, At
<1>2. Held' /\ OneMention' /\ JobsNameTheirAttempt'
  BY DEF CInv, SInv, IInv, Held, OneMention, JobsNameTheirAttempt, At, JobId
<1>6. Lists'
  BY ListsKept DEF CInv, SInv, IInv, Lists
<1>3. Heard' /\ NoStranger' /\ Submitted'
  BY DEF CInv, SInv, IInv, Heard, NoStranger, Submitted, Listeners, JobId
<1>4. Sent' /\ NoneLeftOut'
  BY DEF CInv, SInv, Sent, SentOf, Payload, NoneLeftOut, JobFor, JobId
<1>5. Unheard'
  BY DEF CInv, Unheard
<1> QED
  BY <1>1, <1>2, <1>3, <1>4, <1>5, <1>6 DEF CInv, SInv, IInv

\* Only a submission takes an event on, and nothing else happens to an endpoint.
LEMMA WorkersSubmitNothing ==
    ASSUME IInv, \/ \E w \in Worker : Poll(w) \/ Handle(w)
                 \/ \E p \in Process : Crash(p)
    PROVE  /\ UNCHANGED <<endpoint, scope>>
           /\ \A ev \in Event : mapping'[ev] = "none" <=> mapping[ev] = "none"
<1>1. mapping \in [Event -> {"none", "queued", "running", "done"}]
  BY DEF IInv, TypeOK
<1>2. ASSUME NEW w \in Worker, NEW x \in Event, Claim(w, x)
      PROVE  /\ UNCHANGED <<endpoint, scope>>
             /\ \A ev \in Event : mapping'[ev] = "none" <=> mapping[ev] = "none"
  BY <1>1, <1>2 DEF Claim
<1>3. ASSUME NEW w \in Worker, Select(w) \/ CreateDeliveries(w) \/ CreateAttempts(w) \/ Enqueue(w)
      PROVE  UNCHANGED <<endpoint, scope, mapping>>
  BY <1>3 DEF Select, CreateDeliveries, CreateAttempts, Enqueue
<1>4. ASSUME NEW w \in Worker, Finish(w)
      PROVE  /\ UNCHANGED <<endpoint, scope>>
             /\ \A ev \in Event : mapping'[ev] = "none" <=> mapping[ev] = "none"
  <2>1. mapping[wk[w].event] # "none" /\ wk[w].event \in Event
    BY <1>4, Busy DEF Finish, At
  <2> QED
    BY <1>1, <1>4, <2>1 DEF Finish
<1>5. ASSUME NEW p \in Process, Crash(p)
      PROVE  /\ UNCHANGED <<endpoint, scope>>
             /\ \A ev \in Event : mapping'[ev] = "none" <=> mapping[ev] = "none"
  <2>1. \A w \in Worker : \A ev \in Event : wk[w].event = ev => mapping[ev] # "none"
    BY IdleIsTyped DEF IInv, Held
  <2> QED
    BY <1>1, <1>5, <2>1 DEF Crash
<1> QED
  BY <1>2, <1>3, <1>4, <1>5 DEF Poll, Handle

\* The history after a change of an endpoint.
LEMMA PutHears ==
    ASSUME IInv, NEW e \in Endpoint, NEW row \in EndpointRow, Put(e, row), NEW ev \in Event
    PROVE  /\ mapping' = mapping
           /\ scope'[ev].ever = IF mapping[ev] = "none" THEN scope[ev].ever
                                ELSE scope[ev].ever \cup Listeners(endpoint', ev)
BY DEF Put, ScopeWith

\* Where no statement fails, each job that is enqueued names an attempt.
LEMMA EnqueueNames ==
    ASSUME MaxFailures = 0, CInv, NEW w \in Worker, Enqueue(w),
           NEW job, job = Payload(wk[w], wk[w].sent + 1)
    PROVE  /\ job \in JobRow /\ job.attempt # 0 /\ jobs' = Append(jobs, job)
           /\ UNCHANGED <<mapping, endpoint, scope, crashes>>
<1>1. /\ job \in JobRow /\ UNCHANGED <<mapping, endpoint, scope, crashes>>
      /\ wk[w].sent + 1 \in DOMAIN wk[w].attempts
      /\ jobs' = Append(jobs, job) \/ failures' = failures + 1
      /\ failures' \in 0 .. MaxFailures /\ failures \in 0 .. MaxFailures
  BY EnqueueDoes DEF CInv, SInv, IInv, TypeOK
<1>2. failures = 0 /\ failures' = 0
  BY <1>1
<1>3. wk[w].attempts[wk[w].sent + 1] # 0
  BY <1>1, <1>2 DEF CInv, SInv, Sent, SentOf
<1> QED
  BY <1>1, <1>2, <1>3 DEF Payload
=============================================================================
