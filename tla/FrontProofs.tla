------------------------------ MODULE FrontProofs ------------------------------
(***************************************************************************)
(* Theorems about Front: who may write, the order and the completeness of  *)
(* the batches queued, updates that are kept, secrets that can be looked   *)
(* up again, the checks on both sides of the wire, and the replies.        *)
(*                                                                         *)
(* Control says where each call is and what it holds there; on it rest     *)
(* BatchInv, about the batches and the queue, and EndpointInv, about the   *)
(* rows of the endpoints.  All three are inductive; with them, so is       *)
(* ReplyInv, about what the clients are sent.                              *)
(***************************************************************************)
EXTENDS Front, FiniteSetTheorems, SequenceTheorems, TLAPS

-----------------------------------------------------------------------------
(***************************************************************************)
(* The stable sort of SubmitNewEvents (main.go 134-136).                   *)
(***************************************************************************)
\* Before is a strict total order of the positions of a batch.
LEMMA BeforeOrders ==
    ASSUME NEW es, NEW D \in SUBSET Nat, \A i \in D : Priority(es[i]) \in Int
    PROVE  /\ \A i \in D : ~Before(es, i, i)
           /\ \A i, j \in D : i # j => Before(es, i, j) \/ Before(es, j, i)
           /\ \A i, j, k \in D : Before(es, i, j) /\ Before(es, j, k) => Before(es, i, k)
<1> DEFINE f(i) == Priority(es[i])
<1>1. \A i \in D : f(i) \in Int /\ i \in Nat
  OBVIOUS
<1>2. \A i, j : Before(es, i, j) <=> (f(i) > f(j) \/ (f(i) = f(j) /\ i < j))
  BY DEF Before
<1> HIDE DEF f
<1> QED
  BY <1>1, <1>2

\* One that injects a finite interval into itself reaches all of it.
LEMMA InjectionReaches ==
    ASSUME NEW n \in Nat, NEW f \in [1 .. n -> 1 .. n],
           \A i, j \in 1 .. n : f[i] = f[j] => i = j
    PROVE  \A k \in 1 .. n : \E i \in 1 .. n : f[i] = k
<1>1. IsFiniteSet(1 .. n)
  BY FS_Interval
<1>2. f \in Injection(1 .. n, 1 .. n)
  BY DEF Injection, IsInjective
<1>3. f \in Surjection(1 .. n, 1 .. n)
  BY <1>1, <1>2, FS_Injection
<1> QED
  BY <1>3 DEF Surjection

\* There is an order in which every position comes after those that go before
\* it: put each where the number of those says.
LEMMA OrderExists ==
    ASSUME NEW n \in Nat, NEW es, \A i \in 1 .. n : Priority(es[i]) \in Int
    PROVE  \E o \in [1 .. n -> 1 .. n] :
               \A i, j \in 1 .. n : i < j => Before(es, o[i], o[j])
<1> DEFINE D == 1 .. n
           Earlier(i) == {j \in D : Before(es, j, i)}
           rank == [i \in D |-> Cardinality(Earlier(i)) + 1]
<1>1. /\ \A i \in D : ~Before(es, i, i)
      /\ \A i, j \in D : i # j => Before(es, i, j) \/ Before(es, j, i)
      /\ \A i, j, k \in D : Before(es, i, j) /\ Before(es, j, k) => Before(es, i, k)
  <2>1. D \in SUBSET Nat /\ \A i \in D : Priority(es[i]) \in Int
    OBVIOUS
  <2> HIDE DEF D, Earlier
  <2> QED
    BY <2>1, BeforeOrders
<1>2. IsFiniteSet(D) /\ Cardinality(D) = n
  BY FS_Interval
<1>3. ASSUME NEW i \in D
      PROVE  /\ IsFiniteSet(Earlier(i)) /\ Cardinality(Earlier(i)) \in Nat
             /\ Cardinality(Earlier(i)) + 1 <= n
  <2>1. Earlier(i) \subseteq D /\ i \notin Earlier(i)
    BY <1>1
  <2>2. IsFiniteSet(Earlier(i)) /\ Cardinality(Earlier(i)) <= n /\ (Cardinality(D) = Cardinality(Earlier(i)) => D = Earlier(i))
    BY <1>2, <2>1, FS_Subset
  <2>3. Cardinality(Earlier(i)) \in Nat
    BY <2>2, FS_CardinalityType
  <2>4. Cardinality(Earlier(i)) # n
    BY <1>2, <2>1, <2>2
  <2> HIDE DEF Earlier
  <2> QED
    BY <2>2, <2>3, <2>4
<1>4. ASSUME NEW i \in D, NEW j \in D, Before(es, i, j)
      PROVE  Cardinality(Earlier(i)) < Cardinality(Earlier(j))
  <2>1. Earlier(i) \subseteq Earlier(j) /\ i \in Earlier(j) /\ i \notin Earlier(i)
    BY <1>1, <1>4
  <2>2. Cardinality(Earlier(i)) <= Cardinality(Earlier(j)) /\ (Cardinality(Earlier(j)) = Cardinality(Earlier(i)) => Earlier(j) = Earlier(i))
    BY <1>3, <2>1, FS_Subset
  <2>3. Cardinality(Earlier(i)) \in Nat /\ Cardinality(Earlier(j)) \in Nat
    BY <1>3
  <2>4. Cardinality(Earlier(j)) # Cardinality(Earlier(i))
    BY <2>1, <2>2
  <2> HIDE DEF Earlier
  <2> QED
    BY <2>2, <2>3, <2>4
<1> HIDE DEF Earlier
<1>5. rank \in [D -> D]
  BY <1>3
<1>6. \A i, j \in D : Before(es, i, j) => rank[i] < rank[j]
  BY <1>3, <1>4
<1>7. \A i \in D : rank[i] \in Nat
  BY <1>5
<1> HIDE DEF rank
<1>8. \A i, j \in D : rank[i] = rank[j] => i = j
  BY <1>1, <1>6, <1>7
<1>9. \A k \in D : \E i \in D : rank[i] = k
  BY <1>5, <1>8, InjectionReaches
<1> DEFINE o == [k \in D |-> CHOOSE i \in D : rank[i] = k]
<1>10. o \in [D -> D] /\ \A k \in D : rank[o[k]] = k
  BY <1>9
<1> HIDE DEF o
<1>11. ASSUME NEW k \in D, NEW l \in D, k < l PROVE Before(es, o[k], o[l])
  <2>1. o[k] \in D /\ o[l] \in D /\ rank[o[k]] = k /\ rank[o[l]] = l
    BY <1>10
  <2>2. o[k] # o[l]
    BY <1>11, <2>1
  <2>3. ~Before(es, o[l], o[k])
    BY <1>6, <1>11, <2>1
  <2> QED
    BY <1>1, <2>1, <2>2, <2>3
<1> QED
  BY <1>10, <1>11

\* Order is such an order, and each position comes once.
LEMMA OrderSorts ==
    ASSUME NEW n \in Nat, NEW es, DOMAIN es = 1 .. n,
           \A i \in 1 .. n : Priority(es[i]) \in Int
    PROVE  /\ Order(es) \in [1 .. n -> 1 .. n]
           /\ \A i, j \in 1 .. n : i < j => Before(es, Order(es)[i], Order(es)[j])
           /\ \A i, j \in 1 .. n : Order(es)[i] = Order(es)[j] => i = j
           /\ \A k \in 1 .. n : \E i \in 1 .. n : Order(es)[i] = k
<1>1. /\ Order(es) \in [1 .. n -> 1 .. n]
      /\ \A i, j \in 1 .. n : i < j => Before(es, Order(es)[i], Order(es)[j])
  BY OrderExists DEF Order
<1>2. \A i \in 1 .. n : ~Before(es, i, i)
  <2>1. 1 .. n \in SUBSET Nat
    OBVIOUS
  <2> QED
    BY <2>1, BeforeOrders
<1>3. \A i, j \in 1 .. n : i # j => i < j \/ j < i
  OBVIOUS
<1>4. \A i, j \in 1 .. n : Order(es)[i] = Order(es)[j] => i = j
  BY <1>1, <1>2, <1>3
<1> QED
  BY <1>1, <1>4, InjectionReaches

-----------------------------------------------------------------------------
(***************************************************************************)
(* What a step does to the call it belongs to, and to no other.            *)
(***************************************************************************)
TypedCalls == DOMAIN call = Call /\ \A c \in Call : DOMAIN call[c] = DOMAIN NotMade

\* A step of a call sets the fields it names, of this call only.
LEMMA GoesTo ==
    ASSUME TypedCalls, NEW c \in Call, NEW fields, Goes(c, fields)
    PROVE  /\ TypedCalls'
           /\ \A d \in Call : d # c => call'[d] = call[d]
           /\ \A f \in DOMAIN NotMade :
                 call'[c][f] = IF f \in DOMAIN fields THEN fields[f] ELSE call[c][f]
<1>1. call' = [call EXCEPT ![c] = With(call[c], fields)]
  BY DEF Goes
<1>2. DOMAIN With(call[c], fields) = DOMAIN NotMade
  BY DEF With, TypedCalls
<1> QED
  BY <1>1, <1>2 DEF TypedCalls, With

FieldNames == {"pc", "client", "m", "p", "id", "batch", "ids", "queued", "wrote", "reply"}

\* The fields of a call.
LEMMA NotMadeFields == DOMAIN NotMade = FieldNames
BY DEF NotMade, FieldNames

\* A crash ends the calls under way and changes nothing else of any.
LEMMA CrashCuts ==
    ASSUME TypedCalls, Crash
    PROVE  /\ TypedCalls'
           /\ \A c \in Call :
                 /\ call'[c].pc = IF call[c].pc \in {"none", "untold", "answered", "closed"}
                                  THEN call[c].pc ELSE "cut"
                 /\ \A f \in DOMAIN NotMade \ {"pc"} : call'[c][f] = call[c][f]
<1>1. call' = [c \in Call |->
           IF call[c].pc \in {"none", "untold", "answered", "closed"} THEN call[c]
           ELSE [call[c] EXCEPT !.pc = "cut"]]
  BY DEF Crash
<1>2. "pc" \in DOMAIN NotMade
  BY DEF NotMade
<1> QED
  BY <1>1, <1>2 DEF TypedCalls

\* The five routes.
LEMMA Routes == \A m : Route(m) \in {"submit", "register", "update", "list", "get", "none"}
BY DEF Route

Only(c, fields) ==
    /\ TypedCalls'
    /\ \A d \in Call : d # c => call'[d] = call[d]
    /\ \A f \in FieldNames \ fields : call'[c][f] = call[c][f]

\* What the actions of a call read and set.
LEMMA DecodeSets ==
    ASSUME TypedCalls, NEW c \in Call, Decode(c)
    PROVE  /\ Only(c, {"pc", "p", "reply"}) /\ call[c].pc = "sent"
           /\ \/ /\ call'[c].pc = "closed" /\ call'[c].p = call[c].p
                 /\ call'[c].reply = call[c].reply
              \/ /\ call'[c].pc = "answered" /\ call'[c].p = call[c].p
                 /\ call'[c].reply.status # 200
              \/ /\ call'[c].pc = "decoded" /\ call'[c].p = Decoded(call[c].m)
                 /\ Decoded(call[c].m) # Nil /\ Route(call[c].m) # "none"
                 /\ ~PanicsIn(call[c].m)
                 /\ call'[c].reply = call[c].reply
<1>1. call[c].pc = "sent"
  BY DEF Decode, At
<1>2. CASE \E status \in {404, 405, 400} : Refuses(c, status)
  <2>1. PICK status \in {404, 405, 400} :
            Goes(c, [pc |-> "answered", reply |-> [status |-> status, body |-> Nil]])
    BY <1>2 DEF Refuses, Answers
  <2> QED
    BY <1>1, <2>1, GoesTo, NotMadeFields DEF FieldNames, Only
<1>3. CASE Goes(c, [pc |-> "closed"])
  BY <1>1, <1>3, GoesTo, NotMadeFields DEF FieldNames, Only
<1>4. CASE /\ Goes(c, [pc |-> "decoded", p |-> Decoded(call[c].m)])
           /\ Decoded(call[c].m) # Nil /\ Route(call[c].m) # "none" /\ ~PanicsIn(call[c].m)
  BY <1>1, <1>4, GoesTo, NotMadeFields DEF FieldNames, Only
<1> QED
  BY <1>2, <1>3, <1>4 DEF Decode, Unrouted

LEMMA TypeCommandSets ==
    ASSUME TypedCalls, NEW c \in Call, TypeCommand(c)
    PROVE  \E t \in Command :
              /\ Names(t) /\ Only(c, {"pc", "client", "m"}) /\ call[c].pc = "none"
              /\ \/ /\ call'[c].pc = "untold" /\ call'[c].m = call[c].m
                    /\ call'[c].client = call[c].client
                 \/ /\ Built(t) # Nil /\ call'[c].pc = "sent"
                    /\ call'[c].m = Encoded(t.method, Built(t))
                    /\ call'[c].client = [method |-> t.method, p |-> Built(t)]
<1>1. PICK t \in Command :
          /\ Names(t) /\ call[c].pc = "none"
          /\ IF Built(t) = Nil THEN Goes(c, [pc |-> "untold"])
             ELSE Goes(c, [pc |-> "sent", client |-> [method |-> t.method, p |-> Built(t)],
                           m |-> Encoded(t.method, Built(t))])
  BY DEF TypeCommand, At
<1> DEFINE m == Encoded(t.method, Built(t))
           client == [method |-> t.method, p |-> Built(t)]
<1>2. CASE Goes(c, [pc |-> "untold"])
  <2>1. /\ Only(c, {"pc", "client", "m"}) /\ call'[c].pc = "untold"
        /\ call'[c].m = call[c].m /\ call'[c].client = call[c].client
    BY <1>2, GoesTo, NotMadeFields DEF FieldNames, Only
  <2> HIDE DEF m, client
  <2> QED
    BY <1>1, <2>1
<1>3. CASE Built(t) # Nil /\ Goes(c, [pc |-> "sent", client |-> client, m |-> m])
  <2>1. /\ Only(c, {"pc", "client", "m"}) /\ call'[c].pc = "sent"
        /\ call'[c].m = m /\ call'[c].client = client
    <3> HIDE DEF m, client
    <3> QED
      BY <1>3, GoesTo, NotMadeFields DEF FieldNames, Only
  <2>2. /\ Names(t) /\ Only(c, {"pc", "client", "m"}) /\ call[c].pc = "none"
        /\ Built(t) # Nil /\ call'[c].pc = "sent"
        /\ call'[c].m = Encoded(t.method, Built(t))
        /\ call'[c].client = [method |-> t.method, p |-> Built(t)]
    BY <1>1, <1>3, <2>1
  <2> QED
    BY <2>2
<1> QED
  BY <1>1, <1>2, <1>3

LEMMA SendRawSets ==
    ASSUME TypedCalls, NEW c \in Call, SendRaw(c)
    PROVE  /\ Only(c, {"pc", "m"}) /\ call[c].pc = "none" /\ call'[c].pc = "sent"
           /\ call'[c].m \in RawRequest
<1>1. PICK m \in RawRequest : call[c].pc = "none" /\ Goes(c, [pc |-> "sent", m |-> m])
  BY DEF SendRaw, At
<1> QED
  BY <1>1, GoesTo, NotMadeFields DEF FieldNames, Only

LEMMA AuthoriseSets ==
    ASSUME TypedCalls, NEW c \in Call, Authorise(c)
    PROVE  /\ Only(c, {"pc", "reply"}) /\ call[c].pc = "decoded"
           /\ \/ /\ call[c].p.token \in keys /\ call'[c].pc = Route(call[c].m)
                 /\ call'[c].reply = call[c].reply /\ UNCHANGED failures
              \/ /\ call'[c].pc = "answered" /\ call'[c].reply.status # 200
                 /\ failures' = failures \/ Fails
<1>1. call[c].pc = "decoded"
  BY DEF Authorise, At
<1>2. CASE Known(c) /\ Goes(c, [pc |-> Route(call[c].m)])
  BY <1>1, <1>2, GoesTo, NotMadeFields DEF FieldNames, Only, Known
<1>3. CASE Refuses(c, 400) /\ (failures' = failures \/ Fails)
  BY <1>1, <1>3, GoesTo, NotMadeFields DEF FieldNames, Only, Refuses, Answers
<1> QED
  BY <1>2, <1>3 DEF Authorise

LEMMA InsertEventsSets ==
    ASSUME TypedCalls, NEW c \in Call, InsertEvents(c)
    PROVE  /\ Only(c, {"pc", "batch", "ids", "wrote"})
           /\ call[c].pc = "submit" /\ call'[c].pc = "queueing" /\ call'[c].batch = Batch(c)
           /\ \/ /\ events' = events \o Batch(c) /\ UNCHANGED failures
                 /\ call'[c].wrote = (Batch(c) # <<>>)
                 /\ call'[c].ids = [i \in DOMAIN Batch(c) |-> Len(events) + i]
              \/ /\ Fails /\ UNCHANGED events /\ call'[c].wrote = call[c].wrote
                 /\ call'[c].ids = [i \in DOMAIN Batch(c) |-> 0]
<1>1. call[c].pc = "submit"
  BY DEF InsertEvents, At
<1> DEFINE batch == Batch(c)
           given == [i \in DOMAIN batch |-> Len(events) + i]
           none == [i \in DOMAIN batch |-> 0]
           some == batch # <<>>
<1>2. \/ /\ events' = events \o batch /\ UNCHANGED failures
         /\ Goes(c, [pc |-> "queueing", batch |-> batch, wrote |-> some, ids |-> given])
      \/ /\ Fails /\ UNCHANGED events
         /\ Goes(c, [pc |-> "queueing", batch |-> batch, ids |-> none])
  BY DEF InsertEvents
<1> HIDE DEF batch, given, none, some
<1>3. CASE /\ events' = events \o batch /\ UNCHANGED failures
           /\ Goes(c, [pc |-> "queueing", batch |-> batch, wrote |-> some, ids |-> given])
  <2>1. /\ Only(c, {"pc", "batch", "ids", "wrote"}) /\ call'[c].pc = "queueing"
        /\ call'[c].batch = batch /\ call'[c].wrote = some /\ call'[c].ids = given
    BY <1>3, GoesTo, NotMadeFields DEF FieldNames, Only
  <2> QED
    BY <1>1, <1>3, <2>1 DEF batch, given, some
<1>4. CASE /\ Fails /\ UNCHANGED events
           /\ Goes(c, [pc |-> "queueing", batch |-> batch, ids |-> none])
  <2>1. /\ Only(c, {"pc", "batch", "ids", "wrote"}) /\ call'[c].pc = "queueing"
        /\ call'[c].batch = batch /\ call'[c].wrote = call[c].wrote /\ call'[c].ids = none
    BY <1>4, GoesTo, NotMadeFields DEF FieldNames, Only
  <2> QED
    BY <1>1, <1>4, <2>1 DEF batch, none
<1> QED
  BY <1>2, <1>3, <1>4

LEMMA EnqueueEventSets ==
    ASSUME TypedCalls, NEW c \in Call, EnqueueEvent(c)
    PROVE  /\ Only(c, {"queued", "wrote"})
           /\ call[c].pc = "queueing" /\ call[c].queued # Len(call[c].batch)
           /\ call'[c].queued = call[c].queued + 1
           /\ call'[c].wrote = (call[c].wrote \/ mapping' # mapping)
           /\ \/ /\ mapping' = Append(mapping, JobOf(call[c], call[c].queued + 1))
                 /\ UNCHANGED failures
              \/ Fails /\ UNCHANGED mapping
<1> DEFINE next == call[c].queued + 1
           wrote == call[c].wrote \/ mapping' # mapping
<1>1. /\ call[c].pc = "queueing" /\ call[c].queued # Len(call[c].batch)
      /\ Goes(c, [queued |-> next, wrote |-> wrote])
  BY DEF EnqueueEvent, At, AllQueued
<1> HIDE DEF next, wrote
<1>2. Only(c, {"queued", "wrote"}) /\ call'[c].queued = next /\ call'[c].wrote = wrote
  BY <1>1, GoesTo, NotMadeFields DEF FieldNames, Only
<1> QED
  BY <1>1, <1>2 DEF EnqueueEvent, next, wrote

LEMMA AnswersSets ==
    ASSUME TypedCalls, NEW c \in Call, NEW reply, Answers(c, reply)
    PROVE  Only(c, {"pc", "reply"}) /\ call'[c].pc = "answered" /\ call'[c].reply = reply
BY GoesTo, NotMadeFields DEF FieldNames, Only, Answers

LEMMA SubmitReplySets ==
    ASSUME TypedCalls, NEW c \in Call, SubmitReply(c)
    PROVE  /\ Only(c, {"pc", "reply"}) /\ call[c].pc = "queueing" /\ call'[c].pc = "answered"
           /\ call[c].queued = Len(call[c].batch)
           /\ call'[c].reply = EncodeSubmitNewEventsResponse
BY AnswersSets DEF SubmitReply, At, AllQueued

LEMMA RegisterSets ==
    ASSUME TypedCalls, NEW c \in Call, Register(c)
    PROVE  \E id \in EndpointId \ Used :
              /\ Only(c, {"pc", "id", "wrote"})
              /\ call[c].pc = "register" /\ call'[c].pc = "registered" /\ call'[c].id = id
              /\ \/ /\ endpoint' = Append(endpoint,
                          [id |-> id, url |-> call[c].p.url, secret |-> Sealed(Secret(id)),
                           enabled_events |-> call[c].p.enabled_events,
                           metadata |-> Omitted(call[c].p.metadata), status |-> "enabled"])
                    /\ call'[c].wrote = TRUE /\ UNCHANGED failures
                 \/ Fails /\ UNCHANGED endpoint /\ call'[c].wrote = call[c].wrote
<1> DEFINE row(id) == [id |-> id, url |-> call[c].p.url, secret |-> Sealed(Secret(id)),
                       enabled_events |-> call[c].p.enabled_events,
                       metadata |-> Omitted(call[c].p.metadata), status |-> "enabled"]
<1>1. PICK id \in EndpointId \ Used :
         \/ /\ endpoint' = Append(endpoint, row(id))
            /\ Goes(c, [pc |-> "registered", id |-> id, wrote |-> TRUE])
            /\ UNCHANGED failures
         \/ Fails /\ Goes(c, [pc |-> "registered", id |-> id]) /\ UNCHANGED endpoint
  BY DEF Register
<1>2. call[c].pc = "register"
  BY DEF Register, At
<1>3. ASSUME Goes(c, [pc |-> "registered", id |-> id, wrote |-> TRUE])
      PROVE  /\ Only(c, {"pc", "id", "wrote"}) /\ call'[c].pc = "registered"
             /\ call'[c].id = id /\ call'[c].wrote = TRUE
  BY <1>3, GoesTo, NotMadeFields DEF FieldNames, Only
<1>4. ASSUME Goes(c, [pc |-> "registered", id |-> id])
      PROVE  /\ Only(c, {"pc", "id", "wrote"}) /\ call'[c].pc = "registered"
             /\ call'[c].id = id /\ call'[c].wrote = call[c].wrote
  BY <1>4, GoesTo, NotMadeFields DEF FieldNames, Only
<1> HIDE DEF row
<1>5. /\ Only(c, {"pc", "id", "wrote"})
      /\ call[c].pc = "register" /\ call'[c].pc = "registered" /\ call'[c].id = id
      /\ \/ endpoint' = Append(endpoint, row(id)) /\ call'[c].wrote = TRUE /\ UNCHANGED failures
         \/ Fails /\ UNCHANGED endpoint /\ call'[c].wrote = call[c].wrote
  BY <1>1, <1>2, <1>3, <1>4
<1> QED
  BY <1>5 DEF row

LEMMA RegisterReplySets ==
    ASSUME TypedCalls, NEW c \in Call, RegisterReply(c)
    PROVE  /\ Only(c, {"pc", "reply"}) /\ call[c].pc = "registered" /\ call'[c].pc = "answered"
           /\ call'[c].reply = EncodeRegisterResponse(call[c].id, Secret(call[c].id))
BY AnswersSets DEF RegisterReply, At

RowsOf(id) == {i \in DOMAIN endpoint : endpoint[i].id = id}

LEMMA UpdateSets ==
    ASSUME TypedCalls, NEW c \in Call, Update(c)
    PROVE  /\ Only(c, {"pc", "wrote"}) /\ call[c].pc = "update" /\ call'[c].pc = "updated"
           /\ \/ /\ \E i \in RowsOf(call[c].p.id), n \in DOMAIN endpoint :
                       endpoint' = InsertAt(RemoveAt(endpoint, i), n, Updated(endpoint[i], call[c].p))
                 /\ call'[c].wrote = TRUE /\ UNCHANGED failures
              \/ /\ (RowsOf(call[c].p.id) = {} /\ UNCHANGED failures) \/ Fails
                 /\ UNCHANGED endpoint /\ call'[c].wrote = call[c].wrote
<1>1. /\ call[c].pc = "update"
      /\ \/ /\ \E i \in RowsOf(call[c].p.id), n \in DOMAIN endpoint :
                  endpoint' = InsertAt(RemoveAt(endpoint, i), n, Updated(endpoint[i], call[c].p))
            /\ Goes(c, [pc |-> "updated", wrote |-> TRUE])
            /\ UNCHANGED failures
         \/ /\ (RowsOf(call[c].p.id) = {} /\ UNCHANGED failures) \/ Fails
            /\ Goes(c, [pc |-> "updated"])
            /\ UNCHANGED endpoint
  BY DEF Update, At, RowsOf
<1>2. ASSUME Goes(c, [pc |-> "updated", wrote |-> TRUE])
      PROVE  Only(c, {"pc", "wrote"}) /\ call'[c].pc = "updated" /\ call'[c].wrote = TRUE
  BY <1>2, GoesTo, NotMadeFields DEF FieldNames, Only
<1>3. ASSUME Goes(c, [pc |-> "updated"])
      PROVE  Only(c, {"pc", "wrote"}) /\ call'[c].pc = "updated" /\ call'[c].wrote = call[c].wrote
  BY <1>3, GoesTo, NotMadeFields DEF FieldNames, Only
<1> QED
  BY <1>1, <1>2, <1>3

LEMMA UpdateReplySets ==
    ASSUME TypedCalls, NEW c \in Call, UpdateReply(c)
    PROVE  /\ Only(c, {"pc", "reply"}) /\ call[c].pc = "updated" /\ call'[c].pc = "answered"
           /\ call'[c].reply = EncodeUpdateResponse
BY AnswersSets DEF UpdateReply, At

LEMMA ListSets ==
    ASSUME TypedCalls, NEW c \in Call, List(c)
    PROVE  /\ Only(c, {"pc", "reply"}) /\ call[c].pc = "list" /\ call'[c].pc = "answered"
           /\ failures' = failures \/ Fails
<1>1. PICK reply : Answers(c, reply) /\ (failures' = failures \/ Fails)
  BY DEF List, Refuses
<1> QED
  BY <1>1, AnswersSets DEF List, At

LEMMA GetSets ==
    ASSUME TypedCalls, NEW c \in Call, Get(c)
    PROVE  /\ Only(c, {"pc", "reply"}) /\ call[c].pc = "get" /\ call'[c].pc = "answered"
           /\ failures' = failures \/ Fails
           /\ \/ call'[c].reply.status # 200
              \/ \E i \in RowsOf(call[c].p.id) :
                    call'[c].reply = EncodeGetWebhookEndpointByIDResponse(
                                        endpoint[i], Opened(endpoint[i].secret))
<1>1. CASE Refuses(c, 500) /\ (failures' = failures \/ Fails)
  BY <1>1, AnswersSets DEF Get, At, Refuses
<1>2. ASSUME NEW i \in RowsOf(call[c].p.id), UNCHANGED failures,
             Answers(c, EncodeGetWebhookEndpointByIDResponse(endpoint[i], Opened(endpoint[i].secret)))
      PROVE  /\ Only(c, {"pc", "reply"}) /\ call'[c].pc = "answered" /\ UNCHANGED failures
             /\ call'[c].reply = EncodeGetWebhookEndpointByIDResponse(
                                    endpoint[i], Opened(endpoint[i].secret))
  BY <1>2, AnswersSets
<1>3. \/ Refuses(c, 500) /\ (failures' = failures \/ Fails)
      \/ \E i \in RowsOf(call[c].p.id) :
            /\ Answers(c, EncodeGetWebhookEndpointByIDResponse(endpoint[i], Opened(endpoint[i].secret)))
            /\ UNCHANGED failures
  BY DEF Get, RowsOf
<1> QED
  BY <1>1, <1>2, <1>3 DEF Get, At

-----------------------------------------------------------------------------
(***************************************************************************)
(* The way of a call: what it holds at each place of its handler.          *)
(***************************************************************************)
\* The places in a method of the service.
Working == {"submit", "queueing", "register", "registered", "update", "updated", "list", "get"}
Unspoiled(s) == s.id = Nil /\ s.batch = <<>> /\ s.ids = <<>> /\ s.queued = 0

\* A call carries the payload of its request from Decode on, is in the method that the
\* request names, with a key that was there, and has written only from there.
CallOf(c) ==
    LET s == call[c]
    IN  /\ s.wrote \in BOOLEAN
        /\ s.pc \in {"none", "untold", "sent", "closed"} => s.p = Nil
        /\ s.p = Nil => Unspoiled(s)
        /\ s.p # Nil => s.p = Decoded(s.m) /\ ~PanicsIn(s.m)
        /\ s.pc \in {"decoded"} \cup Working => s.p # Nil
        /\ s.pc = "decoded" => Route(s.m) # "none"
        /\ s.pc \in {"decoded", "submit", "register"} => Unspoiled(s)
        /\ s.pc \in {"submit", "queueing"} => Route(s.m) = "submit"
        /\ s.pc \in {"register", "registered"} => Route(s.m) = "register"
        /\ s.pc \in {"update", "updated"} => Route(s.m) = "update"
        /\ s.pc = "list" => Route(s.m) = "list"
        /\ s.pc = "get" => Route(s.m) = "get"
        /\ s.pc \in Working => s.p.token \in keys
        /\ s.wrote => /\ s.p.token \in keys
                      /\ Accepted(c) \/ s.pc \in {"queueing", "registered", "updated", "cut"}
        /\ Accepted(c) => s.p # Nil
        /\ s.id # Nil => Route(s.m) = "register"

Control == TypedCalls /\ \A c \in Call : CallOf(c)

\* A call that no step touches stays as it is; keys are only added.
LEMMA CallKept ==
    ASSUME NEW d \in Call, CallOf(d), call'[d] = call[d], keys \subseteq keys'
    PROVE  CallOf(d)'
BY DEF CallOf, Accepted, At

LEMMA ControlInit == Init => Control
<1> SUFFICES ASSUME Init PROVE Control
  OBVIOUS
<1>1. TypedCalls
  BY DEF Init, TypedCalls
<1>2. ASSUME NEW c \in Call PROVE CallOf(c)
  <2>1. /\ call[c].pc = "none" /\ call[c].p = Nil /\ call[c].wrote = FALSE
        /\ Unspoiled(call[c])
    BY DEF Init, NotMade, Unspoiled
  <2> QED
    BY <2>1 DEF CallOf, Accepted, At, Working, Unspoiled
<1> QED
  BY <1>1, <1>2 DEF Control

\* What is left of a step once the other calls are put aside.
LEMMA ControlOf ==
    ASSUME Control, NEW c \in Call, NEW fields, Only(c, fields), keys \subseteq keys', CallOf(c)'
    PROVE  Control'
BY CallKept DEF Control, Only

LEMMA ControlTypeCommand ==
    ASSUME Control, NEW c \in Call, TypeCommand(c) PROVE Control'
<1>1. keys' = keys
  BY DEF TypeCommand, tables
<1>2. TypedCalls /\ CallOf(c)
  BY DEF Control
<1>3. /\ Only(c, {"pc", "client", "m"}) /\ call[c].pc = "none"
      /\ call'[c].pc \in {"untold", "sent"}
  BY <1>2, TypeCommandSets
<1>4. CallOf(c)'
  BY <1>1, <1>2, <1>3 DEF CallOf, Only, FieldNames, Accepted, At, Working, Unspoiled
<1> QED
  BY <1>1, <1>3, <1>4, ControlOf

LEMMA ControlSendRaw ==
    ASSUME Control, NEW c \in Call, SendRaw(c) PROVE Control'
<1>1. keys' = keys
  BY DEF SendRaw, tables
<1>2. TypedCalls /\ CallOf(c)
  BY DEF Control
<1>3. Only(c, {"pc", "m"}) /\ call[c].pc = "none" /\ call'[c].pc = "sent"
  BY <1>2, SendRawSets
<1>4. CallOf(c)'
  BY <1>1, <1>2, <1>3 DEF CallOf, Only, FieldNames, Accepted, At, Working, Unspoiled
<1> QED
  BY <1>1, <1>3, <1>4, ControlOf

LEMMA ControlDecode ==
    ASSUME Control, NEW c \in Call, Decode(c) PROVE Control'
<1>1. keys' = keys
  BY DEF Decode, tables
<1>2. TypedCalls /\ CallOf(c)
  BY DEF Control
<1>3. /\ Only(c, {"pc", "p", "reply"}) /\ call[c].pc = "sent"
      /\ \/ /\ call'[c].pc = "closed" /\ call'[c].p = call[c].p
            /\ call'[c].reply = call[c].reply
         \/ /\ call'[c].pc = "answered" /\ call'[c].p = call[c].p
            /\ call'[c].reply.status # 200
         \/ /\ call'[c].pc = "decoded" /\ call'[c].p = Decoded(call[c].m)
            /\ Decoded(call[c].m) # Nil /\ Route(call[c].m) # "none"
            /\ ~PanicsIn(call[c].m)
            /\ call'[c].reply = call[c].reply
  BY <1>2, DecodeSets
<1>4. call[c].p = Nil /\ Unspoiled(call[c]) /\ ~call[c].wrote /\ call[c].wrote \in BOOLEAN
  BY <1>2, <1>3 DEF CallOf, Accepted, At, Working
<1>5. /\ call'[c].wrote = FALSE /\ Unspoiled(call'[c]) /\ call'[c].m = call[c].m
  BY <1>3, <1>4 DEF Only, FieldNames, Unspoiled
<1>6. CallOf(c)'
  BY <1>1, <1>3, <1>4, <1>5 DEF CallOf, Accepted, At, Working, Unspoiled
<1> QED
  BY <1>1, <1>3, <1>6, ControlOf

LEMMA ControlAuthorise ==
    ASSUME Control, NEW c \in Call, Authorise(c) PROVE Control'
<1>1. keys' = keys
  BY DEF Authorise, tables
<1>2. TypedCalls /\ CallOf(c)
  BY DEF Control
<1>3. /\ Only(c, {"pc", "reply"}) /\ call[c].pc = "decoded"
      /\ \/ call[c].p.token \in keys /\ call'[c].pc = Route(call[c].m)
         \/ call'[c].pc = "answered" /\ call'[c].reply.status # 200
  BY <1>2, AuthoriseSets
<1>4. Route(call[c].m) \in {"submit", "register", "update", "list", "get"}
  BY <1>2, <1>3, Routes DEF CallOf
<1>5. CallOf(c)'
  BY <1>1, <1>2, <1>3, <1>4 DEF CallOf, Only, FieldNames, Accepted, At, Working, Unspoiled
<1> QED
  BY <1>1, <1>3, <1>5, ControlOf

LEMMA ControlSubmit ==
    ASSUME Control, NEW c \in Call, InsertEvents(c) \/ EnqueueEvent(c) \/ SubmitReply(c)
    PROVE  Control'
<1>1. keys' = keys
  BY DEF InsertEvents, EnqueueEvent, SubmitReply, tables
<1>2. TypedCalls /\ CallOf(c)
  BY DEF Control
<1>3. CASE InsertEvents(c)
  <2>1. /\ Only(c, {"pc", "batch", "ids", "wrote"}) /\ call[c].pc = "submit"
        /\ call'[c].pc = "queueing" /\ call'[c].wrote \in BOOLEAN
    BY <1>2, <1>3, InsertEventsSets DEF CallOf
  <2>2. CallOf(c)'
    BY <1>1, <1>2, <2>1 DEF CallOf, Only, FieldNames, Accepted, At, Working
  <2> QED
    BY <1>1, <2>1, <2>2, ControlOf
<1>4. CASE EnqueueEvent(c)
  <2>1. /\ Only(c, {"queued", "wrote"}) /\ call[c].pc = "queueing"
        /\ call'[c].wrote \in BOOLEAN
    BY <1>2, <1>4, EnqueueEventSets DEF CallOf
  <2>2. CallOf(c)'
    BY <1>1, <1>2, <2>1 DEF CallOf, Only, FieldNames, Accepted, At, Working
  <2> QED
    BY <1>1, <2>1, <2>2, ControlOf
<1>5. CASE SubmitReply(c)
  <2>1. /\ Only(c, {"pc", "reply"}) /\ call[c].pc = "queueing"
        /\ call'[c].pc = "answered" /\ call'[c].reply.status = 200
    BY <1>2, <1>5, SubmitReplySets DEF EncodeSubmitNewEventsResponse, Ok
  <2>2. CallOf(c)'
    BY <1>1, <1>2, <2>1 DEF CallOf, Only, FieldNames, Accepted, At, Working, Unspoiled
  <2> QED
    BY <1>1, <2>1, <2>2, ControlOf
<1> QED
  BY <1>3, <1>4, <1>5

LEMMA ControlRegister ==
    ASSUME Control, NEW c \in Call, Register(c) \/ RegisterReply(c)
    PROVE  Control'
<1>1. keys' = keys
  BY DEF Register, RegisterReply, tables
<1>2. TypedCalls /\ CallOf(c)
  BY DEF Control
<1>3. CASE Register(c)
  <2>1. /\ Only(c, {"pc", "id", "wrote"}) /\ call[c].pc = "register"
        /\ call'[c].pc = "registered" /\ call'[c].wrote \in BOOLEAN
    BY <1>2, <1>3, RegisterSets DEF CallOf
  <2>2. CallOf(c)'
    BY <1>1, <1>2, <2>1 DEF CallOf, Only, FieldNames, Accepted, At, Working
  <2> QED
    BY <1>1, <2>1, <2>2, ControlOf
<1>4. CASE RegisterReply(c)
  <2>1. /\ Only(c, {"pc", "reply"}) /\ call[c].pc = "registered"
        /\ call'[c].pc = "answered" /\ call'[c].reply.status = 200
    <3>1. \A id, secret : EncodeRegisterResponse(id, secret).status = 200
      BY DEF EncodeRegisterResponse, Ok
    <3> QED
      BY <1>2, <1>4, <3>1, RegisterReplySets
  <2>2. CallOf(c)'
    BY <1>1, <1>2, <2>1 DEF CallOf, Only, FieldNames, Accepted, At, Working, Unspoiled
  <2> QED
    BY <1>1, <2>1, <2>2, ControlOf
<1> QED
  BY <1>3, <1>4

LEMMA ControlUpdate ==
    ASSUME Control, NEW c \in Call, Update(c) \/ UpdateReply(c)
    PROVE  Control'
<1>1. keys' = keys
  BY DEF Update, UpdateReply, tables
<1>2. TypedCalls /\ CallOf(c)
  BY DEF Control
<1>3. CASE Update(c)
  <2>1. /\ Only(c, {"pc", "wrote"}) /\ call[c].pc = "update"
        /\ call'[c].pc = "updated" /\ call'[c].wrote \in BOOLEAN
    BY <1>2, <1>3, UpdateSets DEF CallOf
  <2>2. CallOf(c)'
    BY <1>1, <1>2, <2>1 DEF CallOf, Only, FieldNames, Accepted, At, Working, Unspoiled
  <2> QED
    BY <1>1, <2>1, <2>2, ControlOf
<1>4. CASE UpdateReply(c)
  <2>1. /\ Only(c, {"pc", "reply"}) /\ call[c].pc = "updated"
        /\ call'[c].pc = "answered" /\ call'[c].reply.status = 200
    BY <1>2, <1>4, UpdateReplySets DEF EncodeUpdateResponse, Ok
  <2>2. CallOf(c)'
    BY <1>1, <1>2, <2>1 DEF CallOf, Only, FieldNames, Accepted, At, Working, Unspoiled
  <2> QED
    BY <1>1, <2>1, <2>2, ControlOf
<1> QED
  BY <1>3, <1>4

LEMMA ControlRead ==
    ASSUME Control, NEW c \in Call, List(c) \/ Get(c)
    PROVE  Control'
<1>1. keys' = keys
  BY DEF List, Get, tables
<1>2. TypedCalls /\ CallOf(c)
  BY DEF Control
<1>3. /\ Only(c, {"pc", "reply"}) /\ call[c].pc \in {"list", "get"}
      /\ call'[c].pc = "answered"
  BY <1>2, ListSets, GetSets
<1>4. ~call[c].wrote
  BY <1>2, <1>3 DEF CallOf, Accepted, At
<1>5. CallOf(c)'
  BY <1>1, <1>2, <1>3, <1>4 DEF CallOf, Only, FieldNames, Accepted, At, Working, Unspoiled
<1> QED
  BY <1>1, <1>3, <1>5, ControlOf

LEMMA ControlCrash == ASSUME Control, Crash PROVE Control'
<1>1. keys' = keys
  BY DEF Crash, tables
<1>2. TypedCalls' /\ \A c \in Call :
        /\ call'[c].pc = IF call[c].pc \in {"none", "untold", "answered", "closed"}
                         THEN call[c].pc ELSE "cut"
        /\ \A f \in FieldNames \ {"pc"} : call'[c][f] = call[c][f]
  BY CrashCuts, NotMadeFields DEF Control
<1>3. ASSUME NEW c \in Call PROVE CallOf(c)'
  <2>1. CallOf(c)
    BY DEF Control
  <2> QED
    BY <1>1, <1>2, <2>1 DEF CallOf, FieldNames, Accepted, At, Working, Unspoiled
<1> QED
  BY <1>2, <1>3 DEF Control

LEMMA ControlCreateAPIKey ==
    ASSUME Control, NEW k \in ApiKey, CreateAPIKey(k)
    PROVE  Control'
<1>1. call' = call /\ keys \subseteq keys'
  BY DEF CreateAPIKey
<1> QED
  BY <1>1, CallKept DEF Control, TypedCalls

LEMMA ControlStep == Control /\ [Next]_vars => Control'
<1> SUFFICES ASSUME Control, [Next]_vars PROVE Control'
  OBVIOUS
<1>1. CASE UNCHANGED vars
  BY <1>1, CallKept DEF vars, Control, TypedCalls
<1> QED
  BY <1>1, ControlTypeCommand, ControlSendRaw, ControlDecode, ControlAuthorise, ControlSubmit,
     ControlRegister, ControlUpdate, ControlRead, ControlCrash, ControlCreateAPIKey
  DEF Next, Handler

\* Whoever is refused, or cut off by a panic, has left nothing in the tables, and what
\* changed them came with a key that was handed out, whatever fails or dies.
THEOREM OnlyAcceptedCallsWrite == Spec => []OnlyAcceptedWrite
<1>1. Control => OnlyAcceptedWrite
  BY DEF Control, CallOf, OnlyAcceptedWrite, Working
<1> QED
  BY <1>1, ControlInit, ControlStep, PTL DEF Spec

-----------------------------------------------------------------------------
(***************************************************************************)
(* What stays once it is there: the request, the payload and the id of a   *)
(* call, and the batch it queues.                                          *)
(***************************************************************************)
\* The places of a call that has sent nothing.
Silent == {"none", "untold"}

\* Ids, payloads and requests are set once; batches grow only in SubmitNewEvents.
Stays(d) ==
    /\ call[d].id # Nil => call'[d].id = call[d].id
    /\ call[d].p # Nil => call'[d].p = call[d].p /\ call'[d].m = call[d].m
    /\ \/ TypeCommand(d) \/ SendRaw(d)
       \/ /\ call'[d].m = call[d].m /\ call'[d].client = call[d].client
          /\ call'[d].pc \notin Silent => call[d].pc \notin Silent
    /\ \/ InsertEvents(d) \/ EnqueueEvent(d)
       \/ /\ call'[d].batch = call[d].batch /\ call'[d].ids = call[d].ids
          /\ call'[d].queued = call[d].queued
    /\ Register(d) \/ call'[d].id = call[d].id

LEMMA OthersStay ==
    ASSUME NEW d \in Call, call'[d] = call[d] PROVE Stays(d)
BY DEF Stays

LEMMA WritersStay ==
    ASSUME Control, NEW c \in Call, TypeCommand(c) \/ SendRaw(c) \/ Decode(c)
    PROVE  \A d \in Call : Stays(d)
<1>1. TypedCalls /\ CallOf(c)
  BY DEF Control
<1>2. CASE TypeCommand(c)
  <2>1. Only(c, {"pc", "client", "m"}) /\ call[c].pc = "none"
    BY <1>1, <1>2, TypeCommandSets
  <2>2. Stays(c)
    BY <1>1, <1>2, <2>1 DEF Stays, CallOf, Only, FieldNames
  <2> QED
    BY <2>1, <2>2, OthersStay DEF Only
<1>3. CASE SendRaw(c)
  <2>1. Only(c, {"pc", "m"}) /\ call[c].pc = "none"
    BY <1>1, <1>3, SendRawSets
  <2>2. Stays(c)
    BY <1>1, <1>3, <2>1 DEF Stays, CallOf, Only, FieldNames
  <2> QED
    BY <2>1, <2>2, OthersStay DEF Only
<1>4. CASE Decode(c)
  <2>1. Only(c, {"pc", "p", "reply"}) /\ call[c].pc = "sent"
    BY <1>1, <1>4, DecodeSets
  <2>2. Stays(c)
    BY <1>1, <1>4, <2>1 DEF Stays, CallOf, Only, FieldNames, Silent
  <2> QED
    BY <2>1, <2>2, OthersStay DEF Only
<1> QED
  BY <1>2, <1>3, <1>4

LEMMA HandlersStay ==
    ASSUME Control, NEW c \in Call, Handler(c)
    PROVE  \A d \in Call : Stays(d)
<1>1. TypedCalls /\ CallOf(c)
  BY DEF Control
<1>2. ASSUME Only(c, {"pc", "wrote", "reply"}), call[c].pc \in {"decoded"} \cup Working
      PROVE  \A d \in Call : Stays(d)
  <2>1. call[c].pc \notin Silent
    BY <1>2 DEF Working, Silent
  <2>2. Stays(c)
    BY <1>1, <1>2, <2>1 DEF Stays, Only, FieldNames
  <2> QED
    BY <1>2, <2>2, OthersStay DEF Only
<1>3. ASSUME Only(c, {"pc", "reply"}) \/ Only(c, {"pc", "wrote"})
      PROVE  Only(c, {"pc", "wrote", "reply"})
  BY <1>3 DEF Only
<1>4. CASE \/ Authorise(c) \/ SubmitReply(c) \/ RegisterReply(c) \/ Update(c) \/ UpdateReply(c)
           \/ List(c) \/ Get(c)
  <2>1. Only(c, {"pc", "reply"}) \/ Only(c, {"pc", "wrote"})
    BY <1>1, <1>4, AuthoriseSets, SubmitReplySets, RegisterReplySets, UpdateSets, UpdateReplySets,
       ListSets, GetSets
  <2>2. call[c].pc \in {"decoded"} \cup Working
    BY <1>1, <1>4, AuthoriseSets, SubmitReplySets, RegisterReplySets, UpdateSets, UpdateReplySets,
       ListSets, GetSets DEF Working
  <2> QED
    BY <1>2, <1>3, <2>1, <2>2
<1>5. CASE InsertEvents(c)
  <2>1. Only(c, {"pc", "batch", "ids", "wrote"}) /\ call[c].pc = "submit"
    BY <1>1, <1>5, InsertEventsSets
  <2>2. Stays(c)
    BY <1>1, <1>5, <2>1 DEF Stays, Only, FieldNames, Silent
  <2> QED
    BY <2>1, <2>2, OthersStay DEF Only
<1>6. CASE EnqueueEvent(c)
  <2>1. Only(c, {"queued", "wrote"}) /\ call[c].pc = "queueing"
    BY <1>1, <1>6, EnqueueEventSets
  <2>2. Stays(c)
    BY <1>1, <1>6, <2>1 DEF Stays, Only, FieldNames, Silent
  <2> QED
    BY <2>1, <2>2, OthersStay DEF Only
<1>7. CASE Register(c)
  <2>1. Only(c, {"pc", "id", "wrote"}) /\ call[c].pc = "register"
    BY <1>1, <1>7, RegisterSets
  <2>2. Stays(c)
    BY <1>1, <1>7, <2>1 DEF Stays, Only, FieldNames, Silent, CallOf, Unspoiled
  <2> QED
    BY <2>1, <2>2, OthersStay DEF Only
<1> QED
  BY <1>4, <1>5, <1>6, <1>7, WritersStay DEF Handler

LEMMA EveryCallStays == ASSUME Control, [Next]_vars PROVE \A d \in Call : Stays(d)
<1>1. CASE Crash
  <2>1. \A c \in Call :
           /\ call'[c].pc \notin Silent => call[c].pc \notin Silent
           /\ \A f \in FieldNames \ {"pc"} : call'[c][f] = call[c][f]
    BY <1>1, CrashCuts, NotMadeFields DEF Control, Silent
  <2> QED
    BY <2>1 DEF Stays, FieldNames
<1>2. CASE call' = call
  BY <1>2, OthersStay
<1> QED
  BY <1>1, <1>2, WritersStay, HandlersStay DEF Next, vars, CreateAPIKey

\* Whoever acts moves its own call and no other, and had not been answered.
LEMMA ActorsMove ==
    ASSUME TypedCalls, NEW d \in Call, TypeCommand(d) \/ SendRaw(d) \/ Handler(d)
    PROVE  /\ call[d].pc # "answered"
           /\ \A c \in Call : c # d => call'[c] = call[c]
<1>1. ASSUME NEW F, Only(d, F) PROVE \A c \in Call : c # d => call'[c] = call[c]
  BY <1>1 DEF Only
<1>2. CASE TypeCommand(d)
  BY <1>1, <1>2, TypeCommandSets
<1>3. CASE SendRaw(d)
  BY <1>1, <1>3, SendRawSets
<1>4. CASE Decode(d)
  BY <1>1, <1>4, DecodeSets
<1>5. CASE Authorise(d)
  BY <1>1, <1>5, AuthoriseSets
<1>6. CASE InsertEvents(d)
  BY <1>1, <1>6, InsertEventsSets
<1>7. CASE EnqueueEvent(d)
  BY <1>1, <1>7, EnqueueEventSets
<1>8. CASE Register(d)
  BY <1>1, <1>8, RegisterSets
<1>9. CASE Update(d)
  BY <1>1, <1>9, UpdateSets
<1>10. CASE SubmitReply(d) \/ RegisterReply(d)
  BY <1>1, <1>10, SubmitReplySets, RegisterReplySets
<1>11. CASE UpdateReply(d) \/ List(d) \/ Get(d)
  BY <1>1, <1>11, UpdateReplySets, ListSets, GetSets
<1> QED
  BY <1>2, <1>3, <1>4, <1>5, <1>6, <1>7, <1>8, <1>9, <1>10, <1>11 DEF Handler

\* What a call does is its own, or a crash.
LEMMA OneMoves ==
    ASSUME Control, [Next]_vars, NEW c \in Call
    PROVE  call'[c] = call[c] \/ Crash \/ TypeCommand(c) \/ SendRaw(c) \/ Handler(c)
<1>1. TypedCalls
  BY DEF Control
<1>2. ASSUME NEW d \in Call, d # c, TypeCommand(d) \/ SendRaw(d) \/ Handler(d)
      PROVE  call'[c] = call[c]
  BY <1>1, <1>2, ActorsMove
<1> QED
  BY <1>2 DEF Next, CreateAPIKey, vars

\* A call that has been answered has nothing left to do.
LEMMA AnsweredIsOver ==
    ASSUME Control, [Next]_vars, NEW c \in Call, call[c].pc = "answered"
    PROVE  call'[c].pc = "answered" /\ call'[c].reply = call[c].reply
<1>1. TypedCalls
  BY DEF Control
<1>2. CASE Crash
  BY <1>1, <1>2, CrashCuts, NotMadeFields DEF FieldNames
<1>3. ~(TypeCommand(c) \/ SendRaw(c) \/ Handler(c))
  BY <1>1, ActorsMove
<1> QED
  BY <1>2, <1>3, OneMoves

\* A call is accepted once, by a reply of its own.
LEMMA AcceptedOnce ==
    ASSUME Control, [Next]_vars, NEW c \in Call, Accepted(c)', ~Accepted(c)
    PROVE  SubmitReply(c) \/ RegisterReply(c) \/ UpdateReply(c) \/ List(c) \/ Get(c)
<1>1. TypedCalls /\ CallOf(c)
  BY DEF Control
<1>2. CASE call'[c] = call[c]
  BY <1>2 DEF Accepted, At
<1>3. CASE Crash
  <2>1. /\ call'[c].pc = IF call[c].pc \in {"none", "untold", "answered", "closed"}
                         THEN call[c].pc ELSE "cut"
        /\ call'[c].reply = call[c].reply
    BY <1>1, <1>3, CrashCuts, NotMadeFields DEF FieldNames
  <2> QED
    BY <2>1 DEF Accepted, At
<1>4. CASE TypeCommand(c) \/ SendRaw(c)
  BY <1>1, <1>4, TypeCommandSets, SendRawSets DEF Accepted, At
<1>5. CASE Decode(c)
  BY <1>1, <1>5, DecodeSets DEF Accepted, At
<1>6. CASE Authorise(c)
  <2>1. call'[c].pc = Route(call[c].m) \/ call'[c].reply.status # 200
    BY <1>1, <1>6, AuthoriseSets
  <2> QED
    BY <2>1, Routes DEF Accepted, At
<1>7. CASE InsertEvents(c) \/ EnqueueEvent(c) \/ Register(c) \/ Update(c)
  <2>1. \/ call'[c].pc \in {"queueing", "registered", "updated"}
        \/ Only(c, {"queued", "wrote"})
    BY <1>1, <1>7, InsertEventsSets, EnqueueEventSets, RegisterSets, UpdateSets
  <2> QED
    BY <2>1 DEF Accepted, At, Only, FieldNames
<1> QED
  BY <1>2, <1>3, <1>4, <1>5, <1>6, <1>7, OneMoves DEF Handler

-----------------------------------------------------------------------------
(***************************************************************************)
(* The requests.                                                           *)
(***************************************************************************)
\* What the generated client asks for is what the server reads.
LEMMA EncodedRoute ==
    ASSUME NEW p, NEW method \in {"submit", "register", "update", "list", "get"}
    PROVE  /\ Route(Encoded(method, p)) = method
           /\ method \in {"update", "get"} => Encoded(method, p).path = <<"endpoints", p.id>>
           /\ method \notin {"update", "get"} => Len(Encoded(method, p).path) = 1
<1>1. CASE method = "submit"
  BY <1>1 DEF Route, Encoded, EncodeSubmitNewEventsRequest, Request
<1>2. CASE method = "register"
  BY <1>2 DEF Route, Encoded, EncodeRegisterRequest, Request
<1>3. CASE method = "update"
  BY <1>3 DEF Route, Single, Encoded, EncodeUpdateRequest, Request
<1>4. CASE method = "list"
  BY <1>4 DEF Route, Single, Encoded, EncodeListWebhookEndpointRequest, Request
<1>5. CASE method = "get"
  BY <1>5 DEF Route, Single, Encoded, EncodeGetWebhookEndpointByIDRequest, Request
<1> QED
  BY <1>1, <1>2, <1>3, <1>4, <1>5

\* A batch that can be sorted.
Sortable(es) ==
    \E n \in Nat : DOMAIN es = 1 .. n /\ \A i \in 1 .. n : Priority(es[i]) \in Int

SortableOnce(m) ==
    Route(m) = "submit" /\ Decoded(m) # Nil /\ ~PanicsIn(m) => Sortable(Decoded(m).events)

\* The events of a list of which none is null can be sorted.
LEMMA ListsSort ==
    ASSUME NEW es, EventList(es), \A i \in DOMAIN es : es[i] # Nil
    PROVE  Sortable(es)
<1>1. es \in Seq(Range(es))
  BY DEF EventList, IsList
<1>2. Len(es) \in Nat /\ DOMAIN es = 1 .. Len(es)
  BY <1>1, LenProperties
<1>3. \A i \in DOMAIN es : Priority(es[i]) \in Int
  BY DEF EventList, Priority
<1> QED
  BY <1>2, <1>3 DEF Sortable

LEMMA DecodedEvents ==
    ASSUME NEW m, Route(m) = "submit", Decoded(m) # Nil
    PROVE  /\ m.body \notin {Nil, Malformed} /\ m.body.events # Nil
           /\ Decoded(m).events = m.body.events
           /\ ~PanicsIn(m) => \A i \in DOMAIN m.body.events : m.body.events[i] # Nil
<1>1. Decoded(m) = DecodeSubmitNewEventsRequest(m)
  BY DEF Decoded
<1>2. Readable(m) /\ ValidateSubmitNewEventsRequestBody(m.body)
  BY <1>1 DEF DecodeSubmitNewEventsRequest
<1>3. Decoded(m).events = m.body.events
  BY <1>1, <1>2 DEF DecodeSubmitNewEventsRequest
<1> QED
  BY <1>2, <1>3 DEF Readable, ValidateSubmitNewEventsRequestBody, PanicsIn

LEMMA RawSortable == ASSUME NEW m \in RawRequest PROVE SortableOnce(m)
<1> SUFFICES ASSUME Route(m) = "submit", Decoded(m) # Nil, ~PanicsIn(m)
             PROVE  Sortable(Decoded(m).events)
  BY DEF SortableOnce
<1> QED
  BY DecodedEvents, RawAssumption, ListsSort

LEMMA CommandSortable ==
    ASSUME NEW t \in Command, Built(t) # Nil
    PROVE  SortableOnce(Encoded(t.method, Built(t)))
<1> DEFINE p == Built(t)
           m == Encoded(t.method, p)
<1>1. t.method \in {"submit", "register", "update", "list", "get"}
  BY CommandAssumption
<1>2. Route(m) = t.method
  BY <1>1, EncodedRoute
<1> SUFFICES ASSUME Route(m) = "submit", Decoded(m) # Nil, ~PanicsIn(m)
             PROVE  Sortable(Decoded(m).events)
  BY DEF SortableOnce
<1>3. t.method = "submit" /\ p = BuildSubmitNewEventsPayload(t.body, t.token)
  BY <1>2 DEF Built
<1>4. /\ t.body # Malformed /\ t.body.events # Nil
      /\ p = [token |-> t.token,
              events |-> [i \in DOMAIN t.body.events |-> Typed(t.body.events[i])]]
  BY <1>3 DEF BuildSubmitNewEventsPayload
<1>5. EventList(t.body.events) /\ Nil \notin Range(t.body.events)
  BY <1>3, <1>4, CommandAssumption
<1>6. PICK n \in Nat : DOMAIN t.body.events = 1 .. n
                       /\ \A i \in 1 .. n : Priority(t.body.events[i]) \in Int
  BY <1>5, ListsSort DEF Sortable, Range
<1>7. m.body = [events |-> p.events]
  BY <1>3 DEF Encoded, EncodeSubmitNewEventsRequest, Request
<1>8. Decoded(m).events = p.events
  BY <1>7, DecodedEvents
<1> HIDE DEF p, m
<1>9. /\ DOMAIN p.events = 1 .. n
      /\ \A i \in 1 .. n : p.events[i] = Typed(t.body.events[i])
  BY <1>4, <1>6
<1>10. \A e : Priority(Typed(e)) = Priority(e)
  BY DEF Priority, Typed
<1> QED
  BY <1>6, <1>8, <1>9, <1>10 DEF Sortable

SentOf(c) == call[c].pc \notin Silent => SortableOnce(call[c].m)

LEMMA SentStep ==
    ASSUME Control, \A c \in Call : SentOf(c), [Next]_vars
    PROVE  \A c \in Call : SentOf(c)'
<1> SUFFICES ASSUME NEW c \in Call PROVE SentOf(c)'
  OBVIOUS
<1>1. TypedCalls
  BY DEF Control
<1>2. CASE TypeCommand(c)
  <2>1. \/ call'[c].pc = "untold"
        \/ \E t \in Command : Built(t) # Nil /\ call'[c].m = Encoded(t.method, Built(t))
    BY <1>1, <1>2, TypeCommandSets
  <2> QED
    BY <2>1, CommandSortable DEF SentOf, Silent
<1>3. CASE SendRaw(c)
  BY <1>1, <1>3, SendRawSets, RawSortable DEF SentOf
<1>4. CASE /\ call'[c].m = call[c].m
           /\ call'[c].pc \notin Silent => call[c].pc \notin Silent
  BY <1>4 DEF SentOf
<1> QED
  BY <1>2, <1>3, <1>4, EveryCallStays DEF Stays

-----------------------------------------------------------------------------
(***************************************************************************)
(* Batches, rows of events and jobs.                                       *)
(***************************************************************************)
\* Every sequence is a list.
LEMMA SeqIsList == ASSUME NEW S, NEW s \in Seq(S) PROVE IsList(s)
<1>1. Len(s) \in Nat /\ s \in [1 .. Len(s) -> S] /\ DOMAIN s = 1 .. Len(s)
  BY LenProperties
<1>2. s \in [1 .. Len(s) -> Range(s)]
  BY <1>1 DEF Range
<1> QED
  BY <1>1, <1>2, SeqDef DEF IsList

LEMMA ListFacts ==
    ASSUME NEW s, IsList(s)
    PROVE  /\ Len(s) \in Nat /\ DOMAIN s = 1 .. Len(s)
           /\ \A i \in DOMAIN s : s[i] \in Range(s)
BY LenProperties DEF IsList, Range

LEMMA FunctionIsList ==
    ASSUME NEW s, NEW n \in Nat, s = [i \in 1 .. n |-> s[i]]
    PROVE  IsList(s) /\ Len(s) = n /\ DOMAIN s = 1 .. n
<1>1. s \in [1 .. n -> Range(s)]
  BY DEF Range
<1>2. s \in Seq(Range(s))
  BY <1>1, SeqDef
<1>3. DOMAIN s = 1 .. n /\ DOMAIN s = 1 .. Len(s) /\ Len(s) \in Nat
  BY <1>2, LenProperties
<1> QED
  BY <1>2, <1>3 DEF IsList

LEMMA ListsJoin ==
    ASSUME NEW s, NEW t, IsList(s), IsList(t)
    PROVE  /\ IsList(s \o t) /\ Len(s \o t) = Len(s) + Len(t)
           /\ \A i \in DOMAIN s : (s \o t)[i] = s[i]
           /\ \A i \in DOMAIN t : (s \o t)[Len(s) + i] = t[i]
<1> DEFINE S == Range(s) \cup Range(t)
<1>1. s \in Seq(S) /\ t \in Seq(S)
  BY SeqMonotonic DEF IsList
<1>2. /\ s \o t \in Seq(S) /\ Len(s \o t) = Len(s) + Len(t)
      /\ \A i \in 1 .. Len(s) + Len(t) : (s \o t)[i] =
                     IF i <= Len(s) THEN s[i] ELSE t[i - Len(s)]
  BY <1>1, ConcatProperties
<1>3. /\ Len(s) \in Nat /\ DOMAIN s = 1 .. Len(s)
      /\ Len(t) \in Nat /\ DOMAIN t = 1 .. Len(t)
  BY ListFacts
<1>4. \A i \in DOMAIN s : i \in 1 .. Len(s) + Len(t) /\ i <= Len(s)
  BY <1>3
<1>5. \A i \in DOMAIN t : /\ Len(s) + i \in 1 .. Len(s) + Len(t) /\ ~(Len(s) + i <= Len(s))
                          /\ Len(s) + i - Len(s) = i
  BY <1>3
<1>6. IsList(s \o t)
  BY <1>2, SeqIsList
<1>7. \A i \in DOMAIN s : (s \o t)[i] = s[i]
  BY <1>2, <1>4
<1>8. \A i \in DOMAIN t : (s \o t)[Len(s) + i] = t[i]
  BY <1>2, <1>5
<1> QED
  BY <1>2, <1>6, <1>7, <1>8

LEMMA ListAppends ==
    ASSUME NEW s, NEW x, IsList(s)
    PROVE  /\ IsList(Append(s, x)) /\ Len(Append(s, x)) = Len(s) + 1
           /\ \A i \in DOMAIN s : Append(s, x)[i] = s[i]
           /\ Append(s, x)[Len(s) + 1] = x
<1> DEFINE S == Range(s) \cup {x}
<1>1. s \in Seq(S)
  BY SeqMonotonic DEF IsList
<1>2. /\ Append(s, x) \in Seq(S) /\ Len(Append(s, x)) = Len(s) + 1
      /\ \A i \in 1 .. Len(s) : Append(s, x)[i] = s[i]
      /\ Append(s, x)[Len(s) + 1] = x
  BY <1>1, AppendProperties
<1> QED
  BY <1>2, SeqIsList, ListFacts

\* The row of the k-th event of a call.
Entry(c, k) ==
    [type |-> call[c].p.events[k].type, priority |-> Priority(call[c].p.events[k]),
     content |-> <<c, k>>]

\* The order in which the rows of a batch are queued.
Ahead(a, b) == a.priority > b.priority \/ (a.priority = b.priority /\ a.content[2] < b.content[2])

\* The batch of a call holds each of its events once, the important ones first.
LEMMA BatchSorts ==
    ASSUME NEW c, Sortable(call[c].p.events)
    PROVE  /\ IsList(Batch(c)) /\ DOMAIN Batch(c) = DOMAIN call[c].p.events
           /\ \A i \in DOMAIN Batch(c) :
                 \E k \in DOMAIN call[c].p.events : Batch(c)[i] = Entry(c, k)
           /\ \A k \in DOMAIN call[c].p.events :
                 \E i \in DOMAIN Batch(c) : Batch(c)[i] = Entry(c, k)
           /\ \A i, j \in DOMAIN Batch(c) : i < j => Ahead(Batch(c)[i], Batch(c)[j])
<1> DEFINE es == call[c].p.events
           o == Order(es)
<1>1. PICK n \in Nat : DOMAIN es = 1 .. n /\ \A i \in 1 .. n : Priority(es[i]) \in Int
  BY DEF Sortable
<1>2. /\ o \in [1 .. n -> 1 .. n]
      /\ \A i, j \in 1 .. n : i < j => Before(es, o[i], o[j])
      /\ \A k \in 1 .. n : \E i \in 1 .. n : o[i] = k
  BY <1>1, OrderSorts
<1>3. Batch(c) = [k \in 1 .. n |-> Entry(c, o[k])]
  <2>1. DOMAIN o = 1 .. n
    BY <1>2
  <2> QED
    BY <2>1 DEF Batch, Entry
<1> HIDE DEF o
<1>4. IsList(Batch(c)) /\ DOMAIN Batch(c) = 1 .. n
  BY <1>3, FunctionIsList
<1>5. \A i \in 1 .. n : Batch(c)[i] = Entry(c, o[i]) /\ o[i] \in 1 .. n
  BY <1>2, <1>3
<1>6. \A i, j \in 1 .. n : Before(es, i, j) => Ahead(Entry(c, i), Entry(c, j))
  BY DEF Before, Ahead, Entry
<1>7. ASSUME NEW i \in 1 .. n, NEW j \in 1 .. n, i < j
      PROVE  Ahead(Batch(c)[i], Batch(c)[j])
  <2> HIDE DEF es
  <2>1. Before(es, o[i], o[j])
    BY <1>2, <1>7
  <2>2. Ahead(Entry(c, o[i]), Entry(c, o[j]))
    BY <1>5, <1>6, <2>1
  <2> QED
    BY <1>5, <2>2
<1>8. \A k \in 1 .. n : \E i \in 1 .. n : Batch(c)[i] = Entry(c, k)
  BY <1>2, <1>5
<1> QED
  BY <1>1, <1>4, <1>5, <1>7, <1>8

\* The call of an entry.
LEMMA EntryIsOf == \A c, k : Entry(c, k).content[1] = c /\ Entry(c, k).content = <<c, k>>
BY DEF Entry

\* What a call holds of its batch: the sorted events, as many ids, and how many it queued.
BatchOf(c) ==
    LET s == call[c]
    IN  /\ IsList(s.batch) /\ IsList(s.ids)
        /\ Len(s.ids) = Len(s.batch) /\ s.queued \in 0 .. Len(s.batch)
        /\ s.batch # <<>> \/ s.pc = "queueing" => s.p # Nil /\ s.batch = Batch(c)
        /\ Accepted(c) /\ Route(s.m) = "submit" =>
              s.batch = Batch(c) /\ s.queued = Len(s.batch)
        /\ s.batch # <<>> => Route(s.m) = "submit"

\* An id that is not 0 is that of the row of its event, and of no other.
IdsOf(c) ==
    LET s == call[c]
    IN  /\ \A i \in DOMAIN s.ids : s.ids[i] \in 0 .. Len(events)
        /\ \A i \in DOMAIN s.ids : s.ids[i] # 0 => events[s.ids[i]] = s.batch[i]
        /\ \A i, k \in DOMAIN s.ids : s.ids[i] = s.ids[k] /\ s.ids[i] # 0 => i = k
        /\ failures = 0 => \A i \in DOMAIN s.ids : s.ids[i] # 0

\* The job of a row is one that its call has queued.
JobIsOfItsCall(j) ==
    mapping[j].event # 0 =>
        LET row == events[mapping[j].event]
            c == row.content[1]
        IN  /\ c \in Call /\ mapping[j].type = row.type
            /\ \E i \in 1 .. call[c].queued : call[c].ids[i] = mapping[j].event

\* Each row has one job at most; when nothing failed, all that was queued are there.
Queued ==
    /\ IsList(events) /\ IsList(mapping)
    /\ \A j \in DOMAIN mapping : mapping[j].event \in 0 .. Len(events) /\ JobIsOfItsCall(j)
    /\ \A j, k \in DOMAIN mapping :
          mapping[j].event = mapping[k].event /\ mapping[j].event # 0 => j = k
    /\ failures = 0 => \A c \in Call : \A i \in 1 .. call[c].queued :
                           \E j \in DOMAIN mapping : mapping[j].event = call[c].ids[i]

\* The inductive invariant of SubmitNewEvents.
BatchInv ==
    /\ failures \in 0 .. MaxFailures
    /\ \A c \in Call : SentOf(c) /\ BatchOf(c) /\ IdsOf(c)
    /\ Queued /\ QueuedInOrder

\* Failures are counted and never forgotten.
LEMMA FailuresGrow ==
    ASSUME failures \in 0 .. MaxFailures, [Next]_vars
    PROVE  failures' \in 0 .. MaxFailures /\ (failures' = 0 => failures = 0)
<1>1. failures' = failures \/ Fails
  <2>1. ASSUME NEW c \in Call, TypeCommand(c) \/ SendRaw(c) PROVE failures' = failures
    BY <2>1 DEF TypeCommand, SendRaw
  <2>2. ASSUME NEW c \in Call, Decode(c) \/ Authorise(c) PROVE failures' = failures \/ Fails
    BY <2>2 DEF Decode, Authorise, Known
  <2>3. ASSUME NEW c \in Call, InsertEvents(c) \/ EnqueueEvent(c) \/ SubmitReply(c)
        PROVE  failures' = failures \/ Fails
    BY <2>3 DEF InsertEvents, EnqueueEvent, SubmitReply
  <2>4. ASSUME NEW c \in Call, Register(c) \/ RegisterReply(c)
        PROVE  failures' = failures \/ Fails
    BY <2>4 DEF Register, RegisterReply
  <2>5. ASSUME NEW c \in Call, Update(c) \/ UpdateReply(c)
        PROVE  failures' = failures \/ Fails
    BY <2>5 DEF Update, UpdateReply
  <2>6. ASSUME NEW c \in Call, List(c) \/ Get(c)
        PROVE  failures' = failures \/ Fails
    BY <2>6 DEF List, Get
  <2>7. ASSUME NEW k \in ApiKey, CreateAPIKey(k)
        PROVE  failures' = failures \/ Fails
    BY <2>7 DEF CreateAPIKey
  <2>8. CASE Crash \/ UNCHANGED vars
    BY <2>8 DEF Crash, vars
  <2> QED
    BY <2>1, <2>2, <2>3, <2>4, <2>5, <2>6, <2>7, <2>8 DEF Next, Handler
<1> QED
  BY <1>1, FrontAssumption DEF Fails

\* A batch is accepted by the reply of SubmitNewEvents.
LEMMA SubmitsAnswered ==
    ASSUME Control, [Next]_vars, NEW c \in Call,
           Accepted(c)', Route(call'[c].m) = "submit"
    PROVE  Accepted(c) \/ SubmitReply(c)
<1>1. TypedCalls /\ CallOf(c)
  BY DEF Control
<1>2. ASSUME RegisterReply(c) \/ UpdateReply(c) \/ List(c) \/ Get(c) PROVE FALSE
  <2>1. Only(c, {"pc", "reply"}) /\ call[c].pc \in {"registered", "updated", "list", "get"}
    BY <1>1, <1>2, RegisterReplySets, UpdateReplySets, ListSets, GetSets
  <2>2. Route(call[c].m) # "submit" /\ call'[c].m = call[c].m
    BY <1>1, <2>1 DEF CallOf, Only, FieldNames
  <2> QED
    BY <2>2
<1> QED
  BY <1>2, AcceptedOnce

\* A batch is queued by the call that has inserted it.
LEMMA QueueingStays ==
    ASSUME Control, [Next]_vars, NEW c \in Call, ~InsertEvents(c), call'[c].pc = "queueing"
    PROVE  call[c].pc = "queueing"
<1>1. TypedCalls /\ CallOf(c)
  BY DEF Control
<1>2. CASE call'[c] = call[c]
  BY <1>2
<1>3. CASE Crash
  BY <1>1, <1>3, CrashCuts
<1>4. CASE TypeCommand(c) \/ SendRaw(c)
  BY <1>1, <1>4, TypeCommandSets, SendRawSets
<1>5. CASE Decode(c)
  BY <1>1, <1>5, DecodeSets
<1>6. CASE Authorise(c)
  <2>1. call'[c].pc = Route(call[c].m) \/ call'[c].pc = "answered"
    BY <1>1, <1>6, AuthoriseSets
  <2> QED
    BY <2>1, Routes
<1>7. CASE EnqueueEvent(c) \/ SubmitReply(c) \/ Register(c) \/ RegisterReply(c)
  BY <1>1, <1>7, EnqueueEventSets, SubmitReplySets, RegisterSets, RegisterReplySets
<1>8. CASE Update(c) \/ UpdateReply(c) \/ List(c) \/ Get(c)
  BY <1>1, <1>8, UpdateSets, UpdateReplySets, ListSets, GetSets
<1> QED
  BY <1>2, <1>3, <1>4, <1>5, <1>6, <1>7, <1>8, OneMoves DEF Handler

\* The events and the queue change only where they are inserted into.
LEMMA TablesStay ==
    ASSUME [Next]_vars, \A c \in Call : ~InsertEvents(c) /\ ~EnqueueEvent(c)
    PROVE  events' = events /\ mapping' = mapping
BY DEF Next, Handler, TypeCommand, SendRaw, Decode, Authorise, SubmitReply, Register, RegisterReply,
   Update, UpdateReply, List, Get, CreateAPIKey, Crash, vars, tables

\* The events of a call that has come to SubmitNewEvents can be sorted.
LEMMA CanSort ==
    ASSUME Control, BatchInv, NEW c \in Call, call[c].p # Nil, Route(call[c].m) = "submit"
    PROVE  Sortable(call[c].p.events)
<1>1. CallOf(c) /\ SentOf(c)
  BY DEF Control, BatchInv
<1> QED
  BY <1>1 DEF CallOf, SentOf, SortableOnce, Silent

\* A batch is that of its payload, and both stay.
LEMMA BatchKept ==
    ASSUME Control, BatchInv, [Next]_vars, NEW c \in Call, ~InsertEvents(c), ~EnqueueEvent(c)
    PROVE  BatchOf(c)'
<1>1. CallOf(c) /\ BatchOf(c) /\ Stays(c)
  BY EveryCallStays DEF Control, BatchInv
<1>2. /\ call'[c].batch = call[c].batch /\ call'[c].ids = call[c].ids
      /\ call'[c].queued = call[c].queued
  BY <1>1 DEF Stays
<1>3. ASSUME call[c].p # Nil
      PROVE  call'[c].p = call[c].p /\ call'[c].m = call[c].m /\ Batch(c)' = Batch(c)
  <2>1. call'[c].p = call[c].p /\ call'[c].m = call[c].m
    BY <1>1, <1>3 DEF Stays
  <2> QED
    BY <2>1 DEF Batch
<1>4. /\ IsList(call'[c].batch) /\ IsList(call'[c].ids)
      /\ Len(call'[c].ids) = Len(call'[c].batch)
      /\ call'[c].queued \in 0 .. Len(call'[c].batch)
  BY <1>1, <1>2 DEF BatchOf
<1>5. ASSUME call'[c].batch # <<>> \/ call'[c].pc = "queueing"
      PROVE  call'[c].p # Nil /\ call'[c].batch = Batch(c)'
  <2>1. call[c].batch # <<>> \/ call[c].pc = "queueing"
    BY <1>2, <1>5, QueueingStays
  <2> QED
    BY <1>1, <1>2, <1>3, <2>1 DEF BatchOf
<1>6. ASSUME Accepted(c)', Route(call'[c].m) = "submit"
      PROVE  call'[c].batch = Batch(c)' /\ call'[c].queued = Len(call'[c].batch)
  <2>1. CASE Accepted(c)
    BY <1>1, <1>2, <1>3, <1>6, <2>1 DEF BatchOf, CallOf
  <2>2. CASE SubmitReply(c)
    BY <1>1, <1>2, <1>3, <2>2, SubmitReplySets DEF BatchOf, Control
  <2> QED
    BY <1>6, <2>1, <2>2, SubmitsAnswered
<1>7. call'[c].batch # <<>> => Route(call'[c].m) = "submit"
  BY <1>1, <1>2, <1>3 DEF BatchOf
<1> QED
  BY <1>4, <1>5, <1>6, <1>7 DEF BatchOf

\* Rows of events are only added behind those that are there.
LEMMA IdsKept ==
    ASSUME NEW c, IdsOf(c), BatchOf(c), IsList(events),
           call'[c].batch = call[c].batch, call'[c].ids = call[c].ids,
           Len(events') \in Nat, Len(events) <= Len(events'),
           \A i \in DOMAIN events : events'[i] = events[i],
           failures' = 0 => failures = 0
    PROVE  IdsOf(c)'
<1>1. Len(events) \in Nat /\ DOMAIN events = 1 .. Len(events)
  BY ListFacts
<1>2. \A i \in DOMAIN call[c].ids : call[c].ids[i] \in 0 .. Len(events')
  BY <1>1 DEF IdsOf
<1>3. \A i \in DOMAIN call[c].ids : call[c].ids[i] # 0 => events'[call[c].ids[i]] = call[c].batch[i]
  BY <1>1 DEF IdsOf
<1> QED
  BY <1>2, <1>3 DEF IdsOf

\* A step that neither inserts nor enqueues.
LEMMA QuietStep ==
    ASSUME Control, BatchInv, [Next]_vars, \A c \in Call : ~InsertEvents(c) /\ ~EnqueueEvent(c)
    PROVE  BatchInv'
<1>1. events' = events /\ mapping' = mapping
  BY TablesStay
<1>2. failures' \in 0 .. MaxFailures /\ (failures' = 0 => failures = 0)
  BY FailuresGrow DEF BatchInv
<1>3. \A c \in Call : /\ call'[c].batch = call[c].batch /\ call'[c].ids = call[c].ids
                      /\ call'[c].queued = call[c].queued
  BY EveryCallStays DEF Stays
<1>4. \A c \in Call : SentOf(c)'
  BY SentStep DEF BatchInv
<1>5. \A c \in Call : BatchOf(c)'
  BY BatchKept
<1>6. \A c \in Call : IdsOf(c)'
  <2>1. IsList(events) /\ Len(events) \in Nat
    BY ListFacts DEF BatchInv, Queued
  <2>2. Len(events') \in Nat /\ Len(events) <= Len(events')
        /\ \A i \in DOMAIN events : events'[i] = events[i]
    BY <1>1, <2>1
  <2> QED
    BY <1>2, <1>3, <2>1, <2>2, IdsKept DEF BatchInv
<1>7. ASSUME NEW j \in DOMAIN mapping PROVE JobIsOfItsCall(j)'
  <2>1. JobIsOfItsCall(j)
    BY DEF BatchInv, Queued
  <2> QED
    BY <1>1, <1>3, <2>1 DEF JobIsOfItsCall
<1>8. Queued'
  BY <1>1, <1>2, <1>3, <1>7 DEF BatchInv, Queued
<1>9. QueuedInOrder'
  BY <1>1 DEF BatchInv, QueuedInOrder
<1> QED
  BY <1>2, <1>4, <1>5, <1>6, <1>8, <1>9 DEF BatchInv

LEMMA InsertStep ==
    ASSUME Control, BatchInv, [Next]_vars, NEW c \in Call, InsertEvents(c)
    PROVE  BatchInv'
<1> DEFINE b == Batch(c)
<1>1. /\ TypedCalls /\ CallOf(c) /\ BatchOf(c) /\ IdsOf(c) /\ IsList(events)
      /\ failures \in 0 .. MaxFailures
  BY DEF Control, BatchInv, Queued
<1>2. /\ Only(c, {"pc", "batch", "ids", "wrote"})
      /\ call[c].pc = "submit" /\ call'[c].pc = "queueing" /\ call'[c].batch = b
      /\ \/ /\ events' = events \o b /\ UNCHANGED failures
            /\ call'[c].ids = [i \in DOMAIN b |-> Len(events) + i]
         \/ /\ Fails /\ UNCHANGED events
            /\ call'[c].ids = [i \in DOMAIN b |-> 0]
  BY <1>1, InsertEventsSets
<1>3. /\ call[c].p # Nil /\ Route(call[c].m) = "submit" /\ call[c].queued = 0
      /\ call'[c].p = call[c].p /\ call'[c].m = call[c].m /\ call'[c].queued = 0
  BY <1>1, <1>2 DEF CallOf, Working, Unspoiled, Only, FieldNames
<1>4. Batch(c)' = b
  BY <1>3 DEF Batch
<1>5. IsList(b)
  BY <1>3, CanSort, BatchSorts
<1> HIDE DEF b
<1>6. Len(b) \in Nat /\ DOMAIN b = 1 .. Len(b) /\ Len(events) \in Nat /\ DOMAIN events = 1 .. Len(events)
  BY <1>1, <1>5, ListFacts
<1>7. /\ IsList(events') /\ Len(events') \in Nat /\ Len(events) <= Len(events')
      /\ \A i \in DOMAIN events : events'[i] = events[i]
  <2>1. CASE events' = events
    BY <1>1, <1>6, <2>1
  <2>2. CASE events' = events \o b
    <3>1. IsList(events \o b) /\ Len(events \o b) = Len(events) + Len(b)
          /\ \A i \in DOMAIN events : (events \o b)[i] = events[i]
      BY <1>1, <1>5, ListsJoin
    <3> QED
      BY <1>6, <2>2, <3>1
  <2> QED
    BY <1>2, <2>1, <2>2
<1>8. failures' \in 0 .. MaxFailures /\ (failures' = 0 => failures = 0)
  BY <1>1, FailuresGrow
<1>9. mapping' = mapping
  BY DEF InsertEvents
<1>10. /\ DOMAIN call'[c].ids = 1 .. Len(b) /\ IsList(call'[c].ids) /\ Len(call'[c].ids) = Len(b)
  <2>1. call'[c].ids = [i \in 1 .. Len(b) |-> call'[c].ids[i]]
    BY <1>2, <1>6
  <2> QED
    BY <1>6, <2>1, FunctionIsList
<1>11. BatchOf(c)'
  <2>1. 0 \in 0 .. Len(b)
    BY <1>6
  <2>2. ~Accepted(c)'
    BY <1>2 DEF Accepted, At
  <2> QED
    BY <1>2, <1>3, <1>4, <1>5, <1>10, <2>1, <2>2 DEF BatchOf
<1>12. IdsOf(c)'
  <2>1. CASE /\ events' = events \o b /\ UNCHANGED failures
             /\ call'[c].ids = [i \in DOMAIN b |-> Len(events) + i]
    <3>1. /\ Len(events') = Len(events) + Len(b)
          /\ \A i \in 1 .. Len(b) : events'[Len(events) + i] = b[i]
      BY <1>1, <1>5, <1>6, <2>1, ListsJoin
    <3>2. \A i \in 1 .. Len(b) : call'[c].ids[i] = Len(events) + i
      BY <1>6, <2>1
    <3>3. \A i \in 1 .. Len(b) : Len(events) + i \in 0 .. Len(events') /\ Len(events) + i # 0
      BY <1>6, <3>1
    <3>4. \A i, k \in 1 .. Len(b) : Len(events) + i = Len(events) + k => i = k
      BY <1>6
    <3> QED
      BY <1>2, <1>10, <3>1, <3>2, <3>3, <3>4 DEF IdsOf
  <2>2. CASE Fails /\ UNCHANGED events /\ call'[c].ids = [i \in DOMAIN b |-> 0]
    <3>1. \A i \in 1 .. Len(b) : call'[c].ids[i] = 0
      BY <1>6, <2>2
    <3>2. failures' # 0
      BY <1>1, <2>2, FrontAssumption DEF Fails
    <3>3. 0 \in 0 .. Len(events')
      BY <1>7
    <3> QED
      BY <1>10, <3>1, <3>2, <3>3 DEF IdsOf
  <2> QED
    BY <1>2, <2>1, <2>2
<1>13. ASSUME NEW d \in Call PROVE BatchOf(d)' /\ IdsOf(d)'
  <2>1. CASE d = c
    BY <1>11, <1>12, <2>1
  <2>2. CASE d # c
    <3>1. call'[d] = call[d]
      BY <1>2, <2>2 DEF Only
    <3>2. BatchOf(d) /\ IdsOf(d)
      BY DEF BatchInv
    <3>3. BatchOf(d)'
      BY <3>1, <3>2 DEF BatchOf, Batch, Accepted, At
    <3>4. IdsOf(d)'
      BY <1>1, <1>7, <1>8, <3>1, <3>2, IdsKept
    <3> QED
      BY <3>3, <3>4
  <2> QED
    BY <2>1, <2>2
<1>14. ASSUME NEW j \in DOMAIN mapping PROVE mapping'[j].event \in 0 .. Len(events') /\ JobIsOfItsCall(j)'
  <2>1. mapping[j].event \in 0 .. Len(events) /\ JobIsOfItsCall(j)
    BY DEF BatchInv, Queued
  <2>2. mapping[j].event # 0 => events'[mapping[j].event] = events[mapping[j].event]
    BY <1>6, <1>7, <2>1
  <2>3. mapping'[j].event \in 0 .. Len(events')
    BY <1>6, <1>7, <1>9, <2>1
  <2>4. JobIsOfItsCall(j)'
    <3> SUFFICES ASSUME mapping[j].event # 0
                 PROVE  LET row == events[mapping[j].event]
                            d == row.content[1]
                        IN  /\ d \in Call /\ mapping[j].type = row.type
                            /\ \E i \in 1 .. call'[d].queued : call'[d].ids[i] = mapping[j].event
      BY <1>9, <2>2 DEF JobIsOfItsCall
    <3> DEFINE d == events[mapping[j].event].content[1]
    <3>1. /\ d \in Call /\ mapping[j].type = events[mapping[j].event].type
          /\ \E i \in 1 .. call[d].queued : call[d].ids[i] = mapping[j].event
      BY <2>1 DEF JobIsOfItsCall
    <3>2. d # c
      BY <1>3, <3>1
    <3>3. call'[d] = call[d]
      BY <1>2, <3>1, <3>2 DEF Only
    <3> QED
      BY <3>1, <3>3
  <2> QED
    BY <2>3, <2>4
<1>15. ASSUME failures' = 0, NEW d \in Call, NEW i \in 1 .. call'[d].queued
       PROVE  \E j \in DOMAIN mapping : mapping[j].event = call'[d].ids[i]
  <2>1. d # c
    BY <1>3
  <2>2. call'[d] = call[d]
    BY <1>2, <2>1 DEF Only
  <2> QED
    BY <1>8, <1>15, <2>2 DEF BatchInv, Queued
<1>16. Queued'
  BY <1>7, <1>9, <1>14, <1>15 DEF BatchInv, Queued
<1>17. QueuedInOrder'
  <2>1. \A j \in DOMAIN mapping : mapping[j].event # 0 => events'[mapping[j].event] = events[mapping[j].event]
    BY <1>6, <1>7 DEF BatchInv, Queued
  <2> QED
    BY <1>9, <2>1 DEF BatchInv, QueuedInOrder
<1> QED
  BY <1>8, <1>13, <1>16, <1>17, SentStep DEF BatchInv

\* One more of n, when q of them are done.
LEMMA OneMore ==
    ASSUME NEW q \in Nat, NEW n \in Nat, q < n
    PROVE  /\ q + 1 \in 1 .. n /\ q + 1 \in 0 .. n
           /\ 1 .. q \subseteq 1 .. (q + 1) /\ q + 1 \in 1 .. (q + 1)
           /\ \A i \in 1 .. q : i \in 1 .. n /\ i < q + 1 /\ i # q + 1
           /\ \A i \in 1 .. (q + 1) : i \in 1 .. q \/ i = q + 1
OBVIOUS

LEMMA EnqueueStep ==
    ASSUME Control, BatchInv, [Next]_vars, NEW c \in Call, EnqueueEvent(c)
    PROVE  BatchInv'
<1> DEFINE q == call[c].queued
           b == call[c].batch
           ids == call[c].ids
<1>1. /\ TypedCalls /\ CallOf(c) /\ BatchOf(c) /\ IdsOf(c) /\ Queued /\ QueuedInOrder
      /\ failures \in 0 .. MaxFailures
  BY DEF Control, BatchInv
<1>2. /\ Only(c, {"queued", "wrote"})
      /\ call[c].pc = "queueing" /\ q # Len(b) /\ call'[c].queued = q + 1
      /\ \/ mapping' = Append(mapping, JobOf(call[c], q + 1)) /\ UNCHANGED failures
         \/ Fails /\ UNCHANGED mapping
  BY <1>1, EnqueueEventSets
<1>3. /\ call'[c].batch = b /\ call'[c].ids = ids /\ call'[c].p = call[c].p
      /\ call'[c].m = call[c].m /\ call'[c].pc = "queueing"
  BY <1>2 DEF Only, FieldNames
<1>4. /\ call[c].p # Nil /\ b = Batch(c) /\ Route(call[c].m) = "submit"
      /\ IsList(b) /\ IsList(ids) /\ Len(ids) = Len(b) /\ q \in 0 .. Len(b)
  BY <1>1, <1>2 DEF BatchOf, CallOf
<1>5. Sortable(call[c].p.events)
  BY <1>4, CanSort
<1>6. /\ \A i \in DOMAIN b : \E k \in DOMAIN call[c].p.events : b[i] = Entry(c, k)
      /\ \A i, j \in DOMAIN b : i < j => Ahead(b[i], b[j])
  BY <1>4, <1>5, BatchSorts
<1>7. /\ DOMAIN b = 1 .. Len(b) /\ DOMAIN ids = 1 .. Len(b) /\ Len(b) \in Nat
      /\ Len(events) \in Nat /\ DOMAIN events = 1 .. Len(events)
      /\ Len(mapping) \in Nat /\ DOMAIN mapping = 1 .. Len(mapping)
      /\ IsList(events) /\ IsList(mapping)
  BY <1>1, <1>4, ListFacts DEF Queued
<1> HIDE DEF q, b, ids
<1>8. /\ q \in Nat /\ q + 1 \in 1 .. Len(b) /\ q + 1 \in 0 .. Len(b)
      /\ 1 .. q \subseteq 1 .. (q + 1) /\ q + 1 \in 1 .. (q + 1)
      /\ \A i \in 1 .. q : i \in 1 .. Len(b) /\ i < q + 1 /\ i # q + 1
      /\ \A i \in 1 .. (q + 1) : i \in 1 .. q \/ i = q + 1
  <2>1. q \in Nat /\ Len(b) \in Nat /\ q < Len(b)
    <3>1. q # Len(b)
      BY <1>2
    <3>2. q \in 0 .. Len(b)
      BY <1>4
    <3>3. Len(b) \in Nat
      BY <1>7
    <3> QED
      BY <3>1, <3>2, <3>3
  <2> QED
    BY <2>1, OneMore
<1>9. events' = events
  BY DEF EnqueueEvent
<1>10. failures' \in 0 .. MaxFailures /\ (failures' = 0 => failures = 0)
  BY <1>1, FailuresGrow
<1>11. ASSUME NEW d \in Call PROVE BatchOf(d)' /\ IdsOf(d)'
  <2>1. CASE d = c
    <3>1. Batch(c)' = Batch(c) /\ ~Accepted(c)'
      BY <1>3 DEF Batch, Accepted, At
    <3>2. BatchOf(c)'
      BY <1>1, <1>2, <1>3, <1>4, <1>8, <3>1 DEF BatchOf
    <3>3. IdsOf(c)'
      BY <1>1, <1>3, <1>7, <1>9, <1>10 DEF IdsOf, b, ids
    <3> QED
      BY <2>1, <3>2, <3>3
  <2>2. CASE d # c
    <3>1. call'[d] = call[d] /\ BatchOf(d) /\ IdsOf(d)
      BY <1>2, <2>2 DEF Only, BatchInv
    <3> QED
      BY <1>9, <1>10, <3>1 DEF BatchOf, Batch, Accepted, At, IdsOf
  <2> QED
    BY <2>1, <2>2
<1>12. \A d \in Call : /\ call'[d].ids = call[d].ids
                       /\ 1 .. call[d].queued \subseteq 1 .. call'[d].queued
  BY <1>2, <1>3, <1>8 DEF Only, q, ids
<1>13. ASSUME NEW j \in DOMAIN mapping
       PROVE  /\ mapping[j].event \in 0 .. Len(events)
              /\ mapping[j].event # 0 =>
                    LET row == events[mapping[j].event]
                        d == row.content[1]
                    IN  /\ d \in Call /\ mapping[j].type = row.type
                        /\ \E i \in 1 .. call'[d].queued : call'[d].ids[i] = mapping[j].event
  <2>1. mapping[j].event \in 0 .. Len(events) /\ JobIsOfItsCall(j)
    BY <1>1 DEF Queued
  <2> SUFFICES ASSUME mapping[j].event # 0
               PROVE  LET row == events[mapping[j].event]
                          d == row.content[1]
                      IN  /\ d \in Call /\ mapping[j].type = row.type
                          /\ \E i \in 1 .. call'[d].queued : call'[d].ids[i] = mapping[j].event
    BY <2>1
  <2> DEFINE d == events[mapping[j].event].content[1]
  <2>2. /\ d \in Call /\ mapping[j].type = events[mapping[j].event].type
        /\ \E i \in 1 .. call[d].queued : call[d].ids[i] = mapping[j].event
    BY <2>1 DEF JobIsOfItsCall
  <2> HIDE DEF d
  <2>3. \E i \in 1 .. call'[d].queued : call'[d].ids[i] = mapping[j].event
    BY <1>12, <2>2
  <2> QED
    BY <2>2, <2>3 DEF d
<1>14. CASE Fails /\ UNCHANGED mapping
  <2>1. failures' # 0
    BY <1>1, <1>14, FrontAssumption DEF Fails
  <2>2. \A j \in DOMAIN mapping : JobIsOfItsCall(j)'
    BY <1>9, <1>13, <1>14 DEF JobIsOfItsCall
  <2>3. Queued'
    BY <1>1, <1>9, <1>14, <2>1, <2>2 DEF Queued
  <2>4. QueuedInOrder'
    BY <1>1, <1>9, <1>14 DEF QueuedInOrder
  <2> QED
    BY <1>10, <1>11, <2>3, <2>4, SentStep DEF BatchInv
<1>15. CASE mapping' = Append(mapping, JobOf(call[c], q + 1)) /\ UNCHANGED failures
  <2>n. PICK n : n = Len(mapping) + 1
    OBVIOUS
  <2>e. PICK e : e = ids[q + 1]
    OBVIOUS
  <2>1. /\ IsList(mapping') /\ DOMAIN mapping' = 1 .. n /\ n \in Nat /\ n \in 1 .. n
        /\ \A j \in DOMAIN mapping : mapping'[j] = mapping[j] /\ j \in 1 .. n /\ j < n
        /\ \A j \in 1 .. n : j \in DOMAIN mapping \/ j = n
        /\ mapping'[n] = JobOf(call[c], q + 1)
    <3>1. /\ IsList(mapping') /\ Len(mapping') = n
          /\ \A j \in DOMAIN mapping : mapping'[j] = mapping[j]
          /\ mapping'[n] = JobOf(call[c], q + 1)
      BY <1>7, <1>15, <2>n, ListAppends
    <3>2. DOMAIN mapping' = 1 .. n
      BY <3>1, ListFacts
    <3> QED
      BY <1>7, <2>n, <3>1, <3>2
  <2>2. mapping'[n].event = e /\ mapping'[n].type = b[q + 1].type
    BY <2>1, <2>e DEF JobOf, ids, b
  <2>3. /\ e \in 0 .. Len(events)
        /\ e # 0 => events[e] = b[q + 1]
        /\ \A i \in 1 .. q : ids[i] = e /\ e # 0 => FALSE
        /\ \A i \in 1 .. q : ids[i] # 0 => events[ids[i]] = b[i]
    BY <1>1, <1>7, <1>8, <2>e DEF IdsOf, ids, b
  <2>4. e # 0 => events[e].content[1] = c
    BY <1>6, <1>7, <1>8, <2>3, EntryIsOf
  <2>5. \* an older job of the same call is of an earlier event of the batch
        ASSUME NEW j \in DOMAIN mapping, e # 0, mapping[j].event # 0,
               events[mapping[j].event].content[1] = c
        PROVE  mapping[j].event # e /\ Ahead(events[mapping[j].event], events[e])
    <3>1. PICK i \in 1 .. q : ids[i] = mapping[j].event
      BY <1>1, <2>5 DEF Queued, JobIsOfItsCall, q, ids
    <3>2. events[mapping[j].event] = b[i]
      BY <2>3, <2>5, <3>1
    <3>3. Ahead(b[i], b[q + 1])
      BY <1>6, <1>7, <1>8
    <3> QED
      BY <2>3, <2>5, <3>1, <3>2, <3>3
  <2>6. JobIsOfItsCall(n)'
    <3>1. e # 0 => \E i \in 1 .. call'[c].queued : call'[c].ids[i] = e
      BY <1>2, <1>3, <1>8, <2>e
    <3>2. e # 0 => c \in Call /\ mapping'[n].type = events[e].type
      BY <2>2, <2>3
    <3> QED
      BY <1>9, <2>2, <2>4, <3>1, <3>2 DEF JobIsOfItsCall
  <2>7. \A j \in DOMAIN mapping : JobIsOfItsCall(j)'
    BY <1>9, <1>13, <2>1 DEF JobIsOfItsCall
  <2>8. \A j \in DOMAIN mapping' : mapping'[j].event \in 0 .. Len(events') /\ JobIsOfItsCall(j)'
    BY <1>9, <1>13, <2>1, <2>2, <2>3, <2>6, <2>7
  <2>9. \A j, k \in DOMAIN mapping' :
           mapping'[j].event = mapping'[k].event /\ mapping'[j].event # 0 => j = k
    <3>1. \A j \in DOMAIN mapping : mapping[j].event = e /\ e # 0 => FALSE
      BY <2>4, <2>5
    <3>2. \A j, k \in DOMAIN mapping :
             mapping[j].event = mapping[k].event /\ mapping[j].event # 0 => j = k
      BY <1>1 DEF Queued
    <3> QED
      BY <2>1, <2>2, <3>1, <3>2
  <2>10. ASSUME failures' = 0, NEW d \in Call, NEW i \in 1 .. call'[d].queued
         PROVE  \E j \in DOMAIN mapping' : mapping'[j].event = call'[d].ids[i]
    <3>1. CASE i \in 1 .. call[d].queued
      <4>1. PICK j \in DOMAIN mapping : mapping[j].event = call[d].ids[i]
        BY <1>1, <1>10, <2>10, <3>1 DEF Queued
      <4>2. call'[d].ids[i] = call[d].ids[i]
        BY <1>12
      <4> QED
        BY <2>1, <4>1, <4>2
    <3>2. CASE i \notin 1 .. call[d].queued
      <4>1. d = c
        BY <1>2, <3>2 DEF Only
      <4>2. i = q + 1
        BY <1>2, <1>8, <3>2, <4>1 DEF q
      <4> QED
        BY <1>3, <2>1, <2>2, <2>e, <4>1, <4>2
    <3> QED
      BY <3>1, <3>2
  <2>11. Queued'
    BY <1>7, <1>9, <2>1, <2>8, <2>9, <2>10 DEF Queued
  <2>12. QueuedInOrder'
    <3> SUFFICES ASSUME NEW j \in DOMAIN mapping', NEW k \in DOMAIN mapping', j < k,
                        mapping'[j].event # 0, mapping'[k].event # 0,
                        events[mapping'[j].event].content[1] = events[mapping'[k].event].content[1]
                 PROVE  Ahead(events[mapping'[j].event], events[mapping'[k].event])
      BY <1>9 DEF QueuedInOrder, Ahead
    <3>1. j \in DOMAIN mapping /\ mapping'[j] = mapping[j]
      BY <1>7, <2>1
    <3>2. CASE k \in DOMAIN mapping
      BY <1>1, <2>1, <3>1, <3>2 DEF QueuedInOrder, Ahead
    <3>3. CASE k = n
      BY <2>2, <2>4, <2>5, <3>1, <3>3
    <3> QED
      BY <2>1, <3>2, <3>3
  <2> QED
    BY <1>10, <1>11, <2>11, <2>12, SentStep DEF BatchInv
<1> QED
  BY <1>2, <1>14, <1>15

LEMMA BatchInvInit == Init => BatchInv
<1> SUFFICES ASSUME Init PROVE BatchInv
  OBVIOUS
<1>1. IsList(<<>>) /\ Len(<<>>) = 0 /\ DOMAIN (<<>>) = {} /\ 1 .. 0 = {}
  <2>1. <<>> \in Seq({}) /\ Len(<<>>) = 0
    BY EmptySeq
  <2>2. IsList(<<>>)
    BY <2>1, SeqIsList
  <2> QED
    BY <2>1, <2>2, ListFacts
<1>2. failures \in 0 .. MaxFailures
  BY FrontAssumption DEF Init
<1>3. ASSUME NEW c \in Call PROVE SentOf(c) /\ BatchOf(c) /\ IdsOf(c) /\ call[c].queued = 0
  <2>1. /\ call[c].pc = "none" /\ call[c].batch = <<>> /\ call[c].ids = <<>>
        /\ call[c].queued = 0
    BY DEF Init, NotMade
  <2>2. 0 \in 0 .. 0
    OBVIOUS
  <2> QED
    BY <1>1, <2>1, <2>2 DEF SentOf, BatchOf, IdsOf, Silent, Accepted, At
<1>4. Queued
  BY <1>1, <1>3 DEF Init, Queued
<1>5. QueuedInOrder
  BY <1>1 DEF Init, QueuedInOrder
<1> QED
  BY <1>2, <1>3, <1>4, <1>5 DEF BatchInv

LEMMA BatchInvStep == Control /\ BatchInv /\ [Next]_vars => BatchInv'
BY QuietStep, InsertStep, EnqueueStep

\* The events of a batch are queued by priority, those of equal priority in the order
\* submitted, whatever other calls queue in between, fails or dies (main.go 133-158).
THEOREM PriorityOrder == Spec => []QueuedInOrder
<1>1. BatchInv => QueuedInOrder
  BY DEF BatchInv
<1> QED
  BY <1>1, ControlInit, ControlStep, BatchInvInit, BatchInvStep, PTL DEF Spec

\* Without a failing statement an accepted batch is all there: a row for every event,
\* with its type and priority, and exactly one job for each row.
THEOREM NothingDropped == Spec => []AcceptedIsQueued
<1>1. Control /\ BatchInv => AcceptedIsQueued
  <2> SUFFICES ASSUME Control, BatchInv, NEW c \in Call, Accepted(c), Is(c, "submit"), failures = 0,
                      NEW k \in DOMAIN call[c].p.events
               PROVE  \E ev \in DOMAIN events :
                         /\ events[ev] = Entry(c, k)
                         /\ {j \in DOMAIN mapping : mapping[j].event = ev} # {}
                         /\ \A j \in DOMAIN mapping : mapping[j].event = ev =>
                               /\ mapping[j].type = events[ev].type
                               /\ \A l \in DOMAIN mapping : mapping[l].event = ev => j = l
    BY DEF AcceptedIsQueued, Entry
  <2>1. /\ call[c].p # Nil /\ Route(call[c].m) = "submit" /\ BatchOf(c) /\ IdsOf(c) /\ Queued
    BY DEF Is, BatchInv
  <2>2. /\ call[c].batch = Batch(c) /\ call[c].queued = Len(call[c].batch)
        /\ IsList(call[c].batch) /\ IsList(call[c].ids) /\ Len(call[c].ids) = Len(call[c].batch)
    BY <2>1 DEF BatchOf
  <2>3. PICK i \in DOMAIN call[c].batch : call[c].batch[i] = Entry(c, k)
    BY <2>1, <2>2, CanSort, BatchSorts
  <2>4. i \in DOMAIN call[c].ids /\ i \in 1 .. call[c].queued
    BY <2>2, ListFacts
  <2> DEFINE ev == call[c].ids[i]
  <2>5. ev # 0 /\ ev \in 0 .. Len(events) /\ events[ev] = Entry(c, k)
    BY <2>1, <2>3, <2>4 DEF IdsOf
  <2>6. ev \in DOMAIN events
    BY <2>1, <2>5, ListFacts DEF Queued
  <2>7. \E j \in DOMAIN mapping : mapping[j].event = ev
    BY <2>1, <2>4 DEF Queued
  <2>8. \A j \in DOMAIN mapping : mapping[j].event = ev => mapping[j].type = events[ev].type
    BY <2>1, <2>5 DEF Queued, JobIsOfItsCall
  <2>9. \A j, l \in DOMAIN mapping : mapping[j].event = ev /\ mapping[l].event = ev => j = l
    BY <2>1, <2>5 DEF Queued
  <2> HIDE DEF ev
  <2> QED
    BY <2>5, <2>6, <2>7, <2>8, <2>9
<1> QED
  BY <1>1, ControlInit, ControlStep, BatchInvInit, BatchInvStep, PTL DEF Spec

-----------------------------------------------------------------------------
(***************************************************************************)
(* A row that is written anew, and may move (main.go 381).                 *)
(***************************************************************************)
LEMMA PartOfList ==
    ASSUME NEW s, IsList(s), NEW m \in Nat \ {0}, NEW n \in Nat, n <= Len(s)
    PROVE  /\ IsList(SubSeq(s, m, n))
           /\ Len(SubSeq(s, m, n)) = IF m <= n THEN n - m + 1 ELSE 0
           /\ \A i \in 1 .. n - m + 1 : SubSeq(s, m, n)[i] = s[m + i - 1]
<1>1. \A i \in m .. n : s[i] \in Range(s)
  BY ListFacts
<1>2. /\ SubSeq(s, m, n) \in Seq(Range(s))
      /\ Len(SubSeq(s, m, n)) = IF m <= n THEN n - m + 1 ELSE 0
      /\ \A i \in 1 .. n - m + 1 : SubSeq(s, m, n)[i] = s[m + i - 1]
  BY <1>1, SubSeqProperties
<1> QED
  BY <1>2, SeqIsList

LEMMA OneIsList == ASSUME NEW x PROVE IsList(<<x>>) /\ Len(<<x>>) = 1 /\ <<x>>[1] = x
<1>1. <<x>> \in Seq({x})
  OBVIOUS
<1> QED
  BY <1>1, SeqIsList

LEMMA RemovedRow ==
    ASSUME NEW s, IsList(s), NEW i \in DOMAIN s
    PROVE  /\ IsList(RemoveAt(s, i)) /\ Len(RemoveAt(s, i)) = Len(s) - 1
           /\ \A j \in 1 .. Len(s) - 1 : RemoveAt(s, i)[j] = IF j < i THEN s[j] ELSE s[j + 1]
<1> DEFINE n == Len(s)
           a == SubSeq(s, 1, i - 1)
           b == SubSeq(s, i + 1, n)
<1>1. n \in Nat /\ DOMAIN s = 1 .. n /\ i \in 1 .. n
  BY ListFacts
<1>2. /\ IsList(a) /\ Len(a) = i - 1
      /\ \A j \in 1 .. i - 1 : a[j] = s[j]
  <2>1. i - 1 \in Nat /\ i - 1 <= Len(s) /\ 1 \in Nat \ {0} /\ (i - 1) - 1 + 1 = i - 1
    BY <1>1
  <2>2. /\ IsList(a) /\ Len(a) = IF 1 <= i - 1 THEN (i - 1) - 1 + 1 ELSE 0
        /\ \A j \in 1 .. (i - 1) - 1 + 1 : a[j] = s[1 + j - 1]
    BY <2>1, PartOfList
  <2> HIDE DEF a
  <2> QED
    BY <1>1, <2>1, <2>2
<1>3. /\ IsList(b) /\ Len(b) = n - i
      /\ \A j \in 1 .. n - i : b[j] = s[i + j]
  <2>1. i + 1 \in Nat \ {0} /\ n - (i + 1) + 1 = n - i
    BY <1>1
  <2>2. /\ IsList(b) /\ Len(b) = IF i + 1 <= n THEN n - (i + 1) + 1 ELSE 0
        /\ \A j \in 1 .. n - (i + 1) + 1 : b[j] = s[(i + 1) + j - 1]
    BY <1>1, <2>1, PartOfList
  <2> HIDE DEF b
  <2>3. Len(b) = n - i
    BY <1>1, <2>2
  <2>4. ASSUME NEW j \in 1 .. n - i
        PROVE  b[j] = s[i + j]
    <3>1. j \in 1 .. n - (i + 1) + 1 /\ (i + 1) + j - 1 = i + j
      BY <1>1
    <3> QED
      BY <2>2, <3>1
  <2> QED
    BY <2>2, <2>3, <2>4
<1>4. RemoveAt(s, i) = a \o b
  BY DEF RemoveAt
<1> HIDE DEF a, b
<1>5. /\ IsList(a \o b) /\ Len(a \o b) = (i - 1) + (n - i)
      /\ \A j \in DOMAIN a : (a \o b)[j] = a[j]
      /\ \A j \in DOMAIN b : (a \o b)[(i - 1) + j] = b[j]
      /\ DOMAIN a = 1 .. i - 1 /\ DOMAIN b = 1 .. n - i
  <2>1. DOMAIN a = 1 .. i - 1 /\ DOMAIN b = 1 .. n - i
    BY <1>2, <1>3, ListFacts
  <2>3. IsList(a) /\ IsList(b)
    BY <1>2, <1>3
  <2>2. /\ IsList(a \o b) /\ Len(a \o b) = Len(a) + Len(b)
        /\ \A j \in DOMAIN a : (a \o b)[j] = a[j]
        /\ \A j \in DOMAIN b : (a \o b)[Len(a) + j] = b[j]
    <3>1. IsList(a \o b) /\ Len(a \o b) = Len(a) + Len(b)
      BY <2>3, ListsJoin
    <3>2. \A j \in DOMAIN a : (a \o b)[j] = a[j]
      BY <2>3, ListsJoin
    <3>3. \A j \in DOMAIN b : (a \o b)[Len(a) + j] = b[j]
      BY <2>3, ListsJoin
    <3> QED
      BY <3>1, <3>2, <3>3
  <2> QED
    BY <1>2, <1>3, <2>1, <2>2
<1>6. ASSUME NEW j \in 1 .. n - 1
      PROVE  (a \o b)[j] = IF j < i THEN s[j] ELSE s[j + 1]
  <2>1. CASE j < i
    <3>1. j \in 1 .. i - 1
      BY <1>1, <2>1
    <3> QED
      BY <1>2, <1>5, <2>1, <3>1
  <2>2. CASE ~(j < i)
    <3>1. /\ j - (i - 1) \in 1 .. n - i /\ (i - 1) + (j - (i - 1)) = j
          /\ i + (j - (i - 1)) = j + 1
      BY <1>1, <2>2
    <3>2. (a \o b)[(i - 1) + (j - (i - 1))] = b[j - (i - 1)]
      BY <1>5, <3>1
    <3>3. b[j - (i - 1)] = s[i + (j - (i - 1))]
      BY <1>3, <3>1
    <3> QED
      BY <2>2, <3>1, <3>2, <3>3
  <2> QED
    BY <2>1, <2>2
<1>7. (i - 1) + (n - i) = n - 1
  BY <1>1
<1> QED
  BY <1>4, <1>5, <1>6, <1>7

LEMMA InsertedRow ==
    ASSUME NEW s, IsList(s), NEW k \in 1 .. Len(s) + 1, NEW x
    PROVE  /\ IsList(InsertAt(s, k, x)) /\ Len(InsertAt(s, k, x)) = Len(s) + 1
           /\ \A j \in 1 .. Len(s) + 1 :
                 InsertAt(s, k, x)[j] = IF j < k THEN s[j] ELSE IF j = k THEN x ELSE s[j - 1]
<1> DEFINE n == Len(s)
           a == SubSeq(s, 1, k - 1)
           b == SubSeq(s, k, n)
<1>1. n \in Nat /\ DOMAIN s = 1 .. n /\ k \in 1 .. n + 1
  BY ListFacts
<1>2. /\ IsList(a) /\ Len(a) = k - 1
      /\ \A j \in 1 .. k - 1 : a[j] = s[j]
  <2>1. k - 1 \in Nat /\ k - 1 <= Len(s) /\ 1 \in Nat \ {0} /\ (k - 1) - 1 + 1 = k - 1
    BY <1>1
  <2>2. /\ IsList(a) /\ Len(a) = IF 1 <= k - 1 THEN (k - 1) - 1 + 1 ELSE 0
        /\ \A j \in 1 .. (k - 1) - 1 + 1 : a[j] = s[1 + j - 1]
    BY <2>1, PartOfList
  <2> HIDE DEF a
  <2> QED
    BY <1>1, <2>1, <2>2
<1>3. /\ IsList(b) /\ Len(b) = n - k + 1
      /\ \A j \in 1 .. n - k + 1 : b[j] = s[k + j - 1]
  <2>1. k \in Nat \ {0}
    BY <1>1
  <2>2. /\ IsList(b) /\ Len(b) = IF k <= n THEN n - k + 1 ELSE 0
        /\ \A j \in 1 .. n - k + 1 : b[j] = s[k + j - 1]
    BY <1>1, <2>1, PartOfList
  <2> HIDE DEF b
  <2> QED
    BY <1>1, <2>1, <2>2
<1>4. InsertAt(s, k, x) = (a \o <<x>>) \o b
  BY DEF InsertAt
<1> HIDE DEF a, b
<1>5. DOMAIN a = 1 .. k - 1 /\ DOMAIN b = 1 .. n - k + 1 /\ DOMAIN (<<x>>) = {1}
  BY <1>2, <1>3, ListFacts
<1>6. /\ IsList(a \o <<x>>) /\ Len(a \o <<x>>) = k
      /\ \A j \in 1 .. k - 1 : (a \o <<x>>)[j] = a[j]
      /\ (a \o <<x>>)[k] = x
  <2>1. /\ IsList(a \o <<x>>) /\ Len(a \o <<x>>) = (k - 1) + 1
        /\ \A j \in 1 .. k - 1 : (a \o <<x>>)[j] = a[j]
        /\ (a \o <<x>>)[(k - 1) + 1] = <<x>>[1]
    BY <1>2, <1>5, OneIsList, ListsJoin
  <2>2. (k - 1) + 1 = k
    BY <1>1
  <2> QED
    BY <2>1, <2>2
<1> DEFINE h == a \o <<x>>
<1> HIDE DEF h
<1>7. /\ IsList(h \o b) /\ Len(h \o b) = k + (n - k + 1)
      /\ \A j \in 1 .. k : (h \o b)[j] = h[j]
      /\ \A j \in 1 .. n - k + 1 : (h \o b)[k + j] = b[j]
  <2>1. DOMAIN h = 1 .. k /\ IsList(h) /\ Len(h) = k
    BY <1>6, ListFacts DEF h
  <2>2. IsList(h) /\ IsList(b)
    BY <1>3, <2>1
  <2>3. IsList(h \o b) /\ Len(h \o b) = Len(h) + Len(b)
    BY <2>2, ListsJoin
  <2>4. \A j \in DOMAIN h : (h \o b)[j] = h[j]
    BY <2>2, ListsJoin
  <2>5. \A j \in DOMAIN b : (h \o b)[Len(h) + j] = b[j]
    BY <2>2, ListsJoin
  <2> QED
    BY <1>3, <1>5, <2>1, <2>3, <2>4, <2>5
<1>8. ASSUME NEW j \in 1 .. n + 1
      PROVE  (h \o b)[j] = IF j < k THEN s[j] ELSE IF j = k THEN x ELSE s[j - 1]
  <2>1. CASE j < k
    <3>1. j \in 1 .. k - 1 /\ j \in 1 .. k
      BY <1>1, <2>1
    <3> QED
      BY <1>2, <1>6, <1>7, <2>1, <3>1 DEF h
  <2>2. CASE j = k
    <3>1. k \in 1 .. k /\ ~(k < k)
      BY <1>1
    <3> QED
      BY <1>6, <1>7, <2>2, <3>1 DEF h
  <2>3. CASE j > k
    <3>1. /\ j - k \in 1 .. n - k + 1 /\ k + (j - k) = j /\ k + (j - k) - 1 = j - 1
          /\ ~(j < k) /\ j # k
      BY <1>1, <2>3
    <3>2. (h \o b)[k + (j - k)] = b[j - k]
      BY <1>7, <3>1
    <3>3. b[j - k] = s[k + (j - k) - 1]
      BY <1>3, <3>1
    <3>4. (h \o b)[j] = s[j - 1]
      BY <3>1, <3>2, <3>3
    <3> QED
      BY <3>1, <3>4
  <2>4. j < k \/ j = k \/ j > k
    BY <1>1
  <2> QED
    BY <2>1, <2>2, <2>3, <2>4
<1>9. k + (n - k + 1) = n + 1
  BY <1>1
<1> QED
  BY <1>4, <1>7, <1>8, <1>9 DEF h

\* t holds what s does, in any order, but for x instead of the i-th.
Moved(s, t, i, x) ==
    /\ IsList(t) /\ DOMAIN t = DOMAIN s
    /\ \E from \in [DOMAIN s -> DOMAIN s] :
          /\ \A j, l \in DOMAIN s : from[j] = from[l] => j = l
          /\ \A j \in DOMAIN s : \E l \in DOMAIN s : from[l] = j
          /\ \A j \in DOMAIN s : t[j] = IF from[j] = i THEN x ELSE s[from[j]]

LEMMA RowMoves ==
    ASSUME NEW s, IsList(s), NEW i \in DOMAIN s, NEW k \in DOMAIN s, NEW x,
           NEW t, t = InsertAt(RemoveAt(s, i), k, x)
    PROVE  Moved(s, t, i, x)
<1> DEFINE n == Len(s)
           r == RemoveAt(s, i)
           skip(j) == IF j < i THEN j ELSE j + 1
           from == [j \in 1 .. n |-> IF j < k THEN skip(j) ELSE IF j = k THEN i ELSE skip(j - 1)]
<1>1. n \in Nat /\ DOMAIN s = 1 .. n /\ i \in 1 .. n /\ k \in 1 .. n
  BY ListFacts
<1>2. /\ IsList(r) /\ Len(r) = n - 1
      /\ \A j \in 1 .. n - 1 : r[j] = s[skip(j)]
  BY RemovedRow
<1> HIDE DEF r
<1>3. /\ IsList(t) /\ Len(t) = n
      /\ \A j \in 1 .. n : t[j] = IF j < k THEN r[j] ELSE IF j = k THEN x ELSE r[j - 1]
  <2>1. k \in 1 .. Len(r) + 1 /\ (n - 1) + 1 = n
    BY <1>1, <1>2
  <2>2. t = InsertAt(r, k, x)
    BY DEF r
  <2> QED
    BY <1>2, <2>1, <2>2, InsertedRow
<1>4. DOMAIN t = 1 .. n
  BY <1>3, ListFacts
<1>5. from \in [1 .. n -> 1 .. n]
  BY <1>1
<1>6. \A j, l \in 1 .. n : from[j] = from[l] => j = l
  BY <1>1
<1>7. \A j \in 1 .. n : from[j] = i <=> j = k
  BY <1>1
<1>8. \A j \in 1 .. n : t[j] = IF from[j] = i THEN x ELSE s[from[j]]
  <2> SUFFICES ASSUME NEW j \in 1 .. n
               PROVE  t[j] = IF from[j] = i THEN x ELSE s[from[j]]
    OBVIOUS
  <2>1. CASE j < k
    <3>1. j \in 1 .. n - 1 /\ from[j] = skip(j) /\ from[j] # i
      BY <1>1, <2>1
    <3> HIDE DEF from, skip
    <3> QED
      BY <1>2, <1>3, <2>1, <3>1
  <2>2. CASE j = k
    <3> HIDE DEF from
    <3> QED
      BY <1>1, <1>3, <1>7, <2>2
  <2>3. CASE j > k
    <3>1. j - 1 \in 1 .. n - 1 /\ ~(j < k) /\ j # k
      BY <1>1, <2>3
    <3>2. from[j] = skip(j - 1)
      BY <3>1
    <3>3. from[j] # i
      BY <1>7, <3>1
    <3> HIDE DEF from, skip
    <3> QED
      BY <1>2, <1>3, <3>1, <3>2, <3>3
  <2> QED
    BY <1>1, <2>1, <2>2, <2>3
<1> HIDE DEF from
<1>9. \A j \in 1 .. n : \E l \in 1 .. n : from[l] = j
  BY <1>1, <1>5, <1>6, InjectionReaches
<1>10. /\ IsList(t) /\ DOMAIN t = DOMAIN s
       /\ \E f \in [DOMAIN s -> DOMAIN s] :
             /\ \A j, l \in DOMAIN s : f[j] = f[l] => j = l
             /\ \A j \in DOMAIN s : \E l \in DOMAIN s : f[l] = j
             /\ \A j \in DOMAIN s : t[j] = IF f[j] = i THEN x ELSE s[f[j]]
  <2>1. DOMAIN s = 1 .. n
    BY <1>1
  <2> HIDE DEF n
  <2>2. \E f \in [DOMAIN s -> DOMAIN s] :
             /\ \A j, l \in DOMAIN s : f[j] = f[l] => j = l
             /\ \A j \in DOMAIN s : \E l \in DOMAIN s : f[l] = j
             /\ \A j \in DOMAIN s : t[j] = IF f[j] = i THEN x ELSE s[f[j]]
    <3>1. from \in [DOMAIN s -> DOMAIN s]
      BY <1>5, <2>1
    <3> DEFINE Good(f) ==
           /\ \A j, l \in DOMAIN s : f[j] = f[l] => j = l
           /\ \A j \in DOMAIN s : \E l \in DOMAIN s : f[l] = j
           /\ \A j \in DOMAIN s : t[j] = IF f[j] = i THEN x ELSE s[f[j]]
    <3>2. Good(from)
      BY <1>6, <1>8, <1>9, <2>1
    <3> HIDE DEF Good
    <3>3. \E f \in [DOMAIN s -> DOMAIN s] : Good(f)
      BY <3>1, <3>2
    <3> QED
      BY <3>3 DEF Good
  <2> QED
    BY <1>3, <1>4, <2>1, <2>2
<1> QED
  BY <1>10 DEF Moved

-----------------------------------------------------------------------------
(***************************************************************************)
(* The endpoints: whose row it is, what it says, and who has looked it up. *)
(***************************************************************************)
\* The secret that an endpoint was handed out, and the ids there are.
SecretOf(id) == IF id = Registered.id THEN Registered.secret.text ELSE Secret(id)
IsIssued(id) == id = Registered.id \/ \E c \in Call : call[c].id = id

\* An id is that of one call only.
IdOf(c) ==
    call[c].id # Nil =>
        /\ call[c].id \in EndpointId \ {Registered.id}
        /\ \A d \in Call : call[d].id = call[c].id => d = c

\* Nobody names an id before it is issued.
KnownOf(c) ==
    LET s == call[c]
    IN  s.pc \notin Silent /\ Route(s.m) = "update" /\ s.m.path[2] \in EndpointId =>
            IsIssued(s.m.path[2])

\* The statement of an update has been run.
Done(c) == call[c].pc = "updated" \/ Accepted(c)

\* The updates that asked for a field of an endpoint.
AskedOf(id, f) ==
    {c \in Call : /\ Is(c, "update") /\ call[c].p.id = id /\ AskedFor(call[c].p)[f] # Nil
                  /\ call[c].pc \in {"updated", "answered", "cut"}}

\* FieldsKept, of one field, and of updates not answered yet.
FieldOf(row, f) ==
    \/ \E c \in AskedOf(row.id, f) : row[f] = AskedFor(call[c].p)[f]
    \/ /\ row[f] = AsRegistered(row.id)[f]
       /\ failures = 0 => \A c \in AskedOf(row.id, f) : ~Done(c)

\* A row is that of an id issued, with its secret, sealed with the key of its time.
RowOk(row) ==
    /\ DOMAIN row = DOMAIN Registered
    /\ row.id # Nil /\ IsIssued(row.id)
    /\ row.secret.text = SecretOf(row.id)
    /\ encryptionKey = 0 => row.secret.under = 0
    /\ row.url = AsRegistered(row.id).url
    /\ \A f \in Field : FieldOf(row, f)

\* One row per id, the one registered before among them.
Rows ==
    /\ IsList(endpoint)
    /\ \E i \in DOMAIN endpoint : endpoint[i].id = Registered.id
    /\ \A i, j \in DOMAIN endpoint : endpoint[i].id = endpoint[j].id => i = j
    /\ \A i \in DOMAIN endpoint : RowOk(endpoint[i])

\* What an accepted call was told of a secret is true.
ReplyOf(c) ==
    Accepted(c) =>
        /\ Route(call[c].m) = "register" => call[c].reply.body.secret = Secret(call[c].id)
        /\ Route(call[c].m) = "get" /\ encryptionKey = 0 =>
              /\ call[c].p.id # Nil /\ IsIssued(call[c].p.id)
              /\ call[c].reply.body.secret = SecretOf(call[c].p.id)

\* The inductive invariant of the endpoints.
EndpointInv ==
    /\ encryptionKey \in Nat
    /\ \A c \in Call : IdOf(c) /\ KnownOf(c) /\ ReplyOf(c)
    /\ Rows

\* An update that is under way, answered or cut remains one of them.
LEMMA UpdatedStays ==
    ASSUME Control, [Next]_vars, NEW c \in Call, call[c].pc \in {"updated", "answered", "cut"}
    PROVE  call'[c].pc \in {"updated", "answered", "cut"}
<1>1. TypedCalls /\ CallOf(c)
  BY DEF Control
<1>2. CASE Crash
  BY <1>1, <1>2, CrashCuts
<1>3. CASE UpdateReply(c)
  BY <1>1, <1>3, UpdateReplySets
<1>4. ~(TypeCommand(c) \/ SendRaw(c) \/ Handler(c)) \/ UpdateReply(c)
  <2>1. ~(TypeCommand(c) \/ SendRaw(c) \/ Decode(c) \/ Authorise(c) \/ InsertEvents(c))
    BY <1>1, TypeCommandSets, SendRawSets, DecodeSets, AuthoriseSets, InsertEventsSets
  <2>2. ~(EnqueueEvent(c) \/ SubmitReply(c) \/ Register(c) \/ RegisterReply(c))
    BY <1>1, EnqueueEventSets, SubmitReplySets, RegisterSets, RegisterReplySets
  <2>3. ~(Update(c) \/ List(c) \/ Get(c))
    BY <1>1, UpdateSets, ListSets, GetSets
  <2> QED
    BY <2>1, <2>2, <2>3 DEF Handler
<1> QED
  BY <1>2, <1>3, <1>4, OneMoves

\* An update is done once its statement is.
LEMMA DoneOnce ==
    ASSUME Control, [Next]_vars, NEW c \in Call, Done(c)', Route(call'[c].m) = "update"
    PROVE  Done(c) \/ Update(c)
<1>1. TypedCalls /\ CallOf(c)
  BY DEF Control
<1>2. ASSUME Accepted(c)', ~Accepted(c), ~UpdateReply(c)
      PROVE  FALSE
  <2>1. SubmitReply(c) \/ RegisterReply(c) \/ List(c) \/ Get(c)
    BY <1>2, AcceptedOnce
  <2>2. Only(c, {"pc", "reply"}) /\ call[c].pc \in {"queueing", "registered", "list", "get"}
    BY <1>1, <2>1, SubmitReplySets, RegisterReplySets, ListSets, GetSets
  <2>3. Route(call[c].m) # "update" /\ call'[c].m = call[c].m
    BY <1>1, <2>2 DEF CallOf, Only, FieldNames
  <2> QED
    BY <2>3
<1>3. CASE UpdateReply(c)
  BY <1>1, <1>3, UpdateReplySets DEF Done
<1>4. ASSUME call'[c].pc = "updated", call[c].pc # "updated"
      PROVE  Update(c)
  <2>1. CASE Crash
    BY <1>1, <1>4, <2>1, CrashCuts
  <2>2. CASE TypeCommand(c) \/ SendRaw(c) \/ Decode(c)
    BY <1>1, <1>4, <2>2, TypeCommandSets, SendRawSets, DecodeSets
  <2>3. CASE Authorise(c)
    <3>1. call'[c].pc = Route(call[c].m) \/ call'[c].pc = "answered"
      BY <1>1, <2>3, AuthoriseSets
    <3> QED
      BY <1>4, <3>1, Routes
  <2>4. CASE InsertEvents(c) \/ SubmitReply(c) \/ Register(c) \/ RegisterReply(c)
    BY <1>1, <1>4, <2>4, InsertEventsSets, SubmitReplySets, RegisterSets, RegisterReplySets
  <2>5. CASE EnqueueEvent(c)
    <3>1. call'[c].pc = call[c].pc
      BY <1>1, <2>5, EnqueueEventSets DEF Only, FieldNames
    <3> QED
      BY <1>4, <3>1
  <2>6. CASE UpdateReply(c) \/ List(c) \/ Get(c)
    BY <1>1, <1>4, <2>6, UpdateReplySets, ListSets, GetSets
  <2> QED
    BY <1>4, <2>1, <2>2, <2>3, <2>4, <2>5, <2>6, OneMoves DEF Handler
<1> QED
  BY <1>2, <1>3, <1>4 DEF Done

\* The updates that asked for a field stay those; ...
LEMMA AskedStays ==
    ASSUME Control, [Next]_vars, NEW id, NEW f, NEW c \in AskedOf(id, f)
    PROVE  c \in AskedOf(id, f)' /\ call'[c].p = call[c].p
<1>1. c \in Call /\ call[c].p # Nil /\ call[c].pc \in {"updated", "answered", "cut"}
  BY DEF AskedOf, Is
<1>2. call'[c].p = call[c].p /\ call'[c].m = call[c].m
  BY <1>1, EveryCallStays DEF Stays
<1>3. call'[c].pc \in {"updated", "answered", "cut"}
  BY <1>1, UpdatedStays
<1> QED
  BY <1>1, <1>2, <1>3 DEF AskedOf, Is

\* ... and those of them that are done were done, or are right now.
LEMMA AskedBefore ==
    ASSUME Control, [Next]_vars, NEW id, NEW f, NEW c \in Call, c \in AskedOf(id, f)', Done(c)'
    PROVE  Update(c) \/ (c \in AskedOf(id, f) /\ Done(c))
<1>1. Route(call'[c].m) = "update"
  BY DEF AskedOf, Is
<1>2. Done(c) \/ Update(c)
  BY <1>1, DoneOnce
<1>3. ASSUME Done(c) PROVE c \in AskedOf(id, f)
  <2>1. call[c].p # Nil /\ call[c].pc \in {"updated", "answered", "cut"}
    BY <1>3 DEF Control, CallOf, Done, Accepted, At, Working
  <2>2. call'[c].p = call[c].p /\ call'[c].m = call[c].m
    BY <2>1, EveryCallStays DEF Stays
  <2> QED
    BY <2>1, <2>2 DEF AskedOf, Is
<1> QED
  BY <1>2, <1>3

\* The endpoints change only where one is registered or updated.
LEMMA EndpointsStay ==
    ASSUME [Next]_vars, \A c \in Call : ~Register(c) /\ ~Update(c)
    PROVE  endpoint' = endpoint
BY DEF Next, Handler, TypeCommand, SendRaw, Decode, Authorise, InsertEvents, EnqueueEvent,
   SubmitReply, RegisterReply, UpdateReply, List, Get, CreateAPIKey, Crash, vars, tables

\* A server that is started again has the key of the last one, or another.
LEMMA KeyStays ==
    ASSUME [Next]_vars, encryptionKey \in Nat
    PROVE  encryptionKey' \in Nat /\ (encryptionKey' = 0 => encryptionKey = 0)
<1>1. encryptionKey' \in {encryptionKey, encryptionKey + 1}
  BY DEF Next, Handler, TypeCommand, SendRaw, Decode, Authorise, InsertEvents, EnqueueEvent,
     SubmitReply, Register, RegisterReply, Update, UpdateReply, List, Get, CreateAPIKey, Crash, vars
<1> QED
  BY <1>1

-----------------------------------------------------------------------------
(***************************************************************************)
(* Ids are issued once, and named only once they are.                      *)
(***************************************************************************)
LEMMA IdsStay ==
    ASSUME Control, [Next]_vars, NEW c \in Call, call[c].id # Nil
    PROVE  call'[c].id = call[c].id /\ call'[c].p = call[c].p /\ call[c].p # Nil
BY EveryCallStays DEF Stays, Control, CallOf, Unspoiled

LEMMA IssuedStays ==
    ASSUME Control, [Next]_vars, NEW id, id # Nil, IsIssued(id)
    PROVE  IsIssued(id)'
BY IdsStay DEF IsIssued

\* Another id is that of no call, and of no row.
LEMMA UnusedId ==
    ASSUME Rows, NEW id \in EndpointId \ Used
    PROVE  /\ id # Nil /\ id # Registered.id /\ \A c \in Call : call[c].id # id
           /\ \A i \in DOMAIN endpoint : endpoint[i].id # id
BY EndpointAssumption DEF Used, Rows

LEMMA IdStep ==
    ASSUME Control, EndpointInv, [Next]_vars, NEW c \in Call
    PROVE  IdOf(c)'
<1>1. TypedCalls /\ \A d \in Call : IdOf(d)
  BY DEF Control, EndpointInv
<1>2. CASE \E d \in Call : Register(d)
  <2>1. PICK d \in Call : Register(d)
    BY <1>2
  <2>2. PICK id \in EndpointId \ Used : Only(d, {"pc", "id", "wrote"}) /\ call'[d].id = id
    BY <1>1, <2>1, RegisterSets
  <2>3. /\ id # Nil /\ id # Registered.id /\ \A e \in Call : call[e].id # id
    BY <2>2, UnusedId DEF EndpointInv
  <2>4. \A e \in Call : e # d => call'[e].id = call[e].id
    BY <2>2 DEF Only
  <2> QED
    BY <1>1, <2>2, <2>3, <2>4 DEF IdOf
<1>3. CASE \A d \in Call : ~Register(d)
  <2>1. \A d \in Call : call'[d].id = call[d].id
    BY <1>3, EveryCallStays DEF Stays
  <2> QED
    BY <1>1, <2>1 DEF IdOf
<1> QED
  BY <1>2, <1>3

LEMMA KnownStep ==
    ASSUME Control, EndpointInv, [Next]_vars, NEW c \in Call
    PROVE  KnownOf(c)'
<1> SUFFICES ASSUME NEW id \in EndpointId, call'[c].pc \notin Silent,
                    Route(call'[c].m) = "update", call'[c].m.path[2] = id
             PROVE  IsIssued(id)'
  BY DEF KnownOf, IsIssued
<1>1. TypedCalls /\ KnownOf(c)
  BY DEF Control, EndpointInv
<1>2. id # Nil
  BY EndpointAssumption
<1>3. CASE TypeCommand(c)
  <2>1. PICK t \in Command :
           Names(t) /\ Built(t) # Nil /\ call'[c].m = Encoded(t.method, Built(t))
    BY <1>1, <1>3, TypeCommandSets DEF Silent
  <2>2. t.method \in {"submit", "register", "update", "list", "get"}
    BY CommandAssumption
  <2>3. t.method = "update" /\ call'[c].m.path = <<"endpoints", Built(t).id>>
    BY <2>1, <2>2, EncodedRoute
  <2>4. Built(t) = BuildUpdatePayload(t.body, t.id, t.token)
    BY <2>3 DEF Built
  <2>5. Built(t).id = t.id
    BY <2>1, <2>4 DEF BuildUpdatePayload
  <2>6. t.id = id
    BY <2>3, <2>5
  <2>7. id \in Issued
    BY <2>1, <2>3, <2>6, CommandAssumption DEF Names
  <2>8. IsIssued(id)
    BY <2>7 DEF Issued, IsIssued
  <2> QED
    BY <1>2, <2>8, IssuedStays
<1>4. CASE SendRaw(c)
  <2>1. call'[c].m \in RawRequest
    BY <1>1, <1>4, SendRawSets
  <2>2. Len(call'[c].m.path) = 2
    BY DEF Route, Single
  <2> QED
    BY <2>1, <2>2, RawAssumption
<1>5. CASE /\ call'[c].m = call[c].m
           /\ call'[c].pc \notin Silent => call[c].pc \notin Silent
  BY <1>1, <1>2, <1>5, IssuedStays DEF KnownOf
<1> QED
  BY <1>3, <1>4, <1>5, EveryCallStays DEF Stays

\* Whose id it is.
LEMMA TheOne ==
    ASSUME NEW cs, NEW d \in Call, \A c \in Call : cs[c].id = cs[d].id => c = d
    PROVE  (CHOOSE c \in Call : cs[c].id = cs[d].id) = d
OBVIOUS

Fresh(p) == [url |-> p.url, enabled_events |-> p.enabled_events,
             metadata |-> Omitted(p.metadata), status |-> "enabled"]

\* What an endpoint was registered as does not change.
LEMMA RegisteredAs ==
    ASSUME NEW c \in Call, IdOf(c), call[c].id # Nil
    PROVE  AsRegistered(call[c].id) = Fresh(call[c].p)
<1>1. call[c].id # Registered.id /\ \A d \in Call : call[d].id = call[c].id => d = c
  BY DEF IdOf
<1>2. (CHOOSE d \in Call : call[d].id = call[c].id) = c
  BY <1>1, TheOne
<1> QED
  BY <1>1, <1>2 DEF AsRegistered, Fresh

LEMMA AsRegisteredStays ==
    ASSUME Control, EndpointInv, [Next]_vars, NEW id, id # Nil, IsIssued(id)
    PROVE  AsRegistered(id)' = AsRegistered(id)
<1>1. CASE id = Registered.id
  BY <1>1 DEF AsRegistered
<1>2. CASE id # Registered.id
  <2>1. PICK c \in Call : call[c].id = id
    BY <1>2 DEF IsIssued
  <2>2. IdOf(c) /\ IdOf(c)'
    BY IdStep DEF EndpointInv
  <2>3. call'[c].id = id /\ call'[c].p = call[c].p
    BY <2>1, IdsStay
  <2>4. AsRegistered(id) = Fresh(call[c].p)
    BY <2>1, <2>2, RegisteredAs
  <2>5. AsRegistered(id)' = Fresh(call'[c].p)
    <3>1. \A d \in Call : call'[d].id = call'[c].id => d = c
      BY <2>2, <2>3 DEF IdOf
    <3>2. (CHOOSE d \in Call : call'[d].id = call'[c].id) = c
      BY <3>1, TheOne
    <3> QED
      BY <1>2, <2>3, <3>2 DEF AsRegistered, Fresh
  <2> QED
    BY <2>3, <2>4, <2>5
<1> QED
  BY <1>1, <1>2

-----------------------------------------------------------------------------
(***************************************************************************)
(* The rows of the endpoints.                                              *)
(***************************************************************************)
\* A field that no update sets now is as its row was registered or updated before.
LEMMA FieldKept ==
    ASSUME Control, BatchInv, EndpointInv, [Next]_vars, NEW f \in Field, NEW row, NEW new,
           row.id # Nil, IsIssued(row.id), FieldOf(row, f), new.id = row.id, new[f] = row[f],
           failures' = 0 => \A c \in Call : Update(c) => c \notin AskedOf(row.id, f)'
    PROVE  FieldOf(new, f)'
<1> DEFINE id == row.id
<1>1. AsRegistered(id)' = AsRegistered(id)
  BY AsRegisteredStays
<1>2. failures' = 0 => failures = 0
  BY FailuresGrow DEF BatchInv
<1>3. CASE \E c \in AskedOf(id, f) : row[f] = AskedFor(call[c].p)[f]
  <2>1. PICK c \in AskedOf(id, f) : row[f] = AskedFor(call[c].p)[f]
    BY <1>3
  <2>2. c \in AskedOf(id, f)' /\ call'[c].p = call[c].p
    BY AskedStays
  <2> QED
    BY <2>1, <2>2 DEF FieldOf
<1>4. CASE /\ row[f] = AsRegistered(id)[f]
           /\ failures = 0 => \A c \in AskedOf(id, f) : ~Done(c)
  <2>1. ASSUME failures' = 0, NEW c \in Call, c \in AskedOf(id, f)', Done(c)'
        PROVE  FALSE
    BY <1>2, <1>4, <2>1, AskedBefore
  <2>2. new[f] = AsRegistered(id)'[f]
    BY <1>1, <1>4
  <2>3. \A c \in AskedOf(id, f)' : c \in Call
    BY DEF AskedOf
  <2> QED
    BY <2>1, <2>2, <2>3 DEF FieldOf
<1> QED
  BY <1>3, <1>4 DEF FieldOf

\* A row that is not updated stays as it should be.
LEMMA RowKept ==
    ASSUME Control, BatchInv, EndpointInv, [Next]_vars, NEW row, RowOk(row),
           failures' = 0 => \A c \in Call : Update(c) => call[c].p.id # row.id
    PROVE  RowOk(row)'
<1>1. /\ row.id # Nil /\ IsIssued(row.id) /\ IsIssued(row.id)'
  BY IssuedStays DEF RowOk
<1>2. encryptionKey' = 0 => encryptionKey = 0
  BY KeyStays DEF EndpointInv
<1>3. ASSUME NEW f \in Field PROVE FieldOf(row, f)'
  <2>1. ASSUME NEW c \in Call, Update(c), call[c].p.id # row.id
        PROVE  c \notin AskedOf(row.id, f)'
    <3>1. call'[c].p = call[c].p
      BY <2>1, UpdateSets DEF Control, Only, FieldNames
    <3> QED
      BY <2>1, <3>1 DEF AskedOf
  <2>2. FieldOf(row, f)
    BY DEF RowOk
  <2> QED
    BY <1>1, <2>1, <2>2, FieldKept
<1>4. AsRegistered(row.id)' = AsRegistered(row.id)
  BY <1>1, AsRegisteredStays
<1> QED
  BY <1>1, <1>2, <1>3, <1>4 DEF RowOk

LEMMA RowsUnchanged ==
    ASSUME Control, BatchInv, EndpointInv, [Next]_vars, endpoint' = endpoint,
           failures' = 0 => \A c \in Call : Update(c) => RowsOf(call[c].p.id) = {}
    PROVE  Rows'
<1>1. ASSUME NEW i \in DOMAIN endpoint PROVE RowOk(endpoint[i])'
  <2>1. PICK row : row = endpoint[i]
    OBVIOUS
  <2>2. RowOk(row)
    BY <2>1 DEF EndpointInv, Rows
  <2>3. failures' = 0 => \A c \in Call : Update(c) => call[c].p.id # row.id
    BY <2>1 DEF RowsOf
  <2>4. RowOk(row)'
    BY <2>2, <2>3, RowKept
  <2> QED
    BY <2>1, <2>4
<1> QED
  BY <1>1 DEF EndpointInv, Rows

\* No two calls step at once.
LEMMA UpdateAlone ==
    ASSUME TypedCalls, NEW c \in Call, NEW F, Only(c, F), NEW d \in Call, Update(d)
    PROVE  d = c
<1>1. call[d].pc = "update" /\ call'[d].pc = "updated"
  BY UpdateSets
<1> QED
  BY <1>1 DEF Only

\* The row of a new endpoint.
LEMMA NewRow ==
    ASSUME Control, BatchInv, EndpointInv, [Next]_vars, NEW c \in Call, NEW id \in EndpointId \ Used,
           Only(c, {"pc", "id", "wrote"}), call[c].pc = "register", call'[c].id = id,
           encryptionKey' = encryptionKey, NEW row,
           row = [id |-> id, url |-> call[c].p.url, secret |-> Sealed(Secret(id)),
                  enabled_events |-> call[c].p.enabled_events,
                  metadata |-> Omitted(call[c].p.metadata), status |-> "enabled"]
    PROVE  RowOk(row)'
<1>1. /\ id # Nil /\ id # Registered.id /\ \A d \in Call : call[d].id # id
  BY UnusedId DEF EndpointInv
<1>2. /\ call'[c].p = call[c].p /\ call'[c].m = call[c].m
      /\ Route(call[c].m) = "register" /\ \A d \in Call : d # c => call'[d] = call[d]
  BY DEF Only, FieldNames, Control, CallOf
<1>3. row.id = id /\ DOMAIN row = DOMAIN Registered /\ IsIssued(id)'
  BY EndpointAssumption DEF IsIssued
<1>4. row.secret.text = SecretOf(id) /\ row.secret.under = encryptionKey
  BY <1>1 DEF SecretOf, Sealed
<1>5. AsRegistered(id)' = Fresh(call[c].p)
  <2>1. \A d \in Call : call'[d].id = call'[c].id => d = c
    BY <1>1, <1>2
  <2>2. (CHOOSE d \in Call : call'[d].id = call'[c].id) = c
    BY <2>1, TheOne
  <2> QED
    BY <1>1, <1>2, <2>2 DEF AsRegistered, Fresh
<1>6. ASSUME NEW f, NEW d \in Call, d \in AskedOf(id, f)'
      PROVE  FALSE
  <2>1. call'[d].p # Nil /\ Route(call'[d].m) = "update" /\ call'[d].p.id = id
    BY <1>6 DEF AskedOf, Is
  <2>2. d # c /\ call'[d] = call[d]
    BY <1>2, <2>1
  <2>3. call[d].p = Decoded(call[d].m) /\ call[d].p # Nil /\ call[d].pc \notin Silent
    BY <2>1, <2>2 DEF Control, CallOf, Silent
  <2>4. call[d].p.id = call[d].m.path[2]
    BY <2>1, <2>2, <2>3 DEF Decoded, DecodeUpdateRequest
  <2>5. IsIssued(id)
    BY <2>1, <2>2, <2>3, <2>4 DEF EndpointInv, KnownOf
  <2> QED
    BY <1>1, <2>5 DEF IsIssued
<1>7. ASSUME NEW f \in Field PROVE FieldOf(row, f)'
  <2>1. row[f] = Fresh(call[c].p)[f]
    BY <1>7 DEF Field, Fresh
  <2>2. \A d \in AskedOf(id, f)' : d \in Call
    BY DEF AskedOf
  <2> QED
    BY <1>3, <1>5, <1>6, <2>1, <2>2 DEF FieldOf
<1>8. row.url = Fresh(call[c].p).url
  BY DEF Fresh
<1> QED
  BY <1>1, <1>3, <1>4, <1>5, <1>7, <1>8 DEF RowOk

LEMMA RowsRegistered ==
    ASSUME Control, BatchInv, EndpointInv, [Next]_vars, NEW c \in Call, Register(c)
    PROVE  Rows'
<1>1. TypedCalls /\ Rows
  BY DEF Control, EndpointInv
<1>2. PICK id \in EndpointId \ Used :
        /\ Only(c, {"pc", "id", "wrote"})
        /\ call[c].pc = "register" /\ call'[c].pc = "registered" /\ call'[c].id = id
        /\ \/ endpoint' = Append(endpoint,
                 [id |-> id, url |-> call[c].p.url, secret |-> Sealed(Secret(id)),
                  enabled_events |-> call[c].p.enabled_events,
                  metadata |-> Omitted(call[c].p.metadata), status |-> "enabled"])
           \/ UNCHANGED endpoint
  BY <1>1, RegisterSets
<1>3. \A d \in Call : ~Update(d)
  <2> SUFFICES ASSUME NEW d \in Call, Update(d) PROVE FALSE
    OBVIOUS
  <2>1. d = c
    BY <1>1, <1>2, UpdateAlone
  <2> QED
    BY <1>1, <1>2, <2>1, UpdateSets
<1>4. CASE UNCHANGED endpoint
  BY <1>3, <1>4, RowsUnchanged
<1>5. PICK row :
         row = [id |-> id, url |-> call[c].p.url, secret |-> Sealed(Secret(id)),
                enabled_events |-> call[c].p.enabled_events,
                metadata |-> Omitted(call[c].p.metadata), status |-> "enabled"]
  OBVIOUS
<1>6. CASE endpoint' = Append(endpoint, row)
  <2>1. /\ IsList(endpoint') /\ Len(endpoint') = Len(endpoint) + 1
        /\ \A i \in DOMAIN endpoint : endpoint'[i] = endpoint[i]
        /\ endpoint'[Len(endpoint) + 1] = row
    BY <1>1, <1>6, ListAppends DEF Rows
  <2>2. /\ Len(endpoint) \in Nat /\ DOMAIN endpoint = 1 .. Len(endpoint)
        /\ DOMAIN endpoint' = 1 .. Len(endpoint')
    BY <1>1, <2>1, ListFacts DEF Rows
  <2>3. DOMAIN endpoint' = DOMAIN endpoint \cup {Len(endpoint) + 1}
    BY <2>1, <2>2
  <2>4. RowOk(row)'
    <3>1. encryptionKey' = encryptionKey
      BY DEF Register
    <3> QED
      BY <1>2, <1>5, <3>1, NewRow
  <2>5. ASSUME NEW i \in DOMAIN endpoint PROVE RowOk(endpoint[i])'
    <3>1. PICK old : old = endpoint[i]
      OBVIOUS
    <3>2. RowOk(old) /\ RowOk(old)'
      BY <1>1, <1>3, <3>1, RowKept DEF Rows
    <3> QED
      BY <2>1, <3>1, <3>2
  <2>6. ASSUME NEW i \in DOMAIN endpoint' PROVE RowOk(endpoint[i])'
    BY <2>1, <2>3, <2>4, <2>5
  <2>7. row.id = id /\ \A i \in DOMAIN endpoint : endpoint[i].id # id
    BY <1>1, <1>5, UnusedId
  <2>8. \A i, j \in DOMAIN endpoint' : endpoint'[i].id = endpoint'[j].id => i = j
    BY <1>1, <2>1, <2>3, <2>7 DEF Rows
  <2>9. \E i \in DOMAIN endpoint' : endpoint'[i].id = Registered.id
    BY <1>1, <2>1, <2>3 DEF Rows
  <2> QED
    BY <2>1, <2>6, <2>8, <2>9 DEF Rows
<1> QED
  BY <1>2, <1>4, <1>5, <1>6

\* Updated writes the fields the payload sets, and no other.
LEMMA UpdatedFields ==
    ASSUME NEW row, NEW p, DOMAIN row = DOMAIN Registered
    PROVE  /\ DOMAIN Updated(row, p) = DOMAIN Registered
           /\ \A f \in DOMAIN Registered \ Field : Updated(row, p)[f] = row[f]
           /\ \A f \in Field : Updated(row, p)[f] = IF AskedFor(p)[f] = Nil THEN row[f]
                                                    ELSE AskedFor(p)[f]
<1>1. DOMAIN row = {"id", "url", "secret", "enabled_events", "metadata", "status"}
  BY EndpointAssumption
<1>2. Nil # "enabled" /\ Nil # "disabled"
  BY EndpointAssumption
<1>3. DOMAIN Updated(row, p) = DOMAIN row
  BY DEF Updated
<1>4. /\ Updated(row, p).id = row.id /\ Updated(row, p).url = row.url
      /\ Updated(row, p).secret = row.secret
  BY <1>1 DEF Updated
<1>5. /\ Updated(row, p).enabled_events =
            IF Unset(p.enabled_events) THEN row.enabled_events ELSE p.enabled_events
      /\ Updated(row, p).metadata = IF Unset(p.metadata) THEN row.metadata ELSE p.metadata
      /\ Updated(row, p).status = IF p.disabled = Nil THEN row.status
                                  ELSE IF p.disabled THEN "disabled" ELSE "enabled"
  BY <1>1 DEF Updated
<1>6. /\ AskedFor(p).enabled_events = IF Unset(p.enabled_events) THEN Nil ELSE p.enabled_events
      /\ AskedFor(p).metadata = IF Unset(p.metadata) THEN Nil ELSE p.metadata
      /\ AskedFor(p).status = IF p.disabled = Nil THEN Nil
                              ELSE IF p.disabled THEN "disabled" ELSE "enabled"
  BY DEF AskedFor
<1>7. \A x : ~Unset(x) => x # Nil
  BY DEF Unset
<1>8. ASSUME NEW f \in Field
      PROVE  Updated(row, p)[f] = IF AskedFor(p)[f] = Nil THEN row[f] ELSE AskedFor(p)[f]
  <2>1. CASE f = "enabled_events"
    BY <1>5, <1>6, <1>7, <2>1
  <2>2. CASE f = "metadata"
    BY <1>5, <1>6, <1>7, <2>2
  <2>3. CASE f = "status"
    BY <1>2, <1>5, <1>6, <2>3
  <2> QED
    BY <2>1, <2>2, <2>3 DEF Field
<1>9. \A f \in DOMAIN Registered \ Field : Updated(row, p)[f] = row[f]
  BY <1>1, <1>4 DEF Field
<1> QED
  BY <1>3, <1>8, <1>9

\* The row that an update writes.
LEMMA WrittenRow ==
    ASSUME Control, BatchInv, EndpointInv, [Next]_vars, NEW c \in Call, Update(c), NEW old, RowOk(old),
           old.id = call[c].p.id, NEW new, new = Updated(old, call[c].p)
    PROVE  RowOk(new)'
<1> DEFINE p == call[c].p
<1>1. DOMAIN old = DOMAIN Registered /\ old.id # Nil /\ IsIssued(old.id)
  BY DEF RowOk
<1>2. /\ TypedCalls /\ call[c].pc = "update" /\ call'[c].pc = "updated"
      /\ Only(c, {"pc", "wrote"})
  BY UpdateSets DEF Control
<1>3. /\ call'[c].p = p /\ call'[c].m = call[c].m /\ p # Nil /\ Route(call[c].m) = "update"
  BY <1>2 DEF Only, FieldNames, Control, CallOf, Working
<1>4. /\ DOMAIN new = DOMAIN Registered /\ new.id = old.id /\ new.secret = old.secret
      /\ new.url = old.url
      /\ \A f \in Field : new[f] = IF AskedFor(p)[f] = Nil THEN old[f] ELSE AskedFor(p)[f]
  <2> HIDE DEF p
  <2>1. {"id", "secret", "url"} \subseteq DOMAIN Registered \ Field
    BY EndpointAssumption DEF Field
  <2> QED
    BY <1>1, <2>1, UpdatedFields DEF p
<1>5. IsIssued(new.id)'
  BY <1>1, <1>4, IssuedStays
<1>6. encryptionKey' = 0 => encryptionKey = 0
  BY KeyStays DEF EndpointInv
<1>7. ASSUME NEW f \in Field PROVE FieldOf(new, f)'
  <2>1. CASE AskedFor(p)[f] = Nil
    <3>1. \A d \in Call : Update(d) => d = c
      BY <1>2, UpdateAlone
    <3>2. c \notin AskedOf(old.id, f)'
      BY <1>3, <2>1 DEF AskedOf
    <3>3. new[f] = old[f] /\ FieldOf(old, f)
      BY <1>4, <2>1 DEF RowOk
    <3> QED
      BY <1>1, <1>4, <3>1, <3>2, <3>3, FieldKept
  <2>2. CASE AskedFor(p)[f] # Nil
    <3>1. c \in AskedOf(new.id, f)'
      BY <1>2, <1>3, <1>4, <2>2 DEF AskedOf, Is
    <3>2. new[f] = AskedFor(call'[c].p)[f]
      BY <1>3, <1>4, <2>2
    <3> QED
      BY <3>1, <3>2 DEF FieldOf
  <2> QED
    BY <2>1, <2>2
<1>8. AsRegistered(old.id)' = AsRegistered(old.id)
  BY <1>1, AsRegisteredStays
<1> QED
  BY <1>1, <1>4, <1>5, <1>6, <1>7, <1>8 DEF RowOk

LEMMA RowsUpdated ==
    ASSUME Control, BatchInv, EndpointInv, [Next]_vars, NEW c \in Call, Update(c)
    PROVE  Rows'
<1>1. TypedCalls /\ Rows
  BY DEF Control, EndpointInv
<1>2. /\ Only(c, {"pc", "wrote"})
      /\ \/ \E i \in RowsOf(call[c].p.id), n \in DOMAIN endpoint :
               endpoint' = InsertAt(RemoveAt(endpoint, i), n, Updated(endpoint[i], call[c].p))
         \/ (RowsOf(call[c].p.id) = {} \/ Fails) /\ UNCHANGED endpoint
  BY <1>1, UpdateSets
<1>3. \A d \in Call : Update(d) => d = c
  BY <1>1, <1>2, UpdateAlone
<1>4. CASE (RowsOf(call[c].p.id) = {} \/ Fails) /\ UNCHANGED endpoint
  <2>1. Fails => failures' # 0
    BY DEF Fails, BatchInv
  <2> QED
    BY <1>3, <1>4, <2>1, RowsUnchanged
<1>5. ASSUME NEW i \in RowsOf(call[c].p.id), NEW n \in DOMAIN endpoint,
             endpoint' = InsertAt(RemoveAt(endpoint, i), n, Updated(endpoint[i], call[c].p))
      PROVE  Rows'
  <2>1. i \in DOMAIN endpoint /\ endpoint[i].id = call[c].p.id /\ IsList(endpoint)
    BY <1>1, <1>5 DEF RowsOf, Rows
  <2>2. PICK new : new = Updated(endpoint[i], call[c].p)
    OBVIOUS
  <2>3. /\ IsList(endpoint') /\ DOMAIN endpoint' = DOMAIN endpoint
        /\ \E from \in [DOMAIN endpoint -> DOMAIN endpoint] :
              /\ \A j, l \in DOMAIN endpoint : from[j] = from[l] => j = l
              /\ \A j \in DOMAIN endpoint : \E l \in DOMAIN endpoint : from[l] = j
              /\ \A j \in DOMAIN endpoint :
                    endpoint'[j] = IF from[j] = i THEN new ELSE endpoint[from[j]]
    <3>1. endpoint' = InsertAt(RemoveAt(endpoint, i), n, new)
      BY <1>5, <2>2
    <3>2. Moved(endpoint, endpoint', i, new)
      BY <2>1, <3>1, RowMoves
    <3> QED
      BY <3>2 DEF Moved
  <2>4. PICK from \in [DOMAIN endpoint -> DOMAIN endpoint] :
           /\ \A j, l \in DOMAIN endpoint : from[j] = from[l] => j = l
           /\ \A j \in DOMAIN endpoint : \E l \in DOMAIN endpoint : from[l] = j
           /\ \A j \in DOMAIN endpoint :
                 endpoint'[j] = IF from[j] = i THEN new ELSE endpoint[from[j]]
    BY <2>3
  <2>5. PICK old : old = endpoint[i]
    OBVIOUS
  <2>6. RowOk(old) /\ old.id = call[c].p.id /\ new = Updated(old, call[c].p)
    BY <1>1, <2>1, <2>2, <2>5 DEF Rows
  <2>7. RowOk(new)'
    BY <2>6, WrittenRow
  <2>8. new.id = endpoint[i].id
    <3>1. "id" \in DOMAIN Registered \ Field /\ DOMAIN old = DOMAIN Registered
      BY <2>6, EndpointAssumption DEF Field, RowOk
    <3> QED
      BY <2>5, <2>6, <3>1, UpdatedFields
  <2>9. ASSUME NEW j \in DOMAIN endpoint PROVE RowOk(endpoint[j])'
    <3>1. CASE from[j] = i
      BY <2>4, <2>7, <3>1
    <3>2. CASE from[j] # i
      <4>1. PICK row : row = endpoint[from[j]]
        OBVIOUS
      <4>2. RowOk(row) /\ row.id # call[c].p.id
        BY <1>1, <2>1, <3>2, <4>1 DEF Rows
      <4>3. RowOk(row)'
        BY <1>3, <4>2, RowKept
      <4> QED
        BY <2>4, <3>2, <4>1, <4>3
    <3> QED
      BY <3>1, <3>2
  <2>10. \A j \in DOMAIN endpoint : endpoint'[j].id = endpoint[from[j]].id
    BY <2>4, <2>8
  <2>11. \A j, l \in DOMAIN endpoint' : endpoint'[j].id = endpoint'[l].id => j = l
    BY <1>1, <2>3, <2>4, <2>10 DEF Rows
  <2>12. \E j \in DOMAIN endpoint' : endpoint'[j].id = Registered.id
    <3>1. PICK k \in DOMAIN endpoint : endpoint[k].id = Registered.id
      BY <1>1 DEF Rows
    <3>2. PICK j \in DOMAIN endpoint : from[j] = k
      BY <2>4
    <3>3. j \in DOMAIN endpoint' /\ endpoint'[j].id = Registered.id
      BY <2>3, <2>10, <3>1, <3>2
    <3> QED
      BY <3>3
  <2> QED
    BY <2>3, <2>9, <2>11, <2>12 DEF Rows
<1> QED
  BY <1>2, <1>4, <1>5

LEMMA RowsStep ==
    ASSUME Control, BatchInv, EndpointInv, [Next]_vars
    PROVE  Rows'
<1>1. CASE \E c \in Call : Register(c) \/ Update(c)
  BY <1>1, RowsRegistered, RowsUpdated
<1>2. CASE \A c \in Call : ~Register(c) /\ ~Update(c)
  BY <1>2, EndpointsStay, RowsUnchanged
<1> QED
  BY <1>1, <1>2

\* What a call was told stays true.
LEMMA ReplyStep ==
    ASSUME Control, BatchInv, EndpointInv, [Next]_vars, NEW c \in Call
    PROVE  ReplyOf(c)'
<1> SUFFICES ASSUME Accepted(c)' PROVE ReplyOf(c)'
  BY DEF ReplyOf
<1>1. TypedCalls /\ CallOf(c) /\ CallOf(c)' /\ ReplyOf(c) /\ Rows
  BY ControlStep DEF Control, EndpointInv
<1>2. encryptionKey' = 0 => encryptionKey = 0
  BY KeyStays DEF EndpointInv
<1>3. CASE Accepted(c)
  <2>1. /\ call'[c].reply = call[c].reply /\ call[c].p # Nil
    BY <1>1, <1>3, AnsweredIsOver DEF Accepted, At, CallOf
  <2>2. call'[c].p = call[c].p /\ call'[c].m = call[c].m /\ Stays(c)
    BY <2>1, EveryCallStays DEF Stays
  <2>3. call'[c].id = call[c].id
    BY <1>1, <1>3, <2>2, RegisterSets DEF Stays, Accepted, At
  <2>4. PICK id : id = call[c].p.id
    OBVIOUS
  <2>5. id # Nil /\ IsIssued(id) => IsIssued(id)'
    BY IssuedStays
  <2>6. call'[c].p.id = id
    BY <2>2, <2>4
  <2>7. Route(call[c].m) = "register" => call[c].reply.body.secret = Secret(call[c].id)
    BY <1>1, <1>3 DEF ReplyOf
  <2>8. Route(call[c].m) = "get" /\ encryptionKey = 0 =>
           id # Nil /\ IsIssued(id) /\ call[c].reply.body.secret = SecretOf(id)
    BY <1>1, <1>3, <2>4 DEF ReplyOf
  <2> QED
    BY <1>2, <2>1, <2>2, <2>3, <2>5, <2>6, <2>7, <2>8 DEF ReplyOf, SecretOf, IsIssued
<1>4. CASE RegisterReply(c)
  <2>1. /\ Only(c, {"pc", "reply"}) /\ call[c].pc = "registered"
        /\ call'[c].reply = EncodeRegisterResponse(call[c].id, Secret(call[c].id))
    BY <1>1, <1>4, RegisterReplySets
  <2>2. call'[c].reply.body.secret = Secret(call'[c].id) /\ Route(call'[c].m) = "register"
    BY <1>1, <2>1 DEF EncodeRegisterResponse, Ok, Only, FieldNames, CallOf
  <2> QED
    BY <2>2 DEF ReplyOf
<1>5. CASE Get(c)
  <2>1. PICK i \in RowsOf(call[c].p.id) :
           call'[c].reply = EncodeGetWebhookEndpointByIDResponse(
                               endpoint[i], Opened(endpoint[i].secret))
    BY <1>1, <1>5, GetSets DEF Accepted, At
  <2>2. Only(c, {"pc", "reply"}) /\ call[c].pc = "get"
    BY <1>1, <1>5, GetSets
  <2>3. /\ call'[c].p = call[c].p /\ Route(call'[c].m) = "get"
    BY <1>1, <2>2 DEF Only, FieldNames, CallOf
  <2>4. PICK id : id = call[c].p.id
    OBVIOUS
  <2>5. RowOk(endpoint[i]) /\ endpoint[i].id = id
    BY <1>1, <2>4 DEF Rows, RowsOf
  <2>6. id # Nil /\ IsIssued(id) /\ IsIssued(id)'
    BY <2>5, IssuedStays DEF RowOk
  <2>7. encryptionKey' = 0 => call'[c].reply.body.secret = SecretOf(id)
    <3>1. /\ endpoint[i].secret.text = SecretOf(id)
          /\ encryptionKey = 0 => endpoint[i].secret.under = 0
      BY <2>5 DEF RowOk
    <3>2. call'[c].reply.body.secret = Opened(endpoint[i].secret)
      BY <2>1 DEF EncodeGetWebhookEndpointByIDResponse, Ok
    <3> QED
      BY <1>2, <3>1, <3>2 DEF Opened
  <2>8. call'[c].p.id = id
    BY <2>3, <2>4
  <2> QED
    BY <2>3, <2>6, <2>7, <2>8 DEF ReplyOf, SecretOf, IsIssued
<1>6. CASE SubmitReply(c) \/ UpdateReply(c) \/ List(c)
  <2>1. Only(c, {"pc", "reply"}) /\ call[c].pc \in {"queueing", "updated", "list"}
    BY <1>1, <1>6, SubmitReplySets, UpdateReplySets, ListSets
  <2>2. Route(call'[c].m) \in {"submit", "update", "list"}
    BY <1>1, <2>1 DEF Only, FieldNames, CallOf
  <2> QED
    BY <2>2 DEF ReplyOf
<1> QED
  BY <1>3, <1>4, <1>5, <1>6, AcceptedOnce

LEMMA EndpointInvInit == Init => EndpointInv
<1> SUFFICES ASSUME Init PROVE EndpointInv
  OBVIOUS
<1>1. ASSUME NEW c \in Call
      PROVE  /\ call[c].id = Nil /\ call[c].pc = "none" /\ call[c].p = Nil
             /\ IdOf(c) /\ KnownOf(c) /\ ReplyOf(c)
  <2>1. call[c].id = Nil /\ call[c].pc = "none" /\ call[c].p = Nil
    BY DEF Init, NotMade
  <2> QED
    BY <2>1 DEF IdOf, KnownOf, ReplyOf, Accepted, At, Silent
<1>2. IsList(endpoint) /\ DOMAIN endpoint = {1} /\ endpoint[1] = Registered
  BY OneIsList, ListFacts DEF Init
<1>3. ASSUME NEW f \in Field PROVE FieldOf(Registered, f)
  <2>1. AskedOf(Registered.id, f) = {}
    BY <1>1 DEF AskedOf
  <2>2. Registered[f] = AsRegistered(Registered.id)[f]
    BY DEF AsRegistered
  <2> QED
    BY <2>1, <2>2 DEF FieldOf
<1>4. RowOk(Registered)
  BY <1>3, EndpointAssumption DEF RowOk, IsIssued, SecretOf, AsRegistered
<1>5. Rows
  BY <1>2, <1>4 DEF Rows
<1>6. encryptionKey \in Nat
  BY DEF Init
<1> QED
  BY <1>1, <1>5, <1>6 DEF EndpointInv

LEMMA EndpointInvStep == Control /\ BatchInv /\ EndpointInv /\ [Next]_vars => EndpointInv'
BY IdStep, KnownStep, ReplyStep, RowsStep, KeyStays DEF EndpointInv

\* No update of the enabled events, the metadata or the status is lost, none reaches
\* another endpoint, and none changes a field that it did not mention, whichever calls
\* run between its statement and the others'; and the url is never updated
\* (main.go 352-389).
THEOREM UpdatesAreKept == Spec => []FieldsKept
<1>1. EndpointInv => FieldsKept
  <2> SUFFICES ASSUME EndpointInv, NEW i \in DOMAIN endpoint
               PROVE  /\ endpoint[i].url = AsRegistered(endpoint[i].id).url
                      /\ \A f \in Field :
                            /\ FieldOf(endpoint[i], f)
                            /\ \A c \in AskedOf(endpoint[i].id, f) : Accepted(c) => Done(c)
    BY DEF FieldsKept, FieldStands, FieldOf, AskedOf
  <2> QED
    BY DEF EndpointInv, Rows, RowOk, Done
<1> QED
  BY <1>1, ControlInit, ControlStep, BatchInvInit, BatchInvStep, EndpointInvInit, EndpointInvStep, PTL DEF Spec

\* The secret a client can look up is the one that the endpoint was handed out, as long as
\* the service keeps its encryption key (main.go 230-265, 310-340).
THEOREM SecretsAreKept == Spec => []SecretsKept
<1>1. Control /\ EndpointInv => SecretsKept
  <2> SUFFICES ASSUME Control, EndpointInv, NEW c \in Call, Accepted(c), Is(c, "get"),
                      encryptionKey = 0
               PROVE  \/ /\ call[c].p.id = Registered.id
                         /\ call[c].reply.body.secret = Registered.secret.text
                      \/ \E d \in Call :
                            /\ call[d].id = call[c].p.id
                            /\ Accepted(d) =>
                                 call[d].reply.body.secret = call[c].reply.body.secret
    BY DEF SecretsKept
  <2>1. /\ call[c].p.id # Nil /\ IsIssued(call[c].p.id)
        /\ call[c].reply.body.secret = SecretOf(call[c].p.id)
    BY DEF EndpointInv, ReplyOf, Is
  <2>2. CASE call[c].p.id = Registered.id
    BY <2>1, <2>2 DEF SecretOf
  <2>3. CASE call[c].p.id # Registered.id
    <3>1. PICK d \in Call : call[d].id = call[c].p.id
      BY <2>1, <2>3 DEF IsIssued
    <3>2. Route(call[d].m) = "register" /\ ReplyOf(d)
      BY <2>1, <3>1 DEF Control, CallOf, EndpointInv
    <3> QED
      BY <2>1, <2>3, <3>1, <3>2 DEF ReplyOf, SecretOf
  <2> QED
    BY <2>2, <2>3
<1> QED
  BY <1>1, ControlInit, ControlStep, BatchInvInit, BatchInvStep, EndpointInvInit, EndpointInvStep, PTL DEF Spec

LEMMA Counters ==
    Spec => [](crashes \in 0 .. MaxCrashes /\ keys \subseteq ApiKey \cup {FirstKey})
<1> DEFINE P == crashes \in 0 .. MaxCrashes /\ keys \subseteq ApiKey \cup {FirstKey}
<1>1. Init => P
  BY FrontAssumption DEF Init
<1>2. P /\ [Next]_vars => P'
  <2> SUFFICES ASSUME P, [Next]_vars PROVE P'
    OBVIOUS
  <2>1. CASE Crash
    BY <2>1, FrontAssumption DEF Crash, tables
  <2>2. CASE \E k \in ApiKey : CreateAPIKey(k)
    BY <2>2 DEF CreateAPIKey
  <2>3. CASE crashes' = crashes /\ keys' = keys
    BY <2>3
  <2> QED
    BY <2>1, <2>2, <2>3
    DEF Next, Handler, TypeCommand, SendRaw, Decode, Authorise, InsertEvents, EnqueueEvent,
        SubmitReply, Register, RegisterReply, Update, UpdateReply, List, Get, vars, tables
<1> QED
  BY <1>1, <1>2, PTL DEF Spec

\* No two endpoints share an id, no job names a row that events does not have, and a
\* handler never runs past its batch.
THEOREM TypeCorrectness == Spec => []TypeOK
<1>1. ASSUME Control, BatchInv, EndpointInv, crashes \in 0 .. MaxCrashes, keys \subseteq ApiKey \cup {FirstKey}
      PROVE  TypeOK
  <2>1. ASSUME NEW i \in DOMAIN endpoint PROVE endpoint[i].id \in Ids
    <3>1. RowOk(endpoint[i])
      BY <1>1 DEF EndpointInv, Rows
    <3> QED
      BY <1>1, <3>1 DEF RowOk, IsIssued, Ids, EndpointInv, IdOf
  <2>2. \A c \in Call : call[c].queued \in 0 .. Len(call[c].batch)
                          /\ Len(call[c].ids) = Len(call[c].batch)
    BY <1>1 DEF BatchInv, BatchOf
  <2> QED
    BY <1>1, <2>1, <2>2 DEF TypeOK, EndpointInv, Rows, BatchInv, Queued
<1> QED
  BY <1>1, ControlInit, ControlStep, BatchInvInit, BatchInvStep, EndpointInvInit, EndpointInvStep, Counters, PTL DEF Spec

-----------------------------------------------------------------------------
(***************************************************************************)
(* The checks of the command line and those of the server.                 *)
(***************************************************************************)
\* The client sends a header, whatever the token.
LEMMA HeaderSent ==
    ASSUME NEW token, IsList(token)
    PROVE  ClientHeader(token) # <<>>
<1>1. Len(token) \in Nat
  BY ListFacts
<1>2. CASE Len(token) > 1
  <2>1. Len(<<>>) = 0
    OBVIOUS
  <2> QED
    BY <1>1, <1>2, <2>1 DEF ClientHeader
<1>3. CASE ~(Len(token) > 1)
  <2>1. Len(<<"Bearer">> \o token) = 1 + Len(token)
    <3>1. IsList(<<"Bearer">>) /\ Len(<<"Bearer">>) = 1
      BY OneIsList
    <3> QED
      BY <3>1, ListsJoin
  <2>2. Len(<<>>) = 0
    OBVIOUS
  <2>3. Len(<<"Bearer">> \o token) # 0
    BY <1>1, <2>1
  <2> QED
    BY <1>3, <2>2, <2>3 DEF ClientHeader
<1> QED
  BY <1>2, <1>3

Said(p) == [p EXCEPT !.token = Credential(ClientHeader(@))]

\* What the server makes of a request; nothing, if its handler panics.
Arrived(m) == IF PanicsIn(m) THEN Nil ELSE Decoded(m)

Agreed(method, p) ==
    LET d == Arrived(Encoded(method, p))
    IN  \/ d = Meant(method, Said(p))
        \/ /\ method = "submit" /\ d = Nil
           /\ \E i \in DOMAIN Said(p).events : Said(p).events[i].content = Nil
        \/ /\ method = "list" /\ Misread(Said(p).metadata)
           /\ d # Nil => /\ d.token = Said(p).token
                         /\ d.limit = Said(p).limit /\ d.offset = Said(p).offset

LEMMA RegisterAgreed ==
    ASSUME NEW t \in Command, t.method = "register", Built(t) # Nil
    PROVE  Agreed("register", Built(t))
<1> DEFINE p == Built(t)
           m == Encoded("register", p)
<1>1. /\ p = [token |-> t.token, url |-> t.body.url, enabled_events |-> t.body.enabled_events,
              metadata |-> t.body.metadata]
      /\ t.body.url \in Uri /\ t.body.enabled_events \notin {Nil, <<>>} /\ ~Blank(t.body.metadata)
  BY DEF Built, BuildRegisterPayload
<1>2. /\ Route(m) = "register" /\ m.header = ClientHeader(p.token)
      /\ m.body = [url |-> p.url, enabled_events |-> p.enabled_events,
                   metadata |-> Omitted(p.metadata)]
  BY EncodedRoute DEF Encoded, EncodeRegisterRequest, Request, NewRegisterRequestBody
<1>3. m.header # <<>> /\ m.body \notin {Nil, Malformed}
  BY <1>1, <1>2, HeaderSent, CommandAssumption, SentAssumption
<1>4. ~Blank(Omitted(t.body.metadata))
  BY <1>1 DEF Blank, Omitted
<1> HIDE DEF p, m
<1>5. Decoded(m) = [token |-> Credential(m.header), url |-> p.url,
                    enabled_events |-> p.enabled_events, metadata |-> Omitted(p.metadata)]
  BY <1>1, <1>2, <1>3, <1>4
  DEF Decoded, DecodeRegisterRequest, Readable, ValidateRegisterRequestBody
<1>6. Meant("register", Said(p)) = [token |-> Credential(ClientHeader(p.token)), url |-> p.url,
                    enabled_events |-> p.enabled_events, metadata |-> Omitted(p.metadata)]
  BY <1>1 DEF Meant, Said
<1>7. Decoded(m) = Meant("register", Said(p))
  BY <1>2, <1>5, <1>6
<1> QED
  BY <1>2, <1>7 DEF Agreed, Arrived, PanicsIn, p, m

LEMMA UpdateAgreed ==
    ASSUME NEW t \in Command, t.method = "update", Built(t) # Nil
    PROVE  Agreed("update", Built(t))
<1> DEFINE p == Built(t)
           m == Encoded("update", p)
<1>1. /\ p = [token |-> t.token, id |-> t.id, url |-> t.body.url, disabled |-> t.body.disabled,
              enabled_events |-> t.body.enabled_events, metadata |-> t.body.metadata]
      /\ t.body.url \in Uri \cup {Nil} /\ ~Blank(t.body.metadata)
  BY DEF Built, BuildUpdatePayload
<1>2. /\ Route(m) = "update" /\ m.header = ClientHeader(p.token) /\ m.path = <<"endpoints", p.id>>
      /\ m.body = [url |-> p.url, disabled |-> p.disabled,
                   enabled_events |-> Omitted(p.enabled_events), metadata |-> Omitted(p.metadata)]
  BY EncodedRoute DEF Encoded, EncodeUpdateRequest, Request, NewUpdateRequestBody
<1>3. m.header # <<>> /\ m.body \notin {Nil, Malformed}
  BY <1>1, <1>2, HeaderSent, CommandAssumption, SentAssumption
<1>4. ~Blank(Omitted(t.body.metadata))
  BY <1>1 DEF Blank, Omitted
<1> HIDE DEF p, m
<1>5. Decoded(m) = [token |-> Credential(m.header), id |-> p.id, url |-> p.url,
                    disabled |-> p.disabled, enabled_events |-> Omitted(p.enabled_events),
                    metadata |-> Omitted(p.metadata)]
  BY <1>1, <1>2, <1>3, <1>4
  DEF Decoded, DecodeUpdateRequest, Readable, ValidateUpdateRequestBody
<1>6. Meant("update", Said(p)) = [token |-> Credential(ClientHeader(p.token)), id |-> p.id,
                    url |-> p.url, disabled |-> p.disabled,
                    enabled_events |-> Omitted(p.enabled_events), metadata |-> Omitted(p.metadata)]
  BY <1>1 DEF Meant, Said
<1>7. Decoded(m) = Meant("update", Said(p))
  BY <1>2, <1>5, <1>6
<1> QED
  BY <1>2, <1>7 DEF Agreed, Arrived, PanicsIn, p, m

LEMMA ReadsAgreed ==
    ASSUME NEW t \in Command, t.method \in {"list", "get"}, Built(t) # Nil
    PROVE  Agreed(t.method, Built(t))
<1> DEFINE p == Built(t)
           m == Encoded(t.method, p)
<1>1. p.token = t.token /\ m.header = ClientHeader(p.token)
  BY DEF Built, BuildListWebhookEndpointPayload, BuildGetWebhookEndpointByIDPayload, Encoded,
         EncodeListWebhookEndpointRequest, EncodeGetWebhookEndpointByIDRequest, Request
<1>2. Route(m) = t.method /\ m.header # <<>>
  BY <1>1, EncodedRoute, HeaderSent, CommandAssumption
<1>3. CASE t.method = "list"
  <2>1. /\ p = [token |-> t.token, limit |-> t.limit, offset |-> t.offset,
                createdAtGte |-> t.createdAtGte, updatedAtLt |-> t.updatedAtLt,
                metadata |-> t.metadata]
        /\ Malformed \notin {t.limit, t.offset, t.createdAtGte, t.updatedAtLt}
        /\ Nil \notin {t.limit, t.offset}
    BY <1>3, SentAssumption DEF Built, BuildListWebhookEndpointPayload
  <2>2. m.body = [limit |-> p.limit, offset |-> p.offset,
                  createdAtGte |-> Bound(p.createdAtGte, p.metadata, "createdAt.gte"),
                  updatedAtLt |-> Bound(p.updatedAtLt, p.metadata, "updatedAt.lt"),
                  metadata |-> Filters(p.metadata)]
    BY <1>3 DEF Encoded, EncodeListWebhookEndpointRequest, Request
  <2> HIDE DEF p, m
  <2>3. Said(p) = [token |-> Credential(ClientHeader(p.token)), limit |-> p.limit,
                   offset |-> p.offset, createdAtGte |-> p.createdAtGte,
                   updatedAtLt |-> p.updatedAtLt, metadata |-> p.metadata]
    BY <2>1 DEF Said
  <2>4. \/ Decoded(m) = Nil
        \/ Decoded(m) = [token |-> Credential(m.header), limit |-> p.limit, offset |-> p.offset,
                         createdAtGte |-> m.body.createdAtGte,
                         updatedAtLt |-> m.body.updatedAtLt, metadata |-> m.body.metadata]
    BY <1>2, <1>3, <2>1, <2>2 DEF Decoded, DecodeListWebhookEndpointRequest
  <2>5. CASE Misread(p.metadata)
    <3>1. Arrived(m) \in {Nil, Decoded(m)}
      BY DEF Arrived
    <3>2. Arrived(m) # Nil => /\ Arrived(m).token = Said(p).token
                              /\ Arrived(m).limit = Said(p).limit
                              /\ Arrived(m).offset = Said(p).offset
      BY <1>1, <2>3, <2>4, <3>1
    <3>3. Misread(Said(p).metadata)
      BY <2>3, <2>5
    <3> QED
      BY <1>3, <3>2, <3>3 DEF Agreed, p, m
  <2>6. CASE ~Misread(p.metadata)
    <3>1. /\ m.body.createdAtGte = p.createdAtGte /\ m.body.updatedAtLt = p.updatedAtLt
          /\ m.body.metadata = Nil
      <4>1. /\ "createdAt.gte" \notin KeysOf(p.metadata)
            /\ "updatedAt.lt" \notin KeysOf(p.metadata)
            /\ KeysOf(p.metadata) \cap DOMAIN Bracketed = {}
        BY <2>6 DEF Misread
      <4>2. /\ Bound(p.createdAtGte, p.metadata, "createdAt.gte") = p.createdAtGte
            /\ Bound(p.updatedAtLt, p.metadata, "updatedAt.lt") = p.updatedAtLt
        BY <4>1 DEF Bound
      <4>3. Filters(p.metadata) = Nil
        BY <4>1 DEF Filters
      <4> QED
        BY <2>2, <4>2, <4>3
    <3>2. Decoded(m) = [token |-> Credential(m.header), limit |-> p.limit, offset |-> p.offset,
                        createdAtGte |-> p.createdAtGte, updatedAtLt |-> p.updatedAtLt,
                        metadata |-> Nil]
      BY <1>2, <1>3, <2>1, <2>2, <3>1 DEF Decoded, DecodeListWebhookEndpointRequest
    <3>3. Meant("list", Said(p)) =
             [token |-> Credential(ClientHeader(p.token)), limit |-> p.limit,
              offset |-> p.offset, createdAtGte |-> p.createdAtGte,
              updatedAtLt |-> p.updatedAtLt, metadata |-> Nil]
      BY <2>3 DEF Meant
    <3>4. ~PanicsIn(m)
      BY <1>2, <1>3, <3>1, WireAssumption DEF PanicsIn
    <3>5. Arrived(m) = Meant(t.method, Said(p))
      BY <1>1, <1>3, <3>2, <3>3, <3>4 DEF Arrived
    <3> QED
      BY <3>5 DEF Agreed, p, m
  <2> QED
    BY <2>5, <2>6
<1>4. CASE t.method = "get"
  <2>1. p = [token |-> t.token, id |-> t.id] /\ m.path = <<"endpoints", p.id>>
    BY <1>4 DEF Built, BuildGetWebhookEndpointByIDPayload, Encoded,
                EncodeGetWebhookEndpointByIDRequest, Request
  <2> HIDE DEF p, m
  <2>2. Decoded(m) = [token |-> Credential(m.header), id |-> p.id]
    BY <1>2, <1>4, <2>1 DEF Decoded, DecodeGetWebhookEndpointByIDRequest
  <2>3. Meant("get", Said(p)) = [token |-> Credential(ClientHeader(p.token)), id |-> p.id]
    BY <2>1 DEF Meant, Said
  <2>4. Decoded(m) = Meant(t.method, Said(p)) /\ ~PanicsIn(m)
    BY <1>1, <1>2, <1>4, <2>2, <2>3 DEF PanicsIn
  <2> QED
    BY <2>4 DEF Agreed, Arrived, p, m
<1> QED
  BY <1>3, <1>4

LEMMA SubmitAgreed ==
    ASSUME NEW t \in Command, t.method = "submit", Built(t) # Nil
    PROVE  Agreed("submit", Built(t))
<1> DEFINE p == Built(t)
           m == Encoded("submit", p)
<1>1. p = [token |-> t.token, events |-> [i \in DOMAIN t.body.events |-> Typed(t.body.events[i])]]
  BY DEF Built, BuildSubmitNewEventsPayload
<1>2. /\ Route(m) = "submit" /\ m.header = ClientHeader(p.token) /\ m.body = [events |-> p.events]
  BY EncodedRoute DEF Encoded, EncodeSubmitNewEventsRequest, Request
<1>3. m.header # <<>> /\ m.body \notin {Nil, Malformed}
  BY <1>1, <1>2, HeaderSent, CommandAssumption, SentAssumption
<1>4. /\ p.events # Nil
      /\ \A i \in DOMAIN p.events : p.events[i] # Nil /\ p.events[i].type # Nil
  <2>1. p.events # Nil /\ Nil \notin Range(p.events)
    BY SentAssumption
  <2>2. \A e : Typed(e).type # Nil
    BY WireAssumption DEF Typed, Text
  <2>3. \A i \in DOMAIN p.events : p.events[i] = Typed(t.body.events[i])
    BY <1>1
  <2> HIDE DEF p
  <2>4. \A i \in DOMAIN p.events : p.events[i] # Nil
    BY <2>1 DEF Range
  <2>5. \A i \in DOMAIN p.events : p.events[i].type # Nil
    BY <2>2, <2>3
  <2> QED
    BY <2>1, <2>4, <2>5
<1> HIDE DEF p, m
<1>5. Said(p) = [token |-> Credential(ClientHeader(p.token)), events |-> p.events]
  BY <1>1 DEF Said
<1>6. CASE \A i \in DOMAIN p.events : p.events[i].content # Nil
  <2>1. Decoded(m) = [token |-> Credential(m.header), events |-> p.events]
    BY <1>2, <1>3, <1>4, <1>6
    DEF Decoded, DecodeSubmitNewEventsRequest, Readable, ValidateSubmitNewEventsRequestBody
  <2>2. Decoded(m) = Meant("submit", Said(p)) /\ ~PanicsIn(m)
    BY <1>2, <1>4, <1>5, <2>1 DEF Meant, PanicsIn
  <2> QED
    BY <2>2 DEF Agreed, Arrived, p, m
<1>7. CASE \E i \in DOMAIN p.events : p.events[i].content = Nil
  <2>1. Decoded(m) = Nil
    BY <1>2, <1>4, <1>7 DEF Decoded, DecodeSubmitNewEventsRequest, ValidateSubmitNewEventsRequestBody
  <2>2. \E i \in DOMAIN Said(p).events : Said(p).events[i].content = Nil
    BY <1>5, <1>7
  <2> QED
    BY <2>1, <2>2 DEF Agreed, Arrived, p, m
<1> QED
  BY <1>6, <1>7

\* What was typed is what was sent.
ClientOf(c) ==
    LET s == call[c]
    IN  /\ s.pc = "none" => s.client = Nil
        /\ s.client # Nil =>
              \E t \in Command : /\ Built(t) # Nil /\ s.m = Encoded(t.method, Built(t))
                                 /\ s.client = [method |-> t.method, p |-> Built(t)]

LEMMA ClientStep ==
    ASSUME Control, [Next]_vars, NEW c \in Call, ClientOf(c)
    PROVE  ClientOf(c)'
<1>1. TypedCalls /\ CallOf(c) /\ Stays(c)
  BY EveryCallStays DEF Control
<1>2. CASE call'[c] = call[c]
  BY <1>2 DEF ClientOf
<1>3. CASE Crash
  <2>1. /\ call'[c].pc = "none" => call[c].pc = "none"
        /\ call'[c].client = call[c].client /\ call'[c].m = call[c].m
    BY <1>1, <1>3, CrashCuts, NotMadeFields DEF FieldNames
  <2> QED
    BY <2>1 DEF ClientOf
<1>4. CASE TypeCommand(c)
  <2>1. PICK t \in Command :
           /\ call[c].pc = "none"
           /\ \/ /\ call'[c].pc = "untold" /\ call'[c].client = call[c].client
              \/ /\ Built(t) # Nil /\ call'[c].pc = "sent"
                 /\ call'[c].m = Encoded(t.method, Built(t))
                 /\ call'[c].client = [method |-> t.method, p |-> Built(t)]
    BY <1>1, <1>4, TypeCommandSets
  <2> QED
    BY <2>1 DEF ClientOf
<1>5. CASE SendRaw(c)
  <2>1. call[c].pc = "none" /\ call'[c].pc = "sent" /\ call'[c].client = call[c].client
    BY <1>1, <1>5, SendRawSets DEF Only, FieldNames
  <2> QED
    BY <2>1 DEF ClientOf
<1>6. CASE Handler(c)
  <2>1. ~TypeCommand(c) /\ ~SendRaw(c)
    <3>1. call[c].pc # "none"
      BY <1>1, <1>6, DecodeSets, AuthoriseSets, InsertEventsSets, EnqueueEventSets,
         SubmitReplySets, RegisterSets, RegisterReplySets, UpdateSets, UpdateReplySets,
         ListSets, GetSets
      DEF Handler
    <3> QED
      BY <1>1, <3>1, TypeCommandSets, SendRawSets
  <2>2. call'[c].m = call[c].m /\ call'[c].client = call[c].client
    BY <1>1, <2>1 DEF Stays
  <2>3. call'[c].pc # "none"
    <3>1. CASE Decode(c) \/ InsertEvents(c) \/ SubmitReply(c) \/ Register(c) \/ RegisterReply(c)
      BY <1>1, <3>1, DecodeSets, InsertEventsSets, SubmitReplySets, RegisterSets, RegisterReplySets
    <3>2. CASE Update(c) \/ UpdateReply(c) \/ List(c) \/ Get(c)
      BY <1>1, <3>2, UpdateSets, UpdateReplySets, ListSets, GetSets
    <3>3. CASE EnqueueEvent(c)
      <4>1. call[c].pc = "queueing" /\ call'[c].pc = call[c].pc
        BY <1>1, <3>3, EnqueueEventSets DEF Only, FieldNames
      <4> QED
        BY <4>1
    <3>4. CASE Authorise(c)
      <4>1. \/ call'[c].pc = "answered"
            \/ call'[c].pc = Route(call[c].m) /\ Route(call[c].m) # "none"
        BY <1>1, <3>4, AuthoriseSets DEF CallOf
      <4> QED
        BY <4>1
    <3> QED
      BY <1>6, <3>1, <3>2, <3>3, <3>4 DEF Handler
  <2> QED
    BY <2>2, <2>3 DEF ClientOf
<1> QED
  BY <1>2, <1>3, <1>4, <1>5, <1>6, OneMoves

\* What the command line lets through the server decodes, to the payload that was meant,
\* with the exceptions of SameChecks: an event without content is refused, the filters of
\* a list are lost, and those whose key is a name the server looks for are read as that
\* (client/cli.go, client/encode_decode.go, server/encode_decode.go).
THEOREM ClientAndServerAgree == Spec => []SameChecks
<1> DEFINE P == \A c \in Call : ClientOf(c)
<1>1. Init => P
  BY DEF Init, NotMade, ClientOf
<1>2. Control /\ P /\ [Next]_vars => P'
  BY ClientStep
<1>3. P => SameChecks
  <2> SUFFICES ASSUME P, NEW c \in Call, call[c].client # Nil
               PROVE  LET method == call[c].client.method
                          said == Said(call[c].client.p)
                          d == Arrived(call[c].m)
                      IN  \/ d = Meant(method, said)
                          \/ /\ method = "submit" /\ d = Nil
                             /\ \E i \in DOMAIN said.events : said.events[i].content = Nil
                          \/ /\ method = "list" /\ Misread(said.metadata)
                             /\ d # Nil => /\ d.token = said.token
                                           /\ d.limit = said.limit /\ d.offset = said.offset
    BY DEF SameChecks, Said, Arrived
  <2>1. PICK t \in Command : /\ Built(t) # Nil /\ call[c].m = Encoded(t.method, Built(t))
                             /\ call[c].client = [method |-> t.method, p |-> Built(t)]
    BY DEF ClientOf
  <2>2. t.method \in {"submit", "register", "update", "list", "get"}
    BY CommandAssumption
  <2>3. Agreed(t.method, Built(t))
    BY <2>1, <2>2, RegisterAgreed, UpdateAgreed, ReadsAgreed, SubmitAgreed
  <2> QED
    BY <2>1, <2>3 DEF Agreed
<1> HIDE DEF P
<1> QED
  BY <1>1, <1>2, <1>3, ControlInit, ControlStep, PTL DEF Spec

-----------------------------------------------------------------------------
(***************************************************************************)
(* What the service writes, its clients can read: no row gets into the     *)
(* table that the checks of the client refuse.                             *)
(***************************************************************************)
\* The checks of the client pass the row.
Sound(row) == ValidEndpoint(Shown(row))

LEMMA SoundParts ==
    ASSUME NEW row
    PROVE  Sound(row) <=> /\ row.id # Nil /\ row.url \in Uri
                          /\ row.enabled_events \notin {Nil, <<>>}
                          /\ ~Blank(Omitted(row.metadata))
                          /\ row.status \in {Nil, "enabled", "disabled"}
BY DEF Sound, ValidEndpoint, Shown

LEMMA OmittedIsNotBlank ==
    ASSUME NEW x, ~Blank(x) PROVE ~Blank(Omitted(x)) /\ ~Blank(Omitted(Omitted(x)))
BY DEF Omitted, Blank

\* The row that Register makes of a payload it decoded (main.go 315-340).
LEMMA NewIsSound ==
    ASSUME NEW m, NEW p, Route(m) = "register", p = Decoded(m), p # Nil,
           NEW id \in EndpointId, NEW sealed, NEW row,
           row = [id |-> id, url |-> p.url, secret |-> sealed,
                  enabled_events |-> p.enabled_events,
                  metadata |-> Omitted(p.metadata), status |-> "enabled"]
    PROVE  Sound(row)
<1>1. p.url \in Uri /\ p.enabled_events \notin {Nil, <<>>} /\ ~Blank(p.metadata)
  <2>1. p = DecodeRegisterRequest(m)
    BY DEF Decoded
  <2>2. ValidateRegisterRequestBody(m.body) /\ p.url = m.body.url
        /\ p.enabled_events = m.body.enabled_events /\ p.metadata = m.body.metadata
    BY <2>1 DEF DecodeRegisterRequest
  <2> QED
    BY <2>2 DEF ValidateRegisterRequestBody
<1>2. ~Blank(Omitted(Omitted(p.metadata)))
  BY <1>1, OmittedIsNotBlank
<1>3. /\ row.id = id /\ row.url = p.url /\ row.enabled_events = p.enabled_events
      /\ row.metadata = Omitted(p.metadata) /\ row.status = "enabled"
  OBVIOUS
<1>4. id # Nil
  BY EndpointAssumption
<1> QED
  BY <1>1, <1>2, <1>3, <1>4, SoundParts

\* The row that Update makes of one, and of a payload it decoded (main.go 360-381).
LEMMA UpdatedIsSound ==
    ASSUME NEW m, NEW p, Route(m) = "update", p = Decoded(m), p # Nil,
           NEW old, Sound(old), DOMAIN old = DOMAIN Registered, NEW new, new = Updated(old, p)
    PROVE  Sound(new)
<1>1. ~Blank(p.metadata)
  <2>1. p = DecodeUpdateRequest(m)
    BY DEF Decoded
  <2> QED
    BY <2>1 DEF DecodeUpdateRequest, ValidateUpdateRequestBody
<1>2. DOMAIN old = {"id", "url", "secret", "enabled_events", "metadata", "status"}
  BY EndpointAssumption
<1>3. /\ new.id = old.id /\ new.url = old.url
      /\ new.enabled_events = IF Unset(p.enabled_events) THEN old.enabled_events
                              ELSE p.enabled_events
      /\ new.metadata = IF Unset(p.metadata) THEN old.metadata ELSE p.metadata
      /\ new.status \in {old.status, "enabled", "disabled"}
  BY <1>2 DEF Updated
<1>4. /\ old.id # Nil /\ old.url \in Uri /\ old.enabled_events \notin {Nil, <<>>}
      /\ ~Blank(Omitted(old.metadata)) /\ old.status \in {Nil, "enabled", "disabled"}
  BY SoundParts
<1>5. ~Blank(Omitted(p.metadata))
  BY <1>1, OmittedIsNotBlank
<1>6. new.enabled_events \notin {Nil, <<>>}
  BY <1>3, <1>4 DEF Unset
<1>7. ~Blank(Omitted(new.metadata)) /\ new.status \in {Nil, "enabled", "disabled"}
  BY <1>3, <1>4, <1>5
<1> QED
  BY <1>3, <1>4, <1>6, <1>7, SoundParts

RowsSound == \A i \in DOMAIN endpoint : Sound(endpoint[i])

LEMMA RowsSoundStep ==
    ASSUME Control, EndpointInv, RowsSound, [Next]_vars
    PROVE  RowsSound'
<1>1. TypedCalls /\ Rows
  BY DEF Control, EndpointInv
<1>2. CASE UNCHANGED endpoint
  BY <1>2 DEF RowsSound, Sound
<1>3. ASSUME NEW c \in Call, Register(c) PROVE RowsSound'
  <2>1. PICK id \in EndpointId :
          /\ call[c].pc = "register"
          /\ \/ endpoint' = Append(endpoint,
                   [id |-> id, url |-> call[c].p.url, secret |-> Sealed(Secret(id)),
                    enabled_events |-> call[c].p.enabled_events,
                    metadata |-> Omitted(call[c].p.metadata), status |-> "enabled"])
             \/ UNCHANGED endpoint
    BY <1>1, <1>3, RegisterSets
  <2>2. PICK row :
          row = [id |-> id, url |-> call[c].p.url, secret |-> Sealed(Secret(id)),
                 enabled_events |-> call[c].p.enabled_events,
                 metadata |-> Omitted(call[c].p.metadata), status |-> "enabled"]
    OBVIOUS
  <2>3. Route(call[c].m) = "register" /\ call[c].p = Decoded(call[c].m) /\ call[c].p # Nil
    BY <2>1 DEF Control, CallOf, Working
  <2>4. Sound(row)
    BY <2>2, <2>3, NewIsSound
  <2>5. CASE endpoint' = Append(endpoint, row)
    <3>1. /\ IsList(endpoint') /\ Len(endpoint') = Len(endpoint) + 1
          /\ \A i \in DOMAIN endpoint : endpoint'[i] = endpoint[i]
          /\ endpoint'[Len(endpoint) + 1] = row
      BY <1>1, <2>5, ListAppends DEF Rows
    <3>2. /\ Len(endpoint) \in Nat /\ DOMAIN endpoint = 1 .. Len(endpoint)
          /\ DOMAIN endpoint' = 1 .. Len(endpoint')
      BY <1>1, <3>1, ListFacts DEF Rows
    <3>3. DOMAIN endpoint' = DOMAIN endpoint \cup {Len(endpoint) + 1}
      BY <3>1, <3>2
    <3> QED
      BY <2>4, <3>1, <3>3 DEF RowsSound
  <2> QED
    BY <1>2, <2>1, <2>2, <2>5
<1>4. ASSUME NEW c \in Call, Update(c) PROVE RowsSound'
  <2>1. /\ call[c].pc = "update"
        /\ \/ \E i \in RowsOf(call[c].p.id), n \in DOMAIN endpoint :
                 endpoint' = InsertAt(RemoveAt(endpoint, i), n, Updated(endpoint[i], call[c].p))
           \/ UNCHANGED endpoint
    BY <1>1, <1>4, UpdateSets
  <2>2. ASSUME NEW i \in RowsOf(call[c].p.id), NEW n \in DOMAIN endpoint,
               endpoint' = InsertAt(RemoveAt(endpoint, i), n, Updated(endpoint[i], call[c].p))
        PROVE  RowsSound'
    <3>1. i \in DOMAIN endpoint /\ IsList(endpoint) /\ DOMAIN endpoint[i] = DOMAIN Registered
      BY <1>1, <2>2 DEF RowsOf, Rows, RowOk
    <3>2. PICK new : new = Updated(endpoint[i], call[c].p)
      OBVIOUS
    <3>3. endpoint' = InsertAt(RemoveAt(endpoint, i), n, new)
      BY <2>2, <3>2
    <3>4. Moved(endpoint, endpoint', i, new)
      BY <3>1, <3>3, RowMoves
    <3>5. Route(call[c].m) = "update" /\ call[c].p = Decoded(call[c].m) /\ call[c].p # Nil
      BY <2>1 DEF Control, CallOf, Working
    <3>6. Sound(endpoint[i])
      BY <3>1 DEF RowsSound
    <3>7. Sound(new)
      BY <3>1, <3>2, <3>5, <3>6, UpdatedIsSound
    <3>8. \A j \in DOMAIN endpoint' : endpoint'[j] = new \/ \E l \in DOMAIN endpoint : endpoint'[j] = endpoint[l]
      BY <3>4 DEF Moved
    <3> QED
      BY <3>7, <3>8 DEF RowsSound
  <2> QED
    BY <1>2, <2>1, <2>2
<1> QED
  BY <1>2, <1>3, <1>4, EndpointsStay

\* The rows of a page are rows of the table.
LEMMA PageShows ==
    ASSUME NEW there, there \subseteq DOMAIN endpoint, NEW found \in InOrder(there),
           NEW limit, NEW offset, NEW rows, rows = [i \in DOMAIN found |-> endpoint[found[i]]],
           NEW page, page = Page(rows, limit, offset)
    PROVE  \A i \in DOMAIN page : \E l \in DOMAIN endpoint : page[i] = endpoint[l]
<1>1. \A i \in DOMAIN found : found[i] \in there
  BY DEF InOrder
<1>2. \A i \in DOMAIN page : \E k \in DOMAIN rows : page[i] = rows[k]
  BY DEF Page
<1> QED
  BY <1>1, <1>2

\* A list that is answered.
LEMMA ListShows ==
    ASSUME TypedCalls, NEW c \in Call, List(c), Accepted(c)'
    PROVE  \E page : /\ call'[c].reply = EncodeListWebhookEndpointResponse(page)
                     /\ \A i \in DOMAIN page : \E l \in DOMAIN endpoint : page[i] = endpoint[l]
<1> DEFINE there == {i \in DOMAIN endpoint : Chosen(endpoint[i], call[c].p.metadata)}
<1>1. CASE Refuses(c, 500)
  BY <1>1, AnswersSets DEF Refuses, Accepted, At
<1>2. ASSUME NEW within, within \subseteq there, NEW found \in InOrder(within), NEW rows,
             rows = [i \in DOMAIN found |-> endpoint[found[i]]],
             Answers(c, EncodeListWebhookEndpointResponse(
                           Page(rows, call[c].p.limit, call[c].p.offset)))
      PROVE  \E page : /\ call'[c].reply = EncodeListWebhookEndpointResponse(page)
                       /\ \A i \in DOMAIN page : \E l \in DOMAIN endpoint : page[i] = endpoint[l]
  <2>1. PICK page : page = Page(rows, call[c].p.limit, call[c].p.offset)
    OBVIOUS
  <2>2. call'[c].reply = EncodeListWebhookEndpointResponse(page)
    BY <1>2, <2>1, AnswersSets
  <2>3. \A i \in DOMAIN page : \E l \in DOMAIN endpoint : page[i] = endpoint[l]
    <3>1. within \subseteq DOMAIN endpoint
      BY <1>2
    <3> HIDE DEF there
    <3> QED
      BY <1>2, <2>1, <3>1, PageShows
  <2> QED
    BY <2>2, <2>3
<1>3. \/ Refuses(c, 500)
      \/ \E within \in SUBSET there : \E found \in InOrder(within) :
            Answers(c, EncodeListWebhookEndpointResponse(
               Page([i \in DOMAIN found |-> endpoint[found[i]]], call[c].p.limit, call[c].p.offset)))
  BY DEF List
<1> HIDE DEF there
<1> QED
  BY <1>1, <1>2, <1>3

\* JSON has a null beside its lists: Nil is no function, so it is no list.
NilIsNoList == Nil # [x \in DOMAIN Nil |-> Nil[x]]

\* The client takes the reply that the call was given.
Taken(c) == Accepted(c) => ClientTakes(Route(call[c].m), call[c].reply.body)

\* With the rows, and with the id that a call which has registered will be told,
\* it is inductive.
ReplyInv ==
    /\ RowsSound
    /\ \A c \in Call : Taken(c) /\ (call[c].pc = "registered" => call[c].id \in EndpointId)

LEMMA RegisteredStep ==
    ASSUME Control, [Next]_vars, NEW c \in Call, call'[c].pc = "registered",
           call[c].pc = "registered" => call[c].id \in EndpointId
    PROVE  call'[c].id \in EndpointId
<1>1. TypedCalls /\ CallOf(c)
  BY DEF Control
<1>2. CASE call'[c] = call[c]
  BY <1>2
<1>3. CASE Crash
  BY <1>1, <1>3, CrashCuts, NotMadeFields DEF FieldNames
<1>4. CASE Register(c)
  BY <1>1, <1>4, RegisterSets
<1>5. CASE TypeCommand(c) \/ SendRaw(c) \/ Decode(c)
  BY <1>1, <1>5, TypeCommandSets, SendRawSets, DecodeSets
<1>6. CASE Authorise(c)
  <2>1. call'[c].pc = Route(call[c].m) \/ call'[c].pc = "answered"
    BY <1>1, <1>6, AuthoriseSets
  <2> QED
    BY <2>1, Routes
<1>7. CASE EnqueueEvent(c)
  BY <1>1, <1>7, EnqueueEventSets DEF Only, FieldNames
<1>8. CASE InsertEvents(c) \/ SubmitReply(c) \/ RegisterReply(c)
  BY <1>1, <1>8, InsertEventsSets, SubmitReplySets, RegisterReplySets
<1>9. CASE Update(c) \/ UpdateReply(c) \/ List(c) \/ Get(c)
  BY <1>1, <1>9, UpdateSets, UpdateReplySets, ListSets, GetSets
<1> QED
  BY <1>2, <1>3, <1>4, <1>5, <1>6, <1>7, <1>8, <1>9, OneMoves DEF Handler

LEMMA SecretIsText == ASSUME NilIsNoList, NEW id PROVE Secret(id) # Nil
<1>1. PICK secret : secret = <<"whsec", id>>
  OBVIOUS
<1>2. secret = [i \in DOMAIN secret |-> secret[i]]
  BY <1>1
<1>3. secret # Nil
  BY <1>2 DEF NilIsNoList
<1> QED
  BY <1>1, <1>3 DEF Secret

\* A secret that is looked up is one that was handed out, or the empty text.
LEMMA OpenedIsText ==
    ASSUME NilIsNoList, Rows, NEW i \in DOMAIN endpoint
    PROVE  Opened(endpoint[i].secret) # Nil
<1>1. endpoint[i].secret.text = SecretOf(endpoint[i].id)
  BY DEF Rows, RowOk
<1>2. SecretOf(endpoint[i].id) # Nil
  BY SecretIsText, EndpointAssumption DEF SecretOf
<1>3. Nil # ""
  BY WireAssumption
<1> QED
  BY <1>1, <1>2, <1>3 DEF Opened

LEMMA TakenStep ==
    ASSUME NilIsNoList, Control, EndpointInv, ReplyInv, [Next]_vars, NEW c \in Call
    PROVE  Taken(c)'
<1> SUFFICES ASSUME Accepted(c)' PROVE ClientTakes(Route(call'[c].m), call'[c].reply.body)
  BY DEF Taken
<1>1. TypedCalls /\ CallOf(c) /\ Rows /\ RowsSound
  BY DEF Control, EndpointInv, ReplyInv
<1>2. CASE Accepted(c)
  <2>1. call'[c].reply = call[c].reply /\ call[c].p # Nil
    BY <1>1, <1>2, AnsweredIsOver DEF Accepted, At, CallOf
  <2>2. call'[c].m = call[c].m
    BY <2>1, EveryCallStays DEF Stays
  <2>3. Taken(c)
    BY DEF ReplyInv
  <2> QED
    BY <1>2, <2>1, <2>2, <2>3 DEF Taken
<1>3. CASE SubmitReply(c) \/ UpdateReply(c)
  <2>1. Only(c, {"pc", "reply"}) /\ call[c].pc \in {"queueing", "updated"}
    BY <1>1, <1>3, SubmitReplySets, UpdateReplySets
  <2>2. Route(call'[c].m) \in {"submit", "update"}
    BY <1>1, <2>1 DEF Only, FieldNames, CallOf
  <2> QED
    BY <2>2 DEF ClientTakes
<1>4. CASE RegisterReply(c)
  <2>1. /\ Only(c, {"pc", "reply"}) /\ call[c].pc = "registered"
        /\ call'[c].reply = EncodeRegisterResponse(call[c].id, Secret(call[c].id))
    BY <1>1, <1>4, RegisterReplySets
  <2>2. Route(call'[c].m) = "register" /\ call[c].id \in EndpointId
    BY <1>1, <2>1 DEF Only, FieldNames, CallOf, ReplyInv
  <2>3. /\ call'[c].reply.body.id = call[c].id
        /\ call'[c].reply.body.secret = Secret(call[c].id)
    BY <2>1 DEF EncodeRegisterResponse, Ok
  <2>4. call[c].id # Nil /\ Secret(call[c].id) # Nil
    BY <2>2, SecretIsText, EndpointAssumption
  <2>5. ClientTakesRegister(call'[c].reply.body)
    BY <2>3, <2>4 DEF ClientTakesRegister
  <2> QED
    BY <2>2, <2>5 DEF ClientTakes
<1>5. CASE List(c)
  <2>1. Only(c, {"pc", "reply"}) /\ call[c].pc = "list"
    BY <1>1, <1>5, ListSets
  <2>2. Route(call'[c].m) = "list"
    BY <1>1, <2>1 DEF Only, FieldNames, CallOf
  <2>3. PICK page : /\ call'[c].reply = EncodeListWebhookEndpointResponse(page)
                    /\ \A i \in DOMAIN page : \E l \in DOMAIN endpoint : page[i] = endpoint[l]
    BY <1>1, <1>5, ListShows
  <2>4. PICK result : result = [i \in DOMAIN page |-> Shown(page[i])]
    OBVIOUS
  <2>5. call'[c].reply.body.result = result
    BY <2>3, <2>4 DEF EncodeListWebhookEndpointResponse, Ok
  <2>6. result # Nil
    BY <2>4 DEF NilIsNoList
  <2>7. \A i \in DOMAIN result : ValidEndpoint(result[i])
    BY <1>1, <2>3, <2>4 DEF RowsSound, Sound
  <2> QED
    BY <2>2, <2>5, <2>6, <2>7 DEF ClientTakes, ClientTakesList
<1>6. CASE Get(c)
  <2>1. Only(c, {"pc", "reply"}) /\ call[c].pc = "get"
    BY <1>1, <1>6, GetSets
  <2>2. Route(call'[c].m) = "get"
    BY <1>1, <2>1 DEF Only, FieldNames, CallOf
  <2>3. PICK i \in RowsOf(call[c].p.id) :
           call'[c].reply = EncodeGetWebhookEndpointByIDResponse(
                               endpoint[i], Opened(endpoint[i].secret))
    BY <1>1, <1>6, GetSets DEF Accepted, At
  <2>4. i \in DOMAIN endpoint
    BY DEF RowsOf
  <2>5. /\ call'[c].reply.body.secret = Opened(endpoint[i].secret)
        /\ call'[c].reply.body.row = Shown(endpoint[i])
    BY <2>3 DEF EncodeGetWebhookEndpointByIDResponse, Ok
  <2>6. Opened(endpoint[i].secret) # Nil /\ Sound(endpoint[i])
    BY <1>1, <2>4, OpenedIsText DEF RowsSound
  <2>7. ClientTakesGet(call'[c].reply.body)
    BY <2>5, <2>6 DEF ClientTakesGet, Sound
  <2> QED
    BY <2>2, <2>7 DEF ClientTakes
<1> QED
  BY <1>2, <1>3, <1>4, <1>5, <1>6, AcceptedOnce

LEMMA ReplyInvInit == Init => ReplyInv
<1> SUFFICES ASSUME Init PROVE ReplyInv
  OBVIOUS
<1>1. \A c \in Call : call[c].pc = "none"
  BY DEF Init, NotMade
<1>2. DOMAIN endpoint = {1} /\ endpoint[1] = Registered
  BY OneIsList, ListFacts DEF Init
<1> QED
  BY <1>1, <1>2, EndpointAssumption DEF ReplyInv, RowsSound, Sound, Taken, Accepted, At

\* The generated client takes every reply of the server it is made for: whatever
\* is registered and updated, by whom and in which order, no row gets into the
\* table that the checks of client/types.go refuse, and no list is null.
THEOREM RepliesAreTaken == ASSUME NilIsNoList PROVE Spec => []ClientTakesReplies
<1>1. Control /\ EndpointInv /\ ReplyInv /\ [Next]_vars => ReplyInv'
  BY RowsSoundStep, TakenStep, RegisteredStep DEF ReplyInv
<1>2. ReplyInv => ClientTakesReplies
  BY DEF ReplyInv, Taken, ClientTakesReplies
<1> QED
  BY <1>1, <1>2, ReplyInvInit, ControlInit, ControlStep, BatchInvInit, BatchInvStep,
     EndpointInvInit, EndpointInvStep, PTL DEF Spec
=============================================================================
