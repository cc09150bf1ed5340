------------------------ MODULE DispatcherLedgerProofs ------------------------
(***************************************************************************)
(* More theorems about Dispatcher: what the counters of a delivery say of  *)
(* the POSTs its endpoint received and of the rows of the attempts table,  *)
(* and the account of a delivery as DeliveryLedger states it.              *)
(***************************************************************************)
EXTENDS DispatcherProofs, FiniteSetTheorems

\* The POST of the attempt under way has been sent.
Called(w) == wk[w].pc \in {"answered", "intx", "rescheduled"}

\* A charge is backed by a POST: the one under way is sent before its charge.
PostsCover ==
    /\ \A d \in Delivery : /\ delivery[d].counter <= posts[d]
                           /\ delivery[d].counter <= MaxAttempts
    /\ \A w \in Worker : Called(w) /\ wk[w].dlv # 0 =>
           delivery[wk[w].dlv].counter < posts[wk[w].dlv]

-----------------------------------------------------------------------------
(* What the steps do to the rows of the job table and to the goroutines. *)

\* One job changes its state, the others stay.
JobMoves(j, st) ==
    /\ JobId' = JobId
    /\ \A k \in JobId : /\ jobs'[k].attempt = jobs[k].attempt
                        /\ jobs'[k].target = jobs[k].target
                        /\ jobs'[k].counter = jobs[k].counter
                        /\ jobs'[k].state = IF k = j THEN st ELSE jobs[k].state

OnlyMoves(w) == \A v \in Worker \ {w} : wk'[v] = wk[v]

\* Changing the state of a job, in the job table's terms.
LEMMA JobMove ==
    ASSUME TypeOK, NEW j \in JobId, NEW st, jobs' = [jobs EXCEPT ![j].state = st]
    PROVE  JobMoves(j, st)
<1>1. \A k \in JobId : jobs[k] \in JobRow
  BY Lookups
<1>2. \A k \in JobId : jobs'[k] = IF k = j THEN [jobs[k] EXCEPT !.state = st] ELSE jobs[k]
  BY DEF JobId
<1>3. JobId' = JobId
  BY DEF JobId
<1> QED
  BY <1>1, <1>2, <1>3 DEF JobMoves, JobRow

\* Claim: the job runs, its goroutine holds it and nothing else.
LEMMA ClaimDoes ==
    ASSUME IInv, NEW w \in Worker, NEW j \in JobId, Claim(w, j)
    PROVE  /\ UNCHANGED <<delivery, attempts, endpoint, posts, crashes>>
           /\ jobs[j].state = "queued" /\ JobMoves(j, "running") /\ OnlyMoves(w)
           /\ wk'[w].pc = "claimed" /\ wk'[w].job = j /\ wk'[w].dlv = 0
<1>1. JobMoves(j, "running")
  BY JobMove DEF IInv, Claim
<1>2. OnlyMoves(w) /\ wk'[w].pc = "claimed" /\ wk'[w].job = j /\ wk'[w].dlv = 0
  BY DEF IInv, TypeOK, Claim, OnlyMoves, Holding
<1> QED
  BY <1>1, <1>2 DEF Claim

\* The end of a job: it is done, its goroutine idle.
LEMMA EndDoes ==
    ASSUME IInv, NEW w \in Worker, PanicRecovered(w) \/ Finish(w)
    PROVE  /\ UNCHANGED <<delivery, attempts, endpoint, posts, crashes>>
           /\ wk[w].pc \in {"claimed", "recorded"}
           /\ wk[w].job \in JobId /\ JobMoves(wk[w].job, "done") /\ OnlyMoves(w)
           /\ wk'[w].pc = "idle" /\ wk'[w].dlv = 0
<1>1. wk[w].job \in JobId /\ wk[w].pc \in {"claimed", "recorded"}
  BY Lookups DEF IInv, PanicRecovered, Finish, At
<1>2. JobMoves(wk[w].job, "done")
  BY <1>1, JobMove DEF IInv, PanicRecovered, Finish, Ends
<1>3. OnlyMoves(w) /\ wk'[w].pc = "idle" /\ wk'[w].dlv = 0
  BY DEF IInv, TypeOK, PanicRecovered, Finish, OnlyMoves, Idle, Holding
<1> QED
  BY <1>1, <1>2, <1>3 DEF PanicRecovered, Finish

\* A backoff that is over: its job can be claimed.
LEMMA BackoffDoes ==
    ASSUME IInv, NEW j \in JobId, BackoffElapses(j)
    PROVE  /\ UNCHANGED <<delivery, attempts, endpoint, wk, posts, crashes>>
           /\ jobs[j].state = "waiting" /\ JobMoves(j, "queued")
           /\ DelayOutlivesTx /\ jobs[j].attempt # 0 => attempts[jobs[j].attempt].row # "open"
BY JobMove DEF IInv, BackoffElapses

\* A step of the handler that changes its own locals only.
Local(w, from, to) ==
    /\ UNCHANGED <<delivery, attempts, jobs, endpoint, crashes>> /\ OnlyMoves(w)
    /\ wk[w].pc = from /\ wk'[w].pc = to
    /\ wk[w].job \in JobId /\ wk'[w].job = wk[w].job

LEMMA LoadDoes ==
    ASSUME IInv, NEW w \in Worker, LoadAttempt(w)
    PROVE  /\ Local(w, "claimed", "loaded") /\ UNCHANGED posts
           /\ ~AlreadyMade(JobOf(w).attempt)
           /\ wk'[w].dlv = DeliveryOf(JobOf(w).attempt)
<1>1. wk[w].job \in JobId /\ wk[w] \in Goroutine /\ wk[w].pc = "claimed"
  BY Lookups DEF IInv, LoadAttempt, At
<1> QED
  BY <1>1 DEF IInv, TypeOK, LoadAttempt, Local, OnlyMoves, Goroutine

\* CallEndpoint: one more POST for the delivery the payload speaks of.
LEMMA CallDoes ==
    ASSUME IInv, NEW w \in Worker, CallEndpoint(w)
    PROVE  /\ Local(w, "loaded", "answered")
           /\ wk'[w].dlv = wk[w].dlv
           /\ JobOf(w).target \in Delivery
           /\ posts'[JobOf(w).target] = Posted(posts[JobOf(w).target])
           /\ \A d \in Delivery \ {JobOf(w).target} : posts'[d] = posts[d]
           /\ posts' = [posts EXCEPT ![JobOf(w).target] = Posted(@)]
<1>1. /\ wk[w].job \in JobId /\ wk[w] \in Goroutine /\ wk[w].pc = "loaded"
      /\ JobOf(w).target \in Delivery
  BY Lookups DEF IInv, CallEndpoint, At, JobRow
<1>2. Local(w, "loaded", "answered") /\ wk'[w].dlv = wk[w].dlv
  BY <1>1 DEF IInv, TypeOK, CallEndpoint, Local, OnlyMoves, Goroutine
<1> QED
  BY <1>1, <1>2 DEF IInv, TypeOK, CallEndpoint

LEMMA ReadDoes ==
    ASSUME IInv, NEW w \in Worker, ReadDelivery(w)
    PROVE  /\ Local(w, "answered", "intx") /\ UNCHANGED posts
           /\ wk'[w].dlv = wk[w].dlv
           /\ "body" \notin Fault => wk'[w].ok
<1>1. /\ wk[w].job \in JobId /\ wk[w] \in Goroutine /\ wk[w].pc = "answered"
      /\ wk \in [Worker -> Goroutine]
  BY Lookups DEF IInv, TypeOK, ReadDelivery, At
<1>2. PICK ok \in BOOLEAN :
         /\ ~ok => "body" \in Fault
         /\ wk' = [wk EXCEPT ![w].pc = "intx", ![w].remaining = RemainingOf(wk[w].dlv),
                             ![w].hit = RowOf(JobOf(w).attempt), ![w].ok = ok]
  BY DEF ReadDelivery
<1>3. /\ OnlyMoves(w) /\ wk'[w].pc = "intx" /\ wk'[w].job = wk[w].job
      /\ wk'[w].dlv = wk[w].dlv /\ wk'[w].ok = ok
  BY <1>1, <1>2 DEF OnlyMoves, Goroutine
<1> QED
  BY <1>1, <1>2, <1>3 DEF ReadDelivery, Local

\* The two reads that can fail: nothing is loaded, or the transaction is aborted.
LEMMA FailsDoes ==
    ASSUME IInv, NEW w \in Worker, LoadFails(w) \/ ReadFails(w)
    PROVE  /\ UNCHANGED posts /\ wk'[w].dlv = wk[w].dlv
           /\ \/ Local(w, "claimed", "loaded") /\ "load" \in Fault
              \/ Local(w, "answered", "intx") /\ "read" \in Fault
<1>1. wk[w].job \in JobId /\ wk[w] \in Goroutine /\ wk \in [Worker -> Goroutine]
  BY Lookups DEF IInv, TypeOK, LoadFails, ReadFails, At
<1>2. CASE LoadFails(w)
  <2>1. /\ OnlyMoves(w) /\ wk'[w].pc = "loaded" /\ wk'[w].job = wk[w].job
        /\ wk'[w].dlv = wk[w].dlv
    BY <1>1, <1>2 DEF LoadFails, OnlyMoves, Goroutine
  <2> QED
    BY <1>1, <1>2, <2>1 DEF LoadFails, Local, At
<1>3. CASE ReadFails(w)
  <2>1. /\ OnlyMoves(w) /\ wk'[w].pc = "intx" /\ wk'[w].job = wk[w].job
        /\ wk'[w].dlv = wk[w].dlv
    BY <1>1, <1>3 DEF ReadFails, OnlyMoves, Goroutine
  <2> QED
    BY <1>1, <1>3, <2>1 DEF ReadFails, Local, At
<1> QED
  BY <1>2, <1>3

\* A process that dies: its goroutines forget, what they had open is void.
LEMMA DiesDoes ==
    ASSUME IInv, NEW p, ProcessDies(p)
    PROVE  /\ UNCHANGED <<delivery, endpoint, posts>>
           /\ JobId' = JobId /\ AttemptId' = AttemptId
           /\ \A k \in JobId : /\ jobs'[k].attempt = jobs[k].attempt
                               /\ jobs'[k].target = jobs[k].target
                               /\ jobs'[k].counter = jobs[k].counter
                               /\ \/ jobs'[k].state = jobs[k].state
                                  \/ jobs[k].state = "running" /\ jobs'[k].state = "queued"
           /\ \A a \in AttemptId : /\ attempts'[a].delivery = attempts[a].delivery
                                   /\ attempts'[a].status = attempts[a].status
                                   /\ \/ attempts'[a].row = attempts[a].row
                                      \/ attempts[a].row = "open" /\ attempts'[a].row = "void"
           /\ \A v \in Worker : \/ wk'[v] = wk[v]
                                \/ wk'[v].pc = "idle" /\ wk'[v].dlv = 0
<1>1. \A v \in Worker : \/ wk'[v] = wk[v]
                        \/ wk'[v].pc = "idle" /\ wk'[v].dlv = 0
  BY DEF ProcessDies, Idle, Holding
<1>2. 0 \notin JobId /\ 0 \notin AttemptId
  BY Lookups DEF IInv
<1>3. \A v \in Worker : wk[v].job \in JobId => JobOf(v).state = "running"
  BY <1>2 DEF IInv, JobsHeld, Idle, Holding
<1>4. JobId' = JobId /\ AttemptId' = AttemptId
  BY DEF ProcessDies, JobId, AttemptId
<1>5. ASSUME NEW k \in JobId
      PROVE  /\ jobs'[k].attempt = jobs[k].attempt
             /\ jobs'[k].target = jobs[k].target
             /\ jobs'[k].counter = jobs[k].counter
             /\ \/ jobs'[k].state = jobs[k].state
                \/ jobs[k].state = "running" /\ jobs'[k].state = "queued"
  <2>1. jobs[k] \in JobRow
    BY Lookups DEF IInv
  <2>2. CASE jobs'[k] = jobs[k]
    BY <2>2
  <2>3. CASE jobs'[k] # jobs[k]
    <3>1. /\ jobs'[k] = [jobs[k] EXCEPT !.state = "queued"]
          /\ \E v \in Worker : wk[v].job = k
      BY <2>3 DEF ProcessDies, JobId
    <3>2. jobs[k].state = "running"
      BY <1>3, <3>1 DEF JobOf
    <3> QED
      BY <2>1, <3>1, <3>2 DEF JobRow
  <2> QED
    BY <2>2, <2>3
<1>6. ASSUME NEW a \in AttemptId
      PROVE  /\ attempts'[a].delivery = attempts[a].delivery
             /\ attempts'[a].status = attempts[a].status
             /\ \/ attempts'[a].row = attempts[a].row
                \/ attempts[a].row = "open" /\ attempts'[a].row = "void"
  <2>1. attempts[a] \in AttemptRow
    BY Lookups DEF IInv
  <2>2. CASE attempts'[a] = attempts[a]
    BY <2>2
  <2>3. CASE attempts'[a] # attempts[a]
    <3>1. /\ attempts'[a] = [attempts[a] EXCEPT !.row = "void"]
          /\ \E v \in Worker : wk[v].next = a
      BY <2>3 DEF ProcessDies, AttemptId
    <3>2. attempts[a].row = "open"
      BY <1>2, <3>1 DEF IInv, OpenRows
    <3> QED
      BY <2>1, <3>1, <3>2 DEF AttemptRow
  <2> QED
    BY <2>2, <2>3
<1> QED
  BY <1>1, <1>4, <1>5, <1>6 DEF ProcessDies

-----------------------------------------------------------------------------
(* The delivery a handler is about. *)

\* 0 is no delivery's id: the handler has it when Find found no row.
LEMMA NoDeliveryZero == 0 \notin Delivery
<1>1. Len(EndpointOf) \in Nat
  BY ConstantsAssumption, LenProperties
<1> QED
  BY <1>1 DEF Delivery

\* The handler that has a delivery works for its one pending attempt.
LEMMA HeldDelivery ==
    ASSUME IInv, NEW w \in Worker, wk[w].dlv # 0
    PROVE  LET d == wk[w].dlv
               a == JobOf(w).attempt
           IN  /\ d \in Delivery /\ d = JobOf(w).target
               /\ wk[w].job \in JobId /\ ~At(w, "idle") /\ wk[w].pc \in InHandler
               /\ Pending(a) /\ a \in AttemptId /\ a # 0 /\ attempts[a].delivery = d
               /\ delivery[d] \in DeliveryRow
               /\ delivery[d].counter \in Nat /\ delivery[d].remaining \in Nat
               /\ delivery[d].remaining > 0
               /\ delivery[d].counter + delivery[d].remaining = MaxAttempts
               /\ delivery[d].counter < MaxAttempts
<1>1. PICK d, a : d = wk[w].dlv /\ a = JobOf(w).attempt
  OBVIOUS
<1>2. /\ wk[w].pc \in InHandler /\ Pending(a) /\ attempts[a].delivery = d
  BY <1>1 DEF IInv, ReadsHold, ReadsHoldOf
<1>3. ~At(w, "idle") /\ wk[w].job \in JobId
  BY <1>2, Lookups DEF IInv, At, InHandler
<1>4. a \in AttemptId /\ a # 0 /\ d \in Delivery
  BY <1>1, <1>2, Lookups DEF IInv, Pending, Visible, AttemptId, AttemptRow
<1>5. d = JobOf(w).target
  BY <1>1, <1>2, <1>3, <1>4 DEF IInv, JobsName, JobOf
<1>6. delivery[d] \in DeliveryRow
  BY <1>4 DEF IInv, TypeOK
<1>7. /\ delivery[d].remaining > 0 /\ delivery[d].counter + delivery[d].remaining = MaxAttempts
  BY <1>2, <1>4 DEF IInv, PendingIsOwed
<1>8. MaxAttempts \in Nat
  BY ConstantsAssumption
<1>9. delivery[d].counter \in Nat /\ delivery[d].remaining \in Nat
  BY <1>6, <1>8 DEF DeliveryRow
<1>10. delivery[d].counter < MaxAttempts
  BY <1>7, <1>8, <1>9
<1> QED
  BY <1>1, <1>2, <1>3, <1>4, <1>5, <1>6, <1>7, <1>9, <1>10

\* No two handlers work for the same delivery.
LEMMA OneHandler ==
    ASSUME IInv, NEW v \in Worker, NEW w \in Worker, wk[v].dlv # 0, wk[v].dlv = wk[w].dlv
    PROVE  v = w
<1>1. PICK a, b : a = JobOf(v).attempt /\ b = JobOf(w).attempt
  OBVIOUS
<1>2. /\ Pending(a) /\ a \in AttemptId /\ a # 0 /\ attempts[a].delivery = wk[v].dlv
      /\ wk[v].job \in JobId /\ ~At(v, "idle")
  BY <1>1, HeldDelivery
<1>3. /\ Pending(b) /\ b \in AttemptId /\ attempts[b].delivery = wk[w].dlv
      /\ wk[w].job \in JobId /\ ~At(w, "idle")
  BY <1>1, HeldDelivery
<1>4. a = b
  BY <1>2, <1>3 DEF IInv, OneOpenAttempt
<1>5. wk[v].job = wk[w].job
  BY <1>1, <1>2, <1>3, <1>4 DEF IInv, JobsName, JobOf
<1> QED
  BY <1>2, <1>3, <1>5 DEF IInv, JobsHeld

\* What Commit does: the attempt gets its outcome, its delivery is charged, the
\* next attempt appears; none of it when the transaction is aborted.
Committed(w) ==
    LET s == wk[w]
    IN  /\ UNCHANGED <<jobs, posts, crashes>> /\ OnlyMoves(w)
        /\ s.pc \in InTx /\ s.job \in JobId /\ s.result # "pending"
        /\ wk'[w].pc = "recorded" /\ wk'[w].job = s.job /\ wk'[w].dlv = 0
        /\ AttemptId' = AttemptId
        /\ \A a \in AttemptId :
              /\ attempts'[a].delivery = attempts[a].delivery
              /\ attempts'[a].status = IF s.ok /\ a = s.hit THEN s.result ELSE attempts[a].status
              /\ attempts'[a].row = IF s.ok /\ a = s.next THEN "committed" ELSE attempts[a].row
        /\ \A d \in Delivery : ~(s.ok /\ d = s.dlv) => delivery'[d] = delivery[d]
        /\ s.ok /\ s.dlv # 0 =>
              /\ delivery'[s.dlv] \in DeliveryRow
              /\ delivery'[s.dlv].counter = delivery[s.dlv].counter + 1
              /\ delivery'[s.dlv].remaining = IF s.result = "success" THEN 0
                                              ELSE delivery[s.dlv].remaining - 1

\* What a transaction is about to touch: its attempt has no outcome (unless its
\* load failed), the next one is invisible and for the same delivery.
LEMMA InTransaction ==
    ASSUME IInv, NEW w \in Worker, wk[w].pc \in InTx
    PROVE  LET s == wk[w]
           IN  /\ s \in Goroutine /\ s.job \in JobId
               /\ s.ok => s.remaining = RemainingOf(s.dlv)
               /\ s.hit # 0 => /\ s.hit = JobOf(w).attempt /\ s.hit \in AttemptId
                               /\ attempts[s.hit].row = "committed"
                               /\ Loads \/ s.dlv # 0 => Pending(s.hit)
               /\ s.ok /\ s.dlv # 0 => /\ s.hit = JobOf(w).attempt /\ s.hit # 0
                                       /\ attempts[s.hit].delivery = s.dlv
               /\ s.next # 0 => /\ s.pc = "rescheduled" /\ s.ok /\ s.dlv # 0
                                /\ s.next \in AttemptId /\ attempts[s.next].row = "open"
                                /\ attempts[s.next].status = "pending"
                                /\ attempts[s.next].delivery = s.dlv /\ s.next # s.hit
<1>1. PICK s : s = wk[w]
  OBVIOUS
<1>2. s \in Goroutine /\ s.job \in JobId /\ ReadsHoldOf(w)
  BY <1>1, Lookups DEF IInv, ReadsHold, At, InTx
<1>3. s.ok => s.remaining = RemainingOf(s.dlv)
  BY <1>1, <1>2 DEF ReadsHoldOf
<1>4. s.hit # 0 => /\ s.hit = JobOf(w).attempt /\ s.hit \in AttemptId
                   /\ attempts[s.hit].row = "committed"
                   /\ Loads \/ s.dlv # 0 => Pending(s.hit)
  BY <1>1, <1>2 DEF ReadsHoldOf, Visible, AttemptId
<1>5. s.ok /\ s.dlv # 0 => /\ s.hit = JobOf(w).attempt /\ s.hit # 0
                          /\ attempts[s.hit].delivery = s.dlv
  BY <1>1, <1>2, HeldDelivery DEF ReadsHoldOf
<1>6. ASSUME s.next # 0
      PROVE  /\ s.pc = "rescheduled" /\ s.ok /\ s.dlv # 0
             /\ s.next \in AttemptId /\ attempts[s.next].row = "open"
             /\ attempts[s.next].status = "pending"
             /\ attempts[s.next].delivery = s.dlv /\ s.next # s.hit
  <2>1. /\ At(w, "rescheduled") /\ s.next \in AttemptId /\ attempts[s.next].row = "open"
        /\ attempts[s.next].delivery = s.dlv
    BY <1>1, <1>6 DEF IInv, OpenRows
  <2>2. attempts[s.next].status = "pending"
    BY <2>1 DEF IInv, OpenRows
  <2>3. s.ok /\ s.dlv # 0
    BY <1>1, <1>2, <1>6, <2>1 DEF ReadsHoldOf
  <2>4. s.next # s.hit
    BY <1>4, <1>6, <2>1
  <2> QED
    BY <1>1, <2>1, <2>2, <2>3, <2>4 DEF At
<1> QED
  BY <1>1, <1>2, <1>3, <1>4, <1>5, <1>6

LEMMA CommitDoes ==
    ASSUME IInv, NEW w \in Worker, Commit(w)
    PROVE  Committed(w)
<1>1. PICK s : s = wk[w]
  OBVIOUS
<1>2. s.pc \in InTx
  BY <1>1 DEF Commit, InTx
<1>3. s \in Goroutine /\ s.job \in JobId /\ s.result \in Result /\ s.result # "pending"
  BY <1>1, <1>2, InTransaction, OutcomeNotPending DEF Goroutine
<1>4. /\ UNCHANGED <<jobs, posts, crashes>> /\ OnlyMoves(w)
      /\ wk'[w].pc = "recorded" /\ wk'[w].job = s.job /\ wk'[w].dlv = 0
  BY <1>1 DEF IInv, TypeOK, Commit, OnlyMoves, Holding
<1>5. /\ AttemptId' = AttemptId
      /\ \A a \in AttemptId :
            /\ attempts'[a].delivery = attempts[a].delivery
            /\ attempts'[a].status = IF s.ok /\ a = s.hit THEN s.result ELSE attempts[a].status
            /\ attempts'[a].row = IF s.ok /\ a = s.next THEN "committed" ELSE attempts[a].row
  <2>1. \A a \in AttemptId : attempts[a] \in AttemptRow
    BY Lookups DEF IInv
  <2>2. attempts' =
          [a \in AttemptId |->
             IF s.ok /\ a = s.hit THEN [attempts[a] EXCEPT !.status = s.result]
             ELSE IF s.ok /\ a = s.next THEN [attempts[a] EXCEPT !.row = "committed"]
             ELSE attempts[a]]
    BY <1>1 DEF Commit, AttemptId
  <2>3. 0 \notin AttemptId
    BY Lookups DEF IInv
  <2>4. \A a \in AttemptId : a = s.next => a # s.hit
    BY <1>1, <1>2, <2>3, InTransaction
  <2> QED
    BY <2>1, <2>2, <2>4 DEF AttemptId, AttemptRow
<1>6. ASSUME NEW d \in Delivery
      PROVE  delivery'[d] = IF s.ok /\ d = s.dlv THEN Charge(delivery[d], s) ELSE delivery[d]
  BY <1>1 DEF Commit
<1>7. ASSUME s.ok, s.dlv # 0
      PROVE  /\ delivery'[s.dlv] \in DeliveryRow
             /\ delivery'[s.dlv].counter = delivery[s.dlv].counter + 1
             /\ delivery'[s.dlv].remaining = IF s.result = "success" THEN 0
                                             ELSE delivery[s.dlv].remaining - 1
  <2>1. /\ s.dlv \in Delivery /\ delivery[s.dlv] \in DeliveryRow
        /\ delivery[s.dlv].remaining > 0 /\ delivery[s.dlv].remaining \in Nat
        /\ delivery[s.dlv].counter \in Nat
    BY <1>1, <1>7, HeldDelivery
  <2>2. s.remaining = delivery[s.dlv].remaining
    BY <1>1, <1>2, <1>7, InTransaction DEF RemainingOf
  <2>3. delivery'[s.dlv] = Charge(delivery[s.dlv], s) /\ s.remaining # 0
    BY <1>6, <1>7, <2>1, <2>2
  <2>4. PICK left : left = IF s.result = "success" THEN 0 ELSE delivery[s.dlv].remaining - 1
    OBVIOUS
  <2>5. left \in 0 .. MaxAttempts
    BY <2>1, <2>4, ConstantsAssumption DEF DeliveryRow
  <2>6. Charge(delivery[s.dlv], s) = [counter |-> delivery[s.dlv].counter + 1, remaining |-> left]
    BY <2>1, <2>3, <2>4 DEF Charge, DeliveryRow
  <2> QED
    BY <2>1, <2>3, <2>4, <2>5, <2>6 DEF DeliveryRow
<1> QED
  BY <1>1, <1>2, <1>3, <1>4, <1>5, <1>6, <1>7 DEF Committed

-----------------------------------------------------------------------------
(* Every charge is backed by a POST. *)

\* Initially nothing was sent and nothing charged.
LEMMA InitCover == Init => PostsCover
<1> SUFFICES ASSUME Init PROVE PostsCover
  OBVIOUS
<1>1. \A w \in Worker : ~Called(w)
  BY DEF Init, Idle, Holding, Called
<1> QED
  BY <1>1, ConstantsAssumption DEF Init, PostsCover

\* Steps that neither send nor charge.
LEMMA CoverKept ==
    ASSUME PostsCover, UNCHANGED <<delivery, posts>>,
           \A v \in Worker : Called(v)' /\ wk'[v].dlv # 0 => Called(v) /\ wk'[v].dlv = wk[v].dlv
    PROVE  PostsCover'
BY DEF PostsCover

\* A step of one goroutine leaves the others where they were.
LEMMA OthersCalled ==
    ASSUME NEW w \in Worker, OnlyMoves(w)
    PROVE  \A v \in Worker \ {w} : wk'[v] = wk[v] /\ (Called(v)' <=> Called(v))
BY DEF OnlyMoves, Called

LEMMA CoverStep ==
    ASSUME IInv, PostsCover, [Next]_vars
    PROVE  PostsCover'
<1>1. ASSUME NEW w \in Worker, OnlyMoves(w), UNCHANGED <<delivery, posts>>,
             Called(w)' => Called(w) /\ wk'[w].dlv = wk[w].dlv
      PROVE  PostsCover'
  BY <1>1, CoverKept, OthersCalled
<1>2. ASSUME NEW w \in Worker, NEW j \in JobId, Claim(w, j) PROVE PostsCover'
  BY <1>1, <1>2, ClaimDoes DEF Called
<1>3. ASSUME NEW w \in Worker, LoadAttempt(w) PROVE PostsCover'
  BY <1>1, <1>3, LoadDoes DEF Local, Called
<1>4. ASSUME NEW w \in Worker, PanicRecovered(w) \/ Finish(w) PROVE PostsCover'
  BY <1>1, <1>4, EndDoes DEF Called
<1>5. ASSUME NEW w \in Worker, ReadDelivery(w) PROVE PostsCover'
  BY <1>1, <1>5, ReadDoes DEF Local, Called
<1>11. ASSUME NEW w \in Worker, LoadFails(w) \/ ReadFails(w) PROVE PostsCover'
  BY <1>1, <1>11, FailsDoes DEF Local, Called
<1>6. ASSUME NEW w \in Worker, Reschedule(w) PROVE PostsCover'
  <2>1. PICK n : Rescheduled(w, n)
    BY <1>6, RescheduleEffect
  <2>2. OnlyMoves(w) /\ wk'[w].dlv = wk[w].dlv /\ Called(w)
    BY <1>6, <2>1 DEF Rescheduled, OnlyMoves, Reschedule, At, Called
  <2> QED
    BY <1>1, <1>6, <2>2 DEF Reschedule
<1>7. ASSUME NEW p, ProcessDies(p) PROVE PostsCover'
  BY <1>7, DiesDoes, CoverKept DEF Called
<1>8. ASSUME UNCHANGED <<delivery, posts, wk>> PROVE PostsCover'
  BY <1>8, CoverKept DEF Called
<1>9. ASSUME NEW w \in Worker, CallEndpoint(w) PROVE PostsCover'
  <2>1. PICK t : t = JobOf(w).target
    OBVIOUS
  <2>2. /\ OnlyMoves(w) /\ UNCHANGED delivery /\ wk'[w].dlv = wk[w].dlv /\ t \in Delivery
        /\ posts'[t] = Posted(posts[t]) /\ \A d \in Delivery \ {t} : posts'[d] = posts[d]
    BY <1>9, <2>1, CallDoes DEF Local
  <2>3. \A d \in Delivery : posts[d] \in 0 .. MaxAttempts + 1 /\ delivery[d].counter \in Nat
    BY ConstantsAssumption DEF IInv, TypeOK, DeliveryRow
  <2>4. MaxAttempts \in Nat
    BY ConstantsAssumption
  <2>5. posts'[t] >= posts[t] /\ delivery[t].counter < posts'[t] /\ posts'[t] \in Nat
    BY <2>2, <2>3, <2>4 DEF Posted, PostsCover
  <2>6. \A d \in Delivery : posts'[d] >= posts[d] /\ posts'[d] \in Nat
    BY <2>2, <2>3, <2>4, <2>5
  <2>7. ASSUME NEW v \in Worker, Called(v)', wk'[v].dlv # 0
        PROVE  delivery'[wk'[v].dlv].counter < posts'[wk'[v].dlv]
    <3>1. CASE v = w
      BY <2>1, <2>2, <2>5, <2>7, <3>1, HeldDelivery
    <3>2. CASE v # w
      <4>1. wk'[v] = wk[v] /\ Called(v) /\ wk[v].dlv \in Delivery
        BY <2>2, <2>7, <3>2, OthersCalled, HeldDelivery
      <4>2. delivery[wk[v].dlv].counter < posts[wk[v].dlv]
        BY <2>7, <4>1 DEF PostsCover
      <4> QED
        BY <2>2, <2>3, <2>6, <4>1, <4>2
    <3> QED
      BY <3>1, <3>2
  <2>8. \A d \in Delivery : delivery'[d].counter <= posts'[d] /\ delivery'[d].counter <= MaxAttempts
    BY <2>2, <2>3, <2>6 DEF PostsCover
  <2> QED
    BY <2>7, <2>8 DEF PostsCover
<1>10. ASSUME NEW w \in Worker, Commit(w) PROVE PostsCover'
  <2>1. PICK s : s = wk[w]
    OBVIOUS
  <2>2. /\ OnlyMoves(w) /\ UNCHANGED posts /\ ~Called(w)' /\ Called(w)
        /\ \A d \in Delivery : ~(s.ok /\ d = s.dlv) => delivery'[d] = delivery[d]
        /\ s.ok /\ s.dlv # 0 => delivery'[s.dlv].counter = delivery[s.dlv].counter + 1
    BY <1>10, <2>1, CommitDoes DEF Committed, Called, InTx
  <2>3. \A d \in Delivery : d # 0 /\ posts[d] \in Nat /\ delivery[d].counter \in Nat
    <3>1. \A d \in Delivery : posts[d] \in 0 .. MaxAttempts + 1 /\ delivery[d].counter \in Nat
      BY ConstantsAssumption DEF IInv, TypeOK, DeliveryRow
    <3>2. \A n \in 0 .. MaxAttempts + 1 : n \in Nat
      BY ConstantsAssumption
    <3> QED
      BY <3>1, <3>2, NoDeliveryZero
  <2>4. \A d \in Delivery : delivery'[d].counter <= posts'[d] /\ delivery'[d].counter <= MaxAttempts
    <3>1. ASSUME NEW d \in Delivery, s.ok, d = s.dlv
          PROVE  delivery'[d].counter <= posts'[d] /\ delivery'[d].counter <= MaxAttempts
      <4>1. delivery[d].counter < posts[d] /\ delivery[d].counter < MaxAttempts
        BY <2>1, <2>2, <2>3, <3>1, HeldDelivery DEF PostsCover
      <4>2. delivery'[d].counter = delivery[d].counter + 1
        BY <2>2, <2>3, <3>1
      <4>3. MaxAttempts \in Nat
        BY ConstantsAssumption
      <4> QED
        BY <2>2, <2>3, <4>1, <4>2, <4>3
    <3> QED
      BY <2>2, <3>1 DEF PostsCover
  <2>5. ASSUME NEW v \in Worker, Called(v)', wk'[v].dlv # 0
        PROVE  delivery'[wk'[v].dlv].counter < posts'[wk'[v].dlv]
    <3>1. v # w /\ wk'[v] = wk[v] /\ Called(v) /\ wk[v].dlv \in Delivery
      BY <2>2, <2>5, OthersCalled, HeldDelivery
    <3>2. wk[v].dlv # s.dlv
      BY <2>1, <2>5, <3>1, OneHandler
    <3> QED
      BY <2>2, <2>5, <3>1, <3>2 DEF PostsCover
  <2> QED
    BY <2>4, <2>5 DEF PostsCover
<1> QED
  <2>1. ASSUME NEW w \in Worker, Poll(w) \/ Handle(w) PROVE PostsCover'
    BY <1>2, <1>3, <1>4, <1>5, <1>6, <1>7, <1>9, <1>10, <1>11, <2>1
       DEF Poll, Handle, PanicFatal, JobId
  <2>2. ASSUME NEW p \in Process, Crash(p) PROVE PostsCover'
    BY <1>7, <2>2 DEF Crash
  <2>3. ASSUME Time \/ \E e \in Endpoint : \E st \in {"enabled", "disabled"} : UpdateEndpoint(e, st)
        PROVE  PostsCover'
    BY <1>8, <2>3 DEF Time, BackoffElapses, UpdateEndpoint
  <2>4. CASE UNCHANGED vars
    BY <1>8, <2>4 DEF vars
  <2> QED
    BY <2>1, <2>2, <2>3, <2>4 DEF Next

\* The charges of a delivery are backed by its POSTs and never more than maxAttempts.
THEOREM ChargesAreBacked ==
    ASSUME MaxAttempts > 0
    PROVE  Spec => []PostsCover
<1>1. Init => IInv /\ PostsCover
  BY InitIInv, InitCover
<1>2. IInv /\ PostsCover /\ [Next]_vars => IInv' /\ PostsCover'
  BY StepIInv, CoverStep
<1> QED
  BY <1>1, <1>2, PTL DEF Spec

-----------------------------------------------------------------------------
(* The dispatcher implements DeliveryLedger. *)

\* The account of a delivery, as the refinement mapping sees it.
AccountOf(d) == [posts |-> posts[d], counter |-> delivery[d].counter,
                 remaining |-> delivery[d].remaining]

\* A step that charges and disables nothing is none for the ledger.
LEMMA NoEntry ==
    ASSUME UNCHANGED <<posts, endpoint>>,
           \A d \in Delivery : delivery'[d] = delivery[d]
    PROVE  UNCHANGED Accounts!vars
BY DEF Accounts!vars

\* An entry of the ledger changes the account of one delivery.
LEMMA OneEntry ==
    ASSUME NEW d \in Delivery, \A e \in Delivery \ {d} : AccountOf(e)' = AccountOf(e)
    PROVE  [e \in Delivery |-> AccountOf(e)]'
             = [[e \in Delivery |-> AccountOf(e)] EXCEPT ![d] = AccountOf(d)']
OBVIOUS

\* A POST is an entry: nothing but the number of POSTs changes.
LEMMA PostEntry ==
    ASSUME IInv, NEW w \in Worker, CallEndpoint(w)
    PROVE  Accounts!Next
<1>1. PICK t : t = JobOf(w).target
  OBVIOUS
<1>2. /\ UNCHANGED <<delivery, endpoint>> /\ t \in Delivery
      /\ posts'[t] = Posted(posts[t]) /\ \A d \in Delivery \ {t} : posts'[d] = posts[d]
  BY <1>1, CallDoes DEF Local
<1>3. Accounts!Post(t)
  <2>1. [e \in Delivery |-> AccountOf(e)]'
          = [[e \in Delivery |-> AccountOf(e)] EXCEPT ![t] = AccountOf(t)']
    BY <1>2, OneEntry DEF AccountOf
  <2>2. AccountOf(t)' = [AccountOf(t) EXCEPT !.posts = IF @ > MaxAttempts THEN @ ELSE @ + 1]
    BY <1>2 DEF AccountOf, Posted
  <2> QED
    BY <1>2, <2>1, <2>2 DEF Accounts!Post, AccountOf
<1>4. t \in Accounts!Delivery
  BY <1>2 DEF Delivery, Accounts!Delivery
<1> QED
  BY <1>3, <1>4 DEF Accounts!Next

\* A commit is the entry its outcome calls for, or none.
LEMMA CommitEntry ==
    ASSUME IInv, PostsCover, NEW w \in Worker, Commit(w)
    PROVE  Accounts!Next \/ UNCHANGED Accounts!vars
<1>1. PICK s, d : s = wk[w] /\ d = s.dlv
  OBVIOUS
<1>2. /\ UNCHANGED posts /\ s.pc \in InTx
      /\ \A e \in Delivery : ~(s.ok /\ e = d) => delivery'[e] = delivery[e]
      /\ s.ok /\ d # 0 =>
            /\ delivery'[d].counter = delivery[d].counter + 1
            /\ delivery'[d].remaining = IF s.result = "success" THEN 0
                                        ELSE delivery[d].remaining - 1
  BY <1>1, CommitDoes DEF Committed
<1>3. /\ s.ok => s.remaining = RemainingOf(d)
      /\ s.pc = "rescheduled" => WillRetry(s)
      /\ s.pc = "intx" => ~WillRetry(s)
  BY <1>1, <1>2 DEF Commit, IInv, ReadsHold, ReadsHoldOf, At
<1>4. endpoint' = IF s.ok /\ s.pc = "intx" /\ s.result # "success"
                  THEN [endpoint EXCEPT ![EndpointOf[JobOf(w).target]] = "disabled"]
                  ELSE endpoint
  BY <1>1 DEF Commit
<1>5. CASE ~(s.ok /\ d # 0)
  <2>1. \A e \in Delivery : delivery'[e] = delivery[e]
    BY <1>2, <1>5, NoDeliveryZero
  <2>2. endpoint' = endpoint
    <3>1. SUFFICES ASSUME s.ok, s.pc = "intx", s.result # "success" PROVE FALSE
      BY <1>4
    <3>2. s.remaining = 0
      BY <1>3, <1>5, <3>1 DEF RemainingOf
    <3>3. WillRetry(s)
      BY <3>1, <3>2, ConstantsAssumption DEF WillRetry, NoMoreAttempts, UintMinusOne
    <3> QED
      BY <1>3, <3>1, <3>3
  <2> QED
    BY <1>2, <2>1, <2>2, NoEntry
<1>6. CASE s.ok /\ d # 0
  <2>1. /\ d \in Delivery /\ d = JobOf(w).target
        /\ delivery[d].remaining > 0 /\ delivery[d].remaining \in Nat
        /\ delivery[d].counter \in Nat
    BY <1>1, <1>6, HeldDelivery
  <2>2. s.remaining = delivery[d].remaining
    BY <1>3, <1>6 DEF RemainingOf
  <2>3. d \in Accounts!Delivery
    BY <2>1 DEF Delivery, Accounts!Delivery
  <2>4. delivery[d].counter < posts[d] /\ posts[d] \in Int
    <3>1. Called(w)
      BY <1>1, <1>2 DEF Called, InTx
    <3>2. posts[d] \in 0 .. MaxAttempts + 1
      BY <2>1 DEF IInv, TypeOK
    <3> QED
      BY <1>1, <1>6, <3>1, <3>2 DEF PostsCover
  <2>5. Accounts!Backed(d)
    BY <2>1, <2>4 DEF Accounts!Backed
  <2>10. PICK left : left = delivery'[d].remaining
    OBVIOUS
  <2>6. Accounts!Charge(d, left)
    <3>1. [e \in Delivery |-> AccountOf(e)]'
            = [[e \in Delivery |-> AccountOf(e)] EXCEPT ![d] = AccountOf(d)']
      <4>1. \A e \in Delivery \ {d} : AccountOf(e)' = AccountOf(e)
        BY <1>2 DEF AccountOf
      <4> QED
        BY <2>1, <4>1, OneEntry
    <3>2. AccountOf(d)' = [posts |-> posts[d], counter |-> delivery[d].counter + 1,
                           remaining |-> left]
      BY <1>2, <1>6, <2>10 DEF AccountOf
    <3>3. PICK f : f = [e \in Delivery |-> AccountOf(e)]
      OBVIOUS
    <3>4. PICK m, c, r : m = posts[d] /\ c = delivery[d].counter /\ r = delivery[d].remaining
      OBVIOUS
    <3>7. /\ f \in [Delivery -> {AccountOf(e) : e \in Delivery}]
          /\ f[d] = [posts |-> m, counter |-> c, remaining |-> r]
      BY <2>1, <3>3, <3>4 DEF AccountOf
    <3>6. [f EXCEPT ![d].counter = @ + 1, ![d].remaining = left]
            = [f EXCEPT ![d] = [posts |-> m, counter |-> c + 1, remaining |-> left]]
      <4>1. PICK g : g = [f EXCEPT ![d].counter = @ + 1, ![d].remaining = left]
        OBVIOUS
      <4>2. /\ DOMAIN g = Delivery /\ g = [e \in Delivery |-> g[e]]
            /\ \A e \in Delivery : e # d => g[e] = f[e]
        BY <2>1, <3>7, <4>1
      <4>3. PICK x, y : x = f[d] /\ y = [x EXCEPT !.counter = @ + 1, !.remaining = left]
        OBVIOUS
      <4>4. g[d] = y
        BY <2>1, <3>7, <4>1, <4>3
      <4>5. x.counter = c /\ x.posts = m
        BY <3>7, <4>3
      <4>6. y.counter = c + 1 /\ y.remaining = left /\ y.posts = m
        BY <3>7, <4>3, <4>5
      <4>7. y = [posts |-> m, counter |-> c + 1, remaining |-> left]
        BY <3>7, <4>3, <4>6
      <4> QED
        BY <2>1, <3>7, <4>1, <4>2, <4>4, <4>7
    <3>5. [e \in Delivery |-> AccountOf(e)]'
            = [f EXCEPT ![d].counter = @ + 1, ![d].remaining = left]
      BY <3>1, <3>2, <3>3, <3>4, <3>6
    <3> QED
      BY <3>3, <3>5 DEF Accounts!Charge, AccountOf
  <2>7. CASE s.result = "success"
    <3>1. left = 0 /\ endpoint' = endpoint
      BY <1>2, <1>4, <1>6, <2>7, <2>10
    <3>2. Accounts!RecordSuccess(d)
      BY <2>5, <2>6, <3>1 DEF Accounts!RecordSuccess
    <3> QED
      BY <2>3, <3>2 DEF Accounts!Next
  <2>8. CASE s.result # "success" /\ delivery[d].remaining > 1
    <3>1. WillRetry(s)
      BY <2>1, <2>2, <2>8, BreakerAtOne DEF WillRetry
    <3>2. left = delivery[d].remaining - 1 /\ endpoint' = endpoint
      BY <1>2, <1>3, <1>4, <1>6, <2>8, <2>10, <3>1
    <3>3. [e \in Delivery |-> [posts |-> posts[e], counter |-> delivery[e].counter,
                              remaining |-> delivery[e].remaining]][d].remaining - 1 = left
      BY <2>1, <3>2
    <3>4. Accounts!RecordFailure(d)
      BY <2>1, <2>5, <2>6, <2>8, <3>2, <3>3 DEF Accounts!RecordFailure, Accounts!Charge
    <3> QED
      BY <2>3, <3>4 DEF Accounts!Next
  <2>9. CASE s.result # "success" /\ delivery[d].remaining = 1
    <3>1. ~WillRetry(s)
      BY <2>1, <2>2, <2>9, BreakerAtOne DEF WillRetry
    <3>2. s.pc = "intx"
      BY <1>2, <1>3, <3>1 DEF InTx
    <3>3. /\ left = 0
          /\ endpoint' = [endpoint EXCEPT ![EndpointOf[d]] = "disabled"]
      BY <1>2, <1>4, <1>6, <2>1, <2>9, <2>10, <3>2
    <3>4. Accounts!Exhaust(d)
      BY <2>1, <2>5, <2>6, <2>9, <3>3 DEF Accounts!Exhaust
    <3> QED
      BY <2>3, <3>4 DEF Accounts!Next
  <2> QED
    BY <2>1, <2>7, <2>8, <2>9
<1> QED
  BY <1>5, <1>6

\* Every step is an entry of the ledger or none.
LEMMA LedgerStep ==
    ASSUME IInv, PostsCover, [Next]_vars
    PROVE  [Accounts!Next]_(Accounts!vars)
<1> DEFINE Entry == Accounts!Next \/ UNCHANGED Accounts!vars
<1>1. ASSUME UNCHANGED <<delivery, posts, endpoint>> PROVE Entry
  BY <1>1, NoEntry
<1>2. ASSUME NEW w \in Worker, Poll(w) \/ Handle(w) PROVE Entry
  <2>1. CASE CallEndpoint(w)
    BY <2>1, PostEntry
  <2>2. CASE Commit(w)
    BY <2>2, CommitEntry
  <2>3. CASE ~CallEndpoint(w) /\ ~Commit(w)
    BY <1>1, <1>2, <2>3 DEF Poll, Claim, Handle, LoadAttempt, LoadFails, PanicRecovered,
                            PanicFatal, ProcessDies, ReadDelivery, ReadFails, Reschedule, Finish
  <2> QED
    BY <2>1, <2>2, <2>3
<1>3. ASSUME NEW p \in Process, Crash(p) PROVE Entry
  BY <1>1, <1>3 DEF Crash, ProcessDies
<1>4. ASSUME Time PROVE Entry
  BY <1>1, <1>4 DEF Time, BackoffElapses
<1>5. ASSUME NEW e \in Endpoint, NEW st \in {"enabled", "disabled"}, UpdateEndpoint(e, st)
      PROVE  Entry
  <2>1. Accounts!SetStatus(e, st)
    BY <1>5 DEF UpdateEndpoint, Accounts!SetStatus
  <2> QED
    BY <2>1 DEF Accounts!Next
<1>6. ASSUME UNCHANGED vars PROVE Entry
  BY <1>1, <1>6 DEF vars
<1> HIDE DEF Entry
<1>7. Entry
  BY <1>2, <1>3, <1>4, <1>5, <1>6 DEF Next
<1> QED
  BY <1>7 DEF Entry

\* Every delivery has an account kept as DeliveryLedger promises: an attempt is charged
\* once, after a POST, until the account is settled, and the endpoint is disabled in the
\* very step that uses up the last attempt, whatever fails and however often it crashes.
THEOREM KeepsTheLedger ==
    ASSUME MaxAttempts > 0
    PROVE  Spec => LedgerSpec
<1>1. Init => Accounts!Init
  <2> SUFFICES ASSUME Init PROVE Accounts!Init
    OBVIOUS
  <2> QED
    BY DEF Init, Accounts!Init, Accounts!Delivery, Delivery
<1>2. IInv /\ PostsCover /\ [Next]_vars => [Accounts!Next]_(Accounts!vars)
  BY LedgerStep
<1> QED
  BY <1>1, <1>2, Invariance, ChargesAreBacked, PTL DEF Spec, LedgerSpec, Accounts!Spec

-----------------------------------------------------------------------------
(* The exponent of the backoff. *)

\* The number of the attempt that is in the payload of job j.
CounterOf(j) == IF jobs[j].counter = 0 THEN 1 ELSE jobs[j].counter

\* The job of an attempt still invisible is one ahead: the charge of the attempt
\* before it belongs to the same transaction.
Exponents ==
    /\ BackoffExponent
    /\ \A j \in JobId : jobs[j].attempt # 0 /\ attempts[jobs[j].attempt].row = "open" =>
           CounterOf(j) = delivery[jobs[j].target].counter + 2

\* Initially no job carries a counter and nothing was charged.
LEMMA InitExponents == Init => Exponents
<1> SUFFICES ASSUME Init PROVE Exponents
  OBVIOUS
<1>1. JobId = Delivery
  BY DEF Init, JobId
<1>2. \A j \in Delivery : delivery[j].counter = 0 /\ attempts[j].row = "committed"
  BY DEF Init
<1>3. ASSUME NEW j \in JobId
      PROVE  jobs[j].counter = 0 /\ jobs[j].attempt = j /\ jobs[j].target = j
  BY <1>1 DEF Init
<1>4. \A j \in JobId : delivery[jobs[j].target].counter + 1 = 1 /\ CounterOf(j) = 1
  BY <1>1, <1>2, <1>3 DEF CounterOf
<1>5. BackoffExponent
  BY <1>4 DEF BackoffExponent, CounterOf
<1> QED
  BY <1>1, <1>2, <1>3, <1>5 DEF Exponents

\* Steps that charge nothing, and neither queue a job nor show an attempt.
LEMMA ExponentsKept ==
    ASSUME Exponents, UNCHANGED delivery, JobId' = JobId,
           \A k \in JobId : /\ jobs'[k].attempt = jobs[k].attempt
                            /\ jobs'[k].target = jobs[k].target
                            /\ jobs'[k].counter = jobs[k].counter,
           \A a : Pending(a)' => Pending(a),
           \A k \in JobId : jobs[k].attempt # 0 /\ attempts'[jobs[k].attempt].row = "open" =>
               attempts[jobs[k].attempt].row = "open"
    PROVE  Exponents'
<1>1. ASSUME NEW k \in JobId PROVE CounterOf(k)' = CounterOf(k)
  BY DEF CounterOf
<1>2. ASSUME NEW k \in JobId, Pending(jobs[k].attempt)'
      PROVE  CounterOf(k)' = delivery'[jobs'[k].target].counter + 1
  <2>1. PICK a : a = jobs[k].attempt
    OBVIOUS
  <2>2. Pending(a)'
    BY <1>2, <2>1 DEF Pending, Visible
  <2>3. Pending(jobs[k].attempt)
    BY <2>1, <2>2
  <2> QED
    BY <1>1, <2>3 DEF Exponents, BackoffExponent, CounterOf
<1>3. ASSUME NEW k \in JobId, jobs'[k].attempt # 0, attempts'[jobs'[k].attempt].row = "open"
      PROVE  CounterOf(k)' = delivery'[jobs'[k].target].counter + 2
  BY <1>1, <1>3 DEF Exponents
<1> QED
  BY <1>2, <1>3 DEF Exponents, BackoffExponent, CounterOf

\* An attempt is as visible and as pending as its row says.
LEMMA PendingSame == UNCHANGED attempts => \A a : Pending(a)' <=> Pending(a)
BY DEF Pending, Visible

LEMMA ExponentsStep ==
    ASSUME IInv, Exponents, [Next]_vars
    PROVE  Exponents'
<1>1. ASSUME UNCHANGED <<delivery, attempts>>, NEW j, NEW st, JobMoves(j, st) PROVE Exponents'
  BY <1>1, ExponentsKept, PendingSame DEF JobMoves
<1>2. ASSUME UNCHANGED <<delivery, attempts, jobs>> PROVE Exponents'
  <2>1. JobId' = JobId
    BY <1>2 DEF JobId
  <2> QED
    BY <1>2, <2>1, ExponentsKept, PendingSame
<1>3. ASSUME NEW p, ProcessDies(p) PROVE Exponents'
  <2>1. \A a : Pending(a)' => Pending(a)
    BY <1>3, DiesDoes DEF Pending, Visible, AttemptId
  <2>2. \A k \in JobId : jobs[k].attempt # 0 => jobs[k].attempt \in AttemptId
    BY DEF IInv, JobsName
  <2> QED
    BY <1>3, <2>1, <2>2, DiesDoes, ExponentsKept
<1>4. ASSUME NEW w \in Worker, Reschedule(w) PROVE Exponents'
  <2>1. PICK n : Rescheduled(w, n)
    BY <1>4, RescheduleEffect
  <2>2. UNCHANGED delivery
    BY <1>4 DEF Reschedule
  <2>3. \A k \in JobId : CounterOf(k)' = CounterOf(k) /\ jobs'[k] = jobs[k]
    BY <2>1 DEF Rescheduled, CounterOf
  <2>4. \A a : Pending(a)' => Pending(a)
    BY <2>1 DEF Rescheduled, Pending, Visible, AttemptId
  <2>5. 0 \notin AttemptId
    BY Lookups DEF IInv
  <2>6. \A k \in JobId : jobs[k].attempt # 0 =>
            jobs[k].attempt \in AttemptId /\ attempts'[jobs[k].attempt] = attempts[jobs[k].attempt]
    BY <2>1 DEF Rescheduled, IInv, JobsName
  <2>7. ASSUME NEW k \in JobId', k \notin JobId, n # 0
        PROVE  CounterOf(k)' = delivery'[jobs'[k].target].counter + 2
    <3>1. PICK c, t : c = JobOf(w).counter /\ t = JobOf(w).target
      OBVIOUS
    <3>2. jobs'[k].counter = NextCounter(c) /\ jobs'[k].target = t
      BY <2>1, <2>7, <3>1 DEF Rescheduled
    <3>3. wk[w].dlv # 0 /\ wk[w].job \in JobId
      BY <2>1, <2>7, HeldDelivery DEF Rescheduled
    <3>4. Pending(JobOf(w).attempt) /\ delivery[t].counter \in Nat
      BY <3>1, <3>3, HeldDelivery
    <3>5. c \in Nat
      BY <3>1, <3>3, Lookups DEF IInv, JobRow, JobOf
    <3>6. (IF c = 0 THEN 1 ELSE c) = delivery[t].counter + 1
      BY <3>1, <3>3, <3>4 DEF Exponents, BackoffExponent, JobOf
    <3>7. NextCounter(c) = delivery[t].counter + 2 /\ NextCounter(c) # 0
      BY <3>4, <3>5, <3>6 DEF NextCounter
    <3> QED
      BY <2>2, <3>2, <3>7 DEF CounterOf
  <2>8. ASSUME NEW k \in JobId', Pending(jobs[k].attempt)'
        PROVE  CounterOf(k)' = delivery'[jobs'[k].target].counter + 1
    <3>1. Pending(jobs'[k].attempt)
      <4>1. PICK a : a = jobs'[k].attempt
        OBVIOUS
      <4>2. Pending(a)'
        BY <2>8, <4>1 DEF Pending, Visible
      <4> QED
        BY <2>4, <4>1, <4>2
    <3>2. k \in JobId
      <4>1. jobs'[k].attempt \in AttemptId
        BY <3>1 DEF Pending, Visible, AttemptId
      <4> QED
        BY <2>1, <4>1 DEF Rescheduled
    <3> QED
      BY <2>2, <2>3, <3>1, <3>2 DEF Exponents, BackoffExponent, CounterOf
  <2>9. ASSUME NEW k \in JobId', jobs'[k].attempt # 0, attempts'[jobs'[k].attempt].row = "open"
        PROVE  CounterOf(k)' = delivery'[jobs'[k].target].counter + 2
    <3>1. CASE k \in JobId
      BY <2>2, <2>3, <2>6, <2>9, <3>1 DEF Exponents
    <3>2. CASE k \notin JobId
      <4>1. n # 0
        BY <2>1, <2>9, <3>2 DEF Rescheduled
      <4> QED
        BY <2>7, <3>2, <4>1
    <3> QED
      BY <3>1, <3>2
  <2> QED
    BY <2>8, <2>9 DEF Exponents, BackoffExponent, CounterOf
<1>5. ASSUME NEW w \in Worker, Commit(w) PROVE Exponents'
  <2>1. PICK s, d : s = wk[w] /\ d = s.dlv
    OBVIOUS
  <2>2. /\ UNCHANGED jobs /\ JobId' = JobId /\ AttemptId' = AttemptId /\ s.result # "pending"
        /\ \A a \in AttemptId :
              /\ attempts'[a].delivery = attempts[a].delivery
              /\ attempts'[a].status = IF s.ok /\ a = s.hit THEN s.result ELSE attempts[a].status
              /\ attempts'[a].row = IF s.ok /\ a = s.next THEN "committed" ELSE attempts[a].row
        /\ \A e \in Delivery : ~(s.ok /\ e = d) => delivery'[e] = delivery[e]
        /\ s.ok /\ d # 0 => delivery'[d].counter = delivery[d].counter + 1
    BY <1>5, <2>1, CommitDoes DEF Committed, JobId
  <2>3. /\ s.ok /\ d # 0 => s.hit # 0 /\ attempts[s.hit].delivery = d /\ Pending(s.hit)
        /\ s.hit # 0 => s.hit \in AttemptId
        /\ s.next # 0 => /\ d # 0 /\ s.ok /\ s.next \in AttemptId /\ attempts[s.next].row = "open"
                         /\ attempts[s.next].delivery = d
    <3>1. s.pc \in InTx
      BY <1>5, <2>1 DEF Commit, InTx
    <3> QED
      BY <2>1, <3>1, InTransaction
  <2>4. 0 \notin AttemptId /\ \A k \in JobId : jobs[k].target \in Delivery
    BY Lookups DEF IInv, JobRow
  <2>5. \A k \in JobId : CounterOf(k)' = CounterOf(k)
    BY <2>2 DEF CounterOf
  <2>6. ASSUME NEW a \in AttemptId, attempts[a].row = "open", attempts[a].delivery = d, d # 0
        PROVE  a = s.next
    <3>1. PICK v \in Worker : wk[v].next = a
      BY <2>6 DEF IInv, OpenRows
    <3>2. wk[v].dlv = d
      BY <2>4, <2>6, <3>1 DEF IInv, OpenRows
    <3>3. v = w
      BY <2>1, <2>6, <3>2, OneHandler
    <3> QED
      BY <2>1, <3>1, <3>3
  <2>7. ASSUME s.ok, NEW a \in AttemptId, Pending(a), attempts[a].delivery = d, d # 0
        PROVE  a = s.hit
    BY <2>3, <2>7 DEF IInv, OneOpenAttempt
  <2>8. \A k \in JobId : jobs[k].attempt # 0 =>
            jobs[k].attempt \in AttemptId /\ attempts[jobs[k].attempt].delivery = jobs[k].target
    BY DEF IInv, JobsName
  <2>9. ASSUME NEW k \in JobId, NEW a, a = jobs[k].attempt, Pending(a)'
        PROVE  CounterOf(k) = delivery'[jobs[k].target].counter + 1
    <3>1. a \in AttemptId /\ a # 0 /\ attempts'[a].row = "committed" /\ attempts'[a].status = "pending"
      BY <2>2, <2>4, <2>9 DEF Pending, Visible, AttemptId
    <3>2. CASE s.ok /\ a = s.next
      <4>1. CounterOf(k) = delivery[d].counter + 2 /\ jobs[k].target = d /\ d # 0
        BY <2>3, <2>8, <2>9, <3>1, <3>2 DEF Exponents
      <4>2. delivery[d].counter \in Nat
        BY <2>1, <4>1, HeldDelivery
      <4> QED
        BY <2>2, <3>2, <4>1, <4>2
    <3>3. CASE ~(s.ok /\ a = s.next)
      <4>1. Pending(a) /\ ~(s.ok /\ a = s.hit)
        BY <2>2, <3>1, <3>3 DEF Pending, Visible, AttemptId
      <4>2. ~(s.ok /\ jobs[k].target = d)
        BY <2>4, <2>7, <2>8, <2>9, <3>1, <4>1, NoDeliveryZero
      <4> QED
        BY <2>2, <2>4, <2>9, <4>1, <4>2 DEF Exponents, BackoffExponent, CounterOf
    <3> QED
      BY <3>2, <3>3
  <2>10. ASSUME NEW k \in JobId, NEW a, a = jobs[k].attempt, a # 0, attempts'[a].row = "open"
         PROVE  CounterOf(k) = delivery'[jobs[k].target].counter + 2
    <3>1. a \in AttemptId /\ attempts[a].row = "open" /\ ~(s.ok /\ a = s.next)
      BY <2>2, <2>8, <2>10
    <3>2. ~(s.ok /\ jobs[k].target = d)
      BY <2>4, <2>6, <2>8, <2>10, <3>1, NoDeliveryZero
    <3> QED
      BY <2>2, <2>4, <2>10, <3>1, <3>2 DEF Exponents
  <2>11. ASSUME NEW k \in JobId', Pending(jobs[k].attempt)'
         PROVE  CounterOf(k)' = delivery'[jobs'[k].target].counter + 1
    <3>1. PICK a : a = jobs[k].attempt
      OBVIOUS
    <3>2. Pending(a)' /\ jobs'[k].target = jobs[k].target /\ k \in JobId
      BY <2>2, <2>11, <3>1 DEF Pending, Visible
    <3> QED
      BY <2>5, <2>9, <3>1, <3>2
  <2>12. ASSUME NEW k \in JobId', jobs'[k].attempt # 0, attempts'[jobs'[k].attempt].row = "open"
         PROVE  CounterOf(k)' = delivery'[jobs'[k].target].counter + 2
    BY <2>2, <2>5, <2>10, <2>12
  <2> QED
    BY <2>11, <2>12 DEF Exponents, BackoffExponent, CounterOf
<1>6. ASSUME NEW w \in Worker, Poll(w) \/ Handle(w) PROVE Exponents'
  <2>1. ASSUME NEW j \in JobId, Claim(w, j) PROVE Exponents'
    BY <1>1, <2>1, ClaimDoes
  <2>2. ASSUME \/ LoadAttempt(w) \/ CallEndpoint(w) \/ ReadDelivery(w)
               \/ LoadFails(w) \/ ReadFails(w)
        PROVE  Exponents'
    BY <1>2, <2>2 DEF LoadAttempt, CallEndpoint, ReadDelivery, LoadFails, ReadFails
  <2>3. ASSUME PanicRecovered(w) \/ Finish(w) PROVE Exponents'
    BY <1>1, <2>3, EndDoes
  <2> QED
    BY <1>3, <1>4, <1>5, <1>6, <2>1, <2>2, <2>3 DEF Poll, Handle, PanicFatal, JobId
<1>7. ASSUME NEW p \in Process, Crash(p) PROVE Exponents'
  BY <1>3, <1>7 DEF Crash
<1>8. ASSUME Time PROVE Exponents'
  BY <1>1, <1>8, BackoffDoes DEF Time, JobId
<1>9. ASSUME NEW e \in Endpoint, NEW st \in {"enabled", "disabled"}, UpdateEndpoint(e, st)
      PROVE  Exponents'
  BY <1>2, <1>9 DEF UpdateEndpoint
<1>10. ASSUME UNCHANGED vars PROVE Exponents'
  BY <1>2, <1>10 DEF vars
<1> QED
  BY <1>6, <1>7, <1>8, <1>9, <1>10 DEF Next

\* The backoff of a retry grows with the attempts really made: the counter in the
\* payload of the job that is due and attempts_counter agree.
THEOREM ExponentIsAttempt ==
    ASSUME MaxAttempts > 0
    PROVE  Spec => []BackoffExponent
<1>1. Init => Exponents
  BY InitExponents
<1>2. IInv /\ Exponents /\ [Next]_vars => Exponents'
  BY ExponentsStep
<1>3. Exponents => BackoffExponent
  BY DEF Exponents
<1> QED
  BY <1>1, <1>2, <1>3, Invariance, PTL DEF Spec

-----------------------------------------------------------------------------
(* Where a backoff outlives its transaction: attempts_counter counts the rows. *)

\* Only a waiting job can name an attempt still invisible, so that the handler
\* that finds no row for its attempt will not see one later either.
MissedOf(w) == wk[w].pc \in InHandler /\ wk[w].dlv = 0 => ~Pending(JobOf(w).attempt)
NothingOpen ==
    /\ \A j \in JobId : jobs[j].state # "waiting" /\ jobs[j].attempt # 0 =>
           attempts[jobs[j].attempt].row # "open"
    /\ \A w \in Worker : MissedOf(w)

\* Initially every attempt is committed and nobody is at work.
LEMMA InitNothingOpen == Init => NothingOpen
<1> SUFFICES ASSUME Init PROVE NothingOpen
  OBVIOUS
<1>1. \A w \in Worker : wk[w].pc = "idle"
  BY DEF Init, Idle, Holding
<1> QED
  BY <1>1 DEF Init, NothingOpen, MissedOf, InHandler, JobId

\* What a goroutine missed stays so while it is left alone, and its job.
LEMMA MissedKept ==
    ASSUME TypeOK, NEW v \in Worker, MissedOf(v), wk'[v] = wk[v],
           \A k \in JobId : jobs'[k].attempt = jobs[k].attempt,
           \A a : ~At(v, "idle") /\ a = JobOf(v).attempt /\ ~Pending(a) => ~Pending(a)'
    PROVE  MissedOf(v)'
<1>1. CASE At(v, "idle")
  BY <1>1 DEF MissedOf, At, InHandler
<1>2. CASE ~At(v, "idle")
  <2>1. PICK a : a = JobOf(v).attempt
    OBVIOUS
  <2>2. a = (JobOf(v).attempt)'
    BY <1>2, <2>1, Lookups DEF JobOf
  <2>3. ~Pending(a) => ~Pending(a)'
    BY <1>2, <2>1
  <2> QED
    BY <2>1, <2>2, <2>3 DEF MissedOf, At
<1> QED
  BY <1>1, <1>2

\* Steps that insert nothing and send no job out while its attempt is invisible.
LEMMA NothingOpenKept ==
    ASSUME NothingOpen, JobId' = JobId, UNCHANGED attempts,
           \A k \in JobId : /\ jobs'[k].attempt = jobs[k].attempt
                            /\ jobs'[k].state # "waiting" =>
                                  \/ jobs[k].state # "waiting"
                                  \/ jobs[k].attempt # 0 =>
                                        attempts[jobs[k].attempt].row # "open",
           \A w \in Worker : MissedOf(w)'
    PROVE  NothingOpen'
BY DEF NothingOpen

LEMMA NothingOpenStep ==
    ASSUME DelayOutlivesTx, Loads, IInv, NothingOpen, [Next]_vars
    PROVE  NothingOpen'
<1>1. ASSUME NEW w \in Worker, NEW j, NEW st, UNCHANGED attempts, OnlyMoves(w), JobMoves(j, st),
             j \in JobId, jobs[j].state # "waiting", MissedOf(w)'
      PROVE  NothingOpen'
  <2>1. ASSUME NEW v \in Worker, v # w PROVE MissedOf(v)'
    BY <1>1, <2>1, MissedKept, PendingSame DEF OnlyMoves, JobMoves, NothingOpen, IInv
  <2> QED
    BY <1>1, <2>1, NothingOpenKept DEF JobMoves
<1>2. ASSUME NEW w \in Worker, NEW j \in JobId, Claim(w, j) PROVE NothingOpen'
  BY <1>1, <1>2, ClaimDoes DEF MissedOf, InHandler
<1>3. ASSUME NEW w \in Worker, PanicRecovered(w) \/ Finish(w) PROVE NothingOpen'
  <2>1. JobOf(w).state = "running"
    BY <1>3, EndDoes DEF IInv, JobsHeld, At
  <2> QED
    BY <1>1, <1>3, <2>1, EndDoes DEF MissedOf, InHandler, JobOf
<1>4. ASSUME NEW w \in Worker, NEW from, NEW to, Local(w, from, to), MissedOf(w)' PROVE NothingOpen'
  <2>1. JobId' = JobId /\ UNCHANGED <<attempts, jobs>> /\ OnlyMoves(w)
    BY <1>4 DEF Local, JobId
  <2>2. ASSUME NEW v \in Worker, v # w PROVE MissedOf(v)'
    BY <2>1, <2>2, MissedKept, PendingSame DEF OnlyMoves, NothingOpen, IInv
  <2> QED
    BY <1>4, <2>1, <2>2, NothingOpenKept
<1>5. ASSUME NEW w \in Worker, LoadAttempt(w) PROVE NothingOpen'
  <2>1. PICK a : a = JobOf(w).attempt
    OBVIOUS
  <2>2. Local(w, "claimed", "loaded") /\ wk'[w].dlv = DeliveryOf(a)
    BY <1>5, <2>1, LoadDoes
  <2>3. (JobOf(w).attempt)' = a
    BY <2>1, <2>2 DEF Local, JobOf
  <2>4. Pending(a) => DeliveryOf(a) # 0
    BY Lookups, NoDeliveryZero DEF IInv, DeliveryOf, Pending, Visible, AttemptId, AttemptRow
  <2>5. Pending(a)' <=> Pending(a)
    BY <2>2, PendingSame DEF Local
  <2>6. MissedOf(w)'
    BY <2>2, <2>3, <2>4, <2>5 DEF MissedOf
  <2> QED
    BY <1>4, <2>2, <2>6
<1>6. ASSUME NEW w \in Worker, CallEndpoint(w) \/ ReadDelivery(w) \/ ReadFails(w)
      PROVE  NothingOpen'
  <2>1. PICK a : a = JobOf(w).attempt
    OBVIOUS
  <2>2. PICK from, to : /\ Local(w, from, to) /\ from \in InHandler
                        /\ wk'[w].dlv = wk[w].dlv
    BY <1>6, CallDoes, ReadDoes, FailsDoes DEF InHandler, Loads
  <2>3. (JobOf(w).attempt)' = a
    BY <2>1, <2>2 DEF Local, JobOf
  <2>4. Pending(a)' <=> Pending(a)
    BY <2>2, PendingSame DEF Local
  <2>5. wk[w].dlv = 0 => ~Pending(a)
    BY <2>1, <2>2 DEF NothingOpen, MissedOf, Local
  <2>6. MissedOf(w)'
    BY <2>2, <2>3, <2>4, <2>5 DEF MissedOf
  <2> QED
    BY <1>4, <2>2, <2>6
<1>7. ASSUME NEW w \in Worker, Reschedule(w) PROVE NothingOpen'
  <2>1. PICK n : Rescheduled(w, n)
    BY <1>7, RescheduleEffect
  <2>2. \A k \in JobId : jobs'[k] = jobs[k] /\ (jobs[k].attempt # 0 =>
            jobs[k].attempt \in AttemptId /\ attempts'[jobs[k].attempt] = attempts[jobs[k].attempt])
    BY <2>1 DEF Rescheduled, IInv, JobsName
  <2>3. \A a : ~Pending(a) => ~Pending(a)'
    BY <2>1 DEF Rescheduled, Pending, Visible, AttemptId
  <2>4. ASSUME NEW v \in Worker, v # w PROVE MissedOf(v)'
    BY <2>1, <2>2, <2>3, <2>4, MissedKept DEF Rescheduled, NothingOpen, IInv
  <2>5. MissedOf(w)'
    <3>1. PICK a : a = JobOf(w).attempt
      OBVIOUS
    <3>2. wk[w].job \in JobId /\ wk[w].pc = "intx"
      BY <1>7, Lookups DEF IInv, Reschedule, At
    <3>3. (JobOf(w).attempt)' = a /\ wk'[w].dlv = wk[w].dlv
      BY <2>1, <2>2, <3>1, <3>2 DEF JobOf, Rescheduled
    <3>4. wk[w].dlv = 0 => ~Pending(a)
      BY <3>1, <3>2 DEF NothingOpen, MissedOf, InHandler
    <3> QED
      BY <2>3, <3>3, <3>4 DEF MissedOf
  <2>6. ASSUME NEW k \in JobId', jobs'[k].state # "waiting", jobs'[k].attempt # 0
        PROVE  attempts'[jobs'[k].attempt].row # "open"
    BY <2>1, <2>2, <2>6 DEF Rescheduled, NothingOpen
  <2> QED
    BY <2>4, <2>5, <2>6 DEF NothingOpen
<1>8. ASSUME NEW w \in Worker, Commit(w) PROVE NothingOpen'
  <2>1. PICK s : s = wk[w]
    OBVIOUS
  <2>2. /\ UNCHANGED jobs /\ JobId' = JobId /\ AttemptId' = AttemptId /\ OnlyMoves(w)
        /\ wk'[w].pc = "recorded" /\ s.result # "pending"
        /\ \A a \in AttemptId :
              /\ attempts'[a].status = IF s.ok /\ a = s.hit THEN s.result ELSE attempts[a].status
              /\ attempts'[a].row = IF s.ok /\ a = s.next THEN "committed" ELSE attempts[a].row
    BY <1>8, <2>1, CommitDoes DEF Committed, JobId
  <2>3. s.next # 0 => s.next \in AttemptId /\ attempts[s.next].row = "open"
    BY <2>1 DEF IInv, OpenRows
  <2>4. 0 \notin AttemptId
    BY Lookups DEF IInv
  <2>5. \A a : ~Pending(a) /\ ~(a = s.next /\ a # 0) => ~Pending(a)'
    BY <2>2, <2>4 DEF Pending, Visible, AttemptId
  <2>6. ASSUME NEW v \in Worker, v # w PROVE MissedOf(v)'
    <3>1. ASSUME NEW a, ~At(v, "idle"), a = JobOf(v).attempt, ~Pending(a) PROVE ~Pending(a)'
      <4>1. wk[v].job \in JobId /\ JobOf(v).state = "running"
        BY <3>1, Lookups DEF IInv, JobsHeld
      <4>2. ~(a = s.next /\ a # 0)
        BY <2>3, <3>1, <4>1 DEF NothingOpen, JobOf
      <4> QED
        BY <2>5, <3>1, <4>2
    <3> QED
      BY <2>2, <2>6, <3>1, MissedKept DEF OnlyMoves, NothingOpen, IInv
  <2>7. MissedOf(w)'
    BY <2>2 DEF MissedOf, InHandler
  <2>8. ASSUME NEW k \in JobId, jobs[k].state # "waiting", jobs[k].attempt # 0
        PROVE  attempts'[jobs[k].attempt].row # "open"
    <3>1. jobs[k].attempt \in AttemptId /\ attempts[jobs[k].attempt].row # "open"
      BY <2>8 DEF IInv, JobsName, NothingOpen
    <3> QED
      BY <2>2, <3>1
  <2> QED
    BY <2>2, <2>6, <2>7, <2>8 DEF NothingOpen
<1>9. ASSUME NEW p, ProcessDies(p) PROVE NothingOpen'
  <2>1. \A a : ~Pending(a) => ~Pending(a)'
    BY <1>9, DiesDoes DEF Pending, Visible, AttemptId
  <2>2. ASSUME NEW v \in Worker PROVE MissedOf(v)'
    <3>1. CASE wk'[v] = wk[v]
      BY <1>9, <2>1, <3>1, DiesDoes, MissedKept DEF NothingOpen, IInv
    <3>2. CASE wk'[v] # wk[v]
      <4>1. wk'[v].pc = "idle"
        BY <1>9, <3>2, DiesDoes
      <4> QED
        BY <4>1 DEF MissedOf, InHandler
    <3> QED
      BY <3>1, <3>2
  <2>3. ASSUME NEW k \in JobId, jobs'[k].state # "waiting", jobs'[k].attempt # 0
        PROVE  attempts'[jobs'[k].attempt].row # "open"
    <3>1. jobs'[k].attempt = jobs[k].attempt /\ jobs[k].state # "waiting"
      BY <1>9, <2>3, DiesDoes
    <3>2. jobs[k].attempt \in AttemptId /\ attempts[jobs[k].attempt].row # "open"
      BY <2>3, <3>1 DEF IInv, JobsName, NothingOpen
    <3> QED
      BY <1>9, <3>1, <3>2, DiesDoes
  <2>4. JobId' = JobId
    BY <1>9, DiesDoes
  <2> QED
    BY <2>2, <2>3, <2>4 DEF NothingOpen
<1>10. ASSUME NEW j \in JobId, BackoffElapses(j) PROVE NothingOpen'
  <2>1. /\ UNCHANGED <<attempts, wk>> /\ JobMoves(j, "queued")
        /\ jobs[j].attempt # 0 => attempts[jobs[j].attempt].row # "open"
    BY <1>10, BackoffDoes
  <2>2. \A v \in Worker : MissedOf(v)'
    BY <2>1, MissedKept, PendingSame DEF JobMoves, NothingOpen, IInv
  <2> QED
    BY <2>1, <2>2, NothingOpenKept DEF JobMoves
<1>11. ASSUME UNCHANGED <<attempts, jobs, wk>> PROVE NothingOpen'
  <2>1. JobId' = JobId
    BY <1>11 DEF JobId
  <2>2. \A v \in Worker : MissedOf(v)'
    BY <1>11, MissedKept, PendingSame DEF NothingOpen, IInv
  <2> QED
    BY <1>11, <2>1, <2>2, NothingOpenKept
<1>12. ASSUME NEW w \in Worker, Poll(w) \/ Handle(w) PROVE NothingOpen'
  BY <1>2, <1>3, <1>5, <1>6, <1>7, <1>8, <1>9, <1>12
     DEF Poll, Handle, LoadFails, PanicFatal, JobId, Loads
<1>13. ASSUME NEW p \in Process, Crash(p) PROVE NothingOpen'
  BY <1>9, <1>13 DEF Crash
<1>14. ASSUME Time PROVE NothingOpen'
  BY <1>10, <1>14 DEF Time, JobId
<1>15. ASSUME NEW e \in Endpoint, NEW st \in {"enabled", "disabled"}, UpdateEndpoint(e, st)
       PROVE  NothingOpen'
  BY <1>11, <1>15 DEF UpdateEndpoint
<1>16. ASSUME UNCHANGED vars PROVE NothingOpen'
  BY <1>11, <1>16 DEF vars
<1> QED
  BY <1>12, <1>13, <1>14, <1>15, <1>16 DEF Next

\* The attempts of a delivery that were made are those AlreadyMade finds.
LEMMA MadeForIs ==
    ASSUME NEW d
    PROVE  /\ MadeFor(d) = {a \in AttemptId : AlreadyMade(a) /\ attempts[a].delivery = d}
           /\ TypeOK => IsFiniteSet(MadeFor(d))
<1>1. MadeFor(d) = {a \in AttemptId : AlreadyMade(a) /\ attempts[a].delivery = d}
  BY DEF MadeFor, AlreadyMade
<1>2. ASSUME TypeOK PROVE IsFiniteSet(MadeFor(d))
  <2>1. Len(attempts) \in Int /\ AttemptId = 1 .. Len(attempts)
    BY <1>2, Lookups
  <2>2. IsFiniteSet(1 .. Len(attempts))
    BY <2>1, FS_Interval
  <2>3. MadeFor(d) \subseteq 1 .. Len(attempts)
    BY <1>1, <2>1
  <2> QED
    BY <2>2, <2>3, FS_Subset
<1> QED
  BY <1>1, <1>2

\* Steps that charge nothing and give no attempt its outcome.
LEMMA CountKept ==
    ASSUME CounterCountsAttempts, AttemptId \subseteq AttemptId',
           \A d \in Delivery : delivery'[d] = delivery[d],
           \A a : AlreadyMade(a)' <=> AlreadyMade(a),
           \A a \in AttemptId : attempts'[a].delivery = attempts[a].delivery
    PROVE  CounterCountsAttempts'
<1>1. ASSUME NEW d \in Delivery PROVE MadeFor(d)' = MadeFor(d)
  <2>1. \A a : AlreadyMade(a) => a \in AttemptId
    BY DEF AlreadyMade, Visible, AttemptId
  <2>2. MadeFor(d)' = {a \in AttemptId' : AlreadyMade(a)' /\ attempts'[a].delivery = d}
    BY DEF MadeFor, AlreadyMade
  <2> QED
    BY <2>1, <2>2, MadeForIs
<1> QED
  BY <1>1 DEF CounterCountsAttempts

\* The charge and the outcome come together: for the same delivery, or not at all.
LEMMA CommitCounts ==
    ASSUME Loads, IInv, NothingOpen, CounterCountsAttempts, NEW w \in Worker, Commit(w)
    PROVE  CounterCountsAttempts'
<1>1. PICK s, d : s = wk[w] /\ d = s.dlv
  OBVIOUS
<1>2. /\ AttemptId' = AttemptId /\ s.result # "pending" /\ s.pc \in InTx
      /\ \A a \in AttemptId :
            /\ attempts'[a].delivery = attempts[a].delivery
            /\ attempts'[a].status = IF s.ok /\ a = s.hit THEN s.result ELSE attempts[a].status
            /\ attempts'[a].row = IF s.ok /\ a = s.next THEN "committed" ELSE attempts[a].row
      /\ \A e \in Delivery : ~(s.ok /\ e = d) => delivery'[e] = delivery[e]
      /\ s.ok /\ d # 0 => delivery'[d].counter = delivery[d].counter + 1
  BY <1>1, CommitDoes DEF Committed
<1>3. /\ s.hit # 0 => /\ s.hit = JobOf(w).attempt /\ Pending(s.hit) /\ s.hit \in AttemptId
                      /\ attempts[s.hit].row = "committed"
      /\ s.ok /\ d # 0 => s.hit # 0 /\ attempts[s.hit].delivery = d
      /\ s.next # 0 => /\ s.next \in AttemptId /\ attempts[s.next].status = "pending"
                       /\ s.next # s.hit
  BY <1>1, <1>2, InTransaction
<1>4. 0 \notin AttemptId
  BY Lookups DEF IInv
<1>5. \A a : AlreadyMade(a)' <=> AlreadyMade(a) \/ (s.ok /\ a = s.hit /\ a # 0)
  <2>1. \A a : (AlreadyMade(a) <=> a \in AttemptId /\ attempts[a].row = "committed"
                                                   /\ attempts[a].status # "pending")
    BY DEF AlreadyMade, Visible, AttemptId
  <2>2. \A a : (AlreadyMade(a)' <=> a \in AttemptId' /\ attempts'[a].row = "committed"
                                                     /\ attempts'[a].status # "pending")
    BY DEF AlreadyMade, Visible, AttemptId
  <2> QED
    BY <1>2, <1>3, <1>4, <2>1, <2>2
<1>6. CASE s.ok /\ d # 0
  <2>1. /\ d \in Delivery /\ s.hit \in AttemptId /\ Pending(s.hit) /\ s.hit # 0
        /\ attempts[s.hit].delivery = d
    BY <1>1, <1>3, <1>6, HeldDelivery
  <2>2. \A e \in Delivery :
            MadeFor(e)' = {a \in AttemptId : AlreadyMade(a)' /\ attempts[a].delivery = e}
    BY <1>2 DEF MadeFor, AlreadyMade
  <2>3. MadeFor(d)' = MadeFor(d) \cup {s.hit}
    BY <1>5, <1>6, <2>1, <2>2, MadeForIs
  <2>4. s.hit \notin MadeFor(d)
    BY <2>1 DEF MadeFor, Pending
  <2>5. \A e \in Delivery : e # d => MadeFor(e)' = MadeFor(e)
    BY <1>5, <2>1, <2>2, MadeForIs
  <2>6. Cardinality(MadeFor(d)') = Cardinality(MadeFor(d)) + 1
    BY <2>3, <2>4, MadeForIs, FS_AddElement DEF IInv
  <2>7. ASSUME NEW e \in Delivery PROVE delivery'[e].counter = Cardinality(MadeFor(e)')
    <3>1. delivery[e].counter = Cardinality(MadeFor(e))
      BY DEF CounterCountsAttempts
    <3>2. CASE e = d
      BY <1>2, <1>6, <2>6, <3>1, <3>2
    <3>3. CASE e # d
      BY <1>2, <2>5, <3>1, <3>3
    <3> QED
      BY <3>2, <3>3
  <2> QED
    BY <2>7 DEF CounterCountsAttempts
<1>7. CASE ~(s.ok /\ d # 0)
  <2>1. d = 0 => s.hit = 0
    BY <1>1, <1>2, <1>3 DEF NothingOpen, MissedOf, InHandler, InTx
  <2>2. \A a : AlreadyMade(a)' <=> AlreadyMade(a)
    BY <1>5, <1>7, <2>1
  <2>3. \A e \in Delivery : delivery'[e] = delivery[e]
    BY <1>2, <1>7, NoDeliveryZero
  <2> QED
    BY <1>2, <2>2, <2>3, CountKept
<1> QED
  BY <1>6, <1>7

LEMMA CountStep ==
    ASSUME Loads, IInv, NothingOpen, CounterCountsAttempts, [Next]_vars
    PROVE  CounterCountsAttempts'
<1>1. ASSUME UNCHANGED <<delivery, attempts>> PROVE CounterCountsAttempts'
  BY <1>1, CountKept DEF AlreadyMade, Visible, AttemptId
<1>2. ASSUME NEW w \in Worker, Reschedule(w) PROVE CounterCountsAttempts'
  <2>1. PICK n : Rescheduled(w, n)
    BY <1>2, RescheduleEffect
  <2>2. /\ AttemptId \subseteq AttemptId' /\ UNCHANGED delivery
        /\ \A a \in AttemptId : attempts'[a] = attempts[a]
    BY <1>2, <2>1 DEF Rescheduled, Reschedule
  <2>3. \A a : AlreadyMade(a)' <=> AlreadyMade(a)
    BY <2>1 DEF Rescheduled, AlreadyMade, Visible, AttemptId
  <2> QED
    BY <2>2, <2>3, CountKept
<1>3. ASSUME NEW p, ProcessDies(p) PROVE CounterCountsAttempts'
  <2>1. /\ UNCHANGED delivery /\ AttemptId' = AttemptId
        /\ \A a \in AttemptId : attempts'[a].delivery = attempts[a].delivery
    BY <1>3, DiesDoes
  <2>2. \A a : AlreadyMade(a)' <=> AlreadyMade(a)
    BY <1>3, DiesDoes DEF AlreadyMade, Visible, AttemptId
  <2> QED
    BY <2>1, <2>2, CountKept
<1>4. ASSUME NEW w \in Worker, Poll(w) \/ Handle(w) PROVE CounterCountsAttempts'
  <2>1. CASE Commit(w)
    BY <2>1, CommitCounts
  <2> QED
    BY <1>1, <1>2, <1>3, <1>4, <2>1 DEF Poll, Claim, Handle, LoadAttempt, LoadFails,
                                    PanicRecovered, PanicFatal, CallEndpoint, ReadDelivery,
                                    ReadFails, Finish
<1>5. ASSUME NEW p \in Process, Crash(p) PROVE CounterCountsAttempts'
  BY <1>3, <1>5 DEF Crash
<1>6. ASSUME Time \/ \E e \in Endpoint : \E st \in {"enabled", "disabled"} : UpdateEndpoint(e, st)
      PROVE  CounterCountsAttempts'
  BY <1>1, <1>6 DEF Time, BackoffElapses, UpdateEndpoint
<1>7. ASSUME UNCHANGED vars PROVE CounterCountsAttempts'
  BY <1>1, <1>7 DEF vars
<1> QED
  BY <1>4, <1>5, <1>6, <1>7 DEF Next

\* Initially no attempt was made.
LEMMA InitCount == Init => CounterCountsAttempts
<1> SUFFICES ASSUME Init, NEW d \in Delivery PROVE delivery[d].counter = Cardinality(MadeFor(d))
  BY DEF CounterCountsAttempts
<1>1. MadeFor(d) = {}
  BY DEF Init, MadeFor, AttemptId
<1>2. delivery[d].counter = 0
  BY DEF Init
<1> QED
  BY <1>1, <1>2, FS_EmptySet

\* attempts_counter is the number of rows of the delivery that have an outcome, whatever
\* dies and whichever write or read of a delivery fails, if no load of an attempt does
\* and a backoff is longer than its transaction.
THEOREM CounterIsCount ==
    ASSUME MaxAttempts > 0, DelayOutlivesTx, "load" \notin Fault
    PROVE  Spec => []CounterCountsAttempts
<1>1. Init => NothingOpen /\ CounterCountsAttempts
  BY InitNothingOpen, InitCount
<1>2. /\ IInv /\ NothingOpen /\ CounterCountsAttempts /\ [Next]_vars
      => NothingOpen' /\ CounterCountsAttempts'
  BY NothingOpenStep, CountStep DEF Loads
<1> QED
  BY <1>1, <1>2, Invariance, PTL DEF Spec

-----------------------------------------------------------------------------
(* Without a crash, a failed read or an unstorable body: no POST is in vain. *)

\* Every read works, and every body can be stored; an enqueue may still fail.
ReadsAndStores == Fault \cap {"body", "load", "read"} = {}

\* The job of an attempt is handed out once, its row is there when it is loaded,
\* and the transaction goes through.
OrderlyOf(w) ==
    /\ At(w, "claimed") => ~AlreadyMade(JobOf(w).attempt)
    /\ wk[w].pc \in InHandler => wk[w].dlv # 0
    /\ wk[w].pc \in InTx => wk[w].ok
Orderly ==
    /\ \A a \in AttemptId : attempts[a].row # "void"
    /\ \A j \in JobId : /\ jobs[j].attempt # 0
                        /\ jobs[j].state \in {"waiting", "queued"} =>
                               attempts[jobs[j].attempt].status = "pending"
    /\ \A w \in Worker : OrderlyOf(w)

\* Every POST but the one under way has been charged.
PostsAre ==
    \A d \in Delivery :
        \/ posts[d] <= delivery[d].counter
        \/ /\ posts[d] <= delivery[d].counter + 1
           /\ \E w \in Worker : Called(w) /\ wk[w].dlv = d

Crashless == crashes = 0 => Orderly /\ PostsAre

LEMMA InitCrashless == Init => Crashless
<1> SUFFICES ASSUME Init PROVE Orderly /\ PostsAre
  BY DEF Crashless
<1>1. \A w \in Worker : wk[w].pc = "idle"
  BY DEF Init, Idle, Holding
<1>2. \A w \in Worker : OrderlyOf(w)
  BY <1>1 DEF OrderlyOf, At, InHandler, InTx
<1>3. \A d \in Delivery : posts[d] = 0 /\ delivery[d].counter = 0
  BY DEF Init
<1> QED
  BY <1>2, <1>3, NoDeliveryZero DEF Init, Orderly, PostsAre, JobId, AttemptId

\* The order around a goroutine stays while it is left alone, and its job.
LEMMA OrderlyKept ==
    ASSUME TypeOK, NEW v \in Worker, OrderlyOf(v), wk'[v] = wk[v],
           \A k \in JobId : jobs'[k].attempt = jobs[k].attempt,
           \A a : ~At(v, "idle") /\ a = JobOf(v).attempt /\ ~AlreadyMade(a) => ~AlreadyMade(a)'
    PROVE  OrderlyOf(v)'
<1>1. CASE At(v, "idle")
  BY <1>1 DEF OrderlyOf, At, InHandler, InTx
<1>2. CASE ~At(v, "idle")
  <2>1. PICK a : a = JobOf(v).attempt
    OBVIOUS
  <2>2. a = (JobOf(v).attempt)'
    BY <1>2, <2>1, Lookups DEF JobOf
  <2>3. ~AlreadyMade(a) => ~AlreadyMade(a)'
    BY <1>2, <2>1
  <2> QED
    BY <2>1, <2>2, <2>3 DEF OrderlyOf, At
<1> QED
  BY <1>1, <1>2

LEMMA MadeSame == UNCHANGED attempts => \A a : AlreadyMade(a)' <=> AlreadyMade(a)
BY DEF AlreadyMade, Visible

\* What a claimed job is worth in an orderly state: its attempt is there.
LEMMA ClaimedIsThere ==
    ASSUME IInv, NothingOpen, Orderly, NEW w \in Worker, At(w, "claimed")
    PROVE  /\ ~AlreadyMade(JobOf(w).attempt)
           /\ DeliveryOf(JobOf(w).attempt) \in Delivery
<1>1. PICK a : a = JobOf(w).attempt
  OBVIOUS
<1>2. wk[w].job \in JobId /\ JobOf(w).state = "running"
  BY Lookups DEF IInv, JobsHeld, At
<1>3. a # 0 /\ a \in AttemptId /\ attempts[a].row # "open" /\ attempts[a].row # "void"
  BY <1>1, <1>2 DEF Orderly, NothingOpen, IInv, JobsName, JobOf
<1>4. attempts[a].row = "committed" /\ attempts[a].delivery \in Delivery
  BY <1>3, Lookups DEF IInv, AttemptRow
<1>5. DeliveryOf(a) \in Delivery
  BY <1>3, <1>4 DEF DeliveryOf, Visible, AttemptId
<1> QED
  BY <1>1, <1>5 DEF Orderly, OrderlyOf

LEMMA OrderlyStep ==
    ASSUME ReadsAndStores, IInv, NothingOpen, Orderly, [Next]_vars, crashes = 0, crashes' = 0
    PROVE  Orderly'
<1>1. ASSUME NEW w \in Worker, NEW j \in JobId, NEW st, UNCHANGED attempts, OnlyMoves(w),
             JobMoves(j, st), st \notin {"waiting", "queued"}, OrderlyOf(w)'
      PROVE  Orderly'
  <2>1. ASSUME NEW v \in Worker, v # w PROVE OrderlyOf(v)'
    BY <1>1, <2>1, OrderlyKept, MadeSame DEF OnlyMoves, JobMoves, Orderly, IInv
  <2>2. \A k \in JobId : /\ jobs'[k].attempt # 0
                         /\ jobs'[k].state \in {"waiting", "queued"} =>
                                attempts'[jobs'[k].attempt].status = "pending"
    BY <1>1 DEF JobMoves, Orderly
  <2> QED
    BY <1>1, <2>1, <2>2 DEF Orderly, JobMoves, AttemptId
<1>2. ASSUME NEW w \in Worker, NEW j \in JobId, Claim(w, j) PROVE Orderly'
  <2>1. PICK a : a = jobs[j].attempt
    OBVIOUS
  <2>2. /\ jobs[j].state = "queued" /\ JobMoves(j, "running") /\ OnlyMoves(w) /\ UNCHANGED attempts
        /\ wk'[w].pc = "claimed" /\ wk'[w].job = j
    BY <1>2, ClaimDoes
  <2>3. (JobOf(w).attempt)' = a
    BY <2>1, <2>2 DEF JobMoves, JobOf
  <2>4. ~AlreadyMade(a)
    BY <2>1, <2>2 DEF Orderly, AlreadyMade
  <2>5. OrderlyOf(w)'
    BY <2>2, <2>3, <2>4, MadeSame DEF OrderlyOf, At, InHandler, InTx
  <2> QED
    BY <1>1, <2>2, <2>5
<1>3. ASSUME NEW w \in Worker, Finish(w) PROVE Orderly'
  <2>1. OrderlyOf(w)'
    BY <1>3, EndDoes DEF OrderlyOf, At, InHandler, InTx
  <2> QED
    BY <1>1, <1>3, <2>1, EndDoes
<1>4. ASSUME NEW w \in Worker, PanicRecovered(w) \/ PanicFatal(w) PROVE FALSE
  BY <1>4 DEF PanicRecovered, PanicFatal, Orderly, OrderlyOf
<1>5. ASSUME NEW w \in Worker, NEW from, NEW to, Local(w, from, to), OrderlyOf(w)' PROVE Orderly'
  <2>1. JobId' = JobId /\ AttemptId' = AttemptId /\ UNCHANGED <<attempts, jobs>> /\ OnlyMoves(w)
    BY <1>5 DEF Local, JobId, AttemptId
  <2>2. ASSUME NEW v \in Worker, v # w PROVE OrderlyOf(v)'
    BY <2>1, <2>2, OrderlyKept, MadeSame DEF OnlyMoves, Orderly, IInv
  <2> QED
    BY <1>5, <2>1, <2>2 DEF Orderly
<1>6. ASSUME NEW w \in Worker, LoadAttempt(w) PROVE Orderly'
  <2>1. Local(w, "claimed", "loaded") /\ wk'[w].dlv = DeliveryOf(JobOf(w).attempt)
    BY <1>6, LoadDoes
  <2>2. DeliveryOf(JobOf(w).attempt) # 0
    BY <1>6, ClaimedIsThere, NoDeliveryZero DEF LoadAttempt
  <2>3. OrderlyOf(w)'
    BY <2>1, <2>2 DEF Local, OrderlyOf, At, InHandler, InTx
  <2> QED
    BY <1>5, <2>1, <2>3
<1>7. ASSUME NEW w \in Worker, CallEndpoint(w) PROVE Orderly'
  <2>1. Local(w, "loaded", "answered") /\ wk'[w].dlv = wk[w].dlv
    BY <1>7, CallDoes
  <2>2. OrderlyOf(w)'
    BY <2>1 DEF Local, Orderly, OrderlyOf, At, InHandler, InTx
  <2> QED
    BY <1>5, <2>1, <2>2
<1>8. ASSUME NEW w \in Worker, ReadDelivery(w) PROVE Orderly'
  <2>1. Local(w, "answered", "intx") /\ wk'[w].dlv = wk[w].dlv /\ wk'[w].ok
    BY <1>8, ReadDoes DEF ReadsAndStores
  <2>2. OrderlyOf(w)'
    BY <2>1 DEF Local, Orderly, OrderlyOf, At, InHandler, InTx
  <2> QED
    BY <1>5, <2>1, <2>2
<1>9. ASSUME NEW w \in Worker, Reschedule(w) PROVE Orderly'
  <2>1. PICK n : Rescheduled(w, n)
    BY <1>9, RescheduleEffect
  <2>2. wk[w].ok /\ wk[w].dlv # 0 /\ n # 0
    BY <1>9, <2>1 DEF Reschedule, Rescheduled, Orderly, OrderlyOf, At, InHandler, InTx
  <2>3. /\ AttemptId' = AttemptId \cup {n} /\ \A a \in AttemptId : attempts'[a] = attempts[a]
        /\ attempts'[n] = [delivery |-> wk[w].dlv, status |-> "pending", row |-> "open"]
        /\ \A k \in JobId : jobs'[k] = jobs[k]
        /\ \A k \in JobId' : k \notin JobId => jobs'[k].attempt = n
        /\ \A v \in Worker : v # w => wk'[v] = wk[v]
        /\ wk'[w].pc = "rescheduled" /\ wk'[w].ok = TRUE /\ wk'[w].dlv = wk[w].dlv
    BY <2>1, <2>2 DEF Rescheduled
  <2>4. \A a : ~AlreadyMade(a) => ~AlreadyMade(a)'
    BY <2>3 DEF AlreadyMade, Visible, AttemptId
  <2>5. ASSUME NEW v \in Worker, v # w PROVE OrderlyOf(v)'
    BY <2>3, <2>4, <2>5, OrderlyKept DEF Orderly, IInv
  <2>6. OrderlyOf(w)'
    BY <2>2, <2>3 DEF OrderlyOf, At, InHandler, InTx
  <2>7. ASSUME NEW k \in JobId'
        PROVE  /\ jobs'[k].attempt # 0
               /\ jobs'[k].state \in {"waiting", "queued"} =>
                      attempts'[jobs'[k].attempt].status = "pending"
    <3>1. CASE k \in JobId
      BY <2>3, <3>1 DEF Orderly, IInv, JobsName
    <3>2. CASE k \notin JobId
      BY <2>2, <2>3, <2>7, <3>2
    <3> QED
      BY <3>1, <3>2
  <2>8. \A a \in AttemptId' : attempts'[a].row # "void"
    BY <2>3 DEF Orderly
  <2> QED
    BY <2>5, <2>6, <2>7, <2>8 DEF Orderly
<1>10. ASSUME NEW w \in Worker, Commit(w) PROVE Orderly'
  <2>1. PICK s : s = wk[w]
    OBVIOUS
  <2>2. /\ UNCHANGED jobs /\ JobId' = JobId /\ AttemptId' = AttemptId /\ OnlyMoves(w)
        /\ wk'[w].pc = "recorded" /\ s.result # "pending" /\ s.pc \in InTx /\ s.job \in JobId
        /\ \A a \in AttemptId :
              /\ attempts'[a].status = IF s.ok /\ a = s.hit THEN s.result ELSE attempts[a].status
              /\ attempts'[a].row = IF s.ok /\ a = s.next THEN "committed" ELSE attempts[a].row
    BY <1>10, <2>1, CommitDoes DEF Committed, JobId
  <2>3. /\ s.hit # 0 => s.hit = JobOf(w).attempt /\ s.hit \in AttemptId
        /\ s.next # 0 => s.next \in AttemptId /\ attempts[s.next].status = "pending"
                         /\ s.next # s.hit
    BY <2>1, <2>2, InTransaction
  <2>4. 0 \notin AttemptId
    BY Lookups DEF IInv
  <2>5. \A a : ~AlreadyMade(a) /\ ~(a = s.hit /\ a # 0) => ~AlreadyMade(a)'
    BY <2>2, <2>3, <2>4 DEF AlreadyMade, Visible, AttemptId
  <2>6. ASSUME NEW k \in JobId, k # s.job, jobs[k].attempt # 0
        PROVE  jobs[k].attempt # s.hit
    BY <2>1, <2>2, <2>3, <2>6 DEF IInv, JobsName, JobOf
  <2>7. ASSUME NEW v \in Worker, v # w PROVE OrderlyOf(v)'
    <3>1. ASSUME NEW a, ~At(v, "idle"), a = JobOf(v).attempt, ~AlreadyMade(a)
          PROVE  ~AlreadyMade(a)'
      <4>1. wk[v].job \in JobId /\ wk[v].job # s.job
        BY <2>1, <2>7, <3>1, Lookups DEF IInv, JobsHeld
      <4>2. ~(a = s.hit /\ a # 0)
        BY <2>6, <3>1, <4>1 DEF JobOf
      <4> QED
        BY <2>5, <3>1, <4>2
    <3> QED
      BY <2>2, <2>7, <3>1, OrderlyKept DEF OnlyMoves, Orderly, IInv
  <2>8. OrderlyOf(w)'
    BY <2>2 DEF OrderlyOf, At, InHandler, InTx
  <2>9. ASSUME NEW k \in JobId
        PROVE  /\ jobs[k].attempt # 0
               /\ jobs[k].state \in {"waiting", "queued"} =>
                      attempts'[jobs[k].attempt].status = "pending"
    <3>1. jobs[k].attempt # 0 /\ jobs[k].attempt \in AttemptId
      BY DEF Orderly, IInv, JobsName
    <3>2. jobs[s.job].state = "running"
      BY <2>1, <2>2 DEF IInv, JobsHeld, JobOf, At, InTx
    <3> QED
      BY <2>2, <2>6, <3>1, <3>2 DEF Orderly
  <2>10. \A a \in AttemptId : attempts'[a].row # "void"
    BY <2>2 DEF Orderly
  <2> QED
    BY <2>2, <2>7, <2>8, <2>9, <2>10 DEF Orderly
<1>11. ASSUME NEW j \in JobId, BackoffElapses(j) PROVE Orderly'
  <2>1. /\ UNCHANGED <<attempts, wk>> /\ JobMoves(j, "queued") /\ jobs[j].state = "waiting"
    BY <1>11, BackoffDoes
  <2>2. \A v \in Worker : OrderlyOf(v)'
    BY <2>1, OrderlyKept, MadeSame DEF JobMoves, Orderly, IInv
  <2>3. \A k \in JobId : /\ jobs'[k].attempt # 0
                         /\ jobs'[k].state \in {"waiting", "queued"} =>
                                attempts'[jobs'[k].attempt].status = "pending"
    BY <2>1 DEF JobMoves, Orderly
  <2> QED
    BY <2>1, <2>2, <2>3 DEF JobMoves, Orderly, AttemptId
<1>12. ASSUME UNCHANGED <<attempts, jobs, wk>> PROVE Orderly'
  <2>1. \A v \in Worker : OrderlyOf(v)'
    BY <1>12, OrderlyKept, MadeSame DEF Orderly, IInv
  <2> QED
    BY <1>12, <2>1 DEF Orderly, JobId, AttemptId
<1>13. ASSUME NEW w \in Worker, Poll(w) \/ Handle(w) PROVE Orderly'
  BY <1>2, <1>3, <1>4, <1>6, <1>7, <1>8, <1>9, <1>10, <1>13
     DEF Poll, Handle, LoadFails, ReadFails, ReadsAndStores, JobId
<1>14. ASSUME NEW p \in Process, Crash(p) PROVE FALSE
  BY <1>14 DEF Crash
<1>15. ASSUME Time PROVE Orderly'
  BY <1>11, <1>15 DEF Time, JobId
<1>16. ASSUME NEW e \in Endpoint, NEW st \in {"enabled", "disabled"}, UpdateEndpoint(e, st)
       PROVE  Orderly'
  BY <1>12, <1>16 DEF UpdateEndpoint
<1>17. ASSUME UNCHANGED vars PROVE Orderly'
  BY <1>12, <1>17 DEF vars
<1> QED
  BY <1>13, <1>14, <1>15, <1>16, <1>17 DEF Next

\* Steps that neither send nor charge, and leave the handlers their deliveries.
LEMMA PostsAreKept ==
    ASSUME PostsAre, UNCHANGED <<delivery, posts>>,
           \A v \in Worker : Called(v) /\ wk[v].dlv \in Delivery =>
               Called(v)' /\ wk'[v].dlv = wk[v].dlv
    PROVE  PostsAre'
BY DEF PostsAre

LEMMA PostsAreStep ==
    ASSUME IInv, NothingOpen, Orderly, PostsAre, [Next]_vars, crashes = 0, crashes' = 0
    PROVE  PostsAre'
<1>1. ASSUME NEW w \in Worker, OnlyMoves(w), UNCHANGED <<delivery, posts>>,
             Called(w) => Called(w)' /\ wk'[w].dlv = wk[w].dlv
      PROVE  PostsAre'
  BY <1>1, PostsAreKept, OthersCalled
<1>2. ASSUME NEW w \in Worker, NEW j \in JobId, Claim(w, j) PROVE PostsAre'
  BY <1>1, <1>2, ClaimDoes DEF Claim, At, Called
<1>3. ASSUME NEW w \in Worker, LoadAttempt(w) PROVE PostsAre'
  BY <1>1, <1>3, LoadDoes DEF Local, Called
<1>4. ASSUME NEW w \in Worker, PanicRecovered(w) \/ Finish(w) PROVE PostsAre'
  BY <1>1, <1>4, EndDoes DEF Called
<1>5. ASSUME NEW w \in Worker, PanicFatal(w) PROVE FALSE
  BY <1>5 DEF PanicFatal, Orderly, OrderlyOf
<1>6. ASSUME NEW w \in Worker, ReadDelivery(w) PROVE PostsAre'
  BY <1>1, <1>6, ReadDoes DEF Local, Called
<1>16. ASSUME NEW w \in Worker, LoadFails(w) \/ ReadFails(w) PROVE PostsAre'
  BY <1>1, <1>16, FailsDoes DEF Local, Called
<1>7. ASSUME NEW w \in Worker, Reschedule(w) PROVE PostsAre'
  <2>1. PICK n : Rescheduled(w, n)
    BY <1>7, RescheduleEffect
  <2>2. OnlyMoves(w) /\ wk'[w].dlv = wk[w].dlv /\ Called(w)'
    BY <2>1 DEF Rescheduled, OnlyMoves, Called
  <2> QED
    BY <1>1, <1>7, <2>2 DEF Reschedule
<1>8. ASSUME UNCHANGED <<delivery, posts, wk>> PROVE PostsAre'
  BY <1>8, PostsAreKept DEF Called
<1>9. \A d \in Delivery : posts[d] \in Nat /\ delivery[d].counter \in Nat /\ d # 0
  <2>1. \A d \in Delivery : posts[d] \in 0 .. MaxAttempts + 1 /\ delivery[d].counter \in Nat
    BY ConstantsAssumption DEF IInv, TypeOK, DeliveryRow
  <2>2. \A n \in 0 .. MaxAttempts + 1 : n \in Nat
    BY ConstantsAssumption
  <2> QED
    BY <2>1, <2>2, NoDeliveryZero
<1>10. ASSUME NEW w \in Worker, CallEndpoint(w) PROVE PostsAre'
  <2>1. PICK t : t = JobOf(w).target
    OBVIOUS
  <2>2. /\ OnlyMoves(w) /\ UNCHANGED delivery /\ wk'[w].dlv = wk[w].dlv /\ t \in Delivery
        /\ Called(w)' /\ ~Called(w) /\ wk[w].pc = "loaded"
        /\ posts'[t] = Posted(posts[t]) /\ \A d \in Delivery \ {t} : posts'[d] = posts[d]
    BY <1>10, <2>1, CallDoes DEF Local, Called
  <2>3. wk[w].dlv = t
    <3>1. wk[w].dlv # 0
      BY <2>2 DEF Orderly, OrderlyOf, InHandler
    <3> QED
      BY <2>1, <3>1, HeldDelivery
  <2>4. posts[t] <= delivery[t].counter
    <3>1. ASSUME NEW v \in Worker, Called(v), wk[v].dlv = t PROVE FALSE
      BY <1>9, <2>2, <2>3, <3>1, OneHandler
    <3> QED
      BY <2>2, <3>1 DEF PostsAre
  <2>5. posts'[t] <= delivery'[t].counter + 1
    BY <1>9, <2>2, <2>4, ConstantsAssumption DEF Posted
  <2>6. ASSUME NEW d \in Delivery, d # t
        PROVE  \/ posts'[d] <= delivery'[d].counter
               \/ /\ posts'[d] <= delivery'[d].counter + 1
                  /\ \E v \in Worker : Called(v)' /\ wk'[v].dlv = d
    <3>1. \A v \in Worker : Called(v) => Called(v)' /\ wk'[v].dlv = wk[v].dlv
      BY <2>2, OthersCalled
    <3> QED
      BY <2>2, <2>6, <3>1 DEF PostsAre
  <2> QED
    BY <2>2, <2>3, <2>5, <2>6 DEF PostsAre
<1>11. ASSUME NEW w \in Worker, Commit(w) PROVE PostsAre'
  <2>1. PICK s : s = wk[w]
    OBVIOUS
  <2>2. /\ OnlyMoves(w) /\ UNCHANGED posts /\ s.pc \in InTx
        /\ \A d \in Delivery : ~(s.ok /\ d = s.dlv) => delivery'[d] = delivery[d]
        /\ s.ok /\ s.dlv # 0 => delivery'[s.dlv].counter = delivery[s.dlv].counter + 1
    BY <1>11, <2>1, CommitDoes DEF Committed
  <2>3. s.ok /\ s.dlv # 0
    BY <2>1, <2>2 DEF Orderly, OrderlyOf, InHandler, InTx
  <2>4. s.dlv \in Delivery
    BY <2>1, <2>3, HeldDelivery
  <2>5. posts'[s.dlv] <= delivery'[s.dlv].counter
    BY <1>9, <2>2, <2>3, <2>4 DEF PostsAre
  <2>6. ASSUME NEW d \in Delivery, d # s.dlv
        PROVE  \/ posts'[d] <= delivery'[d].counter
               \/ /\ posts'[d] <= delivery'[d].counter + 1
                  /\ \E v \in Worker : Called(v)' /\ wk'[v].dlv = d
    <3>1. \A v \in Worker : Called(v) /\ wk[v].dlv = d => Called(v)' /\ wk'[v].dlv = d
      BY <2>1, <2>2, <2>6, OthersCalled
    <3> QED
      BY <2>2, <2>6, <3>1 DEF PostsAre
  <2> QED
    BY <2>4, <2>5, <2>6 DEF PostsAre
<1>12. ASSUME NEW w \in Worker, Poll(w) \/ Handle(w) PROVE PostsAre'
  BY <1>2, <1>3, <1>4, <1>5, <1>6, <1>7, <1>10, <1>11, <1>12, <1>16 DEF Poll, Handle, JobId
<1>13. ASSUME NEW p \in Process, Crash(p) PROVE FALSE
  BY <1>13 DEF Crash
<1>14. ASSUME Time \/ \E e \in Endpoint : \E st \in {"enabled", "disabled"} : UpdateEndpoint(e, st)
       PROVE  PostsAre'
  BY <1>8, <1>14 DEF Time, BackoffElapses, UpdateEndpoint
<1>15. ASSUME UNCHANGED vars PROVE PostsAre'
  BY <1>8, <1>15 DEF vars
<1> QED
  BY <1>12, <1>13, <1>14, <1>15 DEF Next

\* A step without a crash is one from a state without a crash.
LEMMA CrashlessStep ==
    ASSUME ReadsAndStores, IInv, NothingOpen, Crashless, [Next]_vars
    PROVE  Crashless'
<1> SUFFICES ASSUME crashes' = 0 PROVE Orderly' /\ PostsAre'
  BY DEF Crashless
<1>1. crashes' = crashes \/ crashes' = crashes + 1
  BY DEF Next, Poll, Claim, Handle, LoadAttempt, LoadFails, PanicRecovered, PanicFatal,
         CallEndpoint, ReadDelivery, ReadFails, Reschedule, Commit, Finish, Time,
         BackoffElapses, Crash, UpdateEndpoint, vars
<1>2. crashes \in Nat
  BY DEF IInv, TypeOK
<1>3. crashes = 0
  BY <1>1, <1>2
<1> QED
  BY <1>3, OrderlyStep, PostsAreStep DEF Crashless

\* Without a crash, each POST is charged before the next: this invariant is what the
\* two theorems below rest on.
THEOREM NoPostInVain ==
    ASSUME MaxAttempts > 0, DelayOutlivesTx, ReadsAndStores
    PROVE  Spec => []Crashless
<1>1. Init => NothingOpen /\ Crashless
  BY InitNothingOpen, InitCrashless
<1>2. IInv /\ NothingOpen /\ Crashless /\ [Next]_vars => NothingOpen' /\ Crashless'
  BY NothingOpenStep, CrashlessStep DEF Loads, ReadsAndStores
<1> QED
  BY <1>1, <1>2, Invariance, PTL DEF Spec

\* maxAttempts bounds what the endpoint sees of an event while nothing crashes.
THEOREM PostsAreBounded ==
    ASSUME MaxAttempts > 0, DelayOutlivesTx, ReadsAndStores
    PROVE  Spec => []PostsBounded
<1>1. IInv /\ PostsCover /\ Crashless => PostsBounded
  <2> SUFFICES ASSUME IInv, PostsCover, PostsAre, NEW d \in Delivery
               PROVE  posts[d] <= MaxAttempts
    BY DEF Crashless, PostsBounded
  <2>1. /\ posts[d] \in 0 .. MaxAttempts + 1 /\ delivery[d].counter \in Nat /\ MaxAttempts \in Nat
        /\ delivery[d].counter <= MaxAttempts
    BY ConstantsAssumption DEF IInv, TypeOK, DeliveryRow, PostsCover
  <2>2. ASSUME NEW w \in Worker, wk[w].dlv = d PROVE delivery[d].counter < MaxAttempts
    BY <2>2, HeldDelivery, NoDeliveryZero
  <2> QED
    BY <2>1, <2>2 DEF PostsAre
<1> QED
  BY <1>1, Invariance, ChargesAreBacked, NoPostInVain, PTL

\* While nothing crashes, nothing is sent for a delivery that was delivered or gave up.
THEOREM SettledIsQuiet ==
    ASSUME MaxAttempts > 0, DelayOutlivesTx, ReadsAndStores
    PROVE  Spec => QuietOnceSettled
<1> DEFINE Quiet == crashes = 0 =>
             \A d \in Delivery : delivery[d].remaining = 0 => posts'[d] = posts[d]
<1>1. ASSUME IInv, Crashless, Next PROVE Quiet
  <2> SUFFICES ASSUME Orderly, NEW d \in Delivery, delivery[d].remaining = 0
               PROVE  posts'[d] = posts[d]
    BY <1>1 DEF Crashless
  <2>1. ASSUME NEW w \in Worker, CallEndpoint(w) PROVE posts'[d] = posts[d]
    <3>1. wk[w].dlv # 0
      BY <2>1 DEF CallEndpoint, At, Orderly, OrderlyOf, InHandler
    <3>2. JobOf(w).target = wk[w].dlv /\ delivery[wk[w].dlv].remaining > 0
      BY <1>1, <3>1, HeldDelivery
    <3> QED
      BY <1>1, <2>1, <3>2, CallDoes
  <2>2. UNCHANGED posts => posts'[d] = posts[d]
    OBVIOUS
  <2>3. UNCHANGED posts \/ \E w \in Worker : CallEndpoint(w)
    BY <1>1 DEF Next, Poll, Claim, Handle, LoadAttempt, LoadFails, PanicRecovered, PanicFatal,
                ProcessDies, ReadDelivery, ReadFails, Reschedule, Commit, Finish, Time,
                BackoffElapses, Crash, UpdateEndpoint
  <2> QED
    BY <2>1, <2>2, <2>3
<1>2. IInv /\ Crashless /\ [Next]_vars => [Quiet]_vars
  BY <1>1
<1> QED
  BY <1>2, Invariance, NoPostInVain, PTL DEF Spec, QuietOnceSettled

-----------------------------------------------------------------------------
(***************************************************************************)
(* Deliveries that come in one by one, while others are under way: how     *)
(* Zebrahook composes Dispatcher with the worker that makes its jobs.      *)
(***************************************************************************)
FreshRow == [counter |-> 0, remaining |-> MaxAttempts]

\* No delivery is known yet.
NothingYet ==
    /\ delivery = [d \in Delivery |-> FreshRow] /\ posts = [d \in Delivery |-> 0]
    /\ attempts = <<>> /\ jobs = <<>>
    /\ endpoint \in [Endpoint -> {"enabled", "disabled"}]
    /\ wk = [w \in Worker |-> Idle] /\ crashes = 0

\* Nothing was done for delivery d, and nothing leads to it.
Untouched(d) ==
    /\ delivery[d] = FreshRow /\ posts[d] = 0
    /\ \A a \in AttemptId : attempts[a].delivery # d
    /\ \A j \in JobId : jobs[j].target # d

\* Its first attempt and its first job.
FirstAttempt(d) == [delivery |-> d, status |-> "pending", row |-> "committed"]
FirstJob(a, d) == [attempt |-> a, target |-> d, counter |-> 0, state |-> "queued"]
Enters(d) ==
    /\ attempts' = Append(attempts, FirstAttempt(d))
    /\ jobs' = Append(jobs, FirstJob(Len(attempts) + 1, d))
    /\ UNCHANGED <<delivery, endpoint, wk, posts, crashes>>

\* The invariants hold before the first delivery comes in.
LEMMA NothingYetGood ==
    ASSUME NothingYet
    PROVE  IInv /\ PostsCover /\ AttemptsKept /\ \A d \in Delivery : Untouched(d)
<1>1. \A w \in Worker : wk[w] = Idle
  BY DEF NothingYet
<1>2. AttemptId = {} /\ JobId = {}
  BY DEF NothingYet, AttemptId, JobId
<1>3. MaxAttempts \in Nat
  BY ConstantsAssumption
<1>4. TypeOK
  <2>1. FreshRow \in DeliveryRow /\ 0 \in 0 .. MaxAttempts + 1
    BY <1>3 DEF FreshRow, DeliveryRow
  <2>2. attempts \in Seq(AttemptRow) /\ jobs \in Seq(JobRow)
    BY EmptySeq DEF NothingYet
  <2>3. wk \in [Worker -> Goroutine] /\ \A w \in Worker : wk[w].pc = "idle"
    BY <1>1, IdleType DEF NothingYet
  <2> QED
    BY <2>1, <2>2, <2>3 DEF NothingYet, TypeOK
<1>5. JobsHeld /\ JobsName /\ OpenRows
  BY <1>1, <1>2 DEF JobsHeld, JobsName, OpenRows, At, Idle, Holding
<1>6. ReadsHold
  BY <1>1 DEF ReadsHold, ReadsHoldOf, Idle, Holding, InHandler, InTx, At
<1>7. PendingIsOwed /\ OneOpenAttempt /\ AccountBalances
  BY <1>2, <1>3 DEF NothingYet, FreshRow, PendingIsOwed, OneOpenAttempt, AccountBalances
<1>8. PostsCover
  BY <1>1, <1>3 DEF NothingYet, FreshRow, PostsCover, Called, Idle, Holding
<1>9. AttemptsKept
  BY <1>1, <1>2 DEF AttemptsKept, GoneOf, Idle, Holding, InHandler, At
<1> QED
  BY <1>2, <1>4, <1>5, <1>6, <1>7, <1>8, <1>9 DEF IInv, NothingYet, Untouched

\* What comes in, by components.
LEMMA EntersDoes ==
    ASSUME IInv, NEW d \in Delivery, Enters(d)
    PROVE  LET n == Len(attempts) + 1
               m == Len(jobs) + 1
           IN  /\ n \notin AttemptId /\ AttemptId' = AttemptId \cup {n} /\ n # 0 /\ n \in Nat
               /\ attempts'[n] = FirstAttempt(d)
               /\ \A a \in AttemptId : attempts'[a] = attempts[a]
               /\ m \notin JobId /\ JobId' = JobId \cup {m}
               /\ jobs'[m] = FirstJob(n, d)
               /\ \A j \in JobId : jobs'[j] = jobs[j]
               /\ attempts' \in Seq(AttemptRow) /\ jobs' \in Seq(JobRow)
<1>1. Len(attempts) \in Nat /\ Len(jobs) \in Nat /\ attempts \in Seq(AttemptRow) /\ jobs \in Seq(JobRow)
  BY Lookups DEF IInv, TypeOK
<1>2. FirstAttempt(d) \in AttemptRow /\ FirstJob(Len(attempts) + 1, d) \in JobRow
  BY <1>1 DEF FirstAttempt, FirstJob, AttemptRow, JobRow
<1> QED
  BY <1>1, <1>2, RowInserted DEF Enters, AttemptId, JobId

\* A goroutine has nothing to do with the rows that come in.
LEMMA EntersSame ==
    ASSUME IInv, NEW d \in Delivery, Enters(d)
    PROVE  /\ \A a \in AttemptId : Pending(a)' <=> Pending(a)
           /\ \A n : n = Len(attempts) + 1 => Pending(n)'
           /\ \A a : AlreadyMade(a)' <=> AlreadyMade(a)
           /\ \A a \in AttemptId : Visible(a)' <=> Visible(a)
           /\ \A w \in Worker : ~At(w, "idle") =>
                 /\ (JobOf(w))' = JobOf(w)
                 /\ JobOf(w).attempt # 0 => JobOf(w).attempt \in AttemptId
                 /\ Pending(JobOf(w).attempt)' <=> Pending(JobOf(w).attempt)
<1>0. PICK n : n = Len(attempts) + 1
  OBVIOUS
<1>1. /\ n \notin AttemptId /\ AttemptId' = AttemptId \cup {n} /\ n # 0
      /\ attempts'[n] = FirstAttempt(d)
      /\ \A a \in AttemptId : attempts'[a] = attempts[a]
      /\ \A j \in JobId : jobs'[j] = jobs[j]
      /\ 0 \notin AttemptId
  BY <1>0, EntersDoes, Lookups DEF IInv
<1>2. /\ \A a \in AttemptId : Pending(a)' <=> Pending(a)
      /\ Pending(n)'
      /\ \A a : AlreadyMade(a)' <=> AlreadyMade(a)
  <2>1. attempts'[n].row = "committed" /\ attempts'[n].status = "pending"
    BY <1>1 DEF FirstAttempt
  <2>2. \A a : a \in AttemptId' <=> a \in AttemptId \/ a = n
    BY <1>1
  <2>3. \A a \in AttemptId : (Pending(a)' <=> Pending(a)) /\ (AlreadyMade(a)' <=> AlreadyMade(a))
    BY <1>1, <2>2 DEF Pending, AlreadyMade, Visible, AttemptId
  <2>4. Pending(n)' /\ ~AlreadyMade(n)'
    BY <2>1, <2>2 DEF Pending, AlreadyMade, Visible, AttemptId
  <2>5. \A a : a \notin AttemptId => ~AlreadyMade(a)
    BY DEF AlreadyMade, Visible, AttemptId
  <2>6. \A a : a \notin AttemptId' => ~AlreadyMade(a)'
    BY DEF AlreadyMade, Visible, AttemptId
  <2> QED
    BY <1>1, <2>2, <2>3, <2>4, <2>5, <2>6
<1>3. ASSUME NEW w \in Worker, ~At(w, "idle")
      PROVE  /\ (JobOf(w))' = JobOf(w)
             /\ JobOf(w).attempt # 0 => JobOf(w).attempt \in AttemptId
             /\ Pending(JobOf(w).attempt)' <=> Pending(JobOf(w).attempt)
  <2>1. wk' = wk /\ wk[w].job \in JobId
    BY <1>3, Lookups DEF IInv, Enters
  <2>2. (JobOf(w))' = JobOf(w)
    BY <1>1, <2>1 DEF JobOf
  <2>3. JobOf(w).attempt # 0 => JobOf(w).attempt \in AttemptId
    BY <2>1 DEF IInv, JobsName, JobOf
  <2>4. ~Pending(0) /\ ~Pending(0)'
    BY <1>1 DEF Pending, Visible, AttemptId
  <2> QED
    BY <1>2, <2>2, <2>3, <2>4
<1>4. \A a \in AttemptId : Visible(a)' <=> Visible(a)
  BY <1>1 DEF Visible, AttemptId
<1> QED
  BY <1>0, <1>2, <1>3, <1>4

\* A delivery that comes in keeps the invariant.
LEMMA EntersIInv ==
    ASSUME MaxAttempts > 0, IInv, NEW d \in Delivery, Untouched(d), Enters(d)
    PROVE  IInv'
<1>0. PICK n, m : n = Len(attempts) + 1 /\ m = Len(jobs) + 1
  OBVIOUS
<1>1. /\ n \notin AttemptId /\ AttemptId' = AttemptId \cup {n} /\ n # 0
      /\ attempts'[n] = FirstAttempt(d)
      /\ \A a \in AttemptId : attempts'[a] = attempts[a]
      /\ m \notin JobId /\ JobId' = JobId \cup {m}
      /\ jobs'[m] = FirstJob(n, d)
      /\ \A j \in JobId : jobs'[j] = jobs[j]
      /\ attempts' \in Seq(AttemptRow) /\ jobs' \in Seq(JobRow)
      /\ UNCHANGED <<delivery, endpoint, wk, posts, crashes>>
  BY <1>0, EntersDoes DEF Enters
<1>2. /\ \A a \in AttemptId : Pending(a)' <=> Pending(a)
      /\ Pending(n)'
      /\ \A a : AlreadyMade(a)' <=> AlreadyMade(a)
      /\ \A w \in Worker : ~At(w, "idle") =>
            /\ (JobOf(w))' = JobOf(w)
            /\ JobOf(w).attempt # 0 => JobOf(w).attempt \in AttemptId
            /\ Pending(JobOf(w).attempt)' <=> Pending(JobOf(w).attempt)
  BY <1>0, EntersSame
<1>11. \A a \in AttemptId : Visible(a)' <=> Visible(a)
  BY <1>0, EntersSame
<1>3. TypeOK'
  <2>1. \A w \in Worker : (~At(w, "idle"))' => wk'[w].job \in JobId'
    BY <1>1 DEF IInv, TypeOK, At
  <2> QED
    BY <1>1, <2>1 DEF IInv, TypeOK, At
<1>4. JobsHeld'
  BY <1>1, <1>2 DEF IInv, JobsHeld, At
<1>5. JobsName'
  <2>1. jobs'[m].attempt = n /\ jobs'[m].target = d /\ attempts'[n].delivery = d
    BY <1>1 DEF FirstJob, FirstAttempt
  <2>2. JobsName
    BY DEF IInv
  <2>3. \A j \in JobId : jobs'[j].attempt # 0 =>
            /\ jobs'[j].attempt \in AttemptId /\ jobs'[j].attempt # n
            /\ attempts'[jobs'[j].attempt].delivery = jobs'[j].target
    BY <1>1, <2>2 DEF JobsName
  <2>4. \A j, k \in JobId :
            jobs'[j].attempt = jobs'[k].attempt /\ jobs'[j].attempt # 0 => j = k
    BY <1>1, <2>2 DEF JobsName
  <2>5. AttemptId' = AttemptId \cup {n} /\ JobId' = JobId \cup {m}
    BY <1>1
  <2> QED
    BY <2>1, <2>3, <2>4, <2>5 DEF JobsName
<1>6. OpenRows'
  <2>1. attempts'[n].row = "committed" /\ AttemptId' = AttemptId \cup {n} /\ wk' = wk
    BY <1>1 DEF FirstAttempt
  <2>2. \A a \in AttemptId : attempts'[a] = attempts[a]
    BY <1>1
  <2>3. OpenRows
    BY DEF IInv
  <2> QED
    BY <2>1, <2>2, <2>3 DEF OpenRows, At
<1>7. ReadsHold'
  <2>1. ASSUME NEW w \in Worker PROVE ReadsHoldOf(w)'
    <3>0. ReadsHoldOf(w)
      BY DEF IInv, ReadsHold
    <3>1. CASE At(w, "idle")
      BY <1>1, <3>0, <3>1 DEF ReadsHoldOf, At, InHandler, InTx
    <3>2. CASE ~At(w, "idle")
      <4>1. PICK a : a = JobOf(w).attempt
        OBVIOUS
      <4>2. (JobOf(w).attempt)' = a /\ (Pending(a)' <=> Pending(a)) /\ (AlreadyMade(a)' <=> AlreadyMade(a))
        BY <1>2, <3>2, <4>1
      <4>3. Pending(a) => attempts'[a] = attempts[a]
        BY <1>1 DEF Pending, Visible, AttemptId
      <4>4. wk[w].hit # 0 => wk[w].hit = a /\ (Visible(a) => Visible(a)')
        <5>1. Visible(a) => a \in AttemptId
          BY DEF Visible, AttemptId
        <5> QED
          BY <1>11, <3>0, <4>1, <5>1 DEF ReadsHoldOf
      <4>5. (RemainingOf(wk[w].dlv))' = RemainingOf(wk[w].dlv) /\ wk'[w] = wk[w]
        BY <1>1 DEF RemainingOf
      <4> QED
        BY <3>0, <4>1, <4>2, <4>3, <4>4, <4>5 
           DEF ReadsHoldOf, At, WillRetry, NoMoreAttempts, UintMinusOne, Loads
    <3> QED
      BY <3>1, <3>2
  <2> QED
    BY <2>1 DEF ReadsHold
<1>8. PendingIsOwed'
  BY <1>1, <1>2, ConstantsAssumption
  DEF IInv, PendingIsOwed, FirstAttempt, Untouched, FreshRow
<1>9. OneOpenAttempt'
  BY <1>1, <1>2 DEF IInv, OneOpenAttempt, FirstAttempt, Untouched
<1>10. AccountBalances'
  <2>1. \A e \in Delivery : \A a \in MadeFor(e) : a \in MadeFor(e)' /\ attempts'[a] = attempts[a]
    BY <1>1 DEF MadeFor, Visible, AttemptId
  <2> QED
    BY <1>1, <2>1 DEF IInv, AccountBalances
<1> QED
  BY <1>3, <1>4, <1>5, <1>6, <1>7, <1>8, <1>9, <1>10 DEF IInv

\* Nor does it touch what was sent, charged or promised for the others.
LEMMA EntersKept ==
    ASSUME IInv, PostsCover, AttemptsKept, NEW d \in Delivery, Untouched(d), Enters(d)
    PROVE  PostsCover' /\ AttemptsKept'
<1>0. PICK n, m : n = Len(attempts) + 1 /\ m = Len(jobs) + 1
  OBVIOUS
<1>1. /\ n \notin AttemptId /\ AttemptId' = AttemptId \cup {n} /\ n # 0
      /\ attempts'[n] = FirstAttempt(d)
      /\ \A a \in AttemptId : attempts'[a] = attempts[a]
      /\ m \notin JobId /\ JobId' = JobId \cup {m}
      /\ jobs'[m] = FirstJob(n, d)
      /\ \A j \in JobId : jobs'[j] = jobs[j]
      /\ UNCHANGED <<delivery, wk, posts>>
  BY <1>0, EntersDoes DEF Enters
<1>2. \A w \in Worker : ~At(w, "idle") =>
            /\ (JobOf(w))' = JobOf(w)
            /\ Pending(JobOf(w).attempt)' <=> Pending(JobOf(w).attempt)
  BY <1>0, EntersSame
<1>3. PostsCover'
  BY <1>1, CoverKept DEF Called
<1>4. \A w \in Worker : GoneOf(w)'
  BY <1>1, <1>2 DEF AttemptsKept, GoneOf, At, InHandler
<1>5. \A a \in AttemptId : JobLeft(a) => JobLeft(a)'
  BY <1>1 DEF JobLeft
<1>6. JobLeft(n)'
  <2>1. m \in JobId' /\ jobs'[m].attempt = n /\ jobs'[m].state = "queued"
    BY <1>1 DEF FirstJob
  <2> QED
    BY <2>1 DEF JobLeft
<1>7. \A j \in JobId : jobs[j].attempt # 0 => jobs[j].attempt \in AttemptId
  BY DEF IInv, JobsName
<1>8. \A a \in AttemptId' : attempts'[a].row # "void" /\ attempts'[a].status = "pending" => JobLeft(a)'
  BY <1>1, <1>5, <1>6 DEF AttemptsKept
<1>9. \A j \in JobId' : jobs'[j].state # "waiting" /\ jobs'[j].attempt # 0 =>
          attempts'[jobs'[j].attempt].row # "open"
  <2>1. jobs'[m].attempt = n /\ attempts'[n].row = "committed"
    BY <1>1 DEF FirstJob, FirstAttempt
  <2>2. \A j \in JobId : jobs[j].state # "waiting" /\ jobs[j].attempt # 0 =>
            attempts[jobs[j].attempt].row # "open"
    BY DEF AttemptsKept
  <2> QED
    BY <1>1, <1>7, <2>1, <2>2
<1> QED
  BY <1>3, <1>4, <1>8, <1>9 DEF AttemptsKept

\* A step of a worker leads to no delivery that nothing led to.
LEMMA UntouchedStep ==
    ASSUME IInv, NEW d \in Delivery, Untouched(d), [Next]_vars
    PROVE  Untouched(d)'
<1>1. \A w \in Worker : wk[w].dlv # d
  BY HeldDelivery, NoDeliveryZero DEF Untouched
<1>2. \A w \in Worker : wk[w].job \in JobId => JobOf(w).target # d
  BY DEF Untouched, JobOf
<1>3. ASSUME JobId' = JobId, \A k \in JobId : jobs'[k].target = jobs[k].target,
             AttemptId' = AttemptId, \A a \in AttemptId : attempts'[a].delivery = attempts[a].delivery,
             delivery'[d] = delivery[d], posts'[d] = posts[d]
      PROVE  Untouched(d)'
  BY <1>3 DEF Untouched, FreshRow
<1>4. ASSUME NEW w \in Worker, NEW j \in JobId, Claim(w, j) PROVE Untouched(d)'
  BY <1>3, <1>4, ClaimDoes DEF JobMoves, AttemptId
<1>5. ASSUME NEW w \in Worker, LoadAttempt(w) PROVE Untouched(d)'
  BY <1>3, <1>5, LoadDoes DEF Local, AttemptId, JobId
<1>6. ASSUME NEW w \in Worker, PanicRecovered(w) \/ Finish(w) PROVE Untouched(d)'
  BY <1>3, <1>6, EndDoes DEF JobMoves, AttemptId
<1>7. ASSUME NEW w \in Worker, ReadDelivery(w) PROVE Untouched(d)'
  BY <1>3, <1>7, ReadDoes DEF Local, AttemptId, JobId
<1>17. ASSUME NEW w \in Worker, LoadFails(w) \/ ReadFails(w) PROVE Untouched(d)'
  BY <1>3, <1>17, FailsDoes DEF Local, AttemptId, JobId
<1>8. ASSUME NEW p, ProcessDies(p) PROVE Untouched(d)'
  BY <1>3, <1>8, DiesDoes
<1>9. ASSUME NEW j \in JobId, BackoffElapses(j) PROVE Untouched(d)'
  BY <1>3, <1>9, BackoffDoes DEF JobMoves, AttemptId
<1>10. ASSUME UNCHANGED <<delivery, attempts, jobs, posts>> PROVE Untouched(d)'
  BY <1>3, <1>10 DEF AttemptId, JobId
<1>11. ASSUME NEW w \in Worker, CallEndpoint(w) PROVE Untouched(d)'
  <2>1. wk[w].job \in JobId /\ UNCHANGED <<delivery, attempts, jobs>>
    BY <1>11, CallDoes DEF Local
  <2>2. posts'[d] = posts[d]
    BY <1>2, <1>11, <2>1, CallDoes
  <2> QED
    BY <1>3, <2>1, <2>2 DEF AttemptId, JobId
<1>12. ASSUME NEW w \in Worker, Reschedule(w) PROVE Untouched(d)'
  <2>1. PICK n : Rescheduled(w, n)
    BY <1>12, RescheduleEffect
  <2>2. wk[w].job \in JobId
    BY <1>12, InTransaction DEF Reschedule, At, InTx
  <2>3. \A a \in AttemptId' : attempts'[a].delivery # d
    BY <1>1, <2>1 DEF Rescheduled, Untouched
  <2>4. \A k \in JobId' : jobs'[k].target # d
    BY <1>2, <2>1, <2>2 DEF Rescheduled, Untouched
  <2> QED
    BY <1>12, <2>3, <2>4 DEF Untouched, FreshRow, Reschedule
<1>13. ASSUME NEW w \in Worker, Commit(w) PROVE Untouched(d)'
  <2>1. Committed(w)
    BY <1>13, CommitDoes
  <2> QED
    BY <1>1, <1>3, <2>1 DEF Committed, JobId
<1>14. ASSUME NEW w \in Worker, Poll(w) \/ Handle(w) PROVE Untouched(d)'
  BY <1>4, <1>5, <1>6, <1>7, <1>8, <1>11, <1>12, <1>13, <1>14, <1>17
     DEF Poll, Handle, PanicFatal, JobId
<1>15. ASSUME Time \/ UNCHANGED vars \/ \E p \in Process : Crash(p) PROVE Untouched(d)'
  BY <1>8, <1>9, <1>10, <1>15 DEF Time, vars, Crash, JobId
<1>16. ASSUME NEW e \in Endpoint, NEW s \in {"enabled", "disabled"}, UpdateEndpoint(e, s)
       PROVE  Untouched(d)'
  BY <1>10, <1>16 DEF UpdateEndpoint
<1> QED
  BY <1>14, <1>15, <1>16 DEF Next

-----------------------------------------------------------------------------
(***************************************************************************)
(* What becomes of a delivery.                                             *)
(***************************************************************************)
\* An attempt to make it is still ahead.
Ahead(d) == \E a \in AttemptId : Pending(a) /\ attempts[a].delivery = d
Won(d) == \E a \in AttemptId : attempts[a].delivery = d /\ attempts[a].status = "success"

\* The commit of an attempt whose row was there settles its delivery, gives it
\* up together with the endpoint, or leaves the next attempt behind.
LEMMA CommitSettles ==
    ASSUME IInv, PostsCover, AttemptsKept, NEW w \in Worker, Commit(w),
           NEW d, d = wk[w].dlv, d # 0
    PROVE  /\ d \in Delivery /\ delivery[d].remaining > 0 /\ posts[d] > 0
           /\ \A e \in Delivery : e # d =>
                 /\ delivery'[e] = delivery[e]
                 /\ Won(e)' <=> Won(e)
                 /\ Ahead(e) => Ahead(e)'
           /\ \/ Won(d)' /\ delivery'[d].remaining = 0 /\ endpoint' = endpoint
              \/ /\ Won(d)' <=> Won(d)
                 /\ delivery'[d].remaining > 0 /\ endpoint' = endpoint /\ Ahead(d)'
              \/ /\ Won(d)' <=> Won(d)
                 /\ delivery'[d].remaining = 0
                 /\ endpoint' = [endpoint EXCEPT ![EndpointOf[d]] = "disabled"]
<1>1. PICK s, a : s = wk[w] /\ d = s.dlv /\ a = s.hit
  OBVIOUS
<1>2. Committed(w) /\ s.pc \in InTx
  BY <1>1, CommitDoes DEF Committed
<1>3. /\ d \in Delivery /\ d = JobOf(w).target /\ d # 0
      /\ delivery[d].remaining \in Nat /\ delivery[d].remaining > 0
  BY <1>1, HeldDelivery
<1>6. s.ok
  BY <1>1, <1>2, <1>3 DEF AttemptsKept, GoneOf, At, InTx
<1>4. s.remaining = delivery[d].remaining /\ s \in Goroutine
  BY <1>1, <1>2, <1>3, <1>6, InTransaction DEF RemainingOf
<1>5. a \in AttemptId /\ attempts[a].delivery = d /\ Pending(a) /\ attempts[a].status = "pending"
  BY <1>1, <1>2, <1>3, <1>6, InTransaction DEF Pending
<1>7. posts[d] > 0
  <2>1. delivery[d].counter < posts[d]
    BY <1>1, <1>2, <1>3 DEF PostsCover, Called, InTx
  <2>2. delivery[d].counter \in Nat /\ posts[d] \in Nat
    BY <1>3, ConstantsAssumption DEF IInv, TypeOK, DeliveryRow
  <2> QED
    BY <2>1, <2>2
<1>8. /\ AttemptId' = AttemptId
      /\ \A b \in AttemptId :
            /\ attempts'[b].delivery = attempts[b].delivery
            /\ attempts'[b].status = IF b = a THEN s.result ELSE attempts[b].status
            /\ attempts'[b].row = IF b = s.next THEN "committed" ELSE attempts[b].row
      /\ \A e \in Delivery : e # d => delivery'[e] = delivery[e]
      /\ delivery'[d].remaining = IF s.result = "success" THEN 0 ELSE delivery[d].remaining - 1
  BY <1>1, <1>2, <1>3, <1>6 DEF Committed
<1>9. ASSUME NEW e \in Delivery, e # d
      PROVE  (Won(e)' <=> Won(e)) /\ (Ahead(e) => Ahead(e)')
  <2>1. Won(e)' <=> Won(e)
    BY <1>5, <1>8, <1>9 DEF Won
  <2>2. ASSUME NEW b \in AttemptId, Pending(b), attempts[b].delivery = e
        PROVE  Pending(b)' /\ attempts'[b].delivery = e
    <3>1. b # a
      BY <1>5, <1>9, <2>2
    <3> QED
      BY <1>8, <2>2, <3>1 DEF Pending, Visible, AttemptId
  <2> QED
    BY <1>8, <2>1, <2>2 DEF Ahead
<1>10. s.result # "success" => (Won(d)' <=> Won(d))
  BY <1>5, <1>8 DEF Won
<1>11. CASE s.result = "success"
  <2>1. Won(d)' /\ delivery'[d].remaining = 0
    BY <1>5, <1>8, <1>11 DEF Won
  <2>2. endpoint' = endpoint
    BY <1>1, <1>11 DEF Commit
  <2> QED
    BY <1>1, <1>3, <1>7, <1>8, <1>9, <2>1, <2>2
<1>12. CASE s.result # "success" /\ s.pc = "rescheduled"
  <2>1. ~NoMoreAttempts(delivery[d].remaining)
    BY <1>1, <1>4, <1>12 DEF IInv, ReadsHold, ReadsHoldOf, At, WillRetry
  <2>2. delivery[d].remaining # 1 /\ delivery'[d].remaining > 0
    BY <1>3, <1>8, <1>12, <2>1, BreakerAtOne
  <2>3. endpoint' = endpoint
    BY <1>1, <1>12 DEF Commit
  <2>4. s.next # 0
    BY <1>1, <1>6, <1>12 DEF IInv, ReadsHold, ReadsHoldOf, At
  <2>5. /\ s.next \in AttemptId /\ attempts[s.next].status = "pending"
        /\ attempts[s.next].delivery = d /\ s.next # a
    BY <1>1, <1>2, <2>4, InTransaction
  <2>6. Pending(s.next)' /\ attempts'[s.next].delivery = d
    <3>1. PICK b : b = s.next
      OBVIOUS
    <3>2. Pending(b)' /\ attempts'[b].delivery = d
      BY <1>8, <2>5, <3>1 DEF Pending, Visible, AttemptId
    <3> QED
      BY <3>1, <3>2
  <2>7. Ahead(d)'
    BY <1>8, <2>5, <2>6 DEF Ahead
  <2> QED
    BY <1>1, <1>3, <1>7, <1>8, <1>9, <1>10, <1>12, <2>2, <2>3, <2>7
<1>13. CASE s.result # "success" /\ s.pc # "rescheduled"
  <2>1. s.pc = "intx" /\ ~WillRetry(s)
    BY <1>1, <1>13 DEF Commit
  <2>2. NoMoreAttempts(delivery[d].remaining)
    BY <1>4, <1>13, <2>1 DEF WillRetry
  <2>3. delivery[d].remaining = 1 /\ delivery'[d].remaining = 0
    BY <1>3, <1>8, <1>13, <2>2, BreakerAtOne
  <2>4. endpoint' = [endpoint EXCEPT ![EndpointOf[d]] = "disabled"]
    BY <1>1, <1>3, <1>6, <1>13, <2>1 DEF Commit
  <2> QED
    BY <1>1, <1>3, <1>7, <1>8, <1>9, <1>10, <1>13, <2>3, <2>4
<1> QED
  BY <1>11, <1>12, <1>13

\* The commit of a handler that found no row settles nothing.
LEMMA CommitOfNothing ==
    ASSUME IInv, AttemptsKept, Loads, UintMax > 0, NEW w \in Worker, Commit(w), wk[w].dlv = 0
    PROVE  /\ \A d \in Delivery : delivery'[d] = delivery[d]
           /\ AttemptId' = AttemptId
           /\ \A a \in AttemptId : /\ attempts'[a].delivery = attempts[a].delivery
                                   /\ attempts'[a].status = attempts[a].status
                                   /\ attempts'[a].row = attempts[a].row
           /\ endpoint' = endpoint
<1>1. PICK s : s = wk[w]
  OBVIOUS
<1>2. Committed(w) /\ s.pc \in InTx
  BY <1>1, CommitDoes DEF Committed
<1>3. ~Pending(JobOf(w).attempt)
  BY <1>1, <1>2 DEF AttemptsKept, GoneOf, InTx, InHandler
<1>4. s.hit = 0 /\ s.next = 0 /\ (s.ok => s.remaining = 0)
  BY <1>1, <1>2, <1>3, InTransaction DEF RemainingOf
<1>5. 0 \notin AttemptId /\ 0 \notin Delivery
  BY Lookups, NoDeliveryZero DEF IInv
<1>6. endpoint' = endpoint
  <2>1. s.ok /\ s.pc = "intx" => s.result = "success"
    BY <1>1, <1>2, <1>4, ConstantsAssumption
    DEF Commit, WillRetry, NoMoreAttempts, UintMinusOne, InTx
  <2> QED
    BY <1>1, <2>1 DEF Commit
<1> QED
  BY <1>1, <1>2, <1>4, <1>5, <1>6 DEF Committed

\* The other steps of a worker settle nothing, nor does its death.
LEMMA OthersSettleNothing ==
    ASSUME IInv, NEW d \in Delivery, \/ UNCHANGED <<delivery, attempts>>
                                    \/ \E w \in Worker : Reschedule(w)
    PROVE  /\ delivery' = delivery
           /\ Won(d)' <=> Won(d)
           /\ Ahead(d) => Ahead(d)'
<1>1. ASSUME UNCHANGED <<delivery, attempts>>
      PROVE  delivery' = delivery /\ (Won(d)' <=> Won(d)) /\ (Ahead(d) => Ahead(d)')
  BY <1>1 DEF Won, Ahead, Pending, Visible, AttemptId
<1>2. ASSUME NEW w \in Worker, Reschedule(w)
      PROVE  delivery' = delivery /\ (Won(d)' <=> Won(d)) /\ (Ahead(d) => Ahead(d)')
  <2>1. PICK n : Rescheduled(w, n)
    BY <1>2, RescheduleEffect
  <2>2. /\ \A a \in AttemptId : a \in AttemptId' /\ attempts'[a] = attempts[a]
        /\ \A a \in AttemptId' : a \notin AttemptId => attempts'[a].status = "pending"
    BY <2>1 DEF Rescheduled
  <2>3. \A a \in AttemptId : Pending(a) => Pending(a)'
    BY <2>2 DEF Pending, Visible, AttemptId
  <2> QED
    BY <1>2, <2>2, <2>3 DEF Won, Ahead, Reschedule
<1> QED
  BY <1>1, <1>2

LEMMA DeathSettlesNothing ==
    ASSUME IInv, NEW d \in Delivery, NEW p, ProcessDies(p)
    PROVE  /\ delivery' = delivery
           /\ Won(d)' <=> Won(d)
           /\ Ahead(d) => Ahead(d)'
<1>1. /\ delivery' = delivery /\ AttemptId' = AttemptId
      /\ \A a \in AttemptId : /\ attempts'[a].delivery = attempts[a].delivery
                              /\ attempts'[a].status = attempts[a].status
                              /\ \/ attempts'[a].row = attempts[a].row
                                 \/ attempts[a].row = "open" /\ attempts'[a].row = "void"
  BY DiesDoes
<1>2. \A a \in AttemptId : Pending(a) => Pending(a)'
  BY <1>1 DEF Pending, Visible, AttemptId
<1> QED
  BY <1>1, <1>2 DEF Won, Ahead

\* Nor does a delivery that comes in, and its own first attempt is ahead.
LEMMA EntersSettlesNothing ==
    ASSUME IInv, NEW d \in Delivery, Enters(d), NEW e \in Delivery
    PROVE  /\ delivery' = delivery /\ posts' = posts
           /\ Won(e)' <=> Won(e)
           /\ Ahead(e) \/ e = d => Ahead(e)'
           /\ Untouched(e) /\ e # d => Untouched(e)'
<1>0. PICK n, m : n = Len(attempts) + 1 /\ m = Len(jobs) + 1
  OBVIOUS
<1>1. /\ n \notin AttemptId /\ AttemptId' = AttemptId \cup {n}
      /\ attempts'[n] = FirstAttempt(d)
      /\ \A a \in AttemptId : attempts'[a] = attempts[a]
      /\ JobId' = JobId \cup {m} /\ jobs'[m].target = d
      /\ \A j \in JobId : jobs'[j] = jobs[j]
      /\ UNCHANGED <<delivery, posts>>
  <2>1. /\ JobId' = JobId \cup {m} /\ jobs'[m] = FirstJob(n, d)
        /\ \A j \in JobId : jobs'[j] = jobs[j]
    BY <1>0, EntersDoes
  <2>2. jobs'[m].target = d
    BY <2>1 DEF FirstJob
  <2>3. UNCHANGED <<delivery, posts>>
    BY DEF Enters
  <2> QED
    BY <1>0, <2>1, <2>2, <2>3, EntersDoes
<1>4. attempts'[n].delivery = d /\ attempts'[n].status = "pending"
  BY <1>1 DEF FirstAttempt
<1>2. /\ \A a \in AttemptId : Pending(a)' <=> Pending(a)
      /\ Pending(n)'
  BY <1>0, EntersSame
<1>3. Untouched(e) /\ e # d => Untouched(e)'
  BY <1>1, <1>4 DEF Untouched, FreshRow
<1> QED
  BY <1>1, <1>2, <1>3, <1>4 DEF Won, Ahead

\* A delivery that has attempts left keeps one ahead.
LEMMA AheadStep ==
    ASSUME IInv, PostsCover, AttemptsKept, Loads, [Next]_vars, NEW d \in Delivery,
           delivery[d].remaining > 0 => Ahead(d)
    PROVE  (delivery[d].remaining > 0 => Ahead(d))'
<1>1. CASE \A w \in Worker : ~Commit(w)
  <2>1. \/ UNCHANGED <<delivery, attempts>>
        \/ \E w \in Worker : Reschedule(w)
        \/ \E p : ProcessDies(p)
    BY <1>1
    DEF Next, vars, Poll, Claim, Handle, LoadAttempt, LoadFails, PanicRecovered, PanicFatal,
        CallEndpoint, ReadDelivery, ReadFails, Finish, Time, BackoffElapses, Crash, UpdateEndpoint
  <2>2. ASSUME \/ UNCHANGED <<delivery, attempts>>
               \/ \E w \in Worker : Reschedule(w)
        PROVE  delivery' = delivery /\ (Ahead(d) => Ahead(d)')
    BY <2>2, OthersSettleNothing
  <2>3. ASSUME NEW p, ProcessDies(p)
        PROVE  delivery' = delivery /\ (Ahead(d) => Ahead(d)')
    BY <2>3, DeathSettlesNothing
  <2> QED
    BY <2>1, <2>2, <2>3
<1>2. ASSUME NEW w \in Worker, Commit(w), wk[w].dlv = 0
      PROVE  (delivery[d].remaining > 0 => Ahead(d))'
  <2>1. UintMax > 0
    BY ConstantsAssumption
  <2> QED
    BY <1>2, <2>1, CommitOfNothing DEF Ahead, Pending, Visible, AttemptId
<1>3. ASSUME NEW w \in Worker, Commit(w), wk[w].dlv # 0
      PROVE  (delivery[d].remaining > 0 => Ahead(d))'
  <2>1. PICK e : e = wk[w].dlv
    OBVIOUS
  <2>2. /\ d # e => delivery'[d] = delivery[d] /\ (Ahead(d) => Ahead(d)')
        /\ delivery'[e].remaining = 0 \/ Ahead(e)'
    BY <1>3, <2>1, CommitSettles
  <2>3. CASE d = e
    <3>1. delivery'[d].remaining = 0 => ~(delivery'[d].remaining > 0)
      OBVIOUS
    <3> QED
      BY <2>2, <2>3, <3>1
  <2>4. CASE d # e
    BY <2>2, <2>4
  <2> QED
    BY <2>3, <2>4
<1> QED
  BY <1>1, <1>2, <1>3

\* What is ahead has a job that is not done.
LEMMA AheadHasJob ==
    ASSUME IInv, AttemptsKept, NEW d, Ahead(d)
    PROVE  \E j \in JobId : jobs[j].target = d /\ jobs[j].state # "done"
<1>1. PICK a \in AttemptId : Pending(a) /\ attempts[a].delivery = d
  BY DEF Ahead
<1>2. PICK j \in JobId : jobs[j].attempt = a /\ jobs[j].state # "done"
  BY <1>1 DEF AttemptsKept, JobLeft, Pending, Visible
<1>3. a # 0
  BY <1>1, Lookups DEF IInv
<1> QED
  BY <1>1, <1>2, <1>3 DEF IInv, JobsName

\* Nothing is forgotten: a delivery that is neither delivered nor out of attempts
\* has a job that is waiting, queued or running, at every moment.
WorkIsLeft ==
    \A d \in Delivery : delivery[d].remaining > 0 =>
        \E j \in JobId : jobs[j].target = d /\ jobs[j].state # "done"

\* Where no read, statement or enqueue fails and a backoff outlives the
\* transaction that set it, no delivery is left with attempts but without a job
\* (dispatcher/main.go, lines 224-247: each retry makes both), whatever crashes.
THEOREM NothingForgotten ==
    ASSUME MaxAttempts > 0, Fault = {}, DelayOutlivesTx
    PROVE  Spec => []WorkIsLeft
<1> DEFINE Owed == \A d \in Delivery : delivery[d].remaining > 0 => Ahead(d)
<1>1. Init => Owed
  BY DEF Init, Ahead, Pending, Visible, AttemptId
<1>2. IInv /\ PostsCover /\ AttemptsKept /\ Owed /\ [Next]_vars => Owed'
  BY AheadStep DEF Loads
<1>3. IInv /\ AttemptsKept /\ Owed => WorkIsLeft
  BY AheadHasJob DEF WorkIsLeft
<1> HIDE DEF Owed
<1> QED
  BY <1>1, <1>2, <1>3, Invariance, ChargesAreBacked, AttemptsAreKept, PTL DEF Spec

\* What the composed system keeps of the dispatcher: with it every step of a
\* worker, of another component, and every delivery that comes in.
CInv == IInv /\ PostsCover /\ AttemptsKept

LEMMA InitCInv == NothingYet => CInv
BY NothingYetGood DEF CInv

LEMMA StepCInv ==
    ASSUME Fault = {}, DelayOutlivesTx, CInv, [Next]_vars
    PROVE  CInv'
<1>1. IInv'
  BY StepIInv DEF CInv
<1>2. PostsCover'
  BY CoverStep DEF CInv
<1>3. AttemptsKept'
  BY <1>1, KeptStep DEF CInv
<1> QED
  BY <1>1, <1>2, <1>3 DEF CInv

LEMMA EntersCInv ==
    ASSUME MaxAttempts > 0, CInv, NEW d \in Delivery, Untouched(d), Enters(d)
    PROVE  CInv'
BY EntersIInv, EntersKept DEF CInv

LEMMA ElsewhereCInv ==
    ASSUME CInv, UNCHANGED <<delivery, attempts, jobs, endpoint, wk, posts>>, crashes' \in Nat
    PROVE  CInv'
<1>1. TypeOK'
  BY DEF CInv, IInv, TypeOK, At, JobId
<1>2. IInv'
  BY <1>1, AsideIInv DEF CInv
<1>3. PostsCover'
  BY CoverKept DEF CInv, Called
<1>4. AttemptsKept'
  BY DEF CInv, AttemptsKept, JobLeft, GoneOf, Pending, Visible, At, JobOf, JobId, AttemptId
<1> QED
  BY <1>2, <1>3, <1>4 DEF CInv
=============================================================================
