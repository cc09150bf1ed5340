--------------------------- MODULE DispatcherProofs ---------------------------
(***************************************************************************)
(* Theorems about Dispatcher for every set of endpoints, deliveries,       *)
(* goroutines and processes, every maxAttempts above 0, every combination  *)
(* of faults and any number of crashes.                                    *)
(***************************************************************************)
EXTENDS DispatcherInv, TableLemmas

-----------------------------------------------------------------------------
(* Types. *)

\* What a state of the right type gives about the rows and the goroutines.
LEMMA Lookups ==
    ASSUME TypeOK
    PROVE  /\ Len(jobs) \in Nat /\ JobId = 1 .. Len(jobs)
           /\ Len(attempts) \in Nat /\ AttemptId = 1 .. Len(attempts)
           /\ \A j \in JobId : jobs[j] \in JobRow
           /\ \A a \in AttemptId : attempts[a] \in AttemptRow
           /\ \A w \in Worker : wk[w] \in Goroutine
           /\ \A w \in Worker : ~At(w, "idle") => /\ wk[w].job \in JobId
                                                  /\ JobOf(w) \in JobRow
<1>1. /\ Len(jobs) \in Nat /\ JobId = 1 .. Len(jobs)
      /\ \A j \in JobId : jobs[j] \in JobRow
  BY LenProperties, ElementOfSeq DEF TypeOK, JobId
<1>2. /\ Len(attempts) \in Nat /\ AttemptId = 1 .. Len(attempts)
      /\ \A a \in AttemptId : attempts[a] \in AttemptRow
  BY LenProperties, ElementOfSeq DEF TypeOK, AttemptId
<1>3. \A w \in Worker : wk[w] \in Goroutine /\ (~At(w, "idle") => wk[w].job \in JobId)
  BY DEF TypeOK, At
<1> QED
  BY <1>1, <1>2, <1>3 DEF JobOf

\* A goroutine that has just taken a job is well typed.
LEMMA HoldingType ==
    ASSUME NEW j \in Nat, NEW pc \in {"idle", "claimed", "recorded"}
    PROVE  /\ Holding(j, pc) \in Goroutine
           /\ Holding(j, pc).job = j /\ Holding(j, pc).pc = pc
<1>1. 0 \in 0 .. MaxAttempts /\ "success" \in Result
  BY ConstantsAssumption DEF Result
<1> QED
  BY <1>1 DEF Holding, Goroutine

\* An idle goroutine is well typed.
LEMMA IdleType == Idle \in Goroutine /\ Idle.pc = "idle"
  BY HoldingType DEF Idle, Holding

\* The initial state is well typed.
LEMMA InitTypeOK == Init => TypeOK
<1> SUFFICES ASSUME Init PROVE TypeOK
  OBVIOUS
<1>1. Len(EndpointOf) \in Nat /\ Delivery = 1 .. Len(EndpointOf)
  BY ConstantsAssumption, LenProperties DEF Delivery
<1>2. attempts \in Seq(AttemptRow)
  <2>1. attempts \in [1 .. Len(EndpointOf) -> AttemptRow]
    BY <1>1 DEF Init, AttemptRow
  <2> QED
    BY <1>1, <2>1, SeqDef
<1>3. jobs \in Seq(JobRow)
  <2>1. jobs \in [1 .. Len(EndpointOf) -> JobRow]
    BY <1>1 DEF Init, JobRow
  <2> QED
    BY <1>1, <2>1, SeqDef
<1>4. wk \in [Worker -> Goroutine] /\ \A w \in Worker : wk[w].pc = "idle"
  BY IdleType DEF Init
<1> QED
  BY <1>2, <1>3, <1>4, ConstantsAssumption DEF Init, TypeOK, DeliveryRow

\* Every step keeps the types; the unsigned column attempts_remaining stays in range
\* because the handler that charges it is the only one that can.
LEMMA TypeStep ==
    ASSUME TypeOK, ReadsHold, [Next]_vars
    PROVE  TypeOK'
<1> USE ConstantsAssumption
<1> DEFINE WkOK == /\ wk \in [Worker -> Goroutine]
                   /\ \A w \in Worker : wk[w].pc # "idle" => wk[w].job \in JobId
<1>0. \A w \in Worker : wk[w].pc # "idle" => wk[w].job \in JobId /\ JobOf(w) \in JobRow
  BY Lookups DEF At
<1>1. \A j \in DOMAIN jobs : jobs[j] \in JobRow
  BY Lookups DEF JobId
<1>2. \A a \in DOMAIN attempts : attempts[a] \in AttemptRow
  BY Lookups DEF AttemptId
<1>3. ASSUME NEW j \in DOMAIN jobs, NEW st \in {"waiting", "queued", "running", "done"},
             jobs' = [jobs EXCEPT ![j].state = st]
      PROVE  jobs' \in Seq(JobRow) /\ JobId' = JobId
  <2>1. jobs' \in [DOMAIN jobs -> JobRow]
    BY <1>1, <1>3 DEF JobRow
  <2> QED
    BY <2>1, RowsInPlace DEF TypeOK, JobId
<1>4. ASSUME NEW p, ProcessDies(p)
      PROVE  /\ jobs' \in Seq(JobRow) /\ attempts' \in Seq(AttemptRow)
             /\ WkOK'
  <2>1. jobs' \in [DOMAIN jobs -> JobRow]
    <3>1. \A j \in JobRow : [j EXCEPT !.state = "queued"] \in JobRow
      BY DEF JobRow
    <3> QED
      BY <1>1, <1>4, <3>1 DEF ProcessDies
  <2>2. jobs' \in Seq(JobRow) /\ JobId' = JobId
    BY <2>1, RowsInPlace DEF TypeOK, JobId
  <2>3. attempts' \in [DOMAIN attempts -> AttemptRow]
    <3>1. \A a \in AttemptRow : [a EXCEPT !.row = "void"] \in AttemptRow
      BY DEF AttemptRow
    <3> QED
      BY <1>2, <1>4, <3>1 DEF ProcessDies
  <2>4. attempts' \in Seq(AttemptRow)
    BY <2>3, RowsInPlace DEF TypeOK
  <2>5. Idle \in Goroutine /\ Idle.pc = "idle"
    BY IdleType
  <2>6. \A w \in Worker : wk'[w] = Idle \/ wk'[w] = wk[w]
    BY <1>4 DEF ProcessDies
  <2>7. wk' \in [Worker -> Goroutine]
    BY <1>4, <2>5 DEF ProcessDies, TypeOK
  <2>8. \A w \in Worker : wk'[w].pc # "idle" => wk'[w].job \in JobId'
    BY <2>2, <2>5, <2>6 DEF TypeOK
  <2> QED
    BY <2>2, <2>4, <2>7, <2>8
<1>5. ASSUME NEW w \in Worker, NEW s \in Goroutine, wk' = [wk EXCEPT ![w] = s],
             s.pc # "idle" => s.job \in JobId', JobId \subseteq JobId'
      PROVE  WkOK'
  BY <1>5 DEF TypeOK
<1>6. ASSUME NEW w \in Worker, NEW j \in DOMAIN jobs, Claim(w, j) PROVE TypeOK'
  <2>1. jobs' \in Seq(JobRow) /\ JobId' = JobId
    BY <1>3, <1>6 DEF Claim
  <2>2. Holding(j, "claimed") \in Goroutine /\ Holding(j, "claimed").job = j
    <3>1. j \in Nat
      BY Lookups DEF JobId
    <3> QED
      BY <3>1, HoldingType
  <2>3. WkOK'
    BY <1>5, <1>6, <2>1, <2>2 DEF Claim, JobId
  <2> QED
    BY <1>6, <2>1, <2>3 DEF TypeOK, Claim
<1>7. ASSUME NEW w \in Worker, LoadAttempt(w) PROVE TypeOK'
  <2>1. DeliveryOf(JobOf(w).attempt) \in Delivery \cup {0}
    BY <1>2 DEF DeliveryOf, Visible, AttemptRow
  <2>2. WkOK'
    <3> DEFINE s == [wk[w] EXCEPT !.pc = "loaded", !.dlv = DeliveryOf(JobOf(w).attempt)]
    <3>1. s \in Goroutine /\ s.job = wk[w].job
      <4>1. wk[w] \in Goroutine
        BY DEF TypeOK
      <4> QED
        BY <2>1, <4>1 DEF Goroutine
    <3>2. wk' = [wk EXCEPT ![w] = s] /\ JobId' = JobId
      BY <1>7 DEF LoadAttempt, JobId
    <3>3. s.pc # "idle" => s.job \in JobId'
      BY <1>7, <3>1, <3>2 DEF LoadAttempt, At, TypeOK
    <3> QED
      BY <1>5, <3>1, <3>2, <3>3
  <2> QED
    BY <1>7, <2>2 DEF TypeOK, LoadAttempt
<1>8. ASSUME NEW w \in Worker, PanicRecovered(w) \/ Finish(w) PROVE TypeOK'
  <2>1. jobs' \in Seq(JobRow) /\ JobId' = JobId
    BY <1>0, <1>3, <1>8 DEF PanicRecovered, Finish, Ends, JobId, At
  <2>2. Idle \in Goroutine /\ Idle.pc = "idle"
    BY IdleType
  <2>3. WkOK'
    BY <1>5, <1>8, <2>1, <2>2 DEF PanicRecovered, Finish
  <2> QED
    BY <1>8, <2>1, <2>3 DEF TypeOK, PanicRecovered, Finish
<1>9. ASSUME NEW w \in Worker, CallEndpoint(w) PROVE TypeOK'
  <2>1. PICK r \in Result : wk' = [wk EXCEPT ![w].pc = "answered", ![w].result = r]
    BY <1>9 DEF CallEndpoint
  <2>2. WkOK'
    <3> DEFINE s == [wk[w] EXCEPT !.pc = "answered", !.result = r]
    <3>1. s \in Goroutine /\ s.job = wk[w].job
      <4>1. wk[w] \in Goroutine
        BY DEF TypeOK
      <4> QED
        BY <4>1 DEF Goroutine
    <3>2. wk' = [wk EXCEPT ![w] = s] /\ JobId' = JobId
      BY <1>9, <2>1 DEF CallEndpoint, JobId
    <3>3. s.pc # "idle" => s.job \in JobId'
      BY <1>9, <3>1, <3>2 DEF CallEndpoint, At, TypeOK
    <3> QED
      BY <1>5, <3>1, <3>2, <3>3
  <2>3. posts' \in [Delivery -> 0 .. MaxAttempts + 1]
    <3>1. \A n \in 0 .. MaxAttempts + 1 : Posted(n) \in 0 .. MaxAttempts + 1
      BY DEF Posted
    <3> QED
      BY <1>9, <3>1 DEF CallEndpoint, TypeOK
  <2> QED
    BY <1>9, <2>2, <2>3 DEF TypeOK, CallEndpoint
<1>10. ASSUME NEW w \in Worker, ReadDelivery(w) PROVE TypeOK'
  <2>1. PICK ok \in BOOLEAN : wk' = [wk EXCEPT ![w].pc = "intx",
                ![w].remaining = RemainingOf(wk[w].dlv),
                ![w].hit = RowOf(JobOf(w).attempt), ![w].ok = ok]
    BY <1>10 DEF ReadDelivery
  <2>2. RemainingOf(wk[w].dlv) \in 0 .. MaxAttempts
    <3>1. wk[w].dlv \in Delivery \cup {0}
      BY DEF TypeOK, Goroutine
    <3> QED
      BY <3>1 DEF TypeOK, RemainingOf, DeliveryRow
  <2>3. RowOf(JobOf(w).attempt) \in Nat
    BY LenProperties DEF RowOf, Visible, TypeOK
  <2>4. WkOK'
    <3> DEFINE s == [wk[w] EXCEPT !.pc = "intx", !.remaining = RemainingOf(wk[w].dlv),
                            !.hit = RowOf(JobOf(w).attempt), !.ok = ok]
    <3>1. s \in Goroutine /\ s.job = wk[w].job
      <4>1. wk[w] \in Goroutine
        BY DEF TypeOK
      <4> QED
        BY <2>2, <2>3, <4>1 DEF Goroutine
    <3>2. wk' = [wk EXCEPT ![w] = s] /\ JobId' = JobId
      <4>1. wk' = [wk EXCEPT ![w] = s]
        BY <2>1
      <4> QED
        BY <1>10, <4>1 DEF ReadDelivery, JobId
    <3>3. s.pc # "idle" => s.job \in JobId'
      BY <1>10, <3>1, <3>2 DEF ReadDelivery, At, TypeOK
    <3> QED
      BY <1>5, <3>1, <3>2, <3>3
  <2> QED
    BY <1>10, <2>4 DEF TypeOK, ReadDelivery
<1>11. ASSUME NEW w \in Worker, Reschedule(w) PROVE TypeOK'
  <2> DEFINE created == wk[w].ok /\ wk[w].dlv # 0
             next == IF created THEN Len(attempts) + 1 ELSE 0
             row == [delivery |-> wk[w].dlv, status |-> "pending", row |-> "open"]
  <2>1. wk[w].dlv \in Delivery \cup {0} /\ Len(attempts) \in Nat /\ wk[w].job \in JobId
        /\ JobOf(w) \in JobRow
    BY <1>0, <1>11, LenProperties DEF TypeOK, Goroutine, Reschedule, At
  <2>2. created => row \in AttemptRow
    BY <2>1 DEF AttemptRow
  <2>3. attempts' \in Seq(AttemptRow)
    BY <1>11, <2>2, RowInserted DEF TypeOK, Reschedule
  <2>4. next \in Nat /\ NextJob(w, next) \in JobRow
    BY <2>1 DEF NextJob, NextCounter, JobRow
  <2>5. jobs' \in Seq(JobRow) /\ JobId \subseteq JobId'
    <3>1. jobs' = jobs \/ jobs' = Append(jobs, NextJob(w, next))
      BY <1>11 DEF Reschedule
    <3>2. jobs \in Seq(JobRow)
      BY DEF TypeOK
    <3>3. /\ Append(jobs, NextJob(w, next)) \in Seq(JobRow)
          /\ DOMAIN jobs \subseteq DOMAIN Append(jobs, NextJob(w, next))
      BY <2>4, <3>2, RowInserted
    <3> QED
      BY <3>1, <3>2, <3>3 DEF JobId
  <2>6. WkOK'
    <3> DEFINE s == [wk[w] EXCEPT !.pc = "rescheduled", !.next = next, !.ok = created]
    <3>1. s \in Goroutine /\ s.job = wk[w].job
      <4>1. next \in Nat /\ created \in BOOLEAN /\ wk[w] \in Goroutine
        BY <2>4 DEF TypeOK, Goroutine
      <4> HIDE DEF next, created
      <4> QED
        BY <4>1 DEF Goroutine
    <3>2. wk' = [wk EXCEPT ![w] = s]
      BY <1>11 DEF Reschedule
    <3> HIDE DEF s
    <3> QED
      BY <1>5, <2>1, <2>5, <3>1, <3>2
  <2> QED
    BY <1>11, <2>3, <2>5, <2>6 DEF TypeOK, Reschedule
<1>12. ASSUME NEW w \in Worker, Commit(w) PROVE TypeOK'
  <2>1. wk[w] \in Goroutine /\ wk[w].result \in Result /\ wk[w].job \in JobId
    BY <1>12 DEF TypeOK, Goroutine, Commit
  <2>2. attempts' \in [DOMAIN attempts -> AttemptRow]
    <3>1. \A a \in AttemptRow : /\ [a EXCEPT !.status = wk[w].result] \in AttemptRow
                                /\ [a EXCEPT !.row = "committed"] \in AttemptRow
      BY <2>1 DEF AttemptRow
    <3> QED
      BY <1>2, <1>12, <3>1 DEF Commit
  <2>3. attempts' \in Seq(AttemptRow)
    BY <2>2, RowsInPlace DEF TypeOK
  <2>5. WkOK'
    <3> DEFINE s == Holding(wk[w].job, "recorded")
    <3>1. s \in Goroutine /\ s.job = wk[w].job
      <4>1. wk[w].job \in Nat
        BY <2>1, Lookups
      <4> QED
        BY <4>1, HoldingType
    <3>2. wk' = [wk EXCEPT ![w] = s] /\ JobId' = JobId
      BY <1>12 DEF Commit, JobId
    <3> HIDE DEF s
    <3> QED
      BY <1>5, <2>1, <3>1, <3>2
  <2>6. delivery' \in [Delivery -> DeliveryRow]
    <3>1. /\ wk[w].ok => wk[w].remaining = RemainingOf(wk[w].dlv)
          /\ wk[w].remaining \in 0 .. MaxAttempts
      BY <1>12, <2>1 DEF ReadsHold, ReadsHoldOf, InTx, Commit, Goroutine
    <3>2. \A d \in Delivery : delivery[d] \in DeliveryRow /\ d # 0
      <4>1. \A d \in Delivery : d # 0
        BY DEF Delivery
      <4> QED
        BY <4>1 DEF TypeOK
    <3>3. \A d \in Delivery :
              wk[w].ok /\ d = wk[w].dlv => Charge(delivery[d], wk[w]) \in DeliveryRow
      <4>1. ASSUME NEW row \in DeliveryRow, row.remaining = wk[w].remaining
            PROVE  Charge(row, wk[w]) \in DeliveryRow
        <5>1. row.counter + 1 \in Nat /\ row.remaining \in 0 .. MaxAttempts
          BY DEF DeliveryRow
        <5> DEFINE left == IF wk[w].remaining = 0 THEN row.remaining
                           ELSE IF wk[w].result = "success" THEN 0
                           ELSE row.remaining - 1
        <5>2. left \in 0 .. MaxAttempts
          BY <4>1, <5>1
        <5>3. Charge(row, wk[w]) = [row EXCEPT !.counter = @ + 1, !.remaining = left]
          BY DEF Charge
        <5> HIDE DEF left
        <5> QED
          BY <5>1, <5>2, <5>3 DEF DeliveryRow
      <4> QED
        BY <3>1, <3>2, <4>1 DEF RemainingOf
    <3> QED
      BY <1>12, <3>2, <3>3 DEF Commit
  <2>7. endpoint' \in [Endpoint -> {"enabled", "disabled"}]
    BY <1>12 DEF Commit, TypeOK
  <2> QED
    BY <1>12, <2>3, <2>5, <2>6, <2>7 DEF TypeOK, Commit
<1>13. ASSUME NEW p, ProcessDies(p), UNCHANGED crashes \/ Crash(p) PROVE TypeOK'
  <2>1. crashes' \in Nat
    BY <1>13 DEF TypeOK, Crash
  <2>2. UNCHANGED <<delivery, endpoint, posts>>
    BY <1>13 DEF ProcessDies
  <2> QED
    BY <1>4, <1>13, <2>1, <2>2 DEF TypeOK
<1>14. ASSUME NEW j \in DOMAIN jobs, BackoffElapses(j) PROVE TypeOK'
  BY <1>3, <1>14 DEF TypeOK, BackoffElapses
<1>15. ASSUME NEW e \in Endpoint, NEW st \in {"enabled", "disabled"}, UpdateEndpoint(e, st)
       PROVE TypeOK'
  BY <1>15 DEF TypeOK, UpdateEndpoint, JobId
<1>16. CASE UNCHANGED vars
  BY <1>16 DEF TypeOK, vars, JobId
<1>17. ASSUME NEW w \in Worker, LoadFails(w) \/ ReadFails(w) PROVE TypeOK'
  <2>1. WkOK'
    <3>1. PICK s \in Goroutine : /\ s.job = wk[w].job /\ wk' = [wk EXCEPT ![w] = s]
      <4>1. wk[w] \in Goroutine
        BY DEF TypeOK
      <4>2. CASE LoadFails(w)
        <5> DEFINE t == [wk[w] EXCEPT !.pc = "loaded"]
        <5>1. t \in Goroutine /\ t.job = wk[w].job
          BY <4>1 DEF Goroutine
        <5>2. wk' = [wk EXCEPT ![w] = t]
          BY <4>2 DEF LoadFails
        <5> HIDE DEF t
        <5> QED
          BY <5>1, <5>2
      <4>3. CASE ReadFails(w)
        <5> DEFINE t == [wk[w] EXCEPT !.pc = "intx", !.ok = FALSE]
        <5>1. t \in Goroutine /\ t.job = wk[w].job
          BY <4>1 DEF Goroutine
        <5>2. wk' = [wk EXCEPT ![w] = t]
          BY <4>3 DEF ReadFails
        <5> HIDE DEF t
        <5> QED
          BY <5>1, <5>2
      <4> QED
        BY <1>17, <4>2, <4>3
    <3>2. JobId' = JobId /\ wk[w].job \in JobId
      BY <1>17 DEF LoadFails, ReadFails, JobId, At, TypeOK
    <3> QED
      BY <1>5, <3>1, <3>2
  <2> QED
    BY <1>17, <2>1 DEF TypeOK, LoadFails, ReadFails
<1> QED
  BY <1>6, <1>7, <1>8, <1>9, <1>10, <1>11, <1>12, <1>13, <1>14, <1>15, <1>16, <1>17
     DEF Next, Poll, Handle, Time, PanicFatal, Crash

-----------------------------------------------------------------------------
(* The inductive invariant. *)

\* The inductive invariant holds initially, given at least one attempt.
LEMMA InitIInv == MaxAttempts > 0 /\ Init => IInv
<1> SUFFICES ASSUME MaxAttempts > 0, Init PROVE IInv
  OBVIOUS
<1>1. TypeOK
  BY InitTypeOK
<1>2. \A w \in Worker : wk[w] = Idle
  BY DEF Init
<1>3. /\ AttemptId = Delivery /\ JobId = Delivery
      /\ \A d \in Delivery : /\ attempts[d].delivery = d
                             /\ attempts[d].status = "pending"
                             /\ attempts[d].row = "committed"
                             /\ jobs[d].attempt = d
                             /\ jobs[d].target = d
                             /\ delivery[d].counter = 0
                             /\ delivery[d].remaining = MaxAttempts
  BY DEF Init, AttemptId, JobId
<1>4. MaxAttempts \in Nat
  BY ConstantsAssumption
<1>5. JobsHeld
  BY <1>2 DEF JobsHeld, At, Idle, Holding
<1>6. JobsName
  BY <1>3 DEF JobsName
<1>7. OpenRows
  BY <1>2, <1>3 DEF OpenRows, Idle, Holding
<1>8. ReadsHold
  BY <1>2 DEF ReadsHold, ReadsHoldOf, Idle, Holding, InHandler, InTx, At
<1>9. PendingIsOwed /\ OneOpenAttempt /\ AccountBalances
  BY <1>3, <1>4 DEF PendingIsOwed, OneOpenAttempt, AccountBalances, Pending, Visible, AttemptId
<1> QED
  BY <1>1, <1>5, <1>6, <1>7, <1>8, <1>9 DEF IInv

\* What a goroutine has read stays so in a step that leaves it, its job and the
\* rows it has read alone.
LEMMA ReadsKept ==
    ASSUME TypeOK, NEW v \in Worker, ReadsHoldOf(v), wk'[v] = wk[v],
           \A k \in JobId : jobs'[k].attempt = jobs[k].attempt,
           \A a : /\ wk[v].dlv # 0 \/ wk[v].hit # 0
                  /\ a = JobOf(v).attempt /\ Pending(a)
                 => Pending(a)' /\ attempts'[a].delivery = attempts[a].delivery,
           \A a : Visible(a) => Visible(a)',
           \A a : /\ wk[v].pc \in InHandler
                  /\ a = JobOf(v).attempt /\ ~AlreadyMade(a)
                 => ~AlreadyMade(a)',
           wk[v].dlv # 0 =>
               delivery'[wk[v].dlv].remaining = delivery[wk[v].dlv].remaining
    PROVE  ReadsHoldOf(v)'
<1>1. CASE At(v, "idle")
  BY <1>1 DEF ReadsHoldOf, At, InHandler, InTx
<1>2. CASE ~At(v, "idle")
  <2>1. PICK a : a = JobOf(v).attempt
    OBVIOUS
  <2>5. a = (JobOf(v).attempt)'
    BY <1>2, <2>1, Lookups DEF JobOf
  <2>2. (RemainingOf(wk[v].dlv))' = RemainingOf(wk[v].dlv)
    BY DEF RemainingOf
  <2>3. WillRetry(wk[v])' <=> WillRetry(wk[v])
    BY DEF WillRetry, NoMoreAttempts, UintMinusOne
  <2>4. Pending(a) /\ (wk[v].dlv # 0 \/ wk[v].hit # 0) =>
            Pending(a)' /\ attempts'[a].delivery = attempts[a].delivery
    BY <2>1
  <2>6. wk[v].pc \in InHandler /\ ~AlreadyMade(a) => ~AlreadyMade(a)'
    BY <2>1
  <2> QED
    BY <2>1, <2>2, <2>3, <2>4, <2>5, <2>6 DEF ReadsHoldOf, At
<1> QED
  BY <1>1, <1>2

\* A claim: the job was no one else's, and nothing has been read for it yet.
LEMMA ClaimIInv ==
    ASSUME IInv, TypeOK', NEW w \in Worker, NEW j \in JobId, Claim(w, j)
    PROVE  IInv'
<1>1. /\ JobId' = JobId
      /\ jobs[j].state = "queued" /\ jobs'[j].state = "running"
      /\ \A k \in JobId : /\ jobs'[k].attempt = jobs[k].attempt
                          /\ jobs'[k].target = jobs[k].target
                          /\ k # j => jobs'[k] = jobs[k]
  BY Lookups DEF IInv, Claim, JobId, JobRow
<1>2. /\ wk[w] = Idle /\ wk'[w] = Holding(j, "claimed")
      /\ \A v \in Worker : v # w => wk'[v] = wk[v]
  BY DEF IInv, TypeOK, Claim, JobsHeld
<1>3. \A v \in Worker : ~At(v, "idle") => wk[v].job \in JobId /\ wk[v].job # j
  BY <1>1, Lookups DEF IInv, JobsHeld, JobOf
<1>4. JobsHeld'
  <2>1. 0 \notin JobId
    BY Lookups DEF IInv
  <2>2. (JobOf(w).state)' = "running" /\ ~At(w, "idle")' /\ wk'[w].job = j /\ wk[w].job = 0
    BY <1>1, <1>2 DEF JobOf, At, Idle, Holding
  <2>3. ASSUME NEW v \in Worker, v # w
        PROVE  /\ IF At(v, "idle")' THEN wk'[v] = Idle ELSE (JobOf(v).state)' = "running"
               /\ At(v, "idle")' => wk'[v].job = 0
               /\ wk'[v].job # j
    <3>1. wk'[v] = wk[v] /\ (At(v, "idle")' <=> At(v, "idle"))
      BY <1>2, <2>3 DEF At
    <3>2. CASE At(v, "idle")
      BY <2>1, <3>1, <3>2 DEF IInv, JobsHeld, Idle, Holding
    <3>3. CASE ~At(v, "idle")
      <4>1. wk[v].job \in JobId /\ wk[v].job # j /\ jobs[wk[v].job].state = "running"
        BY <1>3, <3>3 DEF IInv, JobsHeld, JobOf
      <4>2. (JobOf(v).state)' = "running"
        <5>1. wk'[v].job = wk[v].job
          BY <3>1
        <5>2. jobs'[wk[v].job] = jobs[wk[v].job]
          BY <1>1, <4>1
        <5> QED
          BY <4>1, <5>1, <5>2 DEF JobOf
      <4> QED
        BY <3>1, <3>3, <4>1, <4>2
    <3> QED
      BY <3>2, <3>3
  <2> QED
    BY <1>2, <2>2, <2>3 DEF IInv, JobsHeld, At
<1>5. JobsName'
  BY <1>1 DEF IInv, Claim, JobsName, AttemptId
<1>6. OpenRows'
  BY <1>2 DEF IInv, Claim, OpenRows, At, Idle, Holding, AttemptId
<1>7. ReadsHold'
  <2>1. ReadsHoldOf(w)'
    BY <1>2 DEF ReadsHoldOf, At, Holding, InHandler, InTx
  <2>2. ASSUME NEW v \in Worker, v # w PROVE ReadsHoldOf(v)'
    <3>1. ReadsHoldOf(v) /\ wk'[v] = wk[v]
      BY <1>2, <2>2 DEF IInv, ReadsHold
    <3>2. \A a : (Pending(a)' <=> Pending(a)) /\ (AlreadyMade(a)' <=> AlreadyMade(a))
                 /\ (Visible(a)' <=> Visible(a))
      BY DEF Claim, Pending, Visible, AlreadyMade
    <3> QED
      BY <1>1, <3>1, <3>2, ReadsKept DEF IInv, Claim
  <2> QED
    BY <2>1, <2>2 DEF ReadsHold
<1>8. (PendingIsOwed /\ OneOpenAttempt /\ AccountBalances)'
  BY DEF IInv, Claim, PendingIsOwed, OneOpenAttempt, AccountBalances, Pending, Visible,
         AttemptId, MadeFor
<1> QED
  BY <1>4, <1>5, <1>6, <1>7, <1>8 DEF IInv

\* A step that only changes the locals of one busy goroutine, and keeps what
\* that goroutine has read.
LEMMA LocalIInv ==
    ASSUME IInv, TypeOK', NEW w \in Worker, NEW s \in Goroutine,
           wk' = [wk EXCEPT ![w] = s], UNCHANGED <<delivery, attempts, jobs>>,
           ~At(w, "idle"), s.pc # "idle", s.job = wk[w].job,
           wk[w].next = 0, s.next = 0, ReadsHoldOf(w)'
    PROVE  IInv'
<1>1. wk'[w] = s /\ \A v \in Worker : v # w => wk'[v] = wk[v]
  BY DEF IInv, TypeOK
<1>2. JobsHeld'
  <2>1. wk'[w].job = wk[w].job /\ ~At(w, "idle")'
    BY <1>1 DEF At
  <2>2. ASSUME NEW v \in Worker
        PROVE  /\ wk'[v].job = wk[v].job
               /\ At(v, "idle")' <=> At(v, "idle")
               /\ (JobOf(v).state)' = JobOf(v).state
               /\ v # w => wk'[v] = wk[v]
    BY <1>1, <2>1 DEF At, JobOf
  <2> QED
    BY <2>1, <2>2 DEF IInv, JobsHeld
<1>3. JobsName'
  BY DEF IInv, JobsName, JobId, AttemptId
<1>4. OpenRows'
  <2>1. \A v \in Worker : wk'[v].next = wk[v].next
    BY <1>1
  <2>2. \A v \in Worker : wk[v].next # 0 => wk'[v] = wk[v]
    BY <1>1
  <2> QED
    BY <2>1, <2>2 DEF IInv, OpenRows, AttemptId, At
<1>5. ReadsHold'
  <2>1. ASSUME NEW v \in Worker, v # w PROVE ReadsHoldOf(v)'
    <3>1. ReadsHoldOf(v) /\ wk'[v] = wk[v]
      BY <1>1, <2>1 DEF IInv, ReadsHold
    <3>2. \A a : (Pending(a)' <=> Pending(a)) /\ (AlreadyMade(a)' <=> AlreadyMade(a))
                 /\ (Visible(a)' <=> Visible(a))
      BY DEF Pending, Visible, AlreadyMade
    <3> QED
      BY <3>1, <3>2, ReadsKept DEF IInv
  <2> QED
    BY <2>1 DEF ReadsHold
<1>6. (PendingIsOwed /\ OneOpenAttempt /\ AccountBalances)'
  BY DEF IInv, PendingIsOwed, OneOpenAttempt, AccountBalances, Pending, Visible,
         AttemptId, MadeFor
<1> QED
  BY <1>2, <1>3, <1>4, <1>5, <1>6 DEF IInv

\* The guard has passed: the attempt is pending, or no row has its id.
LEMMA LoadAttemptIInv ==
    ASSUME IInv, TypeOK', NEW w \in Worker, LoadAttempt(w)
    PROVE  IInv'
<1> DEFINE s == [wk[w] EXCEPT !.pc = "loaded", !.dlv = DeliveryOf(JobOf(w).attempt)]
<1>1. wk[w] \in Goroutine /\ wk'[w] = s /\ wk' = [wk EXCEPT ![w] = s]
  BY DEF IInv, TypeOK, LoadAttempt
<1>2. s \in Goroutine
  BY <1>1 DEF TypeOK
<1>3. /\ s.pc = "loaded" /\ s.job = wk[w].job /\ s.next = wk[w].next /\ s.hit = wk[w].hit
      /\ s.dlv = DeliveryOf(JobOf(w).attempt)
  BY <1>1 DEF Goroutine
<1>4. wk[w].next = 0 /\ wk[w].hit = 0
  BY DEF IInv, OpenRows, ReadsHold, ReadsHoldOf, LoadAttempt, At, InTx
<1>5. ReadsHoldOf(w)'
  <2>1. PICK a : a = JobOf(w).attempt
    OBVIOUS
  <2>2. (JobOf(w).attempt)' = a
    BY <1>1, <1>3, <2>1 DEF LoadAttempt, JobOf
  <2>3. wk'[w].dlv # 0 => Pending(a)' /\ attempts'[a].delivery = wk'[w].dlv
    BY <1>1, <1>3, <2>1 DEF LoadAttempt, DeliveryOf, AlreadyMade, Pending, Visible
  <2>4. ~AlreadyMade(a)'
    BY <2>1 DEF LoadAttempt, AlreadyMade, Visible
  <2> QED
    BY <1>1, <1>3, <1>4, <2>2, <2>3, <2>4 DEF ReadsHoldOf, InHandler, InTx, At
<1> HIDE DEF s
<1> QED
  BY <1>1, <1>2, <1>3, <1>4, <1>5, LocalIInv DEF LoadAttempt, At

\* A load that fails reads nothing: there is nothing that could go stale.
LEMMA LoadFailsIInv ==
    ASSUME IInv, TypeOK', NEW w \in Worker, LoadFails(w)
    PROVE  IInv'
<1> DEFINE s == [wk[w] EXCEPT !.pc = "loaded"]
<1>1. wk[w] \in Goroutine /\ wk'[w] = s /\ wk' = [wk EXCEPT ![w] = s]
  BY DEF IInv, TypeOK, LoadFails
<1>2. s \in Goroutine
  BY <1>1 DEF TypeOK
<1>3. /\ s.pc = "loaded" /\ s.job = wk[w].job /\ s.next = wk[w].next /\ s.hit = wk[w].hit
      /\ s.dlv = wk[w].dlv
  BY <1>1 DEF Goroutine
<1>4. wk[w].next = 0 /\ wk[w].hit = 0 /\ wk[w].dlv = 0
  BY DEF IInv, OpenRows, ReadsHold, ReadsHoldOf, LoadFails, At, InTx, InHandler
<1>5. ReadsHoldOf(w)'
  <2>1. ~Loads'
    BY DEF LoadFails, Loads
  <2> QED
    BY <1>1, <1>3, <1>4, <2>1 DEF ReadsHoldOf, InTx, At
<1> HIDE DEF s
<1> QED
  BY <1>1, <1>2, <1>3, <1>4, <1>5, LocalIInv DEF LoadFails, At

\* The HTTP call changes no table.
LEMMA CallEndpointIInv ==
    ASSUME IInv, TypeOK', NEW w \in Worker, CallEndpoint(w)
    PROVE  IInv'
<1>0. PICK r \in Result : wk' = [wk EXCEPT ![w].pc = "answered", ![w].result = r]
  BY DEF CallEndpoint
<1> DEFINE s == [wk[w] EXCEPT !.pc = "answered", !.result = r]
<1>1. wk[w] \in Goroutine /\ wk'[w] = s /\ wk' = [wk EXCEPT ![w] = s]
  BY <1>0 DEF IInv, TypeOK
<1>2. s \in Goroutine
  BY <1>1 DEF TypeOK
<1>3. /\ s.pc = "answered" /\ s.job = wk[w].job /\ s.next = wk[w].next /\ s.hit = wk[w].hit
      /\ s.dlv = wk[w].dlv
  BY <1>1 DEF Goroutine
<1>4. wk[w].next = 0 /\ wk[w].hit = 0 /\ ReadsHoldOf(w)
  BY DEF IInv, OpenRows, ReadsHold, ReadsHoldOf, CallEndpoint, At, InTx
<1>5. ReadsHoldOf(w)'
  <2>1. PICK a : a = JobOf(w).attempt
    OBVIOUS
  <2>2. (JobOf(w).attempt)' = a
    BY <1>1, <1>3, <2>1 DEF CallEndpoint, JobOf
  <2>3. wk'[w].dlv # 0 => Pending(a)' /\ attempts'[a].delivery = wk'[w].dlv
    BY <1>1, <1>3, <1>4, <2>1 DEF CallEndpoint, ReadsHoldOf, Pending, Visible
  <2>4. Loads => ~AlreadyMade(a)'
    BY <1>4, <2>1 DEF CallEndpoint, AlreadyMade, Visible, ReadsHoldOf, InHandler, At
  <2> QED
    BY <1>1, <1>3, <1>4, <2>2, <2>3, <2>4
       DEF ReadsHoldOf, InHandler, InTx, At, Loads
<1> HIDE DEF s
<1> QED
  BY <1>1, <1>2, <1>3, <1>4, <1>5, LocalIInv DEF CallEndpoint, At

\* The transaction reads the delivery as it is, and holds the attempt it updates.
LEMMA ReadDeliveryIInv ==
    ASSUME IInv, TypeOK', NEW w \in Worker, ReadDelivery(w)
    PROVE  IInv'
<1>0. PICK ok \in BOOLEAN : wk' = [wk EXCEPT ![w].pc = "intx",
              ![w].remaining = RemainingOf(wk[w].dlv),
              ![w].hit = RowOf(JobOf(w).attempt), ![w].ok = ok]
  BY DEF ReadDelivery
<1> DEFINE s == [wk[w] EXCEPT !.pc = "intx", !.remaining = RemainingOf(wk[w].dlv),
                        !.hit = RowOf(JobOf(w).attempt), !.ok = ok]
<1>1. wk[w] \in Goroutine /\ wk'[w] = s /\ wk' = [wk EXCEPT ![w] = s]
  BY <1>0 DEF IInv, TypeOK
<1>2. s \in Goroutine
  BY <1>1 DEF TypeOK
<1>3. /\ s.pc = "intx" /\ s.job = wk[w].job /\ s.next = wk[w].next /\ s.dlv = wk[w].dlv
      /\ s.hit = RowOf(JobOf(w).attempt) /\ s.remaining = RemainingOf(wk[w].dlv)
  BY <1>1 DEF Goroutine
<1>4. wk[w].next = 0 /\ ReadsHoldOf(w) /\ ~At(w, "idle")
  BY DEF IInv, OpenRows, ReadsHold, ReadDelivery, At
<1>5. ReadsHoldOf(w)'
  <2>1. PICK a : a = JobOf(w).attempt
    OBVIOUS
  <2>2. (JobOf(w).attempt)' = a
    BY <1>1, <1>3, <2>1 DEF ReadDelivery, JobOf
  <2>3. wk'[w].dlv # 0 => Pending(a)' /\ attempts'[a].delivery = wk'[w].dlv
    BY <1>1, <1>3, <1>4, <2>1 DEF ReadDelivery, ReadsHoldOf, Pending, Visible
  <2>4. wk'[w].hit # 0 => wk'[w].hit = a /\ Visible(a)'
    BY <1>1, <1>3, <2>1 DEF ReadDelivery, RowOf, Visible
  <2>5. Loads => ~AlreadyMade(a)' /\ (Visible(a)' => Pending(a)')
    <3>1. attempts' = attempts /\ wk[w].pc \in InHandler
      BY DEF ReadDelivery, InHandler, At
    <3>2. Loads => ~AlreadyMade(a)
      BY <1>4, <2>1, <3>1 DEF ReadsHoldOf
    <3> QED
      BY <3>1, <3>2 DEF AlreadyMade, Pending, Visible
  <2>6. (RemainingOf(wk[w].dlv))' = wk'[w].remaining
    BY <1>1, <1>3 DEF ReadDelivery, RemainingOf
  <2>7. wk'[w].dlv # 0 => wk'[w].hit = a
    BY <1>1, <1>3, <1>4, <2>1 DEF ReadsHoldOf, RowOf, Pending
  <2> QED
    BY <1>1, <1>3, <1>4, <2>2, <2>3, <2>4, <2>5, <2>6, <2>7
       DEF ReadsHoldOf, InHandler, InTx, At, Loads
<1> HIDE DEF s
<1> QED
  BY <1>1, <1>2, <1>3, <1>4, <1>5, LocalIInv DEF ReadDelivery

\* A read of the delivery that fails aborts the transaction: it will write nothing.
LEMMA ReadFailsIInv ==
    ASSUME IInv, TypeOK', NEW w \in Worker, ReadFails(w)
    PROVE  IInv'
<1> DEFINE s == [wk[w] EXCEPT !.pc = "intx", !.ok = FALSE]
<1>1. wk[w] \in Goroutine /\ wk'[w] = s /\ wk' = [wk EXCEPT ![w] = s]
  BY DEF IInv, TypeOK, ReadFails
<1>2. s \in Goroutine
  BY <1>1 DEF TypeOK
<1>3. /\ s.pc = "intx" /\ s.job = wk[w].job /\ s.next = wk[w].next /\ s.hit = wk[w].hit
      /\ s.dlv = wk[w].dlv /\ s.ok = FALSE
  BY <1>1 DEF Goroutine
<1>4. wk[w].next = 0 /\ wk[w].hit = 0 /\ ReadsHoldOf(w) /\ wk[w].pc = "answered"
  BY DEF IInv, OpenRows, ReadsHold, ReadsHoldOf, ReadFails, At, InTx
<1>5. ReadsHoldOf(w)'
  <2>1. PICK a : a = JobOf(w).attempt
    OBVIOUS
  <2>2. (JobOf(w).attempt)' = a
    BY <1>1, <1>3, <2>1 DEF ReadFails, JobOf
  <2>3. wk'[w].dlv # 0 => Pending(a)' /\ attempts'[a].delivery = wk'[w].dlv
    BY <1>1, <1>3, <1>4, <2>1 DEF ReadFails, ReadsHoldOf, Pending, Visible
  <2>4. Loads => ~AlreadyMade(a)'
    BY <1>4, <2>1 DEF ReadFails, AlreadyMade, Visible, ReadsHoldOf, InHandler
  <2>5. wk'[w].pc = "intx" /\ wk'[w].hit = 0 /\ wk'[w].ok = FALSE
    BY <1>1, <1>3, <1>4
  <2> HIDE DEF s
  <2> QED
    BY <2>2, <2>3, <2>4, <2>5 DEF ReadsHoldOf, InHandler, InTx, At, Loads
<1>6. ~At(w, "idle") /\ UNCHANGED <<delivery, attempts, jobs>>
  BY DEF ReadFails, At
<1> HIDE DEF s
<1> QED
  BY <1>1, <1>2, <1>3, <1>4, <1>5, <1>6, LocalIInv

\* A job ends: no goroutine holds it any more.
LEMMA EndOfJobIInv ==
    ASSUME IInv, TypeOK', NEW w \in Worker, PanicRecovered(w) \/ Finish(w)
    PROVE  IInv'
<1>1. /\ ~At(w, "idle") /\ wk[w].pc \notin InHandler /\ wk[w].job \in JobId
      /\ UNCHANGED <<delivery, attempts>>
  BY Lookups DEF IInv, PanicRecovered, Finish, At, InHandler
<1>2. /\ JobId' = JobId
      /\ \A k \in JobId : /\ jobs'[k].attempt = jobs[k].attempt
                          /\ jobs'[k].target = jobs[k].target
                          /\ k # wk[w].job => jobs'[k] = jobs[k]
  <2>1. \A k \in JobId : jobs[k] \in JobRow
    BY Lookups DEF IInv
  <2>2. jobs' = [jobs EXCEPT ![wk[w].job].state = "done"]
    BY DEF PanicRecovered, Finish, Ends
  <2> QED
    BY <1>1, <2>1, <2>2 DEF JobId, JobRow
<1>3. wk'[w] = Idle /\ \A v \in Worker : v # w => wk'[v] = wk[v]
  BY DEF IInv, TypeOK, PanicRecovered, Finish
<1>4. wk[w].next = 0
  BY <1>1 DEF IInv, OpenRows, At, InHandler
<1>5. JobsHeld'
  <2>1. 0 \notin JobId
    BY Lookups DEF IInv
  <2>2. At(w, "idle")' /\ wk'[w] = Idle /\ wk'[w].job = 0
    BY <1>3 DEF At, Idle, Holding
  <2>3. ASSUME NEW v \in Worker, v # w, ~At(v, "idle")
        PROVE  /\ (JobOf(v).state)' = "running"
               /\ wk'[v].job \in JobId
    <3>1. wk[v].job \in JobId /\ wk[v].job # wk[w].job /\ JobOf(v).state = "running"
      BY <1>1, <2>3, Lookups DEF IInv, JobsHeld
    <3> QED
      BY <1>2, <1>3, <2>3, <3>1 DEF JobOf
  <2>4. \A v \in Worker : v # w => wk'[v] = wk[v] /\ (At(v, "idle")' <=> At(v, "idle"))
    BY <1>3 DEF At
  <2> QED
    BY <2>1, <2>2, <2>3, <2>4 DEF IInv, JobsHeld
<1>6. JobsName'
  BY <1>1, <1>2 DEF IInv, JobsName, AttemptId
<1>7. OpenRows'
  <2>1. \A v \in Worker : wk'[v].next = wk[v].next
    BY <1>3, <1>4 DEF Idle, Holding
  <2>2. \A v \in Worker : wk[v].next # 0 => wk'[v] = wk[v]
    BY <1>3, <1>4
  <2> QED
    BY <1>1, <2>1, <2>2 DEF IInv, OpenRows, AttemptId, At
<1>8. ReadsHold'
  <2>1. ReadsHoldOf(w)'
    BY <1>3 DEF ReadsHoldOf, At, Idle, Holding, InHandler, InTx
  <2>2. ASSUME NEW v \in Worker, v # w PROVE ReadsHoldOf(v)'
    <3>1. ReadsHoldOf(v) /\ wk'[v] = wk[v]
      BY <1>3, <2>2 DEF IInv, ReadsHold
    <3>2. \A a : (Pending(a)' <=> Pending(a)) /\ (AlreadyMade(a)' <=> AlreadyMade(a))
                 /\ (Visible(a)' <=> Visible(a))
      BY <1>1 DEF Pending, Visible, AlreadyMade
    <3> QED
      BY <1>1, <1>2, <3>1, <3>2, ReadsKept DEF IInv
  <2> QED
    BY <2>1, <2>2 DEF ReadsHold
<1>9. (PendingIsOwed /\ OneOpenAttempt /\ AccountBalances)'
  BY <1>1 DEF IInv, PendingIsOwed, OneOpenAttempt, AccountBalances, Pending, Visible,
         AttemptId, MadeFor
<1> QED
  BY <1>5, <1>6, <1>7, <1>8, <1>9 DEF IInv

\* A job that becomes runnable was held by no one.
LEMMA BackoffElapsesIInv ==
    ASSUME IInv, TypeOK', NEW j \in JobId, BackoffElapses(j)
    PROVE  IInv'
<1>1. UNCHANGED <<delivery, attempts, wk>> /\ jobs[j].state = "waiting"
  BY DEF BackoffElapses
<1>2. /\ JobId' = JobId
      /\ \A k \in JobId : /\ jobs'[k].attempt = jobs[k].attempt
                          /\ jobs'[k].target = jobs[k].target
                          /\ k # j => jobs'[k] = jobs[k]
  BY DEF BackoffElapses, JobId
<1>3. JobsHeld'
  <2>1. ASSUME NEW v \in Worker, ~At(v, "idle")
        PROVE  (JobOf(v).state)' = "running"
    <3>1. wk[v].job \in JobId /\ wk[v].job # j /\ JobOf(v).state = "running"
      BY <1>1, <2>1, Lookups DEF IInv, JobsHeld, JobOf
    <3> QED
      BY <1>1, <1>2, <3>1 DEF JobOf
  <2> QED
    BY <1>1, <2>1 DEF IInv, JobsHeld, At
<1>4. JobsName'
  BY <1>1, <1>2 DEF IInv, JobsName, AttemptId
<1>5. OpenRows'
  BY <1>1 DEF IInv, OpenRows, AttemptId, At
<1>6. ReadsHold'
  <2>1. \A a : (Pending(a)' <=> Pending(a)) /\ (AlreadyMade(a)' <=> AlreadyMade(a))
               /\ (Visible(a)' <=> Visible(a))
    BY <1>1 DEF Pending, Visible, AlreadyMade
  <2>2. ASSUME NEW v \in Worker PROVE ReadsHoldOf(v)'
    <3>1. ReadsHoldOf(v) /\ wk'[v] = wk[v]
      BY <1>1 DEF IInv, ReadsHold
    <3> QED
      BY <1>1, <1>2, <2>1, <3>1, ReadsKept DEF IInv
  <2> QED
    BY <2>2 DEF ReadsHold
<1>7. (PendingIsOwed /\ OneOpenAttempt /\ AccountBalances)'
  BY <1>1 DEF IInv, PendingIsOwed, OneOpenAttempt, AccountBalances, Pending, Visible,
         AttemptId, MadeFor
<1> QED
  BY <1>3, <1>4, <1>5, <1>6, <1>7 DEF IInv

\* Steps that touch none of the tables and goroutines.
LEMMA AsideIInv ==
    ASSUME IInv, TypeOK', UNCHANGED <<delivery, attempts, jobs, wk>>
    PROVE  IInv'
<1>1. (JobsHeld /\ JobsName /\ OpenRows)'
  BY DEF IInv, JobsHeld, JobsName, OpenRows, JobId, AttemptId, JobOf, At
<1>2. ASSUME NEW v \in Worker PROVE ReadsHoldOf(v)'
  <2>1. ReadsHoldOf(v)
    BY DEF IInv, ReadsHold
  <2>2. \A a : (Pending(a)' <=> Pending(a)) /\ (AlreadyMade(a)' <=> AlreadyMade(a))
               /\ (Visible(a)' <=> Visible(a))
    BY DEF Pending, Visible, AlreadyMade
  <2> QED
    BY <2>1, <2>2, ReadsKept DEF IInv
<1>3. (PendingIsOwed /\ OneOpenAttempt /\ AccountBalances)'
  BY DEF IInv, PendingIsOwed, OneOpenAttempt, AccountBalances, Pending, Visible,
         AttemptId, MadeFor
<1> QED
  BY <1>1, <1>2, <1>3 DEF IInv, ReadsHold

\* The death of a process releases its jobs and voids its uncommitted rows.
LEMMA ProcessDiesIInv ==
    ASSUME IInv, TypeOK', NEW p, ProcessDies(p)
    PROVE  IInv'
<1> DEFINE Dead(v) == ProcessOf[v] = p
<1>1. /\ UNCHANGED delivery
      /\ \A v \in Worker : wk'[v] = IF Dead(v) THEN Idle ELSE wk[v]
  BY DEF ProcessDies
<1>2. /\ JobId' = JobId
      /\ \A k \in JobId : /\ jobs'[k].attempt = jobs[k].attempt
                          /\ jobs'[k].target = jobs[k].target
                          /\ (\A v \in Worker : Dead(v) => wk[v].job # k) => jobs'[k] = jobs[k]
  BY Lookups DEF IInv, ProcessDies, JobId, JobRow
<1>3. /\ AttemptId' = AttemptId
      /\ \A a \in AttemptId :
            /\ attempts'[a].delivery = attempts[a].delivery
            /\ attempts'[a].status = attempts[a].status
            /\ \/ attempts'[a] = attempts[a] /\ \A v \in Worker : Dead(v) => wk[v].next # a
               \/ /\ attempts'[a].row = "void"
                  /\ \E v \in Worker : Dead(v) /\ wk[v].next = a
  BY Lookups DEF IInv, ProcessDies, AttemptId, AttemptRow
<1>4. 0 \notin JobId /\ 0 \notin AttemptId
  BY Lookups DEF IInv
<1>5. \A a \in AttemptId : \/ attempts'[a].row = attempts[a].row
                           \/ attempts[a].row = "open" /\ attempts'[a].row = "void"
  BY <1>3, <1>4 DEF IInv, OpenRows
<1>6. \A a : /\ (Pending(a)' <=> Pending(a)) /\ (AlreadyMade(a)' <=> AlreadyMade(a))
             /\ (Visible(a)' <=> Visible(a))
  BY <1>3, <1>5 DEF Pending, Visible, AlreadyMade, AttemptId
<1>7. JobsHeld'
  <2>1. ASSUME NEW v \in Worker, Dead(v)
        PROVE  wk'[v] = Idle /\ At(v, "idle")' /\ wk'[v].job = 0
    BY <1>1, <2>1 DEF At, Idle, Holding
  <2>2. ASSUME NEW v \in Worker, ~Dead(v)
        PROVE  wk'[v] = wk[v] /\ (At(v, "idle")' <=> At(v, "idle"))
    BY <1>1, <2>2 DEF At
  <2>3. ASSUME NEW v \in Worker, ~Dead(v), ~At(v, "idle")
        PROVE  wk[v].job \in JobId /\ (JobOf(v).state)' = "running"
    <3>1. wk[v].job \in JobId /\ JobOf(v).state = "running"
      BY <2>3, Lookups DEF IInv, JobsHeld
    <3>2. \A u \in Worker : Dead(u) => wk[u].job # wk[v].job
      BY <2>3 DEF IInv, JobsHeld
    <3> QED
      BY <1>2, <2>2, <2>3, <3>1, <3>2 DEF JobOf
  <2> HIDE DEF Dead
  <2> QED
    BY <1>4, <2>1, <2>2, <2>3 DEF IInv, JobsHeld
<1>8. JobsName'
  BY <1>2, <1>3 DEF IInv, JobsName
<1>9. OpenRows'
  <2>1. \A a \in AttemptId : attempts'[a].row # "committed" => attempts'[a].status = "pending"
    BY <1>3, <1>5 DEF IInv, OpenRows
  <2>2. ASSUME NEW a \in AttemptId, attempts'[a].row = "open"
        PROVE  \E v \in Worker : wk'[v].next = a
    <3>1. PICK v \in Worker : wk[v].next = a
      BY <1>5, <2>2 DEF IInv, OpenRows
    <3>2. ~Dead(v)
      BY <1>3, <2>2, <3>1
    <3> QED
      BY <1>1, <3>1, <3>2
  <2>3. ASSUME NEW v \in Worker, wk'[v].next # 0
        PROVE  ~Dead(v) /\ wk'[v] = wk[v]
    BY <1>1, <2>3 DEF Idle, Holding
  <2>4. ASSUME NEW v \in Worker, wk'[v].next # 0
        PROVE  /\ At(v, "rescheduled")'
               /\ wk'[v].next \in AttemptId
               /\ attempts'[wk'[v].next].row = "open"
               /\ attempts'[wk'[v].next].delivery = wk'[v].dlv
    <3>1. /\ wk'[v] = wk[v] /\ ~Dead(v) /\ At(v, "rescheduled")
          /\ wk[v].next \in AttemptId /\ attempts[wk[v].next].row = "open"
          /\ attempts[wk[v].next].delivery = wk[v].dlv
      BY <2>3, <2>4 DEF IInv, OpenRows
    <3>2. \A u \in Worker : Dead(u) => wk[u].next # wk[v].next
      BY <2>4, <3>1 DEF IInv, OpenRows
    <3> QED
      BY <1>3, <3>1, <3>2 DEF At
  <2>5. \A u, v \in Worker : wk'[u].next = wk'[v].next /\ wk'[u].next # 0 => u = v
    BY <2>3 DEF IInv, OpenRows
  <2> QED
    BY <1>3, <2>1, <2>2, <2>4, <2>5 DEF OpenRows
<1>10. ReadsHold'
  <2>1. ASSUME NEW v \in Worker, Dead(v) PROVE ReadsHoldOf(v)'
    <3>1. wk'[v] = Idle
      BY <1>1, <2>1
    <3> QED
      BY <3>1 DEF ReadsHoldOf, At, Idle, Holding, InHandler, InTx
  <2>2. ASSUME NEW v \in Worker, ~Dead(v) PROVE ReadsHoldOf(v)'
    <3>1. ReadsHoldOf(v) /\ wk'[v] = wk[v]
      BY <1>1, <2>2 DEF IInv, ReadsHold
    <3>2. \A a : /\ Pending(a) => Pending(a)' /\ attempts'[a].delivery = attempts[a].delivery
                 /\ Visible(a) => Visible(a)'
      BY <1>3, <1>6 DEF Pending, Visible, AttemptId
    <3> QED
      BY <1>1, <1>2, <1>6, <3>1, <3>2, ReadsKept DEF IInv
  <2> QED
    BY <2>1, <2>2 DEF ReadsHold
<1>11. (PendingIsOwed /\ OneOpenAttempt)'
  BY <1>1, <1>3, <1>6 DEF IInv, PendingIsOwed, OneOpenAttempt
<1>12. AccountBalances'
  <2>1. \A d \in Delivery : MadeFor(d) \subseteq MadeFor(d)'
    BY <1>3, <1>6 DEF MadeFor, AlreadyMade
  <2> QED
    BY <1>1, <1>3, <2>1 DEF IInv, AccountBalances, MadeFor
<1> QED
  BY <1>7, <1>8, <1>9, <1>10, <1>11, <1>12 DEF IInv

\* What Reschedule does: n is the id of the new attempt, 0 if none was inserted.
Rescheduled(w, n) ==
    /\ n \notin AttemptId
    /\ \/ n = 0 /\ AttemptId' = AttemptId
       \/ n # 0 /\ AttemptId' = AttemptId \cup {n}
    /\ \A a \in AttemptId : attempts'[a] = attempts[a]
    /\ n # 0 => /\ n \in AttemptId'
                /\ attempts'[n] = [delivery |-> wk[w].dlv, status |-> "pending", row |-> "open"]
                /\ wk[w].dlv # 0 /\ wk[w].ok
    /\ JobId \subseteq JobId'
    /\ \A k \in JobId : jobs'[k] = jobs[k]
    /\ \A k \in JobId' : k \notin JobId => /\ jobs'[k].attempt = n
                                           /\ jobs'[k].target = JobOf(w).target
                                           /\ jobs'[k].state = "waiting"
                                           /\ jobs'[k].counter = NextCounter(JobOf(w).counter)
    /\ \A k, l \in JobId' : k \notin JobId /\ l \notin JobId => k = l
    /\ \A v \in Worker : v # w => wk'[v] = wk[v]
    /\ wk'[w].pc = "rescheduled" /\ wk'[w].next = n /\ wk'[w].ok = (wk[w].ok /\ wk[w].dlv # 0)
    /\ wk'[w].job = wk[w].job /\ wk'[w].dlv = wk[w].dlv /\ wk'[w].hit = wk[w].hit
    /\ wk'[w].result = wk[w].result /\ wk'[w].remaining = wk[w].remaining
    /\ n # 0 <=> (wk[w].ok /\ wk[w].dlv # 0)
    /\ "enqueue" \in Fault \/ \E k \in JobId' : k \notin JobId

\* What the enqueue of a retry changes, by components.
LEMMA RescheduleEffect ==
    ASSUME IInv, NEW w \in Worker, Reschedule(w)
    PROVE  \E n : Rescheduled(w, n)
<1>1. /\ ~At(w, "idle") /\ wk[w].job \in JobId /\ JobOf(w) \in JobRow /\ wk[w].pc = "intx"
      /\ wk[w] \in Goroutine /\ wk[w].next = 0
  BY Lookups DEF IInv, Reschedule, At, OpenRows
<1>2. PICK n : /\ n = IF wk[w].ok /\ wk[w].dlv # 0 THEN Len(attempts) + 1 ELSE 0
  OBVIOUS
<1>3. /\ n \notin AttemptId
      /\ \/ n = 0 /\ AttemptId' = AttemptId
         \/ n # 0 /\ AttemptId' = AttemptId \cup {n}
      /\ \A a \in AttemptId : attempts'[a] = attempts[a]
      /\ n # 0 => /\ n \in AttemptId'
                  /\ attempts'[n] = [delivery |-> wk[w].dlv, status |-> "pending", row |-> "open"]
                  /\ wk[w].dlv # 0 /\ wk[w].ok
  <2>1. CASE wk[w].ok /\ wk[w].dlv # 0
    <3> DEFINE row == [delivery |-> wk[w].dlv, status |-> "pending", row |-> "open"]
    <3>1. attempts' = Append(attempts, row) /\ n = Len(attempts) + 1
      BY <1>2, <2>1 DEF Reschedule
    <3>2. row \in AttemptRow
      BY <1>1, <2>1 DEF AttemptRow, Goroutine
    <3>3. attempts \in Seq(AttemptRow)
      BY DEF IInv, TypeOK
    <3> HIDE DEF row
    <3>4. /\ n \notin DOMAIN attempts
          /\ DOMAIN attempts' = DOMAIN attempts \cup {n}
          /\ attempts'[n] = row
          /\ \A a \in DOMAIN attempts : attempts'[a] = attempts[a]
      BY <3>1, <3>2, <3>3, RowInserted
    <3>5. n # 0
      BY <3>1, Lookups DEF IInv
    <3> QED
      BY <2>1, <3>4, <3>5 DEF AttemptId, row
  <2>2. CASE ~(wk[w].ok /\ wk[w].dlv # 0)
    BY <1>2, <2>2, Lookups DEF IInv, Reschedule, AttemptId
  <2> QED
    BY <2>1, <2>2
<1>4. /\ JobId \subseteq JobId'
      /\ \A k \in JobId : jobs'[k] = jobs[k]
      /\ \A k \in JobId' : k \notin JobId => /\ jobs'[k].attempt = n
                                           /\ jobs'[k].target = JobOf(w).target
                                           /\ jobs'[k].state = "waiting"
                                           /\ jobs'[k].counter = NextCounter(JobOf(w).counter)
      /\ \A k, l \in JobId' : k \notin JobId /\ l \notin JobId => k = l
  <2>1. jobs' = jobs \/ jobs' = Append(jobs, NextJob(w, n))
    BY <1>2 DEF Reschedule
  <2>2. n \in Nat /\ NextJob(w, n) \in JobRow
    <3>1. n \in Nat
      BY <1>2, Lookups DEF IInv
    <3> QED
      BY <1>1, <3>1 DEF NextJob, NextCounter, JobRow
  <2>3. jobs \in Seq(JobRow)
    BY DEF IInv, TypeOK
  <2>4. CASE jobs' = Append(jobs, NextJob(w, n))
    <3>1. /\ DOMAIN jobs' = DOMAIN jobs \cup {Len(jobs) + 1}
          /\ jobs'[Len(jobs) + 1] = NextJob(w, n)
          /\ \A k \in DOMAIN jobs : jobs'[k] = jobs[k]
      BY <2>2, <2>3, <2>4, RowInserted
    <3> QED
      BY <3>1 DEF JobId, NextJob
  <2> QED
    BY <2>1, <2>4 DEF JobId
<1>5. /\ \A v \in Worker : v # w => wk'[v] = wk[v]
      /\ wk'[w].pc = "rescheduled" /\ wk'[w].next = n /\ wk'[w].ok = (wk[w].ok /\ wk[w].dlv # 0)
      /\ wk'[w].job = wk[w].job /\ wk'[w].dlv = wk[w].dlv /\ wk'[w].hit = wk[w].hit
      /\ wk'[w].result = wk[w].result /\ wk'[w].remaining = wk[w].remaining
  BY <1>1, <1>2 DEF IInv, TypeOK, Reschedule, Goroutine
<1>6. n # 0 <=> (wk[w].ok /\ wk[w].dlv # 0)
  <2>1. Len(attempts) + 1 # 0
    BY Lookups DEF IInv
  <2> QED
    BY <1>2, <2>1
<1>7. "enqueue" \in Fault \/ \E k \in JobId' : k \notin JobId
  <2>1. SUFFICES ASSUME "enqueue" \notin Fault PROVE \E k \in JobId' : k \notin JobId
    OBVIOUS
  <2>2. n \in Nat
    BY <1>2, Lookups DEF IInv
  <2>3. jobs' = Append(jobs, NextJob(w, n)) /\ NextJob(w, n) \in JobRow /\ jobs \in Seq(JobRow)
    BY <1>1, <1>2, <2>1, <2>2 DEF Reschedule, IInv, TypeOK, NextJob, NextCounter, JobRow
  <2> QED
    BY <2>3, RowInserted DEF JobId
<1> QED
  BY <1>3, <1>4, <1>5, <1>6, <1>7 DEF Rescheduled

\* The inserted attempt is invisible until the commit, and its job the only one to name it.
LEMMA RescheduleIInv ==
    ASSUME IInv, TypeOK', NEW w \in Worker, Reschedule(w)
    PROVE  IInv'
<1>1. /\ ~At(w, "idle") /\ wk[w].job \in JobId /\ JobOf(w) \in JobRow /\ wk[w].pc = "intx"
      /\ wk[w] \in Goroutine /\ wk[w].next = 0
  BY Lookups DEF IInv, Reschedule, At, OpenRows
<1>2. PICK n : Rescheduled(w, n)
  BY RescheduleEffect
<1>3. /\ n \notin AttemptId
      /\ \/ n = 0 /\ AttemptId' = AttemptId
         \/ n # 0 /\ AttemptId' = AttemptId \cup {n}
      /\ \A a \in AttemptId : attempts'[a] = attempts[a]
      /\ n # 0 => /\ n \in AttemptId'
                  /\ attempts'[n] = [delivery |-> wk[w].dlv, status |-> "pending", row |-> "open"]
                  /\ wk[w].dlv # 0 /\ wk[w].ok
  BY <1>2 DEF Rescheduled
<1>4. /\ JobId \subseteq JobId'
      /\ \A k \in JobId : jobs'[k] = jobs[k]
      /\ \A k \in JobId' : k \notin JobId => /\ jobs'[k].attempt = n
                                           /\ jobs'[k].target = JobOf(w).target
                                           /\ jobs'[k].state = "waiting"
      /\ \A k, l \in JobId' : k \notin JobId /\ l \notin JobId => k = l
  BY <1>2 DEF Rescheduled
<1>5. /\ \A v \in Worker : v # w => wk'[v] = wk[v]
      /\ wk'[w].pc = "rescheduled" /\ wk'[w].next = n /\ wk'[w].ok = (wk[w].ok /\ wk[w].dlv # 0)
      /\ wk'[w].job = wk[w].job /\ wk'[w].dlv = wk[w].dlv /\ wk'[w].hit = wk[w].hit
      /\ wk'[w].result = wk[w].result /\ wk'[w].remaining = wk[w].remaining
  BY <1>2 DEF Rescheduled
<1>6. UNCHANGED delivery /\ WillRetry(wk[w])
  BY DEF Reschedule
<1>7. \A a : (Pending(a)' <=> Pending(a)) /\ (AlreadyMade(a)' <=> AlreadyMade(a))
  BY <1>3 DEF Pending, Visible, AlreadyMade, AttemptId
<1>8. 0 \notin AttemptId /\ 0 \notin AttemptId' /\ 0 \notin JobId
  BY <1>3, Lookups DEF IInv
<1>9. wk[w].dlv # 0 => JobOf(w).attempt \in AttemptId /\ wk[w].dlv = JobOf(w).target
  BY <1>1, <1>8 DEF IInv, ReadsHold, ReadsHoldOf, Pending, Visible, AttemptId, JobsName, JobOf
<1>10. JobsHeld'
  <2>1. ASSUME NEW v \in Worker
        PROVE  wk'[v].job = wk[v].job /\ (At(v, "idle")' <=> At(v, "idle"))
    BY <1>1, <1>5 DEF At
  <2>2. ASSUME NEW v \in Worker, ~At(v, "idle")
        PROVE  (JobOf(v).state)' = "running"
    <3>1. wk[v].job \in JobId /\ JobOf(v).state = "running"
      BY <2>2, Lookups DEF IInv, JobsHeld
    <3> QED
      BY <1>4, <2>1, <3>1 DEF JobOf
  <2>3. ASSUME NEW v \in Worker, At(v, "idle")
        PROVE  wk'[v] = Idle
    BY <1>1, <1>5, <2>3 DEF IInv, JobsHeld
  <2> QED
    BY <2>1, <2>2, <2>3 DEF IInv, JobsHeld
<1>11. JobsName'
  <2>1. ASSUME NEW k \in JobId', jobs'[k].attempt # 0
        PROVE  /\ jobs'[k].attempt \in AttemptId'
               /\ attempts'[jobs'[k].attempt].delivery = jobs'[k].target
    <3>1. CASE k \in JobId
      BY <1>3, <1>4, <2>1, <3>1 DEF IInv, JobsName
    <3>2. CASE k \notin JobId
      BY <1>3, <1>4, <1>9, <2>1, <3>2
    <3> QED
      BY <3>1, <3>2
  <2>2. ASSUME NEW k \in JobId', NEW l \in JobId',
               jobs'[k].attempt = jobs'[l].attempt, jobs'[k].attempt # 0
        PROVE  k = l
    <3>1. CASE k \in JobId /\ l \in JobId
      BY <1>4, <2>2, <3>1 DEF IInv, JobsName
    <3>2. CASE k \notin JobId /\ l \notin JobId
      BY <1>4, <3>2
    <3>3. CASE k \in JobId /\ l \notin JobId
      BY <1>3, <1>4, <2>2, <3>3 DEF IInv, JobsName
    <3>4. CASE k \notin JobId /\ l \in JobId
      BY <1>3, <1>4, <2>2, <3>4 DEF IInv, JobsName
    <3> QED
      BY <3>1, <3>2, <3>3, <3>4
  <2> QED
    BY <2>1, <2>2 DEF JobsName
<1>12. OpenRows'
  <2>1. \A v \in Worker : wk[v].next # 0 => v # w /\ wk'[v] = wk[v]
    BY <1>1, <1>5
  <2>2. \A v \in Worker : wk'[v].next # 0 => v = w \/ wk'[v] = wk[v]
    BY <1>5
  <2>3. \A a \in AttemptId' : a \in AttemptId \/ (a = n /\ n # 0)
    BY <1>3
  <2>4. \A a \in AttemptId' : attempts'[a].row # "committed" => attempts'[a].status = "pending"
    BY <1>3, <2>3 DEF IInv, OpenRows
  <2>5. ASSUME NEW a \in AttemptId', attempts'[a].row = "open"
        PROVE  \E v \in Worker : wk'[v].next = a
    <3>1. CASE a \in AttemptId
      <4>1. PICK v \in Worker : wk[v].next = a
        BY <1>3, <2>5, <3>1 DEF IInv, OpenRows
      <4> QED
        BY <1>8, <2>1, <3>1, <4>1
    <3>2. CASE a = n
      BY <1>5, <3>2
    <3> QED
      BY <2>3, <3>1, <3>2
  <2>6. ASSUME NEW v \in Worker, wk'[v].next # 0
        PROVE  /\ At(v, "rescheduled")'
               /\ wk'[v].next \in AttemptId'
               /\ attempts'[wk'[v].next].row = "open"
               /\ attempts'[wk'[v].next].delivery = wk'[v].dlv
    <3>1. CASE v = w
      BY <1>3, <1>5, <2>6, <3>1 DEF At
    <3>2. CASE wk'[v] = wk[v]
      <4>1. /\ At(v, "rescheduled") /\ wk[v].next \in AttemptId
            /\ attempts[wk[v].next].row = "open" /\ attempts[wk[v].next].delivery = wk[v].dlv
        BY <2>6, <3>2 DEF IInv, OpenRows
      <4> QED
        BY <1>3, <3>2, <4>1 DEF At
    <3> QED
      BY <2>2, <2>6, <3>1, <3>2
  <2>7. \A v \in Worker : v # w /\ wk'[v].next # 0 => wk'[v].next \in AttemptId
    BY <2>2 DEF IInv, OpenRows
  <2>8. \A u, v \in Worker : wk'[u].next = wk'[v].next /\ wk'[u].next # 0 => u = v
    BY <1>3, <1>5, <2>2, <2>7 DEF IInv, OpenRows
  <2> QED
    BY <2>4, <2>5, <2>6, <2>8 DEF OpenRows
<1>13. ReadsHold'
  <2>1. ReadsHoldOf(w)'
    <3>1. ReadsHoldOf(w)
      BY DEF IInv, ReadsHold
    <3>2. PICK a : a = JobOf(w).attempt
      OBVIOUS
    <3>3. (JobOf(w).attempt)' = a
      BY <1>1, <1>4, <1>5, <3>2 DEF JobOf
    <3>4. wk[w].dlv # 0 => Pending(a) /\ attempts'[a].delivery = wk[w].dlv
      BY <1>3, <1>9, <3>1, <3>2 DEF ReadsHoldOf
    <3>5. (WillRetry(wk[w]))'
      BY <1>5, <1>6 DEF WillRetry, NoMoreAttempts, UintMinusOne
    <3>6. (RemainingOf(wk[w].dlv))' = RemainingOf(wk[w].dlv)
      BY <1>5, <1>6 DEF RemainingOf
    <3>7. /\ Loads => ~AlreadyMade(a)
          /\ wk[w].hit # 0 => wk[w].hit = a /\ Visible(a) /\ (Loads => Pending(a))
          /\ wk[w].ok => /\ wk[w].remaining = RemainingOf(wk[w].dlv)
                         /\ wk[w].dlv # 0 => wk[w].hit = a
      BY <1>1, <3>1, <3>2 DEF ReadsHoldOf, InHandler, InTx
    <3>8. wk'[w].ok => wk[w].ok /\ wk[w].dlv # 0
      BY <1>2 DEF Rescheduled
    <3>9. wk'[w].ok <=> n # 0
      BY <1>2 DEF Rescheduled
    <3>10. Visible(a) => Visible(a)'
      BY <1>3 DEF Visible, AttemptId
    <3> QED
      BY <1>3, <1>5, <1>7, <3>3, <3>4, <3>5, <3>6, <3>7, <3>8, <3>9, <3>10
         DEF ReadsHoldOf, InHandler, InTx, At, Loads
  <2>2. ASSUME NEW v \in Worker, v # w PROVE ReadsHoldOf(v)'
    <3>1. ReadsHoldOf(v) /\ wk'[v] = wk[v]
      BY <1>5, <2>2 DEF IInv, ReadsHold
    <3>2. \A a : /\ Pending(a) => Pending(a)' /\ attempts'[a].delivery = attempts[a].delivery
                 /\ Visible(a) => Visible(a)'
      BY <1>3, <1>7 DEF Pending, Visible, AttemptId
    <3> QED
      BY <1>4, <1>6, <1>7, <3>1, <3>2, ReadsKept DEF IInv
  <2> QED
    BY <2>1, <2>2 DEF ReadsHold
<1>14. (PendingIsOwed /\ OneOpenAttempt)'
  <2>1. \A a \in AttemptId' : Pending(a)' =>
            a \in AttemptId /\ Pending(a) /\ attempts'[a] = attempts[a]
    BY <1>3, <1>7 DEF Pending, Visible, AttemptId
  <2> QED
    BY <1>6, <2>1 DEF IInv, PendingIsOwed, OneOpenAttempt
<1>15. AccountBalances'
  <2>1. \A d \in Delivery : MadeFor(d) \subseteq MadeFor(d)'
    BY <1>3, <1>7 DEF MadeFor, AlreadyMade
  <2> QED
    BY <1>3, <1>6, <2>1 DEF IInv, AccountBalances, MadeFor
<1> QED
  BY <1>10, <1>11, <1>12, <1>13, <1>14, <1>15 DEF IInv

\* An outcome is never "pending".
LEMMA OutcomeNotPending == \A r \in Result : r # "pending"
  BY ConstantsAssumption DEF Result

\* For an attempt count of a delivery row the breaker trips at 1 only.
LEMMA BreakerAtOne ==
    ASSUME NEW r \in Nat, r > 0
    PROVE  NoMoreAttempts(r) <=> r = 1
  BY DEF NoMoreAttempts, UintMinusOne

\* The commit gives the attempt its outcome, charges its delivery and shows the next one,
\* or changes nothing at all (rolled back, or no row matched).
LEMMA CommitIInv ==
    ASSUME IInv, TypeOK', NEW w \in Worker, Commit(w)
    PROVE  IInv'
<1> DEFINE s == wk[w]
<1>1. /\ s \in Goroutine /\ s.pc \in InTx /\ ~At(w, "idle") /\ s.job \in JobId
      /\ JobOf(w) \in JobRow /\ s.job \in Nat
  BY Lookups DEF IInv, Commit, At, InTx
<1>2. /\ \A v \in Worker : v # w => wk'[v] = wk[v]
      /\ wk'[w] = Holding(s.job, "recorded")
      /\ wk' = [wk EXCEPT ![w] = Holding(s.job, "recorded")]
      /\ UNCHANGED jobs
  BY DEF IInv, TypeOK, Commit
<1>3. /\ Holding(s.job, "recorded") \in Goroutine
      /\ wk'[w].pc = "recorded" /\ wk'[w].job = s.job /\ wk'[w].dlv = 0
      /\ wk'[w].hit = 0 /\ wk'[w].next = 0
  <2>1. Holding(s.job, "recorded") \in Goroutine
    BY <1>1, HoldingType
  <2>2. LET t == Holding(s.job, "recorded")
        IN  t.pc = "recorded" /\ t.job = s.job /\ t.dlv = 0 /\ t.hit = 0 /\ t.next = 0
    BY DEF Holding
  <2> QED
    BY <1>2, <2>1, <2>2
<1>4. ReadsHoldOf(w) /\ (s.next # 0 => At(w, "rescheduled"))
  BY DEF IInv, ReadsHold, OpenRows
<1>5. ReadsHoldOf(w)'
  BY <1>3 DEF ReadsHoldOf, At, InHandler, InTx
<1>6. 0 \notin AttemptId /\ 0 \notin JobId /\ 0 \notin Delivery
  <2>1. Delivery = 1 .. Len(EndpointOf)
    BY DEF Delivery
  <2> QED
    BY <2>1, Lookups DEF IInv
<1>7. CASE ~s.ok
  <2>1. s.next = 0
    BY <1>4, <1>7 DEF ReadsHoldOf
  <2>2. attempts' = attempts
    <3>1. attempts = [a \in DOMAIN attempts |-> attempts[a]]
      <4>1. attempts \in Seq(AttemptRow)
        BY DEF IInv, TypeOK
      <4> QED
        BY <4>1, LenProperties
    <3>2. attempts' = [a \in DOMAIN attempts |-> attempts[a]]
      BY <1>7 DEF Commit
    <3> QED
      BY <3>1, <3>2
  <2>3. delivery' = delivery
    BY <1>7 DEF Commit, IInv, TypeOK
  <2>4. Holding(s.job, "recorded").pc # "idle" /\ Holding(s.job, "recorded").job = wk[w].job
        /\ Holding(s.job, "recorded").next = 0
    BY DEF Holding
  <2> QED
    BY <1>1, <1>2, <1>3, <1>5, <2>1, <2>2, <2>3, <2>4, LocalIInv
<1>8. CASE s.ok
  <2>1. PICK h, n, d, r : h = s.hit /\ n = s.next /\ d = s.dlv /\ r = s.result
    OBVIOUS
  <2>2. /\ AttemptId' = AttemptId
        /\ \A a \in AttemptId :
              /\ attempts'[a].delivery = attempts[a].delivery
              /\ attempts'[a].status = IF a = h THEN r ELSE attempts[a].status
              /\ attempts'[a].row = IF a = n /\ a # h THEN "committed" ELSE attempts[a].row
              /\ a # h /\ a # n => attempts'[a] = attempts[a]
    <3>1. \A a \in AttemptId : attempts[a] \in AttemptRow
      BY Lookups DEF IInv
    <3>2. attempts' =
            [a \in AttemptId |->
               IF a = h THEN [attempts[a] EXCEPT !.status = r]
               ELSE IF a = n THEN [attempts[a] EXCEPT !.row = "committed"]
               ELSE attempts[a]]
      BY <1>8, <2>1 DEF Commit, AttemptId
    <3> QED
      BY <3>1, <3>2 DEF AttemptId, AttemptRow
  <2>3. r \in Result /\ r # "pending"
    BY <1>1, <2>1, OutcomeNotPending DEF Goroutine
  <2>4. h # 0 => /\ h = JobOf(w).attempt /\ Visible(h) /\ h \in AttemptId
                 /\ d # 0 => Pending(h)
    BY <1>4, <2>1 DEF ReadsHoldOf, Visible, AttemptId
  <2>19. d = 0 => r = "success"
    <3>1. s.dlv = 0 => s.remaining = 0 /\ ~NoMoreAttempts(s.remaining) /\ ~At(w, "rescheduled")
      BY <1>1, <1>4, <1>8, ConstantsAssumption
         DEF ReadsHoldOf, RemainingOf, NoMoreAttempts, UintMinusOne
    <3> QED
      BY <2>1, <3>1 DEF Commit, WillRetry, At
  <2>5. n # 0 => /\ n \in AttemptId /\ attempts[n].row = "open" /\ attempts[n].status = "pending"
                 /\ attempts[n].delivery = d /\ d # 0 /\ At(w, "rescheduled")
    <3>1. n # 0 => /\ n \in AttemptId /\ attempts[n].row = "open" /\ attempts[n].delivery = d
                   /\ At(w, "rescheduled")
      BY <2>1 DEF IInv, OpenRows
    <3> QED
      BY <1>4, <1>8, <2>1, <3>1 DEF IInv, OpenRows, ReadsHoldOf
  <2>6. d # 0 => /\ h # 0 /\ attempts[h].delivery = d
                 /\ d \in Delivery
                 /\ s.remaining = delivery[d].remaining
                 /\ delivery[d].remaining > 0
                 /\ delivery[d].counter + delivery[d].remaining = MaxAttempts
    <3>1. d # 0 => /\ h = JobOf(w).attempt /\ Pending(h) /\ attempts[h].delivery = d
                   /\ s.remaining = delivery[d].remaining
      BY <1>1, <1>4, <1>8, <2>1 DEF ReadsHoldOf, RemainingOf
    <3>2. Pending(h) => h \in AttemptId
      BY DEF Pending, Visible, AttemptId
    <3>3. d \in Delivery \cup {0}
      BY <1>1, <2>1 DEF Goroutine
    <3> QED
      BY <1>6, <3>1, <3>2, <3>3 DEF IInv, PendingIsOwed
  <2>7. \A a \in AttemptId : Pending(a)' <=> (Pending(a) /\ a # h) \/ a = n
    <3>1. \A a \in AttemptId : (Visible(a) <=> attempts[a].row = "committed")
                               /\ (Visible(a)' <=> attempts'[a].row = "committed")
      BY <2>2 DEF Visible, AttemptId
    <3>2. n # h \/ n = 0
      BY <2>4, <2>5, <3>1
    <3> QED
      BY <1>6, <2>2, <2>3, <2>4, <2>5, <3>1, <3>2 DEF Pending
  <2>8. \A a \in AttemptId : AlreadyMade(a)' <=> AlreadyMade(a) \/ a = h
    <3>1. \A a \in AttemptId : (Visible(a) <=> attempts[a].row = "committed")
                               /\ (Visible(a)' <=> attempts'[a].row = "committed")
      BY <2>2 DEF Visible, AttemptId
    <3> QED
      BY <1>6, <2>2, <2>3, <2>4, <2>5, <3>1 DEF Pending, AlreadyMade
  <2>9. \A a : AlreadyMade(a)' => a \in AttemptId
    BY <2>2 DEF AlreadyMade, Visible, AttemptId
  <2>10. /\ \A e \in Delivery : e # d => delivery'[e] = delivery[e]
         /\ d # 0 => /\ delivery'[d].counter = delivery[d].counter + 1
                     /\ delivery'[d].remaining = IF r = "success" THEN 0
                                                 ELSE delivery[d].remaining - 1
    <3>1. \A e \in Delivery : e # d => delivery'[e] = delivery[e]
      BY <2>1 DEF Commit
    <3>2. ASSUME d # 0
          PROVE  /\ delivery'[d].counter = delivery[d].counter + 1
                 /\ delivery'[d].remaining = IF r = "success" THEN 0
                                             ELSE delivery[d].remaining - 1
      <4>1. delivery'[d] = Charge(delivery[d], s)
        BY <1>8, <2>1, <2>6, <3>2 DEF Commit
      <4>2. delivery[d] \in DeliveryRow
        BY <2>6, <3>2 DEF IInv, TypeOK
      <4>3. s.remaining # 0
        BY <2>6, <3>2, <4>2 DEF DeliveryRow
      <4> QED
        BY <2>1, <4>1, <4>2, <4>3 DEF Charge, DeliveryRow
    <3> QED
      BY <3>1, <3>2
  <2>18. \A a \in AttemptId : Pending(a) /\ a # h => attempts[a].delivery # d
    <3>1. \A a \in AttemptId : attempts[a].delivery # 0
      BY <1>6, Lookups DEF IInv, AttemptRow
    <3> QED
      BY <2>4, <2>6, <3>1 DEF IInv, OneOpenAttempt
  <2>11. JobsHeld'
    <3>1. ASSUME NEW v \in Worker
          PROVE  /\ wk'[v].job = wk[v].job
                 /\ At(v, "idle")' <=> At(v, "idle")
                 /\ v # w => wk'[v] = wk[v]
      BY <1>1, <1>2, <1>3 DEF At
    <3>2. \A v \in Worker : (JobOf(v).state)' = JobOf(v).state
      BY <1>2, <3>1 DEF JobOf
    <3> QED
      BY <1>1, <3>1, <3>2 DEF IInv, JobsHeld
  <2>12. JobsName'
    BY <1>2, <2>2 DEF IInv, JobsName, JobId
  <2>13. OpenRows'
    <3>1. \A v \in Worker : wk'[v].next # 0 => v # w /\ wk'[v] = wk[v]
      BY <1>2, <1>3
    <3>2. \A a \in AttemptId : attempts'[a].row # "committed" => attempts'[a].status = "pending"
      <4>1. h # 0 => attempts[h].row = "committed"
        BY <2>4 DEF Visible
      <4> QED
        BY <1>6, <2>2, <4>1 DEF IInv, OpenRows
    <3>3. ASSUME NEW a \in AttemptId, attempts'[a].row = "open"
          PROVE  \E v \in Worker : wk'[v].next = a
      <4>1. attempts[a].row = "open" /\ (a # n \/ a = h)
        BY <2>2, <3>3
      <4>2. a # n
        BY <1>6, <2>4, <4>1 DEF Visible
      <4>3. PICK v \in Worker : wk[v].next = a
        BY <4>1 DEF IInv, OpenRows
      <4> QED
        BY <1>2, <2>1, <4>2, <4>3
    <3>4. ASSUME NEW v \in Worker, wk'[v].next # 0
          PROVE  /\ At(v, "rescheduled")'
                 /\ wk'[v].next \in AttemptId
                 /\ attempts'[wk'[v].next].row = "open"
                 /\ attempts'[wk'[v].next].delivery = wk'[v].dlv
      <4>1. /\ v # w /\ wk'[v] = wk[v] /\ At(v, "rescheduled") /\ wk[v].next \in AttemptId
            /\ attempts[wk[v].next].row = "open" /\ attempts[wk[v].next].delivery = wk[v].dlv
        BY <3>1, <3>4 DEF IInv, OpenRows
      <4>2. wk[v].next # n
        BY <2>1, <3>4, <4>1 DEF IInv, OpenRows
      <4> QED
        BY <2>2, <4>1, <4>2 DEF At
    <3>5. \A u, v \in Worker : wk'[u].next = wk'[v].next /\ wk'[u].next # 0 => u = v
      BY <3>1 DEF IInv, OpenRows
    <3> QED
      BY <2>2, <3>2, <3>3, <3>4, <3>5 DEF OpenRows
  <2>14. ReadsHold'
    <3>1. ASSUME NEW v \in Worker, v # w PROVE ReadsHoldOf(v)'
      <4>1. ReadsHoldOf(v) /\ wk'[v] = wk[v]
        BY <1>2, <3>1 DEF IInv, ReadsHold
      <4>2. ASSUME NEW a, a = JobOf(v).attempt, ~At(v, "idle"), h # 0
            PROVE  a # h
        <5>1. wk[v].job \in JobId /\ wk[v].job # s.job
          BY <1>1, <3>1, <4>2, Lookups DEF IInv, JobsHeld
        <5> QED
          BY <1>1, <2>4, <4>2, <5>1 DEF IInv, JobsName, JobOf
      <4>3. wk[v].pc \in InHandler \/ wk[v].dlv # 0 \/ wk[v].hit # 0 => ~At(v, "idle")
        BY <4>1 DEF ReadsHoldOf, InHandler, InTx, At
      <4>4. ASSUME NEW a, a = JobOf(v).attempt, Pending(a), wk[v].dlv # 0 \/ wk[v].hit # 0
            PROVE  Pending(a)' /\ attempts'[a].delivery = attempts[a].delivery
        <5>1. a \in AttemptId
          BY <4>4 DEF Pending, Visible, AttemptId
        <5>2. a # h
          BY <1>6, <4>2, <4>3, <4>4, <5>1
        <5> QED
          BY <2>2, <2>7, <4>4, <5>1, <5>2
      <4>5. ASSUME NEW a, a = JobOf(v).attempt, ~AlreadyMade(a), wk[v].pc \in InHandler
            PROVE  ~AlreadyMade(a)'
        BY <1>6, <2>8, <2>9, <4>2, <4>3, <4>5
      <4>6. wk[v].dlv # 0 => delivery'[wk[v].dlv].remaining = delivery[wk[v].dlv].remaining
        <5> SUFFICES ASSUME wk[v].dlv # 0
                     PROVE  delivery'[wk[v].dlv].remaining = delivery[wk[v].dlv].remaining
          OBVIOUS
        <5>1. PICK a : a = JobOf(v).attempt
          OBVIOUS
        <5>2. Pending(a) /\ attempts[a].delivery = wk[v].dlv /\ a \in AttemptId
          BY <4>1, <5>1 DEF ReadsHoldOf, Pending, Visible, AttemptId
        <5>3. a # h
          BY <1>6, <4>2, <4>3, <5>1, <5>2
        <5>4. wk[v].dlv # d
          BY <2>18, <5>2, <5>3
        <5>5. wk[v].dlv \in Delivery
          BY Lookups DEF IInv, Goroutine
        <5> QED
          BY <2>10, <5>4, <5>5
      <4>7. \A k \in JobId : jobs'[k].attempt = jobs[k].attempt
        BY <1>2
      <4>8. \A a : Visible(a) => Visible(a)'
        BY <2>2 DEF Visible, AttemptId
      <4> QED
        BY <4>1, <4>4, <4>5, <4>6, <4>7, <4>8, ReadsKept DEF IInv
    <3> QED
      BY <1>5, <3>1 DEF ReadsHold
  <2>15. OneOpenAttempt'
    <3>1. ASSUME NEW a \in AttemptId, NEW b \in AttemptId, Pending(a)', Pending(b)',
                 attempts'[a].delivery = attempts'[b].delivery
          PROVE  a = b
      <4>1. attempts[a].delivery = attempts[b].delivery
        BY <2>2, <3>1
      <4>2. ~(a # n /\ b = n) /\ ~(a = n /\ b # n)
        BY <1>6, <2>5, <2>7, <2>18, <3>1, <4>1
      <4>3. CASE a # n /\ b # n
        BY <2>7, <3>1, <4>1, <4>3 DEF IInv, OneOpenAttempt
      <4> QED
        BY <4>2, <4>3
    <3> QED
      BY <2>2, <3>1 DEF OneOpenAttempt
  <2>16. PendingIsOwed'
    <3>1. ASSUME NEW a \in AttemptId, Pending(a)'
          PROVE  /\ delivery'[attempts'[a].delivery].remaining > 0
                 /\ delivery'[attempts'[a].delivery].counter
                      + delivery'[attempts'[a].delivery].remaining = MaxAttempts
      <4>1. attempts'[a].delivery = attempts[a].delivery /\ attempts[a].delivery \in Delivery
        BY <2>2, Lookups DEF IInv, AttemptRow
      <4>2. CASE a # n
        <5>1. Pending(a) /\ a # h
          BY <2>7, <3>1, <4>2
        <5>2. attempts[a].delivery # d
          BY <2>18, <5>1
        <5> QED
          BY <2>10, <4>1, <5>1, <5>2 DEF IInv, PendingIsOwed
      <4>3. CASE a = n
        <5>1. n # 0 /\ d # 0 /\ attempts[a].delivery = d /\ At(w, "rescheduled")
          BY <1>6, <2>5, <4>3
        <5>2. r # "success" /\ ~NoMoreAttempts(delivery[d].remaining)
          BY <1>4, <2>1, <2>6, <5>1 DEF ReadsHoldOf, WillRetry
        <5>3. delivery[d].remaining \in Nat /\ delivery[d].counter \in Nat /\ MaxAttempts \in Nat
          BY <2>6, <5>1, ConstantsAssumption DEF IInv, TypeOK, DeliveryRow
        <5>4. delivery[d].remaining # 1
          BY <2>6, <5>1, <5>2, <5>3, BreakerAtOne
        <5> QED
          BY <2>6, <2>10, <4>1, <5>1, <5>2, <5>3, <5>4
      <4> QED
        BY <4>2, <4>3
    <3> QED
      BY <2>2, <3>1 DEF PendingIsOwed
  <2>17. AccountBalances'
    <3>1. ASSUME NEW e \in Delivery, NEW a \in MadeFor(e)
          PROVE  /\ a \in MadeFor(e)'
                 /\ attempts[a].status = "success" => attempts'[a].status = "success"
      <4>1. a \in AttemptId /\ AlreadyMade(a) /\ attempts[a].delivery = e
        BY <3>1 DEF MadeFor, AlreadyMade
      <4>2. a # h \/ r = "success"
        BY <1>6, <2>4, <2>19, <4>1 DEF Pending, AlreadyMade
      <4>3. AlreadyMade(a)' /\ attempts'[a].delivery = e /\ a \in AttemptId'
        BY <2>2, <2>8, <4>1
      <4> QED
        BY <2>2, <4>1, <4>2, <4>3 DEF MadeFor, AlreadyMade
    <3>2. ASSUME NEW e \in Delivery, e # d
          PROVE  \/ delivery'[e].counter + delivery'[e].remaining = MaxAttempts
                 \/ /\ delivery'[e].remaining = 0
                    /\ \E a \in MadeFor(e)' : attempts'[a].status = "success"
      BY <2>10, <3>1, <3>2 DEF IInv, AccountBalances
    <3>3. ASSUME d # 0
          PROVE  \/ delivery'[d].counter + delivery'[d].remaining = MaxAttempts
                 \/ /\ delivery'[d].remaining = 0
                    /\ \E a \in MadeFor(d)' : attempts'[a].status = "success"
      <4>1. h # 0 /\ h \in AttemptId /\ attempts[h].delivery = d /\ d \in Delivery
        BY <2>4, <2>6, <3>3
      <4>2. CASE r = "success"
        <5>1. h \in MadeFor(d)' /\ attempts'[h].status = "success"
          BY <2>2, <2>8, <4>1, <4>2 DEF MadeFor, AlreadyMade
        <5> QED
          BY <2>10, <3>3, <4>2, <5>1
      <4>3. CASE r # "success"
        <5>1. delivery[d].remaining \in Nat /\ delivery[d].counter \in Nat
          BY <4>1, ConstantsAssumption DEF IInv, TypeOK, DeliveryRow
        <5> QED
          BY <2>6, <2>10, <3>3, <4>3, <5>1
      <4> QED
        BY <4>2, <4>3
    <3> QED
      BY <1>6, <3>2, <3>3 DEF AccountBalances
  <2> QED
    BY <2>11, <2>12, <2>13, <2>14, <2>15, <2>16, <2>17 DEF IInv
<1> QED
  BY <1>7, <1>8

\* The invariant is inductive: one case per action of Next.
LEMMA StepIInv == IInv /\ [Next]_vars => IInv'
<1> SUFFICES ASSUME IInv, [Next]_vars PROVE IInv'
  OBVIOUS
<1>1. TypeOK'
  BY TypeStep DEF IInv
<1>2. ASSUME NEW w \in Worker, Poll(w) \/ Handle(w) PROVE IInv'
  <2>1. CASE Poll(w)
    BY <1>1, <2>1, ClaimIInv DEF Poll, JobId
  <2>2. CASE PanicFatal(w)
    BY <1>1, <2>2, ProcessDiesIInv DEF PanicFatal
  <2> QED
    BY <1>1, <1>2, <2>1, <2>2, LoadAttemptIInv, EndOfJobIInv, CallEndpointIInv,
       LoadFailsIInv, ReadDeliveryIInv, ReadFailsIInv, RescheduleIInv, CommitIInv DEF Handle
<1>3. CASE Time
  BY <1>1, <1>3, BackoffElapsesIInv DEF Time, JobId
<1>4. ASSUME NEW p \in Process, Crash(p) PROVE IInv'
  BY <1>1, <1>4, ProcessDiesIInv DEF Crash
<1>5. ASSUME NEW e \in Endpoint, NEW st \in {"enabled", "disabled"}, UpdateEndpoint(e, st)
      PROVE  IInv'
  BY <1>1, <1>5, AsideIInv DEF UpdateEndpoint
<1>6. CASE UNCHANGED vars
  BY <1>1, <1>6, AsideIInv DEF vars
<1> QED
  BY <1>2, <1>3, <1>4, <1>5, <1>6 DEF Next

-----------------------------------------------------------------------------
(* Theorems that hold whatever fails. *)

\* The inductive invariant holds in every reachable state: whatever dies, fails or is
\* early, jobs, goroutines, open transactions and the tables stay consistent.
THEOREM Invariance ==
    ASSUME MaxAttempts > 0
    PROVE  Spec => []IInv
<1>1. Init => IInv
  BY InitIInv
<1>2. IInv /\ [Next]_vars => IInv'
  BY StepIInv
<1> QED
  BY <1>1, <1>2, PTL DEF Spec

\* The columns and locals of the handler keep their types: the unsigned
\* attempts_remaining never wraps around.
THEOREM TypeCorrectness ==
    ASSUME MaxAttempts > 0
    PROVE  Spec => []TypeOK
<1>1. IInv => TypeOK
  BY DEF IInv
<1> QED
  BY <1>1, Invariance, PTL

\* The counters of a delivery add up to maxAttempts until it is delivered.
THEOREM AccountsBalance ==
    ASSUME MaxAttempts > 0
    PROVE  Spec => []AccountBalances
<1>1. IInv => AccountBalances
  BY DEF IInv
<1> QED
  BY <1>1, Invariance, PTL

\* A delivery has at most one attempt waiting to be made.
THEOREM NeverTwoOpenAttempts ==
    ASSUME MaxAttempts > 0
    PROVE  Spec => []OneOpenAttempt
<1>1. IInv => OneOpenAttempt
  BY DEF IInv
<1> QED
  BY <1>1, Invariance, PTL

\* The row of an attempt that has its outcome never changes, as long as no load of an
\* attempt fails (line 60 ignores the error, and the guard then sees a zero struct).
THEOREM AttemptsAreWriteOnce ==
    ASSUME MaxAttempts > 0, "load" \notin Fault
    PROVE  Spec => WriteOnce
<1> DEFINE Kept == \A a \in AttemptId :
                       attempts[a].status # "pending" => attempts'[a] = attempts[a]
<1>1. ASSUME IInv, Next PROVE Kept
  <2>1. ASSUME NEW p, ProcessDies(p), NEW a \in AttemptId, attempts[a].status # "pending"
        PROVE  attempts'[a] = attempts[a]
    <3>1. \A w \in Worker : wk[w].next # a
      BY <1>1, <2>1, Lookups DEF IInv, OpenRows
    <3> QED
      BY <2>1, <3>1 DEF ProcessDies, AttemptId
  <2>2. ASSUME NEW w \in Worker, Reschedule(w), NEW a \in AttemptId
        PROVE  attempts'[a] = attempts[a]
    <3> DEFINE row == [delivery |-> wk[w].dlv, status |-> "pending", row |-> "open"]
    <3>1. CASE wk[w].ok /\ wk[w].dlv # 0
      <4>1. attempts' = Append(attempts, row)
        BY <2>2, <3>1 DEF Reschedule
      <4>2. row \in AttemptRow /\ attempts \in Seq(AttemptRow)
        BY <1>1, <3>1, Lookups DEF IInv, TypeOK, AttemptRow, Goroutine
      <4> HIDE DEF row
      <4> QED
        BY <4>1, <4>2, RowInserted DEF AttemptId
    <3>2. CASE ~(wk[w].ok /\ wk[w].dlv # 0)
      BY <2>2, <3>2 DEF Reschedule
    <3> QED
      BY <3>1, <3>2
  <2>3. ASSUME NEW w \in Worker, Commit(w), NEW a \in AttemptId, attempts[a].status # "pending"
        PROVE  attempts'[a] = attempts[a]
    <3>1. a # 0
      BY <1>1, Lookups DEF IInv
    <3>2. a # wk[w].hit
      BY <1>1, <2>3, <3>1 DEF IInv, ReadsHold, ReadsHoldOf, Pending, Loads
    <3>3. a # wk[w].next
      BY <1>1, <2>3, <3>1 DEF IInv, OpenRows
    <3> QED
      BY <2>3, <3>2, <3>3 DEF Commit, AttemptId
  <2>4. UNCHANGED attempts => Kept
    OBVIOUS
  <2>5. ASSUME NEW w \in Worker, Handle(w) \/ Poll(w) PROVE Kept
    <3>1. CASE PanicFatal(w)
      BY <2>1, <3>1 DEF PanicFatal
    <3>2. CASE Reschedule(w)
      BY <2>2, <3>2
    <3>3. CASE Commit(w)
      BY <2>3, <3>3
    <3> QED
      BY <2>4, <2>5, <3>1, <3>2, <3>3
         DEF Handle, Poll, Claim, LoadAttempt, LoadFails, PanicRecovered, CallEndpoint,
             ReadDelivery, ReadFails, Finish
  <2>6. ASSUME NEW p \in Process, Crash(p) PROVE Kept
    BY <2>1, <2>6 DEF Crash
  <2>7. ASSUME Time \/ \E e \in Endpoint : \E st \in {"enabled", "disabled"} : UpdateEndpoint(e, st)
        PROVE  Kept
    BY <2>4, <2>7 DEF Time, BackoffElapses, UpdateEndpoint
  <2> HIDE DEF Kept
  <2> QED
    BY <1>1, <2>5, <2>6, <2>7 DEF Next
<1>2. IInv /\ [Next]_vars => [Kept]_vars
  BY <1>1
<1> QED
  BY <1>2, Invariance, PTL DEF Spec, WriteOnce

-----------------------------------------------------------------------------
(* Where only crashes happen: no attempt is lost. *)

\* Initially every pending attempt has the job the event mapping queued.
LEMMA InitKept == Init => AttemptsKept
<1> SUFFICES ASSUME Init PROVE AttemptsKept
  OBVIOUS
<1>1. \A w \in Worker : wk[w].pc = "idle"
  BY DEF Init, Idle, Holding
<1>2. \A w \in Worker : GoneOf(w)
  BY <1>1 DEF GoneOf, At, InHandler
<1> QED
  BY <1>2 DEF Init, AttemptsKept, JobLeft, JobId, AttemptId

\* Steps in which no job ends, none stops waiting and the rows stay.
LEMMA KeptLocally ==
    ASSUME IInv, AttemptsKept, UNCHANGED attempts,
           JobId' = JobId,
           \A k \in JobId : /\ jobs'[k].attempt = jobs[k].attempt
                            /\ jobs[k].state # "done" => jobs'[k].state # "done"
                            /\ jobs'[k].state # "waiting" =>
                                  \/ jobs[k].state # "waiting"
                                  \/ jobs[k].attempt # 0 =>
                                        attempts[jobs[k].attempt].row # "open",
           \A w \in Worker : GoneOf(w)'
    PROVE  AttemptsKept'
<1>1. AttemptId' = AttemptId
  BY DEF AttemptId
<1>2. \A a \in AttemptId : JobLeft(a) => JobLeft(a)'
  BY DEF JobLeft
<1> QED
  BY <1>1, <1>2 DEF AttemptsKept

\* What a goroutine has concluded stays so while it and its job are left alone
\* and its attempt does not become pending.
LEMMA GoneKept ==
    ASSUME TypeOK, NEW v \in Worker, GoneOf(v), wk'[v] = wk[v],
           \A k \in JobId : jobs'[k].attempt = jobs[k].attempt,
           \A a : ~At(v, "idle") /\ a = JobOf(v).attempt /\ ~Pending(a) => ~Pending(a)'
    PROVE  GoneOf(v)'
<1>1. CASE At(v, "idle")
  BY <1>1 DEF GoneOf, At, InHandler
<1>2. CASE ~At(v, "idle")
  <2>1. PICK a : a = JobOf(v).attempt
    OBVIOUS
  <2>2. a = (JobOf(v).attempt)'
    BY <1>2, <2>1, Lookups DEF JobOf
  <2>3. ~Pending(a) => ~Pending(a)'
    BY <1>2, <2>1
  <2> QED
    BY <2>1, <2>2, <2>3 DEF GoneOf, At
<1> QED
  BY <1>1, <1>2

\* No step gives up the job of a pending attempt when nothing but crashes happens.
LEMMA KeptStep ==
    ASSUME Fault = {}, DelayOutlivesTx, IInv, IInv', AttemptsKept, [Next]_vars
    PROVE  AttemptsKept'
<1>0. /\ 0 \notin JobId /\ 0 \notin AttemptId
      /\ \A a \in AttemptId : attempts[a].delivery # 0
      /\ \A v \in Worker : ~At(v, "idle") => wk[v].job \in JobId
  <2>1. 0 \notin Delivery
    BY ConstantsAssumption, LenProperties DEF Delivery
  <2> QED
    BY <2>1, Lookups DEF IInv, AttemptRow
<1>1. ASSUME NEW w \in Worker, NEW j \in JobId, Claim(w, j) PROVE AttemptsKept'
  <2>1. /\ JobId' = JobId
        /\ \A k \in JobId : /\ jobs'[k].attempt = jobs[k].attempt
                            /\ jobs[k].state # "done" => jobs'[k].state # "done"
                            /\ jobs'[k].state # "waiting" => jobs[k].state # "waiting"
    BY <1>1, Lookups DEF IInv, Claim, JobId, JobRow
  <2>2. \A v \in Worker : GoneOf(v)'
    <3>1. wk'[w].pc = "claimed" /\ \A v \in Worker : v # w => wk'[v] = wk[v]
      BY <1>1 DEF IInv, TypeOK, Claim, Holding
    <3>2. GoneOf(w)'
      BY <3>1 DEF GoneOf, At, InHandler
    <3>3. \A a : Pending(a)' <=> Pending(a)
      BY <1>1 DEF Claim, Pending, Visible
    <3>4. ASSUME NEW v \in Worker, v # w PROVE GoneOf(v)'
      BY <2>1, <3>1, <3>3, <3>4, GoneKept DEF IInv, AttemptsKept
    <3> QED
      BY <3>2, <3>4
  <2> QED
    BY <1>1, <2>1, <2>2, KeptLocally DEF Claim
<1>2. ASSUME NEW w \in Worker, UNCHANGED <<attempts, jobs>>, GoneOf(w)',
             \A v \in Worker : v # w => wk'[v] = wk[v]
      PROVE  AttemptsKept'
  <2>1. \A a : Pending(a)' <=> Pending(a)
    BY <1>2 DEF Pending, Visible
  <2>2. ASSUME NEW v \in Worker, v # w PROVE GoneOf(v)'
    BY <1>2, <2>1, <2>2, GoneKept DEF IInv, AttemptsKept
  <2>3. JobId' = JobId
    BY <1>2 DEF JobId
  <2> QED
    BY <1>2, <2>2, <2>3, KeptLocally
<1>3. ASSUME NEW w \in Worker, LoadAttempt(w) PROVE AttemptsKept'
  <2>1. PICK a : a = JobOf(w).attempt
    OBVIOUS
  <2>2. /\ wk'[w].pc = "loaded" /\ wk'[w].dlv = DeliveryOf(a) /\ wk'[w].job = wk[w].job
        /\ \A v \in Worker : v # w => wk'[v] = wk[v]
    BY <1>3, <2>1, Lookups DEF IInv, TypeOK, LoadAttempt, Goroutine
  <2>3. (JobOf(w).attempt)' = a
    BY <1>3, <2>1, <2>2 DEF LoadAttempt, JobOf
  <2>4. wk'[w].dlv = 0 => ~Pending(a)'
    BY <1>0, <1>3, <2>2 DEF LoadAttempt, DeliveryOf, Pending, Visible, AttemptId
  <2>5. GoneOf(w)'
    BY <2>2, <2>3, <2>4 DEF GoneOf, At
  <2> QED
    BY <1>2, <1>3, <2>2, <2>5 DEF LoadAttempt
<1>4. ASSUME NEW w \in Worker, CallEndpoint(w) \/ ReadDelivery(w) PROVE AttemptsKept'
  <2>1. PICK a : a = JobOf(w).attempt
    OBVIOUS
  <2>2. /\ wk'[w].pc \in {"answered", "intx"} /\ wk'[w].dlv = wk[w].dlv /\ wk'[w].job = wk[w].job
        /\ wk[w].pc \in InHandler
        /\ \A v \in Worker : v # w => wk'[v] = wk[v]
    <3>1. CASE CallEndpoint(w)
      BY <3>1, Lookups DEF IInv, TypeOK, CallEndpoint, Goroutine, InHandler, At
    <3>2. CASE ReadDelivery(w)
      <4>1. wk \in [Worker -> Goroutine] /\ wk[w].pc \in InHandler
        BY <3>2 DEF IInv, TypeOK, ReadDelivery, InHandler, At
      <4>2. wk[w] \in Goroutine
        BY <4>1
      <4>3. PICK ok \in BOOLEAN : wk' = [wk EXCEPT ![w].pc = "intx",
                ![w].remaining = RemainingOf(wk[w].dlv),
                ![w].hit = RowOf(JobOf(w).attempt), ![w].ok = ok]
        BY <3>2 DEF ReadDelivery
      <4> QED
        BY <4>1, <4>2, <4>3 DEF Goroutine
    <3> QED
      BY <1>4, <3>1, <3>2
  <2>3. (JobOf(w).attempt)' = a /\ UNCHANGED <<attempts, jobs>>
    BY <1>4, <2>1, <2>2 DEF CallEndpoint, ReadDelivery, JobOf
  <2>4. wk'[w].dlv = 0 => ~Pending(a)'
    BY <2>1, <2>2, <2>3 DEF AttemptsKept, GoneOf, Pending, Visible
  <2>5. wk'[w].pc = "intx" => wk'[w].ok
    BY <1>4, Lookups DEF IInv, TypeOK, CallEndpoint, ReadDelivery, Goroutine
  <2>6. GoneOf(w)'
    BY <2>2, <2>3, <2>4, <2>5 DEF GoneOf, At
  <2> QED
    BY <1>2, <2>2, <2>3, <2>6
<1>5. ASSUME NEW w \in Worker, PanicRecovered(w) \/ Finish(w) PROVE AttemptsKept'
  <2>1. /\ ~At(w, "idle") /\ wk[w].job \in JobId /\ UNCHANGED attempts
        /\ jobs' = [jobs EXCEPT ![wk[w].job].state = "done"]
    BY <1>0, <1>5 DEF PanicRecovered, Finish, Ends, At
  <2>2. /\ JobId' = JobId
        /\ \A k \in JobId : /\ jobs'[k].attempt = jobs[k].attempt
                            /\ jobs'[k].state = IF k = wk[w].job THEN "done" ELSE jobs[k].state
    BY <2>1, Lookups DEF IInv, JobId, JobRow
  <2>3. JobOf(w).state = "running" /\ ~Pending(JobOf(w).attempt)
    BY <1>5, <2>1 DEF IInv, JobsHeld, AttemptsKept, GoneOf, PanicRecovered, Finish,
                      AlreadyMade, Pending
  <2>4. ASSUME NEW a \in AttemptId, attempts[a].row # "void", attempts[a].status = "pending"
        PROVE  JobLeft(a)'
    <3>1. PICK j \in JobId : jobs[j].attempt = a /\ jobs[j].state # "done"
      BY <2>4 DEF AttemptsKept, JobLeft
    <3>2. j # wk[w].job
      <4>1. SUFFICES ASSUME j = wk[w].job PROVE FALSE
        OBVIOUS
      <4>2. attempts[a].row # "open" /\ a \in DOMAIN attempts
        BY <1>0, <2>3, <3>1, <4>1 DEF AttemptsKept, JobOf, AttemptId
      <4>3. attempts[a].row \in {"open", "committed", "void"}
        BY Lookups DEF IInv, AttemptRow
      <4> QED
        BY <2>3, <2>4, <3>1, <4>1, <4>2, <4>3 DEF Pending, Visible, JobOf
    <3> QED
      BY <2>2, <3>1, <3>2 DEF JobLeft
  <2>5. \A v \in Worker : GoneOf(v)'
    <3>1. wk'[w].pc = "idle" /\ \A v \in Worker : v # w => wk'[v] = wk[v]
      BY <1>5 DEF IInv, TypeOK, PanicRecovered, Finish, Idle, Holding
    <3>2. GoneOf(w)'
      BY <3>1 DEF GoneOf, At, InHandler
    <3>3. \A a : Pending(a)' <=> Pending(a)
      BY <2>1 DEF Pending, Visible
    <3>4. ASSUME NEW v \in Worker, v # w PROVE GoneOf(v)'
      BY <2>2, <3>1, <3>3, <3>4, GoneKept DEF IInv, AttemptsKept
    <3> QED
      BY <3>2, <3>4
  <2>6. \A j \in JobId : jobs'[j].state # "waiting" /\ jobs'[j].attempt # 0 =>
            attempts'[jobs'[j].attempt].row # "open"
    <3>1. jobs[wk[w].job].state # "waiting"
      BY <2>3 DEF JobOf
    <3> QED
      BY <2>1, <2>2, <3>1 DEF AttemptsKept
  <2> QED
    BY <2>1, <2>2, <2>4, <2>5, <2>6 DEF AttemptsKept, AttemptId
<1>6. ASSUME NEW w \in Worker, Reschedule(w) PROVE AttemptsKept'
  <2>1. PICK n : Rescheduled(w, n)
    BY <1>6, RescheduleEffect
  <2>2. \A k \in JobId : jobs[k].attempt # 0 =>
            jobs[k].attempt \in AttemptId /\ attempts'[jobs[k].attempt] = attempts[jobs[k].attempt]
    BY <2>1 DEF Rescheduled, IInv, JobsName
  <2>3. \A a \in AttemptId : JobLeft(a) => JobLeft(a)'
    BY <2>1 DEF Rescheduled, JobLeft
  <2>4. JobLeft(n)'
    <3>1. PICK k \in JobId' : k \notin JobId
      BY <2>1 DEF Rescheduled
    <3>2. jobs'[k].attempt = n /\ jobs'[k].state = "waiting"
      BY <2>1, <3>1 DEF Rescheduled
    <3> QED
      BY <3>1, <3>2 DEF JobLeft
  <2>5. \A k \in JobId' : k \notin JobId => jobs'[k].state = "waiting"
    BY <2>1 DEF Rescheduled
  <2>6. \A a : ~Pending(a) => ~Pending(a)'
    BY <2>1 DEF Rescheduled, Pending, Visible, AttemptId
  <2>7. \A v \in Worker : GoneOf(v)'
    <3>1. \A k \in JobId : jobs'[k].attempt = jobs[k].attempt
      BY <2>1 DEF Rescheduled
    <3>2. ASSUME NEW v \in Worker, v # w PROVE GoneOf(v)'
      BY <2>1, <2>6, <3>1, <3>2, GoneKept DEF IInv, AttemptsKept, Rescheduled
    <3>3. GoneOf(w)'
      <4>1. At(w, "intx") /\ wk[w].job \in JobId /\ GoneOf(w)
        BY <1>0, <1>6 DEF Reschedule, At, AttemptsKept
      <4>2. PICK a : a = JobOf(w).attempt
        OBVIOUS
      <4>3. (JobOf(w).attempt)' = a
        BY <2>1, <3>1, <4>1, <4>2 DEF JobOf, Rescheduled
      <4>4. wk'[w].dlv = 0 => ~Pending(a)'
        BY <2>1, <2>6, <4>1, <4>2 DEF GoneOf, At, InHandler, Rescheduled
      <4>5. wk'[w].pc = "rescheduled" /\ (wk'[w].ok <=> wk'[w].dlv # 0)
        BY <2>1, <4>1 DEF GoneOf, At, Rescheduled
      <4> QED
        BY <4>3, <4>4, <4>5 DEF GoneOf, At
    <3> QED
      BY <3>2, <3>3
  <2>8. ASSUME NEW a \in AttemptId', attempts'[a].row # "void", attempts'[a].status = "pending"
        PROVE  JobLeft(a)'
    BY <2>1, <2>3, <2>4, <2>8 DEF Rescheduled, AttemptsKept
  <2>9. ASSUME NEW k \in JobId', jobs'[k].state # "waiting", jobs'[k].attempt # 0
        PROVE  attempts'[jobs'[k].attempt].row # "open"
    BY <2>1, <2>2, <2>5, <2>9 DEF Rescheduled, AttemptsKept
  <2> QED
    BY <2>7, <2>8, <2>9 DEF AttemptsKept
<1>7. ASSUME NEW w \in Worker, Commit(w) PROVE AttemptsKept'
  <2>1. PICK h, n : h = wk[w].hit /\ n = wk[w].next
    OBVIOUS
  <2>2. /\ UNCHANGED jobs /\ JobId' = JobId
        /\ wk'[w].pc = "recorded" /\ wk'[w].job = wk[w].job
        /\ \A v \in Worker : v # w => wk'[v] = wk[v]
        /\ ~At(w, "idle") /\ wk[w].pc \in InTx
    BY <1>7 DEF IInv, TypeOK, Commit, Holding, JobId, At, InTx
  <2>3. wk[w].result # "pending"
    BY OutcomeNotPending, Lookups DEF IInv, Goroutine
  <2>4. /\ AttemptId' = AttemptId
        /\ \A a \in AttemptId :
              \/ attempts'[a] = attempts[a]
              \/ a = h /\ wk[w].ok /\ attempts'[a].status # "pending"
                       /\ attempts'[a].row = attempts[a].row
              \/ a = n /\ attempts'[a].row = "committed" /\ attempts'[a].status = attempts[a].status
    <3>1. \A a \in AttemptId : attempts[a] \in AttemptRow
      BY Lookups DEF IInv
    <3>2. attempts' =
            [a \in AttemptId |->
               IF wk[w].ok /\ a = h THEN [attempts[a] EXCEPT !.status = wk[w].result]
               ELSE IF wk[w].ok /\ a = n THEN [attempts[a] EXCEPT !.row = "committed"]
               ELSE attempts[a]]
      BY <1>7, <2>1 DEF Commit, AttemptId
    <3> QED
      BY <2>3, <3>1, <3>2 DEF AttemptId, AttemptRow
  <2>5. n # 0 => n \in AttemptId /\ attempts[n].row = "open"
    BY <2>1 DEF IInv, OpenRows
  <2>6. ASSUME NEW v \in Worker, ~At(v, "idle"), NEW a, a = JobOf(v).attempt
        PROVE  a # n \/ n = 0
    BY <1>0, <2>5, <2>6 DEF IInv, JobsHeld, AttemptsKept, JobOf
  <2>7. \A a : ~Pending(a) /\ (a # n \/ n = 0) => ~Pending(a)'
    BY <1>0, <2>4 DEF Pending, Visible, AttemptId
  <2>8. ASSUME NEW v \in Worker, v # w PROVE GoneOf(v)'
    BY <2>2, <2>6, <2>7, <2>8, GoneKept DEF IInv, AttemptsKept
  <2>9. GoneOf(w)'
    <3>1. PICK a : a = JobOf(w).attempt
      OBVIOUS
    <3>2. (JobOf(w).attempt)' = a
      BY <2>2, <3>1 DEF JobOf
    <3>3. CASE wk[w].dlv = 0
      <4>1. ~Pending(a)
        BY <2>2, <3>1, <3>3 DEF AttemptsKept, GoneOf, InHandler, InTx
      <4> QED
        BY <2>2, <2>6, <2>7, <3>1, <3>2, <4>1 DEF GoneOf, At, InHandler
    <3>4. CASE wk[w].dlv # 0
      <4>1. wk[w].ok /\ h = a /\ Pending(a)
        BY <2>1, <2>2, <3>1, <3>4
           DEF IInv, ReadsHold, ReadsHoldOf, AttemptsKept, GoneOf, InTx, At
      <4>2. a \in AttemptId /\ attempts[a].row = "committed"
        BY <4>1 DEF Pending, Visible, AttemptId
      <4>3. attempts'[a].status # "pending"
        BY <1>7, <2>1, <2>3, <4>1, <4>2, Lookups DEF IInv, Commit, AttemptId, AttemptRow
      <4> QED
        BY <2>2, <3>2, <4>3 DEF GoneOf, At, InHandler, Pending
    <3> QED
      BY <3>3, <3>4
  <2>10. \A a \in AttemptId : JobLeft(a)' <=> JobLeft(a)
    BY <2>2 DEF JobLeft
  <2>11. ASSUME NEW a \in AttemptId, attempts'[a].row # "void", attempts'[a].status = "pending"
         PROVE  JobLeft(a)
    <3>1. attempts[a].row # "void" /\ attempts[a].status = "pending"
      BY <1>0, <2>4, <2>5, <2>11
    <3> QED
      BY <3>1 DEF AttemptsKept
  <2>12. ASSUME NEW k \in JobId, jobs[k].state # "waiting", jobs[k].attempt # 0
         PROVE  attempts'[jobs[k].attempt].row # "open"
    <3>1. attempts[jobs[k].attempt].row # "open" /\ jobs[k].attempt \in AttemptId
      BY <2>12 DEF AttemptsKept, IInv, JobsName
    <3> QED
      BY <2>4, <3>1
  <2> QED
    BY <2>2, <2>4, <2>8, <2>9, <2>10, <2>11, <2>12 DEF AttemptsKept
<1>8. ASSUME NEW p, ProcessDies(p) PROVE AttemptsKept'
  <2>1. /\ JobId' = JobId
        /\ \A k \in JobId : /\ jobs'[k].attempt = jobs[k].attempt
                            /\ jobs[k].state # "done" => jobs'[k].state # "done"
                            /\ jobs'[k].state # "waiting" => jobs[k].state # "waiting"
    <3>1. \A v \in Worker : wk[v].job \in JobId => JobOf(v).state = "running"
      BY <1>0 DEF IInv, JobsHeld, Idle, Holding
    <3>2. \A k \in JobId : jobs[k] \in JobRow
      BY Lookups DEF IInv
    <3>3. \A k \in JobId : \/ jobs'[k] = jobs[k]
                           \/ /\ jobs'[k] = [jobs[k] EXCEPT !.state = "queued"]
                              /\ \E v \in Worker : wk[v].job = k
      BY <1>8 DEF ProcessDies, JobId
    <3>4. JobId' = JobId
      BY <1>8 DEF ProcessDies, JobId
    <3>5. ASSUME NEW k \in JobId, NEW v \in Worker, wk[v].job = k,
                 jobs'[k] = [jobs[k] EXCEPT !.state = "queued"]
          PROVE  /\ jobs'[k].attempt = jobs[k].attempt
                 /\ jobs[k].state = "running" /\ jobs'[k].state = "queued"
      BY <3>1, <3>2, <3>5 DEF JobOf, JobRow
    <3>6. ASSUME NEW k \in JobId
          PROVE  /\ jobs'[k].attempt = jobs[k].attempt
                 /\ jobs[k].state # "done" => jobs'[k].state # "done"
                 /\ jobs'[k].state # "waiting" => jobs[k].state # "waiting"
      <4>1. CASE jobs'[k] = jobs[k]
        BY <4>1
      <4>2. CASE jobs'[k] # jobs[k]
        BY <3>3, <3>5, <4>2
      <4> QED
        BY <4>1, <4>2
    <3> QED
      BY <3>4, <3>6
  <2>2. /\ AttemptId' = AttemptId
        /\ \A a \in AttemptId :
              /\ attempts'[a].status = attempts[a].status
              /\ attempts'[a].row = attempts[a].row \/ attempts'[a].row = "void"
    BY <1>8, Lookups DEF IInv, ProcessDies, AttemptId, AttemptRow
  <2>3. \A a : ~Pending(a) => ~Pending(a)'
    BY <2>2 DEF Pending, Visible, AttemptId
  <2>4. ASSUME NEW v \in Worker PROVE GoneOf(v)'
    <3>1. CASE wk'[v] = wk[v]
      BY <2>1, <2>3, <3>1, GoneKept DEF IInv, AttemptsKept
    <3>2. CASE wk'[v] = Idle
      <4>1. wk'[v].pc = "idle"
        BY <3>2 DEF Idle, Holding
      <4> QED
        BY <4>1 DEF GoneOf, At, InHandler
    <3> QED
      BY <1>8, <3>1, <3>2 DEF ProcessDies
  <2>5. \A a \in AttemptId : JobLeft(a) => JobLeft(a)'
    BY <2>1 DEF JobLeft
  <2>6. \A k \in JobId : jobs[k].attempt # 0 => jobs[k].attempt \in AttemptId
    BY DEF IInv, JobsName
  <2> QED
    BY <2>1, <2>2, <2>4, <2>5, <2>6 DEF AttemptsKept
<1>9. ASSUME NEW j \in JobId, BackoffElapses(j) PROVE AttemptsKept'
  <2>1. /\ JobId' = JobId /\ UNCHANGED <<attempts, wk>>
        /\ jobs[j].attempt # 0 => attempts[jobs[j].attempt].row # "open"
        /\ \A k \in JobId : /\ jobs'[k].attempt = jobs[k].attempt
                            /\ jobs[k].state # "done" => jobs'[k].state # "done"
                            /\ k # j => jobs'[k].state = jobs[k].state
    BY <1>9, Lookups DEF IInv, BackoffElapses, JobId, JobRow
  <2>2. \A v \in Worker : GoneOf(v)'
    <3>1. \A a : Pending(a)' <=> Pending(a)
      BY <2>1 DEF Pending, Visible
    <3> QED
      BY <2>1, <3>1, GoneKept DEF IInv, AttemptsKept
  <2> QED
    BY <2>1, <2>2, KeptLocally
<1>10. ASSUME UNCHANGED <<attempts, jobs, wk>> PROVE AttemptsKept'
  <2>1. \A v \in Worker : GoneOf(v)'
    BY <1>10 DEF AttemptsKept, GoneOf, At, JobOf, Pending, Visible
  <2>2. JobId' = JobId
    BY <1>10 DEF JobId
  <2> QED
    BY <1>10, <2>1, <2>2, KeptLocally
<1> QED
  <2>1. ASSUME NEW w \in Worker, Poll(w) \/ Handle(w) PROVE AttemptsKept'
    BY <1>1, <1>3, <1>4, <1>5, <1>6, <1>7, <1>8, <2>1
       DEF Poll, Handle, LoadFails, ReadFails, PanicFatal, JobId
  <2>2. ASSUME NEW p \in Process, Crash(p) PROVE AttemptsKept'
    BY <1>8, <2>2 DEF Crash
  <2>3. CASE Time
    BY <1>9, <2>3 DEF Time, JobId
  <2>4. ASSUME NEW e \in Endpoint, NEW st \in {"enabled", "disabled"}, UpdateEndpoint(e, st)
        PROVE  AttemptsKept'
    BY <1>10, <2>4 DEF UpdateEndpoint
  <2>5. CASE UNCHANGED vars
    BY <1>10, <2>5 DEF vars
  <2> QED
    BY <2>1, <2>2, <2>3, <2>4, <2>5 DEF Next

\* Where no read, statement or enqueue fails and a backoff outlives its transaction,
\* the job of a pending attempt is never given up, whatever dies at whatever point.
THEOREM AttemptsAreKept ==
    ASSUME MaxAttempts > 0, Fault = {}, DelayOutlivesTx
    PROVE  Spec => []AttemptsKept
<1> DEFINE Inv == IInv /\ AttemptsKept
<1>1. Init => Inv
  BY InitIInv, InitKept
<1>2. Inv /\ [Next]_vars => Inv'
  BY StepIInv, KeptStep
<1>3. Inv => AttemptsKept
  OBVIOUS
<1> HIDE DEF Inv
<1> QED
  BY <1>1, <1>2, <1>3, PTL DEF Spec

\* No attempt is lost: under the same assumptions a pending attempt always has an
\* unfinished job, however many processes crash or panic at whatever point.
THEOREM NoAttemptLost ==
    ASSUME MaxAttempts > 0, Fault = {}, DelayOutlivesTx
    PROVE  Spec => []NoLostAttempt
<1>1. AttemptsKept => NoLostAttempt
  BY DEF AttemptsKept, NoLostAttempt, JobLeft, Pending, Visible
<1> QED
  BY <1>1, AttemptsAreKept, PTL

=============================================================================
