---------------------------- MODULE DispatcherInv ----------------------------
(***************************************************************************)
(* The inductive invariants behind the properties of Dispatcher.  They say *)
(* how the job table, the goroutines and the open transactions hang        *)
(* together; they are checked by TLC and proved in DispatcherProofs.       *)
(***************************************************************************)
EXTENDS Dispatcher

InHandler == {"loaded", "answered", "intx", "rescheduled"}
InTx == {"intx", "rescheduled"}

\* A busy goroutine holds a job of its own, marked as running.
JobsHeld ==
    /\ \A w \in Worker :
          IF At(w, "idle") THEN wk[w] = Idle ELSE JobOf(w).state = "running"
    /\ \A v, w \in Worker :
          ~At(v, "idle") /\ wk[v].job = wk[w].job => v = w

\* The attempt a job names was inserted, for the delivery the payload speaks
\* of, and no other job names it; 0 is the id of an insert that failed.
JobsName ==
    /\ \A j \in JobId : jobs[j].attempt # 0 =>
          /\ jobs[j].attempt \in AttemptId
          /\ attempts[jobs[j].attempt].delivery = jobs[j].target
    /\ \A j, k \in JobId :
          jobs[j].attempt = jobs[k].attempt /\ jobs[j].attempt # 0 => j = k

\* Uncommitted rows: each belongs to the transaction of one goroutine.
OpenRows ==
    /\ \A a \in AttemptId : attempts[a].row # "committed" => attempts[a].status = "pending"
    /\ \A a \in AttemptId : attempts[a].row = "open" => \E w \in Worker : wk[w].next = a
    /\ \A w \in Worker : wk[w].next # 0 =>
          /\ At(w, "rescheduled")
          /\ wk[w].next \in AttemptId
          /\ attempts[wk[w].next].row = "open"
          /\ attempts[wk[w].next].delivery = wk[w].dlv
    /\ \A v, w \in Worker : wk[v].next = wk[w].next /\ wk[v].next # 0 => v = w

\* What a handler has read is still so: its attempt has no outcome (if a read
\* that failed has not hidden it), the row it loaded is pending, the delivery
\* unchanged since the transaction read it.
Loads == "load" \notin Fault
ReadsHoldOf(w) ==
    /\ Loads /\ wk[w].pc \in InHandler => ~AlreadyMade(JobOf(w).attempt)
    /\ wk[w].dlv # 0 => /\ wk[w].pc \in InHandler
                        /\ Pending(JobOf(w).attempt)
                        /\ attempts[JobOf(w).attempt].delivery = wk[w].dlv
    /\ wk[w].hit # 0 => /\ wk[w].pc \in InTx
                        /\ wk[w].hit = JobOf(w).attempt
                        /\ Visible(wk[w].hit)
                        /\ Loads => Pending(wk[w].hit)
    /\ wk[w].pc \in InTx /\ wk[w].ok =>
          /\ wk[w].remaining = RemainingOf(wk[w].dlv)
          /\ wk[w].dlv # 0 => wk[w].hit = JobOf(w).attempt
    /\ At(w, "rescheduled") =>
          /\ WillRetry(wk[w])
          /\ wk[w].ok <=> wk[w].next # 0
          /\ wk[w].ok => wk[w].dlv # 0
ReadsHold == \A w \in Worker : ReadsHoldOf(w)

\* A delivery with a pending attempt is not settled.
PendingIsOwed ==
    \A a \in AttemptId : Pending(a) =>
        /\ delivery[attempts[a].delivery].remaining > 0
        /\ delivery[attempts[a].delivery].counter
             + delivery[attempts[a].delivery].remaining = MaxAttempts

\* The invariant: no assumption on faults, delays or panics.
IInv ==
    /\ TypeOK /\ JobsHeld /\ JobsName /\ OpenRows /\ ReadsHold
    /\ PendingIsOwed /\ OneOpenAttempt /\ AccountBalances

\* Where no read, statement or enqueue fails and a backoff outlives the
\* transaction that set it: the job of a pending attempt is never given up.
GoneOf(w) ==
    /\ wk[w].pc \in InHandler /\ wk[w].dlv = 0 => ~Pending(JobOf(w).attempt)
    /\ At(w, "recorded") => ~Pending(JobOf(w).attempt)
    /\ At(w, "intx") => wk[w].ok
    /\ At(w, "rescheduled") => (wk[w].ok <=> wk[w].dlv # 0)
JobLeft(a) == \E j \in JobId : jobs[j].attempt = a /\ jobs[j].state # "done"
AttemptsKept ==
    /\ \A a \in AttemptId :
          attempts[a].row # "void" /\ attempts[a].status = "pending" => JobLeft(a)
    /\ \A j \in JobId : jobs[j].state # "waiting" /\ jobs[j].attempt # 0 =>
          attempts[jobs[j].attempt].row # "open"
    /\ \A w \in Worker : GoneOf(w)
=============================================================================
