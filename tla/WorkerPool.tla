------------------------------ MODULE WorkerPool ------------------------------
(***************************************************************************)
(* RunWorker (utils/worker.go): a worker process runs its job queue with a *)
(* number of goroutines, all of them in pgq.Worker.Run, until the operator *)
(* interrupts it.  The main goroutine then sends one value on StopChan,    *)
(* which has no buffer; one goroutine takes it between two jobs; and the   *)
(* process ends, whatever the other goroutines are doing.                  *)
(***************************************************************************)
EXTENDS Naturals, FiniteSets

CONSTANTS
    Goroutine,      \* the goroutines there could be: 1 .. n
    MaxInterrupts   \* bound: signals sent to the process

VARIABLES
    process,        \* "up", or how it ended: "exited", "killed", "panicked"
    main,           \* "spawning", "serving", "halting", "leaving"
    parallelJobs,   \* workerConfig.ParallelJobs
    run,            \* what each goroutine is doing in Run
    interrupted,    \* os.Interrupt in the channel c (buffer of one)
    interrupts,     \* how many signals were sent
    aborted         \* history: jobs cut off by the end of the process

vars == <<process, main, parallelJobs, run, interrupted, interrupts, aborted>>

InMain == {"spawning", "serving", "halting", "leaving"}

Init ==
    /\ run = [g \in Goroutine |-> "none"]
    /\ interrupted = FALSE /\ interrupts = 0 /\ aborted = 0

Up == process = "up"
Spawned == {g \in Goroutine : run[g] # "none"}
Busy == {g \in Goroutine : run[g] = "job"}

AllSpawned == Cardinality(Spawned) = parallelJobs

\* lines 24-36
Spawn ==
    /\ Up /\ main = "spawning" /\ ~AllSpawned
    /\ run' = [run EXCEPT ![Cardinality(Spawned) + 1] = "select"]
    /\ UNCHANGED <<process, main, parallelJobs, interrupted, interrupts, aborted>>

\* lines 38-39
Install ==
    /\ Up /\ main = "spawning" /\ AllSpawned
    /\ main' = "serving"
    /\ UNCHANGED <<process, parallelJobs, run, interrupted, interrupts, aborted>>

Ends(how) ==
    /\ process' = how
    /\ aborted' = Cardinality(Busy)
    /\ UNCHANGED <<main, parallelJobs, run, interrupted>>

\* SIGINT; its default action ends the process until Notify has been called
Interrupt ==
    /\ Up /\ main \in InMain
    /\ interrupts < MaxInterrupts
    /\ interrupts' = interrupts + 1
    /\ IF main = "spawning"
       THEN Ends("killed")
       ELSE /\ interrupted' = TRUE
            /\ UNCHANGED <<process, main, parallelJobs, run, aborted>>

\* SIGTERM is not among the signals of line 39
Terminate ==
    /\ Up /\ main \in InMain
    /\ interrupts < MaxInterrupts
    /\ interrupts' = interrupts + 1
    /\ Ends("killed")

\* line 40
TakeInterrupt ==
    /\ Up /\ main = "serving" /\ interrupted
    /\ interrupted' = FALSE /\ main' = "halting"
    /\ UNCHANGED <<process, parallelJobs, run, interrupts, aborted>>

\* pgq.Worker.Run: one turn of its loop
StartJob(g) ==
    /\ Up /\ run[g] = "select"
    /\ run' = [run EXCEPT ![g] = "job"]
    /\ UNCHANGED <<process, main, parallelJobs, interrupted, interrupts, aborted>>

EndJob(g) ==
    /\ Up /\ run[g] = "job"
    /\ run' = [run EXCEPT ![g] = "select"]
    /\ UNCHANGED <<process, main, parallelJobs, interrupted, interrupts, aborted>>

\* no job to perform: the goroutine sleeps for its polling interval
Sleep(g) ==
    /\ Up /\ run[g] = "select"
    /\ run' = [run EXCEPT ![g] = "asleep"]
    /\ UNCHANGED <<process, main, parallelJobs, interrupted, interrupts, aborted>>

Wake(g) ==
    /\ Up /\ run[g] = "asleep"
    /\ run' = [run EXCEPT ![g] = "select"]
    /\ UNCHANGED <<process, main, parallelJobs, interrupted, interrupts, aborted>>

\* the database is gone: Run returns an error, which is logged (lines 31-34)
Fail(g) ==
    /\ Up /\ run[g] = "select"
    /\ run' = [run EXCEPT ![g] = "failed"]
    /\ UNCHANGED <<process, main, parallelJobs, interrupted, interrupts, aborted>>

\* slip: a StopChan with a buffer takes the value while every goroutine is busy
StopBuffered ==
    /\ Up /\ main = "halting"
    /\ main' = "leaving"
    /\ UNCHANGED <<process, parallelJobs, run, interrupted, interrupts, aborted>>

\* slip: every goroutine has a channel, and main sends on the first
StopFirst ==
    /\ Up /\ main = "halting"
    /\ run[1] = "select"
    /\ run' = [run EXCEPT ![1] = "stopped"]
    /\ main' = "leaving"
    /\ UNCHANGED <<process, parallelJobs, interrupted, interrupts, aborted>>

\* line 41: main sends, a goroutine between two jobs receives
Stop ==
    /\ Up /\ main = "halting"
    /\ \E g \in Goroutine :
          /\ run[g] = "select"
          /\ run' = [run EXCEPT ![g] = "stopped"]
    /\ main' = "leaving"
    /\ UNCHANGED <<process, parallelJobs, interrupted, interrupts, aborted>>

\* RunWorker, Start and main return
Leave == Up /\ main = "leaving" /\ Ends("exited") /\ UNCHANGED interrupts

Turn(g) == StartJob(g) \/ Sleep(g) \/ Wake(g) \/ EndJob(g)

Next ==
    \/ Spawn \/ Install \/ Interrupt \/ Terminate \/ TakeInterrupt \/ Stop \/ Leave
    \/ \E g \in Goroutine : Turn(g) \/ Fail(g)

\* the goroutines run; a send that again and again finds a receiver goes through
Fairness ==
    /\ WF_vars(Spawn) /\ WF_vars(Install) /\ WF_vars(TakeInterrupt)
    /\ SF_vars(Stop) /\ WF_vars(Leave)
    /\ \A g \in Goroutine : WF_vars(Turn(g))

-----------------------------------------------------------------------------
TypeOK ==
    /\ parallelJobs \in Nat
    /\ run \in [Goroutine -> {"none", "select", "job", "asleep", "failed", "stopped"}]
    /\ interrupted \in BOOLEAN /\ interrupts \in 0 .. MaxInterrupts
    /\ aborted \in 0 .. Cardinality(Goroutine)

\* A worker that is interrupted never cuts off all of its jobs: one goroutine
\* at least has come to the end of its own (the others are not waited for).
OneGoroutineStops ==
    process = "exited" /\ main = "leaving" => aborted < parallelJobs

\* An interrupt ends the worker, unless Run has failed in every goroutine: then
\* nobody receives from StopChan, and main is blocked for good.  (A pool of no
\* goroutines would not do either: LoadConfig checks the very keys
\* GetWorkerConfig reads.)
AllFailed == Spawned # {} /\ \A g \in Spawned : run[g] = "failed"
WorkerStops == interrupted ~> process # "up" \/ AllFailed
=============================================================================
