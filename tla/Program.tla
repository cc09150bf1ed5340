------------------------------- MODULE Program -------------------------------
(***************************************************************************)
(* The process zebrahook (cmd/zebrahook/main.go): main reads the           *)
(* configuration and the flags and becomes the database setup, a worker    *)
(* (WorkerPool) or the API server (ServerLifecycle with RequestLog).       *)
(***************************************************************************)
EXTENDS Naturals, Sequences, FiniteSets

CONSTANTS
    Request, Torn, MaxSignals,      \* see ServerLifecycle
    Goroutine, MaxInterrupts,       \* see WorkerPool
    Flags,      \* command lines: records of setup, worker, server, newApiKey, host,
                \* port and domain
    Config      \* config files: records of read, dispatcher, eventMapping
                \* (parallelJobs), keyLength, header

\* see GetWorkerConfig for the numbers of parallel jobs, which are uint
ASSUME ProgramAssumption ==
    /\ IsFiniteSet(Goroutine) /\ Goroutine = 1 .. Cardinality(Goroutine)
    /\ MaxSignals \in Nat /\ MaxInterrupts \in Nat
    /\ \A c \in Config : c.dispatcher \in Nat /\ c.eventMapping \in Nat

VARIABLES
    process, main, flags, config,
    tables,     \* tables of the database
    fields, request, signaller, caught, signals, listener, shutdown, wg, expired,
    parallelJobs, run, interrupted, interrupts, aborted

serverVars == <<fields, request, signaller, caught, signals, listener, shutdown, wg, expired>>
poolVars == <<parallelJobs, run, interrupted, interrupts, aborted>>
ownVars == <<flags, config, tables>>
vars == <<process, main, ownVars, serverVars, poolVars>>

Server == INSTANCE ServerLifecycle
Pool == INSTANCE WorkerPool

\* in the order AutoMigrate creates them
Models == <<"endpoints", "api_keys", "events", "event_deliveries", "event_delivery_attempts">>
Upto(n) == {Models[i] : i \in 1 .. n}
AllTables == Upto(Len(Models)) \cup {"pgq_jobs"}

\* an earlier setup may have been interrupted anywhere
Init ==
    /\ process = "up" /\ main = "config"
    /\ flags \in Flags /\ config \in Config
    /\ tables \in IF flags.setup THEN {Upto(n) : n \in 0 .. Len(Models)} ELSE {AllTables}
    /\ parallelJobs = 0
    /\ Server!Init /\ Pool!Init

Up == process = "up"
Goes(from, to) == Up /\ main = from /\ main' = to /\ UNCHANGED process
Ends(from, how) == Up /\ main = from /\ process' = how /\ UNCHANGED main

-----------------------------------------------------------------------------
\* config.go 55-75: the file can be read and passes the sanity checks
Sane(c) ==
    /\ c.read
    /\ c.dispatcher > 0 /\ c.eventMapping > 0
    /\ c.keyLength > 8
    /\ c.header

LoadConfig ==
    /\ \/ Sane(config) /\ Goes("config", "flags")
       \/ ~Sane(config) /\ Ends("config", "panicked")
    /\ UNCHANGED <<ownVars, serverVars, poolVars>>

Serving == ~flags.setup /\ flags.worker = "" /\ flags.server

\* main.go 64-67, 132-145, 234-236: --setup before --worker before --server
Dispatch ==
    /\ \/ flags.setup /\ Goes("flags", "setup")
       \/ ~flags.setup /\ flags.worker \in {"eventMapping", "dispatcher"}
            /\ Goes("flags", "connecting")
       \/ Serving /\ Goes("flags", "connecting")
       \/ /\ ~flags.setup /\ ~Serving
          /\ flags.worker \notin {"eventMapping", "dispatcher"}
          /\ Ends("flags", "panicked")
    /\ UNCHANGED <<ownVars, serverVars, poolVars>>

\* gorm.Open: no database, no process
ConnectFails ==
    /\ Ends("connecting", "panicked") \/ Ends("setup", "panicked")
    /\ UNCHANGED <<ownVars, serverVars, poolVars>>

MigratedAll == Upto(Len(Models)) \subseteq tables

\* lines 94-104: AutoMigrate makes the first table that is missing
Migrate ==
    /\ Up /\ main = "setup"
    /\ \E n \in 1 .. Len(Models) :
          /\ Upto(n - 1) \subseteq tables /\ Models[n] \notin tables
          /\ tables' = tables \cup {Models[n]}
    /\ UNCHANGED <<process, main, flags, config, serverVars, poolVars>>

\* lines 106-129: what Exec returns is not looked at
CreateJobTable ==
    /\ Ends("setup", "exited")
    /\ MigratedAll
    /\ tables' \in {tables, tables \cup {"pgq_jobs"}}
    /\ UNCHANGED <<flags, config, serverVars, poolVars>>

\* GetWorkerConfig (config.go 107-116): the key is put together from the name
JobsOf(worker) == config[worker]

\* Start of the two workers, as far as RunWorker's loop
StartWorker ==
    /\ flags.worker # ""
    /\ Goes("connecting", "spawning")
    /\ parallelJobs' = JobsOf(flags.worker)
    /\ UNCHANGED <<ownVars, serverVars, run, interrupted, interrupts, aborted>>

\* main.go 143-160
StartServer ==
    /\ Serving
    /\ Goes("connecting", "server")
    /\ UNCHANGED <<ownVars, serverVars, poolVars>>

\* lines 177-190 (CreateAPIKey is an operation of Front), 193 and 221-223, and the
\* address: a port that is no number is no URL (199-203), a domain takes the place
\* of host and port and must name a port too (207-215)
StaysUp ==
    /\ ~flags.newApiKey /\ flags.host = "localhost"
    /\ flags.port = "number" /\ flags.domain \in {"", "host:port"}
LeaveEarly ==
    /\ ~StaysUp
    /\ Ends("ready", "exited")
    /\ UNCHANGED <<ownVars, serverVars, poolVars>>

\* lines 194-216
Launch ==
    /\ StaysUp
    /\ Goes("ready", "launching")
    /\ UNCHANGED <<ownVars, serverVars, poolVars>>

Next ==
    \/ LoadConfig \/ Dispatch \/ ConnectFails \/ Migrate \/ CreateJobTable
    \/ StartWorker \/ StartServer \/ LeaveEarly \/ Launch
    \/ Server!Next /\ UNCHANGED <<ownVars, poolVars>>
    \/ Pool!Next /\ UNCHANGED <<ownVars, serverVars>>

Spec == Init /\ [][Next]_vars /\ Server!Fairness /\ Pool!Fairness

-----------------------------------------------------------------------------
\* The parts keep their types.
TypeOK ==
    /\ Server!TypeOK /\ Pool!TypeOK
    /\ flags \in Flags /\ config \in Config
    /\ tables \subseteq AllTables

\* The promises of the parts (see there) in the process that holds them all:
\* a worker is stopped by an interrupt without cutting off all of its jobs;
OneGoroutineStops == Pool!OneGoroutineStops
WorkerStops == Pool!WorkerStops

\* a server stops when it is told to, answers what it accepted, and logs a
\* request that came alone under its own id.
ServerStops == Server!ServerStops
NoneCut == Server!NoneCut
LoneLine == Server!Log!LoneLine
=============================================================================
