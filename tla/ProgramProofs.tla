---------------------------- MODULE ProgramProofs ----------------------------
(***************************************************************************)
(* The safety of Program for any number of requests, goroutines and        *)
(* signals, any command lines and any config files.  Each part has an      *)
(* invariant of its own; the parts share process and main only, and each   *)
(* works while main is in states of its own.                               *)
(***************************************************************************)
EXTENDS Program, FiniteSetTheorems, TLAPS

OwnStep ==
    LoadConfig \/ Dispatch \/ ConnectFails \/ Migrate \/ CreateJobTable
    \/ StartWorker \/ StartServer \/ LeaveEarly \/ Launch
ServerStep == Server!Next /\ UNCHANGED <<ownVars, poolVars>>
PoolStep == Pool!Next /\ UNCHANGED <<ownVars, serverVars>>

-----------------------------------------------------------------------------
(***************************************************************************)
(* The shared logger.                                                      *)
(***************************************************************************)
Ids == Request \cup {Torn}
Doing == Server!Log!Running \cup {"none", "answered", "closed", "cut"}
Local == [pc : Doing, copy : Seq(Ids), line : Seq(Ids), alone : BOOLEAN]
InFlight == Server!Log!InFlight

EndsWith(s, r) == Len(s) > 0 /\ s[Len(s)] = r

\* What a request that is alone finds and leaves in the logger is its own.
LogInv ==
    /\ fields \in Seq(Ids)
    /\ request \in [Request -> Local]
    /\ \A r \in InFlight : request[r].alone =>
          /\ InFlight = {r}
          /\ request[r].pc \in {"copied", "storing"} => EndsWith(request[r].copy, r)
          /\ request[r].pc \in {"stored", "handled"} => EndsWith(fields, r)
    /\ \A r \in Request : request[r].pc = "answered" /\ request[r].alone =>
          EndsWith(request[r].line, r)

Frame == UNCHANGED <<main, signaller, caught, signals, listener, shutdown, wg, expired>>

\* The steps that touch the logger, as one.
LogStep == \E r \in Request : Server!Log!Enter(r) \/ Server!Log!Step(r)

LEMMA SeenIsTyped ==
    ASSUME LogInv, NEW seen \in Server!Log!Seen
    PROVE  seen \in Seq(Ids)
<1>1. <<Torn>> \in Seq(Ids)
  BY DEF Ids
<1>2. \A q \in Request : request[q].copy \in Seq(Ids)
  BY DEF LogInv, Local
<1>3. seen = fields \/ seen = <<Torn>> \/ \E q \in Request : seen = request[q].copy
  BY DEF Server!Log!Seen, Server!Log!Storing
<1> QED
  BY <1>1, <1>2, <1>3 DEF LogInv

LEMMA OnePcChanges ==
    ASSUME LogInv, NEW r \in Request, NEW from, NEW to \in Doing, Server!Log!Goes(r, from, to)
    PROVE  /\ request' \in [Request -> Local]
           /\ request'[r].pc = to /\ request[r].pc = from
           /\ request'[r].copy = request[r].copy /\ request'[r].line = request[r].line
           /\ request'[r].alone = request[r].alone
           /\ \A q \in Request \ {r} : request'[q] = request[q]
BY DEF LogInv, Local, Server!Log!Goes

LEMMA LogInvStep ==
    ASSUME LogInv, NEW r \in Request, Server!Log!Step(r)
    PROVE  LogInv'
<1>1. request[r].pc \in Server!Log!Running
  BY DEF Server!Log!Step, Server!Log!CopyLogger, Server!Log!BeginStore, Server!Log!EndStore,
         Server!Log!Serve, Server!Log!Panics, Server!Log!LogLine, Server!Log!Goes,
         Server!Log!Running
<1>2. r \in InFlight
  BY <1>1 DEF InFlight, Server!Log!InFlight
<1>3. CASE Server!Log!CopyLogger(r)
  <2>1. PICK seen \in Server!Log!Seen :
            request' = [request EXCEPT ![r].pc = "copied",
                                       ![r].copy = Server!Log!WithId(seen, r)]
    BY <1>3 DEF Server!Log!CopyLogger
  <2>2. Server!Log!WithId(seen, r) \in Seq(Ids) /\ EndsWith(Server!Log!WithId(seen, r), r)
    BY <2>1, SeenIsTyped DEF Server!Log!WithId, EndsWith, Ids
  <2>3. request[r].pc = "entered" /\ fields' = fields
    BY <1>3 DEF Server!Log!CopyLogger
  <2>4. /\ request' \in [Request -> Local]
        /\ request'[r].pc = "copied" /\ request'[r].copy = Server!Log!WithId(seen, r)
        /\ request'[r].line = request[r].line /\ request'[r].alone = request[r].alone
        /\ \A q \in Request \ {r} : request'[q] = request[q]
    BY <2>1, <2>2 DEF LogInv, Local, Doing, Server!Log!Running
  <2>5. InFlight' = InFlight
    BY <1>2, <2>3, <2>4 DEF InFlight, Server!Log!InFlight, Server!Log!Running
  <2> QED
    BY <1>2, <2>2, <2>3, <2>4, <2>5 DEF LogInv, InFlight, Server!Log!InFlight
<1>4. CASE Server!Log!BeginStore(r)
  <2>1. Server!Log!Goes(r, "copied", "storing") /\ fields' = fields
    BY <1>4 DEF Server!Log!BeginStore
  <2>2. "storing" \in Doing
    BY DEF Doing, Server!Log!Running
  <2>3. InFlight' = InFlight
    BY <1>2, <2>1, <2>2, OnePcChanges DEF InFlight, Server!Log!InFlight, Server!Log!Running
  <2> QED
    BY <1>2, <2>1, <2>2, <2>3, OnePcChanges DEF LogInv, InFlight, Server!Log!InFlight
<1>5. CASE Server!Log!EndStore(r)
  <2>1. /\ Server!Log!Goes(r, "storing", "stored")
        /\ fields' \in {request[r].copy} \cup {<<Torn>> : q \in Server!Log!Storing \ {r}}
    BY <1>5 DEF Server!Log!EndStore
  <2>2. "stored" \in Doing
    BY DEF Doing, Server!Log!Running
  <2>3. InFlight' = InFlight
    BY <1>2, <2>1, <2>2, OnePcChanges DEF InFlight, Server!Log!InFlight, Server!Log!Running
  <2>4. fields' \in Seq(Ids)
    <3>1. <<Torn>> \in Seq(Ids)
      BY DEF Ids
    <3>2. request[r].copy \in Seq(Ids)
      BY DEF LogInv, Local
    <3> QED
      BY <2>1, <3>1, <3>2
  <2>5. ASSUME request[r].alone PROVE EndsWith(fields', r)
    <3>1. InFlight = {r} /\ EndsWith(request[r].copy, r)
      BY <1>2, <2>1, <2>5 DEF LogInv, Server!Log!Goes
    <3>2. Server!Log!Storing \subseteq InFlight
      BY DEF Server!Log!Storing, InFlight, Server!Log!InFlight, Server!Log!Running
    <3> QED
      BY <2>1, <3>1, <3>2
  <2> QED
    BY <1>2, <2>1, <2>2, <2>3, <2>4, <2>5, OnePcChanges
    DEF LogInv, InFlight, Server!Log!InFlight
<1>6. CASE Server!Log!Serve(r)
  <2>1. Server!Log!Goes(r, "stored", "handled") /\ fields' = fields
    BY <1>6 DEF Server!Log!Serve
  <2>2. "handled" \in Doing
    BY DEF Doing, Server!Log!Running
  <2>3. InFlight' = InFlight
    BY <1>2, <2>1, <2>2, OnePcChanges DEF InFlight, Server!Log!InFlight, Server!Log!Running
  <2> QED
    BY <1>2, <2>1, <2>2, <2>3, OnePcChanges DEF LogInv, InFlight, Server!Log!InFlight
<1>7. CASE Server!Log!Panics(r)
  <2>1. Server!Log!Goes(r, "stored", "closed") /\ fields' = fields
    BY <1>7 DEF Server!Log!Panics
  <2>2. "closed" \in Doing
    BY DEF Doing
  <2>3. InFlight' = InFlight \ {r}
    BY <1>2, <2>1, <2>2, OnePcChanges DEF InFlight, Server!Log!InFlight, Server!Log!Running
  <2> QED
    BY <1>2, <2>1, <2>2, <2>3, OnePcChanges DEF LogInv, InFlight, Server!Log!InFlight
<1>8. CASE Server!Log!LogLine(r)
  <2>1. PICK seen \in Server!Log!Seen :
            request' = [request EXCEPT ![r].pc = "answered", ![r].line = seen]
    BY <1>8 DEF Server!Log!LogLine
  <2>2. request[r].pc = "handled" /\ fields' = fields
    BY <1>8 DEF Server!Log!LogLine
  <2>3. /\ request' \in [Request -> Local]
        /\ request'[r].pc = "answered" /\ request'[r].copy = request[r].copy
        /\ request'[r].line = seen /\ request'[r].alone = request[r].alone
        /\ \A q \in Request \ {r} : request'[q] = request[q]
    BY <2>1, SeenIsTyped DEF LogInv, Local, Doing
  <2>4. InFlight' = InFlight \ {r}
    BY <1>2, <2>2, <2>3 DEF InFlight, Server!Log!InFlight, Server!Log!Running
  <2>5. ASSUME request[r].alone PROVE EndsWith(seen, r)
    <3>1. InFlight = {r} /\ EndsWith(fields, r)
      BY <1>2, <2>2, <2>5 DEF LogInv
    <3>2. Server!Log!Storing \subseteq InFlight \ {r}
      BY <2>2 DEF Server!Log!Storing, InFlight, Server!Log!InFlight, Server!Log!Running
    <3>3. Server!Log!Seen = {fields}
      BY <3>1, <3>2 DEF Server!Log!Seen
    <3> QED
      BY <3>1, <3>3
  <2> QED
    BY <1>2, <2>2, <2>3, <2>4, <2>5 DEF LogInv, InFlight, Server!Log!InFlight
<1> QED
  BY <1>3, <1>4, <1>5, <1>6, <1>7, <1>8 DEF Server!Log!Step

LEMMA LogInvEnter ==
    ASSUME LogInv, NEW r \in Request, Server!Log!Enter(r)
    PROVE  LogInv'
<1>1. request[r].pc = "none" /\ fields' = fields
  BY DEF Server!Log!Enter
<1>2. /\ request' \in [Request -> Local]
      /\ request'[r].pc = "entered" /\ request'[r].alone = (InFlight = {})
      /\ \A q \in InFlight : request'[q] = [request[q] EXCEPT !.alone = FALSE]
      /\ \A q \in Request \ (InFlight \cup {r}) : request'[q] = request[q]
  <2>1. r \notin InFlight
    BY <1>1 DEF InFlight, Server!Log!InFlight, Server!Log!Running
  <2>2. request' = [q \in Request |->
            IF q = r THEN [Server!Log!NotSent EXCEPT !.pc = "entered", !.alone = InFlight = {}]
            ELSE IF q \in InFlight THEN [request[q] EXCEPT !.alone = FALSE] ELSE request[q]]
    BY DEF Server!Log!Enter, InFlight
  <2>3. Server!Log!NotSent \in Local
    BY DEF Server!Log!NotSent, Local, Doing, Server!Log!Running
  <2>4. ASSUME NEW b \in BOOLEAN, NEW l,
               l = [Server!Log!NotSent EXCEPT !.pc = "entered", !.alone = b]
        PROVE  l \in Local /\ l.pc = "entered" /\ l.alone = b
    BY <2>3, <2>4 DEF Local, Doing, Server!Log!Running
  <2>5. \A q \in Request : [request[q] EXCEPT !.alone = FALSE] \in Local
    BY DEF LogInv, Local
  <2>6. request' \in [Request -> Local]
    BY <2>2, <2>3, <2>4, <2>5 DEF LogInv
  <2>7. \A q \in InFlight : q \in Request
    BY DEF InFlight, Server!Log!InFlight
  <2>8. request'[r].pc = "entered" /\ request'[r].alone = (InFlight = {})
    BY <2>2, <2>4
  <2>9. \A q \in InFlight : request'[q] = [request[q] EXCEPT !.alone = FALSE]
    BY <2>1, <2>2, <2>7
  <2> QED
    BY <2>2, <2>6, <2>8, <2>9
<1>3. \A q \in InFlight : q \in Request /\ request'[q].pc = request[q].pc /\ ~request'[q].alone
  BY <1>2 DEF LogInv, Local, InFlight, Server!Log!InFlight
<1>4. InFlight' = InFlight \cup {r}
  BY <1>2, <1>3 DEF InFlight, Server!Log!InFlight, Server!Log!Running
<1>5. \A q \in InFlight : request[q].pc # "answered"
  BY DEF InFlight, Server!Log!InFlight, Server!Log!Running
<1> QED
  BY <1>1, <1>2, <1>3, <1>4, <1>5 DEF LogInv

\* The end of the process cuts off who is in flight.
LEMMA LogInvExit ==
    ASSUME LogInv, Server!Exit
    PROVE  LogInv' /\ InFlight' = {}
<1>1. fields' = fields
  BY DEF Server!Exit
<1>2. request' = [r \in Request |->
          IF r \in InFlight THEN [request[r] EXCEPT !.pc = "cut"] ELSE request[r]]
  BY DEF Server!Exit, InFlight
<1>3. \A r \in Request : [request[r] EXCEPT !.pc = "cut"] \in Local
  BY DEF LogInv, Local, Doing
<1>4. request' \in [Request -> Local]
  BY <1>2, <1>3 DEF LogInv
<1>5. \A r \in InFlight : request'[r].pc = "cut"
  BY <1>2 DEF LogInv, Local, InFlight, Server!Log!InFlight
<1>6. \A r \in Request \ InFlight : request'[r] = request[r]
  BY <1>2
<1>7. InFlight' = {}
  BY <1>5, <1>6 DEF InFlight, Server!Log!InFlight, Server!Log!Running
<1>8. \A r \in Request : request'[r].pc = "answered" => request'[r] = request[r]
  BY <1>5, <1>6
<1> QED
  BY <1>1, <1>4, <1>7, <1>8 DEF LogInv

-----------------------------------------------------------------------------
(***************************************************************************)
(* The server and its shutdown.                                            *)
(***************************************************************************)
Stopping == {"waiting", "stopping", "joining"}

\* Main leaves once the wait group is empty, which it is when the shutdown
\* goroutine is done; and that one is done when nothing is in flight any more,
\* or its time is over.
ServerInv ==
    /\ Server!TypeOK
    /\ main \in Stopping <=> shutdown # "none"
    /\ wg = IF shutdown \in {"started", "watching", "closing"} THEN 1 ELSE 0
    /\ shutdown = "done" => InFlight = {} \/ expired
    /\ NoneCut

\* The steps of requests change none of it.
LEMMA ServerInvRequest ==
    ASSUME LogInv, ServerInv, LogInv',
           NEW r \in Request, Server!Accept(r) \/ Server!HandleRequest(r)
    PROVE  ServerInv'
<1>1. /\ UNCHANGED <<process, main, signaller, caught, signals, listener, shutdown, wg, expired>>
      /\ (Server!Log!Enter(r) /\ shutdown # "done") \/ Server!Log!Step(r)
  BY DEF Server!Accept, Server!HandleRequest, Server!Closed, Server!Log!Enter, Server!Log!Step,
         Server!Log!CopyLogger, Server!Log!BeginStore, Server!Log!EndStore, Server!Log!Serve,
         Server!Log!Panics, Server!Log!LogLine, Server!Log!Goes
<1>2. Server!TypeOK'
  BY <1>1 DEF ServerInv, Server!TypeOK, Server!Log!TypeOK, LogInv, Local, Doing,
              Ids, Server!Log!Ids
<1>3. ASSUME Server!Log!Step(r) PROVE r \in InFlight
  BY <1>3 DEF InFlight, Server!Log!InFlight, Server!Log!Running, Server!Log!Step,
              Server!Log!CopyLogger, Server!Log!BeginStore, Server!Log!EndStore,
              Server!Log!Serve, Server!Log!Panics, Server!Log!LogLine, Server!Log!Goes
<1>4. \A q \in Request : request'[q].pc = "cut" => request[q].pc = "cut"
  <2>1. CASE Server!Log!Enter(r)
    <3>1. request' = [q \in Request |->
              IF q = r THEN [Server!Log!NotSent EXCEPT !.pc = "entered", !.alone = InFlight = {}]
              ELSE IF q \in InFlight THEN [request[q] EXCEPT !.alone = FALSE] ELSE request[q]]
      BY <2>1 DEF Server!Log!Enter, InFlight
    <3>2. request'[r].pc = "entered"
      BY <3>1 DEF Server!Log!NotSent
    <3>3. \A q \in Request \ {r} : request'[q].pc = request[q].pc
      BY <3>1 DEF LogInv, Local
    <3> QED
      BY <3>2, <3>3
  <2>2. CASE Server!Log!Step(r)
    <3>1. \A q \in Request \ {r} : request'[q] = request[q]
      BY <2>2 DEF LogInv, Local, Server!Log!Step, Server!Log!CopyLogger, Server!Log!BeginStore,
                  Server!Log!EndStore, Server!Log!Serve, Server!Log!Panics, Server!Log!LogLine,
                  Server!Log!Goes
    <3>2. request'[r].pc \in {"copied", "storing", "stored", "handled", "closed", "answered"}
      BY <2>2 DEF LogInv, Local, Server!Log!Step, Server!Log!CopyLogger, Server!Log!BeginStore,
                  Server!Log!EndStore, Server!Log!Serve, Server!Log!Panics, Server!Log!LogLine,
                  Server!Log!Goes
    <3> QED
      BY <3>1, <3>2
  <2> QED
    BY <1>1, <2>1, <2>2
<1>5. NoneCut'
  BY <1>1, <1>4 DEF ServerInv, NoneCut, Server!NoneCut
<1>6. shutdown' = "done" => InFlight' = {} \/ expired'
  <2>1. SUFFICES ASSUME shutdown = "done", ~expired PROVE FALSE
    BY <1>1
  <2> QED
    BY <1>1, <1>3, <2>1 DEF ServerInv
<1> QED
  BY <1>1, <1>2, <1>5, <1>6 DEF ServerInv

\* The steps of the four goroutines, of the operator and of the timer.
LEMMA ServerInvStep ==
    ASSUME LogInv, ServerInv, LogInv', Server!Next
    PROVE  ServerInv'
<1> USE DEF ServerInv, Stopping, Server!TypeOK, Server!Up
<1>1. CASE \E r \in Request : Server!Accept(r) \/ Server!HandleRequest(r)
  BY <1>1, ServerInvRequest
<1>2. ASSUME UNCHANGED <<fields, request>>
      PROVE  Server!Log!TypeOK' /\ InFlight' = InFlight
             /\ (UNCHANGED expired => NoneCut')
  BY <1>2 DEF Server!Log!TypeOK, InFlight, Server!Log!InFlight, NoneCut, Server!NoneCut
<1>3. CASE Server!StartSignaller
  BY <1>2, <1>3 DEF Server!StartSignaller, Server!requests
<1>4. CASE Server!Notify
  BY <1>2, <1>4 DEF Server!Notify, Server!requests
<1>5. CASE Server!TakeSignal
  BY <1>2, <1>5 DEF Server!TakeSignal, Server!requests
<1>6. CASE Server!Serve
  BY <1>2, <1>6 DEF Server!Serve, Server!requests
<1>7. CASE Server!StartListener
  BY <1>2, <1>7 DEF Server!StartListener, Server!requests
<1>8. CASE Server!Listen
  BY <1>2, <1>8 DEF Server!Listen, Server!requests
<1>9. CASE Server!Receive
  BY <1>2, <1>9 DEF Server!Receive, Server!requests
<1>10. CASE Server!Cancel
  BY <1>2, <1>10 DEF Server!Cancel, Server!requests
<1>11. CASE Server!BeginShutdown
  BY <1>2, <1>11 DEF Server!BeginShutdown, Server!requests
<1>12. CASE Server!EndShutdown
  BY <1>2, <1>12 DEF Server!EndShutdown, Server!requests, Server!Drained, InFlight
<1>13. CASE Server!Exit
  <2>1. shutdown = "done" /\ shutdown' = shutdown
    BY <1>13 DEF Server!Exit
  <2>2. InFlight = {} \/ expired
    BY <2>1
  <2>3. InFlight' = {} /\ request' \in [Request -> Local]
    BY <1>13, LogInvExit DEF LogInv
  <2>4. NoneCut'
    <3>1. ASSUME InFlight = {} PROVE request' = request
      BY <1>13, <3>1 DEF Server!Exit, InFlight, LogInv
    <3> QED
      BY <1>13, <2>2, <3>1 DEF Server!Exit, NoneCut, Server!NoneCut
  <2>5. Server!Log!TypeOK'
    BY DEF Server!Log!TypeOK, LogInv, Local, Doing, Ids, Server!Log!Ids
  <2> QED
    BY <1>13, <2>3, <2>4, <2>5 DEF Server!Exit
<1>14. CASE Server!Expire
  <2>1. NoneCut'
    BY <1>14 DEF Server!Expire, NoneCut, Server!NoneCut
  <2>2. Server!TypeOK'
    BY <1>2, <1>14 DEF Server!Expire, Server!requests
  <2> QED
    BY <1>14, <2>1, <2>2 DEF Server!Expire
<1>15. CASE Server!Signal
  <2>1. UNCHANGED <<fields, request, main, signaller, listener, shutdown, wg, expired>>
    BY <1>15 DEF Server!Signal, Server!requests
  <2>2. process' \in {"up", "killed"} /\ caught' \in BOOLEAN
    BY <1>15 DEF Server!Signal
  <2>3. signals' \in 0 .. MaxSignals
    BY <1>15, ProgramAssumption DEF Server!Signal
  <2> QED
    BY <1>2, <2>1, <2>2, <2>3
<1>16. CASE Server!StopListening
  BY <1>2, <1>16 DEF Server!StopListening, Server!requests
<1> QED
  BY <1>1, <1>3, <1>4, <1>5, <1>6, <1>7, <1>8, <1>9, <1>10, <1>11, <1>12, <1>13, <1>14,
     <1>15, <1>16
  DEF Server!Next, Server!Goroutines

\* The other parts have no hand in it, and main is elsewhere when they work.
LEMMA ServerInvElsewhere ==
    ASSUME LogInv, ServerInv, OwnStep \/ PoolStep
    PROVE  LogInv' /\ ServerInv'
<1> USE DEF ServerInv, Stopping, Server!TypeOK
<1>1. UNCHANGED serverVars
  BY DEF OwnStep, PoolStep, LoadConfig, Dispatch, ConnectFails, Migrate, CreateJobTable,
         StartWorker, StartServer, LeaveEarly, Launch
<1>2. LogInv' /\ Server!Log!TypeOK' /\ InFlight' = InFlight /\ NoneCut'
  BY <1>1 DEF serverVars, LogInv, InFlight, Server!Log!InFlight, Server!Log!TypeOK,
              NoneCut, Server!NoneCut
<1>3. process' \in {"up", "exited", "killed", "panicked"}
  BY DEF OwnStep, PoolStep, LoadConfig, Dispatch, ConnectFails, Migrate, CreateJobTable,
         StartWorker, StartServer, LeaveEarly, Launch, Goes, Ends, Up, Pool!Next, Pool!Turn,
         Pool!Spawn, Pool!Install, Pool!Interrupt, Pool!Terminate, Pool!TakeInterrupt,
         Pool!StartJob, Pool!EndJob, Pool!Sleep, Pool!Wake, Pool!Fail, Pool!Stop, Pool!Leave,
         Pool!Ends
<1>4. main' = main \/ (main \notin Stopping /\ main' \notin Stopping)
  <2>1. CASE OwnStep
    BY <2>1 DEF OwnStep, LoadConfig, Dispatch, ConnectFails, Migrate, CreateJobTable,
                StartWorker, StartServer, LeaveEarly, Launch, Goes, Ends
  <2>2. CASE PoolStep
    BY <2>2 DEF PoolStep, Pool!Next, Pool!Turn, Pool!Spawn, Pool!Install, Pool!Interrupt,
                Pool!Terminate, Pool!TakeInterrupt, Pool!StartJob, Pool!EndJob, Pool!Sleep,
                Pool!Wake, Pool!Fail, Pool!Stop, Pool!Leave, Pool!Ends
  <2> QED
    BY <2>1, <2>2
<1> QED
  BY <1>1, <1>2, <1>3, <1>4 DEF serverVars

LEMMA ServerInvInit ==
    ASSUME Init
    PROVE  LogInv /\ ServerInv
<1>1. /\ fields = <<>> /\ request = [r \in Request |-> Server!Log!NotSent]
      /\ shutdown = "none" /\ main = "config"
  BY DEF Init, Server!Init, Server!Log!Init
<1>2. Server!Log!NotSent \in Local /\ Server!Log!NotSent.pc = "none"
  BY DEF Server!Log!NotSent, Local, Doing
<1>3. request \in [Request -> Local] /\ \A r \in Request : request[r].pc = "none"
  BY <1>1, <1>2
<1>4. InFlight = {}
  BY <1>3 DEF InFlight, Server!Log!InFlight, Server!Log!Running
<1>5. LogInv
  BY <1>1, <1>3, <1>4 DEF LogInv
<1>6. Server!TypeOK
  <2>1. Server!Log!TypeOK
    BY <1>5 DEF Server!Log!TypeOK, LogInv, Local, Doing, Ids, Server!Log!Ids
  <2>2. /\ process = "up" /\ signaller = "none" /\ caught = FALSE /\ signals = 0
        /\ listener = "none" /\ wg = 0 /\ expired = FALSE
    BY DEF Init, Server!Init
  <2>3. 0 \in 0 .. MaxSignals /\ 0 \in 0 .. 1
    BY ProgramAssumption
  <2> QED
    BY <1>1, <2>1, <2>2, <2>3 DEF Server!TypeOK
<1> QED
  BY <1>1, <1>3, <1>5, <1>6 DEF ServerInv, Stopping, NoneCut, Server!NoneCut, Init, Server!Init

-----------------------------------------------------------------------------
(***************************************************************************)
(* The command line, the config file and the tables.                       *)
(***************************************************************************)
SetupInv ==
    /\ flags \in Flags /\ config \in Config
    /\ tables \subseteq AllTables
    /\ main = "connecting" => flags.worker \in {"", "eventMapping", "dispatcher"}

LEMMA SetupInvInit ==
    ASSUME Init
    PROVE  SetupInv
<1>1. \A n \in 0 .. Len(Models) : Upto(n) \subseteq AllTables
  BY DEF Upto, AllTables
<1> QED
  BY <1>1 DEF Init, SetupInv

LEMMA SetupInvStep ==
    ASSUME SetupInv, OwnStep
    PROVE  SetupInv'
<1> USE DEF SetupInv, Goes, Ends, Up
<1>1. CASE LoadConfig
  BY <1>1 DEF LoadConfig, ownVars
<1>2. CASE Dispatch
  BY <1>2 DEF Dispatch, Serving, ownVars
<1>3. CASE ConnectFails
  BY <1>3 DEF ConnectFails, ownVars
<1>4. CASE Migrate
  <2>1. \A n \in 1 .. Len(Models) : Models[n] \in AllTables
    BY DEF AllTables, Upto
  <2> QED
    BY <1>4, <2>1 DEF Migrate
<1>5. CASE CreateJobTable
  <2>1. "pgq_jobs" \in AllTables
    BY DEF AllTables
  <2> QED
    BY <1>5, <2>1 DEF CreateJobTable
<1>6. CASE StartWorker \/ StartServer \/ LeaveEarly \/ Launch
  BY <1>6 DEF StartWorker, StartServer, LeaveEarly, Launch, ownVars
<1> QED
  BY <1>1, <1>2, <1>3, <1>4, <1>5, <1>6 DEF OwnStep

\* The parts leave the command line and the tables alone.
LEMMA SetupInvElsewhere ==
    ASSUME SetupInv, ServerInv, ServerStep \/ PoolStep
    PROVE  SetupInv'
<1>1. UNCHANGED ownVars
  BY DEF ServerStep, PoolStep
<1>2. /\ main \in {"server", "ready", "launching", "spawning", "serving", "halting", "leaving"}
                  \cup Stopping \/ UNCHANGED <<process, main>>
      /\ main' # "connecting" \/ UNCHANGED main
  <2>1. CASE ServerStep
    <3>1. CASE \E r \in Request : Server!Accept(r) \/ Server!HandleRequest(r)
      BY <3>1 DEF Server!Accept, Server!HandleRequest, Server!Log!Enter, Server!Log!Step,
                  Server!Log!CopyLogger, Server!Log!BeginStore, Server!Log!EndStore,
                  Server!Log!Serve, Server!Log!Panics, Server!Log!LogLine, Server!Log!Goes
    <3>2. CASE Server!Goroutines \/ Server!Expire \/ Server!Signal \/ Server!StopListening
      BY <3>2 DEF Server!Goroutines, Server!StartSignaller, Server!Notify, Server!TakeSignal,
                  Server!Serve, Server!StartListener, Server!Listen, Server!Receive,
                  Server!Cancel, Server!BeginShutdown, Server!EndShutdown, Server!Exit,
                  Server!Expire, Server!Signal, Server!StopListening, Server!InMain, Stopping
    <3> QED
      BY <2>1, <3>1, <3>2 DEF ServerStep, Server!Next
  <2>2. CASE PoolStep
    BY <2>2 DEF PoolStep, Pool!Next, Pool!Turn, Pool!Spawn, Pool!Install, Pool!Interrupt,
                Pool!Terminate, Pool!TakeInterrupt, Pool!StartJob, Pool!EndJob, Pool!Sleep,
                Pool!Wake, Pool!Fail, Pool!Stop, Pool!Leave, Pool!Ends, Pool!InMain
  <2> QED
    BY <2>1, <2>2
<1> QED
  BY <1>1, <1>2 DEF SetupInv, ownVars

-----------------------------------------------------------------------------
(***************************************************************************)
(* The pool.                                                               *)
(***************************************************************************)
State == {"none", "select", "job", "asleep", "failed", "stopped"}
N == Cardinality(Goroutine)

\* The goroutines are spawned in order, no more than asked for; and one of them
\* has taken the stop message when main leaves.
PoolInv ==
    /\ Pool!TypeOK
    /\ \E k \in 0 .. N : k <= parallelJobs /\ Pool!Spawned = 1 .. k
    /\ main \notin Pool!InMain => Pool!Spawned = {}
    /\ main = "leaving" => \E g \in Goroutine : run[g] = "stopped"
    /\ OneGoroutineStops

\* The pool counts as the program does.
LEMMA PoolCardinality == \A S : Pool!Cardinality(S) = Cardinality(S)
BY DEF Pool!Cardinality, Cardinality

LEMMA Counting ==
    /\ N \in Nat /\ Goroutine = 1 .. N
    /\ \A k \in Nat : IsFiniteSet(1 .. k) /\ Cardinality(1 .. k) = k
<1>1. N \in Nat
  BY ProgramAssumption, FS_CardinalityType DEF N
<1>2. ASSUME NEW k \in Nat PROVE IsFiniteSet(1 .. k) /\ Cardinality(1 .. k) = k
  BY FS_Interval
<1> QED
  BY <1>1, <1>2, ProgramAssumption DEF N

LEMMA BusyAreSpawned ==
    ASSUME PoolInv
    PROVE  /\ Cardinality(Pool!Busy) \in 0 .. N
           /\ main = "leaving" => Cardinality(Pool!Busy) < parallelJobs
<1>1. PICK k \in 0 .. N : k <= parallelJobs /\ Pool!Spawned = 1 .. k
  BY DEF PoolInv
<1>2. Pool!Busy \subseteq Pool!Spawned
  BY DEF Pool!Busy, Pool!Spawned
<1>3. k \in Nat /\ N \in Nat /\ IsFiniteSet(Pool!Spawned) /\ Cardinality(Pool!Spawned) = k
  BY <1>1, Counting
<1>4. Cardinality(Pool!Busy) \in Nat /\ Cardinality(Pool!Busy) <= k
  BY <1>2, <1>3, FS_Subset, FS_CardinalityType
<1>5. ASSUME main = "leaving" PROVE Cardinality(Pool!Busy) # k
  <2>1. PICK g \in Goroutine : run[g] = "stopped"
    BY <1>5 DEF PoolInv
  <2>2. g \in Pool!Spawned /\ g \notin Pool!Busy
    BY <2>1 DEF Pool!Spawned, Pool!Busy
  <2> QED
    BY <1>2, <1>3, <2>2, FS_Subset
<1> QED
  BY <1>1, <1>3, <1>4, <1>5 DEF PoolInv, Pool!TypeOK

\* A goroutine that goes on remains spawned, and one that was stopped stops there.
LEMMA PoolInvTurn ==
    ASSUME PoolInv, NEW g \in Goroutine, NEW to \in State \ {"none"},
           run[g] \notin {"none", "stopped"}, run' = [run EXCEPT ![g] = to],
           UNCHANGED <<process, parallelJobs, interrupted, interrupts, aborted>>,
           process = "up", main' \in Pool!InMain \cup {main},
           main' = "leaving" => main = "leaving" \/ to = "stopped"
    PROVE  PoolInv'
<1>1. Pool!TypeOK'
  BY DEF PoolInv, Pool!TypeOK, State
<1>2. Pool!Spawned' = Pool!Spawned
  BY DEF PoolInv, Pool!TypeOK, Pool!Spawned
<1>3. main' = "leaving" => \E h \in Goroutine : run'[h] = "stopped"
  BY DEF PoolInv, Pool!TypeOK
<1> QED
  BY <1>1, <1>2, <1>3 DEF PoolInv, OneGoroutineStops, Pool!OneGoroutineStops

\* Main alone is at work.
LEMMA PoolInvMain ==
    ASSUME PoolInv, process = "up", UNCHANGED <<parallelJobs, run>>,
           main' \in Pool!InMain \cup {main}, main' = "leaving" => main = "leaving",
           main \in Pool!InMain \/ main' = main,
           interrupted' \in BOOLEAN, interrupts' \in 0 .. MaxInterrupts,
           \/ process' # "exited" /\ UNCHANGED aborted
           \/ aborted' = Cardinality(Pool!Busy)
    PROVE  PoolInv'
<1>1. aborted' \in 0 .. N
  <2>1. Cardinality(Pool!Busy) \in 0 .. N
    BY BusyAreSpawned
  <2>2. aborted \in 0 .. N
    BY PoolCardinality DEF PoolInv, Pool!TypeOK, N
  <2> QED
    BY <2>1, <2>2
<1>2. Pool!TypeOK' /\ Pool!Spawned' = Pool!Spawned
  <2>1. parallelJobs' \in Nat /\ run' \in [Goroutine -> State]
    BY DEF PoolInv, Pool!TypeOK, State
  <2>2. Pool!Spawned' = Pool!Spawned
    BY DEF Pool!Spawned
  <2> QED
    BY <1>1, <2>1, <2>2, PoolCardinality DEF PoolInv, Pool!TypeOK, State, N
<1>3. OneGoroutineStops'
  BY BusyAreSpawned DEF OneGoroutineStops, Pool!OneGoroutineStops
<1> QED
  BY <1>2, <1>3 DEF PoolInv

LEMMA PoolInvStep ==
    ASSUME PoolInv, PoolStep
    PROVE  PoolInv'
<1> USE DEF Pool!Up, Pool!InMain, Pool!Ends
<1>1. CASE Pool!Spawn
  <2>1. PICK k \in 0 .. N : k <= parallelJobs /\ Pool!Spawned = 1 .. k
    BY DEF PoolInv
  <2>2. k \in Nat /\ Cardinality(Pool!Spawned) = k /\ parallelJobs \in Nat
    BY <2>1, Counting DEF PoolInv, Pool!TypeOK
  <2>3. /\ k + 1 <= parallelJobs /\ run' = [run EXCEPT ![k + 1] = "select"]
        /\ process = "up" /\ main = "spawning"
        /\ UNCHANGED <<process, main, parallelJobs, interrupted, interrupts, aborted>>
    <3>1. /\ process = "up" /\ main = "spawning" /\ k # parallelJobs
          /\ run' = [run EXCEPT ![Cardinality(Pool!Spawned) + 1] = "select"]
          /\ UNCHANGED <<process, main, parallelJobs, interrupted, interrupts, aborted>>
      BY <1>1, <2>2, PoolCardinality DEF Pool!Spawn, Pool!AllSpawned
    <3>2. k + 1 <= parallelJobs
      BY <2>1, <2>2, <3>1
    <3> QED
      BY <2>2, <3>1, <3>2
  <2>4. Pool!TypeOK'
    BY <2>3 DEF PoolInv, Pool!TypeOK
  <2>5. CASE k + 1 \in Goroutine
    <3>1. Pool!Spawned' = Pool!Spawned \cup {k + 1}
      BY <2>3, <2>5 DEF PoolInv, Pool!TypeOK, Pool!Spawned
    <3>2. Pool!Spawned' = 1 .. k + 1 /\ k + 1 \in 0 .. N
      BY <2>1, <2>2, <2>5, <3>1, Counting
    <3> QED
      BY <2>3, <2>4, <3>2 DEF PoolInv, OneGoroutineStops, Pool!OneGoroutineStops
  <2>6. CASE k + 1 \notin Goroutine
    <3>1. Pool!Spawned' = Pool!Spawned
      BY <2>3, <2>6 DEF PoolInv, Pool!TypeOK, Pool!Spawned
    <3> QED
      BY <2>1, <2>3, <2>4, <3>1 DEF PoolInv, OneGoroutineStops, Pool!OneGoroutineStops
  <2> QED
    BY <2>5, <2>6
<1>2. CASE Pool!Install \/ Pool!Interrupt \/ Pool!Terminate \/ Pool!TakeInterrupt \/ Pool!Leave
  <2>1. /\ process = "up" /\ UNCHANGED <<parallelJobs, run>>
        /\ main' \in Pool!InMain \cup {main} /\ (main' = "leaving" => main = "leaving")
        /\ main \in Pool!InMain \/ main' = main
    BY <1>2 DEF Pool!Install, Pool!Interrupt, Pool!Terminate, Pool!TakeInterrupt, Pool!Leave
  <2>2. interrupted' \in BOOLEAN
    BY <1>2 DEF PoolInv, Pool!TypeOK, Pool!Install, Pool!Interrupt, Pool!Terminate,
                Pool!TakeInterrupt, Pool!Leave
  <2>3. interrupts' \in 0 .. MaxInterrupts
    <3>1. \/ interrupts' = interrupts
          \/ interrupts < MaxInterrupts /\ interrupts' = interrupts + 1
      BY <1>2 DEF Pool!Install, Pool!Interrupt, Pool!Terminate, Pool!TakeInterrupt, Pool!Leave
    <3> QED
      BY <3>1, ProgramAssumption DEF PoolInv, Pool!TypeOK
  <2>4. \/ process' # "exited" /\ UNCHANGED aborted
        \/ aborted' = Cardinality(Pool!Busy)
    <3>1. CASE Pool!Install \/ Pool!TakeInterrupt
      BY <3>1 DEF Pool!Install, Pool!TakeInterrupt
    <3>2. CASE Pool!Interrupt
      BY <3>2, PoolCardinality DEF Pool!Interrupt
    <3>3. CASE Pool!Terminate \/ Pool!Leave
      BY <3>3, PoolCardinality DEF Pool!Terminate, Pool!Leave
    <3> QED
      BY <1>2, <3>1, <3>2, <3>3
  <2> QED
    BY <2>1, <2>2, <2>3, <2>4, PoolInvMain
<1>3. CASE Pool!Stop
  <2>1. PICK g \in Goroutine : run[g] = "select" /\ run' = [run EXCEPT ![g] = "stopped"]
    BY <1>3 DEF Pool!Stop
  <2>2. "stopped" \in State \ {"none"}
    BY DEF State
  <2> QED
    BY <1>3, <2>1, <2>2, PoolInvTurn DEF Pool!Stop
<1>4. CASE \E g \in Goroutine : Pool!Turn(g) \/ Pool!Fail(g)
  <2>1. PICK g \in Goroutine : Pool!Turn(g) \/ Pool!Fail(g)
    BY <1>4
  <2>2. /\ process = "up" /\ run[g] \notin {"none", "stopped"}
        /\ UNCHANGED <<process, main, parallelJobs, interrupted, interrupts, aborted>>
        /\ \E to \in State \ {"none"} : run' = [run EXCEPT ![g] = to]
    BY <2>1 DEF State, Pool!Turn, Pool!StartJob, Pool!EndJob, Pool!Sleep, Pool!Wake, Pool!Fail
  <2> QED
    BY <2>2, PoolInvTurn
<1> QED
  BY <1>1, <1>2, <1>3, <1>4 DEF PoolStep, Pool!Next

LEMMA PoolInvInit ==
    ASSUME Init
    PROVE  PoolInv
<1>1. /\ run = [g \in Goroutine |-> "none"] /\ parallelJobs = 0 /\ main = "config"
      /\ interrupted = FALSE /\ interrupts = 0 /\ aborted = 0
  BY DEF Init, Pool!Init
<1>2. Pool!Spawned = 1 .. 0 /\ 0 \in 0 .. N
  BY <1>1, Counting DEF Pool!Spawned
<1>3. 0 \in 0 .. MaxInterrupts /\ 0 \in 0 .. Cardinality(Goroutine)
  BY <1>2, ProgramAssumption DEF N
<1>4. Pool!TypeOK
  <2>1. run \in [Goroutine -> State]
    BY <1>1 DEF State
  <2> QED
    BY <1>1, <1>3, <2>1, PoolCardinality DEF Pool!TypeOK, State
<1> QED
  BY <1>1, <1>2, <1>4 DEF PoolInv, OneGoroutineStops, Pool!OneGoroutineStops

\* The number of goroutines is set before the first one is spawned.
LEMMA PoolInvElsewhere ==
    ASSUME PoolInv, SetupInv, OwnStep \/ ServerStep
    PROVE  PoolInv'
<1>1. /\ UNCHANGED <<run, interrupted, interrupts, aborted>>
      /\ \/ UNCHANGED parallelJobs
         \/ main = "connecting" /\ parallelJobs' \in Nat
  <2>1. CASE StartWorker
    <3>1. flags.worker \in {"eventMapping", "dispatcher"}
      BY <2>1 DEF StartWorker, Goes, SetupInv
    <3>2. config["eventMapping"] \in Nat /\ config["dispatcher"] \in Nat
      BY ProgramAssumption DEF SetupInv
    <3> QED
      BY <2>1, <3>1, <3>2 DEF StartWorker, JobsOf, Goes
  <2>2. ASSUME ~StartWorker PROVE UNCHANGED poolVars
    BY <2>2 DEF OwnStep, ServerStep, LoadConfig, Dispatch, ConnectFails, Migrate,
                CreateJobTable, StartServer, LeaveEarly, Launch
  <2> QED
    BY <2>1, <2>2 DEF poolVars
<1>2. /\ main \notin Pool!InMain \/ UNCHANGED <<process, main>>
      /\ main' \in Pool!InMain => main' = main \/ main' = "spawning"
  <2>1. CASE OwnStep
    BY <2>1 DEF OwnStep, LoadConfig, Dispatch, ConnectFails, Migrate, CreateJobTable,
                StartWorker, StartServer, LeaveEarly, Launch, Goes, Ends, Pool!InMain
  <2>2. CASE ServerStep
    <3>1. CASE \E r \in Request : Server!Accept(r) \/ Server!HandleRequest(r)
      BY <3>1 DEF Server!Accept, Server!HandleRequest, Server!Log!Enter, Server!Log!Step,
                  Server!Log!CopyLogger, Server!Log!BeginStore, Server!Log!EndStore,
                  Server!Log!Serve, Server!Log!Panics, Server!Log!LogLine, Server!Log!Goes
    <3>2. CASE Server!Goroutines \/ Server!Expire \/ Server!Signal \/ Server!StopListening
      BY <3>2 DEF Server!Goroutines, Server!StartSignaller, Server!Notify, Server!TakeSignal,
                  Server!Serve, Server!StartListener, Server!Listen, Server!Receive,
                  Server!Cancel, Server!BeginShutdown, Server!EndShutdown, Server!Exit,
                  Server!Expire, Server!Signal, Server!StopListening, Server!InMain,
                  Pool!InMain
    <3> QED
      BY <2>2, <3>1, <3>2 DEF ServerStep, Server!Next
  <2> QED
    BY <2>1, <2>2
<1>3. Pool!TypeOK' /\ Pool!Spawned' = Pool!Spawned
  <2>1. parallelJobs' \in Nat /\ run' \in [Goroutine -> State]
    BY <1>1 DEF PoolInv, Pool!TypeOK, State
  <2>2. Pool!Spawned' = Pool!Spawned
    BY <1>1 DEF Pool!Spawned
  <2> QED
    BY <1>1, <2>1, <2>2 DEF PoolInv, Pool!TypeOK, State
<1>4. \E k \in 0 .. N : k <= parallelJobs' /\ Pool!Spawned' = 1 .. k
  <2>1. CASE UNCHANGED parallelJobs
    BY <1>3, <2>1 DEF PoolInv
  <2>2. CASE main = "connecting" /\ parallelJobs' \in Nat
    <3>1. Pool!Spawned' = 1 .. 0
      BY <1>3, <2>2 DEF PoolInv, Pool!InMain
    <3>2. 0 \in 0 .. N
      BY Counting
    <3> QED
      BY <2>2, <3>1, <3>2
  <2> QED
    BY <1>1, <2>1, <2>2
<1>5. main' \notin Pool!InMain => Pool!Spawned' = {}
  BY <1>2, <1>3 DEF PoolInv
<1>6. main' = "leaving" => main = "leaving" /\ process' = process
  BY <1>2 DEF Pool!InMain
<1>7. main = "leaving" => UNCHANGED parallelJobs
  BY <1>1
<1> QED
  BY <1>1, <1>3, <1>4, <1>5, <1>6, <1>7 DEF PoolInv, OneGoroutineStops, Pool!OneGoroutineStops

-----------------------------------------------------------------------------
(***************************************************************************)
(* Theorems.                                                               *)
(***************************************************************************)
IInv == LogInv /\ ServerInv /\ SetupInv /\ PoolInv

LEMMA InvInit == Init => IInv
BY ServerInvInit, SetupInvInit, PoolInvInit DEF IInv

LEMMA InvStep == IInv /\ [Next]_vars => IInv'
<1> SUFFICES ASSUME IInv, [Next]_vars PROVE IInv'
  OBVIOUS
<1> USE DEF IInv
<1>1. CASE OwnStep
  BY <1>1, ServerInvElsewhere, SetupInvStep, PoolInvElsewhere
<1>2. CASE ServerStep
  <2>1. LogInv'
    <3>1. CASE \E r \in Request : Server!Accept(r) \/ Server!HandleRequest(r)
      BY <3>1, LogInvEnter, LogInvStep DEF Server!Accept, Server!HandleRequest
    <3>2. CASE Server!Exit
      BY <3>2, LogInvExit
    <3>3. CASE UNCHANGED <<fields, request>>
      BY <3>3 DEF LogInv, InFlight, Server!Log!InFlight
    <3> QED
      BY <1>2, <3>1, <3>2, <3>3
      DEF ServerStep, Server!Next, Server!Goroutines, Server!requests, Server!StartSignaller,
          Server!Notify, Server!TakeSignal, Server!Serve, Server!StartListener, Server!Listen,
          Server!Receive, Server!Cancel, Server!BeginShutdown, Server!EndShutdown,
          Server!Expire, Server!Signal, Server!StopListening
  <2>2. ServerInv'
    BY <1>2, <2>1, ServerInvStep DEF ServerStep
  <2> QED
    BY <1>2, <2>1, <2>2, SetupInvElsewhere, PoolInvElsewhere
<1>3. CASE PoolStep
  BY <1>3, ServerInvElsewhere, SetupInvElsewhere, PoolInvStep
<1>4. CASE UNCHANGED vars
  <2>1. LogInv' /\ InFlight' = InFlight
    BY <1>4 DEF vars, serverVars, LogInv, InFlight, Server!Log!InFlight
  <2>2. ServerInv'
    BY <1>4, <2>1 DEF vars, serverVars, ServerInv, Server!TypeOK, Server!Log!TypeOK, NoneCut,
                      Server!NoneCut
  <2>3. SetupInv'
    BY <1>4 DEF vars, ownVars, SetupInv
  <2>4. PoolInv'
    BY <1>4 DEF vars, poolVars, PoolInv, Pool!TypeOK, Pool!Spawned, OneGoroutineStops,
                Pool!OneGoroutineStops
  <2> QED
    BY <2>1, <2>2, <2>3, <2>4
<1> QED
  BY <1>1, <1>2, <1>3, <1>4 DEF Next, OwnStep, ServerStep, PoolStep

LEMMA Invariance == Spec => []IInv
BY InvInit, InvStep, PTL DEF Spec

\* Every variable of the process keeps its type; in particular the wait group
\* never becomes negative, which would be a panic.
THEOREM TypeCorrectness == Spec => []TypeOK
<1>1. IInv => TypeOK
  BY DEF IInv, ServerInv, SetupInv, PoolInv, TypeOK
<1> QED
  BY <1>1, Invariance, PTL

\* However many requests are in flight, a server that stops by itself cuts one
\* off only when the 30 seconds of the shutdown are over (http.go:133).
THEOREM OnlyTimeCutsOff == Spec => []NoneCut
<1>1. IInv => NoneCut
  BY DEF IInv, ServerInv
<1> QED
  BY <1>1, Invariance, PTL

\* Whatever requests came before, and however their stores were torn, a request
\* that shared the server with no other is logged under its own id.
THEOREM LoneRequestsKeepTheirId == Spec => []LoneLine
<1>1. IInv => LoneLine
  BY DEF IInv, LogInv, EndsWith, LoneLine, Server!Log!LoneLine
<1> QED
  BY <1>1, Invariance, PTL

\* For every number of goroutines: the process of an interrupted worker ends
\* with fewer jobs cut off than it has goroutines.
THEOREM OneIsWaitedFor == Spec => []OneGoroutineStops
<1>1. IInv => OneGoroutineStops
  BY DEF IInv, PoolInv
<1> QED
  BY <1>1, Invariance, PTL
=============================================================================
