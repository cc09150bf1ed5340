--------------------------- MODULE ServerLifecycle ---------------------------
(***************************************************************************)
(* The API server from its start to its end: the server branch of main     *)
(* (cmd/zebrahook/main.go) and handleHTTPServer (http.go).  Four           *)
(* goroutines: main, which waits for one message on the channel errc; the  *)
(* signal goroutine and the one that runs ListenAndServe, which both send  *)
(* on errc (no buffer); and the one that shuts the server down once main   *)
(* has cancelled the context.                                              *)
(***************************************************************************)
EXTENDS Naturals, FiniteSets

CONSTANTS
    Request, Torn,
    MaxSignals      \* bound: SIGINT or SIGTERM sent to the process

VARIABLES
    process, fields, request,   \* see RequestLog
    main,       \* "server", "ready", "launching", "waiting", "stopping", "joining"
    signaller,  \* the signal goroutine
    caught,     \* a signal in the channel c (buffer of one)
    signals,    \* how many signals were sent
    listener,   \* the goroutine of ListenAndServe
    shutdown,   \* the shutdown goroutine
    wg,         \* the wait group
    expired     \* the 30 seconds of the shutdown are over

vars == <<process, fields, request, main, signaller, caught, signals,
          listener, shutdown, wg, expired>>
requests == <<fields, request>>

Log == INSTANCE RequestLog

Init ==
    /\ signaller = "none" /\ caught = FALSE /\ signals = 0
    /\ listener = "none" /\ shutdown = "none" /\ wg = 0 /\ expired = FALSE
    /\ Log!Init

Up == process = "up"
InMain == {"server", "ready", "launching", "waiting", "stopping", "joining"}

\* main.go 166-172: the signal goroutine is started
StartSignaller ==
    /\ Up /\ main = "server"
    /\ main' = "ready" /\ signaller' = "started"
    /\ UNCHANGED <<process, requests, caught, signals, listener, shutdown, wg, expired>>

\* line 170
Notify ==
    /\ Up /\ signaller = "started"
    /\ signaller' = "waiting"
    /\ UNCHANGED <<process, requests, main, caught, signals, listener, shutdown, wg, expired>>

\* the default action of a signal before Notify ends the process; after it the
\* channel takes one signal, and drops those that find it full
Signal ==
    /\ Up /\ main \in InMain
    /\ signals < MaxSignals
    /\ signals' = signals + 1
    /\ IF signaller \in {"none", "started"}
       THEN process' = "killed" /\ UNCHANGED caught
       ELSE caught' = TRUE /\ UNCHANGED process
    /\ UNCHANGED <<requests, main, signaller, listener, shutdown, wg, expired>>

\* line 171: <-c, once
TakeSignal ==
    /\ Up /\ signaller = "waiting" /\ caught
    /\ caught' = FALSE /\ signaller' = "sending"
    /\ UNCHANGED <<process, requests, main, signals, listener, shutdown, wg, expired>>

\* main.go 192-218, http.go 113-121
Serve ==
    /\ Up /\ main = "launching"
    /\ main' = "waiting" /\ wg' = wg + 1 /\ shutdown' = "started"
    /\ UNCHANGED <<process, requests, signaller, caught, signals, listener, expired>>

\* http.go 125-130
StartListener ==
    /\ Up /\ shutdown = "started"
    /\ shutdown' = "watching" /\ listener' = "starting"
    /\ UNCHANGED <<process, requests, main, signaller, caught, signals, wg, expired>>

Closed == shutdown \in {"closing", "done"}

\* line 127: the port is bound, or not; after Shutdown it is not even tried
Listen ==
    /\ Up /\ listener = "starting"
    /\ listener' \in IF Closed THEN {"returning"} ELSE {"listening", "returning"}
    /\ UNCHANGED <<process, requests, main, signaller, caught, signals, shutdown, wg, expired>>

\* Accept fails for good, or Shutdown has closed the listener
StopListening ==
    /\ Up /\ listener = "listening"
    /\ listener' = "returning"
    /\ UNCHANGED <<process, requests, main, signaller, caught, signals, shutdown, wg, expired>>

Accept(r) ==
    /\ listener = "listening" /\ ~Closed
    /\ Log!Enter(r)
    /\ UNCHANGED <<main, signaller, caught, signals, listener, shutdown, wg, expired>>

HandleRequest(r) ==
    /\ Log!Step(r)
    /\ UNCHANGED <<main, signaller, caught, signals, listener, shutdown, wg, expired>>

\* main.go 226-230: whoever sends first on errc; the other one stays blocked
Receive ==
    /\ Up /\ main = "waiting"
    /\ main' = "stopping"
    /\ \/ signaller = "sending" /\ signaller' = "sent" /\ UNCHANGED listener
       \/ listener = "returning" /\ listener' = "sent" /\ UNCHANGED signaller
    /\ UNCHANGED <<process, requests, caught, signals, shutdown, wg, expired>>

\* line 230
Cancel ==
    /\ Up /\ main = "stopping"
    /\ main' = "joining"
    /\ UNCHANGED <<process, requests, signaller, caught, signals, listener, shutdown, wg, expired>>

\* http.go 130-137: Shutdown closes the listener and waits
BeginShutdown ==
    /\ Up /\ shutdown = "watching" /\ main = "joining"
    /\ shutdown' = "closing"
    /\ UNCHANGED <<process, requests, main, signaller, caught, signals, listener, wg, expired>>

Expire ==
    /\ Up /\ shutdown = "closing" /\ ~expired
    /\ expired' = TRUE
    /\ UNCHANGED <<process, requests, main, signaller, caught, signals, listener, shutdown, wg>>

\* slips: Shutdown called with a context that never ends; with the cancelled one
IdleOnly == Log!InFlight = {}
AtOnce == TRUE

\* Shutdown returns when no request is in flight, or its context ends
Drained == Log!InFlight = {} \/ expired

\* slip: Done is called after Shutdown, and by the defer
EndShutdownTwice ==
    /\ Up /\ shutdown = "closing"
    /\ Drained
    /\ shutdown' = "done" /\ wg' = wg - 2
    /\ UNCHANGED <<process, requests, main, signaller, caught, signals, listener, expired>>

\* line 122 and 137
EndShutdown ==
    /\ Up /\ shutdown = "closing"
    /\ Drained
    /\ shutdown' = "done" /\ wg' = wg - 1
    /\ UNCHANGED <<process, requests, main, signaller, caught, signals, listener, expired>>

\* main.go 232-237: main returns, and every other goroutine is gone
Exit ==
    /\ Up /\ main = "joining" /\ wg = 0
    /\ process' = "exited"
    /\ request' = [r \in Request |->
           IF r \in Log!InFlight THEN [request[r] EXCEPT !.pc = "cut"] ELSE request[r]]
    /\ UNCHANGED <<fields, main, signaller, caught, signals, listener, shutdown, wg, expired>>

Goroutines ==
    \/ StartSignaller \/ Notify \/ TakeSignal \/ Serve \/ StartListener \/ Listen
    \/ Receive \/ Cancel \/ BeginShutdown \/ EndShutdown \/ Exit

Next ==
    \/ Goroutines \/ Expire \/ Signal \/ StopListening
    \/ \E r \in Request : Accept(r) \/ HandleRequest(r)

\* every goroutine is scheduled, a timer fires, and a handler need not end
Fairness ==
    /\ WF_vars(StartSignaller) /\ WF_vars(Notify) /\ WF_vars(TakeSignal) /\ WF_vars(Serve)
    /\ WF_vars(StartListener) /\ WF_vars(Receive) /\ WF_vars(Cancel)
    /\ WF_vars(BeginShutdown) /\ WF_vars(Expire) /\ WF_vars(EndShutdown) /\ WF_vars(Exit)

-----------------------------------------------------------------------------
TypeOK ==
    /\ Log!TypeOK
    /\ process \in {"up", "exited", "killed", "panicked"}
    /\ signaller \in {"none", "started", "waiting", "sending", "sent"}
    /\ caught \in BOOLEAN /\ signals \in 0 .. MaxSignals
    /\ listener \in {"none", "starting", "listening", "returning", "sent"}
    /\ shutdown \in {"none", "started", "watching", "closing", "done"}
    /\ wg \in 0 .. 1 /\ expired \in BOOLEAN

\* A server that stops by itself answers every request it has accepted: only
\* the 30 seconds of the shutdown can cut one off (http.go:133).
NoneCut == (\E r \in Request : request[r].pc = "cut") => expired

\* A server that was asked to stop, or that cannot listen any more, ends, even
\* when a handler never returns: the senders on errc that nobody receives from
\* and the signals that are dropped keep no one from leaving.
ServerStops == (caught \/ listener = "returning") /\ main = "waiting" ~> process # "up"
=============================================================================
