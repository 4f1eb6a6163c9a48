-------------------------------- MODULE Lifecycle --------------------------------
(***************************************************************************)
(* Graceful shutdown of a process: the first signal arms the watchdog,     *)
(* drains the process and closes its connections to database, Redis and    *)
(* Kafka.  The API server's drain waits for its clients' sockets to close, *)
(* and cuts them a margin before the watchdog; the relay's waits for its   *)
(* tick and has no such force.                                             *)
(***************************************************************************)
EXTENDS Integers, FiniteSets

CONSTANTS Signals, Work, NoCode

ASSUME LifecycleAssumption == NoCode \notin Int

VARIABLES
    kind,      (* "http" or "relay"                                         *)
    listener,  (* signals that still have their once-handler                *)
    work,      (* the clients' requests, or the ticks, in progress          *)
    open,      (* the clients whose socket is open                          *)
    phase,     (* of the runner: "up", "drain", "close", "closed", "failed" *)
    armed,     (* timers: the watchdog's, and the one that forces the drain *)
    forceArmed,
    timedOut,  (* the runner's flag                                         *)
    flushing,  (* Sentry.flush is on the way, and exit(1) after it          *)
    exitCode

lifecycleVars ==
    <<kind, listener, work, open, phase, armed, forceArmed, timedOut, flushing, exitCode>>

LifecycleInit ==
    /\ kind \in {"http", "relay"}
    /\ listener = Signals
    /\ work = {} /\ open = {}
    /\ phase = "up"
    /\ armed = FALSE /\ forceArmed = FALSE
    /\ timedOut = FALSE /\ flushing = FALSE
    /\ exitCode = NoCode

Running == exitCode = NoCode

-----------------------------------------------------------------------------
(* Plausible defects, for the mutation runs *)

NeverArmed == FALSE
SuccessAnyway == 0

(* What the drain waits for: server.close has no socket left, whatever the *)
(* handlers do, or the tick in flight is over.                             *)
Drained == IF kind = "http" THEN open = {} ELSE work = {}

WatchdogArms == TRUE

(* exit(0), unless the watchdog has fired and will have its exit(1).       *)
ExitOfSuccess == IF timedOut THEN exitCode ELSE 0

-----------------------------------------------------------------------------

(* Until the drain begins, the server takes new sockets and the loop       *)
(* starts ticks, one at a time; a socket kept alive may bring one request  *)
(* after the other as long as it is open.                                  *)
Begin(w) ==
    /\ Running /\ w \notin work
    /\ phase = "up" \/ w \in open
    /\ kind = "relay" => work = {}
    /\ work' = work \cup {w}
    /\ open' = IF kind = "http" THEN open \cup {w} ELSE open
    /\ UNCHANGED <<kind, listener, phase, armed, forceArmed, timedOut, flushing, exitCode>>

(* The request is answered or the tick ends, after everything else too.    *)
Finish(w) ==
    /\ Running /\ w \in work
    /\ work' = work \ {w}
    /\ UNCHANGED <<kind, listener, open, phase, armed, forceArmed, timedOut, flushing, exitCode>>

(* A socket closes: after an answer, idle for too long, or by the client   *)
(* in the middle of a request, whose handler knows nothing of it.          *)
SocketCloses(w) ==
    /\ Running /\ w \in open
    /\ open' = open \ {w}
    /\ UNCHANGED <<kind, listener, work, phase, armed, forceArmed, timedOut, flushing, exitCode>>

(* Both handlers run the one runner, which starts once.  The drain begins  *)
(* with the idle sockets (closeIdleConnections).                           *)
Signal(s) ==
    /\ Running /\ s \in listener
    /\ listener' = listener \ {s}
    /\ IF phase = "up"
       THEN /\ phase' = "drain"
            /\ armed' = WatchdogArms
            /\ forceArmed' = (kind = "http")
            /\ open' = open \cap work
       ELSE UNCHANGED <<phase, armed, forceArmed, open>>
    /\ UNCHANGED <<kind, work, timedOut, flushing, exitCode>>

(* A signal again, its once-handler gone: the system's default ends the    *)
(* process on the spot.                                                    *)
SignalAgain(s) ==
    /\ Running /\ s \notin listener
    /\ exitCode' = 128
    /\ UNCHANGED <<kind, listener, work, open, phase, armed, forceArmed, timedOut, flushing>>

ForceClose ==
    /\ Running /\ forceArmed
    /\ open' = {} /\ forceArmed' = FALSE
    /\ UNCHANGED <<kind, listener, work, phase, armed, timedOut, flushing, exitCode>>

DrainEnds ==
    /\ Running /\ phase = "drain" /\ Drained
    /\ phase' = "close"
    /\ forceArmed' = FALSE
    /\ UNCHANGED <<kind, listener, work, open, armed, timedOut, flushing, exitCode>>

(* app.close has released everything.                                      *)
CloseEnds ==
    /\ Running /\ phase = "close"
    /\ phase' = "closed" /\ armed' = FALSE
    /\ exitCode' = ExitOfSuccess
    /\ UNCHANGED <<kind, listener, work, open, forceArmed, timedOut, flushing>>

(* The drain or the close rejects.                                         *)
ShutdownFails ==
    /\ Running /\ phase \in {"drain", "close"}
    /\ phase' = "failed" /\ armed' = FALSE /\ forceArmed' = FALSE
    /\ flushing' = TRUE
    /\ UNCHANGED <<kind, listener, work, open, timedOut, exitCode>>

(* SHUTDOWN_TIMEOUT_MS.  The force timer is due before it.                 *)
Watchdog ==
    /\ Running /\ armed /\ ~forceArmed
    /\ timedOut' = TRUE /\ armed' = FALSE
    /\ flushing' = TRUE
    /\ UNCHANGED <<kind, listener, work, open, phase, forceArmed, exitCode>>

(* SENTRY_FLUSH_MS at most.                                                *)
FlushEnds ==
    /\ Running /\ flushing
    /\ exitCode' = 1 /\ flushing' = FALSE
    /\ UNCHANGED <<kind, listener, work, open, phase, armed, forceArmed, timedOut>>

Timers == ForceClose \/ Watchdog \/ FlushEnds

LifecycleNext ==
    \/ \E w \in Work : Begin(w) \/ Finish(w) \/ SocketCloses(w)
    \/ \E s \in Signals : Signal(s) \/ SignalAgain(s)
    \/ Timers \/ DrainEnds \/ CloseEnds \/ ShutdownFails

(* The event loop runs timers that are due.                                *)
LifecycleFairness == WF_lifecycleVars(Timers)

-----------------------------------------------------------------------------
(* Properties *)

(* A shutdown that ran out of its budget or met an error is told as one,   *)
(* or cut short by a second signal, even when the drain and the close      *)
(* succeed between the watchdog and its exit: their exit(0) must not come  *)
(* first (createShutdownRunner's timedOut).                                *)
FailureIsTold == timedOut \/ phase = "failed" ~> exitCode \in {1, 128}

(* Once asked to, the process ends, though a request or a tick may never.  *)
ShutdownEnds == phase = "drain" ~> exitCode # NoCode
=============================================================================
