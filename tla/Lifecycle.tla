----------------------------- MODULE Lifecycle ------------------------------
(***************************************************************************)
(* The life of one service process: its start, step by step, the calls it  *)
(* serves, its NATS connection and background worker, and its end          *)
(* (internal/platform: run, db, natsconn, httpserver; the mains in         *)
(* services/*/cmd).  Services.tla says what each main does; the behaviours *)
(* of all mains are those of this module, one main per behaviour.          *)
(*                                                                         *)
(* Time passes only while a service stops; a call may hang for ever.       *)
(* Postgres and NATS (external) go away and come back.                     *)
(***************************************************************************)
EXTENDS Services, Integers, FiniteSets

CONSTANTS
    Calls,          \* requests in progress at once
    Setups,         \* the deployments considered: main, prod, outages, ...
    MaxReconnects,  \* NATS_MAX_RECONNECTS
    StopTimeout     \* ticks a graceful stop waits for its calls

ASSUME LifecycleAssumption ==
    /\ \A s \in Setups : s.main \in Mains /\ s.prod \in BOOLEAN /\ s.outages \in Nat
    /\ MaxReconnects \in Nat \ {0}
    /\ StopTimeout \in Nat \ {0}

VARIABLES
    setup,          \* the deployment, chosen once
    phase,          \* of the process
    step,           \* next step of the start
    stores,         \* what the stores of the process are
    conn, attempts, \* its NATS connection and the reconnects tried since it broke
    worker,         \* its background goroutine
    running,        \* calls in progress
    waited,         \* ticks since the graceful stop began
    natsUp, dbUp, outages,
    cut             \* history: what ended the last process that had calls in progress

envVars == <<natsUp, dbUp, outages>>
procVars == <<phase, step, stores, conn, attempts, worker, waited, cut>>
lifeVars == <<setup, procVars, running, envVars>>

main == setup.main

\* Every variable keeps its type.
LifecycleTypes ==
    /\ setup \in Setups
    /\ phase \in {"down", "starting", "serving", "stopping"}
    /\ step \in 0 .. Len(main.start) + 1
    /\ stores \in SUBSET {"postgres", "memory", "nil"}
    /\ conn \in {"none", "open", "lost", "closed"}
    /\ attempts \in 0 .. MaxReconnects
    /\ worker \in {"off", "new", "running", "ended"}
    /\ running \in SUBSET Calls
    /\ waited \in 0 .. StopTimeout
    /\ natsUp \in BOOLEAN /\ dbUp \in BOOLEAN
    /\ outages \in 0 .. setup.outages
    /\ cut \in {"none", "start", "stop", "timeout", "panic", "worker"}

LifecycleInit ==
    /\ setup \in Setups
    /\ phase = "down" /\ step = 0 /\ stores = {} /\ waited = 0
    /\ conn = "none" /\ attempts = 0 /\ worker = "off"
    /\ running = {}
    /\ natsUp = TRUE /\ dbUp = TRUE /\ outages = 0
    /\ cut = "none"

\* The process is gone, and with it what it held.
End(why) ==
    /\ phase' = "down" /\ step' = 0 /\ stores' = {} /\ waited' = 0
    /\ conn' = "none" /\ attempts' = 0 /\ worker' = "off"
    /\ running' = {}
    /\ cut' = IF running # {} THEN why ELSE cut

-----------------------------------------------------------------------------
(* Plausible bugs, each a variant of the operator of the same name below.  *)

\* GracefulStop alone, without the timer.
MayEndOnlyDrained == running = {}
\* The error of the worker is logged and forgotten.
WorkerEndForgotten ==
    /\ worker' = "ended"
    /\ UNCHANGED <<phase, step, stores, conn, attempts, running, waited, cut>>

-----------------------------------------------------------------------------
(* Start.                                                                  *)

Start ==
    /\ phase = "down"
    /\ phase' = "starting"
    /\ step' = 1
    /\ UNCHANGED <<setup, stores, conn, attempts, worker, running, waited, cut, envVars>>

\* db.Open: pings for 30 seconds.  When they all fail, the error it returns is
\* the one of NewWithConfig, nil: the service goes on with a nil pool.
Open == stores' = stores \cup {IF dbUp THEN "postgres" ELSE "nil"} /\ UNCHANGED conn

\* initRatings, initComments, initPool: the fallback of a development machine.
OpenOrMemory ==
    /\ dbUp \/ ~setup.prod
    /\ stores' = stores \cup {IF dbUp THEN "postgres" ELSE "memory"}
    /\ UNCHANGED conn

\* natsconn.Connect, with RetryOnFailedConnect(false).
Connect(required) ==
    /\ natsUp \/ ~required
    /\ conn' = IF natsUp THEN "open" ELSE "none"
    /\ UNCHANGED stores

Succeeds(k) ==
    CASE k = "db" -> Open
      [] k = "store" -> OpenOrMemory
      [] k = "nats" -> Connect(TRUE)
      [] k = "natsprod" -> Connect(setup.prod)
      [] k = "natsopt" -> Connect(FALSE)
      [] OTHER -> UNCHANGED <<stores, conn>>

StartStep ==
    /\ phase = "starting"
    /\ step <= Len(main.start)
    /\ Succeeds(main.start[step])
    /\ step' = step + 1
    /\ UNCHANGED <<setup, phase, attempts, worker, running, waited, cut, envVars>>

\* Any step may fail and end the process; so does a signal before the handler
\* for it is installed, and a query on a nil pool.  Nothing makes it fail: the
\* queries of a start have no deadline, and one that gets no answer waits on.
StartFails ==
    /\ phase = "starting"
    /\ End("start")
    /\ UNCHANGED <<setup, envVars>>

Serve ==
    /\ phase = "starting"
    /\ step > Len(main.start)
    /\ phase' = "serving"
    /\ worker' = IF main.worker = "none" \/ conn = "none" THEN "off" ELSE "new"
    /\ UNCHANGED <<setup, step, stores, conn, attempts, running, waited, cut, envVars>>

-----------------------------------------------------------------------------
(* Calls.                                                                  *)

BeginCall(c) ==
    /\ phase = "serving"
    /\ main.server # "none"
    /\ running' = running \cup {c}
    /\ UNCHANGED <<setup, procVars, envVars>>

EndCall(c) ==
    /\ running' = running \ {c}
    /\ UNCHANGED <<setup, procVars, envVars>>

\* A gRPC handler or a worker that uses the nil pool takes the process down; the
\* HTTP router recovers from panics.
Panic ==
    /\ "nil" \in stores
    /\ \/ main.server = "grpc" /\ running # {}
       \/ worker = "running"
    /\ End("panic")
    /\ UNCHANGED <<setup, envVars>>

-----------------------------------------------------------------------------
(* The NATS connection and the worker.                                     *)

\* nats.go: the connection breaks, is tried again, and is closed for good once
\* MaxReconnects attempts have failed.
Reconnect ==
    /\ conn = "lost"
    /\ IF natsUp
       THEN conn' = "open" /\ attempts' = 0
       ELSE /\ attempts' = attempts + 1
            /\ conn' = IF attempts + 1 = MaxReconnects THEN "closed" ELSE "lost"
    /\ UNCHANGED <<setup, phase, step, stores, worker, running, waited, cut, envVars>>

Break ==
    /\ conn = "open" /\ ~natsUp
    /\ conn' = "lost"
    /\ UNCHANGED <<setup, phase, step, stores, attempts, worker, running, waited, cut, envVars>>

\* EnsureStream, the subscription: the loop is entered.
WorkerStarts ==
    /\ worker = "new" /\ conn = "open"
    /\ worker' = "running"
    /\ UNCHANGED <<setup, phase, step, stores, conn, attempts, running, waited, cut, envVars>>

\* What the main does with the error its worker returns.
WorkerEnd ==
    \/ main.worker = "exits" /\ End("worker")
    \/ /\ main.worker = "stops"
       /\ phase' = "stopping" /\ worker' = "ended"
       /\ UNCHANGED <<step, stores, conn, attempts, running, waited, cut>>
    \/ /\ main.worker = "logs"
       /\ worker' = "ended"
       /\ UNCHANGED <<phase, step, stores, conn, attempts, running, waited, cut>>

\* The worker returns: the catalog's when EnsureStream fails, the others also
\* when a fetch fails with anything but a timeout, as on a closed connection.
WorkerReturns ==
    /\ \/ worker = "new" /\ main.worker # "retries"
       \/ worker = "running" /\ main.worker \in {"exits", "logs"}
    /\ phase \in {"serving", "stopping"}
    /\ WorkerEnd
    /\ UNCHANGED <<setup, envVars>>

-----------------------------------------------------------------------------
(* Stop.                                                                   *)

\* SIGTERM.  run.WithSignals returns at once and the main exits; the gRPC mains
\* begin a GracefulStop.
Signal ==
    /\ phase = "serving"
    /\ IF main.stop = "exit"
       THEN End("stop")
       ELSE /\ phase' = "stopping"
            /\ UNCHANGED <<step, stores, conn, attempts, worker, running, waited, cut>>
    /\ UNCHANGED <<setup, envVars>>

Elapse ==
    /\ phase = "stopping"
    /\ waited < StopTimeout
    /\ waited' = waited + 1
    /\ UNCHANGED <<setup, phase, step, stores, conn, attempts, worker, running, cut, envVars>>

\* Serve returns when GracefulStop or, after the timeout, Stop is done.
MayEnd == running = {} \/ waited = StopTimeout

Stopped ==
    /\ phase = "stopping"
    /\ MayEnd
    /\ End(IF waited = StopTimeout THEN "timeout" ELSE "stop")
    /\ UNCHANGED <<setup, envVars>>

-----------------------------------------------------------------------------
(* Postgres and NATS.                                                      *)

Outage ==
    /\ outages < setup.outages
    /\ outages' = outages + 1
    /\ \/ natsUp /\ natsUp' = FALSE /\ UNCHANGED dbUp
       \/ dbUp /\ dbUp' = FALSE /\ UNCHANGED natsUp
    /\ UNCHANGED <<setup, procVars, running>>

Recover ==
    /\ ~(natsUp /\ dbUp)
    /\ natsUp' = TRUE /\ dbUp' = TRUE
    /\ UNCHANGED <<setup, procVars, running, outages>>

-----------------------------------------------------------------------------

LifecycleNext ==
    \/ Start \/ StartStep \/ StartFails \/ Serve
    \/ Panic \/ Reconnect \/ Break \/ WorkerStarts \/ WorkerReturns
    \/ Signal \/ Elapse \/ Stopped
    \/ Outage \/ Recover

-----------------------------------------------------------------------------
(* Properties.                                                             *)

\* A process that stops comes to its end, although calls hang and neither Postgres
\* nor NATS need come back: GracefulStop, which waits for the calls, has a timer.
OrderlyStop == phase = "stopping" ~> phase = "down"

\* A search service whose connection is closed for good ends, so that it can be
\* replaced, and so does a catalog whose publisher returns with an error.  That
\* one returns only when it cannot ensure its stream: on a connection closed later
\* it logs and the catalog keeps serving, as activity, social, ingestion and
\* analytics do.
FailFast ==
    /\ main.worker = "exits" /\ worker # "off" /\ conn = "closed" ~> phase = "down"
    /\ main.worker = "stops" /\ worker = "ended" ~> phase = "down"
=============================================================================
