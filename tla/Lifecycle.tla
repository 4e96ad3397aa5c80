------------------------------ MODULE Lifecycle ------------------------------
(***************************************************************************)
(* The process: main() from its first line to its deferred calls, the      *)
(* goroutine that listens, the requests it accepted, signals, crashes and  *)
(* the next start.                                                         *)
(***************************************************************************)
EXTENDS Startup

CONSTANT Req   \* HTTP requests

VARIABLES
    server,    \* the goroutine in ListenAndServe, "failing" once it is back with an error
    consumer,  \* the consumer group
    producer,  \* the Kafka producer
    quit,      \* the channel of signals, which holds one
    requests,  \* what became of each request
    exit       \* how the process ended last

serving == <<server, consumer, producer, requests, exit>>
vars    == <<database, serving, quit>>

Init ==
    /\ SchemaInit
    /\ stage = "connect"
    /\ server = "off" /\ consumer = "off" /\ producer = "off"
    /\ quit = FALSE
    /\ requests = [q \in Req |-> "unsent"]
    /\ exit = "none"

Accepted == {"running", "publishing"}
Up       == stage # "down"

\* Only the main goroutine moves.
Goto(s) == stage' = s /\ UNCHANGED <<schema, step, interrupted>>

-----------------------------------------------------------------------------
(* main(), up to the signal.                                                *)

Connect ==
    /\ stage = "connect"
    /\ Goto("detect")
    /\ UNCHANGED <<mishaps, serving, quit>>

NewProducer ==
    /\ stage = "producer"
    /\ producer' = "open"
    /\ Goto("consumer")
    /\ UNCHANGED <<mishaps, server, consumer, requests, exit, quit>>

StartConsumer ==
    /\ stage = "consumer"
    /\ consumer' = "running"
    /\ Goto("listen")
    /\ UNCHANGED <<mishaps, server, producer, requests, exit, quit>>

\* The server's goroutine is started, and then signals are asked for.
Listen ==
    /\ stage = "listen"
    /\ server' = "starting"
    /\ Goto("notify")
    /\ UNCHANGED <<mishaps, consumer, producer, requests, exit, quit>>

Notify ==
    /\ stage = "notify"
    /\ Goto("waiting")
    /\ UNCHANGED <<mishaps, serving, quit>>

\* The database or the broker cannot be reached, or a statement of GORM fails.
StartFails ==
    /\ stage \in {"connect", "migrate", "producer", "consumer"}
    /\ Mishap
    /\ Fatal
    /\ UNCHANGED <<serving, quit>>

-----------------------------------------------------------------------------
(* The server's goroutine and its handlers.                                 *)

Serve ==
    /\ Up /\ server = "starting"
    /\ server' = "listening"
    /\ UNCHANGED <<database, consumer, producer, requests, exit, quit>>

\* ListenAndServe fails, other than for having been shut down: it cannot bind the port,
\* even when Shutdown came between its first look and the listening, or accepting fails.
ServeFails ==
    /\ Up /\ server \in {"starting", "late", "listening"}
    /\ Mishap
    /\ server' = "failing"
    /\ UNCHANGED <<schema, stage, step, interrupted, consumer, producer, requests, exit, quit>>

Becomes(q, s) ==
    /\ requests' = [requests EXCEPT ![q] = s]
    /\ UNCHANGED <<database, server, consumer, producer, exit, quit>>

Accept(q)  == Up /\ server = "listening" /\ requests[q] = "unsent" /\ Becomes(q, "running")
Commit(q)  == Up /\ requests[q] = "running" /\ Becomes(q, "publishing")
Respond(q) == Up /\ requests[q] = "publishing" /\ Becomes(q, "answered")

-----------------------------------------------------------------------------
(* The end of main().                                                       *)

\* What Shutdown makes of the server: ListenAndServe returns ErrServerClosed, at once if
\* it was yet to begin, or does not return before Shutdown does.
ShutDown ==
    \/ server = "starting" /\ server' \in {"closed", "late"}
    \/ server = "listening" /\ server' = "closed"
    \/ server = "failing" /\ UNCHANGED server

\* Bug for the mutation check: the producer is closed first.
ShutdownLast ==
    /\ stage = "waiting"
    /\ quit
    /\ quit' = FALSE
    /\ ShutDown
    /\ producer' = "closed"
    /\ Goto("draining")
    /\ UNCHANGED <<mishaps, consumer, requests, exit>>

Shutdown ==
    /\ stage = "waiting"
    /\ quit
    /\ quit' = FALSE
    /\ ShutDown
    /\ Goto("draining")
    /\ UNCHANGED <<mishaps, consumer, producer, requests, exit>>

\* Shutdown returns when no request is left.
Drained ==
    /\ stage = "draining"
    /\ \A q \in Req : requests[q] \notin Accepted
    /\ Goto("stop")
    /\ UNCHANGED <<mishaps, serving, quit>>

\* Bug for the mutation check: the context never expires.
Unlimited == FALSE

\* ... or its ten seconds are over, which is fatal.
TimesOut ==
    /\ stage = "draining"
    /\ \E q \in Req : requests[q] \in Accepted
    /\ Goto("overdue")
    /\ UNCHANGED <<mishaps, serving, quit>>

\* The deferred calls, last in, first out.
StopConsumer ==
    /\ stage = "stop"
    /\ consumer' = "stopped"
    /\ Goto("close")
    /\ UNCHANGED <<mishaps, server, producer, requests, exit, quit>>

CloseProducer ==
    /\ stage = "close"
    /\ producer' = "closed"
    /\ Goto("return")
    /\ UNCHANGED <<mishaps, server, consumer, requests, exit, quit>>

-----------------------------------------------------------------------------
(* The operating system.                                                    *)

\* The process ends, without a deferred call, and its requests with it.
End(how) ==
    /\ exit' = how
    /\ server' = "off" /\ consumer' = "off" /\ producer' = "off"
    /\ quit' = FALSE
    /\ requests' = [q \in Req |-> IF requests[q] \in Accepted THEN "cut" ELSE requests[q]]
    /\ stage' = "down"
    /\ interrupted' = (interrupted \/ stage = "drop")
    /\ UNCHANGED <<schema, step>>

\* os.Exit(1) of log.Fatalf in main(), or its return.
Exit ==
    /\ stage \in {"fatal", "overdue", "return"}
    /\ End(CASE stage = "fatal"   -> "failed"
             [] stage = "overdue" -> "timeout"
             [] stage = "return"  -> "clean")
    /\ UNCHANGED mishaps

\* Bug for the mutation check: ErrServerClosed is an error like any other.
ExitOnReturn ==
    /\ server \in {"failing", "closed"}
    /\ End("failed")
    /\ UNCHANGED mishaps

\* os.Exit(1) of log.Fatalf in the server's goroutine, whatever main() is doing.
ServerExit ==
    /\ server = "failing"
    /\ End("failed")
    /\ UNCHANGED mishaps

Kill == Up /\ Mishap /\ End("killed")

\* SIGINT or SIGTERM: deadly until Notify, and from then on kept, one of them.
Notified == stage \in {"waiting", "draining", "overdue", "stop", "close", "return"}

Signal ==
    /\ Up
    /\ Mishap
    /\ IF Notified
       THEN quit' = TRUE /\ UNCHANGED <<schema, stage, step, interrupted, serving>>
       ELSE End("killed")

\* The service is started again.
Boot ==
    /\ ~Up
    /\ Goto("connect")
    /\ UNCHANGED <<mishaps, serving, quit>>

-----------------------------------------------------------------------------

Main ==
    \/ Connect
    \/ Migrate /\ UNCHANGED <<serving, quit>>
    \/ NewProducer \/ StartConsumer \/ Listen \/ Notify
    \/ Shutdown \/ Drained \/ TimesOut \/ StopConsumer \/ CloseProducer
    \/ Exit

Next ==
    \/ Main
    \/ (DetectFails \/ DropFails) /\ UNCHANGED <<serving, quit>>
    \/ StartFails
    \/ Serve \/ ServeFails \/ ServerExit
    \/ \E q \in Req : Accept(q) \/ Commit(q) \/ Respond(q)
    \/ Kill \/ Signal \/ Boot

Spec == Init /\ [][Next]_vars

\* The main goroutine runs, its timer expires, and somebody starts the service
\* whenever it is down.  Nothing is assumed of requests: a handler may hang.
FairSpec == Spec /\ WF_vars(Main) /\ WF_vars(Boot)

-----------------------------------------------------------------------------

TypeOK ==
    /\ schema \in [Tables -> {"none", "int8", "uuid"}]
    /\ stage \in {"connect", "detect", "drop", "migrate", "producer", "consumer",
                  "listen", "notify", "waiting", "draining", "overdue", "stop",
                  "close", "return", "fatal", "down"}
    /\ step \in IF stage = "drop" THEN DOMAIN Drops ELSE DOMAIN Models
    /\ interrupted \in BOOLEAN
    /\ mishaps \in 0 .. MaxMishaps
    /\ server \in {"off", "starting", "late", "listening", "failing", "closed"}
    /\ consumer \in {"off", "running", "stopped"}
    /\ producer \in {"off", "open", "closed"}
    /\ quit \in BOOLEAN
    /\ requests \in [Req -> {"unsent", "answered", "cut"} \cup Accepted]
    /\ exit \in {"none", "clean", "failed", "timeout", "killed"}

\* Whatever failed or broke off in this start or earlier ones, requests and
\* events are handled on a database all of whose tables are of this version.
ServesOnlyMigrated == server # "off" \/ consumer # "off" => Migrated

\* AutoMigrate leaves a database it cannot recognise any more only if it was
\* interrupted among its DROPs, or one of them failed.
OnlyInterruptionWedges == Wedged => interrupted

\* However often the service starts, and whatever breaks off, a table of this
\* version, which may hold invoices, is never dropped.
CurrentTablesKept ==
    [][\A t \in Tables : schema[t] = "uuid" => schema'[t] = "uuid"]_vars

\* Once Shutdown has closed the server, a request that was accepted is answered, unless
\* it takes longer than Shutdown waits, or the process is killed.  (If ListenAndServe
\* had failed before, its goroutine ends the process under Shutdown and the requests.)
AcceptedIsAnswered ==
    [][\A q \in Req : server = "closed" /\ requests[q] \in Accepted
           => requests'[q] # "cut" \/ exit' \in {"timeout", "killed"}]_vars

\* A handler that has committed finds the producer open.
PublishesOnOpenProducer ==
    \A q \in Req : requests[q] = "publishing" => producer = "open"

\* A signal that is received ends the process, even if a handler hangs.
SignalEnds == quit ~> ~Up

\* A service that is started over and over comes to wait for requests, or its
\* database is wedged.
ComesUp == ~Up ~> (stage = "waiting" \/ Wedged)

=============================================================================
