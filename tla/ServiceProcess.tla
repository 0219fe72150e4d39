--------------------------- MODULE ServiceProcess ---------------------------
(***************************************************************************)
(* The life of one process: main of order-service, worker-service or the   *)
(* gateway, from its configuration to its end, with the threads it starts: *)
(* the outbox publisher, the Kafka consumer and those of the HTTP server.  *)
(*                                                                         *)
(* main is a list of stages; the end of the process is a list too, of the  *)
(* objects that leaving main destroys, in the reverse of their             *)
(* construction.  Three ends skip it: exit(1) destroys the statics only,   *)
(* and an uncaught exception and an unhandled signal destroy nothing.      *)
(*                                                                         *)
(* The publisher and the consumer are modelled by what their stop()        *)
(* promises (OutboxPublisher and KafkaEventConsumer check it): the         *)
(* consumer's returns when its threads are joined; the publisher's only    *)
(* asks, and its destructor joins.  The database and the broker may fail   *)
(* every call.                                                             *)
(***************************************************************************)
EXTENDS HttpServer, ServiceConfiguration, FiniteSets

CONSTANTS Inputs,       \* service -> what its environment, file and command line may say
          MaxAttempts   \* of creating the consumer: 10

ASSUME ProcessAssumption == MaxAttempts \in Nat \ {0}

VARIABLES
    service, input,
    stage,          \* of main, or of its end
    status,         \* "none" while it runs; then how main ended
    network,        \* networkConfiguration; {} before
    upstream,       \* orderServiceConfiguration of the gateway; {} before
    database,       \* databaseConfiguration of the other two; {} before
    attempt,        \* attempts made to create the consumer
    publisher,      \* its thread: "none", "running", "stopping" or "joined"
    consumer,       \* "none", "created", "running", "stopped"
    shutdownRequested,   \* g_shutdownRequested of worker-service
    signalled       \* a signal was sent to the process

mainVars == <<service, input, stage, status, network, upstream, database, attempt, publisher,
              consumer, shutdownRequested, signalled>>
vars == <<mainVars, serverVars>>

Services == {"order-service", "worker-service", "gateway"}

Stages(s) ==
    CASE s = "order-service" ->
           <<"environment", "network", "database", "repositories", "producer", "publisher",
             "reservations", "consumer", "startConsumer", "server", "run", "serving",
             "stopConsumer", "stopPublisher">>
      [] s = "worker-service" ->
           <<"environment", "database", "repositories", "producer", "publisher", "consumer",
             "startConsumer", "waiting", "stopConsumer", "stopPublisher">>
      [] s = "gateway" -> <<"environment", "network", "upstream", "server", "run", "serving">>

Ending == <<"~server", "~consumer", "~publisher", "~proxy", "ended">>

(* The stage after this one; main returns after its last.                  *)
After(list, last) ==
    LET i == CHOOSE i \in DOMAIN list : list[i] = stage
    IN  IF i = Len(list) THEN last ELSE list[i + 1]

Succeed == stage' = After(Stages(service), "~server") /\ UNCHANGED status
Return(code) == stage' = "~server" /\ status' = code
Gone(how) == stage' = "gone" /\ status' = how

Init ==
    /\ service \in Services /\ input \in Inputs[service]
    /\ stage = Stages(service)[1] /\ status = "none"
    /\ network = {} /\ upstream = {} /\ database = {} /\ attempt = 0
    /\ publisher = "none" /\ consumer = "none"
    /\ shutdownRequested = FALSE /\ signalled = FALSE
    /\ ServerInit

objects == <<publisher, consumer>>
configuration == <<network, upstream, database>>
constant == <<service, input, signalled, shutdownRequested>>

----------------------------------------------------------------------------
(* unwrapOrExit *)
UnwrapOrExit(result) ==
    IF "throws" \in DOMAIN result THEN Gone("terminated")
    ELSE IF Failed(result) THEN Gone("exit 1")
    ELSE Succeed

Schema == IF service = "gateway" THEN GatewaySchema ELSE BackendSchema
environment == load(Schema, input.env)

LoadEnvironment ==
    /\ stage = "environment"
    /\ UnwrapOrExit(environment)
    /\ UNCHANGED <<configuration, attempt, objects, constant, serverVars>>

LoadNetwork ==
    /\ stage = "network"
    /\ LET result == loadNetworkConfiguration(input.file, input.address, input.port)
       IN  /\ UnwrapOrExit(result)
           /\ network' = IF Failed(result) THEN {} ELSE {result}
    /\ UNCHANGED <<upstream, database, attempt, objects, constant, serverVars>>

LoadUpstream ==
    /\ stage = "upstream"
    /\ LET result == loadOrderServiceConfiguration(input.file, environment)
       IN  /\ UnwrapOrExit(result)
           /\ upstream' = IF Failed(result) THEN {} ELSE {result}
    /\ UNCHANGED <<network, database, attempt, objects, constant, serverVars>>

LoadDatabase ==
    /\ stage = "database"
    /\ LET result == fromUrl(The(get(environment, "DATABASE_URL")))
       IN  /\ UnwrapOrExit(result)
           /\ database' = IF Failed(result) THEN {} ELSE {result}
    /\ UNCHANGED <<network, upstream, attempt, objects, constant, serverVars>>

(* The repositories connect, the producer is created: a failure is caught  *)
(* and main returns, through the destructor of a publisher that runs.      *)
Build(ok) ==
    /\ stage \in {"repositories", "producer", "reservations"}
    /\ IF ok THEN Succeed ELSE Return("1")
    /\ UNCHANGED <<configuration, attempt, objects, constant, serverVars>>

StartPublisher ==
    /\ stage = "publisher"
    /\ Succeed
    /\ publisher' = "running"
    /\ UNCHANGED <<configuration, attempt, consumer, constant, serverVars>>

(* The failure paths after the publisher has been started and told to stop. *)
FailAndStop == Return("1") /\ publisher' = "stopping" /\ UNCHANGED consumer

(* createWithRetry and unwrapOrExit in order-service, the same loop in the *)
(* main of worker-service, which stops the publisher before it returns.    *)
CreateConsumer(ok) ==
    /\ stage = "consumer"
    /\ attempt' = attempt + 1
    /\ \/ ok /\ Succeed /\ consumer' = "created" /\ UNCHANGED publisher
       \/ ~ok /\ attempt' < MaxAttempts /\ UNCHANGED <<stage, status, objects>>
       \/ /\ ~ok /\ attempt' = MaxAttempts
          /\ IF service = "worker-service" THEN FailAndStop
             ELSE Gone("exit 1") /\ UNCHANGED objects
    /\ UNCHANGED <<configuration, constant, serverVars>>

StartConsumer(ok) ==
    /\ stage = "startConsumer"
    /\ \/ ok /\ Succeed /\ consumer' = "running" /\ UNCHANGED publisher
       \/ ~ok /\ FailAndStop
    /\ UNCHANGED <<configuration, attempt, constant, serverVars>>

(* The acceptor's constructor throws when it cannot bind; nobody catches.  *)
CreateServer(ok) ==
    /\ stage = "server"
    /\ \/ ok /\ Construct /\ Succeed
       \/ ~ok /\ Gone("terminated") /\ UNCHANGED serverVars
    /\ UNCHANGED <<configuration, attempt, objects, constant>>

RunServer ==
    /\ stage = "run"
    /\ RunBegins
    /\ Succeed
    /\ UNCHANGED <<configuration, attempt, objects, constant>>

(* server.run() returns; or the loop of worker-service sees the flag.      *)
ServingEnds ==
    /\ \/ stage = "serving" /\ RunReturns
       \/ stage = "waiting" /\ shutdownRequested
    /\ Succeed
    /\ UNCHANGED <<configuration, attempt, objects, constant, serverVars>>

StopConsumer ==
    /\ stage = "stopConsumer"
    /\ consumer' = "stopped"
    /\ Succeed
    /\ UNCHANGED <<configuration, attempt, publisher, constant, serverVars>>

StopPublisher ==
    /\ stage = "stopPublisher"
    /\ publisher' = "stopping"
    /\ Succeed
    /\ UNCHANGED <<configuration, attempt, consumer, constant, serverVars>>

(* The destructors.  What stop() has not joined is joined.                 *)
Destroy ==
    /\ stage \in {"~server", "~consumer", "~publisher"}
    /\ IF stage = "~server" /\ acceptor # "none" THEN DestroyServer ELSE UNCHANGED serverVars
    /\ consumer' = IF stage = "~consumer" /\ consumer # "none" THEN "stopped" ELSE consumer
    /\ publisher' = IF stage = "~publisher" /\ publisher # "none" THEN "joined" ELSE publisher
    /\ stage' = After(Ending, "ended")
    /\ UNCHANGED <<status, configuration, attempt, constant>>

(* The gateway's ProxyHandler goes last.  A socket left in its pool        *)
(* belongs to the io_context, which is gone with the server: what its      *)
(* destructor does then is undefined.                                      *)
DestroyProxy ==
    /\ stage = "~proxy"
    /\ \/ stage' = "ended" /\ status' = IF status = "none" THEN "0" ELSE status
       \/ pooled /\ Gone("terminated")
    /\ UNCHANGED <<configuration, attempt, objects, constant, serverVars>>

MainStep ==
    \/ LoadEnvironment \/ LoadNetwork \/ LoadUpstream \/ LoadDatabase
    \/ \E ok \in BOOLEAN : Build(ok) \/ CreateConsumer(ok) \/ StartConsumer(ok) \/ CreateServer(ok)
    \/ StartPublisher
    \/ RunServer \/ ServingEnds
    \/ StopConsumer \/ StopPublisher
    \/ Destroy \/ DestroyProxy

----------------------------------------------------------------------------
Over == stage \in {"ended", "gone"}

(* SIGINT or SIGTERM.  worker-service sets its flag; the other two are     *)
(* killed unless the server's signal set exists.                           *)
Signal ==
    /\ ~Over
    /\ signalled' = TRUE
    /\ \/ /\ service = "worker-service"
          /\ shutdownRequested' = TRUE
          /\ UNCHANGED <<stage, status, serverVars>>
       \/ /\ service # "worker-service" /\ acceptor \in {"open", "closed"}
          /\ signal' = IF signal = "none" THEN "pending" ELSE signal
          /\ UNCHANGED <<stage, status, shutdownRequested, acceptor, accepting, thread, serves,
                         session, ioStopped, pooled>>
       \/ /\ service # "worker-service" /\ acceptor \in {"none", "destroyed"}
          /\ Gone("killed")
          /\ UNCHANGED <<shutdownRequested, serverVars>>
    /\ UNCHANGED <<service, input, configuration, attempt, objects>>

Routes == IF service = "gateway" THEN GatewayRoutes ELSE OrderRoutes

IoGoesOn(t) == ~Over /\ ThreadGoesOn(t) /\ UNCHANGED mainVars
IoIsGiven(t) == ~Over /\ ThreadIsGiven(t, Routes) /\ UNCHANGED mainVars
IoSignal == \E t \in Threads : ~Over /\ SignalHandled(t) /\ UNCHANGED mainVars
Clients == \E s \in Sessions : ~Over /\ Connect(s) /\ UNCHANGED mainVars

Finished == Over /\ UNCHANGED vars

Next == \/ MainStep
        \/ Signal
        \/ \E t \in Threads : IoGoesOn(t) \/ IoIsGiven(t)
        \/ Clients
        \/ Finished

Spec == Init /\ [][Next]_vars

(* Calls return and threads run on.  The io_context hands out what is      *)
(* ready in order, so a signal waits behind handlers but not for ever.     *)
FairSpec ==
    /\ Spec
    /\ WF_vars(MainStep)
    /\ \A t \in Threads : WF_vars(IoGoesOn(t))
    /\ SF_vars(IoSignal)

----------------------------------------------------------------------------
(* Properties *)

(* A signal ends the process, whatever its stage: while it waits for the   *)
(* broker, and however clients and the upstream behave, with connections   *)
(* left open, requests in progress and answers that never come.            *)
ShutdownCompletes == signalled ~> Over

(* Accepting never stops by itself: an accept that fails, at the limit on  *)
(* open files say, is followed by the next one.                            *)
KeepsAccepting ==
    stage = "serving" /\ acceptor = "open" =>
        accepting \/ \E t \in Threads : thread[t] = "accepted"

(* Nothing outlives what it uses: no io thread runs when the consumer and  *)
(* the publisher are stopped or the server is destroyed, and theirs are    *)
(* joined before their objects go.  Two ends break it.  order-service      *)
(* exits when it gives up on the consumer, and the publisher's thread runs *)
(* on while the statics are destroyed; and sockets in the gateway's pool   *)
(* outlive their io_context, the only way a served process can crash.      *)
NothingOutlivesItsOwner ==
    /\ stage \in {"stopConsumer", "stopPublisher"} \cup Range(Ending) =>
          \A t \in Threads : thread[t] \in {"none", "out"}
    /\ stage \in {"~publisher", "~proxy", "ended"} => consumer \in {"none", "stopped"}
    /\ stage \in {"~proxy", "ended"} => publisher \in {"none", "joined"}
    /\ status = "exit 1" /\ publisher # "none" =>
          service = "order-service" /\ attempt = MaxAttempts
    /\ status = "terminated" /\ acceptor # "none" => service = "gateway" /\ pooled

(* What a service listens on is what was written, the command line before  *)
(* the file, and never an address that is none.  The file's port is taken  *)
(* modulo 2^16: one that does not fit is listened on as its remainder.     *)
ListensAsWritten ==
    stage \in {"run", "serving"} =>
        LET written == input.file.sections["network"]
            address == IF input.address # {} THEN The(input.address) ELSE written["address"]
        IN  /\ address.ip /\ The(network).address = address
            /\ The(network).port = IF input.port # {} THEN The(input.port)
                                   ELSE UInt16(written["port"])

(* The gateway forwards to what both variables say, or to what the file    *)
(* says when neither is given: never to the address of one and the port of *)
(* the other, and with half a pair it does not serve.  A port is taken     *)
(* modulo 2^16; with one that is no number, or one too large for an         *)
(* unsigned long, the gateway does not serve.                              *)
ForwardsAsWritten ==
    service = "gateway" /\ stage \in {"run", "serving"} =>
        LET pair == {"GATEWAY_ORDER_SERVICE_ADDRESS", "GATEWAY_ORDER_SERVICE_PORT"}
            written == input.file.sections["services"]["orderService"]
        IN  \/ /\ pair \subseteq DOMAIN input.env
               /\ The(upstream).host = input.env["GATEWAY_ORDER_SERVICE_ADDRESS"]
               /\ The(upstream).port = UInt16(input.env["GATEWAY_ORDER_SERVICE_PORT"])
               /\ input.env["GATEWAY_ORDER_SERVICE_PORT"] \in (-ULongMax)..ULongMax
            \/ /\ pair \cap DOMAIN input.env = {}
               /\ The(upstream).host = written["address"]
               /\ The(upstream).port = UInt16(written["port"])

(* The repositories connect to the host, database and user of the URL, and *)
(* to its port modulo 2^16, which is never zero; encrypted when sslmode is *)
(* given and is not "disable", in clear when it is left out.               *)
StoresAsWritten ==
    service # "gateway"
        /\ stage \in Range(Stages(service)) \ {"environment", "network", "database"} =>
        LET url == input.env["DATABASE_URL"]
        IN  /\ url.matches
            /\ The(database).host = url.host
            /\ The(database).databaseName = url.databaseName
            /\ The(database).user = url.user
            /\ The(database).port = UInt16(url.port) /\ The(database).port # 0
            /\ ~(url.port > IntMax)
            /\ The(database).useSsl <=> url.sslmode \ {"disable"} # {}

(* A process listens on, forwards to and stores into what was written for  *)
(* it, whichever of the environment, the file and the command line wrote   *)
(* it, and does not get that far when what was written is no configuration. *)
RunsOnlyAsConfigured == ListensAsWritten /\ ForwardsAsWritten /\ StoresAsWritten
=============================================================================
