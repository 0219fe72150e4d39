------------------------ MODULE ServiceProcessProofs ------------------------
(***************************************************************************)
(* The processes for every configuration, every number of io threads and   *)
(* connections, and every number of attempts.                              *)
(***************************************************************************)
EXTENDS ServiceProcess, FiniteSetTheorems, TLAPS

-----------------------------------------------------------------------------
(* The inductive invariant.  It says what can exist in which stage; the    *)
(* stages it tells apart:                                                  *)
Configuring == {"environment", "network", "upstream", "database"}
Late == {"run", "serving", "stopConsumer", "stopPublisher"}
Proceeding == Range(Stages(service))

ProcessTypes ==
    /\ service \in Services
    /\ stage \in Proceeding \cup Range(Ending) \cup {"gone"}
    /\ thread \in [Threads -> {"none", "idle", "busy", "accepted", "stopping", "out"}]
    /\ session \in [Sessions -> {"none", "waiting", "reading", "handling", "suspended",
                                 "writing", "closed"}]
    /\ accepting \in BOOLEAN /\ pooled \in BOOLEAN

(* Threads of the server run while it serves; the acceptor exists from     *)
(* then on; a request is in the hands of a proxy in the gateway only.      *)
ServerInv ==
    /\ stage \notin {"serving", "gone"} => \A t \in Threads : thread[t] \in {"none", "out"}
    /\ KeepsAccepting
    /\ acceptor # "none" => stage \in Late \cup Range(Ending) \cup {"gone"}
    /\ pooled \/ (\E s \in Sessions : session[s] = "suspended") => service = "gateway"

(* The consumer and the publisher come after the configuration and are     *)
(* gone after their destructors; the ends that skip these leave them.      *)
ObjectsInv ==
    /\ stage \in Configuring => publisher = "none"
    /\ stage \in {"~publisher", "~proxy", "ended"} => consumer \in {"none", "stopped"}
    /\ stage \in {"~proxy", "ended"} => publisher \in {"none", "joined"}
    /\ status = "exit 1" =>
          /\ stage = "gone"
          /\ publisher # "none" => service = "order-service" /\ attempt = MaxAttempts
    /\ status = "terminated" =>
          /\ stage = "gone"
          /\ acceptor # "none" => service = "gateway" /\ pooled

(* What was loaded is kept.                                                *)
LoadedNetwork == loadNetworkConfiguration(input.file, input.address, input.port)
LoadedUpstream == loadOrderServiceConfiguration(input.file, environment)
LoadedDatabase == fromUrl(The(get(environment, "DATABASE_URL")))

EnvironmentRead == stage \in Proceeding \ {"environment"} => ~Failed(environment)
NetworkKept ==
    service # "worker-service" /\ stage \in Proceeding \ {"environment", "network"} =>
        network = {LoadedNetwork} /\ ~Failed(LoadedNetwork)
UpstreamKept ==
    service = "gateway" /\ stage \in {"server", "run", "serving"} =>
        upstream = {LoadedUpstream} /\ ~Failed(LoadedUpstream)
DatabaseKept ==
    service # "gateway" /\ stage \in Proceeding \ Configuring =>
        database = {LoadedDatabase} /\ ~Failed(LoadedDatabase)
ConfiguredInv == EnvironmentRead /\ NetworkKept /\ UpstreamKept /\ DatabaseKept

ProcessInv == ProcessTypes /\ ServerInv /\ ObjectsInv /\ ConfiguredInv

-----------------------------------------------------------------------------
(* The order of the stages.                                                *)

LEMMA AfterIs ==
    ASSUME NEW list, IsInjective(list), NEW i \in DOMAIN list, stage = list[i], NEW last
    PROVE  After(list, last) = IF i = Len(list) THEN last ELSE list[i + 1]
<1>1. (CHOOSE j \in DOMAIN list : list[j] = stage) = i
  BY DEF IsInjective
<1> QED
  BY <1>1 DEF After

(* The stage `next' may come after this one.                               *)
Follows(next) ==
    /\ next \in Proceeding \cup {"~server"}
    /\ next \in Configuring => stage \in Configuring
    /\ next # "environment"
    /\ service # "worker-service" /\ stage = "environment" => next = "network"
    /\ stage \in Late \cup {"server"} => next \in Late \cup {"~server"}
    /\ next = "serving" <=> stage = "run"
    /\ next = "run" => stage = "server"
    /\ service = "gateway" /\ next = "server" => stage = "upstream"
    /\ service # "gateway" /\ stage \in Configuring => stage = "database" \/ next \in Configuring

LEMMA OrderServiceOrder ==
    ASSUME service = "order-service", stage \in Proceeding
    PROVE  Follows(After(Stages(service), "~server"))
<1>1. PICK list : list = Stages(service)
  OBVIOUS
<1>2. list = <<"environment", "network", "database", "repositories", "producer", "publisher",
               "reservations", "consumer", "startConsumer", "server", "run", "serving",
               "stopConsumer", "stopPublisher">>
  BY <1>1 DEF Stages
<1>3. DOMAIN list = 1..14 /\ Len(list) = 14
  BY <1>2
<1>4. /\ list[1] = "environment" /\ list[2] = "network" /\ list[3] = "database"
      /\ list[4] = "repositories" /\ list[5] = "producer" /\ list[6] = "publisher"
      /\ list[7] = "reservations" /\ list[8] = "consumer" /\ list[9] = "startConsumer"
      /\ list[10] = "server" /\ list[11] = "run" /\ list[12] = "serving"
      /\ list[13] = "stopConsumer" /\ list[14] = "stopPublisher"
  BY <1>2
<1>5. \A i \in 1..14 : \/ i = 1 \/ i = 2 \/ i = 3 \/ i = 4 \/ i = 5 \/ i = 6 \/ i = 7
                       \/ i = 8 \/ i = 9 \/ i = 10 \/ i = 11 \/ i = 12 \/ i = 13 \/ i = 14
  OBVIOUS
<1>6. IsInjective(list)
  BY <1>3, <1>4, <1>5 DEF IsInjective
<1>7. Proceeding = {list[i] : i \in 1..14}
  BY <1>1, <1>3 DEF Proceeding, Range
<1>8. PICK i \in 1..14 : stage = list[i]
  BY <1>7
<1>9. PICK next : next = After(list, "~server")
  OBVIOUS
<1>10. next = IF i = 14 THEN "~server" ELSE list[i + 1]
  BY <1>3, <1>6, <1>8, <1>9, AfterIs
<1>11. next \in Proceeding \cup {"~server"}
  BY <1>7, <1>10
<1>12. Follows(next)
  <2>1. CASE i \in 1..4
    BY <1>4, <1>8, <1>10, <1>11, <2>1 DEF Follows, Configuring, Late
  <2>2. CASE i \in 5..9
    BY <1>4, <1>8, <1>10, <1>11, <2>2 DEF Follows, Configuring, Late
  <2>3. CASE i \in 10..14
    BY <1>4, <1>8, <1>10, <1>11, <2>3 DEF Follows, Configuring, Late
  <2> QED
    BY <2>1, <2>2, <2>3
<1> QED
  BY <1>1, <1>9, <1>12

LEMMA WorkerServiceOrder ==
    ASSUME service = "worker-service", stage \in Proceeding
    PROVE  Follows(After(Stages(service), "~server"))
<1>1. PICK list : list = Stages(service)
  OBVIOUS
<1>2. list = <<"environment", "database", "repositories", "producer", "publisher", "consumer",
               "startConsumer", "waiting", "stopConsumer", "stopPublisher">>
  BY <1>1 DEF Stages
<1>3. DOMAIN list = 1..10 /\ Len(list) = 10
  BY <1>2
<1>4. /\ list[1] = "environment" /\ list[2] = "database" /\ list[3] = "repositories"
      /\ list[4] = "producer" /\ list[5] = "publisher" /\ list[6] = "consumer"
      /\ list[7] = "startConsumer" /\ list[8] = "waiting" /\ list[9] = "stopConsumer"
      /\ list[10] = "stopPublisher"
  BY <1>2
<1>5. \A i \in 1..10 : \/ i = 1 \/ i = 2 \/ i = 3 \/ i = 4 \/ i = 5
                       \/ i = 6 \/ i = 7 \/ i = 8 \/ i = 9 \/ i = 10
  OBVIOUS
<1>6. IsInjective(list)
  BY <1>3, <1>4, <1>5 DEF IsInjective
<1>7. Proceeding = {list[i] : i \in 1..10}
  BY <1>1, <1>3 DEF Proceeding, Range
<1>8. PICK i \in 1..10 : stage = list[i]
  BY <1>7
<1>9. PICK next : next = After(list, "~server")
  OBVIOUS
<1>10. next = IF i = 10 THEN "~server" ELSE list[i + 1]
  BY <1>3, <1>6, <1>8, <1>9, AfterIs
<1>11. next \in Proceeding \cup {"~server"}
  BY <1>7, <1>10
<1>12. Follows(next)
  BY <1>4, <1>8, <1>10, <1>11 DEF Follows, Configuring, Late
<1> QED
  BY <1>1, <1>9, <1>12

LEMMA GatewayOrder ==
    ASSUME service = "gateway", stage \in Proceeding
    PROVE  Follows(After(Stages(service), "~server"))
<1>1. PICK list : list = Stages(service)
  OBVIOUS
<1>2. list = <<"environment", "network", "upstream", "server", "run", "serving">>
  BY <1>1 DEF Stages
<1>3. DOMAIN list = 1..6 /\ Len(list) = 6
  BY <1>2
<1>4. /\ list[1] = "environment" /\ list[2] = "network" /\ list[3] = "upstream"
      /\ list[4] = "server" /\ list[5] = "run" /\ list[6] = "serving"
  BY <1>2
<1>5. \A i \in 1..6 : i = 1 \/ i = 2 \/ i = 3 \/ i = 4 \/ i = 5 \/ i = 6
  OBVIOUS
<1>6. IsInjective(list)
  BY <1>3, <1>4, <1>5 DEF IsInjective
<1>7. Proceeding = {list[i] : i \in 1..6}
  BY <1>1, <1>3 DEF Proceeding, Range
<1>8. PICK i \in 1..6 : stage = list[i]
  BY <1>7
<1>9. PICK next : next = After(list, "~server")
  OBVIOUS
<1>10. next = IF i = 6 THEN "~server" ELSE list[i + 1]
  BY <1>3, <1>6, <1>8, <1>9, AfterIs
<1>11. next \in Proceeding \cup {"~server"}
  BY <1>7, <1>10
<1>12. Follows(next)
  BY <1>4, <1>8, <1>10, <1>11 DEF Follows, Configuring, Late
<1> QED
  BY <1>1, <1>9, <1>12

(* main goes on: whatever the service.                                     *)
LEMMA Succeeds ==
    ASSUME service \in Services, stage \in Proceeding, Succeed
    PROVE  Follows(stage')
<1>1. service = "order-service" \/ service = "worker-service" \/ service = "gateway"
  BY DEF Services
<1> QED
  BY <1>1, OrderServiceOrder, WorkerServiceOrder, GatewayOrder DEF Succeed

LEMMA EndingOrder ==
    /\ Range(Ending) = {"~server", "~consumer", "~publisher", "~proxy", "ended"}
    /\ stage = "~server" => After(Ending, "ended") = "~consumer"
    /\ stage = "~consumer" => After(Ending, "ended") = "~publisher"
    /\ stage = "~publisher" => After(Ending, "ended") = "~proxy"
<1>1. PICK list : list = Ending
  OBVIOUS
<1>2. DOMAIN list = 1..5 /\ Len(list) = 5
  BY <1>1 DEF Ending
<1>3. /\ list[1] = "~server" /\ list[2] = "~consumer" /\ list[3] = "~publisher"
      /\ list[4] = "~proxy" /\ list[5] = "ended"
  BY <1>1 DEF Ending
<1>4. \A i \in 1..5 : i = 1 \/ i = 2 \/ i = 3 \/ i = 4 \/ i = 5
  OBVIOUS
<1>5. IsInjective(list)
  BY <1>2, <1>3, <1>4 DEF IsInjective
<1>6. Range(list) = {list[i] : i \in 1..5}
  BY <1>2 DEF Range
<1>7. Range(list) = {"~server", "~consumer", "~publisher", "~proxy", "ended"}
  BY <1>3, <1>4, <1>6
<1>8. ASSUME NEW i \in 1..4, stage = list[i] PROVE After(list, "ended") = list[i + 1]
  <2>1. i \in DOMAIN list /\ i # Len(list)
    BY <1>2
  <2> QED
    BY <1>5, <1>8, <2>1, AfterIs
<1>9. /\ 1 \in 1..4 /\ 2 \in 1..4 /\ 3 \in 1..4
      /\ 1 + 1 = 2 /\ 2 + 1 = 3 /\ 3 + 1 = 4
  OBVIOUS
<1>10. /\ stage = "~server" => After(list, "ended") = "~consumer"
       /\ stage = "~consumer" => After(list, "ended") = "~publisher"
       /\ stage = "~publisher" => After(list, "ended") = "~proxy"
  BY <1>3, <1>8, <1>9
<1> QED
  BY <1>1, <1>7, <1>10

LEMMA StagesOfServices ==
    ASSUME service \in Services
    PROVE  /\ {"~server", "~consumer", "~publisher", "~proxy", "ended", "gone"} \cap Proceeding = {}
           /\ "environment" \in Proceeding /\ Stages(service)[1] = "environment"
           /\ "consumer" \in Proceeding => service # "gateway"
           /\ "network" \in Proceeding \/ "run" \in Proceeding \/ "serving" \in Proceeding =>
                 service # "worker-service"
           /\ "upstream" \in Proceeding => service = "gateway"
<1>1. CASE service = "order-service"
  <2>1. PICK list : list = Stages(service)
    OBVIOUS
  <2>2. list = <<"environment", "network", "database", "repositories", "producer", "publisher",
                 "reservations", "consumer", "startConsumer", "server", "run", "serving",
                 "stopConsumer", "stopPublisher">>
    BY <1>1, <2>1 DEF Stages
  <2>3. Range(list) = {"environment", "network", "database", "repositories", "producer",
                       "publisher", "reservations", "consumer", "startConsumer", "server", "run",
                       "serving", "stopConsumer", "stopPublisher"}
    BY <2>2 DEF Range
  <2> QED
    BY <1>1, <2>1, <2>2, <2>3 DEF Proceeding
<1>2. CASE service = "worker-service"
  <2>1. PICK list : list = Stages(service)
    OBVIOUS
  <2>2. list = <<"environment", "database", "repositories", "producer", "publisher", "consumer",
                 "startConsumer", "waiting", "stopConsumer", "stopPublisher">>
    BY <1>2, <2>1 DEF Stages
  <2>3. Range(list) = {"environment", "database", "repositories", "producer", "publisher",
                       "consumer", "startConsumer", "waiting", "stopConsumer", "stopPublisher"}
    BY <2>2 DEF Range
  <2> QED
    BY <1>2, <2>1, <2>2, <2>3 DEF Proceeding
<1>3. CASE service = "gateway"
  <2>1. PICK list : list = Stages(service)
    OBVIOUS
  <2>2. list = <<"environment", "network", "upstream", "server", "run", "serving">>
    BY <1>3, <2>1 DEF Stages
  <2>3. Range(list) = {"environment", "network", "upstream", "server", "run", "serving"}
    BY <2>2 DEF Range
  <2> QED
    BY <1>3, <2>1, <2>2, <2>3 DEF Proceeding
<1> QED
  BY <1>1, <1>2, <1>3 DEF Services

-----------------------------------------------------------------------------
(* The invariant holds at first.                                           *)

LEMMA ProcessBegins == Init => ProcessInv
<1> SUFFICES ASSUME Init PROVE ProcessInv
  OBVIOUS
<1> USE DEF Init, ServerInit
<1>1. service \in Services /\ stage = "environment" /\ stage \in Proceeding
  BY StagesOfServices
<1>2. ProcessTypes
  BY <1>1 DEF ProcessTypes
<1>3. ServerInv
  BY <1>1, EndingOrder DEF ServerInv, KeepsAccepting
<1>4. ObjectsInv
  BY <1>1 DEF ObjectsInv
<1>5. ConfiguredInv
  BY <1>1 DEF ConfiguredInv, EnvironmentRead, NetworkKept, UpstreamKept, DatabaseKept, Configuring
<1> QED
  BY <1>2, <1>3, <1>4, <1>5 DEF ProcessInv

-----------------------------------------------------------------------------
(* The steps of the server's threads.                                      *)

(* order-service has no route that proxies.                                *)
LEMMA OrderServiceNeverProxies ==
    ASSUME NEW method, NEW path
    PROVE  findHandler(OrderRoutes, method, path) # "proxy"
<1>1. PICK routes : routes = OrderRoutes
  OBVIOUS
<1>2. /\ DOMAIN routes = 1..3
      /\ routes[1].handler = "blocking" /\ routes[2].handler = "blocking"
      /\ routes[3].handler = "health"
  BY <1>1 DEF OrderRoutes, Route
<1>3. PICK fits : fits = {i \in DOMAIN routes : /\ routes[i].method = method
                                                /\ IsPrefix(routes[i].pathPrefix, path)}
  OBVIOUS
<1>4. findHandler(routes, method, path) = IF fits = {} THEN "nullptr" ELSE routes[Min(fits)].handler
  BY <1>3 DEF findHandler
<1>5. CASE fits = {}
  BY <1>1, <1>4, <1>5
<1>6. CASE fits # {}
  <2>1. \E n \in fits : \A m \in fits : n <= m
    <3>1. fits \subseteq 1..3
      BY <1>2, <1>3
    <3>2. CASE 1 \in fits
      BY <3>1, <3>2
    <3>3. CASE 1 \notin fits /\ 2 \in fits
      <4>1. \A m \in fits : 2 <= m
        BY <3>1, <3>3
      <4> QED
        BY <4>1, <3>3
    <3>4. CASE 1 \notin fits /\ 2 \notin fits
      <4>1. \A m \in fits : m = 3
        BY <3>1, <3>4
      <4> QED
        BY <4>1, <1>6
    <3> QED
      BY <3>2, <3>3, <3>4
  <2>2. Min(fits) \in 1..3
    BY <1>2, <1>3, <2>1 DEF Min
  <2>3. routes[Min(fits)].handler \in {"blocking", "health"}
    BY <1>2, <2>2
  <2> QED
    BY <1>1, <1>4, <1>6, <2>3
<1> QED
  BY <1>5, <1>6

(* What a step of the io threads or of a client does, as far as the        *)
(* invariant can tell.                                                     *)
ServerMoves ==
    /\ thread' \in [Threads -> {"none", "idle", "busy", "accepted", "stopping", "out"}]
    /\ session' \in [Sessions -> {"none", "waiting", "reading", "handling", "suspended",
                                  "writing", "closed"}]
    /\ accepting' \in BOOLEAN /\ pooled' \in BOOLEAN
    /\ acceptor' # "none" => stage \in Late \cup Range(Ending) \cup {"gone"}
    /\ (accepting \/ \E t \in Threads : thread[t] = "accepted") /\ acceptor' = "open" =>
          accepting' \/ \E t \in Threads : thread'[t] = "accepted"
    /\ acceptor' = "open" => acceptor = "open"
    /\ pooled' \/ (\E s \in Sessions : session'[s] = "suspended") => service = "gateway"

LEMMA ThreadsGoOn ==
    ASSUME ProcessTypes, ServerInv, NEW t \in Threads, ThreadGoesOn(t)
    PROVE  ServerMoves /\ thread[t] \notin {"none", "out"}
<1> USE DEF ProcessTypes, ServerInv, ServerMoves, Late
<1>1. ASSUME NEW isOpen \in BOOLEAN, AcceptAgain(t, isOpen)
      PROVE  ServerMoves /\ thread[t] \notin {"none", "out"}
  BY <1>1 DEF AcceptAgain
<1>2. CASE HandlerReturns(t)
  BY <1>2 DEF HandlerReturns
<1>3. CASE StopContext(t)
  BY <1>3 DEF StopContext
<1>4. CASE ThreadLeaves(t)
  BY <1>4 DEF ThreadLeaves
<1> QED
  BY <1>1, <1>2, <1>3, <1>4 DEF ThreadGoesOn

LEMMA ThreadsAreGiven ==
    ASSUME ProcessTypes, ServerInv, NEW t \in Threads, ThreadIsGiven(t, Routes)
    PROVE  ServerMoves /\ thread[t] \notin {"none", "out"}
<1> USE DEF ProcessTypes, ServerInv, ServerMoves, Free, Late
<1>1. ASSUME NEW s \in Sessions, AcceptCompletes(t, s)
      PROVE  ServerMoves /\ thread[t] \notin {"none", "out"}
  BY <1>1 DEF AcceptCompletes
<1>2. CASE AcceptFails(t)
  BY <1>2 DEF AcceptFails
<1>3. ASSUME NEW s \in Sessions, NEW method, NEW path,
             RequestComes(t, s, findHandler(Routes, method, path))
      PROVE  ServerMoves /\ thread[t] \notin {"none", "out"}
  <2>1. PICK handler : handler = findHandler(Routes, method, path)
    OBVIOUS
  <2>2. handler = "proxy" => service = "gateway"
    BY <2>1, OrderServiceNeverProxies DEF Routes
  <2>3. RequestComes(t, s, handler)
    BY <1>3, <2>1
  <2>4. PICK next : next = CASE handler = "blocking" -> "handling"
                             [] handler = "proxy" -> "suspended"
                             [] OTHER -> "writing"
    OBVIOUS
  <2>5. session' = [session EXCEPT ![s] = next]
    BY <2>3, <2>4 DEF RequestComes
  <2>6. /\ next \in {"handling", "suspended", "writing"}
        /\ next = "suspended" => handler = "proxy"
    <3>1. CASE handler = "blocking"
      <4>1. next = "handling"
        BY <2>4, <3>1
      <4> QED
        BY <4>1
    <3>2. CASE handler = "proxy"
      <4>1. next = "suspended"
        BY <2>4, <3>2
      <4> QED
        BY <4>1, <3>2
    <3>3. CASE handler \notin {"blocking", "proxy"}
      <4>1. next = "writing"
        BY <2>4, <3>3
      <4> QED
        BY <4>1
    <3> QED
      BY <3>1, <3>2, <3>3
  <2>7. PICK busy : thread' = [thread EXCEPT ![t] = busy] /\ busy \in {"busy", "idle"}
    BY <2>3 DEF RequestComes
  <2>8. /\ thread[t] = "idle"
        /\ UNCHANGED <<acceptor, accepting, pooled>>
    BY <2>3 DEF RequestComes
  <2> HIDE DEF ServerMoves
  <2>9. thread' \in [Threads -> {"none", "idle", "busy", "accepted", "stopping", "out"}]
    BY <2>7
  <2>10. session' \in [Sessions -> {"none", "waiting", "reading", "handling", "suspended",
                                    "writing", "closed"}]
    BY <2>5, <2>6
  <2>11. (\E u \in Threads : thread[u] = "accepted") => \E u \in Threads : thread'[u] = "accepted"
    BY <2>7, <2>8
  <2>12. (\E u \in Sessions : session'[u] = "suspended") => service = "gateway"
    BY <2>2, <2>5, <2>6
  <2> QED
    BY <2>8, <2>9, <2>11, <2>12, <2>10 DEF ServerMoves
<1>4. ASSUME NEW s \in Sessions, NEW kept \in BOOLEAN, ProxyReturns(t, s, kept)
      PROVE  ServerMoves /\ thread[t] \notin {"none", "out"}
  BY <1>4 DEF ProxyReturns
<1>5. ASSUME NEW s \in Sessions, NEW keepAlive \in BOOLEAN, WriteCompletes(t, s, keepAlive)
      PROVE  ServerMoves /\ thread[t] \notin {"none", "out"}
  BY <1>5 DEF WriteCompletes
<1>6. ASSUME NEW s \in Sessions, SessionFails(t, s)
      PROVE  ServerMoves /\ thread[t] \notin {"none", "out"}
  BY <1>6 DEF SessionFails
<1>7. CASE SignalHandled(t)
  BY <1>7 DEF SignalHandled
<1> QED
  BY <1>1, <1>2, <1>3, <1>4, <1>5, <1>6, <1>7 DEF ThreadIsGiven

(* What was loaded rests on what does not change.                          *)
LEMMA LoadedRest ==
    ASSUME UNCHANGED <<service, input>>
    PROVE  UNCHANGED <<Proceeding, environment, LoadedNetwork, LoadedUpstream, LoadedDatabase>>
BY DEF Proceeding, Stages, LoadedNetwork, LoadedUpstream, LoadedDatabase, environment, Schema

LEMMA ConfigurationRests ==
    ASSUME ConfiguredInv, UNCHANGED <<service, input, stage, configuration>>
    PROVE  ConfiguredInv'
<1>1. UNCHANGED <<Proceeding, environment, LoadedNetwork, LoadedUpstream, LoadedDatabase>>
  BY LoadedRest
<1>2. UNCHANGED <<network, upstream, database>>
  BY DEF configuration
<1> QED
  BY <1>1, <1>2 DEF ConfiguredInv, EnvironmentRead, NetworkKept, UpstreamKept, DatabaseKept

(* Such a step keeps the invariant while the process serves.               *)
LEMMA ServingGoesOn ==
    ASSUME ProcessInv, ServerMoves, UNCHANGED mainVars,
           ~Over, UNCHANGED thread \/ stage = "serving"
    PROVE  ProcessInv'
<1>1. UNCHANGED <<service, input, stage, status, network, upstream, database, attempt, publisher,
                  consumer>>
  BY DEF mainVars
<1>2. ProcessTypes'
  BY <1>1 DEF ProcessInv, ProcessTypes, ServerMoves, Proceeding, Stages
<1>3. ServerInv'
  <2>1. (stage \notin {"serving", "gone"} => \A t \in Threads : thread[t] \in {"none", "out"})'
    BY <1>1 DEF ProcessInv, ServerInv
  <2>2. KeepsAccepting'
    BY <1>1 DEF ProcessInv, ServerInv, KeepsAccepting, ServerMoves
  <2>3. (acceptor # "none" => stage \in Late \cup Range(Ending) \cup {"gone"})'
    BY <1>1 DEF ProcessInv, ServerInv, ServerMoves, Late, Ending
  <2>4. (pooled \/ (\E s \in Sessions : session[s] = "suspended") => service = "gateway")'
    BY <1>1 DEF ServerMoves
  <2> QED
    BY <2>1, <2>2, <2>3, <2>4 DEF ServerInv
<1>4. ObjectsInv'
  <2>1. status # "terminated"
    BY DEF ProcessInv, ObjectsInv, Over
  <2> QED
    BY <1>1, <2>1 DEF ProcessInv, ObjectsInv, ServerMoves, Configuring
<1>5. ConfiguredInv'
  BY <1>1, ConfigurationRests DEF ProcessInv, configuration
<1> QED
  BY <1>2, <1>3, <1>4, <1>5 DEF ProcessInv

-----------------------------------------------------------------------------
(* The steps of main.                                                      *)

(* What a step of main leaves to be shown once its stage is known to be    *)
(* one that follows, the first destructor's, or the abrupt end.            *)
MainMoves ==
    /\ UNCHANGED <<service, input>>
    /\ stage \in Proceeding
    /\ stage' = stage \/ Follows(stage') \/ stage' \in {"~server", "gone"}
    /\ UNCHANGED status \/ status' = "1" \/ stage' = "gone"

(* The parts of the invariant about the stage and the server, for a step   *)
(* that leaves the server alone.                                           *)
LEMMA ServerUntouched ==
    ASSUME ProcessInv, MainMoves, UNCHANGED serverVars,
           stage # "run",
           stage = "serving" => stage' = "serving" \/ RunReturns
    PROVE  ProcessTypes' /\ ServerInv'
<1> USE DEF MainMoves, serverVars
<1>1. UNCHANGED <<service, input, Proceeding, thread, session, accepting, pooled, acceptor>>
  BY DEF Proceeding, Stages
<1>2. {"~server", "~consumer", "~publisher", "~proxy", "ended", "gone"} \cap Proceeding = {}
  BY StagesOfServices DEF ProcessInv, ProcessTypes
<1>3. stage' \in Proceeding \cup Range(Ending) \cup {"gone"}
  BY EndingOrder DEF Follows
<1>4. ProcessTypes'
  BY <1>1, <1>3, EndingOrder DEF ProcessInv, ProcessTypes
<1>5. stage' # "serving" \/ stage = "serving"
  BY DEF Follows
<1>6. (stage \notin {"serving", "gone"} => \A t \in Threads : thread[t] \in {"none", "out"})'
  BY <1>1, <1>2, <1>5 DEF ProcessInv, ServerInv, RunReturns
<1>7. KeepsAccepting'
  BY <1>1, <1>5 DEF ProcessInv, ServerInv, KeepsAccepting
<1>8. (acceptor # "none" => stage \in Late \cup Range(Ending) \cup {"gone"})'
  BY <1>1, <1>2, EndingOrder DEF ProcessInv, ServerInv, Follows, Late
<1>9. (pooled \/ (\E s \in Sessions : session[s] = "suspended") => service = "gateway")'
  BY <1>1 DEF ProcessInv, ServerInv
<1> QED
  BY <1>4, <1>6, <1>7, <1>8, <1>9 DEF ServerInv

(* What was loaded stays, once main is past its configuration.             *)
LEMMA ConfigurationKept ==
    ASSUME ProcessInv, MainMoves, UNCHANGED configuration, stage \notin Configuring
    PROVE  ConfiguredInv'
<1> USE DEF MainMoves, configuration
<1>1. UNCHANGED <<service, input, network, upstream, database, Proceeding, environment,
                  LoadedNetwork, LoadedUpstream, LoadedDatabase>>
  BY LoadedRest
<1>2. {"~server", "~consumer", "~publisher", "~proxy", "ended", "gone"} \cap Proceeding = {}
  BY StagesOfServices DEF ProcessInv, ProcessTypes
<1>3. stage \in Proceeding \ {"environment", "network", "upstream", "database"}
  BY DEF Configuring
<1>4. EnvironmentRead' /\ NetworkKept'
  BY <1>1, <1>3 DEF ProcessInv, ConfiguredInv, EnvironmentRead, NetworkKept
<1>5. UpstreamKept'
  BY <1>1, <1>2, <1>3 DEF ProcessInv, ConfiguredInv, UpstreamKept, Follows
<1>6. DatabaseKept'
  BY <1>1 DEF ProcessInv, ConfiguredInv, DatabaseKept
<1> QED
  BY <1>4, <1>5, <1>6 DEF ConfiguredInv

(* The part about the objects, for a step that ends nothing abruptly.      *)
LEMMA ObjectsFollow ==
    ASSUME ProcessInv, MainMoves, stage' # "gone",
           UNCHANGED publisher \/ stage \notin Configuring
    PROVE  ObjectsInv'
<1> USE DEF MainMoves
<1>1. {"~server", "~consumer", "~publisher", "~proxy", "ended", "gone"} \cap Proceeding = {}
  BY StagesOfServices DEF ProcessInv, ProcessTypes
<1>2. stage' \notin {"~consumer", "~publisher", "~proxy", "ended"}
  BY <1>1 DEF Follows
<1>3. status' \notin {"exit 1", "terminated"}
  BY <1>1 DEF ProcessInv, ObjectsInv
<1>4. (stage \in Configuring => publisher = "none")'
  BY <1>1 DEF ProcessInv, ObjectsInv, Follows, Configuring
<1> QED
  BY <1>2, <1>3, <1>4 DEF ObjectsInv

(* main goes on, and leaves the server and what was loaded alone.          *)
LEMMA MainGoesOn ==
    ASSUME ProcessInv, stage \in Proceeding, Succeed,
           UNCHANGED <<service, input, configuration, serverVars>>,
           stage \notin Configuring \cup {"run"},
           stage = "serving" => RunReturns
    PROVE  ProcessInv'
<1>1. service \in Services
  BY DEF ProcessInv, ProcessTypes
<1>2. Follows(stage')
  BY <1>1, Succeeds
<1>3. MainMoves
  BY <1>2 DEF MainMoves, Succeed
<1>4. stage' # "gone"
  BY <1>1, <1>2, StagesOfServices DEF Follows
<1> QED
  BY <1>3, <1>4, ServerUntouched, ConfigurationKept, ObjectsFollow DEF ProcessInv

(* main returns early.                                                     *)
LEMMA MainReturns ==
    ASSUME ProcessInv, stage \in Proceeding, Return("1"),
           UNCHANGED <<service, input, configuration, serverVars>>,
           stage \notin Configuring \cup {"run", "serving"}
    PROVE  ProcessInv'
<1>1. MainMoves /\ stage' # "gone"
  BY DEF MainMoves, Return
<1> QED
  BY <1>1, ServerUntouched, ConfigurationKept, ObjectsFollow DEF ProcessInv, Configuring

(* Of a process that is past serving nothing is said.                      *)
LEMMA LeavesNothingLoaded ==
    ASSUME stage' \in {"~server", "~consumer", "~publisher", "~proxy", "ended", "gone"},
           {"~server", "~consumer", "~publisher", "~proxy", "ended", "gone"} \cap Proceeding = {},
           UNCHANGED Proceeding
    PROVE  ConfiguredInv'
BY DEF ConfiguredInv, EnvironmentRead, NetworkKept, UpstreamKept, DatabaseKept

(* The process ends abruptly.                                              *)
LEMMA AbruptEnd ==
    ASSUME ProcessInv, stage' = "gone",
           UNCHANGED <<service, input, publisher, serverVars>>,
           status' = "exit 1" =>
              publisher = "none" \/ (service = "order-service" /\ attempt' = MaxAttempts),
           status' = "terminated" => acceptor = "none"
    PROVE  ProcessInv'
<1>1. UNCHANGED <<service, input, Proceeding, thread, session, accepting, pooled, acceptor>>
  BY DEF Proceeding, Stages, serverVars
<1>2. ProcessTypes'
  BY <1>1 DEF ProcessInv, ProcessTypes
<1>3. ServerInv'
  BY <1>1 DEF ProcessInv, ServerInv, KeepsAccepting
<1>4. ObjectsInv'
  BY <1>1 DEF ObjectsInv, Configuring
<1>5. "gone" \notin Proceeding'
  BY <1>1, StagesOfServices DEF ProcessInv, ProcessTypes
<1>6. ConfiguredInv'
  BY <1>5 DEF ConfiguredInv, EnvironmentRead, NetworkKept, UpstreamKept, DatabaseKept
<1> QED
  BY <1>2, <1>3, <1>4, <1>6 DEF ProcessInv

(* A stage that loads keeps what it loaded, and the others leave it be.    *)
LEMMA WhatIsLoadedIsKept ==
    ASSUME ProcessInv, LoadEnvironment \/ LoadNetwork \/ LoadUpstream \/ LoadDatabase,
           UNCHANGED <<service, input>>, stage' # "gone", Follows(stage'), stage \in Configuring
    PROVE  ConfiguredInv'
<1>1. UNCHANGED <<Proceeding, environment, LoadedNetwork, LoadedUpstream, LoadedDatabase>>
  BY LoadedRest
<1>2. ASSUME NEW result, UnwrapOrExit(result) PROVE ~Failed(result)
  BY <1>2 DEF UnwrapOrExit, Gone
<1>3. \/ stage = "environment" /\ LoadEnvironment
      \/ stage = "network" /\ LoadNetwork
      \/ stage = "upstream" /\ LoadUpstream
      \/ stage = "database" /\ LoadDatabase
  BY DEF LoadEnvironment, LoadNetwork, LoadUpstream, LoadDatabase
<1>4. stage \in Proceeding
  BY EndingOrder DEF ProcessInv, ProcessTypes, Configuring
<1>5. EnvironmentRead'
  <2>1. CASE stage = "environment"
    <3>1. UnwrapOrExit(environment)
      BY <1>3, <2>1 DEF LoadEnvironment
    <3> QED
      BY <1>1, <1>2, <3>1 DEF EnvironmentRead
  <2>2. CASE stage # "environment"
    BY <1>1, <1>4, <2>2 DEF ProcessInv, ConfiguredInv, EnvironmentRead
  <2> QED
    BY <2>1, <2>2
<1>6. NetworkKept'
  <2>1. CASE stage = "network"
    <3>1. /\ UnwrapOrExit(LoadedNetwork)
          /\ network' = IF Failed(LoadedNetwork) THEN {} ELSE {LoadedNetwork}
      BY <1>3, <2>1 DEF LoadNetwork, LoadedNetwork
    <3>2. ~Failed(LoadedNetwork)
      BY <1>2, <3>1
    <3> QED
      BY <1>1, <3>1, <3>2 DEF NetworkKept
  <2>2. CASE stage = "environment"
    BY <2>2 DEF NetworkKept, Follows
  <2>3. CASE stage \notin {"environment", "network"}
    <3>1. UNCHANGED network
      BY <1>3, <2>3 DEF LoadUpstream, LoadDatabase
    <3> QED
      BY <1>1, <1>4, <2>3, <3>1 DEF ProcessInv, ConfiguredInv, NetworkKept
  <2> QED
    BY <2>1, <2>2, <2>3
<1>7. UpstreamKept'
  <2>1. CASE stage = "upstream"
    <3>1. /\ UnwrapOrExit(LoadedUpstream)
          /\ upstream' = IF Failed(LoadedUpstream) THEN {} ELSE {LoadedUpstream}
      BY <1>3, <2>1 DEF LoadUpstream, LoadedUpstream
    <3>2. ~Failed(LoadedUpstream)
      BY <1>2, <3>1
    <3> QED
      BY <1>1, <3>1, <3>2 DEF UpstreamKept
  <2>2. CASE stage # "upstream"
    BY <2>2 DEF UpstreamKept, Follows, Configuring
  <2> QED
    BY <2>1, <2>2
<1>8. DatabaseKept'
  <2>1. CASE stage = "database"
    <3>1. /\ UnwrapOrExit(LoadedDatabase)
          /\ database' = IF Failed(LoadedDatabase) THEN {} ELSE {LoadedDatabase}
      BY <1>3, <2>1 DEF LoadDatabase, LoadedDatabase
    <3>2. ~Failed(LoadedDatabase)
      BY <1>2, <3>1
    <3> QED
      BY <1>1, <3>1, <3>2 DEF DatabaseKept
  <2>2. CASE stage # "database"
    <3>1. service # "gateway" => stage' \in Configuring
      BY <2>2 DEF Follows
    <3> QED
      BY <3>1 DEF DatabaseKept, Configuring
  <2> QED
    BY <2>1, <2>2
<1> QED
  BY <1>5, <1>6, <1>7, <1>8 DEF ConfiguredInv

(* The configuration's stages: what is kept is what was loaded.            *)
LEMMA Configures ==
    ASSUME ProcessInv, LoadEnvironment \/ LoadNetwork \/ LoadUpstream \/ LoadDatabase
    PROVE  ProcessInv'
<1>1. /\ stage \in Configuring
      /\ UNCHANGED <<service, input, serverVars, publisher>>
  BY DEF LoadEnvironment, LoadNetwork, LoadUpstream, LoadDatabase, Configuring, objects, constant
<1>2. service \in Services /\ publisher = "none"
  BY <1>1 DEF ProcessInv, ProcessTypes, ObjectsInv
<1>3. stage \in Proceeding
  BY <1>1, EndingOrder DEF ProcessInv, ProcessTypes, Configuring
<1>4. acceptor = "none"
  BY <1>1, EndingOrder DEF ProcessInv, ServerInv, Configuring, Late
<1>5. ASSUME NEW result, UnwrapOrExit(result)
      PROVE  (Succeed /\ ~Failed(result)) \/ \E how \in {"terminated", "exit 1"} : Gone(how)
  BY <1>5 DEF UnwrapOrExit
<1>6. CASE \E how \in {"terminated", "exit 1"} : Gone(how)
  <2>1. stage' = "gone"
    BY <1>6 DEF Gone
  <2>2. UNCHANGED <<service, input, publisher, serverVars>>
    BY <1>1
  <2>3. status' = "exit 1" =>
           publisher = "none" \/ (service = "order-service" /\ attempt' = MaxAttempts)
    BY <1>2
  <2>4. status' = "terminated" => acceptor = "none"
    BY <1>4
  <2> QED
    BY <2>1, <2>2, <2>3, <2>4, AbruptEnd
<1>7. CASE Succeed
  <2>1. Follows(stage')
    BY <1>2, <1>3, <1>7, Succeeds
  <2>2. MainMoves
    BY <1>1, <1>3, <1>7, <2>1 DEF MainMoves, Succeed
  <2>3. stage # "run" /\ stage # "serving" /\ stage' # "gone"
    BY <1>1, <1>2, <2>1, StagesOfServices DEF Configuring, Follows
  <2>4. ProcessTypes' /\ ServerInv'
    BY <1>1, <2>2, <2>3, ServerUntouched
  <2>5. ObjectsInv'
    BY <1>1, <2>2, <2>3, ObjectsFollow
  <2>6. ConfiguredInv'
    BY <1>1, <1>7, <2>1, <2>3, WhatIsLoadedIsKept
  <2> QED
    BY <2>4, <2>5, <2>6 DEF ProcessInv
<1> QED
  <2>1. \E result : UnwrapOrExit(result)
    <3>1. CASE LoadEnvironment
      BY <3>1 DEF LoadEnvironment
    <3>2. CASE LoadNetwork
      BY <3>2 DEF LoadNetwork
    <3>3. CASE LoadUpstream
      BY <3>3 DEF LoadUpstream
    <3>4. CASE LoadDatabase
      BY <3>4 DEF LoadDatabase
    <3> QED
      BY <3>1, <3>2, <3>3, <3>4
  <2> QED
    BY <1>5, <1>6, <1>7, <2>1

(* The destructors, in the reverse of the order in which main constructs   *)
(* its objects.                                                            *)
LEMMA Destruction ==
    ASSUME ProcessInv, Destroy \/ DestroyProxy
    PROVE  ProcessInv'
<1> USE DEF objects, constant, configuration
<1>1. /\ service \in Services
      /\ {"~server", "~consumer", "~publisher", "~proxy", "ended", "gone"} \cap Proceeding = {}
  BY StagesOfServices DEF ProcessInv, ProcessTypes
<1>2. UNCHANGED <<service, input, Proceeding>>
  BY DEF Destroy, DestroyProxy, Proceeding, Stages
<1>3. \A t \in Threads : thread[t] \in {"none", "out"}
  BY DEF ProcessInv, ServerInv, Destroy, DestroyProxy
<1>4. CASE Destroy
  <2>1. stage' = After(Ending, "ended") /\ stage \in {"~server", "~consumer", "~publisher"}
    BY <1>4 DEF Destroy
  <2>2. /\ stage = "~server" => stage' = "~consumer"
        /\ stage = "~consumer" => stage' = "~publisher"
        /\ stage = "~publisher" => stage' = "~proxy"
    BY <2>1, EndingOrder
  <2>3. stage' \in {"~consumer", "~publisher", "~proxy"}
    BY <2>1, <2>2
  <2>4. UNCHANGED <<thread, pooled, status>>
    BY <1>4 DEF Destroy, DestroyServer, serverVars
  <2>5. \/ UNCHANGED <<session, accepting, acceptor>>
        \/ session' = [s \in Sessions |-> "closed"] /\ accepting' = FALSE /\ acceptor' = "destroyed"
    BY <1>4 DEF Destroy, DestroyServer, serverVars
  <2>6. ProcessTypes'
    BY <1>2, <2>3, <2>4, <2>5, EndingOrder DEF ProcessInv, ProcessTypes
  <2>7. ServerInv'
    <3>1. (pooled \/ (\E s \in Sessions : session[s] = "suspended") => service = "gateway")'
      BY <1>2, <2>4, <2>5 DEF ProcessInv, ServerInv
    <3> QED
      BY <1>3, <2>3, <2>4, <3>1, EndingOrder DEF ServerInv, KeepsAccepting
  <2>8. ObjectsInv'
    <3>1. status' \notin {"exit 1", "terminated"}
      BY <2>1, <2>4 DEF ProcessInv, ObjectsInv
    <3>2. stage' \in {"~publisher", "~proxy"} => consumer' \in {"none", "stopped"}
      BY <1>4, <2>1, <2>2 DEF Destroy, ProcessInv, ObjectsInv
    <3>3. stage' = "~proxy" => publisher' \in {"none", "joined"}
      BY <1>4, <2>1, <2>2 DEF Destroy
    <3> QED
      BY <2>3, <3>1, <3>2, <3>3 DEF ObjectsInv, Configuring
  <2>9. ConfiguredInv'
    BY <1>1, <1>2, <2>3, LeavesNothingLoaded
  <2> QED
    BY <2>6, <2>7, <2>8, <2>9 DEF ProcessInv
<1>5. CASE DestroyProxy
  <2>1. UNCHANGED <<publisher, consumer, thread, session, accepting, pooled, acceptor>>
    BY <1>5 DEF DestroyProxy, serverVars
  <2>2. /\ stage = "~proxy"
        /\ \/ stage' = "ended" /\ status' = IF status = "none" THEN "0" ELSE status
           \/ pooled /\ stage' = "gone" /\ status' = "terminated"
    BY <1>5 DEF DestroyProxy, Gone
  <2>3. ProcessTypes'
    BY <1>2, <2>1, <2>2, EndingOrder DEF ProcessInv, ProcessTypes
  <2>4. ServerInv'
    BY <1>2, <1>3, <2>1, <2>2, EndingOrder DEF ProcessInv, ServerInv, KeepsAccepting
  <2>5. ObjectsInv'
    <3>1. status \notin {"exit 1", "terminated"}
      BY <2>2 DEF ProcessInv, ObjectsInv
    <3>2. pooled => service = "gateway"
      BY DEF ProcessInv, ServerInv
    <3>3. consumer \in {"none", "stopped"} /\ publisher \in {"none", "joined"}
      BY <2>2 DEF ProcessInv, ObjectsInv
    <3> QED
      BY <1>2, <2>1, <2>2, <3>1, <3>2, <3>3 DEF ObjectsInv, Configuring
  <2>6. ConfiguredInv'
    BY <1>1, <1>2, <2>2, LeavesNothingLoaded
  <2> QED
    BY <2>3, <2>4, <2>5, <2>6 DEF ProcessInv
<1> QED
  BY <1>4, <1>5

LEMMA MainSteps == ASSUME ProcessInv, MainStep PROVE ProcessInv'
<1> USE DEF objects, constant
<1>1. /\ service \in Services
      /\ {"~server", "~consumer", "~publisher", "~proxy", "ended", "gone"} \cap Proceeding = {}
      /\ "consumer" \in Proceeding => service # "gateway"
  BY StagesOfServices DEF ProcessInv, ProcessTypes
<1>2. stage \notin {"~server", "~consumer", "~publisher", "~proxy", "ended", "gone"} =>
         stage \in Proceeding
  BY EndingOrder DEF ProcessInv, ProcessTypes
<1>3. CASE LoadEnvironment \/ LoadNetwork \/ LoadUpstream \/ LoadDatabase
  BY <1>3, Configures
<1>4. ASSUME NEW ok \in BOOLEAN, Build(ok) PROVE ProcessInv'
  <2>1. stage \in Proceeding /\ stage \notin Configuring \cup {"run", "serving"}
    BY <1>2, <1>4 DEF Build, Configuring
  <2>2. UNCHANGED <<service, input, configuration, serverVars, publisher>>
    BY <1>4 DEF Build
  <2>3. Succeed \/ Return("1")
    BY <1>4 DEF Build
  <2> QED
    BY <2>1, <2>2, <2>3, MainGoesOn, MainReturns DEF Configuring
<1>5. ASSUME NEW ok \in BOOLEAN, CreateConsumer(ok) PROVE ProcessInv'
  <2>1. stage = "consumer" /\ stage \in Proceeding /\ service # "gateway"
    BY <1>1, <1>2, <1>5 DEF CreateConsumer
  <2>2. UNCHANGED <<service, input, configuration, serverVars>>
    BY <1>5 DEF CreateConsumer
  <2>3. CASE Succeed
    BY <2>1, <2>2, <2>3, MainGoesOn DEF Configuring
  <2>4. CASE UNCHANGED <<stage, status, publisher, consumer>>
    <3>1. MainMoves
      BY <2>1, <2>2, <2>4 DEF MainMoves
    <3>2. stage' # "gone"
      BY <2>1, <2>4
    <3> QED
      BY <2>1, <2>2, <2>4, <3>1, <3>2, ServerUntouched, ConfigurationKept, ObjectsFollow
      DEF ProcessInv, Configuring
  <2>5. CASE Return("1")
    BY <2>1, <2>2, <2>5, MainReturns DEF Configuring
  <2>6. CASE service # "worker-service" /\ Gone("exit 1") /\ attempt' = MaxAttempts
             /\ UNCHANGED publisher
    <3>1. service = "order-service"
      BY <1>1, <2>1, <2>6 DEF Services
    <3> QED
      BY <2>2, <2>6, <3>1, AbruptEnd DEF Gone
  <2> QED
    BY <1>5, <2>3, <2>4, <2>5, <2>6 DEF CreateConsumer, FailAndStop
<1>6. ASSUME NEW ok \in BOOLEAN, StartConsumer(ok) PROVE ProcessInv'
  <2>1. stage = "startConsumer" /\ stage \in Proceeding
    BY <1>2, <1>6 DEF StartConsumer
  <2>2. UNCHANGED <<service, input, configuration, serverVars>>
    BY <1>6 DEF StartConsumer
  <2>3. Succeed \/ Return("1")
    BY <1>6 DEF StartConsumer, FailAndStop
  <2> QED
    BY <2>1, <2>2, <2>3, MainGoesOn, MainReturns DEF Configuring
<1>7. ASSUME NEW ok \in BOOLEAN, CreateServer(ok) PROVE ProcessInv'
  <2>1. stage = "server" /\ stage \in Proceeding
    BY <1>2, <1>7 DEF CreateServer
  <2>2. UNCHANGED <<service, input, configuration, publisher>>
    BY <1>7 DEF CreateServer
  <2>3. acceptor = "none"
    BY <2>1, EndingOrder DEF ProcessInv, ServerInv, Late
  <2>4. CASE Gone("terminated") /\ UNCHANGED serverVars
    BY <2>2, <2>3, <2>4, AbruptEnd DEF Gone
  <2>5. CASE Construct /\ Succeed
    <3>1. Follows(stage')
      BY <1>1, <2>1, <2>5, Succeeds
    <3>2. MainMoves
      BY <2>1, <2>2, <2>5, <3>1 DEF MainMoves, Succeed
    <3>3. stage' # "gone" /\ stage' # "serving" /\ stage' \in Late \cup {"~server"}
      BY <1>1, <2>1, <3>1 DEF Follows
    <3>4. ConfiguredInv' /\ ObjectsInv'
      BY <2>1, <2>2, <3>2, <3>3, ConfigurationKept, ObjectsFollow DEF Configuring
    <3>5. UNCHANGED <<Proceeding, thread, session, accepting, pooled>>
      BY <2>2, <2>5 DEF Proceeding, Stages, Construct
    <3>6. ProcessTypes'
      BY <2>2, <3>1, <3>5, EndingOrder DEF ProcessInv, ProcessTypes, Follows
    <3>7. ServerInv'
      BY <2>1, <2>2, <3>3, <3>5, EndingOrder DEF ProcessInv, ServerInv, KeepsAccepting
    <3> QED
      BY <3>4, <3>6, <3>7 DEF ProcessInv
  <2> QED
    BY <1>7, <2>4, <2>5 DEF CreateServer
<1>8. CASE StartPublisher
  <2>1. stage = "publisher" /\ stage \in Proceeding
    BY <1>2, <1>8 DEF StartPublisher
  <2> QED
    BY <1>8, <2>1, MainGoesOn DEF StartPublisher, Configuring
<1>9. CASE RunServer
  <2>1. stage = "run" /\ stage \in Proceeding
    BY <1>2, <1>9 DEF RunServer
  <2>2. UNCHANGED <<service, input, configuration, publisher>> /\ Succeed /\ RunBegins
    BY <1>9 DEF RunServer
  <2>3. Follows(stage')
    BY <1>1, <2>1, <2>2, Succeeds
  <2>4. MainMoves /\ stage' = "serving"
    BY <2>1, <2>2, <2>3 DEF MainMoves, Succeed, Follows
  <2>5. ConfiguredInv' /\ ObjectsInv'
    BY <2>1, <2>2, <2>4, ConfigurationKept, ObjectsFollow DEF Configuring
  <2>6. UNCHANGED <<Proceeding, acceptor, session, pooled>> /\ accepting' = TRUE
    BY <2>2 DEF Proceeding, Stages, RunBegins
  <2>7. thread' = [t \in Threads |-> "idle"]
    BY <2>2 DEF RunBegins
  <2>8. ProcessTypes'
    BY <2>2, <2>3, <2>4, <2>6, <2>7, EndingOrder DEF ProcessInv, ProcessTypes, Follows
  <2>9. ServerInv'
    BY <2>2, <2>4, <2>6 DEF ProcessInv, ServerInv, KeepsAccepting, Late
  <2> QED
    BY <2>5, <2>8, <2>9 DEF ProcessInv
<1>10. CASE ServingEnds
  <2>1. stage \in {"serving", "waiting"} /\ stage \in Proceeding
    BY <1>2, <1>10 DEF ServingEnds
  <2> QED
    BY <1>10, <2>1, MainGoesOn DEF ServingEnds, Configuring
<1>11. CASE StopConsumer
  <2>1. stage = "stopConsumer" /\ stage \in Proceeding
    BY <1>2, <1>11 DEF StopConsumer
  <2> QED
    BY <1>11, <2>1, MainGoesOn DEF StopConsumer, Configuring
<1>12. CASE StopPublisher
  <2>1. stage = "stopPublisher" /\ stage \in Proceeding
    BY <1>2, <1>12 DEF StopPublisher
  <2> QED
    BY <1>12, <2>1, MainGoesOn DEF StopPublisher, Configuring
<1>13. CASE Destroy
  BY <1>13, Destruction
<1>14. CASE DestroyProxy
  BY <1>14, Destruction
<1> QED
  BY <1>3, <1>4, <1>5, <1>6, <1>7, <1>8, <1>9, <1>10, <1>11, <1>12, <1>13, <1>14 DEF MainStep

(* A signal, to be handled by the process's flag, by the server's signal   *)
(* set, or by nobody.                                                      *)
LEMMA SignalsComing == ASSUME ProcessInv, Signal PROVE ProcessInv'
<1> USE DEF objects, configuration
<1>1. UNCHANGED <<service, input, network, upstream, database, attempt, publisher, consumer>> /\ ~Over
  BY DEF Signal
<1>2. CASE UNCHANGED <<stage, status, acceptor, accepting, thread, session, pooled>>
  <2>1. UNCHANGED Proceeding
    BY <1>1, LoadedRest
  <2>2. ProcessTypes'
    BY <1>1, <1>2, <2>1, EndingOrder DEF ProcessInv, ProcessTypes
  <2>3. ServerInv'
    BY <1>1, <1>2, EndingOrder DEF ProcessInv, ServerInv, KeepsAccepting
  <2>4. ObjectsInv'
    BY <1>1, <1>2 DEF ProcessInv, ObjectsInv
  <2>5. ConfiguredInv'
    BY <1>1, <1>2, ConfigurationRests DEF ProcessInv
  <2> QED
    BY <2>2, <2>3, <2>4, <2>5 DEF ProcessInv
<1>3. CASE Gone("killed") /\ UNCHANGED serverVars
  <2>1. stage' = "gone" /\ status' = "killed"
    BY <1>3 DEF Gone
  <2> QED
    BY <1>1, <1>3, <2>1, AbruptEnd
<1> QED
  BY <1>2, <1>3 DEF Signal, serverVars

-----------------------------------------------------------------------------
LEMMA ProcessInductive == ProcessInv /\ [Next]_vars => ProcessInv'
<1> SUFFICES ASSUME ProcessInv, [Next]_vars PROVE ProcessInv'
  OBVIOUS
<1>1. CASE MainStep
  BY <1>1, MainSteps
<1>2. CASE Signal
  BY <1>2, SignalsComing
<1>3. ASSUME NEW t \in Threads, IoGoesOn(t) PROVE ProcessInv'
  <2>1. ThreadGoesOn(t) /\ ~Over /\ UNCHANGED mainVars
    BY <1>3 DEF IoGoesOn
  <2>2. ServerMoves /\ thread[t] \notin {"none", "out"}
    BY <2>1, ThreadsGoOn DEF ProcessInv
  <2>3. stage = "serving"
    BY <2>1, <2>2 DEF ProcessInv, ServerInv, Over
  <2> QED
    BY <2>1, <2>2, <2>3, ServingGoesOn
<1>4. ASSUME NEW t \in Threads, IoIsGiven(t) PROVE ProcessInv'
  <2>1. ThreadIsGiven(t, Routes) /\ ~Over /\ UNCHANGED mainVars
    BY <1>4 DEF IoIsGiven
  <2>2. ServerMoves /\ thread[t] \notin {"none", "out"}
    BY <2>1, ThreadsAreGiven DEF ProcessInv
  <2>3. stage = "serving"
    BY <2>1, <2>2 DEF ProcessInv, ServerInv, Over
  <2> QED
    BY <2>1, <2>2, <2>3, ServingGoesOn
<1>5. CASE Clients
  <2>1. PICK s \in Sessions : Connect(s) /\ ~Over /\ UNCHANGED mainVars
    BY <1>5 DEF Clients
  <2>2. UNCHANGED <<acceptor, accepting, thread, pooled>>
        /\ session' = [session EXCEPT ![s] = "waiting"]
    BY <2>1 DEF Connect
  <2>3. ServerMoves
    BY <2>2 DEF ProcessInv, ProcessTypes, ServerInv, ServerMoves
  <2> QED
    BY <2>1, <2>2, <2>3, ServingGoesOn
<1>6. CASE UNCHANGED vars
  <2>1. UNCHANGED <<service, input, stage, status, network, upstream, database, attempt, publisher, consumer,
                    acceptor, accepting, thread, session, pooled>>
    BY <1>6 DEF vars, mainVars, serverVars
  <2>2. UNCHANGED Proceeding
    BY <2>1, LoadedRest
  <2>3. ProcessTypes'
    BY <2>1, <2>2, EndingOrder DEF ProcessInv, ProcessTypes
  <2>4. ServerInv'
    BY <2>1, EndingOrder DEF ProcessInv, ServerInv, KeepsAccepting
  <2>5. ObjectsInv'
    BY <2>1 DEF ProcessInv, ObjectsInv
  <2>6. ConfiguredInv'
    BY <2>1, ConfigurationRests DEF ProcessInv, configuration
  <2> QED
    BY <2>3, <2>4, <2>5, <2>6 DEF ProcessInv
<1>7. CASE Finished
  BY <1>6, <1>7 DEF Finished
<1> QED
  BY <1>1, <1>2, <1>3, <1>4, <1>5, <1>6, <1>7 DEF Next

LEMMA ProcessInvariant == Spec => []ProcessInv
<1> QED
  BY ProcessBegins, ProcessInductive, PTL DEF Spec

(* An accept that failed is followed by the next one, however many threads *)
(* run the io_context and however their steps interleave with a stop.      *)
THEOREM AcceptingNeverStops == Spec => []KeepsAccepting
<1>1. ProcessInv => KeepsAccepting
  BY DEF ProcessInv, ServerInv
<1> QED
  BY <1>1, ProcessInvariant, PTL

(* On every path out of every main, of which the early ones are the many,  *)
(* threads are joined before what they use is destroyed, but for the two   *)
(* ends that NothingOutlivesItsOwner names.                                *)
THEOREM NothingOutlives == Spec => []NothingOutlivesItsOwner
<1>1. ProcessInv => NothingOutlivesItsOwner
  <2> SUFFICES ASSUME ProcessInv PROVE NothingOutlivesItsOwner
    OBVIOUS
  <2>1. Range(Ending) = {"~server", "~consumer", "~publisher", "~proxy", "ended"}
    BY EndingOrder
  <2>2. stage \in {"stopConsumer", "stopPublisher"} \cup Range(Ending) =>
           \A t \in Threads : thread[t] \in {"none", "out"}
    BY <2>1 DEF ProcessInv, ServerInv
  <2> QED
    BY <2>2 DEF ProcessInv, ObjectsInv, NothingOutlivesItsOwner
<1> QED
  BY <1>1, ProcessInvariant, PTL

-----------------------------------------------------------------------------
(* The configuration.                                                      *)

(* An error and an exception are no results.                               *)
LEMMA WhatFailed ==
    /\ \A e : Failed(Error(e))
    /\ \A v : ~Failed([value |-> v]) /\ ~Failed([section |-> v])
    /\ \A v : ~Failed([address |-> v]) /\ ~Failed([host |-> v])
<1> QED
  BY DEF Failed, Error

LEMMA ValueIsRead ==
    ASSUME NEW section, NEW key, ~Failed(getValue(section, key))
    PROVE  getValue(section, key) = [value |-> section[key]]
<1> QED
  BY WhatFailed DEF getValue

LEMMA SectionIsRead ==
    ASSUME NEW file, NEW name, ~Failed(loadSection(file, name))
    PROVE  loadSection(file, name) = [section |-> file.sections[name]]
<1> QED
  BY WhatFailed DEF loadSection

LEMMA AddressIsTheText ==
    ASSUME NEW text, ~Failed(NetworkAddressCreate(text))
    PROVE  NetworkAddressCreate(text).address = text /\ text.ip
<1> QED
  BY WhatFailed DEF NetworkAddressCreate

LEMMA HostIsTheText ==
    ASSUME NEW text, ~Failed(HostCreate(text))
    PROVE  HostCreate(text).host = text
<1> QED
  BY WhatFailed DEF HostCreate

LEMMA NetworkIsRead ==
    ASSUME NEW section, ~Failed(NetworkFromJson(section))
    PROVE  /\ NetworkFromJson(section).address = section["address"] /\ section["address"].ip
           /\ NetworkFromJson(section).port = UInt16(section["port"])
<1>1. PICK port : port = getValue(section, "port")
  OBVIOUS
<1>2. PICK text : text = getValue(section, "address")
  OBVIOUS
<1>3. PICK address : address = IF Failed(text) THEN text ELSE NetworkAddressCreate(text.value)
  OBVIOUS
<1>4. NetworkFromJson(section) = IF Failed(port) THEN port
                                 ELSE IF Failed(address) THEN address
                                 ELSE [address |-> address.address, port |-> UInt16(port.value)]
  BY <1>1, <1>2, <1>3 DEF NetworkFromJson
<1>5. ~Failed(port) /\ ~Failed(address) /\ ~Failed(text)
  BY <1>3, <1>4
<1>6. port = [value |-> section["port"]] /\ text = [value |-> section["address"]]
  BY <1>1, <1>2, <1>5, ValueIsRead
<1>7. address = NetworkAddressCreate(section["address"])
  BY <1>3, <1>5, <1>6
<1>8. address.address = section["address"] /\ section["address"].ip
  BY <1>5, <1>7, AddressIsTheText
<1> QED
  BY <1>4, <1>5, <1>6, <1>8

LEMMA UpstreamIsRead ==
    ASSUME NEW section, ~Failed(UpstreamFromJson(section))
    PROVE  /\ UpstreamFromJson(section).host = section["address"]
           /\ UpstreamFromJson(section).port = UInt16(section["port"])
<1>1. PICK port : port = getValue(section, "port")
  OBVIOUS
<1>2. PICK text : text = getValue(section, "address")
  OBVIOUS
<1>3. PICK host : host = IF Failed(text) THEN text ELSE HostCreate(text.value)
  OBVIOUS
<1>4. UpstreamFromJson(section) = IF Failed(port) THEN port
                                  ELSE IF Failed(host) THEN host
                                  ELSE [host |-> host.host, port |-> UInt16(port.value)]
  BY <1>1, <1>2, <1>3 DEF UpstreamFromJson
<1>5. ~Failed(port) /\ ~Failed(host) /\ ~Failed(text)
  BY <1>3, <1>4
<1>6. port = [value |-> section["port"]] /\ text = [value |-> section["address"]]
  BY <1>1, <1>2, <1>5, ValueIsRead
<1>7. host = HostCreate(section["address"])
  BY <1>3, <1>5, <1>6
<1>8. host.host = section["address"]
  BY <1>5, <1>7, HostIsTheText
<1> QED
  BY <1>4, <1>5, <1>6, <1>8

(* What a process listens on: the command line wins.                       *)
LEMMA NetworkIsAsWritten ==
    ASSUME NEW file, NEW addressOverride, NEW portOverride,
           ~Failed(loadNetworkConfiguration(file, addressOverride, portOverride))
    PROVE  /\ loadNetworkConfiguration(file, addressOverride, portOverride).address =
                 IF addressOverride # {} THEN The(addressOverride)
                 ELSE file.sections["network"]["address"]
           /\ IF addressOverride # {} THEN The(addressOverride).ip
              ELSE file.sections["network"]["address"].ip
           /\ loadNetworkConfiguration(file, addressOverride, portOverride).port =
                 IF portOverride # {} THEN The(portOverride)
                 ELSE UInt16(file.sections["network"]["port"])
<1>1. PICK result : result = loadNetworkConfiguration(file, addressOverride, portOverride)
  OBVIOUS
<1>2. PICK section : section = loadSection(file, "network")
  OBVIOUS
<1>3. PICK written : written = IF Failed(section) THEN section ELSE NetworkFromJson(section.section)
  OBVIOUS
<1>4. PICK address : address = IF Failed(written) THEN written
                               ELSE IF addressOverride = {} THEN written
                               ELSE NetworkAddressCreate(The(addressOverride))
  OBVIOUS
<1>5. result = IF Failed(address) THEN address
               ELSE [address |-> address.address,
                     port |-> IF portOverride = {} THEN written.port ELSE The(portOverride)]
  BY <1>1, <1>2, <1>3, <1>4 DEF loadNetworkConfiguration
<1>6. ~Failed(address) /\ ~Failed(written) /\ ~Failed(section)
  BY <1>1, <1>3, <1>4, <1>5
<1>7. section = [section |-> file.sections["network"]]
  BY <1>2, <1>6, SectionIsRead
<1>8. written = NetworkFromJson(file.sections["network"])
  BY <1>3, <1>6, <1>7
<1>9. /\ written.address = file.sections["network"]["address"]
      /\ file.sections["network"]["address"].ip
      /\ written.port = UInt16(file.sections["network"]["port"])
  BY <1>6, <1>8, NetworkIsRead
<1>10. addressOverride # {} => /\ address.address = The(addressOverride)
                               /\ The(addressOverride).ip
  BY <1>4, <1>6, AddressIsTheText
<1>11. addressOverride = {} => address = written
  BY <1>4, <1>6
<1>12. result.address = address.address
       /\ result.port = IF portOverride = {} THEN written.port ELSE The(portOverride)
  BY <1>5, <1>6
<1>13. result.address = IF addressOverride # {} THEN The(addressOverride)
                        ELSE file.sections["network"]["address"]
  BY <1>9, <1>10, <1>11, <1>12
<1>14. result.port = IF portOverride # {} THEN The(portOverride)
                     ELSE UInt16(file.sections["network"]["port"])
  BY <1>9, <1>12
<1> QED
  BY <1>1, <1>9, <1>10, <1>13, <1>14

(* What the gateway's environment may say reaches it unchanged.            *)
LEMMA GatewayEnvironment ==
    ASSUME NEW env, NEW name \in {"GATEWAY_ORDER_SERVICE_ADDRESS", "GATEWAY_ORDER_SERVICE_PORT"}
    PROVE  get(load(GatewaySchema, env), name) = IF name \in DOMAIN env THEN {env[name]} ELSE {}
<1>1. PICK schema : schema = GatewaySchema
  OBVIOUS
<1>2. /\ \A spec \in schema : spec.defaultValue = {} /\ spec.required = FALSE
      /\ \A spec \in schema : spec.name \in {"GATEWAY_ORDER_SERVICE_ADDRESS", "GATEWAY_ORDER_SERVICE_PORT"}
      /\ \E spec \in schema : spec.name = name
  BY <1>1 DEF GatewaySchema, Declared
<1>3. PICK given : given = {spec \in schema : spec.name \in DOMAIN env}
  OBVIOUS
<1>4. {spec \in schema \ given : spec.defaultValue # {}} = {}
  BY <1>2
<1>5. {spec \in schema \ (given \cup {}) : spec.required} = {}
  BY <1>2
<1>6. PICK names : names = {spec.name : spec \in given \cup {}}
  OBVIOUS
<1>7. load(schema, env) =
         [values |-> [n \in names |->
             IF n \in DOMAIN env THEN env[n]
             ELSE The((CHOOSE spec \in {} : spec.name = n).defaultValue)]]
  BY <1>3, <1>4, <1>5, <1>6 DEF load
<1>8. name \in names <=> name \in DOMAIN env
  BY <1>2, <1>3, <1>6
<1>9. PICK values : values = [n \in names |->
             IF n \in DOMAIN env THEN env[n]
             ELSE The((CHOOSE spec \in {} : spec.name = n).defaultValue)]
  OBVIOUS
<1>10. DOMAIN values = names /\ (name \in DOMAIN env => values[name] = env[name])
  BY <1>8, <1>9
<1>11. load(schema, env).values = values
  BY <1>7, <1>9
<1> QED
  BY <1>1, <1>8, <1>10, <1>11 DEF get

(* A service that passes its first stage has been given its database.      *)
LEMMA BackendEnvironment ==
    ASSUME NEW env, ~Failed(load(BackendSchema, env))
    PROVE  get(load(BackendSchema, env), "DATABASE_URL") = {env["DATABASE_URL"]}
<1>1. PICK schema : schema = BackendSchema
  OBVIOUS
<1>2. /\ \A spec \in schema : spec.defaultValue = {} /\ spec.required = TRUE
      /\ \E spec \in schema : spec.name = "DATABASE_URL"
  BY <1>1 DEF BackendSchema, Declared
<1>3. PICK given : given = {spec \in schema : spec.name \in DOMAIN env}
  OBVIOUS
<1>4. {spec \in schema \ given : spec.defaultValue # {}} = {}
  BY <1>2
<1>5. PICK missing : missing = {spec \in schema \ (given \cup {}) : spec.required}
  OBVIOUS
<1>6. PICK names : names = {spec.name : spec \in given \cup {}}
  OBVIOUS
<1>7. PICK values : values = [n \in names |->
             IF n \in DOMAIN env THEN env[n]
             ELSE The((CHOOSE spec \in {} : spec.name = n).defaultValue)]
  OBVIOUS
<1>8. load(schema, env) = IF missing # {} THEN Error("MissingRequiredVariable")
                          ELSE [values |-> values]
  BY <1>3, <1>4, <1>5, <1>6, <1>7 DEF load
<1>9. missing = {}
  BY <1>1, <1>8, WhatFailed
<1>10. "DATABASE_URL" \in names /\ "DATABASE_URL" \in DOMAIN env
  BY <1>2, <1>3, <1>5, <1>6, <1>9
<1>11. DOMAIN values = names /\ values["DATABASE_URL"] = env["DATABASE_URL"]
  BY <1>7, <1>10
<1>12. load(schema, env).values = values
  BY <1>8, <1>9
<1> QED
  BY <1>1, <1>10, <1>11, <1>12 DEF get

(* What a database URL is taken for.                                       *)
LEMMA DatabaseIsRead ==
    ASSUME NEW url, ~Failed(fromUrl(url))
    PROVE  /\ url.matches /\ ~(url.port > IntMax)
           /\ UInt16(url.port) # 0
           /\ fromUrl(url) = [host |-> url.host, port |-> UInt16(url.port),
                              databaseName |-> url.databaseName, user |-> url.user,
                              useSsl |-> url.sslmode \notin {{}, {"disable"}}]
<1>1. url.matches /\ ~(url.port > IntMax)
  BY WhatFailed DEF fromUrl, Failed, Throws
<1>2. PICK port : port = UInt16(url.port)
  OBVIOUS
<1>3. PICK ssl : ssl = (url.sslmode \notin {{}, {"disable"}})
  OBVIOUS
<1>4. fromUrl(url) = DatabaseCreate(url.host, port, url.databaseName, url.user, ssl)
  BY <1>1, <1>2, <1>3 DEF fromUrl
<1>5. /\ port # 0
      /\ fromUrl(url) = [host |-> url.host, port |-> port, databaseName |-> url.databaseName,
                         user |-> url.user, useSsl |-> ssl]
  BY <1>4, WhatFailed DEF DatabaseCreate
<1> QED
  BY <1>1, <1>2, <1>3, <1>5

(* Where the gateway sends requests: both variables, or the file; with one *)
(* of the variables it does not start.                                     *)
LEMMA OrderServiceIsRead ==
    ASSUME NEW file, ~Failed(OrderServiceSection(file))
    PROVE  /\ OrderServiceSection(file).host = file.sections["services"]["orderService"]["address"]
           /\ OrderServiceSection(file).port =
                 UInt16(file.sections["services"]["orderService"]["port"])
<1>1. PICK services : services = loadSection(file, "services")
  OBVIOUS
<1>2. PICK result : result = OrderServiceSection(file)
  OBVIOUS
<1>3. result = IF Failed(services) THEN services
               ELSE IF services.section = WrongType \/ "orderService" \notin DOMAIN services.section
               THEN Error("Missing section")
               ELSE UpstreamFromJson(services.section["orderService"])
  BY <1>1, <1>2 DEF OrderServiceSection
<1>4. ~Failed(services) /\ result = UpstreamFromJson(services.section["orderService"])
  BY <1>2, <1>3, WhatFailed
<1>5. services = [section |-> file.sections["services"]]
  BY <1>1, <1>4, SectionIsRead
<1>6. result = UpstreamFromJson(file.sections["services"]["orderService"])
  BY <1>4, <1>5
<1> QED
  BY <1>2, <1>6, UpstreamIsRead

LEMMA UpstreamIsAsWritten ==
    ASSUME NEW file, NEW env,
           ~Failed(loadOrderServiceConfiguration(file, load(GatewaySchema, env)))
    PROVE  LET result == loadOrderServiceConfiguration(file, load(GatewaySchema, env))
               pair == {"GATEWAY_ORDER_SERVICE_ADDRESS", "GATEWAY_ORDER_SERVICE_PORT"}
               written == file.sections["services"]["orderService"]
           IN  \/ /\ pair \subseteq DOMAIN env
                  /\ result.host = env["GATEWAY_ORDER_SERVICE_ADDRESS"]
                  /\ result.port = UInt16(env["GATEWAY_ORDER_SERVICE_PORT"])
                  /\ env["GATEWAY_ORDER_SERVICE_PORT"] \in (-ULongMax)..ULongMax
               \/ /\ pair \cap DOMAIN env = {}
                  /\ result.host = written["address"]
                  /\ result.port = UInt16(written["port"])
<1>1. PICK environ : environ = load(GatewaySchema, env)
  OBVIOUS
<1>2. PICK result : result = loadOrderServiceConfiguration(file, environ)
  OBVIOUS
<1>3. PICK address : address = get(environ, "GATEWAY_ORDER_SERVICE_ADDRESS")
  OBVIOUS
<1>4. PICK port : port = get(environ, "GATEWAY_ORDER_SERVICE_PORT")
  OBVIOUS
<1>5. PICK host : host = HostCreate(The(address))
  OBVIOUS
<1>6. PICK ports : ports = (-ULongMax)..ULongMax
  OBVIOUS
<1>7. result =
         IF address # {} /\ port # {}
         THEN IF Failed(host) THEN host
              ELSE IF The(port) = NotANumber THEN Error("invalid_argument")
              ELSE IF The(port) \notin ports THEN Error("out_of_range")
              ELSE [host |-> host.host, port |-> UInt16(The(port))]
         ELSE IF address # {} \/ port # {} THEN Error("only one of them is present")
         ELSE OrderServiceSection(file)
  BY <1>2, <1>3, <1>4, <1>5, <1>6 DEF loadOrderServiceConfiguration
<1>8. ~Failed(result)
  BY <1>1, <1>2
<1>9. /\ address = IF "GATEWAY_ORDER_SERVICE_ADDRESS" \in DOMAIN env
                   THEN {env["GATEWAY_ORDER_SERVICE_ADDRESS"]} ELSE {}
      /\ port = IF "GATEWAY_ORDER_SERVICE_PORT" \in DOMAIN env
                THEN {env["GATEWAY_ORDER_SERVICE_PORT"]} ELSE {}
  BY <1>1, <1>3, <1>4, GatewayEnvironment
<1>10. CASE address # {} /\ port # {}
  <2>1. /\ ~Failed(host) /\ result.host = host.host
        /\ The(port) \in ports /\ result.port = UInt16(The(port))
    BY <1>7, <1>8, <1>10, WhatFailed
  <2>2. host.host = The(address)
    BY <1>5, <2>1, HostIsTheText
  <2>3. /\ {"GATEWAY_ORDER_SERVICE_ADDRESS", "GATEWAY_ORDER_SERVICE_PORT"} \subseteq DOMAIN env
        /\ address = {env["GATEWAY_ORDER_SERVICE_ADDRESS"]}
        /\ port = {env["GATEWAY_ORDER_SERVICE_PORT"]}
    BY <1>9, <1>10
  <2>4. /\ The(address) = env["GATEWAY_ORDER_SERVICE_ADDRESS"]
        /\ The(port) = env["GATEWAY_ORDER_SERVICE_PORT"]
    BY <2>3 DEF The
  <2>5. /\ result.host = env["GATEWAY_ORDER_SERVICE_ADDRESS"]
        /\ result.port = UInt16(env["GATEWAY_ORDER_SERVICE_PORT"])
        /\ env["GATEWAY_ORDER_SERVICE_PORT"] \in ports
    BY <2>1, <2>2, <2>4
  <2> QED
    BY <1>1, <1>2, <1>6, <2>3, <2>5
<1>11. CASE address = {} /\ port = {}
  <2>1. result = OrderServiceSection(file)
    BY <1>7, <1>11
  <2>2. /\ result.host = file.sections["services"]["orderService"]["address"]
        /\ result.port = UInt16(file.sections["services"]["orderService"]["port"])
    BY <1>8, <2>1, OrderServiceIsRead
  <2>3. {"GATEWAY_ORDER_SERVICE_ADDRESS", "GATEWAY_ORDER_SERVICE_PORT"} \cap DOMAIN env = {}
    BY <1>9, <1>11
  <2> QED
    BY <1>1, <1>2, <2>2, <2>3
<1>12. (address # {} /\ port # {}) \/ (address = {} /\ port = {})
  BY <1>7, <1>8, WhatFailed
<1> QED
  BY <1>10, <1>11, <1>12

(* A process listens on what was written for it, forwards to it and stores *)
(* into it, whatever its inputs are: the command line before the file, the *)
(* environment's address together with its port or both of the file's, the *)
(* URL's database, and each port as what 16 bits leave of it.              *)
THEOREM ServedAsConfigured == Spec => []RunsOnlyAsConfigured
<1>1. ProcessInv => ListensAsWritten
  <2> SUFFICES ASSUME ProcessInv, stage \in {"run", "serving"} PROVE ListensAsWritten
    BY DEF ListensAsWritten
  <2>1. service # "worker-service" /\ stage \in Proceeding \ {"environment", "network"}
    <3>1. stage \in Proceeding /\ service \in Services
      BY EndingOrder DEF ProcessInv, ProcessTypes
    <3> QED
      BY <3>1, StagesOfServices
  <2>2. network = {LoadedNetwork} /\ ~Failed(LoadedNetwork)
    BY <2>1 DEF ProcessInv, ConfiguredInv, NetworkKept
  <2>3. The(network) = LoadedNetwork
    BY <2>2 DEF The
  <2>4. /\ LoadedNetwork.address = IF input.address # {} THEN The(input.address)
                                   ELSE input.file.sections["network"]["address"]
        /\ IF input.address # {} THEN The(input.address).ip
           ELSE input.file.sections["network"]["address"].ip
        /\ LoadedNetwork.port = IF input.port # {} THEN The(input.port)
                                ELSE UInt16(input.file.sections["network"]["port"])
    BY <2>2, NetworkIsAsWritten DEF LoadedNetwork
  <2> QED
    BY <2>3, <2>4 DEF ListensAsWritten
<1>2. ProcessInv => ForwardsAsWritten
  <2> SUFFICES ASSUME ProcessInv, service = "gateway", stage \in {"run", "serving"}
               PROVE  ForwardsAsWritten
    BY DEF ForwardsAsWritten
  <2>1. upstream = {LoadedUpstream} /\ ~Failed(LoadedUpstream)
    BY DEF ProcessInv, ConfiguredInv, UpstreamKept
  <2>2. The(upstream) = LoadedUpstream
    BY <2>1 DEF The
  <2>3. LoadedUpstream = loadOrderServiceConfiguration(input.file, load(GatewaySchema, input.env))
    BY DEF LoadedUpstream, environment, Schema
  <2> QED
    BY <2>1, <2>2, <2>3, UpstreamIsAsWritten DEF ForwardsAsWritten
<1>3. ProcessInv => StoresAsWritten
  <2> SUFFICES ASSUME ProcessInv, service # "gateway",
                      stage \in Range(Stages(service)) \ {"environment", "network", "database"}
               PROVE  StoresAsWritten
    BY DEF StoresAsWritten
  <2>1. stage \in Proceeding /\ stage # "upstream"
    <3>1. service \in Services
      BY DEF ProcessInv, ProcessTypes
    <3> QED
      BY <3>1, StagesOfServices DEF Proceeding
  <2>2. database = {LoadedDatabase} /\ ~Failed(LoadedDatabase) /\ ~Failed(environment)
    BY <2>1 DEF ProcessInv, ConfiguredInv, DatabaseKept, EnvironmentRead, Configuring
  <2>3. The(database) = LoadedDatabase
    BY <2>2 DEF The
  <2>4. environment = load(BackendSchema, input.env)
    BY DEF environment, Schema
  <2>5. PICK url : url = input.env["DATABASE_URL"]
    OBVIOUS
  <2>6. get(environment, "DATABASE_URL") = {url}
    BY <2>2, <2>4, <2>5, BackendEnvironment
  <2>7. LoadedDatabase = fromUrl(url)
    BY <2>6 DEF LoadedDatabase, The
  <2>8. /\ url.matches /\ ~(url.port > IntMax) /\ UInt16(url.port) # 0
        /\ The(database) = [host |-> url.host, port |-> UInt16(url.port),
                            databaseName |-> url.databaseName, user |-> url.user,
                            useSsl |-> url.sslmode \notin {{}, {"disable"}}]
    BY <2>2, <2>3, <2>7, DatabaseIsRead
  <2>9. /\ The(database).host = url.host /\ The(database).databaseName = url.databaseName
        /\ The(database).user = url.user /\ The(database).port = UInt16(url.port)
    BY <2>8
  <2>10. The(database).useSsl = (url.sslmode \notin {{}, {"disable"}})
    BY <2>8
  <2>11. url.sslmode \notin {{}, {"disable"}} <=> url.sslmode \ {"disable"} # {}
    OBVIOUS
  <2>12. The(database).useSsl <=> url.sslmode \ {"disable"} # {}
    BY <2>10, <2>11
  <2>13. The(database).port # 0
    BY <2>8, <2>9
  <2> QED
    BY <2>5, <2>8, <2>9, <2>12, <2>13 DEF StoresAsWritten
<1>4. ProcessInv => RunsOnlyAsConfigured
  BY <1>1, <1>2, <1>3 DEF RunsOnlyAsConfigured
<1> QED
  BY <1>4, ProcessInvariant, PTL
=============================================================================
