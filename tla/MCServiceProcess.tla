-------------------------- MODULE MCServiceProcess --------------------------
(* Inputs that reach every outcome of every load function: each part is    *)
(* varied while the others stay good.                                      *)
EXTENDS ServiceProcess

Label(size, hyphen, plain) ==
    [size |-> size, hyphenAtAnEnd |-> hyphen, alnumOrHyphen |-> plain]
Address(ip, labels) == [ip |-> ip, labels |-> labels]

Ip == Address(TRUE, <<Label(1, FALSE, TRUE), Label(2, FALSE, TRUE)>>)
Name == Address(FALSE, <<Label(2, FALSE, TRUE)>>)
Nothing == Address(FALSE, <<>>)
NoAddress == {Nothing, Name}
NoHost == {Nothing, Address(FALSE, <<Label(0, FALSE, TRUE)>>),
           Address(FALSE, <<Label(3, FALSE, TRUE)>>),
           Address(FALSE, <<Label(1, TRUE, TRUE)>>), Address(FALSE, <<Label(1, FALSE, FALSE)>>),
           Address(FALSE, <<Label(2, FALSE, TRUE), Label(2, FALSE, TRUE), Label(1, FALSE, TRUE)>>)}

Input(env, file, address, port) ==
    [env |-> env, file |-> file, address |-> address, port |-> port]

(* Ports 4 and 5 wrap to 0 and 1; 6 does not fit an int, 7 not a ulong.    *)
Url(matches, port, sslmode) ==
    [matches |-> matches, port |-> port, sslmode |-> sslmode,
     host |-> "host", databaseName |-> "orders", user |-> "user"]
BackendEnv(url) == [name \in {"DATABASE_URL", "KAFKA_BROKERS"} |->
                       IF name = "DATABASE_URL" THEN url ELSE "brokers"]
GoodEnv == BackendEnv(Url(TRUE, 2, {}))
BackendEnvs ==
    {BackendEnv(Url(TRUE, port, sslmode)) : port \in {2, 4, 5, 6}, sslmode \in {{}, {"disable"}, {"require"}}}
    \cup {BackendEnv(Url(FALSE, 2, {})), [name \in {"DATABASE_URL"} |-> Url(TRUE, 2, {})]}

File(sections) == [opens |-> TRUE, parses |-> TRUE, sections |-> sections]
Network(port, address) == [port |-> port, address |-> address]
Sections(net, orderService) ==
    [network |-> net, services |-> [orderService |-> orderService]]
GoodUpstream == [port |-> 2, address |-> Name]
GoodFile == File(Sections(Network(1, Ip), GoodUpstream))
BadFiles == {[GoodFile EXCEPT !.opens = FALSE], [GoodFile EXCEPT !.parses = FALSE],
             File([other |-> {}]), File(WrongType)}
NetworkFiles ==
    BadFiles
    \cup {File(Sections(section, GoodUpstream)) :
             section \in {Network(1, Ip), Network(5, Ip), Network(WrongType, Ip),
                          Network(1, WrongType), [port |-> 1], [address |-> Ip], WrongType}
                         \cup {Network(1, a) : a \in NoAddress}}
Overrides == {{}, {Address(TRUE, <<Label(2, FALSE, TRUE)>>)}} \cup {{a} : a \in NoAddress}

UpstreamFiles ==
    {File(Sections(Network(1, Ip), section)) :
        section \in {GoodUpstream, [port |-> 5, address |-> Ip], [port |-> 2], [address |-> Name],
                     [port |-> WrongType, address |-> Name]}
                    \cup {[port |-> 2, address |-> h] : h \in NoHost}}
    \cup {File([network |-> Network(1, Ip)]),
          File([network |-> Network(1, Ip), services |-> [other |-> {}]]),
          File([network |-> Network(1, Ip), services |-> WrongType])}
GatewayEnvs ==
    {[GATEWAY_ORDER_SERVICE_ADDRESS |-> a, GATEWAY_ORDER_SERVICE_PORT |-> p] :
        a \in {Ip, Nothing}, p \in {1, 5, 7, -1, NotANumber}}
    \cup {[GATEWAY_ORDER_SERVICE_ADDRESS |-> Ip], [GATEWAY_ORDER_SERVICE_PORT |-> 1]}

MCInputs ==
    [s \in Services |->
        CASE s = "worker-service" -> {Input(env, GoodFile, {}, {}) : env \in BackendEnvs}
          [] s = "order-service" ->
                {Input(env, GoodFile, {}, {}) : env \in BackendEnvs}
                \cup {Input(GoodEnv, file, a, p) :
                         file \in NetworkFiles, a \in Overrides, p \in {{}, {3}}}
          [] s = "gateway" ->
                {Input([none |-> {}], file, a, {}) : file \in UpstreamFiles, a \in Overrides}
                \cup {Input(env, GoodFile, {}, {}) : env \in GatewayEnvs}]
=============================================================================
