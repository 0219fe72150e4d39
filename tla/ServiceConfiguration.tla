------------------------ MODULE ServiceConfiguration ------------------------
(***************************************************************************)
(* What the three services make of their environment variables, their JSON *)
(* file and their command line: shared/models (EnvironmentConfiguration,   *)
(* DatabaseConfiguration, NetworkAddress, Host), shared/json, the mappers  *)
(* of shared/models2json-mapper and the load functions of the mains.       *)
(*                                                                         *)
(* A std::optional is a set with at most one element.  A text is a number, *)
(* or NotANumber when no number can be read from it; an address is the     *)
(* facts the code asks of it: whether Boost reads it as an IP address, and *)
(* its labels between the dots.  Integers keep their width, and casts and  *)
(* get<uint16_t> wrap.  A result is a record, Error(e), or Throws when an  *)
(* exception leaves the function.                                          *)
(***************************************************************************)
EXTENDS Integers, Sequences, SequencesExt

CONSTANTS UInt16Max, IntMax, ULongMax,
          MaxLabel, MaxHostname,  \* 63 and 253
          NotANumber,
          WrongType               \* a JSON value of another type than the mapper wants

ASSUME ConfigurationAssumption ==
    /\ UInt16Max \in Nat /\ IntMax \in Nat /\ ULongMax \in Nat
    /\ MaxLabel \in Nat /\ MaxHostname \in Nat
    /\ NotANumber \notin Int

Error(e) == [error |-> e]
Throws == [throws |-> TRUE]
Failed(r) == DOMAIN r \in {{"error"}, {"throws"}}

UInt16(n) == n % (UInt16Max + 1)
The(optional) == CHOOSE x \in optional : TRUE

----------------------------------------------------------------------------
(* EnvironmentConfiguration: a schema is a set of declarations (their      *)
(* order only decides which missing one is reported first, with the same   *)
(* error).                                                                 *)

load(schema, env) ==
    LET given == {spec \in schema : spec.name \in DOMAIN env}
        defaulted == {spec \in schema \ given : spec.defaultValue # {}}
        missing == {spec \in schema \ (given \cup defaulted) : spec.required}
    IN  IF missing # {} THEN Error("MissingRequiredVariable")
        ELSE [values |-> [name \in {spec.name : spec \in given \cup defaulted} |->
                             IF name \in DOMAIN env THEN env[name]
                             ELSE The((CHOOSE spec \in defaulted : spec.name = name).defaultValue)]]

get(environment, name) ==
    IF name \in DOMAIN environment.values THEN {environment.values[name]} ELSE {}

Declared(name, required) == [name |-> name, required |-> required, defaultValue |-> {}]
BackendSchema == {Declared("DATABASE_URL", TRUE), Declared("KAFKA_BROKERS", TRUE)}
GatewaySchema == {Declared("GATEWAY_ORDER_SERVICE_ADDRESS", FALSE),
                  Declared("GATEWAY_ORDER_SERVICE_PORT", FALSE)}

----------------------------------------------------------------------------
(* DatabaseConfiguration *)

DatabaseCreate(host, port, databaseName, user, useSsl) ==
    IF host = "" THEN Error("EmptyHost")
    ELSE IF databaseName = "" THEN Error("EmptyDatabaseName")
    ELSE IF user = "" THEN Error("EmptyUser")
    ELSE IF port = 0 THEN Error("InvalidPort")
    ELSE [host |-> host, port |-> port, databaseName |-> databaseName, user |-> user,
          useSsl |-> useSsl]

(* A URL has the fields of the pattern's groups when it matches; sslmode   *)
(* is optional.  std::stoi throws when the digits do not fit an int.       *)
fromUrl(url) ==
    IF ~url.matches THEN Error("InvalidUrl")
    ELSE IF url.port > IntMax THEN Throws
    ELSE DatabaseCreate(url.host, UInt16(url.port), url.databaseName, url.user,
                        url.sslmode \notin {{}, {"disable"}})

----------------------------------------------------------------------------
(* NetworkAddress and Host *)

Empty(text) == text.labels = <<>>

NetworkAddressCreate(text) ==
    IF Empty(text) THEN Error("EmptyAddress")
    ELSE IF ~text.ip THEN Error("InvalidFormat")
    ELSE [address |-> text]

isValidHostnameLabel(label) ==
    label.size \in 1..MaxLabel /\ ~label.hyphenAtAnEnd /\ label.alnumOrHyphen

isValidHostname(text) ==
    /\ FoldSeq(LAMBDA label, n : n + label.size + 1, -1, text.labels) <= MaxHostname
    /\ \A i \in DOMAIN text.labels : isValidHostnameLabel(text.labels[i])

HostCreate(text) ==
    IF Empty(text) THEN Error("EmptyHost")
    ELSE IF text.ip \/ isValidHostname(text) THEN [host |-> text]
    ELSE Error("InvalidFormat")

----------------------------------------------------------------------------
(* JSON: the file and its sections are functions from their keys to        *)
(* values, or WrongType when they are no objects.                          *)

loadSection(file, section) ==
    IF ~file.opens THEN Error("InvalidPath")
    ELSE IF ~file.parses THEN Error("InvalidFormat")
    ELSE IF file.sections = WrongType THEN Error("UnknownError")
    ELSE IF section \notin DOMAIN file.sections THEN Error("SectionNotFound")
    ELSE [section |-> file.sections[section]]

getValue(section, key) ==
    IF section = WrongType THEN Error("InvalidFormat")
    ELSE IF key \notin DOMAIN section THEN Error("KeyNotFound")
    ELSE IF section[key] = WrongType THEN Error("InvalidFormat")
    ELSE [value |-> section[key]]

NetworkFromJson(section) ==
    LET port == getValue(section, "port")
        text == getValue(section, "address")
        address == IF Failed(text) THEN text ELSE NetworkAddressCreate(text.value)
    IN  IF Failed(port) THEN port
        ELSE IF Failed(address) THEN address
        ELSE [address |-> address.address, port |-> UInt16(port.value)]

UpstreamFromJson(section) ==
    LET port == getValue(section, "port")
        text == getValue(section, "address")
        host == IF Failed(text) THEN text ELSE HostCreate(text.value)
    IN  IF Failed(port) THEN port
        ELSE IF Failed(host) THEN host
        ELSE [host |-> host.host, port |-> UInt16(port.value)]

----------------------------------------------------------------------------
(* The load functions of the mains.  The command line parser has checked   *)
(* that a port fits 16 bits and that the file exists.                      *)

loadNetworkConfiguration(file, addressOverride, portOverride) ==
    LET section == loadSection(file, "network")
        written == IF Failed(section) THEN section ELSE NetworkFromJson(section.section)
        address == IF Failed(written) THEN written
                   ELSE IF addressOverride = {} THEN written
                   ELSE NetworkAddressCreate(The(addressOverride))
    IN  IF Failed(address) THEN address
        ELSE [address |-> address.address,
              port |-> IF portOverride = {} THEN written.port ELSE The(portOverride)]

OrderServiceSection(file) ==
    LET services == loadSection(file, "services")
    IN  IF Failed(services) THEN services
        ELSE IF services.section = WrongType \/ "orderService" \notin DOMAIN services.section
        THEN Error("Missing section")
        ELSE UpstreamFromJson(services.section["orderService"])

(* Plausible slip: the environment's address, with the file's port.        *)
loadAddressOnly(file, environment) ==
    LET address == get(environment, "GATEWAY_ORDER_SERVICE_ADDRESS")
        host == HostCreate(The(address))
        written == OrderServiceSection(file)
    IN  IF address = {} \/ Failed(written) THEN written
        ELSE IF Failed(host) THEN host
        ELSE [written EXCEPT !.host = host.host]

(* Both variables or neither.  std::stoul throws on text that is no number *)
(* or does not fit, which exit(1) answers; of a negative number it returns *)
(* what unsigned arithmetic makes of it.                                   *)
loadOrderServiceConfiguration(file, environment) ==
    LET address == get(environment, "GATEWAY_ORDER_SERVICE_ADDRESS")
        port == get(environment, "GATEWAY_ORDER_SERVICE_PORT")
        host == HostCreate(The(address))
    IN  IF address # {} /\ port # {}
        THEN IF Failed(host) THEN host
             ELSE IF The(port) = NotANumber THEN Error("invalid_argument")
             ELSE IF The(port) \notin (-ULongMax)..ULongMax THEN Error("out_of_range")
             ELSE [host |-> host.host, port |-> UInt16(The(port))]
        ELSE IF address # {} \/ port # {} THEN Error("only one of them is present")
        ELSE OrderServiceSection(file)
=============================================================================
