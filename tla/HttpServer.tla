----------------------------- MODULE HttpServer -----------------------------
(***************************************************************************)
(* shared/http/HttpServer.cpp: an acceptor, a signal set and one coroutine *)
(* per connection on an io_context that several threads run.  The first    *)
(* of the Threads is the one that calls run() and later joins the others.  *)
(*                                                                         *)
(* Between two suspension points a coroutine runs on one thread without    *)
(* interruption: one step here.  Two things take a thread for longer.  The *)
(* handlers of order-service call the database and block their thread; the *)
(* proxy of the gateway suspends instead, for as long as the upstream      *)
(* takes.  And a completed accept and a stop each touch the acceptor twice *)
(* while other threads run, with no strand between them.                   *)
(*                                                                         *)
(* Clients, sockets and Boost.Asio are external: a client may connect, ask *)
(* again on its connection, be silent or leave at any time.                *)
(***************************************************************************)
EXTENDS Integers, Sequences, SequencesExt

CONSTANTS Sessions,      \* the connections of clients
          ThreadCount,   \* the constructor's argument
          NoSession

ASSUME ServerAssumption ==
    ThreadCount \in Nat /\ NoSession \notin Sessions

(* hardware_concurrency() may not know and say 0.                          *)
Threads == 1..(IF ThreadCount = 0 THEN 1 ELSE ThreadCount)

VARIABLES
    acceptor,    \* _acceptor: "none", "open", "closed" or, with the server, "destroyed"
    accepting,   \* an async_accept is under way
    thread,      \* thread -> "none", "idle", "busy", "accepted", "stopping" or "out"
    serves,      \* thread -> the session whose handler it runs
    session,     \* connection -> "none", "waiting", "reading", "handling", "suspended",
                 \* "writing" or "closed"
    signal,      \* the signal set: "none", "pending" or "handled"
    ioStopped,   \* _ioContext was stopped
    pooled       \* the proxy keeps a socket of this io_context in its pool

serverVars == <<acceptor, accepting, thread, serves, session, signal, ioStopped, pooled>>

ServerInit ==
    /\ acceptor = "none" /\ accepting = FALSE
    /\ thread = [t \in Threads |-> "none"] /\ serves = [t \in Threads |-> NoSession]
    /\ session = [s \in Sessions |-> "none"]
    /\ signal = "none" /\ ioStopped = FALSE /\ pooled = FALSE

----------------------------------------------------------------------------
(* Routing.  A method other than GET and POST becomes Unknown; a path is   *)
(* the sequence of the pieces that the prefixes tell apart.                *)

toHttpMethod(verb) == IF verb \in {"Get", "Post"} THEN verb ELSE "Unknown"

Route(method, pathPrefix, handler) ==
    [method |-> method, pathPrefix |-> pathPrefix, handler |-> handler]

OrderRoutes ==
    <<Route("Post", <<"/", "orders">>, "blocking"),
      Route("Get", <<"/", "orders", "/">>, "blocking"),
      Route("Get", <<"/", "health">>, "health")>>
GatewayRoutes ==
    <<Route("Get", <<"/", "health">>, "health"),
      Route("Get", <<"/">>, "proxy"),
      Route("Post", <<"/">>, "proxy")>>

(* The first route that fits, or nullptr.                                  *)
findHandler(routes, method, path) ==
    LET fits == {i \in DOMAIN routes : /\ routes[i].method = method
                                       /\ IsPrefix(routes[i].pathPrefix, path)}
    IN  IF fits = {} THEN "nullptr" ELSE routes[Min(fits)].handler

Targets == {<<"/">>, <<"/", "orders">>, <<"/", "orders", "/", "id">>, <<"/", "health">>}

----------------------------------------------------------------------------
(* Plausible slips, used to show that the properties notice them.          *)

StopOnlyAccepting(t) ==
    /\ thread[t] = "stopping"
    /\ thread' = [thread EXCEPT ![t] = "idle"]
    /\ UNCHANGED <<acceptor, accepting, serves, session, signal, ioStopped, pooled>>
AcceptFailsForGood(t) ==
    /\ thread[t] = "idle" /\ ~ioStopped /\ accepting
    /\ accepting' = FALSE
    /\ UNCHANGED <<acceptor, thread, serves, session, signal, ioStopped, pooled>>
RunWithoutJoin == thread[1] = "out"

----------------------------------------------------------------------------
(* The constructor binds and listens, and asks for SIGINT and SIGTERM.     *)
Construct ==
    /\ acceptor = "none"
    /\ acceptor' = "open"
    /\ UNCHANGED <<accepting, thread, serves, session, signal, ioStopped, pooled>>

RunBegins ==
    /\ accepting' = TRUE
    /\ thread' = [t \in Threads |-> "idle"]
    /\ UNCHANGED <<acceptor, serves, session, signal, ioStopped, pooled>>

RunReturns == \A t \in Threads : thread[t] = "out"

(* What the io_context hands to a thread in _ioContext.run().              *)
Free(t) == thread[t] = "idle" /\ ~ioStopped

(* The two ends of async_accept: a connection, or an error such as the     *)
(* limit on open files or, after close(), an aborted operation.            *)
AcceptCompletes(t, s) ==
    /\ Free(t) /\ accepting /\ acceptor = "open" /\ session[s] = "waiting"
    /\ accepting' = FALSE
    /\ thread' = [thread EXCEPT ![t] = "accepted"]
    /\ session' = [session EXCEPT ![s] = "reading"]
    /\ UNCHANGED <<acceptor, serves, signal, ioStopped, pooled>>

AcceptFails(t) ==
    /\ Free(t) /\ accepting
    /\ accepting' = FALSE
    /\ thread' = [thread EXCEPT ![t] = "accepted"]
    /\ UNCHANGED <<acceptor, serves, session, signal, ioStopped, pooled>>

(* is_open() and the next async_accept; against a close() on another       *)
(* thread the answer may be the old one.                                   *)
AcceptAgain(t, isOpen) ==
    /\ thread[t] = "accepted"
    /\ acceptor = "open" => isOpen
    /\ accepting' = (accepting \/ isOpen)
    /\ thread' = [thread EXCEPT ![t] = "idle"]
    /\ UNCHANGED <<acceptor, serves, session, signal, ioStopped, pooled>>

(* handleRequest up to its first suspension.                               *)
RequestComes(t, s, handler) ==
    /\ Free(t) /\ session[s] = "reading"
    /\ session' = [session EXCEPT ![s] = CASE handler = "blocking" -> "handling"
                                           [] handler = "proxy" -> "suspended"
                                           [] OTHER -> "writing"]
    /\ thread' = [thread EXCEPT ![t] = IF handler = "blocking" THEN "busy" ELSE "idle"]
    /\ serves' = [serves EXCEPT ![t] = IF handler = "blocking" THEN s ELSE NoSession]
    /\ UNCHANGED <<acceptor, accepting, signal, ioStopped, pooled>>

(* The handler returns or throws; the coroutine goes on to its write.      *)
HandlerReturns(t) ==
    /\ thread[t] = "busy"
    /\ session' = [session EXCEPT ![serves[t]] = "writing"]
    /\ thread' = [thread EXCEPT ![t] = "idle"]
    /\ serves' = [serves EXCEPT ![t] = NoSession]
    /\ UNCHANGED <<acceptor, accepting, signal, ioStopped, pooled>>

(* The proxy has an answer, and may keep its connection.                   *)
ProxyReturns(t, s, kept) ==
    /\ Free(t) /\ session[s] = "suspended"
    /\ session' = [session EXCEPT ![s] = "writing"]
    /\ pooled' = (pooled \/ kept)
    /\ UNCHANGED <<acceptor, accepting, thread, serves, signal, ioStopped>>

WriteCompletes(t, s, keepAlive) ==
    /\ Free(t) /\ session[s] = "writing"
    /\ session' = [session EXCEPT ![s] = IF keepAlive THEN "reading" ELSE "closed"]
    /\ UNCHANGED <<acceptor, accepting, thread, serves, signal, ioStopped, pooled>>

(* An error, the end of the stream or CONNECTION_TIMEOUT in read or write. *)
SessionFails(t, s) ==
    /\ Free(t) /\ session[s] \in {"reading", "writing"}
    /\ session' = [session EXCEPT ![s] = "closed"]
    /\ UNCHANGED <<acceptor, accepting, thread, serves, signal, ioStopped, pooled>>

(* The signal's handler runs stop(): close the acceptor, stop the context. *)
SignalHandled(t) ==
    /\ Free(t) /\ signal = "pending"
    /\ signal' = "handled"
    /\ acceptor' = "closed"
    /\ session' = [s \in Sessions |-> IF session[s] = "waiting" THEN "closed" ELSE session[s]]
    /\ thread' = [thread EXCEPT ![t] = "stopping"]
    /\ UNCHANGED <<accepting, serves, ioStopped, pooled>>

StopContext(t) ==
    /\ thread[t] = "stopping"
    /\ ioStopped' = TRUE
    /\ thread' = [thread EXCEPT ![t] = "idle"]
    /\ UNCHANGED <<acceptor, accepting, serves, session, signal, pooled>>

ThreadLeaves(t) ==
    /\ thread[t] = "idle" /\ ioStopped
    /\ thread' = [thread EXCEPT ![t] = "out"]
    /\ UNCHANGED <<acceptor, accepting, serves, session, signal, ioStopped, pooled>>

(* The destructor: the io_context destroys the coroutines it still holds.  *)
DestroyServer ==
    /\ acceptor \in {"open", "closed"}
    /\ acceptor' = "destroyed"
    /\ accepting' = FALSE
    /\ session' = [s \in Sessions |-> "closed"]
    /\ UNCHANGED <<thread, serves, signal, ioStopped, pooled>>

Connect(s) ==
    /\ acceptor = "open" /\ session[s] = "none"
    /\ session' = [session EXCEPT ![s] = "waiting"]
    /\ UNCHANGED <<acceptor, accepting, thread, serves, signal, ioStopped, pooled>>

(* What a thread does once it has begun; and what it may be given.         *)
ThreadGoesOn(t) ==
    \/ \E isOpen \in BOOLEAN : AcceptAgain(t, isOpen)
    \/ HandlerReturns(t)
    \/ StopContext(t)
    \/ ThreadLeaves(t)

ThreadIsGiven(t, routes) ==
    \/ \E s \in Sessions : AcceptCompletes(t, s)
    \/ AcceptFails(t)
    \/ \E s \in Sessions, verb \in {"Get", "Post", "Put"}, path \in Targets :
          RequestComes(t, s, findHandler(routes, toHttpMethod(verb), path))
    \/ \E s \in Sessions, kept \in BOOLEAN : ProxyReturns(t, s, kept)
    \/ \E s \in Sessions, keepAlive \in BOOLEAN : WriteCompletes(t, s, keepAlive)
    \/ \E s \in Sessions : SessionFails(t, s)
    \/ SignalHandled(t)
=============================================================================
