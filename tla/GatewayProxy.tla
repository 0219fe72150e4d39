---------------------------- MODULE GatewayProxy ----------------------------
(***************************************************************************)
(* The gateway's ProxyHandler between HttpServer sessions and one upstream *)
(* service, which is an HttpServer too.  The coroutines of the requests    *)
(* run interleaved on several threads and share the upstream's pool of     *)
(* idle connections.                                                       *)
(*                                                                         *)
(* A connection breaks for two kinds of reasons.  The upstream closes one  *)
(* that was idle for CONNECTION_TIMEOUT: that is normal operation, and it  *)
(* may cross a request that is just being sent.  Everything else (a crash  *)
(* or stop of the upstream, a network error, an idle close of a connection *)
(* that never carried a request) is a fault, and bounded.  So is an        *)
(* upstream that takes a request and never answers: exchange waits without *)
(* a timeout.                                                              *)
(***************************************************************************)
EXTENDS Integers, Sequences, SequencesExt

CONSTANTS Proxied,     \* requests whose path has the upstream's prefix
          Unrouted,    \* requests with an unknown method or without an upstream
          MaxFaults,   \* bound on faults
          None         \* no request

ASSUME GatewayAssumption ==
    /\ IsFiniteSet(Proxied) /\ IsFiniteSet(Unrouted)
    /\ Proxied \cap Unrouted = {} /\ None \notin Proxied \cup Unrouted
    /\ (Proxied \cup Unrouted) \cap {"none", "404", "405", "502"} = {}
    /\ MaxFaults \in Nat

Requests == Proxied \cup Unrouted

(* Every request opens one connection at most.                             *)
Sockets == 1..Cardinality(Proxied)
NoSocket == 0

VARIABLES
    pc,         \* request -> "new", "open", "write", "read" or "done"
    socket,     \* request -> the connection it uses
    pooled,     \* the requests whose attempt uses a pooled connection
    answer,     \* request -> "none", a status, or the request whose reply it got
    pool,       \* _pools[prefix].sockets
    link,       \* connection -> "unused", "up" or "down", as the upstream sees it
    wire,       \* connection -> the request sent and not read by the upstream
    session,    \* connection -> the request the upstream's session has executed
    reply,      \* connection -> the request whose reply is under way
    closing,    \* connections whose reply says Connection: close
    hung,       \* connections the upstream no longer serves
    executed,   \* request -> times the upstream executed it
    lost,       \* request -> times a fault took the reply of an execution
    hit,        \* requests a fault hit on a fresh connection
    peak,       \* the most requests there were at a time
    faults

upstream == <<link, wire, session, reply, closing, hung, executed>>
gateway == <<pc, socket, pooled, answer, pool>>
history == <<lost, hit, peak, faults>>
vars == <<gateway, upstream, history>>

Active == {r \in Proxied : pc[r] \in {"open", "write", "read"}}
InUse == {socket[r] : r \in Active} \ {NoSocket}
Bound(a, b) == IF a < b THEN b ELSE a

Init ==
    /\ pc = [r \in Requests |-> "new"]
    /\ socket = [r \in Requests |-> NoSocket]
    /\ pooled = {}
    /\ answer = [r \in Requests |-> "none"]
    /\ pool = <<>>
    /\ link = [s \in Sockets |-> "unused"]
    /\ wire = [s \in Sockets |-> None]
    /\ session = [s \in Sockets |-> None]
    /\ reply = [s \in Sockets |-> None]
    /\ closing = {} /\ hung = {}
    /\ executed = [r \in Proxied |-> 0]
    /\ lost = [r \in Proxied |-> 0]
    /\ hit = {} /\ peak = 0 /\ faults = 0

Fault == faults < MaxFaults /\ faults' = faults + 1

Finish(r, with) ==
    /\ pc' = [pc EXCEPT ![r] = "done"]
    /\ answer' = [answer EXCEPT ![r] = with]
    /\ socket' = [socket EXCEPT ![r] = NoSocket]

----------------------------------------------------------------------------
(* handle *)

(* The method is unknown, or no prefix matches.                            *)
Refuse(r, status) ==
    /\ r \in Unrouted /\ pc[r] = "new"
    /\ Finish(r, status)
    /\ UNCHANGED <<pooled, pool, upstream, history>>

(* acquirePooledSocket takes the connection returned last; without one a   *)
(* new one is opened.                                                      *)
Acquire(r) ==
    /\ IF pool = <<>>
       THEN /\ pc' = [pc EXCEPT ![r] = "open"]
            /\ UNCHANGED <<socket, pooled, pool>>
       ELSE /\ pc' = [pc EXCEPT ![r] = "write"]
            /\ socket' = [socket EXCEPT ![r] = Last(pool)]
            /\ pooled' = pooled \cup {r}
            /\ pool' = Front(pool)
    /\ peak' = Bound(peak, Cardinality(Active) + 1)
    /\ UNCHANGED <<answer, upstream, lost, hit, faults>>

(* Plausible slip: the lock of the pool is held over the whole exchange.   *)
AttemptUnderLock(r) == r \in Proxied /\ pc[r] = "new" /\ Active = {} /\ Acquire(r)

FirstAttempt(r) == r \in Proxied /\ pc[r] = "new" /\ Acquire(r)

OpenSocket(r) ==
    /\ pc[r] = "open"
    /\ LET s == CHOOSE s \in Sockets : link[s] = "unused"
       IN  /\ link' = [link EXCEPT ![s] = "up"]
           /\ socket' = [socket EXCEPT ![r] = s]
    /\ pc' = [pc EXCEPT ![r] = "write"]
    /\ UNCHANGED <<pooled, answer, pool, wire, session, reply, closing, hung, executed, history>>

OpenFails(r) ==
    /\ pc[r] = "open"
    /\ Fault
    /\ Finish(r, "502")
    /\ hit' = hit \cup {r}
    /\ UNCHANGED <<pooled, pool, upstream, lost, peak>>

(* exchange: the request is written.  Written into a connection that the   *)
(* upstream has closed, it goes nowhere.                                   *)
Write(r) ==
    /\ pc[r] = "write"
    /\ pc' = [pc EXCEPT ![r] = "read"]
    /\ wire' = IF link[socket[r]] = "up" THEN [wire EXCEPT ![socket[r]] = r] ELSE wire
    /\ UNCHANGED <<socket, pooled, answer, pool, link, session, reply, closing, hung, executed, history>>

(* Plausible slip: a connection is handed back before its reply is read.   *)
ReleaseBeforeReply(r) ==
    \/ /\ pc[r] = "read" /\ reply[socket[r]] = None /\ link[socket[r]] = "up"
       /\ socket[r] \notin Range(pool)
       /\ pool' = Append(pool, socket[r])
       /\ UNCHANGED <<pc, socket, pooled, answer, upstream, history>>
    \/ /\ pc[r] = "read" /\ reply[socket[r]] # None
       /\ Finish(r, reply[socket[r]])
       /\ reply' = [reply EXCEPT ![socket[r]] = None]
       /\ UNCHANGED <<pooled, pool, link, wire, session, closing, hung, executed, history>>

(* exchange succeeded: releaseSocketIfReusable puts the connection into    *)
(* the pool unless the reply says close.  is_open() is about the local     *)
(* handle only, so a connection the upstream has closed goes back as well. *)
Relay(r) ==
    /\ pc[r] = "read" /\ reply[socket[r]] # None
    /\ Finish(r, reply[socket[r]])
    /\ pool' = IF socket[r] \in closing THEN pool ELSE Append(pool, socket[r])
    /\ reply' = [reply EXCEPT ![socket[r]] = None]
    /\ UNCHANGED <<pooled, link, wire, session, closing, hung, executed, history>>

(* Plausible slip: the second attempt takes a pooled connection again.     *)
RetryFromPool(r) ==
    /\ pc[r] = "read" /\ link[socket[r]] = "down" /\ reply[socket[r]] = None
    /\ IF r \in pooled /\ pool # <<>>
       THEN /\ pc' = [pc EXCEPT ![r] = "write"]
            /\ socket' = [socket EXCEPT ![r] = Last(pool)]
            /\ pool' = Front(pool)
            /\ pooled' = pooled \ {r}
            /\ UNCHANGED answer
       ELSE /\ Finish(r, "502")
            /\ UNCHANGED <<pooled, pool>>
    /\ UNCHANGED <<upstream, history>>

(* Plausible slip: the failed connection is handed back too.               *)
ReleaseFailed(r) ==
    /\ pc[r] = "read" /\ link[socket[r]] = "down" /\ reply[socket[r]] = None
    /\ IF r \in pooled
       THEN /\ pc' = [pc EXCEPT ![r] = "open"]
            /\ socket' = [socket EXCEPT ![r] = NoSocket]
            /\ pooled' = pooled \ {r}
            /\ UNCHANGED answer
       ELSE /\ Finish(r, "502")
            /\ UNCHANGED pooled
    /\ pool' = Append(pool, socket[r])
    /\ UNCHANGED <<upstream, history>>

(* exchange failed and the connection is dropped.  If it came from the     *)
(* pool there is a second attempt, which opens one; else the answer is     *)
(* 502.                                                                    *)
ExchangeFails(r) ==
    /\ pc[r] = "read" /\ link[socket[r]] = "down" /\ reply[socket[r]] = None
    /\ IF r \in pooled
       THEN /\ pc' = [pc EXCEPT ![r] = "open"]
            /\ socket' = [socket EXCEPT ![r] = NoSocket]
            /\ pooled' = pooled \ {r}
            /\ UNCHANGED answer
       ELSE /\ Finish(r, "502")
            /\ UNCHANGED pooled
    /\ UNCHANGED <<pool, upstream, history>>

----------------------------------------------------------------------------
(* The upstream: HttpServer::handleSession, one per connection.            *)

(* The session reads the request and its handler runs.                     *)
Execute(s) ==
    /\ link[s] = "up" /\ s \notin hung /\ wire[s] # None /\ session[s] = None
    /\ session' = [session EXCEPT ![s] = wire[s]]
    /\ wire' = [wire EXCEPT ![s] = None]
    /\ executed' = [executed EXCEPT ![wire[s]] = @ + 1]
    /\ UNCHANGED <<gateway, link, reply, closing, hung, history>>

(* The session writes the response and waits for the next request.  Our    *)
(* HttpServer echoes the keep-alive of the request, which exchange always  *)
(* sets; an upstream of another kind may answer Connection: close.         *)
Respond(s, keepAlive) ==
    /\ link[s] = "up" /\ s \notin hung /\ session[s] # None /\ reply[s] = None
    /\ reply' = [reply EXCEPT ![s] = session[s]]
    /\ session' = [session EXCEPT ![s] = None]
    /\ link' = [link EXCEPT ![s] = IF keepAlive THEN "up" ELSE "down"]
    /\ closing' = IF keepAlive THEN closing ELSE closing \cup {s}
    /\ UNCHANGED <<gateway, wire, hung, executed, history>>

(* A connection that has carried a request: its user, if any, took it from *)
(* the pool, or it is in the pool.                                         *)
Reused(s) == \A r \in Active : socket[r] = s => r \in pooled

(* Plausible slip: the timeout of the read keeps running in the handler.   *)
IdleCloseInHandler(s) ==
    /\ link[s] = "up" /\ reply[s] = None /\ Reused(s)
    /\ link' = [link EXCEPT ![s] = "down"]
    /\ wire' = [wire EXCEPT ![s] = None]
    /\ session' = [session EXCEPT ![s] = None]
    /\ UNCHANGED <<gateway, reply, closing, hung, executed, history>>

(* async_read runs into CONNECTION_TIMEOUT; a request that arrives at that *)
(* moment is lost unread.                                                  *)
IdleClose(s) ==
    /\ link[s] = "up" /\ session[s] = None /\ reply[s] = None /\ Reused(s)
    /\ link' = [link EXCEPT ![s] = "down"]
    /\ wire' = [wire EXCEPT ![s] = None]
    /\ UNCHANGED <<gateway, session, reply, closing, hung, executed, history>>

(* The connection breaks at any other moment; what was under way is lost.  *)
Break(s) ==
    /\ link[s] = "up"
    /\ Fault
    /\ link' = [link EXCEPT ![s] = "down"]
    /\ wire' = [wire EXCEPT ![s] = None]
    /\ session' = [session EXCEPT ![s] = None]
    /\ reply' = [reply EXCEPT ![s] = None]
    /\ lost' = [r \in Proxied |-> lost[r] + IF r \in {session[s], reply[s]} THEN 1 ELSE 0]
    /\ hit' = hit \cup {r \in Active \ pooled : socket[r] = s}
    /\ UNCHANGED <<gateway, closing, hung, executed, peak>>

(* The upstream stops serving the connection but does not close it.        *)
Hang(s) ==
    /\ link[s] = "up" /\ s \notin hung
    /\ Fault
    /\ hung' = hung \cup {s}
    /\ UNCHANGED <<gateway, link, wire, session, reply, closing, executed, lost, hit, peak>>

----------------------------------------------------------------------------
Gateway(r) ==
    \/ \E status \in {"404", "405"} : Refuse(r, status)
    \/ FirstAttempt(r)
    \/ OpenSocket(r) \/ OpenFails(r)
    \/ Write(r) \/ Relay(r) \/ ExchangeFails(r)

Session(s) ==
    Execute(s) \/ (\E keepAlive \in BOOLEAN : Respond(s, keepAlive))

Next ==
    \/ \E r \in Requests : Gateway(r)
    \/ \E s \in Sockets : Session(s) \/ IdleClose(s) \/ Break(s) \/ Hang(s)

Spec == Init /\ [][Next]_vars

(* Every coroutine that can go on is resumed by some thread of the         *)
(* io_context, and an upstream that does not hang serves its connections.  *)
Fairness ==
    /\ \A r \in Requests : WF_vars(Gateway(r))
    /\ \A s \in Sockets : WF_vars(Session(s))

FairSpec == Spec /\ Fairness

----------------------------------------------------------------------------
(* A client gets the reply to its own request, never the one to a request  *)
(* that used the same pooled connection before or meanwhile.               *)
OwnReply == \A r \in Requests : answer[r] \in {"none", "404", "405", "502", r}

(* A stale pooled connection is never the client's problem: 502 is         *)
(* answered only if a fresh connection could not be opened for the request *)
(* or broke under it.                                                      *)
BadGatewayExplained == \A r \in Requests : answer[r] = "502" => r \in hit

(* The second attempt repeats a request the upstream has executed (a POST  *)
(* included) only if a fault took the reply of the first, and then once:   *)
(* an idle close crossing the request never makes it run twice.            *)
ExecutedTwiceExplained ==
    \A r \in Proxied : executed[r] <= 1 + lost[r] /\ executed[r] <= 2

(* The pool is never pruned, yet it does not leak descriptors: the pooled  *)
(* connections and the ones in use were never more than the requests at    *)
(* the busiest moment.                                                     *)
SocketsBounded == Len(pool) + Cardinality(InUse) <= peak

(* The coroutine of r waits for a reply that does not come.                *)
Hanging(r) == pc[r] = "read" /\ socket[r] \in hung

(* exchange has no timeout, yet an upstream that does not answer costs     *)
(* only the requests on that connection: every other request is answered.  *)
AnsweredUnlessHung == \A r \in Requests : <>(pc[r] = "done" \/ Hanging(r))
=============================================================================
