------------------------- MODULE GatewayProxyProofs -------------------------
(***************************************************************************)
(* The gateway's connection pool, for any number of requests and faults: a *)
(* connection has one user at a time, and nothing of an earlier request is *)
(* left on it when the next one gets it.                                   *)
(***************************************************************************)
EXTENDS GatewayProxy, FiniteSetTheorems, SequenceTheorems, TLAPS

GatewayTypes ==
    /\ pc \in [Requests -> {"new", "open", "write", "read", "done"}]
    /\ socket \in [Requests -> Sockets \cup {NoSocket}]
    /\ pooled \subseteq Proxied
    /\ answer = [r \in Requests |-> answer[r]]
    /\ pool \in Seq(Sockets)
    /\ link \in [Sockets -> {"unused", "up", "down"}]
    /\ wire \in [Sockets -> Proxied \cup {None}]
    /\ session \in [Sockets -> Proxied \cup {None}]
    /\ reply \in [Sockets -> Proxied \cup {None}]
    /\ executed \in [Proxied -> Nat]
    /\ lost \in [Proxied -> Nat]
    /\ peak \in Nat

(* The coroutine of a request: it has a connection exactly between the     *)
(* moment it got one and the answer.  A fresh connection that is down was  *)
(* hit by a fault, or closed by the reply that is still to be read.        *)
Holding(r) == pc[r] \in {"write", "read"}

RequestInv(r) ==
    /\ pc[r] \in {"open", "write", "read"} => r \in Proxied
    /\ socket[r] # NoSocket <=> Holding(r)
    /\ r \in pooled => pc[r] \notin {"new", "open"}
    /\ Holding(r) => link[socket[r]] # "unused"
    /\ Holding(r) /\ r \notin pooled /\ link[socket[r]] = "down" =>
          r \in hit \/ reply[socket[r]] # None
    /\ pc[r] # "done" => answer[r] = "none"
    /\ answer[r] \in {"none", "404", "405", "502", r}
    /\ answer[r] = "502" => r \in hit

(* A connection has one user, or is in the pool once, or is neither.       *)
OneUser ==
    \A r, q \in Requests : socket[r] = socket[q] /\ socket[r] # NoSocket => r = q

PoolInv ==
    /\ \A i, j \in 1..Len(pool) : pool[i] = pool[j] => i = j
    /\ \A i \in 1..Len(pool) : link[pool[i]] # "unused"
    /\ \A i \in 1..Len(pool), r \in Requests : socket[r] # pool[i]

(* What is under way on a connection belongs to the request that reads     *)
(* from it, and is in one place.                                           *)
LineInv(s) ==
    /\ \A x \in {wire[s], session[s], reply[s]} :
          x # None => socket[x] = s /\ pc[x] = "read"
    /\ wire[s] # None => session[s] = None /\ reply[s] = None
    /\ session[s] # None => reply[s] = None
    /\ link[s] # "up" => wire[s] = None /\ session[s] = None

(* An execution is matched by a reply that is under way, was relayed or    *)
(* was lost; and each of the two attempts executes the request once.       *)
Carried(r) == pc[r] = "read" /\ r \in {session[socket[r]], reply[socket[r]]}
Unsent(r) == pc[r] \in {"new", "open", "write"} \/ (pc[r] = "read" /\ wire[socket[r]] = r)

ExecutionInv(r) ==
    /\ executed[r] <= lost[r] + (IF Carried(r) \/ answer[r] = r THEN 1 ELSE 0)
    /\ pc[r] = "new" => executed[r] = 0
    /\ executed[r] <= (IF r \in pooled THEN 0 ELSE 1) + (IF Unsent(r) THEN 0 ELSE 1)

(* Connections are opened by requests that are past opening, one each, so  *)
(* there is always one left to open; and every connection kept or in use   *)
(* was needed by the requests of the busiest moment.                       *)
Opened == {s \in Sockets : link[s] # "unused"}
Past == {r \in Proxied : pc[r] = "done" \/ (Holding(r) /\ r \notin pooled)}

CountsInv ==
    /\ Cardinality(Opened) <= Cardinality(Past)
    /\ Len(pool) + Cardinality(Active) <= peak

GatewayInv ==
    /\ GatewayTypes
    /\ \A r \in Requests : RequestInv(r)
    /\ OneUser
    /\ PoolInv
    /\ \A s \in Sockets : LineInv(s)
    /\ \A r \in Proxied : ExecutionInv(r)
    /\ CountsInv

LEMMA Finiteness ==
    /\ IsFiniteSet(Proxied) /\ Cardinality(Proxied) \in Nat
    /\ IsFiniteSet(Sockets) /\ Cardinality(Sockets) = Cardinality(Proxied)
    /\ Sockets \subseteq Nat \ {0} /\ NoSocket \notin Sockets
<1>1. IsFiniteSet(Proxied) /\ Cardinality(Proxied) \in Nat
  BY GatewayAssumption, FS_CardinalityType
<1>2. IsFiniteSet(Sockets) /\ Cardinality(Sockets) = Cardinality(Proxied)
  BY <1>1, FS_Interval DEF Sockets
<1> QED
  BY <1>1, <1>2 DEF Sockets, NoSocket

(* Nothing has happened.                                                   *)
LEMMA GatewayInit == Init => GatewayInv
<1> SUFFICES ASSUME Init PROVE GatewayInv
  OBVIOUS
<1>1. GatewayTypes
  BY DEF Init, GatewayTypes
<1>2. \A r \in Requests : pc[r] = "new" /\ socket[r] = NoSocket /\ answer[r] = "none"
  BY DEF Init
<1>3. pooled = {} /\ pool = <<>>
  BY DEF Init
<1>4. (\A r \in Requests : RequestInv(r)) /\ OneUser /\ PoolInv
  BY <1>2, <1>3 DEF RequestInv, OneUser, PoolInv, Holding
<1>5. \A s \in Sockets : LineInv(s)
  BY DEF Init, LineInv
<1>6. \A r \in Proxied : ExecutionInv(r)
  BY <1>2, <1>3 DEF Init, ExecutionInv, Unsent, Requests
<1>7. CountsInv
  <2>1. Opened = {} /\ Past = {} /\ Active = {}
    BY <1>2 DEF Opened, Past, Active, Holding, Init, Requests
  <2> QED
    BY <1>3, <2>1, FS_EmptySet DEF CountsInv, Init
<1> QED
  BY <1>1, <1>4, <1>5, <1>6, <1>7 DEF GatewayInv

-----------------------------------------------------------------------------
(* Steps of the upstream leave the coroutines and the pool alone, and open *)
(* no connection.                                                          *)
LEMMA UpstreamStep ==
    ASSUME GatewayInv, UNCHANGED <<gateway, peak>>,
           \A s \in Sockets : link'[s] = "unused" <=> link[s] = "unused"
    PROVE  OneUser' /\ PoolInv' /\ CountsInv'
<1> USE DEF GatewayInv
<1>1. UNCHANGED <<pc, socket, pooled, answer, pool, peak>>
  BY DEF gateway
<1>2. OneUser'
  BY <1>1 DEF OneUser
<1>3. PoolInv'
  <2>1. \A i \in 1..Len(pool) : pool[i] \in Sockets
    BY DEF GatewayTypes
  <2> QED
    BY <1>1, <2>1 DEF PoolInv
<1>4. Opened' = Opened /\ Past' = Past /\ Active' = Active
  BY <1>1 DEF Opened, Past, Active, Holding
<1> QED
  BY <1>1, <1>2, <1>3, <1>4 DEF CountsInv

(* The session reads a request and executes it.                            *)
LEMMA ExecuteInv ==
    ASSUME GatewayInv, NEW s \in Sockets, Execute(s) PROVE GatewayInv'
<1> USE DEF GatewayInv
<1>0. /\ UNCHANGED <<gateway, link, reply, closing, hung, lost, hit, peak>>
      /\ UNCHANGED <<pc, socket, pooled, answer, pool>>
  BY DEF Execute, gateway, history
<1>1. PICK x : x = wire[s]
  OBVIOUS
<1>2. /\ link[s] = "up" /\ x # None /\ session[s] = None
      /\ session' = [session EXCEPT ![s] = x]
      /\ wire' = [wire EXCEPT ![s] = None]
      /\ executed' = [executed EXCEPT ![x] = @ + 1]
  BY <1>1 DEF Execute
<1>3. /\ x \in Proxied /\ x \in Requests /\ socket[x] = s /\ pc[x] = "read" /\ reply[s] = None
      /\ x # None
  BY <1>1, <1>2 DEF GatewayTypes, LineInv, Requests
<1>4. GatewayTypes'
  <2>1. executed[x] + 1 \in Nat
    BY <1>3 DEF GatewayTypes
  <2> QED
    BY <1>0, <1>2, <1>3, <2>1 DEF GatewayTypes
<1>5. /\ \A u \in Sockets : session'[u] = (IF u = s THEN x ELSE session[u])
      /\ \A u \in Sockets : wire'[u] = (IF u = s THEN None ELSE wire[u])
      /\ \A r \in Proxied : executed'[r] = (IF r = x THEN executed[r] + 1 ELSE executed[r])
  BY <1>2 DEF GatewayTypes
<1>6. \A r \in Requests : RequestInv(r)'
  BY <1>0 DEF RequestInv, Holding
<1>7. \A u \in Sockets : LineInv(u)'
  BY <1>0, <1>1, <1>2, <1>3, <1>5 DEF LineInv
<1>8. ASSUME NEW r \in Proxied PROVE ExecutionInv(r)'
  <2>1. executed[r] \in Nat /\ lost[r] \in Nat /\ r \in Requests /\ r # None
    BY GatewayAssumption DEF GatewayTypes, Requests
  <2>2. CASE r = x
    <3>1. ~Carried(r) /\ Carried(r)' /\ Unsent(r) /\ ~Unsent(r)' /\ answer[r] # r
      <4>1. answer[r] = "none" /\ r # "none"
        BY <1>3, <2>2, GatewayAssumption DEF RequestInv, Requests
      <4> QED
        BY <1>0, <1>1, <1>2, <1>3, <1>5, <2>1, <2>2, <4>1 DEF Carried, Unsent
    <3>2. executed'[r] = executed[r] + 1 /\ lost'[r] = lost[r] /\ pc'[r] = "read" /\ pooled' = pooled
      BY <1>0, <1>3, <1>5, <2>2
    <3> QED
      BY <2>1, <3>1, <3>2 DEF ExecutionInv
  <2>3. CASE r # x
    <3>1. Holding(r) => socket[r] # s /\ socket[r] \in Sockets
      BY <1>3, <2>1, <2>3, Finiteness DEF OneUser, RequestInv, GatewayTypes
    <3>2. Carried(r)' = Carried(r) /\ Unsent(r)' = Unsent(r)
      BY <1>0, <1>5, <3>1 DEF Carried, Unsent, Holding
    <3>3. UNCHANGED <<executed[r], lost[r], pc[r], pooled, answer[r]>>
      BY <1>0, <1>5, <2>3
    <3> QED
      BY <3>2, <3>3 DEF ExecutionInv
  <2> QED
    BY <2>2, <2>3
<1>9. OneUser' /\ PoolInv' /\ CountsInv'
  BY <1>0, UpstreamStep
<1> QED
  BY <1>4, <1>6, <1>7, <1>8, <1>9

(* The session writes the reply and, if it says so, closes.                *)
LEMMA RespondInv ==
    ASSUME GatewayInv, NEW s \in Sockets, NEW keepAlive \in BOOLEAN, Respond(s, keepAlive)
    PROVE  GatewayInv'
<1> USE DEF GatewayInv
<1>0. /\ UNCHANGED <<gateway, wire, hung, executed, lost, hit, peak>>
      /\ UNCHANGED <<pc, socket, pooled, answer, pool>>
  BY DEF Respond, gateway, history
<1>1. PICK x : x = session[s]
  OBVIOUS
<1>2. PICK state \in {"up", "down"} : state = IF keepAlive THEN "up" ELSE "down"
  OBVIOUS
<1>3. /\ link[s] = "up" /\ x # None /\ reply[s] = None
      /\ session' = [session EXCEPT ![s] = None]
      /\ reply' = [reply EXCEPT ![s] = x]
      /\ link' = [link EXCEPT ![s] = state]
  BY <1>1, <1>2 DEF Respond
<1>4. x \in Proxied /\ x \in Requests /\ socket[x] = s /\ pc[x] = "read" /\ wire[s] = None
  BY <1>1, <1>3 DEF GatewayTypes, LineInv, Requests
<1>5. GatewayTypes'
  BY <1>0, <1>3, <1>4 DEF GatewayTypes
<1>6. /\ \A u \in Sockets : session'[u] = (IF u = s THEN None ELSE session[u])
      /\ \A u \in Sockets : reply'[u] = (IF u = s THEN x ELSE reply[u])
      /\ \A u \in Sockets : link'[u] = (IF u = s THEN state ELSE link[u])
  BY <1>3 DEF GatewayTypes
<1>7. \A r \in Requests : Holding(r) => socket[r] \in Sockets
  BY DEF GatewayTypes, RequestInv
<1>8. \A r \in Requests : RequestInv(r)'
  BY <1>0, <1>3, <1>6, <1>7 DEF RequestInv, Holding
<1>9. \A u \in Sockets : LineInv(u)'
  BY <1>0, <1>1, <1>3, <1>4, <1>6 DEF LineInv
<1>10. ASSUME NEW r \in Proxied PROVE ExecutionInv(r)'
  <2>1. r \in Requests /\ r # None
    BY GatewayAssumption DEF Requests
  <2>2. Carried(r)' <=> Carried(r)
    BY <1>0, <1>1, <1>3, <1>6, <1>7, <2>1 DEF Carried, Holding
  <2>3. Unsent(r)' <=> Unsent(r)
    BY <1>0 DEF Unsent
  <2> QED
    BY <1>0, <2>2, <2>3 DEF ExecutionInv
<1>11. OneUser' /\ PoolInv' /\ CountsInv'
  <2>1. \A u \in Sockets : link'[u] = "unused" <=> link[u] = "unused"
    BY <1>3, <1>6
  <2> QED
    BY <1>0, <2>1, UpstreamStep
<1> QED
  BY <1>5, <1>8, <1>9, <1>10, <1>11

(* The upstream gives up an idle connection, which may lose a request that *)
(* is just arriving.                                                       *)
LEMMA IdleCloseInv ==
    ASSUME GatewayInv, NEW s \in Sockets, IdleClose(s) PROVE GatewayInv'
<1> USE DEF GatewayInv
<1>0. /\ UNCHANGED <<gateway, session, reply, hung, executed, lost, hit, peak>>
      /\ UNCHANGED <<pc, socket, pooled, answer, pool>>
  BY DEF IdleClose, gateway, history
<1>1. /\ link[s] = "up" /\ session[s] = None /\ reply[s] = None
      /\ \A r \in Active : socket[r] = s => r \in pooled
      /\ link' = [link EXCEPT ![s] = "down"]
      /\ wire' = [wire EXCEPT ![s] = None]
  BY DEF IdleClose, Reused
<1>2. GatewayTypes'
  BY <1>0, <1>1 DEF GatewayTypes
<1>3. /\ \A u \in Sockets : wire'[u] = (IF u = s THEN None ELSE wire[u])
      /\ \A u \in Sockets : link'[u] = (IF u = s THEN "down" ELSE link[u])
  BY <1>1 DEF GatewayTypes
<1>4. \A r \in Requests : Holding(r) => socket[r] \in Sockets /\ r \in Active
  BY DEF GatewayTypes, RequestInv, Active, Holding
<1>5. \A r \in Requests : RequestInv(r)'
  BY <1>0, <1>1, <1>3, <1>4 DEF RequestInv, Holding
<1>6. \A u \in Sockets : LineInv(u)'
  BY <1>0, <1>1, <1>3 DEF LineInv
<1>7. ASSUME NEW r \in Proxied PROVE ExecutionInv(r)'
  <2>1. r \in Requests /\ r # None /\ executed[r] \in Nat /\ lost[r] \in Nat
    BY GatewayAssumption DEF Requests, GatewayTypes
  <2>2. Carried(r)' <=> Carried(r)
    BY <1>0 DEF Carried
  <2>3. Unsent(r)' => Unsent(r)
    BY <1>0, <1>3, <1>4, <2>1 DEF Unsent, Holding
  <2> QED
    BY <1>0, <2>1, <2>2, <2>3 DEF ExecutionInv
<1>8. OneUser' /\ PoolInv' /\ CountsInv'
  <2>1. \A u \in Sockets : link'[u] = "unused" <=> link[u] = "unused"
    BY <1>1, <1>3
  <2> QED
    BY <1>0, <2>1, UpstreamStep
<1> QED
  BY <1>2, <1>5, <1>6, <1>7, <1>8

(* A fault breaks a connection; the executions it takes a reply from are   *)
(* counted as lost.                                                        *)
LEMMA BreakInv ==
    ASSUME GatewayInv, NEW s \in Sockets, Break(s) PROVE GatewayInv'
<1> USE DEF GatewayInv
<1>0. /\ UNCHANGED <<gateway, hung, executed, peak>>
      /\ UNCHANGED <<pc, socket, pooled, answer, pool>>
  BY DEF Break, gateway
<1>1. /\ link[s] = "up"
      /\ link' = [link EXCEPT ![s] = "down"]
      /\ wire' = [wire EXCEPT ![s] = None]
      /\ session' = [session EXCEPT ![s] = None]
      /\ reply' = [reply EXCEPT ![s] = None]
      /\ lost' = [r \in Proxied |-> lost[r] + IF r \in {session[s], reply[s]} THEN 1 ELSE 0]
      /\ hit' = hit \cup {r \in Active \ pooled : socket[r] = s}
  BY DEF Break
<1>2. GatewayTypes'
  <2>1. lost' \in [Proxied -> Nat]
    BY <1>1 DEF GatewayTypes
  <2>2. /\ link' \in [Sockets -> {"unused", "up", "down"}]
        /\ wire' \in [Sockets -> Proxied \cup {None}]
        /\ session' \in [Sockets -> Proxied \cup {None}]
        /\ reply' \in [Sockets -> Proxied \cup {None}]
    BY <1>1 DEF GatewayTypes
  <2> QED
    BY <1>0, <2>1, <2>2 DEF GatewayTypes
<1>3. /\ \A u \in Sockets : wire'[u] = (IF u = s THEN None ELSE wire[u])
      /\ \A u \in Sockets : session'[u] = (IF u = s THEN None ELSE session[u])
      /\ \A u \in Sockets : reply'[u] = (IF u = s THEN None ELSE reply[u])
      /\ \A u \in Sockets : link'[u] = (IF u = s THEN "down" ELSE link[u])
  BY <1>1 DEF GatewayTypes
<1>4. \A r \in Requests : Holding(r) => socket[r] \in Sockets /\ r \in Active
  BY DEF GatewayTypes, RequestInv, Active, Holding
<1>5. \A r \in Requests : RequestInv(r)'
  BY <1>0, <1>1, <1>3, <1>4 DEF RequestInv, Holding
<1>6. \A u \in Sockets : LineInv(u)'
  BY <1>0, <1>1, <1>3 DEF LineInv
<1>7. ASSUME NEW r \in Proxied PROVE ExecutionInv(r)'
  <2>1. r \in Requests /\ r # None /\ executed[r] \in Nat /\ lost[r] \in Nat
    BY GatewayAssumption DEF Requests, GatewayTypes
  <2>2. Unsent(r)' => Unsent(r)
    BY <1>0, <1>3, <1>4, <2>1 DEF Unsent, Holding
  <2>3. CASE r \in {session[s], reply[s]}
    <3>1. lost'[r] = lost[r] + 1
      BY <1>1, <2>3
    <3> QED
      BY <1>0, <2>1, <2>2, <3>1 DEF ExecutionInv
  <2>4. CASE r \notin {session[s], reply[s]}
    <3>1. lost'[r] = lost[r]
      BY <1>1, <2>1, <2>4
    <3>2. Carried(r)' <=> Carried(r)
      BY <1>0, <1>3, <1>4, <2>1, <2>4 DEF Carried, Holding
    <3> QED
      BY <1>0, <2>1, <2>2, <3>1, <3>2 DEF ExecutionInv
  <2> QED
    BY <2>3, <2>4
<1>8. OneUser' /\ PoolInv' /\ CountsInv'
  <2>1. \A u \in Sockets : link'[u] = "unused" <=> link[u] = "unused"
    BY <1>1, <1>3
  <2> QED
    BY <1>0, <2>1, UpstreamStep
<1> QED
  BY <1>2, <1>5, <1>6, <1>7, <1>8

(* The upstream stops serving a connection.                                *)
LEMMA HangInv ==
    ASSUME GatewayInv, NEW s \in Sockets, Hang(s) PROVE GatewayInv'
<1> USE DEF GatewayInv
<1>0. /\ UNCHANGED <<gateway, link, wire, session, reply, executed, lost, hit, peak>>
      /\ UNCHANGED <<pc, socket, pooled, answer, pool>>
  BY DEF Hang, gateway
<1>1. GatewayTypes'
  BY <1>0 DEF GatewayTypes
<1>2. \A r \in Requests : RequestInv(r)'
  BY <1>0 DEF RequestInv, Holding
<1>3. \A u \in Sockets : LineInv(u)'
  BY <1>0 DEF LineInv
<1>4. \A r \in Proxied : ExecutionInv(r)'
  BY <1>0 DEF ExecutionInv, Carried, Unsent
<1>5. OneUser' /\ PoolInv' /\ CountsInv'
  BY <1>0, UpstreamStep
<1> QED
  BY <1>1, <1>2, <1>3, <1>4, <1>5

-----------------------------------------------------------------------------
(* A step of r's coroutine touches its own connection only.                *)
LEMMA OthersStep ==
    ASSUME GatewayInv, NEW r \in Requests,
           \A q \in Requests \ {r} : UNCHANGED <<pc[q], socket[q], answer[q]>>,
           \A q \in Requests \ {r} : q \in pooled' <=> q \in pooled,
           hit \subseteq hit', UNCHANGED <<executed, lost>>,
           \A s \in Sockets : s # socket[r] => UNCHANGED <<wire[s], session[s], reply[s]>>,
           \A s \in Sockets : s # socket[r] /\ link[s] # "unused" => link'[s] = link[s]
    PROVE  /\ \A q \in Requests \ {r} : RequestInv(q)'
           /\ \A q \in Proxied \ {r} : ExecutionInv(q)'
           /\ \A s \in Sockets : s # socket[r] => LineInv(s)'
<1> USE DEF GatewayInv
<1>1. \A q \in Requests \ {r} : Holding(q) =>
         /\ socket[q] \in Sockets /\ socket[q] # socket[r] /\ link[socket[q]] # "unused"
  BY Finiteness DEF GatewayTypes, RequestInv, OneUser
<1>2. \A q \in Requests \ {r} : Holding(q) =>
         /\ UNCHANGED <<socket[q], link[socket[q]], wire[socket[q]]>>
         /\ UNCHANGED <<session[socket[q]], reply[socket[q]]>>
  BY <1>1
<1>3. \A q \in Requests \ {r} : Holding(q)' <=> Holding(q)
  BY DEF Holding
<1>4. ASSUME NEW q \in Requests \ {r} PROVE RequestInv(q)'
  <2>1. RequestInv(q)
    OBVIOUS
  <2>2. UNCHANGED <<pc[q], socket[q], answer[q]>> /\ (q \in pooled' <=> q \in pooled)
    OBVIOUS
  <2> QED
    BY <1>2, <1>3, <2>1, <2>2 DEF RequestInv
<1>5. ASSUME NEW q \in Proxied \ {r} PROVE ExecutionInv(q)'
  <2>1. ExecutionInv(q) /\ q \in Requests \ {r}
    BY DEF Requests
  <2>2. (Carried(q)' <=> Carried(q)) /\ (Unsent(q)' <=> Unsent(q))
    BY <1>2, <2>1 DEF Carried, Unsent, Holding
  <2>3. UNCHANGED <<pc[q], answer[q]>> /\ (q \in pooled' <=> q \in pooled)
    BY <2>1
  <2> QED
    BY <2>1, <2>2, <2>3 DEF ExecutionInv
<1>6. ASSUME NEW s \in Sockets, s # socket[r] PROVE LineInv(s)'
  <2>1. LineInv(s) /\ UNCHANGED <<wire[s], session[s], reply[s]>>
    BY <1>6
  <2>2. \A x \in {wire[s], session[s], reply[s]} :
           x # None => x \in Requests \ {r} /\ socket'[x] = s /\ pc'[x] = "read"
    <3>1. ASSUME NEW x \in {wire[s], session[s], reply[s]}, x # None
          PROVE  x \in Requests /\ socket[x] = s /\ pc[x] = "read"
      BY <2>1, <3>1 DEF GatewayTypes, LineInv, Requests
    <3> QED
      BY <1>6, <3>1
  <2>3. link'[s] # "up" => link[s] # "up"
    BY <1>6
  <2> QED
    BY <2>1, <2>2, <2>3 DEF LineInv
<1> QED
  BY <1>4, <1>5, <1>6

(* How the counts move with one request.                                   *)
LEMMA CardWithout ==
    ASSUME NEW S, IsFiniteSet(S), NEW x
    PROVE  /\ Cardinality(S \ {x}) \in Nat
           /\ x \in S => Cardinality(S) = Cardinality(S \ {x}) + 1
           /\ x \notin S => Cardinality(S) = Cardinality(S \ {x})
<1>1. Cardinality(S) \in Nat /\ IsFiniteSet(S \ {x}) /\ Cardinality(S \ {x}) \in Nat
  BY FS_CardinalityType, FS_RemoveElement
<1>2. CASE x \in S
  <2>1. Cardinality(S \ {x}) = Cardinality(S) - 1
    BY <1>2, FS_RemoveElement
  <2>2. Cardinality(S) = Cardinality(S \ {x}) + 1
    BY <1>1, <2>1
  <2> QED
    BY <1>1, <1>2, <2>2
<1>3. CASE x \notin S
  <2>1. S \ {x} = S
    BY <1>3
  <2> QED
    BY <1>1, <1>3, <2>1, Zenon
<1> QED
  BY <1>2, <1>3

LEMMA CountsStep ==
    ASSUME GatewayInv, NEW r \in Proxied,
           \A q \in Requests \ {r} : pc'[q] = pc[q],
           \A q \in Requests \ {r} : q \in pooled' <=> q \in pooled
    PROVE  /\ Cardinality(Active) \in Nat /\ Cardinality(Past) \in Nat
           /\ Cardinality(Active') =
                 Cardinality(Active) + (IF r \in Active' THEN 1 ELSE 0)
                                     - (IF r \in Active THEN 1 ELSE 0)
           /\ Cardinality(Past') =
                 Cardinality(Past) + (IF r \in Past' THEN 1 ELSE 0)
                                   - (IF r \in Past THEN 1 ELSE 0)
<1>1. Active' \ {r} = Active \ {r} /\ Past' \ {r} = Past \ {r}
  BY DEF Active, Past, Holding, Requests
<1>2. Active \subseteq Proxied /\ Active' \subseteq Proxied
      /\ Past \subseteq Proxied /\ Past' \subseteq Proxied
  BY DEF Active, Past
<1>3. IsFiniteSet(Active) /\ IsFiniteSet(Active') /\ IsFiniteSet(Past) /\ IsFiniteSet(Past')
  BY <1>2, Finiteness, FS_Subset
<1>4. PICK a : a = Cardinality(Active \ {r})
  OBVIOUS
<1>5. PICK b : b = Cardinality(Past \ {r})
  OBVIOUS
<1>6. /\ a \in Nat
      /\ r \in Active => Cardinality(Active) = a + 1
      /\ r \notin Active => Cardinality(Active) = a
  BY <1>3, <1>4, CardWithout
<1>7. /\ r \in Active' => Cardinality(Active') = a + 1
      /\ r \notin Active' => Cardinality(Active') = a
  BY <1>1, <1>3, <1>4, CardWithout
<1>8. /\ b \in Nat
      /\ r \in Past => Cardinality(Past) = b + 1
      /\ r \notin Past => Cardinality(Past) = b
  BY <1>3, <1>5, CardWithout
<1>9. /\ r \in Past' => Cardinality(Past') = b + 1
      /\ r \notin Past' => Cardinality(Past') = b
  BY <1>1, <1>3, <1>5, CardWithout
<1> QED
  BY <1>6, <1>7, <1>8, <1>9

(* A request that is not routed is answered at once.                       *)
LEMMA RefuseInv ==
    ASSUME GatewayInv, NEW r \in Requests, NEW status \in {"404", "405"}, Refuse(r, status)
    PROVE  GatewayInv'
<1> USE DEF GatewayInv
<1>1. /\ r \in Unrouted /\ pc[r] = "new"
      /\ pc' = [pc EXCEPT ![r] = "done"]
      /\ answer' = [answer EXCEPT ![r] = status]
      /\ socket' = [socket EXCEPT ![r] = NoSocket]
      /\ UNCHANGED <<pooled, pool, link, wire, session, reply, executed, lost, hit, peak>>
  BY DEF Refuse, Finish, upstream, history
<1>2. /\ \A q \in Requests : pc'[q] = (IF q = r THEN "done" ELSE pc[q])
      /\ \A q \in Requests : answer'[q] = (IF q = r THEN status ELSE answer[q])
      /\ \A q \in Requests : socket'[q] = (IF q = r THEN NoSocket ELSE socket[q])
  BY <1>1 DEF GatewayTypes
<1>3. GatewayTypes'
  BY <1>1 DEF GatewayTypes
<1>4. r \notin Proxied /\ socket[r] = NoSocket
  BY <1>1, GatewayAssumption DEF RequestInv, Holding
<1>5. /\ \A q \in Requests \ {r} : RequestInv(q)'
      /\ \A q \in Proxied \ {r} : ExecutionInv(q)'
      /\ \A s \in Sockets : s # socket[r] => LineInv(s)'
  BY <1>1, <1>2, OthersStep
<1>6. RequestInv(r)'
  <2>1. r \notin pooled'
    BY <1>1, <1>4 DEF GatewayTypes
  <2> QED
    BY <1>2, <2>1 DEF RequestInv, Holding
<1>7. OneUser'
  BY <1>2 DEF OneUser
<1>8. PoolInv'
  <2>1. \A i \in 1..Len(pool) : pool[i] # NoSocket
    BY Finiteness DEF GatewayTypes
  <2> QED
    BY <1>1, <1>2, <2>1 DEF PoolInv
<1>9. CountsInv'
  <2>1. Opened' = Opened /\ Past' = Past /\ Active' = Active
    BY <1>1, <1>2, <1>4 DEF Opened, Past, Active, Holding, Requests
  <2> QED
    BY <1>1, <2>1 DEF CountsInv
<1> QED
  BY <1>3, <1>4, <1>5, <1>6, <1>7, <1>8, <1>9, Finiteness

(* What is left of the pool, and what was taken from it.                   *)
LEMMA TakeLast ==
    ASSUME NEW S, NEW q \in Seq(S), q # <<>>
    PROVE  LET rest == SubSeq(q, 1, Len(q) - 1)
           IN  /\ Len(q) \in Nat /\ Len(q) >= 1 /\ q[Len(q)] \in S
               /\ rest \in Seq(S) /\ Len(rest) = Len(q) - 1
               /\ \A i \in 1..(Len(q) - 1) : rest[i] = q[i]
<1>1. Len(q) \in Nat /\ Len(q) # 0
  BY EmptySeq, LenProperties
<1>2. PICK n \in Nat : n = Len(q) - 1
  BY <1>1
<1>3. 1 \in 1..(n + 1) /\ n + 1 = Len(q) /\ \A i \in 1..n : i \in 1..Len(q)
  BY <1>1, <1>2
<1>4. q[Len(q)] \in S /\ \A i \in 1..n : q[i] \in S
  BY <1>1, <1>3, ElementOfSeq
<1>5. SubSeq(q, 1, n) = [i \in 1..n |-> q[i]]
  BY <1>2, <1>3
<1>6. SubSeq(q, 1, n) \in Seq(S) /\ Len(SubSeq(q, 1, n)) = n
  BY <1>4, <1>5
<1> QED
  BY <1>1, <1>2, <1>3, <1>4, <1>5, <1>6

(* A request takes the connection returned last, or will open one.         *)
LEMMA FirstAttemptInv ==
    ASSUME GatewayInv, NEW r \in Requests, FirstAttempt(r) PROVE GatewayInv'
<1> USE DEF GatewayInv
<1>1. /\ r \in Proxied /\ pc[r] = "new"
      /\ peak' = Bound(peak, Cardinality(Active) + 1)
      /\ UNCHANGED <<answer, link, wire, session, reply, executed, lost, hit>>
  BY DEF FirstAttempt, Acquire, upstream
<1>2. /\ socket[r] = NoSocket /\ r \notin pooled /\ answer[r] = "none" /\ executed[r] = 0
      /\ r \notin Active /\ r \notin Past
  BY <1>1 DEF RequestInv, Holding, ExecutionInv, Active, Past
<1>3. Cardinality(Active) \in Nat /\ peak \in Nat /\ Len(pool) \in Nat
  BY <1>1, Finiteness, FS_Subset, FS_CardinalityType DEF Active, GatewayTypes
<1>4. peak' \in Nat /\ peak' >= peak /\ peak' >= Cardinality(Active) + 1
  BY <1>1, <1>3 DEF Bound
<1>5. CASE pool = <<>>
  <2>1. pc' = [pc EXCEPT ![r] = "open"] /\ UNCHANGED <<socket, pooled, pool>>
    BY <1>5 DEF FirstAttempt, Acquire
  <2>2. \A q \in Requests : pc'[q] = (IF q = r THEN "open" ELSE pc[q])
    BY <2>1 DEF GatewayTypes
  <2>3. GatewayTypes'
    BY <1>1, <1>4, <2>1 DEF GatewayTypes
  <2>4. /\ \A q \in Requests \ {r} : RequestInv(q)'
        /\ \A q \in Proxied \ {r} : ExecutionInv(q)'
        /\ \A s \in Sockets : s # socket[r] => LineInv(s)'
    BY <1>1, <2>1, <2>2, OthersStep
  <2>5. RequestInv(r)'
    BY <1>1, <1>2, <2>1, <2>2 DEF RequestInv, Holding
  <2>6. ExecutionInv(r)'
    BY <1>1, <1>2, <2>1, <2>2 DEF ExecutionInv, Unsent, GatewayTypes
  <2>7. OneUser' /\ PoolInv'
    BY <1>1, <2>1 DEF OneUser, PoolInv
  <2>8. CountsInv'
    <3>1. Cardinality(Active') <= Cardinality(Active) + 1
      BY <1>1, <1>2, <1>3, <2>1, <2>2, CountsStep
    <3>2. Opened' = Opened /\ Past' = Past
      BY <1>1, <1>2, <2>1, <2>2 DEF Opened, Past, Holding, Requests
    <3>3. Len(pool') = 0 /\ Cardinality(Active') \in Nat
      <4>1. Active' \subseteq Proxied
        BY DEF Active
      <4> QED
        BY <1>5, <2>1, <4>1, Finiteness, FS_Subset, FS_CardinalityType
    <3> QED
      BY <1>3, <1>4, <3>1, <3>2, <3>3 DEF CountsInv
  <2> QED
    BY <1>2, <2>3, <2>4, <2>5, <2>6, <2>7, <2>8, Finiteness
<1>6. CASE pool # <<>>
  <2>1. PICK s : s = pool[Len(pool)]
    OBVIOUS
  <2>2. /\ pc' = [pc EXCEPT ![r] = "write"]
        /\ socket' = [socket EXCEPT ![r] = s]
        /\ pooled' = pooled \cup {r}
        /\ pool' = SubSeq(pool, 1, Len(pool) - 1)
    BY <1>6, <2>1 DEF FirstAttempt, Acquire, Last, Front
  <2>3. /\ Len(pool) >= 1 /\ s \in Sockets /\ s # NoSocket /\ link[s] # "unused"
        /\ \A q \in Requests : socket[q] # s
    <3>1. pool \in Seq(Sockets)
      BY DEF GatewayTypes
    <3>2. Len(pool) >= 1 /\ s \in Sockets /\ Len(pool) \in 1..Len(pool)
      BY <1>3, <1>6, <2>1, <3>1, TakeLast
    <3> QED
      BY <2>1, <3>2, Finiteness DEF PoolInv
  <2>4. /\ pool' \in Seq(Sockets) /\ Len(pool') = Len(pool) - 1
        /\ \A i \in 1..Len(pool') : pool'[i] = pool[i] /\ i \in 1..Len(pool) /\ i # Len(pool)
    <3>1. pool \in Seq(Sockets)
      BY DEF GatewayTypes
    <3>2. /\ pool' \in Seq(Sockets) /\ Len(pool') = Len(pool) - 1
          /\ \A i \in 1..(Len(pool) - 1) : pool'[i] = pool[i]
      BY <1>6, <2>2, <3>1, TakeLast
    <3> QED
      BY <1>3, <2>3, <3>2
  <2>5. /\ \A q \in Requests : pc'[q] = (IF q = r THEN "write" ELSE pc[q])
        /\ \A q \in Requests : socket'[q] = (IF q = r THEN s ELSE socket[q])
    BY <2>2 DEF GatewayTypes
  <2>6. GatewayTypes'
    BY <1>1, <1>4, <2>2, <2>3, <2>4 DEF GatewayTypes
  <2>7. /\ \A q \in Requests \ {r} : RequestInv(q)'
        /\ \A q \in Proxied \ {r} : ExecutionInv(q)'
        /\ \A u \in Sockets : u # socket[r] => LineInv(u)'
    BY <1>1, <2>2, <2>5, OthersStep
  <2>8. RequestInv(r)'
    BY <1>1, <1>2, <2>2, <2>3, <2>5 DEF RequestInv, Holding
  <2>9. ExecutionInv(r)'
    BY <1>1, <1>2, <2>5 DEF ExecutionInv, Unsent, GatewayTypes
  <2>10. OneUser'
    BY <2>3, <2>5 DEF OneUser
  <2>11. PoolInv'
    <3>1. \A i \in 1..Len(pool') : pool'[i] # s
      <4>1. Len(pool) \in 1..Len(pool)
        BY <1>3, <2>3
      <4> QED
        BY <2>1, <2>4, <4>1 DEF PoolInv
    <3>2. \A i, j \in 1..Len(pool') : pool'[i] = pool'[j] => i = j
      BY <2>4 DEF PoolInv
    <3>3. \A i \in 1..Len(pool') : link'[pool'[i]] # "unused"
      BY <1>1, <2>4 DEF PoolInv
    <3>4. \A i \in 1..Len(pool'), q \in Requests : socket'[q] # pool'[i]
      BY <2>4, <2>5, <3>1 DEF PoolInv
    <3> QED
      BY <3>2, <3>3, <3>4 DEF PoolInv
  <2>12. CountsInv'
    <3>1. Cardinality(Active') <= Cardinality(Active) + 1 /\ Cardinality(Active') \in Int
      BY <1>1, <1>2, <1>3, <2>2, <2>5, CountsStep
    <3>2. Opened' = Opened /\ Past' = Past
      BY <1>1, <1>2, <2>2, <2>5 DEF Opened, Past, Holding, Requests
    <3> QED
      BY <1>3, <1>4, <2>4, <3>1, <3>2 DEF CountsInv
  <2> QED
    BY <1>2, <2>6, <2>7, <2>8, <2>9, <2>10, <2>11, <2>12, Finiteness
<1> QED
  BY <1>5, <1>6

(* Giving a connection up, or keeping it, disturbs no other use of it.     *)
LEMMA UseKept ==
    ASSUME GatewayInv, NEW r \in Requests, pool' = pool,
           \A q \in Requests \ {r} : socket'[q] = socket[q],
           socket'[r] \in {NoSocket, socket[r]},
           \A s \in Sockets : link[s] # "unused" => link'[s] # "unused"
    PROVE  OneUser' /\ PoolInv'
<1> USE DEF GatewayInv
<1>1. OneUser'
  BY DEF OneUser
<1>2. \A i \in 1..Len(pool) : pool[i] \in Sockets /\ pool[i] # NoSocket
  <2>1. pool \in Seq(Sockets)
    BY DEF GatewayTypes
  <2> QED
    BY <2>1, ElementOfSeq, Finiteness
<1>3. PoolInv'
  BY <1>2 DEF PoolInv
<1> QED
  BY <1>1, <1>3

(* There is a connection left to open, as every one that was opened is     *)
(* matched by a request past opening, and r is not.                        *)
LEMMA OneLeft ==
    ASSUME GatewayInv, NEW r \in Proxied, r \notin Past
    PROVE  \E s \in Sockets : link[s] = "unused"
<1> SUFFICES ASSUME \A s \in Sockets : link[s] # "unused" PROVE FALSE
  OBVIOUS
<1> USE DEF GatewayInv
<1>1. Opened = Sockets
  BY DEF Opened
<1>2. Past \subseteq Proxied /\ Past # Proxied
  BY DEF Past
<1>3. Cardinality(Past) <= Cardinality(Proxied) /\ Cardinality(Past) # Cardinality(Proxied)
  BY <1>2, Finiteness, FS_Subset
<1>4. Cardinality(Past) \in Nat
  BY <1>2, Finiteness, FS_Subset, FS_CardinalityType
<1> QED
  BY <1>1, <1>3, <1>4, Finiteness DEF CountsInv

LEMMA OpenSocketInv ==
    ASSUME GatewayInv, NEW r \in Requests, OpenSocket(r) PROVE GatewayInv'
<1> USE DEF GatewayInv
<1>1. PICK s : s = CHOOSE unused \in Sockets : link[unused] = "unused"
  OBVIOUS
<1>2. /\ pc[r] = "open"
      /\ link' = [link EXCEPT ![s] = "up"]
      /\ socket' = [socket EXCEPT ![r] = s]
      /\ pc' = [pc EXCEPT ![r] = "write"]
      /\ UNCHANGED <<pooled, answer, pool, wire, session, reply, executed, lost, hit, peak>>
  BY <1>1 DEF OpenSocket, history
<1>3. /\ r \in Proxied /\ socket[r] = NoSocket /\ r \notin pooled /\ answer[r] = "none"
      /\ r \in Active /\ r \notin Past
  BY <1>2 DEF RequestInv, Holding, Active, Past
<1>4. s \in Sockets /\ link[s] = "unused" /\ s # NoSocket
  BY <1>1, <1>3, OneLeft, Finiteness
<1>5. /\ \A q \in Requests : pc'[q] = (IF q = r THEN "write" ELSE pc[q])
      /\ \A q \in Requests : socket'[q] = (IF q = r THEN s ELSE socket[q])
      /\ \A u \in Sockets : link'[u] = (IF u = s THEN "up" ELSE link[u])
  BY <1>2, <1>4 DEF GatewayTypes
<1>6. GatewayTypes'
  BY <1>2, <1>4 DEF GatewayTypes
<1>7. \A q \in Requests : socket[q] # s
  BY <1>3, <1>4 DEF RequestInv
<1>8. /\ \A q \in Requests \ {r} : RequestInv(q)'
      /\ \A q \in Proxied \ {r} : ExecutionInv(q)'
      /\ \A u \in Sockets : u # socket[r] => LineInv(u)'
  BY <1>2, <1>4, <1>5, OthersStep
<1>9. RequestInv(r)'
  BY <1>2, <1>3, <1>4, <1>5 DEF RequestInv, Holding
<1>10. ExecutionInv(r)'
  <2>1. ~Carried(r) /\ ~Carried(r)' /\ Unsent(r) /\ Unsent(r)'
    BY <1>2, <1>5 DEF Carried, Unsent
  <2> QED
    BY <1>2, <1>3, <1>5, <2>1 DEF ExecutionInv
<1>11. OneUser'
  BY <1>4, <1>5, <1>7 DEF OneUser
<1>12. PoolInv'
  <2>1. \A i \in 1..Len(pool) : pool[i] \in Sockets /\ pool[i] # s
    <3>1. pool \in Seq(Sockets)
      BY DEF GatewayTypes
    <3> QED
      BY <1>4, <3>1, ElementOfSeq DEF PoolInv
  <2> QED
    BY <1>2, <1>5, <2>1 DEF PoolInv
<1>13. CountsInv'
  <2>1. r \in Active' /\ r \in Past'
    BY <1>2, <1>3, <1>5 DEF Active, Past, Holding
  <2>2. Cardinality(Active') = Cardinality(Active) /\ Cardinality(Past') = Cardinality(Past) + 1
    BY <1>2, <1>3, <1>5, <2>1, CountsStep
  <2>3. Cardinality(Opened') = Cardinality(Opened) + 1 /\ Cardinality(Opened) \in Nat
    <3>1. Opened' = Opened \cup {s} /\ s \notin Opened /\ Opened \subseteq Sockets
      BY <1>4, <1>5 DEF Opened
    <3>2. IsFiniteSet(Opened)
      BY <3>1, Finiteness, FS_Subset
    <3> QED
      BY <3>1, <3>2, FS_AddElement, FS_CardinalityType
  <2>4. Cardinality(Past) \in Nat
    BY <1>2, <1>3, <1>5, CountsStep
  <2> QED
    BY <1>2, <2>2, <2>3, <2>4 DEF CountsInv
<1> QED
  BY <1>3, <1>6, <1>8, <1>9, <1>10, <1>11, <1>12, <1>13, Finiteness

LEMMA OpenFailsInv ==
    ASSUME GatewayInv, NEW r \in Requests, OpenFails(r) PROVE GatewayInv'
<1> USE DEF GatewayInv
<1>1. /\ pc[r] = "open"
      /\ pc' = [pc EXCEPT ![r] = "done"]
      /\ answer' = [answer EXCEPT ![r] = "502"]
      /\ socket' = [socket EXCEPT ![r] = NoSocket]
      /\ hit' = hit \cup {r}
      /\ UNCHANGED <<pooled, pool, link, wire, session, reply, executed, lost, peak>>
  BY DEF OpenFails, Finish, upstream
<1>2. /\ r \in Proxied /\ socket[r] = NoSocket /\ r \notin pooled /\ answer[r] = "none"
      /\ r \in Active /\ r \notin Past /\ r # "502"
  BY <1>1, GatewayAssumption DEF RequestInv, Holding, Active, Past
<1>3. /\ \A q \in Requests : pc'[q] = (IF q = r THEN "done" ELSE pc[q])
      /\ \A q \in Requests : socket'[q] = (IF q = r THEN NoSocket ELSE socket[q])
      /\ \A q \in Requests : answer'[q] = (IF q = r THEN "502" ELSE answer[q])
  BY <1>1 DEF GatewayTypes
<1>4. GatewayTypes'
  BY <1>1 DEF GatewayTypes
<1>5. /\ \A q \in Requests \ {r} : RequestInv(q)'
      /\ \A q \in Proxied \ {r} : ExecutionInv(q)'
      /\ \A u \in Sockets : u # socket[r] => LineInv(u)'
  BY <1>1, <1>3, OthersStep
<1>6. RequestInv(r)'
  BY <1>1, <1>2, <1>3 DEF RequestInv, Holding
<1>7. ExecutionInv(r)'
  <2>1. ~Carried(r) /\ ~Carried(r)' /\ Unsent(r) /\ ~Unsent(r)'
    BY <1>1, <1>3 DEF Carried, Unsent
  <2>2. executed[r] \in Nat /\ lost[r] \in Nat /\ answer[r] # r
    BY <1>2, GatewayAssumption DEF GatewayTypes, Requests
  <2> QED
    BY <1>1, <1>2, <1>3, <2>1, <2>2 DEF ExecutionInv
<1>8. OneUser' /\ PoolInv'
  BY <1>1, <1>3, UseKept
<1>9. CountsInv'
  <2>1. r \notin Active' /\ r \in Past'
    BY <1>2, <1>3 DEF Active, Past
  <2>2. /\ Cardinality(Active) \in Nat /\ Cardinality(Past) \in Nat
        /\ Cardinality(Active') = Cardinality(Active) - 1
        /\ Cardinality(Past') = Cardinality(Past) + 1
    BY <1>1, <1>2, <1>3, <2>1, CountsStep
  <2>3. Opened' = Opened /\ Cardinality(Opened) \in Nat /\ Len(pool) \in Nat
    <3>1. Opened' = Opened /\ Opened \subseteq Sockets
      BY <1>1 DEF Opened
    <3> QED
      BY <3>1, Finiteness, FS_Subset, FS_CardinalityType DEF GatewayTypes
  <2> QED
    BY <1>1, <2>2, <2>3 DEF CountsInv, GatewayTypes
<1> QED
  BY <1>2, <1>4, <1>5, <1>6, <1>7, <1>8, <1>9, Finiteness

LEMMA WriteInv ==
    ASSUME GatewayInv, NEW r \in Requests, Write(r) PROVE GatewayInv'
<1> USE DEF GatewayInv
<1>1. PICK s : s = socket[r]
  OBVIOUS
<1>2. /\ pc[r] = "write"
      /\ pc' = [pc EXCEPT ![r] = "read"]
      /\ wire' = IF link[s] = "up" THEN [wire EXCEPT ![s] = r] ELSE wire
      /\ UNCHANGED <<socket, pooled, answer, pool, link, session, reply, executed, lost, hit, peak>>
  BY <1>1 DEF Write, history
<1>3. /\ r \in Proxied /\ s \in Sockets /\ link[s] # "unused" /\ answer[r] = "none"
      /\ r \in Active /\ (r \in Past <=> r \notin pooled)
  BY <1>1, <1>2 DEF RequestInv, Holding, Active, Past, GatewayTypes
<1>4. wire[s] = None /\ session[s] = None /\ reply[s] = None
  <2>1. ASSUME NEW x \in {wire[s], session[s], reply[s]}, x # None PROVE FALSE
    <3>1. x \in Requests /\ socket[x] = s /\ pc[x] = "read"
      BY <1>3, <2>1 DEF LineInv, GatewayTypes, Requests
    <3>2. x = r
      BY <1>1, <1>3, <3>1, Finiteness DEF OneUser
    <3> QED
      BY <1>2, <3>1, <3>2
  <2> QED
    BY <2>1
<1>5. /\ \A q \in Requests : pc'[q] = (IF q = r THEN "read" ELSE pc[q])
      /\ \A u \in Sockets : wire'[u] = (IF u = s /\ link[s] = "up" THEN r ELSE wire[u])
  BY <1>2, <1>3 DEF GatewayTypes
<1>6. GatewayTypes'
  <2>1. wire' \in [Sockets -> Proxied \cup {None}]
    BY <1>2, <1>3 DEF GatewayTypes
  <2> QED
    BY <1>2, <2>1 DEF GatewayTypes
<1>7. /\ \A q \in Requests \ {r} : RequestInv(q)'
      /\ \A q \in Proxied \ {r} : ExecutionInv(q)'
      /\ \A u \in Sockets : u # socket[r] => LineInv(u)'
  BY <1>1, <1>2, <1>5, OthersStep
<1>8. RequestInv(r)'
  BY <1>2, <1>5 DEF RequestInv, Holding
<1>9. LineInv(s)'
  BY <1>1, <1>2, <1>3, <1>4, <1>5 DEF LineInv
<1>10. ExecutionInv(r)'
  <2>1. r # None /\ executed[r] \in Nat /\ lost[r] \in Nat
    BY <1>3, GatewayAssumption DEF GatewayTypes, Requests
  <2>2. ~Carried(r) /\ ~Carried(r)' /\ Unsent(r)
    BY <1>1, <1>2, <1>4, <1>5, <2>1 DEF Carried, Unsent
  <2> QED
    BY <1>2, <1>3, <1>5, <2>1, <2>2 DEF ExecutionInv
<1>11. OneUser' /\ PoolInv'
  BY <1>2, UseKept
<1>12. CountsInv'
  <2>1. Opened' = Opened /\ Past' = Past /\ Active' = Active
    BY <1>2, <1>5 DEF Opened, Past, Active, Holding, Requests
  <2> QED
    BY <1>2, <2>1 DEF CountsInv
<1> QED
  BY <1>1, <1>3, <1>6, <1>7, <1>8, <1>9, <1>10, <1>11, <1>12

(* The reply under way on r's connection is r's.                           *)
LEMMA ReplyIsOwn ==
    ASSUME GatewayInv, NEW r \in Requests, pc[r] = "read", reply[socket[r]] # None
    PROVE  reply[socket[r]] = r
<1> USE DEF GatewayInv
<1>1. PICK s : s = socket[r]
  OBVIOUS
<1>2. s \in Sockets /\ s # NoSocket
  BY <1>1, Finiteness DEF RequestInv, Holding, GatewayTypes
<1>3. PICK x : x = reply[s]
  OBVIOUS
<1>4. x \in Requests /\ socket[x] = s
  BY <1>1, <1>2, <1>3 DEF LineInv, GatewayTypes, Requests
<1>5. x = r
  BY <1>1, <1>2, <1>4 DEF OneUser
<1> QED
  BY <1>1, <1>3, <1>5

LEMMA RelayInv ==
    ASSUME GatewayInv, NEW r \in Requests, Relay(r) PROVE GatewayInv'
<1> USE DEF GatewayInv
<1>1. PICK s : s = socket[r]
  OBVIOUS
<1>2. /\ pc[r] = "read" /\ reply[s] # None
      /\ pc' = [pc EXCEPT ![r] = "done"]
      /\ answer' = [answer EXCEPT ![r] = reply[s]]
      /\ socket' = [socket EXCEPT ![r] = NoSocket]
      /\ pool' = IF s \in closing THEN pool ELSE Append(pool, s)
      /\ reply' = [reply EXCEPT ![s] = None]
      /\ UNCHANGED <<pooled, link, wire, session, executed, lost, hit, peak>>
  BY <1>1 DEF Relay, Finish, history
<1>3. /\ r \in Proxied /\ s \in Sockets /\ s # NoSocket /\ link[s] # "unused"
      /\ r \in Active /\ r # "502"
  <2>1. r \in Proxied /\ s \in Sockets /\ link[s] # "unused" /\ r \in Active
    BY <1>1, <1>2 DEF RequestInv, Holding, Active, GatewayTypes
  <2>2. r # "502"
    BY GatewayAssumption DEF Requests
  <2> QED
    BY <2>1, <2>2, Finiteness
<1>4. reply[s] = r /\ r # None /\ wire[s] = None /\ session[s] = None
  BY <1>1, <1>2, <1>3, ReplyIsOwn DEF LineInv
<1>5. /\ \A q \in Requests : pc'[q] = (IF q = r THEN "done" ELSE pc[q])
      /\ \A q \in Requests : answer'[q] = (IF q = r THEN r ELSE answer[q])
      /\ \A q \in Requests : socket'[q] = (IF q = r THEN NoSocket ELSE socket[q])
      /\ \A u \in Sockets : reply'[u] = (IF u = s THEN None ELSE reply[u])
  BY <1>2, <1>4 DEF GatewayTypes
<1>6. /\ pool \in Seq(Sockets) /\ Len(pool) \in Nat
      /\ \A i \in 1..Len(pool) : pool[i] \in Sockets /\ pool[i] # s
  <2>1. pool \in Seq(Sockets)
    BY DEF GatewayTypes
  <2> QED
    BY <1>1, <2>1, ElementOfSeq, LenProperties DEF PoolInv
<1>7. /\ pool' \in Seq(Sockets) /\ Len(pool') \in Nat /\ Len(pool') <= Len(pool) + 1
      /\ \A i \in 1..Len(pool') :
            (i \in 1..Len(pool) /\ pool'[i] = pool[i]) \/ (i = Len(pool) + 1 /\ pool'[i] = s)
  <2>1. CASE s \in closing
    BY <1>2, <1>6, <2>1
  <2>2. CASE s \notin closing
    <3>1. pool' = Append(pool, s)
      BY <1>2, <2>2
    <3>2. /\ pool' \in Seq(Sockets) /\ Len(pool') = Len(pool) + 1
          /\ \A i \in 1..Len(pool) : pool'[i] = pool[i]
          /\ pool'[Len(pool) + 1] = s
      BY <1>3, <1>6, <3>1, AppendProperties
    <3> QED
      BY <1>6, <3>2
  <2> QED
    BY <2>1, <2>2
<1>8. GatewayTypes'
  BY <1>2, <1>7 DEF GatewayTypes
<1>9. /\ \A q \in Requests \ {r} : RequestInv(q)'
      /\ \A q \in Proxied \ {r} : ExecutionInv(q)'
      /\ \A u \in Sockets : u # socket[r] => LineInv(u)'
  BY <1>1, <1>2, <1>5, OthersStep
<1>10. RequestInv(r)'
  BY <1>2, <1>3, <1>5 DEF RequestInv, Holding
<1>11. LineInv(s)'
  BY <1>2, <1>3, <1>4, <1>5 DEF LineInv
<1>12. ExecutionInv(r)'
  <2>1. executed[r] \in Nat /\ lost[r] \in Nat
    BY <1>3 DEF GatewayTypes
  <2>2. Carried(r) /\ ~Unsent(r) /\ ~Unsent(r)' /\ answer'[r] = r
    BY <1>1, <1>2, <1>3, <1>4, <1>5 DEF Carried, Unsent
  <2> QED
    BY <1>2, <1>3, <1>5, <2>1, <2>2 DEF ExecutionInv
<1>13. OneUser'
  BY <1>5 DEF OneUser
<1>14. PoolInv'
  <2>1. \A i, j \in 1..Len(pool') : pool'[i] = pool'[j] => i = j
    BY <1>6, <1>7 DEF PoolInv
  <2>2. \A i \in 1..Len(pool') : link'[pool'[i]] # "unused"
    BY <1>2, <1>3, <1>7 DEF PoolInv
  <2>3. \A i \in 1..Len(pool'), q \in Requests : socket'[q] # pool'[i]
    <3>1. \A q \in Requests : q # r => socket[q] # s
      BY <1>1, <1>3 DEF OneUser
    <3>2. NoSocket # s /\ \A i \in 1..Len(pool) : pool[i] # NoSocket
      BY <1>3, <1>6, Finiteness
    <3>3. \A i \in 1..Len(pool), q \in Requests : socket'[q] # pool[i]
      BY <1>5, <3>2 DEF PoolInv
    <3>4. \A q \in Requests : socket'[q] # s
      BY <1>5, <3>1, <3>2
    <3> QED
      BY <1>7, <3>3, <3>4
  <2> QED
    BY <2>1, <2>2, <2>3 DEF PoolInv
<1>15. CountsInv'
  <2>1. r \notin Active' /\ r \in Past'
    BY <1>3, <1>5 DEF Active, Past
  <2>2. /\ Cardinality(Active) \in Nat /\ Cardinality(Past) \in Nat
        /\ Cardinality(Active') = Cardinality(Active) - 1
        /\ Cardinality(Past') >= Cardinality(Past) /\ Cardinality(Past') \in Int
    BY <1>2, <1>3, <1>5, <2>1, CountsStep
  <2>3. Opened' = Opened /\ Cardinality(Opened) \in Nat
    <3>1. Opened' = Opened /\ Opened \subseteq Sockets
      BY <1>2 DEF Opened
    <3> QED
      BY <3>1, Finiteness, FS_Subset, FS_CardinalityType
  <2> QED
    BY <1>2, <1>6, <1>7, <2>2, <2>3 DEF CountsInv, GatewayTypes
<1> QED
  BY <1>1, <1>3, <1>8, <1>9, <1>10, <1>11, <1>12, <1>13, <1>14, <1>15

(* The exchange failed: a request that used a pooled connection gets one   *)
(* fresh connection, any other is answered with 502.                       *)
LEMMA ExchangeFailsInv ==
    ASSUME GatewayInv, NEW r \in Requests, ExchangeFails(r) PROVE GatewayInv'
<1> USE DEF GatewayInv
<1>1. PICK s : s = socket[r]
  OBVIOUS
<1>2. /\ pc[r] = "read" /\ reply[s] = None /\ link[s] = "down"
      /\ UNCHANGED <<pool, link, wire, session, reply, executed, lost, hit, peak>>
  BY <1>1 DEF ExchangeFails, upstream, history
<1>3. /\ r \in Proxied /\ s \in Sockets /\ s # NoSocket /\ answer[r] = "none"
      /\ r \in Active /\ r # "502" /\ r # "none" /\ r # None
  <2>1. r \in Proxied /\ s # NoSocket /\ answer[r] = "none" /\ r \in Active
    BY <1>1, <1>2 DEF RequestInv, Holding, Active
  <2>2. s \in Sockets
    BY <1>1, <2>1 DEF GatewayTypes
  <2>3. r # "502" /\ r # "none" /\ r # None
    BY GatewayAssumption DEF Requests
  <2> QED
    BY <2>1, <2>2, <2>3
<1>4. ~Carried(r) /\ ~Unsent(r) /\ executed[r] \in Nat /\ lost[r] \in Nat
  BY <1>1, <1>2, <1>3 DEF LineInv, Carried, Unsent, GatewayTypes
<1>5. /\ socket' = [socket EXCEPT ![r] = NoSocket]
      /\ \A q \in Requests : socket'[q] = (IF q = r THEN NoSocket ELSE socket[q])
  <2>1. socket' = [socket EXCEPT ![r] = NoSocket]
    BY DEF ExchangeFails, Finish
  <2> QED
    BY <2>1 DEF GatewayTypes
<1>6. OneUser' /\ PoolInv'
  BY <1>2, <1>5, UseKept
<1>7. Opened' = Opened /\ Cardinality(Opened) \in Nat /\ Len(pool) \in Nat
  <2>1. Opened' = Opened /\ Opened \subseteq Sockets
    BY <1>2 DEF Opened
  <2> QED
    BY <2>1, Finiteness, FS_Subset, FS_CardinalityType DEF GatewayTypes
<1>8. CASE r \in pooled
  <2>1. /\ pc' = [pc EXCEPT ![r] = "open"]
        /\ pooled' = pooled \ {r}
        /\ UNCHANGED answer
    BY <1>8 DEF ExchangeFails
  <2>2. \A q \in Requests : pc'[q] = (IF q = r THEN "open" ELSE pc[q])
    BY <2>1 DEF GatewayTypes
  <2>3. GatewayTypes'
    BY <1>2, <1>5, <2>1 DEF GatewayTypes
  <2>4. /\ \A q \in Requests \ {r} : RequestInv(q)'
        /\ \A q \in Proxied \ {r} : ExecutionInv(q)'
        /\ \A u \in Sockets : u # socket[r] => LineInv(u)'
    BY <1>2, <1>5, <2>1, <2>2, OthersStep
  <2>5. RequestInv(r)'
    BY <1>3, <1>5, <2>1, <2>2 DEF RequestInv, Holding
  <2>6. ExecutionInv(r)'
    <3>1. ~Carried(r)' /\ Unsent(r)' /\ r \notin pooled'
      BY <2>1, <2>2 DEF Carried, Unsent
    <3> QED
      BY <1>2, <1>3, <1>4, <1>8, <2>1, <2>2, <3>1 DEF ExecutionInv
  <2>7. LineInv(s)'
    BY <1>1, <1>2, <1>3 DEF LineInv, GatewayTypes, OneUser, Requests
  <2>8. CountsInv'
    <3>1. r \in Active' /\ r \notin Past' /\ r \notin Past
      BY <1>2, <1>3, <1>8, <2>2 DEF Active, Past, Holding
    <3>2. Cardinality(Active') = Cardinality(Active) /\ Cardinality(Past') = Cardinality(Past)
      BY <1>3, <2>1, <2>2, <3>1, CountsStep
    <3> QED
      BY <1>2, <1>7, <3>2 DEF CountsInv
  <2> QED
    BY <1>1, <1>3, <1>6, <2>3, <2>4, <2>5, <2>6, <2>7, <2>8
<1>9. CASE r \notin pooled
  <2>1. /\ pc' = [pc EXCEPT ![r] = "done"]
        /\ answer' = [answer EXCEPT ![r] = "502"]
        /\ UNCHANGED pooled
    BY <1>9 DEF ExchangeFails, Finish
  <2>2. /\ \A q \in Requests : pc'[q] = (IF q = r THEN "done" ELSE pc[q])
        /\ \A q \in Requests : answer'[q] = (IF q = r THEN "502" ELSE answer[q])
    BY <2>1 DEF GatewayTypes
  <2>3. GatewayTypes'
    BY <1>2, <1>5, <2>1 DEF GatewayTypes
  <2>4. /\ \A q \in Requests \ {r} : RequestInv(q)'
        /\ \A q \in Proxied \ {r} : ExecutionInv(q)'
        /\ \A u \in Sockets : u # socket[r] => LineInv(u)'
    BY <1>2, <1>5, <2>1, <2>2, OthersStep
  <2>5. RequestInv(r)'
    <3>1. r \in hit
      BY <1>1, <1>2, <1>9 DEF RequestInv, Holding
    <3> QED
      BY <1>2, <1>3, <1>5, <2>1, <2>2, <3>1 DEF RequestInv, Holding
  <2>6. ExecutionInv(r)'
    <3>1. ~Carried(r)' /\ ~Unsent(r)' /\ answer'[r] # r /\ answer[r] # r
      BY <1>3, <2>2 DEF Carried, Unsent
    <3> QED
      BY <1>2, <1>3, <1>4, <2>1, <2>2, <3>1 DEF ExecutionInv
  <2>7. LineInv(s)'
    BY <1>1, <1>2, <1>3 DEF LineInv, GatewayTypes, OneUser, Requests
  <2>8. CountsInv'
    <3>1. r \notin Active' /\ r \in Past' /\ r \in Past
      BY <1>2, <1>3, <1>9, <2>2 DEF Active, Past, Holding
    <3>2. /\ Cardinality(Active') = Cardinality(Active) - 1
          /\ Cardinality(Past') = Cardinality(Past) /\ Cardinality(Active) \in Nat
      BY <1>3, <2>1, <2>2, <3>1, CountsStep
    <3> QED
      BY <1>2, <1>7, <3>2 DEF CountsInv, GatewayTypes
  <2> QED
    BY <1>1, <1>3, <1>6, <2>3, <2>4, <2>5, <2>6, <2>7, <2>8
<1> QED
  BY <1>8, <1>9

-----------------------------------------------------------------------------
LEMMA GatewayIdle == ASSUME GatewayInv, UNCHANGED vars PROVE GatewayInv'
<1> USE DEF GatewayInv
<1>1. /\ UNCHANGED <<pc, socket, pooled, answer, pool>>
      /\ UNCHANGED <<link, wire, session, reply, executed, lost, hit, peak>>
  BY DEF vars, gateway, upstream, history
<1>2. GatewayTypes'
  BY <1>1 DEF GatewayTypes
<1>3. \A r \in Requests : RequestInv(r)'
  BY <1>1 DEF RequestInv, Holding
<1>4. OneUser' /\ PoolInv'
  BY <1>1 DEF OneUser, PoolInv
<1>5. \A s \in Sockets : LineInv(s)'
  BY <1>1 DEF LineInv
<1>6. \A r \in Proxied : ExecutionInv(r)'
  BY <1>1 DEF ExecutionInv, Carried, Unsent
<1>7. CountsInv'
  BY <1>1 DEF CountsInv, Opened, Past, Active, Holding
<1> QED
  BY <1>2, <1>3, <1>4, <1>5, <1>6, <1>7

LEMMA GatewayNext == GatewayInv /\ [Next]_vars => GatewayInv'
<1> SUFFICES ASSUME GatewayInv, [Next]_vars PROVE GatewayInv'
  OBVIOUS
<1>1. ASSUME NEW r \in Requests, Gateway(r) PROVE GatewayInv'
  BY <1>1, RefuseInv, FirstAttemptInv, OpenSocketInv, OpenFailsInv, WriteInv, RelayInv,
     ExchangeFailsInv DEF Gateway
<1>2. ASSUME NEW s \in Sockets, Session(s) PROVE GatewayInv'
  BY <1>2, ExecuteInv, RespondInv DEF Session
<1>3. ASSUME NEW s \in Sockets, IdleClose(s) \/ Break(s) \/ Hang(s) PROVE GatewayInv'
  BY <1>3, IdleCloseInv, BreakInv, HangInv
<1>4. CASE UNCHANGED vars
  BY <1>4, GatewayIdle
<1> QED
  BY <1>1, <1>2, <1>3, <1>4 DEF Next

LEMMA GatewayAlways == Spec => []GatewayInv
BY GatewayInit, GatewayNext, PTL DEF Spec

(* ProxyHandler never hands a client the reply of another request, though  *)
(* requests follow each other on pooled connections and some of them are   *)
(* broken off half-way: a connection that is handed on carries nothing.    *)
THEOREM OnlyOwnReply == Spec => []OwnReply
<1>1. GatewayInv => OwnReply
  BY DEF GatewayInv, RequestInv, OwnReply
<1> QED
  BY <1>1, GatewayAlways, PTL

(* handle answers 502 only when the fresh connection of the last attempt   *)
(* could not be opened or was broken by a fault, never because a pooled    *)
(* one had gone stale.                                                     *)
THEOREM StaleConnectionsHidden == Spec => []BadGatewayExplained
<1>1. GatewayInv => BadGatewayExplained
  BY DEF GatewayInv, RequestInv, BadGatewayExplained
<1> QED
  BY <1>1, GatewayAlways, PTL

(* The retry of handle repeats an executed request only after a fault that *)
(* took the reply, and never a second time.                                *)
THEOREM RetryRepeatsOnlyLost == Spec => []ExecutedTwiceExplained
<1>1. ASSUME GatewayInv, NEW r \in Proxied
      PROVE  executed[r] <= 1 + lost[r] /\ executed[r] <= 2
  <2>1. ExecutionInv(r) /\ executed[r] \in Nat /\ lost[r] \in Nat
    BY <1>1 DEF GatewayInv, GatewayTypes
  <2> QED
    BY <2>1 DEF ExecutionInv
<1>2. GatewayInv => ExecutedTwiceExplained
  BY <1>1 DEF ExecutedTwiceExplained
<1> QED
  BY <1>2, GatewayAlways, PTL

(* releaseSocketIfReusable never prunes the pool, yet the connections kept *)
(* and in use are no more than the requests of the busiest moment.         *)
THEOREM PoolNeverOutgrowsLoad == Spec => []SocketsBounded
<1>1. ASSUME GatewayInv PROVE Cardinality(InUse) <= Cardinality(Active)
                              /\ Cardinality(InUse) \in Nat /\ Cardinality(Active) \in Nat
  <2>1. PICK users : users = {r \in Active : socket[r] # NoSocket}
    OBVIOUS
  <2>2. IsFiniteSet(Active) /\ Cardinality(Active) \in Nat
    BY Finiteness, FS_Subset, FS_CardinalityType DEF Active
  <2>3. /\ IsFiniteSet(users) /\ Cardinality(users) \in Nat
        /\ Cardinality(users) <= Cardinality(Active)
    BY <2>1, <2>2, FS_Subset, FS_CardinalityType
  <2>4. PICK f : f = [r \in users |-> socket[r]]
    OBVIOUS
  <2>5. f \in Surjection(users, InUse)
    BY <2>1, <2>4 DEF Surjection, InUse
  <2>6. IsFiniteSet(InUse) /\ Cardinality(InUse) <= Cardinality(users)
    BY <2>3, <2>5, FS_Surjection
  <2>7. Cardinality(InUse) \in Nat
    BY <2>6, FS_CardinalityType
  <2> QED
    BY <2>2, <2>3, <2>6, <2>7
<1>2. ASSUME GatewayInv PROVE SocketsBounded
  <2>1. Len(pool) + Cardinality(Active) <= peak /\ peak \in Nat
    BY <1>2 DEF GatewayInv, CountsInv, GatewayTypes
  <2>2. Len(pool) \in Nat
    BY <1>2 DEF GatewayInv, GatewayTypes
  <2> QED
    BY <1>1, <1>2, <2>1, <2>2 DEF SocketsBounded
<1> QED
  BY <1>2, GatewayAlways, PTL
=============================================================================
