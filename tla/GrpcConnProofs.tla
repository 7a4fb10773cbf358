--------------------------- MODULE GrpcConnProofs ---------------------------
(***************************************************************************)
(* Theorems about GrpcConn, for every set of connections, of requests and  *)
(* any number of certificates.                                             *)
(***************************************************************************)
EXTENDS GrpcConn, TLAPS

-----------------------------------------------------------------------------
(* Types.                                                                  *)
LEMMA IdleType == Idle.on \in Conns /\ Idle.pc = "idle" /\ Idle.via = 0
BY ConnsAssumption DEF Idle

LEMMA TypeInit == Init => TypeOK
<1> SUFFICES ASSUME Init PROVE TypeOK
  OBVIOUS
<1>1. 0 \in 0..MaxCert /\ 1 \in 0..MaxCert
  BY CertAssumption
<1>2. {[up |-> FALSE, cert |-> 0, macaroon |-> FALSE],
       [up |-> FALSE, cert |-> 1, macaroon |-> TRUE],
       [up |-> TRUE,  cert |-> 1, macaroon |-> TRUE]} \subseteq Backend
  BY <1>1 DEF Backend
<1>4. backend \in [Conns -> Backend]
  BY <1>2 DEF Init
<1>3. Idle \in [pc : {"idle", "calling", "noClient", "ok", "failed"},
                via : 0..MaxCert, on : Conns]
  BY <1>1, ConnsAssumption DEF Idle
<1> QED BY <1>1, <1>3, <1>4 DEF Init, TypeOK

LEMMA TypeStep == TypeOK /\ [Next]_vars => TypeOK'
<1> SUFFICES ASSUME TypeOK, [Next]_vars PROVE TypeOK'
  OBVIOUS
<1> USE DEF TypeOK
<1>1. ASSUME NEW c \in Conns, BackendStep(c) PROVE TypeOK'
  <2>1. CASE BackendStart(c)
    <3>1. PICK new \in Cert : backend' = [backend EXCEPT ![c].up = TRUE, ![c].cert = new]
      BY <2>1 DEF BackendStart
    <3>2. new \in 0..MaxCert
      BY CertAssumption DEF Cert
    <3>3. [backend[c] EXCEPT !.up = TRUE, !.cert = new] \in Backend
      <4>1. backend[c] \in Backend
        OBVIOUS
      <4> QED BY <3>2, <4>1 DEF Backend
    <3>4. backend' = [backend EXCEPT ![c] = [backend[c] EXCEPT !.up = TRUE, !.cert = new]]
      BY <3>1
    <3> QED BY <2>1, <3>3, <3>4 DEF BackendStart, OnlyBackend, connVars
  <2>2. CASE BackendStop(c) \/ WriteMacaroon(c)
    <3>1. backend[c] \in Backend
      OBVIOUS
    <3>2. [backend[c] EXCEPT !.up = FALSE] \in Backend
      BY <3>1 DEF Backend
    <3>3. [backend[c] EXCEPT !.macaroon = TRUE] \in Backend
      BY <3>1 DEF Backend
    <3>4. \/ backend' = [backend EXCEPT ![c] = [backend[c] EXCEPT !.up = FALSE]]
          \/ backend' = [backend EXCEPT ![c] = [backend[c] EXCEPT !.macaroon = TRUE]]
      BY <2>2 DEF BackendStop, WriteMacaroon
    <3>5. backend' \in [Conns -> Backend]
      BY <3>2, <3>3, <3>4
    <3> QED BY <2>2, <3>5 DEF BackendStop, WriteMacaroon, OnlyBackend, connVars
  <2> QED BY <1>1, <2>1, <2>2 DEF BackendStep
<1>2. ASSUME NEW c \in Conns, OpenStep(c) PROVE TypeOK'
  <2>1. backend[c].cert \in 0..MaxCert
    BY DEF Backend
  <2> QED
    BY <1>2, <2>1 DEF OpenStep, LoadCert, StatMacaroon, Dial, DialTimesOut, Store,
       Sleep, OpenGoes, backendVars, connVars
<1>3. ASSUME NEW c \in Conns, Close(c) PROVE TypeOK'
  <2>1. 0 \in 0..MaxCert
    BY CertAssumption
  <2>2. CASE conn[c] = 0
    BY <1>3, <2>2 DEF Close, backendVars, connVars
  <2>3. CASE conn[c] # 0
    <3>1. live' \in [Conns -> BOOLEAN]
      BY <1>3, <2>3 DEF Close
    <3>2. conn' \in [Conns -> 0..MaxCert] /\ client' \in [Conns -> 0..MaxCert]
      BY <1>3, <2>1, <2>3 DEF Close
    <3>3. toClose' \subseteq Conns /\ closed' \subseteq Conns
      BY <1>3, <2>3 DEF Close
    <3>4. UNCHANGED <<backend, opener, creds, call>>
      BY <1>3 DEF Close, backendVars
    <3> QED BY <3>1, <3>2, <3>3, <3>4
  <2> QED BY <2>2, <2>3
<1>4. ASSUME NEW u \in Users, Reply(u) PROVE TypeOK'
  BY <1>4 DEF Reply, backendVars, connVars
<1>5. ASSUME NEW u \in Users, NEW c \in Conns, Request(u, c) PROVE TypeOK'
  BY <1>5 DEF Request, backendVars, connVars
<1>6. CASE UNCHANGED vars
  BY <1>6 DEF vars, backendVars, connVars
<1> QED BY <1>1, <1>2, <1>3, <1>4, <1>5, <1>6 DEF Next

(* Every connection and every request keeps to its type.                   *)
THEOREM TypeCorrect == Spec => []TypeOK
BY TypeInit, TypeStep, PTL DEF Spec

-----------------------------------------------------------------------------
(* A connection is stored once, with a certificate.                        *)
StoredOnce(c) ==
    /\ opener[c] \in {"macaroon", "dial", "store"} => creds[c] \in Cert
    /\ client[c] # 0 => opener[c] = "done"

Kept(c) == /\ live[c] <=> client[c] # 0 \/ opener[c] = "store"
           /\ conn[c] = client[c]
           /\ opener[c] = "done" /\ client[c] = 0 => c \in closed

ConnInv == \A c \in Conns : StoredOnce(c) /\ Kept(c)

LEMMA ConnInit == Init => ConnInv
BY DEF Init, ConnInv, StoredOnce, Kept

LEMMA ConnFrame ==
    ASSUME NEW d \in Conns, StoredOnce(d), Kept(d),
           opener'[d] = opener[d], creds'[d] = creds[d], live'[d] = live[d],
           conn'[d] = conn[d], client'[d] = client[d], closed \subseteq closed'
    PROVE  StoredOnce(d)' /\ Kept(d)'
BY DEF StoredOnce, Kept

LEMMA ConnStep == TypeOK /\ ConnInv /\ [Next]_vars => ConnInv'
<1> SUFFICES ASSUME TypeOK, ConnInv, [Next]_vars PROVE ConnInv'
  OBVIOUS
<1>1. ASSUME UNCHANGED <<opener, creds, live, conn, client, closed>>
      PROVE  ConnInv'
  BY <1>1 DEF ConnInv, StoredOnce, Kept
<1>2. ASSUME NEW c \in Conns, StoredOnce(c)', Kept(c)', closed \subseteq closed',
             \A d \in Conns \ {c} :
                /\ opener'[d] = opener[d] /\ creds'[d] = creds[d]
                /\ live'[d] = live[d] /\ conn'[d] = conn[d]
                /\ client'[d] = client[d]
      PROVE  ConnInv'
  <2>1. \A d \in Conns \ {c} : StoredOnce(d)' /\ Kept(d)'
    BY <1>2, ConnFrame DEF ConnInv
  <2> QED BY <1>2, <2>1 DEF ConnInv
<1>3. ASSUME NEW c \in Conns, BackendStep(c) PROVE ConnInv'
  BY <1>1, <1>3 DEF BackendStep, BackendStart, BackendStop, WriteMacaroon,
     OnlyBackend, connVars
<1>4. ASSUME NEW c \in Conns, OpenStep(c) PROVE ConnInv'
  <2>1. StoredOnce(c)' /\ Kept(c)'
    <3>1. StoredOnce(c) /\ Kept(c) /\ backend[c].cert \in 0..MaxCert
      BY DEF ConnInv, TypeOK, Backend
    <3>2. CASE LoadCert(c)
      BY <3>1, <3>2 DEF LoadCert, OpenGoes, StoredOnce, Kept, TypeOK, connVars, Cert
    <3>3. CASE StatMacaroon(c) \/ DialTimesOut(c) \/ Sleep(c)
      BY <3>1, <3>3 DEF StatMacaroon, DialTimesOut, Sleep, OpenGoes, StoredOnce, Kept,
         TypeOK, connVars
    <3>4. CASE Dial(c)
      BY <3>1, <3>4 DEF Dial, OpenGoes, StoredOnce, Kept, TypeOK, connVars
    <3>5. CASE Store(c)
      <4>1. creds[c] # 0
        BY <3>1, <3>5 DEF Store, StoredOnce, Cert
      <4> QED BY <3>1, <3>5, <4>1 DEF Store, OpenGoes, StoredOnce, Kept, TypeOK
    <3> QED BY <1>4, <3>2, <3>3, <3>4, <3>5 DEF OpenStep
  <2> QED
    BY <1>2, <1>4, <2>1 DEF OpenStep, LoadCert, StatMacaroon, Dial, DialTimesOut,
       Store, Sleep, OpenGoes, TypeOK, connVars
<1>5. ASSUME NEW c \in Conns, Close(c) PROVE ConnInv'
  <2>1. StoredOnce(c)' /\ Kept(c)'
    BY <1>5 DEF Close, ConnInv, StoredOnce, Kept, TypeOK, connVars
  <2> QED BY <1>2, <1>5, <2>1 DEF Close, TypeOK, connVars
<1>6. ASSUME NEW u \in Users, Reply(u) \/ \E c \in Conns : Request(u, c) PROVE ConnInv'
  BY <1>1, <1>6 DEF Reply, Request, connVars
<1>7. CASE UNCHANGED vars
  BY <1>1, <1>7 DEF vars, connVars
<1> QED BY <1>3, <1>4, <1>5, <1>6, <1>7 DEF Next

LEMMA ConnAlways == Spec => [](TypeOK /\ ConnInv)
<1>1. TypeOK /\ ConnInv /\ [Next]_vars => (TypeOK /\ ConnInv)'
  BY TypeStep, ConnStep
<1>2. Init => TypeOK /\ ConnInv
  BY TypeInit, ConnInit
<1> QED BY <1>1, <1>2, PTL DEF Spec

(* However Open and the Close at startup interleave, no connection leaks,  *)
(* no caller of GetClient is handed a closed one, and Open ends without a  *)
(* client only where Close found the connection up.                        *)
THEOREM NoLeak == Spec => []NoneLeaks
<1>1. ConnInv => NoneLeaks
  BY DEF ConnInv, Kept, NoneLeaks
<1> QED BY <1>1, ConnAlways, PTL

-----------------------------------------------------------------------------
(* A request that was served over a connection was so after startup, when  *)
(* only Store could still change the client, and Store has been.           *)
Served(u) == call[u].pc \in {"calling", "ok", "failed"}

CallInv ==
    \A u \in Users :
        Served(u) => Serving /\ call[u].via # 0 /\ client[call[u].on] = call[u].via

LEMMA ClientStays ==
    ASSUME TypeOK, ConnInv, [Next]_vars, Serving, NEW c \in Conns, client[c] # 0
    PROVE  client'[c] = client[c]
<1>1. opener[c] # "store"
  BY DEF ConnInv, StoredOnce
<1>2. toClose = {}
  BY DEF Serving
<1>3. ASSUME NEW d \in Conns, OpenStep(d) PROVE client'[c] = client[c]
  BY <1>1, <1>3 DEF OpenStep, LoadCert, StatMacaroon, Dial, DialTimesOut, Store,
     Sleep, connVars, TypeOK
<1>4. ASSUME NEW d \in Conns, BackendStep(d) PROVE client'[c] = client[c]
  BY <1>4 DEF BackendStep, BackendStart, BackendStop, WriteMacaroon, OnlyBackend, connVars
<1>5. ASSUME NEW d \in Conns, Close(d) PROVE client'[c] = client[c]
  BY <1>2, <1>5 DEF Close
<1>6. ASSUME NEW u \in Users, Reply(u) \/ \E d \in Conns : Request(u, d)
      PROVE  client'[c] = client[c]
  BY <1>6 DEF Reply, Request, connVars
<1>7. CASE UNCHANGED vars
  BY <1>7 DEF vars, connVars
<1> QED BY <1>3, <1>4, <1>5, <1>6, <1>7 DEF Next

LEMMA ServingStays ==
    ASSUME TypeOK, [Next]_vars, Serving
    PROVE  Serving'
BY DEF TypeOK, Next, BackendStep, BackendStart, BackendStop, WriteMacaroon, OnlyBackend,
   OpenStep, LoadCert, StatMacaroon, Dial, DialTimesOut, Store, Sleep, Close, Reply,
   Request, Serving, vars, connVars, backendVars

LEMMA CallInit == Init => CallInv
BY IdleType DEF Init, CallInv, Served

LEMMA CallStep == TypeOK /\ ConnInv /\ CallInv /\ [Next]_vars => CallInv'
<1> SUFFICES ASSUME TypeOK, ConnInv, CallInv, [Next]_vars,
                    NEW u \in Users, Served(u)'
             PROVE  (Serving /\ call[u].via # 0 /\ client[call[u].on] = call[u].via)'
  BY DEF CallInv
<1>1. ASSUME Served(u), call'[u].via = call[u].via, call'[u].on = call[u].on
      PROVE  (Serving /\ call[u].via # 0 /\ client[call[u].on] = call[u].via)'
  <2>1. call[u].on \in Conns
    BY DEF TypeOK
  <2> QED BY <1>1, <2>1, ClientStays, ServingStays DEF CallInv
<1>2. CASE call'[u] = call[u]
  BY <1>1, <1>2 DEF Served
<1>3. ASSUME NEW v \in Users, Reply(v) PROVE call'[u] = call[u] \/
          (Served(u) /\ call'[u].via = call[u].via /\ call'[u].on = call[u].on)
  BY <1>3 DEF Reply, TypeOK, Served
<1>4. ASSUME NEW v \in Users, NEW c \in Conns, Request(v, c)
      PROVE  (Serving /\ call[u].via # 0 /\ client[call[u].on] = call[u].via)'
  <2>1. CASE v # u
    BY <1>2, <1>4, <2>1 DEF Request, TypeOK
  <2>2. CASE v = u
    <3>1. call'[u] = [pc  |-> IF client[c] # 0 THEN "calling" ELSE "noClient",
                      via |-> client[c], on |-> c]
      BY <1>4, <2>2 DEF Request, TypeOK
    <3>2. client[c] # 0
      BY <3>1 DEF Served
    <3> QED BY <1>4, <3>1, <3>2 DEF Request, connVars, Serving
  <2> QED BY <2>1, <2>2
<1>5. ASSUME NEW c \in Conns, BackendStep(c) \/ OpenStep(c) \/ Close(c)
      PROVE  call' = call
  BY <1>5 DEF BackendStep, BackendStart, BackendStop, WriteMacaroon, OnlyBackend,
     OpenStep, LoadCert, StatMacaroon, Dial, DialTimesOut, Store, Sleep, Close
<1>6. CASE UNCHANGED vars
  BY <1>2, <1>6 DEF vars
<1> QED BY <1>1, <1>2, <1>3, <1>4, <1>5, <1>6 DEF Next

(* A connection a request was ever served over is the one every later      *)
(* request is served over.                                                 *)
THEOREM ServedStays == Spec => ServedStaysServed
<1>1. TypeOK /\ ConnInv /\ CallInv /\ [Next]_vars =>
          [\A u \in Users : call[u].pc \in {"calling", "ok", "failed"} =>
              client'[call[u].on] = call[u].via]_vars
  <2> SUFFICES ASSUME TypeOK, ConnInv, CallInv, [Next]_vars,
                      NEW u \in Users, Served(u)
               PROVE  client'[call[u].on] = call[u].via
    BY DEF Served
  <2>1. call[u].on \in Conns
    BY DEF TypeOK
  <2> QED BY <2>1, ClientStays DEF CallInv
<1>2. Init => CallInv
  BY CallInit
<1>3. TypeOK /\ ConnInv /\ CallInv /\ [Next]_vars => CallInv'
  BY CallStep
<1> QED BY <1>1, <1>2, <1>3, ConnAlways, PTL DEF Spec, ServedStaysServed

-----------------------------------------------------------------------------
(* The refinement: Store connects, Close loses or lets the server begin,   *)
(* and nothing else touches what GetClient returns.                        *)
LEMMA StepImplements ==
    ASSUME TypeOK, ConnInv, [Next]_vars
    PROVE  [Abstract!Next]_(Abstract!vars)
<1> USE DEF Abstract!vars
<1>1. CASE UNCHANGED <<toClose, client>>
  BY <1>1 DEF Serving
<1>2. ASSUME NEW c \in Conns, Store(c) PROVE Abstract!Connect(c)
  <2>1. client[c] = 0 /\ creds[c] \in Cert
    BY <1>2 DEF Store, ConnInv, StoredOnce
  <2> QED BY <1>2, <2>1 DEF Store, Abstract!Connect, Serving
<1>3. ASSUME NEW c \in Conns, Close(c)
      PROVE  Abstract!Lose(c) \/ Abstract!Serve \/ UNCHANGED Abstract!vars
  <2>1. ~Serving
    BY <1>3 DEF Close, Serving
  <2>2. conn[c] = client[c]
    BY DEF ConnInv, Kept
  <2>3. CASE conn[c] # 0
    BY <1>3, <2>1, <2>2, <2>3 DEF Close, Abstract!Lose, Serving
  <2>4. CASE conn[c] = 0
    BY <1>3, <2>1, <2>4 DEF Close, Abstract!Serve, Serving, connVars
  <2> QED BY <2>3, <2>4
<1>4. ASSUME NEW c \in Conns, BackendStep(c) PROVE UNCHANGED <<toClose, client>>
  BY <1>4 DEF BackendStep, BackendStart, BackendStop, WriteMacaroon, OnlyBackend, connVars
<1>5. ASSUME NEW c \in Conns, OpenStep(c), ~Store(c) PROVE UNCHANGED <<toClose, client>>
  BY <1>5 DEF OpenStep, LoadCert, StatMacaroon, Dial, DialTimesOut, Sleep, connVars
<1>6. ASSUME NEW u \in Users, Reply(u) \/ \E c \in Conns : Request(u, c)
      PROVE  UNCHANGED <<toClose, client>>
  BY <1>6 DEF Reply, Request, connVars
<1>7. CASE UNCHANGED vars
  BY <1>1, <1>7 DEF vars, connVars
<1> QED BY <1>1, <1>2, <1>3, <1>4, <1>5, <1>6, <1>7 DEF Next, Abstract!Next

(* What the handlers rely on holds of Open, Close and any backend: a       *)
(* connection may come up at any time and is lost only before the server   *)
(* serves.                                                                 *)
THEOREM Implements == Spec => ImplementsConnection
<1>1. Init => Abstract!Init
  BY ConnsAssumption DEF Init, Abstract!Init, Serving
<1>2. TypeOK /\ ConnInv /\ [Next]_vars => [Abstract!Next]_(Abstract!vars)
  BY StepImplements
<1> QED BY <1>1, <1>2, ConnAlways, PTL DEF Spec, ImplementsConnection, Abstract!Spec
=============================================================================
