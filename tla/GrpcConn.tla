------------------------------ MODULE GrpcConn ------------------------------
(***************************************************************************)
(* The gRPC connections of the services to their backends (rpc/grpc.go)    *)
(* and the calls made over them (service/lnd, service/opendexd,            *)
(* service/boltz).  The constructor of a service starts Open, which dials  *)
(* until it succeeds; initServiceManager of cmd/proxy/main.go closes every *)
(* connection when it returns, before the HTTP server starts; only then do *)
(* requests come in.  Update and reopen have no caller and are left out.   *)
(***************************************************************************)
EXTENDS Integers, FiniteSets

CONSTANTS
    Conns,      \* the connections: lnd, opendexd, and boltz for each chain
    Macaroons,  \* those configured with a macaroon file
    Users,      \* HTTP requests served at the same time
    MaxCert     \* bound: certificates a backend generates

ASSUME ConnsAssumption == Conns # {} /\ Macaroons \subseteq Conns
ASSUME CertAssumption == MaxCert \in Nat \ {0}

VARIABLES
    backend,  \* backend[c]: [up, cert, macaroon], cert 0 and no macaroon at first
    opener,   \* where Open of c is
    creds,    \* creds[c]: the certificate the connection being opened uses
    live,     \* live[c]: the connection dialled exists and is not closed
    conn,     \* conn[c]: the field conn, 0 or the certificate it was dialled with
    client,   \* client[c]: the field client, likewise
    toClose,  \* connections manager.Close has still to visit
    closed,   \* connections Close found and closed
    call      \* call[u]: what a request is doing, and how the last one ended

backendVars == <<backend>>
connVars == <<conn, client>>
vars == <<backend, opener, creds, live, conn, client, toClose, closed, call>>

Backend == [up : BOOLEAN, cert : 0..MaxCert, macaroon : BOOLEAN]
Cert == 1..MaxCert
Idle == [pc |-> "idle", via |-> 0, on |-> CHOOSE c \in Conns : TRUE]

TypeOK ==
    /\ backend \in [Conns -> Backend]
    /\ opener \in [Conns -> {"cert", "macaroon", "dial", "store", "sleep", "done"}]
    /\ creds \in [Conns -> 0..MaxCert]
    /\ live \in [Conns -> BOOLEAN]
    /\ conn \in [Conns -> 0..MaxCert]
    /\ client \in [Conns -> 0..MaxCert]
    /\ toClose \subseteq Conns
    /\ closed \subseteq Conns
    /\ call \in [Users -> [pc : {"idle", "calling", "noClient", "ok", "failed"},
                           via : 0..MaxCert, on : Conns]]

Init ==
    /\ backend \in [Conns -> {[up |-> FALSE, cert |-> 0, macaroon |-> FALSE],
                              [up |-> FALSE, cert |-> 1, macaroon |-> TRUE],
                              [up |-> TRUE,  cert |-> 1, macaroon |-> TRUE]}]
    /\ opener = [c \in Conns |-> "cert"]
    /\ creds = [c \in Conns |-> 0]
    /\ live = [c \in Conns |-> FALSE]
    /\ conn = [c \in Conns |-> 0]
    /\ client = [c \in Conns |-> 0]
    /\ toClose = Conns
    /\ closed = {}
    /\ call = [u \in Users |-> Idle]

-----------------------------------------------------------------------------
(* The backend: it writes its certificate before it serves, may replace it *)
(* when it restarts, and writes its macaroon once it has a wallet.         *)

OnlyBackend == UNCHANGED <<opener, creds, live, connVars, toClose, closed, call>>

(* A variant of a backend that replaces its certificate at every start.    *)
BackendStartRenews(c) ==
    /\ ~ backend[c].up
    /\ backend' = [backend EXCEPT ![c].up = TRUE, ![c].cert = @ + 1]
    /\ OnlyBackend

BackendStart(c) ==
    /\ ~ backend[c].up
    /\ \E new \in {backend[c].cert, backend[c].cert + 1} \cap Cert :
          backend' = [backend EXCEPT ![c].up = TRUE, ![c].cert = new]
    /\ OnlyBackend

BackendStop(c) ==
    /\ backend[c].up
    /\ backend' = [backend EXCEPT ![c].up = FALSE]
    /\ OnlyBackend

WriteMacaroon(c) ==
    /\ backend[c].up /\ ~ backend[c].macaroon
    /\ backend' = [backend EXCEPT ![c].macaroon = TRUE]
    /\ OnlyBackend

-----------------------------------------------------------------------------
(* Open and connect.                                                       *)

OpenGoes(c, pc) == opener' = [opener EXCEPT ![c] = pc]

(* A variant that gives up when the certificate is not there yet.          *)
LoadCertOnce(c) ==
    /\ opener[c] = "cert"
    /\ IF backend[c].cert = 0
       THEN OpenGoes(c, "done") /\ UNCHANGED creds
       ELSE OpenGoes(c, "macaroon") /\ creds' = [creds EXCEPT ![c] = backend[c].cert]
    /\ UNCHANGED <<backendVars, live, connVars, toClose, closed, call>>

LoadCert(c) ==
    /\ opener[c] = "cert"
    /\ IF backend[c].cert = 0
       THEN OpenGoes(c, "sleep") /\ UNCHANGED creds
       ELSE OpenGoes(c, "macaroon") /\ creds' = [creds EXCEPT ![c] = backend[c].cert]
    /\ UNCHANGED <<backendVars, live, connVars, toClose, closed, call>>

StatMacaroon(c) ==
    /\ opener[c] = "macaroon"
    /\ OpenGoes(c, IF c \in Macaroons /\ ~ backend[c].macaroon THEN "sleep"
                                                               ELSE "dial")
    /\ UNCHANGED <<backendVars, creds, live, connVars, toClose, closed, call>>

(* The handshake accepts a server with the certificate that was loaded.    *)
Reaches(cert, c) == backend[c].up /\ backend[c].cert = cert

(* DialContext blocks until it succeeds, or for ten seconds; a backend     *)
(* that stays reachable is taken to answer in time.                        *)
Dial(c) ==
    /\ opener[c] = "dial" /\ Reaches(creds[c], c)
    /\ OpenGoes(c, "store")
    /\ live' = [live EXCEPT ![c] = TRUE]
    /\ UNCHANGED <<backendVars, creds, connVars, toClose, closed, call>>

DialTimesOut(c) ==
    /\ opener[c] = "dial" /\ ~ Reaches(creds[c], c)
    /\ OpenGoes(c, "sleep")
    /\ UNCHANGED <<backendVars, creds, live, connVars, toClose, closed, call>>

(* conn and client are set under the write lock.                           *)
Store(c) ==
    /\ opener[c] = "store"
    /\ conn' = [conn EXCEPT ![c] = creds[c]]
    /\ client' = [client EXCEPT ![c] = creds[c]]
    /\ OpenGoes(c, "done")
    /\ UNCHANGED <<backendVars, creds, live, toClose, closed, call>>

(* A variant that dials again with the certificate it already has.         *)
SleepRedials(c) ==
    /\ opener[c] = "sleep"
    /\ OpenGoes(c, IF creds[c] = 0 THEN "cert" ELSE "dial")
    /\ UNCHANGED <<backendVars, creds, live, connVars, toClose, closed, call>>

Sleep(c) ==
    /\ opener[c] = "sleep"
    /\ OpenGoes(c, "cert")
    /\ UNCHANGED <<backendVars, creds, live, connVars, toClose, closed, call>>

-----------------------------------------------------------------------------
(* manager.Close, in the deferred call of initServiceManager.  It visits   *)
(* the services in some order; closing a connection once cannot fail.      *)

(* A variant that forgets the client.                                      *)
CloseKeepsClient(c) ==
    /\ c \in toClose
    /\ toClose' = toClose \ {c}
    /\ IF conn[c] # 0
       THEN /\ live' = [live EXCEPT ![c] = FALSE]
            /\ conn' = [conn EXCEPT ![c] = 0]
            /\ closed' = closed \cup {c}
       ELSE UNCHANGED <<live, conn, closed>>
    /\ UNCHANGED <<backendVars, opener, creds, client, call>>

(* A variant that is run again while requests are served.                  *)
CloseAgain(c) ==
    /\ IF conn[c] # 0
       THEN /\ live' = [live EXCEPT ![c] = FALSE]
            /\ conn' = [conn EXCEPT ![c] = 0]
            /\ client' = [client EXCEPT ![c] = 0]
            /\ closed' = closed \cup {c}
       ELSE UNCHANGED <<live, connVars, closed>>
    /\ toClose' = toClose \ {c}
    /\ UNCHANGED <<backendVars, opener, creds, call>>

Close(c) ==
    /\ c \in toClose
    /\ toClose' = toClose \ {c}
    /\ IF conn[c] # 0
       THEN /\ live' = [live EXCEPT ![c] = FALSE]
            /\ conn' = [conn EXCEPT ![c] = 0]
            /\ client' = [client EXCEPT ![c] = 0]
            /\ closed' = closed \cup {c}
       ELSE UNCHANGED <<live, connVars, closed>>
    /\ UNCHANGED <<backendVars, opener, creds, call>>

-----------------------------------------------------------------------------
(* A request over a connection: getClient, then the call of the backend.   *)
Serving == toClose = {}

Request(u, c) ==
    /\ Serving /\ call[u].pc # "calling"
    /\ call' = [call EXCEPT ![u] =
          [pc  |-> IF client[c] # 0 THEN "calling" ELSE "noClient",
           via |-> client[c], on |-> c]]
    /\ UNCHANGED <<backendVars, opener, creds, live, connVars, toClose, closed>>

(* The call needs a live connection, the backend behind it with the same   *)
(* certificate, and the macaroon, which is read again for every call.      *)
Reply(u) ==
    LET c == call[u].on
        good == /\ live[c] /\ Reaches(call[u].via, c)
                /\ c \in Macaroons => backend[c].macaroon
    IN  /\ call[u].pc = "calling"
        /\ call' = [call EXCEPT ![u].pc = IF good THEN "ok" ELSE "failed"]
        /\ UNCHANGED <<backendVars, opener, creds, live, connVars, toClose, closed>>

BackendStep(c) == BackendStart(c) \/ BackendStop(c) \/ WriteMacaroon(c)
OpenStep(c) == \/ LoadCert(c) \/ StatMacaroon(c) \/ Dial(c) \/ DialTimesOut(c)
               \/ Store(c) \/ Sleep(c)

Next == \/ \E c \in Conns : BackendStep(c) \/ OpenStep(c) \/ Close(c)
        \/ \E u \in Users : Reply(u) \/ \E c \in Conns : Request(u, c)

Spec == Init /\ [][Next]_vars

(* Open and Close run, and a call returns within its timeout; the backends *)
(* and the requests need not.                                              *)
Fairness == /\ \A c \in Conns : WF_vars(OpenStep(c)) /\ WF_vars(Close(c))
            /\ \A u \in Users : WF_vars(Reply(u))

FairSpec == Spec /\ Fairness

-----------------------------------------------------------------------------
(* Properties.                                                             *)

(* However Open and the Close at startup interleave, every connection that *)
(* was dialled and not closed is the one the fields hold, or is about to   *)
(* be stored, and the fields never hold a closed one: none leaks and no    *)
(* caller of GetClient is handed a dead one.  Once Open is done there is   *)
(* no client only where the Close at startup found the connection up.      *)
NoneLeaks ==
    \A c \in Conns :
        /\ live[c] <=> client[c] # 0 \/ opener[c] = "store"
        /\ conn[c] = client[c]
        /\ opener[c] = "done" /\ client[c] = 0 => c \in closed

(* A connection a request was ever served over is there for every later    *)
(* request, and is the same one.                                           *)
ServedStaysServed ==
    [][\A u \in Users : call[u].pc \in {"calling", "ok", "failed"} =>
          client'[call[u].on] = call[u].via]_vars

(* What the handlers may rely on: whatever the backends, Open and Close    *)
(* do, a connection comes up once and is not taken away while requests are *)
(* served.                                                                 *)
Abstract == INSTANCE Connection WITH
    serving <- Serving, held <- client, Clients <- Cert, NoClient <- 0

ImplementsConnection == Abstract!Spec

(* A backend that is up for good, with its files, gets a client in the     *)
(* end, even if Open had loaded a certificate that was replaced since,     *)
(* unless the Close at startup took the connection away.                   *)
Ready(c) == backend[c].up /\ (c \in Macaroons => backend[c].macaroon)

Connects ==
    \A c \in Conns : <>[]Ready(c) => <>(client[c] # 0 \/ c \in closed)
=============================================================================
