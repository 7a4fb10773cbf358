----------------------------- MODULE Connection -----------------------------
(***************************************************************************)
(* What the connections of rpc/grpc.go promise the handlers that use them: *)
(* a connection may get a client at any time, and loses it only before the *)
(* HTTP server serves.                                                     *)
(***************************************************************************)
CONSTANTS
    Conns,    \* the connections
    Clients,  \* the clients one may have
    NoClient  \* the result of GetClient without one

VARIABLES
    serving,  \* the HTTP server serves
    held      \* held[c]: what GetClient returns

vars == <<serving, held>>

Init == /\ serving = FALSE
        /\ held = [c \in Conns |-> NoClient]

Connect(c) ==
    /\ held[c] = NoClient
    /\ \E x \in Clients : held' = [held EXCEPT ![c] = x]
    /\ UNCHANGED serving

Serve == /\ ~ serving /\ serving' = TRUE
         /\ UNCHANGED held

(* A variant that closes while requests are served.                        *)
LoseAnyTime(c) ==
    /\ held[c] # NoClient
    /\ held' = [held EXCEPT ![c] = NoClient]
    /\ serving' \in {serving, TRUE}

(* The Close at startup; the last one lets the server begin.               *)
Lose(c) ==
    /\ ~ serving /\ held[c] # NoClient
    /\ held' = [held EXCEPT ![c] = NoClient]
    /\ serving' \in BOOLEAN

Next == Serve \/ \E c \in Conns : Connect(c) \/ Lose(c)

Spec == Init /\ [][Next]_vars
=============================================================================
