----------------------------- MODULE LauncherRpc -----------------------------
(***************************************************************************)
(* Calls from the proxy to the launchers attached over a WebSocket         *)
(* (launcher/ws.go, launcher/api.go).  GET /v1/info and PUT /v1/backup     *)
(* call the first launcher of a slice; each launcher has one goroutine in  *)
(* Listen that hands an answer to the call registered under its id.  The   *)
(* slice, the counters, the maps of requests and the sockets are shared by *)
(* the handlers and the listeners without a lock.                          *)
(***************************************************************************)
EXTENDS Integers, Sequences, FiniteSets, Slices

CONSTANTS Launchers,   \* WebSocket connections, one Launcher each
          Calls,       \* HTTP requests that call a launcher
          None,        \* no launcher, no call
          Ids,         \* 0..Ids-1 are the ids of requests (2^16 in the code)
          MaxAsks,     \* bound: requests launchers send of their own accord
          MaxMoves     \* bound: these and the launchers that go away

ASSUME IdsAssumption == /\ Ids \in Nat \ {0} /\ MaxAsks \in 0..(Ids - 1)
                        /\ MaxMoves \in Nat
ASSUME NoneAssumption == None \notin Launchers \cup Calls

VARIABLES
    heap, launchers,  \* backing arrays, and the header of the slice launchers
    conn,      \* conn[l]: "new", "up" or "down"
    listen,    \* listen[l]: the goroutine in Listen; [arr, len] is the slice it
               \* ranges over, now the slice it removes from
    counter,   \* counter[l]: the last request id
    requests,  \* requests[l][id]: the call whose channel is registered
    call,      \* call[p]: [pc, to, id, got]
    remote,    \* remote[l]: requests the launcher has and has not answered
    inbox,     \* inbox[l]: messages of the launcher not yet read
    asks,      \* requests launchers have sent
    torn,      \* calls whose write to a socket another's has overlapped
    crashed    \* what has ended the process: a panic outside the HTTP
               \* handlers, or the race check of a map

sliceVars == <<heap, launchers>>
netVars   == <<remote, inbox, asks, torn>>
vars == <<heap, launchers, conn, listen, counter, requests, call, remote, inbox,
          asks, torn, crashed>>

Id      == 0..(Ids - 1)
Message == [kind : {"response", "request"}, id : Id, for : Calls \cup {None}]
NoMessage == [kind |-> "response", id |-> 0, for |-> None]
Listener(pc, s, at) == [pc |-> pc, arr |-> s.arr, len |-> s.len, at |-> at,
                           now |-> EmptySlice, msg |-> NoMessage]

TypeOK ==
    /\ \A a \in DOMAIN heap : heap[a] \in Seq(Launchers \cup {None})
    /\ launchers.arr \in DOMAIN heap /\ launchers.len \in 0..Len(heap[launchers.arr])
    /\ conn \in [Launchers -> {"new", "up", "down"}]
    /\ \A l \in Launchers :
          /\ listen[l].pc \in {"off", "append", "read", "deliver", "stuck",
                               "remove", "store", "ended"}
          /\ listen[l].msg \in Message
          /\ inbox[l] \in Seq(Message)
    /\ counter \in [Launchers -> Id]
    /\ requests \in [Launchers -> [Id -> Calls \cup {None}]]
    /\ call \in [Calls -> [pc : {"idle", "send", "write", "register", "wait", "delete",
                                 "done", "failed"},
                           to : Launchers \cup {None}, id : Id, got : Message]]
    /\ remote \in [Launchers -> SUBSET Message]
    /\ asks \in 0..MaxAsks /\ torn \subseteq Calls
    /\ crashed \in {"no", "panic", "map"}

Init ==
    /\ heap = EmptyHeap /\ launchers = EmptySlice
    /\ conn = [l \in Launchers |-> "new"]
    /\ listen = [l \in Launchers |-> Listener("off", EmptySlice, 0)]
    /\ counter = [l \in Launchers |-> 0]
    /\ requests = [l \in Launchers |-> [i \in Id |-> None]]
    /\ call = [p \in Calls |-> [pc |-> "idle", to |-> None, id |-> 0,
                                got |-> NoMessage]]
    /\ remote = [l \in Launchers |-> {}] /\ inbox = [l \in Launchers |-> <<>>]
    /\ asks = 0 /\ torn = {} /\ crashed = "no"

(* The end of the process is the end of its memory and its connections; of *)
(* the rest, what it was is kept for the properties.                       *)
Alive == crashed = "no" /\ UNCHANGED crashed

Ends(how) ==
    /\ crashed = "no" /\ crashed' = how
    /\ heap' = EmptyHeap /\ launchers' = EmptySlice
    /\ listen' = [l \in Launchers |-> Listener("ended", EmptySlice, 0)]
    /\ counter' = [l \in Launchers |-> 0]
    /\ requests' = [l \in Launchers |-> [i \in Id |-> None]]
    /\ remote' = [l \in Launchers |-> {}] /\ inbox' = [l \in Launchers |-> <<>>]
    /\ UNCHANGED <<conn, call, asks, torn>>

-----------------------------------------------------------------------------
(* The launcher at the other end answers what it was asked, in any order,  *)
(* may ask something itself, under ids that count from 1, and may go away  *)
(* at any time.                                                            *)
Answer(l) ==
    /\ conn[l] = "up"
    /\ \E m \in remote[l] : /\ remote' = [remote EXCEPT ![l] = @ \ {m}]
                            /\ inbox' = [inbox EXCEPT ![l] = Append(@, m)]
    /\ UNCHANGED <<sliceVars, conn, listen, counter, requests, call, asks, torn>> /\ Alive

Moves == asks + Cardinality({l \in Launchers : conn[l] = "down"})

Ask(l) ==
    /\ conn[l] = "up" /\ asks < MaxAsks /\ Moves < MaxMoves
    /\ asks' = asks + 1
    /\ inbox' = [inbox EXCEPT ![l] =
                    Append(@, [kind |-> "request", id |-> asks', for |-> None])]
    /\ UNCHANGED <<sliceVars, conn, listen, counter, requests, call, remote, torn>>
    /\ Alive

Disconnect(l) ==
    /\ conn[l] = "up" /\ Moves < MaxMoves
    /\ conn' = [conn EXCEPT ![l] = "down"]
    /\ remote' = [remote EXCEPT ![l] = {}]
    /\ UNCHANGED <<sliceVars, listen, counter, requests, call, inbox, asks, torn>>
    /\ Alive

-----------------------------------------------------------------------------
(* WsHandler: launchers = append(launchers, l), then go l.Listen().        *)
Attach(l) ==
    /\ conn[l] = "new"
    /\ conn' = [conn EXCEPT ![l] = "up"]
    /\ listen' = [listen EXCEPT ![l] = Listener("append", launchers, 0)]
    /\ UNCHANGED <<sliceVars, counter, requests, call, netVars>> /\ Alive

AppendLauncher(l) ==
    LET new == SliceAppend(heap, listen[l], l, None) IN
    /\ listen[l].pc = "append"
    /\ heap' = new.heap /\ launchers' = new.slice
    /\ listen' = [listen EXCEPT ![l] = Listener("read", EmptySlice, 0)]
    /\ UNCHANGED <<conn, counter, requests, call, netVars>> /\ Alive

(* Variants: one trusts the order of the answers, one drops a message that *)
(* has no call.                                                            *)
ListenReadFirst(l) ==
    /\ listen[l].pc = "read" /\ inbox[l] # <<>>
    /\ \E p \in Calls :
          /\ call[p].to = l /\ call[p].pc = "wait"
          /\ listen' = [listen EXCEPT ![l] =
                [@ EXCEPT !.pc = "deliver", !.msg = Head(inbox[l]), !.at = p]]
    /\ inbox' = [inbox EXCEPT ![l] = Tail(@)]
    /\ UNCHANGED <<sliceVars, conn, counter, requests, call, remote, asks, torn>> /\ Alive

ListenReadDrop(l) ==
    /\ listen[l].pc = "read" /\ inbox[l] # <<>>
    /\ LET m == Head(inbox[l])
           to == requests[l][m.id]
       IN  listen' = [listen EXCEPT ![l] =
               IF to = None THEN @ ELSE [@ EXCEPT !.pc = "deliver", !.msg = m, !.at = to]]
    /\ inbox' = [inbox EXCEPT ![l] = Tail(@)]
    /\ UNCHANGED <<sliceVars, conn, counter, requests, call, remote, asks, torn>> /\ Alive

(* Listen reads a message.  A well-formed request decodes as a Response    *)
(* with the same id, so every message goes to requests[id]; a send on the  *)
(* nil channel of an unknown id never returns.                             *)
ListenRead(l) ==
    /\ listen[l].pc = "read" /\ inbox[l] # <<>>
    /\ LET m == Head(inbox[l])
           to == requests[l][m.id]
       IN  listen' = [listen EXCEPT ![l] =
               [@ EXCEPT !.pc = IF to = None THEN "stuck" ELSE "deliver",
                         !.msg = m, !.at = to]]
    /\ inbox' = [inbox EXCEPT ![l] = Tail(@)]
    /\ UNCHANGED <<sliceVars, conn, counter, requests, call, remote, asks, torn>> /\ Alive

(* The channel is unbuffered: the send and the receive are one step.  On a *)
(* channel its call has closed the send panics.                            *)
ListenDeliver(l) ==
    LET p == listen[l].at IN
    /\ listen[l].pc = "deliver"
    /\ \/ /\ call[p].pc = "wait"
          /\ call' = [call EXCEPT ![p] = [@ EXCEPT !.pc = "delete",
                                                   !.got = listen[l].msg]]
          /\ listen' = [listen EXCEPT ![l] = Listener("read", EmptySlice, 0)]
          /\ UNCHANGED <<sliceVars, conn, counter, requests, netVars>> /\ Alive
       \/ call[p].pc \in {"delete", "done"} /\ Ends("panic")

(* The read fails: Listen looks for the launcher in the slice header s it  *)
(* has taken, whose elements are now in hp, and removes it from whatever   *)
(* the slice has become.                                                   *)
Search(l, hp, s, from) ==
    \/ /\ Places(hp, s, l, from) = {}
       /\ listen' = [listen EXCEPT ![l] = Listener("ended", EmptySlice, 0)]
    \/ \E i \in Places(hp, s, l, from) :
          /\ \A j \in Places(hp, s, l, from) : i <= j
          /\ listen' = [listen EXCEPT ![l] = Listener("remove", s, i)]

ListenFails(l) ==
    /\ listen[l].pc = "read" /\ inbox[l] = <<>> /\ conn[l] = "down"
    /\ Search(l, heap, launchers, 1)
    /\ UNCHANGED <<sliceVars, conn, counter, requests, call, netVars>> /\ Alive

Takes(l) ==
    /\ listen' = [listen EXCEPT ![l].pc = "store", ![l].now = launchers]
    /\ UNCHANGED <<sliceVars, conn, counter, requests, call, netVars>> /\ Alive

(* A variant that is off by one.                                           *)
ListenRemoveLate(l) ==
    /\ listen[l].pc = "remove"
    /\ \/ listen[l].at + 1 > launchers.len /\ Ends("panic")
       \/ listen[l].at + 1 <= launchers.len /\ Takes(l)

(* launchers[i+1:] of a slice that has become shorter panics.              *)
ListenRemove(l) ==
    /\ listen[l].pc = "remove"
    /\ \/ listen[l].at > launchers.len /\ Ends("panic")
       \/ listen[l].at <= launchers.len /\ Takes(l)

ListenStore(l) ==
    LET new == SliceRemove(heap, listen[l].now, listen[l].at) IN
    /\ listen[l].pc = "store"
    /\ heap' = new.heap /\ launchers' = new.slice
    /\ Search(l, new.heap, listen[l], listen[l].at + 1)
    /\ UNCHANGED <<conn, counter, requests, call, netVars>> /\ Alive

-----------------------------------------------------------------------------
(* GetInfo and UpdateBackup.                                               *)
Goes(p, from, to) == call[p].pc = from /\ call' = [call EXCEPT ![p].pc = to]

(* A variant whose counter does not wrap around.                           *)
PickWide(p) ==
    LET l == At(heap, launchers, 1) IN
    /\ call[p].pc = "idle"
    /\ IF launchers.len = 0
       THEN Goes(p, "idle", "failed") /\ UNCHANGED counter
       ELSE /\ call' = [call EXCEPT ![p].pc = "send", ![p].to = l]
            /\ counter' = [counter EXCEPT ![l] = @ + 1]
    /\ UNCHANGED <<sliceVars, conn, listen, requests, netVars>> /\ Alive

(* launchers[0], which panics in the handler when the slice is empty now,  *)
(* and the increment of its counter.                                       *)
Pick(p) ==
    LET l == At(heap, launchers, 1) IN
    /\ call[p].pc = "idle"
    /\ IF launchers.len = 0
       THEN Goes(p, "idle", "failed") /\ UNCHANGED counter
       ELSE /\ call' = [call EXCEPT ![p].pc = "send", ![p].to = l]
            /\ counter' = [counter EXCEPT ![l] = (@ + 1) % Ids]
    /\ UNCHANGED <<sliceVars, conn, listen, requests, netVars>> /\ Alive

(* The request takes the counter's value as it is now, and WriteMessage    *)
(* begins, beside any other to the same socket.                            *)
Writing(l) == {q \in Calls : call[q].pc = "write" /\ call[q].to = l}

Send(p) ==
    LET l == call[p].to IN
    /\ call[p].pc = "send"
    /\ call' = [call EXCEPT ![p].pc = "write", ![p].id = counter[l]]
    /\ torn' = IF Writing(l) = {} THEN torn ELSE torn \cup Writing(l) \cup {p}
    /\ UNCHANGED <<sliceVars, conn, listen, counter, requests, remote, inbox, asks>>
    /\ Alive

(* WriteMessage ends; its error is ignored.  gorilla/websocket has one     *)
(* buffer for all its writers and panics in a writer that notices another: *)
(* a write that another has overlapped sends its message, the other's, or  *)
(* nothing of use, and may end in a panic, which gin recovers.             *)
RequestOf(q) == [kind |-> "response", id |-> call[q].id, for |-> q]
Arrives(l, q) == remote' = IF conn[l] = "up"
                           THEN [remote EXCEPT ![l] = @ \cup {RequestOf(q)}] ELSE remote

Write(p) ==
    /\ call[p].pc = "write"
    /\ \/ p \notin torn /\ Arrives(call[p].to, p) /\ Goes(p, "write", "register")
       \/ /\ p \in torn
          /\ \/ UNCHANGED remote
             \/ \E q \in torn : call[q].to = call[p].to /\ Arrives(call[p].to, q)
          /\ Goes(p, "write", "register") \/ Goes(p, "write", "failed")
    /\ UNCHANGED <<sliceVars, conn, listen, counter, requests, inbox, asks, torn>>
    /\ Alive

Register(p) ==
    /\ Goes(p, "register", "wait")
    /\ requests' = [requests EXCEPT ![call[p].to][call[p].id] = p]
    /\ UNCHANGED <<sliceVars, conn, listen, counter, netVars>> /\ Alive

Delete(p) ==
    /\ Goes(p, "delete", "done")
    /\ requests' = [requests EXCEPT ![call[p].to][call[p].id] = None]
    /\ UNCHANGED <<sliceVars, conn, listen, counter, netVars>> /\ Alive

(* Go checks a map for a writer: an access beside one may end the process, *)
(* and otherwise it sees the map before the write or after.                *)
Updating(l) == {p \in Calls : call[p].pc \in {"register", "delete"} /\ call[p].to = l}
Looking(l)  == listen[l].pc = "read" /\ inbox[l] # <<>>

MapRace(l) ==
    /\ \E p \in Updating(l) : Looking(l) \/ Updating(l) # {p}
    /\ Ends("map")

ListenStep(l) == \/ AppendLauncher(l) \/ ListenRead(l) \/ ListenDeliver(l)
                 \/ ListenFails(l) \/ ListenRemove(l) \/ ListenStore(l)
CallStep(p) == \/ Send(p) \/ Write(p) \/ Register(p)
               \/ Delete(p)

Next == \/ \E l \in Launchers : \/ Attach(l) \/ Answer(l) \/ Disconnect(l)
                                \/ Ask(l)
                                \/ ListenStep(l) \/ MapRace(l)
        \/ \E p \in Calls : Pick(p) \/ CallStep(p)

(* Goroutines run, and an attached launcher answers.                       *)
Spec == /\ Init /\ [][Next]_vars
        /\ \A l \in Launchers : WF_vars(Answer(l)) /\ WF_vars(ListenStep(l))
        /\ \A p \in Calls : WF_vars(CallStep(p))

-----------------------------------------------------------------------------
(* Properties.                                                             *)

Sent(p) == call[p].pc \notin {"idle", "send"} /\ call[p].to # None
SharesId(p) == \E q \in Calls \ {p} : /\ Sent(p) /\ Sent(q)
                                      /\ call[q].to = call[p].to
                                      /\ call[q].id = call[p].id

(* A call that got a launcher's response got the response to its own       *)
(* request, unless another call used the same id: the counter is not       *)
(* guarded and wraps around.                                               *)
OwnAnswer ==
    \A p \in Calls :
        /\ call[p].pc \in {"delete", "done"}
        /\ call[p].got.kind = "response" /\ ~ SharesId(p)
        => call[p].got.for = p

(* A listener panics only when two calls have shared an id or a write, a   *)
(* launcher has sent a request, two launchers have gone away, or more than *)
(* two have come, whose updates of the slice may undo each other.  The map *)
(* ends the process only when two calls are at a launcher or it has sent a *)
(* request, but for the one access a single call makes after its request   *)
(* is out: an answer may already be looking for it.                        *)
PanicExplained ==
    /\ crashed = "panic" =>
          \/ \E p \in Calls : SharesId(p)
          \/ asks > 0 \/ torn # {}
          \/ \E k, l \in Launchers : k # l /\ conn[k] = "down" /\ conn[l] = "down"
          \/ Cardinality({l \in Launchers : conn[l] # "new"}) > 2
    /\ crashed = "map" =>
          \/ \E p, q \in Calls : p # q /\ call[p].to = call[q].to /\ call[p].to # None
          \/ asks > 0
          \/ \E p \in Calls : call[p].pc = "register"

(* A call waits forever only if its launcher has gone away, or the process *)
(* has ended, or its write was overlapped, or the listener is stuck: a     *)
(* message came for an id that had no call registered, be it an answer     *)
(* that was faster than the map.                                           *)
HangExplained ==
    \A p \in Calls : <>[](call[p].pc = "wait") =>
        <>[](\/ crashed # "no" \/ p \in torn
             \/ \E l \in Launchers : /\ l = call[p].to
                                     /\ conn[l] = "down" \/ listen[l].pc = "stuck")

(* "The message is a request": what a launcher asks is not taken for the   *)
(* answer to a call.                                                       *)
RequestsAreRequests == \A p \in Calls : call[p].got.kind # "request"
=============================================================================
