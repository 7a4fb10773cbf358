----------------------------- MODULE SetupStatus -----------------------------
(***************************************************************************)
(* LauncherAgent (service/launcher.go) turns lines of the launcher's log   *)
(* into setup statuses and sends each to the channels in its slice of      *)
(* listeners; every GET /v1/setup-status (service/api.go) subscribes a     *)
(* channel, writes the history and then what the channel delivers, up to   *)
(* the first "Done".  Nothing guards the slice: the log goroutine ranges   *)
(* over it while requests append to it and remove from it in place, so its *)
(* backing arrays are part of the state.  A status is its position in      *)
(* the history.                                                            *)
(***************************************************************************)
EXTENDS Integers, Sequences, Slices

CONSTANTS Streams,    \* requests for /v1/setup-status
          None,       \* an empty slot of a backing array
          BufSize,    \* capacity of a listener's channel (100 in the code)
          MaxStatus   \* bound: statuses emitted

ASSUME SizesAssumption == BufSize \in Nat \ {0} /\ MaxStatus \in Nat
ASSUME NoneAssumption == None \notin Streams

VARIABLES
    history,    \* statusHistory: "step" or "Done" per status
    state,      \* what GetState reports: the setup runs, or the log is attached
    agent,      \* the log goroutine: [pc, arr, len, at]
    heap,       \* backing arrays the listeners have had
    listeners,  \* the slice header t.listeners: [arr, len]
    stream,     \* stream[c]: [pc, arr, len, at] of a request
    buf,        \* buf[c]: statuses in the channel of c
    out,        \* out[c]: statuses written to the client of c
    disturbed   \* history variable: two updates of the slice have overlapped,
                \* or a removal has met a running emitStatus

agentVars == <<history, state, agent>>
sliceVars == <<heap, listeners>>
vars == <<history, state, agent, heap, listeners, stream, buf, out, disturbed>>

Slice  == [arr : Nat, len : Nat]
PC     == {"new", "append", "listed", "write", "read", "cancel", "remove",
           "store", "ended", "gone", "stuck"}
Thread(pc, s, at) == [pc |-> pc, arr |-> s.arr, len |-> s.len, at |-> at]

TypeOK ==
    /\ history \in Seq({"step", "Done"})
    /\ state \in {"", "attached", "setup"}
    /\ agent \in [pc : {"start", "idle", "range", "send", "stopped", "crashed"},
                  arr : Nat, len : Nat, at : Nat]
    /\ \A a \in DOMAIN heap : heap[a] \in Seq(Streams \cup {None})
    /\ listeners \in Slice /\ listeners.len <= Len(heap[listeners.arr])
    /\ stream \in [Streams -> [pc : PC, arr : Nat, len : Nat, at : Nat]]
    /\ \A c \in Streams : /\ Len(buf[c]) <= BufSize
                          /\ \A i \in DOMAIN buf[c] : buf[c][i] \in DOMAIN history
                          /\ \A i \in DOMAIN out[c] : out[c][i] \in DOMAIN history
    /\ disturbed \in BOOLEAN

Init ==
    /\ history = <<>>
    /\ state = "" /\ agent = Thread("start", EmptySlice, 0)
    /\ heap = EmptyHeap /\ listeners = EmptySlice
    /\ stream = [c \in Streams |-> Thread("new", EmptySlice, 0)]
    /\ buf = [c \in Streams |-> <<>>] /\ out = [c \in Streams |-> <<>>]
    /\ disturbed = FALSE

Updating(c) == stream[c].pc \in {"append", "remove", "store"}
Overlaps(c) == \/ \E d \in Streams \ {c} : Updating(d)
               \/ stream[c].pc = "cancel" /\ agent.pc = "send"

-----------------------------------------------------------------------------
(* The log goroutine: handleLine and emitStatus.  The range clause takes   *)
(* the slice header once; its elements are read when their turn comes.     *)
FollowLog ==
    /\ agent.pc = "start"
    /\ state' = "attached" /\ agent' = Thread("idle", EmptySlice, 0)
    /\ UNCHANGED <<history, sliceVars, stream, buf, out, disturbed>>

HandleLine(kind) ==
    /\ agent.pc = "idle" /\ Len(history) < MaxStatus
    /\ state' = IF kind = "Done" THEN "attached" ELSE "setup"
    /\ history' = Append(history, kind)
    /\ agent' = Thread("range", EmptySlice, 0)
    /\ UNCHANGED <<sliceVars, stream, buf, out, disturbed>>

(* A LightSync line without its separators: the panic ends the process.    *)
BadLine ==
    /\ agent.pc = "idle"
    /\ state' = "setup" /\ agent' = Thread("crashed", EmptySlice, 0)
    /\ UNCHANGED <<history, sliceVars, stream, buf, out, disturbed>>

EmitRange ==
    /\ agent.pc = "range"
    /\ agent' = Thread("send", listeners, 1)
    /\ disturbed' = (disturbed \/ \E c \in Streams : stream[c].pc \in {"remove", "store"})
    /\ UNCHANGED <<history, state, sliceVars, stream, buf, out>>

Target == At(heap, agent, agent.at)

(* A variant whose send never blocks.                                      *)
EmitSendUnbounded ==
    /\ agent.pc = "send" /\ agent.at <= agent.len
    /\ buf' = [buf EXCEPT ![Target] = Append(@, Len(history))]
    /\ agent' = [agent EXCEPT !.at = @ + 1]
    /\ UNCHANGED <<history, state, sliceVars, stream, out, disturbed>>

(* A send blocks on a full channel, and for good on a nil one, which is    *)
(* what a slot nobody has used holds.                                      *)
EmitSend ==
    /\ agent.pc = "send" /\ agent.at <= agent.len /\ Target # None
    /\ Len(buf[Target]) < BufSize
    /\ buf' = [buf EXCEPT ![Target] = Append(@, Len(history))]
    /\ agent' = [agent EXCEPT !.at = @ + 1]
    /\ UNCHANGED <<history, state, sliceVars, stream, out, disturbed>>

EmitReturn ==
    /\ agent.pc = "send" /\ agent.at > agent.len
    /\ agent' = Thread("idle", EmptySlice, 0)
    /\ UNCHANGED <<history, state, sliceVars, stream, buf, out, disturbed>>

(* tail exits, or a line is too long for the scanner.                      *)
LogEnds ==
    /\ agent.pc = "idle"
    /\ agent' = Thread("stopped", EmptySlice, 0)
    /\ UNCHANGED <<history, state, sliceVars, stream, buf, out, disturbed>>

-----------------------------------------------------------------------------
(* subscribeSetupStatus: append(t.listeners, ch) reads the slice header in *)
(* one step and stores the new one in another; then the history is copied. *)
Subscribe(c) ==
    /\ stream[c].pc = "new"
    /\ stream' = [stream EXCEPT ![c] = Thread("append", listeners, 0)]
    /\ disturbed' = (disturbed \/ Overlaps(c))
    /\ UNCHANGED <<agentVars, sliceVars, buf, out>>

AppendListener(c) ==
    LET new == SliceAppend(heap, stream[c], c, None) IN
    /\ stream[c].pc = "append"
    /\ heap' = new.heap /\ listeners' = new.slice
    /\ stream' = [stream EXCEPT ![c] = Thread("listed", EmptySlice, 0)]
    /\ UNCHANGED <<agentVars, buf, out, disturbed>>

(* A variant that takes the history without its last status.               *)
CopyHistoryShort(c) ==
    /\ stream[c].pc = "listed"
    /\ stream' = [stream EXCEPT ![c] =
           Thread("write", [arr |-> 1, len |-> IF history = <<>> THEN 0
                                               ELSE Len(history) - 1], 1)]
    /\ UNCHANGED <<agentVars, sliceVars, buf, out, disturbed>>

(* len is how much history the request writes, at the next of it.          *)
CopyHistory(c) ==
    /\ stream[c].pc = "listed"
    /\ stream' = [stream EXCEPT ![c] =
           Thread("write", [arr |-> 1, len |-> Len(history)], 1)]
    /\ UNCHANGED <<agentVars, sliceVars, buf, out, disturbed>>

(* gin's Stream tests for a closed connection before it calls the step     *)
(* function, which then runs to the first "Done" whatever the client does. *)
ClientGone(c) ==
    /\ stream[c].pc = "write" /\ stream[c].at = 1
    /\ stream' = [stream EXCEPT ![c] = Thread("gone", EmptySlice, 0)]
    /\ UNCHANGED <<agentVars, sliceVars, buf, out, disturbed>>

(* The server sets no write deadline: a client that stays connected and    *)
(* reads no more holds its handler in the Write or Flush of a status of    *)
(* the history or of one just taken from the channel.  This is the handler *)
(* that is held for good; one that is held for a while is late, and one    *)
(* whose connection breaks goes on, as it ignores the error.               *)
ClientStalls(c) ==
    /\ \/ stream[c].pc = "write" /\ stream[c].at <= stream[c].len /\ UNCHANGED buf
       \/ stream[c].pc = "read" /\ buf[c] # <<>> /\ buf' = [buf EXCEPT ![c] = Tail(@)]
    /\ stream' = [stream EXCEPT ![c] = Thread("stuck", EmptySlice, 0)]
    /\ UNCHANGED <<agentVars, sliceVars, out, disturbed>>

(* A variant that does not stop at "Done".                                 *)
WriteOn(c, i, next) == /\ out' = [out EXCEPT ![c] = Append(@, i)]
                       /\ stream' = [stream EXCEPT ![c] = next]

Write(c, i, next) ==
    /\ out' = [out EXCEPT ![c] = Append(@, i)]
    /\ stream' = [stream EXCEPT ![c] =
           IF history[i] = "Done" THEN Thread("cancel", EmptySlice, 0) ELSE next]

WriteHistory(c) ==
    LET s == stream[c] IN
    /\ s.pc = "write"
    /\ IF s.at <= s.len THEN Write(c, s.at, [s EXCEPT !.at = @ + 1])
       ELSE stream' = [stream EXCEPT ![c].pc = "read"] /\ UNCHANGED out
    /\ UNCHANGED <<agentVars, sliceVars, buf, disturbed>>

WriteStatus(c) ==
    /\ stream[c].pc = "read" /\ buf[c] # <<>>
    /\ Write(c, Head(buf[c]), stream[c])
    /\ buf' = [buf EXCEPT ![c] = Tail(@)]
    /\ UNCHANGED <<agentVars, sliceVars, disturbed>>

(* cancel: find the channel among the listeners as they are now, read them *)
(* again to remove it, and store what is left.                             *)
Cancel(c) ==
    /\ stream[c].pc = "cancel"
    /\ LET places == Places(heap, listeners, c, 1) IN
       \/ /\ places = {}
          /\ stream' = [stream EXCEPT ![c] = Thread("ended", EmptySlice, 0)]
       \/ \E i \in places :
             /\ \A j \in places : i <= j
             /\ stream' = [stream EXCEPT ![c] = Thread("remove", EmptySlice, i)]
    /\ disturbed' = (disturbed \/ Overlaps(c))
    /\ UNCHANGED <<agentVars, sliceVars, buf, out>>

TakeListeners(c) ==
    /\ stream[c].pc = "remove"
    /\ stream' = [stream EXCEPT ![c] = Thread("store", listeners, @.at)]
    /\ UNCHANGED <<agentVars, sliceVars, buf, out, disturbed>>

(* A variant that leaves the channel in the slice.                         *)
RemoveListenerNot(c) ==
    /\ stream[c].pc = "store"
    /\ stream' = [stream EXCEPT ![c] = Thread("ended", EmptySlice, 0)]
    /\ UNCHANGED <<agentVars, sliceVars, buf, out, disturbed>>

(* The place is in the slice; or the slice has become shorter and          *)
(* listeners[:i] makes it longer again, with what its array still holds;   *)
(* or the array has no such place: the handler's panic, which gin recovers.*)
RemoveListener(c) ==
    LET s   == stream[c]
        new == SliceRemove(heap, s, s.at)
    IN
    /\ s.pc = "store"
    /\ heap' = IF s.at <= s.len THEN new.heap ELSE heap
    /\ listeners' = CASE s.at <= s.len -> new.slice
                      [] s.at > s.len /\ s.at - 1 <= Len(heap[s.arr]) ->
                            [arr |-> s.arr, len |-> s.at - 1]
                      [] OTHER -> listeners
    /\ stream' = [stream EXCEPT ![c] = Thread("ended", EmptySlice, 0)]
    /\ UNCHANGED <<agentVars, buf, out, disturbed>>

Emit == FollowLog \/ EmitRange \/ EmitSend \/ EmitReturn
Alive == agent.pc # "crashed"
StreamStep(c) == /\ Alive
                 /\ \/ AppendListener(c) \/ CopyHistory(c) \/ WriteHistory(c)
                    \/ WriteStatus(c) \/ Cancel(c) \/ TakeListeners(c)
                    \/ RemoveListener(c)

Next == \/ \E kind \in {"step", "Done"} : HandleLine(kind)
        \/ Emit \/ LogEnds \/ BadLine
        \/ \E c \in Streams : \/ Alive /\ (Subscribe(c) \/ ClientGone(c) \/ ClientStalls(c))
                              \/ StreamStep(c)

(* The goroutines run, and a Write ends unless its client has stalled; the *)
(* log need not have lines, nor the clients ask, stay or go on reading.    *)
Spec == Init /\ [][Next]_vars /\ WF_vars(Emit)
             /\ \A c \in Streams : WF_vars(StreamStep(c))

-----------------------------------------------------------------------------
(* Properties.                                                             *)

(* A client is sent a beginning of the history and then statuses that      *)
(* never go back, whatever races, and nothing after a "Done".  The two     *)
(* parts may overlap: a status emitted between the subscription and the    *)
(* copy of the history comes twice.                                        *)
InOrder ==
    \A c \in Streams : \E k \in 0..Len(out[c]) :
        /\ \A i \in 1..k : out[c][i] = i
        /\ \A i \in (k + 1)..(Len(out[c]) - 1) : out[c][i] <= out[c][i + 1]
        /\ \A i \in 1..(Len(out[c]) - 1) : history[out[c][i]] # "Done"

(* As long as updates of the slice overlap neither each other nor, when    *)
(* they remove, an emitStatus, no request misses a status: what it has     *)
(* been sent, what it will write from the history, what waits in its       *)
(* channel and the one being emitted make up the whole history.            *)
InTransit(c) == {out[c][i] : i \in DOMAIN out[c]} \cup {buf[c][i] : i \in DOMAIN buf[c]}
    \cup (IF stream[c].pc = "write" THEN stream[c].at..stream[c].len ELSE {})
    \cup (IF \/ agent.pc = "range"
             \/ agent.pc = "send" /\ Places(heap, agent, c, agent.at) # {}
          THEN {Len(history)} ELSE {})

NothingMissed ==
    \A c \in Streams : ~ disturbed /\ stream[c].pc \in {"write", "read"} =>
        1..Len(history) \subseteq InTransit(c)

(* The log goroutine stalls for good in a send only on the channel of a    *)
(* request that no longer takes from it: its client was gone before the    *)
(* stream began, which leaves the channel in the slice, or has stopped     *)
(* reading; or, if updates of the slice have raced, its removal was lost   *)
(* or the slot bared.  So a request that writes to a client that reads, or *)
(* one that has ended without a race, never stalls it.                     *)
StallExplained ==
    <>[](agent.pc = "send") =>
        <>[](/\ agent.at \in 1..agent.len
             /\ \/ Target # None /\ stream[Target].pc \in {"gone", "stuck"}
                \/ disturbed /\ (Target = None \/ stream[Target].pc = "ended"))
=============================================================================
