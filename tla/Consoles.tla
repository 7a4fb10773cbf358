------------------------------ MODULE Consoles ------------------------------
(***************************************************************************)
(* The consoles of cmd/proxy/console.go: Socket.IO handlers that create,   *)
(* start, resize and stop consoles, the disconnect handler of socketio.go, *)
(* and the HTTP requests that read them, all on one map without a lock.    *)
(* go-socket.io runs the events of one connection one after the other, but *)
(* a disconnect beside them; a shell, once started, is bash on a pty.      *)
(***************************************************************************)
EXTENDS Integers, FiniteSets

CONSTANTS
    Conns,      \* Socket.IO connections
    Ids,        \* uuids
    None,       \* no connection, no console
    Readers,    \* GET /api/v1/consoles and /consoles/:id served at the same time
    MaxShells,  \* bound: shells started
    MaxEvents   \* bound: events of the connections

ASSUME BoundsAssumption == MaxShells \in Nat /\ MaxEvents \in Nat
ASSUME NoneAssumption == None \notin Conns \cup Ids

VARIABLES
    alive,       \* the process has not been ended by the map's race check
    consoleMap,  \* consoleMap[id]: the Pty of the Console stored, or Absent
    owner,       \* owner[id]: its ConnectionId, None before create
    route,       \* route[id]: the shell the handler of console.<id>.input writes to
    shells,      \* the shells started, in order
    script,      \* what init.bash holds
    handler,     \* handler[c]: the event handler of c that runs, and its last reply
    closing,     \* closing[c]: the disconnect of c
    reader,      \* the HTTP requests that are reading the map
    late,        \* ghost: consoles stored after their connection's were looked up
    events       \* events so far

mapVars == <<consoleMap, owner, late>>
shellVars == <<route, shells, script>>
vars == <<alive, mapVars, shellVars, handler, closing, reader, events>>

Absent == -1
NoPty == 0

Shell == [console : Ids, by : Conns, up : BOOLEAN,
          init : {"unread", "none", "empty", "full"}]
Handling == {"create", "find", "truncate", "write", "launch", "register",
             "resize", "stop"}
Handler == [pc : Handling \cup {"idle"}, id : Ids \cup {None}, shell : 0..MaxShells,
            reply : {"none", "not found", "failed to start", "failed to resize"}]
Idle(reply) == [pc |-> "idle", id |-> None, shell |-> 0, reply |-> reply]
Closing == [pc : {"open", "find", "delete", "gone"}, ids : SUBSET Ids]

TypeOK ==
    /\ alive \in BOOLEAN
    /\ consoleMap \in [Ids -> {Absent} \cup 0..MaxShells]
    /\ owner \in [Ids -> Conns \cup {None}]
    /\ route \in [Ids -> 0..MaxShells]
    /\ \E n \in 0..MaxShells : shells \in [1..n -> Shell]
    /\ script \in {"none", "empty", "full"}
    /\ handler \in [Conns -> Handler]
    /\ closing \in [Conns -> Closing]
    /\ reader \subseteq Readers
    /\ late \subseteq Ids
    /\ events \in 0..MaxEvents

Init ==
    /\ alive = TRUE
    /\ consoleMap = [id \in Ids |-> Absent]
    /\ owner = [id \in Ids |-> None]
    /\ route = [id \in Ids |-> 0]
    /\ shells = [s \in 1..0 |-> 0]
    /\ script = "none"
    /\ handler = [c \in Conns |-> Idle("none")]
    /\ closing = [c \in Conns |-> [pc |-> "open", ids |-> {}]]
    /\ reader = {}
    /\ late = {}
    /\ events = 0

-----------------------------------------------------------------------------
(* Accesses to the map.  Each lasts from one step to the next; Go's maps   *)
(* check for a writer, and end the process when they see one beside them.  *)
(* The check may also miss it, and the read sees the map before or after.  *)

Actors == [who : {"handler", "closing"}, of : Conns] \cup [who : {"reader"}, of : Readers]

(* A variant in which start stores the Console, with its Pty, in the map.  *)
WritesInStart(a) ==
    \/ a.who = "handler" /\ handler[a.of].pc \in {"create", "stop", "register"}
    \/ a.who = "closing" /\ closing[a.of].pc = "delete"

Writes(a) ==
    \/ a.who = "handler" /\ handler[a.of].pc \in {"create", "stop"}
    \/ a.who = "closing" /\ closing[a.of].pc = "delete"

Reads(a) ==
    \/ a.who = "handler" /\ handler[a.of].pc \in {"find", "resize"}
    \/ a.who = "closing" /\ closing[a.of].pc = "find"
    \/ a.who = "reader" /\ a.of \in reader

Race == \E a, b \in Actors : a # b /\ Writes(a) /\ (Writes(b) \/ Reads(b))

Abort ==
    /\ alive /\ Race
    /\ alive' = FALSE
    /\ UNCHANGED <<mapVars, shellVars, handler, closing, reader, events>>

Present(id) == consoleMap[id] # Absent

-----------------------------------------------------------------------------
(* The handlers of a connection.  Events are read until it is closed.      *)

HandlerGoes(c, pc) == handler' = [handler EXCEPT ![c].pc = pc]
Returns(c, reply) == handler' = [handler EXCEPT ![c] = Idle(reply)]

Begin(c, pc, id) ==
    /\ alive /\ handler[c].pc = "idle" /\ closing[c].pc # "gone"
    /\ handler' = [handler EXCEPT ![c].pc = pc, ![c].id = id, ![c].reply = "none"]
    /\ events < MaxEvents /\ events' = events + 1
    /\ UNCHANGED <<alive, shellVars, closing, reader, consoleMap, late>>

CreateBegin(c, id) ==
    /\ owner[id] = None
    /\ owner' = [owner EXCEPT ![id] = c]
    /\ Begin(c, "create", id)

StartBegin(c, id) == Begin(c, "find", id) /\ UNCHANGED owner
ResizeBegin(c, id) == Begin(c, "resize", id) /\ UNCHANGED owner
StopBegin(c, id) == Begin(c, "stop", id) /\ UNCHANGED owner

CreateStore(c) ==
    LET id == handler[c].id IN
    /\ alive /\ handler[c].pc = "create"
    /\ consoleMap' = [consoleMap EXCEPT ![id] = NoPty]
    /\ late' = IF closing[c].pc \in {"delete", "gone"} THEN late \cup {id} ELSE late
    /\ Returns(c, "none")
    /\ UNCHANGED <<alive, owner, shellVars, closing, reader, events>>

(* findById: what it returns points to a copy of the Console.              *)
StartFind(c) ==
    /\ alive /\ handler[c].pc = "find"
    /\ IF Present(handler[c].id) THEN HandlerGoes(c, "truncate")
                                 ELSE Returns(c, "not found")
    /\ UNCHANGED <<alive, mapVars, shellVars, closing, reader, events>>

(* writeInitScript: os.Create truncates the file every shell starts with,  *)
(* or fails, which is logged; the write of the text is taken to succeed.   *)
CreateScriptFails(c) ==
    /\ alive /\ handler[c].pc = "truncate"
    /\ HandlerGoes(c, "launch")
    /\ UNCHANGED <<alive, mapVars, shellVars, closing, reader, events>>

Truncate(c) ==
    /\ alive /\ handler[c].pc = "truncate"
    /\ script' = "empty"
    /\ HandlerGoes(c, "write")
    /\ UNCHANGED <<alive, mapVars, route, shells, closing, reader, events>>

(* A variant that starts the shell and leaves the script to a goroutine.   *)
WriteLater(c) ==
    /\ alive /\ handler[c].pc = "write"
    /\ HandlerGoes(c, "launch")
    /\ UNCHANGED <<alive, mapVars, shellVars, closing, reader, events>>

WriteScript(c) ==
    /\ alive /\ handler[c].pc = "write"
    /\ script' = "full"
    /\ HandlerGoes(c, "launch")
    /\ UNCHANGED <<alive, mapVars, route, shells, closing, reader, events>>

Newest == Cardinality(DOMAIN shells)

(* pty.StartWithSize; the Pty goes into the handler's copy.                *)
StartShell(c) ==
    /\ alive /\ handler[c].pc = "launch" /\ Newest < MaxShells
    /\ shells' = [s \in 1..(Newest + 1) |->
                    IF s <= Newest THEN shells[s]
                    ELSE [console |-> handler[c].id, by |-> c, up |-> TRUE,
                          init |-> "unread"]]
    /\ handler' = [handler EXCEPT ![c].pc = "register", ![c].shell = Newest + 1]
    /\ UNCHANGED <<alive, mapVars, route, script, closing, reader, events>>

StartFails(c) ==
    /\ alive /\ handler[c].pc = "launch"
    /\ Returns(c, "failed to start")
    /\ UNCHANGED <<alive, mapVars, shellVars, closing, reader, events>>

(* A variant that keeps the handler of the first start.                    *)
RegisterFirst(c) ==
    LET id == handler[c].id IN
    /\ alive /\ handler[c].pc = "register"
    /\ route' = [route EXCEPT ![id] = IF @ = 0 THEN handler[c].shell ELSE @]
    /\ Returns(c, "none")
    /\ UNCHANGED <<alive, mapVars, shells, script, closing, reader, events>>

(* A variant that counts the shell of this start twice.                    *)
RegisterNext(c) ==
    /\ alive /\ handler[c].pc = "register"
    /\ route' = [route EXCEPT ![handler[c].id] = handler[c].shell + 1]
    /\ Returns(c, "none")
    /\ UNCHANGED <<alive, mapVars, shells, script, closing, reader, events>>

(* OnEvent replaces the handler of console.<id>.input, and a goroutine     *)
(* reads the pty and sends to the room of c until the shell exits.         *)
Register(c) ==
    LET id == handler[c].id IN
    /\ alive /\ handler[c].pc = "register"
    /\ route' = [route EXCEPT ![id] = handler[c].shell]
    /\ Returns(c, "none")
    /\ UNCHANGED <<alive, mapVars, shells, script, closing, reader, events>>

(* Setsize on a nil file fails; on that of a shell it fails once it exited.*)
Resize(c) ==
    LET id == handler[c].id IN
    /\ alive /\ handler[c].pc = "resize"
    /\ Returns(c, IF ~ Present(id) THEN "not found"
                  ELSE IF consoleMap[id] = NoPty \/ ~ shells[consoleMap[id]].up
                       THEN "failed to resize" ELSE "none")
    /\ UNCHANGED <<alive, mapVars, shellVars, closing, reader, events>>

Stop(c) ==
    /\ alive /\ handler[c].pc = "stop"
    /\ consoleMap' = [consoleMap EXCEPT ![handler[c].id] = Absent]
    /\ Returns(c, "none")
    /\ UNCHANGED <<alive, owner, late, shellVars, closing, reader, events>>

-----------------------------------------------------------------------------
(* A disconnect: removeConsoles looks the ids up, then deletes each.       *)

Disconnect(c) ==
    /\ alive /\ closing[c].pc = "open"
    /\ closing' = [closing EXCEPT ![c].pc = "find"]
    /\ UNCHANGED <<alive, mapVars, shellVars, handler, reader, events>>

Delete1(c, ids) == closing' = [closing EXCEPT
    ![c] = [pc |-> IF ids = {} THEN "gone" ELSE "delete", ids |-> ids]]

FindIdsByConnectionId(c) ==
    /\ alive /\ closing[c].pc = "find"
    /\ Delete1(c, {id \in Ids : Present(id) /\ owner[id] = c})
    /\ UNCHANGED <<alive, mapVars, shellVars, handler, reader, events>>

(* A variant that returns after the first.                                 *)
DeleteFirst(c) ==
    /\ alive /\ closing[c].pc = "delete"
    /\ \E id \in closing[c].ids : consoleMap' = [consoleMap EXCEPT ![id] = Absent]
    /\ Delete1(c, {})
    /\ UNCHANGED <<alive, owner, late, shellVars, handler, reader, events>>

DeleteConsole(c) ==
    /\ alive /\ closing[c].pc = "delete"
    /\ \E id \in closing[c].ids :
          /\ consoleMap' = [consoleMap EXCEPT ![id] = Absent]
          /\ Delete1(c, closing[c].ids \ {id})
    /\ UNCHANGED <<alive, owner, late, shellVars, handler, reader, events>>

-----------------------------------------------------------------------------
(* listConsoles and getConsole read the map.                               *)

ReadBegin(u) ==
    /\ alive /\ u \notin reader
    /\ reader' = reader \cup {u}
    /\ UNCHANGED <<alive, mapVars, shellVars, handler, closing, events>>

ReadEnd(u) ==
    /\ alive /\ u \in reader
    /\ reader' = reader \ {u}
    /\ UNCHANGED <<alive, mapVars, shellVars, handler, closing, events>>

(* A shell reads its init file some time after it was started, and exits   *)
(* when it is told to, or when it likes.                                   *)
ShellInit(s) ==
    /\ alive /\ shells[s].up /\ shells[s].init = "unread"
    /\ shells' = [shells EXCEPT ![s].init = script]
    /\ UNCHANGED <<alive, mapVars, route, script, handler, closing, reader, events>>

ShellExit(s) ==
    /\ alive /\ shells[s].up
    /\ shells' = [shells EXCEPT ![s].up = FALSE]
    /\ UNCHANGED <<alive, mapVars, route, script, handler, closing, reader, events>>

EventStep(c, id) == \/ CreateBegin(c, id) \/ StartBegin(c, id)
                    \/ ResizeBegin(c, id) \/ StopBegin(c, id)
HandlerStep(c) == \/ CreateStore(c) \/ StartFind(c)
                  \/ CreateScriptFails(c) \/ Truncate(c) \/ WriteScript(c)
                  \/ StartShell(c) \/ StartFails(c)
                  \/ Register(c) \/ Resize(c) \/ Stop(c)
ClosingStep(c) == Disconnect(c) \/ FindIdsByConnectionId(c) \/ DeleteConsole(c)

Next ==
    \/ Abort
    \/ \E c \in Conns : \/ \E id \in Ids : EventStep(c, id)
                        \/ HandlerStep(c) \/ ClosingStep(c)
    \/ \E u \in Readers : ReadBegin(u) \/ ReadEnd(u)
    \/ \E s \in DOMAIN shells : ShellInit(s) \/ ShellExit(s)

Spec == Init /\ [][Next]_vars

-----------------------------------------------------------------------------
(* Properties.                                                             *)

(* consoleMap has no lock.  Starts, resizes and HTTP reads, however many   *)
(* at once, never end the process: one that died had a create, a stop, or  *)
(* a disconnect with consoles to forget under way.                         *)
CrashExplained ==
    ~ alive => \E c \in Conns : \/ handler[c].pc \in {"create", "stop"}
                                \/ closing[c].pc = "delete"

(* Once a disconnect is done, no console of the connection is left in the  *)
(* map but one whose create was still running when removeConsoles looked   *)
(* for them.                                                               *)
LeftBehind ==
    \A id \in Ids : Present(id) /\ closing[owner[id]].pc = "gone" => id \in late

(* A console that only one connection ever started, and is not starting    *)
(* now, takes its input to the shell started last, whatever else is going  *)
(* on: stops, disconnects and creates of others included.                  *)
StartedBy(id) == {shells[s].by : s \in {r \in DOMAIN shells : shells[r].console = id}}

RouteIsNewest ==
    \A id \in Ids, c \in Conns :
        /\ StartedBy(id) \subseteq {c}
        /\ ~ (handler[c].pc = "register" /\ handler[c].id = id)
        => \A s \in DOMAIN shells : shells[s].console = id => s <= route[id]

(* All shells start with the same init.bash, which every start truncates   *)
(* and writes again: a shell comes up without its commands and its prompt  *)
(* only while another start is between the two.                            *)
BareExplained ==
    [][\A s \in DOMAIN shells :
          shells[s].init = "unread" /\ shells'[s].init = "empty"
          => \E c \in Conns : handler[c].pc = "write"]_vars

(* resize reports "failed to resize" (console.go:381), and start keeps the *)
(* file it is to work on, console.Pty = ptmx (console.go:292): a console   *)
(* with a shell that runs, and none that has exited, can be resized.       *)
ResizeWorks ==
    [][\A c \in Conns :
          LET id == handler[c].id
              mine == {s \in DOMAIN shells : shells[s].console = id}
          IN  /\ handler[c].pc = "resize" /\ handler'[c].reply = "failed to resize"
              /\ mine # {} /\ Present(id)
              => \E s \in mine : ~ shells[s].up]_vars
=============================================================================
