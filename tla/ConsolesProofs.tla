--------------------------- MODULE ConsolesProofs ---------------------------
(***************************************************************************)
(* Theorems about Consoles, for any number of connections, consoles,       *)
(* readers, shells and events.                                             *)
(***************************************************************************)
EXTENDS Consoles, FiniteSetTheorems, TLAPS

-----------------------------------------------------------------------------
(* What a step of a handler does to the handlers: its own becomes h.       *)
Handles(c, h) == h \in Handler /\ handler' = [handler EXCEPT ![c] = h]

LEMMA HandlerType ==
    ASSUME TypeOK, NEW c \in Conns
    PROVE  handler[c] \in Handler /\ closing[c] \in Closing
BY DEF TypeOK

LEMMA ShellsType ==
    ASSUME TypeOK
    PROVE  /\ Newest \in 0..MaxShells
           /\ shells \in [1..Newest -> Shell]
           /\ DOMAIN shells = 1..Newest
<1>1. PICK n \in 0..MaxShells : shells \in [1..n -> Shell]
  BY DEF TypeOK
<1>2. n \in Nat /\ DOMAIN shells = 1..n
  BY <1>1, BoundsAssumption
<1>3. Newest = n
  BY <1>2, FS_Interval DEF Newest
<1> QED BY <1>1, <1>2, <1>3

LEMMA BeginHandles ==
    ASSUME TypeOK, NEW c \in Conns, NEW pc \in Handling, NEW id \in Ids,
           Begin(c, pc, id)
    PROVE  \E h : Handles(c, h) /\ h.pc = pc /\ h.id = id
<1> DEFINE h == [handler[c] EXCEPT !.pc = pc, !.id = id, !.reply = "none"]
<1>1. h \in Handler /\ h.pc = pc /\ h.id = id
  BY HandlerType DEF Handler
<1>2. handler' = [handler EXCEPT ![c] = h]
  BY DEF Begin
<1> HIDE DEF h
<1> QED BY <1>1, <1>2 DEF Handles

LEMMA GoesHandles ==
    ASSUME TypeOK, NEW c \in Conns, NEW pc \in Handling, HandlerGoes(c, pc)
    PROVE  \E h : Handles(c, h) /\ h.pc = pc /\ h.id = handler[c].id
<1> DEFINE h == [handler[c] EXCEPT !.pc = pc]
<1>1. h \in Handler /\ h.pc = pc /\ h.id = handler[c].id
  BY HandlerType DEF Handler
<1>2. handler' = [handler EXCEPT ![c] = h]
  BY DEF HandlerGoes
<1> HIDE DEF h
<1> QED BY <1>1, <1>2 DEF Handles

Replies == {"none", "not found", "failed to start", "failed to resize"}

LEMMA ReturnsHandles ==
    ASSUME NEW c \in Conns, NEW reply \in Replies, Returns(c, reply)
    PROVE  \E h : Handles(c, h) /\ h.pc = "idle"
<1>1. 0 \in 0..MaxShells /\ "idle" \in Handling \cup {"idle"} /\ None \in Ids \cup {None}
  BY BoundsAssumption
<1>2. Idle(reply) \in Handler
  BY <1>1 DEF Idle, Handler, Replies
<1>3. Idle(reply).pc = "idle"
  BY DEF Idle
<1> QED BY <1>2, <1>3 DEF Returns, Handles

(* A step of the events and handlers of c, and where it leaves the handler.*)
Acts(c) == HandlerStep(c) \/ \E id \in Ids : EventStep(c, id)

LEMMA EventHandles ==
    ASSUME TypeOK, NEW c \in Conns, NEW id \in Ids, EventStep(c, id)
    PROVE  /\ handler[c].pc = "idle"
           /\ \E h : /\ Handles(c, h) /\ h.id = id
                     /\ h.pc \in {"create", "find", "resize", "stop"}
                     /\ h.pc = "create" <=> CreateBegin(c, id)
<1>1. {"create", "find", "resize", "stop"} \subseteq Handling
  BY DEF Handling
<1>2. CASE CreateBegin(c, id)
  <2>1. Begin(c, "create", id)
    BY <1>2 DEF CreateBegin
  <2>2. handler[c].pc = "idle"
    BY <2>1 DEF Begin
  <2> QED BY <1>1, <1>2, <2>1, <2>2, BeginHandles
<1>3. ASSUME NEW pc \in {"find", "resize", "stop"}, Begin(c, pc, id), UNCHANGED owner,
             ~CreateBegin(c, id)
      PROVE  /\ handler[c].pc = "idle"
             /\ \E h : Handles(c, h) /\ h.id = id /\ h.pc = pc
  <2>1. handler[c].pc = "idle"
    BY <1>3 DEF Begin
  <2>2. pc \in Handling
    BY <1>1
  <2> QED BY <1>3, <2>1, <2>2, BeginHandles
<1> QED BY <1>2, <1>3 DEF EventStep, StartBegin, ResizeBegin, StopBegin

LEMMA StepHandles ==
    ASSUME TypeOK, NEW c \in Conns, HandlerStep(c)
    PROVE  /\ handler[c].pc # "idle"
           /\ \E h : /\ Handles(c, h)
                     /\ h.pc # "create"
                     /\ h.pc = "register" <=> StartShell(c)
                     /\ h.pc = "write" <=> Truncate(c)
                     /\ h.pc # "idle" => h.id = handler[c].id
                     /\ StartShell(c) => h.shell = Newest + 1
<1>1. {"truncate", "write", "launch"} \subseteq Handling
  BY DEF Handling
<1>2. CASE StartShell(c)
  <2> DEFINE h == [handler[c] EXCEPT !.pc = "register", !.shell = Newest + 1]
  <2>1. Newest + 1 \in 0..MaxShells
    BY <1>2, ShellsType, BoundsAssumption DEF StartShell
  <2>2. h \in Handler /\ h.pc = "register" /\ h.id = handler[c].id /\ h.shell = Newest + 1
    BY <2>1, HandlerType DEF Handler, Handling
  <2>3. handler' = [handler EXCEPT ![c] = h]
    BY <1>2 DEF StartShell
  <2>4. handler[c].pc = "launch" /\ ~Truncate(c)
    BY <1>2 DEF StartShell, Truncate
  <2> HIDE DEF h
  <2> QED BY <1>2, <2>2, <2>3, <2>4 DEF Handles
<1>3. CASE Truncate(c)
  <2>1. handler[c].pc = "truncate" /\ HandlerGoes(c, "write")
    BY <1>3 DEF Truncate
  <2>2. ~StartShell(c)
    BY <2>1 DEF StartShell
  <2> QED BY <1>1, <1>3, <2>1, <2>2, GoesHandles
<1>4. ASSUME ~StartShell(c), ~Truncate(c)
      PROVE  /\ handler[c].pc # "idle"
             /\ \E h : /\ Handles(c, h) /\ h.pc \in {"truncate", "launch", "idle"}
                       /\ h.pc # "idle" => h.id = handler[c].id
  <2>1. /\ handler[c].pc # "idle"
        /\ \/ HandlerGoes(c, "truncate") \/ HandlerGoes(c, "launch")
           \/ \E reply \in Replies : Returns(c, reply)
    BY <1>4, Zenon DEF HandlerStep, CreateStore, StartFind, CreateScriptFails, WriteScript,
       StartFails, Register, Resize, Stop, Replies
  <2> QED BY <1>1, <2>1, GoesHandles, ReturnsHandles
<1> QED BY <1>2, <1>3, <1>4

-----------------------------------------------------------------------------
(* Types.  A handler that runs has the id of its event.                    *)
Busy == \A c \in Conns : handler[c].pc # "idle" => handler[c].id \in Ids

LEMMA TypeInit == Init => TypeOK /\ Busy
<1> SUFFICES ASSUME Init PROVE TypeOK /\ Busy
  OBVIOUS
<1>1. 0 \in 0..MaxShells /\ 0 \in 0..MaxEvents
  BY BoundsAssumption
<1>2. handler \in [Conns -> Handler]
  <2>1. Idle("none") \in Handler
    BY <1>1 DEF Idle, Handler
  <2> QED BY <2>1 DEF Init
<1>3. closing \in [Conns -> Closing]
  <2>1. {} \in SUBSET Ids
    OBVIOUS
  <2>2. [pc |-> "open", ids |-> {}] \in Closing
    BY <2>1 DEF Closing
  <2> QED BY <2>2 DEF Init
<1>4. shells \in [1..0 -> Shell]
  BY DEF Init
<1>5. /\ consoleMap \in [Ids -> {Absent} \cup 0..MaxShells]
      /\ owner \in [Ids -> Conns \cup {None}]
      /\ route \in [Ids -> 0..MaxShells]
  BY <1>1 DEF Init
<1>6. Busy
  BY DEF Init, Idle, Busy
<1> QED BY <1>1, <1>2, <1>3, <1>4, <1>5, <1>6 DEF Init, TypeOK

(* What the steps of the handlers leave well typed besides handler.        *)
LEMMA ShellStarts ==
    ASSUME TypeOK, NEW c \in Conns, handler[c].id \in Ids, StartShell(c)
    PROVE  /\ Newest + 1 \in 0..MaxShells
           /\ shells' \in [1..(Newest + 1) -> Shell]
           /\ \A s \in 1..Newest : shells'[s] = shells[s]
           /\ shells'[Newest + 1].console = handler[c].id
           /\ shells'[Newest + 1].by = c
<1>1. Newest \in 0..MaxShells /\ shells \in [1..Newest -> Shell] /\ Newest < MaxShells
  BY ShellsType DEF StartShell
<1> DEFINE new == [console |-> handler[c].id, by |-> c, up |-> TRUE, init |-> "unread"]
           n == Newest
<1>2. new \in Shell /\ new.console = handler[c].id /\ new.by = c
  BY DEF Shell
<1>3. shells' = [s \in 1..(n + 1) |-> IF s <= n THEN shells[s] ELSE new]
  BY DEF StartShell
<1> HIDE DEF new, n
<1>4. n \in Nat /\ n + 1 \in 0..MaxShells /\ shells \in [1..n -> Shell]
  BY <1>1, BoundsAssumption DEF n
<1>5. /\ shells' \in [1..(n + 1) -> Shell]
      /\ \A s \in 1..n : shells'[s] = shells[s]
      /\ shells'[n + 1] = new
  BY <1>2, <1>3, <1>4
<1> QED BY <1>2, <1>4, <1>5 DEF n

LEMMA StepTypes ==
    ASSUME TypeOK, Busy, NEW c \in Conns, HandlerStep(c)
    PROVE  /\ consoleMap' \in [Ids -> {Absent} \cup 0..MaxShells]
           /\ route' \in [Ids -> 0..MaxShells]
           /\ \E n \in 0..MaxShells : shells' \in [1..n -> Shell]
           /\ script' \in {"none", "empty", "full"}
           /\ late' \subseteq Ids
           /\ UNCHANGED <<alive, owner, closing, reader, events>>
<1>1. handler[c] \in Handler /\ NoPty \in 0..MaxShells
  BY HandlerType, BoundsAssumption DEF NoPty
<1>2. handler[c].id \in Ids
  <2>1. handler[c].pc # "idle"
    BY StepHandles
  <2> QED BY <2>1 DEF Busy
<1>3. CASE CreateStore(c)
  <2>1. late' \subseteq Ids
    BY <1>2, <1>3 DEF CreateStore, TypeOK
  <2>2. consoleMap' \in [Ids -> {Absent} \cup 0..MaxShells]
    BY <1>1, <1>3 DEF CreateStore, TypeOK
  <2> QED BY <1>3, <2>1, <2>2 DEF CreateStore, TypeOK, shellVars
<1>4. CASE Stop(c)
  <2>1. consoleMap' \in [Ids -> {Absent} \cup 0..MaxShells]
    BY <1>4 DEF Stop, TypeOK
  <2> QED BY <1>4, <2>1 DEF Stop, TypeOK, shellVars
<1>5. CASE StartShell(c)
  <2>1. \E n \in 0..MaxShells : shells' \in [1..n -> Shell]
    BY <1>2, <1>5, ShellStarts
  <2> QED BY <1>5, <2>1 DEF StartShell, TypeOK, mapVars
<1>6. CASE Register(c)
  <2>1. handler[c].shell \in 0..MaxShells
    BY <1>1 DEF Handler
  <2> QED BY <1>6, <2>1 DEF Register, TypeOK, mapVars
<1>7. CASE Truncate(c) \/ WriteScript(c)
  BY <1>7 DEF Truncate, WriteScript, TypeOK, mapVars
<1>8. CASE StartFind(c) \/ CreateScriptFails(c) \/ StartFails(c) \/ Resize(c)
  BY <1>8 DEF StartFind, CreateScriptFails, StartFails, Resize, TypeOK, mapVars, shellVars
<1> QED BY <1>3, <1>4, <1>5, <1>6, <1>7, <1>8 DEF HandlerStep

LEMMA EventTypes ==
    ASSUME TypeOK, NEW c \in Conns, NEW id \in Ids, EventStep(c, id)
    PROVE  /\ owner' = [owner EXCEPT ![id] = IF CreateBegin(c, id) THEN c
                                                                    ELSE owner[id]]
           /\ events' \in 0..MaxEvents
           /\ UNCHANGED <<alive, consoleMap, route, shells, script, closing, reader, late>>
<1>1. \A pc : Begin(c, pc, id) =>
         /\ events' \in 0..MaxEvents
         /\ UNCHANGED <<alive, consoleMap, route, shells, script, closing, reader, late>>
  BY BoundsAssumption DEF Begin, TypeOK, shellVars
<1>2. CASE CreateBegin(c, id)
  BY <1>1, <1>2 DEF CreateBegin
<1>3. CASE ~CreateBegin(c, id)
  <2>1. UNCHANGED owner /\ \E pc : Begin(c, pc, id)
    BY <1>3 DEF EventStep, StartBegin, ResizeBegin, StopBegin
  <2> QED BY <1>1, <1>3, <2>1 DEF TypeOK
<1> QED BY <1>2, <1>3

LEMMA ShellSteps ==
    ASSUME TypeOK, NEW s \in DOMAIN shells, ShellInit(s) \/ ShellExit(s)
    PROVE  /\ shells' \in [1..Newest -> Shell]
           /\ \A q \in 1..Newest : /\ shells'[q].console = shells[q].console
                                   /\ shells'[q].by = shells[q].by
           /\ UNCHANGED <<alive, mapVars, route, script, handler, closing, reader, events>>
<1>1. shells \in [1..Newest -> Shell] /\ DOMAIN shells = 1..Newest
  BY ShellsType
<1>2. script \in {"none", "empty", "full"}
  BY DEF TypeOK
<1> DEFINE a == [shells[s] EXCEPT !.init = script]
           b == [shells[s] EXCEPT !.up = FALSE]
<1>3. /\ a \in Shell /\ a.console = shells[s].console /\ a.by = shells[s].by
      /\ b \in Shell /\ b.console = shells[s].console /\ b.by = shells[s].by
  <2>1. shells[s] \in Shell
    BY <1>1
  <2> QED BY <1>2, <2>1 DEF Shell
<1>4. \/ shells' = [shells EXCEPT ![s] = a]
      \/ shells' = [shells EXCEPT ![s] = b]
  BY DEF ShellInit, ShellExit
<1>5. UNCHANGED <<alive, mapVars, route, script, handler, closing, reader, events>>
  BY DEF ShellInit, ShellExit
<1> HIDE DEF a, b
<1> QED BY <1>1, <1>3, <1>4, <1>5

LEMMA ClosingTypes ==
    ASSUME TypeOK, NEW c \in Conns, ClosingStep(c)
    PROVE  /\ closing' \in [Conns -> Closing]
           /\ \A d \in Conns \ {c} : closing'[d] = closing[d]
           /\ consoleMap' \in [Ids -> {Absent} \cup 0..MaxShells]
           /\ UNCHANGED <<alive, owner, late, shellVars, handler, reader, events>>
<1>1. closing[c] \in Closing
  BY HandlerType
<1>2. ASSUME NEW ids \in SUBSET Ids, Delete1(c, ids)
      PROVE  /\ closing' \in [Conns -> Closing]
             /\ \A d \in Conns \ {c} : closing'[d] = closing[d]
  <2>1. [pc |-> IF ids = {} THEN "gone" ELSE "delete", ids |-> ids] \in Closing
    BY DEF Closing
  <2> QED BY <1>2, <2>1 DEF Delete1, TypeOK
<1>3. CASE Disconnect(c)
  <2>1. [closing[c] EXCEPT !.pc = "find"] \in Closing
    BY <1>1 DEF Closing
  <2>2. closing' = [closing EXCEPT ![c] = [closing[c] EXCEPT !.pc = "find"]]
    BY <1>3 DEF Disconnect
  <2> QED BY <1>3, <2>1, <2>2 DEF Disconnect, TypeOK, mapVars
<1>4. CASE FindIdsByConnectionId(c)
  <2>1. {id \in Ids : Present(id) /\ owner[id] = c} \in SUBSET Ids
    OBVIOUS
  <2> QED BY <1>2, <1>4, <2>1 DEF FindIdsByConnectionId, TypeOK, mapVars
<1>5. CASE DeleteConsole(c)
  <2>1. PICK id \in closing[c].ids :
           /\ consoleMap' = [consoleMap EXCEPT ![id] = Absent]
           /\ Delete1(c, closing[c].ids \ {id})
    BY <1>5 DEF DeleteConsole
  <2>2. closing[c].ids \ {id} \in SUBSET Ids
    BY <1>1 DEF Closing
  <2> QED BY <1>2, <1>5, <2>1, <2>2 DEF DeleteConsole, TypeOK
<1> QED BY <1>3, <1>4, <1>5 DEF ClosingStep

LEMMA HandlerStays ==
    ASSUME TypeOK, NEW c \in Conns, NEW h, Handles(c, h)
    PROVE  /\ handler' \in [Conns -> Handler] /\ handler'[c] = h
           /\ \A d \in Conns \ {c} : handler'[d] = handler[d]
BY DEF TypeOK, Handles

LEMMA TypeStep == TypeOK /\ Busy /\ [Next]_vars => TypeOK' /\ Busy'
<1> SUFFICES ASSUME TypeOK, Busy, [Next]_vars PROVE TypeOK' /\ Busy'
  OBVIOUS
<1>1. ASSUME NEW c \in Conns, NEW id \in Ids, EventStep(c, id) PROVE TypeOK' /\ Busy'
  <2>1. PICK h : Handles(c, h) /\ h.id = id
    BY <1>1, EventHandles
  <2>2. handler' \in [Conns -> Handler] /\ Busy'
    BY <2>1, HandlerStays DEF Busy
  <2>3. owner' \in [Ids -> Conns \cup {None}]
    <3>1. PICK x \in Conns \cup {None} : owner' = [owner EXCEPT ![id] = x]
      <4>1. owner[id] \in Conns \cup {None}
        BY DEF TypeOK
      <4> QED BY <1>1, <4>1, EventTypes
    <3> QED BY <3>1 DEF TypeOK
  <2> QED BY <1>1, <2>2, <2>3, EventTypes DEF TypeOK
<1>2. ASSUME NEW c \in Conns, HandlerStep(c) PROVE TypeOK' /\ Busy'
  <2>1. PICK h : Handles(c, h) /\ (h.pc # "idle" => h.id = handler[c].id)
    BY <1>2, StepHandles
  <2>2. handler[c].id \in Ids
    BY <1>2, StepHandles DEF Busy
  <2>3. handler' \in [Conns -> Handler] /\ Busy'
    BY <2>1, <2>2, HandlerStays DEF Busy
  <2> QED BY <1>2, <2>3, StepTypes DEF TypeOK
<1>3. ASSUME NEW c \in Conns, ClosingStep(c) PROVE TypeOK' /\ Busy'
  BY <1>3, ClosingTypes DEF TypeOK, Busy, shellVars
<1>4. ASSUME NEW s \in DOMAIN shells, ShellInit(s) \/ ShellExit(s) PROVE TypeOK' /\ Busy'
  BY <1>4, ShellSteps, ShellsType DEF TypeOK, Busy, mapVars
<1>5. ASSUME NEW u \in Readers, ReadBegin(u) \/ ReadEnd(u) PROVE TypeOK' /\ Busy'
  BY <1>5 DEF ReadBegin, ReadEnd, TypeOK, Busy, mapVars, shellVars
<1>6. CASE Abort \/ UNCHANGED vars
  BY <1>6 DEF Abort, vars, TypeOK, Busy, mapVars, shellVars
<1> QED BY <1>1, <1>2, <1>3, <1>4, <1>5, <1>6 DEF Next

(* Every connection, console and shell keeps to its type.                  *)
THEOREM TypeCorrect == Spec => []TypeOK
BY TypeInit, TypeStep, PTL DEF Spec

LEMMA TypeAlways == Spec => [](TypeOK /\ Busy)
BY TypeInit, TypeStep, PTL DEF Spec

-----------------------------------------------------------------------------
(* The race check.                                                         *)
LEMMA Dead == ASSUME ~alive, [Next]_vars PROVE UNCHANGED vars
<1>1. \A c \in Conns, id \in Ids : ~EventStep(c, id)
  BY DEF EventStep, CreateBegin, StartBegin, ResizeBegin, StopBegin, Begin
<1>2. \A c \in Conns : ~HandlerStep(c)
  BY DEF HandlerStep, CreateStore, StartFind, CreateScriptFails, Truncate, WriteScript,
     StartShell, StartFails, Register, Resize, Stop
<1>3. \A c \in Conns : ~ClosingStep(c)
  BY DEF ClosingStep, Disconnect, FindIdsByConnectionId, DeleteConsole
<1>4. /\ ~Abort /\ \A u \in Readers : ~(ReadBegin(u) \/ ReadEnd(u))
      /\ \A s \in DOMAIN shells : ~(ShellInit(s) \/ ShellExit(s))
  BY DEF Abort, ReadBegin, ReadEnd, ShellInit, ShellExit
<1> QED BY <1>1, <1>2, <1>3, <1>4, Zenon DEF Next

LEMMA CrashStep == TypeOK /\ Busy /\ CrashExplained /\ [Next]_vars => CrashExplained'
<1> SUFFICES ASSUME TypeOK, Busy, CrashExplained, [Next]_vars, ~alive'
             PROVE  CrashExplained'
  BY DEF CrashExplained
<1>1. CASE ~alive
  BY <1>1, Dead DEF vars, CrashExplained
<1>2. CASE alive
  <2>1. Abort
    <3>1. ASSUME NEW c \in Conns, NEW id \in Ids, EventStep(c, id) PROVE FALSE
      BY <1>2, <3>1, EventTypes
    <3>2. ASSUME NEW c \in Conns, HandlerStep(c) PROVE FALSE
      BY <1>2, <3>2, StepTypes
    <3>3. ASSUME NEW c \in Conns, ClosingStep(c) PROVE FALSE
      BY <1>2, <3>3, ClosingTypes
    <3>4. ASSUME NEW q \in DOMAIN shells, ShellInit(q) \/ ShellExit(q) PROVE FALSE
      BY <1>2, <3>4, ShellSteps
    <3>5. ASSUME NEW u \in Readers, ReadBegin(u) \/ ReadEnd(u) PROVE FALSE
      BY <1>2, <3>5 DEF ReadBegin, ReadEnd
    <3>6. CASE UNCHANGED vars
      BY <1>2, <3>6 DEF vars
    <3> QED BY <3>1, <3>2, <3>3, <3>4, <3>5, <3>6 DEF Next
  <2>2. PICK a \in Actors : Writes(a)
    BY <2>1 DEF Abort, Race
  <2>3. a.who \in {"handler", "closing"} => a.of \in Conns
    BY DEF Actors
  <2>4. \E c \in Conns : handler[c].pc \in {"create", "stop"} \/ closing[c].pc = "delete"
    BY <2>2, <2>3 DEF Writes
  <2> QED BY <2>1, <2>4 DEF Abort, CrashExplained
<1> QED BY <1>1, <1>2

(* However many connections start and resize consoles while the HTTP API   *)
(* lists them, the process dies only with a create, a stop or a disconnect *)
(* that forgets consoles under way.                                        *)
THEOREM CrashIsExplained == Spec => []CrashExplained
<1>1. TypeOK /\ Busy /\ CrashExplained /\ [Next]_vars => CrashExplained'
  BY CrashStep
<1>2. Init => CrashExplained
  BY DEF Init, CrashExplained
<1> QED BY <1>1, <1>2, TypeAlways, PTL DEF Spec

-----------------------------------------------------------------------------
(* init.bash is empty only while a start writes it.                        *)
ScriptInv == script = "empty" => \E c \in Conns : handler[c].pc = "write"

LEMMA ScriptStep == TypeOK /\ Busy /\ ScriptInv /\ [Next]_vars => ScriptInv'
<1> SUFFICES ASSUME TypeOK, Busy, ScriptInv, [Next]_vars, script' = "empty"
             PROVE  \E c \in Conns : handler'[c].pc = "write"
  BY DEF ScriptInv
<1>1. ASSUME NEW c \in Conns, NEW h, Handles(c, h), UNCHANGED script, handler[c].pc # "write"
      PROVE  \E d \in Conns : handler'[d].pc = "write"
  <2>1. PICK d \in Conns : handler[d].pc = "write"
    BY <1>1 DEF ScriptInv
  <2> QED BY <1>1, <2>1, HandlerStays
<1>2. ASSUME NEW c \in Conns, NEW id \in Ids, EventStep(c, id)
      PROVE  \E d \in Conns : handler'[d].pc = "write"
  <2>1. UNCHANGED script /\ handler[c].pc = "idle" /\ \E h : Handles(c, h)
    BY <1>2, EventTypes, EventHandles
  <2> QED BY <1>1, <2>1
<1>3. ASSUME NEW c \in Conns, HandlerStep(c)
      PROVE  \E d \in Conns : handler'[d].pc = "write"
  <2>1. CASE Truncate(c)
    BY <1>3, <2>1, StepHandles, HandlerStays
  <2>2. CASE WriteScript(c)
    BY <2>2 DEF WriteScript
  <2>3. CASE ~Truncate(c) /\ ~WriteScript(c)
    <3>1. UNCHANGED script /\ handler[c].pc # "write"
      BY <1>3, <2>3 DEF HandlerStep, CreateStore, StartFind, CreateScriptFails, StartShell,
         StartFails, Register, Resize, Stop, shellVars
    <3>2. \E h : Handles(c, h)
      BY <1>3, StepHandles
    <3> QED BY <1>1, <3>1, <3>2
  <2> QED BY <2>1, <2>2, <2>3
<1>4. CASE UNCHANGED <<script, handler>>
  BY <1>4 DEF ScriptInv
<1>5. ASSUME NEW c \in Conns, ClosingStep(c) PROVE UNCHANGED <<script, handler>>
  BY <1>5, ClosingTypes DEF shellVars
<1>6. ASSUME NEW q \in DOMAIN shells, ShellInit(q) \/ ShellExit(q)
      PROVE  UNCHANGED <<script, handler>>
  BY <1>6, ShellSteps
<1>7. CASE Abort \/ UNCHANGED vars \/ \E u \in Readers : ReadBegin(u) \/ ReadEnd(u)
  BY <1>4, <1>7 DEF Abort, vars, ReadBegin, ReadEnd, shellVars
<1> QED BY <1>2, <1>3, <1>4, <1>5, <1>6, <1>7 DEF Next

LEMMA BareStep ==
    ASSUME TypeOK, Busy, ScriptInv, [Next]_vars, NEW s \in DOMAIN shells,
           shells[s].init = "unread", shells'[s].init = "empty"
    PROVE  \E c \in Conns : handler[c].pc = "write"
<1>1. s \in 1..Newest /\ Newest \in Nat
  BY ShellsType, BoundsAssumption
<1>2. CASE shells'[s] = shells[s]
  BY <1>2
<1>3. ASSUME NEW c \in Conns, HandlerStep(c) PROVE shells'[s] = shells[s]
  <2>1. CASE StartShell(c)
    <3>1. handler[c].id \in Ids
      BY <1>3, StepHandles DEF Busy
    <3> QED BY <1>1, <2>1, <3>1, ShellStarts
  <2>2. CASE ~StartShell(c)
    BY <1>3, <2>2 DEF HandlerStep, CreateStore, StartFind, CreateScriptFails, Truncate,
       WriteScript, StartFails, Register, Resize, Stop, shellVars
  <2> QED BY <2>1, <2>2
<1>4. ASSUME NEW c \in Conns, NEW id \in Ids, EventStep(c, id) PROVE UNCHANGED shells
  BY <1>4, EventTypes
<1>5. ASSUME NEW c \in Conns, ClosingStep(c) PROVE UNCHANGED shells
  BY <1>5, ClosingTypes DEF shellVars
<1>6. ASSUME NEW q \in DOMAIN shells, ShellExit(q) PROVE shells'[s].init = shells[s].init
  <2>1. shells' = [shells EXCEPT ![q] = [shells[q] EXCEPT !.up = FALSE]]
    BY <1>6 DEF ShellExit
  <2>2. shells \in [1..Newest -> Shell] /\ q \in 1..Newest
    BY <1>6, ShellsType
  <2>3. shells[q] \in Shell
    BY <2>2
  <2>4. [shells[q] EXCEPT !.up = FALSE].init = shells[q].init
    BY <2>3 DEF Shell
  <2> QED BY <1>1, <2>1, <2>2, <2>4
<1>7. ASSUME NEW q \in DOMAIN shells, ShellInit(q)
      PROVE  (q # s /\ shells'[s] = shells[s]) \/ script = "empty"
  <2>1. shells' = [shells EXCEPT ![q] = [shells[q] EXCEPT !.init = script]]
    BY <1>7 DEF ShellInit
  <2>2. shells \in [1..Newest -> Shell] /\ q \in 1..Newest
    BY <1>7, ShellsType
  <2>3. shells[q] \in Shell
    BY <2>2
  <2>4. [shells[q] EXCEPT !.init = script].init = script
    BY <2>3 DEF Shell
  <2> QED BY <1>1, <2>1, <2>2, <2>4
<1>8. CASE Abort \/ UNCHANGED vars \/ \E u \in Readers : ReadBegin(u) \/ ReadEnd(u)
  BY <1>2, <1>8 DEF Abort, vars, ReadBegin, ReadEnd, shellVars
<1>9. script = "empty" => \E c \in Conns : handler[c].pc = "write"
  BY DEF ScriptInv
<1> QED BY <1>2, <1>3, <1>4, <1>5, <1>6, <1>7, <1>8, <1>9 DEF Next

(* A shell comes up without its commands and its prompt only while another *)
(* start is between truncating init.bash and writing it.                   *)
THEOREM BareIsExplained == Spec => BareExplained
<1>1. TypeOK /\ Busy /\ ScriptInv /\ [Next]_vars => ScriptInv'
  BY ScriptStep
<1>2. Init => ScriptInv
  BY DEF Init, ScriptInv
<1>3. TypeOK /\ Busy /\ ScriptInv /\ [Next]_vars =>
         [\A s \in DOMAIN shells :
             shells[s].init = "unread" /\ shells'[s].init = "empty"
             => \E c \in Conns : handler[c].pc = "write"]_vars
  BY BareStep
<1> QED BY <1>1, <1>2, <1>3, TypeAlways, PTL DEF Spec, BareExplained

-----------------------------------------------------------------------------
(* What a disconnect leaves behind: from the moment removeConsoles has     *)
(* looked the ids of a connection up, a console of it in the map is still  *)
(* to be deleted or came late.                                             *)
Known(c, id) == \/ id \in late
                \/ closing[c].pc = "delete" /\ id \in closing[c].ids

Looked(c) ==
    closing[c].pc \in {"delete", "gone"} =>
        \A id \in Ids : Present(id) /\ owner[id] = c => Known(c, id)

Owned(id) == Present(id) => owner[id] \in Conns
Creates(c) == handler[c].pc = "create" => owner[handler[c].id] = c

LeftInv == /\ \A c \in Conns : Looked(c) /\ Creates(c)
           /\ \A id \in Ids : Owned(id)

LEMMA LeftInit == Init => LeftInv
BY DEF Init, LeftInv, Looked, Creates, Owned, Present, Idle

LEMMA LeftImplies == LeftInv => LeftBehind
BY DEF LeftInv, Looked, Owned, Known, LeftBehind

(* Steps that leave the consoles and the disconnects as they are.          *)
LEMMA LeftFrame ==
    ASSUME LeftInv, UNCHANGED <<consoleMap, owner, late, closing>>,
           \A c \in Conns : Creates(c)'
    PROVE  LeftInv'
BY DEF LeftInv, Looked, Owned, Known, Present

LEMMA LeftEvent ==
    ASSUME TypeOK, Busy, LeftInv, NEW c \in Conns, NEW id \in Ids, EventStep(c, id)
    PROVE  LeftInv'
<1>1. PICK h : /\ Handles(c, h) /\ h.id = id
               /\ h.pc = "create" <=> CreateBegin(c, id)
  BY EventHandles
<1>2. /\ owner' = [owner EXCEPT ![id] = IF CreateBegin(c, id) THEN c ELSE owner[id]]
      /\ UNCHANGED <<consoleMap, late, closing>>
  BY EventTypes
<1>3. /\ handler'[c] = h
      /\ \A d \in Conns \ {c} : handler'[d] = handler[d]
  BY <1>1, HandlerStays
<1>4. CASE ~CreateBegin(c, id)
  <2>1. UNCHANGED owner
    BY <1>2, <1>4 DEF TypeOK
  <2>2. \A d \in Conns : Creates(d)'
    BY <1>1, <1>3, <1>4, <2>1 DEF LeftInv, Creates
  <2> QED BY <1>2, <2>1, <2>2, LeftFrame
<1>5. CASE CreateBegin(c, id)
  <2>1. owner[id] = None /\ ~Present(id)
    BY <1>5, NoneAssumption DEF CreateBegin, LeftInv, Owned
  <2>2. owner'[id] = c /\ \A i \in Ids \ {id} : owner'[i] = owner[i]
    BY <1>2, <1>5 DEF TypeOK
  <2>3. \A i \in Ids : Present(i)' <=> Present(i)
    BY <1>2 DEF Present
  <2>4. \A d \in Conns : Creates(d)'
    <3>1. Creates(c)'
      BY <1>1, <1>3, <2>2 DEF Creates
    <3>2. ASSUME NEW d \in Conns \ {c}, handler[d].pc = "create"
          PROVE  owner'[handler[d].id] = d
      <4>1. handler[d].id \in Ids /\ owner[handler[d].id] = d
        BY <3>2 DEF Busy, LeftInv, Creates
      <4>2. handler[d].id # id
        BY <2>1, <4>1, NoneAssumption
      <4> QED BY <2>2, <4>1, <4>2
    <3> QED BY <1>3, <3>1, <3>2 DEF Creates
  <2>5. \A i \in Ids : Owned(i)'
    BY <2>1, <2>2, <2>3 DEF Owned, LeftInv
  <2>6. \A d \in Conns : Looked(d)'
    BY <1>2, <2>1, <2>2, <2>3 DEF Looked, Known, LeftInv
  <2> QED BY <2>4, <2>5, <2>6 DEF LeftInv
<1> QED BY <1>4, <1>5

LEMMA LeftHandler ==
    ASSUME TypeOK, Busy, LeftInv, NEW c \in Conns, HandlerStep(c)
    PROVE  LeftInv'
<1>1. PICK h : Handles(c, h) /\ h.pc # "create"
  BY StepHandles
<1>2. UNCHANGED <<owner, closing>>
  BY StepTypes
<1>3. handler'[c] = h /\ \A d \in Conns \ {c} : handler'[d] = handler[d]
  BY <1>1, HandlerStays
<1>4. \A d \in Conns : Creates(d)'
  BY <1>1, <1>2, <1>3 DEF LeftInv, Creates
<1>5. handler[c].id \in Ids
  BY StepHandles DEF Busy
<1> DEFINE id == handler[c].id
<1>6. CASE CreateStore(c)
  <2>1. owner[id] = c
    BY <1>6 DEF CreateStore, LeftInv, Creates
  <2>2. /\ \A i \in Ids \ {id} : consoleMap'[i] = consoleMap[i]
        /\ late \subseteq late'
        /\ closing[c].pc \in {"delete", "gone"} => id \in late'
    BY <1>6 DEF CreateStore, TypeOK
  <2>3. \A i \in Ids : Owned(i)'
    BY <1>2, <2>1, <2>2 DEF LeftInv, Owned, Present
  <2>4. \A d \in Conns : Looked(d)'
    BY <1>2, <2>1, <2>2 DEF LeftInv, Looked, Known, Present
  <2> QED BY <1>4, <2>3, <2>4 DEF LeftInv
<1>7. CASE Stop(c)
  <2>1. /\ UNCHANGED late
        /\ \A i \in Ids : consoleMap'[i] \in {consoleMap[i], Absent}
    BY <1>7 DEF Stop, TypeOK
  <2>2. \A i \in Ids : Present(i)' => Present(i)
    BY <2>1 DEF Present
  <2> QED BY <1>2, <1>4, <2>1, <2>2 DEF LeftInv, Looked, Known, Owned
<1>8. CASE ~CreateStore(c) /\ ~Stop(c)
  <2>1. UNCHANGED <<consoleMap, late>>
    BY <1>8 DEF HandlerStep, StartFind, CreateScriptFails, Truncate, WriteScript,
       StartShell, StartFails, Register, Resize, mapVars
  <2> QED BY <1>2, <1>4, <2>1, LeftFrame
<1> QED BY <1>6, <1>7, <1>8

LEMMA LeftClosing ==
    ASSUME TypeOK, LeftInv, NEW c \in Conns, ClosingStep(c)
    PROVE  LeftInv'
<1>1. /\ UNCHANGED <<owner, late, handler>>
      /\ \A d \in Conns \ {c} : closing'[d] = closing[d]
  BY ClosingTypes
<1>2. \A d \in Conns : Creates(d)'
  BY <1>1 DEF LeftInv, Creates
<1>3. ASSUME NEW ids, Delete1(c, ids)
      PROVE  /\ closing'[c].pc \in {"delete", "gone"} /\ closing'[c].ids = ids
             /\ ids # {} => closing'[c].pc = "delete"
  <2>1. closing'[c] = [pc |-> IF ids = {} THEN "gone" ELSE "delete", ids |-> ids]
    BY <1>3 DEF Delete1, TypeOK
  <2> QED BY <2>1
<1>4. ASSUME \A i \in Ids : Present(i)' => Present(i), Looked(c)' PROVE LeftInv'
  <2>1. \A d \in Conns \ {c} : Looked(d)'
    BY <1>1, <1>4 DEF LeftInv, Looked, Known
  <2>2. \A i \in Ids : Owned(i)'
    BY <1>1, <1>4 DEF LeftInv, Owned
  <2> QED BY <1>2, <1>4, <2>1, <2>2 DEF LeftInv
<1>5. CASE Disconnect(c)
  <2>1. closing'[c].pc = "find"
    <3>1. closing'[c] = [closing[c] EXCEPT !.pc = "find"]
      BY <1>5 DEF Disconnect, TypeOK
    <3> QED BY <3>1, HandlerType DEF Closing
  <2>2. \A i \in Ids : Present(i)' => Present(i)
    BY <1>5 DEF Disconnect, mapVars, Present
  <2> QED BY <1>4, <2>1, <2>2 DEF Looked
<1>6. CASE FindIdsByConnectionId(c)
  <2>1. /\ closing'[c].ids = {i \in Ids : Present(i) /\ owner[i] = c}
        /\ closing'[c].ids # {} => closing'[c].pc = "delete"
    BY <1>3, <1>6 DEF FindIdsByConnectionId
  <2>2. \A i \in Ids : Present(i)' => Present(i)
    BY <1>6 DEF FindIdsByConnectionId, mapVars, Present
  <2>3. Looked(c)'
    BY <1>1, <2>1, <2>2 DEF Looked, Known
  <2> QED BY <1>4, <2>2, <2>3
<1>7. CASE DeleteConsole(c)
  <2>1. PICK i \in closing[c].ids :
           /\ consoleMap' = [consoleMap EXCEPT ![i] = Absent]
           /\ Delete1(c, closing[c].ids \ {i})
    BY <1>7 DEF DeleteConsole
  <2>2. i \in Ids /\ closing[c].pc = "delete"
    BY <1>7, <2>1, HandlerType DEF DeleteConsole, Closing
  <2>3. /\ closing'[c].ids = closing[c].ids \ {i}
        /\ closing'[c].ids # {} => closing'[c].pc = "delete"
    BY <1>3, <2>1
  <2>4. ~Present(i)' /\ \A j \in Ids \ {i} : Present(j)' <=> Present(j)
    BY <2>1, <2>2 DEF Present, TypeOK
  <2>5. Looked(c)'
    BY <1>1, <2>2, <2>3, <2>4 DEF LeftInv, Looked, Known
  <2> QED BY <1>4, <2>4, <2>5
<1> QED BY <1>5, <1>6, <1>7 DEF ClosingStep

LEMMA LeftStep == TypeOK /\ Busy /\ LeftInv /\ [Next]_vars => LeftInv'
<1> SUFFICES ASSUME TypeOK, Busy, LeftInv, [Next]_vars PROVE LeftInv'
  OBVIOUS
<1>1. ASSUME UNCHANGED <<consoleMap, owner, late, closing, handler>> PROVE LeftInv'
  BY <1>1, LeftFrame DEF LeftInv, Creates
<1>2. ASSUME NEW q \in DOMAIN shells, ShellInit(q) \/ ShellExit(q) PROVE LeftInv'
  BY <1>1, <1>2, ShellSteps DEF mapVars
<1>3. CASE Abort \/ UNCHANGED vars \/ \E u \in Readers : ReadBegin(u) \/ ReadEnd(u)
  BY <1>1, <1>3 DEF Abort, vars, ReadBegin, ReadEnd, mapVars
<1> QED BY <1>2, <1>3, LeftEvent, LeftHandler, LeftClosing DEF Next

(* Once the disconnect of a connection is done, the map holds none of its  *)
(* consoles but those whose create still ran when they were looked up.     *)
THEOREM LeftBehindIsLate == Spec => []LeftBehind
<1>1. TypeOK /\ Busy /\ LeftInv /\ [Next]_vars => LeftInv'
  BY LeftStep
<1>2. Init => LeftInv
  BY LeftInit
<1> QED BY <1>1, <1>2, LeftImplies, TypeAlways, PTL DEF Spec

-----------------------------------------------------------------------------
(* Where the input of a console goes.  While a connection registers the    *)
(* shell it has started, no later shell of that console is its own.        *)
Registering(c) ==
    handler[c].pc = "register" =>
        /\ handler[c].shell \in DOMAIN shells
        /\ shells[handler[c].shell].console = handler[c].id
        /\ shells[handler[c].shell].by = c

Alone(c, id) == \A s \in DOMAIN shells : shells[s].console = id => shells[s].by = c

LastKnown(c, id) == IF handler[c].pc = "register" /\ handler[c].id = id
                    THEN handler[c].shell ELSE route[id]

Routed(c, id) ==
    Alone(c, id) =>
        \A s \in DOMAIN shells : shells[s].console = id => s <= LastKnown(c, id)

RouteInv == /\ \A c \in Conns : Registering(c)
            /\ \A c \in Conns, id \in Ids : Routed(c, id)

LEMMA RouteInit == Init => RouteInv
<1> SUFFICES ASSUME Init PROVE RouteInv
  OBVIOUS
<1>1. DOMAIN shells = {}
  BY DEF Init
<1>2. \A c \in Conns : handler[c].pc = "idle"
  BY DEF Init, Idle
<1> QED BY <1>1, <1>2 DEF RouteInv, Registering, Routed

LEMMA RouteImplies == RouteInv => RouteIsNewest
<1> SUFFICES ASSUME RouteInv, NEW id \in Ids, NEW c \in Conns, StartedBy(id) \subseteq {c},
                    ~ (handler[c].pc = "register" /\ handler[c].id = id),
                    NEW s \in DOMAIN shells, shells[s].console = id
             PROVE  s <= route[id]
  BY DEF RouteIsNewest
<1>1. Alone(c, id)
  BY DEF StartedBy, Alone
<1> QED BY <1>1 DEF RouteInv, Routed, LastKnown

(* Steps that neither start nor register a shell.                          *)
LEMMA RouteFrame ==
    ASSUME RouteInv, UNCHANGED route, DOMAIN shells' = DOMAIN shells,
           \A s \in DOMAIN shells : /\ shells'[s].console = shells[s].console
                                    /\ shells'[s].by = shells[s].by,
           \A d \in Conns : \/ handler'[d] = handler[d]
                            \/ handler[d].pc # "register" /\ handler'[d].pc # "register"
    PROVE  RouteInv'
<1>1. \A d \in Conns : Registering(d)'
  BY DEF RouteInv, Registering
<1>2. ASSUME NEW d \in Conns, NEW id \in Ids PROVE Routed(d, id)'
  <2>1. LastKnown(d, id)' = LastKnown(d, id)
    BY DEF LastKnown
  <2>2. Alone(d, id)' <=> Alone(d, id)
    BY DEF Alone
  <2>3. Routed(d, id)
    BY DEF RouteInv
  <2> QED BY <2>1, <2>2, <2>3 DEF Routed
<1> QED BY <1>1, <1>2 DEF RouteInv

LEMMA RouteStart ==
    ASSUME TypeOK, Busy, RouteInv, NEW c \in Conns, StartShell(c)
    PROVE  RouteInv'
<1> DEFINE n == Newest
           id == handler[c].id
<1>1. HandlerStep(c)
  BY DEF HandlerStep
<1>2. PICK h : /\ Handles(c, h) /\ h.pc = "register" /\ h.id = id /\ h.shell = n + 1
  BY <1>1, StepHandles
<1>3. handler'[c] = h /\ \A d \in Conns \ {c} : handler'[d] = handler[d]
  BY <1>2, HandlerStays
<1>4. id \in Ids /\ handler[c].pc = "launch" /\ UNCHANGED route
  BY <1>1, StepHandles DEF Busy, StartShell
<1>5. /\ n \in Nat /\ DOMAIN shells = 1..n /\ DOMAIN shells' = 1..(n + 1)
      /\ \A s \in 1..n : shells'[s] = shells[s]
      /\ shells'[n + 1].console = id /\ shells'[n + 1].by = c
  BY <1>4, ShellsType, ShellStarts, BoundsAssumption
<1> HIDE DEF n, id
<1>6. \A d \in Conns : Registering(d)'
  BY <1>2, <1>3, <1>5 DEF RouteInv, Registering
<1>7. ASSUME NEW d \in Conns, NEW i \in Ids PROVE Routed(d, i)'
  <2>1. CASE i = id
    <3>1. CASE d = c
      <4>1. LastKnown(d, i)' = n + 1
        BY <1>2, <1>3, <2>1, <3>1 DEF LastKnown
      <4> QED BY <1>5, <4>1 DEF Routed
    <3>2. CASE d # c
      BY <1>5, <2>1, <3>2 DEF Routed, Alone
    <3> QED BY <3>1, <3>2
  <2>2. CASE i # id
    <3>1. LastKnown(d, i)' = LastKnown(d, i)
      BY <1>2, <1>3, <1>4, <2>2 DEF LastKnown
    <3>2. Alone(d, i)' <=> Alone(d, i)
      BY <1>5, <2>2 DEF Alone
    <3>3. Routed(d, i)
      BY DEF RouteInv
    <3> QED BY <1>5, <2>2, <3>1, <3>2, <3>3 DEF Routed
  <2> QED BY <2>1, <2>2
<1> QED BY <1>6, <1>7 DEF RouteInv

LEMMA RouteRegister ==
    ASSUME TypeOK, Busy, RouteInv, NEW c \in Conns, Register(c)
    PROVE  RouteInv'
<1> DEFINE id == handler[c].id
<1>1. HandlerStep(c) /\ ~StartShell(c)
  BY DEF HandlerStep, Register, StartShell
<1>2. PICK h : Handles(c, h) /\ h.pc # "register"
  BY <1>1, StepHandles
<1>3. handler'[c] = h /\ \A d \in Conns \ {c} : handler'[d] = handler[d]
  BY <1>2, HandlerStays
<1>4. /\ id \in Ids /\ handler[c].pc = "register" /\ UNCHANGED shells
      /\ route'[id] = handler[c].shell
      /\ \A i \in Ids \ {id} : route'[i] = route[i]
  BY <1>1, StepHandles DEF Busy, Register, TypeOK
<1>5. /\ handler[c].shell \in DOMAIN shells
      /\ shells[handler[c].shell].console = id
      /\ shells[handler[c].shell].by = c
  BY <1>4 DEF RouteInv, Registering
<1>6. \A d \in Conns : Registering(d)'
  BY <1>2, <1>3, <1>4 DEF RouteInv, Registering
<1>7. ASSUME NEW d \in Conns, NEW i \in Ids PROVE Routed(d, i)'
  <2>1. Alone(d, i)' <=> Alone(d, i)
    BY <1>4 DEF Alone
  <2>2. CASE i = id /\ d # c
    <3>1. ~Alone(d, i)
      BY <1>5, <2>2 DEF Alone
    <3> QED BY <2>1, <3>1 DEF Routed
  <2>3. CASE i # id \/ d = c
    <3>1. LastKnown(d, i)' = LastKnown(d, i)
      BY <1>2, <1>3, <1>4, <2>3 DEF LastKnown
    <3>2. Routed(d, i)
      BY DEF RouteInv
    <3> QED BY <1>4, <2>1, <3>1, <3>2 DEF Routed
  <2> QED BY <2>2, <2>3
<1> QED BY <1>6, <1>7 DEF RouteInv

LEMMA RouteStep == TypeOK /\ Busy /\ RouteInv /\ [Next]_vars => RouteInv'
<1> SUFFICES ASSUME TypeOK, Busy, RouteInv, [Next]_vars PROVE RouteInv'
  OBVIOUS
<1>1. ASSUME UNCHANGED <<route, shells, handler>> PROVE RouteInv'
  BY <1>1, RouteFrame
<1>2. ASSUME NEW c \in Conns, NEW h, Handles(c, h), UNCHANGED <<route, shells>>,
             handler[c].pc # "register", h.pc # "register"
      PROVE  RouteInv'
  BY <1>2, HandlerStays, RouteFrame
<1>3. ASSUME NEW c \in Conns, NEW id \in Ids, EventStep(c, id) PROVE RouteInv'
  <2>1. PICK h : Handles(c, h) /\ h.pc \in {"create", "find", "resize", "stop"}
    BY <1>3, EventHandles
  <2>2. handler[c].pc = "idle" /\ UNCHANGED <<route, shells>>
    BY <1>3, EventHandles, EventTypes
  <2> QED BY <1>2, <2>1, <2>2
<1>4. ASSUME NEW c \in Conns, HandlerStep(c) PROVE RouteInv'
  <2>1. CASE ~StartShell(c) /\ ~Register(c)
    <3>1. handler[c].pc # "register" /\ UNCHANGED <<route, shells>>
      BY <1>4, <2>1 DEF HandlerStep, CreateStore, StartFind, CreateScriptFails, Truncate,
         WriteScript, StartFails, Resize, Stop, shellVars
    <3>2. \E h : Handles(c, h) /\ h.pc # "register"
      BY <1>4, <2>1, StepHandles
    <3> QED BY <1>2, <3>1, <3>2
  <2> QED BY <2>1, RouteStart, RouteRegister
<1>5. ASSUME NEW c \in Conns, ClosingStep(c) PROVE RouteInv'
  BY <1>1, <1>5, ClosingTypes DEF shellVars
<1>6. ASSUME NEW q \in DOMAIN shells, ShellInit(q) \/ ShellExit(q) PROVE RouteInv'
  <2>1. DOMAIN shells' = DOMAIN shells /\ DOMAIN shells = 1..Newest
    BY <1>6, ShellSteps, ShellsType
  <2> QED BY <1>6, <2>1, ShellSteps, RouteFrame
<1>7. CASE Abort \/ UNCHANGED vars \/ \E u \in Readers : ReadBegin(u) \/ ReadEnd(u)
  BY <1>1, <1>7 DEF Abort, vars, ReadBegin, ReadEnd, shellVars
<1> QED BY <1>3, <1>4, <1>5, <1>6, <1>7 DEF Next

(* A console that one connection alone has started, and is not starting    *)
(* now, takes its input to the shell started last.                         *)
THEOREM RouteToNewest == Spec => []RouteIsNewest
<1>1. TypeOK /\ Busy /\ RouteInv /\ [Next]_vars => RouteInv'
  BY RouteStep
<1>2. Init => RouteInv
  BY RouteInit
<1> QED BY <1>1, <1>2, RouteImplies, TypeAlways, PTL DEF Spec
=============================================================================
