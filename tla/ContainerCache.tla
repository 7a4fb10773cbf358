--------------------------- MODULE ContainerCache ---------------------------
(***************************************************************************)
(* The per-service cache of the last container inspected                   *)
(* (service/core/single_container_service.go) and the goroutine that       *)
(* keeps it up to date from Docker's event stream (service/manager.go).    *)
(*                                                                         *)
(* Three kinds of goroutine run here: one initContainer per service, the   *)
(* one event loop of the manager, and callers of WaitContainer and         *)
(* WaitContainerRunning.  Docker itself changes under them.  Every inspect *)
(* is a step of its own, apart from the setContainer that follows it.      *)
(***************************************************************************)
EXTENDS Integers, Sequences

CONSTANTS
    Services,   \* every service of the manager, the proxy itself included
    Listeners,  \* the services registered as Docker event listeners
    Waiters,    \* goroutines that wait for a container
    MaxVer,     \* bound: changes of one container name in Docker
    MaxFaults   \* bound: Docker API calls and event streams that fail

ASSUME ServicesAssumption == Services # {} /\ Listeners \subseteq Services
ASSUME BoundsAssumption == MaxVer \in Nat \ {0} /\ MaxFaults \in Nat

VARIABLES
    docker,    \* docker[s]: what Docker has under the name of s now
    events,    \* Docker events on their way to the loop
    sub,       \* the event stream: "off", "on" or "broken"
    cache,     \* cache[s]: the field container of the service
    initGo,    \* initGo[s]: where initContainer of s is
    initSnap,  \* initSnap[s]: what initContainer of s read
    loop,      \* where listenForDockerEvents is
    ev,        \* the event the loop is handling
    snap,      \* what the loop has inspected and not yet stored
    waiter,    \* waiter[w]: [pc, svc, cond]
    faults     \* failures so far

loopVars   == <<loop, ev, snap>>
initVars   == <<initGo, initSnap>>
dockerVars == <<docker, events>>
vars == <<docker, events, sub, cache, initGo, initSnap, loop, ev, snap,
          waiter, faults>>

-----------------------------------------------------------------------------
(* Data.  A container is told apart from every other by the version of its *)
(* name at which it was created, its id; ver counts the changes Docker     *)
(* made under the name.                                                    *)

Status    == {"none", "created", "running", "exited"}
Container == [ver : 0..MaxVer, id : 0..MaxVer, status : Status]
Nil       == [ver |-> 0, id |-> 0, status |-> "none"]
Exists(c) == c.status # "none"

Event   == [kind : {"create", "start", "die", "destroy"},
            svc : Services, id : 0..MaxVer]
NoEvent == [kind |-> "create", svc |-> CHOOSE s \in Services : TRUE, id |-> 0]

(* A goroutine that waits for nothing.                                     *)
Away == [pc |-> "idle", svc |-> NoEvent.svc, cond |-> "created"]

(* The conditions of WaitContainer and WaitContainerRunning.               *)
Satisfies(c, cond) == IF cond = "created" THEN Exists(c)
                                          ELSE c.status = "running"

TypeOK ==
    /\ docker \in [Services -> Container]
    /\ events \in Seq(Event)
    /\ sub \in {"off", "on", "broken"}
    /\ cache \in [Services -> Container]
    /\ initGo \in [Services -> {"inspect", "set", "done"}]
    /\ initSnap \in [Services -> Container]
    /\ loop \in {"idle", "resolve", "match", "inspect", "set"}
    /\ ev \in Event
    /\ snap \in Container
    /\ waiter \in [Waiters -> [pc : {"idle", "check", "asleep"},
                               svc : Services, cond : {"created", "running"}]]
    /\ faults \in 0..MaxFaults

Init ==
    /\ docker \in [Services -> {Nil} \cup
                     {[ver |-> 1, id |-> 1, status |-> st] :
                         st \in {"created", "running", "exited"}}]
    /\ events = <<>>
    /\ sub = "off"
    /\ cache = [s \in Services |-> Nil]
    /\ initGo = [s \in Services |-> "inspect"]
    /\ initSnap = [s \in Services |-> Nil]
    /\ loop = "idle" /\ ev = NoEvent /\ snap = Nil
    /\ waiter = [w \in Waiters |-> Away]
    /\ faults = 0

-----------------------------------------------------------------------------
(* Docker.  An event reaches the loop only when it is subscribed.          *)

Change(s, kind, id, status) ==
    /\ docker[s].ver < MaxVer
    /\ docker' = [docker EXCEPT ![s] = [ver |-> docker[s].ver + 1,
                     id |-> IF kind = "destroy" THEN 0 ELSE id,
                     status |-> status]]
    /\ events' = IF sub = "on"
                 THEN Append(events, [kind |-> kind, svc |-> s, id |-> id])
                 ELSE events
    /\ UNCHANGED <<sub, cache, initVars, loopVars, waiter, faults>>

Create(s)  == /\ docker[s].status = "none"
              /\ Change(s, "create", docker[s].ver + 1, "created")
Start(s)   == /\ docker[s].status \in {"created", "exited"}
              /\ Change(s, "start", docker[s].id, "running")
Die(s)     == /\ docker[s].status = "running"
              /\ Change(s, "die", docker[s].id, "exited")
Destroy(s) == /\ docker[s].status \in {"created", "exited"}
              /\ Change(s, "destroy", docker[s].id, "none")

Fault == faults < MaxFaults /\ faults' = faults + 1

-----------------------------------------------------------------------------
(* A variant without condRunning.Broadcast().                              *)
SetContainerNoBroadcast(s, c) ==
    /\ cache' = [cache EXCEPT ![s] = c]
    /\ waiter' = [w \in Waiters |->
           IF /\ waiter[w].pc = "asleep" /\ waiter[w].svc = s
              /\ waiter[w].cond = "created" /\ Exists(c)
           THEN [waiter[w] EXCEPT !.pc = "check"]
           ELSE waiter[w]]

(* setContainer: the store and, when the new container satisfies their     *)
(* condition, the wake-up of the goroutines asleep on it.                  *)
SetContainer(s, c) ==
    /\ cache' = [cache EXCEPT ![s] = c]
    /\ waiter' = [w \in Waiters |->
           IF /\ waiter[w].pc = "asleep" /\ waiter[w].svc = s
              /\ Satisfies(c, waiter[w].cond)
           THEN [waiter[w] EXCEPT !.pc = "check"]
           ELSE waiter[w]]

(* initContainer, started by the constructor of every service.             *)
InitInspect(s) ==
    /\ initGo[s] = "inspect"
    /\ \/ /\ Exists(docker[s])
          /\ initGo' = [initGo EXCEPT ![s] = "set"]
          /\ initSnap' = [initSnap EXCEPT ![s] = docker[s]]
          /\ UNCHANGED faults
       \/ /\ \/ ~ Exists(docker[s]) /\ UNCHANGED faults
             \/ Exists(docker[s]) /\ Fault
          /\ initGo' = [initGo EXCEPT ![s] = "done"]
          /\ UNCHANGED initSnap
    /\ UNCHANGED <<dockerVars, sub, cache, loopVars, waiter>>

InitSet(s) ==
    /\ initGo[s] = "set"
    /\ SetContainer(s, initSnap[s])
    /\ initGo' = [initGo EXCEPT ![s] = "done"]
    /\ UNCHANGED <<dockerVars, sub, initSnap, loopVars, faults>>

-----------------------------------------------------------------------------
(* listenForDockerEvents.  The services exist, and their initContainer may *)
(* have run, before client.Events subscribes.                              *)
Subscribe ==
    /\ sub = "off"
    /\ sub' = "on"
    /\ UNCHANGED <<dockerVars, cache, initVars, loopVars, waiter, faults>>

(* The stream fails: the loop ends for good and what it had not received   *)
(* is lost.                                                                *)
StreamError ==
    /\ sub # "broken" /\ loop = "idle"
    /\ Fault
    /\ sub' = "broken"
    /\ events' = <<>>
    /\ UNCHANGED <<docker, cache, initVars, loopVars, waiter>>

(* A variant that keeps the event's action as the next step.               *)
LoopTakeByAction ==
    /\ sub = "on" /\ loop = "idle" /\ events # <<>>
    /\ ev' = Head(events)
    /\ events' = Tail(events)
    /\ loop' = Head(events).kind
    /\ UNCHANGED <<docker, sub, cache, initVars, snap, waiter, faults>>

LoopTake ==
    /\ sub = "on" /\ loop = "idle" /\ events # <<>>
    /\ ev' = Head(events)
    /\ events' = Tail(events)
    /\ loop' = IF Head(events).kind = "destroy" THEN "match" ELSE "resolve"
    /\ UNCHANGED <<docker, sub, cache, initVars, snap, waiter, faults>>

GoInspect     == loop' = "inspect" /\ UNCHANGED <<ev, snap>>
IterationEnds == loop' = "idle" /\ ev' = NoEvent /\ snap' = Nil

(* A variant without the case "die".                                       *)
LoopResolveNoDie ==
    /\ loop = "resolve"
    /\ IF Exists(docker[ev.svc]) /\ docker[ev.svc].id = ev.id
          /\ ev.svc \in Listeners /\ ev.kind # "die"
       THEN GoInspect ELSE IterationEnds
    /\ UNCHANGED <<dockerVars, sub, cache, initVars, waiter, faults>>

(* id2name inspects by id; the name found selects the listener.            *)
Named(e) == /\ Exists(docker[e.svc]) /\ docker[e.svc].id = e.id
            /\ e.svc \in Listeners

LoopResolve ==
    /\ loop = "resolve"
    /\ \/ Named(ev) /\ GoInspect /\ UNCHANGED faults
       \/ ~ Named(ev) /\ IterationEnds /\ UNCHANGED faults
       \/ Named(ev) /\ IterationEnds /\ Fault
    /\ UNCHANGED <<dockerVars, sub, cache, initVars, waiter>>

(* A destroyed container is looked up by its cached id among all services, *)
(* and its service told that it died.                                      *)
LoopMatch ==
    /\ loop = "match"
    /\ IF Exists(cache[ev.svc]) /\ cache[ev.svc].id = ev.id
       THEN GoInspect ELSE IterationEnds
    /\ UNCHANGED <<dockerVars, sub, cache, initVars, waiter, faults>>

(* A variant without the return on an error: it stores the zero value.     *)
LoopInspectNoReturn ==
    /\ loop = "inspect"
    /\ snap' = IF Exists(docker[ev.svc]) THEN docker[ev.svc] ELSE Nil
    /\ loop' = "set"
    /\ UNCHANGED <<dockerVars, sub, cache, initVars, ev, waiter, faults>>

(* OnEvent inspects by name; an error leaves the cache as it was.          *)
LoopInspect ==
    /\ loop = "inspect"
    /\ \/ /\ Exists(docker[ev.svc])
          /\ snap' = docker[ev.svc]
          /\ loop' = "set"
          /\ UNCHANGED <<ev, faults>>
       \/ ~ Exists(docker[ev.svc]) /\ IterationEnds /\ UNCHANGED faults
       \/ Exists(docker[ev.svc]) /\ IterationEnds /\ Fault
    /\ UNCHANGED <<dockerVars, sub, cache, initVars, waiter>>

LoopSet ==
    /\ loop = "set"
    /\ SetContainer(ev.svc, snap)
    /\ IterationEnds
    /\ UNCHANGED <<dockerVars, sub, initVars, faults>>

-----------------------------------------------------------------------------
(* WaitContainer ("created") and WaitContainerRunning ("running").  The    *)
(* mutex makes the test and the wait that follows it one step.             *)
WaitCall(w, s, cond) ==
    /\ waiter[w].pc = "idle"
    /\ waiter' = [waiter EXCEPT ![w] = [pc |-> "check", svc |-> s,
                                        cond |-> cond]]
    /\ UNCHANGED <<dockerVars, sub, cache, initVars, loopVars, faults>>

WaitCheck(w) ==
    /\ waiter[w].pc = "check"
    /\ waiter' = [waiter EXCEPT ![w] =
                     IF Satisfies(cache[waiter[w].svc], waiter[w].cond)
                     THEN Away ELSE [waiter[w] EXCEPT !.pc = "asleep"]]
    /\ UNCHANGED <<dockerVars, sub, cache, initVars, loopVars, faults>>

DockerStep == \E s \in Services : Create(s) \/ Start(s) \/ Die(s) \/ Destroy(s)
InitStep(s) == InitInspect(s) \/ InitSet(s)
LoopStep == LoopTake \/ LoopResolve \/ LoopMatch \/ LoopInspect \/ LoopSet

Next ==
    \/ DockerStep
    \/ \E s \in Services : InitStep(s)
    \/ Subscribe \/ StreamError
    \/ LoopStep
    \/ \E w \in Waiters :
          \/ \E s \in Services, cond \in {"created", "running"} :
                WaitCall(w, s, cond)
          \/ WaitCheck(w)

Spec == Init /\ [][Next]_vars

(* The goroutines run; Docker and the callers need not.                    *)
Fairness == /\ \A s \in Services : WF_vars(InitStep(s))
            /\ WF_vars(Subscribe) /\ WF_vars(LoopStep)
            /\ \A w \in Waiters : WF_vars(WaitCheck(w))

FairSpec == Spec /\ Fairness

-----------------------------------------------------------------------------
(* Properties.                                                             *)

(* Nobody sleeps in WaitContainer or WaitContainerRunning while the cached *)
(* container is already what it waits for: the broadcasts of setContainer  *)
(* cover every store that can satisfy a waiter.                            *)
NoLostWakeup ==
    \A w \in Waiters : waiter[w].pc = "asleep" =>
        ~ Satisfies(cache[waiter[w].svc], waiter[w].cond)

Pending(s) == \E i \in 1..Len(events) : events[i].svc = s

(* Nothing is under way for s, and nothing has failed so far.              *)
Settled(s) == /\ sub = "on" /\ loop = "idle" /\ faults = 0
              /\ initGo[s] = "done" /\ ~ Pending(s)

(* When nothing is under way, the cache of a listening service shows what  *)
(* Docker has, unless it still shows what initContainer read: inspecting   *)
(* by name on each event never leaves an intermediate state behind.        *)
SettledFresh ==
    \A s \in Listeners : Settled(s) /\ Exists(docker[s]) =>
        cache[s] \in {docker[s], initSnap[s]}

(* The cache goes back to an older state of a container only through the   *)
(* startup inspect: either it is stored over a newer container, or an      *)
(* inspect of the loop that was under way is stored over it.  The loop     *)
(* alone never shows a service's history out of order.                     *)
BackwardOnlyAtStartup ==
    [][\A s \in Services : cache'[s].ver < cache[s].ver =>
          initSnap[s] # Nil /\ initSnap[s] \in {cache[s], cache'[s]}]_vars

(* Without failures the cache of a listening service ends up at what       *)
(* Docker ends up with, or at what initContainer read.                     *)
Converges ==
    [](faults = 0) =>
        \A s \in Listeners : <>[](Exists(docker[s]) =>
                                     cache[s] \in {docker[s], initSnap[s]})

(* A waiter whose condition holds in the cache from some time on returns.  *)
WaiterReturns ==
    \A w \in Waiters, s \in Services, cond \in {"created", "running"} :
        <>[]Satisfies(cache[s], cond) =>
            []<>(waiter[w] # [pc |-> "asleep", svc |-> s, cond |-> cond]
                 /\ waiter[w] # [pc |-> "check", svc |-> s, cond |-> cond])

(* OnEvent has a case "destroy" for a destroyed container, which sets the  *)
(* container to nil.  Handling the destroy of a container the cache shows  *)
(* clears it, unless the name has a new container.                         *)
DestroyClears ==
    [][/\ ev.kind = "destroy" /\ loop \in {"inspect", "set"} /\ loop' = "idle"
       /\ ~ Exists(docker[ev.svc])
       => cache'[ev.svc] = Nil]_vars

(* The abstract specification of the cache: two samplers per name.         *)
View == INSTANCE ContainerView WITH
    Absent <- {c \in Container : ~ Exists(c)},
    first <- [s \in Services |-> IF initGo[s] = "set" THEN initSnap[s] ELSE Nil],
    started <- [s \in Services |-> initGo[s] # "inspect"],
    later <- [s \in Services |-> IF loop = "set" /\ ev.svc = s THEN snap ELSE Nil]

ImplementsView == View!Spec
=============================================================================
